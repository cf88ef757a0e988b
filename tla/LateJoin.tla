---- MODULE LateJoin ----
(***************************************************************************)
(* A subscriber of one of the topics, whichever, that joins at any time:   *)
(* what it holds, and what is true. A level comes by replay, by the next   *)
(* change, or when it is sent again; an event that is over does not come.  *)
(***************************************************************************)
EXTENDS Beacon, Topics

VARIABLES
    topic,    \* what is declared of the topic
    calm,     \* ticks since the producer crashed, or, if it is up, since the
              \* subscriber joined and the last change, loss or restart
    news,     \* was anything published since the subscriber joined?
    whole     \* nothing was lost since the last change, and if that was before
              \* the subscriber joined, the producer participates

joinVars == <<beaconVars, topic, calm, news, whole>>

JoinTypeOK ==
    /\ BeaconTypeOK
    /\ topic \in [level : BOOLEAN, latched : BOOLEAN, again : BOOLEAN]
    /\ calm \in 0 .. Horizon /\ news \in BOOLEAN /\ whole \in BOOLEAN

\* A producer that participates replays its last message to whoever joins.
JoinInit ==
    /\ BeaconInit
    /\ \E set \in Registry : \E name \in DOMAIN set :
          /\ topic = set[name]
          /\ whole \in {TRUE, (name \in Participates)}
    /\ kind.beats = topic.again
    /\ link # <<>> <=> whole /\ topic.latched
    /\ calm = 0 /\ news = FALSE

----
Producer ==
    /\ \/ /\ \E l \in Level : Change(l) \/ Restart(l)
          /\ news' = TRUE /\ whole' = TRUE
       \/ Crash /\ UNCHANGED <<news, whole>>
    /\ calm' = 0
    /\ UNCHANGED topic

\* What is sent again makes good for what was lost.
SendsAgain ==
    /\ Restate
    /\ news' = TRUE
    /\ UNCHANGED <<topic, calm, whole>>

Loss(i) ==
    /\ Lose(i)
    /\ whole' = FALSE
    /\ calm' = IF up THEN 0 ELSE calm
    /\ UNCHANGED <<topic, news>>

Arrives(i) == Receive(i) /\ UNCHANGED <<topic, calm, news, whole>>

TimePasses == Tick /\ calm' = Older(calm) /\ UNCHANGED <<topic, news, whole>>

JoinNext ==
    \/ Producer \/ SendsAgain \/ TimePasses
    \/ \E i \in DOMAIN link : Loss(i) \/ Arrives(i)

JoinSpec == JoinInit /\ [][JoinNext]_joinVars

----
(* Properties.                                                             *)

\* Whoever joins catches up: a level that is sent again is known a beat and two
\* delays after the last change, loss or crash, with or without a replay; one
\* that is not, if it is replayed or has changed since, and was not lost or
\* overtaken. An event of before is never heard: nobody stops for a press that
\* was made before he came (topics.py:21-27, 127-135, 191-195, 318-322,
\* 338-343, 420-422).
JoinersCatchUp ==
    /\ up /\ topic.level /\ calm > Beat + 2 * MaxDelay
       /\ (topic.again \/ (whole /\ ~kind.reorders))
       => latest.value = level
    /\ ~topic.level /\ ~news => latest.value = NoLevel

\* The age of a Latest means something: a producer that is gone for a window
\* and a delay is not taken for fresh, on whatever topic, and one that is there
\* and sends again is taken for fresh in every moment, though it has nothing
\* new to say, if the window holds a beat and a delay. So silence is told
\* from "nothing has changed" wherever there is a heartbeat or a stream, the
\* feedback of a task included (client.py:130-141, 776-784, topics.py:133-135,
\* 318-322).
AgeIsHonest ==
    /\ ~up /\ calm = Horizon => ~Fresh
    /\ up /\ topic.again /\ calm > Beat + 2 * MaxDelay /\ Beat + MaxDelay <= Within => Fresh
====
