---- MODULE StopButton ----
(***************************************************************************)
(* emergency_stop(): a client publishes a press of the cancel button, and  *)
(* the safety node, the coordinator and the fleet bridge act on it, each   *)
(* by itself. Between them is a lossy link that may deliver a press        *)
(* several times, late and out of order, so consumers deduplicate on       *)
(* (source_id, seq), as ButtonEvent tells them to.                         *)
(***************************************************************************)
EXTENDS Naturals

CONSTANTS
    Source,        \* names of the nodes that have a client; source_id
    Consumer,      \* those that act on a press
    MaxPresses,    \* bound: presses of one node
    MaxLives       \* bound: clients that one node makes, one after the other

ASSUME ButtonAssumption == MaxPresses \in Nat /\ MaxLives \in Nat \ {0}

VARIABLES
    life,         \* per node: which of its clients this is
    cancelSeq,    \* per node: _cancel_seq
    presses,      \* history: presses per node
    wire,         \* per consumer: the events that may still reach it
    known,        \* per consumer: the (source_id, seq) it has acted on
    reached,      \* history, per consumer: the presses that came through
    acted         \* history, per consumer: how often it acted on a press

buttonVars == <<life, cancelSeq, presses, wire, known, reached, acted>>

\* A press, by name: the node that made it, and which of its presses it is.
Press == Source \X (1 .. MaxPresses)

ButtonEvent(source, seq) == [source_id |-> source, seq |-> seq]
Events == [source_id : Source, seq : 1 .. MaxPresses]

ButtonTypeOK ==
    /\ life \in [Source -> 1 .. MaxLives]
    /\ cancelSeq \in [Source -> 0 .. MaxPresses]
    /\ presses \in [Source -> 0 .. MaxPresses]
    /\ wire \in [Consumer -> SUBSET [press : Press, event : Events]]
    /\ known \in [Consumer -> SUBSET Events]
    /\ reached \in [Consumer -> SUBSET Press]
    /\ acted \in [Consumer -> [Press -> 0 .. 2]]

ButtonInit ==
    /\ life = [s \in Source |-> 1]
    /\ cancelSeq = [s \in Source |-> 0]
    /\ presses = [s \in Source |-> 0]
    /\ wire = [c \in Consumer |-> {}]
    /\ known = [c \in Consumer |-> {}]
    /\ reached = [c \in Consumer |-> {}]
    /\ acted = [c \in Consumer |-> [p \in Press |-> 0]]

----
PutPress(s, seq) ==
    /\ presses[s] < MaxPresses
    /\ presses' = [presses EXCEPT ![s] = @ + 1]
    /\ wire' = [c \in Consumer |-> wire[c] \cup
                    {[press |-> <<s, presses'[s]>>, event |-> ButtonEvent(s, seq)]}]
    /\ UNCHANGED <<life, known, reached, acted>>

\* A plausible slip: the counter is set, not advanced.
EmergencyStopOnce(s) ==
    /\ cancelSeq' = [cancelSeq EXCEPT ![s] = 1]
    /\ PutPress(s, 1)

EmergencyStop(s) ==
    /\ cancelSeq' = [cancelSeq EXCEPT ![s] = @ + 1]
    /\ PutPress(s, cancelSeq'[s])

\* The node makes another client, or comes back from a restart, under the same
\* name. The consumers stay up.
NewClient(s) ==
    /\ life[s] < MaxLives
    /\ life' = [life EXCEPT ![s] = @ + 1]
    /\ cancelSeq' = [cancelSeq EXCEPT ![s] = 0]
    /\ UNCHANGED <<presses, wire, known, reached, acted>>

\* Sent again or not: a delivered event may come once more.
Deliver(c, m) ==
    /\ reached' = [reached EXCEPT ![c] = @ \cup {m.press}]
    /\ known' = [known EXCEPT ![c] = @ \cup {m.event}]
    /\ acted' = IF m.event \in known[c] THEN acted
                ELSE [acted EXCEPT ![c][m.press] = @ + 1]
    /\ UNCHANGED <<life, cancelSeq, presses, wire>>

Vanish(c, m) ==
    /\ wire' = [wire EXCEPT ![c] = @ \ {m}]
    /\ UNCHANGED <<life, cancelSeq, presses, known, reached, acted>>

ButtonNext ==
    \/ \E s \in Source : EmergencyStop(s) \/ NewClient(s)
    \/ \E c \in Consumer : \E m \in wire[c] : Deliver(c, m) \/ Vanish(c, m)

ButtonSpec == ButtonInit /\ [][ButtonNext]_buttonVars

----
(* Properties.                                                             *)

\* A press that reaches a consumer makes it act once: the re-sends of one press
\* are not several presses, presses of different nodes are not the same one,
\* and two presses of one client are two, in whatever order they arrive
\* (safety.py:97-113, client.py:535-536).
PressesCount ==
    \A c \in Consumer : \A p \in reached[c] :
        /\ acted[c][p] <= 1
        /\ life[p[1]] = 1 => acted[c][p] = 1

\* What a test says of the counter, without the exception: two deliberate stops
\* do not look like one press delivered twice (tests/test_client.py:228-229).
StopsAreDistinct ==
    \A c \in Consumer : \A p \in reached[c] : acted[c][p] = 1
====
