---- MODULE MotionGateway ----
(***************************************************************************)
(* Clients that keep a velocity alive by publishing, the gateway that      *)
(* forwards the highest-ranking fresh command, and what a client reads of  *)
(* the gateway's decision. The gateway and the robot bridge are external:  *)
(* they do what topics.py and msgs/motion.py say of them. One tick is      *)
(* 0.1 s, the period of DRIVE_RATE_HZ.                                     *)
(***************************************************************************)
EXTENDS MovementSources, FiniteSetsExt

CONSTANTS
    Client,          \* processes that drive
    SourceOf,        \* the MovementSource each of them stamps on its commands
    MaxAge,          \* COMMAND_MAX_AGE in ticks
    CommandDelay,    \* how old a command can be when it arrives
    Period,          \* ticks between two passes of a pump
    StatusBeat       \* ticks between two gateway heartbeats

ASSUME GatewayAssumption ==
    /\ Nobody \notin Client
    /\ SourceOf \in [Client -> SourceNames]
    /\ MaxAge \in Nat /\ CommandDelay \in 0..MaxAge
    /\ Period \in Nat \ {0} /\ StatusBeat \in Nat \ {0}

VARIABLES
    block,     \* whether a client drives, does not, or has crashed
    timer,     \* ticks until its pump publishes again
    missed,    \* its last command was dropped on the way
    arrived,   \* a command of its current block has arrived
    slot,      \* the gateway: the last command of each source, and its age
    gateway,   \* is the gateway up?
    heartbeat, \* ticks until it states its decision again
    decision,  \* the decision it stated last
    output,    \* whose velocity the robot got last, and how long ago
    view,      \* the clients' view: the last stated active source they received
    skipped,   \* the last statement was dropped on the way
    gone,      \* ticks since a client crashed
    reign      \* ticks for which the decision has been the same

driveVars == <<block, timer, missed, arrived>>
gatewayVars == <<slot, gateway, heartbeat, decision, output>>
viewVars == <<view, skipped>>
ghosts == <<gone, reign>>
wheelVars == <<driveVars, gatewayVars, viewVars, ghosts>>

\* A plausible slip: a topic without a max_age.
FreshForTooLong(age) == age <= MaxAge + 1

\* MotionTopics.request and .move carry max_age = COMMAND_MAX_AGE.
FreshCommand(age) == age <= MaxAge

FreshSources(s) == {src \in SourceNames : s[src].by # Nobody /\ FreshCommand(s[src].age)}

\* The source the gateway forwards, given the commands it holds.
Active(s) ==
    IF FreshSources(s) = {} THEN Nobody
    ELSE CHOOSE src \in FreshSources(s) :
             \A other \in FreshSources(s) \ {src} : Outranks(src, other)

\* Whose velocity that is: nobody's for a zero command.
Forwarded(s) ==
    IF Active(s) = Nobody \/ s[Active(s)].zero THEN Nobody ELSE s[Active(s)].by

\* Whose velocity the robot executes.
Driven == IF FreshCommand(output.age) THEN output.by ELSE Nobody

\* Ages of the two history variables are counted up to here.
GoneLimit == 2 * MaxAge + 1
ReignLimit == StatusBeat + 1

Command == [by : Client \cup {Nobody}, zero : BOOLEAN, age : 0..MaxAge + 1]

GatewayTypeOK ==
    /\ block \in [Client -> {"out", "in", "crashed"}]
    /\ timer \in [Client -> 0..Period]
    /\ missed \in [Client -> BOOLEAN] /\ arrived \in [Client -> BOOLEAN]
    /\ slot \in [SourceNames -> Command]
    /\ gateway \in BOOLEAN
    /\ heartbeat \in 0..StatusBeat
    /\ decision \in SourceNames \cup {Nobody}
    /\ output \in [by : Client \cup {Nobody}, age : 0..MaxAge + 1]
    /\ view \in SourceNames \cup {Nobody} /\ skipped \in BOOLEAN
    /\ gone \in [Client -> 0..GoneLimit] /\ reign \in 0..ReignLimit

NoneOfThem == [c \in Client |-> FALSE]
Silent  == [src \in SourceNames |-> [by |-> Nobody, zero |-> TRUE, age |-> MaxAge + 1]]

GatewayInit ==
    /\ block = [c \in Client |-> "out"]
    /\ timer = [c \in Client |-> 0]
    /\ missed = NoneOfThem
    /\ arrived = NoneOfThem
    /\ slot = Silent
    /\ gateway = TRUE
    /\ heartbeat = StatusBeat
    /\ decision = Nobody
    /\ output = [by |-> Nobody, age |-> 0]
    /\ view = Nobody /\ skipped = FALSE
    /\ gone = [c \in Client |-> 0]
    /\ reign = 0

----
(* The gateway decides anew on every command and on every tick.            *)

Decide ==
    /\ output' = [by |-> Forwarded(slot'), age |-> 0]
    /\ reign' = IF Active(slot') = Active(slot) THEN reign ELSE 0

Keep(c, zero, age) ==
    slot' = [slot EXCEPT ![SourceOf[c]] = [by |-> c, zero |-> zero, age |-> age]]

\* A command arrives, or is dropped; never two in a row of the same client.
Arrives(c, zero) ==
    /\ \E age \in 0..CommandDelay : Keep(c, zero, age)
    /\ missed' = [missed EXCEPT ![c] = FALSE]
    /\ arrived' = [arrived EXCEPT ![c] = ~zero]

Dropped(c, zero) ==
    /\ ~missed[c]
    /\ missed' = [missed EXCEPT ![c] = TRUE]
    /\ arrived' = [arrived EXCEPT ![c] = @ /\ ~zero]
    /\ UNCHANGED slot

\* What is put while there is no gateway is heard by nobody.
Put(c, zero) ==
    /\ IF gateway THEN (Arrives(c, zero) \/ Dropped(c, zero)) /\ Decide
                  ELSE UNCHANGED <<missed, arrived, slot, output, reign>>
    /\ UNCHANGED <<gateway, heartbeat, decision, viewVars, gone>>

----
Enter(c) ==
    /\ block[c] = "out"
    /\ block' = [block EXCEPT ![c] = "in"]
    /\ timer' = [timer EXCEPT ![c] = 0]
    /\ UNCHANGED <<missed, arrived, gatewayVars, viewVars, ghosts>>

\* A plausible slip: a rate that only just beats the deadman.
PumpSlowly(c) ==
    /\ block[c] = "in"
    /\ timer[c] = 0
    /\ Put(c, FALSE)
    /\ timer' = [timer EXCEPT ![c] = Period + 1]
    /\ UNCHANGED block

\* A pass of the pump of driving().
Pump(c) ==
    /\ block[c] = "in"
    /\ timer[c] = 0
    /\ Put(c, FALSE)
    /\ timer' = [timer EXCEPT ![c] = Period]
    /\ UNCHANGED block

\* driving() ends: one zero command.
Leave(c) ==
    /\ block[c] = "in"
    /\ block' = [block EXCEPT ![c] = "out"]
    /\ timer' = [timer EXCEPT ![c] = 0]
    /\ Put(c, TRUE)

CrashClient(c) ==
    /\ block[c] = "in"
    /\ block' = [block EXCEPT ![c] = "crashed"]
    /\ timer' = [timer EXCEPT ![c] = 0]
    /\ arrived' = [arrived EXCEPT ![c] = FALSE]
    /\ UNCHANGED <<missed, gatewayVars, viewVars, ghosts>>

\* The gateway states its decision when it changes and on its heartbeat; one
\* statement may be dropped on the way, never two in a row.
State ==
    /\ gateway
    /\ decision # Active(slot) \/ heartbeat = 0
    /\ decision' = Active(slot)
    /\ heartbeat' = StatusBeat
    /\ \/ view' = Active(slot) /\ skipped' = FALSE
       \/ ~skipped /\ skipped' = TRUE /\ UNCHANGED view
    /\ UNCHANGED <<driveVars, slot, gateway, output, ghosts>>

\* What it knew goes with it.
CrashGateway ==
    /\ gateway
    /\ gateway' = FALSE
    /\ slot' = Silent /\ missed' = NoneOfThem /\ arrived' = NoneOfThem
    /\ heartbeat' = 0 /\ decision' = Nobody /\ reign' = 0
    /\ UNCHANGED <<block, timer, output, viewVars, gone>>

Aged(age, limit) == IF age = limit THEN age ELSE age + 1

\* Pumps are on time, and the gateway states what it owes before time passes.
GatewayTick ==
    /\ \A c \in Client : block[c] = "in" => timer[c] > 0
    /\ gateway => decision = Active(slot) /\ heartbeat > 0
    /\ timer' = [c \in Client |-> IF timer[c] = 0 THEN 0 ELSE timer[c] - 1]
    /\ slot' = [src \in SourceNames |-> [slot[src] EXCEPT !.age = Aged(@, MaxAge + 1)]]
    /\ heartbeat' = IF gateway THEN heartbeat - 1 ELSE 0
    /\ output' = IF gateway THEN [by |-> Forwarded(slot'), age |-> 0]
                 ELSE [output EXCEPT !.age = Aged(@, MaxAge + 1)]
    /\ gone' = [c \in Client |-> IF block[c] = "crashed" THEN Aged(gone[c], GoneLimit) ELSE 0]
    /\ reign' = IF gateway /\ Active(slot') = Active(slot) THEN Aged(reign, ReignLimit) ELSE 0
    /\ UNCHANGED <<block, missed, arrived, gateway, decision, viewVars>>

GatewayNext ==
    \/ \E c \in Client : Enter(c) \/ Pump(c) \/ Leave(c) \/ CrashClient(c)
    \/ State \/ CrashGateway \/ GatewayTick

GatewaySpec == GatewayInit /\ [][GatewayNext]_wheelVars

----
(* What a client reads of the decision.                                    *)

\* RobotClient.driving_now: no look at the age of the status.
ReadsDriving(c) == view = SourceOf[c]

\* A plausible slip: the ranks compared the wrong way round.
ReadsPreemptedByLower(c) == view # Nobody /\ Outranks(SourceOf[c], view)

\* RobotClient.preempted_by is not None.
ReadsPreempted(c) == view # Nobody /\ Outranks(view, SourceOf[c])

----
(* Properties.                                                             *)

\* The deadman: a robot executes the velocity of a client that has crashed
\* for one span of COMMAND_MAX_AGE, and for a second one if the gateway dies
\* with it (topics.py:72-78).
Deadman ==
    \A c \in Client : Driven = c /\ block[c] = "crashed" =>
        gone[c] <= (IF gateway THEN MaxAge ELSE 2 * MaxAge)

\* Nobody stays at the wheel by being lower: as soon as a command of its block
\* has arrived, a driving client is what the robot follows, without a gap for
\* a dropped command, unless a client of its rank or a higher one has a
\* command that is still fresh; and it is followed again by itself once that
\* one has gone silent (client.py:68-70, client.py:285-290).
DriverKeepsWheel ==
    \A c \in Client :
        \/ ~gateway \/ ~arrived[c] \/ block[c] # "in" \/ Driven = c
        \/ \E src \in FreshSources(slot) :
               slot[src].by # c /\ ~Outranks(SourceOf[c], src)

\* What a client reads of a decision that has stood for a heartbeat is that
\* decision, though its first statement was lost and its age is never looked
\* at, as long as there is a gateway: who reads that it drives is forwarded
\* "currently", and exactly those read that they are preempted which the active
\* source outranks (client.py:270-295, topics.py:133-135).
DecisionIsKnown ==
    gateway /\ reign = ReignLimit =>
        \A c \in Client :
            /\ ReadsDriving(c) => Active(slot) = SourceOf[c]
            /\ ReadsPreempted(c) <=> Active(slot) # Nobody /\ Outranks(Active(slot), SourceOf[c])
====
