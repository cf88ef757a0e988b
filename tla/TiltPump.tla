---- MODULE TiltPump ----
(***************************************************************************)
(* The body posture of RobotClient: tilt, hold_tilt, clear_tilt, tilting,  *)
(* the pump task that re-asserts the setpoint, and the two ways to leave a *)
(* client. The blocks are those of any coroutines that share the client.   *)
(*                                                                         *)
(* hold_tilt is synchronous, so it is one step.  A pump is a task of the   *)
(* loop: it publishes the setpoint it finds, sleeps for a period, and can  *)
(* be cancelled in either place - also before its first step, and between  *)
(* its timer and the frame that was about to follow.                       *)
(***************************************************************************)
EXTENDS Naturals, Sequences, SequencesExt

CONSTANTS
    Lean,           \* postures other than level
    Level,          \* the all-zero TiltBody
    MaxPumps,       \* bound: pump tasks that exist at one time
    MaxBlocks       \* bound: tilting blocks open at one time

ASSUME LevelAssumption == Level \notin Lean
ASSUME PumpsAssumption == MaxPumps \in Nat \ {0} /\ MaxBlocks \in Nat

VARIABLES
    setpoint,   \* _tilt_setpoint
    pump,       \* _tilt_pump: a pump, or None
    task,       \* the state of every pump task
    shown,       \* the last frame put on the tilt key
    nudged,     \* that frame was a single one, from which the robot relaxes by itself
    blocks,     \* what each open tilting block will restore, the latest last
    tangled,    \* history: a block was closed before a later one, since standing
    standing,   \* the last setpoint asked for outside every block
    client,     \* open, left through __aexit__, or closed with connect()'s node
    failed      \* history: something raised since the setpoint was last held

held == <<setpoint, pump, task>>
frame == <<shown, nudged>>
scope == <<blocks, tangled, standing, client>>
tiltVars == <<held, frame, scope, failed>>

Posture == Lean \cup {Level}
Pumps   == 1 .. MaxPumps
None    == 0

\* A task is done before it is spawned and after it ended.
PumpState == {"done", "ready", "asleep", "cancelled"}
Alive(i) == task[i] \in {"ready", "asleep"}

TiltTypeOK ==
    /\ setpoint \in Posture
    /\ pump \in Pumps \cup {None}
    /\ task \in [Pumps -> PumpState]
    /\ shown \in Posture /\ nudged \in BOOLEAN
    /\ blocks \in Seq(Posture) /\ tangled \in BOOLEAN
    /\ standing \in Posture
    /\ client \in {"open", "left", "closed"}
    /\ failed \in BOOLEAN

TiltInit ==
    /\ setpoint = Level
    /\ pump = None
    /\ task = [i \in Pumps |-> "done"]
    /\ shown = Level /\ nudged = FALSE
    /\ blocks = <<>> /\ tangled = FALSE
    /\ standing = Level
    /\ client = "open"
    /\ failed = FALSE

----
(* hold_tilt, after the values were validated: a value out of range raises *)
(* before anything is assigned.                                            *)

\* A plausible slip: the pump is forgotten and keeps running.
ForgetPump == pump' = None /\ UNCHANGED task

\* _stop_tilt_pump: cancelled without awaiting, and forgotten.
StopPump ==
    /\ pump' = None
    /\ task' = IF pump # None /\ Alive(pump)
               THEN [task EXCEPT ![pump] = "cancelled"] ELSE task

\* A plausible slip: a new pump for every call.
SpawnPump ==
    \E i \in Pumps : /\ task[i] = "done"
                     /\ pump' = i
                     /\ task' = [task EXCEPT ![i] = "ready"]

\* A new pump, unless one is there that is not done.
EnsurePump ==
    IF pump = None \/ task[pump] = "done"
    THEN \E i \in Pumps : /\ task[i] = "done"
                          /\ pump' = i
                          /\ task' = [task EXCEPT ![i] = "ready"]
    ELSE UNCHANGED <<pump, task>>

\* A level setpoint stops the pump and is published once.
Hold(p) ==
    /\ setpoint' = p
    /\ failed' = FALSE
    /\ IF p = Level
       THEN StopPump /\ shown' = Level /\ nudged' = FALSE
       ELSE EnsurePump /\ UNCHANGED frame

\* p is what is asked for, from outside every block or from inside of one.
Asked(p) ==
    /\ IF blocks = <<>> THEN standing' = p /\ tangled' = FALSE ELSE UNCHANGED <<standing, tangled>>
    /\ UNCHANGED <<blocks, client>>

\* hold_tilt(p) by a caller, inside or outside a block; p = Level is clear_tilt.
HoldTilt(p) == client = "open" /\ Hold(p) /\ Asked(p)

\* 1.0 / rate_hz raises after the setpoint was assigned.
HoldTiltZeroRate(p) ==
    /\ client = "open"
    /\ setpoint' = p
    /\ failed' = TRUE
    /\ Asked(p)
    /\ UNCHANGED <<pump, task, frame>>

\* tilt(p): one frame, whatever is held.
Tilt(p) ==
    /\ client = "open"
    /\ shown' = p /\ nudged' = TRUE
    /\ UNCHANGED <<held, scope, failed>>

----
(* tilting(): blocks of one coroutine nest, those of several need not.     *)

EnterTilting(p) ==
    /\ client = "open"
    /\ Len(blocks) < MaxBlocks
    /\ blocks' = Append(blocks, setpoint)
    /\ Hold(p)
    /\ UNCHANGED <<tangled, standing, client>>

\* A plausible slip: levelling on the way out instead of restoring.
ExitLevelling(i) ==
    /\ blocks' = RemoveAt(blocks, i)
    /\ tangled' = (tangled \/ i # Len(blocks))
    /\ Hold(Level)
    /\ UNCHANGED <<standing, client>>

\* The setpoint that block i found on the way in is held again, whatever other
\* blocks are open.
ExitTilting(i) ==
    /\ blocks' = RemoveAt(blocks, i)
    /\ tangled' = (tangled \/ i # Len(blocks))
    /\ Hold(blocks[i])
    /\ UNCHANGED <<standing, client>>

----
(* The pump task.                                                          *)

\* A plausible slip: the pump repeats its frame instead of the setpoint.
PumpRepeats(i) ==
    /\ task[i] = "ready"
    /\ task' = [task EXCEPT ![i] = "asleep"]
    /\ UNCHANGED <<setpoint, pump, frame, scope, failed>>

\* One pass: the setpoint as it is now, then sleep.
PumpPublishes(i) ==
    /\ task[i] = "ready"
    /\ shown' = setpoint /\ nudged' = FALSE
    /\ task' = [task EXCEPT ![i] = "asleep"]
    /\ UNCHANGED <<setpoint, pump, scope, failed>>

PumpTimer(i) ==
    /\ task[i] = "asleep"
    /\ task' = [task EXCEPT ![i] = "ready"]
    /\ UNCHANGED <<setpoint, pump, frame, scope, failed>>

\* The cancellation is delivered: at the sleep, or before the first step.
PumpEnds(i) ==
    /\ task[i] = "cancelled"
    /\ task' = [task EXCEPT ![i] = "done"]
    /\ UNCHANGED <<setpoint, pump, frame, scope, failed>>

\* The put raises, and the task with it.
PumpDies(i) ==
    /\ task[i] = "ready"
    /\ task' = [task EXCEPT ![i] = "done"]
    /\ failed' = TRUE
    /\ UNCHANGED <<setpoint, pump, frame, scope>>

----
(* The two ways out. The blocks are closed by then.                        *)

\* __aexit__: clear_tilt.
LeaveClient ==
    /\ client = "open"
    /\ blocks = <<>>
    /\ client' = "left"
    /\ Hold(Level)
    /\ standing' = Level /\ tangled' = FALSE
    /\ UNCHANGED blocks

\* connect(): node.shutdown() ends the tasks and closes the session.
LeaveConnect ==
    /\ client = "open"
    /\ blocks = <<>>
    /\ client' = "closed"
    /\ task' = [i \in Pumps |-> "done"]
    /\ UNCHANGED <<setpoint, pump, frame, blocks, tangled, standing, failed>>

----
PumpStep(i) == PumpPublishes(i) \/ PumpEnds(i) \/ PumpDies(i)

TiltNext ==
    \/ \E p \in Posture : HoldTilt(p) \/ HoldTiltZeroRate(p) \/ Tilt(p) \/ EnterTilting(p)
    \/ \E i \in DOMAIN blocks : ExitTilting(i)
    \/ \E i \in Pumps : PumpStep(i) \/ PumpTimer(i)
    \/ LeaveClient \/ LeaveConnect

TiltSpec == TiltInit /\ [][TiltNext]_tiltVars

\* The loop runs ready tasks and fires due timers; callers owe nothing.
TiltFairness == \A i \in Pumps : WF_tiltVars(PumpStep(i) \/ PumpTimer(i))

----
(* Properties.                                                             *)

\* At most one pump is alive, and it is the one _tilt_pump names, so a later
\* call can stop it: retargeting does not leave a second pump behind, whatever
\* was cancelled or died before. And tilt_setpoint names what is being held: a
\* lean on record has that pump to assert it, unless a put or the call itself
\* raised (client.py:442-443, 471-472, 479-481, 512-518).
OnePump ==
    /\ \A i \in Pumps : Alive(i) => pump = i
    /\ client = "open" /\ ~failed /\ setpoint # Level => pump # None /\ Alive(pump)

\* While the setpoint is zero nothing is published, and the last frame that
\* was is the levelling one, or a nudge: no pump gets a word in after it, not
\* even one whose timer had already fired. Calls that raised are aside:
\* hold_tilt with rate_hz=0 assigns before it divides. A client that was left
\* is level in any case, and stays so: no posture outlives it
\* (client.py:444-447, 887-890, docs/driving.md:56-58, CHANGELOG.md:23).
LevelIsTheLastWord ==
    /\ client = "left" => setpoint = Level /\ ~nudged
    /\ setpoint = Level /\ (~failed \/ client = "left") =>
           (shown = Level \/ nudged) /\ \A i \in Pumps : ~Alive(i)

\* With every tilting block closed, the posture is the one that was asked for
\* outside of them, however they nested and whatever was held, cleared or
\* retargeted inside (client.py:489-491, 498-503). Blocks of several coroutines
\* that are closed out of order are aside: they restore one another's postures.
BlocksRestore == blocks = <<>> /\ ~tangled => setpoint = standing

\* Leaving the client leaves the robot level, whichever way its session ends,
\* but for a nudge that passes (CHANGELOG.md:23, client.py:888-889).
LeavesRobotLevel == client # "open" => shown = Level \/ nudged

\* A posture that is asked for reaches the robot, unless it is changed first:
\* retargeting a running pump needs no new one, and a nudge does not outlast it
\* (client.py:505-510).
SetpointReachesRobot ==
    \A p \in Posture : setpoint = p ~>
        \/ shown = p \/ (p = Level /\ nudged)
        \/ setpoint # p \/ failed \/ client = "closed"
====
