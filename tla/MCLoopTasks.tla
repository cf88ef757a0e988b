---- MODULE MCLoopTasks ----
(***************************************************************************)
(* The tasks that the SDK spawns on an event loop, and that are cancelled, *)
(* retargeted or overtaken there: the pump of a held posture, the pumps of *)
(* driving blocks, and the runners of the navigation double. They share no *)
(* state, so a behaviour is about one of the three and the other two stay  *)
(* as they were.                                                           *)
(***************************************************************************)
EXTENDS TiltPump, DriveBlock, FakeNav

VARIABLE
    whose      \* the tasks this behaviour is about

loopVars == <<tiltVars, blockVars, vars, whose>>

\* While others are looked at, the double is in one state only.
AnyDouble == wakeHops = 1 /\ autoFinish = TRUE /\ serial = TRUE

LoopInit ==
    /\ whose \in {"posture", "velocity", "double"}
    /\ TiltInit /\ BlockInit /\ Init
    /\ whose # "double" => AnyDouble

LoopNext ==
    \/ whose = "posture" /\ TiltNext /\ UNCHANGED <<blockVars, vars>>
    \/ whose = "velocity" /\ BlockNext /\ UNCHANGED <<tiltVars, vars>>
    \/ whose = "double" /\ Next /\ UNCHANGED <<tiltVars, blockVars>>

\* One loop runs them all: ready tasks run and due timers fire.
LoopSpec ==
    /\ LoopInit
    /\ [][LoopNext /\ UNCHANGED whose]_loopVars
    /\ TiltFairness /\ BlockFairness /\ DoubleFairness
====
