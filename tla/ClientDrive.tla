---- MODULE ClientDrive ----
(***************************************************************************)
(* examples/client_drive.py: the same drive as a background task, with     *)
(* driving() for the command and the client's Latest for the pose. The     *)
(* block of driving() is DriveBlock's; here its pump and its zero command  *)
(* are what the node publishes, and no put raises, of which DriveBlock     *)
(* tells what it does to the zero command. Beside its own stop() behind    *)
(* the drive, the node may be stopped from outside at any time, and the    *)
(* framework cancels the task it spawned.                                  *)
(***************************************************************************)
EXTENDS DriveScene

VARIABLES
    stale,        \* is odometry.age more than a second?
    preempted,    \* preempted_by is not None
    task          \* _run_drive: waiting for a pose, driving, or over

clientOwn == <<stale, preempted, task>>
clientVars == <<sceneVars, clientOwn>>

ClientTypeOK ==
    /\ SceneTypeOK
    /\ stale \in BOOLEAN /\ preempted \in BOOLEAN
    /\ task \in {"waiting", "driving", "over"}
    /\ task = "waiting" => origin = NoPose
    /\ task = "driving" => origin # NoPose

ClientInit == SceneInit /\ stale = FALSE /\ preempted = FALSE /\ task = "waiting"

----
(* What the client keeps of the world.                                     *)

PoseArrives == PoseComes /\ UNCHANGED <<origin, clientOwn>>

PoseAges ==
    /\ ~odometry /\ pose # NoPose /\ ~stale
    /\ stale' = TRUE
    /\ UNCHANGED <<sceneVars, preempted, task>>

StatusArrives ==
    /\ preempted' = ~preempted
    /\ UNCHANGED <<sceneVars, stale, task>>

----
(* The task.                                                               *)

\* A stale pose is no progress. Both poses are there by now.
TravelledFrom(from) ==
    IF stale THEN 0 ELSE IF from <= pose THEN pose - from ELSE from - pose

FirstPose ==
    /\ task = "waiting" /\ pose # NoPose
    /\ origin' = pose /\ task' = "driving"
    /\ UNCHANGED <<world, pose, events, told, polled, last, blocked, stale, preempted>>

GoesOn == ~blocked /\ TravelledFrom(origin) < Distance

\* A pass of the loop, every 0.1 s as the pump is: it goes on, or the block
\* is left and the robot halted.
Look ==
    /\ task = "driving"
    /\ IF GoesOn /\ ~preempted THEN Looks("forward") /\ UNCHANGED task
                               ELSE Looks("zero") /\ task' = "over"
    /\ UNCHANGED <<stale, preempted>>

\* The node is stopped from outside, and its task cancelled with it: there is
\* nothing to halt yet, or the block of driving() is left and halts the robot.
Cancelled ==
    /\ task # "over"
    /\ task' = "over"
    /\ last' = IF task = "driving" THEN "zero" ELSE last
    /\ UNCHANGED <<world, pose, events, told, polled, origin, blocked, stale, preempted>>

ClientNext ==
    \/ Scene /\ UNCHANGED clientOwn
    \/ PoseArrives \/ PoseAges \/ StatusArrives
    \/ \E e \in CollisionZoneEvent : OnCollisionZone(e) /\ UNCHANGED clientOwn
    \/ FirstPose \/ Look \/ Cancelled

ClientSpec == ClientInit /\ [][ClientNext]_clientVars
====
