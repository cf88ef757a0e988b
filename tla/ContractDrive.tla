---- MODULE ContractDrive ----
(***************************************************************************)
(* examples/contract_drive.py: two subscriptions, a timer, and on_stop.    *)
(***************************************************************************)
EXTENDS DriveScene

VARIABLES
    travelled,    \* _travelled
    node          \* running, asked to stop, or down

contractOwn == <<travelled, node>>
contractVars == <<sceneVars, contractOwn>>

ContractTypeOK ==
    /\ SceneTypeOK
    /\ travelled \in 0..Limit
    /\ node \in {"running", "stopping", "down"}
    /\ node = "stopping" => origin # NoPose

ContractInit == SceneInit /\ travelled = 0 /\ node = "running"

Covered(from, to) == IF from <= to THEN to - from ELSE from - to

\* A plausible slip: the origin follows the robot.
OnOdometryMoved ==
    /\ node # "down"
    /\ PoseComes
    /\ origin' = position
    /\ travelled' = Covered(origin', position)
    /\ UNCHANGED node

\* The first pose is the origin.
OnOdometry ==
    /\ node # "down"
    /\ PoseComes
    /\ origin' = IF origin = NoPose THEN position ELSE origin
    /\ travelled' = Covered(origin', position)
    /\ UNCHANGED node

Arrived == blocked \/ travelled >= Distance

\* A plausible slip: the return behind stop() is missing.
TickGoesOn ==
    /\ node = "running" /\ origin # NoPose
    /\ Looks("forward")
    /\ node' = IF Arrived THEN "stopping" ELSE node
    /\ UNCHANGED travelled

\* The timer; before the first pose it does nothing. stop() ends the timer.
OnTick ==
    /\ node = "running" /\ origin # NoPose
    /\ IF Arrived THEN Looks("zero") /\ node' = "stopping"
                  ELSE Looks("forward") /\ UNCHANGED node
    /\ UNCHANGED travelled

\* The node goes down, by its own stop() or from outside.
OnStop ==
    /\ node # "down"
    /\ node' = "down" /\ last' = "zero"
    /\ UNCHANGED <<world, pose, events, told, polled, origin, blocked, travelled>>

OnZone(event) == node # "down" /\ OnCollisionZone(event) /\ UNCHANGED contractOwn

ContractNext ==
    \/ Scene /\ UNCHANGED contractOwn
    \/ OnOdometry \/ (\E e \in CollisionZoneEvent : OnZone(e))
    \/ OnTick \/ OnStop

ContractSpec == ContractInit /\ [][ContractNext]_contractVars
====
