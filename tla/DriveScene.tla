---- MODULE DriveScene ----
(***************************************************************************)
(* What is around a node that drives a fixed distance: a robot that        *)
(* follows its last command, the odometry of it, and a collision monitor   *)
(* that reports every zone it finds breached or clear. All of it external, *)
(* and shared by ContractDrive and ClientDrive, with the two attributes    *)
(* that both nodes have.                                                   *)
(***************************************************************************)
EXTENDS Integers, Sequences

CONSTANTS
    Zone,         \* collision zones of the deployment
    Distance,     \* DriveConfig.distance, in robot steps
    Limit,        \* bound: where the track ends
    MaxEvents     \* bound: zone events under way at once

ASSUME SceneAssumption ==
    /\ Distance \in Nat \ {0} /\ Limit \in Nat \ {0} /\ MaxEvents \in Nat

VARIABLES
    position,     \* where the robot is
    start,        \* history: where it was when the node came up
    odometry,     \* are poses being published?
    pose,         \* the last one the node received, or NoPose
    breached,     \* the zones an obstacle is in
    events,       \* zone events on their way, oldest first
    told,         \* the zones the node was told are breached
    polled,       \* the node has looked since the robot last moved
    last,         \* the last command the node published
    origin,       \* the node: where the drive began, NoPose for None
    blocked       \* the node: _blocked

world == <<position, start, odometry, breached>>
sceneVars == <<position, start, odometry, pose, breached, events, told, polled, last,
               origin, blocked>>

NoPose == -1

CollisionZoneEvent == [zone_name : Zone, active : BOOLEAN]

SceneTypeOK ==
    /\ position \in 0..Limit /\ start \in 0..Limit /\ odometry \in BOOLEAN /\ pose \in {NoPose} \cup 0..Limit
    /\ breached \subseteq Zone /\ told \subseteq Zone
    /\ events \in Seq(CollisionZoneEvent) /\ Len(events) <= MaxEvents
    /\ polled \in BOOLEAN /\ last \in {"none", "forward", "zero"}
    /\ origin \in {NoPose} \cup 0..Limit /\ blocked \in BOOLEAN

SceneInit ==
    /\ position \in {0, 1} /\ start = position /\ odometry = TRUE /\ pose = NoPose
    /\ breached = {} /\ events = <<>> /\ told = {}
    /\ polled = FALSE /\ last = "none"
    /\ origin = NoPose /\ blocked = FALSE

\* The robot gets a step further between two looks of the node at most: poses
\* and looks come at 20 Hz and 10 Hz.
Moves ==
    /\ last = "forward" /\ polled /\ position < Limit
    /\ position' = position + 1
    /\ polled' = FALSE
    /\ UNCHANGED <<start, odometry, pose, breached, events, told, last, origin, blocked>>

OdometryStops ==
    /\ odometry /\ odometry' = FALSE
    /\ UNCHANGED <<position, start, pose, breached, events, told, polled, last, origin, blocked>>

\* An obstacle enters a zone, or leaves it.
ZoneChanges(z) ==
    /\ Len(events) < MaxEvents
    /\ breached' = IF z \in breached THEN breached \ {z} ELSE breached \cup {z}
    /\ events' = Append(events, [zone_name |-> z, active |-> z \notin breached])
    /\ UNCHANGED <<position, start, odometry, pose, told, polled, last, origin, blocked>>

Scene == Moves \/ OdometryStops \/ \E z \in Zone : ZoneChanges(z)

\* The part of a handler that is delivery: a pose, and a zone event. What the
\* node makes of it is the handler's.
PoseComes ==
    /\ odometry /\ pose # position
    /\ pose' = position
    /\ UNCHANGED <<world, events, told, polled, last, blocked>>

EventComes(event) ==
    /\ events # <<>> /\ event = Head(events)
    /\ events' = Tail(events)
    /\ told' = IF event.active THEN told \cup {event.zone_name} ELSE told \ {event.zone_name}
    /\ UNCHANGED <<world, pose, polled, last, origin>>

\* While poses are published, the newest one is here before the node looks.
UpToDate == odometry => pose = position

Looks(command) ==
    /\ UpToDate
    /\ polled' = TRUE /\ last' = command
    /\ UNCHANGED <<world, pose, events, told, origin, blocked>>

\* The handler of either node: one flag for all zones.
OnCollisionZone(event) == EventComes(event) /\ blocked' = event.active
====
