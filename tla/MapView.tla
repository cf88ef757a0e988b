---- MODULE MapView ----
(***************************************************************************)
(* map_id(): the label that a node keeps beside a place, and compares with *)
(* when it goes back there, while maps are rebuilt, the localization       *)
(* source is lost or dies, and its statements are late or lost. Poses and  *)
(* identities come on two keys, and a node may read the label at any time: *)
(* also when the poses are on a map the client has not heard of yet.       *)
(***************************************************************************)
EXTENDS Beacon

CONSTANTS
    MapId,    \* ids of maps; no two maps have the same one
    NoMap     \* map_id is None; not one of them

MapIdentity(id, reachable) == [map_id |-> id, reachable |-> reachable]
MapLevels == {MapIdentity(id, r) : id \in MapId \cup {NoMap}, r \in BOOLEAN}

\* A plausible slip: the age is not looked at.
LastMapId == IF latest.value # NoLevel THEN latest.value.map_id ELSE NoMap

\* RobotClient.map_id, which does not look at reachable.
CurrentMapId == IF Fresh THEN latest.value.map_id ELSE NoMap

\* The map that poses are really given on: none without a source, and none
\* while a source states the last map it knew.
Frame == IF up /\ level.reachable THEN level.map_id ELSE NoMap

VARIABLE
    sincePoses       \* ticks since poses were last given on each map

mapVars == <<beaconVars, sincePoses>>

MapTypeOK ==
    /\ BeaconTypeOK
    /\ sincePoses \in [MapId -> 0..Horizon]

MapInit ==
    /\ BeaconInit
    /\ sincePoses = [m \in MapId |-> IF Frame = m THEN 0 ELSE Horizon]

----
Anchor == sincePoses' = [m \in MapId |-> IF Frame' = m THEN 0 ELSE sincePoses[m]]

\* An id that is seen again is the same map, loaded again.
Localization ==
    /\ \/ \E l \in MapLevels : Change(l) \/ Restart(l)
       \/ Restate
       \/ Crash
       \/ \E i \in DOMAIN link : Lose(i)
    /\ Anchor

HearMap(i) == Receive(i) /\ UNCHANGED sincePoses

MapPasses ==
    /\ Tick
    /\ sincePoses' = [m \in MapId |-> IF Frame = m THEN 0 ELSE Older(sincePoses[m])]

MapNext == Localization \/ (\E i \in DOMAIN link : HearMap(i)) \/ MapPasses

MapSpec == MapInit /\ [][MapNext]_mapVars

----
(* Properties.                                                             *)

\* What map_id() reads of a reachable source is the map of the poses, or was
\* it a window and a delay ago at most, at whatever moment it is asked and
\* whatever was late, lost, rebuilt or dead before. A place whose label is kept
\* at one moment and compared at another is off by that much at either end, and
\* not by more: None, and never "unchanged", for a map that is long gone
\* (client.py:326-348, localization.py:3-7).
MapIsCurrent ==
    \A m \in MapId \ {NoMap} :
        CurrentMapId = m /\ latest.value.reachable => sincePoses[m] < Horizon

\* The same of whatever the source says of itself: "None means no usable map,
\* and covers" a source that says "it has no map (the odometry fallback, or SLAM
\* down)", so a map is not read on while no pose is given on it
\* (client.py:336-339).
NoneWithoutMap ==
    \A m \in MapId \ {NoMap} : CurrentMapId = m => sincePoses[m] < Horizon
====
