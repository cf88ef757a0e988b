---- MODULE MCClientReads ----
(***************************************************************************)
(* What a client and the nodes around it may rely on, one question at a    *)
(* time: may the robot move, who drives it, which map is it on, what is    *)
(* its state, what lies at a point, why does it not move, does a press of  *)
(* the button count, do the examples keep their distance. The questions    *)
(* share no state, so a behaviour is about one of them and the others stay *)
(* as they were. Three of them are about a beacon: that of the latch, and  *)
(* one that is the map's or, when that is the question, any other topic's. *)
(***************************************************************************)
EXTENDS SafetyView, SystemState, CostGrid, WaitForNav, TaskGoal, StopButton, FakeStack,
        MotionStatus, DriveExamples, MotionGateway, TLC

CONSTANTS
    MapId, NoMap,
    MapBeat, MapWithin,    \* the identity of a map has a beat and a window of its own
    Autonomous, Gamepad

VARIABLES
    source, stated, beat, path, identity,    \* the beacon of the map, or of a topic
    sincePoses,
    topic, calm, news, whole,
    question

Map == INSTANCE MapView WITH
    up <- source, level <- stated, due <- beat, link <- path, latest <- identity,
    Beat <- MapBeat, Within <- MapWithin,
    Level <- {[map_id |-> id, reachable |-> r] : id \in MapId \cup {NoMap}, r \in BOOLEAN}

Join == INSTANCE LateJoin WITH
    up <- source, level <- stated, due <- beat, link <- path, latest <- identity,
    Level <- MapId

\* NoLevel is not a level of the other two beacons either.
ASSUME BeaconsAssumption == NoLevel \notin Map!MapLevels /\ NoLevel \notin MapId
ASSUME MapBeatAssumption == MapBeat \in Nat \ {0} /\ MapWithin \in Nat

\* What links may do is the one thing that the beacons have in common.
mapOwn == <<sincePoses>>
topicOwn == <<topic, calm, news, whole>>
beaconOwn == <<source, stated, beat, path, identity>>
safetyOwn == <<up, level, due, link, latest, sinceSafe>>

data == <<stateVars, gridVars, pixelVars, waitVars, goalVars, statusVars>>
nodes == <<buttonVars, stackVars, exampleVars>>
vars == <<kind, safetyOwn, beaconOwn, mapOwn, topicOwn, wheelVars, data, nodes, question>>

\* An autonomous node and a human on the gamepad.
MCClient == {Autonomous, Gamepad}
MCSource == [c \in MCClient |-> IF c = Gamepad THEN "controller" ELSE "autonomous"]

MCHeading == {0, 1}
MCDwell == {-1, 0, 2}
Symmetry == Permutations(MapId)
MCLinks == {[loses |-> l, reorders |-> l, beats |-> b] : l \in BOOLEAN, b \in BOOLEAN}

Questions ==
    {"latch", "map", "topic", "wheel", "state", "point", "pixel", "coordinator", "goal", "status",
     "button", "stack", "drive"}

NoTopic == topic = Join!Momentary /\ calm = 0 /\ news = FALSE /\ whole = FALSE

\* While something else is asked, a part is in one state only. The latch and
\* the identity of a map have a heartbeat; their link may do everything, which
\* includes doing nothing of it.
Init ==
    /\ question \in Questions
    /\ SafetyInit
    /\ question # "latch" => level = SafetyState("clear") /\ due = Beat /\ link = <<>>
    /\ question # "topic" => kind.beats /\ kind.loses /\ kind.reorders
    /\ IF question = "topic" THEN Join!JoinInit /\ sincePoses = [m \in MapId |-> Map!Horizon]
                             ELSE Map!MapInit /\ NoTopic
    /\ question \notin {"map", "topic"} =>
           stated = Map!MapIdentity(NoMap, FALSE) /\ beat = MapBeat /\ path = <<>>
    /\ GatewayInit
    /\ StateInit /\ GridInit /\ PixelInit /\ WaitInit /\ GoalInit
    /\ StatusInit /\ (question # "status" => own = "autonomous" /\ wish = "ahead")
    /\ ButtonInit /\ StackInit
    /\ ExampleInit /\ (question # "drive" => example = "client" /\ position = 0)

Asking(q) == question = q /\ UNCHANGED question

\* What moves while one of the data is looked at.
DataNext ==
    \/ Asking("state") /\ StateNext
       /\ UNCHANGED <<gridVars, pixelVars, waitVars, goalVars, statusVars>>
    \/ Asking("point") /\ GridNext
       /\ UNCHANGED <<stateVars, pixelVars, waitVars, goalVars, statusVars>>
    \/ Asking("pixel") /\ Judge
       /\ UNCHANGED <<stateVars, gridVars, waitVars, goalVars, statusVars>>
    \/ Asking("coordinator") /\ WaitNext
       /\ UNCHANGED <<stateVars, gridVars, pixelVars, goalVars, statusVars>>
    \/ Asking("goal") /\ GoalNext
       /\ UNCHANGED <<stateVars, gridVars, pixelVars, waitVars, statusVars>>
    \/ Asking("status") /\ SceneChanges
       /\ UNCHANGED <<stateVars, gridVars, pixelVars, waitVars, goalVars>>

NodesNext ==
    \/ Asking("button") /\ ButtonNext /\ UNCHANGED <<stackVars, exampleVars>>
    \/ Asking("stack") /\ StackNext /\ UNCHANGED <<buttonVars, exampleVars>>
    \/ Asking("drive") /\ ExampleNext /\ UNCHANGED <<buttonVars, stackVars>>

Next ==
    \/ /\ Asking("latch") /\ SafetyNext
       /\ UNCHANGED <<beaconOwn, mapOwn, topicOwn, wheelVars, data, nodes>>
    \/ /\ Asking("map") /\ Map!MapNext
       /\ UNCHANGED <<safetyOwn, topicOwn, wheelVars, data, nodes>>
    \/ /\ Asking("topic") /\ Join!JoinNext
       /\ UNCHANGED <<safetyOwn, mapOwn, wheelVars, data, nodes>>
    \/ /\ Asking("wheel") /\ GatewayNext
       /\ UNCHANGED <<kind, safetyOwn, beaconOwn, mapOwn, topicOwn, data, nodes>>
    \/ DataNext /\ UNCHANGED <<kind, safetyOwn, beaconOwn, mapOwn, topicOwn, wheelVars, nodes>>
    \/ NodesNext /\ UNCHANGED <<kind, safetyOwn, beaconOwn, mapOwn, topicOwn, wheelVars, data>>

Spec == Init /\ [][Next]_vars

\* MapView's property, of the beacon of the map.
MapIsCurrent == question = "map" => Map!MapIsCurrent

\* LateJoin's properties, of the beacon of whichever topic.
JoinersCatchUp == question = "topic" => Join!JoinersCatchUp
AgeIsHonest == question = "topic" => Join!AgeIsHonest
====
