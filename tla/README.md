# Formal models of robodog-sdk

TLA+ modules of the Python SDK in `src/`, model-checked with TLC; every safety
property that a passing run checks is also proved with TLAPS. Source references are relative to
`src/src/robodog_sdk/` unless they name another directory. `PROJECT.json` maps
every definition that stands for code to its lines.

    cd tla
    tlc -config MCTaskClient.cfg MCTaskClient.tla
    tlapm TaskClient_proofs.tla     # and the other seven *_proofs modules

## 1. The system

The SDK is the client side of a robot: message types, topic declarations, a
client class and doubles for tests. Everything it talks to - gateway, safety
node, navigation coordinator, robot bridge - is elsewhere, reached by
publish/subscribe and service calls through the `zenode` framework. Each node
runs on one asyncio loop; between processes nothing is ordered except samples
of one publisher on one key.

| component | state | operations | what is hard |
|---|---|---|---|
| task correlation, `client.py:715-799` | `_task_waiters`, `_task_results` | `wait_for_task`, `_on_task_result` | results before, during and after a wait; timeouts; eviction; several waiters |
| navigation calls, `client.py:540-774` | - | `submit`, `run_goal`, `cancel_task`, `task_status` | replies, results and timeouts in any order |
| goals, `client.py:540-648`, `msgs/navigation.py:198-279` | - | `navigate_to`, `navigate_through` | zero against none; dwells against poses |
| readiness, `client.py:803-874` | deadline | `wait_for_nav` | silence against refusal, start-up races |
| held posture, `client.py:416-518` | `_tilt_setpoint`, `_tilt_pump` | `tilt`, `hold_tilt`, `clear_tilt`, `tilting` | a task cancelled without awaiting it; blocks that nest or overlap; leaving |
| driving block, `client.py:354-410` | a pump task per block | `move`, `halt`, `driving` | cancellation in every place; the pump's own failure |
| velocity arbitration, `msgs/motion.py`, `topics.py:72-114` | at the gateway | `priority`, `outranks`, `driving_now`, `preempted_by`, `blocked_by_zone`, `moving_allowed` | expiry, dropped and late commands, dead parties; why nothing moves |
| latched state, `client.py:98-192`, `topics.py:80-455` | a `Latest` per topic | `update`, `age`, `fresh` | silence, reordering, late joiners, replay that is an intent |
| safety latch, `msgs/safety.py` | `SafetyState` | `motion_permitted` | a dead authority; the recovery phase |
| map identity, `msgs/localization.py` | `MapIdentity` | `map_id` | maps rebuilt, SLAM lost |
| cancel button, `client.py:520-536` | `_cancel_seq` | `emergency_stop` | re-sends against presses; restarts |
| composite state, `msgs/system_state.py` | five facets | `headline`, `ready_to_move` | the order of the cases |
| maps, `msgs/occupancy.py` | a grid, a raster | lookups in cells and metres; judging pixels | the edges, coordinates below zero; inverted greys |
| `examples/navigate.py` | the stage of a route | two goals, a cancel after a timeout | what a stage ends with; which timeouts are caught |
| `FakeNav`, `testing.py:68-207` | active task, ending, event, results | `on_submit`, `on_cancel`, `on_status`, `finish`, `_run` | the order of callbacks in the loop |
| drive examples, `examples/` | origin, distance, blocked | a timer, a task, handlers | stale poses, zone events between two looks |
| `FakeStack`, `testing.py:222-387` | what it published and recorded | setters, three handlers, `stopped` | late joiners, two keys of one pose, no heartbeat |
| other messages, limits, frames | data | - | ranges and formats |

A client is written to by subscriptions (`client.py:211-225`) and read by the
node that owns it; it publishes movement requests, tilts and button events, and
calls the coordinator. `PROJECT.json` lists, under `hazards`, each place where
this can go wrong and the properties that cover it.

## 2. Modules

| module | models | abstract / external part |
|---|---|---|
| `TaskStates`, `SafetyStates` | `TaskState`, `TaskResult`; `SafetyState` | |
| `TaskClient` | the two tables of the client, one action per stretch of code between two suspension points | coordinator's result key and its network |
| `TaskClient_proofs` | theorems about `TaskClient` | |
| `TaskLedger` | what a coordinator promises | abstract specification |
| `NavSystem`, `NavSystem_proofs` | callers of `run_goal` and `cancel_task`, and nodes that run `examples/navigate.py`, over `TaskClient` | the coordinator that answers the calls |
| `FakeNav`, `FakeNav_proofs` | the double; implements `TaskLedger` | asyncio's ready queue |
| `TiltPump` | the posture calls and everything around the pump | coroutines that share the client |
| `TiltPump_proofs` | theorems about `TiltPump` | |
| `DriveBlock`, `DriveBlock_proofs` | `driving()` for coroutines that share a client | puts that raise |
| `MovementSources` | `MovementSource` and its ranks | |
| `MotionGateway`, `MotionGateway_proofs` | clients, expiry, the status in time | gateway and bridge |
| `MotionStatus` | what a client reads of a status, and what became of its command | gateway and collision monitor |
| `Beacon` | `Latest` and the level it follows | an authority, with a heartbeat or without, a link |
| `Topics` | the registry of `topics.py`, as far as delivery goes | |
| `LateJoin` | extends `Beacon`: a subscriber of any declared topic, that joins at any time | producers and links |
| `SafetyView` | extends `Beacon` with `motion_permitted` | the safety node |
| `MapView` | extends `Beacon` with `map_id` | the localization source, and the map that poses are really on |
| `SystemState` | the composite state's derived fields | arrival of facets |
| `CostGrid` | lookups of `CostMap`, pixels of `GridMap` | a map with one wall |
| `TaskGoal` | goals built from arguments, their validation, what `FakeNav` reads off them | |
| `WaitForNav` | the probe loop, in ticks | a coordinator that comes and goes |
| `StopButton` | `emergency_stop` and `ButtonEvent` | consumers that deduplicate, a link |
| `FakeStack` | the double of the rest of the robot | a test, and a node whose client reads it |
| `DriveScene` | what both examples share: the zone handler | a robot, odometry, collision zones |
| `ContractDrive`, `ClientDrive` | the two examples, over `DriveScene` | |
| `DriveExamples` | the two side by side, each implements `FixedDrive` | |
| `FixedDrive` | what both examples promise | abstract specification |
| `Beacon_proofs` | theorems about `Beacon`, `SafetyView`, `MapView`, `LateJoin` | |
| `ClientReads_proofs` | theorems about what else `MCClientReads` checks, and about its two instances of a beacon | |

Composition: `NavSystem` extends `TaskClient` and takes its actions as parts of
its own; `SafetyView`, `MapView` and `LateJoin` extend `Beacon`; `LateJoin` reads
off `Topics` which of the declared topics are levels, latched or sent again; the
two examples extend `DriveScene`. `FakeNav`, which nodes are tested against,
implements `TaskLedger`, what the topics and messages say of a coordinator; the
coordinator of `NavSystem` is external and only the other side of the client's
calls, so nothing is claimed of it.

`MCLoopTasks` puts the three kinds of task that the SDK spawns on a loop beside one
another - pumps of a posture, pumps of driving blocks, runners of `FakeNav` - and
`MCClientReads` the parts that are read one at a time: the latch, the map, any
topic, the arbitration, the composite state, the maps, the goals, the probe, the
status, the button, `FakeStack`, the drive examples. In either the parts share no
state, so a variable (`whose`, `question`) says which of them a behaviour is about
and the others stay as they were.

### How state and actions correspond to the code

- **TaskClient.** `history` and `recorded` are the keys, in insertion order, and
  the values of `_task_results`; `waiters` is `_task_waiters`, a caller standing
  for the future it made. `ReturnRecorded` and `StartWait` are `wait_for_task` up
  to its return or suspension, `Resume`, `TimeOut` and `CancelCaller` the rest of
  it with the `finally` clause. `Deliver` is one call of `_on_task_result`,
  eviction included. The timer may fire between the result and the resumption of
  its caller, as `asyncio.wait_for` allows from 3.12 on.
- **NavSystem.** `goal` is where a caller's coroutine is in `run_goal`, or in
  `_run_route` of `navigate.py`, and `stage` which of the route's two goals it
  is. A route waits with timeouts and does not preempt. `Over` reads off the
  state that the coroutine has come to an end, by `stop()` or by an exception
  that escapes it.
- **FakeNav.** `ready` is the loop's ready queue and a step takes its head. An
  `Event.set` reaches a runner in `wait_for` after one pass through the queue on
  Python 3.12 and later, and three on 3.11: `wakeHops`, fixed in the initial
  state. The attribute `_finished` is always the event of the task accepted
  last, so `accepted` names it. `serial`, fixed in the initial state as well,
  says whether the framework serves submits one at a time; where it does not,
  `overlaps` counts those that found another one asleep in its `sleep(0)`. `phase`, what `on_status` answers, is the
  refinement mapping.
- **TiltPump.** `Hold` is the body of `hold_tilt` behind the validation.
  `pump` names a task; `task` says which tasks are alive, so a pump that was
  cancelled and has not noticed is there beside the new one. `LeaveClient` is
  `__aexit__`, `LeaveConnect` the end of `connect()`. `failed` remembers that a
  put or `hold_tilt(rate_hz=0)` raised since the setpoint was last held, `nudged`
  that the last frame was a `tilt()` of its own. `blocks` is what each open block
  has in its local variable `previous`; any of them may be the next to end.
- **DriveBlock.** The exit of `driving()` suspends once, between `task.cancel()`
  and `halt()`: block `"leaving"`. A pump fails when its velocity does not
  validate or its put raises, of whichever velocity; the await of it then raises
  too. `raised` remembers that the last block ended with such an error, or with
  one of `halt()`'s own put.
- **MotionGateway, MotionStatus.** One tick is 0.1 s. `slot` is what the gateway holds of each
  source, `output` what the bridge executes, `status` what clients read.
  `MotionStatus` has no time: `scene` is what is true around the gateway, `Action`
  and `Outcome` what that makes of the client's command, in a zone of each kind.
- **Beacon, LateJoin.** `latest` carries the age of `Latest`; `kind` says what the
  link may do, and whether there is a heartbeat. `latched=True` is an intent
  (`topics.py:23-27`): a client that joins finds the level on the link, or not. In
  `LateJoin` `topic` is one of the declarations of `Topics`; `whole` remembers
  that nothing which has to arrive was lost, and `calm` for how long.
- **StopButton.** `cancelSeq` is `_cancel_seq`; a `Press` is named by node and
  number, whatever the event says, so that history can tell presses apart whose
  events look the same. `wire` keeps an event until it vanishes, for re-sends. The
  client itself sends a press once; it is the deduplication that `ButtonEvent` asks
  for that has to stand re-sends.
- **FakeStack.** `shown` is what the double published last, per key, `mirror` the
  `Latest`s of the client; `asked`, `inlet` and `record` have what was sent to each
  of the three handlers, what is under way and what the double has. `Sleeps` is the sleep between what a test does and what
  it asserts, and passes when everything has arrived.
- **WaitForNav.** One loop pass is `probing` and then `sleeping`; the deadline is
  looked at between the two, as in the code.
- **MapView.** `CurrentMapId` is `map_id()`, which may be read in every state:
  also when the poses, which come on another key, are on a map of which the client
  has not heard. `sincePoses` is for how long poses have not been given on each map
  (`Frame`), so the properties compare a label with the past of the map.
- **SystemState, CostGrid, TaskGoal.** Pure functions, driven through every
  input by arriving facets, by a point or pixel that is looked up, by a call.
- **ContractDrive, ClientDrive.** One action per handler, timer pass and pass of
  the loop. In `ClientDrive` the pump and the exit of `driving()` are taken
  together with the loop's pass; `DriveBlock` has them in detail, with puts that raise. `Cancelled` is the node
  stopped from outside in any state of its task, before its first pose too.

## 3. Runs

Runs that pass:

| configuration, module | properties | states |
|---|---|---|
| `MCTaskClient` | `TypeOK`; `AnswersAreTrue`, `SlotsAreLive`, `HistoryIsRecent` with shared waits | 138 k |
| `MCNavSystem`, `NavSystem` | `GoalsEndAsTold`, `RecordedResultWakes`; `StageTwoFromArrival`; `RouteEnds`, `DeliveredWaitEnds` | 149 k |
| `MCLoopTasks` | of the posture `OnePump`, `LevelIsTheLastWord`, `BlocksRestore`, `SetpointReachesRobot`; of driving blocks `NoPumpOutlivesBlock`, `SilentExitHalts`, `OthersKeepDriving`, `BlocksEnd`; of `FakeNav` `OneTaskAtATime`, `ResultsAreOwn`, `CancelIsKept`, `TasksEnd` and the refinement of `TaskLedger` | 87 k |
| `MCClientReads` | `NoStalePermission`, `MapIsCurrent`, `JoinersCatchUp`, `AgeIsHonest`; of the arbitration `DriverKeepsWheel`, `DecisionIsKnown`, `Deadman`; `HeadlineIsMostUrgent`, `LookupsAreRight`, `WaitIsHonest`, `GoalsSayWhatWasAsked`, `ReasonIsNamed`, `PressesCount`, `TestsSeeWhatTheySet`; of the drive examples `DistanceIsKept` and the refinement of `FixedDrive` | 937 k |

Runs that show a disagreement between the code and what the repository says of
it; each is a finding in `PROJECT.json` with the lines quoted:

| configuration, module | property violated | because |
|---|---|---|
| `MCTaskClientShared`, `MCTaskClient` | `RecordedResultWakes` | one future per task id: the second waiter displaces the first |
| `MCFakeNav311`, `FakeNav` | `ResultsAreOwn` | on 3.11 one `sleep(0)` is too short for the displaced runner |
| `MCTiltConnect`, `TiltPump` | `LeavesRobotLevel` | `connect()` does not go through `__aexit__` |
| `MCDriveBlockExit`, `DriveBlock` | `ExitHalts` | a failed pump's error skips `halt()` |
| `MCStopRestart`, `StopButton` | `StopsAreDistinct` | a new client counts its presses from one again, under the same name |
| `MCMapView`, `MapView` | `NoneWithoutMap` | `map_id()` does not look at `reachable`: with SLAM down it is the last map, not `None` |
| `MCNearEdge`, `CostGrid` | `OffTheMapIsNotFree` | `int()` rounds the strip before the near edges onto the map |
| `MCTwoZones`, `DriveExamples` | `BreachStops` | one flag for all zones: one that clears hides another that is breached |

The passing runs leave those cases out where the disagreement is, and only
there: `MCNavSystem` has one waiter per task (`SharedWaits = FALSE`), `FakeNav`
displaces no task on 3.11 (`Displacing`), `LevelIsTheLastWord` speaks of `__aexit__`
only, `SilentExitHalts` of blocks that raise no error of their own, `PressesCount` of
the first client of a node, `MapIsCurrent` of identities that say `reachable`;
`LookupsAreRight` bounds the strip by one cell; and of zones only the violated run
speaks, while `MCClientReads` has two of them.

Some properties carry a condition for a weakness of the same kind that has no
run of its own. `OnePump` and `LevelIsTheLastWord` exclude a
`hold_tilt(rate_hz=0)`, which assigns the setpoint before it divides
(`client.py:465`). `DecisionIsKnown` speaks of a gateway that lives:
`driving_now` does not look at the age of the status (`client.py:278`).
The code keeps no stack of postures: of two `tilting` blocks that overlap without
nesting, the first to end restores its posture under the other's feet and the
second brings back the first one's. `BlocksRestore` leaves those out (`tangled`)
until the setpoint is next asked for outside every block.
Where submits overlap, `FakeNav` runs a task beside another and they share one
ending: `OneTaskAtATime` bounds the runners by the overlaps, `ResultsAreOwn` and
`CancelIsKept` let a result carry the wrong ending, `TasksEnd` still asks every
task that may finish itself to end. `moving_allowed` is documented as "would
reach the robot intact" and is true of a command that a zone limits or slows
(`motion.py:203-206`): `ReasonIsNamed` asks for the zone's name there.
`JoinersCatchUp` asks nothing of a topic that is not sent again, not replayed and
has not changed since: that a late joiner then knows nothing is what
`topics.py:23-27` says.
`MapIsCurrent` does not say that a label is right at every moment: for a window
and a delay it may be that of the map before, and a place kept then is labelled
wrongly for good. A permission that overtakes a denial is believed, since `seq` of
the latch is not read: `NoStalePermission` bounds for how long. In its first stage
a route does not catch a `TimeoutError`, and the task it gave up on runs on:
`RouteEnds` counts that as an end. `DistanceIsKept` asks nothing once poses stop.

Four things that can go wrong are in the models and no property forbids them,
since no text of the repository does: a submit that times out at the client and
is accepted afterwards leaves a task that nobody holds the handle of; a setpoint
left by `hold_tilt(rate_hz=0)` is on record and not pumped; the cancellation of a
coroutine that awaits its pump is swallowed by `suppress()`; `driving_now` keeps
the last value of a gateway that died.

Each property of a passing run has a mutant, a plausible slip in the code written
as an operator beside the definition it would replace, which violates it. The
type invariants of the modules other than `TaskClient` are not part of a run: they
are conjuncts of the invariants proved in section 4.

### Bounds

Two callers are enough for everything in the client: the only state they share
is a slot. Three tasks let a route of two stages be disturbed between them. A history shorter than the number of tasks makes eviction happen.
Three submits let `FakeNav` displace a task that displaced another. Three pump
tasks leave room for two cancelled ones beside the live one: a call that needs a
fourth is not taken before one of them has ended, which the loop sees to within
one pass. Two blocks are open at a time, nested or overlapping; a third would
restore as the second does. `Beacon` keeps two messages on the link, so that one can overtake another,
and counts ages up to the point behind which nothing tells them apart; sending
waits for room. The identity of the map has a beat and a window of its own
(`MapBeat`, `MapWithin`), one tick shorter than the latch's; `MCMapView` has the latch's. In `MCClientReads` the links of the latch and the map may lose and
reorder, which includes that they do not; a topic is looked at on links of every
kind. One consumer is enough for the button: consumers share nothing. Two nodes
with two clients and two presses each make events of one name and of two. A test
sets two things and the node sends two commands: the last of two commands decides
`stopped`, and a key can be set twice, before the node joins or after. The tick is the pump's period in `MotionGateway`, and three
ticks are `COMMAND_MAX_AGE`; at most one command in a row is dropped. The cost
map is three by two cells of four units, and points reach more than a cell
beyond it on every side. The examples drive two steps on a track of five, among two zones.

Deadlock is checked except where a system legitimately stops: submits and tasks
spent, clients left, waits and drives over.

### Fairness

Only what an asyncio loop does: it runs callbacks that are ready and fires
timers that are due - weak fairness of each waiter's `Resume` and `TimeOut`, of the
loop's next callback and each runner's `Timer` in `FakeNav`, and of each pump's
passes and timer, which alternate. Nobody has to call, cancel, publish or answer; no message has to
arrive. `RouteEnds` holds because every call and wait of a route has a timeout,
not because the coordinator replies. The timed modules need no fairness: an action with a
deadline is taken before time passes it, so that "within" is an invariant.

## 4. Proofs

`TaskClient_proofs` proves, for any sets of callers, tasks and outcomes and any
history size, from the assumptions named in `TaskClient`:

- `TypeCorrect`, `AnswersTrue`, `SlotsLive`: the type invariant, what waits
  return, and the life of slots. None is inductive: that a returned result is
  true needs that every *resolved* future is (`FuturesAreTrue`) and every
  *recorded* result is (`RecordsAreTrue`), because a wait returns either; and a
  result is handed to the holder of the slot of its task, so that the holder
  asked for this task (`SlotsAreLive`) is what makes the answer the right one.
  `SafetyInv` is their conjunction; it is proved preserved action by action.
- `WakesNotLost`, under `~SharedWaits`: `WakeInv` adds that waiters hold their
  slots (`WaitersHoldSlots`) and that no two wait for one task (`OneWaiter`).
  `MCTaskClientShared` shows the assumption is needed.
- `HistoryRecent`: the history is the tail of the arrivals. It needs that a
  terminal payload is published once and that what is still on the wire has not
  arrived before (`TerminalOnce`, `ArrivalsAreNew`), since a dict does not move
  a key that is assigned again. `NewestAppend` is the lemma on sequences.

`TiltPump_proofs` proves, for any postures, number of pump tasks and of open
blocks, with `TiltInv` as the invariant (`TiltInvariant`):

- `OnePumpAtMost`: at most one pump is alive, and a lean that was asked for has
  one. It needs that a cancelled pump is not named any more
  (`NamedIsNotCancelled`): `EnsurePump` would take it for one that runs.
- `LevelStands`: behind the levelling frame nothing is published. It rests on the
  first: `_stop_tilt_pump` cancels the task it has the name of, which is enough
  because no other one is alive. That blocks restore nothing on a client that was
  left is `LeftWithoutBlocks`.

- `BlocksAreRestored`: with every block closed, the posture is the one asked for
  outside of them. What is inductive is about the blocks that are open
  (`OutermostRestores`): the outermost of them has that posture in its local
  variable, so that whatever the inner ones do, its exit brings it back.

`DriveBlock_proofs`, for any number of coroutines: `PumpsEndWithBlocks` and
`SilentBlocksHalt`. Both rest on a pump living in an open block only
(`PumpHasBlock`), and on which exits there are: one behind a pump that has ended,
which halts, and those that raise, of the pump or of `halt()`'s put. It takes no
assumption about puts or velocities; that a block which raises may leave the
robot moving is what `MCDriveBlockExit` shows.

`NavSystem_proofs`, for any callers, tasks and history: `NavIsTaskClient` first -
every step of the system is a step of `TaskClient` or leaves the client alone - so
that the invariants of `TaskClient` hold of the system and `NavWakesNotLost` is a
consequence. `NavInv` adds the coordinator: what is published is how the task
ended (`PublishedAsEnded`), and where a caller is in `run_goal` fits what it was
told (`GoalFits`). `GoalsAreTold` and `StageTwoIsFromArrival` follow.

`FakeNav_proofs`, for any number of submits, on the loop of 3.12 and later or
without displacement (`Displacing \subseteq {1}`): `OneAtATime`, `OwnResults`,
`CancelsAreKept`, and the refinement `FakeKeepsLedger`. The invariant is about the
loop's ready queue: what may be in it, and in which order, for each state of the
runners (`QueueFits`, `SubmitsFit`, `EventFits`). The point of it is that the
runner which an event reaches in one hop is ahead of the submit that sleeps in
`sleep(0)`. The hypothesis is the run's: with three hops it is behind, and
`MCFakeNav311` finds the result on another task's key.

`MotionGateway_proofs`, for any clients, ages, delays and heartbeats with
`CommandDelay <= MaxAge`: `DeadmanHolds`, `DecisionGetsKnown`, and `WheelIsKept` where
`CommandDelay + 2 * Period <= MaxAge`, that is, a command outlives a drop. The delay
is the network's; with `DRIVE_RATE_HZ` and `COMMAND_MAX_AGE` it may be a period.
`GatewayInv` relates the ages that the gateway counts to those of the history:
how long a client has been gone (`GoneIsCounted`), what of a living one the slot
must hold (`HeardIsHeld`), and what the status still owes (`StatusFollows`).

`Beacon_proofs`, for any window, heartbeat, delay and link:

- `SilenceIsNoPermission`. A granting frame on the link, or in the `Latest`, is as
  old as the latch's last permission at least (`GrantsAreRecent`).
- `MapReadIsNotLongGone`: a statement that poses are on a map, on the link or
  received, is no older than the last moment in which they were
  (`NamesAreRecent`), whatever overtook it. Nothing is assumed of when the client
  asks. `Level` is what the message type can say: `SafetyLevels`, `MapLevels`.
- `LateJoinersCatchUp`, `AgesAreHonest`, for any declared topic: by `JoinInv`, which
  bounds what is on the link and in the `Latest` by the ticks since the last change
  and until the next beat.

`ClientReads_proofs` has what else a client reads:

- `MapsAreCurrent`, `SubscribersCatchUp`, `AgesTellSilence`: the last three as
  `MCClientReads` asks about them. Its beacons of the map and of a topic are
  instances of `MapView` and `LateJoin`; `MapSteps` and `TopicSteps` carry the
  invariants over, and `AskedInv` says that only the beacon asked about moves.
- `PressesCountOnce`, for any nodes, consumers and numbers of presses and clients.
  That a consumer acts at most once needs that a press it acted on is known under
  every event of it that is still under way (`ActedIsKnown`, `OneEventEach`). That
  it acts at all on what came through needs that a node's first client numbers its
  events as its presses (`FirstClient`), so that no other press has made the event
  known (`KnownIsActed`, `PressesAreMade`). `MCStopRestart` shows why it is the
  first client only.
- `WaitsAreHonest`, for any timeouts, poll and latency: `WaitInv` says by when a
  probe or a sleep began, and that a coordinator which was up for a whole probe
  has answered.
- `PointsAndPixels`, for maps of any size, resolution and origin. The arithmetic
  is in lemmas: `QuotientIsUnique` puts a point in one cell, `AxisLookup` says what
  `int()` does with it on either side of zero, `CellsAreApart` that an index of
  `data[]` is one cell's.
- `GoalsAreFaithful`, for any places, angles, dwells and length of route.
- `TestsCanTrust`, for any number of things set and sent: what is last on the link
  for a key is what the double shows, and a key of which nothing is on the link is
  as shown at the client (`RelayIsCurrent`); what was sent has been recorded or is
  under way (`RecordIsComplete`).
- `DistanceKept`, for any distance, track and zones, from `ExampleInv`, whose parts
  are that the origin is where the robot was (`OriginIsStart`), that poses are never
  ahead of it (`PosesAreBehind`) and that there is a step left as long as it is
  driven (`RoomIsLeft`); `ExamplesAreFixedDrives`, the refinement, with either node
  stopped from outside at any time.
- `HeadlineTells` and `ReasonsAreRead` are about finite tables without a
  parameter, which TLC exhausts too: the proofs say case by case why they hold.

Constants are assumed to be what the modules' own assumptions say. The bounds that
keep the runs finite (submits, presses, commands, sets) are constants of the
theorems as well: they hold for each value of them.

Model-checked only: liveness under fairness, which is beyond the prover -
`RouteEnds`, `DeliveredWaitEnds`, `TasksEnd`, `SetpointReachesRobot`,
`OthersKeepDriving`, `BlocksEnd` - and with it that the refinements preserve
fairness, which the abstract specifications do not ask for. Not proved either is
anything of the eight disagreements: they are counterexamples.

## 5. Not modelled

Message contents beyond what the properties tell apart: speeds, skills,
tolerances and the corridor of a goal are passed on unread; `Pose2D` arithmetic
and `clamp` (floats, each a few comparisons); the image of a `GridMap`; by how
much a zone limits a command, which is the collision monitor's; discrete actions,
which are published and forgotten; tracing; the queryables that answer in place
of a latch (`topics.py:27-30`), which no code here calls; that `map/grid` and
`nav/costmap/global` agree on `map_id` (`topics.py:345-349`), since the client
subscribes to neither. A wait without a timeout for a task whose result was lost or
evicted does not return; the code does not promise that it does. The navigation
coordinator, the gateway, the safety node and zenode are not in this repository:
they are modelled from what the code relies on, and marked external.

`frames.py` and `__init__.py` hold constants and names only.

## 6. Plan

1. *Done:* `TaskStates`, `TaskClient`, `FakeNav`, `TaskLedger`,
   `NavSystem` with the route of `examples/navigate.py`, `TiltPump`,
   `DriveBlock`, `Beacon`, `SafetyView`, `MapView`, `Topics`, `LateJoin`,
   `MotionGateway`, `MotionStatus`, `WaitForNav`, `StopButton`, `SystemState`,
   `CostGrid`, `TaskGoal`, `FakeStack`, the drive examples; proofs of
   every safety property and refinement that a passing run checks.
2. *Model next,* if anything: the two raster topics, and a reader that
   holds coordinates of one of them beside the label of the map.
3. *Prove next:* what the carve-outs leave: how many runners there are on 3.11
   when submits displace; what of the posture is restored by blocks that overlap.
