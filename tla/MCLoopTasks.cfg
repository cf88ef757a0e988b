SPECIFICATION LoopSpec
CONSTANTS
    Lean = {p1, p2}
    Level = Level
    MaxPumps = 3
    MaxBlocks = 2
    Driver = {d1, d2}
    MaxTasks = 3
    Duration = 1
    Loops = {1, 3}
    Displacing = {1}
    Serving = {TRUE, FALSE}
    AutoState = {"succeeded"}
    TestState = {"blocked"}
INVARIANTS OnePump LevelIsTheLastWord BlocksRestore
INVARIANTS NoPumpOutlivesBlock
INVARIANTS OneTaskAtATime ResultsAreOwn CancelIsKept
PROPERTIES SetpointReachesRobot
PROPERTIES SilentExitHalts OthersKeepDriving BlocksEnd
PROPERTIES TasksEnd LedgerSpec
\* A client that was left has nothing more to do, nor has a double once its
\* submits are spent.
CHECK_DEADLOCK FALSE
