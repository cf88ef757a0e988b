SPECIFICATION TiltSpec
CHECK_DEADLOCK FALSE
CONSTANTS
    Lean = {p1, p2}
    Level = Level
    MaxPumps = 3
    MaxBlocks = 2
INVARIANT LeavesRobotLevel
