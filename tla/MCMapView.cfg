SPECIFICATION MapSpec
CONSTANTS
    Level <- MapLevels
    NoLevel = NoLevel
    Beat = 2
    MaxDelay = 1
    Within = 3
    LinkSize = 2
    Links <- AnyLink
    MapId = {m1, m2}
    NoMap = NoMap
INVARIANT NoneWithoutMap
