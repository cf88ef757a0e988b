SPECIFICATION Spec
CONSTANTS
    Level <- SafetyLevels
    NoLevel = NoLevel
    Beat = 2
    MaxDelay = 1
    Within = 3
    LinkSize = 2
    Links <- MCLinks
    MapId = {m1, m2}
    NoMap = NoMap
    MapBeat = 1
    MapWithin = 2
    Autonomous = Autonomous
    Gamepad = Gamepad
    Client <- MCClient
    SourceOf <- MCSource
    MaxAge = 3
    CommandDelay = 1
    Period = 1
    StatusBeat = 2
    Width = 3
    Height = 2
    Resolution = 4
    Reach = 5
    Timeout = 10
    Poll = 1
    ProbeTimeout = 2
    Latency = 1
    Place = {p1, p2}
    Heading <- MCHeading
    Dwell <- MCDwell
    MaxLegs = 2
    None = None
    Source = {n1, n2}
    Consumer = {c1}
    MaxPresses = 2
    MaxLives = 2
    MaxSets = 2
    MaxCommands = 2
    PermitWithin = 1
    Zone = {stop, slow}
    Distance = 2
    Limit = 5
    MaxEvents = 2
SYMMETRY Symmetry
INVARIANTS NoStalePermission MapIsCurrent JoinersCatchUp AgeIsHonest
INVARIANTS DriverKeepsWheel DecisionIsKnown Deadman
INVARIANTS HeadlineIsMostUrgent LookupsAreRight WaitIsHonest GoalsSayWhatWasAsked
INVARIANTS ReasonIsNamed PressesCount TestsSeeWhatTheySet DistanceIsKept
PROPERTY DriveSpec
\* A wait that has ended, and a goal that was made, have nothing more to do.
CHECK_DEADLOCK FALSE
