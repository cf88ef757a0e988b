SPECIFICATION Spec
CHECK_DEADLOCK FALSE
CONSTANTS
    MaxTasks = 2
    Duration = 3
    Loops = {3}
    Displacing = {3}
    Serving = {TRUE}
    AutoState = {"succeeded"}
    TestState = {"blocked"}
INVARIANT ResultsAreOwn
