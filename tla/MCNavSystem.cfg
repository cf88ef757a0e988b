SPECIFICATION NavFairSpec
CONSTANTS
    Caller = {c1, c2}
    Task = {t1, t2, t3}
    Outcome = {"succeeded", "canceled"}
    HistorySize = 2
    SharedWaits = FALSE
    Nobody = Nobody
    NoTask = NoTask
    Pending = Pending
    Refused = Refused
    Route = {c1}
INVARIANTS GoalsEndAsTold RecordedResultWakes
PROPERTIES StageTwoFromArrival RouteEnds DeliveredWaitEnds
\* Once the tasks are spent nobody has to do anything.
CHECK_DEADLOCK FALSE
