SPECIFICATION Spec
CONSTANTS
    Caller = {c1, c2}
    Task = {t1}
    Outcome = {"succeeded"}
    HistorySize = 2
    SharedWaits = TRUE
    Nobody = Nobody
    NoTask = NoTask
    Pending = Pending
INVARIANT RecordedResultWakes
