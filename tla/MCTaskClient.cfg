SPECIFICATION Spec
CONSTANTS
    Caller = {c1, c2}
    Task = {t1, t2, t3}
    Outcome = {"succeeded"}
    HistorySize = 2
    SharedWaits = TRUE
    Nobody = Nobody
    NoTask = NoTask
    Pending = Pending
SYMMETRY Symmetry
INVARIANTS TypeOK AnswersAreTrue SlotsAreLive HistoryIsRecent
