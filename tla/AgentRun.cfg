CONSTANTS
    Reported = {"input"}
    Priced = {"cost"}
    Drawn = {"calls", "bytes"}
    Limit <- MCLimit
    MaxElapsed = 1
    MaxTime = 2
    MaxAmount = 2
    WorkUnit = {u1, u2}
    None = None
SPECIFICATION Spec
INVARIANTS
    BudgetRespected
    SpendingCovered
    TurnsAgree
CHECK_DEADLOCK FALSE
