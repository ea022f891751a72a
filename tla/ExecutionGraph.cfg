CONSTANTS
    Id = {1, 2, 3}
    MaxEvents = 6
    MaxParallel = 2
    MaxMillis = 1
    Contribution = {1}
    MaxUsage = 2
SPECIFICATION GraphSpec
INVARIANTS
    JournalSuffices
    JournalReplays
    NeverStuck
CHECK_DEADLOCK FALSE
