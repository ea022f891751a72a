CONSTANTS
    Snapshot = {s1, s2}
    Fingerprint = {1, 2, 3}
    NoteId = {1, 2}
    MaxActions = 3
    Plans <- MCPlans
SPECIFICATION Spec
INVARIANTS
    ReplayAccepted
PROPERTIES
    ImplementsPromise
CHECK_DEADLOCK FALSE
