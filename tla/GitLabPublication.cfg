CONSTANTS
    Snapshot = {1, 2}
    Fingerprint = {1111, 1112, 1121, 1122, 1131, 1132, 2111, 2112, 2121, 2122, 2131, 2132}
    NoteId = {1, 2, 3, 4, 5, 6, 7, 8, 9}
    MaxActions = 2
    Lineage = {1}
    Line = {1, 2, 3}
    Body = {1, 2}
    MaxHead = 2
    MaxJobs = 3
    MaxHuman = 1
    MaxWriteAttempts = 2
    LateWrites = FALSE
    Absent = Absent
    Malformed = Malformed
    None = None
SPECIFICATION Spec
INVARIANTS
    NoDuplicates
    Converged
PROPERTIES
    HumanResolutionKept
    ResolvedForReason
CONSTRAINT Instance
CHECK_DEADLOCK FALSE
