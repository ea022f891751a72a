CONSTANTS
    Snapshot = {1, 2}
    Fingerprint = {1111, 1121, 2111, 2121}
    NoteId = {1, 2, 3, 4, 5, 6, 7, 8, 9}
    MaxActions = 2
    Lineage = {1}
    Line = {1, 2}
    Body = {1}
    MaxHead = 2
    MaxJobs = 2
    MaxHuman = 0
    MaxWriteAttempts = 2
    LateWrites = FALSE
    Absent = Absent
    Malformed = Malformed
    None = None
SPECIFICATION Spec
INVARIANTS
    ReviewCanStart
CHECK_DEADLOCK FALSE
