CONSTANTS
    Snapshot = {1, 2}
    Fingerprint = {1111, 1211, 2111, 2211}
    NoteId = {1, 2, 3, 4, 5, 6, 7, 8, 9}
    MaxActions = 2
    Lineage = {1, 2}
    Line = {1}
    Body = {1}
    MaxHead = 2
    MaxJobs = 2
    MaxHuman = 0
    MaxWriteAttempts = 2
    LateWrites = TRUE
    Absent = Absent
    Malformed = Malformed
    None = None
SPECIFICATION FairSpec
INVARIANTS
    JournalTruthful
    OneWriteAstray
PROPERTIES
    JobsEnd
CHECK_DEADLOCK FALSE
