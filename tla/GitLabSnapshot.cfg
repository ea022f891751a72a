CONSTANTS
    Revision = {1, 2, 3}
    RefsOf <- MCRefsOf
    FilesOf <- MCFilesOf
    Capped = {2}
    Pointers = {2}
    MaxPushes = 2
    MaxTrouble = 2
    MaxBody = 2
    MaxRetryAfter = 600
    PerPage = 1
    MaxBlobRequests = 2
    MaxBlobBytes = 3
    MaxRequests = 12
    Deadline = 3
    MaxAttempts = 2
    MaxPolls = 2
    InitialBackoff = 1
    MaxBackoff = 2
    MaxRetryWait = 2
    MaxPages = 3
    MaxItems = 10
    MaxDiff = 2
    MaxJson = 2
    MaxBlob = 2
    MaxNotes = 2
    Absent = Absent
    Malformed = Malformed
    None = None
SPECIFICATION FairSpec
INVARIANTS
    EvidenceTrue
    FailsForCause
PROPERTIES
    HeadStillCurrent
    AcquisitionEnds
