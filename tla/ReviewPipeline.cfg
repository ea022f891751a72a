CONSTANTS
    None = None
    Malformed = Malformed
    Absent = Absent
    Heads = {"h1", "h2", "m"}
    FirstHead = "h1"
    Tree <- ThreeHeads
    Ancestors <- TheirAncestors
    BasesOf <- TheirBases
    Generated = {"g"}
    Environments <- AllEnvironments
    TheChange <- OurMergeRequest
    Ports = {}
    Literals = {}
    Catalog <- TwoModels
    MaxGeneration = 2
    MaxDeltaPaths = 2
    MaxJobs = 3
    MaxMoves = 2
    MaxEdits = 1
    MaxPolicy = 2
    MaxTrouble = 3
SPECIFICATION Spec
INVARIANTS
    AttentionCovers
    TextKept
    ReportTruthful
    AuthorityKept
    FilesOfHead
    
CHECK_DEADLOCK FALSE
