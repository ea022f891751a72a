CONSTANTS
    a1 = a1
    a2 = a2
    l1 = l1
    Anchor = {a1, a2}
    FileOf <- TwoFiles
    UnitOf <- TwoUnits
    Title = {"t"}
    Lineage = {l1}
    MaxPrior = 2
    MaxPage = 2
    MaxTurns = 2
    MaxCalls = 5
    MaxFindings = 2
    None = None
SPECIFICATION FairSpec
INVARIANTS
    EvidenceFirst
    Concluded
    FixedAuthorized
PROPERTIES
    ReviewEnds
CHECK_DEADLOCK FALSE
