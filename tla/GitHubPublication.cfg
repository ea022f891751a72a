CONSTANTS
    l1 = l1
    l2 = l2
    at1 = at1
    at2 = at2
    b1 = b1
    b2 = b2
    Lineage = {l1, l2}
    Line = {at1, at2}
    Body = {b1, b2}
    MaxHead = 2
    MaxJobs = 3
    MaxHuman = 1
    MaxJobsOfTwo = 2
    None = None
SPECIFICATION Spec
INVARIANTS
    LineageRetained
    Converged
PROPERTIES
    HumanResolutionKept
CONSTRAINT Instance
SYMMETRY Interchangeable
CHECK_DEADLOCK FALSE
