CONSTANTS
    Task = {t1, t2, t3}
    Key = {k1, k2, k3}
    Mutex = {m1, m2, m3}
    MaxKeys = 2
    None = None
SPECIFICATION FairSpec
INVARIANTS
    MutualExclusion
PROPERTIES
    WaitersServed
