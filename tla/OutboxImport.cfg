CONSTANTS
    k1 = k1
    k2 = k2
    s1 = s1
    s2 = s2
    None = None
    Threads = {t1, t2, t3}
    Workers = {}
    Mortal = {t1, t2, t3}
    Keys = {k1, s1, s2}
    StagedKeys = {s1, s2}
    Slots = {j1, j2, j3}
    Quota = 1
    Reattach = {}
    Prompt = TRUE
    StorageFaults = {"copy"}
SPECIFICATION Spec
SYMMETRY Symmetry
VIEW View
INVARIANTS
    NothingLeaks
    NothingDangles
    StagingWithinQuota
