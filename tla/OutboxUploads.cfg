CONSTANTS
    k1 = k1
    k2 = k2
    s1 = s1
    s2 = s2
    None = None
    Threads = {t1, t2}
    Workers = {w1, w2}
    Mortal = {t1, t2, w1, w2}
    Keys = {k1, k2}
    StagedKeys = {}
    Slots = {j1, j2, j3}
    Quota = 0
    Reattach = {}
    Prompt = TRUE
    StorageFaults = {"put", "delete"}
SPECIFICATION Spec
SYMMETRY Symmetry
VIEW View
INVARIANTS
    TypeOK
    NothingLeaks
    NothingDangles
