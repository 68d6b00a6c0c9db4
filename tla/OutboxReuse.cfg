CONSTANTS
    k1 = k1
    k2 = k2
    s1 = s1
    s2 = s2
    None = None
    Threads = {t1, t2}
    Workers = {w1}
    Mortal = {}
    Keys = {k1, k2}
    StagedKeys = {}
    Slots = {j1, j2, j3}
    Quota = 0
    Reattach = {k1, k2}
    Prompt = TRUE
    StorageFaults = {}
SPECIFICATION Spec

PROPERTY
    NeverDeletesReferenced
