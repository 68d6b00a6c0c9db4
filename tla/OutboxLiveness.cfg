CONSTANTS
    k1 = k1
    k2 = k2
    s1 = s1
    s2 = s2
    None = None
    Threads = {t1}
    Workers = {w1}
    Mortal = {t1}
    Keys = {k1, k2}
    StagedKeys = {}
    Slots = {j1, j2}
    Quota = 0
    Reattach = {k1}
    Prompt = TRUE
    StorageFaults = {"put", "delete"}
SPECIFICATION RecoveringSpec

PROPERTY
    UnusedIsRemoved
