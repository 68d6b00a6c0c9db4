CONSTANTS
    k1 = k1
    k2 = k2
    o1 = o1
    o2 = o2
    None = None
    Procs = {p1, p2}
    Attempts = {a1}
    Events = {e1}
    MaxGeneration = 1
    Requests <- OneOrder
    ProviderMoves <- LateMoves
    Anomalies = {}
    GatewayFaults = {"query", "prepay", "rejected", "close"}
SPECIFICATION FairSpec
PROPERTIES
    EveryCallEnds
    PaidIsRecorded
