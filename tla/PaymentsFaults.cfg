CONSTANTS
    k1 = k1
    k2 = k2
    o1 = o1
    o2 = o2
    None = None
    Procs = {p1, p2}
    Attempts = {a1}
    Events = {e1}
    MaxGeneration = 2
    Requests <- ReusedKey
    ProviderMoves <- FinalMoves
    Anomalies = {}
    GatewayFaults = {"query", "prepay", "rejected", "close"}
SPECIFICATION Spec
SYMMETRY Symmetry
INVARIANTS
    ClosedMeansUnpaid
    PrepayIsIssued
