CONSTANTS
    k1 = k1
    k2 = k2
    o1 = o1
    o2 = o2
    None = None
    Procs = {p1, p2}
    Attempts = {a1, a2}
    Events = {e1}
    MaxGeneration = 1
    Requests <- TwoOrders
    ProviderMoves <- PayMoves
    Anomalies = {"amount", "transaction", "order"}
    GatewayFaults = {}
SPECIFICATION Spec
SYMMETRY Symmetry
INVARIANTS
    SuccessIsProven
    ReceiptsBacked
PROPERTIES
    ReceiptsFinal
