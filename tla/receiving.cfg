SPECIFICATION Spec
CONSTANTS
    p1 = p1
    p2 = p2
    k1 = k1
    k2 = k2
    k3 = k3
    r1 = r1
    r2 = r2
    NoId = NoId
    Debt = Debt
    Orders = {p1, p2}
    Receipts = {k1, k2}
    Ordered = 20
    Amounts = {9, 10}
    Fees = {0, 1}
    Corrections = {18}
    Requests = {r1, r2}
    Calls = {"draft", "drop", "confirm", "update", "order", "direct", "supplier"}
    MaxCalls = 4
    MaxFaults = 1
SYMMETRY Symmetry
CHECK_DEADLOCK FALSE
INVARIANTS TypeOK BookedInFull DeliveredMeansReceived
