SPECIFICATION Spec
CONSTANTS
    bag = bag
    pack = pack
    cloth = cloth
    tp = tp
    btp = btp
    mau = mau
    r1 = r1
    r2 = r2
    Items = {bag, cloth}
    Products = {bag}
    Variants = {bag}
    Warehouses = {btp, mau}
    SampleWarehouse = mau
    WipWarehouse = btp
    Requests = {r1, r2}
    Quantities = {1}
    Overlap = "any"
    MaxCalls = 3
    MaxResets = 1
    MaxFaults = 1
    NoRow = NoRow
SYMMETRY MCSymmetry
CHECK_DEADLOCK FALSE
INVARIANTS NoPhantomStock TransfersConserve HistoryExplainsStock MasterFollowsRows
PROPERTY
