SPECIFICATION Spec
CONSTANTS
    bag = bag
    pack = pack
    cloth = cloth
    tp = tp
    btp = btp
    mau = mau
    r1 = r1
    r2 = r2
    Items = {bag, pack}
    Products = {bag, pack}
    Variants = {bag, pack}
    Warehouses = {btp, mau}
    SampleWarehouse = mau
    WipWarehouse = btp
    Requests = {r1, r2}
    Quantities = {1}
    Overlap = "distinct rows"
    MaxCalls = 3
    MaxResets = 1
    MaxFaults = 0
    NoRow = NoRow
CHECK_DEADLOCK FALSE
INVARIANTS TypeOK RowConservation
PROPERTY RefinesAtomicLedger
