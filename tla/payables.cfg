SPECIFICATION Spec
CONSTANTS
    pool = pool
    first = first
    second = second
    v1 = v1
    v2 = v2
    r1 = r1
    r2 = r2
    NoPO = NoPO
    NoVoucher = NoVoucher
    NoOrder = NoOrder
    o1 = o1
    Orders = {}
    PurchaseOrders = {pool, first, second}
    ParentOf <- MCParentOf
    Vouchers = {v1, v2}
    Requests = {r1}
    Amounts = {1, 2}
    Totals = {0, 1, 2}
    Calls = {"payPO", "delete", "editPO"}
    MaxCalls = 3
    MaxFaults = 1
SYMMETRY Symmetry
CHECK_DEADLOCK FALSE
INVARIANTS
    TypeOK
    
    
    
