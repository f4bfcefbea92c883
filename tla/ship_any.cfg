SPECIFICATION Spec
SYMMETRY Symmetry
CONSTANTS
    d1 = d1
    r1 = r1
    r2 = r2
    Deliveries <- MCDeliveries
    Requests <- MCRequests
    MaxParcels = 2
    MaxCalls = 3
    MaxFaults = 1
    Journal = TRUE
    NoCode = NoCode
    GhtkDemo = GhtkDemo
    LalamoveDemo = LalamoveDemo
INVARIANT TypeOK
 
INVARIANT GoodsLeaveOnce
INVARIANT DeliveredIsShipped
INVARIANT OneShippingVoucher
 
CHECK_DEADLOCK FALSE
