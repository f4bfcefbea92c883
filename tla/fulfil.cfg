SPECIFICATION DeliverySpec
CONSTANTS
    pen = pen
    kit = kit
    l1 = l1
    l2 = l2
    so1 = so1
    so2 = so2
    r1 = r1
    cron = cron
    d1 = d1
    d2 = d2
    clerk = clerk
    Singles = {pen}
    Combos = {kit}
    Recipe <- MCRecipe
    Lines = {l1, l2}
    OrderOf <- MCOrderOf
    SkuOf <- MCSkuOf
    MaxAmount = 1
    Opening <- MCOpening
    Calls = {"book", "confirm", "revert"}
    Overlap = "one at a time"
    Requests = {r1, cron}
    CronSlot = cron
    NoLine = NoLine
    MaxCalls = 3
    MaxSupply = 0
    MaxFaults = 1
    Deliveries = {d1, d2}
    Clerks = {clerk}
    DeliveryCalls = {"deliver", "update", "email", "export", "delete"}
    NoDelivery = NoDelivery
    NoSku = NoSku
    MaxDeliveryCalls = 3
INVARIANT DeliveryTypeOK
INVARIANT ShippedMeansDeducted
INVARIANT GoodsLeaveOnce
INVARIANT PlainDeletionRestores
PROPERTY ApprovalWithinStock
SYMMETRY MCSymmetry
CHECK_DEADLOCK FALSE
