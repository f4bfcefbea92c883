SPECIFICATION DeliverySpec
CONSTANTS
    pen = pen
    kit = kit
    l1 = l1
    l2 = l2
    so1 = so1
    so2 = so2
    r1 = r1
    cron = cron
    d1 = d1
    d2 = d2
    clerk = clerk
    Singles = {pen}
    Combos = {kit}
    Recipe <- MCRecipe
    Lines = {l1, l2}
    OrderOf <- MCOrderOf
    SkuOf <- MCSkuOf
    MaxAmount = 1
    Opening <- MCOpening
    Calls = {}
    Overlap = "one at a time"
    Requests = {r1, cron}
    CronSlot = cron
    NoLine = NoLine
    MaxCalls = 0
    MaxSupply = 0
    MaxFaults = 0
    Deliveries = {d1, d2}
    Clerks = {clerk}
    DeliveryCalls = {"deliver", "export", "delete"}
    NoDelivery = NoDelivery
    NoSku = NoSku
    MaxDeliveryCalls = 3
INVARIANT DeletionRestores
CHECK_DEADLOCK FALSE
