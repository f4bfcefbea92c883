SPECIFICATION Spec
CONSTANTS
    pen = pen
    kit = kit
    other = other
    l1 = l1
    l2 = l2
    l3 = l3
    so1 = so1
    so2 = so2
    r1 = r1
    r2 = r2
    cron = cron
    Singles = {pen}
    Combos = {kit}
    Recipe <- MCRecipe
    Lines = {l1, l2}
    OrderOf <- PlainOrder
    SkuOf <- PlainSku
    MaxAmount = 2
    Opening <- MCOpening
    Calls = {"book", "confirm", "revert", "sync", "edit"}
    Overlap = "one at a time"
    Requests = {r1, cron}
    CronSlot = cron
    NoLine = NoLine
    MaxCalls = 5
    MaxSupply = 1
    MaxFaults = 1
INVARIANT ApprovedCoversConfirmed
PROPERTY SyncIsExact
 
CHECK_DEADLOCK FALSE
