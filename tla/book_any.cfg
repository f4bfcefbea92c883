SPECIFICATION FairSpec
CONSTANTS
    pen = pen
    kit = kit
    other = other
    l1 = l1
    l2 = l2
    l3 = l3
    so1 = so1
    so2 = so2
    r1 = r1
    r2 = r2
    cron = cron
    Singles = {pen}
    Combos = {kit}
    Recipe <- MCRecipe
    Lines = {l1, l2}
    OrderOf <- PlainOrder
    SkuOf <- PlainSku
    MaxAmount = 2
    Opening <- MCOpening
    Calls = {"book", "confirm", "revert", "issue"}
    Overlap = "any"
    Requests = {r1, r2, cron}
    CronSlot = cron
    NoLine = NoLine
    MaxCalls = 3
    MaxSupply = 0
    MaxFaults = 0
INVARIANT TypeOK
 
PROPERTY NeverOverbooked
PROPERTY OverdueReleased
CHECK_DEADLOCK FALSE
