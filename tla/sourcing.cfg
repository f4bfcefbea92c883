SPECIFICATION Spec
CONSTANTS
    cloth = cloth
    r1 = r1
    r2 = r2
    NoId = NoId
    Mats = {cloth}
    Planned <- MCPlanned
    Opening <- MCOpening
    MaxIssues = 3
    MaxOrders = 4
    Requests = {r1, r2}
    Calls = {"generate", "create", "handOut", "confirm", "delivered", "edit", "delete", "supplier", "vendor", "qc", "board", "recalculate", "requirements"}
    BoardMoves = {"IN_PRODUCTION", "CLOSED"}
    MaxQuantity = 2
    MaxCalls = 4
    MaxFaults = 1
SYMMETRY Symmetry
CHECK_DEADLOCK FALSE
INVARIANTS TypeOK HandedWithinPlan IssuesExplainStock NothingFromNowhere  DraftsReplaced
