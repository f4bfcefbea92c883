------------------------------- MODULE Sourcing -------------------------------
(***************************************************************************)
(* One production file order (PFO) from its material requirements to its   *)
(* purchase orders and goods issues: pfo-sourcing.service.ts,              *)
(* pfo-execution.service.ts, pfo-bom-engine.service.ts and the status      *)
(* handlers of planning.service.ts under src/src/planning, the goods       *)
(* issues of src/src/inventory/inventory.service.ts and supplierAction of  *)
(* src/src/purchasing/purchasing.service.ts.                               *)
(*                                                                         *)
(* A handler reads its rows, then writes them back one after the other;    *)
(* nothing locks them.  save writes the row as it was read, inserts it     *)
(* again when it was deleted meanwhile, and where the PFO was read with    *)
(* its requirements it writes those back too (cascade).  Ids are never     *)
(* used twice, so a deleted row keeps its place here.  adjustStock is one  *)
(* step: StockLedger is about its interleavings.                           *)
(***************************************************************************)
EXTENDS Integers, FiniteSets, Functions

CONSTANTS
    Mats,        \* materials the PFO requires
    Planned,     \* material -> planned_quantity
    Opening,     \* material -> stock at the start
    MaxIssues,   \* bound: goods issues ever created
    MaxOrders,   \* bound: purchase orders ever created
    Requests,    \* slots for requests in flight
    Calls,       \* the handlers users call
    BoardMoves,  \* statuses the board moves the PFO to by hand
    NoId,
    MaxQuantity, \* bound: units of a material on an issue
    MaxCalls,    \* bound: calls accepted
    MaxFaults    \* bound: requests cut short by a fault

CallNames == {"generate", "create", "handOut", "confirm", "delivered", "edit", "delete",
              "supplier", "vendor", "qc", "board", "recalculate", "requirements"}

Early == {"DRAFT", "PENDING_APPROVAL", "WAITING_VENDOR"}
PfoStatus == Early \cup {"MATERIAL_PREP", "IN_PRODUCTION", "QC", "READY_TO_SHIP",
                         "RECEIVING", "RECONCILIATION", "CLOSED"}

ASSUME SourcingConstants ==
    /\ Planned \in [Mats -> Nat]
    /\ Opening \in [Mats -> Nat]
    /\ Calls \subseteq CallNames
    /\ BoardMoves \subseteq PfoStatus
    /\ MaxIssues \in Nat
    /\ MaxOrders \in Nat
    /\ MaxQuantity \in Nat
    /\ MaxCalls \in Nat
    /\ MaxFaults \in Nat

VARIABLES
    pfo,      \* status of the PFO, and whether a vendor is assigned
    need,     \* the requirement row of each material
    gi,       \* goods_issues with their items
    po,       \* purchase_orders with their items
    rows,     \* inventory_stocks of each material
    master,   \* quantity_in_stock of each material
    req,      \* the requests in flight
    handed,   \* history: units handed out since the BOM was last run
    asked,    \* history: most units ever wanted from stock, hand-made changes added
    gone,     \* history: units that left on an issue deleted afterwards
    skipped,  \* history: issues marked delivered before they were confirmed
    raced,    \* history: tables two requests had in hand together
    failed,   \* history: tables a request had in hand when it was cut short
    calls, faults

vars == <<pfo, need, gi, po, rows, master, req, handed, asked, gone, skipped, raced,
          failed, calls, faults>>
history == <<handed, asked, gone, skipped, failed>>

\* Ids come from a sequence.
Issues == 1..MaxIssues
Orders == 1..MaxOrders

Zero == [m \in Mats |-> 0]
Plus(f, g) == [m \in Mats |-> f[m] + g[m]]
Minus(f, g) == [m \in Mats |-> f[m] - g[m]]

\* Fault seeded: a difference below zero is kept.
BelowZero(n) == n

FromZero(n) == IF n < 0 THEN 0 ELSE n
Larger(a, b) == IF a < b THEN b ELSE a

\* What each handler reads and writes.
Tables(call) ==
    CASE call = "generate" -> {"pfo", "needs", "issues", "orders"}
      [] call = "handOut" -> {"pfo", "needs"}
      [] call = "confirm" -> {"pfo", "issues"}
      [] call \in {"delivered", "edit", "delete"} -> {"issues"}
      [] call = "supplier" -> {"pfo", "orders"}
      [] call = "board" -> {"pfo", "needs"}
      [] call \in {"vendor", "qc"} -> {"pfo"}
      [] OTHER -> {}

NoIssue == [status |-> "unused", qty |-> Zero]
DeletedIssue == [status |-> "deleted", qty |-> Zero]
NoOrder == [status |-> "unused", kind |-> "MATERIAL"]

\* A row as calculateMaterialRequirements makes it.
FreshNeed == [m \in Mats |-> [issued |-> 0, toBuy |-> Planned[m], fromStock |-> 0]]

\* g is the next id of a table.
NextId(table, g) == \A h \in DOMAIN table : (h < g) <=> (table[h].status # "unused")

NothingSeen == [status |-> "DRAFT", vendor |-> FALSE, need |-> FreshNeed, ids |-> {},
                qty |-> Zero, gi |-> NoIssue, po |-> NoOrder]
Idle == [call |-> "idle", at |-> "begin", id |-> NoId, seen |-> NothingSeen]

InFlight == {r \in Requests : req[r].call # "idle"}
At(r, call, step) == req[r].call = call /\ req[r].at = step
Seen(r) == req[r].seen

Begin(r, call, step, id, seen) ==
    /\ call \in Calls
    /\ req[r].call = "idle"
    /\ calls < MaxCalls
    /\ calls' = calls + 1
    /\ req' = [req EXCEPT ![r] = [call |-> call, at |-> step, id |-> id, seen |-> seen]]
    /\ raced' = raced \cup UNION {Tables(call) \cap Tables(req[s].call) : s \in InFlight}
    /\ UNCHANGED <<pfo, need, gi, po, rows, master, history, faults>>

Goto(r, step, seen) == req' = [req EXCEPT ![r].at = step, ![r].seen = seen]
Done(r) == req' = [req EXCEPT ![r] = Idle]

PfoAsRead == [NothingSeen EXCEPT !.status = pfo.status, !.vendor = pfo.vendor]
PfoWithNeeds == [PfoAsRead EXCEPT !.need = need]

--------------------------------------------------------------------------------
Init ==
    /\ pfo = [status |-> "DRAFT", vendor |-> FALSE]
    /\ need = FreshNeed
    /\ gi = [g \in Issues |-> NoIssue]
    /\ po = [p \in Orders |-> NoOrder]
    /\ rows = Opening
    /\ master = Opening
    /\ req = [r \in Requests |-> Idle]
    /\ handed = Zero
    /\ asked = Zero
    /\ gone = Zero
    /\ skipped = {}
    /\ raced = {}
    /\ failed = {}
    /\ calls = 0
    /\ faults = 0

--------------------------------------------------------------------------------
(* Requirements *)

\* The BOM is exploded again: the rows are replaced, what was handed out is
\* forgotten.  A request that holds the old rows is outside this model.
Recalculate ==
    /\ "recalculate" \in Calls
    /\ calls < MaxCalls
    /\ calls' = calls + 1
    /\ InFlight = {}
    /\ need' = FreshNeed
    /\ handed' = Zero
    /\ UNCHANGED <<pfo, gi, po, rows, master, req, asked, gone, skipped, failed, raced, faults>>

\* The planner takes some from stock; the screen proposes to buy the rest.
SaveRequirements(m, fromStock) ==
    /\ "requirements" \in Calls
    /\ calls < MaxCalls
    /\ calls' = calls + 1
    /\ need' = [need EXCEPT ![m].toBuy = FromZero(Planned[m] - fromStock),
                            ![m].fromStock = fromStock]
    /\ asked' = [asked EXCEPT ![m] = Larger(@, fromStock)]
    /\ UNCHANGED <<pfo, gi, po, rows, master, req, handed, gone, skipped, failed, raced, faults>>

--------------------------------------------------------------------------------
(* generatePos *)

\* Fault seeded: orders of another kind are left alone.
DraftsOfMaterials == {p \in Orders : po[p].status = "DRAFT" /\ po[p].kind = "MATERIAL"}

\* The drafts that a new set of orders replaces.
ToReplace == {p \in Orders : po[p].status = "DRAFT"}
DraftIssues == {g \in Issues : gi[g].status = "DRAFT"}

BeginGenerate(r) ==
    Begin(r, "generate", "drop", NoId, [PfoWithNeeds EXCEPT !.ids = ToReplace])

\* The drafts found are deleted by id, whatever became of them.
DropDrafts(r) ==
    /\ At(r, "generate", "drop")
    /\ po' = [p \in Orders |-> IF p \in Seen(r).ids THEN [po[p] EXCEPT !.status = "deleted"]
                            ELSE po[p]]
    /\ Goto(r, "clear", [Seen(r) EXCEPT !.ids = DraftIssues])
    /\ UNCHANGED <<pfo, need, gi, rows, master, history, raced, calls, faults>>

ClearIssues(r) ==
    /\ At(r, "generate", "clear")
    /\ gi' = [g \in Issues |-> IF g \in Seen(r).ids THEN DeletedIssue ELSE gi[g]]
    /\ Goto(r, "net", [Seen(r) EXCEPT !.ids = {}])
    /\ UNCHANGED <<pfo, need, po, rows, master, history, raced, calls, faults>>

Live == {g \in Issues : gi[g].status \in {"CONFIRMED", "DELIVERED"}}
Total(issues) ==
    [m \in Mats |-> SumFunctionOnSet([g \in Issues |-> gi[g].qty[m]], issues)]

\* Fault seeded: what was issued already is not taken off.
UnissuedOfAll(wanted) == [m \in Mats |-> wanted[m].fromStock]

Unissued(wanted) == [m \in Mats |-> FromZero(wanted[m].fromStock - Total(Live)[m])]

NetIssued(r) ==
    /\ At(r, "generate", "net")
    /\ LET left == Unissued(Seen(r).need)
       IN  Goto(r, IF left = Zero THEN "buy" ELSE "issue", [Seen(r) EXCEPT !.qty = left])
    /\ UNCHANGED <<pfo, need, gi, po, rows, master, history, raced, calls, faults>>

DraftIssue(r, g) ==
    /\ At(r, "generate", "issue")
    /\ NextId(gi, g)
    /\ gi' = [gi EXCEPT ![g] = [status |-> "DRAFT", qty |-> Seen(r).qty]]
    /\ Goto(r, "buy", Seen(r))
    /\ UNCHANGED <<pfo, need, po, rows, master, history, raced, calls, faults>>

\* Orders already sent are not taken off.
ToBuy(wanted) == [m \in Mats |-> wanted[m].toBuy]

BuyMaterials(r) ==
    /\ At(r, "generate", "buy")
    /\ IF ToBuy(Seen(r).need) = Zero THEN UNCHANGED po
       ELSE \E p \in Orders :
                /\ NextId(po, p)
                /\ po' = [po EXCEPT ![p] = [status |-> "DRAFT", kind |-> "MATERIAL"]]
    /\ Goto(r, "subcontract", Seen(r))
    /\ UNCHANGED <<pfo, need, gi, rows, master, history, raced, calls, faults>>

Subcontract(r) ==
    /\ At(r, "generate", "subcontract")
    /\ IF ~Seen(r).vendor THEN UNCHANGED po
       ELSE \E p \in Orders :
                /\ NextId(po, p)
                /\ po' = [po EXCEPT ![p] = [status |-> "DRAFT", kind |-> "OUTSOURCING"]]
    /\ Goto(r, "finish", Seen(r))
    /\ UNCHANGED <<pfo, need, gi, rows, master, history, raced, calls, faults>>

Prepared(status) == IF status \in Early THEN "MATERIAL_PREP" ELSE status

\* The PFO was read with its requirements: both are written back as read.
FinishGenerate(r) ==
    /\ At(r, "generate", "finish")
    /\ IF Prepared(Seen(r).status) = Seen(r).status THEN UNCHANGED <<pfo, need>>
       ELSE /\ pfo' = [status |-> Prepared(Seen(r).status), vendor |-> Seen(r).vendor]
            /\ need' = Seen(r).need
    /\ Done(r)
    /\ UNCHANGED <<gi, po, rows, master, history, raced, calls, faults>>

--------------------------------------------------------------------------------
(* updateMaterialIssue *)

\* Fault seeded: the check looks at what was issued before.
WithinPlanBefore(row, m, n) == row.issued <= Planned[m]

WithinPlan(row, m, n) == row.issued + n <= Planned[m]

BeginHandOut(r, m, n) ==
    /\ WithinPlan(need[m], m, n)
    /\ Begin(r, "handOut", "save", m, [PfoWithNeeds EXCEPT !.qty = [Zero EXCEPT ![m] = n]])

SaveHandOut(r, m) ==
    /\ At(r, "handOut", "save")
    /\ req[r].id = m
    /\ need' = [need EXCEPT ![m] =
                   [Seen(r).need[m] EXCEPT !.issued = @ + Seen(r).qty[m]]]
    /\ handed' = [handed EXCEPT ![m] = @ + Seen(r).qty[m]]
    /\ Goto(r, "promote", Seen(r))
    /\ UNCHANGED <<pfo, gi, po, rows, master, asked, gone, skipped, failed, raced, calls, faults>>

\* Once everything is handed out, production starts.
PromotePfo(r) ==
    /\ At(r, "handOut", "promote")
    /\ pfo' = IF (\A m \in Mats : need[m].issued >= Planned[m])
                    /\ Seen(r).status = "MATERIAL_PREP"
              THEN [status |-> "IN_PRODUCTION", vendor |-> Seen(r).vendor]
              ELSE pfo
    /\ Done(r)
    /\ UNCHANGED <<need, gi, po, rows, master, history, raced, calls, faults>>

--------------------------------------------------------------------------------
(* Goods issues *)

Exists(g) == gi[g].status \notin {"unused", "deleted"}

\* The stores write an issue by hand.
CreateGoodsIssue(g, qty) ==
    /\ "create" \in Calls
    /\ calls < MaxCalls
    /\ calls' = calls + 1
    /\ NextId(gi, g)
    /\ gi' = [gi EXCEPT ![g] = [status |-> "DRAFT", qty |-> qty]]
    /\ asked' = Plus(asked, qty)
    /\ UNCHANGED <<pfo, need, po, rows, master, req, handed, gone, skipped, failed, raced, faults>>

BeginWithIssue(r, call, step, g, qty) ==
    /\ Exists(g)
    /\ Begin(r, call, step, g, [NothingSeen EXCEPT !.gi = gi[g], !.qty = qty])

BeginConfirm(r, g) ==
    /\ gi[g].status = "DRAFT"
    /\ BeginWithIssue(r, "confirm", "export", g, Zero)

\* The stores may hand out less than the issue says; the goods leave first.
Export(r, g, qty) ==
    /\ At(r, "confirm", "export")
    /\ req[r].id = g
    /\ \A m \in Mats : qty[m] \in 0..Seen(r).gi.qty[m]
    /\ qty # Seen(r).gi.qty => Exists(g)
    /\ gi' = IF qty = Seen(r).gi.qty THEN gi ELSE [gi EXCEPT ![g].qty = qty]
    /\ rows' = Minus(rows, qty)
    /\ master' = [m \in Mats |-> IF qty[m] > 0 THEN rows'[m] ELSE master[m]]
    /\ Goto(r, "save", [Seen(r) EXCEPT !.gi.qty = qty])
    /\ UNCHANGED <<pfo, need, po, history, raced, calls, faults>>

SaveConfirmed(r, g) ==
    /\ At(r, "confirm", "save")
    /\ req[r].id = g
    /\ gi' = [gi EXCEPT ![g] = [Seen(r).gi EXCEPT !.status = "CONFIRMED"]]
    /\ Goto(r, "pfo", Seen(r))
    /\ UNCHANGED <<pfo, need, po, rows, master, history, raced, calls, faults>>

\* A named-column update, whatever the status was.
StartProduction(r) ==
    /\ At(r, "confirm", "pfo")
    /\ pfo' = [pfo EXCEPT !.status = "IN_PRODUCTION"]
    /\ Done(r)
    /\ UNCHANGED <<need, gi, po, rows, master, history, raced, calls, faults>>

\* The code asks for no status; the screen offers it for CONFIRMED.
SaveDelivered(r, g) ==
    /\ At(r, "delivered", "save")
    /\ req[r].id = g
    /\ gi' = [gi EXCEPT ![g] = [Seen(r).gi EXCEPT !.status = "DELIVERED"]]
    /\ skipped' = IF Seen(r).gi.status = "DRAFT" THEN skipped \cup {g} ELSE skipped
    /\ Done(r)
    /\ UNCHANGED <<pfo, need, po, rows, master, handed, asked, gone, failed, raced, calls, faults>>

\* Fault seeded: the items of any issue can be changed.
EditableAlways(row) == TRUE

Editable(row) == row.status = "DRAFT"

SaveEdited(r, g) ==
    /\ At(r, "edit", "save")
    /\ req[r].id = g
    /\ LET new == IF Editable(Seen(r).gi) THEN Seen(r).qty ELSE Seen(r).gi.qty
       IN  /\ gi' = [gi EXCEPT ![g] = [Seen(r).gi EXCEPT !.qty = new]]
           /\ asked' = Plus(asked, [m \in Mats |-> FromZero(new[m] - Seen(r).gi.qty[m])])
    /\ Done(r)
    /\ UNCHANGED <<pfo, need, po, rows, master, handed, gone, skipped, failed, raced, calls, faults>>

\* Fault seeded: goods that never left are put back.
PutBackAlways(row) == TRUE

PutBack(row) == row.status \in {"CONFIRMED", "DELIVERED"}

\* The master is raised, inventory_stocks are not.
ReturnGoods(r, g) ==
    /\ At(r, "delete", "return")
    /\ req[r].id = g
    /\ master' = IF PutBack(Seen(r).gi) THEN Plus(master, Seen(r).gi.qty) ELSE master
    /\ Goto(r, "drop", Seen(r))
    /\ UNCHANGED <<pfo, need, gi, po, rows, history, raced, calls, faults>>

DropIssue(r, g) ==
    /\ At(r, "delete", "drop")
    /\ req[r].id = g
    /\ gi' = [gi EXCEPT ![g] = DeletedIssue]
    /\ gone' = IF Seen(r).gi.status \in {"CONFIRMED", "DELIVERED"} /\ g \notin skipped
               THEN Plus(gone, Seen(r).gi.qty) ELSE gone
    /\ Done(r)
    /\ UNCHANGED <<pfo, need, po, rows, master, handed, asked, skipped, failed, raced, calls, faults>>

--------------------------------------------------------------------------------
(* supplierAction and checkAndUpdatePfoStatus *)

\* What the supplier's link allows, and the status it leads to.
Answers(status) ==
    {"DELIVERED", "CANCELLED"}
        \cup (IF status = "DRAFT" THEN {"CONFIRMED"} ELSE {})
        \cup (IF status \in {"DRAFT", "CONFIRMED"} THEN {"ORDERED"} ELSE {status})

BeginSupplier(r, p, answer) ==
    /\ po[p].status \notin {"unused", "deleted"}
    /\ answer \in Answers(po[p].status)
    /\ Begin(r, "supplier", "save", p,
             [NothingSeen EXCEPT !.po = [po[p] EXCEPT !.status = answer]])

SaveOrder(r, p) ==
    /\ At(r, "supplier", "save")
    /\ req[r].id = p
    /\ po' = [po EXCEPT ![p] = Seen(r).po]
    /\ Goto(r, "check", Seen(r))
    /\ UNCHANGED <<pfo, need, gi, rows, master, history, raced, calls, faults>>

Statuses == {po[p].status : p \in Orders} \ {"unused", "deleted"}

\* The status the orders call for, given the one the PFO has.
CalledFor(status) ==
    IF Statuses \subseteq {"DELIVERED"} /\ status # "READY_TO_SHIP" THEN "READY_TO_SHIP"
    ELSE IF Statuses \cap {"CONFIRMED", "ORDERED", "DELIVERED"} # {} /\ status = "DRAFT"
         THEN "IN_PRODUCTION"
         ELSE status

CheckPfo(r) ==
    /\ At(r, "supplier", "check")
    /\ IF Statuses = {} \/ CalledFor(pfo.status) = pfo.status THEN Done(r)
       ELSE Goto(r, "set", [PfoAsRead EXCEPT !.status = CalledFor(pfo.status)])
    /\ UNCHANGED <<pfo, need, gi, po, rows, master, history, raced, calls, faults>>

--------------------------------------------------------------------------------
(* Handlers that read the PFO and save it with another status *)

BeginMove(r, call, status, vendor) ==
    Begin(r, call, "set", NoId, [PfoWithNeeds EXCEPT !.status = status, !.vendor = vendor])

AssignVendor(r) == BeginMove(r, "vendor", "WAITING_VENDOR", TRUE)

\* The final inspection is passed; a rejection leaves the PFO alone.
SubmitQcRecord(r) == BeginMove(r, "qc", "RECEIVING", pfo.vendor)

\* Any status may be asked for.
UpdatePfoStatus(r, status) == BeginMove(r, "board", status, pfo.vendor)

\* The board reads the requirements along, and so writes them back.
SetPfo(r) ==
    /\ req[r].at = "set"
    /\ pfo' = [status |-> Seen(r).status, vendor |-> Seen(r).vendor]
    /\ need' = IF req[r].call = "board" THEN Seen(r).need ELSE need
    /\ Done(r)
    /\ UNCHANGED <<gi, po, rows, master, history, raced, calls, faults>>

--------------------------------------------------------------------------------
\* A statement fails or the server stops: what was written stays.
Fail(r) ==
    /\ r \in InFlight
    /\ faults < MaxFaults
    /\ faults' = faults + 1
    /\ failed' = failed \cup Tables(req[r].call)
    /\ Done(r)
    /\ UNCHANGED <<pfo, need, gi, po, rows, master, handed, asked, gone, skipped, raced, calls>>

\* What the stores enter.
Quantities == [Mats -> 0..MaxQuantity]

Generate(r) ==
    \/ BeginGenerate(r) \/ DropDrafts(r) \/ ClearIssues(r) \/ NetIssued(r)
    \/ \E g \in Issues : DraftIssue(r, g)
    \/ BuyMaterials(r) \/ Subcontract(r) \/ FinishGenerate(r)

HandOut(r) ==
    \/ \E m \in Mats : SaveHandOut(r, m) \/ \E n \in 1..Planned[m] : BeginHandOut(r, m, n)
    \/ PromotePfo(r)

OnIssue(r, g) ==
    \/ BeginConfirm(r, g) \/ SaveConfirmed(r, g)
    \/ BeginWithIssue(r, "delivered", "save", g, Zero) \/ SaveDelivered(r, g)
    \/ BeginWithIssue(r, "delete", "return", g, Zero) \/ ReturnGoods(r, g) \/ DropIssue(r, g)
    \/ \E qty \in Quantities : Export(r, g, qty) \/ BeginWithIssue(r, "edit", "save", g, qty)
    \/ SaveEdited(r, g)

OnOrder(r, p) ==
    \/ \E answer \in Answers(po[p].status) : BeginSupplier(r, p, answer)
    \/ SaveOrder(r, p)

MovePfo(r) ==
    \/ AssignVendor(r) \/ SubmitQcRecord(r) \/ SetPfo(r)
    \/ \E status \in BoardMoves : UpdatePfoStatus(r, status)

Next ==
    \/ Recalculate
    \/ \E m \in Mats : \E n \in 0..Planned[m] : SaveRequirements(m, n)
    \/ \E g \in Issues, qty \in Quantities : CreateGoodsIssue(g, qty)
    \/ \E r \in Requests :
        \/ Generate(r) \/ HandOut(r) \/ StartProduction(r) \/ CheckPfo(r) \/ MovePfo(r)
        \/ \E g \in Issues : OnIssue(r, g)
        \/ \E p \in Orders : OnOrder(r, p)
        \/ Fail(r)

Spec == Init /\ [][Next]_vars

--------------------------------------------------------------------------------
Quantity == [Mats -> Nat]
Need == [Mats -> [issued : Nat, toBuy : Nat, fromStock : Nat]]
IssueRow == [status : {"unused", "deleted", "DRAFT", "CONFIRMED", "DELIVERED"}, qty : Quantity]
OrderRow == [status : {"unused", "deleted", "DRAFT", "CONFIRMED", "ORDERED", "DELIVERED",
                       "CANCELLED"},
             kind : {"MATERIAL", "OUTSOURCING"}]

\* Rows keep their fields; stock may go below zero, as adjustStock lets it.
TypeOK ==
    /\ pfo \in [status : PfoStatus, vendor : BOOLEAN]
    /\ need \in Need
    /\ gi \in [Issues -> IssueRow]
    /\ po \in [Orders -> OrderRow]
    /\ rows \in [Mats -> Int]
    /\ master \in [Mats -> Int]
    /\ handed \in Quantity
    /\ asked \in Quantity
    /\ gone \in Quantity

\* "Hard stop": issued_quantity never exceeds the plan, whoever overwrites it;
\* and as long as nobody did, it is what was really handed out since the BOM
\* was run.
HandedWithinPlan ==
    /\ \A m \in Mats : need[m].issued <= Planned[m]
    /\ "needs" \notin raced => \A m \in Mats : need[m].issued = handed[m]

Left(issues) == {g \in issues \cap Live : g \notin skipped}

\* Every unit missing from inventory_stocks is on an issue, or left on one that
\* was deleted; a confirmation on its way aside.
IssuesExplainStock ==
    ("issues" \notin raced \cup failed /\ \A r \in InFlight : ~At(r, "confirm", "save"))
        => Minus(Opening, rows) = Plus(Total(Left(Issues)), gone)

\* Deleting issues never puts back more than was taken, unless an issue was
\* marked delivered that had never been confirmed.
NothingFromNowhere ==
    ("issues" \notin raced \cup failed /\ skipped = {}) => \A m \in Mats : master[m] <= Opening[m]

\* "To avoid duplicates": however often orders are generated, issues for more
\* than was ever wanted from stock do not exist.
IssuesWithinNeed ==
    "issues" \notin raced =>
        \A m \in Mats : Total(Live \cup DraftIssues)[m] <= asked[m]

\* Regenerating replaces the drafts: whatever has been sent, answered, failed
\* or regenerated before, no need is ordered by two drafts at a time.
DraftsReplaced ==
    "orders" \notin raced =>
        \A p, q \in Orders :
            po[p].status = "DRAFT" /\ po[q] = po[p] => p = q
================================================================================
