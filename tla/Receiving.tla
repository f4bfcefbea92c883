------------------------------- MODULE Receiving -------------------------------
(***************************************************************************)
(* Receipts of materials against purchase orders: createDraftReceipt,      *)
(* deleteDraftReceipt, confirmReceipt and updatePODeliveryStatus of        *)
(* src/src/inventory/inventory.service.ts; updatePO, createGoodsReceipt    *)
(* and supplierAction of src/src/purchasing/purchasing.service.ts, with    *)
(* checkAndUpdatePfoStatus of src/src/planning/planning.service.ts.        *)
(*                                                                         *)
(* The orders belong to one PFO and go to one supplier, have one item at a *)
(* price of one, and buy a material.  A confirmation imports the goods,    *)
(* raises the supplier's debt, adds its freight to the order, completes    *)
(* the receipt and compares what has arrived with what was ordered; each   *)
(* row is read and saved whole, with nothing that keeps requests apart.    *)
(***************************************************************************)
EXTENDS Integers, FiniteSets, Functions

CONSTANTS
    Orders,      \* purchase orders
    Receipts,    \* ids of receipts
    Ordered,     \* quantity ordered at the start
    Amounts,     \* quantities a receipt is written or corrected to
    Fees,        \* freight a confirmation may enter
    Corrections, \* quantities an order is changed to
    Debt,        \* names supplier.debt among the rows requests race on
    Requests,    \* slots for requests in flight
    Calls,       \* the handlers users call
    NoId,
    MaxCalls,    \* bound: calls accepted
    MaxFaults    \* bound: requests cut short by a fault

CallNames == {"draft", "drop", "confirm", "update", "order", "direct", "supplier"}

ASSUME ReceivingConstants ==
    /\ IsFiniteSet(Receipts)
    /\ Ordered \in Nat \ {0}
    /\ Amounts \subseteq Nat
    /\ Fees \subseteq Nat
    /\ Corrections \subseteq Nat \ {0}
    /\ Orders \cap Receipts = {}
    /\ Debt \notin Orders \cup Receipts
    /\ NoId \notin Orders \cup Receipts
    /\ Calls \subseteq CallNames
    /\ MaxCalls \in Nat
    /\ MaxFaults \in Nat

VARIABLES
    po,        \* status, quantity of the item and total_amount of each order
    receipt,   \* goods_receipts with their item
    imported,  \* units in stock_history under the code of a receipt
    debt,      \* the supplier's debt
    pfo,       \* status of the PFO
    req,       \* the requests in flight
    counted,   \* history: orders whose status the receipts have set last
    repriced,  \* history: orders whose total was computed again from the items
    raced,     \* history: rows two requests had in hand together
    failed,    \* history: rows a request had in hand when it was cut short
    calls, faults

vars == <<po, receipt, imported, debt, pfo, req, counted, repriced, raced, failed,
          calls, faults>>
history == <<counted, repriced>>

NoReceipt == [status |-> "unused", po |-> NoId, qty |-> 0, fee |-> 0]
NewOrder == [status |-> "DRAFT", qty |-> Ordered, total |-> Ordered]

Idle == [call |-> "idle", at |-> "begin", id |-> NoId, po |-> NewOrder,
         receipt |-> NoReceipt, amount |-> 0]

InFlight == {r \in Requests : req[r].call # "idle"}
At(r, call, step) == req[r].call = call /\ req[r].at = step
OrderOf(r) == IF req[r].id \in Receipts THEN req[r].receipt.po ELSE req[r].id

\* The rows a request works on.
RowsOf(call, id, order) ==
    CASE call = "confirm" -> {id, order, Debt}
      [] call = "drop" -> {id}
      [] OTHER -> {order}
InHand(r) == IF r \in InFlight THEN RowsOf(req[r].call, req[r].id, OrderOf(r)) ELSE {}

Begin(r, call, step, id, order, row) ==
    /\ call \in Calls
    /\ req[r].call = "idle"
    /\ calls < MaxCalls
    /\ calls' = calls + 1
    /\ req' = [req EXCEPT ![r] = [Idle EXCEPT !.call = call, !.at = step, !.id = id,
                                              !.po = po[order], !.receipt = row]]
    /\ raced' = raced \cup UNION {InHand(s) \cap RowsOf(call, id, order) : s \in InFlight}
    /\ UNCHANGED <<po, receipt, imported, debt, pfo, history, failed, faults>>

Goto(r, step) == req' = [req EXCEPT ![r].at = step]
Done(r) == req' = [req EXCEPT ![r] = Idle]

--------------------------------------------------------------------------------
Init ==
    /\ po = [p \in Orders |-> NewOrder]
    /\ receipt = [k \in Receipts |-> NoReceipt]
    /\ imported = [k \in Receipts |-> 0]
    /\ debt = 0
    /\ pfo = "DRAFT"
    /\ req = [r \in Requests |-> Idle]
    /\ counted = {}
    /\ repriced = {}
    /\ raced = {}
    /\ failed = {}
    /\ calls = 0
    /\ faults = 0

--------------------------------------------------------------------------------
(* Draft receipts *)

\* Fault seeded: the draft is not linked to its order.
UnlinkedDraft(p, n) == [status |-> "DRAFT", po |-> NoId, qty |-> n, fee |-> 0]

DraftFor(p, n) == [status |-> "DRAFT", po |-> p, qty |-> n, fee |-> 0]

CreateDraftReceipt(k, p, n) ==
    /\ "draft" \in Calls
    /\ calls < MaxCalls
    /\ calls' = calls + 1
    /\ receipt[k].status = "unused"
    /\ receipt' = [receipt EXCEPT ![k] = DraftFor(p, n)]
    /\ UNCHANGED <<po, imported, debt, pfo, req, history, raced, failed, faults>>

Open(row) == row.status = "DRAFT"

BeginDrop(r, k) ==
    /\ Open(receipt[k])
    /\ Begin(r, "drop", "delete", k, receipt[k].po, receipt[k])

DeleteDraft(r, k) ==
    /\ At(r, "drop", "delete")
    /\ req[r].id = k
    /\ receipt' = [receipt EXCEPT ![k].status = "deleted"]
    /\ Done(r)
    /\ UNCHANGED <<po, imported, debt, pfo, history, raced, failed, calls, faults>>

--------------------------------------------------------------------------------
(* confirmReceipt *)

BeginConfirm(r, k) ==
    /\ Open(receipt[k])
    /\ Begin(r, "confirm", "data", k, receipt[k].po, receipt[k])

\* The stores correct the quantity and enter the freight, or send nothing.
SaveData(r, k, n, fee) ==
    /\ At(r, "confirm", "data")
    /\ req[r].id = k
    /\ LET row == [req[r].receipt EXCEPT !.qty = n, !.fee = fee]
       IN  /\ receipt' = IF row = req[r].receipt THEN receipt ELSE [receipt EXCEPT ![k] = row]
           /\ req' = [req EXCEPT ![r].receipt = row, ![r].at = "import"]
    /\ UNCHANGED <<po, imported, debt, pfo, history, raced, failed, calls, faults>>

Import(r, k) ==
    /\ At(r, "confirm", "import")
    /\ req[r].id = k
    /\ imported' = [imported EXCEPT ![k] = @ + req[r].receipt.qty]
    /\ Goto(r, "readDebt")
    /\ UNCHANGED <<po, receipt, debt, pfo, history, raced, failed, calls, faults>>

\* Fault seeded: the freight is left out of the debt.
OwedForGoods(row) == row.qty

Owed(row) == row.qty + row.fee

ReadDebt(r) ==
    /\ At(r, "confirm", "readDebt")
    /\ req' = [req EXCEPT ![r].at = IF Owed(req[r].receipt) > 0 THEN "saveDebt" ELSE "readPo",
                          ![r].amount = debt + Owed(req[r].receipt)]
    /\ UNCHANGED <<po, receipt, imported, debt, pfo, history, raced, failed, calls, faults>>

SaveDebt(r) ==
    /\ At(r, "confirm", "saveDebt")
    /\ debt' = req[r].amount
    /\ Goto(r, "readPo")
    /\ UNCHANGED <<po, receipt, imported, pfo, history, raced, failed, calls, faults>>

ReadPo(r) ==
    /\ At(r, "confirm", "readPo")
    /\ req' = [req EXCEPT ![r].at = "savePo", ![r].po = po[OrderOf(r)]]
    /\ UNCHANGED <<po, receipt, imported, debt, pfo, history, raced, failed, calls, faults>>

\* The order was read without its items: their quantity stays as it is.
SavePo(r) ==
    LET p == OrderOf(r) IN
    /\ At(r, "confirm", "savePo")
    /\ po' = [po EXCEPT ![p] = [req[r].po EXCEPT !.total = @ + req[r].receipt.fee,
                                                 !.qty = po[p].qty]]
    /\ counted' = IF po'[p].status = po[p].status THEN counted ELSE counted \ {p}
    /\ Goto(r, "complete")
    /\ UNCHANGED <<receipt, imported, debt, pfo, repriced, raced, failed, calls, faults>>

Complete(r, k) ==
    /\ At(r, "confirm", "complete")
    /\ req[r].id = k
    /\ receipt' = [receipt EXCEPT ![k] = [req[r].receipt EXCEPT !.status = "COMPLETED"]]
    /\ Goto(r, "count")
    /\ UNCHANGED <<po, imported, debt, pfo, history, raced, failed, calls, faults>>

SumOf(f, p) == SumFunctionOnSet(f, {k \in Receipts : receipt[k].status = "COMPLETED"
                                                     /\ receipt[k].po = p})
Received(p) == SumOf([k \in Receipts |-> receipt[k].qty], p)

\* "Tolerance 5%"
Enough(n, quantity) == 100 * n >= 95 * quantity

\* Fault seeded: any arrival counts as the whole.
StatusIfAny(n, quantity, was) == IF n > 0 THEN "DELIVERED" ELSE was

\* The status n units received of a quantity give to an order.
StatusFor(n, quantity, was) ==
    IF Enough(n, quantity) THEN "DELIVERED"
    ELSE IF n > 0 THEN "PARTIAL_DELIVERED" ELSE was

\* updatePODeliveryStatus: the order with its item, then the receipts.
CountReceipts(r) ==
    LET p == OrderOf(r)
        status == StatusFor(Received(p), po[p].qty, po[p].status)
    IN  /\ At(r, "confirm", "count")
        /\ req' = [req EXCEPT ![r].at = "status", ![r].po = [po[p] EXCEPT !.status = status]]
        /\ UNCHANGED <<po, receipt, imported, debt, pfo, history, raced, failed, calls, faults>>

SaveStatus(r) ==
    /\ At(r, "confirm", "status")
    /\ po' = [po EXCEPT ![OrderOf(r)] = req[r].po]
    /\ counted' = counted \cup {OrderOf(r)}
    /\ Done(r)
    /\ UNCHANGED <<receipt, imported, debt, pfo, repriced, raced, failed, calls, faults>>

--------------------------------------------------------------------------------
(* updatePO, createGoodsReceipt, supplierAction *)

BeginWithOrder(r, call, step, p) ==
    Begin(r, call, step, p, p, NoReceipt)

\* The purchaser changes the item: the total is computed again.
SaveItems(r, p, n) ==
    /\ At(r, "update", "save")
    /\ req[r].id = p
    /\ po' = [po EXCEPT ![p] = [req[r].po EXCEPT !.qty = n, !.total = n]]
    /\ repriced' = repriced \cup {p}
    /\ counted' = counted \ {p}
    /\ Done(r)
    /\ UNCHANGED <<receipt, imported, debt, pfo, raced, failed, calls, faults>>

SaveWithStatus(r, p, status) ==
    /\ po' = [po EXCEPT ![p] = [req[r].po EXCEPT !.status = status]]
    /\ counted' = counted \ {p}
    /\ UNCHANGED <<receipt, imported, debt, pfo, repriced, raced, failed, calls, faults>>

\* The purchaser sets ORDERED.  syncPoPrices throws, so the request ends here
\* and the PFO is not looked at.
SaveOrdered(r, p) ==
    /\ At(r, "order", "save")
    /\ req[r].id = p
    /\ SaveWithStatus(r, p, "ORDERED")
    /\ Done(r)

\* POST purchasing/:id/receive imports under a code of its own and asks for no
\* status; the receipt it writes has no items.
SaveReceived(r, p) ==
    /\ At(r, "direct", "save")
    /\ req[r].id = p
    /\ SaveWithStatus(r, p, "COMPLETED")
    /\ Done(r)

\* The supplier's link: confirm, report progress, declare done, or reject.
Answers(status) ==
    {"DELIVERED", "CANCELLED"}
        \cup (IF status \in {"DRAFT", "SENT"} THEN {"CONFIRMED"} ELSE {})
        \cup (IF status \in {"DRAFT", "SENT", "CONFIRMED"} THEN {"ORDERED"} ELSE {status})

SaveAnswer(r, p, answer) ==
    /\ At(r, "supplier", "save")
    /\ req[r].id = p
    /\ answer \in Answers(req[r].po.status)
    /\ SaveWithStatus(r, p, answer)
    /\ Goto(r, "check")

Statuses == {po[p].status : p \in Orders}
Moving == {"ORDERED", "PARTIAL_DELIVERED", "DELIVERED", "COMPLETED", "CONFIRMED"}

CheckPfo(r) ==
    /\ At(r, "supplier", "check")
    /\ pfo' = IF Statuses \subseteq {"DELIVERED", "COMPLETED"} THEN "READY_TO_SHIP"
              ELSE IF Statuses \cap Moving # {} /\ pfo = "DRAFT" THEN "IN_PRODUCTION"
              ELSE pfo
    /\ Done(r)
    /\ UNCHANGED <<po, receipt, imported, debt, history, raced, failed, calls, faults>>

--------------------------------------------------------------------------------
\* A statement fails or the server stops: what was written stays.
Fail(r) ==
    /\ r \in InFlight
    /\ faults < MaxFaults
    /\ faults' = faults + 1
    /\ failed' = failed \cup InHand(r)
    /\ Done(r)
    /\ UNCHANGED <<po, receipt, imported, debt, pfo, history, raced, calls>>

OnReceipt(r, k) ==
    \/ BeginDrop(r, k) \/ DeleteDraft(r, k)
    \/ BeginConfirm(r, k) \/ Import(r, k) \/ Complete(r, k)
    \/ SaveData(r, k, req[r].receipt.qty, req[r].receipt.fee)
    \/ \E n \in Amounts, fee \in Fees : SaveData(r, k, n, fee)

OnOrder(r, p) ==
    \/ \E call \in {"update", "order", "direct", "supplier"} :
        BeginWithOrder(r, call, "save", p)
    \/ \E n \in Corrections : SaveItems(r, p, n)
    \/ SaveOrdered(r, p)
    \/ SaveReceived(r, p)
    \/ \E answer \in Answers(req[r].po.status) : SaveAnswer(r, p, answer)

Next ==
    \/ \E k \in Receipts, p \in Orders, n \in Amounts : CreateDraftReceipt(k, p, n)
    \/ \E r \in Requests :
        \/ \E k \in Receipts : OnReceipt(r, k)
        \/ \E p \in Orders : OnOrder(r, p)
        \/ ReadDebt(r) \/ SaveDebt(r) \/ ReadPo(r) \/ SavePo(r)
        \/ CountReceipts(r) \/ SaveStatus(r) \/ CheckPfo(r)
        \/ Fail(r)

Spec == Init /\ [][Next]_vars

--------------------------------------------------------------------------------
Order == [status : Moving \cup {"DRAFT", "CANCELLED"}, qty : Nat, total : Nat]
ReceiptRow == [status : {"unused", "deleted", "DRAFT", "COMPLETED"},
               po : Orders \cup {NoId}, qty : Nat, fee : Nat]

\* Rows keep their fields, and a receipt in use names its order.
TypeOK ==
    /\ po \in [Orders -> Order]
    /\ receipt \in [Receipts -> ReceiptRow]
    /\ \A k \in Receipts : receipt[k].status # "unused" => receipt[k].po \in Orders
    /\ imported \in [Receipts -> Nat]
    /\ debt \in Nat
    /\ pfo \in {"DRAFT", "IN_PRODUCTION", "READY_TO_SHIP"}

Settled(row) == row \notin raced \cup failed /\ \A r \in Requests : row \notin InHand(r)
NoneTorn == Receipts \cap (raced \cup failed) = {}

\* A receipt is in stock_history once it is completed, not before and not twice.
ImportedOnce ==
    \A k \in Receipts : Settled(k) =>
        imported[k] = IF receipt[k].status = "COMPLETED" THEN receipt[k].qty ELSE 0

\* So it is, and the debt and the order carry every completed receipt once, freight
\* included.  Rows that two requests had in hand together, or a fault hit, are excused.
BookedInFull ==
    /\ ImportedOnce
    /\ (Settled(Debt) /\ NoneTorn) =>
        debt = SumFunctionOnSet([k \in Receipts |-> receipt[k].qty + receipt[k].fee],
                                {k \in Receipts : receipt[k].status = "COMPLETED"})
    /\ \A p \in Orders : (Settled(p) /\ NoneTorn /\ p \notin repriced) =>
        po[p].total = Ordered + SumOf([k \in Receipts |-> receipt[k].fee], p)

\* However confirmations of different receipts interleave, an order the stores
\* made DELIVERED has at least 95% of its quantity in completed receipts.
DeliveredMeansReceived ==
    \A p \in counted :
        (po[p].status = "DELIVERED" /\ \A k \in Receipts : receipt[k].po = p => k \notin raced)
            => Enough(Received(p), po[p].qty)

\* "At least one order is placed: the plan goes to production."
OrderedMovesPfo ==
    (InFlight = {} /\ failed = {} /\ \E p \in Orders : po[p].status = "ORDERED")
        => pfo # "DRAFT"
================================================================================
