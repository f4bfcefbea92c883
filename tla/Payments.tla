-------------------------------- MODULE Payments --------------------------------
(***************************************************************************)
(* Money: the transactions of src/src/finance/finance.service.ts, the      *)
(* payment_status they give to sales orders, and the paid_amount that they *)
(* leave on purchase orders through updatePayment and updatePaymentById of *)
(* src/src/purchasing/purchasing.service.ts, pooled orders included.  The  *)
(* handlers that save whole order rows meanwhile, SalesService.update and  *)
(* updatePO, take part with what they write of these columns.              *)
(*                                                                         *)
(* One action per awaited statement that reads or writes these tables; a   *)
(* request keeps what it has read.                                         *)
(***************************************************************************)
EXTENDS Integers, FiniteSets, Functions

CONSTANTS
    Orders,       \* sales orders
    PurchaseOrders,
    ParentOf,     \* the pooled purchase order a purchase order belongs to
    NoPO,
    Vouchers,     \* ids of transactions, each given once
    NoVoucher,
    NoOrder,
    Requests,     \* slots for requests in flight
    Amounts,      \* the amounts users enter, positive
    Totals,       \* the totals of orders
    Calls,        \* the handlers users call
    MaxCalls,     \* bound: requests accepted
    MaxFaults     \* bound: requests cut short

Pooled == {ParentOf[p] : p \in PurchaseOrders} \ {NoPO}
Children(p) == {c \in PurchaseOrders : ParentOf[c] = p}

CallNames == {"payment", "income", "change", "approve", "payPO", "delete",
              "editOrder", "editPO"}

ASSUME PaymentConstants ==
    /\ IsFiniteSet(PurchaseOrders)
    /\ IsFiniteSet(Vouchers)
    /\ ParentOf \in [PurchaseOrders -> PurchaseOrders \cup {NoPO}]
    /\ \A p \in Pooled : ParentOf[p] = NoPO
    /\ NoPO \notin PurchaseOrders
    /\ NoVoucher \notin Vouchers
    /\ NoOrder \notin Orders
    /\ Amounts \subseteq Nat \ {0}
    /\ Totals \subseteq Nat
    /\ Calls \subseteq CallNames
    /\ MaxCalls \in Nat
    /\ MaxFaults \in Nat

VARIABLES
    order,     \* total_amount and payment_status of each sales order
    po,        \* total_amount and paid_amount of each purchase order
    voucher,   \* the transactions
    received,  \* the sum of the completed INCOME rows of each order, the one
               \* payments.reduce takes, kept as the rows change
    req,       \* the requests in flight
    calls,     \* requests so far
    faults,    \* requests cut short so far
    crowded,   \* ghost: two requests have been in flight together
    shrunk,    \* ghost: orders whose income fell or whose total rose
    behind     \* ghost: orders changed with no synchronisation after it

vars == <<order, po, voucher, received, req, calls, faults, crowded, shrunk, behind>>

PaymentStatus == {"UNPAID", "PARTIAL_PAID", "PAID"}

\* A row never made and one that was deleted.
Unused == [kind |-> "unused", status |-> "DRAFT", amount |-> 0, ref |-> NoOrder, allocs |-> <<>>]
Gone == [Unused EXCEPT !.kind = "gone"]
Income(v) == voucher[v].kind \in {"sales", "ledger"}

\* What a transaction counts for in the sum of order o.
Worth(tr, o) ==
    IF tr.kind \in {"sales", "ledger"} /\ tr.status = "COMPLETED" /\ tr.ref = o
    THEN tr.amount ELSE 0

NothingRead == [order |-> [total |-> 0, status |-> "UNPAID"],
                po |-> [p \in PurchaseOrders |-> [total |-> 0, paid |-> 0]]]
Idle == [pc |-> "idle", ref |-> NoOrder, id |-> NoVoucher, todo |-> <<>>, at |-> NoPO,
         kids |-> {}, new |-> 0, seen |-> NothingRead]

InFlight == {r \in Requests : req[r].pc # "idle"}

FromZero(n) == IF n < 0 THEN 0 ELSE n

\* Math.round of a / b, b positive: the nearest integer, halves upwards.
Rounded(a, b) == (2 * a + b) \div (2 * b)

Accept(name) ==
    /\ name \in Calls
    /\ calls < MaxCalls
    /\ calls' = calls + 1
    /\ crowded' = (crowded \/ InFlight # {})

Put(r, q) == req' = [req EXCEPT ![r] = q]

\* Transaction v becomes tr, and the sums follow.
Store(v, tr) ==
    /\ voucher' = [voucher EXCEPT ![v] = tr]
    /\ received' = [o \in Orders |->
                       received[o] - Worth(voucher[v], o) + Worth(tr, o)]
    /\ shrunk' = shrunk \cup {o \in Orders : Worth(tr, o) < Worth(voucher[v], o)}

--------------------------------------------------------------------------------
Init ==
    /\ order \in [Orders -> [total : Totals, status : {"UNPAID"}]]
    /\ \E total \in [PurchaseOrders \ Pooled -> Totals] :
          po = [p \in PurchaseOrders |->
                  [total |-> IF p \in Pooled THEN SumFunctionOnSet(total, Children(p)) ELSE total[p],
                   paid |-> 0]]
    /\ voucher = [v \in Vouchers |-> Unused]
    /\ received = [o \in Orders |-> 0]
    /\ req = [r \in Requests |-> Idle]
    /\ calls = 0
    /\ faults = 0
    /\ crowded = FALSE
    /\ shrunk = {}
    /\ behind = {}

--------------------------------------------------------------------------------
(* syncSOPaymentStatus *)

Synchronising == {"readOrder", "readPayments", "saveOrder"}
SyncOf(o) == [Idle EXCEPT !.pc = "readOrder", !.ref = o]

\* Fault seeded: nothing received counts as a part payment.
StatusForNothing(total, sum) ==
    IF sum >= total /\ total > 0 THEN "PAID"
    ELSE IF sum >= 0 THEN "PARTIAL_PAID" ELSE "UNPAID"

StatusFor(total, sum) ==
    IF sum >= total /\ total > 0 THEN "PAID"
    ELSE IF sum > 0 THEN "PARTIAL_PAID" ELSE "UNPAID"

ReadOrder(r) ==
    /\ req[r].pc = "readOrder"
    /\ Put(r, [req[r] EXCEPT !.pc = "readPayments", !.seen.order = order[req[r].ref]])
    /\ UNCHANGED <<order, po, voucher, received, calls, faults, crowded, shrunk, behind>>

ReadPayments(r) ==
    LET o == req[r].ref
        status == StatusFor(req[r].seen.order.total, received[o])
    IN  /\ req[r].pc = "readPayments"
        /\ IF req[r].seen.order.status = status
           THEN Put(r, Idle) /\ behind' = behind \ {o}
           ELSE /\ Put(r, [req[r] EXCEPT !.pc = "saveOrder", !.seen.order.status = status])
                /\ UNCHANGED behind
        /\ UNCHANGED <<order, po, voucher, received, calls, faults, crowded, shrunk>>

\* orderRepo.save writes the order back as it was read, but for the status.
SaveOrder(r) ==
    /\ req[r].pc = "saveOrder"
    /\ order' = [order EXCEPT ![req[r].ref] = req[r].seen.order]
    /\ behind' = behind \ {req[r].ref}
    /\ Put(r, Idle)
    /\ UNCHANGED <<po, voucher, received, calls, faults, crowded, shrunk>>

--------------------------------------------------------------------------------
(* Income: createPayment, createTransaction, updateTransaction, approveTransaction *)

CreatePayment(r) ==
    /\ req[r].pc = "idle"
    /\ Accept("payment")
    /\ \E v \in Vouchers, o \in Orders, amount \in Amounts, status \in {"DRAFT", "COMPLETED"} :
        /\ voucher[v] = Unused
        /\ Store(v, [kind |-> "sales", status |-> status, amount |-> amount,
                     ref |-> o, allocs |-> <<>>])
        /\ Put(r, SyncOf(o))
    /\ UNCHANGED <<order, po, faults, behind>>

\* An income booked in the ledger of the finance page: no synchronisation.
CreateTransaction ==
    /\ Accept("income")
    /\ \E v \in Vouchers, o \in Orders, amount \in Amounts :
        /\ voucher[v] = Unused
        /\ Store(v, [kind |-> "ledger", status |-> "COMPLETED", amount |-> amount,
                     ref |-> o, allocs |-> <<>>])
        /\ behind' = behind \cup {o}
    /\ UNCHANGED <<order, po, req, faults>>

\* Fault seeded: only a change of the status is followed by a synchronisation.
SyncsAfterStatus(old, tr) == tr.kind = "sales" /\ tr.status # old.status

\* The synchronisation is for rows whose reference_type is SALES.
Syncs(old, tr) == tr.kind = "sales"

\* The amount is edited, or a draft is confirmed (SalesPayments.tsx, FinancePage.tsx:
\* no screen makes a completed row a draft again).  The update and the read of
\* the row it answers with are one step.
UpdateTransaction(r) ==
    /\ req[r].pc = "idle"
    /\ Accept("change")
    /\ \E v \in Vouchers, amount \in Amounts, status \in {"DRAFT", "COMPLETED"} :
        LET old == voucher[v]
            new == [old EXCEPT !.amount = amount, !.status = status]
        IN  /\ Income(v)
            /\ old.status = "COMPLETED" => status = "COMPLETED"
            /\ Store(v, new)
            /\ IF Syncs(old, new)
               THEN Put(r, SyncOf(old.ref)) /\ UNCHANGED behind
               ELSE UNCHANGED req /\ behind' = behind \cup
                        {o \in Orders : old.kind = "ledger" /\ o = old.ref}
    /\ UNCHANGED <<order, po, faults>>

\* The approval of a draft saves the transaction and nothing else; its read and
\* its save are one step.
ApproveTransaction(v) ==
    /\ Accept("approve")
    /\ Income(v)
    /\ voucher[v].status = "DRAFT"
    /\ Store(v, [voucher[v] EXCEPT !.status = "COMPLETED"])
    /\ behind' = behind \cup {voucher[v].ref}
    /\ UNCHANGED <<order, po, req, faults>>

--------------------------------------------------------------------------------
(* createPOPayment, createBulkPoPayment, updatePayment and updatePaymentById *)

PayPOs(r) ==
    /\ req[r].pc = "idle"
    /\ Accept("payPO")
    /\ \E v \in Vouchers, paid \in SUBSET PurchaseOrders :
        \E allocs \in [paid -> Amounts] :
            /\ voucher[v] = Unused
            /\ paid # {}
            /\ Store(v, [Unused EXCEPT !.kind = "purchase", !.status = "COMPLETED",
                                       !.allocs = allocs])
            /\ Put(r, [Idle EXCEPT !.pc = "readPO", !.todo = allocs])
    /\ UNCHANGED <<order, po, faults, behind>>

\* updatePayment reads the order together with its children.
ReadPO(r, p) ==
    /\ req[r].pc = "readPO"
    /\ p \in DOMAIN req[r].todo
    /\ Put(r, [req[r] EXCEPT !.pc = "savePO", !.at = p, !.seen.po = po])
    /\ UNCHANGED <<order, po, voucher, received, calls, faults, crowded, shrunk, behind>>

\* The request once purchase order p and its children are written.
After(r, p) ==
    LET left == Restrict(req[r].todo, DOMAIN req[r].todo \ {p})
        next == [req[r] EXCEPT !.todo = left, !.at = NoPO, !.kids = {}, !.seen = NothingRead]
    IN  IF DOMAIN left # {} THEN [next EXCEPT !.pc = "readPO"]
        ELSE IF req[r].id # NoVoucher THEN [next EXCEPT !.pc = "remove", !.todo = <<>>]
        ELSE Idle

\* Fault seeded: the size of the change is added.
PaidUnsigned(row, change) ==
    [row EXCEPT !.paid = IF change < 0 THEN @ - change ELSE @ + change]

\* Fault seeded: nothing keeps the amount from going below zero.
PaidUnfloored(row, change) == [row EXCEPT !.paid = @ + change]

Paid(row, change) == [row EXCEPT !.paid = FromZero(@ + change)]

SavePO(r) ==
    LET p == req[r].at
    IN  /\ req[r].pc = "savePO"
        /\ po' = [po EXCEPT ![p] = Paid(req[r].seen.po[p], req[r].todo[p])]
        /\ Put(r, IF Children(p) = {} THEN After(r, p)
                  ELSE [req[r] EXCEPT !.pc = "saveChild", !.kids = Children(p)])
        /\ UNCHANGED <<order, voucher, received, calls, faults, crowded, shrunk, behind>>

\* A child's share of an amount paid for its pooled order.
Share(rows, p, c, amount) ==
    IF rows[p].total > 0 THEN Rounded(amount * rows[c].total, rows[p].total)
    ELSE Rounded(amount, Cardinality(Children(p)))

SaveChild(r, c) ==
    LET p == req[r].at
        left == req[r].kids \ {c}
    IN  /\ req[r].pc = "saveChild"
        /\ c \in req[r].kids
        /\ po' = [po EXCEPT ![c] =
                     Paid(req[r].seen.po[c], Share(req[r].seen.po, p, c, req[r].todo[p]))]
        /\ Put(r, IF left = {} THEN After(r, p) ELSE [req[r] EXCEPT !.kids = left])
        /\ UNCHANGED <<order, voucher, received, calls, faults, crowded, shrunk, behind>>

--------------------------------------------------------------------------------
(* deleteTransaction *)

\* Fault seeded: only a payment of a single order is rolled back.
RollbackOfSingle(tr) ==
    IF Cardinality(DOMAIN tr.allocs) = 1
    THEN [p \in DOMAIN tr.allocs |-> -tr.allocs[p]] ELSE <<>>

\* What is taken back from the purchase orders before the row is deleted.
Rollback(tr) == [p \in DOMAIN tr.allocs |-> -tr.allocs[p]]

BeginDelete(r, v) ==
    /\ req[r].pc = "idle"
    /\ voucher[v].kind \in {"sales", "ledger", "purchase"}
    /\ Accept("delete")
    /\ Put(r, [Idle EXCEPT !.id = v, !.ref = voucher[v].ref, !.todo = Rollback(voucher[v]),
                           !.pc = IF DOMAIN Rollback(voucher[v]) = {} THEN "remove" ELSE "readPO"])
    /\ UNCHANGED <<order, po, voucher, received, faults, shrunk, behind>>

RemoveVoucher(r) ==
    /\ req[r].pc = "remove"
    /\ Store(req[r].id, Gone)
    /\ Put(r, IF req[r].ref = NoOrder THEN Idle ELSE SyncOf(req[r].ref))
    /\ UNCHANGED <<order, po, calls, faults, crowded, behind>>

--------------------------------------------------------------------------------
(* The order updates: whole rows, read earlier *)

BeginEditOrder(r) ==
    /\ req[r].pc = "idle"
    /\ Accept("editOrder")
    /\ \E o \in Orders, total \in Totals :
        Put(r, [Idle EXCEPT !.pc = "editOrder", !.ref = o, !.new = total,
                            !.seen.order = order[o]])
    /\ UNCHANGED <<order, po, voucher, received, faults, shrunk, behind>>

\* SalesService.update: the new total, the payment status as it was read.
EditOrder(r) ==
    LET o == req[r].ref
    IN  /\ req[r].pc = "editOrder"
        /\ order' = [order EXCEPT ![o] = [req[r].seen.order EXCEPT !.total = req[r].new]]
        /\ shrunk' = IF req[r].new > req[r].seen.order.total THEN shrunk \cup {o} ELSE shrunk
        /\ behind' = IF req[r].new = req[r].seen.order.total THEN behind ELSE behind \cup {o}
        /\ Put(r, Idle)
        /\ UNCHANGED <<po, voucher, received, calls, faults, crowded>>

BeginEditPO(r) ==
    /\ req[r].pc = "idle"
    /\ Accept("editPO")
    /\ \E p \in PurchaseOrders \ Pooled, total \in Totals :
        Put(r, [Idle EXCEPT !.pc = "editPO", !.at = p, !.new = total, !.seen.po = po])
    /\ UNCHANGED <<order, po, voucher, received, faults, shrunk, behind>>

\* updatePO: the new total, the paid amount as it was read.
EditPO(r) ==
    LET p == req[r].at
    IN  /\ req[r].pc = "editPO"
        /\ po' = [po EXCEPT ![p] = [req[r].seen.po[p] EXCEPT !.total = req[r].new]]
        /\ Put(r, IF ParentOf[p] = NoPO THEN Idle
                  ELSE [Idle EXCEPT !.pc = "readPool", !.at = ParentOf[p]])
        /\ UNCHANGED <<order, voucher, received, calls, faults, crowded, shrunk, behind>>

ReadPool(r) ==
    /\ req[r].pc = "readPool"
    /\ Put(r, [req[r] EXCEPT !.pc = "savePool", !.seen.po = po])
    /\ UNCHANGED <<order, po, voucher, received, calls, faults, crowded, shrunk, behind>>

\* Fault seeded: the pooled order keeps the total it was created with.
TotalKept(rows, p) == rows[p].total

PooledTotal(rows, p) == SumFunctionOnSet([c \in PurchaseOrders |-> rows[c].total], Children(p))

\* The pooled order is saved with the sum of its children's totals.
SavePool(r) ==
    LET p == req[r].at
        rows == req[r].seen.po
    IN  /\ req[r].pc = "savePool"
        /\ po' = [po EXCEPT ![p] = [rows[p] EXCEPT !.total = PooledTotal(rows, p)]]
        /\ Put(r, Idle)
        /\ UNCHANGED <<order, voucher, received, calls, faults, crowded, shrunk, behind>>

--------------------------------------------------------------------------------
\* A statement fails or the server stops; what was written stays.
Fail(r) ==
    /\ req[r].pc # "idle"
    /\ faults < MaxFaults
    /\ faults' = faults + 1
    /\ behind' = IF req[r].pc \in Synchronising THEN behind \cup {req[r].ref} ELSE behind
    /\ Put(r, Idle)
    /\ UNCHANGED <<order, po, voucher, received, calls, crowded, shrunk>>

Next ==
    \/ CreateTransaction
    \/ \E v \in Vouchers : ApproveTransaction(v)
    \/ \E r \in Requests :
        \/ CreatePayment(r) \/ UpdateTransaction(r)
        \/ ReadOrder(r) \/ ReadPayments(r) \/ SaveOrder(r)
        \/ PayPOs(r) \/ SavePO(r)
        \/ \E p \in PurchaseOrders : ReadPO(r, p) \/ SaveChild(r, p)
        \/ \E v \in Vouchers : BeginDelete(r, v)
        \/ RemoveVoucher(r)
        \/ BeginEditOrder(r) \/ EditOrder(r)
        \/ BeginEditPO(r) \/ EditPO(r) \/ ReadPool(r) \/ SavePool(r)
        \/ Fail(r)

Spec == Init /\ [][Next]_vars

--------------------------------------------------------------------------------
SalesRow == [total : Nat, status : PaymentStatus]
PORow == [total : Nat, paid : Nat]
Request(S) ==
    [pc : {"idle", "readPO", "savePO", "saveChild", "remove", "editOrder", "editPO",
           "readPool", "savePool"} \cup Synchronising,
     ref : Orders \cup {NoOrder}, id : Vouchers \cup {NoVoucher}, todo : [S -> Int],
     at : PurchaseOrders \cup {NoPO}, kids : SUBSET PurchaseOrders, new : Nat,
     seen : [order : SalesRow, po : [PurchaseOrders -> PORow]]]

IncomeOf(o) == SumFunctionOnSet([v \in Vouchers |-> Worth(voucher[v], o)], Vouchers)

\* Types, and the sums kept in received are those of the rows: what every
\* other formula about transactions and orders takes for granted.
TypeOK ==
    /\ order \in [Orders -> SalesRow]
    /\ po \in [PurchaseOrders -> PORow]
    /\ \A v \in Vouchers : /\ voucher[v].amount \in Nat
                           /\ voucher[v].ref \in Orders \cup {NoOrder}
    /\ received = [o \in Orders |-> IncomeOf(o)]
    /\ \A r \in Requests : \E S \in SUBSET PurchaseOrders : req[r] \in Request(S)
    /\ shrunk \cup behind \subseteq Orders

Serial == ~crowded
Quiet == InFlight = {}

\* What a status promises about the money received.
Covered(row, sum) ==
    /\ row.status = "PAID" => sum >= row.total
    /\ row.status = "PARTIAL_PAID" => sum > 0

\* An order shown PAID has received its total and one shown PARTIAL_PAID has
\* received something, whatever requests overlap and wherever they are cut
\* short, unless income of it was withdrawn or its total raised: what
\* syncSOPaymentStatus and the whole-row saves of an order may not break.
PaidIsCovered == \A o \in Orders \ shrunk : Covered(order[o], received[o])

\* Between requests that do not overlap, the payment status of an order is the
\* one its rows give, unless its last change was one that the code follows
\* with no synchronisation: the syncSOPaymentStatus calls of createPayment,
\* updateTransaction and deleteTransaction are where they have to be.
StatusFollowsPayments ==
    Serial /\ Quiet => \A o \in Orders \ behind :
        order[o].status = StatusFor(order[o].total, IncomeOf(o))

Alone == {p \in PurchaseOrders : ParentOf[p] = NoPO}

\* What the transactions that exist allocate to purchase order p.
Allocated(p) ==
    SumFunctionOnSet([v \in Vouchers |->
        IF p \in DOMAIN voucher[v].allocs THEN voucher[v].allocs[p] ELSE 0], Vouchers)

\* Requests that neither overlap nor fail leave, on every purchase order that
\* is in no pool, the paid amount that the existing transactions allocate to
\* it: payments, their deletion and the row saves of updatePO agree.
PaidFollowsVouchers ==
    Serial /\ faults = 0 /\ Quiet => \A p \in Alone : po[p].paid = Allocated(p)

\* Cutting requests short, and trying them again, may lose track of a payment
\* to a supplier but never shows more paid than transactions account for.
NeverOverstated == Serial => \A p \in Alone : po[p].paid <= Allocated(p)

Magnitude(n) == IF n < 0 THEN -n ELSE n

\* What updatePayment hands to the children of a pooled order is the amount
\* paid, up to half a unit of rounding for each child: the total it divides
\* by, which updatePO keeps, is the sum of the totals it multiplies with.
PoolSharesAddUp ==
    Serial /\ faults = 0 => \A r \in Requests :
        req[r].pc = "savePO" /\ Children(req[r].at) # {} =>
            LET p == req[r].at
                shares == SumFunctionOnSet(
                    [c \in PurchaseOrders |-> Share(req[r].seen.po, p, c, req[r].todo[p])],
                    Children(p))
            IN  2 * Magnitude(shares - req[r].todo[p]) <= Cardinality(Children(p))

=============================================================================
