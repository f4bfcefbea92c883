----------------------------- MODULE PaymentsProofs -----------------------------
(***************************************************************************)
(* Theorems about Payments, for any numbers of orders, transactions and    *)
(* requests, overlapping freely and cut short anywhere.                    *)
(***************************************************************************)
EXTENDS Payments, SumTheorems

\* A transaction: its fields, its amount, the order it is for.
GoodVoucher(tr) ==
    /\ DOMAIN tr = {"kind", "status", "amount", "ref", "allocs"}
    /\ tr.amount \in Nat
    /\ tr.ref \in Orders \cup {NoOrder}
    /\ tr.kind \in {"sales", "ledger"} => tr.ref \in Orders

\* The steps at which a request holds an order it will write, or compare with.
Carrying == {"readPayments", "saveOrder", "editOrder"}

\* A request: its fields and the order it works for.
GoodRequest(q) ==
    /\ DOMAIN q = {"pc", "ref", "id", "todo", "at", "kids", "new", "seen"}
    /\ DOMAIN q.seen = {"order", "po"}
    /\ q.new \in Nat
    /\ q.seen.order \in SalesRow
    /\ q.ref \in Orders \cup {NoOrder}
    /\ q.pc \in Carrying \cup {"readOrder"} => q.ref \in Orders
    /\ q.id \in Vouchers \cup {NoVoucher}
    /\ q.pc = "remove" => q.id \in Vouchers

\* The order that request q holds is covered by the sums, unless it is lost.
Holds(q, sums, lost) ==
    q.pc \in Carrying /\ q.ref \notin lost => Covered(q.seen.order, sums[q.ref])

CoverTyped ==
    /\ order \in [Orders -> SalesRow]
    /\ received \in [Orders -> Int]
    /\ voucher = [v \in Vouchers |-> voucher[v]]
    /\ \A v \in Vouchers : GoodVoucher(voucher[v])
    /\ req = [r \in Requests |-> req[r]]
    /\ \A r \in Requests : GoodRequest(req[r])

\* The inductive invariant: what a request holds is covered too.
CoverInv ==
    /\ CoverTyped
    /\ \A r \in Requests : Holds(req[r], received, shrunk)
    /\ PaidIsCovered

--------------------------------------------------------------------------------
LEMMA WorthTyped ==
    ASSUME NEW tr, GoodVoucher(tr), NEW o
    PROVE  Worth(tr, o) \in Nat
  BY DEF GoodVoucher, Worth

LEMMA CoveredByMore ==
    ASSUME NEW row \in SalesRow, NEW a \in Int, NEW b \in Int, a <= b, Covered(row, a)
    PROVE  Covered(row, b)
  BY DEF SalesRow, Covered

\* The status that the synchronisation decides on promises no more than the sum.
LEMMA StatusIsCovered ==
    ASSUME NEW total, NEW sum, NEW row, row.total = total, row.status = StatusFor(total, sum)
    PROVE  Covered(row, sum)
  BY DEF Covered, StatusFor

LEMMA IdleGood == GoodRequest(Idle) /\ Idle.pc = "idle"
  BY DEF GoodRequest, Idle, NothingRead, SalesRow, PaymentStatus, Carrying

LEMMA SyncGood ==
    ASSUME NEW o \in Orders
    PROVE  GoodRequest(SyncOf(o)) /\ SyncOf(o).pc = "readOrder"
  BY DEF GoodRequest, SyncOf, Idle, NothingRead, SalesRow, PaymentStatus, Carrying

\* A step that changes one request and no order or transaction.
LEMMA RequestStep ==
    ASSUME CoverInv, NEW r \in Requests, NEW q, GoodRequest(q), Holds(q, received, shrunk),
           req' = [req EXCEPT ![r] = q],
           UNCHANGED <<order, voucher, received, shrunk>>
    PROVE  CoverInv'
  <1>1. req' = [s \in Requests |-> req'[s]]
    BY DEF CoverInv, CoverTyped
  <1>2. \A s \in Requests : req'[s] = IF s = r THEN q ELSE req[s]
    BY DEF CoverInv, CoverTyped
  <1>3. \A s \in Requests : GoodRequest(req'[s]) /\ Holds(req'[s], received, shrunk)
    BY <1>2 DEF CoverInv, CoverTyped
  <1>4. CoverTyped'
    BY <1>1, <1>3 DEF CoverInv, CoverTyped
  <1>5. PaidIsCovered'
    BY DEF CoverInv, PaidIsCovered
  <1> QED BY <1>3, <1>4, <1>5 DEF CoverInv

\* A step that stores a transaction, and may start or end a request with it.
LEMMA StoreStep ==
    ASSUME CoverInv, NEW v \in Vouchers, NEW tr, GoodVoucher(tr), Store(v, tr),
           order' = order,
           \/ req' = req
           \/ \E r \in Requests : \E q : /\ GoodRequest(q) /\ q.pc \notin Carrying
                                         /\ req' = [req EXCEPT ![r] = q]
    PROVE  CoverInv'
  <1>1. \A o \in Orders : Worth(voucher[v], o) \in Nat /\ Worth(tr, o) \in Nat
    BY WorthTyped DEF CoverInv, CoverTyped
  <1>2. \A o \in Orders : received'[o] = received[o] - Worth(voucher[v], o) + Worth(tr, o)
    BY DEF Store
  <1>3. received' \in [Orders -> Int]
    BY <1>1 DEF Store, CoverInv, CoverTyped
  <1>4. \A o \in Orders : o \notin shrunk' => o \notin shrunk /\ received[o] <= received'[o]
    BY <1>1, <1>2 DEF Store, CoverInv, CoverTyped
  <1>5. voucher' = [w \in Vouchers |-> voucher'[w]] /\ \A w \in Vouchers : GoodVoucher(voucher'[w])
    BY DEF Store, CoverInv, CoverTyped
  <1>6. /\ req' = [s \in Requests |-> req'[s]]
        /\ \A s \in Requests : /\ GoodRequest(req'[s])
                               /\ req'[s] = req[s] \/ req'[s].pc \notin Carrying
    BY DEF CoverInv, CoverTyped
  <1>7. CoverTyped'
    BY <1>3, <1>5, <1>6 DEF CoverInv, CoverTyped
  <1>8. ASSUME NEW row \in SalesRow, NEW o \in Orders, o \notin shrunk',
               Covered(row, received[o])
        PROVE  Covered(row, received'[o])
    <2>1. received[o] \in Int /\ received'[o] \in Int
      BY <1>3 DEF CoverInv, CoverTyped
    <2> QED BY <1>4, <1>8, <2>1, CoveredByMore
  <1>9. PaidIsCovered'
    BY <1>4, <1>8 DEF CoverInv, CoverTyped, PaidIsCovered
  <1>10. ASSUME NEW s \in Requests, req'[s].pc \in Carrying, req'[s].ref \notin shrunk'
         PROVE  Covered(req'[s].seen.order, received'[req'[s].ref])
    <2>1. req'[s] = req[s]
      BY <1>6, <1>10
    <2>2. req[s].ref \in Orders /\ req[s].seen.order \in SalesRow
      BY <1>10, <2>1 DEF CoverInv, CoverTyped, GoodRequest
    <2>3. Covered(req[s].seen.order, received[req[s].ref])
      BY <1>4, <1>10, <2>1, <2>2 DEF CoverInv, Holds
    <2> QED BY <1>8, <1>10, <2>1, <2>2, <2>3
  <1> QED BY <1>7, <1>9, <1>10 DEF CoverInv, Holds

\* A step that writes an order and ends the request.
LEMMA OrderStep ==
    ASSUME CoverInv, NEW r \in Requests, NEW o \in Orders, NEW row \in SalesRow,
           shrunk \subseteq shrunk',
           o \notin shrunk' => Covered(row, received[o]),
           order' = [order EXCEPT ![o] = row],
           req' = [req EXCEPT ![r] = Idle],
           UNCHANGED <<voucher, received>>
    PROVE  CoverInv'
  <1>1. order' \in [Orders -> SalesRow]
    BY DEF CoverInv, CoverTyped
  <1>2. /\ req' = [s \in Requests |-> req'[s]]
        /\ \A s \in Requests : req'[s] = IF s = r THEN Idle ELSE req[s]
    BY DEF CoverInv, CoverTyped
  <1>3. \A s \in Requests : GoodRequest(req'[s])
    BY <1>2, IdleGood DEF CoverInv, CoverTyped
  <1>4. \A s \in Requests : Holds(req'[s], received, shrunk')
    BY <1>2, IdleGood DEF CoverInv, Holds, Carrying
  <1>5. PaidIsCovered'
    BY DEF CoverInv, CoverTyped, PaidIsCovered
  <1>6. CoverTyped'
    BY <1>1, <1>2, <1>3 DEF CoverInv, CoverTyped
  <1> QED BY <1>4, <1>5, <1>6 DEF CoverInv

--------------------------------------------------------------------------------
LEMMA CoverInit == Init => CoverInv
  <1> SUFFICES ASSUME Init PROVE CoverInv
    OBVIOUS
  <1>1. order \in [Orders -> SalesRow] /\ \A o \in Orders : order[o].status = "UNPAID"
    BY PaymentConstants DEF Init, SalesRow, PaymentStatus
  <1>2. \A v \in Vouchers : GoodVoucher(voucher[v])
    BY DEF Init, Unused, GoodVoucher
  <1>3. \A r \in Requests : GoodRequest(req[r]) /\ req[r].pc = "idle"
    BY IdleGood DEF Init
  <1>4. CoverTyped
    BY <1>1, <1>2, <1>3 DEF Init, CoverTyped
  <1>5. PaidIsCovered
    BY <1>1 DEF PaidIsCovered, Covered
  <1> QED BY <1>3, <1>4, <1>5 DEF CoverInv, Holds, Carrying


\* A step that leaves sales orders and transactions alone and after which its
\* request carries no order.
LEMMA OtherStep ==
    ASSUME CoverInv, NEW r \in Requests, NEW q, Put(r, q), GoodRequest(q),
           q.pc \notin Carrying, UNCHANGED <<order, voucher, received, shrunk>>
    PROVE  CoverInv'
  BY RequestStep DEF Put, Holds

--------------------------------------------------------------------------------
(* The synchronisation *)

LEMMA ReadOrderCovers ==
    ASSUME CoverInv, NEW r \in Requests, ReadOrder(r) PROVE CoverInv'
  <1> DEFINE o == req[r].ref
             q == [req[r] EXCEPT !.pc = "readPayments", !.seen.order = order[o]]
  <1>1. o \in Orders /\ order[o] \in SalesRow /\ GoodRequest(req[r])
    BY DEF ReadOrder, CoverInv, CoverTyped, GoodRequest
  <1>2. q.ref = o /\ q.seen.order = order[o] /\ GoodRequest(q)
    BY <1>1 DEF GoodRequest, Carrying
  <1>3. Holds(q, received, shrunk)
    BY <1>1, <1>2 DEF CoverInv, PaidIsCovered, Holds
  <1>4. req' = [req EXCEPT ![r] = q] /\ UNCHANGED <<order, voucher, received, shrunk>>
    BY DEF ReadOrder, Put
  <1> HIDE DEF q
  <1> QED BY <1>2, <1>3, <1>4, RequestStep

LEMMA ReadPaymentsCovers ==
    ASSUME CoverInv, NEW r \in Requests, ReadPayments(r) PROVE CoverInv'
  <1> DEFINE o == req[r].ref
             status == StatusFor(req[r].seen.order.total, received[o])
             q == [req[r] EXCEPT !.pc = "saveOrder", !.seen.order.status = status]
  <1>1. GoodRequest(req[r]) /\ o \in Orders /\ status \in PaymentStatus
    BY DEF ReadPayments, CoverInv, CoverTyped, GoodRequest, Carrying, StatusFor, PaymentStatus
  <1>2. /\ q.ref = o /\ q.seen.order.status = status
        /\ q.seen.order.total = req[r].seen.order.total
    BY <1>1 DEF GoodRequest, SalesRow
  <1>3. GoodRequest(q)
    BY <1>1, <1>2 DEF GoodRequest, SalesRow
  <1>4. Holds(q, received, shrunk)
    BY <1>2, StatusIsCovered DEF Holds
  <1>5. Put(r, Idle) \/ Put(r, q)
    BY DEF ReadPayments
  <1>6. UNCHANGED <<order, voucher, received, shrunk>>
    BY DEF ReadPayments
  <1> HIDE DEF q
  <1>7. CASE Put(r, Idle)
    BY <1>6, <1>7, IdleGood, OtherStep DEF Carrying
  <1>8. CASE Put(r, q)
    BY <1>3, <1>4, <1>6, <1>8, RequestStep DEF Put
  <1> QED BY <1>5, <1>7, <1>8

LEMMA SaveOrderCovers ==
    ASSUME CoverInv, NEW r \in Requests, SaveOrder(r) PROVE CoverInv'
  <1> DEFINE o == req[r].ref
             row == req[r].seen.order
  <1>1. o \in Orders /\ row \in SalesRow
    BY DEF SaveOrder, CoverInv, CoverTyped, GoodRequest, Carrying
  <1>2. o \notin shrunk => Covered(row, received[o])
    BY DEF SaveOrder, CoverInv, Holds, Carrying
  <1>3. /\ order' = [order EXCEPT ![o] = row] /\ req' = [req EXCEPT ![r] = Idle]
        /\ UNCHANGED <<voucher, received, shrunk>>
    BY DEF SaveOrder, Put
  <1> HIDE DEF o, row
  <1> QED BY <1>1, <1>2, <1>3, OrderStep

--------------------------------------------------------------------------------
(* The transactions *)

LEMMA CreatePaymentCovers ==
    ASSUME CoverInv, NEW r \in Requests, CreatePayment(r) PROVE CoverInv'
  <1>1. PICK v \in Vouchers, o \in Orders, amount \in Amounts, status \in {"DRAFT", "COMPLETED"} :
            /\ Store(v, [kind |-> "sales", status |-> status, amount |-> amount,
                         ref |-> o, allocs |-> <<>>])
            /\ Put(r, SyncOf(o))
    BY DEF CreatePayment
  <1> DEFINE tr == [kind |-> "sales", status |-> status, amount |-> amount,
                    ref |-> o, allocs |-> <<>>]
  <1>2. GoodVoucher(tr)
    BY PaymentConstants DEF GoodVoucher
  <1>3. order' = order
    BY DEF CreatePayment
  <1>4. req' = [req EXCEPT ![r] = SyncOf(o)] /\ Store(v, tr)
    BY <1>1 DEF Put
  <1>5. GoodRequest(SyncOf(o)) /\ SyncOf(o).pc \notin Carrying
    BY SyncGood DEF Carrying
  <1> HIDE DEF tr
  <1> QED BY <1>2, <1>3, <1>4, <1>5, StoreStep

LEMMA CreateTransactionCovers ==
    ASSUME CoverInv, CreateTransaction PROVE CoverInv'
  <1>1. PICK v \in Vouchers, o \in Orders, amount \in Amounts :
            Store(v, [kind |-> "ledger", status |-> "COMPLETED", amount |-> amount,
                      ref |-> o, allocs |-> <<>>])
    BY DEF CreateTransaction
  <1> DEFINE tr == [kind |-> "ledger", status |-> "COMPLETED", amount |-> amount,
                    ref |-> o, allocs |-> <<>>]
  <1>2. GoodVoucher(tr)
    BY PaymentConstants DEF GoodVoucher
  <1>3. order' = order /\ req' = req
    BY DEF CreateTransaction
  <1>4. Store(v, tr)
    BY <1>1
  <1> HIDE DEF tr
  <1> QED BY <1>2, <1>3, <1>4, StoreStep

LEMMA UpdateTransactionCovers ==
    ASSUME CoverInv, NEW r \in Requests, UpdateTransaction(r) PROVE CoverInv'
  <1>1. PICK v \in Vouchers, amount \in Amounts, status \in {"DRAFT", "COMPLETED"} :
            LET old == voucher[v]
                new == [old EXCEPT !.amount = amount, !.status = status]
            IN  /\ Income(v)
                /\ Store(v, new)
                /\ \/ Syncs(old, new) /\ Put(r, SyncOf(old.ref))
                   \/ UNCHANGED req
    BY DEF UpdateTransaction
  <1> DEFINE tr == [voucher[v] EXCEPT !.amount = amount, !.status = status]
  <1>2. GoodVoucher(voucher[v])
    BY DEF CoverInv, CoverTyped
  <1>3. GoodVoucher(tr)
    BY <1>2, PaymentConstants DEF GoodVoucher
  <1>4. order' = order
    BY DEF UpdateTransaction
  <1>5. Store(v, tr)
    BY <1>1
  <1>6. CASE UNCHANGED req
    <2> HIDE DEF tr
    <2> QED BY <1>3, <1>4, <1>5, <1>6, StoreStep
  <1>7. CASE Put(r, SyncOf(voucher[v].ref)) /\ voucher[v].ref \in Orders
    <2>1. GoodRequest(SyncOf(voucher[v].ref)) /\ SyncOf(voucher[v].ref).pc \notin Carrying
      BY <1>7, SyncGood DEF Carrying
    <2>2. req' = [req EXCEPT ![r] = SyncOf(voucher[v].ref)]
      BY <1>7 DEF Put
    <2> HIDE DEF tr
    <2> QED BY <1>3, <1>4, <1>5, <2>1, <2>2, StoreStep
  <1>8. Syncs(voucher[v], tr) => voucher[v].ref \in Orders
    BY <1>2 DEF Syncs, GoodVoucher
  <1> QED BY <1>1, <1>6, <1>7, <1>8
LEMMA ApproveTransactionCovers ==
    ASSUME CoverInv, NEW v \in Vouchers, ApproveTransaction(v) PROVE CoverInv'
  <1> DEFINE tr == [voucher[v] EXCEPT !.status = "COMPLETED"]
  <1>1. GoodVoucher(tr)
    BY DEF CoverInv, CoverTyped, GoodVoucher
  <1>2. Store(v, tr) /\ order' = order /\ req' = req
    BY DEF ApproveTransaction
  <1> HIDE DEF tr
  <1> QED BY <1>1, <1>2, StoreStep

LEMMA PayPOsCovers ==
    ASSUME CoverInv, NEW r \in Requests, PayPOs(r) PROVE CoverInv'
  <1>1. PICK v \in Vouchers, paid \in SUBSET PurchaseOrders : \E allocs \in [paid -> Amounts] :
            /\ Store(v, [Unused EXCEPT !.kind = "purchase", !.status = "COMPLETED",
                                       !.allocs = allocs])
            /\ Put(r, [Idle EXCEPT !.pc = "readPO", !.todo = allocs])
    BY DEF PayPOs
  <1>2. PICK allocs \in [paid -> Amounts] :
            /\ Store(v, [Unused EXCEPT !.kind = "purchase", !.status = "COMPLETED",
                                       !.allocs = allocs])
            /\ Put(r, [Idle EXCEPT !.pc = "readPO", !.todo = allocs])
    BY <1>1
  <1> DEFINE tr == [Unused EXCEPT !.kind = "purchase", !.status = "COMPLETED", !.allocs = allocs]
             q == [Idle EXCEPT !.pc = "readPO", !.todo = allocs]
  <1>3. GoodVoucher(tr)
    BY DEF GoodVoucher, Unused
  <1>4. GoodRequest(q) /\ q.pc \notin Carrying
    BY IdleGood DEF GoodRequest, Carrying
  <1>5. Store(v, tr) /\ req' = [req EXCEPT ![r] = q]
    BY <1>2 DEF Put
  <1>6. order' = order
    BY DEF PayPOs
  <1> HIDE DEF tr, q
  <1> QED BY <1>3, <1>4, <1>5, <1>6, StoreStep

LEMMA BeginDeleteCovers ==
    ASSUME CoverInv, NEW r \in Requests, NEW v \in Vouchers, BeginDelete(r, v) PROVE CoverInv'
  <1> DEFINE todo == Rollback(voucher[v])
             pc == IF DOMAIN todo = {} THEN "remove" ELSE "readPO"
             q == [Idle EXCEPT !.id = v, !.ref = voucher[v].ref, !.todo = todo, !.pc = pc]
  <1>1. voucher[v].ref \in Orders \cup {NoOrder}
    BY DEF CoverInv, CoverTyped, GoodVoucher
  <1>2. pc \notin Carrying \cup {"readOrder"}
    BY DEF Carrying
  <1>3. Put(r, q) /\ UNCHANGED <<order, voucher, received, shrunk>>
    BY DEF BeginDelete
  <1> HIDE DEF todo, pc
  <1>4. GoodRequest(q) /\ q.pc \notin Carrying
    BY <1>1, <1>2, IdleGood DEF GoodRequest
  <1> HIDE DEF q
  <1> QED BY <1>3, <1>4, OtherStep

LEMMA RemoveVoucherCovers ==
    ASSUME CoverInv, NEW r \in Requests, RemoveVoucher(r) PROVE CoverInv'
  <1> DEFINE q == IF req[r].ref = NoOrder THEN Idle ELSE SyncOf(req[r].ref)
  <1>1. GoodVoucher(Gone)
    BY DEF GoodVoucher, Gone, Unused
  <1>2. req[r].ref \in Orders \cup {NoOrder} /\ req[r].id \in Vouchers
    BY DEF RemoveVoucher, CoverInv, CoverTyped, GoodRequest
  <1>3. GoodRequest(q) /\ q.pc \notin Carrying
    BY <1>2, IdleGood, SyncGood DEF Carrying
  <1>4. Store(req[r].id, Gone) /\ order' = order /\ req' = [req EXCEPT ![r] = q]
    BY DEF RemoveVoucher, Put
  <1> HIDE DEF q
  <1> QED BY <1>1, <1>2, <1>3, <1>4, StoreStep

--------------------------------------------------------------------------------
(* The order updates *)

LEMMA BeginEditOrderCovers ==
    ASSUME CoverInv, NEW r \in Requests, BeginEditOrder(r) PROVE CoverInv'
  <1>1. PICK o \in Orders, total \in Totals :
            Put(r, [Idle EXCEPT !.pc = "editOrder", !.ref = o, !.new = total,
                                !.seen.order = order[o]])
    BY DEF BeginEditOrder
  <1> DEFINE q == [Idle EXCEPT !.pc = "editOrder", !.ref = o, !.new = total,
                               !.seen.order = order[o]]
  <1>2. order[o] \in SalesRow /\ total \in Nat
    BY PaymentConstants DEF CoverInv, CoverTyped
  <1>3. q.ref = o /\ q.seen.order = order[o] /\ GoodRequest(q)
    BY <1>2, IdleGood DEF GoodRequest
  <1>4. Holds(q, received, shrunk)
    BY <1>3 DEF CoverInv, PaidIsCovered, Holds
  <1>5. req' = [req EXCEPT ![r] = q] /\ UNCHANGED <<order, voucher, received, shrunk>>
    BY <1>1 DEF BeginEditOrder, Put
  <1> HIDE DEF q
  <1> QED BY <1>3, <1>4, <1>5, RequestStep

LEMMA EditOrderCovers ==
    ASSUME CoverInv, NEW r \in Requests, EditOrder(r) PROVE CoverInv'
  <1> DEFINE o == req[r].ref
             old == req[r].seen.order
             new == req[r].new
             row == [old EXCEPT !.total = new]
  <1>1. o \in Orders /\ old \in SalesRow /\ new \in Nat /\ received[o] \in Int
    BY DEF EditOrder, CoverInv, CoverTyped, GoodRequest, Carrying
  <1>2. row \in SalesRow /\ row.total = new /\ row.status = old.status
    BY <1>1 DEF SalesRow
  <1>3. o \notin shrunk => Covered(old, received[o])
    BY DEF EditOrder, CoverInv, Holds, Carrying
  <1>4. shrunk \subseteq shrunk' /\ (o \notin shrunk' => o \notin shrunk /\ ~(new > old.total))
    BY DEF EditOrder
  <1>5. /\ order' = [order EXCEPT ![o] = row] /\ req' = [req EXCEPT ![r] = Idle]
        /\ UNCHANGED <<voucher, received>>
    BY DEF EditOrder, Put
  <1> HIDE DEF o, old, new, row
  <1>6. o \notin shrunk' => Covered(row, received[o])
    BY <1>1, <1>2, <1>3, <1>4 DEF Covered, SalesRow
  <1> QED BY <1>1, <1>2, <1>4, <1>5, <1>6, OrderStep

--------------------------------------------------------------------------------
(* The steps about purchase orders, and the faults *)

LEMMA AfterGood ==
    ASSUME CoverInv, NEW r \in Requests, NEW p
    PROVE  GoodRequest(After(r, p)) /\ After(r, p).pc \notin Carrying
  <1> DEFINE left == Restrict(req[r].todo, DOMAIN req[r].todo \ {p})
  <1>1. GoodRequest(req[r])
    BY DEF CoverInv, CoverTyped
  <1>2. NothingRead.order \in SalesRow /\ DOMAIN NothingRead = {"order", "po"}
    BY DEF NothingRead, SalesRow, PaymentStatus
  <1> DEFINE next == [req[r] EXCEPT !.todo = left, !.at = NoPO, !.kids = {}, !.seen = NothingRead]
             again == [next EXCEPT !.pc = "readPO"]
             end == [next EXCEPT !.pc = "remove", !.todo = <<>>]
  <1>3. \/ After(r, p) \in {again, Idle}
        \/ After(r, p) = end /\ req[r].id # NoVoucher
    BY DEF After
  <1> HIDE DEF left
  <1>4. /\ DOMAIN next = {"pc", "ref", "id", "todo", "at", "kids", "new", "seen"}
        /\ next.seen = NothingRead /\ next.ref = req[r].ref /\ next.new = req[r].new
        /\ next.id = req[r].id
    BY <1>1 DEF GoodRequest
  <1> HIDE DEF next
  <1>5. GoodRequest(again) /\ again.pc = "readPO"
    BY <1>1, <1>2, <1>4 DEF GoodRequest, Carrying
  <1>6. req[r].id # NoVoucher => GoodRequest(end) /\ end.pc = "remove"
    BY <1>1, <1>2, <1>4 DEF GoodRequest, Carrying
  <1> HIDE DEF again, end
  <1> QED BY <1>3, <1>5, <1>6, IdleGood DEF Carrying

LEMMA ReadPOCovers ==
    ASSUME CoverInv, NEW r \in Requests, NEW p, ReadPO(r, p) PROVE CoverInv'
  <1> DEFINE q == [req[r] EXCEPT !.pc = "savePO", !.at = p, !.seen.po = po]
  <1>1. GoodRequest(req[r])
    BY DEF CoverInv, CoverTyped
  <1>2. GoodRequest(q) /\ q.pc \notin Carrying
    BY <1>1 DEF GoodRequest, Carrying
  <1>3. Put(r, q) /\ UNCHANGED <<order, voucher, received, shrunk>>
    BY DEF ReadPO
  <1> HIDE DEF q
  <1> QED BY <1>2, <1>3, OtherStep

LEMMA SavePOCovers ==
    ASSUME CoverInv, NEW r \in Requests, SavePO(r) PROVE CoverInv'
  <1> DEFINE p == req[r].at
             q == [req[r] EXCEPT !.pc = "saveChild", !.kids = Children(p)]
  <1>1. GoodRequest(req[r])
    BY DEF CoverInv, CoverTyped
  <1>2. GoodRequest(q) /\ q.pc \notin Carrying
    BY <1>1 DEF GoodRequest, Carrying
  <1>3. (Put(r, q) \/ Put(r, After(r, p))) /\ UNCHANGED <<order, voucher, received, shrunk>>
    BY DEF SavePO
  <1> HIDE DEF p, q
  <1> QED BY <1>2, <1>3, AfterGood, OtherStep

LEMMA SaveChildCovers ==
    ASSUME CoverInv, NEW r \in Requests, NEW c, SaveChild(r, c) PROVE CoverInv'
  <1> DEFINE p == req[r].at
             q == [req[r] EXCEPT !.kids = @ \ {c}]
  <1>1. GoodRequest(req[r])
    BY DEF CoverInv, CoverTyped
  <1>2. GoodRequest(q) /\ q.pc \notin Carrying
    BY <1>1 DEF SaveChild, GoodRequest, Carrying
  <1>3. (Put(r, q) \/ Put(r, After(r, p))) /\ UNCHANGED <<order, voucher, received, shrunk>>
    BY DEF SaveChild
  <1> HIDE DEF p, q
  <1> QED BY <1>2, <1>3, AfterGood, OtherStep

LEMMA BeginEditPOCovers ==
    ASSUME CoverInv, NEW r \in Requests, BeginEditPO(r) PROVE CoverInv'
  <1>1. PICK p \in PurchaseOrders, total \in Totals :
            Put(r, [Idle EXCEPT !.pc = "editPO", !.at = p, !.new = total, !.seen.po = po])
    BY DEF BeginEditPO
  <1> DEFINE q == [Idle EXCEPT !.pc = "editPO", !.at = p, !.new = total, !.seen.po = po]
  <1>2. GoodRequest(q) /\ q.pc \notin Carrying
    BY IdleGood, PaymentConstants DEF GoodRequest, Carrying
  <1>3. Put(r, q) /\ UNCHANGED <<order, voucher, received, shrunk>>
    BY <1>1 DEF BeginEditPO
  <1> HIDE DEF q
  <1> QED BY <1>2, <1>3, OtherStep

LEMMA EditPOCovers ==
    ASSUME CoverInv, NEW r \in Requests, EditPO(r) PROVE CoverInv'
  <1> DEFINE q == [Idle EXCEPT !.pc = "readPool", !.at = ParentOf[req[r].at]]
  <1>1. GoodRequest(q) /\ q.pc \notin Carrying
    BY IdleGood DEF GoodRequest, Carrying
  <1>2. (Put(r, q) \/ Put(r, Idle)) /\ UNCHANGED <<order, voucher, received, shrunk>>
    BY DEF EditPO
  <1> HIDE DEF q
  <1>3. Idle.pc \notin Carrying
    BY IdleGood DEF Carrying
  <1> QED BY <1>1, <1>2, <1>3, IdleGood, OtherStep

LEMMA ReadPoolCovers ==
    ASSUME CoverInv, NEW r \in Requests, ReadPool(r) PROVE CoverInv'
  <1> DEFINE q == [req[r] EXCEPT !.pc = "savePool", !.seen.po = po]
  <1>1. GoodRequest(req[r])
    BY DEF CoverInv, CoverTyped
  <1>2. GoodRequest(q) /\ q.pc \notin Carrying
    BY <1>1 DEF GoodRequest, Carrying
  <1>3. Put(r, q) /\ UNCHANGED <<order, voucher, received, shrunk>>
    BY DEF ReadPool
  <1> HIDE DEF q
  <1> QED BY <1>2, <1>3, OtherStep

LEMMA EndCovers ==
    ASSUME CoverInv, NEW r \in Requests, SavePool(r) \/ Fail(r) PROVE CoverInv'
  <1>1. Put(r, Idle) /\ UNCHANGED <<order, voucher, received, shrunk>>
    BY DEF SavePool, Fail
  <1>2. Idle.pc \notin Carrying
    BY IdleGood DEF Carrying
  <1> QED BY <1>1, <1>2, IdleGood, OtherStep

--------------------------------------------------------------------------------
LEMMA CoverStep == CoverInv /\ [Next]_vars => CoverInv'
  <1> SUFFICES ASSUME CoverInv, [Next]_vars PROVE CoverInv'
    OBVIOUS
  <1>1. CASE CreateTransaction
    BY <1>1, CreateTransactionCovers
  <1>2. CASE \E v \in Vouchers : ApproveTransaction(v)
    BY <1>2, ApproveTransactionCovers
  <1>3. ASSUME NEW r \in Requests,
               CreatePayment(r) \/ UpdateTransaction(r) \/ ReadOrder(r) \/ ReadPayments(r)
                  \/ SaveOrder(r)
        PROVE  CoverInv'
    BY <1>3, CreatePaymentCovers, UpdateTransactionCovers, ReadOrderCovers, ReadPaymentsCovers,
       SaveOrderCovers
  <1>4. ASSUME NEW r \in Requests,
               \/ PayPOs(r) \/ SavePO(r)
               \/ \E p \in PurchaseOrders : ReadPO(r, p) \/ SaveChild(r, p)
        PROVE  CoverInv'
    BY <1>4, PayPOsCovers, SavePOCovers, ReadPOCovers, SaveChildCovers
  <1>5. ASSUME NEW r \in Requests,
               (\E v \in Vouchers : BeginDelete(r, v)) \/ RemoveVoucher(r)
        PROVE  CoverInv'
    BY <1>5, BeginDeleteCovers, RemoveVoucherCovers
  <1>6. ASSUME NEW r \in Requests,
               BeginEditOrder(r) \/ EditOrder(r) \/ BeginEditPO(r) \/ EditPO(r)
                  \/ ReadPool(r) \/ SavePool(r) \/ Fail(r)
        PROVE  CoverInv'
    BY <1>6, BeginEditOrderCovers, EditOrderCovers, BeginEditPOCovers, EditPOCovers,
       ReadPoolCovers, EndCovers
  <1>7. CASE UNCHANGED vars
    BY <1>7 DEF vars, CoverInv, CoverTyped, PaidIsCovered, Holds
  <1> QED BY <1>1, <1>2, <1>3, <1>4, <1>5, <1>6, <1>7 DEF Next

\* An order shown paid, or partly paid, has received what that says, unless
\* its income was cut or its total raised: for requests that overlap freely
\* and stop anywhere in syncSOPaymentStatus and the handlers around it.
THEOREM PaymentsCovered == Spec => []PaidIsCovered
  <1>1. CoverInv => PaidIsCovered
    BY DEF CoverInv
  <1> QED BY CoverInit, CoverStep, <1>1, PTL DEF Spec

--------------------------------------------------------------------------------
(* The purchase orders, and the sums *)

\* The income of an order over the transactions vs.
Sums(vs, o) == SumFunctionOnSet([v \in Vouchers |-> Worth(vs[v], o)], Vouchers)

AllocsOK(tr) ==
    /\ DOMAIN tr.allocs \subseteq PurchaseOrders
    /\ tr.allocs \in [DOMAIN tr.allocs -> Nat]

\* A request: its fields, and the purchase order it works on.
PayRequest(q) ==
    /\ q \in Request(DOMAIN q.todo) /\ DOMAIN q.todo \subseteq PurchaseOrders
    /\ q.pc \in {"savePO", "saveChild"} => q.at \in DOMAIN q.todo
    /\ q.pc = "saveChild" => q.kids \subseteq Children(q.at)
    /\ q.pc \in {"editPO", "readPool", "savePool"} => q.at \in PurchaseOrders
    /\ q.pc = "idle" => q = Idle

PayInv ==
    /\ po \in [PurchaseOrders -> PORow]
    /\ \A v \in Vouchers : AllocsOK(voucher[v])
    /\ \A r \in Requests : PayRequest(req[r])
    /\ received = [o \in Orders |-> Sums(voucher, o)]
    /\ shrunk \cup behind \subseteq Orders

LEMMA PayConstants ==
    /\ IsFiniteSet(PurchaseOrders) /\ IsFiniteSet(Vouchers)
    /\ Amounts \subseteq Nat \ {0} /\ Totals \subseteq Nat
    /\ ParentOf \in [PurchaseOrders -> PurchaseOrders \cup {NoPO}] /\ NoPO \notin PurchaseOrders
    /\ NoVoucher \notin Vouchers /\ NoOrder \notin Orders
    /\ \A p \in Pooled : ParentOf[p] = NoPO
  BY PaymentConstants DEF PaymentConstants

LEMMA FiniteChildren ==
    ASSUME NEW p
    PROVE  /\ IsFiniteSet(Children(p)) /\ Children(p) \subseteq PurchaseOrders
           /\ Cardinality(Children(p)) \in Nat
           /\ Children(p) # {} => Cardinality(Children(p)) > 0
<1>1. Children(p) \subseteq PurchaseOrders
  BY DEF Children
<1>2. IsFiniteSet(Children(p))
  BY <1>1, PayConstants, FS_Subset
<1>3. Cardinality(Children(p)) \in Nat
  BY <1>2, FS_CardinalityType
<1>4. Children(p) # {} => Cardinality(Children(p)) # 0
  BY <1>2, FS_EmptySet
<1> QED
  BY <1>1, <1>2, <1>3, <1>4

LEMMA NothingTodo == DOMAIN <<>> = {} /\ <<>> \in [DOMAIN <<>> -> Int] /\ <<>> \in [DOMAIN <<>> -> Nat]
  OBVIOUS

LEMMA NothingReadTyped ==
    /\ NothingRead \in [order : SalesRow, po : [PurchaseOrders -> PORow]]
  BY DEF NothingRead, SalesRow, PORow, PaymentStatus

LEMMA IdlePays == PayRequest(Idle)
  BY NothingTodo, NothingReadTyped DEF PayRequest, Idle, Request, Synchronising

LEMMA SyncPays ==
    ASSUME NEW o \in Orders
    PROVE  PayRequest(SyncOf(o)) /\ SyncOf(o).pc = "readOrder"
  BY NothingTodo, NothingReadTyped DEF PayRequest, SyncOf, Idle, Request, Synchronising

LEMMA SumsChange ==
    ASSUME NEW vs, NEW v \in Vouchers, NEW tr, NEW o,
           \A w \in Vouchers : GoodVoucher(vs[w]), GoodVoucher(tr), vs = [w \in Vouchers |-> vs[w]]
    PROVE  /\ Sums(vs, o) \in Nat
           /\ Sums([vs EXCEPT ![v] = tr], o) = Sums(vs, o) - Worth(vs[v], o) + Worth(tr, o)
<1> DEFINE ws == [vs EXCEPT ![v] = tr]
           f == [w \in Vouchers |-> Worth(vs[w], o)]
           g == [w \in Vouchers |-> Worth(ws[w], o)]
<1>1. \A w \in Vouchers : ws[w] = IF w = v THEN tr ELSE vs[w]
  OBVIOUS
<1>2. \A w \in Vouchers : Worth(vs[w], o) \in Nat
  BY WorthTyped
<1>3. Worth(tr, o) \in Nat
  BY WorthTyped
<1>4. \A w \in Vouchers : f[w] \in Nat /\ g[w] \in Nat
  BY <1>1, <1>2, <1>3
<1>5. g[v] = Worth(tr, o) /\ f[v] = Worth(vs[v], o)
  BY <1>1
<1>6. \A w \in Vouchers \ {v} : g[w] = f[w]
  BY <1>1
<1>7. IsFiniteSet(Vouchers)
  BY PayConstants
<1> HIDE DEF ws, f, g
<1>8. /\ SumFunctionOnSet(f, Vouchers) \in Nat /\ SumFunctionOnSet(g, Vouchers) \in Nat
  BY <1>4, <1>7, SumNat
<1>9. SumFunctionOnSet(g, Vouchers) = SumFunctionOnSet(f, Vouchers) + g[v] - f[v]
  <2>1. \A w \in Vouchers : f[w] \in Int /\ g[w] \in Int
    BY <1>4
  <2> QED
    BY <1>6, <1>7, <2>1, SumChange
<1>10. SumFunctionOnSet(g, Vouchers) = SumFunctionOnSet(f, Vouchers) - f[v] + g[v]
  BY <1>4, <1>8, <1>9
<1> QED
  BY <1>5, <1>8, <1>10 DEF Sums, ws, f, g

\* A request goes on, and purchase orders may change.
LEMMA PayTurn ==
    ASSUME PayInv, CoverTyped, NEW r \in Requests, NEW q, Put(r, q), PayRequest(q),
           po' \in [PurchaseOrders -> PORow], UNCHANGED <<voucher, received>>,
           shrunk' \cup behind' \subseteq Orders
    PROVE  PayInv'
<1>1. \A s \in Requests : PayRequest(req'[s])
  BY DEF Put, PayInv, CoverTyped
<1> QED
  BY <1>1 DEF PayInv

\* A transaction is stored.
LEMMA StoreTurn ==
    ASSUME PayInv, CoverTyped, NEW v \in Vouchers, NEW tr, Store(v, tr), GoodVoucher(tr),
           AllocsOK(tr), po' = po, behind' \subseteq Orders,
           \/ req' = req
           \/ \E r \in Requests : \E q : Put(r, q) /\ PayRequest(q)
    PROVE  PayInv'
<1>1. \A s \in Requests : PayRequest(req'[s])
  BY DEF Put, PayInv, CoverTyped
<1>2. \A w \in Vouchers : AllocsOK(voucher'[w])
  BY DEF Store, PayInv, CoverTyped
<1>3. shrunk' \subseteq Orders
  BY DEF Store, PayInv
<1>4. received' = [o \in Orders |-> Sums(voucher', o)]
  <2>1. \A o : Sums([voucher EXCEPT ![v] = tr], o)
                 = Sums(voucher, o) - Worth(voucher[v], o) + Worth(tr, o)
    BY SumsChange DEF CoverTyped
  <2>2. \A o \in Orders : received[o] = Sums(voucher, o)
    BY DEF PayInv
  <2>3. voucher' = [voucher EXCEPT ![v] = tr]
        /\ received' = [o \in Orders |-> received[o] - Worth(voucher[v], o) + Worth(tr, o)]
    BY DEF Store
  <2> QED
    BY <2>1, <2>2, <2>3
<1> QED
  BY <1>1, <1>2, <1>3, <1>4 DEF PayInv

--------------------------------------------------------------------------------
(* Amounts *)

LEMMA RoundedInt ==
    ASSUME NEW a \in Int, NEW b \in Nat, b > 0
    PROVE  Rounded(a, b) \in Int
<1>1. 2 * a + b \in Int /\ 2 * b \in Nat /\ 2 * b > 0
  OBVIOUS
<1> QED
  BY <1>1 DEF Rounded

LEMMA ShareInt ==
    ASSUME NEW rows \in [PurchaseOrders -> PORow], NEW p \in PurchaseOrders, NEW c \in Children(p),
           NEW amount \in Int
    PROVE  Share(rows, p, c, amount) \in Int
<1>1. c \in PurchaseOrders /\ Cardinality(Children(p)) \in Nat /\ Cardinality(Children(p)) > 0
  BY FiniteChildren
<1>2. rows[c].total \in Nat /\ rows[p].total \in Nat
  BY <1>1 DEF PORow
<1>3. amount * rows[c].total \in Int
  BY <1>2
<1>4. rows[p].total > 0 => Rounded(amount * rows[c].total, rows[p].total) \in Int
  BY <1>2, <1>3, RoundedInt
<1>5. Rounded(amount, Cardinality(Children(p))) \in Int
  BY <1>1, RoundedInt
<1> QED
  BY <1>4, <1>5 DEF Share

LEMMA PaidTyped ==
    ASSUME NEW row \in PORow, NEW change \in Int
    PROVE  /\ Paid(row, change) \in PORow
           /\ Paid(row, change).total = row.total
           /\ Paid(row, change).paid = FromZero(row.paid + change)
  BY DEF Paid, PORow, FromZero

LEMMA PooledTotalNat ==
    ASSUME NEW rows \in [PurchaseOrders -> PORow], NEW p
    PROVE  PooledTotal(rows, p) \in Nat
<1> DEFINE f == [c \in PurchaseOrders |-> rows[c].total]
<1>1. \A c \in Children(p) : f[c] \in Nat
  BY FiniteChildren DEF PORow
<1> HIDE DEF f
<1>2. SumFunctionOnSet(f, Children(p)) \in Nat
  BY <1>1, FiniteChildren, SumNat
<1> QED
  BY <1>2 DEF PooledTotal, f

--------------------------------------------------------------------------------
(* What each step makes of its request *)

PayTyped(q) == q \in Request(DOMAIN q.todo) /\ DOMAIN q.todo \subseteq PurchaseOrders

LEMMA RequestFields ==
    ASSUME NEW q, PayRequest(q)
    PROVE  /\ DOMAIN q.todo \subseteq PurchaseOrders /\ \A p \in DOMAIN q.todo : q.todo[p] \in Int
           /\ q.at \in PurchaseOrders \cup {NoPO} /\ q.ref \in Orders \cup {NoOrder}
           /\ q.id \in Vouchers \cup {NoVoucher} /\ q.new \in Nat
           /\ q.seen.po \in [PurchaseOrders -> PORow] /\ q.seen.order \in SalesRow
           /\ q.kids \subseteq PurchaseOrders
           /\ q.pc \in {"idle", "readPO", "savePO", "saveChild", "remove", "editOrder", "editPO",
                        "readPool", "savePool", "readOrder", "readPayments", "saveOrder"}
  BY DEF PayRequest, Request, Synchronising

\* The request once purchase order p is written.
LEMMA AfterPays ==
    ASSUME PayInv, NEW r \in Requests, NEW p \in DOMAIN req[r].todo,
           NEW left, left = Restrict(req[r].todo, DOMAIN req[r].todo \ {p})
    PROVE  LET q == After(r, p)
           IN  /\ PayRequest(q)
               /\ \/ q.pc = "readPO" /\ q.todo = left /\ q.id = req[r].id /\ q.ref = req[r].ref
                  \/ /\ q.pc = "remove" /\ q.id = req[r].id /\ q.ref = req[r].ref
                     /\ q.id # NoVoucher /\ DOMAIN left = {}
                  \/ q = Idle /\ req[r].id = NoVoucher /\ DOMAIN left = {}
<1> DEFINE next == [req[r] EXCEPT !.todo = left, !.at = NoPO, !.kids = {}, !.seen = NothingRead]
           again == [next EXCEPT !.pc = "readPO"]
           end == [next EXCEPT !.pc = "remove", !.todo = <<>>]
<1>1. PayRequest(req[r])
  BY DEF PayInv
<1>2. DOMAIN left = DOMAIN req[r].todo \ {p} /\ \A s \in DOMAIN left : left[s] = req[r].todo[s]
  BY DEF Restrict
<1>3. left \in [DOMAIN left -> Int] /\ DOMAIN left \subseteq PurchaseOrders
  BY <1>1, <1>2, RequestFields DEF Restrict
<1>4. After(r, p) = IF DOMAIN left # {} THEN again
                    ELSE IF req[r].id # NoVoucher THEN end ELSE Idle
  BY DEF After
<1>5. /\ again \in [pc : {"readPO"}, ref : Orders \cup {NoOrder}, id : Vouchers \cup {NoVoucher},
                    todo : {left}, at : {NoPO}, kids : {{}}, new : Nat, seen : {NothingRead}]
      /\ again.id = req[r].id /\ again.ref = req[r].ref
  BY <1>1 DEF PayRequest, Request
<1>6. /\ end \in [pc : {"remove"}, ref : Orders \cup {NoOrder}, id : Vouchers \cup {NoVoucher},
                  todo : {<<>>}, at : {NoPO}, kids : {{}}, new : Nat, seen : {NothingRead}]
      /\ end.id = req[r].id /\ end.ref = req[r].ref
  BY <1>1 DEF PayRequest, Request
<1> HIDE DEF again, end
<1>7. PayRequest(again) /\ again.pc = "readPO" /\ again.todo = left
  BY <1>3, <1>5, NothingReadTyped DEF PayRequest, Request
<1>8. PayRequest(end) /\ end.pc = "remove"
  BY <1>6, NothingTodo, NothingReadTyped DEF PayRequest, Request
<1> QED
  BY <1>4, <1>5, <1>6, <1>7, <1>8, IdlePays

LEMMA ReadOrderTurn ==
    ASSUME PayInv, CoverTyped, NEW r \in Requests, ReadOrder(r)
    PROVE  \E q : /\ Put(r, q) /\ PayRequest(q)
                  /\ q.pc = "readPayments" /\ q.ref = req[r].ref /\ q.id = req[r].id
                  /\ q.seen.order = order[req[r].ref] /\ req[r].ref \in Orders
<1>1. PayRequest(req[r]) /\ req[r].ref \in Orders /\ order[req[r].ref] \in SalesRow
  BY DEF PayInv, CoverTyped, GoodRequest, ReadOrder
<1> WITNESS [req[r] EXCEPT !.pc = "readPayments", !.seen.order = order[req[r].ref]]
<1> DEFINE q == [req[r] EXCEPT !.pc = "readPayments", !.seen.order = order[req[r].ref]]
<1>2. /\ q \in [pc : {"readPayments"}, ref : {req[r].ref}, id : {req[r].id}, todo : {req[r].todo},
                at : {req[r].at}, kids : {req[r].kids}, new : Nat,
                seen : [order : {order[req[r].ref]}, po : [PurchaseOrders -> PORow]]]
  BY <1>1 DEF PayRequest, Request
<1>3. Put(r, q)
  BY DEF ReadOrder
<1> HIDE DEF q
<1>4. PayRequest(q)
  BY <1>1, <1>2, RequestFields DEF PayRequest, Request, Synchronising
<1> QED
  BY <1>1, <1>2, <1>3, <1>4 DEF q

LEMMA ReadPaymentsTurn ==
    ASSUME PayInv, CoverTyped, NEW r \in Requests, ReadPayments(r),
           NEW o, o = req[r].ref, NEW status, status = StatusFor(req[r].seen.order.total, received[o])
    PROVE  /\ o \in Orders
           /\ \/ Put(r, Idle) /\ behind' = behind \ {o} /\ req[r].seen.order.status = status
              \/ /\ behind' = behind
                 /\ \E q : /\ Put(r, q) /\ PayRequest(q)
                           /\ q.pc = "saveOrder" /\ q.ref = o /\ q.id = req[r].id
                           /\ q.seen.order = [req[r].seen.order EXCEPT !.status = status]
<1>1. PayRequest(req[r]) /\ o \in Orders /\ req[r].seen.order \in SalesRow
  BY DEF PayInv, CoverTyped, GoodRequest, ReadPayments, Carrying
<1>2. status \in PaymentStatus
  BY DEF StatusFor, PaymentStatus
<1> DEFINE row == [req[r].seen.order EXCEPT !.status = status]
           q == [req[r] EXCEPT !.pc = "saveOrder", !.seen.order.status = status]
<1>3. row \in SalesRow
  BY <1>1, <1>2 DEF SalesRow
<1>4. /\ q \in [pc : {"saveOrder"}, ref : {o}, id : {req[r].id}, todo : {req[r].todo},
                at : {req[r].at}, kids : {req[r].kids}, new : Nat,
                seen : [order : {row}, po : [PurchaseOrders -> PORow]]]
  BY <1>1 DEF PayRequest, Request
<1> HIDE DEF q, row
<1>5. PayRequest(q)
  BY <1>1, <1>3, <1>4, RequestFields DEF PayRequest, Request, Synchronising
<1>6. \/ Put(r, Idle) /\ behind' = behind \ {o} /\ req[r].seen.order.status = status
      \/ Put(r, q) /\ behind' = behind
  BY DEF ReadPayments, q
<1> QED
  BY <1>1, <1>4, <1>5, <1>6 DEF row

LEMMA PayPOsTurn ==
    ASSUME PayInv, CoverTyped, NEW r \in Requests, PayPOs(r)
    PROVE  \E q, tr : \E v \in Vouchers :
                /\ Put(r, q) /\ PayRequest(q) /\ Store(v, tr)
                /\ voucher[v] = Unused /\ GoodVoucher(tr) /\ AllocsOK(tr)
                /\ tr.kind = "purchase" /\ tr.ref = NoOrder /\ tr.allocs = q.todo
                /\ q.pc = "readPO" /\ q.id = NoVoucher
<1>1. PICK v \in Vouchers, paid \in SUBSET PurchaseOrders : \E allocs \in [paid -> Amounts] :
          /\ voucher[v] = Unused
          /\ Store(v, [Unused EXCEPT !.kind = "purchase", !.status = "COMPLETED",
                                     !.allocs = allocs])
          /\ Put(r, [Idle EXCEPT !.pc = "readPO", !.todo = allocs])
  BY DEF PayPOs
<1>2. PICK allocs \in [paid -> Amounts] :
          /\ voucher[v] = Unused
          /\ Store(v, [Unused EXCEPT !.kind = "purchase", !.status = "COMPLETED",
                                     !.allocs = allocs])
          /\ Put(r, [Idle EXCEPT !.pc = "readPO", !.todo = allocs])
  BY <1>1
<1> DEFINE tr == [Unused EXCEPT !.kind = "purchase", !.status = "COMPLETED", !.allocs = allocs]
           q == [Idle EXCEPT !.pc = "readPO", !.todo = allocs]
<1>3. DOMAIN allocs = paid /\ allocs \in [paid -> Nat] /\ allocs \in [paid -> Int]
  <2>1. \A p \in paid : allocs[p] \in Nat
    BY PayConstants
  <2>2. \A p \in paid : allocs[p] \in Int
    BY <2>1
  <2> QED
    BY <2>1, <2>2
<1>4. /\ GoodVoucher(tr) /\ AllocsOK(tr) /\ tr.kind = "purchase" /\ tr.ref = NoOrder
      /\ tr.allocs = allocs
  BY <1>3 DEF GoodVoucher, AllocsOK, Unused
<1>5. /\ q \in [pc : {"readPO"}, ref : {NoOrder}, id : {NoVoucher}, todo : {allocs},
                at : {NoPO}, kids : {{}}, new : {0}, seen : {NothingRead}]
  BY DEF Idle
<1>6. Put(r, q) /\ Store(v, tr)
  BY <1>2
<1> HIDE DEF tr, q
<1>7. PayRequest(q)
  BY <1>3, <1>5, NothingReadTyped DEF PayRequest, Request
<1> QED
  BY <1>1, <1>4, <1>5, <1>6, <1>7


LEMMA ReadPOTurn ==
    ASSUME PayInv, CoverTyped, NEW r \in Requests, NEW p, ReadPO(r, p)
    PROVE  \E q : /\ Put(r, q) /\ PayRequest(q)
                  /\ q.pc = "savePO" /\ q.at = p /\ q.id = req[r].id /\ q.ref = req[r].ref
                  /\ q.todo = req[r].todo /\ q.seen.po = po /\ p \in DOMAIN q.todo
<1>1. PayRequest(req[r]) /\ p \in DOMAIN req[r].todo /\ po \in [PurchaseOrders -> PORow]
  BY DEF PayInv, ReadPO
<1>2. p \in PurchaseOrders
  BY <1>1 DEF PayRequest
<1> DEFINE q == [req[r] EXCEPT !.pc = "savePO", !.at = p, !.seen.po = po]
<1>3. /\ q \in [pc : {"savePO"}, ref : {req[r].ref}, id : {req[r].id}, todo : {req[r].todo},
                at : {p}, kids : {req[r].kids}, new : Nat,
                seen : [order : SalesRow, po : {po}]]
  BY <1>1 DEF PayRequest, Request
<1>4. Put(r, q)
  BY DEF ReadPO
<1> HIDE DEF q
<1>5. PayRequest(q)
  BY <1>1, <1>2, <1>3, RequestFields DEF PayRequest, Request
<1> QED
  BY <1>1, <1>3, <1>4, <1>5

LEMMA SavePOTurn ==
    ASSUME PayInv, CoverTyped, NEW r \in Requests, SavePO(r),
           NEW p, p = req[r].at
    PROVE  /\ p \in DOMAIN req[r].todo /\ p \in PurchaseOrders
           /\ po' = [po EXCEPT ![p] = Paid(req[r].seen.po[p], req[r].todo[p])]
           /\ po' \in [PurchaseOrders -> PORow]
           /\ \/ Put(r, After(r, p)) /\ Children(p) = {}
              \/ \E q : /\ Put(r, q) /\ PayRequest(q) /\ Children(p) # {}
                        /\ q.pc = "saveChild" /\ q.at = p /\ q.id = req[r].id /\ q.ref = req[r].ref
                        /\ q.todo = req[r].todo /\ q.seen.po = req[r].seen.po
<1>1. PayRequest(req[r]) /\ po \in [PurchaseOrders -> PORow]
  BY DEF PayInv
<1>2. p \in DOMAIN req[r].todo /\ p \in PurchaseOrders
  BY <1>1 DEF PayRequest, SavePO
<1>3. /\ po' = [po EXCEPT ![p] = Paid(req[r].seen.po[p], req[r].todo[p])]
      /\ req[r].seen.po[p] \in PORow /\ req[r].todo[p] \in Int
  BY <1>1, <1>2, RequestFields DEF SavePO
<1>4. po' \in [PurchaseOrders -> PORow]
  BY <1>1, <1>3, PaidTyped
<1> DEFINE q == [req[r] EXCEPT !.pc = "saveChild", !.kids = Children(p)]
<1>5. /\ q \in [pc : {"saveChild"}, ref : {req[r].ref}, id : {req[r].id}, todo : {req[r].todo},
                at : {p}, kids : {Children(p)}, new : Nat, seen : {req[r].seen}]
  BY <1>1 DEF PayRequest, Request
<1>6. \/ Put(r, After(r, p)) /\ Children(p) = {}
      \/ Put(r, q) /\ Children(p) # {}
  <2> DEFINE next == IF Children(p) = {} THEN After(r, p) ELSE q
  <2>1. Put(r, next)
    BY DEF SavePO
  <2>2. /\ Children(p) = {} => next = After(r, p)
        /\ Children(p) # {} => next = q
    BY DEF q
  <2> HIDE DEF next, q
  <2> QED
    BY <2>1, <2>2
<1> HIDE DEF q
<1>7. PayRequest(q)
  <2>1. req[r].seen \in [order : SalesRow, po : [PurchaseOrders -> PORow]]
    BY <1>1 DEF PayRequest, Request
  <2> QED
    BY <1>1, <1>2, <1>5, <2>1, RequestFields, FiniteChildren DEF PayRequest, Request
<1> QED
  BY <1>2, <1>3, <1>4, <1>5, <1>6, <1>7

LEMMA SaveChildTurn ==
    ASSUME PayInv, CoverTyped, NEW r \in Requests, NEW c, SaveChild(r, c),
           NEW p, p = req[r].at
    PROVE  /\ p \in DOMAIN req[r].todo /\ p \in PurchaseOrders
           /\ c \in Children(p) /\ c \in PurchaseOrders
           /\ \E n \in Int : po' = [po EXCEPT ![c] = Paid(req[r].seen.po[c], n)]
           /\ po' \in [PurchaseOrders -> PORow]
           /\ \/ Put(r, After(r, p))
              \/ \E q : /\ Put(r, q) /\ PayRequest(q)
                        /\ q.pc = "saveChild" /\ q.at = p /\ q.id = req[r].id /\ q.ref = req[r].ref
                        /\ q.todo = req[r].todo /\ q.seen.po = req[r].seen.po
<1>1. PayRequest(req[r]) /\ po \in [PurchaseOrders -> PORow] /\ req[r].pc = "saveChild"
  BY DEF PayInv, SaveChild
<1>2. p \in DOMAIN req[r].todo /\ p \in PurchaseOrders
  BY <1>1 DEF PayRequest
<1>3. c \in Children(p) /\ c \in PurchaseOrders
  BY <1>1, RequestFields DEF PayRequest, SaveChild
<1> DEFINE n == Share(req[r].seen.po, p, c, req[r].todo[p])
<1>4. req[r].seen.po \in [PurchaseOrders -> PORow] /\ req[r].todo[p] \in Int
  BY <1>1, <1>2, RequestFields
<1>5. n \in Int
  BY <1>2, <1>3, <1>4, ShareInt
<1>6. po' = [po EXCEPT ![c] = Paid(req[r].seen.po[c], n)]
  BY DEF SaveChild
<1> HIDE DEF n
<1>7. po' \in [PurchaseOrders -> PORow]
  BY <1>1, <1>3, <1>4, <1>5, <1>6, PaidTyped
<1> DEFINE left == req[r].kids \ {c}
           q == [req[r] EXCEPT !.kids = left]
<1>8. Put(r, After(r, p)) \/ Put(r, q)
  BY DEF SaveChild
<1>9. left \subseteq req[r].kids
  OBVIOUS
<1> HIDE DEF left
<1>10. /\ q \in [pc : {"saveChild"}, ref : {req[r].ref}, id : {req[r].id}, todo : {req[r].todo},
                 at : {p}, kids : {left}, new : Nat, seen : {req[r].seen}]
  BY <1>1 DEF PayRequest, Request
<1> HIDE DEF q
<1>11. PayRequest(q)
  <2>1. req[r].seen \in [order : SalesRow, po : [PurchaseOrders -> PORow]]
    BY <1>1 DEF PayRequest, Request
  <2>2. left \subseteq Children(p) /\ left \subseteq PurchaseOrders
    BY <1>1, <1>9, RequestFields DEF PayRequest
  <2> QED
    BY <1>1, <1>2, <1>10, <2>1, <2>2, RequestFields DEF PayRequest, Request
<1> QED
  BY <1>2, <1>3, <1>5, <1>6, <1>7, <1>8, <1>10, <1>11

LEMMA BeginDeleteTurn ==
    ASSUME PayInv, CoverTyped, NEW r \in Requests, NEW v \in Vouchers, BeginDelete(r, v)
    PROVE  \E q : /\ Put(r, q) /\ PayRequest(q)
                  /\ q.id = v /\ q.ref = voucher[v].ref
                  /\ DOMAIN q.todo = DOMAIN voucher[v].allocs
                  /\ \A p \in DOMAIN q.todo : q.todo[p] = -voucher[v].allocs[p]
                  /\ q.pc = IF DOMAIN q.todo = {} THEN "remove" ELSE "readPO"
<1> DEFINE todo == Rollback(voucher[v])
           pc == IF DOMAIN Rollback(voucher[v]) = {} THEN "remove" ELSE "readPO"
           q == [Idle EXCEPT !.id = v, !.ref = voucher[v].ref, !.todo = todo, !.pc = pc]
<1>1. Put(r, q)
  BY DEF BeginDelete
<1>2. AllocsOK(voucher[v]) /\ voucher[v].ref \in Orders \cup {NoOrder}
  BY DEF PayInv, CoverTyped, GoodVoucher
<1>3. /\ DOMAIN todo = DOMAIN voucher[v].allocs
      /\ \A p \in DOMAIN todo : todo[p] = -voucher[v].allocs[p]
      /\ todo = [p \in DOMAIN todo |-> todo[p]]
  BY DEF Rollback
<1>4. pc = IF DOMAIN todo = {} THEN "remove" ELSE "readPO"
  OBVIOUS
<1> HIDE DEF todo, pc
<1>5. todo \in [DOMAIN todo -> Int] /\ DOMAIN todo \subseteq PurchaseOrders
  <2>1. \A p \in DOMAIN todo : voucher[v].allocs[p] \in Nat
    BY <1>2, <1>3 DEF AllocsOK
  <2>2. \A p \in DOMAIN todo : todo[p] \in Int
    BY <1>3, <2>1
  <2> QED
    BY <1>2, <1>3, <2>2 DEF AllocsOK
<1>6. /\ q \in [pc : {pc}, ref : {voucher[v].ref}, id : {v}, todo : {todo},
                at : {NoPO}, kids : {{}}, new : {0}, seen : {NothingRead}]
  BY DEF Idle
<1> HIDE DEF q
<1>7. PayRequest(q)
  BY <1>2, <1>4, <1>5, <1>6, NothingReadTyped DEF PayRequest, Request
<1> QED
  BY <1>1, <1>3, <1>4, <1>6, <1>7

LEMMA BeginEditOrderTurn ==
    ASSUME PayInv, CoverTyped, NEW r \in Requests, BeginEditOrder(r)
    PROVE  \E q : \E o \in Orders :
                /\ Put(r, q) /\ PayRequest(q)
                /\ q.pc = "editOrder" /\ q.id = NoVoucher /\ q.ref = o /\ q.seen.order = order[o]
<1>1. PICK o \in Orders, total \in Totals :
          Put(r, [Idle EXCEPT !.pc = "editOrder", !.ref = o, !.new = total,
                              !.seen.order = order[o]])
  BY DEF BeginEditOrder
<1> DEFINE q == [Idle EXCEPT !.pc = "editOrder", !.ref = o, !.new = total,
                             !.seen.order = order[o]]
<1>2. order[o] \in SalesRow /\ total \in Nat
  BY PayConstants DEF CoverTyped
<1>3. /\ q \in [pc : {"editOrder"}, ref : {o}, id : {NoVoucher}, todo : {<<>>},
                at : {NoPO}, kids : {{}}, new : {total},
                seen : [order : {order[o]}, po : [PurchaseOrders -> PORow]]]
  BY NothingReadTyped DEF Idle
<1> HIDE DEF q
<1>4. PayRequest(q)
  BY <1>2, <1>3, NothingTodo DEF PayRequest, Request
<1> QED
  BY <1>1, <1>3, <1>4 DEF q

LEMMA BeginEditPOTurn ==
    ASSUME PayInv, CoverTyped, NEW r \in Requests, BeginEditPO(r)
    PROVE  \E q : \E p \in PurchaseOrders \ Pooled :
                /\ Put(r, q) /\ PayRequest(q)
                /\ q.pc = "editPO" /\ q.id = NoVoucher /\ q.at = p /\ q.seen.po = po
                /\ DOMAIN q.todo = {} /\ q.ref = NoOrder
<1>1. PICK p \in PurchaseOrders \ Pooled, total \in Totals :
          Put(r, [Idle EXCEPT !.pc = "editPO", !.at = p, !.new = total, !.seen.po = po])
  BY DEF BeginEditPO
<1> DEFINE q == [Idle EXCEPT !.pc = "editPO", !.at = p, !.new = total, !.seen.po = po]
<1>2. po \in [PurchaseOrders -> PORow] /\ total \in Nat
  BY PayConstants DEF PayInv
<1>3. /\ q \in [pc : {"editPO"}, ref : {NoOrder}, id : {NoVoucher}, todo : {<<>>},
                at : {p}, kids : {{}}, new : {total}, seen : [order : SalesRow, po : {po}]]
  BY NothingReadTyped DEF Idle
<1> HIDE DEF q
<1>4. PayRequest(q)
  BY <1>2, <1>3, NothingTodo DEF PayRequest, Request
<1> QED
  BY <1>1, <1>3, <1>4, NothingTodo DEF q

LEMMA EditPOTurn ==
    ASSUME PayInv, CoverTyped, NEW r \in Requests, EditPO(r), NEW p, p = req[r].at
    PROVE  /\ p \in PurchaseOrders
           /\ \E row \in PORow : /\ po' = [po EXCEPT ![p] = row]
                                 /\ row.paid = req[r].seen.po[p].paid
           /\ po' \in [PurchaseOrders -> PORow]
           /\ \/ Put(r, Idle) /\ ParentOf[p] = NoPO
              \/ \E q : /\ Put(r, q) /\ PayRequest(q)
                        /\ q.pc = "readPool" /\ q.at = ParentOf[p] /\ q.id = NoVoucher
                        /\ DOMAIN q.todo = {} /\ q.ref = NoOrder
<1>1. PayRequest(req[r]) /\ po \in [PurchaseOrders -> PORow]
  BY DEF PayInv
<1>2. p \in PurchaseOrders
  BY <1>1 DEF EditPO, PayRequest
<1>3. req[r].seen.po[p] \in PORow /\ req[r].new \in Nat
  BY <1>1, <1>2, RequestFields
<1> DEFINE row == [req[r].seen.po[p] EXCEPT !.total = req[r].new]
<1>4. row \in PORow /\ row.paid = req[r].seen.po[p].paid /\ po' = [po EXCEPT ![p] = row]
  BY <1>3 DEF PORow, EditPO
<1> HIDE DEF row
<1>5. po' \in [PurchaseOrders -> PORow]
  BY <1>1, <1>4
<1> DEFINE q == [Idle EXCEPT !.pc = "readPool", !.at = ParentOf[p]]
<1>6. \/ Put(r, Idle) /\ ParentOf[p] = NoPO
      \/ Put(r, q) /\ ParentOf[p] # NoPO
  <2> DEFINE next == IF ParentOf[p] = NoPO THEN Idle ELSE q
  <2>1. Put(r, next)
    BY DEF EditPO
  <2>2. /\ ParentOf[p] = NoPO => next = Idle
        /\ ParentOf[p] # NoPO => next = q
    BY DEF q
  <2> HIDE DEF next, q
  <2> QED
    BY <2>1, <2>2
<1>7. /\ q \in [pc : {"readPool"}, ref : {NoOrder}, id : {NoVoucher}, todo : {<<>>},
                at : {ParentOf[p]}, kids : {{}}, new : {0}, seen : {NothingRead}]
  BY DEF Idle
<1> HIDE DEF q
<1>8. ParentOf[p] # NoPO => PayRequest(q)
  <2> SUFFICES ASSUME ParentOf[p] # NoPO PROVE PayRequest(q)
    OBVIOUS
  <2>1. ParentOf[p] \in PurchaseOrders
    BY <1>2, PayConstants
  <2>2. q.todo = <<>> /\ q.at \in PurchaseOrders /\ q.kids = {} /\ q.pc = "readPool"
    BY <1>7, <2>1
  <2>3. <<>> \in [{} -> Int]
    BY NothingTodo
  <2>4. /\ q \in [pc : {"readPool"}, ref : {NoOrder}, id : {NoVoucher}, todo : [{} -> Int],
                 at : PurchaseOrders, kids : {{}}, new : {0}, seen : {NothingRead}]
    BY <1>7, <2>1, <2>3
  <2>5. q \in Request({})
    BY <2>4, NothingReadTyped DEF Request
  <2> QED
    BY <2>2, <2>5, NothingTodo DEF PayRequest
<1> QED
  BY <1>2, <1>4, <1>5, <1>6, <1>7, <1>8, NothingTodo

LEMMA PoolTurn ==
    ASSUME PayInv, CoverTyped, NEW r \in Requests, ReadPool(r)
    PROVE  \E q : /\ Put(r, q) /\ PayRequest(q) /\ q.pc = "savePool" /\ q.at = req[r].at
                  /\ q.id = req[r].id /\ q.ref = req[r].ref /\ q.seen.po = po
<1>1. PayRequest(req[r]) /\ po \in [PurchaseOrders -> PORow] /\ req[r].pc = "readPool"
  BY DEF PayInv, ReadPool
<1> DEFINE q == [req[r] EXCEPT !.pc = "savePool", !.seen.po = po]
<1>2. /\ q \in [pc : {"savePool"}, ref : {req[r].ref}, id : {req[r].id}, todo : {req[r].todo},
                at : {req[r].at}, kids : {req[r].kids}, new : Nat,
                seen : [order : SalesRow, po : {po}]]
  BY <1>1 DEF PayRequest, Request
<1>3. Put(r, q)
  BY DEF ReadPool
<1> HIDE DEF q
<1>4. PayRequest(q)
  BY <1>1, <1>2, RequestFields DEF PayRequest, Request
<1> QED
  BY <1>2, <1>3, <1>4

LEMMA SavePoolTurn ==
    ASSUME PayInv, CoverTyped, NEW r \in Requests, SavePool(r), NEW p, p = req[r].at
    PROVE  /\ p \in PurchaseOrders /\ Put(r, Idle)
           /\ \E row \in PORow : /\ po' = [po EXCEPT ![p] = row]
                                 /\ row.paid = req[r].seen.po[p].paid
                                 /\ row.total = PooledTotal(req[r].seen.po, p)
           /\ po' \in [PurchaseOrders -> PORow]
<1>1. PayRequest(req[r]) /\ po \in [PurchaseOrders -> PORow]
  BY DEF PayInv
<1>2. p \in PurchaseOrders
  BY <1>1 DEF SavePool, PayRequest
<1>3. req[r].seen.po[p] \in PORow /\ PooledTotal(req[r].seen.po, p) \in Nat
  BY <1>1, <1>2, RequestFields, PooledTotalNat
<1> DEFINE row == [req[r].seen.po[p] EXCEPT !.total = PooledTotal(req[r].seen.po, p)]
<1>4. /\ row \in PORow /\ row.paid = req[r].seen.po[p].paid
      /\ row.total = PooledTotal(req[r].seen.po, p)
  BY <1>3 DEF PORow
<1>5. po' = [po EXCEPT ![p] = row] /\ Put(r, Idle)
  BY DEF SavePool
<1> HIDE DEF row
<1>6. po' \in [PurchaseOrders -> PORow]
  BY <1>1, <1>4, <1>5
<1> QED
  BY <1>2, <1>4, <1>5, <1>6

--------------------------------------------------------------------------------
(* The other handlers *)

LEMMA CreatePaymentTurn ==
    ASSUME PayInv, CoverTyped, NEW r \in Requests, CreatePayment(r)
    PROVE  \E tr : \E v \in Vouchers, o \in Orders :
                /\ Put(r, SyncOf(o)) /\ Store(v, tr)
                /\ voucher[v] = Unused /\ GoodVoucher(tr) /\ AllocsOK(tr)
                /\ tr.kind = "sales" /\ tr.ref = o /\ DOMAIN tr.allocs = {}
<1>1. PICK v \in Vouchers, o \in Orders, amount \in Amounts, status \in {"DRAFT", "COMPLETED"} :
          /\ voucher[v] = Unused
          /\ Store(v, [kind |-> "sales", status |-> status, amount |-> amount,
                       ref |-> o, allocs |-> <<>>])
          /\ Put(r, SyncOf(o))
  BY DEF CreatePayment
<1> DEFINE tr == [kind |-> "sales", status |-> status, amount |-> amount, ref |-> o, allocs |-> <<>>]
<1>2. GoodVoucher(tr) /\ tr.kind = "sales" /\ tr.ref = o /\ tr.allocs = <<>>
  BY PayConstants DEF GoodVoucher
<1>3. Store(v, tr)
  BY <1>1
<1> HIDE DEF tr
<1>4. AllocsOK(tr) /\ DOMAIN tr.allocs = {}
  BY <1>2, NothingTodo DEF AllocsOK
<1> QED
  BY <1>1, <1>2, <1>3, <1>4

LEMMA CreateTransactionTurn ==
    ASSUME PayInv, CoverTyped, CreateTransaction
    PROVE  \E tr : \E v \in Vouchers, o \in Orders :
                /\ Store(v, tr) /\ behind' = behind \cup {o}
                /\ voucher[v] = Unused /\ GoodVoucher(tr) /\ AllocsOK(tr)
                /\ tr.kind = "ledger" /\ tr.ref = o /\ DOMAIN tr.allocs = {}
<1>1. PICK v \in Vouchers, o \in Orders, amount \in Amounts :
          /\ voucher[v] = Unused
          /\ Store(v, [kind |-> "ledger", status |-> "COMPLETED", amount |-> amount,
                       ref |-> o, allocs |-> <<>>])
          /\ behind' = behind \cup {o}
  BY DEF CreateTransaction
<1> DEFINE tr == [kind |-> "ledger", status |-> "COMPLETED", amount |-> amount,
                  ref |-> o, allocs |-> <<>>]
<1>2. GoodVoucher(tr) /\ tr.kind = "ledger" /\ tr.ref = o /\ tr.allocs = <<>>
  BY PayConstants DEF GoodVoucher
<1>3. Store(v, tr)
  BY <1>1
<1> HIDE DEF tr
<1>4. AllocsOK(tr) /\ DOMAIN tr.allocs = {}
  BY <1>2, NothingTodo DEF AllocsOK
<1> QED
  BY <1>1, <1>2, <1>3, <1>4

\* An income is changed: what it is for stays.
Changed(old, tr) ==
    /\ GoodVoucher(tr) /\ AllocsOK(tr) /\ tr.kind \in {"sales", "ledger"}
    /\ tr.kind = old.kind /\ tr.ref = old.ref /\ tr.allocs = old.allocs

LEMMA UpdateTransactionTurn ==
    ASSUME PayInv, CoverTyped, NEW r \in Requests, UpdateTransaction(r)
    PROVE  \E tr : \E v \in Vouchers :
                /\ Store(v, tr) /\ Changed(voucher[v], tr) /\ tr.ref \in Orders
                /\ \/ tr.kind = "sales" /\ Put(r, SyncOf(tr.ref)) /\ behind' = behind
                   \/ req' = req /\ behind' = behind \cup {tr.ref}
<1>1. PICK v \in Vouchers, amount \in Amounts, status \in {"DRAFT", "COMPLETED"} :
          LET old == voucher[v]
              new == [old EXCEPT !.amount = amount, !.status = status]
          IN  /\ Income(v)
              /\ Store(v, new)
              /\ IF Syncs(old, new)
                 THEN Put(r, SyncOf(old.ref)) /\ behind' = behind
                 ELSE req' = req /\ behind' = behind \cup
                          {o \in Orders : old.kind = "ledger" /\ o = old.ref}
  BY DEF UpdateTransaction
<1> DEFINE tr == [voucher[v] EXCEPT !.amount = amount, !.status = status]
<1>2. GoodVoucher(voucher[v]) /\ AllocsOK(voucher[v]) /\ voucher[v].kind \in {"sales", "ledger"}
  BY <1>1 DEF CoverTyped, PayInv, Income
<1>3. /\ tr.kind = voucher[v].kind /\ tr.ref = voucher[v].ref /\ tr.allocs = voucher[v].allocs
      /\ GoodVoucher(tr)
  BY <1>2, PayConstants DEF GoodVoucher
<1>4. /\ Store(v, tr)
      /\ Syncs(voucher[v], tr) => Put(r, SyncOf(voucher[v].ref)) /\ behind' = behind
      /\ ~Syncs(voucher[v], tr) => req' = req /\ behind' = behind \cup
             {o \in Orders : voucher[v].kind = "ledger" /\ o = voucher[v].ref}
  BY <1>1
<1> HIDE DEF tr
<1>5. Changed(voucher[v], tr) /\ tr.ref \in Orders
  BY <1>2, <1>3 DEF Changed, AllocsOK, GoodVoucher
<1>6. CASE tr.kind = "sales"
  BY <1>3, <1>4, <1>5, <1>6 DEF Syncs
<1>7. CASE tr.kind = "ledger"
  <2>1. {o \in Orders : voucher[v].kind = "ledger" /\ o = voucher[v].ref} = {tr.ref}
    BY <1>3, <1>5, <1>7
  <2> QED
    BY <1>3, <1>4, <1>5, <1>7, <2>1 DEF Syncs
<1> QED
  BY <1>2, <1>3, <1>6, <1>7

LEMMA ApproveTransactionTurn ==
    ASSUME PayInv, CoverTyped, NEW v \in Vouchers, ApproveTransaction(v)
    PROVE  \E tr : /\ Store(v, tr) /\ Changed(voucher[v], tr) /\ tr.ref \in Orders
                   /\ behind' = behind \cup {tr.ref}
<1> DEFINE tr == [voucher[v] EXCEPT !.status = "COMPLETED"]
<1>1. GoodVoucher(voucher[v]) /\ AllocsOK(voucher[v]) /\ voucher[v].kind \in {"sales", "ledger"}
  BY DEF CoverTyped, PayInv, Income, ApproveTransaction
<1>2. /\ tr.kind = voucher[v].kind /\ tr.ref = voucher[v].ref /\ tr.allocs = voucher[v].allocs
      /\ GoodVoucher(tr)
  BY <1>1 DEF GoodVoucher
<1>3. Store(v, tr) /\ behind' = behind \cup {voucher[v].ref}
  BY DEF ApproveTransaction
<1> HIDE DEF tr
<1>4. Changed(voucher[v], tr) /\ tr.ref \in Orders
  BY <1>1, <1>2 DEF Changed, AllocsOK, GoodVoucher
<1> QED
  BY <1>2, <1>3, <1>4

LEMMA GoneGood == GoodVoucher(Gone) /\ AllocsOK(Gone) /\ Gone.kind = "gone" /\ DOMAIN Gone.allocs = {}
<1>1. Gone \in [kind : {"gone"}, status : {"DRAFT"}, amount : {0}, ref : {NoOrder}, allocs : {<<>>}]
  BY DEF Gone, Unused
<1>2. GoodVoucher(Gone) /\ Gone.kind = "gone" /\ Gone.allocs = <<>>
  BY <1>1 DEF GoodVoucher
<1> QED
  BY <1>2, NothingTodo DEF AllocsOK

LEMMA RemoveVoucherTurn ==
    ASSUME PayInv, CoverTyped, NEW r \in Requests, RemoveVoucher(r)
    PROVE  /\ req[r].id \in Vouchers /\ Store(req[r].id, Gone)
           /\ \/ req[r].ref \notin Orders /\ Put(r, Idle)
              \/ req[r].ref \in Orders /\ Put(r, SyncOf(req[r].ref))
<1>1. GoodRequest(req[r]) /\ req[r].pc = "remove"
  BY DEF CoverTyped, RemoveVoucher
<1>2. req[r].id \in Vouchers /\ req[r].ref \in Orders \cup {NoOrder}
  BY <1>1 DEF GoodRequest
<1>3. Store(req[r].id, Gone)
  BY DEF RemoveVoucher
<1>4. CASE req[r].ref = NoOrder
  BY <1>2, <1>3, <1>4, PayConstants DEF RemoveVoucher
<1>5. CASE req[r].ref # NoOrder
  BY <1>2, <1>3, <1>5 DEF RemoveVoucher
<1> QED
  BY <1>4, <1>5

LEMMA SaveOrderTurn ==
    ASSUME PayInv, CoverTyped, NEW r \in Requests, SaveOrder(r), NEW o, o = req[r].ref
    PROVE  /\ o \in Orders /\ Put(r, Idle) /\ behind' = behind \ {o}
           /\ order' = [order EXCEPT ![o] = req[r].seen.order]
           /\ req[r].seen.order \in SalesRow
  BY DEF SaveOrder, CoverTyped, GoodRequest, Carrying

LEMMA EditOrderTurn ==
    ASSUME PayInv, CoverTyped, NEW r \in Requests, EditOrder(r), NEW o, o = req[r].ref
    PROVE  /\ o \in Orders /\ Put(r, Idle)
           /\ \E row \in SalesRow : /\ order' = [order EXCEPT ![o] = row]
                                    /\ row.total = req[r].new
                                    /\ row.status = req[r].seen.order.status
           /\ behind' = IF req[r].new = req[r].seen.order.total THEN behind ELSE behind \cup {o}
           /\ shrunk' \subseteq shrunk \cup {o}
<1>1. o \in Orders /\ req[r].seen.order \in SalesRow /\ req[r].new \in Nat
  BY DEF EditOrder, CoverTyped, GoodRequest, Carrying
<1> DEFINE row == [req[r].seen.order EXCEPT !.total = req[r].new]
<1>2. row \in SalesRow /\ row.total = req[r].new /\ row.status = req[r].seen.order.status
  BY <1>1 DEF SalesRow
<1>3. order' = [order EXCEPT ![o] = row]
  BY DEF EditOrder
<1> HIDE DEF row
<1>4. /\ Put(r, Idle) /\ shrunk' \subseteq shrunk \cup {o}
      /\ behind' = IF req[r].new = req[r].seen.order.total THEN behind ELSE behind \cup {o}
  BY DEF EditOrder
<1> QED
  BY <1>1, <1>2, <1>3, <1>4

LEMMA FailTurn ==
    ASSUME PayInv, CoverTyped, NEW r \in Requests, Fail(r)
    PROVE  /\ Put(r, Idle) /\ faults' = faults + 1 /\ faults < MaxFaults
           /\ \/ req[r].pc \in Synchronising /\ req[r].ref \in Orders
                 /\ behind' = behind \cup {req[r].ref}
              \/ req[r].pc \notin Synchronising /\ behind' = behind
<1>1. req[r].pc \in Synchronising => req[r].ref \in Orders
  BY DEF CoverTyped, GoodRequest, Synchronising, Carrying
<1> QED
  BY <1>1 DEF Fail

--------------------------------------------------------------------------------
(* The types *)

LEMMA SumsZero ==
    ASSUME NEW vs, NEW o, \A v \in Vouchers : Worth(vs[v], o) = 0
    PROVE  Sums(vs, o) = 0
<1> DEFINE f == [v \in Vouchers |-> Worth(vs[v], o)]
<1>1. \A v \in Vouchers : f[v] = 0
  OBVIOUS
<1> HIDE DEF f
<1>2. SumFunctionOnSet(f, Vouchers) = 0
  BY <1>1, PayConstants, SumZero
<1> QED
  BY <1>2 DEF Sums, f

LEMMA PayInit == Init => PayInv
<1> SUFFICES ASSUME Init PROVE PayInv
  OBVIOUS
<1>1. PICK total \in [PurchaseOrders \ Pooled -> Totals] :
          po = [p \in PurchaseOrders |->
                  [total |-> IF p \in Pooled THEN SumFunctionOnSet(total, Children(p)) ELSE total[p],
                   paid |-> 0]]
  BY DEF Init
<1>2. ASSUME NEW p \in Pooled
      PROVE  SumFunctionOnSet(total, Children(p)) \in Nat
  <2>1. \A c \in Children(p) : ParentOf[c] # NoPO
    BY <1>2 DEF Children, Pooled
  <2>2. Children(p) \subseteq PurchaseOrders \ Pooled
    BY <2>1, FiniteChildren, PayConstants
  <2>3. \A c \in Children(p) : total[c] \in Nat
    BY <2>2, PayConstants
  <2> QED
    BY <2>3, FiniteChildren, SumNat
<1>3. \A p \in PurchaseOrders \ Pooled : total[p] \in Nat
  BY PayConstants
<1>4. po \in [PurchaseOrders -> PORow]
  BY <1>1, <1>2, <1>3 DEF PORow
<1>5. \A v \in Vouchers : voucher[v] = Unused
  BY DEF Init
<1>6. AllocsOK(Unused)
  BY NothingTodo DEF Unused, AllocsOK
<1>7. received = [o \in Orders |-> Sums(voucher, o)]
  <2>1. \A o : Worth(Unused, o) = 0
    BY DEF Worth, Unused
  <2>2. \A o \in Orders : Sums(voucher, o) = 0
    BY <1>5, <2>1, SumsZero
  <2> QED
    BY <2>2 DEF Init
<1>8. \A r \in Requests : PayRequest(req[r])
  BY IdlePays DEF Init
<1>9. shrunk \cup behind \subseteq Orders
  BY DEF Init
<1> QED
  BY <1>4, <1>5, <1>6, <1>7, <1>8, <1>9 DEF PayInv

\* The purchase orders may change, and one request goes on.
LEMMA PayKeep ==
    ASSUME PayInv, CoverTyped, NEW r \in Requests,
           \E q : Put(r, q) /\ PayRequest(q),
           po' \in [PurchaseOrders -> PORow], UNCHANGED <<voucher, received>>,
           shrunk' \cup behind' \subseteq Orders
    PROVE  PayInv'
  BY PayTurn

LEMMA PaySync ==
    ASSUME PayInv, CoverTyped, NEW r \in Requests,
           ReadOrder(r) \/ ReadPayments(r) \/ SaveOrder(r) \/ Fail(r)
    PROVE  PayInv'
<1>1. /\ po' \in [PurchaseOrders -> PORow] /\ UNCHANGED <<voucher, received>>
      /\ shrunk \cup behind \subseteq Orders /\ shrunk' = shrunk
  BY DEF PayInv, ReadOrder, ReadPayments, SaveOrder, Fail
<1>2. CASE ReadOrder(r)
  <2>1. \E q : Put(r, q) /\ PayRequest(q)
    BY <1>2, ReadOrderTurn
  <2> QED
    BY <1>1, <1>2, <2>1, PayKeep DEF ReadOrder
<1>3. CASE ReadPayments(r)
  <2>1. PICK o, status : o = req[r].ref /\ status = StatusFor(req[r].seen.order.total, received[o])
    OBVIOUS
  <2>2. (\E q : Put(r, q) /\ PayRequest(q)) /\ behind' \subseteq behind
    BY <1>3, <2>1, ReadPaymentsTurn, IdlePays
  <2> QED
    BY <1>1, <2>2, PayKeep
<1>4. CASE SaveOrder(r)
  <2>1. (\E q : Put(r, q) /\ PayRequest(q)) /\ behind' \subseteq behind
    BY <1>4, SaveOrderTurn, IdlePays
  <2> QED
    BY <1>1, <2>1, PayKeep
<1>5. CASE Fail(r)
  <2>1. (\E q : Put(r, q) /\ PayRequest(q)) /\ behind' \subseteq Orders
    BY <1>1, <1>5, FailTurn, IdlePays
  <2> QED
    BY <1>1, <2>1, PayKeep
<1> QED
  BY <1>2, <1>3, <1>4, <1>5

LEMMA PayPO ==
    ASSUME PayInv, CoverTyped, NEW r \in Requests,
           \/ SavePO(r)
           \/ \E p \in PurchaseOrders : ReadPO(r, p) \/ SaveChild(r, p)
    PROVE  PayInv'
<1>1. /\ UNCHANGED <<voucher, received>> /\ shrunk' \cup behind' \subseteq Orders
  BY DEF PayInv, ReadPO, SavePO, SaveChild
<1>2. ASSUME NEW p \in PurchaseOrders, ReadPO(r, p)
      PROVE  PayInv'
  <2>1. \E q : Put(r, q) /\ PayRequest(q)
    BY <1>2, ReadPOTurn
  <2>2. po' \in [PurchaseOrders -> PORow]
    BY <1>2 DEF ReadPO, PayInv
  <2> QED
    BY <1>1, <2>1, <2>2, PayKeep
<1>3. ASSUME NEW p \in DOMAIN req[r].todo
      PROVE  PayRequest(After(r, p))
  <2>1. PICK left : left = Restrict(req[r].todo, DOMAIN req[r].todo \ {p})
    OBVIOUS
  <2> QED
    BY <2>1, AfterPays
<1>4. CASE SavePO(r)
  <2>1. PICK p : p = req[r].at
    OBVIOUS
  <2>2. (\E q : Put(r, q) /\ PayRequest(q)) /\ po' \in [PurchaseOrders -> PORow]
    BY <1>3, <1>4, <2>1, SavePOTurn
  <2> QED
    BY <1>1, <2>2, PayKeep
<1>5. ASSUME NEW c \in PurchaseOrders, SaveChild(r, c)
      PROVE  PayInv'
  <2>1. PICK p : p = req[r].at
    OBVIOUS
  <2>2. (\E q : Put(r, q) /\ PayRequest(q)) /\ po' \in [PurchaseOrders -> PORow]
    BY <1>3, <1>5, <2>1, SaveChildTurn
  <2> QED
    BY <1>1, <2>2, PayKeep
<1> QED
  BY <1>2, <1>4, <1>5

LEMMA PayEdit ==
    ASSUME PayInv, CoverTyped, NEW r \in Requests,
           \/ BeginEditOrder(r) \/ EditOrder(r) \/ BeginEditPO(r) \/ EditPO(r)
           \/ ReadPool(r) \/ SavePool(r) \/ \E v \in Vouchers : BeginDelete(r, v)
    PROVE  PayInv'
<1>1. /\ po \in [PurchaseOrders -> PORow] /\ shrunk \cup behind \subseteq Orders
      /\ UNCHANGED <<voucher, received>>
  BY DEF PayInv, BeginEditOrder, EditOrder, BeginEditPO, EditPO, ReadPool, SavePool, BeginDelete
<1>2. CASE BeginEditOrder(r) \/ BeginEditPO(r) \/ ReadPool(r) \/ \E v \in Vouchers : BeginDelete(r, v)
  <2>1. \E q : Put(r, q) /\ PayRequest(q)
    BY <1>2, BeginEditOrderTurn, BeginEditPOTurn, PoolTurn, BeginDeleteTurn
  <2>2. po' = po /\ behind' = behind /\ shrunk' = shrunk
    BY <1>2 DEF BeginEditOrder, BeginEditPO, ReadPool, BeginDelete
  <2> QED
    BY <1>1, <2>1, <2>2, PayKeep
<1>3. CASE EditOrder(r)
  <2>1. PICK o : o = req[r].ref
    OBVIOUS
  <2>2. Put(r, Idle) /\ shrunk' \cup behind' \subseteq Orders
    BY <1>1, <1>3, <2>1, EditOrderTurn
  <2>3. po' = po
    BY <1>3 DEF EditOrder
  <2> QED
    BY <1>1, <2>2, <2>3, IdlePays, PayKeep
<1>4. CASE EditPO(r) \/ SavePool(r)
  <2>1. PICK p : p = req[r].at
    OBVIOUS
  <2>2. (\E q : Put(r, q) /\ PayRequest(q)) /\ po' \in [PurchaseOrders -> PORow]
    BY <1>4, <2>1, EditPOTurn, SavePoolTurn, IdlePays
  <2>3. behind' = behind /\ shrunk' = shrunk
    BY <1>4 DEF EditPO, SavePool
  <2> QED
    BY <1>1, <2>2, <2>3, PayKeep
<1> QED
  BY <1>2, <1>3, <1>4

LEMMA PayMoney ==
    ASSUME PayInv, CoverTyped, NEW r \in Requests,
           CreatePayment(r) \/ UpdateTransaction(r) \/ PayPOs(r) \/ RemoveVoucher(r)
    PROVE  PayInv'
<1>1. po' = po /\ behind \subseteq Orders
  BY DEF PayInv, CreatePayment, UpdateTransaction, PayPOs, RemoveVoucher
<1>2. CASE CreatePayment(r)
  <2>1. \E tr : \E v \in Vouchers, o \in Orders :
            Put(r, SyncOf(o)) /\ Store(v, tr) /\ GoodVoucher(tr) /\ AllocsOK(tr)
    BY <1>2, CreatePaymentTurn
  <2>2. behind' = behind
    BY <1>2 DEF CreatePayment
  <2> QED
    BY <1>1, <2>1, <2>2, SyncPays, StoreTurn
<1>3. CASE UpdateTransaction(r)
  <2>1. PICK tr : \E v \in Vouchers :
            /\ Store(v, tr) /\ Changed(voucher[v], tr) /\ tr.ref \in Orders
            /\ \/ Put(r, SyncOf(tr.ref)) /\ behind' = behind
               \/ req' = req /\ behind' = behind \cup {tr.ref}
    BY <1>3, UpdateTransactionTurn
  <2>2. PICK v \in Vouchers : Store(v, tr) /\ GoodVoucher(tr) /\ AllocsOK(tr)
    BY <2>1 DEF Changed
  <2>3. behind' \subseteq Orders
    BY <1>1, <2>1
  <2>4. req' = req \/ \E q : Put(r, q) /\ PayRequest(q)
    BY <2>1, SyncPays
  <2> QED
    BY <1>1, <2>1, <2>2, <2>3, <2>4, StoreTurn
<1>4. CASE PayPOs(r)
  <2>1. \E q, tr : \E v \in Vouchers :
            Put(r, q) /\ PayRequest(q) /\ Store(v, tr) /\ GoodVoucher(tr) /\ AllocsOK(tr)
    BY <1>4, PayPOsTurn
  <2>2. behind' = behind
    BY <1>4 DEF PayPOs
  <2> QED
    BY <1>1, <2>1, <2>2, StoreTurn
<1>5. CASE RemoveVoucher(r)
  <2>1. req[r].id \in Vouchers /\ Store(req[r].id, Gone)
        /\ \E q : Put(r, q) /\ PayRequest(q)
    BY <1>5, RemoveVoucherTurn, IdlePays, SyncPays
  <2>2. behind' = behind
    BY <1>5 DEF RemoveVoucher
  <2> QED
    BY <1>1, <2>1, <2>2, GoneGood, StoreTurn
<1> QED
  BY <1>2, <1>3, <1>4, <1>5

LEMMA PayStep == PayInv /\ CoverTyped /\ [Next]_vars => PayInv'
<1> SUFFICES ASSUME PayInv, CoverTyped, [Next]_vars PROVE PayInv'
  OBVIOUS
<1>1. CASE CreateTransaction
  <2>1. \E tr : \E v \in Vouchers, o \in Orders :
            Store(v, tr) /\ behind' = behind \cup {o} /\ GoodVoucher(tr) /\ AllocsOK(tr)
    BY <1>1, CreateTransactionTurn
  <2>2. po' = po /\ req' = req /\ behind' \subseteq Orders
    BY <1>1, <2>1 DEF CreateTransaction, PayInv
  <2> QED
    BY <2>1, <2>2, StoreTurn
<1>2. ASSUME NEW v \in Vouchers, ApproveTransaction(v)
      PROVE  PayInv'
  <2>1. PICK tr : Store(v, tr) /\ Changed(voucher[v], tr) /\ tr.ref \in Orders
                  /\ behind' = behind \cup {tr.ref}
    BY <1>2, ApproveTransactionTurn
  <2>2. po' = po /\ req' = req /\ behind' \subseteq Orders /\ GoodVoucher(tr) /\ AllocsOK(tr)
    BY <1>2, <2>1 DEF ApproveTransaction, PayInv, Changed
  <2> QED
    BY <2>1, <2>2, StoreTurn
<1>3. ASSUME NEW r \in Requests,
             \/ CreatePayment(r) \/ UpdateTransaction(r)
             \/ ReadOrder(r) \/ ReadPayments(r) \/ SaveOrder(r)
             \/ PayPOs(r) \/ SavePO(r)
             \/ \E p \in PurchaseOrders : ReadPO(r, p) \/ SaveChild(r, p)
             \/ \E v \in Vouchers : BeginDelete(r, v)
             \/ RemoveVoucher(r)
             \/ BeginEditOrder(r) \/ EditOrder(r)
             \/ BeginEditPO(r) \/ EditPO(r) \/ ReadPool(r) \/ SavePool(r)
             \/ Fail(r)
      PROVE  PayInv'
  BY <1>3, PaySync, PayPO, PayEdit, PayMoney
<1>4. CASE UNCHANGED vars
  <2>1. UNCHANGED <<po, voucher, received, req, shrunk, behind>>
    BY <1>4 DEF vars
  <2> QED
    BY <2>1 DEF PayInv
<1> QED
  BY <1>1, <1>2, <1>3, <1>4 DEF Next

\* The income kept for each order is the sum of its rows at any moment, and
\* every row, request and ghost has its type.
THEOREM PaymentsTyped == Spec => []TypeOK
<1>1. CoverInv => CoverTyped
  BY DEF CoverInv
<1>2. PayInv /\ CoverTyped => TypeOK
  <2> SUFFICES ASSUME PayInv, CoverTyped PROVE TypeOK
    OBVIOUS
  <2>1. \A v \in Vouchers : voucher[v].amount \in Nat /\ voucher[v].ref \in Orders \cup {NoOrder}
    BY DEF CoverTyped, GoodVoucher
  <2>2. \A r \in Requests : \E S \in SUBSET PurchaseOrders : req[r] \in Request(S)
    BY DEF PayInv, PayRequest
  <2>3. received = [o \in Orders |-> IncomeOf(o)]
    BY DEF PayInv, Sums, IncomeOf
  <2> QED
    BY <2>1, <2>2, <2>3 DEF PayInv, CoverTyped, TypeOK
<1> QED
  BY CoverInit, CoverStep, PayInit, PayStep, <1>1, <1>2, PTL DEF Spec

--------------------------------------------------------------------------------
(* Requests that do not overlap *)

\* Requests that have overlapped stay marked, and a step is one fault at most.
LEMMA StepMarks ==
    ASSUME [Next]_vars
    PROVE  (crowded => crowded') /\ faults' \in {faults, faults + 1}
<1>1. ASSUME \/ CreateTransaction \/ \E v \in Vouchers : ApproveTransaction(v)
             \/ \E r \in Requests :
                   \/ CreatePayment(r) \/ UpdateTransaction(r) \/ PayPOs(r)
                   \/ \E v \in Vouchers : BeginDelete(r, v)
                   \/ BeginEditOrder(r) \/ BeginEditPO(r)
      PROVE  (crowded => crowded') /\ faults' = faults
  <2>1. faults' = faults
    BY <1>1 DEF CreateTransaction, ApproveTransaction, CreatePayment, UpdateTransaction, PayPOs,
       BeginDelete, BeginEditOrder, BeginEditPO
  <2>2. \E name : Accept(name)
    BY <1>1, Zenon DEF CreateTransaction, ApproveTransaction, CreatePayment, UpdateTransaction, PayPOs,
       BeginDelete, BeginEditOrder, BeginEditPO
  <2> QED
    BY <2>1, <2>2 DEF Accept
<1>2. ASSUME NEW r \in Requests,
             \/ ReadOrder(r) \/ ReadPayments(r) \/ SaveOrder(r) \/ SavePO(r)
             \/ \E p \in PurchaseOrders : ReadPO(r, p) \/ SaveChild(r, p)
             \/ RemoveVoucher(r) \/ EditOrder(r) \/ EditPO(r) \/ ReadPool(r) \/ SavePool(r)
      PROVE  crowded' = crowded /\ faults' = faults
  <2>1. ASSUME NEW p \in PurchaseOrders, ReadPO(r, p) \/ SaveChild(r, p)
        PROVE  crowded' = crowded /\ faults' = faults
    BY <2>1 DEF ReadPO, SaveChild
  <2>2. CASE ReadOrder(r) \/ ReadPayments(r) \/ SaveOrder(r) \/ SavePO(r)
    BY <2>2 DEF ReadOrder, ReadPayments, SaveOrder, SavePO
  <2>3. CASE RemoveVoucher(r) \/ EditOrder(r) \/ EditPO(r) \/ ReadPool(r) \/ SavePool(r)
    BY <2>3 DEF RemoveVoucher, EditOrder, EditPO, ReadPool, SavePool
  <2> QED
    BY <1>2, <2>1, <2>2, <2>3
<1>3. ASSUME NEW r \in Requests, Fail(r)
      PROVE  crowded' = crowded /\ faults' = faults + 1
  BY <1>3 DEF Fail
<1>4. CASE UNCHANGED vars
  BY <1>4 DEF vars
<1> QED
  BY <1>1, <1>2, <1>3, <1>4 DEF Next

\* The request in flight, or none.
Sole(q) ==
    \/ q = Idle /\ \A s \in Requests : req[s] = Idle
    \/ \E r \in Requests : q = req[r] /\ \A s \in Requests \ {r} : req[s] = Idle

LEMMA SoleFree ==
    ASSUME PayInv, NEW q, Sole(q), \E name : Accept(name), ~crowded'
    PROVE  ~crowded /\ q = Idle /\ \A s \in Requests : req[s] = Idle
<1>1. ~crowded /\ InFlight = {}
  BY DEF Accept
<1>2. \A s \in Requests : req[s] = Idle
  BY <1>1 DEF InFlight, PayInv, PayRequest
<1> QED
  BY <1>1, <1>2 DEF Sole

LEMMA SoleBusy ==
    ASSUME NEW q, Sole(q), NEW r \in Requests, req[r].pc # "idle"
    PROVE  q = req[r] /\ \A s \in Requests \ {r} : req[s] = Idle
  BY IdleGood DEF Sole

LEMMA SoleThen ==
    ASSUME CoverTyped, NEW r \in Requests, NEW q, Put(r, q),
           \A s \in Requests \ {r} : req[s] = Idle
    PROVE  Sole(q)'
<1>1. req'[r] = q /\ \A s \in Requests \ {r} : req'[s] = Idle
  BY DEF Put, CoverTyped
<1> QED
  BY <1>1 DEF Sole

LEMMA SoleSame ==
    ASSUME NEW q, Sole(q), req' = req
    PROVE  Sole(q)'
  BY DEF Sole

--------------------------------------------------------------------------------
(* The payment status, between requests that do not overlap *)

Right(o) == order[o].status = StatusFor(order[o].total, received[o])

\* What request q, alone in flight, has read is what is stored, and every
\* order has its status but for those left behind and the one q works for.
StatusBooks(q) ==
    /\ q.pc \in {"readPayments", "editOrder"} => q.seen.order = order[q.ref]
    /\ q.pc = "saveOrder" =>
        q.seen.order = [order[q.ref] EXCEPT !.status = StatusFor(order[q.ref].total, received[q.ref])]
    /\ q.id # NoVoucher => q.ref = voucher[q.id].ref
    /\ \A o \in Orders \ behind : (q.pc \in Synchronising /\ q.ref = o) \/ Right(o)

StatusInv == ~crowded => \E q : Sole(q) /\ StatusBooks(q)

LEMMA StatusStored ==
    ASSUME CoverTyped, \A o \in Orders \ behind : Right(o),
           NEW v \in Vouchers, NEW tr, GoodVoucher(tr), Store(v, tr),
           order' = order, behind \subseteq behind',
           NEW q, q.pc \notin {"readPayments", "editOrder", "saveOrder"}, q.id = NoVoucher,
           \A o \in Orders \ behind' : \/ Worth(voucher[v], o) = 0 /\ Worth(tr, o) = 0
                                       \/ q.pc \in Synchronising /\ q.ref = o
    PROVE  StatusBooks(q)'
<1>1. ASSUME NEW o \in Orders \ behind'
      PROVE  (q.pc \in Synchronising /\ q.ref = o) \/ Right(o)'
  <2>1. CASE Worth(voucher[v], o) = 0 /\ Worth(tr, o) = 0
    <3>1. received'[o] = received[o]
      BY <2>1 DEF Store, CoverTyped
    <3> QED
      BY <3>1 DEF Right
  <2> QED
    BY <2>1
<1> QED
  BY <1>1 DEF StatusBooks

LEMMA StatusKept ==
    ASSUME \A o \in Orders \ behind : Right(o), UNCHANGED <<order, voucher, received, behind>>,
           NEW q, q.pc \notin {"readPayments", "saveOrder"},
           q.pc = "editOrder" => q.seen.order = order[q.ref],
           q.id # NoVoucher => q.ref = voucher[q.id].ref
    PROVE  StatusBooks(q)'
  BY DEF StatusBooks, Right

\* A row counts only for the order it is for.
LEMMA WorthElsewhere ==
    ASSUME NEW tr, NEW o, tr.kind \notin {"sales", "ledger"} \/ tr.ref # o
    PROVE  Worth(tr, o) = 0
  BY DEF Worth

LEMMA IdleFields == Idle.pc = "idle" /\ Idle.id = NoVoucher
  BY DEF Idle

LEMMA SyncFields ==
    ASSUME NEW o
    PROVE  SyncOf(o).pc = "readOrder" /\ SyncOf(o).id = NoVoucher /\ SyncOf(o).ref = o
  BY DEF SyncOf, Idle

LEMMA UnusedKind == Unused.kind = "unused" /\ DOMAIN Unused.allocs = {}
  BY NothingTodo DEF Unused

LEMMA StatusBegins ==
    ASSUME PayInv, CoverTyped, NEW q0, Sole(q0), StatusBooks(q0), ~crowded',
           NEW r \in Requests,
           \/ CreatePayment(r) \/ UpdateTransaction(r) \/ PayPOs(r)
           \/ BeginEditOrder(r) \/ BeginEditPO(r) \/ \E v \in Vouchers : BeginDelete(r, v)
    PROVE  \E q : Sole(q)' /\ StatusBooks(q)'
<1>1. q0 = Idle /\ \A s \in Requests : req[s] = Idle
  <2>1. \E name : Accept(name)
    BY DEF CreatePayment, UpdateTransaction, PayPOs, BeginEditOrder, BeginEditPO, BeginDelete
  <2> QED
    BY <2>1, SoleFree
<1>2. \A o \in Orders \ behind : Right(o)
  BY <1>1, IdleFields DEF StatusBooks, Synchronising
<1>3. \A q : Put(r, q) => Sole(q)'
  BY <1>1, SoleThen
<1>4. CASE CreatePayment(r)
  <2>1. PICK tr : \E v \in Vouchers, o \in Orders :
                /\ Put(r, SyncOf(o)) /\ Store(v, tr)
                /\ voucher[v] = Unused /\ GoodVoucher(tr)
                /\ tr.kind = "sales" /\ tr.ref = o
    BY <1>4, CreatePaymentTurn
  <2>2. PICK v \in Vouchers, o \in Orders :
                /\ Put(r, SyncOf(o)) /\ Store(v, tr)
                /\ voucher[v] = Unused /\ GoodVoucher(tr)
                /\ tr.kind = "sales" /\ tr.ref = o
    BY <2>1
  <2>3. \A p \in Orders : \/ Worth(voucher[v], p) = 0 /\ Worth(tr, p) = 0
                          \/ SyncOf(o).pc \in Synchronising /\ SyncOf(o).ref = p
    BY <2>2, UnusedKind, WorthElsewhere, SyncFields DEF Synchronising
  <2>4. order' = order /\ behind' = behind
    BY <1>4 DEF CreatePayment
  <2>5. StatusBooks(SyncOf(o))'
    BY <1>2, <2>2, <2>3, <2>4, SyncFields, StatusStored
  <2> QED
    BY <1>3, <2>2, <2>5
<1>5. CASE UpdateTransaction(r)
  <2>1. PICK tr : \E v \in Vouchers :
                /\ Store(v, tr) /\ Changed(voucher[v], tr) /\ tr.ref \in Orders
                /\ \/ Put(r, SyncOf(tr.ref)) /\ behind' = behind
                   \/ req' = req /\ behind' = behind \cup {tr.ref}
    BY <1>5, UpdateTransactionTurn
  <2>2. PICK v \in Vouchers :
                /\ Store(v, tr) /\ Changed(voucher[v], tr) /\ tr.ref \in Orders
                /\ \/ Put(r, SyncOf(tr.ref)) /\ behind' = behind
                   \/ req' = req /\ behind' = behind \cup {tr.ref}
    BY <2>1
  <2>3. order' = order /\ behind \subseteq behind' /\ GoodVoucher(tr)
    BY <1>5, <2>2 DEF UpdateTransaction, Changed
  <2>4. \A p \in Orders : p # tr.ref => Worth(voucher[v], p) = 0 /\ Worth(tr, p) = 0
    BY <2>2, WorthElsewhere DEF Changed
  <2>5. CASE Put(r, SyncOf(tr.ref))
    <3>1. \A p \in Orders : \/ Worth(voucher[v], p) = 0 /\ Worth(tr, p) = 0
                            \/ SyncOf(tr.ref).pc \in Synchronising /\ SyncOf(tr.ref).ref = p
      BY <2>4, SyncFields DEF Synchronising
    <3>2. StatusBooks(SyncOf(tr.ref))'
      BY <1>2, <2>2, <2>3, <3>1, SyncFields, StatusStored
    <3> QED
      BY <1>3, <2>5, <3>2
  <2>6. CASE req' = req /\ behind' = behind \cup {tr.ref}
    <3>1. StatusBooks(q0)'
      BY <1>1, <1>2, <2>2, <2>3, <2>4, <2>6, IdleFields, StatusStored
    <3> QED
      BY <2>6, <3>1, SoleSame
  <2> QED
    BY <2>2, <2>5, <2>6
<1>6. CASE PayPOs(r)
  <2>1. PICK q, tr : \E v \in Vouchers :
                /\ Put(r, q) /\ Store(v, tr) /\ voucher[v] = Unused /\ GoodVoucher(tr)
                /\ tr.kind = "purchase" /\ q.pc = "readPO" /\ q.id = NoVoucher
    BY <1>6, PayPOsTurn
  <2>2. PICK v \in Vouchers :
                /\ Put(r, q) /\ Store(v, tr) /\ voucher[v] = Unused /\ GoodVoucher(tr)
                /\ tr.kind = "purchase" /\ q.pc = "readPO" /\ q.id = NoVoucher
    BY <2>1
  <2>3. order' = order /\ behind' = behind
    BY <1>6 DEF PayPOs
  <2>4. \A p \in Orders : Worth(voucher[v], p) = 0 /\ Worth(tr, p) = 0
    BY <2>2, UnusedKind, WorthElsewhere
  <2>5. StatusBooks(q)'
    BY <1>2, <2>2, <2>3, <2>4, StatusStored
  <2> QED
    BY <1>3, <2>2, <2>5
<1>7. CASE BeginEditOrder(r)
  <2>1. PICK q : \E o \in Orders :
                /\ Put(r, q)
                /\ q.pc = "editOrder" /\ q.id = NoVoucher /\ q.ref = o /\ q.seen.order = order[o]
    BY <1>7, BeginEditOrderTurn
  <2>2. UNCHANGED <<order, voucher, received, behind>>
    BY <1>7 DEF BeginEditOrder
  <2>3. StatusBooks(q)'
    BY <1>2, <2>1, <2>2, StatusKept
  <2> QED
    BY <1>3, <2>1, <2>3
<1>8. CASE BeginEditPO(r)
  <2>1. PICK q : Put(r, q) /\ q.pc = "editPO" /\ q.id = NoVoucher
    BY <1>8, BeginEditPOTurn
  <2>2. UNCHANGED <<order, voucher, received, behind>>
    BY <1>8 DEF BeginEditPO
  <2>3. StatusBooks(q)'
    BY <1>2, <2>1, <2>2, StatusKept
  <2> QED
    BY <1>3, <2>1, <2>3
<1>9. ASSUME NEW v \in Vouchers, BeginDelete(r, v)
      PROVE  \E q : Sole(q)' /\ StatusBooks(q)'
  <2>1. PICK q : /\ Put(r, q) /\ q.id = v /\ q.ref = voucher[v].ref
                 /\ q.pc = IF DOMAIN q.todo = {} THEN "remove" ELSE "readPO"
    BY <1>9, BeginDeleteTurn
  <2>2. UNCHANGED <<order, voucher, received, behind>>
    BY <1>9 DEF BeginDelete
  <2>3. StatusBooks(q)'
    BY <1>2, <2>1, <2>2, StatusKept
  <2> QED
    BY <1>3, <2>1, <2>3
<1> QED
  BY <1>4, <1>5, <1>6, <1>7, <1>8, <1>9


\* The synchronisation, and what else writes orders or ends.
LEMMA StatusSynchronises ==
    ASSUME PayInv, CoverTyped, NEW q0, Sole(q0), StatusBooks(q0),
           NEW r \in Requests,
           ReadOrder(r) \/ ReadPayments(r) \/ SaveOrder(r) \/ EditOrder(r) \/ Fail(r)
    PROVE  \E q : Sole(q)' /\ StatusBooks(q)'
<1>1. q0 = req[r] /\ \A s \in Requests \ {r} : req[s] = Idle
  <2>1. req[r].pc # "idle"
    BY DEF ReadOrder, ReadPayments, SaveOrder, EditOrder, Fail
  <2> QED
    BY <2>1, SoleBusy
<1>2. \A q : Put(r, q) => Sole(q)'
  BY <1>1, SoleThen
<1>3. PICK o : o = q0.ref
  OBVIOUS
<1>4. \A p \in Orders \ behind : (q0.pc \in Synchronising /\ o = p) \/ Right(p)
  BY <1>3 DEF StatusBooks
<1>5. CASE ReadOrder(r)
  <2>1. PICK q : Put(r, q) /\ q.pc = "readPayments" /\ q.ref = o /\ q.id = q0.id
                 /\ q.seen.order = order[o]
    BY <1>1, <1>3, <1>5, ReadOrderTurn
  <2>2. UNCHANGED <<order, voucher, received, behind>>
    BY <1>5 DEF ReadOrder
  <2>3. StatusBooks(q)'
    BY <1>1, <1>3, <1>4, <1>5, <2>1, <2>2 DEF StatusBooks, Right, Synchronising, ReadOrder
  <2> QED
    BY <1>2, <2>1, <2>3
<1>6. CASE ReadPayments(r)
  <2>1. q0.pc = "readPayments" /\ q0.seen.order = order[o]
    BY <1>1, <1>3, <1>6 DEF ReadPayments, StatusBooks
  <2>2. PICK status : status = StatusFor(req[r].seen.order.total, received[o])
    OBVIOUS
  <2>3. UNCHANGED <<order, voucher, received>>
    BY <1>6 DEF ReadPayments
  <2>4. /\ o \in Orders
        /\ \/ Put(r, Idle) /\ behind' = behind \ {o} /\ req[r].seen.order.status = status
           \/ /\ behind' = behind
              /\ \E q : /\ Put(r, q)
                        /\ q.pc = "saveOrder" /\ q.ref = o /\ q.id = req[r].id
                        /\ q.seen.order = [req[r].seen.order EXCEPT !.status = status]
    BY <1>1, <1>3, <1>6, <2>2, ReadPaymentsTurn
  <2>5. CASE Put(r, Idle) /\ behind' = behind \ {o} /\ req[r].seen.order.status = status
    <3>1. Right(o)
      BY <1>1, <2>1, <2>2, <2>5 DEF Right
    <3>2. \A p \in Orders \ behind' : Right(p)
      BY <1>4, <2>5, <3>1
    <3>3. StatusBooks(Idle)'
      BY <2>3, <3>2, IdleFields DEF StatusBooks, Right
    <3> QED
      BY <1>2, <2>5, <3>3
  <2>6. ASSUME behind' = behind,
               NEW q, Put(r, q), q.pc = "saveOrder", q.ref = o, q.id = req[r].id,
               q.seen.order = [req[r].seen.order EXCEPT !.status = status]
        PROVE  Sole(q)' /\ StatusBooks(q)'
    <3>1. q.seen.order = [order[o] EXCEPT !.status = StatusFor(order[o].total, received[o])]
      BY <1>1, <2>1, <2>2, <2>6
    <3>2. q.id # NoVoucher => q.ref = voucher[q.id].ref
      BY <1>1, <1>3, <2>6 DEF StatusBooks
    <3>3. StatusBooks(q)'
      BY <1>4, <2>3, <2>6, <3>1, <3>2 DEF StatusBooks, Right, Synchronising
    <3> QED
      BY <1>2, <2>6, <3>3
  <2> QED
    BY <2>4, <2>5, <2>6
<1>7. CASE SaveOrder(r)
  <2>1. /\ o \in Orders /\ Put(r, Idle) /\ behind' = behind \ {o}
        /\ order' = [order EXCEPT ![o] = q0.seen.order] /\ UNCHANGED <<voucher, received>>
    BY <1>1, <1>3, <1>7, SaveOrderTurn DEF SaveOrder
  <2>2. q0.seen.order = [order[o] EXCEPT !.status = StatusFor(order[o].total, received[o])]
    BY <1>1, <1>3, <1>7 DEF SaveOrder, StatusBooks
  <2>3. order[o] \in SalesRow /\ order \in [Orders -> SalesRow]
    BY <2>1 DEF CoverTyped
  <2>4. /\ q0.seen.order.status = StatusFor(order[o].total, received[o])
        /\ q0.seen.order.total = order[o].total
    BY <2>2, <2>3 DEF SalesRow
  <2>5. \A p \in Orders \ behind' : Right(p)'
    BY <1>4, <2>1, <2>3, <2>4 DEF Right
  <2>6. StatusBooks(Idle)'
    BY <2>5, IdleFields DEF StatusBooks
  <2> QED
    BY <1>2, <2>1, <2>6
<1>8. CASE EditOrder(r)
  <2>1. PICK row \in SalesRow :
           /\ order' = [order EXCEPT ![o] = row]
           /\ row.total = q0.new /\ row.status = q0.seen.order.status
    BY <1>1, <1>3, <1>8, EditOrderTurn
  <2>2. /\ o \in Orders /\ Put(r, Idle) /\ UNCHANGED <<voucher, received>>
        /\ behind' = IF q0.new = q0.seen.order.total THEN behind ELSE behind \cup {o}
    BY <1>1, <1>3, <1>8, EditOrderTurn DEF EditOrder
  <2>3. q0.seen.order = order[o] /\ \A p \in Orders \ behind : Right(p)
    BY <1>1, <1>3, <1>4, <1>8 DEF EditOrder, StatusBooks, Synchronising
  <2>4. order \in [Orders -> SalesRow]
    BY DEF CoverTyped
  <2>5. \A p \in Orders \ behind' : Right(p)'
    BY <2>1, <2>2, <2>3, <2>4 DEF Right
  <2>6. StatusBooks(Idle)'
    BY <2>5, IdleFields DEF StatusBooks
  <2> QED
    BY <1>2, <2>2, <2>6
<1>9. CASE Fail(r)
  <2>1. /\ Put(r, Idle) /\ UNCHANGED <<order, voucher, received>>
        /\ \/ q0.pc \in Synchronising /\ behind' = behind \cup {o}
           \/ q0.pc \notin Synchronising /\ behind' = behind
    BY <1>1, <1>3, <1>9, FailTurn DEF Fail
  <2>2. \A p \in Orders \ behind' : Right(p)'
    BY <1>4, <2>1 DEF Right
  <2>3. StatusBooks(Idle)'
    BY <2>2, IdleFields DEF StatusBooks
  <2> QED
    BY <1>2, <2>1, <2>3
<1> QED
  BY <1>5, <1>6, <1>7, <1>8, <1>9

\* The steps on purchase orders, and the deletion of a transaction.
LEMMA StatusElsewhere ==
    ASSUME PayInv, CoverTyped, NEW q0, Sole(q0), StatusBooks(q0),
           NEW r \in Requests,
           \/ SavePO(r) \/ (\E p \in PurchaseOrders : ReadPO(r, p) \/ SaveChild(r, p))
           \/ EditPO(r) \/ ReadPool(r) \/ SavePool(r) \/ RemoveVoucher(r)
    PROVE  \E q : Sole(q)' /\ StatusBooks(q)'
<1>1. /\ q0 = req[r] /\ \A s \in Requests \ {r} : req[s] = Idle
      /\ q0.pc \notin Synchronising
  <2>1. req[r].pc # "idle" /\ req[r].pc \notin Synchronising
    BY DEF SavePO, ReadPO, SaveChild, EditPO, ReadPool, SavePool, RemoveVoucher, Synchronising
  <2> QED
    BY <2>1, SoleBusy
<1>2. \A q : Put(r, q) => Sole(q)'
  BY <1>1, SoleThen
<1>3. /\ \A o \in Orders \ behind : Right(o)
      /\ q0.id # NoVoucher => q0.ref = voucher[q0.id].ref
  BY <1>1 DEF StatusBooks
<1>4. CASE RemoveVoucher(r)
  <2>1. /\ q0.id \in Vouchers /\ Store(q0.id, Gone)
        /\ \/ q0.ref \notin Orders /\ Put(r, Idle)
           \/ q0.ref \in Orders /\ Put(r, SyncOf(q0.ref))
    BY <1>1, <1>4, RemoveVoucherTurn
  <2>2. order' = order /\ behind' = behind
    BY <1>4 DEF RemoveVoucher
  <2>3. q0.ref = voucher[q0.id].ref
    BY <1>3, <2>1, PayConstants
  <2>4. \A p \in Orders : p # q0.ref => Worth(voucher[q0.id], p) = 0 /\ Worth(Gone, p) = 0
    BY <2>3, WorthElsewhere, GoneGood
  <2>5. CASE q0.ref \notin Orders /\ Put(r, Idle)
    <3>1. StatusBooks(Idle)'
      BY <1>3, <2>1, <2>2, <2>4, <2>5, IdleFields, GoneGood, StatusStored
    <3> QED
      BY <1>2, <2>5, <3>1
  <2>6. CASE q0.ref \in Orders /\ Put(r, SyncOf(q0.ref))
    <3>1. \A p \in Orders : \/ Worth(voucher[q0.id], p) = 0 /\ Worth(Gone, p) = 0
                            \/ SyncOf(q0.ref).pc \in Synchronising /\ SyncOf(q0.ref).ref = p
      BY <2>4, SyncFields DEF Synchronising
    <3>2. StatusBooks(SyncOf(q0.ref))'
      BY <1>3, <2>1, <2>2, <3>1, SyncFields, GoneGood, StatusStored
    <3> QED
      BY <1>2, <2>6, <3>2
  <2> QED
    BY <2>1, <2>5, <2>6
<1>5. CASE ~RemoveVoucher(r)
  <2>1. UNCHANGED <<order, voucher, received, behind>>
    BY <1>5 DEF SavePO, ReadPO, SaveChild, EditPO, ReadPool, SavePool
  <2>2. ASSUME NEW q, Put(r, q), q.pc \notin {"readPayments", "saveOrder", "editOrder"},
               q.id = NoVoucher \/ (q.id = q0.id /\ q.ref = q0.ref)
        PROVE  Sole(q)' /\ StatusBooks(q)'
    BY <1>2, <1>3, <2>1, <2>2, StatusKept
  <2>3. ASSUME NEW p \in DOMAIN req[r].todo, Put(r, After(r, p))
        PROVE  \E q : /\ Put(r, q) /\ q.pc \notin {"readPayments", "saveOrder", "editOrder"}
                      /\ q.id = NoVoucher \/ (q.id = q0.id /\ q.ref = q0.ref)
    <3>1. PICK left : left = Restrict(req[r].todo, DOMAIN req[r].todo \ {p})
      OBVIOUS
    <3>2. PICK q : q = After(r, p)
      OBVIOUS
    <3>3. \/ q.pc = "readPO" /\ q.id = req[r].id /\ q.ref = req[r].ref
          \/ q.pc = "remove" /\ q.id = req[r].id /\ q.ref = req[r].ref
          \/ q = Idle
      BY <3>1, <3>2, AfterPays
    <3> QED
      BY <1>1, <2>3, <3>2, <3>3, IdleFields
  <2>4. \E q : /\ Put(r, q) /\ q.pc \notin {"readPayments", "saveOrder", "editOrder"}
               /\ q.id = NoVoucher \/ (q.id = q0.id /\ q.ref = q0.ref)
    <3>1. PICK p : p = req[r].at
      OBVIOUS
    <3>2. CASE SavePO(r)
      BY <1>1, <2>3, <3>1, <3>2, SavePOTurn
    <3>3. ASSUME NEW c \in PurchaseOrders, SaveChild(r, c)
          PROVE  \E q : /\ Put(r, q) /\ q.pc \notin {"readPayments", "saveOrder", "editOrder"}
                        /\ q.id = NoVoucher \/ (q.id = q0.id /\ q.ref = q0.ref)
      BY <1>1, <2>3, <3>1, <3>3, SaveChildTurn
    <3>4. ASSUME NEW s \in PurchaseOrders, ReadPO(r, s)
          PROVE  \E q : /\ Put(r, q) /\ q.pc \notin {"readPayments", "saveOrder", "editOrder"}
                        /\ q.id = NoVoucher \/ (q.id = q0.id /\ q.ref = q0.ref)
      BY <1>1, <3>4, ReadPOTurn
    <3>5. CASE EditPO(r)
      BY <3>1, <3>5, EditPOTurn, IdleFields
    <3>6. CASE ReadPool(r)
      BY <1>1, <3>6, PoolTurn
    <3>7. CASE SavePool(r)
      BY <3>1, <3>7, SavePoolTurn, IdleFields
    <3> QED
      BY <1>5, <3>2, <3>3, <3>4, <3>5, <3>6, <3>7
  <2> QED
    BY <2>2, <2>4
<1> QED
  BY <1>4, <1>5

LEMMA StatusOutside ==
    ASSUME PayInv, CoverTyped, NEW q0, Sole(q0), StatusBooks(q0), ~crowded',
           CreateTransaction \/ \E v \in Vouchers : ApproveTransaction(v)
    PROVE  StatusBooks(q0)'
<1>1. q0 = Idle
  <2>1. \E name : Accept(name)
    BY DEF CreateTransaction, ApproveTransaction
  <2> QED
    BY <2>1, SoleFree
<1>2. \A o \in Orders \ behind : Right(o)
  BY <1>1, IdleFields DEF StatusBooks, Synchronising
<1>3. order' = order
  BY DEF CreateTransaction, ApproveTransaction
<1>4. \E tr : \E v \in Vouchers, o \in Orders :
          /\ Store(v, tr) /\ GoodVoucher(tr) /\ behind' = behind \cup {o}
          /\ \A p \in Orders : p # o => Worth(voucher[v], p) = 0 /\ Worth(tr, p) = 0
  <2>1. CASE CreateTransaction
    BY <2>1, CreateTransactionTurn, UnusedKind, WorthElsewhere
  <2>2. ASSUME NEW v \in Vouchers, ApproveTransaction(v)
        PROVE  \E tr : \E o \in Orders :
                  /\ Store(v, tr) /\ GoodVoucher(tr) /\ behind' = behind \cup {o}
                  /\ \A p \in Orders : p # o => Worth(voucher[v], p) = 0 /\ Worth(tr, p) = 0
    BY <2>2, ApproveTransactionTurn, WorthElsewhere DEF Changed
  <2> QED
    BY <2>1, <2>2
<1>5. PICK tr : \E v \in Vouchers, o \in Orders :
          /\ Store(v, tr) /\ GoodVoucher(tr) /\ behind' = behind \cup {o}
          /\ \A p \in Orders : p # o => Worth(voucher[v], p) = 0 /\ Worth(tr, p) = 0
  BY <1>4
<1> QED
  BY <1>1, <1>2, <1>3, <1>5, IdleFields, StatusStored

LEMMA StatusStep == PayInv /\ CoverTyped /\ StatusInv /\ [Next]_vars => StatusInv'
<1> SUFFICES ASSUME PayInv, CoverTyped, StatusInv, [Next]_vars, ~crowded'
             PROVE  \E q : Sole(q)' /\ StatusBooks(q)'
  BY DEF StatusInv
<1>1. ~crowded
  BY StepMarks
<1>2. PICK q0 : Sole(q0) /\ StatusBooks(q0)
  BY <1>1 DEF StatusInv
<1>3. CASE CreateTransaction \/ \E v \in Vouchers : ApproveTransaction(v)
  <2>1. req' = req
    BY <1>3 DEF CreateTransaction, ApproveTransaction
  <2> QED
    BY <1>2, <1>3, <2>1, StatusOutside, SoleSame
<1>4. ASSUME NEW r \in Requests,
             \/ CreatePayment(r) \/ UpdateTransaction(r)
             \/ ReadOrder(r) \/ ReadPayments(r) \/ SaveOrder(r)
             \/ PayPOs(r) \/ SavePO(r)
             \/ \E p \in PurchaseOrders : ReadPO(r, p) \/ SaveChild(r, p)
             \/ \E v \in Vouchers : BeginDelete(r, v)
             \/ RemoveVoucher(r)
             \/ BeginEditOrder(r) \/ EditOrder(r)
             \/ BeginEditPO(r) \/ EditPO(r) \/ ReadPool(r) \/ SavePool(r)
             \/ Fail(r)
      PROVE  \E q : Sole(q)' /\ StatusBooks(q)'
  BY <1>2, <1>4, StatusBegins, StatusSynchronises, StatusElsewhere
<1>5. CASE UNCHANGED vars
  <2>1. UNCHANGED <<order, voucher, received, req, behind>>
    BY <1>5 DEF vars
  <2>2. StatusBooks(q0)'
    BY <1>2, <2>1 DEF StatusBooks, Right
  <2> QED
    BY <1>2, <2>1, <2>2, SoleSame
<1> QED
  BY <1>3, <1>4, <1>5 DEF Next

LEMMA StatusInit == Init => StatusInv
<1> SUFFICES ASSUME Init PROVE Sole(Idle) /\ StatusBooks(Idle)
  BY DEF StatusInv
<1>1. Sole(Idle)
  BY DEF Init, Sole
<1>2. \A o \in Orders : order[o].status = "UNPAID" /\ order[o].total \in Nat /\ received[o] = 0
  BY PayConstants DEF Init
<1>3. \A o \in Orders : Right(o)
  BY <1>2 DEF Right, StatusFor
<1> QED
  BY <1>1, <1>3, IdleFields DEF StatusBooks

\* With requests that do not overlap, but may be cut short anywhere, an order
\* that is not left behind has the payment status that its rows give.
THEOREM StatusFollows == Spec => []StatusFollowsPayments
<1>1. CoverInv => CoverTyped
  BY DEF CoverInv
<1>2. PayInv /\ StatusInv => StatusFollowsPayments
  <2> SUFFICES ASSUME PayInv, StatusInv, ~crowded, InFlight = {}, NEW o \in Orders \ behind
               PROVE  order[o].status = StatusFor(order[o].total, IncomeOf(o))
    BY DEF StatusFollowsPayments, Serial, Quiet
  <2>1. PICK q : Sole(q) /\ StatusBooks(q)
    BY DEF StatusInv
  <2>2. q.pc = "idle"
    BY <2>1, IdleFields DEF Sole, InFlight
  <2>3. Right(o)
    BY <2>1, <2>2 DEF StatusBooks, Synchronising
  <2>4. received[o] = IncomeOf(o)
    BY DEF PayInv, Sums, IncomeOf
  <2> QED
    BY <2>3, <2>4 DEF Right
<1> QED
  BY CoverInit, CoverStep, PayInit, PayStep, StatusInit, StatusStep, <1>1, <1>2, PTL DEF Spec

--------------------------------------------------------------------------------
(* The paid amounts, with requests that do not overlap *)

\* What a transaction allocates to purchase order p.
Given(tr, p) == IF p \in DOMAIN tr.allocs THEN tr.allocs[p] ELSE 0
AllGiven(vs, p) == SumFunctionOnSet([v \in Vouchers |-> Given(vs[v], p)], Vouchers)

\* The steps of updatePayment and updatePaymentById.
Paying == {"readPO", "savePO", "saveChild"}

\* What request q will still add to p, and what it will take from the rows.
Due(q, p) ==
    IF q.pc \in Paying /\ p \in DOMAIN q.todo /\ ~(q.pc = "saveChild" /\ q.at = p)
    THEN q.todo[p] ELSE 0
Leaving(q, p) == IF q.id # NoVoucher THEN Given(voucher[q.id], p) ELSE 0

\* What the rows promise purchase order p beyond what it has and will get.
Gap(q, p) == AllGiven(voucher, p) - Leaving(q, p) - (po[p].paid + Due(q, p))

PaidRequest(q) ==
    /\ q.pc \in {"savePO", "editPO", "savePool"} => q.seen.po = po
    /\ q.id # NoVoucher => q.pc \in Paying \cup {"remove"}
    /\ q.pc \in Paying /\ q.id # NoVoucher =>
          \A p \in DOMAIN q.todo : q.todo[p] = -Given(voucher[q.id], p)
    /\ q.pc \in Paying /\ q.id = NoVoucher => \A p \in DOMAIN q.todo : q.todo[p] >= 0

Balanced(q) ==
    \A p \in Alone : Gap(q, p) >= 0 /\ (faults = 0 => Gap(q, p) = 0)

PaidBooks(q) == PaidRequest(q) /\ Balanced(q)
PaidInv ==
    /\ faults \in Nat
    /\ ~crowded => \E q : Sole(q) /\ PaidBooks(q)

LEMMA GivenNat ==
    ASSUME NEW tr, AllocsOK(tr), NEW p
    PROVE  Given(tr, p) \in Nat
  BY DEF Given, AllocsOK

LEMMA GivenChange ==
    ASSUME NEW vs, NEW v \in Vouchers, NEW tr, NEW p,
           \A w \in Vouchers : AllocsOK(vs[w]), AllocsOK(tr), vs = [w \in Vouchers |-> vs[w]]
    PROVE  /\ AllGiven(vs, p) \in Nat
           /\ AllGiven([vs EXCEPT ![v] = tr], p) \in Nat
           /\ AllGiven([vs EXCEPT ![v] = tr], p) = AllGiven(vs, p) - Given(vs[v], p) + Given(tr, p)
<1> DEFINE ws == [vs EXCEPT ![v] = tr]
           f == [w \in Vouchers |-> Given(vs[w], p)]
           g == [w \in Vouchers |-> Given(ws[w], p)]
<1>1. \A w \in Vouchers : ws[w] = IF w = v THEN tr ELSE vs[w]
  OBVIOUS
<1>2. \A w \in Vouchers : Given(vs[w], p) \in Nat
  BY GivenNat
<1>3. Given(tr, p) \in Nat
  BY GivenNat
<1>4. \A w \in Vouchers : f[w] \in Nat /\ g[w] \in Nat
  BY <1>1, <1>2, <1>3
<1>5. g[v] = Given(tr, p) /\ f[v] = Given(vs[v], p)
  BY <1>1
<1>6. \A w \in Vouchers \ {v} : g[w] = f[w]
  BY <1>1
<1>7. IsFiniteSet(Vouchers)
  BY PayConstants
<1> HIDE DEF ws, f, g
<1>8. /\ SumFunctionOnSet(f, Vouchers) \in Nat /\ SumFunctionOnSet(g, Vouchers) \in Nat
  BY <1>4, <1>7, SumNat
<1>9. SumFunctionOnSet(g, Vouchers) = SumFunctionOnSet(f, Vouchers) + g[v] - f[v]
  <2>1. \A w \in Vouchers : f[w] \in Int /\ g[w] \in Int
    BY <1>4
  <2> QED
    BY <1>6, <1>7, <2>1, SumChange
<1>10. SumFunctionOnSet(g, Vouchers) = SumFunctionOnSet(f, Vouchers) - f[v] + g[v]
  BY <1>4, <1>8, <1>9
<1> QED
  BY <1>5, <1>8, <1>10 DEF AllGiven, ws, f, g

\* A transaction never allocates more than all of them.
LEMMA GivenWithin ==
    ASSUME PayInv, CoverTyped, NEW v \in Vouchers, NEW p
    PROVE  /\ AllGiven(voucher, p) \in Nat /\ Given(voucher[v], p) \in Nat
           /\ AllGiven(voucher, p) - Given(voucher[v], p) >= 0
<1>1. \A w \in Vouchers : AllocsOK(voucher[w])
  BY DEF PayInv
<1>2. voucher = [w \in Vouchers |-> voucher[w]]
  BY DEF CoverTyped
<1>3. AllocsOK(Gone) /\ Given(Gone, p) = 0
  BY GoneGood DEF Given
<1>4. /\ AllGiven(voucher, p) \in Nat
      /\ AllGiven([voucher EXCEPT ![v] = Gone], p) \in Nat
      /\ AllGiven([voucher EXCEPT ![v] = Gone], p)
           = AllGiven(voucher, p) - Given(voucher[v], p) + Given(Gone, p)
  BY <1>1, <1>2, <1>3, GivenChange
<1>5. Given(voucher[v], p) \in Nat
  BY <1>1, GivenNat
<1> QED
  BY <1>3, <1>4, <1>5

LEMMA GivenStored ==
    ASSUME PayInv, CoverTyped, NEW v \in Vouchers, NEW tr, AllocsOK(tr), Store(v, tr), NEW p
    PROVE  /\ AllGiven(voucher', p) \in Nat
           /\ AllGiven(voucher', p) = AllGiven(voucher, p) - Given(voucher[v], p) + Given(tr, p)
<1>1. \A w \in Vouchers : AllocsOK(voucher[w])
  BY DEF PayInv
<1>2. voucher = [w \in Vouchers |-> voucher[w]]
  BY DEF CoverTyped
<1>3. voucher' = [voucher EXCEPT ![v] = tr]
  BY DEF Store
<1> QED
  BY <1>1, <1>2, <1>3, GivenChange

LEMMA DueInt ==
    ASSUME NEW q, PayRequest(q), NEW p
    PROVE  Due(q, p) \in Int
  BY RequestFields DEF Due

LEMMA PaidNat ==
    ASSUME PayInv, NEW p \in Alone
    PROVE  po[p].paid \in Nat
  BY DEF PayInv, Alone, PORow

LEMMA NothingDue ==
    ASSUME NEW q, q.pc \notin Paying, NEW p
    PROVE  Due(q, p) = 0
  BY DEF Due

LEMMA IdleDue ==
    ASSUME NEW p
    PROVE  Due(Idle, p) = 0 /\ Leaving(Idle, p) = 0 /\ PaidRequest(Idle)
  BY IdleFields DEF Due, Leaving, PaidRequest, Paying

LEMMA SyncDue ==
    ASSUME NEW o, NEW p
    PROVE  Due(SyncOf(o), p) = 0
  BY SyncFields DEF Due, Paying

\* Nothing that the balance depends on changes.
LEMMA GapSame ==
    ASSUME NEW q0, NEW q, Balanced(q0), voucher' = voucher, faults' = faults, q.id = q0.id,
           \A p \in Alone : po'[p].paid = po[p].paid /\ Due(q, p) = Due(q0, p)
    PROVE  Balanced(q)'
<1>1. \A p \in Alone : Gap(q, p)' = Gap(q0, p)
  BY DEF Gap, Leaving
<1> QED
  BY <1>1 DEF Balanced

\* A transaction is stored that allocates what it allocated before.
LEMMA GapStored ==
    ASSUME PayInv, CoverTyped, NEW q0, NEW q, Balanced(q0), faults' = faults, po' = po,
           NEW v \in Vouchers, NEW tr, AllocsOK(tr), Store(v, tr),
           \A p : Given(tr, p) = Given(voucher[v], p),
           q0.id = NoVoucher, q.id = NoVoucher,
           \A p \in Alone : Due(q, p) = Due(q0, p)
    PROVE  Balanced(q)'
<1>1. ASSUME NEW p \in Alone
      PROVE  Gap(q, p)' = Gap(q0, p)
  <2>1. AllGiven(voucher', p) = AllGiven(voucher, p) - Given(voucher[v], p) + Given(voucher[v], p)
    BY GivenStored
  <2>2. AllGiven(voucher, p) \in Nat /\ Given(voucher[v], p) \in Nat
    BY GivenWithin
  <2>3. AllGiven(voucher', p) = AllGiven(voucher, p)
    BY <2>1, <2>2
  <2> QED
    BY <1>1, <2>3 DEF Gap, Leaving
<1> QED
  BY <1>1 DEF Balanced

LEMMA PaidBegins ==
    ASSUME PayInv, CoverTyped, NEW q0, Sole(q0), PaidBooks(q0), ~crowded',
           NEW r \in Requests,
           \/ CreatePayment(r) \/ UpdateTransaction(r) \/ PayPOs(r)
           \/ BeginEditOrder(r) \/ BeginEditPO(r) \/ \E v \in Vouchers : BeginDelete(r, v)
    PROVE  \E q : Sole(q)' /\ PaidBooks(q)'
<1>1. q0 = Idle /\ \A s \in Requests : req[s] = Idle
  <2>1. \E name : Accept(name)
    BY DEF CreatePayment, UpdateTransaction, PayPOs, BeginEditOrder, BeginEditPO, BeginDelete
  <2> QED
    BY <2>1, SoleFree
<1>2. /\ q0.id = NoVoucher /\ Balanced(q0) /\ po' = po /\ faults' = faults
      /\ \A p : Due(q0, p) = 0 /\ Leaving(q0, p) = 0
  BY <1>1, IdleFields, IdleDue
     DEF PaidBooks, CreatePayment, UpdateTransaction, PayPOs, BeginEditOrder, BeginEditPO, BeginDelete
<1>3. \A q : Put(r, q) => Sole(q)'
  BY <1>1, SoleThen
<1>4. \A q : q.pc \notin Paying \cup {"savePO", "editPO", "savePool"} /\ q.id = NoVoucher
                => PaidRequest(q)'
  BY DEF PaidRequest
<1>5. CASE CreatePayment(r)
  <2>1. PICK tr : \E v \in Vouchers, o \in Orders :
                /\ Put(r, SyncOf(o)) /\ Store(v, tr)
                /\ voucher[v] = Unused /\ AllocsOK(tr) /\ DOMAIN tr.allocs = {}
    BY <1>5, CreatePaymentTurn
  <2>2. PICK v \in Vouchers, o \in Orders :
                /\ Put(r, SyncOf(o)) /\ Store(v, tr)
                /\ voucher[v] = Unused /\ AllocsOK(tr) /\ DOMAIN tr.allocs = {}
    BY <2>1
  <2>3. \A p : Given(tr, p) = Given(voucher[v], p)
    BY <2>2, UnusedKind DEF Given
  <2>4. Balanced(SyncOf(o))'
    BY <1>2, <2>2, <2>3, SyncFields, SyncDue, GapStored
  <2>5. PaidRequest(SyncOf(o))'
    BY <1>4, SyncFields DEF Paying
  <2> QED
    BY <1>3, <2>2, <2>4, <2>5 DEF PaidBooks
<1>6. CASE UpdateTransaction(r)
  <2>1. PICK tr : \E v \in Vouchers :
                /\ Store(v, tr) /\ Changed(voucher[v], tr) /\ tr.ref \in Orders
                /\ Put(r, SyncOf(tr.ref)) \/ req' = req
    BY <1>6, UpdateTransactionTurn
  <2>2. PICK v \in Vouchers :
                /\ Store(v, tr) /\ Changed(voucher[v], tr) /\ tr.ref \in Orders
                /\ Put(r, SyncOf(tr.ref)) \/ req' = req
    BY <2>1
  <2>3. AllocsOK(tr) /\ \A p : Given(tr, p) = Given(voucher[v], p)
    BY <2>2 DEF Changed, Given
  <2>4. CASE Put(r, SyncOf(tr.ref))
    <3>1. Balanced(SyncOf(tr.ref))'
      BY <1>2, <2>2, <2>3, SyncFields, SyncDue, GapStored
    <3>2. PaidRequest(SyncOf(tr.ref))'
      BY <1>4, SyncFields DEF Paying
    <3> QED
      BY <1>3, <2>4, <3>1, <3>2 DEF PaidBooks
  <2>5. CASE req' = req
    <3>1. Balanced(q0)'
      BY <1>2, <2>2, <2>3, GapStored
    <3>2. PaidRequest(q0)'
      BY <1>1, <1>4, IdleFields DEF Paying
    <3> QED
      BY <2>5, <3>1, <3>2, SoleSame DEF PaidBooks
  <2> QED
    BY <2>2, <2>4, <2>5
<1>7. CASE PayPOs(r)
  <2>1. PICK q, tr : \E v \in Vouchers :
                /\ Put(r, q) /\ Store(v, tr)
                /\ voucher[v] = Unused /\ AllocsOK(tr) /\ tr.allocs = q.todo
                /\ q.pc = "readPO" /\ q.id = NoVoucher
    BY <1>7, PayPOsTurn
  <2>2. PICK v \in Vouchers :
                /\ Put(r, q) /\ Store(v, tr)
                /\ voucher[v] = Unused /\ AllocsOK(tr) /\ tr.allocs = q.todo
                /\ q.pc = "readPO" /\ q.id = NoVoucher
    BY <2>1
  <2>3. PaidRequest(q)'
    <3>1. \A p \in DOMAIN q.todo : q.todo[p] >= 0
      BY <2>2 DEF AllocsOK
    <3> QED
      BY <2>2, <3>1 DEF PaidRequest
  <2>4. ASSUME NEW p \in Alone
        PROVE  Gap(q, p)' = Gap(q0, p)
    <3>1. Given(voucher[v], p) = 0 /\ Due(q, p) = Given(tr, p) /\ Given(tr, p) \in Nat
      BY <2>2, UnusedKind, GivenNat DEF Given, Due, Paying
    <3>2. /\ AllGiven(voucher', p) = AllGiven(voucher, p) - Given(voucher[v], p) + Given(tr, p)
          /\ AllGiven(voucher, p) \in Nat /\ po[p].paid \in Nat
      BY <2>2, GivenStored, GivenWithin, PaidNat
    <3>3. Gap(q0, p) = AllGiven(voucher, p) - 0 - (po[p].paid + 0)
      BY <1>2 DEF Gap
    <3>4. Gap(q, p)' = AllGiven(voucher', p) - 0 - (po[p].paid + Due(q, p))
      BY <1>2, <2>2 DEF Gap, Leaving
    <3> QED
      BY <3>1, <3>2, <3>3, <3>4
  <2>5. Balanced(q)'
    BY <1>2, <2>4 DEF Balanced
  <2> QED
    BY <1>3, <2>2, <2>3, <2>5 DEF PaidBooks
<1>8. CASE BeginEditOrder(r)
  <2>1. PICK q : Put(r, q) /\ q.pc = "editOrder" /\ q.id = NoVoucher
    BY <1>8, BeginEditOrderTurn
  <2>2. PaidRequest(q)' /\ voucher' = voucher
    BY <1>4, <1>8, <2>1 DEF Paying, BeginEditOrder
  <2>3. Balanced(q)'
    BY <1>2, <2>1, <2>2, NothingDue, GapSame DEF Paying
  <2> QED
    BY <1>3, <2>1, <2>2, <2>3 DEF PaidBooks
<1>9. CASE BeginEditPO(r)
  <2>1. PICK q : Put(r, q) /\ q.pc = "editPO" /\ q.id = NoVoucher /\ q.seen.po = po
    BY <1>9, BeginEditPOTurn
  <2>2. PaidRequest(q)' /\ voucher' = voucher
    BY <1>2, <1>9, <2>1 DEF PaidRequest, Paying, BeginEditPO
  <2>3. Balanced(q)'
    BY <1>2, <2>1, <2>2, NothingDue, GapSame DEF Paying
  <2> QED
    BY <1>3, <2>1, <2>2, <2>3 DEF PaidBooks
<1>10. ASSUME NEW v \in Vouchers, BeginDelete(r, v)
       PROVE  \E q : Sole(q)' /\ PaidBooks(q)'
  <2>1. PICK q : /\ Put(r, q) /\ q.id = v
                 /\ DOMAIN q.todo = DOMAIN voucher[v].allocs
                 /\ \A p \in DOMAIN q.todo : q.todo[p] = -voucher[v].allocs[p]
                 /\ q.pc = IF DOMAIN q.todo = {} THEN "remove" ELSE "readPO"
    BY <1>10, BeginDeleteTurn
  <2>2. voucher' = voucher /\ v # NoVoucher
    BY <1>10, PayConstants DEF BeginDelete
  <2>3. PaidRequest(q)'
    BY <2>1, <2>2 DEF PaidRequest, Paying, Given
  <2>4. ASSUME NEW p \in Alone
        PROVE  Gap(q, p)' = Gap(q0, p)
    <3>1. Due(q, p) = -Given(voucher[v], p)
      BY <2>1 DEF Due, Paying, Given
    <3>2. AllGiven(voucher, p) \in Nat /\ Given(voucher[v], p) \in Nat /\ po[p].paid \in Nat
      BY GivenWithin, PaidNat
    <3>3. Gap(q0, p) = AllGiven(voucher, p) - 0 - (po[p].paid + 0)
      BY <1>2 DEF Gap
    <3>4. Gap(q, p)' = AllGiven(voucher, p) - Given(voucher[v], p) - (po[p].paid + Due(q, p))
      BY <1>2, <2>1, <2>2 DEF Gap, Leaving
    <3> QED
      BY <3>1, <3>2, <3>3, <3>4
  <2>5. Balanced(q)'
    BY <1>2, <2>4 DEF Balanced
  <2> QED
    BY <1>3, <2>1, <2>3, <2>5 DEF PaidBooks
<1> QED
  BY <1>5, <1>6, <1>7, <1>8, <1>9, <1>10


\* What the request owes once purchase order p is written.
LEMMA AfterDue ==
    ASSUME PayInv, NEW r \in Requests, NEW p \in DOMAIN req[r].todo, req[r].pc \in Paying,
           NEW q0, q0 = req[r], PaidRequest(q0), UNCHANGED voucher, NEW q, q = After(r, p)
    PROVE  /\ PaidRequest(q)' /\ q.id = q0.id
           /\ \A s : Due(q, s) = IF s \in DOMAIN q0.todo \ {p} THEN q0.todo[s] ELSE 0
<1>1. PICK left : left = Restrict(req[r].todo, DOMAIN req[r].todo \ {p})
  OBVIOUS
<1>2. \/ q.pc = "readPO" /\ q.todo = left /\ q.id = q0.id
      \/ q.pc = "remove" /\ q.id = q0.id /\ q.id # NoVoucher /\ DOMAIN left = {}
      \/ q = Idle /\ q0.id = NoVoucher /\ DOMAIN left = {}
  BY <1>1, AfterPays
<1>3. DOMAIN left = DOMAIN q0.todo \ {p} /\ \A s \in DOMAIN left : left[s] = q0.todo[s]
  BY <1>1 DEF Restrict
<1>4. CASE q.pc = "readPO" /\ q.todo = left /\ q.id = q0.id
  <2>1. PaidRequest(q)'
    BY <1>3, <1>4 DEF PaidRequest, Paying
  <2>2. \A s : Due(q, s) = IF s \in DOMAIN q0.todo \ {p} THEN q0.todo[s] ELSE 0
    BY <1>3, <1>4 DEF Due, Paying
  <2> QED
    BY <1>4, <2>1, <2>2
<1>5. CASE q.pc \in {"remove", "idle"} /\ q.id = q0.id /\ DOMAIN left = {}
           /\ (q.pc = "idle" => q.id = NoVoucher)
  <2>1. PaidRequest(q)'
    BY <1>5 DEF PaidRequest, Paying
  <2>2. \A s : Due(q, s) = 0
    BY <1>5, NothingDue DEF Paying
  <2> QED
    BY <1>3, <1>5, <2>1, <2>2
<1> QED
  BY <1>2, <1>4, <1>5, IdleFields

\* The write of a purchase order in no pool: the floor at zero is never met
\* while nothing has failed, and never lifts the amount above the rows.
LEMMA PaidFloor ==
    ASSUME NEW all \in Int, NEW leaving \in Int, NEW paid \in Nat, NEW due \in Int,
           all - leaving >= 0, all - leaving - (paid + due) >= 0
    PROVE  /\ all - leaving - (FromZero(paid + due) + 0) >= 0
           /\ all - leaving - (paid + due) = 0 => all - leaving - (FromZero(paid + due) + 0) = 0
<1>1. CASE paid + due < 0
  BY <1>1 DEF FromZero
<1>2. CASE paid + due >= 0
  BY <1>2 DEF FromZero
<1> QED
  BY <1>1, <1>2

LEMMA LeavingNat ==
    ASSUME PayInv, CoverTyped, NEW r \in Requests, NEW p
    PROVE  /\ Leaving(req[r], p) \in Nat /\ AllGiven(voucher, p) \in Nat
           /\ AllGiven(voucher, p) - Leaving(req[r], p) >= 0
<1>1. req[r].id \in Vouchers \cup {NoVoucher}
  BY DEF CoverTyped, GoodRequest
<1>2. AllGiven(voucher, p) \in Nat
  <2>1. \A w \in Vouchers : Given(voucher[w], p) \in Nat
    BY GivenNat DEF PayInv
  <2> DEFINE f == [w \in Vouchers |-> Given(voucher[w], p)]
  <2>2. \A w \in Vouchers : f[w] \in Nat
    BY <2>1
  <2> HIDE DEF f
  <2>3. SumFunctionOnSet(f, Vouchers) \in Nat
    BY <2>2, PayConstants, SumNat
  <2> QED
    BY <2>3 DEF AllGiven, f
<1>3. CASE req[r].id \in Vouchers
  BY <1>3, GivenWithin, PayConstants DEF Leaving
<1>4. CASE req[r].id = NoVoucher
  BY <1>2, <1>4 DEF Leaving
<1> QED
  BY <1>1, <1>3, <1>4

LEMMA PaidWrites ==
    ASSUME PayInv, CoverTyped, NEW q0, PaidBooks(q0), NEW r \in Requests, q0 = req[r], SavePO(r)
    PROVE  \E q : Put(r, q) /\ PaidBooks(q)'
<1>1. PICK p : p = req[r].at
  OBVIOUS
<1>2. /\ p \in DOMAIN q0.todo /\ p \in PurchaseOrders
      /\ po' = [po EXCEPT ![p] = Paid(q0.seen.po[p], q0.todo[p])]
      /\ \/ Put(r, After(r, p))
         \/ \E q : /\ Put(r, q) /\ q.pc = "saveChild" /\ q.at = p /\ q.id = q0.id
                   /\ q.todo = q0.todo
  BY <1>1, SavePOTurn
<1>3. q0.pc = "savePO" /\ voucher' = voucher /\ faults' = faults
  BY DEF SavePO
<1>4. q0.seen.po = po /\ PaidRequest(q0) /\ Balanced(q0) /\ PayRequest(q0)
  BY <1>3 DEF PaidBooks, PaidRequest, PayInv
<1>5. PICK q : /\ Put(r, q) /\ PaidRequest(q)' /\ q.id = q0.id
               /\ \A s : Due(q, s) = IF s \in DOMAIN q0.todo \ {p} THEN q0.todo[s] ELSE 0
  <2>1. CASE Put(r, After(r, p))
    <3>1. PICK q : q = After(r, p)
      OBVIOUS
    <3>2. req[r].pc \in Paying
      BY <1>3 DEF Paying
    <3>3. /\ PaidRequest(q)' /\ q.id = q0.id
          /\ \A s : Due(q, s) = IF s \in DOMAIN q0.todo \ {p} THEN q0.todo[s] ELSE 0
      BY <1>2, <1>3, <1>4, <3>1, <3>2, AfterDue
    <3> QED
      BY <2>1, <3>1, <3>3
  <2>2. ASSUME NEW q, Put(r, q), q.pc = "saveChild", q.at = p, q.id = q0.id, q.todo = q0.todo
        PROVE  /\ PaidRequest(q)'
               /\ \A s : Due(q, s) = IF s \in DOMAIN q0.todo \ {p} THEN q0.todo[s] ELSE 0
    BY <1>3, <1>4, <2>2 DEF PaidRequest, Due, Paying
  <2> QED
    BY <1>2, <2>1, <2>2
<1>6. ASSUME NEW s \in Alone
      PROVE  Gap(q, s)' >= 0 /\ (faults = 0 => Gap(q, s)' = 0)
  <2>1. /\ s \in PurchaseOrders /\ po \in [PurchaseOrders -> PORow]
        /\ Gap(q0, s) >= 0 /\ (faults = 0 => Gap(q0, s) = 0)
    BY <1>4, <1>6 DEF Alone, Balanced, PayInv
  <2>2. Due(q0, s) = IF s \in DOMAIN q0.todo THEN q0.todo[s] ELSE 0
    BY <1>3 DEF Due, Paying
  <2>3. Gap(q, s)' = AllGiven(voucher, s) - Leaving(q0, s) - (po'[s].paid + Due(q, s))
    BY <1>3, <1>5 DEF Gap, Leaving
  <2>4. CASE s # p
    <3>1. po'[s].paid = po[s].paid /\ Due(q, s) = Due(q0, s)
      BY <1>2, <1>5, <2>1, <2>2, <2>4
    <3>2. Gap(q, s)' = Gap(q0, s)
      BY <2>3, <3>1 DEF Gap
    <3> QED
      BY <2>1, <3>2
  <2>5. CASE s = p
    <3>1. po[s] \in PORow /\ q0.todo[s] \in Int
      BY <1>2, <1>4, <2>1, <2>5, RequestFields
    <3>2. po'[s].paid = FromZero(po[s].paid + q0.todo[s])
      BY <1>2, <1>4, <2>1, <2>5, <3>1, PaidTyped
    <3>3. Due(q0, s) = q0.todo[s] /\ Due(q, s) = 0
      BY <1>2, <1>5, <2>2, <2>5
    <3>4. Gap(q0, s) = AllGiven(voucher, s) - Leaving(q0, s) - (po[s].paid + q0.todo[s])
      BY <3>3 DEF Gap
    <3>5. Gap(q, s)' = AllGiven(voucher, s) - Leaving(q0, s) - (FromZero(po[s].paid + q0.todo[s]) + 0)
      BY <2>3, <3>2, <3>3
    <3>6. /\ Leaving(q0, s) \in Int /\ AllGiven(voucher, s) \in Int
          /\ AllGiven(voucher, s) - Leaving(q0, s) >= 0
      BY LeavingNat
    <3>7. po[s].paid \in Nat
      BY <3>1 DEF PORow
    <3> DEFINE all == AllGiven(voucher, s)
               leaving == Leaving(q0, s)
               due == q0.todo[s]
               paid == po[s].paid
               before == Gap(q0, s)
               after == Gap(q, s)'
    <3>8. /\ all \in Int /\ leaving \in Int /\ paid \in Nat /\ due \in Int /\ all - leaving >= 0
          /\ before = all - leaving - (paid + due)
          /\ after = all - leaving - (FromZero(paid + due) + 0)
          /\ before >= 0 /\ (faults = 0 => before = 0)
      BY <2>1, <3>1, <3>4, <3>5, <3>6, <3>7
    <3>9. after >= 0 /\ (faults = 0 => after = 0)
      <4> HIDE DEF all, leaving, due, paid, before, after
      <4> QED
        BY <3>8, PaidFloor
    <3> QED
      BY <3>9
  <2> QED
    BY <2>4, <2>5
<1>7. Balanced(q)'
  BY <1>3, <1>6 DEF Balanced
<1> QED
  BY <1>5, <1>7 DEF PaidBooks

LEMMA PaidGoes ==
    ASSUME PayInv, CoverTyped, NEW q0, Sole(q0), PaidBooks(q0),
           NEW r \in Requests,
           \/ SavePO(r) \/ (\E p \in PurchaseOrders : ReadPO(r, p) \/ SaveChild(r, p))
           \/ EditPO(r) \/ ReadPool(r) \/ SavePool(r)
    PROVE  \E q : Sole(q)' /\ PaidBooks(q)'
<1>1. /\ q0 = req[r] /\ \A s \in Requests \ {r} : req[s] = Idle
  <2>1. req[r].pc # "idle"
    BY DEF SavePO, ReadPO, SaveChild, EditPO, ReadPool, SavePool
  <2> QED
    BY <2>1, SoleBusy
<1>2. \A q : Put(r, q) => Sole(q)'
  BY <1>1, SoleThen
<1>3. /\ voucher' = voucher /\ faults' = faults /\ PaidRequest(q0) /\ Balanced(q0)
      /\ po \in [PurchaseOrders -> PORow]
  BY DEF SavePO, ReadPO, SaveChild, EditPO, ReadPool, SavePool, PaidBooks, PayInv
<1>4. PICK p : p = req[r].at
  OBVIOUS
<1>5. CASE SavePO(r)
  BY <1>1, <1>2, <1>5, PaidWrites
<1>6. ASSUME NEW s \in PurchaseOrders, ReadPO(r, s)
      PROVE  \E q : Sole(q)' /\ PaidBooks(q)'
  <2>1. PICK q : /\ Put(r, q) /\ q.pc = "savePO" /\ q.id = req[r].id
                 /\ q.todo = req[r].todo /\ q.seen.po = po
    BY <1>6, ReadPOTurn
  <2>2. po' = po /\ req[r].pc = "readPO"
    BY <1>6 DEF ReadPO
  <2>3. PaidRequest(q)'
    BY <1>1, <1>3, <2>1, <2>2 DEF PaidRequest, Paying
  <2>4. \A t : Due(q, t) = Due(q0, t)
    BY <1>1, <2>1, <2>2 DEF Due, Paying
  <2>5. Balanced(q)'
    BY <1>1, <1>3, <2>1, <2>2, <2>4, GapSame
  <2> QED
    BY <1>2, <2>1, <2>3, <2>5 DEF PaidBooks
<1>7. ASSUME NEW c \in PurchaseOrders, SaveChild(r, c)
      PROVE  \E q : Sole(q)' /\ PaidBooks(q)'
  <2>1. /\ p \in DOMAIN req[r].todo /\ p \in PurchaseOrders
        /\ c \in Children(p) /\ c \in PurchaseOrders
        /\ \E n \in Int : po' = [po EXCEPT ![c] = Paid(req[r].seen.po[c], n)]
        /\ \/ Put(r, After(r, p))
           \/ \E q : /\ Put(r, q) /\ q.pc = "saveChild" /\ q.at = p /\ q.id = req[r].id
                     /\ q.todo = req[r].todo
    BY <1>4, <1>7, SaveChildTurn
  <2>2. req[r].pc = "saveChild" /\ q0.at = p
    BY <1>1, <1>4, <1>7 DEF SaveChild
  <2>3. c \notin Alone
    BY <2>1, PayConstants DEF Alone, Children
  <2>4. \A s \in Alone : po'[s].paid = po[s].paid
    BY <1>3, <2>1, <2>3 DEF Alone
  <2>5. \E q : /\ Put(r, q) /\ PaidRequest(q)' /\ q.id = q0.id
               /\ \A s : Due(q, s) = Due(q0, s)
    <3>1. CASE Put(r, After(r, p))
      <4>1. PICK q : q = After(r, p)
        OBVIOUS
      <4>2. req[r].pc \in Paying
        BY <2>2 DEF Paying
      <4>3. /\ PaidRequest(q)' /\ q.id = q0.id
            /\ \A s : Due(q, s) = IF s \in DOMAIN q0.todo \ {p} THEN q0.todo[s] ELSE 0
        BY <1>1, <1>3, <2>1, <4>1, <4>2, AfterDue
      <4>4. \A s : Due(q, s) = Due(q0, s)
        BY <1>1, <2>2, <4>3 DEF Due, Paying
      <4> QED
        BY <3>1, <4>1, <4>3, <4>4
    <3>2. ASSUME NEW q, Put(r, q), q.pc = "saveChild", q.at = p, q.id = req[r].id,
                 q.todo = req[r].todo
          PROVE  PaidRequest(q)' /\ q.id = q0.id /\ \A s : Due(q, s) = Due(q0, s)
      BY <1>1, <1>3, <2>2, <3>2 DEF PaidRequest, Due, Paying
    <3> QED
      BY <2>1, <3>1, <3>2
  <2>6. PICK q : /\ Put(r, q) /\ PaidRequest(q)' /\ q.id = q0.id
                 /\ \A s : Due(q, s) = Due(q0, s)
    BY <2>5
  <2>7. Balanced(q)'
    BY <1>3, <2>4, <2>6, GapSame
  <2> QED
    BY <1>2, <2>6, <2>7 DEF PaidBooks
<1>8. CASE EditPO(r) \/ ReadPool(r) \/ SavePool(r)
  <2>1. q0.pc \in {"editPO", "readPool", "savePool"}
    BY <1>1, <1>8 DEF EditPO, ReadPool, SavePool
  <2>2. /\ q0.id = NoVoucher
        /\ q0.pc \in {"editPO", "savePool"} => q0.seen.po = po
    BY <1>3, <2>1 DEF PaidRequest, Paying
  <2>3. \A s \in Alone : po'[s].paid = po[s].paid
    <3>1. CASE ReadPool(r)
      BY <3>1 DEF ReadPool
    <3>2. CASE EditPO(r) \/ SavePool(r)
      <4>1. q0.seen.po = po
        BY <1>1, <2>2, <3>2 DEF EditPO, SavePool
      <4>2. \E row : po' = [po EXCEPT ![p] = row] /\ row.paid = q0.seen.po[p].paid
        BY <1>1, <1>4, <3>2, EditPOTurn, SavePoolTurn
      <4> QED
        BY <1>3, <4>1, <4>2 DEF Alone
    <3> QED
      BY <1>8, <3>1, <3>2
  <2>4. PICK q : /\ Put(r, q) /\ q.id = NoVoucher /\ q.pc \notin Paying
                 /\ q.pc \in {"savePO", "editPO", "savePool"} => q.seen.po = po /\ po' = po
    <3>1. CASE EditPO(r)
      BY <1>4, <3>1, EditPOTurn, IdleFields DEF Paying
    <3>2. CASE ReadPool(r)
      <4>1. po' = po
        BY <3>2 DEF ReadPool
      <4> QED
        BY <1>1, <2>2, <3>2, <4>1, PoolTurn DEF Paying
    <3>3. CASE SavePool(r)
      BY <1>4, <3>3, SavePoolTurn, IdleFields DEF Paying
    <3> QED
      BY <1>8, <3>1, <3>2, <3>3
  <2>5. PaidRequest(q)'
    BY <2>4 DEF PaidRequest, Paying
  <2>6. \A s : Due(q, s) = 0 /\ Due(q0, s) = 0
    BY <2>1, <2>4, NothingDue DEF Paying
  <2>7. Balanced(q)'
    BY <1>3, <2>2, <2>3, <2>4, <2>6, GapSame
  <2> QED
    BY <1>2, <2>4, <2>5, <2>7 DEF PaidBooks
<1> QED
  BY <1>5, <1>6, <1>7, <1>8


LEMMA PaidEnds ==
    ASSUME PayInv, CoverTyped, NEW q0, Sole(q0), PaidBooks(q0), faults \in Nat,
           NEW r \in Requests,
           \/ ReadOrder(r) \/ ReadPayments(r) \/ SaveOrder(r) \/ EditOrder(r)
           \/ RemoveVoucher(r) \/ Fail(r)
    PROVE  \E q : Sole(q)' /\ PaidBooks(q)'
<1>1. /\ q0 = req[r] /\ \A s \in Requests \ {r} : req[s] = Idle
  <2>1. req[r].pc # "idle"
    BY DEF ReadOrder, ReadPayments, SaveOrder, EditOrder, RemoveVoucher, Fail
  <2> QED
    BY <2>1, SoleBusy
<1>2. \A q : Put(r, q) => Sole(q)'
  BY <1>1, SoleThen
<1>3. PaidRequest(q0) /\ Balanced(q0) /\ po' = po /\ PayRequest(q0)
  BY <1>1 DEF PaidBooks, PayInv, ReadOrder, ReadPayments, SaveOrder, EditOrder, RemoveVoucher, Fail
<1>4. \A q : q.pc \notin Paying \cup {"savePO", "editPO", "savePool"} /\ q.id = NoVoucher
                => PaidRequest(q)'
  BY DEF PaidRequest
<1>5. CASE ReadOrder(r) \/ ReadPayments(r) \/ SaveOrder(r) \/ EditOrder(r)
  <2>1. /\ q0.pc \in Synchronising \cup {"editOrder"} /\ voucher' = voucher /\ faults' = faults
    BY <1>1, <1>5 DEF ReadOrder, ReadPayments, SaveOrder, EditOrder, Synchronising
  <2>2. q0.id = NoVoucher
    BY <1>3, <2>1 DEF PaidRequest, Paying, Synchronising
  <2>3. PICK q : Put(r, q) /\ q.id = NoVoucher /\ q.pc \in {"idle", "readPayments", "saveOrder"}
    <3>1. PICK o, status : o = req[r].ref /\ status = StatusFor(req[r].seen.order.total, received[o])
      OBVIOUS
    <3>2. CASE ReadOrder(r)
      BY <1>1, <2>2, <3>2, ReadOrderTurn
    <3>3. CASE ReadPayments(r)
      <4>1. \/ Put(r, Idle) /\ behind' = behind \ {o} /\ req[r].seen.order.status = status
            \/ /\ behind' = behind
               /\ \E q : /\ Put(r, q) /\ PayRequest(q)
                         /\ q.pc = "saveOrder" /\ q.ref = o /\ q.id = req[r].id
                         /\ q.seen.order = [req[r].seen.order EXCEPT !.status = status]
        BY <3>1, <3>3, ReadPaymentsTurn
      <4> QED
        BY <1>1, <2>2, <4>1, IdleFields
    <3>4. CASE SaveOrder(r) \/ EditOrder(r)
      BY <3>1, <3>4, SaveOrderTurn, EditOrderTurn, IdleFields
    <3> QED
      BY <1>5, <3>2, <3>3, <3>4
  <2>4. PaidRequest(q)'
    BY <1>4, <2>3 DEF Paying
  <2>5. \A s : Due(q, s) = 0 /\ Due(q0, s) = 0
    BY <2>1, <2>3, NothingDue DEF Paying, Synchronising
  <2>6. Balanced(q)'
    BY <1>3, <2>1, <2>2, <2>3, <2>5, GapSame
  <2> QED
    BY <1>2, <2>3, <2>4, <2>6 DEF PaidBooks
<1>6. CASE RemoveVoucher(r)
  <2>1. /\ q0.id \in Vouchers /\ Store(q0.id, Gone) /\ q0.pc = "remove" /\ faults' = faults
        /\ Put(r, Idle) \/ Put(r, SyncOf(q0.ref))
    BY <1>1, <1>6, RemoveVoucherTurn DEF RemoveVoucher
  <2>2. PICK q : /\ Put(r, q) /\ q.id = NoVoucher
                 /\ q.pc \notin Paying \cup {"savePO", "editPO", "savePool"}
    BY <2>1, IdleFields, SyncFields DEF Paying
  <2>3. PaidRequest(q)'
    BY <1>4, <2>2
  <2>4. ASSUME NEW s \in Alone
        PROVE  Gap(q, s)' = Gap(q0, s)
    <3>1. /\ AllGiven(voucher', s)
               = AllGiven(voucher, s) - Given(voucher[q0.id], s) + Given(Gone, s)
          /\ AllGiven(voucher, s) \in Nat /\ Given(voucher[q0.id], s) \in Nat
      BY <2>1, GoneGood, GivenStored, GivenWithin
    <3>2. Given(Gone, s) = 0
      BY GoneGood DEF Given
    <3>3. Due(q, s) = 0 /\ Due(q0, s) = 0
      BY <2>1, <2>2, NothingDue DEF Paying
    <3>4. Leaving(q0, s) = Given(voucher[q0.id], s) /\ Leaving(q, s)' = 0
      BY <2>1, <2>2, PayConstants DEF Leaving
    <3>5. po[s].paid \in Nat
      BY PaidNat
    <3>6. Gap(q0, s) = AllGiven(voucher, s) - Given(voucher[q0.id], s) - (po[s].paid + 0)
      BY <3>3, <3>4 DEF Gap
    <3>7. Gap(q, s)' = AllGiven(voucher', s) - 0 - (po[s].paid + 0)
      BY <1>3, <3>3, <3>4 DEF Gap
    <3> QED
      BY <3>1, <3>2, <3>5, <3>6, <3>7
  <2>5. Balanced(q)'
    BY <1>3, <2>1, <2>4 DEF Balanced
  <2> QED
    BY <1>2, <2>2, <2>3, <2>5 DEF PaidBooks
<1>7. CASE Fail(r)
  <2>1. Put(r, Idle) /\ faults' = faults + 1 /\ voucher' = voucher
    BY <1>7, FailTurn DEF Fail
  <2>2. PaidRequest(Idle)'
    BY <1>4, IdleFields DEF Paying
  <2>3. ASSUME NEW s \in Alone
        PROVE  Gap(Idle, s)' >= 0
    <3>1. /\ Leaving(q0, s) \in Nat /\ AllGiven(voucher, s) \in Nat /\ po[s].paid \in Nat
          /\ Due(q0, s) \in Int
      BY <1>1, <1>3, LeavingNat, PaidNat, DueInt
    <3>2. Due(q0, s) >= -Leaving(q0, s)
      <4>1. q0.id \in Vouchers \cup {NoVoucher}
        BY <1>3, RequestFields
      <4>2. CASE q0.id = NoVoucher
        <5>1. Due(q0, s) >= 0 /\ Leaving(q0, s) = 0
          BY <1>3, <4>2 DEF PaidRequest, Due, Leaving
        <5> QED
          BY <5>1
      <4>3. CASE q0.id \in Vouchers
        <5>1. Due(q0, s) = 0 \/ Due(q0, s) = -Leaving(q0, s)
          BY <1>3, <4>3, PayConstants DEF PaidRequest, Due, Leaving
        <5> QED
          BY <3>1, <5>1
      <4> QED
        BY <4>1, <4>2, <4>3
    <3>3. Gap(q0, s) >= 0
      BY <1>3 DEF Balanced
    <3>4. Gap(q0, s) = AllGiven(voucher, s) - Leaving(q0, s) - (po[s].paid + Due(q0, s))
      BY DEF Gap
    <3>5. Gap(Idle, s)' = AllGiven(voucher, s) - 0 - (po[s].paid + 0)
      BY <1>3, <2>1, IdleFields, IdleDue DEF Gap, Leaving
    <3> QED
      BY <3>1, <3>2, <3>3, <3>4, <3>5
  <2>4. Balanced(Idle)'
    BY <2>1, <2>3 DEF Balanced
  <2> QED
    BY <1>2, <2>1, <2>2, <2>4 DEF PaidBooks
<1> QED
  BY <1>5, <1>6, <1>7

LEMMA PaidOutside ==
    ASSUME PayInv, CoverTyped, NEW q0, Sole(q0), PaidBooks(q0), ~crowded',
           CreateTransaction \/ \E v \in Vouchers : ApproveTransaction(v)
    PROVE  PaidBooks(q0)'
<1>1. q0 = Idle
  <2>1. \E name : Accept(name)
    BY DEF CreateTransaction, ApproveTransaction
  <2> QED
    BY <2>1, SoleFree
<1>2. Balanced(q0) /\ po' = po /\ faults' = faults
  BY DEF PaidBooks, CreateTransaction, ApproveTransaction
<1>3. \E tr : \E v \in Vouchers :
          /\ Store(v, tr) /\ AllocsOK(tr) /\ \A p : Given(tr, p) = Given(voucher[v], p)
  <2>1. CASE CreateTransaction
    BY <2>1, CreateTransactionTurn, UnusedKind DEF Given
  <2>2. ASSUME NEW v \in Vouchers, ApproveTransaction(v)
        PROVE  \E tr : /\ Store(v, tr) /\ AllocsOK(tr)
                       /\ \A p : Given(tr, p) = Given(voucher[v], p)
    BY <2>2, ApproveTransactionTurn DEF Changed, Given
  <2> QED
    BY <2>1, <2>2
<1>4. Balanced(q0)'
  BY <1>1, <1>2, <1>3, IdleFields, GapStored
<1>5. PaidRequest(q0)'
  BY <1>1, IdleFields DEF PaidRequest, Paying
<1> QED
  BY <1>4, <1>5 DEF PaidBooks

LEMMA PaidStep == PayInv /\ CoverTyped /\ PaidInv /\ [Next]_vars => PaidInv'
<1> SUFFICES ASSUME PayInv, CoverTyped, PaidInv, [Next]_vars PROVE PaidInv'
  OBVIOUS
<1>1. crowded => crowded'
  BY StepMarks
<1>2. faults \in Nat /\ faults' \in {faults, faults + 1}
  BY StepMarks DEF PaidInv
<1>3. ASSUME ~crowded'
      PROVE  \E q : Sole(q)' /\ PaidBooks(q)'
  <2>1. PICK q0 : Sole(q0) /\ PaidBooks(q0)
    BY <1>1, <1>3 DEF PaidInv
  <2>2. CASE CreateTransaction \/ \E v \in Vouchers : ApproveTransaction(v)
    <3>1. req' = req
      BY <2>2 DEF CreateTransaction, ApproveTransaction
    <3> QED
      BY <1>3, <2>1, <2>2, <3>1, PaidOutside, SoleSame
  <2>3. ASSUME NEW r \in Requests,
               \/ CreatePayment(r) \/ UpdateTransaction(r)
               \/ ReadOrder(r) \/ ReadPayments(r) \/ SaveOrder(r)
               \/ PayPOs(r) \/ SavePO(r)
               \/ \E p \in PurchaseOrders : ReadPO(r, p) \/ SaveChild(r, p)
               \/ \E v \in Vouchers : BeginDelete(r, v)
               \/ RemoveVoucher(r)
               \/ BeginEditOrder(r) \/ EditOrder(r)
               \/ BeginEditPO(r) \/ EditPO(r) \/ ReadPool(r) \/ SavePool(r)
               \/ Fail(r)
        PROVE  \E q : Sole(q)' /\ PaidBooks(q)'
    BY <1>2, <1>3, <2>1, <2>3, PaidBegins, PaidGoes, PaidEnds
  <2>4. CASE UNCHANGED vars
    <3>1. UNCHANGED <<po, voucher, req, faults>>
      BY <2>4 DEF vars
    <3>2. Balanced(q0)'
      BY <2>1, <3>1, GapSame DEF PaidBooks
    <3>3. PaidRequest(q0)'
      BY <2>1, <3>1 DEF PaidBooks, PaidRequest
    <3> QED
      BY <2>1, <3>1, <3>2, <3>3, SoleSame DEF PaidBooks
  <2> QED
    BY <2>2, <2>3, <2>4 DEF Next
<1> QED
  BY <1>2, <1>3 DEF PaidInv

LEMMA PaidInit == Init => PaidInv
<1> SUFFICES ASSUME Init PROVE faults \in Nat /\ Sole(Idle) /\ PaidBooks(Idle)
  BY DEF PaidInv
<1>1. faults \in Nat /\ Sole(Idle)
  BY DEF Init, Sole
<1>2. \A p : Due(Idle, p) = 0 /\ Leaving(Idle, p) = 0 /\ PaidRequest(Idle)
  BY IdleDue
<1>3. ASSUME NEW p \in Alone
      PROVE  Gap(Idle, p) = 0
  <2>1. po[p].paid = 0
    BY DEF Init, Alone
  <2>2. AllGiven(voucher, p) = 0
    <3> DEFINE f == [v \in Vouchers |-> Given(voucher[v], p)]
    <3>1. \A v \in Vouchers : f[v] = 0
      BY UnusedKind DEF Init, Given
    <3> HIDE DEF f
    <3>2. SumFunctionOnSet(f, Vouchers) = 0
      BY <3>1, PayConstants, SumZero
    <3> QED
      BY <3>2 DEF AllGiven, f
  <2>3. Gap(Idle, p) = 0 - 0 - (0 + 0)
    BY <1>2, <2>1, <2>2 DEF Gap
  <2> QED
    BY <2>3
<1> QED
  BY <1>1, <1>2, <1>3 DEF PaidBooks, Balanced

LEMMA PaidIsBalanced ==
    ASSUME PayInv, CoverTyped, PaidInv, ~crowded, NEW p \in Alone
    PROVE  /\ po[p].paid <= Allocated(p)
           /\ faults = 0 /\ InFlight = {} => po[p].paid = Allocated(p)
<1>1. PICK q : Sole(q) /\ PaidBooks(q)
  BY DEF PaidInv
<1>2. PayRequest(q)
  BY <1>1, IdlePays DEF Sole, PayInv
<1>3. /\ AllGiven(voucher, p) \in Nat /\ Leaving(q, p) \in Nat
  <2>1. CASE q = Idle
    <3>1. \A w \in Vouchers : Given(voucher[w], p) \in Nat
      BY GivenNat DEF PayInv
    <3> DEFINE f == [w \in Vouchers |-> Given(voucher[w], p)]
    <3>2. \A w \in Vouchers : f[w] \in Nat
      BY <3>1
    <3> HIDE DEF f
    <3>3. SumFunctionOnSet(f, Vouchers) \in Nat
      BY <3>2, PayConstants, SumNat
    <3>4. AllGiven(voucher, p) \in Nat
      BY <3>3 DEF AllGiven, f
    <3> QED
      BY <2>1, <3>4, IdleDue
  <2>2. ASSUME NEW r \in Requests, q = req[r]
        PROVE  AllGiven(voucher, p) \in Nat /\ Leaving(q, p) \in Nat
    BY <2>2, LeavingNat
  <2> QED
    BY <1>1, <2>1, <2>2 DEF Sole
<1>4. po[p].paid \in Nat /\ Due(q, p) \in Int
  BY <1>2, PaidNat, DueInt
<1>5. Due(q, p) >= -Leaving(q, p)
  <2>1. q.id \in Vouchers \cup {NoVoucher}
    BY <1>2, RequestFields
  <2>2. CASE q.id = NoVoucher
    <3>1. Due(q, p) >= 0 /\ Leaving(q, p) = 0
      BY <1>1, <2>2 DEF PaidBooks, PaidRequest, Due, Leaving
    <3> QED
      BY <3>1
  <2>3. CASE q.id \in Vouchers
    <3>1. Due(q, p) = 0 \/ Due(q, p) = -Leaving(q, p)
      BY <1>1, <2>3, PayConstants DEF PaidBooks, PaidRequest, Due, Leaving
    <3> QED
      BY <1>3, <3>1
  <2> QED
    BY <2>1, <2>2, <2>3
<1>6. /\ Gap(q, p) >= 0 /\ (faults = 0 => Gap(q, p) = 0)
      /\ Gap(q, p) = AllGiven(voucher, p) - Leaving(q, p) - (po[p].paid + Due(q, p))
  BY <1>1 DEF PaidBooks, Balanced, Gap
<1>7. Allocated(p) = AllGiven(voucher, p)
  BY DEF Allocated, AllGiven, Given
<1>8. InFlight = {} => Leaving(q, p) = 0 /\ Due(q, p) = 0
  <2> SUFFICES ASSUME InFlight = {} PROVE q = Idle
    BY IdleDue
  <2>1. \A r \in Requests : req[r] = Idle
    BY DEF InFlight, PayInv, PayRequest
  <2> QED
    BY <1>1, <2>1 DEF Sole
<1> QED
  BY <1>3, <1>4, <1>5, <1>6, <1>7, <1>8

\* Requests that neither overlap nor fail leave on every purchase order in no
\* pool the amount that the existing transactions allocate to it: payments,
\* their deletion and the whole-row saves of updatePO agree.
THEOREM PaidFollows == Spec => []PaidFollowsVouchers
<1>1. CoverInv => CoverTyped
  BY DEF CoverInv
<1>2. PayInv /\ CoverTyped /\ PaidInv => PaidFollowsVouchers
  BY PaidIsBalanced DEF PaidFollowsVouchers, Serial, Quiet
<1> QED
  BY CoverInit, CoverStep, PayInit, PayStep, PaidInit, PaidStep, <1>1, <1>2, PTL DEF Spec

\* Requests cut short anywhere, and made again, never show more paid to a
\* supplier than the transactions account for, in flight or not.
THEOREM PaidNotOverstated == Spec => []NeverOverstated
<1>1. CoverInv => CoverTyped
  BY DEF CoverInv
<1>2. PayInv /\ CoverTyped /\ PaidInv => NeverOverstated
  BY PaidIsBalanced DEF NeverOverstated, Serial
<1> QED
  BY CoverInit, CoverStep, PayInit, PayStep, PaidInit, PaidStep, <1>1, <1>2, PTL DEF Spec

--------------------------------------------------------------------------------
(* The shares of a pooled order *)

LEMMA RoundedNear ==
    ASSUME NEW a \in Int, NEW b \in Int, b > 0
    PROVE  /\ Rounded(a, b) \in Int
           /\ -b <= 2 * b * Rounded(a, b) - 2 * a /\ 2 * b * Rounded(a, b) - 2 * a <= b
<1> DEFINE n == 2 * a + b
           d == 2 * b
           q == n \div d
<1>1. n \in Int /\ d \in Int /\ d > 0
  OBVIOUS
<1>2. q \in Int /\ d * q <= n /\ n < d * q + d
  <2> HIDE DEF n, d
  <2> QED
    BY <1>1
<1>3. Rounded(a, b) = q
  BY DEF Rounded
<1> HIDE DEF q
<1>4. d * q = 2 * b * q
  BY <1>2
<1> QED
  BY <1>2, <1>3, <1>4

\* Whole numbers within half of a positive multiple.
LEMMA Divided ==
    ASSUME NEW t \in Int, t > 0, NEW x \in Int, NEW n \in Int,
           -(n * t) <= 2 * t * x, 2 * t * x <= n * t
    PROVE  -n <= 2 * x /\ 2 * x <= n
<1>1. ASSUME NEW y \in Int, y * t <= 0
      PROVE  y <= 0
  <2>1. CASE y >= 1
    <3>1. (y - 1) * t >= 0
      BY <2>1
    <3>2. y * t = (y - 1) * t + t
      OBVIOUS
    <3> QED
      BY <1>1, <3>1, <3>2
  <2> QED
    BY <2>1
<1>2. (2 * x - n) * t = 2 * t * x - n * t
  OBVIOUS
<1>3. (-n - 2 * x) * t = -(n * t) - 2 * t * x
  OBVIOUS
<1>4. 2 * x - n <= 0
  BY <1>1, <1>2
<1>5. -n - 2 * x <= 0
  BY <1>1, <1>3
<1> QED
  BY <1>4, <1>5


\* The shares of the children differ from the amount by half a unit for each.
LEMMA SharesNear ==
    ASSUME NEW rows \in [PurchaseOrders -> PORow], NEW p \in PurchaseOrders, Children(p) # {},
           NEW amount \in Int, rows[p].total = PooledTotal(rows, p)
    PROVE  LET shares == SumFunctionOnSet([c \in PurchaseOrders |-> Share(rows, p, c, amount)],
                                          Children(p))
           IN  2 * Magnitude(shares - amount) <= Cardinality(Children(p))
<1> DEFINE f == [c \in PurchaseOrders |-> Share(rows, p, c, amount)]
           g == [c \in PurchaseOrders |-> rows[c].total]
           S == Children(p)
           n == Cardinality(S)
           t == rows[p].total
           sum == SumFunctionOnSet(f, S)
<1>1. IsFiniteSet(S) /\ n \in Nat /\ n > 0 /\ S \subseteq PurchaseOrders
  BY FiniteChildren
<1>2. t \in Nat /\ t = SumFunctionOnSet(g, S)
  <2>1. t \in Nat
    BY DEF PORow
  <2> QED
    BY <2>1 DEF PooledTotal
<1>3. \A c \in S : f[c] \in Int /\ g[c] \in Nat /\ g[c] \in Int
  <2>1. \A c \in S : Share(rows, p, c, amount) \in Int
    BY ShareInt
  <2>2. \A c \in S : rows[c].total \in Nat
    BY <1>1 DEF PORow
  <2>3. \A c \in S : f[c] = Share(rows, p, c, amount) /\ g[c] = rows[c].total
    BY <1>1
  <2> HIDE DEF f, g, S
  <2> QED
    BY <2>1, <2>2, <2>3
<1>4. sum \in Int
  <2> HIDE DEF f, S
  <2> QED
    BY <1>1, <1>3, SumInt
<1>5. -n <= 2 * (sum - amount) /\ 2 * (sum - amount) <= n
  <2>1. CASE t > 0
    <3>1. \A c \in S : f[c] = Rounded(amount * g[c], t)
      BY <1>1, <2>1 DEF Share
    <3> DEFINE k == 2 * t
               m == 2 * amount
    <3>2. \A c \in S : -t <= k * f[c] - m * g[c] /\ k * f[c] - m * g[c] <= t
      <4> HIDE DEF f, g, S, t
      <4> SUFFICES ASSUME NEW c \in S
                   PROVE  -t <= k * f[c] - m * g[c] /\ k * f[c] - m * g[c] <= t
        OBVIOUS
      <4>1. amount * g[c] \in Int /\ t \in Int /\ t > 0
        BY <1>2, <1>3, <2>1
      <4>2. /\ -t <= 2 * t * f[c] - 2 * (amount * g[c])
            /\ 2 * t * f[c] - 2 * (amount * g[c]) <= t
        BY <3>1, <4>1, RoundedNear
      <4>3. 2 * (amount * g[c]) = m * g[c]
        BY <1>3
      <4> QED
        BY <4>2, <4>3
    <3>3. n * (-t) <= k * sum - m * t /\ k * sum - m * t <= n * t
      <4>1. k \in Int /\ m \in Int /\ t \in Int /\ -t \in Int
        BY <1>2
      <4> HIDE DEF f, g, S, t, k, m, n
      <4>2. Cardinality(S) * (-t) <= k * SumFunctionOnSet(f, S) - m * SumFunctionOnSet(g, S)
        BY <1>1, <1>3, <3>2, <4>1, SumWeighted
      <4>3. k * SumFunctionOnSet(f, S) - m * SumFunctionOnSet(g, S) <= Cardinality(S) * t
        BY <1>1, <1>3, <3>2, <4>1, SumWeighted
      <4> QED
        BY <1>2, <4>2, <4>3 DEF n
    <3>4. -(n * t) <= 2 * t * (sum - amount) /\ 2 * t * (sum - amount) <= n * t
      <4>1. k * sum - m * t = 2 * t * (sum - amount)
        <5> HIDE DEF sum, t
        <5> QED
          BY <1>2, <1>4
      <4>2. n * (-t) = -(n * t)
        <5> HIDE DEF n, t
        <5> QED
          BY <1>1, <1>2
      <4> HIDE DEF k, m, sum, t, n
      <4> QED
        BY <3>3, <4>1, <4>2
    <3> HIDE DEF sum, t, n
    <3>5. t \in Int /\ n \in Int /\ sum - amount \in Int
      BY <1>1, <1>2, <1>4
    <3> QED
      BY <2>1, <3>4, <3>5, Divided
  <2>2. CASE ~(t > 0)
    <3> DEFINE share == Rounded(amount, n)
    <3>1. \A c \in S : f[c] = share
      BY <1>1, <2>2 DEF Share
    <3>2. /\ share \in Int
          /\ -n <= 2 * n * share - 2 * amount /\ 2 * n * share - 2 * amount <= n
      <4> HIDE DEF n
      <4> QED
        BY <1>1, RoundedNear
    <3>3. sum = n * share
      <4> DEFINE one == 1
                 none == 0
      <4>1. one \in Int /\ none \in Int
        OBVIOUS
      <4>2. \A c \in S : share <= one * f[c] - none * f[c] /\ one * f[c] - none * f[c] <= share
        <5> HIDE DEF f, S, share
        <5> QED
          BY <3>1, <3>2
      <4> HIDE DEF f, S, n, share, one, none
      <4>3. Cardinality(S) * share <= one * SumFunctionOnSet(f, S) - none * SumFunctionOnSet(f, S)
        BY <1>1, <1>3, <3>2, <4>1, <4>2, SumWeighted
      <4>4. one * SumFunctionOnSet(f, S) - none * SumFunctionOnSet(f, S) <= Cardinality(S) * share
        BY <1>1, <1>3, <3>2, <4>1, <4>2, SumWeighted
      <4>5. one * SumFunctionOnSet(f, S) - none * SumFunctionOnSet(f, S) = SumFunctionOnSet(f, S)
        BY <1>4 DEF one, none
      <4>6. n * share \in Int /\ n * share = Cardinality(S) * share
        BY <1>1, <3>2 DEF n
      <4> QED
        BY <1>4, <4>3, <4>4, <4>5, <4>6
    <3>4. 2 * n * share = 2 * (n * share)
      <4> HIDE DEF n, share
      <4> QED
        BY <1>1, <3>2
    <3> HIDE DEF n, share, sum
    <3> QED
      BY <1>1, <1>4, <3>2, <3>3, <3>4
  <2> QED
    BY <2>1, <2>2
<1>6. 2 * Magnitude(sum - amount) <= n
  <2> HIDE DEF sum, n
  <2> QED
    BY <1>1, <1>4, <1>5 DEF Magnitude
<1> QED
  BY <1>6


\* What request q has read of the purchase orders still holds of their totals.
PoolRequest(q) ==
    /\ q.pc \in {"savePO", "editPO", "savePool"} => q.seen.po = po
    /\ q.pc = "saveChild" => \A p \in PurchaseOrders : q.seen.po[p].total = po[p].total
    /\ q.pc = "editPO" => q.at \notin Pooled
    /\ q.pc \in {"readPool", "savePool"} => q.at \in Pooled

\* A pooled order has the total of its children, but for the one q will save.
PoolsFit(q) ==
    \A p \in Pooled : \/ q.pc \in {"readPool", "savePool"} /\ q.at = p
                      \/ po[p].total = PooledTotal(po, p)

PoolInv ==
    /\ faults \in Nat
    /\ ~crowded /\ faults = 0 => \E q : Sole(q) /\ PoolRequest(q) /\ PoolsFit(q)

LEMMA PooledOrders == Pooled \subseteq PurchaseOrders /\ NoPO \notin Pooled
  BY PayConstants DEF Pooled

LEMMA SameTotals ==
    ASSUME NEW rows \in [PurchaseOrders -> PORow], NEW others \in [PurchaseOrders -> PORow], NEW p,
           \A c \in Children(p) : rows[c].total = others[c].total
    PROVE  PooledTotal(rows, p) = PooledTotal(others, p)
<1> DEFINE f == [c \in PurchaseOrders |-> rows[c].total]
           g == [c \in PurchaseOrders |-> others[c].total]
<1>1. \A c \in Children(p) : f[c] = g[c] /\ f[c] \in Int /\ g[c] \in Int
  BY FiniteChildren DEF PORow
<1> HIDE DEF f, g
<1>2. SumFunctionOnSet(f, Children(p)) = SumFunctionOnSet(g, Children(p))
  BY <1>1, FiniteChildren, SumSame
<1> QED
  BY <1>2 DEF PooledTotal, f, g

LEMMA PoolKept ==
    ASSUME PayInv, NEW q0, PoolsFit(q0), q0.pc \notin {"readPool", "savePool"},
           po' \in [PurchaseOrders -> PORow],
           \A p \in PurchaseOrders : po'[p].total = po[p].total, NEW q
    PROVE  PoolsFit(q)'
<1>1. ASSUME NEW p \in Pooled
      PROVE  po'[p].total = PooledTotal(po', p)
  <2>1. p \in PurchaseOrders /\ po \in [PurchaseOrders -> PORow]
        /\ po[p].total = PooledTotal(po, p)
    BY PooledOrders DEF PayInv, PoolsFit
  <2>2. PooledTotal(po', p) = PooledTotal(po, p)
    BY <2>1, FiniteChildren, SameTotals
  <2> QED
    BY <2>1, <2>2
<1> QED
  BY <1>1 DEF PoolsFit

\* A step of a request that leaves the purchase orders alone.
LEMMA PoolQuiet ==
    ASSUME PayInv, NEW q0, PoolsFit(q0), q0.pc \notin {"readPool", "savePool"}, po' = po,
           NEW q, q.pc \notin {"saveChild", "readPool", "savePool"},
           q.pc \in {"savePO", "editPO"} => q.seen.po = po,
           q.pc = "editPO" => q.at \notin Pooled
    PROVE  PoolRequest(q)' /\ PoolsFit(q)'
<1>1. po' \in [PurchaseOrders -> PORow]
  BY DEF PayInv
<1>2. PoolsFit(q)'
  BY <1>1, PoolKept
<1> QED
  BY <1>2 DEF PoolRequest

LEMMA PoolBegins ==
    ASSUME PayInv, CoverTyped, NEW q0, Sole(q0), PoolRequest(q0), PoolsFit(q0), ~crowded',
           NEW r \in Requests,
           \/ CreatePayment(r) \/ UpdateTransaction(r) \/ PayPOs(r)
           \/ BeginEditOrder(r) \/ BeginEditPO(r) \/ \E v \in Vouchers : BeginDelete(r, v)
    PROVE  \E q : Sole(q)' /\ PoolRequest(q)' /\ PoolsFit(q)'
<1>1. q0 = Idle /\ \A s \in Requests : req[s] = Idle
  <2>1. \E name : Accept(name)
    BY DEF CreatePayment, UpdateTransaction, PayPOs, BeginEditOrder, BeginEditPO, BeginDelete
  <2> QED
    BY <2>1, SoleFree
<1>2. po' = po /\ q0.pc = "idle"
  BY <1>1, IdleFields
     DEF CreatePayment, UpdateTransaction, PayPOs, BeginEditOrder, BeginEditPO, BeginDelete
<1>3. \A q : Put(r, q) => Sole(q)'
  BY <1>1, SoleThen
<1>4. ASSUME NEW q, Put(r, q), q.pc \notin {"saveChild", "readPool", "savePool", "savePO"},
             q.pc = "editPO" => q.seen.po = po /\ q.at \notin Pooled
      PROVE  Sole(q)' /\ PoolRequest(q)' /\ PoolsFit(q)'
  BY <1>2, <1>3, <1>4, PoolQuiet
<1>5. CASE req' = req
  <2>1. PoolRequest(q0)' /\ PoolsFit(q0)'
    BY <1>2, PoolQuiet
  <2> QED
    BY <1>5, <2>1, SoleSame
<1>6. \/ req' = req
      \/ \E q : /\ Put(r, q) /\ q.pc \notin {"saveChild", "readPool", "savePool", "savePO"}
                /\ q.pc = "editPO" => q.seen.po = po /\ q.at \notin Pooled
  <2>1. CASE CreatePayment(r)
    BY <2>1, CreatePaymentTurn, SyncFields
  <2>2. CASE UpdateTransaction(r)
    <3>1. req' = req \/ \E o : Put(r, SyncOf(o))
      BY <2>2, UpdateTransactionTurn
    <3> QED
      BY <3>1, SyncFields
  <2>3. CASE PayPOs(r)
    <3>1. \E q : Put(r, q) /\ q.pc = "readPO"
      BY <2>3, PayPOsTurn
    <3> QED
      BY <3>1
  <2>4. CASE BeginEditOrder(r)
    <3>1. \E q : Put(r, q) /\ q.pc = "editOrder"
      BY <2>4, BeginEditOrderTurn
    <3> QED
      BY <3>1
  <2>5. CASE BeginEditPO(r)
    <3>1. \E q : \E p \in PurchaseOrders \ Pooled :
              Put(r, q) /\ q.pc = "editPO" /\ q.seen.po = po /\ q.at = p
      BY <2>5, BeginEditPOTurn
    <3> QED
      BY <3>1
  <2>6. ASSUME NEW v \in Vouchers, BeginDelete(r, v)
        PROVE  \E q : Put(r, q) /\ q.pc \in {"remove", "readPO"}
    BY <2>6, BeginDeleteTurn
  <2> QED
    BY <2>1, <2>2, <2>3, <2>4, <2>5, <2>6
<1> QED
  BY <1>4, <1>5, <1>6

LEMMA PoolEnds ==
    ASSUME PayInv, CoverTyped, NEW q0, Sole(q0), PoolRequest(q0), PoolsFit(q0),
           NEW r \in Requests,
           \/ ReadOrder(r) \/ ReadPayments(r) \/ SaveOrder(r) \/ EditOrder(r)
           \/ RemoveVoucher(r) \/ \E p \in PurchaseOrders : ReadPO(r, p)
    PROVE  \E q : Sole(q)' /\ PoolRequest(q)' /\ PoolsFit(q)'
<1>1. /\ q0 = req[r] /\ \A s \in Requests \ {r} : req[s] = Idle
      /\ q0.pc \notin {"readPool", "savePool"} /\ po' = po
  <2>1. req[r].pc \notin {"idle", "readPool", "savePool"} /\ po' = po
    BY DEF ReadOrder, ReadPayments, SaveOrder, EditOrder, RemoveVoucher, ReadPO
  <2> QED
    BY <2>1, SoleBusy
<1>2. \A q : Put(r, q) => Sole(q)'
  BY <1>1, SoleThen
<1>3. PICK q : /\ Put(r, q)
               /\ q.pc \notin {"saveChild", "readPool", "savePool", "editPO"}
               /\ q.pc = "savePO" => q.seen.po = po
  <2>1. PICK o : o = req[r].ref
    OBVIOUS
  <2>2. PICK status : status = StatusFor(req[r].seen.order.total, received[o])
    OBVIOUS
  <2>3. CASE ReadOrder(r)
    BY <2>3, ReadOrderTurn
  <2>4. CASE ReadPayments(r)
    <3>1. \/ Put(r, Idle)
          \/ \E q : Put(r, q) /\ q.pc = "saveOrder"
      BY <2>1, <2>2, <2>4, ReadPaymentsTurn
    <3> QED
      BY <3>1, IdleFields
  <2>5. CASE SaveOrder(r) \/ EditOrder(r)
    BY <2>1, <2>5, SaveOrderTurn, EditOrderTurn, IdleFields
  <2>6. CASE RemoveVoucher(r)
    BY <2>6, RemoveVoucherTurn, IdleFields, SyncFields
  <2>7. ASSUME NEW p \in PurchaseOrders, ReadPO(r, p)
        PROVE  \E q : Put(r, q) /\ q.pc = "savePO" /\ q.seen.po = po
    BY <2>7, ReadPOTurn
  <2> QED
    BY <2>3, <2>4, <2>5, <2>6, <2>7
<1> QED
  BY <1>1, <1>2, <1>3, PoolQuiet

LEMMA PoolWrites ==
    ASSUME PayInv, CoverTyped, NEW q0, Sole(q0), PoolRequest(q0), PoolsFit(q0),
           NEW r \in Requests, SavePO(r) \/ \E c \in PurchaseOrders : SaveChild(r, c)
    PROVE  \E q : Sole(q)' /\ PoolRequest(q)' /\ PoolsFit(q)'
<1>1. /\ q0 = req[r] /\ \A s \in Requests \ {r} : req[s] = Idle
      /\ q0.pc \in {"savePO", "saveChild"}
  <2>1. req[r].pc \in {"savePO", "saveChild"}
    BY DEF SavePO, SaveChild
  <2> QED
    BY <2>1, SoleBusy
<1>2. \A q : Put(r, q) => Sole(q)'
  BY <1>1, SoleThen
<1>3. /\ po \in [PurchaseOrders -> PORow] /\ q0.seen.po \in [PurchaseOrders -> PORow]
      /\ \A s \in PurchaseOrders : q0.seen.po[s].total = po[s].total
      /\ \A s \in DOMAIN q0.todo : q0.todo[s] \in Int
  <2>1. PayRequest(q0)
    BY <1>1 DEF PayInv
  <2> QED
    BY <1>1, <2>1, RequestFields DEF PayInv, PoolRequest
<1>4. PICK p : p = req[r].at
  OBVIOUS
<1>5. /\ p \in DOMAIN req[r].todo
      /\ po' \in [PurchaseOrders -> PORow]
      /\ \E c \in PurchaseOrders, n \in Int : po' = [po EXCEPT ![c] = Paid(q0.seen.po[c], n)]
      /\ \/ Put(r, After(r, p))
         \/ \E q : Put(r, q) /\ q.pc = "saveChild" /\ q.seen.po = q0.seen.po
  <2>1. CASE SavePO(r)
    <3>1. /\ p \in DOMAIN req[r].todo /\ p \in PurchaseOrders
          /\ po' = [po EXCEPT ![p] = Paid(q0.seen.po[p], q0.todo[p])]
          /\ po' \in [PurchaseOrders -> PORow]
          /\ \/ Put(r, After(r, p))
             \/ \E q : Put(r, q) /\ q.pc = "saveChild" /\ q.seen.po = q0.seen.po
      BY <1>1, <1>4, <2>1, SavePOTurn
    <3>2. q0.todo[p] \in Int
      BY <1>1, <1>3, <3>1
    <3> QED
      BY <3>1, <3>2
  <2>2. ASSUME NEW c \in PurchaseOrders, SaveChild(r, c)
        PROVE  /\ p \in DOMAIN req[r].todo
               /\ po' \in [PurchaseOrders -> PORow]
               /\ \E n \in Int : po' = [po EXCEPT ![c] = Paid(q0.seen.po[c], n)]
               /\ \/ Put(r, After(r, p))
                  \/ \E q : Put(r, q) /\ q.pc = "saveChild" /\ q.seen.po = q0.seen.po
    BY <1>1, <1>4, <2>2, SaveChildTurn
  <2> QED
    BY <2>1, <2>2
<1>6. \A s \in PurchaseOrders : po'[s].total = po[s].total
  <2>1. PICK c \in PurchaseOrders, n \in Int : po' = [po EXCEPT ![c] = Paid(q0.seen.po[c], n)]
    BY <1>5
  <2>2. Paid(q0.seen.po[c], n).total = q0.seen.po[c].total
    BY <1>3, PaidTyped
  <2> QED
    BY <1>3, <2>1, <2>2
<1>7. \A q : PoolsFit(q)'
  BY <1>1, <1>5, <1>6, PoolKept
<1>8. CASE Put(r, After(r, p))
  <2>1. PICK q : q = After(r, p)
    OBVIOUS
  <2>2. PICK left : left = Restrict(req[r].todo, DOMAIN req[r].todo \ {p})
    OBVIOUS
  <2>3. q.pc \in {"readPO", "remove", "idle"}
    BY <1>5, <2>1, <2>2, AfterPays, IdleFields
  <2>4. PoolRequest(q)'
    BY <2>3 DEF PoolRequest
  <2> QED
    BY <1>2, <1>7, <1>8, <2>1, <2>4
<1>9. ASSUME NEW q, Put(r, q), q.pc = "saveChild", q.seen.po = q0.seen.po
      PROVE  Sole(q)' /\ PoolRequest(q)' /\ PoolsFit(q)'
  BY <1>2, <1>3, <1>6, <1>7, <1>9 DEF PoolRequest
<1> QED
  BY <1>5, <1>8, <1>9

LEMMA PoolEdits ==
    ASSUME PayInv, CoverTyped, NEW q0, Sole(q0), PoolRequest(q0), PoolsFit(q0),
           NEW r \in Requests, EditPO(r) \/ ReadPool(r) \/ SavePool(r)
    PROVE  \E q : Sole(q)' /\ PoolRequest(q)' /\ PoolsFit(q)'
<1>1. /\ q0 = req[r] /\ \A s \in Requests \ {r} : req[s] = Idle
  <2>1. req[r].pc # "idle"
    BY DEF EditPO, ReadPool, SavePool
  <2> QED
    BY <2>1, SoleBusy
<1>2. \A q : Put(r, q) => Sole(q)'
  BY <1>1, SoleThen
<1>3. po \in [PurchaseOrders -> PORow]
  BY DEF PayInv
<1>4. PICK p : p = req[r].at
  OBVIOUS
<1>5. CASE EditPO(r)
  <2>1. q0.pc = "editPO" /\ q0.seen.po = po /\ p \notin Pooled
    BY <1>1, <1>4, <1>5 DEF EditPO, PoolRequest
  <2>2. /\ p \in PurchaseOrders /\ po' \in [PurchaseOrders -> PORow]
        /\ \E row : po' = [po EXCEPT ![p] = row]
        /\ \/ Put(r, Idle) /\ ParentOf[p] = NoPO
           \/ \E q : Put(r, q) /\ q.pc = "readPool" /\ q.at = ParentOf[p]
    BY <1>4, <1>5, EditPOTurn
  <2>3. ASSUME NEW s \in Pooled, s # ParentOf[p]
        PROVE  po'[s].total = PooledTotal(po', s)
    <3>1. s # p /\ s \in PurchaseOrders /\ p \notin Children(s)
      BY <2>1, <2>3, PooledOrders DEF Children
    <3>2. po[s].total = PooledTotal(po, s)
      BY <2>1 DEF PoolsFit
    <3>3. \A c \in PurchaseOrders \ {p} : po'[c] = po[c]
      BY <1>3, <2>2
    <3>4. \A c \in Children(s) : po'[c].total = po[c].total
      BY <3>1, <3>3, FiniteChildren
    <3>5. PooledTotal(po', s) = PooledTotal(po, s)
      BY <1>3, <2>2, <3>4, SameTotals
    <3> QED
      BY <3>1, <3>2, <3>3, <3>5
  <2>4. CASE Put(r, Idle) /\ ParentOf[p] = NoPO
    <3>1. PoolRequest(Idle)' /\ PoolsFit(Idle)'
      BY <2>3, <2>4, IdleFields, PooledOrders DEF PoolRequest, PoolsFit
    <3> QED
      BY <1>2, <2>4, <3>1
  <2>5. ASSUME NEW q, Put(r, q), q.pc = "readPool", q.at = ParentOf[p], ParentOf[p] # NoPO
        PROVE  Sole(q)' /\ PoolRequest(q)' /\ PoolsFit(q)'
    <3>1. ParentOf[p] \in Pooled
      BY <2>2, <2>5 DEF Pooled
    <3>2. PoolRequest(q)' /\ PoolsFit(q)'
      BY <2>3, <2>5, <3>1 DEF PoolRequest, PoolsFit
    <3> QED
      BY <1>2, <2>5, <3>2
  <2>6. \/ Put(r, Idle) /\ ParentOf[p] = NoPO
        \/ \E q : Put(r, q) /\ q.pc = "readPool" /\ q.at = ParentOf[p] /\ ParentOf[p] # NoPO
    <3>1. ParentOf[p] # NoPO \/ Put(r, Idle)
      BY <1>4, <1>5 DEF EditPO
    <3>2. ParentOf[p] = NoPO \/ \E q : Put(r, q) /\ q.pc = "readPool" /\ q.at = ParentOf[p]
      <4> DEFINE q == [Idle EXCEPT !.pc = "readPool", !.at = ParentOf[p]]
      <4>1. ParentOf[p] # NoPO => Put(r, q)
        BY <1>4, <1>5 DEF EditPO
      <4>2. q.pc = "readPool" /\ q.at = ParentOf[p]
        BY DEF Idle
      <4> HIDE DEF q
      <4> QED
        BY <4>1, <4>2
    <3> QED
      BY <3>1, <3>2
  <2> QED
    BY <2>4, <2>5, <2>6
<1>6. CASE ReadPool(r)
  <2>1. PICK q : Put(r, q) /\ q.pc = "savePool" /\ q.at = req[r].at /\ q.seen.po = po
    BY <1>6, PoolTurn
  <2>2. po' = po /\ q0.pc = "readPool"
    BY <1>1, <1>6 DEF ReadPool
  <2>3. PoolRequest(q)' /\ PoolsFit(q)'
    BY <1>1, <2>1, <2>2 DEF PoolRequest, PoolsFit
  <2> QED
    BY <1>2, <2>1, <2>3
<1>7. CASE SavePool(r)
  <2>1. q0.pc = "savePool" /\ q0.seen.po = po /\ p \in Pooled
    BY <1>1, <1>4, <1>7 DEF SavePool, PoolRequest
  <2>2. /\ p \in PurchaseOrders /\ po' \in [PurchaseOrders -> PORow] /\ Put(r, Idle)
        /\ \E row : /\ po' = [po EXCEPT ![p] = row]
                    /\ row.total = PooledTotal(po, p)
    BY <1>1, <1>4, <1>7, <2>1, SavePoolTurn
  <2>3. ASSUME NEW s \in Pooled
        PROVE  po'[s].total = PooledTotal(po', s)
    <3>1. \A c \in Children(s) : c # p
      BY <2>1, <2>3, PayConstants, PooledOrders DEF Children
    <3>2. \A c \in PurchaseOrders \ {p} : po'[c] = po[c]
      BY <1>3, <2>2
    <3>3. \A c \in Children(s) : po'[c].total = po[c].total
      BY <3>1, <3>2, FiniteChildren
    <3>4. PooledTotal(po', s) = PooledTotal(po, s)
      BY <1>3, <2>2, <3>3, SameTotals
    <3>5. CASE s = p
      BY <1>3, <2>2, <3>4, <3>5
    <3>6. CASE s # p
      <4>1. po[s].total = PooledTotal(po, s)
        BY <1>1, <1>4, <3>6 DEF PoolsFit
      <4> QED
        BY <3>2, <3>4, <3>6, <4>1, PooledOrders
    <3> QED
      BY <3>5, <3>6
  <2>4. PoolRequest(Idle)' /\ PoolsFit(Idle)'
    BY <2>3, IdleFields DEF PoolRequest, PoolsFit
  <2> QED
    BY <1>2, <2>2, <2>4
<1> QED
  BY <1>5, <1>6, <1>7

LEMMA PoolStep == PayInv /\ CoverTyped /\ PoolInv /\ [Next]_vars => PoolInv'
<1> SUFFICES ASSUME PayInv, CoverTyped, PoolInv, [Next]_vars PROVE PoolInv'
  OBVIOUS
<1>1. crowded => crowded'
  BY StepMarks
<1>2. faults \in Nat /\ faults' \in {faults, faults + 1}
  BY StepMarks DEF PoolInv
<1>3. ASSUME ~crowded', faults' = 0
      PROVE  \E q : Sole(q)' /\ PoolRequest(q)' /\ PoolsFit(q)'
  <2>1. ~crowded /\ faults = 0
    BY <1>1, <1>2, <1>3
  <2>2. PICK q0 : Sole(q0) /\ PoolRequest(q0) /\ PoolsFit(q0)
    BY <2>1 DEF PoolInv
  <2>3. CASE CreateTransaction \/ \E v \in Vouchers : ApproveTransaction(v)
    <3>1. req' = req /\ po' = po
      BY <2>3 DEF CreateTransaction, ApproveTransaction
    <3>2. PoolRequest(q0)' /\ PoolsFit(q0)'
      BY <2>2, <3>1 DEF PoolRequest, PoolsFit
    <3> QED
      BY <2>2, <3>1, <3>2, SoleSame
  <2>4. ASSUME NEW r \in Requests,
               \/ CreatePayment(r) \/ UpdateTransaction(r)
               \/ ReadOrder(r) \/ ReadPayments(r) \/ SaveOrder(r)
               \/ PayPOs(r) \/ SavePO(r)
               \/ \E p \in PurchaseOrders : ReadPO(r, p) \/ SaveChild(r, p)
               \/ \E v \in Vouchers : BeginDelete(r, v)
               \/ RemoveVoucher(r)
               \/ BeginEditOrder(r) \/ EditOrder(r)
               \/ BeginEditPO(r) \/ EditPO(r) \/ ReadPool(r) \/ SavePool(r)
        PROVE  \E q : Sole(q)' /\ PoolRequest(q)' /\ PoolsFit(q)'
    BY <1>3, <2>2, <2>4, PoolBegins, PoolEnds, PoolWrites, PoolEdits
  <2>5. ASSUME NEW r \in Requests, Fail(r)
        PROVE  FALSE
    <3>1. faults' = faults + 1
      BY <2>5 DEF Fail
    <3> QED
      BY <1>3, <2>1, <3>1
  <2>6. CASE UNCHANGED vars
    <3>1. UNCHANGED <<po, req>>
      BY <2>6 DEF vars
    <3>2. PoolRequest(q0)' /\ PoolsFit(q0)'
      BY <2>2, <3>1 DEF PoolRequest, PoolsFit
    <3> QED
      BY <2>2, <3>1, <3>2, SoleSame
  <2> QED
    BY <2>3, <2>4, <2>5, <2>6 DEF Next
<1> QED
  BY <1>2, <1>3 DEF PoolInv

LEMMA PoolInit == Init => PoolInv
<1> SUFFICES ASSUME Init PROVE faults \in Nat /\ Sole(Idle) /\ PoolRequest(Idle) /\ PoolsFit(Idle)
  BY DEF PoolInv
<1>1. faults \in Nat /\ Sole(Idle) /\ PoolRequest(Idle)
  BY IdleFields DEF Init, Sole, PoolRequest
<1>2. PICK total \in [PurchaseOrders \ Pooled -> Totals] :
          po = [p \in PurchaseOrders |->
                  [total |-> IF p \in Pooled THEN SumFunctionOnSet(total, Children(p)) ELSE total[p],
                   paid |-> 0]]
  BY DEF Init
<1>3. ASSUME NEW p \in Pooled
      PROVE  po[p].total = PooledTotal(po, p)
  <2> DEFINE g == [c \in PurchaseOrders |-> po[c].total]
  <2>1. \A c \in Children(p) : c \in PurchaseOrders \ Pooled
    <3>1. \A c \in Children(p) : c \in PurchaseOrders /\ ParentOf[c] = p /\ p # NoPO
      BY PooledOrders DEF Children
    <3> QED
      BY <3>1, PayConstants
  <2>2. \A c \in Children(p) : total[c] = g[c] /\ total[c] \in Int /\ g[c] \in Int
    <3>1. \A c \in PurchaseOrders \ Pooled : g[c] = total[c] /\ total[c] \in Nat
      BY <1>2, PayConstants
    <3> HIDE DEF g
    <3> QED
      BY <2>1, <3>1
  <2>3. po[p].total = SumFunctionOnSet(total, Children(p))
    BY <1>2, PooledOrders
  <2> HIDE DEF g
  <2>4. SumFunctionOnSet(total, Children(p)) = SumFunctionOnSet(g, Children(p))
    BY <2>2, FiniteChildren, SumSame
  <2> QED
    BY <2>3, <2>4 DEF PooledTotal, g
<1> QED
  BY <1>1, <1>3 DEF PoolsFit

\* What updatePayment hands to the children of a pooled order is the amount
\* paid, up to half a unit of rounding for each child, whatever the totals.
THEOREM SharesAddUp == Spec => []PoolSharesAddUp
<1>1. CoverInv => CoverTyped
  BY DEF CoverInv
<1>2. PayInv /\ PoolInv => PoolSharesAddUp
  <2> SUFFICES ASSUME PayInv, PoolInv, ~crowded, faults = 0, NEW r \in Requests,
                      req[r].pc = "savePO", Children(req[r].at) # {},
                      NEW p, p = req[r].at
               PROVE  LET shares == SumFunctionOnSet(
                              [c \in PurchaseOrders |-> Share(req[r].seen.po, p, c, req[r].todo[p])],
                              Children(p))
                      IN  2 * Magnitude(shares - req[r].todo[p]) <= Cardinality(Children(p))
    BY DEF PoolSharesAddUp, Serial
  <2>1. PICK q : Sole(q) /\ PoolRequest(q) /\ PoolsFit(q)
    BY DEF PoolInv
  <2>2. q = req[r]
    BY <2>1, SoleBusy
  <2>3. PayRequest(q) /\ q.seen.po = po
    BY <2>1, <2>2 DEF PoolRequest, PayInv
  <2>4. p \in PurchaseOrders /\ q.todo[p] \in Int /\ q.seen.po \in [PurchaseOrders -> PORow]
    <3>1. p \in DOMAIN q.todo
      BY <2>2, <2>3 DEF PayRequest
    <3> QED
      BY <2>3, <3>1, RequestFields
  <2>5. p \in Pooled
    <3>1. PICK c \in PurchaseOrders : ParentOf[c] = p
      BY DEF Children
    <3> QED
      BY <2>4, <3>1, PayConstants DEF Pooled
  <2>6. q.seen.po[p].total = PooledTotal(q.seen.po, p)
    BY <2>1, <2>2, <2>3, <2>5 DEF PoolsFit
  <2> QED
    BY <2>2, <2>4, <2>6, SharesNear
<1> QED
  BY CoverInit, CoverStep, PayInit, PayStep, PoolInit, PoolStep, <1>1, <1>2, PTL DEF Spec
================================================================================
