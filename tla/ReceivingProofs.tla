---------------------------- MODULE ReceivingProofs ----------------------------
(***************************************************************************)
(* Theorems about Receiving, for any numbers of orders, receipts and       *)
(* requests, overlapping freely and cut short anywhere.                    *)
(***************************************************************************)
EXTENDS Receiving, SumTheorems

\* The steps of a confirmation: the goods are not in, are in, are in for good.
Before == {"data", "import"}
Between == {"readDebt", "saveDebt", "readPo", "savePo", "complete"}
After == {"count", "status"}

OnOrders == {"update", "order", "direct", "supplier"}

Request == [call : OnOrders \cup {"idle", "drop", "confirm"},
            at : Before \cup Between \cup After \cup {"begin", "delete", "save", "check"},
            id : Orders \cup Receipts \cup {NoId},
            po : Order, receipt : ReceiptRow, amount : Nat]

\* A request: its fields, the receipt or the order it is for, its steps.
GoodRequest(q) ==
    /\ q \in Request
    /\ q.call \in {"confirm", "drop"} => q.id \in Receipts /\ q.receipt.po \in Orders
    /\ q.call = "confirm" => q.at \in Before \cup Between \cup After
    /\ q.call \in OnOrders => q.id \in Orders

Typed ==
    /\ TypeOK
    /\ req \in [Requests -> Request]
    /\ \A r \in Requests : GoodRequest(req[r])

\* Request r works on receipt k.
Has(r, k) == req[r].call \in {"confirm", "drop"} /\ req[r].id = k

\* How far the goods of a receipt are in, with its row and the n units imported,
\* as seen by the one request q that has it.
Imports(q, row, n) ==
    IF q.call = "confirm"
    THEN /\ q.at \in Before \cup Between => row = q.receipt /\ row.status = "DRAFT"
         /\ q.at \in Before => n = 0
         /\ q.at \in Between => n = row.qty
         /\ q.at \in After => row.status = "COMPLETED" /\ n = row.qty
    ELSE row.status = "DRAFT" /\ n = 0

\* The goods are in if the row says so.
Settles(row, n) == n = IF row.status = "COMPLETED" THEN row.qty ELSE 0

\* A receipt no two requests met on: at most one has it, and its goods are in
\* as far as that request has come.
Exact(k) ==
    /\ \A r, s \in Requests : Has(r, k) /\ Has(s, k) => r = s
    /\ \A r \in Requests : Has(r, k) => Imports(req[r], receipt[k], imported[k])
    /\ (\A r \in Requests : ~Has(r, k)) => Settles(receipt[k], imported[k])

\* A receipt that a request has names its order.
Linked == \A r \in Requests, k \in Receipts : Has(r, k) => receipt[k].po \in Orders

\* The inductive invariant.
ImportInv ==
    /\ Typed
    /\ Linked
    /\ \A k \in Receipts : k \notin raced \cup failed => Exact(k)

--------------------------------------------------------------------------------
LEMMA IdleGood == GoodRequest(Idle) /\ Idle.call = "idle"
<1>1. Ordered \in Nat
  BY ReceivingConstants DEF ReceivingConstants
<1>2. NewOrder \in Order
  BY <1>1 DEF NewOrder, Order
<1>3. NoReceipt \in ReceiptRow
  BY DEF NoReceipt, ReceiptRow
<1> QED
  BY <1>2, <1>3 DEF GoodRequest, Request, Idle, OnOrders

LEMMA Apart == Orders \cap Receipts = {} /\ Debt \notin Receipts
  BY ReceivingConstants DEF ReceivingConstants

\* InHand and Has agree about receipts.
LEMMA HandsOnReceipts ==
    ASSUME Typed, NEW r \in Requests, NEW k \in Receipts
    PROVE  Has(r, k) <=> k \in InHand(r)
<1>1. GoodRequest(req[r])
  BY DEF Typed
<1>2. CASE req[r].call = "confirm"
  <2>1. InHand(r) = {req[r].id, req[r].receipt.po, Debt}
    BY <1>1, <1>2 DEF InHand, InFlight, RowsOf, OrderOf, GoodRequest
  <2> QED
    BY <1>1, <1>2, <2>1, Apart DEF Has, GoodRequest
<1>3. CASE req[r].call = "drop"
  <2>1. InHand(r) = {req[r].id}
    BY <1>1, <1>3 DEF InHand, InFlight, RowsOf
  <2> QED
    BY <1>3, <2>1 DEF Has
<1>4. CASE req[r].call \in OnOrders
  <2>1. InHand(r) = {req[r].id}
    BY <1>1, <1>4, Apart DEF InHand, InFlight, RowsOf, OrderOf, GoodRequest, OnOrders
  <2> QED
    BY <1>1, <1>4, <2>1, Apart DEF Has, GoodRequest, OnOrders
<1>5. CASE req[r].call \in {"idle"}
  BY <1>5 DEF Has, InHand, InFlight
<1> QED
  BY <1>1, <1>2, <1>3, <1>4, <1>5 DEF GoodRequest, Request

\* A step that changes one request: the receipts other requests have, and the
\* rows of receipts, stay as they are.
LEMMA RequestStep ==
    ASSUME ImportInv, NEW r \in Requests, NEW q, GoodRequest(q),
           req' = [req EXCEPT ![r] = q], TypeOK',
           UNCHANGED <<receipt, imported, raced, failed>>,
           q.call = req[r].call, q.id = req[r].id,
           \A k \in Receipts : 
               Has(r, k) /\ Imports(req[r], receipt[k], imported[k]) => Imports(q, receipt[k], imported[k])
    PROVE  ImportInv'
<1>1. /\ req' \in [Requests -> Request]
      /\ \A s \in Requests : req'[s] = IF s = r THEN q ELSE req[s]
  BY DEF ImportInv, Typed, GoodRequest
<1>2. Typed'
  BY <1>1 DEF ImportInv, Typed
<1>3. \A s \in Requests, k \in Receipts : Has(s, k)' <=> Has(s, k)
  BY <1>1 DEF Has
<1>4. \A s \in Requests, k \in Receipts :
        Has(s, k) /\ Imports(req[s], receipt[k], imported[k])
            => Imports(req'[s], receipt[k], imported[k])
  BY <1>1
<1>5. \A k \in Receipts : Exact(k) => Exact(k)'
  BY <1>3, <1>4 DEF Exact
<1>6. Linked'
  BY <1>3 DEF ImportInv, Linked
<1> QED
  BY <1>2, <1>5, <1>6 DEF ImportInv

\* A request ends: every receipt it has must be in as its row says.
LEMMA EndStep ==
    ASSUME ImportInv, NEW r \in Requests, req' = [req EXCEPT ![r] = Idle], TypeOK',
           UNCHANGED <<receipt, imported, raced>>, failed \subseteq failed',
           \A k \in Receipts \ failed' :
               Has(r, k) /\ Imports(req[r], receipt[k], imported[k])
                   => Settles(receipt[k], imported[k])
    PROVE  ImportInv'
<1>1. /\ req' \in [Requests -> Request]
      /\ \A s \in Requests : req'[s] = IF s = r THEN Idle ELSE req[s]
  BY IdleGood DEF ImportInv, Typed, GoodRequest
<1>2. Typed'
  BY <1>1, IdleGood DEF ImportInv, Typed
<1>3. \A s \in Requests, k \in Receipts : Has(s, k)' <=> Has(s, k) /\ s # r
  BY <1>1, IdleGood DEF Has
<1>4. ASSUME NEW k \in Receipts, k \notin raced \cup failed'
      PROVE  Exact(k)'
  <2>1. Exact(k)
    BY <1>4 DEF ImportInv
  <2>2. \A s \in Requests : Has(s, k)' => Imports(req'[s], receipt[k], imported[k])
    BY <1>1, <1>3, <2>1 DEF Exact
  <2>3. (\A s \in Requests : ~Has(s, k)') => Settles(receipt[k], imported[k])
    <3>1. CASE Has(r, k)
      BY <1>4, <2>1, <3>1 DEF Exact
    <3>2. CASE ~Has(r, k)
      BY <1>3, <2>1, <3>2 DEF Exact
    <3> QED
      BY <3>1, <3>2
  <2> QED
    BY <1>3, <2>1, <2>2, <2>3 DEF Exact
<1>5. Linked'
  BY <1>3 DEF ImportInv, Linked
<1> QED
  BY <1>2, <1>4, <1>5 DEF ImportInv

\* The request that has a receipt changes its row, its goods, or both.
LEMMA RowStep ==
    ASSUME ImportInv, NEW r \in Requests, NEW q, GoodRequest(q),
           NEW k \in Receipts, Has(r, k),
           req' = [req EXCEPT ![r] = q], TypeOK', UNCHANGED <<raced, failed>>,
           \A m \in Receipts \ {k} : receipt'[m] = receipt[m] /\ imported'[m] = imported[m],
           q.call = req[r].call, q.id = k, receipt'[k].po \in Orders,
           Imports(req[r], receipt[k], imported[k]) => Imports(q, receipt'[k], imported'[k])
    PROVE  ImportInv'
<1>1. /\ req' \in [Requests -> Request]
      /\ \A s \in Requests : req'[s] = IF s = r THEN q ELSE req[s]
  BY DEF ImportInv, Typed, GoodRequest
<1>2. Typed'
  BY <1>1 DEF ImportInv, Typed
<1>3. \A s \in Requests, m \in Receipts : Has(s, m)' <=> Has(s, m)
  BY <1>1 DEF Has
<1>4. ASSUME NEW m \in Receipts, Exact(m)
      PROVE  Exact(m)'
  <2>1. CASE m = k
    <3>1. \A s \in Requests : Has(s, k) => s = r
      BY <1>4, <2>1 DEF Exact
    <3>2. Imports(q, receipt'[k], imported'[k])
      BY <1>4, <2>1 DEF Exact
    <3> QED
      BY <1>1, <1>3, <2>1, <3>1, <3>2 DEF Exact
  <2>2. CASE m # k
    <3>1. ~Has(r, m)
      BY <2>2 DEF Has
    <3>2. \A s \in Requests : Has(s, m) => req'[s] = req[s]
      BY <1>1, <3>1
    <3> QED
      BY <1>3, <1>4, <2>2, <3>2 DEF Exact
  <2> QED
    BY <2>1, <2>2
<1>5. Linked'
  BY <1>3 DEF ImportInv, Linked
<1> QED
  BY <1>2, <1>4, <1>5 DEF ImportInv

--------------------------------------------------------------------------------
LEMMA ImportAtStart == Init => ImportInv
<1> SUFFICES ASSUME Init PROVE ImportInv
  OBVIOUS
<1>1. NewOrder \in Order /\ NoReceipt \in ReceiptRow /\ NoReceipt.status = "unused"
  <2>1. Ordered \in Nat
    BY ReceivingConstants DEF ReceivingConstants
  <2> QED
    BY <2>1 DEF NewOrder, Order, NoReceipt, ReceiptRow
<1>2. TypeOK
  BY <1>1 DEF Init, TypeOK
<1>3. Typed
  BY <1>2, IdleGood DEF Init, Typed, GoodRequest
<1>4. \A r \in Requests, k \in Receipts : ~Has(r, k)
  BY IdleGood DEF Init, Has
<1>5. \A k \in Receipts : Settles(receipt[k], imported[k])
  BY <1>1 DEF Init, Settles
<1> QED
  BY <1>3, <1>4, <1>5 DEF ImportInv, Exact, Linked

\* A request starts: if it takes a receipt that another has, they meet on it.
LEMMA BeginStep ==
    ASSUME ImportInv, NEW r \in Requests, NEW call, NEW step, NEW id, NEW order \in Orders,
           NEW row, Begin(r, call, step, id, order, row),
           LET q == [Idle EXCEPT !.call = call, !.at = step, !.id = id, !.po = po[order],
                                 !.receipt = row]
           IN  /\ GoodRequest(q)
               /\ q.call \in {"confirm", "drop"} =>
                    /\ row = receipt[q.id] /\ row.status = "DRAFT"
                    /\ q.at \in {"data", "delete"}
    PROVE  ImportInv'
<1> DEFINE q == [Idle EXCEPT !.call = call, !.at = step, !.id = id, !.po = po[order],
                             !.receipt = row]
<1>1. q.call = call /\ q.at = step /\ q.id = id /\ q.receipt = row
  BY DEF Idle
<1>2. /\ req' = [req EXCEPT ![r] = q]
      /\ req[r].call = "idle"
      /\ raced' = raced \cup UNION {InHand(s) \cap RowsOf(call, id, order) : s \in InFlight}
      /\ UNCHANGED <<po, receipt, imported, debt, pfo, failed>>
  BY DEF Begin
<1>3. GoodRequest(q)
  OBVIOUS
<1>4. q.call \in {"confirm", "drop"} =>
        row = receipt[id] /\ row.status = "DRAFT" /\ q.at \in {"data", "delete"}
  BY <1>1
<1> HIDE DEF q
<1>5. /\ req' \in [Requests -> Request]
      /\ \A s \in Requests : req'[s] = IF s = r THEN q ELSE req[s]
  BY <1>2, <1>3 DEF ImportInv, Typed, GoodRequest
<1>6. Typed'
  BY <1>2, <1>3, <1>5 DEF ImportInv, Typed, TypeOK
<1>7. ASSUME NEW k \in Receipts, k \notin raced' \cup failed'
      PROVE  Exact(k)'
  <2>1. Exact(k)
    BY <1>2, <1>7 DEF ImportInv
  <2>2. \A s \in Requests : Has(s, k)' <=> IF s = r THEN q.call \in {"confirm", "drop"} /\ id = k
                                          ELSE Has(s, k)
    BY <1>1, <1>5 DEF Has
  <2>3. ~Has(r, k)
    BY <1>2 DEF Has
  <2>4. CASE q.call \in {"confirm", "drop"} /\ id = k
    <3>1. k \in RowsOf(call, id, order)
      BY <1>1, <2>4 DEF RowsOf
    <3>2. \A s \in Requests : ~Has(s, k)
      <4> SUFFICES ASSUME NEW s \in Requests, Has(s, k) PROVE FALSE
        OBVIOUS
      <4>1. k \in InHand(s) /\ s \in InFlight
        BY HandsOnReceipts DEF ImportInv, Has, InFlight
      <4>2. k \in raced'
        BY <1>2, <3>1, <4>1
      <4> QED
        BY <1>7, <4>2
    <3>3. Settles(receipt[k], imported[k]) /\ receipt[k] = row /\ row.status = "DRAFT"
      BY <1>4, <2>1, <2>4, <3>2 DEF Exact
    <3>4. Imports(q, receipt[k], imported[k])
      BY <1>1, <1>4, <2>4, <3>3 DEF Imports, Settles, Before, Between, After
    <3> QED
      BY <1>2, <1>5, <2>2, <2>4, <3>2, <3>4 DEF Exact
  <2>5. CASE ~(q.call \in {"confirm", "drop"} /\ id = k)
    BY <1>2, <1>5, <2>1, <2>2, <2>3, <2>5 DEF Exact
  <2> QED
    BY <2>4, <2>5
<1>8. Linked'
  <2> SUFFICES ASSUME NEW s \in Requests, NEW k \in Receipts, Has(s, k)'
               PROVE  receipt[k].po \in Orders
    BY <1>2 DEF Linked
  <2>1. CASE s = r
    BY <1>1, <1>3, <1>4, <1>5, <2>1 DEF Has, GoodRequest
  <2>2. CASE s # r
    BY <1>5, <2>2 DEF ImportInv, Linked, Has
  <2> QED
    BY <2>1, <2>2
<1> QED
  BY <1>6, <1>7, <1>8 DEF ImportInv

LEMMA Rows ==
    ASSUME ImportInv
    PROVE  /\ TypeOK /\ req \in [Requests -> Request]
           /\ \A r \in Requests : GoodRequest(req[r])
  BY DEF ImportInv, Typed

LEMMA CreateImports ==
    ASSUME ImportInv, NEW k \in Receipts, NEW p \in Orders, NEW n \in Amounts,
           CreateDraftReceipt(k, p, n)
    PROVE  ImportInv'
<1>1. n \in Nat
  BY ReceivingConstants DEF ReceivingConstants
<1>2. DraftFor(p, n) \in ReceiptRow /\ DraftFor(p, n).po \in Orders
      /\ DraftFor(p, n).status = "DRAFT"
  BY <1>1 DEF DraftFor, ReceiptRow
<1>3. /\ receipt' = [receipt EXCEPT ![k] = DraftFor(p, n)] /\ receipt[k].status = "unused"
      /\ UNCHANGED <<po, imported, debt, pfo, req, raced, failed>>
  BY DEF CreateDraftReceipt
<1>4. \A m \in Receipts : receipt'[m] = IF m = k THEN DraftFor(p, n) ELSE receipt[m]
  BY <1>3, Rows DEF TypeOK
<1>5. TypeOK'
  BY <1>2, <1>3, <1>4, Rows DEF TypeOK
<1>6. Typed'
  BY <1>3, <1>5 DEF ImportInv, Typed
<1>7. ASSUME NEW m \in Receipts, Exact(m)
      PROVE  Exact(m)'
  <2>1. CASE m = k
    <3>1. \A r \in Requests : ~Has(r, k)
      <4> SUFFICES ASSUME NEW r \in Requests, Has(r, k) PROVE FALSE
        OBVIOUS
      <4>1. Imports(req[r], receipt[k], imported[k])
        BY <1>7, <2>1 DEF Exact
      <4> QED
        BY <1>3, <4>1, Rows DEF Imports, GoodRequest
    <3>2. imported[k] = 0
      BY <1>3, <1>7, <2>1, <3>1 DEF Exact, Settles
    <3> QED
      BY <1>2, <1>3, <1>4, <2>1, <3>1, <3>2 DEF Exact, Has, Settles
  <2>2. CASE m # k
    BY <1>3, <1>4, <1>7, <2>2 DEF Exact, Has
  <2> QED
    BY <2>1, <2>2
<1>8. Linked'
  BY <1>2, <1>3, <1>4 DEF ImportInv, Linked, Has
<1> QED
  BY <1>3, <1>6, <1>7, <1>8 DEF ImportInv

LEMMA BeginsImport ==
    ASSUME ImportInv, NEW r \in Requests,
           \/ \E k \in Receipts : BeginDrop(r, k) \/ BeginConfirm(r, k)
           \/ \E p \in Orders, call \in OnOrders : BeginWithOrder(r, call, "save", p)
    PROVE  ImportInv'
<1>1. ASSUME NEW k \in Receipts, NEW call \in {"drop", "confirm"}, NEW step \in {"delete", "data"},
             call = "confirm" => step = "data",
             Open(receipt[k]), Begin(r, call, step, k, receipt[k].po, receipt[k])
      PROVE  ImportInv'
  <2>1. receipt[k] \in ReceiptRow /\ receipt[k].po \in Orders /\ receipt[k].status = "DRAFT"
    BY <1>1, Rows DEF TypeOK, Open
  <2>2. po[receipt[k].po] \in Order
    BY <2>1, Rows DEF TypeOK
  <2> DEFINE q == [Idle EXCEPT !.call = call, !.at = step, !.id = k,
                               !.po = po[receipt[k].po], !.receipt = receipt[k]]
  <2>3. /\ q.call = call /\ q.at = step /\ q.id = k /\ q.receipt = receipt[k]
        /\ q \in Request
    BY <2>1, <2>2, IdleGood DEF Idle, GoodRequest, Request, Before, Between, After, OnOrders
  <2>4. GoodRequest(q)
    BY <1>1, <2>1, <2>3 DEF GoodRequest, Before, OnOrders
  <2> QED
    BY <1>1, <2>1, <2>3, <2>4, BeginStep
<1>2. ASSUME NEW p \in Orders, NEW call \in OnOrders, BeginWithOrder(r, call, "save", p)
      PROVE  ImportInv'
  <2>1. po[p] \in Order
    BY Rows DEF TypeOK
  <2> DEFINE q == [Idle EXCEPT !.call = call, !.at = "save", !.id = p,
                               !.po = po[p], !.receipt = NoReceipt]
  <2>2. NoReceipt \in ReceiptRow
    BY DEF NoReceipt, ReceiptRow
  <2>3. q.call = call /\ q.id = p /\ q \in Request
    BY <2>1, <2>2, IdleGood DEF Idle, GoodRequest, Request, OnOrders
  <2>4. GoodRequest(q) /\ q.call \notin {"confirm", "drop"}
    BY <2>3 DEF GoodRequest, OnOrders
  <2> QED
    BY <1>2, <2>4, BeginStep DEF BeginWithOrder
<1> QED
  BY <1>1, <1>2 DEF BeginDrop, BeginConfirm

--------------------------------------------------------------------------------
LEMMA DataImports ==
    ASSUME ImportInv, NEW r \in Requests, NEW k \in Receipts, NEW n \in Nat, NEW fee \in Nat,
           SaveData(r, k, n, fee)
    PROVE  ImportInv'
<1> DEFINE row == [req[r].receipt EXCEPT !.qty = n, !.fee = fee]
           q == [req[r] EXCEPT !.receipt = row, !.at = "import"]
<1>1. /\ GoodRequest(req[r]) /\ req[r].call = "confirm" /\ req[r].at = "data" /\ req[r].id = k
      /\ Has(r, k)
  BY Rows DEF SaveData, At, Has
<1>2. /\ row \in ReceiptRow /\ row.po \in Orders /\ row.status = req[r].receipt.status
      /\ row.po = req[r].receipt.po
  BY <1>1 DEF GoodRequest, Request, ReceiptRow
<1> HIDE DEF row
<1>3. /\ GoodRequest(q) /\ q.call = "confirm" /\ q.id = k /\ q.at = "import" /\ q.receipt = row
  BY <1>1, <1>2 DEF GoodRequest, Request, Before, OnOrders
<1>4. /\ receipt' = IF row = req[r].receipt THEN receipt ELSE [receipt EXCEPT ![k] = row]
      /\ req' = [req EXCEPT ![r] = q]
      /\ UNCHANGED <<po, imported, debt, pfo, raced, failed>>
  BY Rows DEF SaveData, row
<1>5. \A m \in Receipts : receipt'[m] = IF m = k /\ row # req[r].receipt THEN row ELSE receipt[m]
  BY <1>4, Rows DEF TypeOK
<1>6. TypeOK'
  BY <1>2, <1>4, <1>5, Rows DEF TypeOK
<1>7. Imports(req[r], receipt[k], imported[k]) => Imports(q, receipt'[k], imported'[k])
  BY <1>1, <1>2, <1>3, <1>4, <1>5 DEF Imports, Before, Between, After
<1>8. receipt'[k].po \in Orders
  BY <1>1, <1>2, <1>3, <1>5 DEF ImportInv, Linked
<1> HIDE DEF q
<1> QED
  BY <1>1, <1>3, <1>4, <1>5, <1>6, <1>7, <1>8, RowStep

LEMMA ImportImports ==
    ASSUME ImportInv, NEW r \in Requests, NEW k \in Receipts, Import(r, k)
    PROVE  ImportInv'
<1> DEFINE q == [req[r] EXCEPT !.at = "readDebt"]
           n == req[r].receipt.qty
<1>1. /\ GoodRequest(req[r]) /\ req[r].call = "confirm" /\ req[r].at = "import" /\ req[r].id = k
      /\ Has(r, k)
  BY Rows DEF Import, At, Has
<1>2. /\ GoodRequest(q) /\ q.call = "confirm" /\ q.id = k /\ q.at = "readDebt"
      /\ q.receipt = req[r].receipt /\ n \in Nat
  BY <1>1 DEF GoodRequest, Request, Between, OnOrders, ReceiptRow
<1>3. /\ imported' = [imported EXCEPT ![k] = @ + n]
      /\ req' = [req EXCEPT ![r] = q]
      /\ UNCHANGED <<po, receipt, debt, pfo, raced, failed>>
  BY Rows DEF Import, Goto
<1>4. /\ imported \in [Receipts -> Nat]
      /\ \A m \in Receipts : imported'[m] = IF m = k THEN imported[m] + n ELSE imported[m]
  BY <1>3, Rows DEF TypeOK
<1>5. TypeOK'
  BY <1>2, <1>3, <1>4, Rows DEF TypeOK
<1>6. Imports(req[r], receipt[k], imported[k]) => Imports(q, receipt'[k], imported'[k])
  BY <1>1, <1>2, <1>3, <1>4 DEF Imports, Before, Between, After
<1>7. receipt'[k].po \in Orders
  BY <1>1, <1>3 DEF ImportInv, Linked
<1> HIDE DEF q
<1> QED
  BY <1>1, <1>2, <1>3, <1>4, <1>5, <1>6, <1>7, RowStep

LEMMA CompleteImports ==
    ASSUME ImportInv, NEW r \in Requests, NEW k \in Receipts, Complete(r, k)
    PROVE  ImportInv'
<1> DEFINE q == [req[r] EXCEPT !.at = "count"]
           row == [req[r].receipt EXCEPT !.status = "COMPLETED"]
<1>1. /\ GoodRequest(req[r]) /\ req[r].call = "confirm" /\ req[r].at = "complete" /\ req[r].id = k
      /\ Has(r, k)
  BY Rows DEF Complete, At, Has
<1>2. /\ GoodRequest(q) /\ q.call = "confirm" /\ q.id = k /\ q.at = "count"
  BY <1>1 DEF GoodRequest, Request, After, OnOrders
<1>3. /\ row \in ReceiptRow /\ row.po \in Orders /\ row.status = "COMPLETED"
      /\ row.qty = req[r].receipt.qty
  BY <1>1 DEF GoodRequest, Request, ReceiptRow
<1> HIDE DEF row
<1>4. /\ receipt' = [receipt EXCEPT ![k] = row]
      /\ req' = [req EXCEPT ![r] = q]
      /\ UNCHANGED <<po, imported, debt, pfo, raced, failed>>
  BY Rows DEF Complete, Goto, row
<1>5. \A m \in Receipts : receipt'[m] = IF m = k THEN row ELSE receipt[m]
  BY <1>4, Rows DEF TypeOK
<1>6. TypeOK'
  BY <1>3, <1>4, <1>5, Rows DEF TypeOK
<1>7. Imports(req[r], receipt[k], imported[k]) => Imports(q, receipt'[k], imported'[k])
  BY <1>1, <1>2, <1>3, <1>4, <1>5 DEF Imports, Before, Between, After
<1>8. receipt'[k].po \in Orders
  BY <1>1, <1>2, <1>3, <1>5 DEF ImportInv, Linked
<1> HIDE DEF q
<1> QED
  BY <1>1, <1>2, <1>4, <1>5, <1>6, <1>7, <1>8, RowStep

\* A draft is deleted by the request that has it: nothing was imported.
LEMMA DropImports ==
    ASSUME ImportInv, NEW r \in Requests, NEW k \in Receipts, DeleteDraft(r, k)
    PROVE  ImportInv'
<1>1. /\ req[r].call = "drop" /\ req[r].id = k /\ Has(r, k)
      /\ receipt' = [receipt EXCEPT ![k].status = "deleted"]
      /\ req' = [req EXCEPT ![r] = Idle]
      /\ UNCHANGED <<po, imported, debt, pfo, raced, failed>>
  BY DEF DeleteDraft, At, Done, Has
<1>2. \A m \in Receipts :
        receipt'[m] = IF m = k THEN [receipt[m] EXCEPT !.status = "deleted"] ELSE receipt[m]
  BY <1>1, Rows DEF TypeOK
<1>3. receipt'[k].status = "deleted" /\ receipt'[k].po = receipt[k].po /\ receipt'[k] \in ReceiptRow
  BY <1>2, Rows DEF TypeOK, ReceiptRow
<1>4. req' \in [Requests -> Request] /\ \A s \in Requests : req'[s] = IF s = r THEN Idle ELSE req[s]
  BY <1>1, IdleGood, Rows DEF GoodRequest
<1>5. \A s \in Requests, m \in Receipts : Has(s, m)' <=> Has(s, m) /\ s # r
  BY <1>4, IdleGood DEF Has
<1>6. ASSUME NEW m \in Receipts, Exact(m)
      PROVE  Exact(m)'
  <2>1. CASE m = k
    <3>1. Imports(req[r], receipt[k], imported[k]) /\ \A s \in Requests : Has(s, k) => s = r
      BY <1>1, <1>6, <2>1 DEF Exact
    <3>2. imported[k] = 0
      BY <1>1, <3>1 DEF Imports
    <3> QED
      BY <1>1, <1>3, <1>5, <2>1, <3>1, <3>2 DEF Exact, Settles
  <2>2. CASE m # k
    <3>1. ~Has(r, m)
      BY <1>1, <2>2 DEF Has
    <3> QED
      BY <1>1, <1>2, <1>4, <1>5, <1>6, <2>2, <3>1 DEF Exact
  <2> QED
    BY <2>1, <2>2
<1>7. TypeOK'
  BY <1>1, <1>2, <1>3, Rows DEF TypeOK, ImportInv, Linked
<1>8. Typed'
  BY <1>4, <1>7, IdleGood, Rows DEF Typed
<1>9. Linked'
  BY <1>1, <1>2, <1>3, <1>5 DEF ImportInv, Linked
<1> QED
  BY <1>1, <1>6, <1>8, <1>9 DEF ImportInv

\* Steps of a confirmation that work on the debt or on the order.
LEMMA BooksImport ==
    ASSUME ImportInv, NEW r \in Requests,
           ReadDebt(r) \/ SaveDebt(r) \/ ReadPo(r) \/ SavePo(r) \/ CountReceipts(r)
    PROVE  ImportInv'
<1>1. GoodRequest(req[r]) /\ req[r].call = "confirm"
  BY Rows DEF ReadDebt, SaveDebt, ReadPo, SavePo, CountReceipts, At
<1>2. OrderOf(r) \in Orders /\ po[OrderOf(r)] \in Order
  BY <1>1, Rows DEF OrderOf, GoodRequest, TypeOK
<1>3. Owed(req[r].receipt) \in Nat /\ req[r].receipt.fee \in Nat /\ req[r].po \in Order
      /\ req[r].amount \in Nat
  BY <1>1 DEF Owed, GoodRequest, Request, ReceiptRow
<1>4. UNCHANGED <<receipt, imported, raced, failed, pfo>>
  BY DEF ReadDebt, SaveDebt, ReadPo, SavePo, CountReceipts
<1>5. CASE ReadDebt(r)
  <2> DEFINE step == IF Owed(req[r].receipt) > 0 THEN "saveDebt" ELSE "readPo"
             n == debt + Owed(req[r].receipt)
             q == [req[r] EXCEPT !.at = step, !.amount = n]
  <2>1. step \in Between /\ n \in Nat
    BY <1>3, Rows DEF Between, TypeOK
  <2> HIDE DEF step, n
  <2>2. /\ GoodRequest(q) /\ q.call = "confirm" /\ q.id = req[r].id /\ q.at \in Between
        /\ q.receipt = req[r].receipt
    BY <1>1, <2>1 DEF GoodRequest, Request, OnOrders
  <2>3. req' = [req EXCEPT ![r] = q] /\ req[r].at = "readDebt" /\ UNCHANGED <<po, debt>>
    BY <1>5, Rows DEF ReadDebt, At, step, n
  <2>4. TypeOK'
    BY <1>4, <2>3, Rows DEF TypeOK
  <2>5. \A k \in Receipts :
          Imports(req[r], receipt[k], imported[k]) => Imports(q, receipt[k], imported[k])
    BY <1>1, <2>2, <2>3 DEF Imports, Before, Between, After
  <2> HIDE DEF q
  <2> QED
    BY <1>1, <1>4, <2>2, <2>3, <2>4, <2>5, RequestStep
<1>6. CASE SaveDebt(r)
  <2> DEFINE q == [req[r] EXCEPT !.at = "readPo"]
  <2>1. /\ GoodRequest(q) /\ q.call = "confirm" /\ q.id = req[r].id /\ q.at = "readPo"
        /\ q.receipt = req[r].receipt
    BY <1>1 DEF GoodRequest, Request, OnOrders, Between
  <2>2. req' = [req EXCEPT ![r] = q] /\ req[r].at = "saveDebt" /\ debt' = req[r].amount /\ po' = po
    BY <1>6, Rows DEF SaveDebt, At, Goto
  <2>3. TypeOK'
    BY <1>3, <1>4, <2>2, Rows DEF TypeOK
  <2>4. \A k \in Receipts :
          Imports(req[r], receipt[k], imported[k]) => Imports(q, receipt[k], imported[k])
    BY <1>1, <2>1, <2>2 DEF Imports, Before, Between, After
  <2> HIDE DEF q
  <2> QED
    BY <1>1, <1>4, <2>1, <2>2, <2>3, <2>4, RequestStep
<1>7. CASE ReadPo(r)
  <2> DEFINE q == [req[r] EXCEPT !.at = "savePo", !.po = po[OrderOf(r)]]
  <2>1. /\ GoodRequest(q) /\ q.call = "confirm" /\ q.id = req[r].id /\ q.at = "savePo"
        /\ q.receipt = req[r].receipt
    BY <1>1, <1>2 DEF GoodRequest, Request, OnOrders, Between
  <2>2. req' = [req EXCEPT ![r] = q] /\ req[r].at = "readPo" /\ UNCHANGED <<po, debt>>
    BY <1>7, Rows DEF ReadPo, At
  <2>3. TypeOK'
    BY <1>4, <2>2, Rows DEF TypeOK
  <2>4. \A k \in Receipts :
          Imports(req[r], receipt[k], imported[k]) => Imports(q, receipt[k], imported[k])
    BY <1>1, <2>1, <2>2 DEF Imports, Before, Between, After
  <2> HIDE DEF q
  <2> QED
    BY <1>1, <1>4, <2>1, <2>2, <2>3, <2>4, RequestStep
<1>8. CASE SavePo(r)
  <2> DEFINE q == [req[r] EXCEPT !.at = "complete"]
             row == [req[r].po EXCEPT !.total = @ + req[r].receipt.fee, !.qty = po[OrderOf(r)].qty]
  <2>1. /\ GoodRequest(q) /\ q.call = "confirm" /\ q.id = req[r].id /\ q.at = "complete"
        /\ q.receipt = req[r].receipt
    BY <1>1 DEF GoodRequest, Request, OnOrders, Between
  <2>2. /\ req' = [req EXCEPT ![r] = q] /\ req[r].at = "savePo"
        /\ po' = [po EXCEPT ![OrderOf(r)] = row] /\ debt' = debt
    BY <1>8, Rows DEF SavePo, At, Goto
  <2>3. row \in Order
    <3>1. /\ req[r].po.total + req[r].receipt.fee \in Nat /\ po[OrderOf(r)].qty \in Nat
          /\ req[r].po \in [status : Moving \cup {"DRAFT", "CANCELLED"}, qty : Nat, total : Nat]
      BY <1>2, <1>3 DEF Order
    <3>2. ASSUME NEW a \in Nat, NEW b \in Nat
          PROVE  [req[r].po EXCEPT !.total = a, !.qty = b] \in Order
      BY <3>1 DEF Order
    <3> QED
      BY <3>1, <3>2
  <2>4. TypeOK'
    BY <1>2, <1>4, <2>2, <2>3, Rows DEF TypeOK
  <2>5. \A k \in Receipts :
          Imports(req[r], receipt[k], imported[k]) => Imports(q, receipt[k], imported[k])
    BY <1>1, <2>1, <2>2 DEF Imports, Before, Between, After
  <2> HIDE DEF q
  <2> QED
    BY <1>1, <1>4, <2>1, <2>2, <2>4, <2>5, RequestStep
<1>9. CASE CountReceipts(r)
  <2> DEFINE p == OrderOf(r)
             status == StatusFor(Received(p), po[p].qty, po[p].status)
             row == [po[p] EXCEPT !.status = status]
             q == [req[r] EXCEPT !.at = "status", !.po = row]
  <2>1. status \in Moving \cup {"DRAFT", "CANCELLED"}
    BY <1>2 DEF StatusFor, Moving, Order
  <2> HIDE DEF status
  <2>2. row \in Order
    BY <1>2, <2>1 DEF Order
  <2> HIDE DEF row
  <2>3. /\ GoodRequest(q) /\ q.call = "confirm" /\ q.id = req[r].id /\ q.at = "status"
        /\ q.receipt = req[r].receipt
    BY <1>1, <2>2 DEF GoodRequest, Request, OnOrders, After
  <2>4. req' = [req EXCEPT ![r] = q] /\ req[r].at = "count" /\ UNCHANGED <<po, debt>>
    BY <1>9, Rows DEF CountReceipts, At, row, status
  <2>5. TypeOK'
    BY <1>4, <2>4, Rows DEF TypeOK
  <2>6. \A k \in Receipts :
          Imports(req[r], receipt[k], imported[k]) => Imports(q, receipt[k], imported[k])
    BY <1>1, <2>3, <2>4 DEF Imports, Before, Between, After
  <2> HIDE DEF q
  <2> QED
    BY <1>1, <1>4, <2>3, <2>4, <2>5, <2>6, RequestStep
<1> QED
  BY <1>5, <1>6, <1>7, <1>8, <1>9

\* The last step of a confirmation, and a request cut short.
LEMMA EndsImport ==
    ASSUME ImportInv, NEW r \in Requests, SaveStatus(r) \/ Fail(r)
    PROVE  ImportInv'
<1>1. GoodRequest(req[r])
  BY Rows
<1>2. CASE SaveStatus(r)
  <2>1. /\ req[r].call = "confirm" /\ req[r].at = "status"
        /\ po' = [po EXCEPT ![OrderOf(r)] = req[r].po]
        /\ req' = [req EXCEPT ![r] = Idle]
        /\ UNCHANGED <<receipt, imported, debt, pfo, raced, failed>>
    BY <1>2 DEF SaveStatus, At, Done
  <2>2. TypeOK'
    BY <1>1, <2>1, Rows DEF TypeOK, GoodRequest, Request
  <2>3. \A k \in Receipts :
          Imports(req[r], receipt[k], imported[k]) => Settles(receipt[k], imported[k])
    BY <2>1 DEF Imports, Settles, After
  <2> QED
    BY <2>1, <2>2, <2>3, EndStep
<1>3. CASE Fail(r)
  <2>1. /\ req' = [req EXCEPT ![r] = Idle] /\ failed' = failed \cup InHand(r)
        /\ UNCHANGED <<po, receipt, imported, debt, pfo, raced>>
    BY <1>3 DEF Fail, Done
  <2>2. TypeOK'
    BY <2>1, Rows DEF TypeOK
  <2>3. \A k \in Receipts : Has(r, k) => k \in failed'
    BY <2>1, HandsOnReceipts DEF ImportInv
  <2> QED
    BY <2>1, <2>2, <2>3, EndStep
<1> QED
  BY <1>2, <1>3

\* Requests for an order change no receipt.
LEMMA OrdersImport ==
    ASSUME ImportInv, NEW r \in Requests,
           \/ \E p \in Orders :
                \/ \E n \in Corrections : SaveItems(r, p, n)
                \/ SaveOrdered(r, p) \/ SaveReceived(r, p)
                \/ \E answer \in Answers(req[r].po.status) : SaveAnswer(r, p, answer)
           \/ CheckPfo(r)
    PROVE  ImportInv'
<1>1. /\ GoodRequest(req[r]) /\ req[r].call \in OnOrders /\ req[r].po \in Order
      /\ \A k \in Receipts : ~Has(r, k)
  BY Rows DEF SaveItems, SaveOrdered, SaveReceived, SaveAnswer, CheckPfo, At, GoodRequest, Request,
     OnOrders, Has
<1>2. UNCHANGED <<receipt, imported, debt, raced, failed>>
  BY DEF SaveItems, SaveOrdered, SaveReceived, SaveAnswer, SaveWithStatus, CheckPfo
<1>3. ASSUME NEW p \in Orders, NEW row \in Order, po' = [po EXCEPT ![p] = row], pfo' = pfo
      PROVE  TypeOK'
  BY <1>2, <1>3, Rows DEF TypeOK
<1>4. ASSUME NEW p \in Orders, NEW n \in Corrections, SaveItems(r, p, n)
      PROVE  ImportInv'
  <2> DEFINE row == [req[r].po EXCEPT !.qty = n, !.total = n]
  <2>1. n \in Nat
    BY ReceivingConstants DEF ReceivingConstants
  <2>2. row \in Order
    BY <1>1, <2>1 DEF Order
  <2>3. po' = [po EXCEPT ![p] = row] /\ pfo' = pfo /\ req' = [req EXCEPT ![r] = Idle]
    BY <1>4 DEF SaveItems, Done
  <2>4. TypeOK'
    BY <1>3, <2>2, <2>3
  <2> QED
    BY <1>1, <1>2, <2>3, <2>4, EndStep
<1>5. ASSUME NEW p \in Orders, NEW status \in Moving \cup {"DRAFT", "CANCELLED"},
             SaveWithStatus(r, p, status)
      PROVE  TypeOK'
  <2> DEFINE row == [req[r].po EXCEPT !.status = status]
  <2>1. row \in Order
    BY <1>1 DEF Order
  <2>2. po' = [po EXCEPT ![p] = row] /\ pfo' = pfo
    BY <1>5 DEF SaveWithStatus
  <2> QED
    BY <1>3, <2>1, <2>2
<1>6. ASSUME NEW p \in Orders, SaveOrdered(r, p) \/ SaveReceived(r, p)
      PROVE  ImportInv'
  <2>1. TypeOK'
    BY <1>5, <1>6 DEF SaveOrdered, SaveReceived, Moving
  <2>2. req' = [req EXCEPT ![r] = Idle]
    BY <1>6 DEF SaveOrdered, SaveReceived, Done
  <2> QED
    BY <1>1, <1>2, <2>1, <2>2, EndStep
<1>7. ASSUME NEW p \in Orders, NEW answer \in Answers(req[r].po.status), SaveAnswer(r, p, answer)
      PROVE  ImportInv'
  <2> DEFINE q == [req[r] EXCEPT !.at = "check"]
  <2>1. answer \in Moving \cup {"DRAFT", "CANCELLED"}
    BY <1>1 DEF Answers, Moving, Order
  <2>2. TypeOK'
    BY <1>5, <1>7, <2>1 DEF SaveAnswer
  <2>3. req' = [req EXCEPT ![r] = q]
    BY <1>7, Rows DEF SaveAnswer, Goto
  <2>4. GoodRequest(q) /\ q.call = req[r].call /\ q.id = req[r].id
    BY <1>1 DEF GoodRequest, Request, OnOrders
  <2> HIDE DEF q
  <2> QED
    BY <1>1, <1>2, <2>2, <2>3, <2>4, RequestStep
<1>8. CASE CheckPfo(r)
  <2>1. req' = [req EXCEPT ![r] = Idle] /\ po' = po
    BY <1>8 DEF CheckPfo, Done
  <2>2. pfo' \in {"DRAFT", "IN_PRODUCTION", "READY_TO_SHIP"}
    BY <1>8, Rows DEF CheckPfo, TypeOK
  <2>3. TypeOK'
    BY <1>2, <2>1, <2>2, Rows DEF TypeOK
  <2> QED
    BY <1>1, <1>2, <2>1, <2>3, EndStep
<1> QED
  BY <1>4, <1>6, <1>7, <1>8

--------------------------------------------------------------------------------
LEMMA ReceiptsImport ==
    ASSUME ImportInv, NEW r \in Requests, NEW k \in Receipts, OnReceipt(r, k)
    PROVE  ImportInv'
<1>1. CASE SaveData(r, k, req[r].receipt.qty, req[r].receipt.fee)
  <2>1. req[r].receipt.qty \in Nat /\ req[r].receipt.fee \in Nat
    BY Rows DEF GoodRequest, Request, ReceiptRow
  <2> QED
    BY <1>1, <2>1, DataImports
<1>2. ASSUME NEW n \in Amounts, NEW fee \in Fees, SaveData(r, k, n, fee)
      PROVE  ImportInv'
  <2>1. n \in Nat /\ fee \in Nat
    BY ReceivingConstants DEF ReceivingConstants
  <2> QED
    BY <1>2, <2>1, DataImports
<1> QED
  BY <1>1, <1>2, BeginsImport, ImportImports, CompleteImports, DropImports DEF OnReceipt

LEMMA ImportStep == ImportInv /\ [Next]_vars => ImportInv'
<1> SUFFICES ASSUME ImportInv, [Next]_vars PROVE ImportInv'
  OBVIOUS
<1>1. CASE UNCHANGED vars
  BY <1>1 DEF vars, history, ImportInv, Typed, TypeOK, Linked, Exact, Has
<1>2. ASSUME NEW k \in Receipts, NEW p \in Orders, NEW n \in Amounts, CreateDraftReceipt(k, p, n)
      PROVE  ImportInv'
  BY <1>2, CreateImports
<1>3. ASSUME NEW r \in Requests, NEW p \in Orders, OnOrder(r, p)
      PROVE  ImportInv'
  BY <1>3, BeginsImport, OrdersImport DEF OnOrder, OnOrders
<1>4. ASSUME NEW r \in Requests,
             \/ \E k \in Receipts : OnReceipt(r, k)
             \/ ReadDebt(r) \/ SaveDebt(r) \/ ReadPo(r) \/ SavePo(r)
             \/ CountReceipts(r) \/ SaveStatus(r) \/ CheckPfo(r) \/ Fail(r)
      PROVE  ImportInv'
  BY <1>4, ReceiptsImport, BooksImport, EndsImport, OrdersImport
<1> QED
  BY <1>1, <1>2, <1>3, <1>4 DEF Next

\* Orders, receipts, the debt and the plan keep their fields, and a receipt in
\* use names its order, whatever requests write back.
THEOREM ReceivingTyped == Spec => []TypeOK
<1>1. ImportInv => TypeOK
  BY DEF ImportInv, Typed
<1> QED
  BY <1>1, ImportAtStart, ImportStep, PTL DEF Spec

\* However confirmations, corrections and deletions of different receipts
\* interleave: a receipt that no two requests had in hand together, and that no
\* fault hit, is in stock_history once if it is completed, and not otherwise.
THEOREM ReceiptsImportOnce == Spec => []ImportedOnce
<1>1. ImportInv => ImportedOnce
  <2> SUFFICES ASSUME ImportInv, NEW k \in Receipts, Settled(k)
               PROVE  Settles(receipt[k], imported[k])
    BY DEF ImportedOnce, Settles
  <2>1. \A r \in Requests : ~Has(r, k)
    BY HandsOnReceipts DEF Settled, ImportInv
  <2> QED
    BY <2>1 DEF Settled, ImportInv, Exact
<1> QED
  BY <1>1, ImportAtStart, ImportStep, PTL DEF Spec

--------------------------------------------------------------------------------
(* What the completed receipts add up to *)

Completed(rc) == {k \in Receipts : rc[k].status = "COMPLETED"}
CompletedFor(rc, p) == {k \in Receipts : rc[k].status = "COMPLETED" /\ rc[k].po = p}
Owes(rc) == SumFunctionOnSet([k \in Receipts |-> rc[k].qty + rc[k].fee], Completed(rc))
Freight(rc, p) == SumFunctionOnSet([k \in Receipts |-> rc[k].fee], CompletedFor(rc, p))
Arrived(rc, p) == SumFunctionOnSet([k \in Receipts |-> rc[k].qty], CompletedFor(rc, p))

LEMMA FiniteReceipts ==
    ASSUME NEW rc
    PROVE  IsFiniteSet(Completed(rc)) /\ \A p : IsFiniteSet(CompletedFor(rc, p))
<1>1. IsFiniteSet(Receipts)
  BY ReceivingConstants DEF ReceivingConstants
<1>2. Completed(rc) \subseteq Receipts /\ \A p : CompletedFor(rc, p) \subseteq Receipts
  BY DEF Completed, CompletedFor
<1> QED
  BY <1>1, <1>2, FS_Subset

LEMMA BooksTyped ==
    ASSUME NEW rc \in [Receipts -> ReceiptRow], NEW p
    PROVE  Owes(rc) \in Nat /\ Freight(rc, p) \in Nat /\ Arrived(rc, p) \in Nat
<1> DEFINE owed == [k \in Receipts |-> rc[k].qty + rc[k].fee]
           fee == [k \in Receipts |-> rc[k].fee]
           qty == [k \in Receipts |-> rc[k].qty]
<1>1. \A k \in Receipts : rc[k].qty \in Nat /\ rc[k].fee \in Nat
  BY DEF ReceiptRow
<1>2. \A k \in Receipts : owed[k] \in Nat /\ fee[k] \in Nat /\ qty[k] \in Nat
  BY <1>1
<1>3. Completed(rc) \subseteq Receipts /\ CompletedFor(rc, p) \subseteq Receipts
  BY DEF Completed, CompletedFor
<1> HIDE DEF owed, fee, qty
<1>4. \A k \in Completed(rc) : owed[k] \in Nat
  BY <1>2, <1>3
<1>5. \A k \in CompletedFor(rc, p) : fee[k] \in Nat
  BY <1>2, <1>3
<1>6. \A k \in CompletedFor(rc, p) : qty[k] \in Nat
  BY <1>2, <1>3
<1>7. SumFunctionOnSet(owed, Completed(rc)) \in Nat
  BY <1>4, FiniteReceipts, SumNat
<1>8. SumFunctionOnSet(fee, CompletedFor(rc, p)) \in Nat
  BY <1>5, FiniteReceipts, SumNat
<1>9. SumFunctionOnSet(qty, CompletedFor(rc, p)) \in Nat
  BY <1>6, FiniteReceipts, SumNat
<1> QED
  BY <1>7, <1>8, <1>9 DEF Owes, Freight, Arrived, owed, fee, qty

\* Receipts that are not completed change: the books do not.
LEMMA BooksSame ==
    ASSUME NEW rc, NEW rd, NEW p,
           \A k \in Receipts : \/ rd[k] = rc[k]
                               \/ rc[k].status # "COMPLETED" /\ rd[k].status # "COMPLETED"
    PROVE  Owes(rd) = Owes(rc) /\ Freight(rd, p) = Freight(rc, p) /\ Arrived(rd, p) = Arrived(rc, p)
<1> DEFINE owed(f) == [k \in Receipts |-> f[k].qty + f[k].fee]
           fee(f) == [k \in Receipts |-> f[k].fee]
           qty(f) == [k \in Receipts |-> f[k].qty]
<1>1. Completed(rd) = Completed(rc) /\ CompletedFor(rd, p) = CompletedFor(rc, p)
  BY DEF Completed, CompletedFor
<1>2. /\ \A k \in Completed(rc) : owed(rc)[k] = owed(rd)[k]
      /\ \A k \in CompletedFor(rc, p) : fee(rc)[k] = fee(rd)[k]
      /\ \A k \in CompletedFor(rc, p) : qty(rc)[k] = qty(rd)[k]
  BY DEF Completed, CompletedFor
<1> HIDE DEF owed, fee, qty
<1>3. SumFunctionOnSet(owed(rc), Completed(rc)) = SumFunctionOnSet(owed(rd), Completed(rc))
  BY <1>2, FiniteReceipts, SumSame
<1>4. SumFunctionOnSet(fee(rc), CompletedFor(rc, p)) = SumFunctionOnSet(fee(rd), CompletedFor(rc, p))
  BY <1>2, FiniteReceipts, SumSame
<1>5. SumFunctionOnSet(qty(rc), CompletedFor(rc, p)) = SumFunctionOnSet(qty(rd), CompletedFor(rc, p))
  BY <1>2, FiniteReceipts, SumSame
<1> QED
  BY <1>1, <1>3, <1>4, <1>5 DEF Owes, Freight, Arrived, owed, fee, qty

\* One more sum: f over S, g over S with e.
AddsOne(f, g, S, e) == SumFunctionOnSet(g, S \cup {e}) = SumFunctionOnSet(f, S) + g[e]

LEMMA SumMore ==
    ASSUME NEW S, IsFiniteSet(S), NEW f, NEW g, NEW e, e \notin S,
           \A x \in S \cup {e} : g[x] \in Nat, \A x \in S : f[x] = g[x]
    PROVE  AddsOne(f, g, S, e)
<1>1. \A x \in S \cup {e} : g[x] \in Int
  OBVIOUS
<1>2. SumFunctionOnSet(g, S \cup {e}) = SumFunctionOnSet(g, S) + g[e]
  BY <1>1, SumInsert
<1>3. SumFunctionOnSet(f, S) = SumFunctionOnSet(g, S)
  BY SumSame
<1> QED
  BY <1>2, <1>3 DEF AddsOne

\* A receipt is completed: it is added to the books.
LEMMA BooksMore ==
    ASSUME NEW rc, NEW rd \in [Receipts -> ReceiptRow], NEW k \in Receipts, NEW p,
           rc[k].status # "COMPLETED", rd[k].status = "COMPLETED",
           \A m \in Receipts \ {k} : rd[m] = rc[m]
    PROVE  /\ Owes(rd) = Owes(rc) + (rd[k].qty + rd[k].fee)
           /\ rd[k].po = p => /\ Freight(rd, p) = Freight(rc, p) + rd[k].fee
                              /\ Arrived(rd, p) = Arrived(rc, p) + rd[k].qty
           /\ rd[k].po # p => /\ Freight(rd, p) = Freight(rc, p)
                              /\ Arrived(rd, p) = Arrived(rc, p)
<1> DEFINE owedWas == [m \in Receipts |-> rc[m].qty + rc[m].fee]
           owed == [m \in Receipts |-> rd[m].qty + rd[m].fee]
           feeWas == [m \in Receipts |-> rc[m].fee]
           fee == [m \in Receipts |-> rd[m].fee]
           qtyWas == [m \in Receipts |-> rc[m].qty]
           qty == [m \in Receipts |-> rd[m].qty]
<1>1. \A m \in Receipts : rd[m].qty \in Nat /\ rd[m].fee \in Nat
  BY DEF ReceiptRow
<1>2. /\ \A m \in Receipts : owed[m] \in Nat /\ fee[m] \in Nat /\ qty[m] \in Nat
      /\ owed[k] = rd[k].qty + rd[k].fee /\ fee[k] = rd[k].fee /\ qty[k] = rd[k].qty
  BY <1>1
<1>3. /\ \A m \in Receipts \ {k} : owedWas[m] = owed[m]
      /\ \A m \in Receipts \ {k} : feeWas[m] = fee[m]
      /\ \A m \in Receipts \ {k} : qtyWas[m] = qty[m]
  OBVIOUS
<1>4. /\ Completed(rd) = Completed(rc) \cup {k} /\ Completed(rc) \subseteq Receipts \ {k}
      /\ CompletedFor(rc, p) \subseteq Receipts \ {k}
      /\ rd[k].po = p => CompletedFor(rd, p) = CompletedFor(rc, p) \cup {k}
      /\ rd[k].po # p => CompletedFor(rd, p) = CompletedFor(rc, p)
  BY DEF Completed, CompletedFor
<1> HIDE DEF owed, fee, qty, owedWas, feeWas, qtyWas
<1>5. SumFunctionOnSet(owed, Completed(rc) \cup {k})
        = SumFunctionOnSet(owedWas, Completed(rc)) + owed[k]
  <2> DEFINE S == Completed(rc)
  <2>1. k \notin S
    BY <1>4
  <2>0. IsFiniteSet(S)
    BY <1>4, FiniteReceipts
  <2>2. \A m \in S \cup {k} : owed[m] \in Nat
    BY <1>2, <1>4
  <2>3. \A m \in S : owedWas[m] = owed[m]
    BY <1>3, <1>4
  <2> HIDE DEF S
  <2>4. AddsOne(owedWas, owed, S, k)
    BY <2>0, <2>1, <2>2, <2>3, SumMore, Zenon
  <2> QED
    BY <2>4 DEF S, AddsOne
<1>6. SumFunctionOnSet(fee, CompletedFor(rc, p) \cup {k})
        = SumFunctionOnSet(feeWas, CompletedFor(rc, p)) + fee[k]
  <2> DEFINE S == CompletedFor(rc, p)
  <2>1. k \notin S
    BY <1>4
  <2>0. IsFiniteSet(S)
    BY <1>4, FiniteReceipts
  <2>2. \A m \in S \cup {k} : fee[m] \in Nat
    BY <1>2, <1>4
  <2>3. \A m \in S : feeWas[m] = fee[m]
    BY <1>3, <1>4
  <2> HIDE DEF S
  <2>4. AddsOne(feeWas, fee, S, k)
    BY <2>0, <2>1, <2>2, <2>3, SumMore, Zenon
  <2> QED
    BY <2>4 DEF S, AddsOne
<1>7. SumFunctionOnSet(qty, CompletedFor(rc, p) \cup {k})
        = SumFunctionOnSet(qtyWas, CompletedFor(rc, p)) + qty[k]
  <2> DEFINE S == CompletedFor(rc, p)
  <2>1. k \notin S
    BY <1>4
  <2>0. IsFiniteSet(S)
    BY <1>4, FiniteReceipts
  <2>2. \A m \in S \cup {k} : qty[m] \in Nat
    BY <1>2, <1>4
  <2>3. \A m \in S : qtyWas[m] = qty[m]
    BY <1>3, <1>4
  <2> HIDE DEF S
  <2>4. AddsOne(qtyWas, qty, S, k)
    BY <2>0, <2>1, <2>2, <2>3, SumMore, Zenon
  <2> QED
    BY <2>4 DEF S, AddsOne
<1>8. CASE rd[k].po = p
  BY <1>2, <1>4, <1>5, <1>6, <1>7, <1>8
     DEF Owes, Freight, Arrived, owed, fee, qty, owedWas, feeWas, qtyWas
<1>9. CASE rd[k].po # p
  <2>1. \A m \in CompletedFor(rc, p) : feeWas[m] = fee[m]
    BY <1>3, <1>4
  <2>2. \A m \in CompletedFor(rc, p) : qtyWas[m] = qty[m]
    BY <1>3, <1>4
  <2>3. SumFunctionOnSet(feeWas, CompletedFor(rc, p)) = SumFunctionOnSet(fee, CompletedFor(rc, p))
    BY <2>1, FiniteReceipts, SumSame
  <2>4. SumFunctionOnSet(qtyWas, CompletedFor(rc, p)) = SumFunctionOnSet(qty, CompletedFor(rc, p))
    BY <2>2, FiniteReceipts, SumSame
  <2> QED
    BY <1>2, <1>4, <1>5, <1>9, <2>3, <2>4 DEF Owes, Freight, Arrived, owed, fee, qty, owedWas, feeWas, qtyWas
<1> QED
  BY <1>8, <1>9

--------------------------------------------------------------------------------
(* The debt and the totals of the orders *)

OnDebt(q) == q.call = "confirm"
OnTotal(q, p) == \/ q.call = "confirm" /\ q.receipt.po = p
                 \/ q.call \in OnOrders /\ q.id = p

\* A confirmation has added its receipt to the debt before it completes it.
Owing(q, owes, n) ==
    /\ q.at \in {"readPo", "savePo", "complete"} => n = owes + (q.receipt.qty + q.receipt.fee)
    /\ q.at \notin {"readPo", "savePo", "complete"} => n = owes
    /\ q.at = "saveDebt" => q.amount = n + (q.receipt.qty + q.receipt.fee)

\* It has added its freight to the order before it completes the receipt, and a
\* row of the order about to be written back holds the total as it is.
Charging(q, base, n) ==
    /\ q.at = "complete" => n = base + q.receipt.fee
    /\ q.at # "complete" => n = base
    /\ q.at \in {"savePo", "status", "save"} => q.po.total = n

\* At most one request has the debt, or the order p, in hand, and the n written
\* is what the completed receipts say, as far as that request has come.
DebtExact(rq, owes, n) ==
    /\ \A r, s \in Requests : OnDebt(rq[r]) /\ OnDebt(rq[s]) => r = s
    /\ \A r \in Requests : OnDebt(rq[r]) => Owing(rq[r], owes, n)
    /\ (\A r \in Requests : ~OnDebt(rq[r])) => n = owes
TotalExact(rq, p, base, n) ==
    /\ \A r, s \in Requests : OnTotal(rq[r], p) /\ OnTotal(rq[s], p) => r = s
    /\ \A r \in Requests : OnTotal(rq[r], p) => Charging(rq[r], base, n)
    /\ (\A r \in Requests : ~OnTotal(rq[r], p)) => n = base

Sound(row) == row \notin raced \cup failed /\ NoneTorn

DebtInv == Sound(Debt) => DebtExact(req, Owes(receipt), debt)
TotalInv ==
    \A p \in Orders \ repriced :
        Sound(p) => TotalExact(req, p, Ordered + Freight(receipt, p), po[p].total)

\* A request moves from q to s while the books move from owes, or base, to more.
DebtMoves(q, s, owes, n, more, m) ==
    /\ OnDebt(s) => OnDebt(q)
    /\ OnDebt(q) /\ Owing(q, owes, n) => IF OnDebt(s) THEN Owing(s, more, m) ELSE m = more
    /\ ~OnDebt(q) => more = owes /\ m = n
TotalMoves(q, s, p, base, n, more, m) ==
    /\ OnTotal(s, p) => OnTotal(q, p)
    /\ OnTotal(q, p) /\ Charging(q, base, n) =>
            IF OnTotal(s, p) THEN Charging(s, more, m) ELSE m = more
    /\ ~OnTotal(q, p) => more = base /\ m = n

LEMMA DebtTurn ==
    ASSUME NEW rq, NEW rr, NEW r \in Requests, NEW owes, NEW n, NEW more, NEW m,
           \A s \in Requests \ {r} : rr[s] = rq[s],
           DebtExact(rq, owes, n),
           DebtMoves(rq[r], rr[r], owes, n, more, m)
    PROVE  DebtExact(rr, more, m)
<1>1. \A s, t \in Requests : OnDebt(rr[s]) /\ OnDebt(rr[t]) => s = t
  BY DEF DebtExact, DebtMoves
<1>2. CASE OnDebt(rq[r])
  <2>1. \A s \in Requests \ {r} : ~OnDebt(rr[s])
    BY <1>2 DEF DebtExact, DebtMoves
  <2> QED
    BY <1>1, <1>2, <2>1 DEF DebtExact, DebtMoves
<1>3. CASE ~OnDebt(rq[r])
  BY <1>1, <1>3 DEF DebtExact, DebtMoves
<1> QED
  BY <1>2, <1>3

LEMMA DebtFirst ==
    ASSUME NEW rq, NEW rr, NEW r \in Requests, NEW owes, NEW n,
           \A s \in Requests \ {r} : rr[s] = rq[s],
           DebtExact(rq, owes, n),
           \A s \in Requests : ~OnDebt(rq[s]),
           n = owes => Owing(rr[r], owes, n)
    PROVE  DebtExact(rr, owes, n)
  BY DEF DebtExact

LEMMA TotalTurn ==
    ASSUME NEW rq, NEW rr, NEW r \in Requests, NEW p, NEW base, NEW n, NEW more, NEW m,
           \A s \in Requests \ {r} : rr[s] = rq[s],
           TotalExact(rq, p, base, n),
           TotalMoves(rq[r], rr[r], p, base, n, more, m)
    PROVE  TotalExact(rr, p, more, m)
<1>1. \A s, t \in Requests : OnTotal(rr[s], p) /\ OnTotal(rr[t], p) => s = t
  BY DEF TotalExact, TotalMoves
<1>2. CASE OnTotal(rq[r], p)
  <2>1. \A s \in Requests \ {r} : ~OnTotal(rr[s], p)
    BY <1>2 DEF TotalExact, TotalMoves
  <2> QED
    BY <1>1, <1>2, <2>1 DEF TotalExact, TotalMoves
<1>3. CASE ~OnTotal(rq[r], p)
  BY <1>1, <1>3 DEF TotalExact, TotalMoves
<1> QED
  BY <1>2, <1>3

LEMMA TotalFirst ==
    ASSUME NEW rq, NEW rr, NEW r \in Requests, NEW p, NEW base, NEW n,
           \A s \in Requests \ {r} : rr[s] = rq[s],
           TotalExact(rq, p, base, n),
           \A s \in Requests : ~OnTotal(rq[s], p),
           n = base => Charging(rr[r], base, n)
    PROVE  TotalExact(rr, p, base, n)
  BY DEF TotalExact


--------------------------------------------------------------------------------
(* Who has the debt, and who has an order, in hand *)

LEMMA RowsApart ==
    /\ Orders \cap Receipts = {} /\ Debt \notin Orders /\ Debt \notin Receipts
    /\ NoId \notin Orders /\ Ordered \in Nat
  BY ReceivingConstants DEF ReceivingConstants

LEMMA HandsOnBooks ==
    ASSUME Typed, NEW r \in Requests
    PROVE  /\ OnDebt(req[r]) <=> Debt \in InHand(r)
           /\ \A p \in Orders : OnTotal(req[r], p) <=> p \in InHand(r)
<1>1. GoodRequest(req[r])
  BY DEF Typed
<1>2. CASE req[r].call = "confirm"
  <2>1. InHand(r) = {req[r].id, req[r].receipt.po, Debt} /\ req[r].id \in Receipts
    BY <1>1, <1>2 DEF InHand, InFlight, RowsOf, OrderOf, GoodRequest
  <2>2. OnDebt(req[r]) /\ \A p \in Orders : OnTotal(req[r], p) <=> p = req[r].receipt.po
    BY <1>2 DEF OnDebt, OnTotal, OnOrders
  <2> QED
    BY <2>1, <2>2, RowsApart
<1>3. CASE req[r].call = "drop"
  <2>1. InHand(r) = {req[r].id} /\ req[r].id \in Receipts
    BY <1>1, <1>3 DEF InHand, InFlight, RowsOf, GoodRequest
  <2>2. ~OnDebt(req[r]) /\ \A p \in Orders : ~OnTotal(req[r], p)
    BY <1>3 DEF OnDebt, OnTotal, OnOrders
  <2> QED
    BY <2>1, <2>2, RowsApart
<1>4. CASE req[r].call \in OnOrders
  <2>1. InHand(r) = {req[r].id} /\ req[r].id \in Orders
    BY <1>1, <1>4, RowsApart DEF InHand, InFlight, RowsOf, OrderOf, GoodRequest, OnOrders
  <2>2. ~OnDebt(req[r]) /\ \A p \in Orders : OnTotal(req[r], p) <=> p = req[r].id
    BY <1>4 DEF OnDebt, OnTotal, OnOrders
  <2> QED
    BY <2>1, <2>2, RowsApart
<1>5. CASE req[r].call = "idle"
  BY <1>5 DEF OnDebt, OnTotal, OnOrders, InHand, InFlight
<1> QED
  BY <1>1, <1>2, <1>3, <1>4, <1>5 DEF GoodRequest, Request

LEMMA BookTurn ==
    ASSUME ImportInv, DebtInv, TotalInv, NEW r \in Requests, NEW q,
           req' = [req EXCEPT ![r] = q],
           raced \subseteq raced', failed \subseteq failed', repriced \subseteq repriced',
           Sound(Debt)' => DebtMoves(req[r], q, Owes(receipt), debt, Owes(receipt'), debt'),
           \A p \in Orders \ repriced' : Sound(p)' =>
                TotalMoves(req[r], q, p, Ordered + Freight(receipt, p), po[p].total,
                           Ordered + Freight(receipt', p), po'[p].total)
    PROVE  DebtInv' /\ TotalInv'
<1>1. req'[r] = q /\ \A s \in Requests \ {r} : req'[s] = req[s]
  BY DEF ImportInv, Typed
<1>2. \A row : Sound(row)' => Sound(row)
  BY DEF Sound, NoneTorn
<1>3. ASSUME Sound(Debt)'
      PROVE  DebtExact(req', Owes(receipt'), debt')
  <2> DEFINE owes == Owes(receipt)
             more == Owes(receipt')
             n == debt
             m == debt'
             rr == req'
  <2>1. DebtExact(req, owes, n)
    BY <1>2, <1>3 DEF DebtInv
  <2>2. DebtMoves(req[r], rr[r], owes, n, more, m)
    BY <1>1, <1>3
  <2>3. \A s \in Requests \ {r} : rr[s] = req[s]
    BY <1>1
  <2> HIDE DEF owes, more, n, m, rr
  <2>4. DebtExact(rr, more, m)
    BY <2>1, <2>2, <2>3, DebtTurn, Zenon
  <2> QED
    BY <2>4 DEF owes, more, n, m, rr
<1>4. ASSUME NEW p \in Orders \ repriced', Sound(p)'
      PROVE  TotalExact(req', p, Ordered + Freight(receipt', p), po'[p].total)
  <2> DEFINE base == Ordered + Freight(receipt, p)
             more == Ordered + Freight(receipt', p)
             n == po[p].total
             m == po'[p].total
             rr == req'
  <2>1. TotalExact(req, p, base, n)
    BY <1>2, <1>4 DEF TotalInv
  <2>2. TotalMoves(req[r], rr[r], p, base, n, more, m)
    BY <1>1, <1>4
  <2>3. \A s \in Requests \ {r} : rr[s] = req[s]
    BY <1>1
  <2> HIDE DEF base, more, n, m, rr
  <2>4. TotalExact(rr, p, more, m)
    BY <2>1, <2>2, <2>3, TotalTurn, Zenon
  <2> QED
    BY <2>4 DEF base, more, n, m, rr
<1> QED
  BY <1>3, <1>4 DEF DebtInv, TotalInv

\* What a request has read of a receipt that is not torn.
LEMMA RowsHeld ==
    ASSUME ImportInv, NoneTorn, NEW r \in Requests
    PROVE  /\ (req[r].call = "confirm" /\ req[r].at \in Before \cup Between) =>
                /\ req[r].id \in Receipts /\ receipt[req[r].id] = req[r].receipt
                /\ req[r].receipt.status = "DRAFT"
           /\ req[r].call = "drop" => req[r].id \in Receipts /\ receipt[req[r].id].status = "DRAFT"
<1>1. GoodRequest(req[r])
  BY DEF ImportInv, Typed
<1> DEFINE k == req[r].id
<1>2. req[r].call \in {"confirm", "drop"} => k \in Receipts /\ Has(r, k)
  BY <1>1 DEF GoodRequest, Has
<1>3. \A m \in Receipts : Exact(m)
  BY DEF ImportInv, NoneTorn
<1>4. req[r].call \in {"confirm", "drop"} => Imports(req[r], receipt[k], imported[k])
  BY <1>2, <1>3 DEF Exact
<1> QED
  BY <1>2, <1>4 DEF Imports

LEMMA BooksRead ==
    ASSUME ImportInv
    PROVE  /\ Owes(receipt) \in Nat /\ debt \in Nat
           /\ \A p \in Orders : /\ Freight(receipt, p) \in Nat /\ po[p].total \in Nat
                                /\ po[p] \in Order /\ po[p].qty \in Nat
           /\ \A r \in Requests : /\ req[r].receipt.qty \in Nat /\ req[r].receipt.fee \in Nat
                                  /\ req[r].receipt \in ReceiptRow /\ req[r].po \in Order
                                  /\ GoodRequest(req[r]) /\ req[r] \in Request
<1>1. TypeOK /\ \A r \in Requests : GoodRequest(req[r])
  BY DEF ImportInv, Typed
<1>2. Owes(receipt) \in Nat /\ \A p \in Orders : Freight(receipt, p) \in Nat
  BY <1>1, BooksTyped DEF TypeOK
<1> QED
  BY <1>1, <1>2 DEF TypeOK, Order, GoodRequest, Request, ReceiptRow

\* A request begins.
LEMMA BookBegins ==
    ASSUME ImportInv, DebtInv, TotalInv, NEW r \in Requests,
           NEW call \in {"drop", "confirm"} \cup OnOrders, NEW step, NEW id, NEW order \in Orders,
           NEW row, Begin(r, call, step, id, order, row),
           call = "confirm" => step = "data" /\ row.po = order,
           call \in OnOrders => step = "save" /\ id = order
    PROVE  DebtInv' /\ TotalInv'
<1> DEFINE q == [Idle EXCEPT !.call = call, !.at = step, !.id = id, !.po = po[order],
                             !.receipt = row]
<1>1. q.call = call /\ q.at = step /\ q.id = id /\ q.receipt = row /\ q.po = po[order]
  BY DEF Idle
<1>2. /\ req' = [req EXCEPT ![r] = q]
      /\ req[r].call = "idle"
      /\ raced' = raced \cup UNION {InHand(s) \cap RowsOf(call, id, order) : s \in InFlight}
      /\ UNCHANGED <<po, receipt, debt, failed, repriced>>
  BY DEF Begin, history
<1> HIDE DEF q
<1>3. req'[r] = q /\ \A s \in Requests \ {r} : req'[s] = req[s]
  BY <1>2 DEF ImportInv, Typed
<1>4. \A x : Sound(x)' => Sound(x)
  BY <1>2 DEF Sound, NoneTorn
<1>6. \A x \in RowsOf(call, id, order), s \in Requests : Sound(x)' => x \notin InHand(s)
  <2> SUFFICES ASSUME NEW x \in RowsOf(call, id, order), NEW s \in Requests, x \in InHand(s)
               PROVE  x \in raced'
    BY DEF Sound
  <2>1. s \in InFlight
    BY DEF InHand
  <2> QED
    BY <1>2, <2>1
<1>7. OnDebt(q) => Debt \in RowsOf(call, id, order)
  BY <1>1 DEF OnDebt, RowsOf
<1>8. \A p \in Orders : OnTotal(q, p) => p \in RowsOf(call, id, order) /\ p = order
  BY <1>1 DEF OnTotal, RowsOf, OnOrders
<1>9. ~OnDebt(req[r]) /\ \A p \in Orders : ~OnTotal(req[r], p)
  BY <1>2 DEF OnDebt, OnTotal, OnOrders
<1>10. Typed
  BY DEF ImportInv
<1>11. ASSUME Sound(Debt)'
       PROVE  DebtExact(req', Owes(receipt), debt)
  <2>1. DebtExact(req, Owes(receipt), debt)
    BY <1>4, <1>11 DEF DebtInv
  <2>2. CASE OnDebt(q)
    <3>1. \A s \in Requests : ~OnDebt(req[s])
      BY <1>6, <1>7, <1>10, <1>11, <2>2, HandsOnBooks
    <3>2. q.at = "data"
      BY <1>1, <2>2 DEF OnDebt
    <3>3. debt = Owes(receipt) => Owing(q, Owes(receipt), debt)
      BY <3>2 DEF Owing
    <3> QED
      BY <1>3, <2>1, <3>1, <3>3, DebtFirst
  <2>3. CASE ~OnDebt(q)
    <3>1. DebtMoves(req[r], req'[r], Owes(receipt), debt, Owes(receipt), debt)
      BY <1>3, <1>9, <2>3 DEF DebtMoves
    <3> QED
      BY <1>3, <2>1, <3>1, DebtTurn, Zenon
  <2> QED
    BY <2>2, <2>3
<1>12. ASSUME NEW p \in Orders \ repriced', Sound(p)'
       PROVE  TotalExact(req', p, Ordered + Freight(receipt, p), po[p].total)
  <2> DEFINE base == Ordered + Freight(receipt, p)
             n == po[p].total
             rr == req'
  <2>1. TotalExact(req, p, base, n)
    BY <1>2, <1>4, <1>12 DEF TotalInv
  <2>2. rr[r] = q /\ \A s \in Requests \ {r} : rr[s] = req[s]
    BY <1>3
  <2>3. OnTotal(q, p) => q.po.total = n
    BY <1>1, <1>8
  <2> HIDE DEF base, n, rr
  <2>4. CASE OnTotal(q, p)
    <3>1. \A s \in Requests : ~OnTotal(req[s], p)
      BY <1>6, <1>8, <1>10, <1>12, <2>4, HandsOnBooks
    <3>2. q.at # "complete"
      BY <1>1, <2>4 DEF OnTotal
    <3>3. n = base => Charging(rr[r], base, n)
      BY <2>2, <2>3, <2>4, <3>2 DEF Charging
    <3>4. TotalExact(rr, p, base, n)
      BY <2>1, <2>2, <3>1, <3>3, TotalFirst
    <3> QED
      BY <3>4 DEF base, n, rr
  <2>5. CASE ~OnTotal(q, p)
    <3>1. ~OnTotal(req[r], p) /\ ~OnTotal(rr[r], p)
      BY <1>9, <2>2, <2>5
    <3>2. TotalMoves(req[r], rr[r], p, base, n, base, n)
      BY <3>1 DEF TotalMoves
    <3>3. \A s \in Requests \ {r} : rr[s] = req[s]
      BY <2>2
    <3>4. TotalExact(rr, p, base, n)
      BY <2>1, <3>2, <3>3, TotalTurn, Zenon
    <3> QED
      BY <3>4 DEF base, n, rr
  <2> QED
    BY <2>4, <2>5
<1> QED
  BY <1>2, <1>11, <1>12 DEF DebtInv, TotalInv


--------------------------------------------------------------------------------
(* The steps, one by one *)

\* A confirmation works on: what its next step needs of the debt and its order.
LEMMA ConfirmTurn ==
    ASSUME ImportInv, DebtInv, TotalInv, NEW r \in Requests, NEW q,
           req' = [req EXCEPT ![r] = q], UNCHANGED <<raced, failed, repriced>>,
           req[r].call = "confirm", q.call = "confirm",
           q.receipt.po = req[r].receipt.po, req[r].receipt.po \in Orders,
           LET p == req[r].receipt.po
           IN  /\ Sound(Debt) /\ Owing(req[r], Owes(receipt), debt)
                      => Owing(q, Owes(receipt'), debt')
               /\ Sound(p) /\ Charging(req[r], Ordered + Freight(receipt, p), po[p].total)
                      => Charging(q, Ordered + Freight(receipt', p), po'[p].total),
           \A p \in Orders \ {req[r].receipt.po} :
                po'[p] = po[p] /\ (NoneTorn => Freight(receipt', p) = Freight(receipt, p))
    PROVE  DebtInv' /\ TotalInv'
<1> DEFINE o == req[r].receipt.po
<1>1. \A row : Sound(row)' <=> Sound(row)
  BY DEF Sound, NoneTorn
<1>2. Sound(Debt) => DebtMoves(req[r], q, Owes(receipt), debt, Owes(receipt'), debt')
  BY DEF DebtMoves, OnDebt
<1>3. ASSUME NEW p \in Orders, Sound(p)
      PROVE  TotalMoves(req[r], q, p, Ordered + Freight(receipt, p), po[p].total,
                        Ordered + Freight(receipt', p), po'[p].total)
  <2>1. CASE p = o
    BY <1>3, <2>1 DEF TotalMoves, OnTotal, OnOrders
  <2>2. CASE p # o
    <3>1. ~OnTotal(req[r], p) /\ ~OnTotal(q, p)
      BY <2>2 DEF OnTotal, OnOrders
    <3>2. NoneTorn
      BY <1>3 DEF Sound
    <3> QED
      BY <2>2, <3>1, <3>2 DEF TotalMoves
  <2> QED
    BY <2>1, <2>2
<1> QED
  BY <1>1, <1>2, <1>3, BookTurn

\* The receipts, but those completed, may change.
LEMMA DraftsAside ==
    ASSUME \A k \in Receipts : \/ receipt'[k] = receipt[k]
                               \/ receipt[k].status # "COMPLETED" /\ receipt'[k].status # "COMPLETED"
    PROVE  Owes(receipt') = Owes(receipt) /\ \A p : Freight(receipt', p) = Freight(receipt, p)
<1> DEFINE rd == receipt'
<1>1. \A k \in Receipts : \/ rd[k] = receipt[k]
                          \/ receipt[k].status # "COMPLETED" /\ rd[k].status # "COMPLETED"
  OBVIOUS
<1> HIDE DEF rd
<1>2. Owes(rd) = Owes(receipt) /\ \A p : Freight(rd, p) = Freight(receipt, p)
  BY <1>1, BooksSame
<1> QED
  BY <1>2 DEF rd

LEMMA DataBooks ==
    ASSUME ImportInv, DebtInv, TotalInv, NEW r \in Requests, NEW k \in Receipts,
           NEW n, NEW fee, SaveData(r, k, n, fee)
    PROVE  DebtInv' /\ TotalInv'
<1> DEFINE row == [req[r].receipt EXCEPT !.qty = n, !.fee = fee]
           q == [req[r] EXCEPT !.receipt = row, !.at = "import"]
<1>1. /\ req[r].call = "confirm" /\ req[r].at = "data" /\ req[r].id = k
      /\ receipt' = IF row = req[r].receipt THEN receipt ELSE [receipt EXCEPT ![k] = row]
      /\ req' = [req EXCEPT ![r] = q]
      /\ UNCHANGED <<po, debt, raced, failed, repriced>>
  BY BooksRead DEF SaveData, At, history
<1>2. /\ row.po = req[r].receipt.po /\ row.status = req[r].receipt.status
      /\ q.call = "confirm" /\ q.at = "import" /\ q.receipt = row /\ q.po = req[r].po
      /\ req[r].receipt.po \in Orders
  BY <1>1, BooksRead DEF ReceiptRow, Request, GoodRequest
<1>3. NoneTorn => Owes(receipt') = Owes(receipt) /\ \A p : Freight(receipt', p) = Freight(receipt, p)
  <2> SUFFICES ASSUME NoneTorn
               PROVE  Owes(receipt') = Owes(receipt) /\ \A p : Freight(receipt', p) = Freight(receipt, p)
    OBVIOUS
  <2>1. receipt[k].status = "DRAFT" /\ row.status = "DRAFT"
    BY <1>1, <1>2, RowsHeld DEF Before
  <2>2. \A m \in Receipts : receipt'[m] \in {receipt[m], IF m = k THEN row ELSE receipt[m]}
    BY <1>1 DEF ImportInv, Typed, TypeOK
  <2> HIDE DEF row
  <2>3. \A m \in Receipts : \/ receipt'[m] = receipt[m]
                            \/ receipt[m].status # "COMPLETED" /\ receipt'[m].status # "COMPLETED"
    BY <2>1, <2>2
  <2> QED
    BY <2>3, DraftsAside
<1> HIDE DEF q, row
<1>4. \A owes, m : Owing(req[r], owes, m) => Owing(q, owes, m)
  BY <1>1, <1>2 DEF Owing
<1>5. \A base, m : Charging(req[r], base, m) => Charging(q, base, m)
  BY <1>1, <1>2 DEF Charging
<1>6. \A x : Sound(x) => NoneTorn
  BY DEF Sound
<1> QED
  BY <1>1, <1>2, <1>3, <1>4, <1>5, <1>6, ConfirmTurn

\* Steps of a confirmation that leave the receipts as they are.
LEMMA BooksBooks ==
    ASSUME ImportInv, DebtInv, TotalInv, NEW r \in Requests,
           \/ \E k \in Receipts : Import(r, k)
           \/ ReadDebt(r) \/ SaveDebt(r) \/ ReadPo(r) \/ SavePo(r) \/ CountReceipts(r)
    PROVE  DebtInv' /\ TotalInv'
<1> DEFINE o == req[r].receipt.po
           row == req[r].receipt
           owed == row.qty + row.fee
<1>1. /\ req[r].call = "confirm" /\ o \in Orders /\ OrderOf(r) = o
      /\ UNCHANGED <<receipt, raced, failed, repriced>>
      /\ req[r] \in Request
  BY BooksRead DEF Import, ReadDebt, SaveDebt, ReadPo, SavePo, CountReceipts, At, GoodRequest,
     OrderOf, history
<1>2. owed \in Nat /\ row.fee \in Nat /\ debt \in Nat /\ Owes(receipt) \in Nat
      /\ po[o].total \in Nat /\ Freight(receipt, o) \in Nat /\ Ordered \in Nat
  BY <1>1, BooksRead, RowsApart
<1>3. po \in [Orders -> Order] /\ DOMAIN req = Requests
      /\ DOMAIN req[r] = {"call", "at", "id", "po", "receipt", "amount"}
  BY <1>1 DEF ImportInv, Typed, TypeOK, Request
<1>4. CASE \E k \in Receipts : Import(r, k)
  <2> DEFINE q == [req[r] EXCEPT !.at = "readDebt"]
  <2>1. /\ q.call = "confirm" /\ q.at = "readDebt" /\ q.receipt = row /\ req[r].at = "import"
        /\ req' = [req EXCEPT ![r] = q] /\ UNCHANGED <<po, debt>>
    BY <1>1, <1>3, <1>4 DEF Import, At, Goto
  <2> HIDE DEF q
  <2>2. \A owes, m : Owing(req[r], owes, m) => Owing(q, owes, m)
    BY <2>1 DEF Owing
  <2>3. \A base, m : Charging(req[r], base, m) => Charging(q, base, m)
    BY <2>1 DEF Charging
  <2> QED
    BY <1>1, <2>1, <2>2, <2>3, ConfirmTurn
<1>5. CASE ReadDebt(r)
  <2> DEFINE step == IF Owed(row) > 0 THEN "saveDebt" ELSE "readPo"
             n == debt + Owed(row)
             q == [req[r] EXCEPT !.at = step, !.amount = n]
  <2>1. /\ q.call = "confirm" /\ q.at = step /\ q.receipt = row /\ req[r].at = "readDebt"
        /\ q.amount = debt + owed
        /\ req' = [req EXCEPT ![r] = q] /\ UNCHANGED <<po, debt>>
    BY <1>1, <1>3, <1>5 DEF ReadDebt, At, Owed
  <2>2. step = "saveDebt" \/ (step = "readPo" /\ owed = 0)
    BY <1>2 DEF Owed
  <2> HIDE DEF q, step, n, owed
  <2>3. Owing(req[r], Owes(receipt), debt) => debt = Owes(receipt)
    BY <2>1 DEF Owing
  <2>4. owed = 0 => Owes(receipt) + owed = Owes(receipt)
    BY <1>2
  <2>5. debt = Owes(receipt) => Owing(q, Owes(receipt), debt)
    BY <2>1, <2>2, <2>4 DEF Owing, owed
  <2>6. \A base, m : Charging(req[r], base, m) => Charging(q, base, m)
    BY <2>1, <2>2 DEF Charging
  <2> QED
    BY <1>1, <2>1, <2>3, <2>5, <2>6, ConfirmTurn
<1>6. CASE SaveDebt(r)
  <2> DEFINE q == [req[r] EXCEPT !.at = "readPo"]
  <2>1. /\ q.call = "confirm" /\ q.at = "readPo" /\ q.receipt = row /\ req[r].at = "saveDebt"
        /\ debt' = req[r].amount
        /\ req' = [req EXCEPT ![r] = q] /\ UNCHANGED po
    BY <1>1, <1>3, <1>6 DEF SaveDebt, At, Goto
  <2> HIDE DEF q
  <2>2. Owing(req[r], Owes(receipt), debt) => Owing(q, Owes(receipt), debt')
    BY <2>1 DEF Owing
  <2>3. \A base, m : Charging(req[r], base, m) => Charging(q, base, m)
    BY <2>1 DEF Charging
  <2> QED
    BY <1>1, <2>1, <2>2, <2>3, ConfirmTurn
<1>7. CASE ReadPo(r)
  <2> DEFINE q == [req[r] EXCEPT !.at = "savePo", !.po = po[o]]
  <2>1. /\ q.call = "confirm" /\ q.at = "savePo" /\ q.receipt = row /\ req[r].at = "readPo"
        /\ q.po = po[o]
        /\ req' = [req EXCEPT ![r] = q] /\ UNCHANGED <<po, debt>>
    BY <1>1, <1>3, <1>7 DEF ReadPo, At
  <2> HIDE DEF q
  <2>2. \A owes, m : Owing(req[r], owes, m) => Owing(q, owes, m)
    BY <2>1 DEF Owing
  <2>3. \A base : Charging(req[r], base, po[o].total) => Charging(q, base, po[o].total)
    BY <2>1 DEF Charging
  <2> QED
    BY <1>1, <2>1, <2>2, <2>3, ConfirmTurn
<1>8. CASE SavePo(r)
  <2> DEFINE q == [req[r] EXCEPT !.at = "complete"]
             new == [req[r].po EXCEPT !.total = @ + row.fee, !.qty = po[o].qty]
  <2>1. /\ q.call = "confirm" /\ q.at = "complete" /\ q.receipt = row /\ req[r].at = "savePo"
        /\ po' = [po EXCEPT ![o] = new] /\ UNCHANGED debt
        /\ req' = [req EXCEPT ![r] = q]
    BY <1>1, <1>3, <1>8 DEF SavePo, At, Goto
  <2>2. new.total = req[r].po.total + row.fee
    BY BooksRead DEF Order
  <2> HIDE DEF q, new
  <2>3. po'[o] = new /\ \A p \in Orders \ {o} : po'[p] = po[p]
    BY <1>1, <1>3, <2>1
  <2>4. \A owes, m : Owing(req[r], owes, m) => Owing(q, owes, m)
    BY <2>1 DEF Owing
  <2>5. \A base : Charging(req[r], base, po[o].total) => Charging(q, base, po'[o].total)
    BY <2>1, <2>2, <2>3 DEF Charging
  <2> QED
    BY <1>1, <2>1, <2>3, <2>4, <2>5, ConfirmTurn
<1>9. CASE CountReceipts(r)
  <2> DEFINE status == StatusFor(Received(o), po[o].qty, po[o].status)
             new == [po[o] EXCEPT !.status = status]
             q == [req[r] EXCEPT !.at = "status", !.po = new]
  <2> HIDE DEF status
  <2>1. /\ q.call = "confirm" /\ q.at = "status" /\ q.receipt = row /\ req[r].at = "count"
        /\ q.po = new /\ new.total = po[o].total
        /\ req' = [req EXCEPT ![r] = q] /\ UNCHANGED <<po, debt>>
    BY <1>1, <1>3, <1>9, BooksRead DEF CountReceipts, At, Order, status
  <2> HIDE DEF q, new
  <2>2. \A owes, m : Owing(req[r], owes, m) => Owing(q, owes, m)
    BY <2>1 DEF Owing
  <2>3. \A base : Charging(req[r], base, po[o].total) => Charging(q, base, po[o].total)
    BY <2>1 DEF Charging
  <2> QED
    BY <1>1, <2>1, <2>2, <2>3, ConfirmTurn
<1> QED
  BY <1>4, <1>5, <1>6, <1>7, <1>8, <1>9


\* The receipt is completed: what the request has added is now owed.
LEMMA CompleteBooks ==
    ASSUME ImportInv, DebtInv, TotalInv, NEW r \in Requests, NEW k \in Receipts, Complete(r, k)
    PROVE  DebtInv' /\ TotalInv'
<1> DEFINE o == req[r].receipt.po
           row == req[r].receipt
           new == [row EXCEPT !.status = "COMPLETED"]
           q == [req[r] EXCEPT !.at = "count"]
<1>1. /\ req[r].call = "confirm" /\ req[r].at = "complete" /\ req[r].id = k /\ o \in Orders
      /\ receipt' = [receipt EXCEPT ![k] = new]
      /\ req' = [req EXCEPT ![r] = q]
      /\ UNCHANGED <<po, debt, raced, failed, repriced>>
  BY BooksRead DEF Complete, At, Goto, GoodRequest, history
<1>2. /\ q.call = "confirm" /\ q.at = "count" /\ q.receipt = row
      /\ new.po = o /\ new.qty = row.qty /\ new.fee = row.fee /\ new.status = "COMPLETED"
      /\ new \in ReceiptRow
  BY <1>1, BooksRead DEF Request, ReceiptRow
<1>3. row.qty \in Nat /\ row.fee \in Nat /\ Owes(receipt) \in Nat /\ Freight(receipt, o) \in Nat
      /\ Ordered \in Nat
  BY <1>1, BooksRead, RowsApart
<1>4. /\ receipt' \in [Receipts -> ReceiptRow] /\ receipt'[k] = new
      /\ \A m \in Receipts \ {k} : receipt'[m] = receipt[m]
  BY <1>1, <1>2 DEF ImportInv, Typed, TypeOK
<1>5. NoneTorn => receipt[k].status # "COMPLETED"
  BY <1>1, RowsHeld DEF Between
<1> HIDE DEF q, new
<1>6. ASSUME NoneTorn
      PROVE  /\ Owes(receipt') = Owes(receipt) + (row.qty + row.fee)
             /\ Freight(receipt', o) = Freight(receipt, o) + row.fee
             /\ \A p \in Orders \ {o} : Freight(receipt', p) = Freight(receipt, p)
  <2> DEFINE rd == receipt'
  <2>1. /\ rd \in [Receipts -> ReceiptRow] /\ rd[k] = new
        /\ \A m \in Receipts \ {k} : rd[m] = receipt[m]
        /\ receipt[k].status # "COMPLETED" /\ rd[k].status = "COMPLETED"
    BY <1>2, <1>4, <1>5, <1>6
  <2> HIDE DEF rd
  <2>2. \A p : /\ Owes(rd) = Owes(receipt) + (rd[k].qty + rd[k].fee)
               /\ rd[k].po = p => Freight(rd, p) = Freight(receipt, p) + rd[k].fee
               /\ rd[k].po # p => Freight(rd, p) = Freight(receipt, p)
    BY <2>1, BooksMore
  <2>3. rd[k].qty = row.qty /\ rd[k].fee = row.fee /\ rd[k].po = o
    BY <1>2, <2>1
  <2>4. /\ Owes(rd) = Owes(receipt) + (row.qty + row.fee)
        /\ Freight(rd, o) = Freight(receipt, o) + row.fee
        /\ \A p \in Orders \ {o} : Freight(rd, p) = Freight(receipt, p)
    BY <2>2, <2>3
  <2> QED
    BY <2>4 DEF rd
<1>7. ASSUME NoneTorn, Owing(req[r], Owes(receipt), debt)
      PROVE  Owing(q, Owes(receipt'), debt')
  <2>1. debt = Owes(receipt) + (row.qty + row.fee)
    BY <1>1, <1>7 DEF Owing
  <2> QED
    BY <1>1, <1>2, <1>6, <1>7, <2>1 DEF Owing
<1>8. ASSUME NoneTorn, Charging(req[r], Ordered + Freight(receipt, o), po[o].total)
      PROVE  Charging(q, Ordered + Freight(receipt', o), po'[o].total)
  <2>1. po[o].total = Ordered + Freight(receipt, o) + row.fee
    BY <1>1, <1>8 DEF Charging
  <2>2. po[o].total = Ordered + Freight(receipt', o)
    BY <1>3, <1>6, <1>8, <2>1
  <2> QED
    BY <1>1, <1>2, <2>2 DEF Charging
<1>9. \A x : Sound(x) => NoneTorn
  BY DEF Sound
<1> QED
  BY <1>1, <1>2, <1>6, <1>7, <1>8, <1>9, ConfirmTurn

\* A request that is not a confirmation, or the last step of one, leaves the
\* totals as they were, and is done or holds what it held.
LEMMA OtherTurn ==
    ASSUME ImportInv, DebtInv, TotalInv, NEW r \in Requests, NEW q,
           req' = [req EXCEPT ![r] = q],
           raced \subseteq raced', failed \subseteq failed', repriced \subseteq repriced', debt' = debt,
           NoneTorn => Owes(receipt') = Owes(receipt) /\ \A p : Freight(receipt', p) = Freight(receipt, p),
           q.call = "idle" \/ (q.call \in OnOrders /\ q.call = req[r].call /\ q.id = req[r].id
                               /\ req[r].at = "save" /\ q.at = "check"),
           Sound(Debt)' /\ OnDebt(req[r]) => req[r].at = "status",
           \A p \in Orders \ repriced' :
                IF OnTotal(req[r], p)
                THEN Sound(p)' => /\ req[r].at # "complete"
                                  /\ po'[p].total = po[p].total
                                        \/ (req[r].at \in {"status", "save"} /\ po'[p].total = req[r].po.total)
                ELSE po'[p].total = po[p].total
    PROVE  DebtInv' /\ TotalInv'
<1>1. ~OnDebt(q) /\ \A p : OnTotal(q, p) => OnTotal(req[r], p) /\ req[r].at = "save" /\ q.at = "check"
  BY DEF OnDebt, OnTotal, OnOrders
<1>2. \A x : Sound(x)' => NoneTorn
  BY DEF Sound, NoneTorn
<1>3. ASSUME Sound(Debt)'
      PROVE  DebtMoves(req[r], q, Owes(receipt), debt, Owes(receipt'), debt')
  <2>1. Owes(receipt') = Owes(receipt)
    BY <1>2, <1>3
  <2>2. OnDebt(req[r]) /\ Owing(req[r], Owes(receipt), debt) => debt = Owes(receipt)
    BY <1>3 DEF Owing
  <2> QED
    BY <1>1, <2>1, <2>2 DEF DebtMoves
<1>4. ASSUME NEW p \in Orders \ repriced', Sound(p)'
      PROVE  TotalMoves(req[r], q, p, Ordered + Freight(receipt, p), po[p].total,
                        Ordered + Freight(receipt', p), po'[p].total)
  <2>1. Freight(receipt', p) = Freight(receipt, p)
    BY <1>2, <1>4
  <2> DEFINE base == Ordered + Freight(receipt, p)
             n == po[p].total
             m == po'[p].total
  <2>2. OnTotal(req[r], p) /\ Charging(req[r], base, n) => m = base
    <3> SUFFICES ASSUME OnTotal(req[r], p), Charging(req[r], base, n) PROVE m = base
      OBVIOUS
    <3>1. req[r].at # "complete"
          /\ (m = n \/ (req[r].at \in {"status", "save"} /\ m = req[r].po.total))
      BY <1>4
    <3> HIDE DEF base, n, m
    <3> QED
      BY <3>1 DEF Charging
  <2>3. ~OnTotal(req[r], p) => m = n
    BY <1>4
  <2> HIDE DEF base, n, m
  <2>4. m = base /\ q.at = "check" => Charging(q, base, m)
    BY DEF Charging
  <2>5. TotalMoves(req[r], q, p, base, n, base, m)
    BY <1>1, <2>2, <2>3, <2>4 DEF TotalMoves
  <2> QED
    BY <2>1, <2>5 DEF base, n, m
<1> QED
  BY <1>3, <1>4, BookTurn

LEMMA CreateBooks ==
    ASSUME ImportInv, DebtInv, TotalInv, NEW k \in Receipts, NEW p \in Orders, NEW n,
           CreateDraftReceipt(k, p, n)
    PROVE  DebtInv' /\ TotalInv'
<1>1. /\ receipt' = [receipt EXCEPT ![k] = DraftFor(p, n)] /\ receipt[k].status = "unused"
      /\ DraftFor(p, n).status = "DRAFT"
      /\ UNCHANGED <<po, debt, req, raced, failed, repriced>>
  BY DEF CreateDraftReceipt, DraftFor, history
<1>2. \A m \in Receipts : receipt'[m] = IF m = k THEN DraftFor(p, n) ELSE receipt[m]
  BY <1>1 DEF ImportInv, Typed, TypeOK
<1>3. \A m \in Receipts : \/ receipt'[m] = receipt[m]
                          \/ receipt[m].status # "COMPLETED" /\ receipt'[m].status # "COMPLETED"
  BY <1>1, <1>2
<1>4. Owes(receipt') = Owes(receipt) /\ \A o : Freight(receipt', o) = Freight(receipt, o)
  BY <1>3, DraftsAside
<1>5. \A x : Sound(x)' <=> Sound(x)
  BY <1>1 DEF Sound, NoneTorn
<1> QED
  BY <1>1, <1>4, <1>5 DEF DebtInv, TotalInv

LEMMA DropBooks ==
    ASSUME ImportInv, DebtInv, TotalInv, NEW r \in Requests, NEW k \in Receipts, DeleteDraft(r, k)
    PROVE  DebtInv' /\ TotalInv'
<1>1. /\ req[r].call = "drop" /\ req[r].id = k
      /\ receipt' = [receipt EXCEPT ![k].status = "deleted"]
      /\ req' = [req EXCEPT ![r] = Idle]
      /\ UNCHANGED <<po, debt, raced, failed, repriced>>
  BY DEF DeleteDraft, At, Done, history
<1>2. ~OnDebt(req[r]) /\ \A p : ~OnTotal(req[r], p)
  BY <1>1 DEF OnDebt, OnTotal, OnOrders
<1>3. /\ receipt'[k].status = "deleted"
      /\ \A m \in Receipts \ {k} : receipt'[m] = receipt[m]
  BY <1>1 DEF ImportInv, Typed, TypeOK, ReceiptRow
<1>4. NoneTorn => receipt[k].status = "DRAFT"
  BY <1>1, RowsHeld
<1>5. NoneTorn => Owes(receipt') = Owes(receipt) /\ \A p : Freight(receipt', p) = Freight(receipt, p)
  <2>1. NoneTorn => \A m \in Receipts :
                       \/ receipt'[m] = receipt[m]
                       \/ receipt[m].status # "COMPLETED" /\ receipt'[m].status # "COMPLETED"
    BY <1>3, <1>4
  <2> QED
    BY <2>1, DraftsAside
<1> QED
  BY <1>1, <1>2, <1>5, IdleGood, OtherTurn

LEMMA EndBooks ==
    ASSUME ImportInv, DebtInv, TotalInv, NEW r \in Requests, SaveStatus(r) \/ CheckPfo(r) \/ Fail(r)
    PROVE  DebtInv' /\ TotalInv'
<1>1. /\ req' = [req EXCEPT ![r] = Idle] /\ UNCHANGED <<receipt, debt, raced, repriced>>
      /\ Idle.call = "idle" /\ GoodRequest(req[r]) /\ req[r].po \in Order
      /\ po \in [Orders -> Order]
  BY IdleGood, BooksRead DEF SaveStatus, CheckPfo, Fail, Done, history, ImportInv, Typed, TypeOK
<1>2. CASE SaveStatus(r)
  <2>1. /\ req[r].call = "confirm" /\ req[r].at = "status" /\ failed' = failed
        /\ po' = [po EXCEPT ![OrderOf(r)] = req[r].po]
    BY <1>2 DEF SaveStatus, At
  <2>2. OrderOf(r) = req[r].receipt.po
    BY <1>1, <2>1 DEF OrderOf, GoodRequest
  <2>3. \A p \in Orders : OnTotal(req[r], p) <=> p = OrderOf(r)
    BY <2>1, <2>2 DEF OnTotal, OnOrders
  <2>4. \A p \in Orders : IF OnTotal(req[r], p) THEN po'[p].total = req[r].po.total
                                                ELSE po'[p].total = po[p].total
    BY <1>1, <2>1, <2>3
  <2> QED
    BY <1>1, <2>1, <2>4, OtherTurn
<1>3. CASE CheckPfo(r)
  <2>1. req[r].call = "supplier" /\ req[r].at = "check" /\ UNCHANGED <<po, failed>>
    BY <1>3 DEF CheckPfo, At
  <2>2. ~OnDebt(req[r])
    BY <2>1 DEF OnDebt
  <2> QED
    BY <1>1, <2>1, <2>2, OtherTurn
<1>4. CASE Fail(r)
  <2>1. failed' = failed \cup InHand(r) /\ po' = po
    BY <1>4 DEF Fail
  <2>2. /\ OnDebt(req[r]) => ~Sound(Debt)'
        /\ \A p \in Orders : OnTotal(req[r], p) => ~Sound(p)'
    BY <2>1, HandsOnBooks DEF Sound, ImportInv
  <2> QED
    BY <1>1, <2>1, <2>2, OtherTurn
<1> QED
  BY <1>2, <1>3, <1>4

LEMMA OrderBooks ==
    ASSUME ImportInv, DebtInv, TotalInv, NEW r \in Requests, NEW p \in Orders,
           \/ \E n \in Corrections : SaveItems(r, p, n)
           \/ SaveOrdered(r, p) \/ SaveReceived(r, p)
           \/ \E answer \in Answers(req[r].po.status) : SaveAnswer(r, p, answer)
    PROVE  DebtInv' /\ TotalInv'
<1>1. /\ req[r].call \in OnOrders /\ req[r].at = "save" /\ req[r].id = p /\ req[r].po \in Order
      /\ UNCHANGED <<receipt, debt, raced, failed>> /\ repriced \subseteq repriced'
      /\ Idle.call = "idle" /\ po \in [Orders -> Order] /\ req[r] \in Request
  BY IdleGood, BooksRead DEF SaveItems, SaveOrdered, SaveReceived, SaveAnswer, SaveWithStatus, At, OnOrders,
     ImportInv, Typed, TypeOK
<1>2. ~OnDebt(req[r]) /\ \A o \in Orders : OnTotal(req[r], o) <=> o = p
  BY <1>1 DEF OnDebt, OnTotal, OnOrders
<1>3. ASSUME NEW status, SaveWithStatus(r, p, status)
      PROVE  \A o \in Orders : IF OnTotal(req[r], o) THEN po'[o].total = req[r].po.total
                                                    ELSE po'[o].total = po[o].total
  <2>1. [req[r].po EXCEPT !.status = status].total = req[r].po.total
    BY <1>1 DEF Order
  <2>2. po' = [po EXCEPT ![p] = [req[r].po EXCEPT !.status = status]]
    BY <1>3 DEF SaveWithStatus
  <2> QED
    BY <1>1, <1>2, <2>1, <2>2
<1>4. CASE \E n \in Corrections : SaveItems(r, p, n)
  <2>1. /\ req' = [req EXCEPT ![r] = Idle] /\ repriced' = repriced \cup {p}
        /\ \A o \in Orders \ {p} : po'[o] = po[o]
    BY <1>1, <1>4 DEF SaveItems, Done
  <2> QED
    BY <1>1, <1>2, <2>1, OtherTurn
<1>5. CASE SaveOrdered(r, p) \/ SaveReceived(r, p)
  <2>1. req' = [req EXCEPT ![r] = Idle] /\ \E status : SaveWithStatus(r, p, status)
    BY <1>5 DEF SaveOrdered, SaveReceived, Done
  <2> QED
    BY <1>1, <1>2, <1>3, <2>1, OtherTurn
<1>6. CASE \E answer \in Answers(req[r].po.status) : SaveAnswer(r, p, answer)
  <2> DEFINE q == [req[r] EXCEPT !.at = "check"]
  <2>1. req' = [req EXCEPT ![r] = q] /\ \E status : SaveWithStatus(r, p, status)
    BY <1>1, <1>6 DEF SaveAnswer, Goto, ImportInv, Typed
  <2>2. q.call = req[r].call /\ q.id = req[r].id /\ q.at = "check"
    BY <1>1 DEF Request
  <2> HIDE DEF q
  <2> QED
    BY <1>1, <1>2, <1>3, <2>1, <2>2, OtherTurn
<1> QED
  BY <1>4, <1>5, <1>6

LEMMA BeginsBook ==
    ASSUME ImportInv, DebtInv, TotalInv, NEW r \in Requests,
           \/ \E k \in Receipts : BeginDrop(r, k) \/ BeginConfirm(r, k)
           \/ \E p \in Orders, call \in OnOrders : BeginWithOrder(r, call, "save", p)
    PROVE  DebtInv' /\ TotalInv'
<1>1. ASSUME NEW k \in Receipts, BeginDrop(r, k) \/ BeginConfirm(r, k)
      PROVE  DebtInv' /\ TotalInv'
  <2>1. receipt[k].po \in Orders
    BY <1>1 DEF BeginDrop, BeginConfirm, Open, ImportInv, Typed, TypeOK
  <2>2. CASE BeginDrop(r, k)
    BY <2>1, <2>2, BookBegins DEF BeginDrop, OnOrders
  <2>3. CASE BeginConfirm(r, k)
    BY <2>1, <2>3, BookBegins DEF BeginConfirm, OnOrders
  <2> QED
    BY <1>1, <2>2, <2>3
<1>2. ASSUME NEW p \in Orders, NEW call \in OnOrders, BeginWithOrder(r, call, "save", p)
      PROVE  DebtInv' /\ TotalInv'
  <2>1. call # "confirm"
    BY DEF OnOrders
  <2> QED
    BY <1>2, <2>1, BookBegins DEF BeginWithOrder
<1> QED
  BY <1>1, <1>2

LEMMA BookStep == ImportInv /\ DebtInv /\ TotalInv /\ [Next]_vars => DebtInv' /\ TotalInv'
<1> SUFFICES ASSUME ImportInv, DebtInv, TotalInv, [Next]_vars PROVE DebtInv' /\ TotalInv'
  OBVIOUS
<1>1. CASE UNCHANGED vars
  BY <1>1 DEF vars, history, DebtInv, TotalInv, DebtExact, TotalExact, Sound, NoneTorn
<1>2. ASSUME NEW k \in Receipts, NEW p \in Orders, NEW n \in Amounts, CreateDraftReceipt(k, p, n)
      PROVE  DebtInv' /\ TotalInv'
  BY <1>2, CreateBooks
<1>3. ASSUME NEW r \in Requests, NEW p \in Orders, OnOrder(r, p)
      PROVE  DebtInv' /\ TotalInv'
  BY <1>3, BeginsBook, OrderBooks DEF OnOrder, OnOrders
<1>4. ASSUME NEW r \in Requests, NEW k \in Receipts, OnReceipt(r, k)
      PROVE  DebtInv' /\ TotalInv'
  BY <1>4, BeginsBook, DropBooks, DataBooks, BooksBooks, CompleteBooks DEF OnReceipt
<1>5. ASSUME NEW r \in Requests,
             \/ ReadDebt(r) \/ SaveDebt(r) \/ ReadPo(r) \/ SavePo(r)
             \/ CountReceipts(r) \/ SaveStatus(r) \/ CheckPfo(r) \/ Fail(r)
      PROVE  DebtInv' /\ TotalInv'
  BY <1>5, BooksBooks, EndBooks
<1> QED
  BY <1>1, <1>2, <1>3, <1>4, <1>5 DEF Next

LEMMA BookAtStart == Init => DebtInv /\ TotalInv
<1> SUFFICES ASSUME Init PROVE DebtInv /\ TotalInv
  OBVIOUS
<1>1. \A k \in Receipts : receipt[k].status # "COMPLETED"
  BY DEF Init, NoReceipt
<1>2. Completed(receipt) = {} /\ \A p : CompletedFor(receipt, p) = {}
  BY <1>1 DEF Completed, CompletedFor
<1>3. Owes(receipt) = 0 /\ \A p : Freight(receipt, p) = 0
  BY <1>2, SumEmpty DEF Owes, Freight
<1>4. \A r \in Requests : ~OnDebt(req[r]) /\ \A p : ~OnTotal(req[r], p)
  BY IdleGood DEF Init, OnDebt, OnTotal, OnOrders
<1>5. debt = 0 /\ \A p \in Orders : po[p].total = Ordered
  BY DEF Init, NewOrder
<1>6. DebtExact(req, Owes(receipt), debt)
  BY <1>3, <1>4, <1>5 DEF DebtExact
<1>7. Ordered + 0 = Ordered
  BY RowsApart
<1>8. \A p \in Orders : TotalExact(req, p, Ordered + Freight(receipt, p), po[p].total)
  BY <1>3, <1>4, <1>5, <1>7 DEF TotalExact
<1> QED
  BY <1>6, <1>8 DEF DebtInv, TotalInv

\* The debt of the supplier is the goods and the freight of the completed
\* receipts, and the total of an order is what was ordered and the freight of
\* its receipts: where no two requests met on a row and no fault hit it,
\* however confirmations, corrections and answers interleave.
THEOREM ReceiptsAreBooked == Spec => []BookedInFull
<1>1. ImportInv /\ DebtInv /\ TotalInv => BookedInFull
  <2> SUFFICES ASSUME ImportInv, DebtInv, TotalInv PROVE BookedInFull
    OBVIOUS
  <2>1. Typed
    BY DEF ImportInv
  <2>2. ImportedOnce
    <3> SUFFICES ASSUME NEW k \in Receipts, Settled(k)
                 PROVE  Settles(receipt[k], imported[k])
      BY DEF ImportedOnce, Settles
    <3>1. \A r \in Requests : ~Has(r, k)
      BY <2>1, HandsOnReceipts DEF Settled
    <3> QED
      BY <3>1 DEF Settled, ImportInv, Exact
  <2>3. ASSUME Settled(Debt), NoneTorn
        PROVE  debt = Owes(receipt)
    <3>1. \A r \in Requests : ~OnDebt(req[r])
      BY <2>1, <2>3, HandsOnBooks DEF Settled
    <3> QED
      BY <2>3, <3>1 DEF Settled, Sound, DebtInv, DebtExact
  <2>4. ASSUME NEW p \in Orders, Settled(p), NoneTorn, p \notin repriced
        PROVE  po[p].total = Ordered + Freight(receipt, p)
    <3>1. \A r \in Requests : ~OnTotal(req[r], p)
      BY <2>1, <2>4, HandsOnBooks DEF Settled
    <3> QED
      BY <2>4, <3>1 DEF Settled, Sound, TotalInv, TotalExact
  <2> QED
    BY <2>2, <2>3, <2>4 DEF BookedInFull, Owes, Freight, Completed, CompletedFor, SumOf
<1> QED
  BY <1>1, ImportAtStart, BookAtStart, ImportStep, BookStep, PTL DEF Spec


--------------------------------------------------------------------------------
(* Delivered orders *)

\* A request and the receipt it has name the same order, and are not empty.
HasRow(q, k) == q.call \in {"confirm", "drop"} /\ q.id = k
Names(q, row) ==
    /\ row.po = q.receipt.po /\ row.status # "unused"
    /\ q.receipt.status # "unused" /\ q.receipt.qty # 0

\* It has read the row as it is, until it completes it.
Reads(q, row) ==
    /\ q.at \in After => row.status = "COMPLETED"
    /\ q.at \notin After => row = q.receipt /\ row.status = "DRAFT"

Held(k) ==
    /\ \A r, s \in Requests : Has(r, k) /\ Has(s, k) => r = s
    /\ \A r \in Requests : Has(r, k) => Reads(req[r], receipt[k])

HeldInv ==
    /\ \A k \in Receipts : IF receipt[k].status = "unused" THEN receipt[k].po = NoId
                                                           ELSE receipt[k].qty # 0
    /\ \A r \in Requests, k \in Receipts : Has(r, k) => Names(req[r], receipt[k])
    /\ \A k \in Receipts \ raced : Held(k)

\* No two requests met on a receipt of order p.
Clean(rc, torn, p) == \A k \in Receipts : rc[k].po = p => k \notin torn

\* An order counted as delivered, or about to be saved so, has received enough.
Received95(rc, torn, p, row) ==
    row.status = "DELIVERED" /\ Clean(rc, torn, p) => Enough(Arrived(rc, p), row.qty)
CountInv ==
    /\ \A p \in counted : Received95(receipt, raced, p, po[p])
    /\ \A r \in Requests : At(r, "confirm", "status")
            => Received95(receipt, raced, req[r].receipt.po, req[r].po)
    /\ counted \subseteq Orders

LEMMA HeldTurn ==
    ASSUME ImportInv, HeldInv, NEW r \in Requests, NEW q,
           req' = [req EXCEPT ![r] = q], raced' = raced,
           \A k \in Receipts : HasRow(q, k) => Has(r, k),
           \A k \in Receipts : receipt'[k] = receipt[k] \/ Has(r, k),
           \A k \in Receipts : Has(r, k) =>
                /\ receipt'[k].po = receipt[k].po
                /\ receipt'[k].status # "unused" /\ receipt'[k].qty # 0
                /\ HasRow(q, k) => /\ q.receipt.po = req[r].receipt.po
                                   /\ q.receipt.status # "unused" /\ q.receipt.qty # 0
                /\ HasRow(q, k) /\ Reads(req[r], receipt[k]) => Reads(q, receipt'[k])
    PROVE  HeldInv'
<1>1. req'[r] = q /\ \A s \in Requests \ {r} : req'[s] = req[s]
  BY DEF ImportInv, Typed
<1>2. \A s \in Requests, k \in Receipts : Has(s, k)' => Has(s, k)
  BY <1>1 DEF Has, HasRow
<1>3. \A k \in Receipts : Has(r, k)' <=> HasRow(q, k)
  BY <1>1 DEF Has, HasRow
<1>4. \A k \in Receipts : IF receipt'[k].status = "unused" THEN receipt'[k].po = NoId
                                                            ELSE receipt'[k].qty # 0
  BY DEF HeldInv
<1>5. ASSUME NEW s \in Requests, NEW k \in Receipts, Has(s, k)'
      PROVE  Names(req'[s], receipt'[k])
  <2>1. Has(s, k) /\ Names(req[s], receipt[k])
    BY <1>2, <1>5 DEF HeldInv
  <2>2. receipt'[k].po = receipt[k].po /\ receipt'[k].status # "unused"
    BY <2>1 DEF Names
  <2>3. CASE s = r
    BY <1>1, <1>3, <1>5, <2>1, <2>2, <2>3 DEF Names
  <2>4. CASE s # r
    BY <1>1, <2>1, <2>2, <2>4 DEF Names
  <2> QED
    BY <2>3, <2>4
<1>6. ASSUME NEW k \in Receipts \ raced
      PROVE  Held(k)'
  <2>1. Held(k)
    BY DEF HeldInv
  <2>2. \A s, t \in Requests : Has(s, k)' /\ Has(t, k)' => s = t
    BY <1>2, <2>1 DEF Held
  <2>3. ASSUME NEW s \in Requests, Has(s, k)'
        PROVE  Reads(req'[s], receipt'[k])
    <3>1. Has(s, k) /\ Reads(req[s], receipt[k])
      BY <1>2, <2>1, <2>3 DEF Held
    <3>2. CASE s = r
      BY <1>1, <1>3, <2>3, <3>1, <3>2
    <3>3. CASE s # r
      <4>1. ~Has(r, k)
        BY <2>1, <3>1, <3>3 DEF Held
      <4> QED
        BY <1>1, <3>1, <3>3, <4>1
    <3> QED
      BY <3>2, <3>3
  <2> QED
    BY <2>2, <2>3 DEF Held
<1> QED
  BY <1>4, <1>5, <1>6 DEF HeldInv

\* A request begins: if it takes a receipt that another has, they meet on it.
LEMMA HeldBegins ==
    ASSUME ImportInv, HeldInv, NEW r \in Requests, NEW call, NEW step, NEW id, NEW order \in Orders,
           NEW row, Begin(r, call, step, id, order, row),
           call \in {"confirm", "drop"} =>
                /\ id \in Receipts /\ row = receipt[id] /\ row.status = "DRAFT"
                /\ step \in {"data", "delete"}
    PROVE  HeldInv'
<1> DEFINE q == [Idle EXCEPT !.call = call, !.at = step, !.id = id, !.po = po[order],
                             !.receipt = row]
<1>1. q.call = call /\ q.at = step /\ q.id = id /\ q.receipt = row
  BY DEF Idle
<1>2. /\ req' = [req EXCEPT ![r] = q]
      /\ req[r].call = "idle"
      /\ raced' = raced \cup UNION {InHand(s) \cap RowsOf(call, id, order) : s \in InFlight}
      /\ UNCHANGED <<po, receipt>>
  BY DEF Begin
<1> HIDE DEF q
<1>3. req'[r] = q /\ \A s \in Requests \ {r} : req'[s] = req[s]
  BY <1>2 DEF ImportInv, Typed
<1>4. \A k \in Receipts : HasRow(q, k) => k \in RowsOf(call, id, order)
  BY <1>1 DEF HasRow, RowsOf
<1>5. \A k \in Receipts \ raced', s \in Requests : HasRow(q, k) => ~Has(s, k)
  <2> SUFFICES ASSUME NEW k \in Receipts, NEW s \in Requests, HasRow(q, k), Has(s, k)
               PROVE  k \in raced'
    OBVIOUS
  <2>1. k \in InHand(s) /\ s \in InFlight
    BY HandsOnReceipts DEF ImportInv, InHand
  <2> QED
    BY <1>2, <1>4, <2>1
<1>6. \A k \in Receipts : ~Has(r, k)
  BY <1>2 DEF Has
<1>7. \A s \in Requests \ {r}, k \in Receipts : Has(s, k)' <=> Has(s, k)
  BY <1>3 DEF Has
<1>8. \A k \in Receipts : Has(r, k)' <=> HasRow(q, k)
  BY <1>3 DEF Has, HasRow
<1>9. \A k \in Receipts : HasRow(q, k) => Names(q, receipt[k]) /\ Reads(q, receipt[k])
  <2> SUFFICES ASSUME NEW k \in Receipts, HasRow(q, k)
               PROVE  Names(q, receipt[k]) /\ Reads(q, receipt[k])
    OBVIOUS
  <2>1. k = id /\ q.receipt = receipt[k] /\ receipt[k].status = "DRAFT" /\ q.at \in {"data", "delete"}
    BY <1>1 DEF HasRow
  <2>2. receipt[k].qty # 0
    BY <2>1 DEF HeldInv
  <2> QED
    BY <2>1, <2>2 DEF Names, Reads, After
<1>10. ASSUME NEW k \in Receipts \ raced'
       PROVE  Held(k)'
  <2>1. Held(k)
    BY <1>2 DEF HeldInv
  <2>2. CASE HasRow(q, k)
    BY <1>2, <1>3, <1>5, <1>7, <1>8, <1>9, <2>2 DEF Held
  <2>3. CASE ~HasRow(q, k)
    BY <1>2, <1>3, <1>7, <1>8, <2>1, <2>3 DEF Held
  <2> QED
    BY <2>2, <2>3
<1>11. \A s \in Requests, k \in Receipts : Has(s, k)' => Names(req'[s], receipt'[k])
  BY <1>2, <1>3, <1>7, <1>8, <1>9 DEF HeldInv
<1> QED
  BY <1>2, <1>10, <1>11 DEF HeldInv

\* What has arrived for an order whose receipts are not torn does not shrink.
LEMMA ArrivedGrows ==
    ASSUME ImportInv, TypeOK', NEW k \in Receipts, raced' = raced,
           \A m \in Receipts \ {k} : receipt'[m] = receipt[m],
           receipt'[k].po = receipt[k].po,
           k \notin raced => receipt[k].status # "COMPLETED",
           NEW p, Clean(receipt, raced, p)
    PROVE  Arrived(receipt, p) <= Arrived(receipt', p)
<1> DEFINE rd == receipt'
<1>1. rd \in [Receipts -> ReceiptRow] /\ receipt \in [Receipts -> ReceiptRow]
  BY DEF TypeOK, ImportInv, Typed
<1>2. /\ \A m \in Receipts \ {k} : rd[m] = receipt[m]
      /\ rd[k].po = receipt[k].po
  OBVIOUS
<1> HIDE DEF rd
<1>3. Arrived(receipt, p) \in Nat /\ Arrived(rd, p) \in Nat /\ rd[k].qty \in Nat
  BY <1>1, BooksTyped DEF ReceiptRow
<1>4. CASE receipt[k].po # p
  <2>1. CompletedFor(rd, p) = CompletedFor(receipt, p) /\ CompletedFor(rd, p) \subseteq Receipts \ {k}
    BY <1>2, <1>4 DEF CompletedFor
  <2> DEFINE S == CompletedFor(receipt, p)
             f == [m \in Receipts |-> receipt[m].qty]
             g == [m \in Receipts |-> rd[m].qty]
  <2>2. \A m \in S : f[m] = g[m]
    BY <1>2, <2>1
  <2>3. IsFiniteSet(S)
    BY FiniteReceipts
  <2> HIDE DEF S, f, g
  <2>4. SumFunctionOnSet(f, S) = SumFunctionOnSet(g, S)
    BY <2>2, <2>3, SumSame
  <2>5. Arrived(receipt, p) = Arrived(rd, p)
    BY <2>1, <2>4 DEF Arrived, S, f, g
  <2> QED
    BY <1>3, <2>5 DEF rd
<1>5. CASE receipt[k].po = p
  <2>1. receipt[k].status # "COMPLETED"
    BY <1>5 DEF Clean
  <2>2. CASE rd[k].status = "COMPLETED"
    <3>1. Arrived(rd, p) = Arrived(receipt, p) + rd[k].qty
      BY <1>1, <1>2, <1>5, <2>1, <2>2, BooksMore
    <3> QED
      BY <1>3, <3>1 DEF rd
  <2>3. CASE rd[k].status # "COMPLETED"
    <3>1. \A m \in Receipts : \/ rd[m] = receipt[m]
                              \/ receipt[m].status # "COMPLETED" /\ rd[m].status # "COMPLETED"
      BY <1>2, <2>1, <2>3
    <3>2. Arrived(rd, p) = Arrived(receipt, p)
      BY <3>1, BooksSame
    <3> QED
      BY <1>3, <3>2 DEF rd
  <2> QED
    BY <2>2, <2>3
<1> QED
  BY <1>4, <1>5

LEMMA EnoughGrows ==
    ASSUME NEW n \in Nat, NEW m \in Nat, n <= m, NEW quantity \in Nat, Enough(n, quantity)
    PROVE  Enough(m, quantity)
  BY DEF Enough

\* What has arrived for the orders that are clean does not shrink.
Grows(rc, rd, torn) == \A p : Clean(rd, torn, p) => Arrived(rc, p) <= Arrived(rd, p)

\* A saved row stays right while receipts arrive and more rows are torn.
LEMMA Stays ==
    ASSUME NEW rc \in [Receipts -> ReceiptRow], NEW rd \in [Receipts -> ReceiptRow],
           NEW torn, NEW more, torn \subseteq more, \A k \in Receipts : rd[k].po = rc[k].po,
           Grows(rc, rd, more), NEW p, NEW row, NEW new, new.status = row.status,
           new.qty = row.qty, row.qty \in Nat, Received95(rc, torn, p, row)
    PROVE  Received95(rd, more, p, new)
<1> SUFFICES ASSUME row.status = "DELIVERED", Clean(rd, more, p)
             PROVE  Enough(Arrived(rd, p), row.qty)
  BY DEF Received95
<1>1. Clean(rc, torn, p)
  BY DEF Clean
<1>2. Enough(Arrived(rc, p), row.qty) /\ Arrived(rc, p) <= Arrived(rd, p)
  BY <1>1 DEF Received95, Grows
<1>3. Arrived(rc, p) \in Nat /\ Arrived(rd, p) \in Nat
  BY BooksTyped
<1> QED
  BY <1>2, <1>3, EnoughGrows

\* A request r becomes q: what that step owes to the orders counted.
LEMMA CountTurns ==
    ASSUME ImportInv, TypeOK', CountInv, NEW r \in Requests, NEW q,
           req' = [req EXCEPT ![r] = q], raced \subseteq raced',
           \A k \in Receipts : receipt'[k].po = receipt[k].po,
           Grows(receipt, receipt', raced'),
           \A p \in counted' :
                \/ p \in counted /\ po'[p].status = po[p].status /\ po'[p].qty = po[p].qty
                \/ At(r, "confirm", "status") /\ p = req[r].receipt.po /\ po'[p] = req[r].po,
           q.call = "confirm" /\ q.at = "status"
                => Received95(receipt', raced', q.receipt.po, q.po)
    PROVE  CountInv'
<1> DEFINE rd == receipt'
           more == raced'
<1>1. req'[r] = q /\ \A s \in Requests \ {r} : req'[s] = req[s]
  BY DEF ImportInv, Typed
<1>2. /\ rd \in [Receipts -> ReceiptRow] /\ receipt \in [Receipts -> ReceiptRow]
      /\ raced \subseteq more /\ \A k \in Receipts : rd[k].po = receipt[k].po
      /\ Grows(receipt, rd, more)
  BY DEF TypeOK, ImportInv, Typed
<1>3. /\ \A p \in Orders : po[p].qty \in Nat
      /\ \A s \in Requests : req[s].po.qty \in Nat
  BY BooksRead DEF Order
<1>4. counted' \subseteq Orders
  BY BooksRead DEF CountInv, At, GoodRequest
<1> HIDE DEF rd, more
<1>5. ASSUME NEW s \in Requests, At(s, "confirm", "status")
      PROVE  Received95(rd, more, req[s].receipt.po, req[s].po)
  <2>1. Received95(receipt, raced, req[s].receipt.po, req[s].po)
    BY <1>5 DEF CountInv
  <2> QED
    BY <1>2, <1>3, <2>1, Stays
<1>6. ASSUME NEW s \in Requests, req'[s].call = "confirm", req'[s].at = "status"
      PROVE  Received95(rd, more, req'[s].receipt.po, req'[s].po)
  <2>1. CASE s = r
    BY <1>1, <1>6, <2>1 DEF rd, more
  <2>2. CASE s # r
    BY <1>1, <1>5, <1>6, <2>2 DEF At
  <2> QED
    BY <2>1, <2>2
<1>7. ASSUME NEW p \in counted'
      PROVE  Received95(rd, more, p, po'[p])
  <2>1. CASE At(r, "confirm", "status") /\ p = req[r].receipt.po /\ po'[p] = req[r].po
    BY <1>5, <2>1
  <2>2. CASE p \in counted /\ po'[p].status = po[p].status /\ po'[p].qty = po[p].qty
    <3>1. Received95(receipt, raced, p, po[p]) /\ po[p].qty \in Nat
      BY <1>3, <2>2 DEF CountInv
    <3> QED
      BY <1>2, <2>2, <3>1, Stays
  <2> QED
    BY <1>7, <2>1, <2>2
<1> QED
  BY <1>4, <1>6, <1>7 DEF CountInv, At, rd, more


\* A request goes on, the receipts stay: it reads the same row as before.
LEMMA HeldGoes ==
    ASSUME ImportInv, HeldInv, NEW r \in Requests, NEW q, req' = [req EXCEPT ![r] = q],
           UNCHANGED <<receipt, raced>>,
           q.call \in {"confirm", "drop"} =>
                /\ q.call = req[r].call /\ q.id = req[r].id /\ q.receipt = req[r].receipt
                /\ q.at \in After <=> req[r].at \in After
    PROVE  HeldInv'
<1>1. \A k \in Receipts : HasRow(q, k) => Has(r, k) /\ q.receipt = req[r].receipt
  BY DEF HasRow, Has
<1>2. ASSUME NEW k \in Receipts, Has(r, k)
      PROVE  /\ receipt[k].status # "unused" /\ receipt[k].qty # 0
             /\ HasRow(q, k) => /\ q.receipt.po = req[r].receipt.po
                                /\ q.receipt.status # "unused" /\ q.receipt.qty # 0
             /\ HasRow(q, k) /\ Reads(req[r], receipt[k]) => Reads(q, receipt[k])
  <2>1. Names(req[r], receipt[k])
    BY <1>2 DEF HeldInv
  <2>2. receipt[k].status # "unused" /\ receipt[k].qty # 0
    BY <2>1 DEF Names, HeldInv
  <2>3. HasRow(q, k) => q.call \in {"confirm", "drop"}
    BY DEF HasRow
  <2> QED
    BY <1>1, <2>1, <2>2, <2>3 DEF Names, Reads
<1>3. \A k \in Receipts : Has(r, k) =>
        /\ receipt'[k].po = receipt[k].po
        /\ receipt'[k].status # "unused" /\ receipt'[k].qty # 0
        /\ HasRow(q, k) => /\ q.receipt.po = req[r].receipt.po
                           /\ q.receipt.status # "unused" /\ q.receipt.qty # 0
        /\ HasRow(q, k) /\ Reads(req[r], receipt[k]) => Reads(q, receipt'[k])
  BY <1>2
<1>4. \A k \in Receipts : receipt'[k] = receipt[k] \/ Has(r, k)
  OBVIOUS
<1>5. \A k \in Receipts : HasRow(q, k) => Has(r, k)
  BY <1>1
<1> QED
  BY <1>3, <1>4, <1>5, HeldTurn

LEMMA SameGrows ==
    ASSUME ImportInv, receipt' = receipt, NEW torn
    PROVE  Grows(receipt, receipt', torn)
<1>1. receipt \in [Receipts -> ReceiptRow]
  BY DEF ImportInv, Typed, TypeOK
<1>2. \A p : Arrived(receipt, p) \in Nat
  BY <1>1, BooksTyped
<1>3. \A p : Arrived(receipt, p) <= Arrived(receipt, p)
  BY <1>2
<1> QED
  BY <1>3 DEF Grows

\* One receipt changes, of a request that has it.
LEMMA HeldGrows ==
    ASSUME ImportInv, HeldInv, TypeOK', NEW r \in Requests, NEW k \in Receipts, Has(r, k),
           req[r].at \notin After, raced' = raced,
           \A m \in Receipts \ {k} : receipt'[m] = receipt[m], receipt'[k].po = receipt[k].po
    PROVE  Grows(receipt, receipt', raced')
<1>1. k \notin raced => receipt[k].status # "COMPLETED"
  BY DEF HeldInv, Held, Reads
<1>2. ASSUME NEW p, Clean(receipt', raced', p)
      PROVE  Arrived(receipt, p) <= Arrived(receipt', p)
  <2>1. Clean(receipt, raced, p)
    BY <1>2 DEF Clean
  <2> QED
    BY <1>1, <2>1, ArrivedGrows
<1> QED
  BY <1>2 DEF Grows

LEMMA CreateHeld ==
    ASSUME ImportInv, HeldInv, CountInv, ImportInv', 0 \notin Amounts,
           NEW k \in Receipts, NEW p \in Orders, NEW n \in Amounts, CreateDraftReceipt(k, p, n)
    PROVE  HeldInv' /\ CountInv'
<1>1. /\ receipt[k].status = "unused" /\ receipt[k].po = NoId
      /\ receipt' = [receipt EXCEPT ![k] = DraftFor(p, n)]
      /\ UNCHANGED <<po, req, counted, raced>>
  BY DEF CreateDraftReceipt, history, HeldInv
<1>2. /\ receipt'[k].status = "DRAFT" /\ receipt'[k].qty # 0 /\ receipt'[k].po = p
      /\ \A m \in Receipts \ {k} : receipt'[m] = receipt[m]
  BY <1>1 DEF ImportInv, Typed, TypeOK, DraftFor
<1>3. \A r \in Requests : ~Has(r, k)
  BY <1>1 DEF HeldInv, Names
<1>4. \A r \in Requests, m \in Receipts : Has(r, m)' <=> Has(r, m)
  BY <1>1 DEF Has
<1>5. \A r \in Requests, m \in Receipts : Has(r, m) => receipt'[m] = receipt[m]
  BY <1>2, <1>3
<1>6. HeldInv'
  <2>1. \A m \in Receipts : IF receipt'[m].status = "unused" THEN receipt'[m].po = NoId
                                                            ELSE receipt'[m].qty # 0
    BY <1>2 DEF HeldInv
  <2>2. \A r \in Requests, m \in Receipts : Has(r, m)' => Names(req'[r], receipt'[m])
    BY <1>1, <1>4, <1>5 DEF HeldInv
  <2>3. \A m \in Receipts \ raced' : Held(m)'
    <3> SUFFICES ASSUME NEW m \in Receipts \ raced' PROVE Held(m)'
      OBVIOUS
    <3>1. Held(m)
      BY <1>1 DEF HeldInv
    <3> QED
      BY <1>1, <1>4, <1>5, <3>1 DEF Held
  <2> QED
    BY <2>1, <2>2, <2>3 DEF HeldInv
<1> DEFINE rd == receipt'
<1>7. /\ rd \in [Receipts -> ReceiptRow] /\ receipt \in [Receipts -> ReceiptRow]
      /\ rd[k].status = "DRAFT" /\ rd[k].po = p
      /\ \A m \in Receipts \ {k} : rd[m] = receipt[m]
  BY <1>2 DEF ImportInv, Typed, TypeOK
<1> HIDE DEF rd
<1>8. NoId \notin Orders
  BY ReceivingConstants DEF ReceivingConstants
<1>9. ASSUME NEW o \in Orders, NEW row, Received95(receipt, raced, o, row)
      PROVE  Received95(rd, raced, o, row)
  <2>1. Clean(rd, raced, o) => Clean(receipt, raced, o)
    BY <1>1, <1>7, <1>8 DEF Clean
  <2>2. Arrived(rd, o) = Arrived(receipt, o)
    <3>1. \A m \in Receipts : \/ rd[m] = receipt[m]
                              \/ receipt[m].status # "COMPLETED" /\ rd[m].status # "COMPLETED"
      BY <1>1, <1>7
    <3> QED
      BY <3>1, BooksSame
  <2> QED
    BY <1>9, <2>1, <2>2 DEF Received95
<1>10. \A r \in Requests : At(r, "confirm", "status") => req[r].receipt.po \in Orders
  BY BooksRead DEF At, GoodRequest
<1>11. CountInv'
  <2>1. /\ \A o \in counted : Received95(rd, raced, o, po[o])
        /\ \A r \in Requests : At(r, "confirm", "status")
                => Received95(rd, raced, req[r].receipt.po, req[r].po)
    BY <1>9, <1>10 DEF CountInv
  <2> QED
    BY <1>1, <2>1 DEF CountInv, At, rd
<1> QED
  BY <1>6, <1>11


\* The step of a request that touches no receipt: it needs only say what it
\* does to the orders counted.
LEMMA GoesHeld ==
    ASSUME ImportInv, HeldInv, CountInv, ImportInv', NEW r \in Requests, NEW q,
           req' = [req EXCEPT ![r] = q], UNCHANGED <<receipt, raced>>,
           q.call \in {"confirm", "drop"} =>
                /\ q.call = req[r].call /\ q.id = req[r].id /\ q.receipt = req[r].receipt
                /\ q.at \in After <=> req[r].at \in After,
           \A p \in counted' :
                \/ p \in counted /\ po'[p].status = po[p].status /\ po'[p].qty = po[p].qty
                \/ At(r, "confirm", "status") /\ p = req[r].receipt.po /\ po'[p] = req[r].po,
           q.call = "confirm" /\ q.at = "status"
                => Received95(receipt, raced, q.receipt.po, q.po)
    PROVE  HeldInv' /\ CountInv'
<1>1. HeldInv'
  BY HeldGoes
<1>2. Grows(receipt, receipt', raced')
  BY SameGrows
<1>3. TypeOK'
  BY DEF ImportInv, Typed
<1> QED
  BY <1>1, <1>2, <1>3, CountTurns

LEMMA EndsHeld ==
    ASSUME ImportInv, HeldInv, CountInv, ImportInv', NEW r \in Requests,
           SaveStatus(r) \/ CheckPfo(r) \/ Fail(r)
    PROVE  HeldInv' /\ CountInv'
<1>1. /\ req' = [req EXCEPT ![r] = Idle] /\ UNCHANGED <<receipt, raced>> /\ Idle.call = "idle"
  BY IdleGood DEF SaveStatus, CheckPfo, Fail, Done
<1>2. \A p \in counted' :
        \/ p \in counted /\ po'[p].status = po[p].status /\ po'[p].qty = po[p].qty
        \/ At(r, "confirm", "status") /\ p = req[r].receipt.po /\ po'[p] = req[r].po
  <2>1. CASE SaveStatus(r)
    <3>1. OrderOf(r) = req[r].receipt.po /\ req[r].receipt.po \in Orders
      BY <2>1, BooksRead DEF SaveStatus, At, OrderOf, GoodRequest
    <3>2. po \in [Orders -> Order] /\ counted \subseteq Orders
      BY DEF ImportInv, Typed, TypeOK, CountInv
    <3> QED
      BY <2>1, <3>1, <3>2 DEF SaveStatus
  <2>2. CASE CheckPfo(r) \/ Fail(r)
    BY <2>2 DEF CheckPfo, Fail, history
  <2> QED
    BY <2>1, <2>2
<1> QED
  BY <1>1, <1>2, GoesHeld

LEMMA OrderHeld ==
    ASSUME ImportInv, HeldInv, CountInv, ImportInv', NEW r \in Requests, NEW p \in Orders,
           \/ \E n \in Corrections : SaveItems(r, p, n)
           \/ SaveOrdered(r, p) \/ SaveReceived(r, p)
           \/ \E answer \in Answers(req[r].po.status) : SaveAnswer(r, p, answer)
    PROVE  HeldInv' /\ CountInv'
<1>1. /\ req[r].call \in OnOrders /\ counted' = counted \ {p}
      /\ UNCHANGED <<receipt, raced>> /\ req[r] \in Request
      /\ \A o \in Orders \ {p} : po'[o] = po[o]
  BY BooksRead DEF SaveItems, SaveOrdered, SaveReceived, SaveAnswer, SaveWithStatus, At, OnOrders,
     ImportInv, Typed, TypeOK
<1>2. \E q : req' = [req EXCEPT ![r] = q] /\ q.call \in OnOrders \cup {"idle"}
  <2>1. CASE req' = [req EXCEPT ![r] = Idle]
    BY <2>1, IdleGood
  <2>2. CASE \E answer \in Answers(req[r].po.status) : SaveAnswer(r, p, answer)
    <3> DEFINE q == [req[r] EXCEPT !.at = "check"]
    <3>1. req' = [req EXCEPT ![r] = q] /\ q.call = req[r].call
      BY <1>1, <2>2 DEF SaveAnswer, Goto, ImportInv, Typed, Request
    <3> QED
      BY <1>1, <3>1
  <2> QED
    BY <2>1, <2>2 DEF SaveItems, SaveOrdered, SaveReceived, Done
<1>3. PICK q : req' = [req EXCEPT ![r] = q] /\ q.call \in OnOrders \cup {"idle"}
  BY <1>2
<1>4. q.call \notin {"confirm", "drop"}
  BY <1>3 DEF OnOrders
<1>5. counted \subseteq Orders
  BY DEF CountInv
<1> QED
  BY <1>1, <1>3, <1>4, <1>5, GoesHeld

\* The steps of a confirmation that read and save the debt and the order.
LEMMA BooksHeld ==
    ASSUME ImportInv, HeldInv, CountInv, ImportInv', NEW r \in Requests,
           \/ \E k \in Receipts : Import(r, k)
           \/ ReadDebt(r) \/ SaveDebt(r) \/ ReadPo(r) \/ SavePo(r)
    PROVE  HeldInv' /\ CountInv'
<1>1. /\ req[r].call = "confirm" /\ req[r].at \in Before \cup Between
      /\ UNCHANGED <<receipt, raced>> /\ req[r] \in Request
      /\ OrderOf(r) = req[r].receipt.po /\ req[r].receipt.po \in Orders
      /\ po \in [Orders -> Order] /\ counted \subseteq Orders
  BY BooksRead DEF Import, ReadDebt, SaveDebt, ReadPo, SavePo, At, Before, Between, OrderOf,
     GoodRequest, CountInv, ImportInv, Typed, TypeOK
<1>2. PICK q : /\ req' = [req EXCEPT ![r] = q] /\ q.at \in Between
               /\ q.call = req[r].call /\ q.id = req[r].id /\ q.receipt = req[r].receipt
  <2>1. DOMAIN req = Requests
    BY DEF ImportInv, Typed
  <2>2. CASE \E k \in Receipts : Import(r, k)
    <3> WITNESS [req[r] EXCEPT !.at = "readDebt"]
    <3> QED
      BY <1>1, <2>1, <2>2 DEF Import, Goto, Between, Request
  <2>3. CASE ReadDebt(r)
    <3> DEFINE step == IF Owed(req[r].receipt) > 0 THEN "saveDebt" ELSE "readPo"
               n == debt + Owed(req[r].receipt)
    <3> WITNESS [req[r] EXCEPT !.at = step, !.amount = n]
    <3>1. step \in Between
      BY DEF Between
    <3>2. req' = [req EXCEPT ![r].at = step, ![r].amount = n]
      BY <2>3 DEF ReadDebt
    <3> HIDE DEF step, n
    <3> QED
      BY <1>1, <2>1, <3>1, <3>2 DEF Request
  <2>4. CASE SaveDebt(r)
    <3> WITNESS [req[r] EXCEPT !.at = "readPo"]
    <3> QED
      BY <1>1, <2>1, <2>4 DEF SaveDebt, Goto, Between, Request
  <2>5. CASE ReadPo(r)
    <3> WITNESS [req[r] EXCEPT !.at = "savePo", !.po = po[OrderOf(r)]]
    <3> QED
      BY <1>1, <2>1, <2>5 DEF ReadPo, Between, Request
  <2>6. CASE SavePo(r)
    <3> WITNESS [req[r] EXCEPT !.at = "complete"]
    <3> QED
      BY <1>1, <2>1, <2>6 DEF SavePo, Goto, Between, Request
  <2> QED
    BY <2>2, <2>3, <2>4, <2>5, <2>6
<1>3. \A p \in counted' : p \in counted /\ po'[p].status = po[p].status /\ po'[p].qty = po[p].qty
  <2>1. CASE SavePo(r)
    <3> DEFINE o == req[r].receipt.po
               new == [req[r].po EXCEPT !.total = @ + req[r].receipt.fee, !.qty = po[o].qty]
    <3>1. po' = [po EXCEPT ![o] = new] /\ new.qty = po[o].qty
          /\ counted' = IF po'[o].status = po[o].status THEN counted ELSE counted \ {o}
      BY <1>1, <2>1, BooksRead DEF SavePo, Order
    <3> HIDE DEF new
    <3>2. po'[o].qty = po[o].qty /\ \A p \in Orders \ {o} : po'[p] = po[p]
      BY <1>1, <3>1
    <3> QED
      BY <1>1, <3>1, <3>2
  <2>2. CASE ~SavePo(r)
    BY <2>2 DEF Import, ReadDebt, SaveDebt, ReadPo, history
  <2> QED
    BY <2>1, <2>2
<1>4. q.at \notin After /\ req[r].at \notin After /\ q.at # "status"
  BY <1>1, <1>2 DEF Before, Between, After
<1> QED
  BY <1>1, <1>2, <1>3, <1>4, GoesHeld


\* A receipt of p that is completed, with something in it, has arrived.
LEMMA SomeArrived ==
    ASSUME NEW rc \in [Receipts -> ReceiptRow], NEW k \in Receipts,
           rc[k].status = "COMPLETED", rc[k].qty # 0
    PROVE  Arrived(rc, rc[k].po) > 0
<1> DEFINE S == CompletedFor(rc, rc[k].po)
           f == [m \in Receipts |-> rc[m].qty]
<1>1. \A m \in Receipts : f[m] \in Nat
  BY DEF ReceiptRow
<1>2. k \in S /\ S \subseteq Receipts /\ IsFiniteSet(S)
  BY FiniteReceipts DEF CompletedFor
<1>3. f[k] = rc[k].qty /\ f[k] # 0
  OBVIOUS
<1>4. \A m \in S : f[m] \in Nat
  BY <1>1, <1>2
<1>5. Arrived(rc, rc[k].po) = SumFunctionOnSet(f, S)
  BY DEF Arrived
<1> HIDE DEF S, f
<1>6. SumFunctionOnSet(f, S) >= f[k] /\ SumFunctionOnSet(f, S) \in Nat
  BY <1>2, <1>4, SumHolds, SumNat
<1> QED
  BY <1>2, <1>3, <1>4, <1>5, <1>6

\* The request that counts has a completed receipt of the order, so the status
\* it found is not kept.
LEMMA CountsHeld ==
    ASSUME ImportInv, HeldInv, CountInv, ImportInv', NEW r \in Requests, CountReceipts(r)
    PROVE  HeldInv' /\ CountInv'
<1> DEFINE o == req[r].receipt.po
           k == req[r].id
           status == StatusFor(Received(o), po[o].qty, po[o].status)
           new == [po[o] EXCEPT !.status = status]
           q == [req[r] EXCEPT !.at = "status", !.po = new]
<1>1. /\ req[r].call = "confirm" /\ req[r].at = "count" /\ o \in Orders /\ OrderOf(r) = o
      /\ k \in Receipts /\ req[r] \in Request /\ Has(r, k)
      /\ po[o] \in Order /\ receipt \in [Receipts -> ReceiptRow]
      /\ DOMAIN req = Requests
  BY BooksRead DEF CountReceipts, At, OrderOf, GoodRequest, Has, ImportInv, Typed, TypeOK
<1>2. /\ req' = [req EXCEPT ![r] = q] /\ UNCHANGED <<receipt, raced, counted, po>>
  BY <1>1 DEF CountReceipts, history
<1>3. /\ new.status = status /\ new.qty = po[o].qty
  BY <1>1 DEF Order
<1> HIDE DEF new
<1>4. /\ q.call = "confirm" /\ q.id = k /\ q.receipt = req[r].receipt /\ q.at = "status"
      /\ q.po = new
  BY <1>1 DEF Request
<1>5. Received(o) = Arrived(receipt, o)
  BY DEF Received, SumOf, Arrived, CompletedFor
<1> HIDE DEF q, status
<1>6. ASSUME Clean(receipt, raced, o), status = "DELIVERED"
      PROVE  Enough(Arrived(receipt, o), po[o].qty)
  <2>1. Names(req[r], receipt[k])
    BY <1>1 DEF HeldInv
  <2>2. k \notin raced /\ receipt[k].po = o /\ receipt[k].qty # 0
    BY <1>1, <1>6, <2>1 DEF Names, Clean, HeldInv
  <2>3. receipt[k].status = "COMPLETED"
    BY <1>1, <2>2 DEF HeldInv, Held, Reads, After
  <2>4. Arrived(receipt, o) > 0
    BY <1>1, <2>2, <2>3, SomeArrived
  <2> QED
    BY <1>5, <1>6, <2>4 DEF StatusFor, status
<1>7. Received95(receipt, raced, o, new)
  BY <1>3, <1>6 DEF Received95
<1>8. q.at \in After /\ req[r].at \in After
  BY <1>1, <1>4 DEF After
<1> QED
  BY <1>1, <1>2, <1>4, <1>7, <1>8, GoesHeld

\* A request that has a receipt changes its row and goes on, or ends.
LEMMA RowHeld ==
    ASSUME ImportInv, HeldInv, CountInv, ImportInv', NEW r \in Requests, NEW k \in Receipts,
           Has(r, k), req[r].at \notin After, NEW q, req' = [req EXCEPT ![r] = q],
           \A m \in Receipts \ {k} : receipt'[m] = receipt[m],
           UNCHANGED <<po, counted, raced>>, q.at # "status",
           receipt'[k].po = req[r].receipt.po,
           receipt'[k].status # "unused", receipt'[k].qty # 0,
           q.call = "idle" \/
              /\ q.call = req[r].call /\ q.id = k
              /\ q.receipt.po = req[r].receipt.po
              /\ q.receipt.status # "unused" /\ q.receipt.qty # 0
              /\ Reads(req[r], receipt[k]) => Reads(q, receipt'[k])
    PROVE  HeldInv' /\ CountInv'
<1>1. Names(req[r], receipt[k])
  BY DEF HeldInv
<1>2. receipt'[k].po = receipt[k].po
  BY <1>1 DEF Names
<1>3. \A m \in Receipts : Has(r, m) <=> m = k
  BY DEF Has
<1>4. \A m \in Receipts : HasRow(q, m) => Has(r, m) /\ q.call # "idle"
  BY DEF HasRow, Has
<1>5. HeldInv'
  <2>1. \A m \in Receipts : HasRow(q, m) => Has(r, m)
    BY <1>4
  <2>2. \A m \in Receipts : receipt'[m] = receipt[m] \/ Has(r, m)
    BY <1>3
  <2>3. \A m \in Receipts : Has(r, m) =>
            /\ receipt'[m].po = receipt[m].po
            /\ receipt'[m].status # "unused" /\ receipt'[m].qty # 0
            /\ HasRow(q, m) => /\ q.receipt.po = req[r].receipt.po
                               /\ q.receipt.status # "unused" /\ q.receipt.qty # 0
            /\ HasRow(q, m) /\ Reads(req[r], receipt[m]) => Reads(q, receipt'[m])
    BY <1>2, <1>3, <1>4
  <2> QED
    BY <2>1, <2>2, <2>3, HeldTurn
<1>6. TypeOK'
  BY DEF ImportInv, Typed
<1>7. Grows(receipt, receipt', raced')
  BY <1>2, <1>6, HeldGrows
<1>8. \A m \in Receipts : receipt'[m].po = receipt[m].po
  BY <1>2
<1>9. CountInv'
  BY <1>6, <1>7, <1>8, CountTurns
<1> QED
  BY <1>5, <1>9

LEMMA RowsHeldOn ==
    ASSUME ImportInv, HeldInv, CountInv, ImportInv', 0 \notin Amounts,
           NEW r \in Requests, NEW k \in Receipts,
           \/ SaveData(r, k, req[r].receipt.qty, req[r].receipt.fee)
           \/ \E n \in Amounts, fee \in Fees : SaveData(r, k, n, fee)
           \/ Complete(r, k) \/ DeleteDraft(r, k)
    PROVE  HeldInv' /\ CountInv'
<1>1. /\ Has(r, k) /\ req[r].at \in {"data", "complete", "delete"} /\ req[r].id = k
      /\ UNCHANGED <<po, counted, raced>> /\ req[r] \in Request /\ req[r].receipt \in ReceiptRow
      /\ receipt \in [Receipts -> ReceiptRow] /\ DOMAIN req = Requests
  BY BooksRead DEF SaveData, Complete, DeleteDraft, At, Has, history, ImportInv, Typed, TypeOK
<1>2. /\ Names(req[r], receipt[k]) /\ req[r].at \notin After
  BY <1>1 DEF HeldInv, After
<1>3. ASSUME NEW n, NEW fee, n # 0, SaveData(r, k, n, fee)
      PROVE  HeldInv' /\ CountInv'
  <2> DEFINE row == [req[r].receipt EXCEPT !.qty = n, !.fee = fee]
             q == [req[r] EXCEPT !.receipt = row, !.at = "import"]
  <2>1. /\ req[r].call = "confirm" /\ req[r].at = "data"
        /\ receipt' = IF row = req[r].receipt THEN receipt ELSE [receipt EXCEPT ![k] = row]
        /\ req' = [req EXCEPT ![r] = q]
    BY <1>1, <1>3 DEF SaveData, At
  <2>2. row.po = req[r].receipt.po /\ row.status = req[r].receipt.status /\ row.qty = n
    BY <1>1 DEF ReceiptRow
  <2> HIDE DEF row
  <2>3. q.call = "confirm" /\ q.id = k /\ q.receipt = row /\ q.at = "import"
    BY <1>1, <2>1 DEF Request
  <2> HIDE DEF q
  <2>4. \A m \in Receipts \ {k} : receipt'[m] = receipt[m]
    BY <1>1, <2>1
  <2>5. receipt'[k] = row \/ (receipt'[k] = receipt[k] /\ row = req[r].receipt)
    BY <1>1, <2>1
  <2>6. /\ receipt'[k].po = req[r].receipt.po
        /\ receipt'[k].status # "unused" /\ receipt'[k].qty # 0
    BY <1>2, <1>3, <2>2, <2>5 DEF Names, HeldInv
  <2>7. /\ q.receipt.po = req[r].receipt.po
        /\ q.receipt.status # "unused" /\ q.receipt.qty # 0
    BY <1>2, <1>3, <2>2, <2>3 DEF Names
  <2>8. Reads(req[r], receipt[k]) => Reads(q, receipt'[k])
    BY <1>2, <2>1, <2>2, <2>3, <2>5 DEF Reads, After
  <2> QED
    BY <1>1, <1>2, <2>1, <2>3, <2>4, <2>6, <2>7, <2>8, RowHeld
<1>4. CASE Complete(r, k)
  <2> DEFINE new == [req[r].receipt EXCEPT !.status = "COMPLETED"]
             q == [req[r] EXCEPT !.at = "count"]
  <2>1. /\ req[r].call = "confirm" /\ receipt' = [receipt EXCEPT ![k] = new]
        /\ req' = [req EXCEPT ![r] = q]
    BY <1>1, <1>4 DEF Complete, At, Goto
  <2>2. new.po = req[r].receipt.po /\ new.status = "COMPLETED" /\ new.qty = req[r].receipt.qty
    BY <1>1 DEF ReceiptRow
  <2> HIDE DEF new
  <2>3. q.call = "confirm" /\ q.id = k /\ q.receipt = req[r].receipt /\ q.at = "count"
    BY <1>1, <2>1 DEF Request
  <2> HIDE DEF q
  <2>4. receipt'[k] = new /\ \A m \in Receipts \ {k} : receipt'[m] = receipt[m]
    BY <1>1, <2>1
  <2>5. Reads(q, receipt'[k])
    BY <2>2, <2>3, <2>4 DEF Reads, After
  <2>6. /\ q.receipt.po = req[r].receipt.po
        /\ q.receipt.status # "unused" /\ q.receipt.qty # 0
    BY <1>2, <2>3 DEF Names
  <2>7. /\ receipt'[k].po = req[r].receipt.po
        /\ receipt'[k].status # "unused" /\ receipt'[k].qty # 0
    BY <1>2, <2>2, <2>4 DEF Names
  <2> QED
    BY <1>1, <1>2, <2>1, <2>3, <2>4, <2>5, <2>6, <2>7, RowHeld
<1>5. CASE DeleteDraft(r, k)
  <2>1. /\ receipt' = [receipt EXCEPT ![k].status = "deleted"]
        /\ req' = [req EXCEPT ![r] = Idle]
    BY <1>5 DEF DeleteDraft, Done
  <2>2. /\ receipt'[k].po = receipt[k].po /\ receipt'[k].status = "deleted"
        /\ receipt'[k].qty = receipt[k].qty
        /\ \A m \in Receipts \ {k} : receipt'[m] = receipt[m]
    BY <1>1, <2>1 DEF ReceiptRow
  <2>3. receipt[k].qty # 0 /\ receipt[k].po = req[r].receipt.po
    BY <1>2 DEF Names, HeldInv
  <2>4. Idle.call = "idle" /\ Idle.at # "status"
    BY IdleGood DEF Idle
  <2>5. PICK q : q = Idle
    OBVIOUS
  <2>6. /\ req' = [req EXCEPT ![r] = q] /\ q.at # "status" /\ q.call = "idle"
        /\ receipt'[k].po = req[r].receipt.po
        /\ receipt'[k].status # "unused" /\ receipt'[k].qty # 0
    BY <2>1, <2>2, <2>3, <2>4, <2>5
  <2> QED
    BY <1>1, <1>2, <2>2, <2>6, RowHeld
<1>6. CASE SaveData(r, k, req[r].receipt.qty, req[r].receipt.fee)
  BY <1>2, <1>3, <1>6 DEF Names
<1> QED
  BY <1>3, <1>4, <1>5, <1>6

LEMMA BeginsHeld ==
    ASSUME ImportInv, HeldInv, CountInv, ImportInv', NEW r \in Requests, NEW call, NEW step,
           NEW id, NEW order \in Orders, NEW row, Begin(r, call, step, id, order, row),
           step \in {"data", "delete", "save"},
           call \in {"confirm", "drop"} =>
                /\ id \in Receipts /\ row = receipt[id] /\ row.status = "DRAFT"
                /\ step \in {"data", "delete"}
    PROVE  HeldInv' /\ CountInv'
<1> DEFINE q == [Idle EXCEPT !.call = call, !.at = step, !.id = id, !.po = po[order],
                             !.receipt = row]
<1>1. q.at = step /\ step # "status"
  BY DEF Idle
<1>2. /\ req' = [req EXCEPT ![r] = q] /\ raced \subseteq raced'
      /\ UNCHANGED <<po, receipt, counted>>
  BY DEF Begin, history
<1> HIDE DEF q
<1>3. TypeOK'
  BY DEF ImportInv, Typed
<1>4. Grows(receipt, receipt', raced')
  BY <1>2, SameGrows
<1>5. CountInv'
  BY <1>1, <1>2, <1>3, <1>4, CountTurns
<1>6. HeldInv'
  BY HeldBegins
<1> QED
  BY <1>5, <1>6

LEMMA HeldStep ==
    ASSUME 0 \notin Amounts
    PROVE  ImportInv /\ HeldInv /\ CountInv /\ [Next]_vars => HeldInv' /\ CountInv'
<1> SUFFICES ASSUME ImportInv, HeldInv, CountInv, [Next]_vars PROVE HeldInv' /\ CountInv'
  OBVIOUS
<1>0. ImportInv'
  BY ImportStep
<1>1. CASE UNCHANGED vars
  BY <1>1 DEF vars, history, HeldInv, CountInv, Held, Has, At
<1>2. ASSUME NEW k \in Receipts, NEW p \in Orders, NEW n \in Amounts, CreateDraftReceipt(k, p, n)
      PROVE  HeldInv' /\ CountInv'
  BY <1>0, <1>2, CreateHeld
<1>3. ASSUME NEW r \in Requests, NEW p \in Orders, OnOrder(r, p)
      PROVE  HeldInv' /\ CountInv'
  <2>1. ASSUME NEW call \in OnOrders, BeginWithOrder(r, call, "save", p)
        PROVE  HeldInv' /\ CountInv'
    <3>1. call \notin {"confirm", "drop"}
      BY DEF OnOrders
    <3> QED
      BY <1>0, <2>1, <3>1, BeginsHeld DEF BeginWithOrder
  <2> QED
    BY <1>0, <1>3, <2>1, OrderHeld DEF OnOrder, OnOrders
<1>4. ASSUME NEW r \in Requests, NEW k \in Receipts, OnReceipt(r, k)
      PROVE  HeldInv' /\ CountInv'
  <2>1. ASSUME BeginDrop(r, k) \/ BeginConfirm(r, k)
        PROVE  HeldInv' /\ CountInv'
    <3>1. receipt[k].po \in Orders /\ receipt[k].status = "DRAFT"
      BY <2>1 DEF BeginDrop, BeginConfirm, Open, ImportInv, Typed, TypeOK
    <3>2. CASE BeginDrop(r, k)
      BY <1>0, <3>1, <3>2, BeginsHeld DEF BeginDrop
    <3>3. CASE BeginConfirm(r, k)
      BY <1>0, <3>1, <3>3, BeginsHeld DEF BeginConfirm
    <3> QED
      BY <2>1, <3>2, <3>3
  <2> QED
    BY <1>0, <1>4, <2>1, BooksHeld, RowsHeldOn DEF OnReceipt
<1>5. ASSUME NEW r \in Requests,
             \/ ReadDebt(r) \/ SaveDebt(r) \/ ReadPo(r) \/ SavePo(r)
             \/ CountReceipts(r) \/ SaveStatus(r) \/ CheckPfo(r) \/ Fail(r)
      PROVE  HeldInv' /\ CountInv'
  BY <1>0, <1>5, BooksHeld, CountsHeld, EndsHeld
<1> QED
  BY <1>1, <1>2, <1>3, <1>4, <1>5 DEF Next

LEMMA HeldAtStart == Init => HeldInv /\ CountInv
<1> SUFFICES ASSUME Init PROVE HeldInv /\ CountInv
  OBVIOUS
<1>1. \A r \in Requests : req[r].call = "idle"
  BY IdleGood DEF Init
<1>2. \A k \in Receipts : receipt[k].status = "unused" /\ receipt[k].po = NoId
  BY DEF Init, NoReceipt
<1>3. counted = {}
  BY DEF Init
<1> QED
  BY <1>1, <1>2, <1>3 DEF HeldInv, CountInv, Held, Has, At

\* Where receipts are for something, an order that the receipts made DELIVERED
\* has at least 95% of its quantity in completed receipts, however the
\* confirmations of different receipts interleave.  (A receipt of nothing leaves
\* the order the status it had, DELIVERED included, and counts it all the same.)
THEOREM DeliveredIsReceived ==
    ASSUME 0 \notin Amounts
    PROVE  Spec => []DeliveredMeansReceived
<1>1. CountInv => DeliveredMeansReceived
  <2> SUFFICES ASSUME CountInv, NEW p \in counted, po[p].status = "DELIVERED",
                      \A k \in Receipts : receipt[k].po = p => k \notin raced
               PROVE  Enough(Received(p), po[p].qty)
    BY DEF DeliveredMeansReceived
  <2>1. Received95(receipt, raced, p, po[p])
    BY DEF CountInv
  <2>2. Received(p) = Arrived(receipt, p)
    BY DEF Received, SumOf, Arrived, CompletedFor
  <2> QED
    BY <2>1, <2>2 DEF Received95, Clean
<1>2. ImportInv /\ HeldInv /\ CountInv /\ [Next]_vars => (ImportInv /\ HeldInv /\ CountInv)'
  BY ImportStep, HeldStep
<1>3. Init => ImportInv /\ HeldInv /\ CountInv
  BY ImportAtStart, HeldAtStart
<1> QED
  BY <1>1, <1>2, <1>3, PTL DEF Spec
================================================================================
