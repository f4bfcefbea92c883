---------------------------- MODULE FulfilmentProofs ----------------------------
(***************************************************************************)
(* Theorems about Fulfilment, for any numbers of products, orders,         *)
(* deliveries and requests and any bounds.                                 *)
(***************************************************************************)
EXTENDS Fulfilment, BookingsProofs

\* A delivery: its fields, and items that are products.
GoodRow(row) ==
    /\ DOMAIN row = {"status", "order", "items"}
    /\ DOMAIN row.items \subseteq Skus

\* A delivery request: its fields, the delivery it works on, and the status
\* that a new delivery starts with.
GoodJob(q) ==
    /\ DOMAIN q = {"call", "id", "what", "todo", "at", "seen"}
    /\ GoodRow(q.what)
    /\ q.call \in {"export", "delete"} => q.id \in Deliveries
    /\ q.call = "deliver" => q.what.status \in {"DRAFT", "PENDING_EXPORT"}

\* With m for moved: the goods of the items an export has done, and of the
\* item it is at, have left.
Deducted(q, m) == q.call = "export" =>
    /\ \A sku \in DOMAIN q.what.items : sku \in DOMAIN q.todo \/ m[q.id][sku] >= 1
    /\ q.at # NoSku => q.at \in Skus /\ m[q.id][q.at] >= 1

RowsAndJobs ==
    /\ moved \in [Deliveries -> [Skus -> Nat]]
    /\ delivery = [d \in Deliveries |-> delivery[d]]
    /\ \A d \in Deliveries : GoodRow(delivery[d])
    /\ job = [c \in Clerks |-> job[c]]
    /\ \A c \in Clerks : GoodJob(job[c])

\* The inductive invariant: an export under way has taken out what it has done.
DeductedInv ==
    /\ RowsAndJobs
    /\ \A c \in Clerks : Deducted(job[c], moved)
    /\ ShippedMeansDeducted

--------------------------------------------------------------------------------
LEMMA NoSkuIsNone == NoSku \notin Skus
  BY FulfilmentConstants, Zenon DEF FulfilmentConstants

LEMMA OrdersSkus == ASSUME NEW o PROVE SkusOf(o) \subseteq Skus
<1>1. SkuOf \in [Lines -> Singles \cup Combos]
  BY BookingConstants, Zenon DEF BookingConstants
<1> QED
  BY <1>1 DEF SkusOf, LinesOf, Skus

LEMMA NoJobGood == GoodJob(NoJob) /\ NoJob.call = "idle"
  BY DEF GoodJob, GoodRow, NoJob, Absent

\* A step that changes one request, and no delivery nor what has left.
LEMMA JobStep ==
    ASSUME DeductedInv, NEW c \in Clerks, NEW q, GoodJob(q), Deducted(q, moved),
           job' = [job EXCEPT ![c] = q], UNCHANGED <<delivery, moved, byHand>>
    PROVE  DeductedInv'
<1>1. /\ job' = [k \in Clerks |-> job'[k]]
      /\ \A k \in Clerks : job'[k] = IF k = c THEN q ELSE job[k]
  BY DEF DeductedInv, RowsAndJobs
<1>2. RowsAndJobs'
  BY <1>1 DEF DeductedInv, RowsAndJobs
<1>3. \A k \in Clerks : Deducted(job'[k], moved')
  BY <1>1 DEF DeductedInv
<1> QED
  BY <1>2, <1>3 DEF DeductedInv, ShippedMeansDeducted

\* A step that changes one delivery and ends or keeps requests.
LEMMA RowStep ==
    ASSUME DeductedInv, NEW d \in Deliveries, NEW row, GoodRow(row),
           delivery' = [delivery EXCEPT ![d] = row],
           moved' = moved, byHand \subseteq byHand',
           \/ job' = job
           \/ \E c \in Clerks : \E q : /\ GoodJob(q) /\ q.call # "export"
                                       /\ job' = [job EXCEPT ![c] = q],
           (row.status = "SHIPPED" /\ d \notin byHand') =>
               \A sku \in DOMAIN row.items : moved[d][sku] >= 1
    PROVE  DeductedInv'
<1>1. /\ delivery' = [e \in Deliveries |-> delivery'[e]]
      /\ \A e \in Deliveries : delivery'[e] = IF e = d THEN row ELSE delivery[e]
  BY DEF DeductedInv, RowsAndJobs
<1>2. /\ job' = [k \in Clerks |-> job'[k]]
      /\ \A k \in Clerks : GoodJob(job'[k]) /\ Deducted(job'[k], moved')
  BY DEF DeductedInv, RowsAndJobs, Deducted
<1>3. RowsAndJobs'
  BY <1>1, <1>2 DEF DeductedInv, RowsAndJobs
<1>4. ShippedMeansDeducted'
  BY <1>1 DEF DeductedInv, ShippedMeansDeducted
<1> QED
  BY <1>2, <1>3, <1>4 DEF DeductedInv

--------------------------------------------------------------------------------
LEMMA DeductedAtStart == DeliveryInit => DeductedInv
<1> SUFFICES ASSUME DeliveryInit PROVE DeductedInv
  OBVIOUS
<1>1. GoodRow(Absent) /\ Absent.status = "none"
  BY DEF GoodRow, Absent
<1> QED
  BY <1>1, NoJobGood DEF DeliveryInit, DeductedInv, RowsAndJobs, Deducted, ShippedMeansDeducted

LEMMA DeliverDeducts ==
    ASSUME DeductedInv, NEW c \in Clerks, BeginDeliver(c)
    PROVE  DeductedInv'
<1>1. PICK o \in Orders, status \in {"DRAFT", "PENDING_EXPORT"} :
        \E items \in UNION {[S -> Amounts] : S \in (SUBSET SkusOf(o)) \ {{}}} :
            job' = [job EXCEPT ![c] = [NoJob EXCEPT !.call = "deliver", !.seen = Snapshot,
                        !.what = [status |-> status, order |-> o, items |-> items]]]
  BY DEF BeginDeliver
<1>2. PICK items \in UNION {[S -> Amounts] : S \in (SUBSET SkusOf(o)) \ {{}}} :
            job' = [job EXCEPT ![c] = [NoJob EXCEPT !.call = "deliver", !.seen = Snapshot,
                        !.what = [status |-> status, order |-> o, items |-> items]]]
  BY <1>1
<1> DEFINE row == [status |-> status, order |-> o, items |-> items]
           q == [NoJob EXCEPT !.call = "deliver", !.seen = Snapshot, !.what = row]
<1>3. DOMAIN items \subseteq Skus
  BY <1>2, OrdersSkus
<1>4. GoodRow(row)
  BY <1>3 DEF GoodRow
<1>5. GoodJob(q) /\ Deducted(q, moved)
  BY <1>4 DEF GoodJob, NoJob, Deducted
<1> QED
  BY <1>2, <1>5, JobStep DEF BeginDeliver, ghosts

LEMMA SaveDeducts ==
    ASSUME DeductedInv, NEW c \in Clerks, SaveDelivery(c)
    PROVE  DeductedInv'
<1>1. PICK d \in Deliveries :
        /\ delivery' = [delivery EXCEPT ![d] = job[c].what]
        /\ job' = [job EXCEPT ![c].id = d]
  BY DEF SaveDelivery
<1> DEFINE q == [job[c] EXCEPT !.id = d]
<1>2. GoodJob(job[c]) /\ job[c].call = "deliver"
  BY DEF DeductedInv, RowsAndJobs, SaveDelivery
<1>3. GoodJob(q) /\ q.call # "export" /\ job' = [job EXCEPT ![c] = q]
  BY <1>1, <1>2 DEF GoodJob, DeductedInv, RowsAndJobs
<1>4. GoodRow(job[c].what) /\ job[c].what.status # "SHIPPED"
  BY <1>2 DEF GoodJob
<1>5. moved' = moved /\ byHand' = byHand
  BY DEF SaveDelivery, ghosts
<1> HIDE DEF q
<1> QED
  BY <1>1, <1>3, <1>4, <1>5, RowStep

LEMMA ExportDeducts ==
    ASSUME DeductedInv, NEW c \in Clerks, NEW sku \in Skus, ExportGoods(c, sku)
    PROVE  DeductedInv'
<1> DEFINE q == [job[c] EXCEPT !.at = sku, !.seen = Snapshot]
           d == job[c].id
<1>1. GoodJob(job[c]) /\ job[c].call = "export" /\ d \in Deliveries /\ Deducted(job[c], moved)
  BY DEF DeductedInv, RowsAndJobs, ExportGoods, GoodJob
<1>2. /\ moved' = [moved EXCEPT ![d][sku] = @ + 1]
      /\ job' = [job EXCEPT ![c] = q]
      /\ delivery' = delivery /\ byHand' = byHand
  BY DEF ExportGoods, DeductedInv, RowsAndJobs
<1>3. /\ moved' \in [Deliveries -> [Skus -> Nat]]
      /\ moved'[d][sku] >= 1
      /\ \A e \in Deliveries, s \in Skus : moved'[e][s] >= moved[e][s]
  <2>1. moved \in [Deliveries -> [Skus -> Nat]]
    BY DEF DeductedInv, RowsAndJobs
  <2> QED
    BY <1>1, <1>2, <2>1
<1>4. \A e \in Deliveries, s \in Skus : moved[e][s] \in Nat /\ moved'[e][s] \in Nat
  BY <1>3 DEF DeductedInv, RowsAndJobs
<1>5. \A e \in Deliveries, s \in Skus : moved[e][s] >= 1 => moved'[e][s] >= 1
  BY <1>3, <1>4
<1>6. /\ GoodJob(q) /\ q.call = "export" /\ q.id = d /\ q.at = sku
      /\ q.what = job[c].what /\ q.todo = job[c].todo
  BY <1>1 DEF GoodJob
<1>7. Deducted(q, moved')
  BY <1>1, <1>3, <1>5, <1>6 DEF Deducted, GoodJob, GoodRow
<1>8. /\ job' = [k \in Clerks |-> job'[k]]
      /\ \A k \in Clerks : job'[k] = IF k = c THEN q ELSE job[k]
  BY <1>2 DEF DeductedInv, RowsAndJobs
<1> HIDE DEF q, d
<1>9. \A k \in Clerks : GoodJob(job[k]) /\ Deducted(job[k], moved')
  BY <1>5 DEF DeductedInv, RowsAndJobs, Deducted, GoodJob, GoodRow
<1>10. RowsAndJobs'
  BY <1>2, <1>3, <1>6, <1>8 DEF DeductedInv, RowsAndJobs
<1>11. ShippedMeansDeducted'
  BY <1>2, <1>5 DEF DeductedInv, RowsAndJobs, ShippedMeansDeducted, GoodRow
<1> QED
  BY <1>7, <1>8, <1>9, <1>10, <1>11 DEF DeductedInv

LEMMA CountersDeduct ==
    ASSUME DeductedInv, NEW c \in Clerks, NEW sku \in Skus, ExportCounters(c, sku)
    PROVE  DeductedInv'
<1> DEFINE rest == Restrict(job[c].todo, DOMAIN job[c].todo \ {sku})
           q == [job[c] EXCEPT !.at = NoSku, !.seen = NothingRead, !.todo = rest]
<1>1. /\ GoodJob(job[c]) /\ Deducted(job[c], moved)
      /\ job[c].call = "export" /\ job[c].at = sku /\ sku # NoSku
  BY NoSkuIsNone DEF DeductedInv, RowsAndJobs, ExportCounters
<1>2. job' = [job EXCEPT ![c] = q] /\ UNCHANGED <<delivery, moved, byHand>>
  BY DEF ExportCounters, ghosts, DeductedInv, RowsAndJobs
<1>3. DOMAIN rest = DOMAIN job[c].todo \ {sku}
  BY DEF Restrict
<1> HIDE DEF rest
<1>4. GoodJob(q) /\ Deducted(q, moved)
  BY <1>1, <1>3 DEF GoodJob, Deducted
<1> QED
  BY <1>2, <1>4, JobStep

LEMMA ShipDeducts ==
    ASSUME DeductedInv, NEW c \in Clerks, ShipDelivery(c)
    PROVE  DeductedInv'
<1> DEFINE d == job[c].id
           row == [job[c].what EXCEPT !.status = "SHIPPED"]
<1>1. GoodJob(job[c]) /\ Deducted(job[c], moved) /\ d \in Deliveries /\ DOMAIN job[c].todo = {}
  BY DEF DeductedInv, RowsAndJobs, ShipDelivery, GoodJob
<1>2. /\ GoodRow(row)
      /\ \A sku \in DOMAIN row.items : moved[d][sku] >= 1
  BY <1>1 DEF GoodJob, GoodRow, Deducted, ShipDelivery
<1>3. /\ delivery' = [delivery EXCEPT ![d] = row]
      /\ job' = [job EXCEPT ![c] = NoJob]
      /\ moved' = moved /\ byHand' = byHand
  BY DEF ShipDelivery, ghosts
<1> HIDE DEF d, row
<1> QED
  BY <1>1, <1>2, <1>3, NoJobGood, RowStep

LEMMA DeleteDeducts ==
    ASSUME DeductedInv, NEW c \in Clerks,
           \/ \E d \in Deliveries : BeginDelete(c, d)
           \/ \E sku \in Skus : DeleteGoods(c, sku) \/ DeleteLine(c, sku)
           \/ RemoveDelivery(c)
    PROVE  DeductedInv'
<1>1. CASE \E d \in Deliveries : BeginDelete(c, d)
  <2>1. PICK d \in Deliveries : BeginDelete(c, d)
    BY <1>1
  <2> DEFINE q == [call |-> "delete", id |-> d, what |-> delivery[d],
                   todo |-> delivery[d].items, at |-> NoSku, seen |-> Snapshot]
  <2>2. GoodJob(q) /\ Deducted(q, moved)
    BY DEF GoodJob, Deducted, DeductedInv, RowsAndJobs
  <2> QED
    BY <2>1, <2>2, JobStep DEF BeginDelete, ghosts
<1>2. ASSUME NEW sku \in Skus, DeleteGoods(c, sku)
      PROVE  DeductedInv'
  <2> DEFINE q == [job[c] EXCEPT !.at = sku]
  <2>1. job' = [job EXCEPT ![c] = q] /\ UNCHANGED <<delivery, moved, byHand>>
    BY <1>2 DEF DeleteGoods, DeductedInv, RowsAndJobs
  <2>2. GoodJob(q) /\ Deducted(q, moved)
    BY <1>2 DEF DeleteGoods, GoodJob, Deducted, DeductedInv, RowsAndJobs
  <2> QED
    BY <2>1, <2>2, JobStep
<1>3. ASSUME NEW sku \in Skus, DeleteLine(c, sku)
      PROVE  DeductedInv'
  <2> DEFINE q == [job[c] EXCEPT !.at = NoSku,
                                 !.todo = Restrict(@, DOMAIN @ \ {sku})]
  <2>1. job' = [job EXCEPT ![c] = q] /\ UNCHANGED <<delivery, moved, byHand>>
    BY <1>3 DEF DeleteLine, ghosts, DeductedInv, RowsAndJobs
  <2>2. GoodJob(q) /\ Deducted(q, moved)
    BY <1>3 DEF DeleteLine, GoodJob, Deducted, DeductedInv, RowsAndJobs
  <2> QED
    BY <2>1, <2>2, JobStep
<1>4. CASE RemoveDelivery(c)
  <2> DEFINE d == job[c].id
             row == [delivery[d] EXCEPT !.status = "deleted"]
  <2>1. d \in Deliveries
    BY <1>4 DEF RemoveDelivery, GoodJob, DeductedInv, RowsAndJobs
  <2>2. GoodRow(row) /\ row.status # "SHIPPED"
    BY <2>1 DEF GoodRow, DeductedInv, RowsAndJobs
  <2>3. /\ delivery' = [delivery EXCEPT ![d] = row]
        /\ job' = [job EXCEPT ![c] = NoJob]
        /\ moved' = moved /\ byHand' = byHand
    BY <1>4, <2>1 DEF RemoveDelivery, ghosts, DeductedInv, RowsAndJobs
  <2> HIDE DEF d, row
  <2> QED
    BY <2>1, <2>2, <2>3, NoJobGood, RowStep
<1> QED
  BY <1>1, <1>2, <1>3, <1>4

LEMMA UserDeducts ==
    ASSUME DeductedInv, NEW d \in Deliveries, UpdateDelivery(d) \/ SendDeliveryEmail(d)
    PROVE  DeductedInv'
<1>1. CASE UpdateDelivery(d)
  <2>1. PICK status \in Choices(delivery[d].status),
             items \in [DOMAIN delivery[d].items -> Amounts] :
          /\ delivery' = [delivery EXCEPT ![d].status = status, ![d].items = items]
          /\ byHand' = IF "SHIPPED" \in {status, delivery[d].status}
                       THEN byHand \cup {d} ELSE byHand
    BY <1>1 DEF UpdateDelivery
  <2> DEFINE row == [delivery[d] EXCEPT !.status = status, !.items = items]
  <2>2. GoodRow(delivery[d])
    BY DEF DeductedInv, RowsAndJobs
  <2>3. GoodRow(row) /\ row.status = status
    BY <2>2 DEF GoodRow
  <2>4. delivery' = [delivery EXCEPT ![d] = row]
    BY <2>1 DEF DeductedInv, RowsAndJobs
  <2>5. job' = job /\ moved' = moved
    BY <1>1 DEF UpdateDelivery
  <2>6. row.status = "SHIPPED" => d \in byHand'
    BY <2>1, <2>3
  <2>7. byHand \subseteq byHand'
    BY <2>1
  <2> HIDE DEF row
  <2> QED
    BY <2>3, <2>4, <2>5, <2>6, <2>7, RowStep
<1>2. CASE SendDeliveryEmail(d)
  <2> DEFINE row == [delivery[d] EXCEPT !.status = "SHIPPED"]
  <2>1. GoodRow(row)
    BY DEF GoodRow, DeductedInv, RowsAndJobs
  <2>2. /\ delivery' = [delivery EXCEPT ![d] = row]
        /\ job' = job /\ moved' = moved
        /\ byHand' = byHand \cup {d}
    BY <1>2 DEF SendDeliveryEmail, DeductedInv, RowsAndJobs
  <2> HIDE DEF row
  <2> QED
    BY <2>1, <2>2, RowStep
<1> QED
  BY <1>1, <1>2

LEMMA OthersDeduct ==
    ASSUME DeductedInv, NEW c \in Clerks,
           SaveOrder(c) \/ FailJob(c) \/ \E d \in Deliveries : BeginExport(c, d)
    PROVE  DeductedInv'
<1>1. CASE SaveOrder(c) \/ FailJob(c)
  <2>1. job' = [job EXCEPT ![c] = NoJob] /\ UNCHANGED <<delivery, moved, byHand>>
    BY <1>1 DEF SaveOrder, FailJob, ghosts
  <2>2. Deducted(NoJob, moved)
    BY NoJobGood DEF Deducted
  <2> QED
    BY <2>1, <2>2, NoJobGood, JobStep
<1>2. CASE \E d \in Deliveries : BeginExport(c, d)
  <2>1. PICK d \in Deliveries : BeginExport(c, d)
    BY <1>2
  <2> DEFINE q == [NoJob EXCEPT !.call = "export", !.id = d, !.what = delivery[d],
                                !.todo = delivery[d].items]
  <2>2. GoodJob(q) /\ Deducted(q, moved)
    BY DEF GoodJob, Deducted, NoJob, DeductedInv, RowsAndJobs
  <2>3. job' = [job EXCEPT ![c] = q] /\ UNCHANGED <<delivery, moved, byHand>>
    BY <2>1 DEF BeginExport, ItemsToExport, ghosts
  <2> HIDE DEF q
  <2> QED
    BY <2>2, <2>3, JobStep
<1> QED
  BY <1>1, <1>2

LEMMA DeductedStep == DeductedInv /\ [DeliveryNext]_allVars => DeductedInv'
<1> SUFFICES ASSUME DeductedInv, [DeliveryNext]_allVars PROVE DeductedInv'
  OBVIOUS
<1>1. CASE BookingStep \/ UNCHANGED allVars
  <2>1. UNCHANGED <<delivery, job, moved, byHand>>
    BY <1>1 DEF BookingStep, allVars, deliveryVars
  <2> QED
    BY <2>1 DEF DeductedInv, RowsAndJobs, ShippedMeansDeducted
<1>2. ASSUME NEW c \in Clerks, ClerkStep(c)
      PROVE  DeductedInv'
  BY <1>2, DeliverDeducts, SaveDeducts, ExportDeducts, CountersDeduct, ShipDeducts,
     DeleteDeducts, OthersDeduct DEF ClerkStep
<1>3. ASSUME NEW d \in Deliveries, UpdateDelivery(d) \/ SendDeliveryEmail(d)
      PROVE  DeductedInv'
  BY <1>3, UserDeducts
<1> QED
  BY <1>1, <1>2, <1>3 DEF DeliveryNext

\* However requests overlap, are cut short, repeated, edited or deleted: a
\* delivery that confirmStockExport made SHIPPED has had the goods of every
\* item taken out of the stock.
THEOREM ExportsAreDeducted == DeliverySpec => []ShippedMeansDeducted
<1>1. DeductedInv => ShippedMeansDeducted
  BY DEF DeductedInv
<1> QED
  BY <1>1, DeductedAtStart, DeductedStep, PTL DEF DeliverySpec

--------------------------------------------------------------------------------
(* Goods leave once, for delivery requests that do not overlap *)

\* Request q has taken out the goods of this item of delivery d.
Out(q, d, sku) ==
    q.call = "export" /\ q.id = d /\ (sku \notin DOMAIN q.todo \/ q.at = sku)

Settled(d) == delivery[d].status \in {"SHIPPED", "deleted"}

OneClerk ==
    \A b, c \in Clerks : b # c => job[b].call = "idle" \/ job[c].call = "idle"

ExportsPending ==
    \A c \in Clerks : job[c].call = "export" => delivery[job[c].id].status = "PENDING_EXPORT"

\* No more than one per fault, and one for a delivery that has been exported
\* or is being.
LeftAtMost ==
    \A d \in Deliveries \ byHand, sku \in Skus :
        /\ moved[d][sku] <= 1 + faults
        /\ (~Settled(d) /\ \A c \in Clerks : ~Out(job[c], d, sku)) => moved[d][sku] <= faults

\* The inductive invariant: a pending delivery whose export has not reached
\* an item still has its one departure to spend.
OnceInv ==
    /\ DeductedInv
    /\ faults \in Nat
    /\ OneClerk
    /\ ExportsPending
    /\ LeftAtMost

LEMMA AloneBegins ==
    ASSUME Overlap = "one at a time", NEW name, DeliveryCall(name)
    PROVE  \A c \in Clerks : job[c].call = "idle"
  BY DEF DeliveryCall, ClerksAdmit, Busy

LEMMA OnceAtStart == DeliveryInit => OnceInv
<1> SUFFICES ASSUME DeliveryInit PROVE OnceInv
  OBVIOUS
<1>1. \A d \in Deliveries, sku \in Skus : moved[d][sku] = 0
  BY DEF DeliveryInit
<1> QED
  BY <1>1, DeductedAtStart, NoJobGood
     DEF DeliveryInit, Init, OnceInv, OneClerk, ExportsPending, LeftAtMost

\* A step of one request that moves no goods and no delivery.
LEMMA OnceJobStep ==
    ASSUME OnceInv, DeductedInv', NEW c \in Clerks, NEW q,
           job' = [job EXCEPT ![c] = q],
           UNCHANGED <<delivery, moved, byHand, faults>>,
           job[c].call # "idle" \/ q.call = "idle" \/ \A b \in Clerks : job[b].call = "idle",
           q.call = "export" => delivery[q.id].status = "PENDING_EXPORT",
           \A d \in Deliveries, sku \in Skus : Out(job[c], d, sku) => Out(q, d, sku)
    PROVE  OnceInv'
<1>1. \A k \in Clerks : job'[k] = IF k = c THEN q ELSE job[k]
  BY DEF OnceInv, DeductedInv, RowsAndJobs
<1>2. OneClerk' /\ ExportsPending'
  BY <1>1 DEF OnceInv, OneClerk, ExportsPending
<1>3. \A d \in Deliveries, sku \in Skus :
        (\A k \in Clerks : ~Out(job'[k], d, sku)) => \A k \in Clerks : ~Out(job[k], d, sku)
  BY <1>1
<1>4. LeftAtMost'
  BY <1>3 DEF OnceInv, LeftAtMost, Settled
<1> QED
  BY <1>2, <1>4 DEF OnceInv

\* A delivery changes, by its only request or by a user while there is none.
LEMMA OnceRowStep ==
    ASSUME OnceInv, DeductedInv', NEW d \in Deliveries, NEW row,
           delivery' = [delivery EXCEPT ![d] = row],
           moved' = moved, faults' = faults, byHand \subseteq byHand',
           \A k \in Clerks : job'[k].call # "export",
           OneClerk',
           d \in byHand' \/ row.status \in {"SHIPPED", "deleted"}
              \/ (~Settled(d) /\ \A k \in Clerks, sku \in Skus : ~Out(job[k], d, sku)),
           \A k \in Clerks, e \in Deliveries \ {d}, sku \in Skus : ~Out(job[k], e, sku)
    PROVE  OnceInv'
<1>1. \A e \in Deliveries : delivery'[e] = IF e = d THEN row ELSE delivery[e]
  BY DEF OnceInv, DeductedInv, RowsAndJobs
<1>2. ExportsPending'
  BY DEF ExportsPending
<1>3. \A e \in Deliveries \ byHand', sku \in Skus : moved[e][sku] <= 1 + faults
  BY DEF OnceInv, LeftAtMost
<1>4. ASSUME NEW e \in Deliveries \ byHand', NEW sku \in Skus, ~Settled(e)'
      PROVE  moved[e][sku] <= faults
  <2>1. ~Settled(e) /\ \A k \in Clerks : ~Out(job[k], e, sku)
    BY <1>1, <1>4 DEF Settled
  <2> QED
    BY <2>1 DEF OnceInv, LeftAtMost
<1>5. LeftAtMost'
  BY <1>3, <1>4 DEF LeftAtMost
<1> QED
  BY <1>2, <1>5 DEF OnceInv

LEMMA OnceExport ==
    ASSUME OnceInv, DeductedInv', NEW c \in Clerks, NEW sku \in Skus, ExportGoods(c, sku)
    PROVE  OnceInv'
<1> DEFINE q == [job[c] EXCEPT !.at = sku, !.seen = Snapshot]
           d == job[c].id
<1>1. /\ GoodJob(job[c]) /\ job[c].call = "export" /\ job[c].at = NoSku
      /\ sku \in DOMAIN job[c].todo /\ d \in Deliveries
  BY DEF OnceInv, DeductedInv, RowsAndJobs, ExportGoods, GoodJob
<1>2. /\ moved' = [moved EXCEPT ![d][sku] = @ + 1]
      /\ job' = [job EXCEPT ![c] = q]
      /\ UNCHANGED <<delivery, byHand, faults>>
  BY DEF ExportGoods, OnceInv, DeductedInv, RowsAndJobs
<1>3. \A k \in Clerks : job'[k] = IF k = c THEN q ELSE job[k]
  BY <1>2 DEF OnceInv, DeductedInv, RowsAndJobs
<1>4. \A e \in Deliveries, s \in Skus :
        moved'[e][s] = IF e = d /\ s = sku THEN moved[e][s] + 1 ELSE moved[e][s]
  BY <1>1, <1>2 DEF OnceInv, DeductedInv, RowsAndJobs
<1>5. /\ q.call = "export" /\ q.id = d /\ q.at = sku /\ q.todo = job[c].todo
  BY <1>1 DEF GoodJob
<1> HIDE DEF q
<1>6. OneClerk' /\ ExportsPending'
  BY <1>1, <1>2, <1>3, <1>5 DEF OnceInv, OneClerk, ExportsPending
<1>7. \A k \in Clerks : k # c => job[k].call = "idle"
  BY <1>1 DEF OnceInv, OneClerk
<1>8. ~Settled(d) /\ \A k \in Clerks : ~Out(job[k], d, sku)
  BY <1>1, <1>7, NoSkuIsNone DEF OnceInv, ExportsPending, Settled, Out
<1>9. d \notin byHand => moved[d][sku] <= faults
  BY <1>1, <1>8 DEF OnceInv, LeftAtMost
<1>10. Out(q, d, sku)
  BY <1>5 DEF Out
<1>11. \A e \in Deliveries, s \in Skus : Out(job[c], e, s) => Out(q, e, s)
  BY <1>1, <1>5, NoSkuIsNone DEF Out
<1>12. moved \in [Deliveries -> [Skus -> Nat]] /\ faults \in Nat
  BY DEF OnceInv, DeductedInv, RowsAndJobs
<1>13. ASSUME NEW e \in Deliveries \ byHand, NEW s \in Skus
       PROVE  /\ moved'[e][s] <= 1 + faults
              /\ (~Settled(e) /\ \A k \in Clerks : ~Out(job'[k], e, s)) => moved'[e][s] <= faults
  <2>1. CASE e = d /\ s = sku
    BY <1>3, <1>4, <1>9, <1>10, <1>12, <2>1
  <2>2. CASE ~(e = d /\ s = sku)
    <3>1. moved'[e][s] = moved[e][s]
      BY <1>4, <2>2
    <3>2. (\A k \in Clerks : ~Out(job'[k], e, s)) => \A k \in Clerks : ~Out(job[k], e, s)
      BY <1>3, <1>11
    <3> QED
      BY <3>1, <3>2 DEF OnceInv, LeftAtMost
  <2> QED
    BY <2>1, <2>2
<1>14. LeftAtMost'
  BY <1>2, <1>13 DEF LeftAtMost, Settled
<1> QED
  BY <1>2, <1>6, <1>14 DEF OnceInv

LEMMA OnceFail ==
    ASSUME OnceInv, DeductedInv', UNCHANGED <<delivery, moved, byHand>>, faults' = faults + 1,
           job' = job \/ \E c \in Clerks : job' = [job EXCEPT ![c] = NoJob]
    PROVE  OnceInv'
<1>1. \A k \in Clerks : job'[k] = job[k] \/ job'[k].call = "idle"
  BY NoJobGood DEF OnceInv, DeductedInv, RowsAndJobs
<1>2. OneClerk' /\ ExportsPending'
  BY <1>1 DEF OnceInv, OneClerk, ExportsPending
<1>3. \A d \in Deliveries, sku \in Skus : moved[d][sku] \in Nat
  BY DEF OnceInv, DeductedInv, RowsAndJobs
<1>4. \A d \in Deliveries \ byHand, sku \in Skus :
        moved[d][sku] <= faults' /\ moved[d][sku] <= 1 + faults'
  BY <1>3 DEF OnceInv, LeftAtMost
<1>5. LeftAtMost'
  BY <1>4 DEF LeftAtMost
<1> QED
  BY <1>2, <1>5 DEF OnceInv

LEMMA BookingFaults ==
    ASSUME BookingStep
    PROVE  faults' \in {faults, faults + 1}
<1>1. ASSUME NEW r \in Requests, BeginBook(r) \/ BeginConfirm(r) \/ BeginSync(r)
      PROVE  faults' = faults
  BY <1>1 DEF BeginBook, BeginConfirm, BeginSync, Begin
<1>2. ASSUME NEW r \in Requests, StepOf(r)
      PROVE  faults' = faults
  BY <1>2 DEF StepOf, SkipBook, BookCounters, BookLine, ConfirmCounters, ConfirmLine,
     ExpireCounters, ExpireLine, RevertCounters, RevertLine, SyncProduct, SyncLines
<1>3. ASSUME NEW r \in Requests, Fail(r)
      PROVE  faults' = faults + 1
  BY <1>3 DEF Fail
<1>4. ASSUME BeginExpire \/ \E r \in Requests, l \in Lines : BeginRevert(r, l)
      PROVE  faults' = faults
  BY <1>4 DEF BeginExpire, BeginRevert, Begin
<1>5. ASSUME \/ \E o \in Orders : ConfirmGoodsIssue(o) \/ EditOrder(o)
             \/ \E p \in Singles : Supply(p)
             \/ \E l \in Lines : DeadlinePasses(l)
      PROVE  faults' = faults
  BY <1>5 DEF ConfirmGoodsIssue, EditOrder, Supply, DeadlinePasses
<1> QED
  BY <1>1, <1>2, <1>3, <1>4, <1>5 DEF BookingStep, NextButRevert

LEMMA OnceClerk ==
    ASSUME Overlap = "one at a time", OnceInv, DeductedInv', NEW c \in Clerks, ClerkStep(c)
    PROVE  OnceInv'
<1>1. GoodJob(job[c])
  BY DEF OnceInv, DeductedInv, RowsAndJobs
<1>2. job[c].call # "idle" => \A k \in Clerks : k # c => job[k].call = "idle"
  BY DEF OnceInv, OneClerk
<1>3. CASE BeginDeliver(c)
  <2>1. \A k \in Clerks : job[k].call = "idle"
    BY <1>3, AloneBegins DEF BeginDeliver
  <2>2. PICK what : job' = [job EXCEPT ![c] = [NoJob EXCEPT !.call = "deliver", !.seen = Snapshot,
                                               !.what = what]]
    BY <1>3 DEF BeginDeliver
  <2> DEFINE q == [NoJob EXCEPT !.call = "deliver", !.seen = Snapshot, !.what = what]
  <2>3. q.call = "deliver"
    BY DEF NoJob
  <2>4. UNCHANGED <<delivery, moved, byHand, faults>>
    BY <1>3 DEF BeginDeliver, bookingVars, vars, ghosts
  <2> HIDE DEF q
  <2> QED
    BY <2>1, <2>2, <2>3, <2>4, OnceJobStep DEF Out, q
<1>4. CASE SaveDelivery(c)
  <2>1. PICK d \in Deliveries :
          /\ delivery[d] = Absent
          /\ delivery' = [delivery EXCEPT ![d] = job[c].what]
          /\ job' = [job EXCEPT ![c].id = d]
    BY <1>4 DEF SaveDelivery
  <2>2. job[c].call = "deliver"
    BY <1>4 DEF SaveDelivery
  <2>3. \A k \in Clerks : job'[k].call = job[k].call
    BY <1>1, <2>1 DEF OnceInv, DeductedInv, RowsAndJobs, GoodJob
  <2>4. \A k \in Clerks : job[k].call # "export"
    BY <1>2, <2>2
  <2>5. OneClerk'
    BY <2>3 DEF OnceInv, OneClerk
  <2>6. ~Settled(d)
    <3>1. Absent.status = "none"
      BY DEF Absent
    <3>2. delivery[d].status = "none"
      BY <2>1, <3>1
    <3> QED
      BY <3>2 DEF Settled
  <2>7. moved' = moved /\ byHand' = byHand /\ faults' = faults
    BY <1>4 DEF SaveDelivery, bookingVars, vars, ghosts
  <2> QED
    BY <2>1, <2>3, <2>4, <2>5, <2>6, <2>7, OnceRowStep DEF Out
<1>5. CASE SaveOrder(c)
  <2>1. job' = [job EXCEPT ![c] = NoJob] /\ UNCHANGED <<delivery, moved, byHand, faults>>
    BY <1>5 DEF SaveOrder, ghosts
  <2>2. job[c].call = "deliver"
    BY <1>5 DEF SaveOrder
  <2> QED
    BY <2>1, <2>2, NoJobGood, OnceJobStep DEF Out
<1>6. ASSUME NEW d \in Deliveries, BeginExport(c, d)
      PROVE  OnceInv'
  <2>1. \A k \in Clerks : job[k].call = "idle"
    BY <1>6, AloneBegins DEF BeginExport
  <2> DEFINE q == [NoJob EXCEPT !.call = "export", !.id = d, !.what = delivery[d],
                                !.todo = ItemsToExport(d)]
  <2>2. q.call = "export" /\ q.id = d
    BY DEF NoJob
  <2>3. job' = [job EXCEPT ![c] = q] /\ UNCHANGED <<delivery, moved, byHand, faults>>
    BY <1>6 DEF BeginExport, bookingVars, vars, ghosts
  <2>4. delivery[d].status = "PENDING_EXPORT"
    BY <1>6 DEF BeginExport, Exportable
  <2> HIDE DEF q
  <2> QED
    BY <2>1, <2>2, <2>3, <2>4, OnceJobStep DEF Out
<1>7. ASSUME NEW d \in Deliveries, BeginDelete(c, d)
      PROVE  OnceInv'
  <2>1. \A k \in Clerks : job[k].call = "idle"
    BY <1>7, AloneBegins DEF BeginDelete
  <2> DEFINE q == [call |-> "delete", id |-> d, what |-> delivery[d],
                   todo |-> delivery[d].items, at |-> NoSku, seen |-> Snapshot]
  <2>2. q.call = "delete"
    OBVIOUS
  <2>3. job' = [job EXCEPT ![c] = q] /\ UNCHANGED <<delivery, moved, byHand, faults>>
    BY <1>7 DEF BeginDelete, bookingVars, vars, ghosts
  <2> HIDE DEF q
  <2> QED
    BY <2>1, <2>2, <2>3, OnceJobStep DEF Out
<1>8. ASSUME NEW sku \in Skus, ExportGoods(c, sku)
      PROVE  OnceInv'
  BY <1>8, OnceExport
<1>9. ASSUME NEW sku \in Skus, ExportCounters(c, sku)
      PROVE  OnceInv'
  <2> DEFINE rest == Restrict(job[c].todo, DOMAIN job[c].todo \ {sku})
             q == [job[c] EXCEPT !.at = NoSku, !.seen = NothingRead, !.todo = rest]
  <2>1. job[c].call = "export" /\ job[c].at = sku
    BY <1>9 DEF ExportCounters
  <2>2. job' = [job EXCEPT ![c] = q] /\ UNCHANGED <<delivery, moved, byHand, faults>>
    BY <1>9 DEF ExportCounters, ghosts, OnceInv, DeductedInv, RowsAndJobs
  <2>3. DOMAIN rest = DOMAIN job[c].todo \ {sku}
    BY DEF Restrict
  <2> HIDE DEF rest
  <2>4. q.call = "export" /\ q.id = job[c].id /\ q.todo = rest
    BY <1>1, <2>1 DEF GoodJob
  <2>5. delivery[q.id].status = "PENDING_EXPORT"
    BY <2>1, <2>4 DEF OnceInv, ExportsPending
  <2>6. \A d \in Deliveries, s \in Skus : Out(job[c], d, s) => Out(q, d, s)
    BY <2>1, <2>3, <2>4 DEF Out
  <2> HIDE DEF q
  <2> QED
    BY <2>1, <2>2, <2>5, <2>6, OnceJobStep
<1>10. ASSUME NEW sku \in Skus, DeleteGoods(c, sku) \/ DeleteLine(c, sku)
       PROVE  OnceInv'
  <2>1. PICK q : /\ job' = [job EXCEPT ![c] = q]
                 /\ q = [job[c] EXCEPT !.at = sku]
                    \/ q = [job[c] EXCEPT !.at = NoSku,
                                          !.todo = Restrict(@, DOMAIN @ \ {sku})]
    BY <1>10 DEF DeleteGoods, DeleteLine, OnceInv, DeductedInv, RowsAndJobs
  <2>2. job[c].call = "delete"
    BY <1>10 DEF DeleteGoods, DeleteLine
  <2>3. q.call = "delete"
    BY <1>1, <2>1, <2>2 DEF GoodJob
  <2>4. UNCHANGED <<delivery, moved, byHand, faults>>
    BY <1>10 DEF DeleteGoods, DeleteLine, ghosts
  <2> QED
    BY <2>1, <2>2, <2>3, <2>4, OnceJobStep DEF Out
<1>11. CASE ShipDelivery(c) \/ RemoveDelivery(c)
  <2> DEFINE d == job[c].id
  <2>1. job[c].call \in {"export", "delete"} /\ d \in Deliveries
    BY <1>1, <1>11 DEF ShipDelivery, RemoveDelivery, GoodJob
  <2>2. PICK row : /\ delivery' = [delivery EXCEPT ![d] = row]
                   /\ row = [job[c].what EXCEPT !.status = "SHIPPED"]
                      \/ row = [delivery[d] EXCEPT !.status = "deleted"]
    BY <1>11 DEF ShipDelivery, RemoveDelivery, OnceInv, DeductedInv, RowsAndJobs
  <2>3. row.status \in {"SHIPPED", "deleted"}
    BY <1>1, <2>1, <2>2 DEF GoodJob, GoodRow, OnceInv, DeductedInv, RowsAndJobs
  <2>4. /\ job' = [job EXCEPT ![c] = NoJob]
        /\ moved' = moved /\ byHand' = byHand /\ faults' = faults
    BY <1>11 DEF ShipDelivery, RemoveDelivery, bookingVars, vars, ghosts
  <2>5. \A k \in Clerks : job'[k].call = "idle"
    BY <1>2, <2>1, <2>4, NoJobGood DEF OnceInv, DeductedInv, RowsAndJobs
  <2>6. \A k \in Clerks, e \in Deliveries \ {d}, sku \in Skus : ~Out(job[k], e, sku)
    BY <1>2, <2>1 DEF Out
  <2>7. OneClerk'
    BY <2>5 DEF OneClerk
  <2> HIDE DEF d
  <2> QED
    BY <2>1, <2>2, <2>3, <2>4, <2>5, <2>6, <2>7, OnceRowStep
<1>12. CASE FailJob(c)
  <2>1. UNCHANGED <<delivery, moved, byHand>>
    BY <1>12 DEF FailJob, ghosts
  <2>2. faults' = faults + 1 /\ job' = [job EXCEPT ![c] = NoJob]
    BY <1>12 DEF FailJob
  <2> QED
    BY <2>1, <2>2, OnceFail
<1> QED
  BY <1>3, <1>4, <1>5, <1>6, <1>7, <1>8, <1>9, <1>10, <1>11, <1>12 DEF ClerkStep

LEMMA OnceUser ==
    ASSUME Overlap = "one at a time", OnceInv, DeductedInv', NEW d \in Deliveries,
           UpdateDelivery(d) \/ SendDeliveryEmail(d)
    PROVE  OnceInv'
<1>1. \A k \in Clerks : job[k].call = "idle"
  BY AloneBegins DEF UpdateDelivery, SendDeliveryEmail
<1>2. job' = job /\ moved' = moved /\ faults' = faults
  BY DEF UpdateDelivery, SendDeliveryEmail, bookingVars, vars
<1>3. OneClerk'
  BY <1>2 DEF OnceInv, OneClerk
<1>4. \A k \in Clerks, e \in Deliveries, sku \in Skus : ~Out(job[k], e, sku)
  BY <1>1 DEF Out
<1>5. byHand \subseteq byHand' /\ (Settled(d) /\ delivery[d].status # "deleted" => d \in byHand')
  BY DEF UpdateDelivery, SendDeliveryEmail, Settled
<1>6. delivery[d].status # "deleted"
  BY DEF UpdateDelivery, SendDeliveryEmail, Open
<1>7. \E row : delivery' = [delivery EXCEPT ![d] = row]
  BY DEF UpdateDelivery, SendDeliveryEmail, OnceInv, DeductedInv, RowsAndJobs
<1> QED
  BY <1>1, <1>2, <1>3, <1>4, <1>5, <1>6, <1>7, OnceRowStep

LEMMA OnceStep ==
    ASSUME Overlap = "one at a time", OnceInv, [DeliveryNext]_allVars
    PROVE  OnceInv'
<1>1. DeductedInv'
  BY DeductedStep DEF OnceInv
<1>2. CASE BookingStep
  <2>1. UNCHANGED <<delivery, job, moved, byHand>>
    BY <1>2 DEF BookingStep, deliveryVars
  <2>2. CASE faults' = faults
    BY <1>1, <2>1, <2>2 DEF OnceInv, OneClerk, ExportsPending, LeftAtMost, Settled
  <2>3. CASE faults' = faults + 1
    BY <1>1, <2>1, <2>3, OnceFail
  <2> QED
    BY <1>2, <2>2, <2>3, BookingFaults
<1>3. CASE UNCHANGED allVars
  BY <1>1, <1>3 DEF allVars, deliveryVars, vars, OnceInv, OneClerk, ExportsPending, LeftAtMost,
     Settled
<1>4. ASSUME NEW c \in Clerks, ClerkStep(c)
      PROVE  OnceInv'
  BY <1>1, <1>4, OnceClerk
<1>5. ASSUME NEW d \in Deliveries, UpdateDelivery(d) \/ SendDeliveryEmail(d)
      PROVE  OnceInv'
  BY <1>1, <1>5, OnceUser
<1> QED
  BY <1>2, <1>3, <1>4, <1>5 DEF DeliveryNext

\* With one delivery request at a time, whatever is cut short, repeated,
\* edited or deleted: the goods of an item leave for a delivery once, and once
\* more for each fault.
THEOREM ExportsTakeOnce ==
    ASSUME Overlap = "one at a time"
    PROVE  DeliverySpec => []GoodsLeaveOnce
<1>1. OnceInv => GoodsLeaveOnce
  BY DEF OnceInv, LeftAtMost, GoodsLeaveOnce
<1>2. OnceInv /\ [DeliveryNext]_allVars => OnceInv'
  BY OnceStep
<1> QED
  BY <1>1, <1>2, OnceAtStart, PTL DEF DeliverySpec


--------------------------------------------------------------------------------
(* Deletion restores, for deliveries without combos *)

Plain(items) == DOMAIN items \cap Combos = {}

\* Request q works on delivery d.
Handles(q, d) == q.call \in {"export", "delete"} /\ q.id = d

\* What a delivery has taken of single p when nothing works on it, and what it
\* has taken in the middle of its export or of its deletion.
TakenBy(row, p) ==
    IF row.status = "SHIPPED" /\ p \in DOMAIN row.items THEN row.items[p] ELSE 0
TakenSoFar(q, p) ==
    LET items == q.what.items
    IN  IF q.call = "export"
        THEN IF p \in DOMAIN items /\ (p \notin DOMAIN q.todo \/ q.at = p) THEN items[p] ELSE 0
        ELSE IF /\ q.what.status = "SHIPPED"
                /\ p \in DOMAIN items /\ p \in DOMAIN q.todo /\ q.at # p
             THEN items[p] ELSE 0

IntItems(row) == \A sku \in DOMAIN row.items : row.items[sku] \in Int

\* The delivery is as the request has read it; what is left to do is of it.
Follows(q, rows) ==
    /\ q.call = "deliver" => IntItems(q.what)
    /\ q.call \in {"export", "delete"} =>
          /\ q.what = rows[q.id] /\ q.what.status \in Open
          /\ \A sku \in DOMAIN q.todo :
                sku \in DOMAIN q.what.items /\ q.todo[sku] = q.what.items[sku]
          /\ q.at # NoSku => q.at \in DOMAIN q.todo

\* A delivery without combos has taken what its status says, or what the
\* request that works on it has got to.
Accounted ==
    \A d \in Deliveries \ byHand : Plain(delivery[d].items) => \A p \in Singles :
        /\ (\A c \in Clerks : ~Handles(job[c], d)) => taken[d][p] = TakenBy(delivery[d], p)
        /\ \A c \in Clerks : Handles(job[c], d) => taken[d][p] = TakenSoFar(job[c], p)

RestoreBooks ==
    /\ taken \in [Deliveries -> [Singles -> Int]]
    /\ \A d \in Deliveries : IntItems(delivery[d])
    /\ \A c \in Clerks : Follows(job[c], delivery)
    /\ Accounted

\* As long as no request has been cut short.
RestoreInv == faults = 0 => RestoreBooks

\* A delivery that does not exist has no items.
LEMMA NoneTaken == ASSUME NEW p PROVE Plain(Absent.items) /\ TakenBy(Absent, p) = 0
  BY DEF Absent, Plain, TakenBy

LEMMA AmountsInt == \A n \in Amounts : n \in Int
<1>1. MaxAmount \in Nat
  BY BookingConstants, Zenon DEF BookingConstants
<1> QED
  BY <1>1 DEF Amounts

\* The units of an item that is a single.
LEMMA PlainUnits ==
    ASSUME NEW sku \in Skus, sku \notin Combos, NEW n \in Int, NEW p \in Singles
    PROVE  Units(sku, n)[p] = IF p = sku THEN n ELSE 0
<1>1. Units(sku, n)[p] = n * Contents(sku)[p]
  BY DEF Units
<1>2. Contents(sku)[p] = IF p = sku THEN 1 ELSE 0
  BY DEF Contents
<1>3. n * 1 = n /\ n * 0 = 0
  OBVIOUS
<1> QED
  BY <1>1, <1>2, <1>3

\* A step of the only request, on one delivery.
LEMMA RestorePut ==
    ASSUME OnceInv, RestoreBooks, NEW c \in Clerks, \A k \in Clerks \ {c} : job[k].call = "idle",
           NEW q, job' = [job EXCEPT ![c] = q],
           NEW d \in Deliveries, NEW row, delivery' = [delivery EXCEPT ![d] = row],
           byHand' = byHand,
           NEW t \in [Singles -> Int], taken' = [taken EXCEPT ![d] = t],
           IntItems(row), Follows(q, delivery'),
           \A e \in Deliveries \ {d} : ~Handles(job[c], e) /\ ~Handles(q, e),
           d \notin byHand /\ Plain(row.items) => \A p \in Singles :
               t[p] = IF Handles(q, d) THEN TakenSoFar(q, p) ELSE TakenBy(row, p)
    PROVE  RestoreBooks'
<1>1. \A k \in Clerks : job'[k] = IF k = c THEN q ELSE job[k]
  BY DEF OnceInv, DeductedInv, RowsAndJobs
<1>2. \A e \in Deliveries : delivery'[e] = IF e = d THEN row ELSE delivery[e]
  BY DEF OnceInv, DeductedInv, RowsAndJobs
<1>3. /\ taken' \in [Deliveries -> [Singles -> Int]]
      /\ \A e \in Deliveries : taken'[e] = IF e = d THEN t ELSE taken[e]
  BY DEF RestoreBooks
<1>4. \A e \in Deliveries : IntItems(delivery'[e])
  BY <1>2 DEF RestoreBooks
<1>5. \A k \in Clerks : Follows(job'[k], delivery')
  <2> SUFFICES ASSUME NEW k \in Clerks PROVE Follows(job'[k], delivery')
    OBVIOUS
  <2>1. CASE k = c
    BY <1>1, <2>1
  <2>2. CASE k # c
    BY <1>1, <2>2 DEF Follows
  <2> QED
    BY <2>1, <2>2
<1>6. \A k \in Clerks \ {c}, e \in Deliveries : ~Handles(job[k], e) /\ ~Handles(job'[k], e)
  BY <1>1 DEF Handles
<1>7. ASSUME NEW e \in Deliveries \ byHand, Plain(delivery'[e].items), NEW p \in Singles
      PROVE  /\ (\A k \in Clerks : ~Handles(job'[k], e)) => taken'[e][p] = TakenBy(delivery'[e], p)
             /\ \A k \in Clerks : Handles(job'[k], e) => taken'[e][p] = TakenSoFar(job'[k], p)
  <2>1. CASE e = d
    BY <1>1, <1>2, <1>3, <1>6, <1>7, <2>1
  <2>2. CASE e # d
    <3>1. \A k \in Clerks : ~Handles(job[k], e) /\ ~Handles(job'[k], e)
      BY <1>1, <1>6, <2>2
    <3>2. delivery'[e] = delivery[e] /\ taken'[e] = taken[e]
      BY <1>2, <1>3, <2>2
    <3> QED
      BY <1>7, <3>1, <3>2 DEF RestoreBooks, Accounted
  <2> QED
    BY <2>1, <2>2
<1>8. Accounted'
  BY <1>7 DEF Accounted
<1> QED
  BY <1>3, <1>4, <1>5, <1>8 DEF RestoreBooks

\* A step of a request on the delivery it works on, which stays as it is.
LEMMA RestoreWork ==
    ASSUME OnceInv, RestoreBooks, NEW c \in Clerks, \A k \in Clerks \ {c} : job[k].call = "idle",
           NEW d \in Deliveries, delivery' = delivery, byHand' = byHand,
           Handles(job[c], d) \/ job[c].call = "idle",
           NEW q, job' = [job EXCEPT ![c] = q], Handles(q, d), Follows(q, delivery),
           NEW t \in [Singles -> Int], taken' = [taken EXCEPT ![d] = t],
           d \notin byHand /\ Plain(delivery[d].items) => \A p \in Singles :
               t[p] = TakenSoFar(q, p)
    PROVE  RestoreBooks'
<1>1. delivery' = [delivery EXCEPT ![d] = delivery[d]]
  BY DEF OnceInv, DeductedInv, RowsAndJobs
<1>2. \A e \in Deliveries \ {d} : ~Handles(job[c], e) /\ ~Handles(q, e)
  BY DEF Handles
<1>3. IntItems(delivery[d]) /\ Follows(q, delivery')
  BY DEF RestoreBooks
<1>4. PICK row : row = delivery[d]
  OBVIOUS
<1>5. /\ delivery' = [delivery EXCEPT ![d] = row] /\ IntItems(row)
      /\ d \notin byHand /\ Plain(row.items) => \A p \in Singles :
             t[p] = IF Handles(q, d) THEN TakenSoFar(q, p) ELSE TakenBy(row, p)
  BY <1>1, <1>3, <1>4
<1> QED
  BY <1>2, <1>3, <1>5, RestorePut

\* A request that works on no delivery that there is.
LEMMA RestoreAside ==
    ASSUME OnceInv, RestoreBooks, NEW c \in Clerks, NEW q, job' = [job EXCEPT ![c] = q],
           UNCHANGED <<delivery, taken, byHand>>,
           \A d \in Deliveries : ~Handles(job[c], d) /\ ~Handles(q, d),
           Follows(q, delivery)
    PROVE  RestoreBooks'
<1>1. \A k \in Clerks : job'[k] = IF k = c THEN q ELSE job[k]
  BY DEF OnceInv, DeductedInv, RowsAndJobs
<1>2. \A k \in Clerks, d \in Deliveries : Handles(job'[k], d) <=> k # c /\ Handles(job[k], d)
  BY <1>1
<1>3. \A k \in Clerks : Follows(job'[k], delivery')
  BY <1>1 DEF RestoreBooks
<1>4. ASSUME NEW d \in Deliveries \ byHand, Plain(delivery[d].items), NEW p \in Singles
      PROVE  /\ (\A k \in Clerks : ~Handles(job'[k], d)) => taken[d][p] = TakenBy(delivery[d], p)
             /\ \A k \in Clerks : Handles(job'[k], d) => taken[d][p] = TakenSoFar(job'[k], p)
  <2>1. (\A k \in Clerks : ~Handles(job'[k], d)) => (\A k \in Clerks : ~Handles(job[k], d))
    BY <1>2
  <2>2. \A k \in Clerks : Handles(job'[k], d) => Handles(job[k], d) /\ job'[k] = job[k]
    BY <1>1, <1>2
  <2> QED
    BY <1>4, <2>1, <2>2 DEF RestoreBooks, Accounted
<1>5. Accounted'
  BY <1>4 DEF Accounted
<1> QED
  BY <1>3, <1>5 DEF RestoreBooks


LEMMA RestoreDeliver ==
    ASSUME OnceInv, RestoreBooks, Overlap = "one at a time", NEW c \in Clerks,
           BeginDeliver(c) \/ SaveDelivery(c) \/ SaveOrder(c)
    PROVE  RestoreBooks'
<1>1. GoodJob(job[c])
  BY DEF OnceInv, DeductedInv, RowsAndJobs
<1>2. CASE BeginDeliver(c)
  <2>1. PICK o \in Orders :
          \E status \in {"DRAFT", "PENDING_EXPORT"} :
              \E items \in UNION {[S -> Amounts] : S \in (SUBSET SkusOf(o)) \ {{}}} :
                  job' = [job EXCEPT ![c] =
                          [NoJob EXCEPT !.call = "deliver", !.seen = Snapshot,
                                        !.what = [status |-> status, order |-> o,
                                                  items |-> items]]]
    BY <1>2 DEF BeginDeliver
  <2>a. PICK status \in {"DRAFT", "PENDING_EXPORT"},
            items \in UNION {[S -> Amounts] : S \in (SUBSET SkusOf(o)) \ {{}}} :
                  job' = [job EXCEPT ![c] =
                          [NoJob EXCEPT !.call = "deliver", !.seen = Snapshot,
                                        !.what = [status |-> status, order |-> o,
                                                  items |-> items]]]
    BY <2>1
  <2> DEFINE row == [status |-> status, order |-> o, items |-> items]
             q == [NoJob EXCEPT !.call = "deliver", !.seen = Snapshot, !.what = row]
  <2>2. IntItems(row)
    <3>0. PICK T \in {[S -> Amounts] : S \in (SUBSET SkusOf(o)) \ {{}}} : items \in T
      BY <2>a
    <3>5. PICK S \in (SUBSET SkusOf(o)) \ {{}} : T = [S -> Amounts]
      BY <3>0
    <3>1. items \in [S -> Amounts]
      BY <3>0, <3>5
    <3>2. \A n \in Amounts : n \in Int
      BY AmountsInt
    <3>3. DOMAIN items = S /\ \A sku \in S : items[sku] \in Amounts
      BY <3>1
    <3>4. row.items = items
      OBVIOUS
    <3> QED
      BY <3>2, <3>3, <3>4 DEF IntItems
  <2> HIDE DEF row
  <2>3. q.call = "deliver" /\ q.what = row
    BY DEF NoJob
  <2>4. job' = [job EXCEPT ![c] = q] /\ UNCHANGED <<delivery, taken, byHand>>
    BY <1>2, <2>a DEF BeginDeliver, ghosts, row
  <2>5. job[c].call = "idle"
    BY <1>2 DEF BeginDeliver
  <2> HIDE DEF q
  <2>6. /\ \A d \in Deliveries : ~Handles(job[c], d) /\ ~Handles(q, d)
        /\ Follows(q, delivery)
    BY <2>2, <2>3, <2>5 DEF Handles, Follows
  <2> QED
    BY <2>4, <2>6, RestoreAside
<1>3. CASE SaveDelivery(c)
  <2>1. PICK d \in Deliveries :
          /\ delivery[d] = Absent
          /\ delivery' = [delivery EXCEPT ![d] = job[c].what]
          /\ job' = [job EXCEPT ![c].id = d]
    BY <1>3 DEF SaveDelivery
  <2> DEFINE q == [job[c] EXCEPT !.id = d]
  <2>2. job[c].call = "deliver" /\ UNCHANGED <<taken, byHand>>
    BY <1>3 DEF SaveDelivery, ghosts
  <2>3. q.call = "deliver" /\ q.what = job[c].what
    BY <1>1, <2>2 DEF GoodJob
  <2>4. job' = [job EXCEPT ![c] = q]
    BY <2>1 DEF OnceInv, DeductedInv, RowsAndJobs
  <2> HIDE DEF q
  <2>5. PICK row : row = job[c].what
    OBVIOUS
  <2>6. IntItems(row) /\ row.status # "SHIPPED"
    BY <1>1, <2>2, <2>5 DEF RestoreBooks, Follows, GoodJob
  <2>7. \A k \in Clerks \ {c} : job[k].call = "idle"
    BY <2>2 DEF OnceInv, OneClerk
  <2>8. \A e \in Deliveries : ~Handles(job[c], e) /\ ~Handles(q, e)
    BY <2>2, <2>3 DEF Handles
  <2>9. Follows(q, delivery')
    BY <2>3, <2>5, <2>6 DEF Follows
  <2>10. PICK t : t = taken[d]
    OBVIOUS
  <2>11. t \in [Singles -> Int] /\ taken' = [taken EXCEPT ![d] = t]
    BY <2>2, <2>10 DEF RestoreBooks
  <2>12. ASSUME d \notin byHand, NEW p \in Singles
         PROVE  t[p] = 0
    <3>0. delivery[d] = Absent
      BY <2>1
    <3>1. Plain(delivery[d].items) /\ TakenBy(delivery[d], p) = 0
      BY <3>0, NoneTaken
    <3>2. \A k \in Clerks : ~Handles(job[k], d)
      BY <2>7, <2>8 DEF Handles
    <3> QED
      BY <2>10, <2>12, <3>1, <3>2 DEF RestoreBooks, Accounted
  <2>13. \A p \in Singles : TakenBy(row, p) = 0
    BY <2>6 DEF TakenBy
  <2>14. d \notin byHand /\ Plain(row.items) => \A p \in Singles :
             t[p] = IF Handles(q, d) THEN TakenSoFar(q, p) ELSE TakenBy(row, p)
    BY <2>8, <2>12, <2>13
  <2>15. delivery' = [delivery EXCEPT ![d] = row] /\ byHand' = byHand
    BY <2>1, <2>2, <2>5
  <2> QED
    BY <2>4, <2>6, <2>7, <2>8, <2>9, <2>11, <2>14, <2>15, RestorePut
<1>4. CASE SaveOrder(c)
  <2>1. job' = [job EXCEPT ![c] = NoJob] /\ UNCHANGED <<delivery, taken, byHand>>
    BY <1>4 DEF SaveOrder, ghosts
  <2>2. job[c].call = "deliver" /\ NoJob.call = "idle"
    BY <1>4, NoJobGood DEF SaveOrder
  <2>3. /\ \A d \in Deliveries : ~Handles(job[c], d) /\ ~Handles(NoJob, d)
        /\ Follows(NoJob, delivery)
    BY <2>2 DEF Handles, Follows
  <2> QED
    BY <2>1, <2>3, RestoreAside
<1> QED
  BY <1>2, <1>3, <1>4

\* What a delivery has taken while nothing works on it.
LEMMA RestFrom ==
    ASSUME OnceInv, RestoreBooks, \A k \in Clerks : job[k].call = "idle",
           NEW d \in Deliveries \ byHand, Plain(delivery[d].items), NEW p \in Singles
    PROVE  taken[d][p] = TakenBy(delivery[d], p)
<1>1. \A k \in Clerks : ~Handles(job[k], d)
  BY DEF Handles
<1> QED
  BY <1>1 DEF RestoreBooks, Accounted

LEMMA RestoreBegin ==
    ASSUME OnceInv, RestoreBooks, Overlap = "one at a time", NEW c \in Clerks,
           NEW d \in Deliveries, BeginExport(c, d) \/ BeginDelete(c, d)
    PROVE  RestoreBooks'
<1>1. \A k \in Clerks : job[k].call = "idle"
  BY AloneBegins DEF BeginExport, BeginDelete
<1>2. /\ GoodRow(delivery[d]) /\ IntItems(delivery[d])
      /\ UNCHANGED <<delivery, taken, byHand>>
  BY DEF OnceInv, DeductedInv, RowsAndJobs, RestoreBooks, BeginExport, BeginDelete, ghosts
<1>3. PICK row : row = delivery[d]
  OBVIOUS
<1>9. row.status \in Open
  BY <1>3 DEF BeginExport, BeginDelete, Exportable, Open
<1>4. PICK t : t = taken[d]
  OBVIOUS
<1>5. t \in [Singles -> Int] /\ taken' = [taken EXCEPT ![d] = t]
  BY <1>2, <1>4 DEF RestoreBooks
<1>6. ASSUME NEW q, job' = [job EXCEPT ![c] = q], q.call \in {"export", "delete"},
             q.id = d, q.what = row, q.todo = row.items, q.at = NoSku,
             q.call = "export" => row.status = "PENDING_EXPORT"
      PROVE  RestoreBooks'
  <2>1. Handles(q, d) /\ Follows(q, delivery)
    BY <1>3, <1>6, <1>9 DEF Handles, Follows
  <2>2. ASSUME d \notin byHand, Plain(delivery[d].items), NEW p \in Singles
        PROVE  t[p] = TakenSoFar(q, p)
    <3>1. t[p] = TakenBy(row, p)
      BY <1>1, <1>3, <1>4, <2>2, RestFrom
    <3>2. p # NoSku
      BY NoSkuIsNone DEF Skus
    <3>3. CASE q.call = "export"
      BY <1>6, <3>1, <3>2, <3>3 DEF TakenBy, TakenSoFar
    <3>4. CASE q.call = "delete"
      BY <1>6, <3>1, <3>2, <3>4 DEF TakenBy, TakenSoFar
    <3> QED
      BY <1>6, <3>3, <3>4
  <2>3. \A k \in Clerks \ {c} : job[k].call = "idle"
    BY <1>1
  <2>4. Handles(job[c], d) \/ job[c].call = "idle"
    BY <1>1
  <2>5. delivery' = delivery /\ byHand' = byHand
    BY <1>2
  <2>6. job' = [job EXCEPT ![c] = q]
    BY <1>6
  <2>7. d \notin byHand /\ Plain(delivery[d].items) => \A p \in Singles : t[p] = TakenSoFar(q, p)
    BY <2>2
  <2>8. t \in [Singles -> Int] /\ taken' = [taken EXCEPT ![d] = t]
    BY <1>5
  <2> QED
    BY <2>1, <2>3, <2>4, <2>5, <2>6, <2>7, <2>8, RestoreWork
<1>7. CASE BeginExport(c, d)
  <2> DEFINE q == [NoJob EXCEPT !.call = "export", !.id = d, !.what = row, !.todo = row.items]
  <2>1. job' = [job EXCEPT ![c] = q] /\ row.status = "PENDING_EXPORT"
    BY <1>3, <1>7 DEF BeginExport, ItemsToExport, Exportable
  <2>2. q.call = "export" /\ q.id = d /\ q.what = row /\ q.todo = row.items /\ q.at = NoSku
    BY DEF NoJob
  <2> HIDE DEF q
  <2> QED
    BY <1>6, <2>1, <2>2
<1>8. CASE BeginDelete(c, d)
  <2> DEFINE q == [call |-> "delete", id |-> d, what |-> row, todo |-> row.items,
                   at |-> NoSku, seen |-> Snapshot]
  <2>1. job' = [job EXCEPT ![c] = q]
    BY <1>3, <1>8 DEF BeginDelete
  <2>2. q.call = "delete" /\ q.id = d /\ q.what = row /\ q.todo = row.items /\ q.at = NoSku
    OBVIOUS
  <2> HIDE DEF q
  <2> QED
    BY <1>6, <2>1, <2>2
<1> QED
  BY <1>7, <1>8

\* What a request at work has read, and what its delivery has taken.
LEMMA AtWork ==
    ASSUME OnceInv, RestoreBooks, NEW c \in Clerks, job[c].call \in {"export", "delete"}
    PROVE  /\ job[c].id \in Deliveries /\ Handles(job[c], job[c].id) /\ GoodJob(job[c])
           /\ job[c].what = delivery[job[c].id] /\ IntItems(job[c].what)
           /\ \A sku \in DOMAIN job[c].todo :
                 /\ sku \in DOMAIN job[c].what.items /\ sku \in Skus
                 /\ job[c].todo[sku] = job[c].what.items[sku]
           /\ job[c].at # NoSku => job[c].at \in DOMAIN job[c].todo
           /\ \A k \in Clerks \ {c} : job[k].call = "idle"
<1>1. GoodJob(job[c]) /\ job[c].id \in Deliveries /\ Follows(job[c], delivery)
  BY DEF OnceInv, DeductedInv, RowsAndJobs, GoodJob, RestoreBooks
<1>2. Handles(job[c], job[c].id) /\ IntItems(delivery[job[c].id])
  BY <1>1 DEF Handles, RestoreBooks
<1>3. DOMAIN job[c].what.items \subseteq Skus
  BY <1>1 DEF GoodJob, GoodRow
<1>4. \A k \in Clerks \ {c} : job[k].call = "idle"
  BY DEF OnceInv, OneClerk
<1> QED
  BY <1>1, <1>2, <1>3, <1>4 DEF Follows

LEMMA HasTaken ==
    ASSUME OnceInv, RestoreBooks, NEW c \in Clerks, job[c].call \in {"export", "delete"},
           job[c].id \notin byHand, Plain(delivery[job[c].id].items), NEW p \in Singles
    PROVE  taken[job[c].id][p] = TakenSoFar(job[c], p)
<1>1. job[c].id \in Deliveries /\ Handles(job[c], job[c].id)
  BY AtWork
<1> QED
  BY <1>1 DEF RestoreBooks, Accounted

LEMMA UnitsInt ==
    ASSUME NEW sku \in Skus, NEW n \in Int
    PROVE  Units(sku, n) \in [Singles -> Int]
<1>1. Recipe \in [Combos -> [Singles -> Nat]]
  BY BookingConstants, Zenon DEF BookingConstants
<1>2. Contents(sku) \in [Singles -> Nat]
  <2>1. CASE sku \in Combos
    BY <1>1, <2>1 DEF Contents
  <2>2. CASE sku \notin Combos
    BY <2>2 DEF Contents
  <2> QED
    BY <2>1, <2>2
<1>3. \A p \in Singles : Contents(sku)[p] \in Int
  BY <1>2
<1>4. ASSUME NEW p \in Singles
      PROVE  n * Contents(sku)[p] \in Int
  BY <1>3
<1> QED
  BY <1>4 DEF Units

\* An item that has been read, in a delivery without combos.
LEMMA PlainItem ==
    ASSUME NEW items, Plain(items), NEW sku \in DOMAIN items
    PROVE  sku \notin Combos
  BY DEF Plain

LEMMA RestoreExport ==
    ASSUME OnceInv, RestoreBooks, NEW c \in Clerks, NEW sku \in Skus, ExportGoods(c, sku)
    PROVE  RestoreBooks'
<1>1. PICK w, d, u : w = job[c] /\ d = w.id /\ u = Units(sku, w.todo[sku])
  OBVIOUS
<1>2. /\ w.call = "export" /\ w.at = NoSku /\ sku \in DOMAIN w.todo
      /\ delivery' = delivery /\ byHand' = byHand
  BY <1>1 DEF ExportGoods
<1>3. /\ d \in Deliveries /\ Handles(w, d) /\ GoodJob(w)
      /\ w.what = delivery[d] /\ IntItems(w.what)
      /\ sku \in DOMAIN w.what.items /\ w.todo[sku] = w.what.items[sku]
      /\ \A k \in Clerks \ {c} : job[k].call = "idle"
  BY <1>1, <1>2, AtWork
<1>4. PICK n \in Int : n = w.todo[sku] /\ n = w.what.items[sku]
  BY <1>3 DEF IntItems
<1>5. u \in [Singles -> Int]
  BY <1>1, <1>4, UnitsInt
<1>6. PICK was \in [Singles -> Int] : was = taken[d]
  BY <1>3 DEF RestoreBooks
<1> DEFINE t == [p \in Singles |-> was[p] + u[p]]
           q == [w EXCEPT !.at = sku, !.seen = Snapshot]
<1>7. taken' = [taken EXCEPT ![d] = [p \in Singles |-> @[p] + u[p]]]
  BY <1>1 DEF ExportGoods
<1>8. taken' = [taken EXCEPT ![d] = t]
  BY <1>6, <1>7
<1>9. t \in [Singles -> Int] /\ \A p \in Singles : t[p] = was[p] + u[p]
  BY <1>5, <1>6
<1>10. job' = [job EXCEPT ![c] = q]
  <2>1. job' = [job EXCEPT ![c].at = sku, ![c].seen = Snapshot]
    BY DEF ExportGoods
  <2> QED
    BY <1>1, <2>1 DEF OnceInv, DeductedInv, RowsAndJobs
<1>11. /\ q.call = "export" /\ q.id = d /\ q.what = w.what /\ q.todo = w.todo /\ q.at = sku
  BY <1>1, <1>2, <1>3 DEF GoodJob
<1> HIDE DEF t, q
<1>12. Handles(q, d) /\ Follows(q, delivery)
  <2>1. Follows(w, delivery)
    BY <1>1 DEF RestoreBooks
  <2> QED
    BY <1>2, <1>11, <1>1, <2>1 DEF Handles, Follows
<1>13. ASSUME d \notin byHand, Plain(delivery[d].items), NEW p \in Singles
       PROVE  t[p] = TakenSoFar(q, p)
  <2>1. was[p] = TakenSoFar(w, p)
    BY <1>1, <1>2, <1>6, <1>13, HasTaken
  <2>2. sku \notin Combos
    BY <1>3, <1>13, PlainItem
  <2>3. u[p] = IF p = sku THEN n ELSE 0
    BY <1>1, <1>4, <2>2, PlainUnits
  <2>4. p # NoSku
    BY NoSkuIsNone DEF Skus
  <2>5. CASE p = sku
    <3>1. TakenSoFar(w, p) = 0
      BY <1>2, <1>3, <2>4, <2>5 DEF TakenSoFar
    <3>2. TakenSoFar(q, p) = n
      BY <1>3, <1>4, <1>11, <2>5 DEF TakenSoFar
    <3> QED
      BY <1>4, <1>9, <2>1, <2>3, <2>5, <3>1, <3>2
  <2>6. CASE p # sku
    <3>1. TakenSoFar(w, p) = TakenSoFar(q, p)
      BY <1>2, <1>11, <2>4, <2>6 DEF TakenSoFar
    <3>2. was[p] \in Int
      BY <1>6
    <3> QED
      BY <1>9, <2>1, <2>3, <2>6, <3>1, <3>2
  <2> QED
    BY <2>5, <2>6
<1>14. Handles(job[c], d)
  BY <1>1, <1>3
<1>15. \A k \in Clerks \ {c} : job[k].call = "idle"
  BY <1>3
<1>16. d \in Deliveries /\ delivery' = delivery /\ byHand' = byHand
  BY <1>2, <1>3
<1>17. d \notin byHand /\ Plain(delivery[d].items) => \A p \in Singles : t[p] = TakenSoFar(q, p)
  BY <1>13
<1>18. t \in [Singles -> Int]
  BY <1>9
<1> QED
  BY <1>8, <1>10, <1>12, <1>14, <1>15, <1>16, <1>17, <1>18, RestoreWork

\* The item at hand is done; what the delivery has taken stays as it is.
LEMMA RestoreItem ==
    ASSUME OnceInv, RestoreBooks, NEW c \in Clerks, NEW sku \in Skus,
           ExportCounters(c, sku) \/ DeleteLine(c, sku)
    PROVE  RestoreBooks'
<1>1. PICK w, d : w = job[c] /\ d = w.id
  OBVIOUS
<1>2. /\ w.call \in {"export", "delete"} /\ w.at = sku /\ sku \in DOMAIN w.todo
      /\ delivery' = delivery /\ byHand' = byHand /\ taken' = taken
  BY <1>1 DEF ExportCounters, DeleteLine, ghosts
<1>3. /\ d \in Deliveries /\ Handles(w, d) /\ GoodJob(w)
      /\ \A k \in Clerks \ {c} : job[k].call = "idle"
  BY <1>1, <1>2, AtWork
<1>4. PICK t \in [Singles -> Int] : t = taken[d]
  BY <1>3 DEF RestoreBooks
<1>5. taken' = [taken EXCEPT ![d] = t]
  BY <1>2, <1>4 DEF RestoreBooks
<1>6. PICK q : /\ job' = [job EXCEPT ![c] = q]
               /\ q.call = w.call /\ q.id = d /\ q.what = w.what /\ q.at = NoSku
               /\ q.todo = Restrict(w.todo, DOMAIN w.todo \ {sku})
  <2> DEFINE rest == Restrict(w.todo, DOMAIN w.todo \ {sku})
  <2>1. CASE ExportCounters(c, sku)
    <3> DEFINE q == [w EXCEPT !.at = NoSku, !.seen = NothingRead, !.todo = rest]
    <3>1. job' = [job EXCEPT ![c] = q]
      <4>1. job' = [job EXCEPT ![c].at = NoSku, ![c].seen = NothingRead,
                               ![c].todo = Restrict(@, DOMAIN @ \ {sku})]
        BY <2>1 DEF ExportCounters
      <4> QED
        BY <1>1, <4>1 DEF OnceInv, DeductedInv, RowsAndJobs
    <3>2. q.call = w.call /\ q.id = d /\ q.what = w.what /\ q.at = NoSku /\ q.todo = rest
      BY <1>1, <1>3 DEF GoodJob
    <3> HIDE DEF q
    <3> QED
      BY <3>1, <3>2
  <2>2. CASE DeleteLine(c, sku)
    <3> DEFINE q == [w EXCEPT !.at = NoSku, !.todo = rest]
    <3>1. job' = [job EXCEPT ![c] = q]
      <4>1. job' = [job EXCEPT ![c].at = NoSku, ![c].todo = Restrict(@, DOMAIN @ \ {sku})]
        BY <2>2 DEF DeleteLine
      <4> QED
        BY <1>1, <4>1 DEF OnceInv, DeductedInv, RowsAndJobs
    <3>2. q.call = w.call /\ q.id = d /\ q.what = w.what /\ q.at = NoSku /\ q.todo = rest
      BY <1>1, <1>3 DEF GoodJob
    <3> HIDE DEF q
    <3> QED
      BY <3>1, <3>2
  <2> QED
    BY <2>1, <2>2
<1>7. /\ DOMAIN q.todo = DOMAIN w.todo \ {sku}
      /\ \A s \in DOMAIN q.todo : q.todo[s] = w.todo[s]
  BY <1>6 DEF Restrict
<1>8. Handles(q, d) /\ Follows(q, delivery)
  <2>1. Follows(w, delivery)
    BY <1>1 DEF RestoreBooks
  <2> QED
    BY <1>1, <1>2, <1>6, <1>7, <2>1 DEF Handles, Follows
<1>9. ASSUME d \notin byHand, Plain(delivery[d].items), NEW p \in Singles
      PROVE  t[p] = TakenSoFar(q, p)
  <2>1. t[p] = TakenSoFar(w, p)
    BY <1>1, <1>2, <1>4, <1>9, HasTaken
  <2>2. p # NoSku
    BY NoSkuIsNone DEF Skus
  <2>3. p \in DOMAIN q.todo <=> p \in DOMAIN w.todo /\ p # sku
    BY <1>7
  <2> QED
    BY <1>2, <1>6, <2>1, <2>2, <2>3 DEF TakenSoFar
<1>10. Handles(job[c], d)
  BY <1>1, <1>3
<1>11. \A k \in Clerks \ {c} : job[k].call = "idle"
  BY <1>3
<1>12. d \in Deliveries /\ delivery' = delivery /\ byHand' = byHand
  BY <1>2, <1>3
<1>13. d \notin byHand /\ Plain(delivery[d].items) => \A p \in Singles : t[p] = TakenSoFar(q, p)
  BY <1>9
<1>14. job' = [job EXCEPT ![c] = q]
  BY <1>6
<1> QED
  BY <1>5, <1>8, <1>10, <1>11, <1>12, <1>13, <1>14, RestoreWork

LEMMA RestoreGoods ==
    ASSUME OnceInv, RestoreBooks, NEW c \in Clerks, NEW sku \in Skus, DeleteGoods(c, sku)
    PROVE  RestoreBooks'
<1>1. PICK w, d, u : w = job[c] /\ d = w.id /\ u = Returned(sku, w.todo[sku], w.what.status)
  OBVIOUS
<1>2. /\ w.call = "delete" /\ w.at = NoSku /\ sku \in DOMAIN w.todo
      /\ delivery' = delivery /\ byHand' = byHand
  BY <1>1 DEF DeleteGoods
<1>3. /\ d \in Deliveries /\ Handles(w, d) /\ GoodJob(w)
      /\ w.what = delivery[d] /\ IntItems(w.what)
      /\ sku \in DOMAIN w.what.items /\ w.todo[sku] = w.what.items[sku]
      /\ \A k \in Clerks \ {c} : job[k].call = "idle"
  BY <1>1, <1>2, AtWork
<1>4. PICK n \in Int : n = w.todo[sku] /\ n = w.what.items[sku]
  BY <1>3 DEF IntItems
<1>5. /\ u \in [Singles -> Int]
      /\ \A p \in Singles : u[p] = IF sku = p /\ w.what.status = "SHIPPED" THEN n ELSE 0
  BY <1>1, <1>4 DEF Returned
<1>6. PICK was \in [Singles -> Int] : was = taken[d]
  BY <1>3 DEF RestoreBooks
<1> DEFINE t == [p \in Singles |-> was[p] - u[p]]
           q == [w EXCEPT !.at = sku]
<1>7. taken' = [taken EXCEPT ![d] = [p \in Singles |-> @[p] - u[p]]]
  BY <1>1 DEF DeleteGoods
<1>8. taken' = [taken EXCEPT ![d] = t]
  BY <1>6, <1>7
<1>9. t \in [Singles -> Int] /\ \A p \in Singles : t[p] = was[p] - u[p]
  BY <1>5, <1>6
<1>10. job' = [job EXCEPT ![c] = q]
  <2>1. job' = [job EXCEPT ![c].at = sku]
    BY DEF DeleteGoods
  <2> QED
    BY <1>1, <2>1 DEF OnceInv, DeductedInv, RowsAndJobs
<1>11. /\ q.call = "delete" /\ q.id = d /\ q.what = w.what /\ q.todo = w.todo /\ q.at = sku
  BY <1>1, <1>2, <1>3 DEF GoodJob
<1> HIDE DEF t, q
<1>12. Handles(q, d) /\ Follows(q, delivery)
  <2>1. Follows(w, delivery)
    BY <1>1 DEF RestoreBooks
  <2> QED
    BY <1>2, <1>11, <1>1, <2>1 DEF Handles, Follows
<1>13. ASSUME d \notin byHand, Plain(delivery[d].items), NEW p \in Singles
       PROVE  t[p] = TakenSoFar(q, p)
  <2>1. was[p] = TakenSoFar(w, p) /\ was[p] \in Int
    BY <1>1, <1>2, <1>6, <1>13, HasTaken
  <2>2. u[p] = IF sku = p /\ w.what.status = "SHIPPED" THEN n ELSE 0
    BY <1>5
  <2>3. p # NoSku
    BY NoSkuIsNone DEF Skus
  <2>4. CASE p = sku /\ w.what.status = "SHIPPED"
    <3>1. TakenSoFar(w, p) = n
      BY <1>2, <1>3, <1>4, <2>3, <2>4 DEF TakenSoFar
    <3>2. TakenSoFar(q, p) = 0
      BY <1>11, <2>4 DEF TakenSoFar
    <3> QED
      BY <1>4, <1>9, <2>1, <2>2, <2>4, <3>1, <3>2
  <2>5. CASE ~(p = sku /\ w.what.status = "SHIPPED")
    <3>1. TakenSoFar(w, p) = TakenSoFar(q, p)
      BY <1>2, <1>11, <2>3, <2>5 DEF TakenSoFar
    <3> QED
      BY <1>9, <2>1, <2>2, <2>5, <3>1
  <2> QED
    BY <2>4, <2>5
<1>14. Handles(job[c], d)
  BY <1>1, <1>3
<1>15. \A k \in Clerks \ {c} : job[k].call = "idle"
  BY <1>3
<1>16. d \in Deliveries /\ delivery' = delivery /\ byHand' = byHand
  BY <1>2, <1>3
<1>17. d \notin byHand /\ Plain(delivery[d].items) => \A p \in Singles : t[p] = TakenSoFar(q, p)
  BY <1>13
<1>18. t \in [Singles -> Int]
  BY <1>9
<1> QED
  BY <1>8, <1>10, <1>12, <1>14, <1>15, <1>16, <1>17, <1>18, RestoreWork

\* An export or a deletion is done: the status says what has been taken.
LEMMA RestoreEnd ==
    ASSUME OnceInv, RestoreBooks, NEW c \in Clerks, ShipDelivery(c) \/ RemoveDelivery(c)
    PROVE  RestoreBooks'
<1>1. PICK w, d : w = job[c] /\ d = w.id
  OBVIOUS
<1>2. /\ w.call \in {"export", "delete"} /\ w.at = NoSku /\ DOMAIN w.todo = {}
      /\ job' = [job EXCEPT ![c] = NoJob] /\ byHand' = byHand /\ taken' = taken
  BY <1>1 DEF ShipDelivery, RemoveDelivery, ghosts
<1>3. /\ d \in Deliveries /\ Handles(w, d) /\ GoodJob(w)
      /\ w.what = delivery[d] /\ IntItems(w.what)
      /\ \A k \in Clerks \ {c} : job[k].call = "idle"
  BY <1>1, <1>2, AtWork
<1>4. PICK t \in [Singles -> Int] : t = taken[d]
  BY <1>3 DEF RestoreBooks
<1>5. taken' = [taken EXCEPT ![d] = t]
  BY <1>2, <1>4 DEF RestoreBooks
<1>6. PICK row : /\ delivery' = [delivery EXCEPT ![d] = row] /\ row.items = w.what.items
                 /\ row.status = IF w.call = "export" THEN "SHIPPED" ELSE "deleted"
  <2>1. DOMAIN w.what = {"status", "order", "items"}
    BY <1>3 DEF GoodJob, GoodRow
  <2>2. CASE ShipDelivery(c)
    <3> DEFINE row == [w.what EXCEPT !.status = "SHIPPED"]
    <3>1. delivery' = [delivery EXCEPT ![d] = row] /\ w.call = "export"
      BY <1>1, <2>2 DEF ShipDelivery
    <3>2. row.items = w.what.items /\ row.status = "SHIPPED"
      BY <2>1
    <3> HIDE DEF row
    <3> QED
      BY <3>1, <3>2
  <2>3. CASE RemoveDelivery(c)
    <3> DEFINE row == [w.what EXCEPT !.status = "deleted"]
    <3>1. delivery' = [delivery EXCEPT ![d].status = "deleted"] /\ w.call = "delete"
      BY <1>1, <2>3 DEF RemoveDelivery
    <3>2. delivery' = [delivery EXCEPT ![d] = row]
      BY <1>3, <3>1 DEF OnceInv, DeductedInv, RowsAndJobs
    <3>3. row.items = w.what.items /\ row.status = "deleted"
      BY <2>1
    <3> HIDE DEF row
    <3> QED
      BY <3>1, <3>2, <3>3
  <2> QED
    BY <2>2, <2>3
<1>7. \A e \in Deliveries : ~Handles(NoJob, e)
  BY NoJobGood DEF Handles
<1>8. Follows(NoJob, delivery')
  BY NoJobGood DEF Follows
<1>9. IntItems(row)
  BY <1>3, <1>6 DEF IntItems
<1>10. ASSUME d \notin byHand, Plain(row.items), NEW p \in Singles
       PROVE  t[p] = TakenBy(row, p)
  <2>1. t[p] = TakenSoFar(w, p)
    BY <1>1, <1>2, <1>3, <1>4, <1>6, <1>10, HasTaken
  <2> QED
    BY <1>2, <1>6, <2>1 DEF TakenSoFar, TakenBy
<1>11. d \notin byHand /\ Plain(row.items) => \A p \in Singles :
           t[p] = IF Handles(NoJob, d) THEN TakenSoFar(NoJob, p) ELSE TakenBy(row, p)
  BY <1>3, <1>7, <1>10
<1>12. \A e \in Deliveries \ {d} : ~Handles(job[c], e) /\ ~Handles(NoJob, e)
  BY <1>1, <1>7 DEF Handles
<1>13. \A k \in Clerks \ {c} : job[k].call = "idle"
  BY <1>3
<1>14. delivery' = [delivery EXCEPT ![d] = row] /\ d \in Deliveries
  BY <1>3, <1>6
<1>15. job' = [job EXCEPT ![c] = NoJob] /\ byHand' = byHand
  BY <1>2
<1> QED
  BY <1>5, <1>8, <1>9, <1>11, <1>12, <1>13, <1>14, <1>15, RestorePut

\* A user changes a delivery while no request is at work.
LEMMA RestoreUser ==
    ASSUME OnceInv, RestoreBooks, Overlap = "one at a time", NEW d \in Deliveries,
           UpdateDelivery(d) \/ SendDeliveryEmail(d)
    PROVE  RestoreBooks'
<1>1. /\ \A k \in Clerks : job[k].call = "idle"
      /\ job' = job /\ taken' = taken /\ faults' = faults
  BY AloneBegins DEF UpdateDelivery, SendDeliveryEmail, vars, bookingVars
<1>2. GoodRow(delivery[d]) /\ IntItems(delivery[d])
  BY DEF OnceInv, DeductedInv, RowsAndJobs, RestoreBooks
<1>3. PICK row :
        /\ delivery' = [delivery EXCEPT ![d] = row] /\ IntItems(row)
        /\ DOMAIN row.items = DOMAIN delivery[d].items
        /\ byHand' = byHand \cup {d}
           \/ (byHand' = byHand /\ row.status # "SHIPPED" /\ delivery[d].status # "SHIPPED")
  <2>1. CASE UpdateDelivery(d)
    <3>1. PICK status \in Choices(delivery[d].status), items \in [DOMAIN delivery[d].items -> Amounts] :
            /\ delivery' = [delivery EXCEPT ![d].status = status, ![d].items = items]
            /\ byHand' = IF "SHIPPED" \in {status, delivery[d].status}
                         THEN byHand \cup {d} ELSE byHand
      BY <2>1 DEF UpdateDelivery
    <3> DEFINE row == [delivery[d] EXCEPT !.status = status, !.items = items]
    <3>2. delivery' = [delivery EXCEPT ![d] = row]
      BY <3>1 DEF OnceInv, DeductedInv, RowsAndJobs
    <3>3. row.status = status /\ row.items = items
      BY <1>2 DEF GoodRow
    <3> HIDE DEF row
    <3>4. IntItems(row) /\ DOMAIN row.items = DOMAIN delivery[d].items
      BY <3>3, AmountsInt DEF IntItems
    <3> QED
      BY <3>1, <3>2, <3>3, <3>4
  <2>2. CASE SendDeliveryEmail(d)
    <3> DEFINE row == [delivery[d] EXCEPT !.status = "SHIPPED"]
    <3>1. delivery' = [delivery EXCEPT ![d] = row] /\ byHand' = byHand \cup {d}
      BY <2>2 DEF SendDeliveryEmail, OnceInv, DeductedInv, RowsAndJobs
    <3>2. row.items = delivery[d].items
      BY <1>2 DEF GoodRow
    <3> HIDE DEF row
    <3> QED
      BY <1>2, <3>1, <3>2 DEF IntItems
  <2> QED
    BY <2>1, <2>2
<1>4. \A e \in Deliveries : delivery'[e] = IF e = d THEN row ELSE delivery[e]
  BY <1>3 DEF OnceInv, DeductedInv, RowsAndJobs
<1>5. \A e \in Deliveries : IntItems(delivery'[e])
  BY <1>3, <1>4 DEF RestoreBooks
<1>6. \A k \in Clerks : Follows(job'[k], delivery')
  BY <1>1 DEF Follows
<1>7. \A k \in Clerks, e \in Deliveries : ~Handles(job'[k], e)
  BY <1>1 DEF Handles
<1>8. ASSUME NEW e \in Deliveries \ byHand', Plain(delivery'[e].items), NEW p \in Singles
      PROVE  taken'[e][p] = TakenBy(delivery'[e], p)
  <2>1. e \notin byHand
    BY <1>3, <1>8
  <2>2. CASE e = d
    <3>1. Plain(delivery[d].items)
      BY <1>3, <1>4, <1>8, <2>2 DEF Plain
    <3>2. row.status # "SHIPPED" /\ delivery[d].status # "SHIPPED"
      BY <1>3, <1>8, <2>2
    <3>3. taken[d][p] = TakenBy(delivery[d], p)
      BY <1>1, <2>1, <2>2, <3>1, RestFrom
    <3> QED
      BY <1>1, <1>4, <2>2, <3>2, <3>3 DEF TakenBy
  <2>3. CASE e # d
    <3>1. delivery'[e] = delivery[e]
      BY <1>4, <2>3
    <3>2. taken[e][p] = TakenBy(delivery[e], p)
      BY <1>1, <1>8, <2>1, <3>1, RestFrom
    <3> QED
      BY <1>1, <3>1, <3>2
  <2> QED
    BY <2>2, <2>3
<1>9. Accounted'
  BY <1>7, <1>8 DEF Accounted
<1>10. taken' \in [Deliveries -> [Singles -> Int]]
  BY <1>1 DEF RestoreBooks
<1> QED
  BY <1>5, <1>6, <1>9, <1>10 DEF RestoreBooks

LEMMA RestoreAtStart == DeliveryInit => RestoreInv
<1> SUFFICES ASSUME DeliveryInit PROVE RestoreBooks
  BY DEF RestoreInv
<1>1. /\ \A d \in Deliveries : delivery[d] = Absent
      /\ \A c \in Clerks : job[c] = NoJob
      /\ taken \in [Deliveries -> [Singles -> Int]]
      /\ \A d \in Deliveries, p \in Singles : taken[d][p] = 0
  BY DEF DeliveryInit
<1>2. IntItems(Absent)
  BY DEF IntItems, Absent
<1>3. \A c \in Clerks : Follows(job[c], delivery)
  BY <1>1, NoJobGood DEF Follows
<1>4. \A c \in Clerks, d \in Deliveries : ~Handles(job[c], d)
  BY <1>1, NoJobGood DEF Handles
<1>5. Accounted
  BY <1>1, <1>4, NoneTaken DEF Accounted
<1> QED
  BY <1>1, <1>2, <1>3, <1>5 DEF RestoreBooks

LEMMA OneMore == \A n \in Nat : n + 1 # 0
  OBVIOUS

LEMMA RestoreClerk ==
    ASSUME OnceInv, RestoreBooks, Overlap = "one at a time", faults' = 0, NEW c \in Clerks,
           ClerkStep(c)
    PROVE  RestoreBooks'
<1>1. ~FailJob(c)
  <2>1. faults \in Nat
    BY DEF OnceInv
  <2>2. ASSUME FailJob(c)
        PROVE  faults' = faults + 1
    BY <2>2 DEF FailJob
  <2>3. faults + 1 # 0
    BY <2>1, OneMore
  <2>4. CASE FailJob(c)
    BY <2>2, <2>3, <2>4
  <2> QED
    BY <2>4
<1>2. CASE BeginDeliver(c) \/ SaveDelivery(c) \/ SaveOrder(c)
  BY <1>2, RestoreDeliver
<1>3. CASE \E d \in Deliveries : BeginExport(c, d) \/ BeginDelete(c, d)
  BY <1>3, RestoreBegin
<1>4. ASSUME NEW sku \in Skus, \/ ExportGoods(c, sku) \/ ExportCounters(c, sku)
                              \/ DeleteGoods(c, sku) \/ DeleteLine(c, sku)
      PROVE  RestoreBooks'
  BY <1>4, RestoreExport, RestoreItem, RestoreGoods
<1>5. CASE ShipDelivery(c) \/ RemoveDelivery(c)
  BY <1>5, RestoreEnd
<1> QED
  BY <1>1, <1>2, <1>3, <1>4, <1>5 DEF ClerkStep

LEMMA FaultsGrow ==
    ASSUME OnceInv, [DeliveryNext]_allVars, faults' = 0
    PROVE  faults = 0
<1>1. faults \in Nat
  BY DEF OnceInv
<1>2. faults' \in {faults, faults + 1}
  <2>1. CASE BookingStep
    BY <2>1, BookingFaults
  <2>2. CASE UNCHANGED allVars
    BY <2>2 DEF allVars, vars
  <2>3. ASSUME NEW c \in Clerks, ClerkStep(c)
        PROVE  faults' \in {faults, faults + 1}
    BY <2>3 DEF ClerkStep, BeginDeliver, SaveDelivery, SaveOrder, BeginExport, BeginDelete,
       ExportGoods, ExportCounters, ShipDelivery, DeleteGoods, DeleteLine, RemoveDelivery,
       FailJob, bookingVars, vars
  <2>4. ASSUME NEW d \in Deliveries, UpdateDelivery(d) \/ SendDeliveryEmail(d)
        PROVE  faults' = faults
    BY <2>4 DEF UpdateDelivery, SendDeliveryEmail, bookingVars, vars
  <2> QED
    BY <2>1, <2>2, <2>3, <2>4 DEF DeliveryNext
<1> QED
  BY <1>1, <1>2

LEMMA RestoreStep ==
    ASSUME Overlap = "one at a time", OnceInv, RestoreInv, [DeliveryNext]_allVars
    PROVE  RestoreInv'
<1> SUFFICES ASSUME faults' = 0 PROVE RestoreBooks'
  BY DEF RestoreInv
<1>1. RestoreBooks
  BY FaultsGrow DEF RestoreInv
<1>2. CASE UNCHANGED deliveryVars
  BY <1>1, <1>2 DEF deliveryVars, RestoreBooks, Accounted
<1>3. ASSUME NEW c \in Clerks, ClerkStep(c)
      PROVE  RestoreBooks'
  BY <1>1, <1>3, RestoreClerk
<1>4. ASSUME NEW d \in Deliveries, UpdateDelivery(d) \/ SendDeliveryEmail(d)
      PROVE  RestoreBooks'
  BY <1>1, <1>4, RestoreUser
<1> QED
  BY <1>2, <1>3, <1>4 DEF DeliveryNext, BookingStep, allVars

\* "If delivery was already SHIPPED, restore inventory": with one delivery
\* request at a time and none cut short, a deleted delivery without combos has
\* left the stock as if it had never been, whatever was edited, exported and
\* deleted before; deliveries that a user set SHIPPED are set aside.
THEOREM DeletionsRestore ==
    ASSUME Overlap = "one at a time"
    PROVE  DeliverySpec => []PlainDeletionRestores
<1>1. ASSUME OnceInv, RestoreInv
      PROVE  PlainDeletionRestores
  <2> SUFFICES ASSUME faults = 0, NEW d \in Deliveries, delivery[d].status = "deleted",
                      d \notin byHand, DOMAIN delivery[d].items \cap Combos = {},
                      NEW p \in Singles
               PROVE  taken[d][p] = 0
    BY DEF PlainDeletionRestores, Restored
  <2>1. RestoreBooks /\ Plain(delivery[d].items)
    BY <1>1 DEF RestoreInv, Plain
  <2>2. \A c \in Clerks : ~Handles(job[c], d)
    BY <2>1 DEF RestoreBooks, Follows, Handles, Open
  <2>3. taken[d][p] = TakenBy(delivery[d], p)
    BY <2>1, <2>2 DEF RestoreBooks, Accounted
  <2> QED
    BY <2>3 DEF TakenBy
<1>2. OnceInv /\ RestoreInv /\ [DeliveryNext]_allVars => OnceInv' /\ RestoreInv'
  BY OnceStep, RestoreStep
<1> QED
  BY <1>1, <1>2, OnceAtStart, RestoreAtStart, PTL DEF DeliverySpec


--------------------------------------------------------------------------------
(* Types *)

LEMMA ItemsElements ==
    ASSUME NEW t \in Items
    PROVE  DOMAIN t \subseteq Skus /\ \A sku \in DOMAIN t : t[sku] \in Amounts
<1>1. PICK S \in SUBSET Skus : t \in [S -> Amounts]
  BY DEF Items
<1> QED
  BY <1>1

LEMMA ItemsBuild ==
    ASSUME NEW S \in SUBSET Skus, NEW t \in [S -> Amounts]
    PROVE  t \in Items
  BY DEF Items

LEMMA ItemsRestrict ==
    ASSUME NEW t \in Items, NEW S
    PROVE  Restrict(t, DOMAIN t \ S) \in Items
<1>1. DOMAIN t \ S \in SUBSET Skus
  BY ItemsElements
<1>2. Restrict(t, DOMAIN t \ S) \in [DOMAIN t \ S -> Amounts]
  BY ItemsElements DEF Restrict
<1> QED
  BY <1>1, <1>2, ItemsBuild

LEMMA AbsentType == Absent \in Delivery
<1>1. <<>> \in [{} -> Amounts]
  OBVIOUS
<1>2. {} \in SUBSET Skus
  OBVIOUS
<1>3. <<>> \in Items
  BY <1>1, <1>2, ItemsBuild
<1> QED
  BY <1>3 DEF Absent, Delivery

DeliveryTypes ==
    /\ Types
    /\ delivery \in [Deliveries -> Delivery]
    /\ job \in [Clerks -> Job]
    /\ served \in 0..MaxDeliveryCalls
    /\ moved \in [Deliveries -> [Skus -> Nat]]
    /\ taken \in [Deliveries -> [Singles -> Int]]
    /\ byHand \subseteq Deliveries

LEMMA NoJobType == NoJob \in Job
<1>1. NothingRead \in [stock : [Singles -> Int], booking : Counter, approved : Counter,
                       line : [Lines -> Line]]
  BY MaxAmountType DEF NothingRead, Counter, Line, Unbooked, BookingStatus
<1>2. Absent.items \in Items /\ Absent.items = <<>>
  BY AbsentType DEF Delivery, Absent
<1> QED
  BY <1>1, <1>2, AbsentType DEF NoJob, Job

\* Serving one more request.
LEMMA ServedType ==
    ASSUME DeliveryTypes, NEW name, DeliveryCall(name)
    PROVE  served' \in 0..MaxDeliveryCalls
<1>1. MaxDeliveryCalls \in Nat
  BY FulfilmentConstants, Zenon DEF FulfilmentConstants
<1>2. served \in 0..MaxDeliveryCalls /\ served < MaxDeliveryCalls /\ served' = served + 1
  BY DEF DeliveryTypes, DeliveryCall
<1> QED
  BY <1>1, <1>2

\* A request is at work, and nothing else of the deliveries changes.
LEMMA JobTypes ==
    ASSUME DeliveryTypes, Types', NEW c \in Clerks, NEW q \in Job, job' = [job EXCEPT ![c] = q],
           delivery' \in [Deliveries -> Delivery], served' \in 0..MaxDeliveryCalls,
           moved' \in [Deliveries -> [Skus -> Nat]],
           taken' \in [Deliveries -> [Singles -> Int]], byHand' \subseteq Deliveries
    PROVE  DeliveryTypes'
  BY DEF DeliveryTypes

LEMMA SnapshotTyped ==
    ASSUME DeliveryTypes
    PROVE  Snapshot \in [stock : [Singles -> Int], booking : Counter, approved : Counter,
                         line : [Lines -> Line]]
  BY SnapshotType DEF DeliveryTypes

LEMMA SameTypes ==
    ASSUME DeliveryTypes, UNCHANGED bookingVars
    PROVE  Types'
  BY DEF DeliveryTypes, bookingVars, vars, Types

LEMMA TypesDeliver ==
    ASSUME DeliveryTypes, NEW c \in Clerks, BeginDeliver(c) \/ SaveDelivery(c) \/ SaveOrder(c)
    PROVE  DeliveryTypes'
<1>0. job[c] \in Job
  BY DEF DeliveryTypes
<1>1. CASE BeginDeliver(c)
  <2>1. PICK o \in Orders :
          \E status \in {"DRAFT", "PENDING_EXPORT"} :
              \E items \in UNION {[S -> Amounts] : S \in (SUBSET SkusOf(o)) \ {{}}} :
                  job' = [job EXCEPT ![c] =
                          [NoJob EXCEPT !.call = "deliver", !.seen = Snapshot,
                                        !.what = [status |-> status, order |-> o,
                                                  items |-> items]]]
    BY <1>1 DEF BeginDeliver
  <2>2. PICK status \in {"DRAFT", "PENDING_EXPORT"},
             items \in UNION {[S -> Amounts] : S \in (SUBSET SkusOf(o)) \ {{}}} :
                  job' = [job EXCEPT ![c] =
                          [NoJob EXCEPT !.call = "deliver", !.seen = Snapshot,
                                        !.what = [status |-> status, order |-> o,
                                                  items |-> items]]]
    BY <2>1
  <2>3. items \in Items
    <3>1. PICK T \in {[S -> Amounts] : S \in (SUBSET SkusOf(o)) \ {{}}} : items \in T
      BY <2>2
    <3>2. PICK S \in (SUBSET SkusOf(o)) \ {{}} : T = [S -> Amounts]
      BY <3>1
    <3>3. S \in SUBSET Skus /\ items \in [S -> Amounts]
      BY <3>1, <3>2, OrdersSkus
    <3> QED
      BY <3>3, ItemsBuild
  <2> DEFINE row == [status |-> status, order |-> o, items |-> items]
             q == [NoJob EXCEPT !.call = "deliver", !.seen = Snapshot, !.what = row]
  <2>4. row \in Delivery
    BY <2>3 DEF Delivery, Open
  <2> HIDE DEF row
  <2>5. q \in Job
    BY <2>4, NoJobType, SnapshotTyped DEF Job
  <2>6. job' = [job EXCEPT ![c] = q]
    BY <2>2 DEF row
  <2> HIDE DEF q
  <2>7. Types'
    BY <1>1, SameTypes DEF BeginDeliver
  <2>8. served' \in 0..MaxDeliveryCalls
    BY <1>1, ServedType DEF BeginDeliver
  <2>9. UNCHANGED <<delivery, ghosts>>
    BY <1>1 DEF BeginDeliver
  <2> QED
    BY <2>5, <2>6, <2>7, <2>8, <2>9, JobTypes DEF ghosts, DeliveryTypes
<1>2. CASE SaveDelivery(c)
  <2>1. PICK d \in Deliveries :
          /\ delivery' = [delivery EXCEPT ![d] = job[c].what]
          /\ job' = [job EXCEPT ![c].id = d]
    BY <1>2 DEF SaveDelivery
  <2> DEFINE q == [job[c] EXCEPT !.id = d]
  <2>2. q \in Job
    BY <1>0 DEF Job
  <2>3. job' = [job EXCEPT ![c] = q]
    BY <2>1 DEF DeliveryTypes
  <2> HIDE DEF q
  <2>4. delivery' \in [Deliveries -> Delivery]
    <3>1. job[c].what \in Delivery
      BY <1>0 DEF Job
    <3> QED
      BY <2>1, <3>1 DEF DeliveryTypes
  <2>5. Types' /\ UNCHANGED <<served, ghosts>>
    BY <1>2, SameTypes DEF SaveDelivery
  <2> QED
    BY <2>2, <2>3, <2>4, <2>5, JobTypes DEF ghosts, DeliveryTypes
<1>3. CASE SaveOrder(c)
  <2>1. job[c].seen.line \in [Lines -> Line]
    BY <1>0 DEF Job
  <2>2. /\ line' = [l \in Lines |-> IF OrderOf[l] = job[c].what.order
                                   THEN job[c].seen.line[l] ELSE line[l]]
        /\ UNCHANGED <<stock, booking, approved, req>>
    BY <1>3 DEF SaveOrder
  <2>3. line' \in [Lines -> Line]
    BY <2>1, <2>2 DEF DeliveryTypes, Types
  <2>4. Types'
    BY <2>2, <2>3 DEF DeliveryTypes, Types
  <2>5. job' = [job EXCEPT ![c] = NoJob] /\ UNCHANGED <<delivery, served, ghosts>>
    BY <1>3 DEF SaveOrder
  <2> QED
    BY <2>4, <2>5, NoJobType, JobTypes DEF ghosts, DeliveryTypes
<1> QED
  BY <1>1, <1>2, <1>3

LEMMA TypesUser ==
    ASSUME DeliveryTypes, NEW d \in Deliveries, UpdateDelivery(d) \/ SendDeliveryEmail(d)
    PROVE  DeliveryTypes'
<1>1. delivery[d] \in Delivery
  BY DEF DeliveryTypes
<1>2. delivery' \in [Deliveries -> Delivery] /\ byHand' \subseteq Deliveries
  <2>1. CASE UpdateDelivery(d)
    <3>1. PICK status \in Choices(delivery[d].status), items \in [DOMAIN delivery[d].items -> Amounts] :
            /\ delivery' = [delivery EXCEPT ![d].status = status, ![d].items = items]
            /\ byHand' = IF "SHIPPED" \in {status, delivery[d].status}
                         THEN byHand \cup {d} ELSE byHand
      BY <2>1 DEF UpdateDelivery
    <3> DEFINE row == [delivery[d] EXCEPT !.status = status, !.items = items]
    <3>2. DOMAIN delivery[d].items \in SUBSET Skus
      BY <1>1, ItemsElements DEF Delivery
    <3>3. items \in Items
      BY <3>2, ItemsBuild
    <3>4. status \in Open
      BY DEF Choices, Open
    <3>5. row \in Delivery
      BY <1>1, <3>3, <3>4 DEF Delivery
    <3>6. delivery' = [delivery EXCEPT ![d] = row]
      BY <3>1 DEF DeliveryTypes
    <3> HIDE DEF row
    <3> QED
      BY <3>1, <3>5, <3>6 DEF DeliveryTypes
  <2>2. CASE SendDeliveryEmail(d)
    <3> DEFINE row == [delivery[d] EXCEPT !.status = "SHIPPED"]
    <3>1. row \in Delivery
      BY <1>1 DEF Delivery, Open
    <3>2. delivery' = [delivery EXCEPT ![d] = row] /\ byHand' = byHand \cup {d}
      BY <2>2 DEF SendDeliveryEmail, DeliveryTypes
    <3> HIDE DEF row
    <3> QED
      BY <3>1, <3>2 DEF DeliveryTypes
  <2> QED
    BY <2>1, <2>2
<1>3. /\ Types' /\ served' \in 0..MaxDeliveryCalls
      /\ UNCHANGED <<job, moved, taken>>
  BY SameTypes, ServedType DEF UpdateDelivery, SendDeliveryEmail
<1> QED
  BY <1>2, <1>3 DEF DeliveryTypes

LEMMA TypesBegin ==
    ASSUME DeliveryTypes, NEW c \in Clerks, NEW d \in Deliveries,
           BeginExport(c, d) \/ BeginDelete(c, d)
    PROVE  DeliveryTypes'
<1>1. /\ Types' /\ served' \in 0..MaxDeliveryCalls
      /\ UNCHANGED <<delivery, moved, taken, byHand>>
  BY SameTypes, ServedType DEF BeginExport, BeginDelete, ghosts
<1>2. PICK row \in Delivery : row = delivery[d]
  BY DEF DeliveryTypes
<1>3. PICK q \in Job : job' = [job EXCEPT ![c] = q]
  <2>1. row.items \in Items
    BY <1>2 DEF Delivery
  <2>2. CASE BeginExport(c, d)
    <3> DEFINE q == [NoJob EXCEPT !.call = "export", !.id = d, !.what = row, !.todo = row.items]
    <3>1. q \in Job
      BY <2>1, NoJobType DEF Job
    <3>2. job' = [job EXCEPT ![c] = q]
      BY <1>2, <2>2 DEF BeginExport, ItemsToExport
    <3> HIDE DEF q
    <3> QED
      BY <3>1, <3>2
  <2>3. CASE BeginDelete(c, d)
    <3> DEFINE q == [call |-> "delete", id |-> d, what |-> row, todo |-> row.items,
                     at |-> NoSku, seen |-> Snapshot]
    <3>1. q \in Job
      BY <2>1, SnapshotTyped DEF Job
    <3>2. job' = [job EXCEPT ![c] = q]
      BY <1>2, <2>3 DEF BeginDelete
    <3> HIDE DEF q
    <3> QED
      BY <3>1, <3>2
  <2> QED
    BY <2>2, <2>3
<1> QED
  BY <1>1, <1>3, JobTypes DEF DeliveryTypes

\* The counters a step writes, from values that were read.
LEMMA LessType ==
    ASSUME NEW u \in [Singles -> Int], NEW column \in Counter
    PROVE  [p \in Singles |-> FromZero(column[p] - u[p])] \in Counter
<1>1. \A p \in Singles : column[p] - u[p] \in Int
  BY DEF Counter
<1> QED
  BY <1>1, FromZeroType DEF Counter

LEMMA TodoItem ==
    ASSUME DeliveryTypes, NEW c \in Clerks, NEW sku \in DOMAIN job[c].todo
    PROVE  /\ sku \in Skus /\ job[c].todo[sku] \in Nat /\ job[c].todo[sku] \in Int
           /\ Units(sku, job[c].todo[sku]) \in [Singles -> Int]
<1>1. job[c].todo \in Items
  BY DEF DeliveryTypes, Job
<1>2. sku \in Skus /\ job[c].todo[sku] \in Amounts
  BY <1>1, ItemsElements
<1>3. job[c].todo[sku] \in Nat /\ job[c].todo[sku] \in Int
  BY <1>2, MaxAmountType DEF Amounts
<1> QED
  BY <1>2, <1>3, UnitsInt

LEMMA TypesGoods ==
    ASSUME DeductedInv, DeliveryTypes, NEW c \in Clerks, NEW sku \in Skus, ExportGoods(c, sku)
    PROVE  DeliveryTypes'
<1>1. PICK w, d, u : w = job[c] /\ d = w.id /\ u = Units(sku, w.todo[sku])
  OBVIOUS
<1>2. w \in Job /\ w.call = "export" /\ sku \in DOMAIN w.todo
  BY <1>1 DEF DeliveryTypes, ExportGoods
<1>3. u \in [Singles -> Int]
  BY <1>1, <1>2, TodoItem
<1>4. d \in Deliveries
  BY <1>1, <1>2 DEF DeductedInv, RowsAndJobs, GoodJob
<1>5. /\ stock' = [p \in Singles |-> stock[p] - u[p]]
      /\ moved' = [moved EXCEPT ![d][sku] = @ + 1]
      /\ taken' = [taken EXCEPT ![d] = [p \in Singles |-> @[p] + u[p]]]
      /\ job' = [job EXCEPT ![c].at = sku, ![c].seen = Snapshot]
      /\ UNCHANGED <<booking, approved, line, req, delivery, served, byHand>>
  BY <1>1 DEF ExportGoods
<1> DEFINE q == [w EXCEPT !.at = sku, !.seen = Snapshot]
<1>6. q \in Job
  BY <1>2, SnapshotTyped DEF Job
<1>7. job' = [job EXCEPT ![c] = q]
  BY <1>1, <1>5 DEF DeliveryTypes
<1> HIDE DEF q
<1>8. Types'
  <2>1. \A p \in Singles : stock[p] \in Int /\ u[p] \in Int
    BY <1>3 DEF DeliveryTypes, Types
  <2>2. stock' \in [Singles -> Int]
    BY <1>5, <2>1
  <2> QED
    BY <1>5, <2>2 DEF DeliveryTypes, Types
<1>9. moved' \in [Deliveries -> [Skus -> Nat]]
  <2>1. moved \in [Deliveries -> [Skus -> Nat]]
    BY DEF DeliveryTypes
  <2> QED
    BY <1>4, <1>5, <2>1
<1>10. taken' \in [Deliveries -> [Singles -> Int]]
  <2>1. taken \in [Deliveries -> [Singles -> Int]]
    BY DEF DeliveryTypes
  <2>2. \A p \in Singles : taken[d][p] \in Int /\ u[p] \in Int
    BY <1>3, <1>4, <2>1
  <2>3. [p \in Singles |-> taken[d][p] + u[p]] \in [Singles -> Int]
    BY <2>2
  <2> QED
    BY <1>4, <1>5, <2>1, <2>3
<1>11. delivery' \in [Deliveries -> Delivery] /\ served' \in 0..MaxDeliveryCalls /\ byHand' \subseteq Deliveries
  BY <1>5 DEF DeliveryTypes
<1> QED
  BY <1>6, <1>7, <1>8, <1>9, <1>10, <1>11, JobTypes

LEMMA TypesCounters ==
    ASSUME DeliveryTypes, NEW c \in Clerks, NEW sku \in Skus, ExportCounters(c, sku)
    PROVE  DeliveryTypes'
<1>1. PICK w, u : w = job[c] /\ u = Units(sku, w.todo[sku])
  OBVIOUS
<1>2. w \in Job /\ sku \in DOMAIN w.todo
  BY <1>1 DEF DeliveryTypes, ExportCounters
<1>3. u \in [Singles -> Int]
  BY <1>1, <1>2, TodoItem
<1>4. /\ booking' = Written(sku, booking, [p \in Singles |-> FromZero(w.seen.booking[p] - u[p])])
      /\ approved' = Written(sku, approved, [p \in Singles |-> FromZero(w.seen.approved[p] - u[p])])
      /\ job' = [job EXCEPT ![c].at = NoSku, ![c].seen = NothingRead,
                            ![c].todo = Restrict(@, DOMAIN @ \ {sku})]
      /\ UNCHANGED <<stock, line, req, delivery, served, ghosts>>
  BY <1>1 DEF ExportCounters
<1> DEFINE rest == Restrict(w.todo, DOMAIN w.todo \ {sku})
           q == [w EXCEPT !.at = NoSku, !.seen = NothingRead, !.todo = rest]
<1>5. rest \in Items
  BY <1>2, ItemsRestrict DEF Job
<1>6. job' = [job EXCEPT ![c] = q]
  BY <1>1, <1>4 DEF DeliveryTypes
<1> HIDE DEF rest
<1>7. NothingRead = NoJob.seen
  BY DEF NoJob
<1>8. q \in Job
  BY <1>2, <1>5, <1>7, NoJobType DEF Job
<1> HIDE DEF q
<1>9. w.seen.booking \in Counter /\ w.seen.approved \in Counter
  BY <1>2 DEF Job
<1>10. /\ [p \in Singles |-> FromZero(w.seen.booking[p] - u[p])] \in Counter
       /\ [p \in Singles |-> FromZero(w.seen.approved[p] - u[p])] \in Counter
  BY <1>3, <1>9, LessType
<1>11. booking' \in Counter /\ approved' \in Counter
  BY <1>4, <1>10, WrittenType DEF DeliveryTypes, Types
<1>12. Types'
  BY <1>4, <1>11 DEF DeliveryTypes, Types
<1> QED
  BY <1>4, <1>6, <1>8, <1>12, JobTypes DEF DeliveryTypes, ghosts

LEMMA TypesReturn ==
    ASSUME DeliveryTypes, NEW c \in Clerks, NEW sku \in Skus, DeleteGoods(c, sku)
    PROVE  DeliveryTypes'
<1>1. PICK w, d, n : w = job[c] /\ d = w.id /\ n = w.todo[sku]
  OBVIOUS
<1>2. PICK u : u = Returned(sku, n, w.what.status)
  OBVIOUS
<1>3. w \in Job /\ sku \in DOMAIN w.todo
  BY <1>1 DEF DeliveryTypes, DeleteGoods
<1>4. n \in Int /\ Units(sku, n) \in [Singles -> Int]
  BY <1>1, <1>3, TodoItem
<1>5. u \in [Singles -> Int]
  BY <1>2, <1>4 DEF Returned
<1>6. /\ stock' = [p \in Singles |-> stock[p] + u[p]]
      /\ taken' = [taken EXCEPT ![d] = [p \in Singles |-> @[p] - u[p]]]
      /\ approved' = IF w.what.status # "PENDING_EXPORT" THEN approved
                     ELSE Written(sku, approved,
                                  [p \in Singles |-> FromZero(approved[p] - Units(sku, n)[p])])
      /\ job' = [job EXCEPT ![c].at = sku]
      /\ UNCHANGED <<booking, line, req, delivery, served, moved, byHand>>
  BY <1>1, <1>2 DEF DeleteGoods
<1> DEFINE q == [w EXCEPT !.at = sku]
<1>7. q \in Job
  BY <1>3 DEF Job
<1>8. job' = [job EXCEPT ![c] = q]
  BY <1>1, <1>6 DEF DeliveryTypes
<1> HIDE DEF q
<1>9. approved' \in Counter
  BY <1>4, <1>6, LessType, WrittenType DEF DeliveryTypes, Types
<1>10. stock' \in [Singles -> Int]
  <2>1. \A p \in Singles : stock[p] \in Int /\ u[p] \in Int
    BY <1>5 DEF DeliveryTypes, Types
  <2> QED
    BY <1>6, <2>1
<1>11. Types'
  BY <1>6, <1>9, <1>10 DEF DeliveryTypes, Types
<1>12. taken' \in [Deliveries -> [Singles -> Int]]
  <2>1. taken \in [Deliveries -> [Singles -> Int]]
    BY DEF DeliveryTypes
  <2>2. ASSUME d \in Deliveries
        PROVE  [p \in Singles |-> taken[d][p] - u[p]] \in [Singles -> Int]
    <3>1. \A p \in Singles : taken[d][p] \in Int /\ u[p] \in Int
      BY <1>5, <2>1, <2>2
    <3> QED
      BY <3>1
  <2> QED
    BY <1>6, <2>1, <2>2
<1> QED
  BY <1>6, <1>7, <1>8, <1>11, <1>12, JobTypes DEF DeliveryTypes

LEMMA TypesLine ==
    ASSUME DeliveryTypes, NEW c \in Clerks, NEW sku \in Skus, DeleteLine(c, sku)
    PROVE  DeliveryTypes'
<1>1. PICK w, l, n : w = job[c] /\ l = LineFor(w.what.order, sku) /\ n = w.todo[sku]
  OBVIOUS
<1>2. PICK known, left : known = w.seen.line[l] /\ left = FromZero(known.booked - n)
  OBVIOUS
<1>3. w \in Job /\ sku \in DOMAIN w.todo
  BY <1>1 DEF DeliveryTypes, DeleteLine
<1>4. n \in Int
  BY <1>1, <1>3, TodoItem
<1> DEFINE row == [known EXCEPT !.booked = left, !.status = IF left = 0 THEN "NONE" ELSE @]
<1>5. /\ line' = [line EXCEPT ![l] = row]
      /\ job' = [job EXCEPT ![c].at = NoSku, ![c].todo = Restrict(@, DOMAIN @ \ {sku})]
      /\ UNCHANGED <<stock, booking, approved, req, delivery, served, ghosts>>
  BY <1>1, <1>2 DEF DeleteLine
<1>6. ASSUME l \in Lines
      PROVE  row \in Line
  <2>1. known \in Line
    BY <1>2, <1>3, <1>6 DEF Job
  <2>2. known.booked - n \in Int
    BY <1>4, <2>1 DEF Line
  <2>3. left \in Nat
    BY <1>2, <2>2, FromZeroType
  <2> QED
    BY <2>1, <2>3 DEF Line, BookingStatus
<1> HIDE DEF row
<1>7. line' \in [Lines -> Line]
  BY <1>5, <1>6 DEF DeliveryTypes, Types
<1>8. Types'
  BY <1>5, <1>7 DEF DeliveryTypes, Types
<1> DEFINE rest == Restrict(w.todo, DOMAIN w.todo \ {sku})
           q == [w EXCEPT !.at = NoSku, !.todo = rest]
<1>9. rest \in Items
  BY <1>3, ItemsRestrict DEF Job
<1>10. job' = [job EXCEPT ![c] = q]
  BY <1>1, <1>5 DEF DeliveryTypes
<1> HIDE DEF rest
<1>11. q \in Job
  BY <1>3, <1>9 DEF Job
<1> HIDE DEF q
<1> QED
  BY <1>5, <1>8, <1>10, <1>11, JobTypes DEF DeliveryTypes, ghosts

LEMMA TypesEnd ==
    ASSUME DeliveryTypes, NEW c \in Clerks, ShipDelivery(c) \/ RemoveDelivery(c) \/ FailJob(c)
    PROVE  DeliveryTypes'
<1>1. job[c] \in Job
  BY DEF DeliveryTypes
<1>2. CASE ShipDelivery(c)
  <2> DEFINE row == [job[c].what EXCEPT !.status = "SHIPPED"]
  <2>1. row \in Delivery
    BY <1>1 DEF Job, Delivery, Open
  <2>2. delivery' = [delivery EXCEPT ![job[c].id] = row]
    BY <1>2 DEF ShipDelivery
  <2> HIDE DEF row
  <2>3. delivery' \in [Deliveries -> Delivery]
    BY <2>1, <2>2 DEF DeliveryTypes
  <2>4. Types' /\ job' = [job EXCEPT ![c] = NoJob] /\ UNCHANGED <<served, ghosts>>
    BY <1>2, SameTypes DEF ShipDelivery
  <2> QED
    BY <2>3, <2>4, NoJobType, JobTypes DEF DeliveryTypes, ghosts
<1>3. CASE RemoveDelivery(c)
  <2> DEFINE d == job[c].id
             row == [delivery[d] EXCEPT !.status = "deleted"]
  <2>1. delivery' = [delivery EXCEPT ![d] = row]
    BY <1>3 DEF RemoveDelivery, DeliveryTypes
  <2>2. ASSUME d \in Deliveries
        PROVE  row \in Delivery
    BY <2>2 DEF DeliveryTypes, Delivery
  <2> HIDE DEF row, d
  <2>3. delivery' \in [Deliveries -> Delivery]
    BY <2>1, <2>2 DEF DeliveryTypes
  <2>4. Types' /\ job' = [job EXCEPT ![c] = NoJob] /\ UNCHANGED <<served, ghosts>>
    BY <1>3, SameTypes DEF RemoveDelivery
  <2> QED
    BY <2>3, <2>4, NoJobType, JobTypes DEF DeliveryTypes, ghosts
<1>4. CASE FailJob(c)
  <2>1. /\ job' = [job EXCEPT ![c] = NoJob]
        /\ UNCHANGED <<stock, booking, approved, line, req, delivery, served, ghosts>>
    BY <1>4 DEF FailJob
  <2>2. Types'
    BY <2>1 DEF DeliveryTypes, Types
  <2> QED
    BY <2>1, <2>2, NoJobType, JobTypes DEF DeliveryTypes, ghosts
<1> QED
  BY <1>2, <1>3, <1>4

LEMMA TypesBooking ==
    ASSUME DeliveryTypes, BookingStep \/ UNCHANGED allVars
    PROVE  DeliveryTypes'
<1>1. [Next]_vars
  BY DEF BookingStep, Next, Revert, allVars
<1>2. Types'
  BY <1>1, StepTypes DEF DeliveryTypes
<1>3. UNCHANGED deliveryVars
  BY DEF BookingStep, allVars
<1> QED
  BY <1>2, <1>3 DEF DeliveryTypes, deliveryVars

LEMMA TypesStep ==
    ASSUME DeductedInv, DeliveryTypes, [DeliveryNext]_allVars
    PROVE  DeliveryTypes'
<1>1. ASSUME NEW c \in Clerks, ClerkStep(c)
      PROVE  DeliveryTypes'
  BY <1>1, TypesDeliver, TypesBegin, TypesGoods, TypesCounters, TypesReturn, TypesLine,
     TypesEnd DEF ClerkStep
<1> QED
  BY <1>1, TypesBooking, TypesUser DEF DeliveryNext

LEMMA TypesAtStart == ASSUME DeliveryInit PROVE DeliveryTypes
<1>1. MaxDeliveryCalls \in Nat
  BY FulfilmentConstants, Zenon DEF FulfilmentConstants
<1>2. Types
  BY InitTypes DEF DeliveryInit
<1>3. /\ delivery = [d \in Deliveries |-> Absent]
      /\ job = [c \in Clerks |-> NoJob]
      /\ served = 0 /\ byHand = {}
      /\ moved = [d \in Deliveries |-> [sku \in Skus |-> 0]]
      /\ taken = [d \in Deliveries |-> [p \in Singles |-> 0]]
  BY DEF DeliveryInit
<1> QED
  BY <1>1, <1>2, <1>3, AbsentType, NoJobType DEF DeliveryTypes

\* However the delivery requests and those on bookings interleave and are cut
\* short: rows, requests and counters keep their fields, and the counters of
\* bookings stay natural numbers when goods leave a stock that may be negative.
THEOREM DeliveriesTyped == DeliverySpec => []DeliveryTypeOK
<1>1. DeliveryInit => DeductedInv /\ DeliveryTypes
  BY DeductedAtStart, TypesAtStart
<1>2. DeductedInv /\ DeliveryTypes /\ [DeliveryNext]_allVars => (DeductedInv /\ DeliveryTypes)'
  BY DeductedStep, TypesStep
<1>3. DeductedInv /\ DeliveryTypes => DeliveryTypeOK
  BY DEF DeliveryTypes, Types, DeliveryTypeOK
<1> QED
  BY <1>1, <1>2, <1>3, PTL DEF DeliverySpec

--------------------------------------------------------------------------------
(* Approvals and the stock that goods leave, for requests that do not overlap *)

\* Since an approval has read the stock and the approvals, neither has fallen.
Sees(q, s, a) == q.call = "confirm" =>
    \A p \in Singles : q.seen.stock[p] <= s[p] /\ q.seen.approved[p] <= a[p]

\* The inductive invariant: bookings and deliveries are never at work together.
TurnsInv ==
    /\ Types
    /\ Busy = {} \/ InFlight = {}
    /\ \E r \in Requests : Lone(r) /\ Sees(req[r], stock, approved)

\* The lone request goes on as q; deliveries are left alone.
LEMMA TurnPut ==
    ASSUME TurnsInv, Types', job' = job, Busy = {}, NEW r \in Requests, Lone(r),
           NEW q, Put(r, q), q.call = "idle" => q = Idle, Sees(q, stock', approved')
    PROVE  TurnsInv'
<1>1. Lone(r)' /\ req'[r] = q
  BY LonePut DEF TurnsInv
<1>2. Busy' = {}
  BY DEF Busy
<1>3. Sees(req[r], stock, approved)'
  BY <1>1 DEF Sees
<1> QED
  BY <1>1, <1>2, <1>3 DEF TurnsInv

LEMMA TurnAside ==
    ASSUME TurnsInv, Types', job' = job, Busy = {}, NEW r \in Requests, Lone(r),
           NEW q, Put(r, q), q.call = "idle" => q = Idle, q.call # "confirm"
    PROVE  TurnsInv'
<1>1. Sees(q, stock', approved')
  BY DEF Sees
<1> QED
  BY <1>1, TurnPut

LEMMA TurnSame ==
    ASSUME TurnsInv, Types', job' = job, UNCHANGED <<stock, approved, req>>
    PROVE  TurnsInv'
<1>1. PICK r \in Requests : Lone(r) /\ Sees(req[r], stock, approved)
  BY DEF TurnsInv
<1>2. Lone(r)' /\ Sees(req[r], stock, approved)'
  BY <1>1 DEF Lone, Sees
<1> QED
  BY <1>2 DEF TurnsInv, Busy, InFlight

\* Nothing is in flight: nobody remembers anything.
LEMMA TurnQuiet ==
    ASSUME Types', req' = req, \A r \in Requests : req[r] = Idle
    PROVE  TurnsInv'
<1>1. CronSlot \in Requests
  BY BookingConstants, Zenon DEF BookingConstants
<1>2. Idle.call = "idle"
  BY DEF Idle
<1>3. Lone(CronSlot)' /\ Sees(req[CronSlot], stock, approved)' /\ InFlight' = {}
  BY <1>1, <1>2 DEF Lone, Sees, InFlight
<1> QED
  BY <1>1, <1>3 DEF TurnsInv

LEMMA QuietRequests ==
    ASSUME TurnsInv, InFlight = {}
    PROVE  \A r \in Requests : req[r] = Idle
<1>1. PICK r \in Requests : Lone(r)
  BY DEF TurnsInv
<1> QED
  BY <1>1 DEF Lone, InFlight

\* What an approval writes, from what it has read: k is the copy it read, t the
\* counter it starts from, a the counter now, n what it adds.
LEMMA ApprovalSum ==
    ASSUME NEW n \in Nat, NEW t \in Nat, NEW a \in Nat, NEW k \in Int, NEW s \in Int,
           t <= a, k <= s, n <= FromZero(k - t)
    PROVE  t + n > a => t + n <= s
<1>1. CASE k - t < 0
  <2>1. n = 0
    BY <1>1 DEF FromZero
  <2> QED
    BY <2>1
<1>2. CASE ~(k - t < 0)
  <2>1. n <= k - t
    BY <1>2 DEF FromZero
  <2> QED
    BY <2>1
<1> QED
  BY <1>1, <1>2

\* The request after its approval: it remembers less stock, and the counter has
\* not fallen below what it read; a counter that rose is within the stock.
LEMMA TurnConfirm ==
    ASSUME TurnsInv, Types', job' = job, Busy = {}, NEW r \in Requests, NEW l \in Lines,
           ConfirmCounters(r, l)
    PROVE  /\ TurnsInv'
           /\ \A p \in Singles : approved'[p] > approved[p] => approved'[p] <= stock[p]
<1>1. PICK n \in 0..req[r].seen.line[l].qty :
        /\ Fillable(r, l, n)
        /\ approved' = Written(SkuOf[l], approved, ApprovedWith(r, l, n))
        /\ req' = [req EXCEPT
                      ![r].at = l,
                      ![r].todo[l] = n,
                      ![r].seen.stock = [p \in Singles |-> @[p] - Units(SkuOf[l], n)[p]]]
  BY DEF ConfirmCounters
<1>2. Types /\ req[r] \in Request /\ req[r].call = "confirm" /\ stock' = stock
  BY Working DEF TurnsInv, ConfirmCounters, Picks
<1>3. Lone(r) /\ Sees(req[r], stock, approved)
  <2>1. PICK s \in Requests : Lone(s) /\ Sees(req[s], stock, approved)
    BY DEF TurnsInv
  <2>2. req[r].call # "idle"
    BY <1>2
  <2>3. r = s
    BY <2>1, <2>2, InTurn
  <2> QED
    BY <2>1, <2>3
<1>4. n \in Nat
  <2>1. req[r].seen.line[l].qty \in 0..MaxAmount
    BY <1>2, Working DEF Line
  <2> QED
    BY <2>1, MaxAmountType
<1>5. \A p \in Singles : Units(SkuOf[l], n)[p] \in Nat
  BY <1>4, LineSku, UnitsType
<1> DEFINE start == Known(SkuOf[l], req[r].seen.approved, approved)
           left == [p \in Singles |-> req[r].seen.stock[p] - Units(SkuOf[l], n)[p]]
           seen == [req[r].seen EXCEPT !.stock = left]
           todo == [req[r].todo EXCEPT ![l] = n]
           q == [req[r] EXCEPT !.at = l, !.todo = todo, !.seen = seen]
<1>16. req \in [Requests -> Request]
  BY <1>2 DEF Types
<1>6. req' = [req EXCEPT ![r] = q]
  BY <1>1, <1>16
<1>7. \A p \in Singles : left[p] = req[r].seen.stock[p] - Units(SkuOf[l], n)[p]
  OBVIOUS
<1> HIDE DEF left
<1>8. seen.stock = left /\ seen.approved = req[r].seen.approved
  BY <1>2 DEF Request
<1> HIDE DEF seen, todo
<1>9. q.call = "confirm" /\ q.seen = seen
  BY <1>2 DEF Request
<1> HIDE DEF q
<1>10. ASSUME NEW p \in Singles
       PROVE  /\ start[p] \in Nat /\ start[p] <= approved[p]
              /\ req[r].seen.approved[p] \in Nat /\ req[r].seen.approved[p] <= start[p]
              /\ approved[p] \in Nat /\ stock[p] \in Int
              /\ req[r].seen.stock[p] \in Int /\ req[r].seen.stock[p] <= stock[p]
  <2>1. /\ req[r].seen.approved \in Counter /\ approved \in Counter
        /\ req[r].seen.stock \in [Singles -> Int] /\ stock \in [Singles -> Int]
    BY <1>2, Working DEF Types
  <2>2. /\ req[r].seen.approved[p] \in Nat /\ approved[p] \in Nat
        /\ req[r].seen.stock[p] \in Int /\ stock[p] \in Int
    BY <2>1 DEF Counter
  <2>3. req[r].seen.stock[p] <= stock[p] /\ req[r].seen.approved[p] <= approved[p]
    BY <1>2, <1>3 DEF Sees
  <2>4. start = approved \/ start = req[r].seen.approved
    BY DEF Known
  <2> HIDE DEF start
  <2>5. CASE start = approved
    BY <2>2, <2>3, <2>5
  <2>6. CASE start = req[r].seen.approved
    BY <2>2, <2>3, <2>6
  <2> QED
    BY <2>4, <2>5, <2>6
<1>11. \A p \in Singles :
          approved'[p] = IF p \in Parts(SkuOf[l]) THEN start[p] + Units(SkuOf[l], n)[p]
                         ELSE approved[p]
  BY <1>1 DEF Written, ApprovedWith
<1>12. \A p \in Parts(SkuOf[l]) :
          Units(SkuOf[l], n)[p] <= FromZero(req[r].seen.stock[p] - start[p])
  BY <1>1 DEF Fillable
<1> HIDE DEF start
<1>13. ASSUME NEW p \in Singles
       PROVE  /\ approved'[p] > approved[p] => approved'[p] <= stock[p]
              /\ seen.approved[p] <= approved'[p] /\ seen.stock[p] <= stock[p]
  <2>1. PICK u, t, a, k, s, b : /\ u = Units(SkuOf[l], n)[p] /\ t = start[p]
                                /\ a = approved[p] /\ k = req[r].seen.stock[p]
                                /\ s = stock[p] /\ b = req[r].seen.approved[p]
    OBVIOUS
  <2>2. /\ u \in Nat /\ t \in Nat /\ a \in Nat /\ k \in Int /\ s \in Int /\ b \in Nat
        /\ t <= a /\ b <= t /\ k <= s
    BY <1>5, <1>10, <2>1
  <2>3. seen.approved[p] = b /\ seen.stock[p] = k - u
    BY <1>7, <1>8, <2>1
  <2>4. k - u <= s
    BY <2>2
  <2>5. CASE p \in Parts(SkuOf[l])
    <3>1. approved'[p] = t + u /\ u <= FromZero(k - t)
      BY <1>11, <1>12, <2>1, <2>5
    <3>2. t + u > a => t + u <= s
      BY <2>2, <3>1, ApprovalSum
    <3>3. b <= t + u
      BY <2>2
    <3> QED
      BY <2>1, <2>3, <2>4, <3>1, <3>2, <3>3
  <2>6. CASE p \notin Parts(SkuOf[l])
    <3>1. approved'[p] = a
      BY <1>11, <2>1, <2>6
    <3>2. ~(a > a) /\ b <= a
      BY <2>2
    <3> QED
      BY <2>1, <2>3, <2>4, <3>1, <3>2
  <2> QED
    BY <2>5, <2>6
<1>14. Sees(q, stock', approved')
  BY <1>2, <1>9, <1>13 DEF Sees
<1>15. TurnsInv'
  <2>1. Put(r, q) /\ (q.call = "idle" => q = Idle)
    BY <1>6, <1>9 DEF Put
  <2> QED
    BY <1>3, <1>14, <2>1, TurnPut
<1> QED
  BY <1>13, <1>15

\* A step on a line other than that.
LEMMA TurnLine ==
    ASSUME TurnsInv, Types', job' = job, Busy = {}, NEW r \in Requests, NEW l \in Lines,
           \/ SkipBook(r, l) \/ BookCounters(r, l) \/ BookLine(r, l)
           \/ ConfirmLine(r, l)
           \/ ExpireCounters(r, l) \/ ExpireLine(r, l)
           \/ RevertCounters(r, l) \/ RevertLine(r, l)
    PROVE  TurnsInv'
<1>1. req[r].call \in {"book", "confirm", "expire", "revert"} /\ Types
  BY DEF TurnsInv, SkipBook, BookCounters, BookLine, ConfirmLine, ExpireCounters, ExpireLine,
     RevertCounters, RevertLine, Picks
<1>2. Lone(r) /\ Sees(req[r], stock, approved)
  <2>1. PICK s \in Requests : Lone(s) /\ Sees(req[s], stock, approved)
    BY DEF TurnsInv
  <2>2. req[r].call # "idle"
    BY <1>1
  <2>3. r = s
    BY <2>1, <2>2, InTurn
  <2> QED
    BY <2>1, <2>3
<1>3. CASE BookCounters(r, l) \/ ExpireCounters(r, l) \/ RevertCounters(r, l)
  <2>1. PICK q : Put(r, q) /\ Moves(req[r], l, q)
    BY <1>1, <1>3, MoveTurn
  <2>2. req[r].call \in {"book", "expire", "revert"}
    BY <1>3 DEF BookCounters, ExpireCounters, RevertCounters, Picks
  <2>3. q.call # "confirm" /\ q.call # "idle"
    BY <2>1, <2>2 DEF Moves
  <2> QED
    BY <1>2, <2>1, <2>3, TurnAside
<1>4. CASE SkipBook(r, l) \/ BookLine(r, l) \/ ConfirmLine(r, l) \/ ExpireLine(r, l) \/ RevertLine(r, l)
  <2>1. PICK q : q = Without(r, l)
    OBVIOUS
  <2>2. Put(r, q) /\ stock' = stock /\ approved' = approved
    BY <1>4, <2>1 DEF SkipBook, BookLine, ConfirmLine, ExpireLine, RevertLine, Put
  <2>3. q = Idle \/ (q.call = req[r].call /\ q.seen = req[r].seen)
    BY <1>1, <2>1, RestIs
  <2>4. q.call = "idle" => q = Idle
    BY <1>1, <2>3
  <2>5. Sees(q, stock', approved')
    <3>1. CASE q = Idle
      BY <3>1 DEF Sees, Idle
    <3>2. CASE q.call = req[r].call /\ q.seen = req[r].seen
      BY <1>2, <2>2, <3>2 DEF Sees
    <3> QED
      BY <2>3, <3>1, <3>2
  <2> QED
    BY <1>2, <2>2, <2>4, <2>5, TurnPut
<1> QED
  BY <1>3, <1>4

LEMMA TurnSync ==
    ASSUME TurnsInv, Types', job' = job, Busy = {}, NEW r \in Requests,
           SyncLines(r) \/ \E p \in Singles : SyncProduct(r, p)
    PROVE  TurnsInv'
<1>1. Lone(r) /\ Types
  <2>1. PICK s \in Requests : Lone(s)
    BY DEF TurnsInv
  <2>2. req[r].call # "idle"
    BY DEF SyncLines, SyncProduct
  <2> QED
    BY <2>1, <2>2, InTurn DEF TurnsInv
<1>2. CASE SyncLines(r)
  <2>1. Put(r, Idle) /\ Idle.call # "confirm"
    BY <1>2 DEF SyncLines, Put, Idle
  <2> QED
    BY <1>1, <2>1, TurnAside
<1>3. ASSUME NEW p \in Singles, SyncProduct(r, p)
      PROVE  TurnsInv'
  <2>1. PICK q : Put(r, q) /\ q.call = "sync"
    BY <1>1, <1>3, SyncTurn
  <2> QED
    BY <1>1, <2>1, TurnAside
<1> QED
  BY <1>2, <1>3

LEMMA TurnBegin ==
    ASSUME Serial, TurnsInv, Types', job' = job, Busy = {}, NEW r \in Requests, NEW call,
           call # "idle", NEW todo, Begin(r, call, todo)
    PROVE  TurnsInv'
<1>1. Types
  BY DEF TurnsInv
<1>2. PICK q : Put(r, q) /\ q.call = call /\ q.seen = Snapshot
  BY <1>1, BeginTurn
<1>3. PICK s \in Requests : Lone(s)
  BY DEF TurnsInv
<1>4. Lone(r)
  BY <1>3, Quiet DEF Begin
<1>5. \A p \in Singles : stock[p] \in Int /\ approved[p] \in Int
  BY <1>1 DEF Types, Counter
<1>6. \A p \in Singles : stock[p] <= stock[p] /\ approved[p] <= approved[p]
  BY <1>5
<1>7. stock' = stock /\ approved' = approved
  BY DEF Begin
<1>8. Sees(q, stock', approved')
  BY <1>2, <1>6, <1>7 DEF Sees, Snapshot
<1>9. q.call = "idle" => q = Idle
  BY <1>2
<1> QED
  BY <1>2, <1>4, <1>8, <1>9, TurnPut

LEMMA TurnSyncBegin ==
    ASSUME Serial, TurnsInv, Types', job' = job, Busy = {}, NEW r \in Requests, BeginSync(r)
    PROVE  TurnsInv'
<1>1. PICK s \in Requests : Lone(s)
  BY DEF TurnsInv
<1>2. Lone(r)
  BY <1>1, Quiet DEF BeginSync
<1> DEFINE q == [call |-> "sync", todo |-> [p \in Singles |-> 0], at |-> NoLine,
                 seen |-> [Snapshot EXCEPT !.booking = Statistics("TEMPORARY"),
                                           !.approved = Statistics("CONFIRMED")]]
<1>3. Put(r, q)
  BY DEF BeginSync, Put
<1>4. q.call = "sync"
  OBVIOUS
<1> HIDE DEF q
<1> QED
  BY <1>2, <1>3, <1>4, TurnAside

LEMMA TurnBooking ==
    ASSUME Serial, TurnsInv, Types', BookingStep
    PROVE  TurnsInv'
<1>1. job' = job /\ Busy = {}
  BY DEF BookingStep, deliveryVars, ClerksAdmit, Serial
<1>2. ASSUME NEW r \in Requests, NEW call \in {"book", "confirm", "revert", "expire"},
             NEW todo, Begin(r, call, todo)
      PROVE  TurnsInv'
  <2>1. call # "idle"
    OBVIOUS
  <2> QED
    BY <1>1, <1>2, <2>1, TurnBegin
<1>3. ASSUME NEW r \in Requests, NEW l \in Lines, BeginRevert(r, l)
      PROVE  TurnsInv'
  BY <1>2, <1>3 DEF BeginRevert
<1>4. ASSUME NEW r \in Requests, BeginBook(r) \/ BeginConfirm(r)
      PROVE  TurnsInv'
  BY <1>2, <1>4 DEF BeginBook, BeginConfirm
<1>5. ASSUME NEW r \in Requests, BeginSync(r)
      PROVE  TurnsInv'
  BY <1>1, <1>5, TurnSyncBegin
<1>6. ASSUME NEW r \in Requests, StepOf(r)
      PROVE  TurnsInv'
  <2>1. ASSUME NEW l \in Lines, ConfirmCounters(r, l)
        PROVE  TurnsInv'
    BY <1>1, <2>1, TurnConfirm
  <2>2. ASSUME NEW l \in Lines,
               \/ SkipBook(r, l) \/ BookCounters(r, l) \/ BookLine(r, l)
               \/ ConfirmLine(r, l)
               \/ ExpireCounters(r, l) \/ ExpireLine(r, l)
               \/ RevertCounters(r, l) \/ RevertLine(r, l)
        PROVE  TurnsInv'
    BY <1>1, <2>2, TurnLine
  <2>3. CASE SyncLines(r) \/ \E p \in Singles : SyncProduct(r, p)
    BY <1>1, <2>3, TurnSync
  <2> QED
    BY <1>6, <2>1, <2>2, <2>3 DEF StepOf
<1>7. ASSUME NEW r \in Requests, Fail(r)
      PROVE  TurnsInv'
  <2>1. PICK s \in Requests : Lone(s)
    BY DEF TurnsInv
  <2>2. Lone(r)
    BY <1>7, <2>1, InTurn DEF Fail
  <2>3. Put(r, Idle) /\ Idle.call # "confirm"
    BY <1>7 DEF Fail, Put, Idle
  <2> QED
    BY <1>1, <2>2, <2>3, TurnAside
<1>8. CASE BeginExpire
  <2>1. CronSlot \in Requests
    BY BookingConstants, Zenon DEF BookingConstants
  <2> QED
    BY <1>2, <1>8, <2>1 DEF BeginExpire
<1>9. ASSUME NEW o, ConfirmGoodsIssue(o) \/ EditOrder(o)
      PROVE  TurnsInv'
  <2>1. UNCHANGED <<stock, approved, req>>
    BY <1>9 DEF ConfirmGoodsIssue, EditOrder
  <2> QED
    BY <1>1, <2>1, TurnSame
<1>10. ASSUME NEW p \in Singles, Supply(p)
       PROVE  TurnsInv'
  <2>1. InFlight = {} /\ req' = req
    BY <1>10 DEF Supply, Admits, Serial
  <2> QED
    BY <2>1, QuietRequests, TurnQuiet
<1>11. ASSUME NEW l \in Lines, DeadlinePasses(l)
       PROVE  TurnsInv'
  <2>1. UNCHANGED <<stock, approved, req>>
    BY <1>11 DEF DeadlinePasses
  <2> QED
    BY <1>1, <2>1, TurnSame
<1>12. CASE NextButRevert
  BY <1>4, <1>5, <1>6, <1>7, <1>8, <1>9, <1>10, <1>11, <1>12 DEF NextButRevert
<1> QED
  BY <1>3, <1>12 DEF BookingStep

\* A delivery request is admitted, and works on, while no booking request is in
\* flight; it leaves those alone.
LEMMA ClerkTurn ==
    ASSUME Serial, TurnsInv, Types', NEW c \in Clerks, ClerkStep(c)
    PROVE  TurnsInv' /\ InFlight = {}
<1>1. req' = req
  BY DEF ClerkStep, BeginDeliver, SaveDelivery, SaveOrder, BeginExport, BeginDelete,
     ExportGoods, ExportCounters, DeleteGoods, DeleteLine, ShipDelivery, RemoveDelivery,
     FailJob, bookingVars, vars
<1>2. CASE job[c].call = "idle"
  <2>1. ASSUME NEW name, DeliveryCall(name)
        PROVE  InFlight = {}
    BY <2>1 DEF DeliveryCall, Admits, Serial
  <2>2. BeginDeliver(c) \/ \E d \in Deliveries : BeginExport(c, d) \/ BeginDelete(c, d)
    BY <1>2 DEF ClerkStep, SaveDelivery, SaveOrder, ExportGoods, ExportCounters, DeleteGoods,
       DeleteLine, ShipDelivery, RemoveDelivery, FailJob
  <2>3. InFlight = {}
    BY <2>1, <2>2 DEF BeginDeliver, BeginExport, BeginDelete
  <2> QED
    BY <1>1, <2>3, QuietRequests, TurnQuiet
<1>3. CASE job[c].call # "idle"
  <2>1. InFlight = {}
    BY <1>3 DEF TurnsInv, Busy
  <2> QED
    BY <1>1, <2>1, QuietRequests, TurnQuiet
<1> QED
  BY <1>2, <1>3

LEMMA UserTurn ==
    ASSUME Serial, TurnsInv, Types', NEW d \in Deliveries,
           UpdateDelivery(d) \/ SendDeliveryEmail(d)
    PROVE  TurnsInv' /\ InFlight = {}
<1>1. req' = req
  BY DEF UpdateDelivery, SendDeliveryEmail, bookingVars, vars
<1>2. InFlight = {}
  BY DEF UpdateDelivery, SendDeliveryEmail, DeliveryCall, Admits, Serial
<1> QED
  BY <1>1, <1>2, QuietRequests, TurnQuiet

LEMMA TurnsStep ==
    ASSUME Serial, TurnsInv, Types', [DeliveryNext]_allVars
    PROVE  TurnsInv'
<1>1. CASE UNCHANGED allVars
  BY <1>1, TurnSame DEF allVars, vars, deliveryVars
<1> QED
  BY <1>1, TurnBooking, ClerkTurn, UserTurn DEF DeliveryNext

\* Only a step of a booking request approves.
LEMMA Approves ==
    ASSUME Serial, TurnsInv, Types', DeliveryNext, NEW r \in Requests, NEW l \in Lines,
           ConfirmCounters(r, l), NEW p \in Singles, approved'[p] > approved[p]
    PROVE  approved'[p] <= stock[p]
<1>1. InFlight # {}
  BY DEF ConfirmCounters, Picks, InFlight
<1>2. BookingStep
  BY <1>1, ClerkTurn, UserTurn DEF DeliveryNext
<1>3. job' = job /\ Busy = {}
  BY <1>2 DEF BookingStep, deliveryVars, ClerksAdmit, Serial
<1> QED
  BY <1>3, TurnConfirm

\* With bookings and deliveries one request at a time, an approval never raises
\* the counter of a product above the stock, whatever was booked, exported,
\* returned or cut short before, and although the stock may be below the
\* counter, or below zero.
THEOREM ApprovalsRespectStock ==
    ASSUME Overlap = "one at a time"
    PROVE  DeliverySpec => ApprovalWithinStock
<1>1. DeliveryInit => DeductedInv /\ DeliveryTypes /\ TurnsInv
  <2> SUFFICES ASSUME DeliveryInit
               PROVE  DeductedInv /\ DeliveryTypes /\ TurnsInv
    OBVIOUS
  <2>1. DeductedInv /\ DeliveryTypes
    BY DeductedAtStart, TypesAtStart
  <2>2. PICK r \in Requests : Lone(r) /\ req[r] = Idle
    BY QuietAtFirst DEF DeliveryInit
  <2>5. Idle.call = "idle"
    BY DEF Idle
  <2>3. Sees(req[r], stock, approved)
    BY <2>2, <2>5 DEF Sees
  <2>4. Busy = {}
    BY DEF DeliveryInit, Busy, NoJob
  <2> QED
    BY <2>1, <2>2, <2>3, <2>4 DEF TurnsInv, DeliveryTypes
<1>2. DeductedInv /\ DeliveryTypes /\ TurnsInv /\ [DeliveryNext]_allVars
        => (DeductedInv /\ DeliveryTypes /\ TurnsInv)'
  <2> SUFFICES ASSUME DeductedInv, DeliveryTypes, TurnsInv, [DeliveryNext]_allVars
               PROVE  (DeductedInv /\ DeliveryTypes /\ TurnsInv)'
    OBVIOUS
  <2>1. DeductedInv' /\ DeliveryTypes'
    BY DeductedStep, TypesStep
  <2>2. Types'
    BY <2>1 DEF DeliveryTypes
  <2> QED
    BY <2>1, <2>2, TurnsStep DEF Serial
<1>3. DeductedInv /\ DeliveryTypes /\ TurnsInv /\ [DeliveryNext]_allVars
        => [\A r \in Requests, l \in Lines : ConfirmCounters(r, l) =>
               \A p \in Singles : approved'[p] > approved[p] => approved'[p] <= stock[p]]_allVars
  <2> SUFFICES ASSUME DeductedInv, DeliveryTypes, TurnsInv, DeliveryNext,
                      NEW r \in Requests, NEW l \in Lines, ConfirmCounters(r, l),
                      NEW p \in Singles, approved'[p] > approved[p]
               PROVE  approved'[p] <= stock[p]
    OBVIOUS
  <2>1. Types'
    BY TypesStep DEF DeliveryTypes
  <2> QED
    BY <2>1, Approves DEF Serial
<1> QED
  BY <1>1, <1>2, <1>3, PTL DEF DeliverySpec, ApprovalWithinStock
================================================================================
