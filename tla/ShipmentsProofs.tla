---------------------------- MODULE ShipmentsProofs ----------------------------
(***************************************************************************)
(* Theorems about Shipments, for any numbers of deliveries, parcels and    *)
(* requests, overlapping freely and cut short anywhere.                    *)
(***************************************************************************)
EXTENDS Shipments, SumTheorems

\* A row shows what DeliveredIsShipped asks of a delivery.
Consistent(row) ==
    (row.statusId = "delivered" /\ row.carrier = "GHTK") => row.status # "PENDING_EXPORT"

GoodRow(row) ==
    /\ DOMAIN row = {"carrier", "code", "statusId", "text", "status", "priced"}
    /\ Consistent(row)

\* A request: its fields, what it is for, and a row read that is consistent.
GoodRequest(q) ==
    /\ DOMAIN q = {"pc", "kind", "carrier", "of", "snap", "code", "seen"}
    /\ q.pc # "idle" => q.kind \in {"push", "cancel", "sync", "hook", "export", "expense"}
    /\ GoodRow(q.snap)

\* The inductive invariant: what requests will write back is consistent too.
RowsInv ==
    /\ delivery = [d \in Deliveries |-> delivery[d]]
    /\ \A d \in Deliveries : GoodRow(delivery[d])
    /\ req = [r \in Requests |-> req[r]]
    /\ \A r \in Requests : GoodRequest(req[r])

--------------------------------------------------------------------------------
LEMMA NewDeliveryGood == GoodRow(NewDelivery)
  BY DEF NewDelivery, GoodRow, Consistent

LEMMA IdleGood == GoodRequest(Idle)
  BY NewDeliveryGood DEF Idle, GoodRequest

\* What the handlers write over a consistent row is consistent.
LEMMA PushedGood ==
    ASSUME NEW row, GoodRow(row), NEW c, NEW code
    PROVE  GoodRow(Pushed(row, c, code))
  BY DEF GoodRow, Consistent, Pushed

LEMMA CancelledGood ==
    ASSUME NEW row, GoodRow(row), NEW c
    PROVE  GoodRow(Cancelled(row, c))
  BY DEF GoodRow, Consistent, Cancelled

LEMMA ReportedGood ==
    ASSUME NEW row, GoodRow(row), NEW c, NEW s
    PROVE  GoodRow(Reported(row, c, s))
  BY DEF GoodRow, Consistent, Reported

LEMMA DemoSyncedGood ==
    ASSUME NEW row, GoodRow(row)
    PROVE  GoodRow(DemoSynced(row))
  BY DEF GoodRow, Consistent, DemoSynced

LEMMA SavedRowGood ==
    ASSUME RowsInv, NEW r \in Requests, req[r].pc = "save", req[r].kind # "expense"
    PROVE  GoodRow(SavedRow(r))
  <1>1. GoodRow(req[r].snap) /\ req[r].kind \in {"push", "cancel", "sync", "hook", "export"}
    BY DEF RowsInv, GoodRequest
  <1>2. GoodRow([req[r].snap EXCEPT !.status = "SHIPPED"])
    BY <1>1 DEF GoodRow, Consistent
  <1>3. CASE req[r].kind = "push"
    BY <1>1, <1>3, PushedGood DEF SavedRow
  <1>4. CASE req[r].kind = "cancel"
    BY <1>1, <1>4, CancelledGood DEF SavedRow
  <1>5. CASE req[r].kind = "hook"
    BY <1>1, <1>5, ReportedGood DEF SavedRow
  <1>6. CASE req[r].kind = "sync"
    BY <1>1, <1>6, ReportedGood, DemoSyncedGood DEF SavedRow
  <1>7. CASE req[r].kind = "export"
    BY <1>2, <1>7 DEF SavedRow
  <1>8. QED
    BY <1>1, <1>3, <1>4, <1>5, <1>6, <1>7

--------------------------------------------------------------------------------
\* A request moves on, or ends, and deliveries stay as they are.
LEMMA RequestStep ==
    ASSUME RowsInv, NEW r \in Requests, NEW q, GoodRequest(q),
           req' = [req EXCEPT ![r] = q], delivery' = delivery
    PROVE  RowsInv'
  BY DEF RowsInv, GoodRequest, GoodRow, Consistent

LEMMA FinishStep ==
    ASSUME RowsInv, NEW r \in Requests, Finish(r), delivery' = delivery
    PROVE  RowsInv'
  BY IdleGood, RequestStep DEF Finish

LEMMA MovedGood ==
    ASSUME NEW q, GoodRequest(q), q.pc # "idle", NEW pc, NEW code, NEW seen
    PROVE  /\ GoodRequest([q EXCEPT !.pc = pc])
           /\ GoodRequest([q EXCEPT !.pc = pc, !.code = code])
           /\ GoodRequest([q EXCEPT !.pc = pc, !.seen = seen])
           /\ GoodRequest([q EXCEPT !.pc = pc, !.seen = seen, !.code = code])
  BY DEF GoodRequest

LEMMA GotoStep ==
    ASSUME RowsInv, NEW r \in Requests, NEW pc, Goto(r, pc), req[r].pc # "idle",
           delivery' = delivery
    PROVE  RowsInv'
  <1>1. GoodRequest([req[r] EXCEPT !.pc = pc])
    BY MovedGood DEF RowsInv
  <1>2. req' = [req EXCEPT ![r] = [req[r] EXCEPT !.pc = pc]]
    BY DEF Goto, RowsInv
  <1>3. QED
    BY <1>1, <1>2, RequestStep

LEMMA BeginStep ==
    ASSUME RowsInv, NEW r \in Requests, NEW d \in Deliveries,
           NEW kind \in {"push", "cancel", "sync", "hook", "export", "expense"},
           NEW c, NEW code, NEW seen, NEW replaces,
           Begin(r, d, kind, c, code, seen, replaces)
    PROVE  RowsInv'
  <1> DEFINE q == [pc |-> IF kind = "hook" THEN "save" ELSE "call", kind |-> kind,
                   carrier |-> c, of |-> d, snap |-> delivery[d], code |-> code,
                   seen |-> seen]
  <1>1. GoodRequest(q)
    BY DEF RowsInv, GoodRequest
  <1>2. req' = [req EXCEPT ![r] = q] /\ delivery' = delivery
    BY DEF Begin
  <1> HIDE DEF q
  <1>3. QED
    BY <1>1, <1>2, RequestStep

LEMMA SkipCarrierStep ==
    ASSUME RowsInv, NEW r \in Requests, SkipCarrier(r)
    PROVE  RowsInv'
  <1> DEFINE code == IF req[r].kind = "push" THEN DemoCode(req[r].carrier) ELSE req[r].code
             q == [req[r] EXCEPT !.pc = "save", !.seen = "demo", !.code = code]
  <1>1. GoodRequest(req[r]) /\ req[r].pc # "idle" /\ delivery' = delivery
    BY DEF SkipCarrier, Calling, RowsInv
  <1>2. GoodRequest(q)
    BY <1>1, MovedGood
  <1>3. req' = [req EXCEPT ![r] = Idle] \/ req' = [req EXCEPT ![r] = q]
    BY <1>1 DEF SkipCarrier, RowsInv, GoodRequest
  <1> HIDE DEF q
  <1>4. QED
    BY <1>1, <1>2, <1>3, IdleGood, RequestStep

LEMMA CarrierStep ==
    ASSUME RowsInv, NEW r \in Requests, CarrierAccepts(r) \/ CarrierTracks(r)
    PROVE  RowsInv'
  <1>1. GoodRequest(req[r]) /\ req[r].pc # "idle" /\ delivery' = delivery
    BY DEF CarrierAccepts, CarrierTracks, Calling, RowsInv
  <1>2. CASE CarrierAccepts(r)
    <2>1. PICK p : req' = [req EXCEPT ![r].pc = "save", ![r].code = p]
      BY <1>2 DEF CarrierAccepts
    <2> DEFINE q == [req[r] EXCEPT !.pc = "save", !.code = p]
    <2>2. GoodRequest(q)
      BY <1>1, MovedGood
    <2>3. req' = [req EXCEPT ![r] = q]
      BY <1>1, <2>1 DEF RowsInv, GoodRequest
    <2> HIDE DEF q
    <2>4. QED
      BY <1>1, <2>2, <2>3, RequestStep
  <1>3. CASE CarrierTracks(r)
    <2> DEFINE q == [req[r] EXCEPT !.pc = "save", !.seen = parcel[req[r].code].stage]
    <2>1. GoodRequest(q)
      BY <1>1, MovedGood
    <2>2. req' = [req EXCEPT ![r] = q]
      BY <1>1, <1>3 DEF CarrierTracks, RowsInv, GoodRequest
    <2> HIDE DEF q
    <2>3. QED
      BY <1>1, <2>1, <2>2, RequestStep
  <1>4. QED
    BY <1>2, <1>3

LEMMA SaveStep ==
    ASSUME RowsInv, NEW r \in Requests, Save(r)
    PROVE  RowsInv'
  <1>1. /\ req[r].pc = "save" /\ req[r].kind # "expense"
        /\ delivery' = [delivery EXCEPT ![req[r].of] = SavedRow(r)]
        /\ Goto(r, "book") \/ Finish(r)
    BY DEF Save
  <1>2. GoodRow(SavedRow(r))
    BY <1>1, SavedRowGood
  <1>3. /\ delivery' = [d \in Deliveries |-> delivery'[d]]
        /\ \A d \in Deliveries : GoodRow(delivery'[d])
    BY <1>1, <1>2 DEF RowsInv
  <1>4. GoodRequest([req[r] EXCEPT !.pc = "book"])
    BY <1>1, MovedGood DEF RowsInv
  <1>5. \/ req' = [req EXCEPT ![r] = Idle]
        \/ req' = [req EXCEPT ![r] = [req[r] EXCEPT !.pc = "book"]]
    BY <1>1 DEF Goto, Finish, RowsInv
  <1>6. /\ req' = [s \in Requests |-> req'[s]]
        /\ \A s \in Requests : GoodRequest(req'[s])
    BY <1>4, <1>5, IdleGood DEF RowsInv
  <1>7. QED
    BY <1>3, <1>6 DEF RowsInv, GoodRow, Consistent, GoodRequest

\* Deliveries and requests stay as they are.
LEMMA NothingTouched ==
    ASSUME RowsInv, delivery' = delivery, req' = req
    PROVE  RowsInv'
  BY DEF RowsInv, GoodRow, Consistent, GoodRequest

LEMMA RowsInvKept ==
    ASSUME RowsInv, [Next]_vars
    PROVE  RowsInv'
  <1>1. ASSUME NEW r \in Requests,
               Push(r) \/ Cancel(r) \/ Sync(r) \/ Hook(r) \/ Export(r) \/ CreateExpense(r)
        PROVE  RowsInv'
    BY <1>1, BeginStep DEF Push, Cancel, Sync, Hook, Export, CreateExpense
  <1>2. ASSUME NEW r \in Requests, SkipCarrier(r)
        PROVE  RowsInv'
    BY <1>2, SkipCarrierStep
  <1>3. ASSUME NEW r \in Requests, CarrierAccepts(r) \/ CarrierTracks(r)
        PROVE  RowsInv'
    BY <1>3, CarrierStep
  <1>4. ASSUME NEW r \in Requests, RetryOtherId(r) \/ CarrierCancels(r) \/ StockLeaves(r)
        PROVE  RowsInv'
    BY <1>4, GotoStep DEF RetryOtherId, CarrierCancels, StockLeaves, Calling
  <1>5. ASSUME NEW r \in Requests,
               CarrierRefuses(r) \/ BookCost(r) \/ InsertVoucher(r) \/ Fail(r)
        PROVE  RowsInv'
    BY <1>5, FinishStep DEF CarrierRefuses, BookCost, InsertVoucher, Fail
  <1>6. ASSUME NEW r \in Requests, FindVoucher(r)
        PROVE  RowsInv'
    BY <1>6, FinishStep, GotoStep DEF FindVoucher, Calling
  <1>7. ASSUME NEW r \in Requests, Save(r)
        PROVE  RowsInv'
    BY <1>7, SaveStep
  <1>8. CASE CarrierMoves \/ UnknownHook \/ \E c \in Carriers : Configure(c)
    BY <1>8, NothingTouched DEF CarrierMoves, UnknownHook, Configure
  <1>9. CASE UNCHANGED vars
    BY <1>9, NothingTouched DEF vars
  <1>10. QED
    BY <1>1, <1>2, <1>3, <1>4, <1>5, <1>6, <1>7, <1>8, <1>9 DEF Next

LEMMA RowsInvAtStart == Init => RowsInv
  BY NewDeliveryGood, IdleGood DEF Init, RowsInv

\* A delivery shown as delivered by GHTK does not wait for its export, whatever
\* stale rows overlapping pushes, cancellations, webhooks and exports write back.
THEOREM GhtkDeliveredIsShipped == Spec => []DeliveredIsShipped
  <1>1. RowsInv => DeliveredIsShipped
    BY DEF RowsInv, GoodRow, Consistent, DeliveredIsShipped
  <1>2. QED
    BY <1>1, RowsInvAtStart, RowsInvKept, PTL DEF Spec

--------------------------------------------------------------------------------
(* Types *)

Moved(q, pc, code, seen) == [q EXCEPT !.pc = pc, !.code = code, !.seen = seen]
Turn(r, q) == req' = [req EXCEPT ![r] = q]

\* A request in flight names a delivery, and a carrier if it concerns one.
TypedRequest(q) ==
    /\ q \in Request
    /\ q.pc # "idle" => q.of \in Deliveries /\ q.kind # "none"
    /\ (q.pc # "idle" /\ q.kind \in {"push", "cancel", "sync", "hook"}) => q.carrier \in Carriers
    /\ q.kind = "hook" => q.seen \in Stages

\* Carriers number their orders one after the other.
TypeInv ==
    /\ TypeOK
    /\ \A r \in Requests : TypedRequest(req[r])
    /\ \E n \in 0..MaxParcels : Known = 1..n

LEMMA CodesApart ==
    /\ GhtkDemo \notin Nat /\ LalamoveDemo \notin Nat /\ NoCode \notin Nat
    /\ DemoCode("GHTK") = GhtkDemo /\ DemoCode("LALAMOVE") = LalamoveDemo
    /\ \A c \in Carriers : DemoCode(c) \in Codes
    /\ MaxParcels \in Nat /\ MaxCalls \in Nat /\ MaxFaults \in Nat
    /\ NoCode \in Codes /\ IsFiniteSet(Requests)
  BY ShipmentConstants DEF ShipmentConstants, DemoCode, Carriers, Codes

LEMMA MovedFields ==
    ASSUME NEW q \in Request, NEW pc, NEW code, NEW seen
    PROVE  LET m == Moved(q, pc, code, seen)
           IN  /\ m.pc = pc /\ m.code = code /\ m.seen = seen
               /\ m.kind = q.kind /\ m.carrier = q.carrier /\ m.of = q.of /\ m.snap = q.snap
  BY DEF Moved, Request

LEMMA MovedTyped ==
    ASSUME NEW q, TypedRequest(q), q.pc # "idle",
           NEW pc \in {"call", "retry", "save", "book"}, NEW code \in Codes,
           NEW seen \in Stages \cup {"none", "demo"}, q.kind = "hook" => seen \in Stages
    PROVE  TypedRequest(Moved(q, pc, code, seen))
<1>1. Moved(q, pc, code, seen) \in Request
  BY DEF Moved, TypedRequest, Request
<1> QED
  BY <1>1, MovedFields DEF TypedRequest

LEMMA IdleTyped == TypedRequest(Idle) /\ Idle.pc = "idle" /\ Idle.kind = "none"
<1>1. NewDelivery \in Delivery
  BY CodesApart DEF NewDelivery, Delivery
<1> QED
  BY <1>1, CodesApart DEF Idle, TypedRequest, Request

LEMMA TurnFacts ==
    ASSUME TypeInv, NEW r \in Requests, NEW q, Turn(r, q)
    PROVE  req' = [s \in Requests |-> IF s = r THEN q ELSE req[s]]
  BY DEF TypeInv, TypeOK, Turn

\* What the steps of a request do to its record.
LEMMA TurnForms ==
    ASSUME TypeInv, NEW r \in Requests
    PROVE  /\ \A pc : Goto(r, pc) => Turn(r, Moved(req[r], pc, req[r].code, req[r].seen))
           /\ Finish(r) => Turn(r, Idle)
           /\ SkipCarrier(r) =>
                \/ Turn(r, Idle) /\ req[r].kind = "sync" /\ req[r].carrier = "GHTK"
                \/ /\ Turn(r, Moved(req[r], "save",
                                    IF req[r].kind = "push" THEN DemoCode(req[r].carrier)
                                    ELSE req[r].code, "demo"))
                   /\ req[r].kind = "sync" => req[r].carrier # "GHTK"
           /\ CarrierAccepts(r) =>
                Turn(r, Moved(req[r], "save", Cardinality(Known) + 1, req[r].seen))
           /\ CarrierTracks(r) =>
                Turn(r, Moved(req[r], "save", req[r].code, parcel[req[r].code].stage))
<1>1. req[r] \in Request
  BY DEF TypeInv, TypeOK
<1>2. req[r] = [pc |-> req[r].pc, kind |-> req[r].kind, carrier |-> req[r].carrier,
                of |-> req[r].of, snap |-> req[r].snap, code |-> req[r].code,
                seen |-> req[r].seen]
  BY <1>1 DEF Request
<1>4. req = [s \in Requests |-> req[s]]
  BY DEF TypeInv, TypeOK
<1>5. \A pc : Goto(r, pc) => Turn(r, [req[r] EXCEPT !.pc = pc])
  BY <1>4 DEF Goto, Turn
<1>6. CarrierAccepts(r) => Turn(r, [req[r] EXCEPT !.pc = "save", !.code = Cardinality(Known) + 1])
  BY <1>4 DEF CarrierAccepts, Turn
<1>7. CarrierTracks(r) => Turn(r, [req[r] EXCEPT !.pc = "save", !.seen = parcel[req[r].code].stage])
  BY <1>4 DEF CarrierTracks, Turn
<1>8. SkipCarrier(r) =>
        \/ Turn(r, Idle) /\ req[r].kind = "sync" /\ req[r].carrier = "GHTK"
        \/ /\ Turn(r, [req[r] EXCEPT !.pc = "save", !.seen = "demo",
                                     !.code = IF req[r].kind = "push"
                                              THEN DemoCode(req[r].carrier) ELSE req[r].code])
           /\ req[r].kind = "sync" => req[r].carrier # "GHTK"
  <2>1. CASE req[r].kind = "sync" /\ req[r].carrier = "GHTK"
    BY <2>1, <1>4 DEF SkipCarrier, Turn
  <2>2. CASE ~(req[r].kind = "sync" /\ req[r].carrier = "GHTK")
    <3>1. SkipCarrier(r) =>
            req' = [req EXCEPT ![r].pc = "save", ![r].seen = "demo",
                               ![r].code = IF req[r].kind = "push"
                                           THEN DemoCode(req[r].carrier) ELSE @]
      BY <2>2 DEF SkipCarrier
    <3>2. DOMAIN req = Requests
          /\ DOMAIN req[r] = {"pc", "kind", "carrier", "of", "snap", "code", "seen"}
      BY <1>1, <1>4 DEF Request
    <3>3. SkipCarrier(r) =>
            req' = [req EXCEPT ![r] = [req[r] EXCEPT !.pc = "save", !.seen = "demo",
                                     !.code = IF req[r].kind = "push"
                                              THEN DemoCode(req[r].carrier) ELSE req[r].code]]
      BY <3>1, <3>2
    <3> QED
      BY <2>2, <3>3 DEF Turn
  <2> QED
    BY <2>1, <2>2
<1>9. ASSUME NEW pc, Goto(r, pc)
      PROVE  Turn(r, Moved(req[r], pc, req[r].code, req[r].seen))
  <2>1. [req[r] EXCEPT !.pc = pc] = Moved(req[r], pc, req[r].code, req[r].seen)
    BY <1>2 DEF Moved
  <2>2. Turn(r, [req[r] EXCEPT !.pc = pc])
    BY <1>5, <1>9
  <2> QED
    BY <2>1, <2>2
<1>10. CarrierAccepts(r) =>
         Turn(r, Moved(req[r], "save", Cardinality(Known) + 1, req[r].seen))
  <2> DEFINE code == Cardinality(Known) + 1
  <2> HIDE DEF code
  <2>1. [req[r] EXCEPT !.pc = "save", !.code = code] = Moved(req[r], "save", code, req[r].seen)
    BY <1>2 DEF Moved
  <2> QED
    BY <1>6, <2>1 DEF code
<1>11. CarrierTracks(r) =>
         Turn(r, Moved(req[r], "save", req[r].code, parcel[req[r].code].stage))
  <2> DEFINE seen == parcel[req[r].code].stage
  <2> HIDE DEF seen
  <2>1. [req[r] EXCEPT !.pc = "save", !.seen = seen] = Moved(req[r], "save", req[r].code, seen)
    BY <1>2 DEF Moved
  <2> QED
    BY <1>7, <2>1 DEF seen
<1>12. SkipCarrier(r) =>
         \/ Turn(r, Idle) /\ req[r].kind = "sync" /\ req[r].carrier = "GHTK"
         \/ /\ Turn(r, Moved(req[r], "save",
                             IF req[r].kind = "push" THEN DemoCode(req[r].carrier)
                             ELSE req[r].code, "demo"))
            /\ req[r].kind = "sync" => req[r].carrier # "GHTK"
  <2> DEFINE code == IF req[r].kind = "push" THEN DemoCode(req[r].carrier) ELSE req[r].code
  <2> HIDE DEF code
  <2>1. [req[r] EXCEPT !.pc = "save", !.seen = "demo", !.code = code]
            = Moved(req[r], "save", code, "demo")
    BY <1>2 DEF Moved
  <2> QED
    BY <1>8, <2>1 DEF code
<1>13. Finish(r) => Turn(r, Idle)
  BY DEF Finish, Turn
<1> QED
  BY <1>9, <1>10, <1>11, <1>12, <1>13
\* The rows, what the carriers know, and the requests, apart.
RowsTyped ==
    /\ delivery \in [Deliveries -> Delivery]
    /\ voucher \in [Deliveries -> [shipping : Nat, cogs : BOOLEAN]]
    /\ configured \subseteq Carriers
    /\ calls \in 0..MaxCalls
    /\ faults \in 0..MaxFaults
    /\ exported \in [Deliveries -> Nat]
    /\ late \subseteq Deliveries
    /\ excuses \in [Deliveries -> Nat]
CarriersTyped ==
    /\ \E n \in 0..MaxParcels : Known = 1..n
    /\ parcel \in [Known -> Parcel]
    /\ hooks \subseteq [code : Known, stage : Stages]
RequestsTyped ==
    /\ req = [r \in Requests |-> req[r]]
    /\ \A r \in Requests : TypedRequest(req[r])

LEMMA TypeParts == TypeInv <=> RowsTyped /\ CarriersTyped /\ RequestsTyped
<1>1. ASSUME TypeInv
      PROVE  RowsTyped /\ CarriersTyped /\ RequestsTyped
  BY <1>1 DEF TypeInv, TypeOK, RowsTyped, CarriersTyped, RequestsTyped
<1>2. ASSUME RowsTyped, CarriersTyped, RequestsTyped
      PROVE  TypeInv
  <2>1. req \in [Requests -> Request]
    BY <1>2 DEF RequestsTyped, TypedRequest
  <2>2. Known \subseteq Parcels
    BY <1>2, CodesApart DEF CarriersTyped, Parcels
  <2> QED
    BY <1>2, <2>1, <2>2 DEF TypeInv, TypeOK, RowsTyped, CarriersTyped, RequestsTyped
<1> QED
  BY <1>1, <1>2

LEMMA TypePartsNext == RowsTyped' /\ CarriersTyped' /\ RequestsTyped' => TypeInv'
<1> SUFFICES ASSUME RowsTyped', CarriersTyped', RequestsTyped' PROVE TypeInv'
  OBVIOUS
<1>1. (req \in [Requests -> Request])'
  BY DEF RequestsTyped, TypedRequest
<1>2. (Known \subseteq Parcels)'
  BY CodesApart DEF CarriersTyped, Parcels
<1> QED
  BY <1>1, <1>2 DEF TypeInv, TypeOK, RowsTyped, CarriersTyped, RequestsTyped

LEMMA TypeAtStart == Init => TypeInv
<1> SUFFICES ASSUME Init PROVE TypeInv
  OBVIOUS
<1>1. NewDelivery \in Delivery
  BY CodesApart DEF NewDelivery, Delivery
<1>2. RowsTyped
  BY <1>1, CodesApart DEF Init, RowsTyped
<1>3. Known = {} /\ parcel \in [Known -> Parcel]
  BY DEF Init, Known
<1>4. Known = 1..0 /\ 0 \in 0..MaxParcels
  BY <1>3, CodesApart
<1>5. CarriersTyped
  BY <1>3, <1>4 DEF Init, CarriersTyped
<1>6. RequestsTyped
  BY IdleTyped DEF Init, RequestsTyped
<1> QED
  BY <1>2, <1>5, <1>6, TypeParts

LEMMA RequestsTurn ==
    ASSUME TypeInv, NEW r \in Requests, NEW q, TypedRequest(q), Turn(r, q)
    PROVE  RequestsTyped'
  BY TurnFacts DEF TypeInv, RequestsTyped, TypedRequest, Request, Delivery, Codes, Parcels

\* The rows handlers save are rows.
LEMMA SavedRowTyped ==
    ASSUME TypeInv, NEW r \in Requests, req[r].pc = "save", req[r].kind # "expense"
    PROVE  SavedRow(r) \in Delivery
<1> DEFINE q == req[r]
<1>1. q \in Request /\ TypedRequest(q) /\ q.kind \in {"push", "cancel", "sync", "hook", "export"}
  BY DEF TypeInv, TypedRequest, Request
<1>2. q.snap \in Delivery /\ q.code \in Codes
  BY <1>1 DEF Request
<1>3. CASE q.kind = "push"
  <2>1. q.carrier \in Carriers
    BY <1>1, <1>3 DEF TypedRequest
  <2>2. Pushed(q.snap, q.carrier, q.code) \in Delivery
    BY <1>2, <2>1 DEF Pushed, Delivery, Stages
  <2> QED
    BY <1>3, <2>2 DEF SavedRow
<1>4. CASE q.kind = "cancel"
  <2>1. Cancelled(q.snap, q.carrier) \in Delivery
    BY <1>2 DEF Cancelled, Delivery, Stages
  <2> QED
    BY <1>4, <2>1 DEF SavedRow
<1>5. ASSUME q.seen \in Stages \cup {"none"}
      PROVE  Reported(q.snap, q.carrier, q.seen) \in Delivery
  BY <1>2, <1>5 DEF Reported, Delivery, Stages
<1>6. CASE q.kind = "hook"
  BY <1>1, <1>5, <1>6 DEF SavedRow, TypedRequest
<1>7. CASE q.kind = "sync"
  <2>1. DemoSynced(q.snap) \in Delivery
    BY <1>2 DEF DemoSynced, Delivery, Stages
  <2>2. q.seen # "demo" => q.seen \in Stages \cup {"none"}
    BY <1>1 DEF Request
  <2> QED
    BY <1>5, <1>7, <2>1, <2>2 DEF SavedRow
<1>8. CASE q.kind = "export"
  <2>1. [q.snap EXCEPT !.status = "SHIPPED"] \in Delivery
    BY <1>2 DEF Delivery
  <2> QED
    BY <1>8, <2>1 DEF SavedRow
<1> QED
  BY <1>1, <1>3, <1>4, <1>6, <1>7, <1>8

\* A new request.
LEMMA TypesBegin ==
    ASSUME TypeInv, NEW r \in Requests, NEW d \in Deliveries,
           NEW kind \in {"push", "cancel", "sync", "hook", "export", "expense"},
           NEW c \in Carriers \cup {"none"}, NEW code \in Codes,
           NEW seen \in Stages \cup {"none"}, NEW replaces,
           kind \in {"push", "cancel", "sync", "hook"} => c \in Carriers,
           kind = "hook" => seen \in Stages,
           Begin(r, d, kind, c, code, seen, replaces)
    PROVE  TypeInv'
<1> DEFINE q == [pc |-> IF kind = "hook" THEN "save" ELSE "call", kind |-> kind,
                 carrier |-> c, of |-> d, snap |-> delivery[d], code |-> code,
                 seen |-> seen]
<1>1. RowsTyped /\ CarriersTyped /\ RequestsTyped
  BY TypeParts
<1>2. TypedRequest(q)
  BY <1>1 DEF RowsTyped, TypedRequest, Request
<1>3. Turn(r, q)
  BY DEF Begin, Turn
<1> HIDE DEF q
<1>4. RequestsTyped'
  BY <1>2, <1>3, RequestsTurn
<1>5. CarriersTyped'
  BY <1>1 DEF Begin, CarriersTyped, Known
<1>6. RowsTyped'
  BY <1>1, CodesApart DEF Begin, Excuse, RowsTyped, ghosts
<1> QED
  BY <1>4, <1>5, <1>6, TypePartsNext

LEMMA TypesBegins ==
    ASSUME TypeInv, NEW r \in Requests,
           Push(r) \/ Cancel(r) \/ Sync(r) \/ Hook(r) \/ Export(r) \/ CreateExpense(r)
    PROVE  TypeInv'
<1>1. NoCode \in Codes /\ \A d \in Deliveries : Tracked(d) \in Codes
  BY CodesApart DEF TypeInv, TypeOK, Tracked, Delivery
<1>2. CASE Push(r)
  BY <1>1, <1>2, TypesBegin DEF Push
<1>3. CASE Cancel(r)
  BY <1>1, <1>3, TypesBegin DEF Cancel
<1>4. CASE Sync(r)
  BY <1>1, <1>4, TypesBegin DEF Sync
<1>5. CASE Hook(r)
  <2>1. PICK m \in hooks, d \in Deliveries :
          Begin(r, d, "hook", parcel[m.code].carrier, m.code, m.stage, FALSE)
    BY <1>5 DEF Hook
  <2>2. m.code \in Known /\ m.stage \in Stages /\ m.code \in Codes
    BY DEF TypeInv, TypeOK, Codes
  <2>3. parcel[m.code].carrier \in Carriers
    BY <2>2 DEF TypeInv, TypeOK, Parcel
  <2> QED
    BY <2>1, <2>2, <2>3, TypesBegin
<1>6. CASE Export(r)
  BY <1>1, <1>6, TypesBegin DEF Export
<1>7. CASE CreateExpense(r)
  BY <1>1, <1>7, TypesBegin DEF CreateExpense
<1> QED
  BY <1>2, <1>3, <1>4, <1>5, <1>6, <1>7

\* A parcel more: the next number.
LEMMA NextParcel ==
    ASSUME TypeInv, NEW r \in Requests, CarrierAccepts(r)
    PROVE  LET p == Cardinality(Known) + 1
           IN  /\ p \in Parcels /\ p \notin Known
               /\ Known' = Known \cup {p}
               /\ \A q \in Known : parcel'[q] = parcel[q]
               /\ parcel'[p] = [of |-> req[r].of, carrier |-> req[r].carrier,
                                stage |-> "accepted", partnerId |-> req[r].pc = "call"]
               /\ CarriersTyped'
<1>1. PICK n \in 0..MaxParcels : Known = 1..n
  BY DEF TypeInv
<1>2. Cardinality(Known) = n
  BY <1>1, FS_Interval, CodesApart
<1> DEFINE new == [of |-> req[r].of, carrier |-> req[r].carrier,
                   stage |-> "accepted", partnerId |-> req[r].pc = "call"]
<1>3. /\ n + 1 \in Parcels /\ hooks' = hooks
      /\ parcel' = [q \in Known \cup {n + 1} |-> IF q \in Known THEN parcel[q] ELSE new]
  BY <1>2 DEF CarrierAccepts
<1>4. new \in Parcel
  BY DEF CarrierAccepts, Calling, TypeInv, TypedRequest, Parcel, Stages
<1> HIDE DEF new
<1>5. n + 1 \notin Known /\ Known' = 1..(n + 1) /\ Known' = Known \cup {n + 1}
  BY <1>1, <1>3, CodesApart DEF Known
<1>6. n + 1 \in 0..MaxParcels
  BY <1>3, CodesApart DEF Parcels
<1>7. parcel' \in [Known' -> Parcel] /\ \A q \in Known : parcel'[q] = parcel[q]
  BY <1>3, <1>4, <1>5 DEF TypeInv, TypeOK
<1>8. parcel'[n + 1] = new
  BY <1>3, <1>5
<1>9. hooks' \subseteq [code : Known', stage : Stages]
  BY <1>3, <1>5 DEF TypeInv, TypeOK
<1>10. CarriersTyped'
  BY <1>5, <1>6, <1>7, <1>9 DEF CarriersTyped
<1> QED
  BY <1>2, <1>3, <1>5, <1>7, <1>8, <1>10 DEF new

LEMMA TypesCarrier ==
    ASSUME TypeInv, NEW r \in Requests,
           \/ SkipCarrier(r) \/ RetryOtherId(r) \/ CarrierAccepts(r)
           \/ CarrierCancels(r) \/ CarrierTracks(r) \/ CarrierRefuses(r)
    PROVE  TypeInv'
<1>1. RowsTyped /\ CarriersTyped /\ RequestsTyped /\ TypedRequest(req[r]) /\ req[r].pc # "idle"
      /\ req[r] \in Request
  BY TypeParts DEF TypeInv, TypedRequest, SkipCarrier, RetryOtherId, CarrierAccepts, CarrierCancels,
     CarrierTracks, CarrierRefuses, Calling
<1>2. RowsTyped'
  BY <1>1 DEF RowsTyped, SkipCarrier, RetryOtherId, CarrierAccepts, CarrierCancels,
     CarrierTracks, CarrierRefuses, ghosts
<1>3. req[r].kind \in {"push", "cancel", "sync"} /\ req[r].carrier \in Carriers /\ req[r].code \in Codes
      /\ req[r].seen \in Stages \cup {"none", "demo"}
  BY <1>1 DEF SkipCarrier, RetryOtherId, CarrierAccepts, CarrierCancels,
     CarrierTracks, CarrierRefuses, Calling, TypedRequest, Request
<1>4. CASE SkipCarrier(r)
  <2> DEFINE code == IF req[r].kind = "push" THEN DemoCode(req[r].carrier) ELSE req[r].code
  <2>1. code \in Codes
    BY <1>3, CodesApart
  <2> HIDE DEF code
  <2>2. TypedRequest(Moved(req[r], "save", code, "demo"))
    BY <1>1, <1>3, <2>1, MovedTyped
  <2>3. Turn(r, Idle) \/ Turn(r, Moved(req[r], "save", code, "demo"))
    BY <1>4, TurnForms DEF code
  <2>4. RequestsTyped'
    BY <2>2, <2>3, IdleTyped, RequestsTurn
  <2>5. CarriersTyped'
    BY <1>1, <1>4 DEF SkipCarrier, CarriersTyped, Known
  <2> QED
    BY <1>2, <2>4, <2>5, TypePartsNext
<1>5. CASE RetryOtherId(r)
  <2>1. TypedRequest(Moved(req[r], "retry", req[r].code, req[r].seen))
    BY <1>1, <1>3, MovedTyped
  <2>2. RequestsTyped'
    BY <1>5, <2>1, TurnForms, RequestsTurn DEF RetryOtherId
  <2>3. CarriersTyped'
    BY <1>1, <1>5 DEF RetryOtherId, CarriersTyped, Known
  <2> QED
    BY <1>2, <2>2, <2>3, TypePartsNext
<1>6. CASE CarrierAccepts(r)
  <2>1. Cardinality(Known) + 1 \in Codes /\ CarriersTyped'
    BY <1>6, NextParcel DEF Codes
  <2>2. TypedRequest(Moved(req[r], "save", Cardinality(Known) + 1, req[r].seen))
    BY <1>1, <1>3, <2>1, MovedTyped
  <2>3. RequestsTyped'
    BY <1>6, <2>2, TurnForms, RequestsTurn
  <2> QED
    BY <1>2, <2>1, <2>3, TypePartsNext
<1>7. CASE CarrierCancels(r)
  <2>1. TypedRequest(Moved(req[r], "save", req[r].code, req[r].seen))
    BY <1>1, <1>3, MovedTyped
  <2>2. RequestsTyped'
    BY <1>7, <2>1, TurnForms, RequestsTurn DEF CarrierCancels
  <2>3. parcel' \in [Known -> Parcel] /\ Known' = Known /\ hooks' = hooks
    BY <1>1, <1>7 DEF CarrierCancels, CarriersTyped, Known, Parcel, Stages
  <2>4. CarriersTyped'
    BY <1>1, <2>3 DEF CarriersTyped
  <2> QED
    BY <1>2, <2>2, <2>4, TypePartsNext
<1>8. CASE CarrierTracks(r)
  <2>1. parcel[req[r].code].stage \in Stages
    BY <1>1, <1>8 DEF CarrierTracks, Understood, CarriersTyped, Parcel
  <2>2. TypedRequest(Moved(req[r], "save", req[r].code, parcel[req[r].code].stage))
    BY <1>1, <1>3, <2>1, MovedTyped
  <2>3. RequestsTyped'
    BY <1>8, <2>2, TurnForms, RequestsTurn
  <2>4. CarriersTyped'
    BY <1>1, <1>8 DEF CarrierTracks, CarriersTyped, Known
  <2> QED
    BY <1>2, <2>3, <2>4, TypePartsNext
<1>9. CASE CarrierRefuses(r)
  <2>1. RequestsTyped'
    BY <1>9, TurnForms, IdleTyped, RequestsTurn DEF CarrierRefuses
  <2>2. CarriersTyped'
    BY <1>1, <1>9 DEF CarrierRefuses, CarriersTyped, Known
  <2> QED
    BY <1>2, <2>1, <2>2, TypePartsNext
<1> QED
  BY <1>4, <1>5, <1>6, <1>7, <1>8, <1>9

LEMMA TypesHandler ==
    ASSUME TypeInv, NEW r \in Requests,
           \/ Save(r) \/ StockLeaves(r) \/ BookCost(r) \/ FindVoucher(r)
           \/ InsertVoucher(r) \/ Fail(r)
    PROVE  TypeInv'
<1>1. RowsTyped /\ CarriersTyped /\ RequestsTyped /\ TypedRequest(req[r]) /\ req[r].pc # "idle"
      /\ req[r] \in Request
  BY TypeParts DEF TypeInv, TypedRequest, Save, StockLeaves, BookCost, FindVoucher, InsertVoucher,
     Fail, Calling
<1>2. req[r].of \in Deliveries /\ req[r].code \in Codes
      /\ req[r].seen \in Stages \cup {"none", "demo"} /\ (req[r].kind = "hook" => req[r].seen \in Stages)
  BY <1>1 DEF TypedRequest, Request
<1>3. CarriersTyped'
  BY <1>1 DEF Save, StockLeaves, BookCost, FindVoucher, InsertVoucher, Fail, CarriersTyped, Known
<1>4. ASSUME NEW pc \in {"save", "book"}, Goto(r, pc)
      PROVE  RequestsTyped'
  <2>1. TypedRequest(Moved(req[r], pc, req[r].code, req[r].seen))
    BY <1>1, <1>2, MovedTyped
  <2> QED
    BY <1>4, <2>1, TurnForms, RequestsTurn
<1>5. ASSUME Finish(r)
      PROVE  RequestsTyped'
  BY <1>5, TurnForms, IdleTyped, RequestsTurn
<1>6. RequestsTyped'
  BY <1>4, <1>5 DEF Save, StockLeaves, BookCost, FindVoucher, InsertVoucher, Fail
<1>7. RowsTyped'
  <2>1. CASE Save(r)
    <3>1. SavedRow(r) \in Delivery
      BY <2>1, SavedRowTyped DEF Save
    <3>2. delivery' \in [Deliveries -> Delivery]
      BY <1>1, <2>1, <3>1 DEF Save, RowsTyped
    <3> QED
      BY <1>1, <1>2, <2>1, <3>2 DEF Save, RowsTyped
  <2>2. CASE StockLeaves(r) \/ FindVoucher(r)
    BY <1>1, <2>2 DEF StockLeaves, FindVoucher, RowsTyped
  <2>3. CASE BookCost(r)
    <3>1. PICK costed \in BOOLEAN : voucher' = [voucher EXCEPT ![req[r].of].cogs = @ \/ costed]
      BY <2>3 DEF BookCost
    <3>2. voucher' \in [Deliveries -> [shipping : Nat, cogs : BOOLEAN]]
      <4> DEFINE v == voucher[req[r].of]
      <4>1. v \in [shipping : Nat, cogs : BOOLEAN]
        BY <1>1, <1>2 DEF RowsTyped
      <4>2. [v EXCEPT !.cogs = @ \/ costed] \in [shipping : Nat, cogs : BOOLEAN]
        BY <4>1
      <4>3. voucher' = [voucher EXCEPT ![req[r].of] = [v EXCEPT !.cogs = @ \/ costed]]
        BY <1>1, <3>1 DEF RowsTyped
      <4> QED
        BY <1>1, <4>2, <4>3 DEF RowsTyped
    <3> QED
      BY <1>1, <2>3, <3>2 DEF BookCost, RowsTyped, ghosts
  <2>4. CASE InsertVoucher(r)
    <3> DEFINE v == voucher[req[r].of]
               w == [v EXCEPT !.shipping = @ + 1]
    <3>1. v \in [shipping : Nat, cogs : BOOLEAN] /\ v.shipping + 1 \in Nat
      BY <1>1, <1>2 DEF RowsTyped
    <3>2. ASSUME NEW n \in Nat
          PROVE  [v EXCEPT !.shipping = n] \in [shipping : Nat, cogs : BOOLEAN]
      BY <3>1
    <3>3. w \in [shipping : Nat, cogs : BOOLEAN]
      BY <3>1, <3>2
    <3>4. voucher' = [voucher EXCEPT ![req[r].of] = w]
      BY <2>4 DEF InsertVoucher
    <3>5. voucher' \in [Deliveries -> [shipping : Nat, cogs : BOOLEAN]]
      BY <1>1, <3>3, <3>4 DEF RowsTyped
    <3> QED
      BY <1>1, <2>4, <3>5 DEF InsertVoucher, RowsTyped
  <2>5. CASE Fail(r)
    <3>1. excuses' \in [Deliveries -> Nat]
      BY <1>1, <1>2, <2>5 DEF Fail, Excuse, RowsTyped
    <3>2. faults' \in 0..MaxFaults
      BY <1>1, <2>5, CodesApart DEF Fail, RowsTyped
    <3> QED
      BY <1>1, <2>5, <3>1, <3>2 DEF Fail, RowsTyped, ghosts
  <2> QED
    BY <2>1, <2>2, <2>3, <2>4, <2>5
<1> QED
  BY <1>3, <1>6, <1>7, TypePartsNext

LEMMA TypesOutside ==
    ASSUME TypeInv, CarrierMoves \/ UnknownHook \/ (\E c \in Carriers : Configure(c))
                    \/ UNCHANGED vars
    PROVE  TypeInv'
<1>1. RowsTyped /\ CarriersTyped /\ RequestsTyped
  BY TypeParts
<1>2. req' = req
  BY DEF CarrierMoves, UnknownHook, Configure, vars
<1>3. RequestsTyped'
  BY <1>1, <1>2 DEF RequestsTyped, TypedRequest, Request, Delivery, Codes, Parcels
<1>4. RowsTyped'
  BY <1>1 DEF RowsTyped, CarrierMoves, UnknownHook, Configure, vars, ghosts
<1>5. CarriersTyped'
  <2>1. CASE CarrierMoves
    <3>1. PICK p \in Known, s \in Stages \ {"accepted"} :
            /\ parcel' = [parcel EXCEPT ![p].stage = s]
            /\ hooks' = hooks \cup {[code |-> p, stage |-> s]}
      BY <2>1 DEF CarrierMoves
    <3>2. parcel' \in [Known -> Parcel] /\ Known' = Known
      BY <1>1, <3>1 DEF CarriersTyped, Known, Parcel
    <3> QED
      BY <1>1, <3>1, <3>2 DEF CarriersTyped
  <2>2. CASE UnknownHook \/ (\E c \in Carriers : Configure(c)) \/ UNCHANGED vars
    BY <1>1, <2>2 DEF CarriersTyped, UnknownHook, Configure, vars, Known
  <2> QED
    BY <2>1, <2>2
<1> QED
  BY <1>3, <1>4, <1>5, TypePartsNext

LEMMA TypeStep == TypeInv /\ [Next]_vars => TypeInv'
  BY TypesBegins, TypesCarrier, TypesHandler, TypesOutside DEF Next

\* Rows, parcels, calls of webhooks and requests keep their fields, carriers
\* number their parcels without gaps, and requests know what they are for.
THEOREM ShipmentsTyped == Spec => []TypeOK
<1>1. TypeInv => TypeOK
  BY DEF TypeInv
<1> QED
  BY <1>1, TypeAtStart, TypeStep, PTL DEF Spec

--------------------------------------------------------------------------------
(* Goods leave the stock once *)

Saves(q) == q.kind # "expense" /\ q.pc \in {"call", "retry", "save"}

\* A request that will take the goods out, one that will save SHIPPED, and one
\* that may save PENDING_EXPORT.
Takes(q) == q.kind = "export" /\ q.pc \in {"call", "retry"}
Closes(q) == q.kind = "export" /\ Saves(q)
Reopens(q) == q.kind # "export" /\ Saves(q) /\ q.snap.status = "PENDING_EXPORT"

Takers(rq, d) == {s \in Requests : rq[s].of = d /\ Takes(rq[s])}

\* Once the requests of d are done, its row does not wait for the export.
Shut(rq, row, d) ==
    /\ \A s \in Requests : rq[s].of = d => ~Reopens(rq[s])
    /\ \/ row.status # "PENDING_EXPORT"
       \/ \E s \in Requests : rq[s].of = d /\ Closes(rq[s])

\* The exports made, those under way, and the one a row still waiting allows.
Exports(rq, row, n, d) ==
    n + Cardinality(Takers(rq, d)) + (IF Shut(rq, row, d) THEN 0 ELSE 1)
ExportInv ==
    \A d \in Deliveries : Exports(req, delivery[d], exported[d], d) <= 1 + excuses[d]

LEMMA TakersTurn ==
    ASSUME NEW rq, NEW rr, NEW r \in Requests, NEW d,
           \A s \in Requests \ {r} : rr[s] = rq[s]
    PROVE  LET a == Cardinality(Takers(rq, d))
               b == Cardinality(Takers(rr, d))
               was == rq[r].of = d /\ Takes(rq[r])
               is == rr[r].of = d /\ Takes(rr[r])
           IN  /\ a \in Nat /\ b \in Nat /\ b <= a + 1
               /\ (is => was) => b <= a
               /\ (was /\ ~is) => b = a - 1
<1>1. IsFiniteSet(Takers(rq, d))
  BY CodesApart, FS_Subset DEF Takers
<1>2. Takers(rr, d) \ {r} = Takers(rq, d) \ {r}
  BY DEF Takers
<1>3. /\ r \in Takers(rr, d) <=> rr[r].of = d /\ Takes(rr[r])
      /\ r \in Takers(rq, d) <=> rq[r].of = d /\ Takes(rq[r])
  BY DEF Takers
<1> QED
  BY <1>1, <1>2, <1>3, CountTurn

\* A request moves on without taking, closing or reopening anything more.
LEMMA QuietTurn ==
    ASSUME NEW rq, NEW rr, NEW r \in Requests, NEW d, NEW row, NEW n \in Nat, NEW x \in Nat,
           \A s \in Requests \ {r} : rr[s] = rq[s],
           rr[r].of = d /\ Takes(rr[r]) => rq[r].of = d /\ Takes(rq[r]),
           rr[r].of = d /\ Reopens(rr[r]) => rq[r].of = d /\ Reopens(rq[r]),
           rq[r].of = d /\ Closes(rq[r]) => rr[r].of = d /\ Closes(rr[r]),
           Exports(rq, row, n, d) <= x
    PROVE  Exports(rr, row, n, d) <= x
<1>1. Shut(rq, row, d) => Shut(rr, row, d)
  <2>1. ASSUME \A s \in Requests : rq[s].of = d => ~Reopens(rq[s])
        PROVE  \A s \in Requests : rr[s].of = d => ~Reopens(rr[s])
    BY <2>1
  <2>2. ASSUME NEW s \in Requests, rq[s].of = d, Closes(rq[s])
        PROVE  rr[s].of = d /\ Closes(rr[s])
    BY <2>2
  <2> QED
    BY <2>1, <2>2 DEF Shut
<1> DEFINE a == Cardinality(Takers(rq, d))
           b == Cardinality(Takers(rr, d))
           u == IF Shut(rq, row, d) THEN 0 ELSE 1
           v == IF Shut(rr, row, d) THEN 0 ELSE 1
<1>2. a \in Nat /\ b \in Nat /\ b <= a
  BY TakersTurn
<1>3. u \in Nat /\ v \in Nat /\ v <= u
  BY <1>1
<1>4. Exports(rq, row, n, d) = n + a + u /\ Exports(rr, row, n, d) = n + b + v
  BY DEF Exports
<1> HIDE DEF a, b, u, v
<1> QED
  BY <1>2, <1>3, <1>4

\* What any turn can add.
LEMMA AnyTurn ==
    ASSUME NEW rq, NEW rr, NEW r \in Requests, NEW d, NEW row, NEW n \in Nat, NEW x \in Nat,
           \A s \in Requests \ {r} : rr[s] = rq[s],
           Exports(rq, row, n, d) <= x
    PROVE  Exports(rr, row, n, d) <= x + 1
<1> DEFINE a == Cardinality(Takers(rq, d))
           b == Cardinality(Takers(rr, d))
           u == IF Shut(rq, row, d) THEN 0 ELSE 1
           v == IF Shut(rr, row, d) THEN 0 ELSE 1
<1>0. a \in Nat /\ b \in Nat
  BY TakersTurn
<1>1. a \in Nat /\ b \in Nat /\ u \in 0..1 /\ v \in 0..1
  BY <1>0
<1>2. b + v <= a + u + 1
  <2>1. CASE rr[r].of = d /\ Takes(rr[r])
    <3>1. Closes(rr[r]) /\ ~Reopens(rr[r])
      BY <2>1 DEF Takes, Closes, Reopens, Saves
    <3>2. ASSUME \A s \in Requests : rq[s].of = d => ~Reopens(rq[s])
          PROVE  \A s \in Requests : rr[s].of = d => ~Reopens(rr[s])
      BY <3>1, <3>2
    <3>3. Shut(rq, row, d) => Shut(rr, row, d)
      BY <2>1, <3>1, <3>2 DEF Shut
    <3>4. b <= a + 1
      BY TakersTurn
    <3>5. v <= u
      BY <3>3
    <3> HIDE DEF a, b, u, v
    <3> QED
      BY <1>1, <3>4, <3>5
  <2>2. CASE ~(rr[r].of = d /\ Takes(rr[r]))
    <3>1. b <= a
      BY <2>2, TakersTurn
    <3> HIDE DEF a, b, u, v
    <3> QED
      BY <1>1, <3>1
  <2> QED
    BY <2>1, <2>2
<1>3. Exports(rq, row, n, d) = n + a + u /\ Exports(rr, row, n, d) = n + b + v
  BY DEF Exports
<1> HIDE DEF a, b, u, v
<1> QED
  BY <1>1, <1>2, <1>3

\* A handler writes back the status it read, or a later one.
LEMMA SavedStatus ==
    ASSUME TypeInv, NEW r \in Requests, req[r].pc = "save", req[r].kind # "expense",
           req[r].kind = "export" \/ req[r].snap.status # "PENDING_EXPORT"
    PROVE  SavedRow(r).status # "PENDING_EXPORT"
<1> DEFINE q == req[r]
           row == q.snap
<1>1. q \in Request /\ q.kind \in {"push", "cancel", "sync", "hook", "export"}
  BY DEF TypeInv, TypedRequest, Request
<1>2. row \in Delivery /\ DOMAIN row = {"carrier", "code", "statusId", "text", "status", "priced"}
  BY <1>1 DEF Request, Delivery
<1>3. q.kind = "export" => SavedRow(r) = [row EXCEPT !.status = "SHIPPED"]
  BY DEF SavedRow
<1>4. /\ q.kind = "push" => SavedRow(r) = Pushed(row, q.carrier, q.code)
      /\ q.kind = "cancel" => SavedRow(r) = Cancelled(row, q.carrier)
      /\ q.kind = "hook" => SavedRow(r) = Reported(row, q.carrier, q.seen)
      /\ q.kind = "sync" => SavedRow(r) \in {DemoSynced(row), Reported(row, q.carrier, q.seen)}
  BY DEF SavedRow
<1> HIDE DEF q, row
<1>5. [row EXCEPT !.status = "SHIPPED"].status # "PENDING_EXPORT"
  BY <1>2
<1>6. ASSUME row.status # "PENDING_EXPORT"
      PROVE  /\ Pushed(row, q.carrier, q.code).status # "PENDING_EXPORT"
             /\ Cancelled(row, q.carrier).status # "PENDING_EXPORT"
             /\ Reported(row, q.carrier, q.seen).status # "PENDING_EXPORT"
             /\ DemoSynced(row).status # "PENDING_EXPORT"
  BY <1>2, <1>6 DEF Pushed, Cancelled, Reported, DemoSynced
<1> QED
  BY <1>1, <1>3, <1>4, <1>5, <1>6 DEF q, row

LEMMA ExportTyped ==
    ASSUME TypeInv, NEW d \in Deliveries
    PROVE  /\ exported[d] \in Nat /\ excuses[d] \in Nat /\ delivery[d] \in Delivery
           /\ Cardinality(Takers(req, d)) \in Nat
  BY CodesApart, FS_Subset, FS_CardinalityType DEF TypeInv, TypeOK, Takers


\* A request for d begins where none is in flight: it takes the place of the
\* export the row allows, or leaves things as they are.
LEMMA FirstTurn ==
    ASSUME NEW rq, NEW rr, NEW r \in Requests, NEW d, NEW row, NEW n \in Nat, NEW x \in Nat,
           \A s \in Requests \ {r} : rr[s] = rq[s],
           \A s \in Requests : rq[s].of = d => rq[s].pc = "idle",
           rr[r].of = d, rr[r].kind # "none", rr[r].snap = row,
           Takes(rr[r]) => row.status = "PENDING_EXPORT",
           Exports(rq, row, n, d) <= x
    PROVE  Exports(rr, row, n, d) <= x
<1>1. \A s \in Requests : rq[s].of = d => ~Reopens(rq[s]) /\ ~Closes(rq[s]) /\ ~Takes(rq[s])
  BY DEF Reopens, Closes, Takes, Saves
<1>2. CASE Takes(rr[r])
  <2>1. ~Shut(rq, row, d)
    BY <1>1, <1>2 DEF Shut
  <2>2. Closes(rr[r]) /\ ~Reopens(rr[r])
    BY <1>2 DEF Takes, Closes, Reopens, Saves
  <2>3. \A s \in Requests : rr[s].of = d => ~Reopens(rr[s])
    BY <1>1, <2>2
  <2>4. Shut(rr, row, d)
    BY <2>2, <2>3 DEF Shut
  <2>5. Cardinality(Takers(rr, d)) <= Cardinality(Takers(rq, d)) + 1
        /\ Cardinality(Takers(rr, d)) \in Nat /\ Cardinality(Takers(rq, d)) \in Nat
    BY TakersTurn
  <2> QED
    BY <2>1, <2>4, <2>5 DEF Exports
<1>3. CASE ~Takes(rr[r])
  <2>1. Shut(rq, row, d) => Shut(rr, row, d)
    <3>1. Shut(rq, row, d) => row.status # "PENDING_EXPORT"
      BY <1>1 DEF Shut
    <3>2. row.status # "PENDING_EXPORT" => ~Reopens(rr[r])
      BY DEF Reopens
    <3>3. row.status # "PENDING_EXPORT" => \A s \in Requests : rr[s].of = d => ~Reopens(rr[s])
      BY <1>1, <3>2
    <3> QED
      BY <3>1, <3>3 DEF Shut
  <2>2. Cardinality(Takers(rr, d)) <= Cardinality(Takers(rq, d))
        /\ Cardinality(Takers(rr, d)) \in Nat /\ Cardinality(Takers(rq, d)) \in Nat
    BY <1>3, TakersTurn
  <2> QED
    BY <2>1, <2>2 DEF Exports
<1> QED
  BY <1>2, <1>3

\* The goods go out: an export under way has become one made.
LEMMA TakingTurn ==
    ASSUME NEW rq, NEW rr, NEW r \in Requests, NEW d, NEW row, NEW n \in Nat, NEW x \in Nat,
           \A s \in Requests \ {r} : rr[s] = rq[s],
           rq[r].of = d, Takes(rq[r]),
           rr[r].of = d, rr[r].kind = "export", rr[r].pc = "save",
           Exports(rq, row, n, d) <= x
    PROVE  Exports(rr, row, n + 1, d) <= x
<1>1. Closes(rr[r]) /\ ~Reopens(rr[r]) /\ ~Takes(rr[r])
  BY DEF Closes, Reopens, Takes, Saves
<1>2. ASSUME \A s \in Requests : rq[s].of = d => ~Reopens(rq[s])
      PROVE  \A s \in Requests : rr[s].of = d => ~Reopens(rr[s])
  BY <1>1, <1>2
<1>3. Shut(rq, row, d) => Shut(rr, row, d)
  BY <1>1, <1>2 DEF Shut
<1>4. Cardinality(Takers(rr, d)) = Cardinality(Takers(rq, d)) - 1
      /\ Cardinality(Takers(rr, d)) \in Nat /\ Cardinality(Takers(rq, d)) \in Nat
  BY <1>1, TakersTurn
<1> QED
  BY <1>3, <1>4 DEF Exports

\* A row is saved over: it waits for its export only if the request reopens it.
LEMMA SavingTurn ==
    ASSUME NEW rq, NEW rr, NEW r \in Requests, NEW d, NEW row, NEW new,
           NEW n \in Nat, NEW x \in Nat,
           \A s \in Requests \ {r} : rr[s] = rq[s],
           rq[r].of = d, ~Reopens(rq[r]) => new.status # "PENDING_EXPORT",
           ~Takes(rr[r]), ~Reopens(rr[r]),
           Exports(rq, row, n, d) <= x
    PROVE  Exports(rr, new, n, d) <= x
<1>1. ASSUME \A s \in Requests : rq[s].of = d => ~Reopens(rq[s])
      PROVE  \A s \in Requests : rr[s].of = d => ~Reopens(rr[s])
  BY <1>1
<1>2. Shut(rq, row, d) => Shut(rr, new, d)
  BY <1>1 DEF Shut
<1>3. Cardinality(Takers(rr, d)) <= Cardinality(Takers(rq, d))
      /\ Cardinality(Takers(rr, d)) \in Nat /\ Cardinality(Takers(rq, d)) \in Nat
  BY TakersTurn
<1> QED
  BY <1>2, <1>3 DEF Exports

\* What the turns of r do to the request and the records of the others.
LEMMA TurnRecords ==
    ASSUME TypeInv, NEW r \in Requests, NEW q, Turn(r, q)
    PROVE  /\ req'[r] = q
           /\ \A s \in Requests \ {r} : req'[s] = req[s]
  BY TurnFacts

LEMMA ExportKept ==
    ASSUME TypeInv, ExportInv, UNCHANGED <<delivery, exported, excuses>>,
           NEW r \in Requests, NEW q, Turn(r, q),
           \/ q = Idle /\ ~Closes(req[r])
           \/ \E pc \in {"retry", "save"} : \E code, seen :
                q = Moved(req[r], pc, code, seen) /\ req[r].kind # "export"
                /\ req[r].pc \in {"call", "retry"}
    PROVE  ExportInv'
<1> SUFFICES ASSUME NEW d \in Deliveries
             PROVE  Exports(req', delivery[d], exported[d], d) <= 1 + excuses[d]
  BY DEF ExportInv
<1>1. req'[r] = q /\ \A s \in Requests \ {r} : req'[s] = req[s]
  BY TurnRecords
<1>2. /\ Takes(q) => Takes(req[r]) /\ q.of = req[r].of
      /\ Reopens(q) => Reopens(req[r]) /\ q.of = req[r].of
      /\ Closes(req[r]) => Closes(q) /\ q.of = req[r].of
  <2>1. CASE q = Idle /\ ~Closes(req[r])
    <3>1. ~Takes(q) /\ ~Reopens(q)
      BY <2>1, IdleTyped DEF Takes, Reopens, Saves
    <3> QED
      BY <2>1, <3>1
  <2>2. CASE \E pc \in {"retry", "save"} : \E code, seen :
                q = Moved(req[r], pc, code, seen) /\ req[r].kind # "export"
                /\ req[r].pc \in {"call", "retry"}
    <3>1. /\ q.kind = req[r].kind /\ q.of = req[r].of /\ q.snap = req[r].snap
          /\ req[r].kind # "export" /\ req[r].pc \in {"call", "retry"}
      BY <2>2, MovedFields DEF TypeInv, TypeOK
    <3> QED
      BY <3>1 DEF Takes, Reopens, Closes, Saves
  <2> QED
    BY <2>1, <2>2
<1>3. exported[d] \in Nat /\ 1 + excuses[d] \in Nat
  BY ExportTyped
<1>4. Exports(req, delivery[d], exported[d], d) <= 1 + excuses[d]
  BY DEF ExportInv
<1> DEFINE rr == req'
<1>5. /\ \A s \in Requests \ {r} : rr[s] = req[s]
      /\ rr[r].of = d /\ Takes(rr[r]) => req[r].of = d /\ Takes(req[r])
      /\ rr[r].of = d /\ Reopens(rr[r]) => req[r].of = d /\ Reopens(req[r])
      /\ req[r].of = d /\ Closes(req[r]) => rr[r].of = d /\ Closes(rr[r])
  BY <1>1, <1>2
<1> HIDE DEF rr
<1>6. Exports(rr, delivery[d], exported[d], d) <= 1 + excuses[d]
  BY <1>3, <1>4, <1>5, QuietTurn
<1> QED
  BY <1>6 DEF rr

LEMMA BeginForm ==
    ASSUME TypeInv, NEW r \in Requests, NEW d \in Deliveries, NEW kind, NEW c, NEW code,
           NEW seen, NEW replaces, Begin(r, d, kind, c, code, seen, replaces)
    PROVE  LET q == [pc |-> IF kind = "hook" THEN "save" ELSE "call", kind |-> kind,
                     carrier |-> c, of |-> d, snap |-> delivery[d], code |-> code,
                     seen |-> seen]
           IN  /\ Turn(r, q) /\ req[r].pc = "idle"
               /\ excuses' = [e \in Deliveries |->
                                IF e = d /\ (Busy(d) \/ replaces) THEN excuses[e] + 1
                                                                  ELSE excuses[e]]
               /\ UNCHANGED <<delivery, parcel, hooks, configured, voucher, exported, late>>
<1>1. excuses' = [excuses EXCEPT ![d] = @ + IF Busy(d) \/ replaces THEN 1 ELSE 0]
      /\ excuses = [e \in Deliveries |-> excuses[e]] /\ excuses[d] + 0 = excuses[d]
  BY DEF Begin, Excuse, TypeInv, TypeOK
<1>2. excuses' = [e \in Deliveries |-> IF e = d /\ (Busy(d) \/ replaces) THEN excuses[e] + 1
                                                                  ELSE excuses[e]]
  BY <1>1
<1> QED
  BY <1>2 DEF Begin, Turn, ghosts

LEMMA ExportBegins ==
    ASSUME TypeInv, ExportInv, NEW r \in Requests, NEW o \in Deliveries,
           NEW kind \in {"push", "cancel", "sync", "hook", "export", "expense"},
           NEW c, NEW code, NEW seen, NEW replaces,
           kind = "export" => ExportAllowed(o),
           Begin(r, o, kind, c, code, seen, replaces)
    PROVE  ExportInv'
<1> DEFINE q == [pc |-> IF kind = "hook" THEN "save" ELSE "call", kind |-> kind,
                 carrier |-> c, of |-> o, snap |-> delivery[o], code |-> code,
                 seen |-> seen]
           rr == req'
<1>1. /\ Turn(r, q) /\ req[r].pc = "idle" /\ UNCHANGED <<delivery, exported>>
      /\ excuses' = [e \in Deliveries |-> IF e = o /\ (Busy(o) \/ replaces) THEN excuses[e] + 1
                                                                       ELSE excuses[e]]
  BY BeginForm
<1>2. q.of = o /\ q.kind = kind /\ q.snap = delivery[o]
  OBVIOUS
<1> HIDE DEF q
<1>3. rr[r] = q /\ \A s \in Requests \ {r} : rr[s] = req[s]
  BY <1>1, TurnRecords
<1> SUFFICES ASSUME NEW d \in Deliveries
             PROVE  Exports(rr, delivery[d], exported[d], d) <= 1 + excuses'[d]
  BY <1>1 DEF ExportInv
<1> HIDE DEF rr
<1>4. exported[d] \in Nat /\ excuses[d] \in Nat /\ 1 + excuses[d] \in Nat
      /\ Exports(req, delivery[d], exported[d], d) <= 1 + excuses[d]
  BY ExportTyped DEF ExportInv
<1>5. ~Takes(req[r]) /\ ~Reopens(req[r]) /\ ~Closes(req[r])
  BY <1>1 DEF Takes, Reopens, Closes, Saves
<1>6. CASE d # o
  <2>1. rr[r].of # d
    BY <1>2, <1>3, <1>6
  <2>2. /\ rr[r].of = d /\ Takes(rr[r]) => req[r].of = d /\ Takes(req[r])
        /\ rr[r].of = d /\ Reopens(rr[r]) => req[r].of = d /\ Reopens(req[r])
        /\ req[r].of = d /\ Closes(req[r]) => rr[r].of = d /\ Closes(rr[r])
    BY <1>5, <2>1
  <2>3. Exports(rr, delivery[d], exported[d], d) <= 1 + excuses[d]
    BY <1>3, <1>4, <2>2, QuietTurn
  <2> QED
    BY <1>1, <1>6, <2>3
<1>7. CASE d = o /\ Busy(o)
  <2>1. Exports(rr, delivery[d], exported[d], d) <= 1 + excuses[d] + 1
    BY <1>3, <1>4, AnyTurn
  <2>2. excuses'[d] = excuses[d] + 1
    BY <1>1, <1>7
  <2> QED
    BY <1>4, <2>1, <2>2
<1>8. CASE d = o /\ ~Busy(o)
  <2>1. \A s \in Requests : req[s].of = d => req[s].pc = "idle"
    BY <1>8 DEF Busy, InFlight
  <2>2. rr[r].of = d /\ rr[r].kind # "none" /\ rr[r].snap = delivery[d]
    BY <1>2, <1>3, <1>8
  <2>3. Takes(rr[r]) => delivery[d].status = "PENDING_EXPORT"
    BY <1>2, <1>3, <1>8 DEF Takes, ExportAllowed
  <2>4. Exports(rr, delivery[d], exported[d], d) <= 1 + excuses[d]
    BY <1>3, <1>4, <2>1, <2>2, <2>3, FirstTurn
  <2>5. excuses'[d] \in {excuses[d], excuses[d] + 1}
    BY <1>1
  <2>6. Exports(rr, delivery[d], exported[d], d) \in Int
    <3>1. Cardinality(Takers(rr, d)) \in Nat
      BY <1>3, TakersTurn
    <3> QED
      BY <1>4, <3>1 DEF Exports
  <2> QED
    BY <1>4, <2>4, <2>5, <2>6
<1> QED
  BY <1>6, <1>7, <1>8

LEMMA ExportSaves ==
    ASSUME TypeInv, ExportInv, NEW r \in Requests, Save(r)
    PROVE  ExportInv'
<1> DEFINE rr == req'
           o == req[r].of
           row == SavedRow(r)
<1>1. /\ req[r].pc = "save" /\ req[r].kind # "expense" /\ UNCHANGED <<exported, excuses>>
      /\ delivery' = [delivery EXCEPT ![o] = row]
      /\ Goto(r, "book") \/ Finish(r)
  BY DEF Save
<1>2. \E q : Turn(r, q) /\ (q = Idle \/ q = Moved(req[r], "book", req[r].code, req[r].seen))
  BY <1>1, TurnForms
<1>3. PICK q : Turn(r, q) /\ ~Takes(q) /\ ~Reopens(q)
  <2>1. Idle.pc = "idle" /\ Moved(req[r], "book", req[r].code, req[r].seen).pc = "book"
    BY IdleTyped, MovedFields DEF TypeInv, TypeOK
  <2>2. PICK q : Turn(r, q) /\ q.pc \in {"idle", "book"}
    BY <1>2, <2>1
  <2> QED
    BY <2>2 DEF Takes, Reopens, Saves
<1>4. /\ rr[r] = q /\ \A s \in Requests \ {r} : rr[s] = req[s]
      /\ ~Takes(rr[r]) /\ ~Reopens(rr[r])
  BY <1>3, TurnRecords
<1>5. \A d \in Deliveries : delivery'[d] = IF d = o THEN row ELSE delivery[d]
  BY <1>1 DEF TypeInv, TypeOK
<1>6. ~Reopens(req[r]) => row.status # "PENDING_EXPORT"
  BY <1>1, SavedStatus DEF Reopens, Saves
<1>7. ~Takes(req[r])
  BY <1>1 DEF Takes
<1> HIDE DEF rr, o, row
<1> SUFFICES ASSUME NEW d \in Deliveries
             PROVE  Exports(rr, delivery'[d], exported[d], d) <= 1 + excuses[d]
  BY <1>1 DEF ExportInv, rr
<1>8. exported[d] \in Nat /\ 1 + excuses[d] \in Nat
      /\ Exports(req, delivery[d], exported[d], d) <= 1 + excuses[d]
  BY ExportTyped DEF ExportInv
<1>9. CASE d = o
  <2>1. req[r].of = d
    BY <1>9 DEF o
  <2>2. Exports(rr, row, exported[d], d) <= 1 + excuses[d]
    BY <1>4, <1>6, <1>8, <2>1, SavingTurn
  <2> QED
    BY <1>5, <1>9, <2>2
<1>10. CASE d # o
  <2>1. req[r].of # d
    BY <1>10 DEF o
  <2>2. Exports(rr, delivery[d], exported[d], d) <= 1 + excuses[d]
    BY <1>4, <1>8, <2>1, QuietTurn
  <2> QED
    BY <1>5, <1>10, <2>2
<1> QED
  BY <1>9, <1>10

LEMMA ExportLeaves ==
    ASSUME TypeInv, ExportInv, NEW r \in Requests, StockLeaves(r)
    PROVE  ExportInv'
<1> DEFINE rr == req'
           o == req[r].of
           q == Moved(req[r], "save", req[r].code, req[r].seen)
<1>1. /\ Turn(r, q) /\ Takes(req[r]) /\ UNCHANGED <<delivery, excuses>>
      /\ exported' = [exported EXCEPT ![o] = @ + 1] /\ req[r].kind = "export"
  BY TurnForms DEF StockLeaves, Calling, Takes
<1>2. q.pc = "save" /\ q.kind = "export" /\ q.of = o
  BY <1>1, MovedFields DEF TypeInv, TypeOK
<1> HIDE DEF q
<1>3. rr[r] = q /\ \A s \in Requests \ {r} : rr[s] = req[s]
  BY <1>1, TurnRecords
<1>4. \A d \in Deliveries : exported'[d] = IF d = o THEN exported[d] + 1 ELSE exported[d]
  BY <1>1 DEF TypeInv, TypeOK
<1> HIDE DEF rr, o
<1> SUFFICES ASSUME NEW d \in Deliveries
             PROVE  Exports(rr, delivery[d], exported'[d], d) <= 1 + excuses[d]
  BY <1>1 DEF ExportInv, rr
<1>5. exported[d] \in Nat /\ 1 + excuses[d] \in Nat
      /\ Exports(req, delivery[d], exported[d], d) <= 1 + excuses[d]
  BY ExportTyped DEF ExportInv
<1>6. CASE d = o
  <2>1. req[r].of = d /\ rr[r].of = d /\ rr[r].kind = "export" /\ rr[r].pc = "save"
    BY <1>2, <1>3, <1>6 DEF o
  <2>2. Exports(rr, delivery[d], exported[d] + 1, d) <= 1 + excuses[d]
    BY <1>1, <1>3, <1>5, <2>1, TakingTurn
  <2> QED
    BY <1>4, <1>6, <2>2
<1>7. CASE d # o
  <2>1. req[r].of # d /\ rr[r].of # d
    BY <1>2, <1>3, <1>7 DEF o
  <2>2. /\ rr[r].of = d /\ Takes(rr[r]) => req[r].of = d /\ Takes(req[r])
        /\ rr[r].of = d /\ Reopens(rr[r]) => req[r].of = d /\ Reopens(req[r])
        /\ req[r].of = d /\ Closes(req[r]) => rr[r].of = d /\ Closes(rr[r])
    BY <2>1
  <2>3. \A s \in Requests \ {r} : rr[s] = req[s]
    BY <1>3
  <2>4. exported[d] \in Nat /\ 1 + excuses[d] \in Nat
    BY <1>5
  <2>5. Exports(req, delivery[d], exported[d], d) <= 1 + excuses[d]
    BY <1>5
  <2>6. Exports(rr, delivery[d], exported[d], d) <= 1 + excuses[d]
    BY <2>2, <2>3, <2>4, <2>5, QuietTurn
  <2> QED
    BY <1>4, <1>7, <2>6
<1> QED
  BY <1>6, <1>7

LEMMA ExportFails ==
    ASSUME TypeInv, ExportInv, NEW r \in Requests, Fail(r)
    PROVE  ExportInv'
<1> DEFINE rr == req'
           o == req[r].of
<1>1. /\ Turn(r, Idle) /\ UNCHANGED <<delivery, exported>>
      /\ excuses' = [excuses EXCEPT ![o] = @ + 1]
  BY TurnForms DEF Fail, Excuse, ghosts
<1>2. rr[r] = Idle /\ \A s \in Requests \ {r} : rr[s] = req[s]
  BY <1>1, TurnRecords
<1>3. \A d \in Deliveries : excuses'[d] = IF d = o THEN excuses[d] + 1 ELSE excuses[d]
  BY <1>1 DEF TypeInv, TypeOK
<1>4. ~Takes(rr[r]) /\ ~Reopens(rr[r])
  BY <1>2, IdleTyped DEF Takes, Reopens, Saves
<1> HIDE DEF rr, o
<1> SUFFICES ASSUME NEW d \in Deliveries
             PROVE  Exports(rr, delivery[d], exported[d], d) <= 1 + excuses'[d]
  BY <1>1 DEF ExportInv, rr
<1>5. exported[d] \in Nat /\ excuses[d] \in Nat /\ 1 + excuses[d] \in Nat
      /\ Exports(req, delivery[d], exported[d], d) <= 1 + excuses[d]
  BY ExportTyped DEF ExportInv
<1>6. CASE d = o
  <2>1. Exports(rr, delivery[d], exported[d], d) <= 1 + excuses[d] + 1
    BY <1>2, <1>5, AnyTurn
  <2>2. excuses'[d] = excuses[d] + 1
    BY <1>3, <1>6
  <2> QED
    BY <1>5, <2>1, <2>2
<1>7. CASE d # o
  <2>1. req[r].of # d
    BY <1>7 DEF o
  <2>2. Exports(rr, delivery[d], exported[d], d) <= 1 + excuses[d]
    BY <1>2, <1>4, <1>5, <2>1, QuietTurn
  <2> QED
    BY <1>3, <1>7, <2>2
<1> QED
  BY <1>6, <1>7

\* Steps that leave rows, exports and excuses as they are.
LEMMA ExportElsewhere ==
    ASSUME TypeInv, ExportInv, NEW r \in Requests,
           \/ SkipCarrier(r) \/ RetryOtherId(r) \/ CarrierAccepts(r) \/ CarrierCancels(r)
           \/ CarrierTracks(r) \/ CarrierRefuses(r)
           \/ BookCost(r) \/ FindVoucher(r) \/ InsertVoucher(r)
    PROVE  ExportInv'
<1>1. UNCHANGED <<delivery, exported, excuses>>
  BY DEF SkipCarrier, RetryOtherId, CarrierAccepts, CarrierCancels, CarrierTracks, CarrierRefuses,
     BookCost, FindVoucher, InsertVoucher, ghosts
<1>2. ~Closes(req[r])
  BY DEF SkipCarrier, RetryOtherId, CarrierAccepts, CarrierCancels, CarrierTracks, CarrierRefuses,
     BookCost, FindVoucher, InsertVoucher, Calling, Closes, Saves
<1>3. CASE SkipCarrier(r) \/ CarrierAccepts(r) \/ CarrierTracks(r)
  <2>1. req[r].kind # "export" /\ req[r].pc \in {"call", "retry"}
    BY <1>3 DEF SkipCarrier, CarrierAccepts, CarrierTracks, Calling
  <2>2. \/ Turn(r, Idle)
        \/ \E code, seen : Turn(r, Moved(req[r], "save", code, seen))
    BY <1>3, TurnForms
  <2> QED
    BY <1>1, <1>2, <2>1, <2>2, ExportKept
<1>4. CASE RetryOtherId(r) \/ CarrierCancels(r) \/ (FindVoucher(r) /\ Goto(r, "save"))
  <2>1. req[r].kind # "export" /\ req[r].pc \in {"call", "retry"}
    BY <1>4 DEF RetryOtherId, CarrierCancels, FindVoucher, Calling
  <2>2. \E pc \in {"retry", "save"} : Turn(r, Moved(req[r], pc, req[r].code, req[r].seen))
    BY <1>4, TurnForms DEF RetryOtherId, CarrierCancels
  <2> QED
    BY <1>1, <2>1, <2>2, ExportKept
<1>5. CASE CarrierRefuses(r) \/ BookCost(r) \/ InsertVoucher(r) \/ (FindVoucher(r) /\ Finish(r))
  <2>1. Turn(r, Idle)
    BY <1>5, TurnForms DEF CarrierRefuses, BookCost, InsertVoucher
  <2> QED
    BY <1>1, <1>2, <2>1, ExportKept
<1> QED
  BY <1>3, <1>4, <1>5 DEF FindVoucher

LEMMA ExportStep == TypeInv /\ ExportInv /\ [Next]_vars => ExportInv'
<1> SUFFICES ASSUME TypeInv, ExportInv, [Next]_vars PROVE ExportInv'
  OBVIOUS
<1>1. ASSUME NEW r \in Requests,
             Push(r) \/ Cancel(r) \/ Sync(r) \/ Hook(r) \/ Export(r) \/ CreateExpense(r)
      PROVE  ExportInv'
  <2>1. CASE Push(r)
    BY <2>1, ExportBegins DEF Push
  <2>2. CASE Cancel(r)
    BY <2>2, ExportBegins DEF Cancel
  <2>3. CASE Sync(r)
    BY <2>3, ExportBegins DEF Sync
  <2>4. CASE Hook(r)
    BY <2>4, ExportBegins DEF Hook
  <2>5. CASE Export(r)
    BY <2>5, ExportBegins DEF Export
  <2>6. CASE CreateExpense(r)
    BY <2>6, ExportBegins DEF CreateExpense
  <2> QED
    BY <1>1, <2>1, <2>2, <2>3, <2>4, <2>5, <2>6
<1>2. CASE CarrierMoves \/ UnknownHook \/ (\E c \in Carriers : Configure(c)) \/ UNCHANGED vars
  <2>1. UNCHANGED <<delivery, exported, excuses, req>>
    BY <1>2 DEF CarrierMoves, UnknownHook, Configure, vars, ghosts
  <2> QED
    BY <2>1 DEF ExportInv, Exports, Takers, Shut
<1> QED
  BY <1>1, <1>2, ExportElsewhere, ExportSaves, ExportLeaves, ExportFails DEF Next

LEMMA ExportAtStart == Init => TypeInv /\ ExportInv
<1> SUFFICES ASSUME Init PROVE ExportInv
  BY TypeAtStart
<1> SUFFICES ASSUME NEW d \in Deliveries
             PROVE  Exports(req, delivery[d], exported[d], d) <= 1 + excuses[d]
  BY DEF ExportInv
<1>1. Takers(req, d) = {}
  BY IdleTyped DEF Init, Takers, Takes
<1>2. exported[d] = 0 /\ excuses[d] = 0 /\ Cardinality(Takers(req, d)) = 0
  BY <1>1, FS_EmptySet DEF Init
<1> QED
  BY <1>2 DEF Exports

\* Whatever rows carriers, pushes and webhooks write back: the goods of a
\* delivery leave the stock at most once, and once more for each overlap of its
\* requests, each request cut short and each parcel replaced.
THEOREM GoodsLeaveStockOnce == Spec => []GoodsLeaveOnce
<1>1. TypeInv /\ ExportInv => GoodsLeaveOnce
  <2> SUFFICES ASSUME TypeInv, ExportInv, NEW d \in Deliveries
               PROVE  exported[d] <= 1 + excuses[d]
    BY DEF GoodsLeaveOnce
  <2>1. Exports(req, delivery[d], exported[d], d) <= 1 + excuses[d]
    BY DEF ExportInv
  <2> QED
    BY <2>1, ExportTyped DEF Exports
<1> QED
  BY <1>1, ExportAtStart, TypeStep, ExportStep, PTL DEF Spec


--------------------------------------------------------------------------------
(* One voucher for the freight *)

Writes(q) == q.kind = "expense" /\ q.pc = "save"
Looks(q) == q.kind = "expense" /\ q.pc \in {"call", "retry"}
Writers(rq, d) == {s \in Requests : rq[s].of = d /\ Writes(rq[s])}
Lookers(rq, d) == {s \in Requests : rq[s].of = d /\ Looks(rq[s])}

\* The vouchers of d that exist, those about to be inserted, and, as long as
\* there is none to be found, those of requests that have yet to look.
Vouchers(rq, n, d) ==
    n + Cardinality(Writers(rq, d)) + (IF n = 0 THEN Cardinality(Lookers(rq, d)) ELSE 0)
VoucherInv ==
    \A d \in Deliveries : Vouchers(req, voucher[d].shipping, d) <= 1 + excuses[d]

LEMMA WritersTurn ==
    ASSUME NEW rq, NEW rr, NEW r \in Requests, NEW d,
           \A s \in Requests \ {r} : rr[s] = rq[s]
    PROVE  LET a == Cardinality(Writers(rq, d))
               b == Cardinality(Writers(rr, d))
               was == rq[r].of = d /\ Writes(rq[r])
               is == rr[r].of = d /\ Writes(rr[r])
           IN  /\ a \in Nat /\ b \in Nat /\ b <= a + 1
               /\ (is => was) => b <= a
               /\ (was /\ ~is) => b = a - 1
<1>1. IsFiniteSet(Writers(rq, d))
  BY CodesApart, FS_Subset DEF Writers
<1>2. Writers(rr, d) \ {r} = Writers(rq, d) \ {r}
  BY DEF Writers
<1>3. /\ r \in Writers(rr, d) <=> rr[r].of = d /\ Writes(rr[r])
      /\ r \in Writers(rq, d) <=> rq[r].of = d /\ Writes(rq[r])
  BY DEF Writers
<1> QED
  BY <1>1, <1>2, <1>3, CountTurn

LEMMA LookersTurn ==
    ASSUME NEW rq, NEW rr, NEW r \in Requests, NEW d,
           \A s \in Requests \ {r} : rr[s] = rq[s]
    PROVE  LET a == Cardinality(Lookers(rq, d))
               b == Cardinality(Lookers(rr, d))
               was == rq[r].of = d /\ Looks(rq[r])
               is == rr[r].of = d /\ Looks(rr[r])
           IN  /\ a \in Nat /\ b \in Nat /\ b <= a + 1
               /\ (is => was) => b <= a
               /\ (was /\ ~is) => b = a - 1
<1>1. IsFiniteSet(Lookers(rq, d))
  BY CodesApart, FS_Subset DEF Lookers
<1>2. Lookers(rr, d) \ {r} = Lookers(rq, d) \ {r}
  BY DEF Lookers
<1>3. /\ r \in Lookers(rr, d) <=> rr[r].of = d /\ Looks(rr[r])
      /\ r \in Lookers(rq, d) <=> rq[r].of = d /\ Looks(rq[r])
  BY DEF Lookers
<1> QED
  BY <1>1, <1>2, <1>3, CountTurn

\* A request moves on and looks for and writes no more than it did; another one
\* is one more to look; one that found nothing writes; one that wrote is done.
LEMMA VouchersTurn ==
    ASSUME NEW rq, NEW rr, NEW r \in Requests, NEW d, NEW n \in Nat, NEW x \in Nat,
           \A s \in Requests \ {r} : rr[s] = rq[s],
           Vouchers(rq, n, d) <= x
    PROVE  LET writer == rq[r].of = d /\ Writes(rq[r])
               looker == rq[r].of = d /\ Looks(rq[r])
               writes == rr[r].of = d /\ Writes(rr[r])
               looks == rr[r].of = d /\ Looks(rr[r])
           IN  /\ (writes => writer) /\ (looks => looker) => Vouchers(rr, n, d) <= x
               /\ ~writes => Vouchers(rr, n, d) <= x + 1
               /\ (n = 0 /\ looker /\ ~looks) => Vouchers(rr, n, d) <= x
               /\ (writer /\ ~writes /\ ~looks) => Vouchers(rr, n + 1, d) <= x
<1> DEFINE a == Cardinality(Writers(rq, d))
           b == Cardinality(Writers(rr, d))
           u == Cardinality(Lookers(rq, d))
           v == Cardinality(Lookers(rr, d))
           writer == rq[r].of = d /\ Writes(rq[r])
           looker == rq[r].of = d /\ Looks(rq[r])
           writes == rr[r].of = d /\ Writes(rr[r])
           looks == rr[r].of = d /\ Looks(rr[r])
<1>1. /\ a \in Nat /\ b \in Nat /\ b <= a + 1
      /\ (writes => writer) => b <= a
      /\ (writer /\ ~writes) => b = a - 1
  BY WritersTurn
<1>2. /\ u \in Nat /\ v \in Nat /\ v <= u + 1
      /\ (looks => looker) => v <= u
      /\ (looker /\ ~looks) => v = u - 1
  BY LookersTurn
<1>3. /\ Vouchers(rq, n, d) = n + a + (IF n = 0 THEN u ELSE 0)
      /\ Vouchers(rr, n, d) = n + b + (IF n = 0 THEN v ELSE 0)
      /\ Vouchers(rr, n + 1, d) = n + 1 + b
  <2>1. n + 1 # 0 /\ \A k : n + 1 + b + (IF n + 1 = 0 THEN k ELSE 0) = n + 1 + b
    BY <1>1
  <2> QED
    BY <2>1 DEF Vouchers
<1> HIDE DEF a, b, u, v, writer, looker, writes, looks
<1>4. /\ (writes => writer) /\ (looks => looker) => Vouchers(rr, n, d) <= x
      /\ ~writes => Vouchers(rr, n, d) <= x + 1
  BY <1>1, <1>2, <1>3
<1>5. /\ (n = 0 /\ looker /\ ~looks) => Vouchers(rr, n, d) <= x
      /\ (writer /\ ~writes /\ ~looks) => Vouchers(rr, n + 1, d) <= x
  BY <1>1, <1>2, <1>3
<1> QED
  BY <1>4, <1>5 DEF writer, looker, writes, looks

\* A request that does not write is at most one more to look.
LEMMA OneMoreVoucher ==
    ASSUME NEW rq, NEW rr, NEW r \in Requests, NEW d, NEW n \in Nat, NEW x \in Nat,
           \A s \in Requests \ {r} : rr[s] = rq[s],
           Vouchers(rq, n, d) <= x, ~Writes(rr[r])
    PROVE  Vouchers(rr, n, d) <= x + 1
  BY VouchersTurn

\* The first request for d, when no other is in flight.
LEMMA FirstVoucher ==
    ASSUME NEW rq, NEW rr, NEW r \in Requests, NEW d, NEW n \in Nat, NEW x \in Nat,
           \A s \in Requests \ {r} : rr[s] = rq[s],
           \A s \in Requests : rq[s].of = d => rq[s].pc = "idle",
           ~Writes(rr[r]), 1 <= x, Vouchers(rq, n, d) <= x
    PROVE  Vouchers(rr, n, d) <= x
<1> DEFINE a == Cardinality(Writers(rq, d))
           b == Cardinality(Writers(rr, d))
           u == Cardinality(Lookers(rq, d))
           v == Cardinality(Lookers(rr, d))
<1>1. Writers(rq, d) = {} /\ Lookers(rq, d) = {}
  BY DEF Writers, Lookers, Writes, Looks
<1>2. a = 0 /\ u = 0
  BY <1>1, FS_EmptySet
<1>3. b \in Nat /\ b <= a
  BY WritersTurn
<1>4. v \in Nat /\ v <= u + 1
  BY LookersTurn
<1>5. /\ Vouchers(rq, n, d) = n + a + (IF n = 0 THEN u ELSE 0)
      /\ Vouchers(rr, n, d) = n + b + (IF n = 0 THEN v ELSE 0)
  BY DEF Vouchers
<1> HIDE DEF a, b, u, v
<1> QED
  BY <1>2, <1>3, <1>4, <1>5

LEMMA VoucherTyped ==
    ASSUME TypeInv, NEW d \in Deliveries
    PROVE  /\ voucher[d].shipping \in Nat /\ excuses[d] \in Nat /\ 1 + excuses[d] \in Nat
           /\ VoucherInv => Vouchers(req, voucher[d].shipping, d) <= 1 + excuses[d]
  BY DEF TypeInv, TypeOK, VoucherInv

LEMMA VoucherBegins ==
    ASSUME TypeInv, VoucherInv, NEW r \in Requests, NEW o \in Deliveries,
           NEW kind \in {"push", "cancel", "sync", "hook", "export", "expense"},
           NEW c, NEW code, NEW seen, NEW replaces,
           Begin(r, o, kind, c, code, seen, replaces)
    PROVE  VoucherInv'
<1> DEFINE q == [pc |-> IF kind = "hook" THEN "save" ELSE "call", kind |-> kind,
                 carrier |-> c, of |-> o, snap |-> delivery[o], code |-> code,
                 seen |-> seen]
           rr == req'
<1>1. /\ Turn(r, q) /\ req[r].pc = "idle" /\ UNCHANGED voucher
      /\ excuses' = [e \in Deliveries |-> IF e = o /\ (Busy(o) \/ replaces) THEN excuses[e] + 1
                                                                       ELSE excuses[e]]
  BY BeginForm
<1>2. q.of = o /\ ~Writes(q)
  BY DEF Writes
<1> HIDE DEF q
<1>3. rr[r] = q /\ \A s \in Requests \ {r} : rr[s] = req[s]
  BY <1>1, TurnRecords
<1> SUFFICES ASSUME NEW d \in Deliveries
             PROVE  Vouchers(rr, voucher[d].shipping, d) <= 1 + excuses'[d]
  BY <1>1 DEF VoucherInv
<1> HIDE DEF rr
<1>4. /\ voucher[d].shipping \in Nat /\ excuses[d] \in Nat /\ 1 + excuses[d] \in Nat
      /\ Vouchers(req, voucher[d].shipping, d) <= 1 + excuses[d]
  BY VoucherTyped
<1>5. \A s \in Requests \ {r} : rr[s] = req[s]
  BY <1>3
<1>6. CASE d # o
  <2>1. /\ rr[r].of = d /\ Writes(rr[r]) => req[r].of = d /\ Writes(req[r])
        /\ rr[r].of = d /\ Looks(rr[r]) => req[r].of = d /\ Looks(req[r])
    BY <1>2, <1>3, <1>6
  <2>2. Vouchers(rr, voucher[d].shipping, d) <= 1 + excuses[d]
    BY <1>4, <1>5, <2>1, VouchersTurn
  <2> QED
    BY <1>1, <1>6, <2>2
<1>7. CASE d = o /\ Busy(o)
  <2>3. ~Writes(rr[r])
    BY <1>2, <1>3
  <2>4. PICK x \in Nat : x = 1 + excuses[d]
    BY <1>4
  <2>5. Vouchers(req, voucher[d].shipping, d) <= x
    BY <1>4, <2>4
  <2>6. Vouchers(rr, voucher[d].shipping, d) <= x + 1
    BY <1>4, <1>5, <2>3, <2>5, OneMoreVoucher
  <2>1. Vouchers(rr, voucher[d].shipping, d) <= 1 + excuses[d] + 1
    BY <2>4, <2>6
  <2>2. excuses'[d] = excuses[d] + 1
    BY <1>1, <1>7
  <2> QED
    BY <1>4, <2>1, <2>2
<1>8. CASE d = o /\ ~Busy(o)
  <2>1. \A s \in Requests : req[s].of = d => req[s].pc = "idle"
    BY <1>8 DEF Busy, InFlight
  <2>2. ~Writes(rr[r]) /\ 1 <= 1 + excuses[d]
    BY <1>2, <1>3, <1>4
  <2>3. Vouchers(rr, voucher[d].shipping, d) <= 1 + excuses[d]
    BY <1>4, <1>5, <2>1, <2>2, FirstVoucher
  <2>4. excuses'[d] \in {excuses[d], excuses[d] + 1}
    BY <1>1
  <2>5. Vouchers(rr, voucher[d].shipping, d) \in Int
    <3>1. Cardinality(Writers(rr, d)) \in Nat
      BY <1>5, WritersTurn
    <3>2. Cardinality(Lookers(rr, d)) \in Nat
      BY <1>5, LookersTurn
    <3> QED
      BY <1>4, <3>1, <3>2 DEF Vouchers
  <2> QED
    BY <1>4, <2>3, <2>4, <2>5
<1> QED
  BY <1>6, <1>7, <1>8

\* The request does not look for a voucher, nor write one, after its step.
LEMMA VoucherKept ==
    ASSUME TypeInv, VoucherInv, NEW r \in Requests, NEW q, Turn(r, q),
           \A d \in Deliveries : voucher'[d].shipping = voucher[d].shipping,
           \A d \in Deliveries : excuses'[d] \in {excuses[d], excuses[d] + 1},
           Writes(q) => Writes(req[r]) /\ q.of = req[r].of,
           Looks(q) => Looks(req[r]) /\ q.of = req[r].of
    PROVE  VoucherInv'
<1> DEFINE rr == req'
<1>1. rr[r] = q /\ \A s \in Requests \ {r} : rr[s] = req[s]
  BY TurnRecords
<1> HIDE DEF rr
<1> SUFFICES ASSUME NEW d \in Deliveries
             PROVE  Vouchers(rr, voucher[d].shipping, d) <= 1 + excuses'[d]
  BY DEF VoucherInv, rr
<1>2. /\ voucher[d].shipping \in Nat /\ excuses[d] \in Nat /\ 1 + excuses[d] \in Nat
      /\ Vouchers(req, voucher[d].shipping, d) <= 1 + excuses[d]
  BY VoucherTyped
<1>3. \A s \in Requests \ {r} : rr[s] = req[s]
  BY <1>1
<1>4. /\ rr[r].of = d /\ Writes(rr[r]) => req[r].of = d /\ Writes(req[r])
      /\ rr[r].of = d /\ Looks(rr[r]) => req[r].of = d /\ Looks(req[r])
  BY <1>1
<1>5. Vouchers(rr, voucher[d].shipping, d) <= 1 + excuses[d]
  BY <1>2, <1>3, <1>4, VouchersTurn
<1>6. Vouchers(rr, voucher[d].shipping, d) \in Int
  <2>1. Cardinality(Writers(rr, d)) \in Nat
    BY <1>3, WritersTurn
  <2>2. Cardinality(Lookers(rr, d)) \in Nat
    BY <1>3, LookersTurn
  <2> QED
    BY <1>2, <2>1, <2>2 DEF Vouchers
<1> QED
  BY <1>2, <1>5, <1>6

LEMMA VoucherFinds ==
    ASSUME TypeInv, VoucherInv, NEW r \in Requests, FindVoucher(r), Goto(r, "save")
    PROVE  VoucherInv'
<1> DEFINE rr == req'
           o == req[r].of
           q == Moved(req[r], "save", req[r].code, req[r].seen)
<1>1. /\ Turn(r, q) /\ Looks(req[r]) /\ UNCHANGED <<voucher, excuses>>
      /\ o \in Deliveries
  BY TurnForms DEF FindVoucher, Calling, Looks, TypeInv, TypedRequest
<1>2. q.pc = "save" /\ q.kind = "expense" /\ q.of = o
  BY <1>1, MovedFields DEF TypeInv, TypeOK, Looks
<1>3. q.pc # "call" /\ q.pc # "retry"
  BY <1>2
<1>4. voucher[o].shipping = 0
  <2>1. ~VoucherFound(o)
    <3>1. VoucherFound(o) => Turn(r, Idle)
      BY TurnForms DEF FindVoucher
    <3>2. Idle # q
      BY <1>2, IdleTyped
    <3>3. Turn(r, Idle) => Idle = q
      BY <1>1, TurnRecords
    <3> QED
      BY <3>1, <3>2, <3>3
  <2> QED
    BY <1>1, <2>1, VoucherTyped DEF VoucherFound
<1> HIDE DEF q
<1>5. rr[r] = q /\ \A s \in Requests \ {r} : rr[s] = req[s]
  BY <1>1, TurnRecords
<1> HIDE DEF rr, o
<1> SUFFICES ASSUME NEW d \in Deliveries
             PROVE  Vouchers(rr, voucher[d].shipping, d) <= 1 + excuses[d]
  BY <1>1 DEF VoucherInv, rr
<1>6. /\ voucher[d].shipping \in Nat /\ excuses[d] \in Nat /\ 1 + excuses[d] \in Nat
      /\ Vouchers(req, voucher[d].shipping, d) <= 1 + excuses[d]
  BY VoucherTyped
<1>7. \A s \in Requests \ {r} : rr[s] = req[s]
  BY <1>5
<1>8. CASE d = o
  <2>1. req[r].of = d /\ Looks(req[r]) /\ ~Looks(rr[r]) /\ voucher[d].shipping = 0
    BY <1>1, <1>3, <1>4, <1>5, <1>8 DEF o, Looks
  <2> QED
    BY <1>6, <1>7, <2>1, VouchersTurn
<1>9. CASE d # o
  <2>1. /\ rr[r].of = d /\ Writes(rr[r]) => req[r].of = d /\ Writes(req[r])
        /\ rr[r].of = d /\ Looks(rr[r]) => req[r].of = d /\ Looks(req[r])
    BY <1>2, <1>5, <1>9
  <2> QED
    BY <1>6, <1>7, <2>1, VouchersTurn
<1> QED
  BY <1>8, <1>9

LEMMA VoucherInserts ==
    ASSUME TypeInv, VoucherInv, NEW r \in Requests, InsertVoucher(r)
    PROVE  VoucherInv'
<1> DEFINE rr == req'
           o == req[r].of
<1>1. /\ Turn(r, Idle) /\ Writes(req[r]) /\ UNCHANGED excuses /\ o \in Deliveries
      /\ voucher' = [voucher EXCEPT ![o].shipping = @ + 1]
  BY TurnForms DEF InsertVoucher, Writes, TypeInv, TypedRequest
<1>2. \A d \in Deliveries : voucher'[d].shipping = IF d = o THEN voucher[d].shipping + 1
                                                            ELSE voucher[d].shipping
  BY <1>1 DEF TypeInv, TypeOK
<1>3. rr[r] = Idle /\ \A s \in Requests \ {r} : rr[s] = req[s]
  BY <1>1, TurnRecords
<1>4. ~Writes(rr[r]) /\ ~Looks(rr[r])
  BY <1>3, IdleTyped DEF Writes, Looks
<1> HIDE DEF rr, o
<1> SUFFICES ASSUME NEW d \in Deliveries
             PROVE  Vouchers(rr, voucher'[d].shipping, d) <= 1 + excuses[d]
  BY <1>1 DEF VoucherInv, rr
<1>5. /\ voucher[d].shipping \in Nat /\ excuses[d] \in Nat /\ 1 + excuses[d] \in Nat
      /\ Vouchers(req, voucher[d].shipping, d) <= 1 + excuses[d]
  BY VoucherTyped
<1>6. \A s \in Requests \ {r} : rr[s] = req[s]
  BY <1>3
<1>7. CASE d = o
  <2>1. req[r].of = d /\ Writes(req[r])
    BY <1>1, <1>7 DEF o
  <2>2. Vouchers(rr, voucher[d].shipping + 1, d) <= 1 + excuses[d]
    BY <1>4, <1>5, <1>6, <2>1, VouchersTurn
  <2> QED
    BY <1>2, <1>7, <2>2
<1>8. CASE d # o
  <2>1. Vouchers(rr, voucher[d].shipping, d) <= 1 + excuses[d]
    BY <1>4, <1>5, <1>6, VouchersTurn
  <2> QED
    BY <1>2, <1>8, <2>1
<1> QED
  BY <1>7, <1>8

\* Every other step of a request.
LEMMA VoucherElsewhere ==
    ASSUME TypeInv, VoucherInv, NEW r \in Requests,
           \/ SkipCarrier(r) \/ RetryOtherId(r) \/ CarrierAccepts(r) \/ CarrierCancels(r)
           \/ CarrierTracks(r) \/ CarrierRefuses(r) \/ Save(r) \/ StockLeaves(r)
           \/ BookCost(r) \/ (FindVoucher(r) /\ Finish(r)) \/ Fail(r)
    PROVE  VoucherInv'
<1>1. \A d \in Deliveries : voucher'[d].shipping = voucher[d].shipping
  <2>1. CASE BookCost(r)
    BY <2>1 DEF TypeInv, TypeOK, BookCost
  <2>2. CASE ~BookCost(r)
    <3>1. UNCHANGED voucher
      BY <2>2 DEF SkipCarrier, RetryOtherId, CarrierAccepts, CarrierCancels,
         CarrierTracks, CarrierRefuses, Save, StockLeaves, FindVoucher, Fail
    <3> QED
      BY <3>1
  <2> QED
    BY <2>1, <2>2
<1>2. \A d \in Deliveries : excuses'[d] \in {excuses[d], excuses[d] + 1}
  <2>1. CASE ~Fail(r)
    <3>1. UNCHANGED excuses
      BY <2>1 DEF SkipCarrier, RetryOtherId, CarrierAccepts, CarrierCancels,
         CarrierTracks, CarrierRefuses, Save, StockLeaves, BookCost, FindVoucher
    <3> QED
      BY <3>1
  <2>2. CASE Fail(r)
    BY <2>2 DEF Fail, Excuse, TypeInv, TypeOK
  <2> QED
    BY <2>1, <2>2
<1>3. ~Writes(Idle) /\ ~Looks(Idle)
  BY IdleTyped DEF Writes, Looks
<1>4. CASE Turn(r, Idle)
  BY <1>1, <1>2, <1>3, <1>4, VoucherKept
<1>5. CASE (\E pc, code, seen : Turn(r, Moved(req[r], pc, code, seen))) /\ req[r].kind # "expense"
  <2>1. PICK pc, code, seen : Turn(r, Moved(req[r], pc, code, seen))
    BY <1>5
  <2> DEFINE q == Moved(req[r], pc, code, seen)
  <2>2. q.kind # "expense"
    BY <1>5, MovedFields DEF TypeInv, TypeOK
  <2>3. ~Writes(q) /\ ~Looks(q)
    BY <2>2 DEF Writes, Looks
  <2>4. Turn(r, q)
    BY <2>1
  <2> HIDE DEF q
  <2> QED
    BY <1>1, <1>2, <2>3, <2>4, VoucherKept
<1>6. CASE SkipCarrier(r) \/ CarrierAccepts(r) \/ CarrierTracks(r)
  <2>1. req[r].kind # "expense"
    BY <1>6 DEF SkipCarrier, CarrierAccepts, CarrierTracks, Calling
  <2> QED
    BY <1>4, <1>5, <1>6, <2>1, TurnForms
<1>7. CASE RetryOtherId(r) \/ CarrierCancels(r) \/ StockLeaves(r)
  <2>1. req[r].kind # "expense"
    BY <1>7 DEF RetryOtherId, CarrierCancels, StockLeaves, Calling
  <2> QED
    BY <1>5, <1>7, <2>1, TurnForms DEF RetryOtherId, CarrierCancels, StockLeaves
<1>8. CASE Save(r)
  <2>1. req[r].kind # "expense" /\ (Goto(r, "book") \/ Finish(r))
    BY <1>8 DEF Save
  <2> QED
    BY <1>4, <1>5, <2>1, TurnForms
<1>9. CASE CarrierRefuses(r) \/ BookCost(r) \/ (FindVoucher(r) /\ Finish(r)) \/ Fail(r)
  BY <1>4, <1>9, TurnForms DEF CarrierRefuses, BookCost, Fail
<1> QED
  BY <1>6, <1>7, <1>8, <1>9

LEMMA VoucherStep == TypeInv /\ VoucherInv /\ [Next]_vars => VoucherInv'
<1> SUFFICES ASSUME TypeInv, VoucherInv, [Next]_vars PROVE VoucherInv'
  OBVIOUS
<1>1. ASSUME NEW r \in Requests,
             Push(r) \/ Cancel(r) \/ Sync(r) \/ Hook(r) \/ Export(r) \/ CreateExpense(r)
      PROVE  VoucherInv'
  <2>1. CASE Push(r)
    BY <2>1, VoucherBegins DEF Push
  <2>2. CASE Cancel(r)
    BY <2>2, VoucherBegins DEF Cancel
  <2>3. CASE Sync(r)
    BY <2>3, VoucherBegins DEF Sync
  <2>4. CASE Hook(r)
    BY <2>4, VoucherBegins DEF Hook
  <2>5. CASE Export(r)
    BY <2>5, VoucherBegins DEF Export
  <2>6. CASE CreateExpense(r)
    BY <2>6, VoucherBegins DEF CreateExpense
  <2> QED
    BY <1>1, <2>1, <2>2, <2>3, <2>4, <2>5, <2>6
<1>2. CASE CarrierMoves \/ UnknownHook \/ (\E c \in Carriers : Configure(c)) \/ UNCHANGED vars
  <2>1. UNCHANGED <<voucher, excuses, req>>
    BY <1>2 DEF CarrierMoves, UnknownHook, Configure, vars, ghosts
  <2> QED
    BY <2>1 DEF VoucherInv, Vouchers, Writers, Lookers
<1>3. ASSUME NEW r \in Requests, FindVoucher(r)
      PROVE  Finish(r) \/ Goto(r, "save")
  BY <1>3 DEF FindVoucher
<1> QED
  BY <1>1, <1>2, <1>3, VoucherElsewhere, VoucherFinds, VoucherInserts DEF Next

LEMMA VoucherAtStart == Init => VoucherInv
<1> SUFFICES ASSUME Init, NEW d \in Deliveries
             PROVE  Vouchers(req, voucher[d].shipping, d) <= 1 + excuses[d]
  BY DEF VoucherInv
<1>1. Writers(req, d) = {} /\ Lookers(req, d) = {}
  BY IdleTyped DEF Init, Writers, Lookers, Writes, Looks
<1>2. /\ voucher[d].shipping = 0 /\ excuses[d] = 0
      /\ Cardinality(Writers(req, d)) = 0 /\ Cardinality(Lookers(req, d)) = 0
  BY <1>1, FS_EmptySet DEF Init
<1> QED
  BY <1>2 DEF Vouchers

\* A delivery's freight is booked in one draft voucher, and in one more for each
\* overlap of its requests, each request cut short and each parcel replaced.
THEOREM FreightBookedOnce == Spec => []OneShippingVoucher
<1>1. TypeInv /\ VoucherInv => OneShippingVoucher
  <2> SUFFICES ASSUME TypeInv, VoucherInv, NEW d \in Deliveries
               PROVE  voucher[d].shipping <= 1 + excuses[d]
    BY DEF OneShippingVoucher
  <2>1. /\ voucher[d].shipping \in Nat /\ 1 + excuses[d] \in Nat
        /\ Vouchers(req, voucher[d].shipping, d) <= 1 + excuses[d]
    BY VoucherTyped
  <2>2. IsFiniteSet(Writers(req, d)) /\ IsFiniteSet(Lookers(req, d))
    BY CodesApart, FS_Subset DEF Writers, Lookers
  <2>3. Cardinality(Writers(req, d)) \in Nat /\ Cardinality(Lookers(req, d)) \in Nat
    BY <2>2, FS_CardinalityType
  <2> QED
    BY <2>1, <2>3 DEF Vouchers
<1> QED
  BY <1>1, TypeAtStart, VoucherAtStart, TypeStep, VoucherStep, PTL DEF Spec

--------------------------------------------------------------------------------
(* No step back *)

\* Code names an order of carrier c, or one that has arrived, in table t.
OrderOf(t, code, c) == code \in DOMAIN t /\ t[code].carrier = c
Arrived(t, code) == code \in DOMAIN t /\ t[code].stage = "delivered"

\* What a row shows of a Lalamove order comes from that order, or from a demo.
Shows(t, row) ==
    /\ row.text \in {"accepted", "delivered"} =>
           row.code = LalamoveDemo \/ OrderOf(t, row.code, "LALAMOVE")
    /\ row.text = "delivered" => row.code = LalamoveDemo \/ Arrived(t, row.code)

\* A stage that a request is about to write, of the order with its code.
Heard(t, q) ==
    /\ OrderOf(t, q.code, q.carrier)
    /\ q.seen = "delivered" => Arrived(t, q.code)
    /\ q.code = q.snap.code

\* What a request has in hand: an export found the delivery waiting for it, a
\* push has a code of its carrier, a webhook speaks of the parcel on the row,
\* and a synchronisation has heard of it after it read the row.
InHand(t, q) ==
    /\ Shows(t, q.snap)
    /\ q.kind = "export" => q.snap.status = "PENDING_EXPORT"
    /\ q.kind = "push" /\ q.pc = "save" =>
           q.code = DemoCode(q.carrier) \/ OrderOf(t, q.code, q.carrier)
    /\ q.kind = "hook" => Heard(t, q)
    /\ q.kind = "sync" => q.code = q.snap.code
    /\ q.kind = "sync" /\ q.pc = "save" =>
           IF q.seen = "demo" THEN q.snap.text = "accepted" => q.code = LalamoveDemo
           ELSE Heard(t, q) /\ (q.snap.text = "delivered" => q.seen = "delivered")

TrackInv ==
    /\ \A d \in Deliveries : Shows(parcel, delivery[d])
    /\ \A r \in Requests : req[r].pc # "idle" => InHand(parcel, req[r])
    /\ \A m \in hooks : m.stage = "delivered" => Arrived(parcel, m.code)
    /\ \A p \in Known : parcel[p].carrier \in configured

\* As long as nothing excuses it, a delivery has one request at a time, and
\* that one has read the row as it is.
AloneInv ==
    \A d \in Deliveries : excuses[d] = 0 =>
        \A s \in InFlight : req[s].of = d =>
            /\ \A o \in InFlight : req[o].of = d => o = s
            /\ Saves(req[s]) => req[s].snap = delivery[d]

\* Carriers only add orders, and an order that has arrived stays so.
Grows(t, u) ==
    /\ \A code, c : OrderOf(t, code, c) => OrderOf(u, code, c)
    /\ \A code : Arrived(t, code) => Arrived(u, code)

LEMMA ShowsLater ==
    ASSUME NEW t, NEW u, Grows(t, u), NEW row, Shows(t, row)
    PROVE  Shows(u, row)
  BY DEF Grows, Shows

LEMMA HeardLater ==
    ASSUME NEW t, NEW u, Grows(t, u), NEW q, Heard(t, q)
    PROVE  Heard(u, q)
  BY DEF Grows, Heard

LEMMA InHandLater ==
    ASSUME NEW t, NEW u, Grows(t, u), NEW q, InHand(t, q)
    PROVE  InHand(u, q)
<1>1. Shows(u, q.snap)
  BY ShowsLater DEF InHand
<1>2. Heard(t, q) => Heard(u, q)
  BY HeardLater
<1>3. q.kind = "push" /\ q.pc = "save" =>
        q.code = DemoCode(q.carrier) \/ OrderOf(u, q.code, q.carrier)
  BY DEF InHand, Grows
<1> QED
  BY <1>1, <1>2, <1>3 DEF InHand

\* The orders as they stand are known to every step but those of a carrier.
LEMMA GrowsSame == ASSUME parcel' = parcel PROVE Grows(parcel, parcel')
  BY DEF Grows

LEMMA GrowsAccepted ==
    ASSUME TypeInv, NEW r \in Requests, CarrierAccepts(r)
    PROVE  Grows(parcel, parcel')
<1>1. /\ Known' = Known \cup {Cardinality(Known) + 1}
      /\ \A p \in Known : parcel'[p] = parcel[p]
  BY NextParcel
<1> QED
  BY <1>1 DEF Grows, OrderOf, Arrived, Known

LEMMA GrowsStage ==
    ASSUME TypeInv, NEW p \in Known, NEW s, parcel[p].stage # "delivered",
           parcel' = [parcel EXCEPT ![p].stage = s]
    PROVE  Grows(parcel, parcel') /\ Known' = Known
<1>1. parcel \in [Known -> Parcel]
  BY DEF TypeInv, TypeOK
<1>2. Known' = Known
  BY <1>1 DEF Known
<1>3. ASSUME NEW k \in Known
      PROVE  /\ parcel'[k].carrier = parcel[k].carrier
             /\ parcel[k].stage = "delivered" => parcel'[k].stage = "delivered"
  <2>1. parcel[k] \in Parcel
    BY <1>1
  <2>2. CASE k = p
    BY <1>1, <2>1, <2>2 DEF Parcel
  <2>3. CASE k # p
    BY <1>1, <2>3
  <2> QED
    BY <2>2, <2>3
<1> QED
  BY <1>2, <1>3 DEF Grows, OrderOf, Arrived, Known

--------------------------------------------------------------------------------
\* A request turns to q, and rows, hooks and keys are as they were or better.
LEMMA TrackTurn ==
    ASSUME TypeInv, TrackInv, NEW r \in Requests, NEW q, Turn(r, q),
           q.pc # "idle" => InHand(parcel', q),
           Grows(parcel, parcel'), hooks' \subseteq hooks, configured' = configured,
           \A d \in Deliveries : Shows(parcel', delivery'[d]),
           \A p \in Known' : parcel'[p].carrier \in configured
    PROVE  TrackInv'
<1>1. req'[r] = q /\ \A s \in Requests \ {r} : req'[s] = req[s]
  BY TurnRecords
<1>2. ASSUME NEW s \in Requests, req'[s].pc # "idle"
      PROVE  InHand(parcel', req'[s])
  <2>1. CASE s = r
    BY <1>1, <1>2, <2>1
  <2>2. CASE s # r
    <3>1. InHand(parcel, req[s]) /\ req'[s] = req[s]
      BY <1>1, <1>2, <2>2 DEF TrackInv
    <3> QED
      BY <3>1, InHandLater
  <2> QED
    BY <2>1, <2>2
<1>3. \A m \in hooks' : m.stage = "delivered" => Arrived(parcel', m.code)
  BY DEF TrackInv, Grows
<1> QED
  BY <1>2, <1>3 DEF TrackInv

\* The carriers and the rows stay as they are.
LEMMA TrackKept ==
    ASSUME TypeInv, TrackInv, NEW r \in Requests, NEW q, Turn(r, q),
           q.pc # "idle" => InHand(parcel, q),
           UNCHANGED <<delivery, parcel, configured>>, hooks' \subseteq hooks
    PROVE  TrackInv'
<1>1. Grows(parcel, parcel')
  BY GrowsSame
<1>2. \A p \in Known' : parcel'[p].carrier \in configured
  BY DEF TrackInv, Known
<1>3. \A d \in Deliveries : Shows(parcel', delivery'[d])
  BY DEF TrackInv
<1>4. q.pc # "idle" => InHand(parcel', q)
  OBVIOUS
<1> QED
  BY <1>1, <1>2, <1>3, <1>4, TrackTurn

LEMMA TrackIdle ==
    ASSUME TypeInv, TrackInv, NEW r \in Requests, Finish(r),
           UNCHANGED <<delivery, parcel, configured>>, hooks' \subseteq hooks
    PROVE  TrackInv'
<1>1. Turn(r, Idle) /\ Idle.pc = "idle"
  BY TurnForms, IdleTyped
<1> QED
  BY <1>1, TrackKept

LEMMA TrackBegins ==
    ASSUME TypeInv, TrackInv, NEW r \in Requests, NEW d \in Deliveries,
           NEW kind, NEW c, NEW code, NEW seen, NEW replaces,
           Begin(r, d, kind, c, code, seen, replaces),
           kind = "export" => ExportAllowed(d),
           kind = "sync" => code = Tracked(d),
           kind = "hook" => /\ code = Tracked(d)
                            /\ OrderOf(parcel, code, c)
                            /\ seen = "delivered" => Arrived(parcel, code)
    PROVE  TrackInv'
<1> DEFINE q == [pc |-> IF kind = "hook" THEN "save" ELSE "call", kind |-> kind,
                 carrier |-> c, of |-> d, snap |-> delivery[d], code |-> code,
                 seen |-> seen]
<1>1. Turn(r, q) /\ UNCHANGED <<delivery, parcel, hooks, configured>>
  BY BeginForm
<1>2. /\ q.pc = "save" => kind = "hook"
      /\ q.kind = kind /\ q.carrier = c /\ q.snap = delivery[d] /\ q.code = code
      /\ q.seen = seen
  OBVIOUS
<1> HIDE DEF q
<1>3. Shows(parcel, delivery[d])
  BY DEF TrackInv
<1>4. InHand(parcel, q)
  BY <1>2, <1>3 DEF InHand, Heard, ExportAllowed, Tracked
<1> QED
  BY <1>1, <1>4, TrackKept

LEMMA TrackBeginsPlain ==
    ASSUME TypeInv, TrackInv, NEW r \in Requests, NEW d \in Deliveries,
           NEW kind \in {"push", "cancel", "expense"},
           NEW c, NEW code, NEW seen, NEW replaces,
           Begin(r, d, kind, c, code, seen, replaces)
    PROVE  TrackInv'
<1>1. kind # "export" /\ kind # "sync" /\ kind # "hook"
  OBVIOUS
<1> QED
  BY <1>1, TrackBegins

LEMMA TrackBeginsHook ==
    ASSUME TypeInv, TrackInv, NEW r \in Requests, NEW d \in Deliveries,
           NEW c, NEW code, NEW seen, NEW replaces,
           Begin(r, d, "hook", c, code, seen, replaces),
           code = Tracked(d), OrderOf(parcel, code, c),
           seen = "delivered" => Arrived(parcel, code)
    PROVE  TrackInv'
<1>1. PICK kind : kind = "hook"
  OBVIOUS
<1>2. Begin(r, d, kind, c, code, seen, replaces)
  BY <1>1
<1>3. kind = "export" => ExportAllowed(d)
  BY <1>1
<1>4. kind = "sync" => code = Tracked(d)
  BY <1>1
<1> QED
  BY <1>2, <1>3, <1>4, TrackBegins

LEMMA TrackBeginsExport ==
    ASSUME TypeInv, TrackInv, NEW r \in Requests, NEW d \in Deliveries,
           NEW c, NEW code, NEW seen, NEW replaces,
           Begin(r, d, "export", c, code, seen, replaces), ExportAllowed(d)
    PROVE  TrackInv'
<1>1. PICK kind : kind = "export"
  OBVIOUS
<1>2. Begin(r, d, kind, c, code, seen, replaces)
  BY <1>1
<1>3. kind # "sync" /\ kind # "hook"
  BY <1>1
<1> QED
  BY <1>2, <1>3, TrackBegins

LEMMA TrackBeginning ==
    ASSUME TypeInv, TrackInv, NEW r \in Requests,
           Push(r) \/ Cancel(r) \/ Sync(r) \/ Hook(r) \/ Export(r) \/ CreateExpense(r)
    PROVE  TrackInv'
<1>1. CASE Push(r)
  <2>1. PICK d \in Deliveries, c \in Carriers, over \in BOOLEAN :
          Begin(r, d, "push", c, NoCode, "none", over)
    <3>1. PICK d \in Deliveries, c \in Carriers, force \in BOOLEAN :
            Begin(r, d, "push", c, NoCode, "none", Supersedes(d, c, force))
      BY <1>1 DEF Push
    <3>2. Supersedes(d, c, force) \in BOOLEAN
      BY DEF Supersedes
    <3> QED
      BY <3>1, <3>2
  <2> QED
    BY <2>1, TrackBeginsPlain
<1>2. CASE Cancel(r)
  <2>1. PICK d \in Deliveries, c \in Carriers :
          Begin(r, d, "cancel", c, Tracked(d), "none", FALSE)
    BY <1>2 DEF Cancel
  <2> QED
    BY <2>1, TrackBeginsPlain
<1>3. CASE Sync(r)
  <2>1. PICK d \in Deliveries, c \in Carriers :
          Begin(r, d, "sync", c, Tracked(d), "none", FALSE)
    BY <1>3 DEF Sync
  <2>2. PICK kind, code : kind = "sync" /\ code = Tracked(d)
    OBVIOUS
  <2>3. Begin(r, d, kind, c, code, "none", FALSE)
    BY <2>1, <2>2
  <2>4. kind # "export" /\ kind # "hook"
    BY <2>2
  <2> QED
    BY <2>2, <2>3, <2>4, TrackBegins
<1>4. CASE Hook(r)
  <2>1. PICK m \in hooks, d \in Deliveries :
          /\ m.code = Tracked(d)
          /\ Begin(r, d, "hook", parcel[m.code].carrier, m.code, m.stage, FALSE)
    BY <1>4 DEF Hook
  <2>2. m.code \in Known
    BY DEF TypeInv, TypeOK
  <2>3. /\ OrderOf(parcel, m.code, parcel[m.code].carrier)
        /\ m.stage = "delivered" => Arrived(parcel, m.code)
    BY <2>2 DEF OrderOf, Known, TrackInv
  <2> QED
    BY <2>1, <2>3, TrackBeginsHook
<1>5. CASE Export(r)
  <2>1. PICK d \in Deliveries :
          ExportAllowed(d) /\ Begin(r, d, "export", "none", NoCode, "none", FALSE)
    BY <1>5 DEF Export
  <2> QED
    BY <2>1, TrackBeginsExport
<1>6. CASE CreateExpense(r)
  BY <1>6, TrackBeginsPlain DEF CreateExpense
<1> QED
  BY <1>1, <1>2, <1>3, <1>4, <1>5, <1>6

\* A synchronisation that asks no carrier: its row has no Lalamove order.
LEMMA TrackSkips ==
    ASSUME TypeInv, TrackInv, NEW r \in Requests, SkipCarrier(r)
    PROVE  TrackInv'
<1>1. /\ req[r].pc # "idle" /\ Demo(r) /\ req[r].kind \in {"push", "cancel", "sync"}
      /\ UNCHANGED <<delivery, parcel, configured, hooks>>
  BY DEF SkipCarrier, Calling
<1>2. InHand(parcel, req[r]) /\ TypedRequest(req[r]) /\ req[r] \in Request
  BY <1>1 DEF TrackInv, TypeInv, TypedRequest
<1>3. CASE Turn(r, Idle)
  BY <1>1, <1>3, IdleTyped, TrackKept
<1>4. CASE /\ Turn(r, Moved(req[r], "save",
                            IF req[r].kind = "push" THEN DemoCode(req[r].carrier)
                            ELSE req[r].code, "demo"))
           /\ req[r].kind = "sync" => req[r].carrier # "GHTK"
  <2> DEFINE code == IF req[r].kind = "push" THEN DemoCode(req[r].carrier) ELSE req[r].code
             q == Moved(req[r], "save", code, "demo")
  <2>1. Turn(r, q)
    BY <1>4
  <2>2. /\ q.pc = "save" /\ q.code = code /\ q.seen = "demo" /\ q.kind = req[r].kind
        /\ q.carrier = req[r].carrier /\ q.snap = req[r].snap
    BY <1>2, MovedFields
  <2> HIDE DEF q
  <2>3. ASSUME q.kind = "sync", q.snap.text = "accepted"
        PROVE  q.code = LalamoveDemo
    <3>1. req[r].kind = "sync" /\ q.code = code
      BY <2>2, <2>3
    <3>2. code = req[r].code
      BY <3>1
    <3>3. req[r].code = req[r].snap.code
      BY <1>2, <3>1 DEF InHand
    <3>4. req[r].carrier \in Carriers
      BY <1>1, <1>2, <3>1 DEF TypedRequest
    <3>5. req[r].carrier = "LALAMOVE"
      BY <1>4, <3>1, <3>4 DEF Carriers
    <3>6. req[r].code = LalamoveDemo \/ OrderOf(parcel, req[r].code, "LALAMOVE")
      BY <1>2, <2>2, <2>3, <3>3 DEF InHand, Shows
    <3>7. CASE OrderOf(parcel, req[r].code, "LALAMOVE")
      <4>1. "LALAMOVE" \in configured
        BY <3>7 DEF OrderOf, TrackInv, Known
      <4> QED
        BY <1>1, <3>1, <3>2, <3>5, <4>1, CodesApart DEF Demo, DemoCode
    <3> QED
      BY <3>1, <3>2, <3>6, <3>7
  <2>4. InHand(parcel, q)
    BY <1>1, <1>2, <2>2, <2>3 DEF InHand
  <2> QED
    BY <1>1, <2>1, <2>4, TrackKept
<1> QED
  BY <1>3, <1>4, TurnForms

LEMMA TrackAccepts ==
    ASSUME TypeInv, TrackInv, NEW r \in Requests, CarrierAccepts(r)
    PROVE  TrackInv'
<1> DEFINE p == Cardinality(Known) + 1
           q == Moved(req[r], "save", p, req[r].seen)
<1>1. /\ Known' = Known \cup {p} /\ p \notin Known
      /\ \A k \in Known : parcel'[k] = parcel[k]
      /\ parcel'[p] = [of |-> req[r].of, carrier |-> req[r].carrier,
                       stage |-> "accepted", partnerId |-> req[r].pc = "call"]
  BY NextParcel
<1>2. Turn(r, q)
  BY TurnForms
<1>3. /\ req[r].pc # "idle" /\ ~Demo(r) /\ req[r].kind = "push"
      /\ UNCHANGED <<delivery, configured, hooks>>
  BY DEF CarrierAccepts, Calling, ghosts
<1>4. InHand(parcel, req[r]) /\ req[r] \in Request
  BY <1>3 DEF TrackInv, TypeInv, TypedRequest
<1>5. Grows(parcel, parcel')
  BY GrowsAccepted
<1>6. /\ q.pc = "save" /\ q.code = p /\ q.kind = "push" /\ q.carrier = req[r].carrier
      /\ q.snap = req[r].snap
  BY <1>3, <1>4, MovedFields
<1> HIDE DEF p, q
<1>7. OrderOf(parcel', p, req[r].carrier)
  BY <1>1 DEF OrderOf, Known
<1>8. Shows(parcel', q.snap)
  BY <1>4, <1>5, <1>6, ShowsLater DEF InHand
<1>9. InHand(parcel', q)
  BY <1>6, <1>7, <1>8 DEF InHand
<1>10. \A k \in Known' : parcel'[k].carrier \in configured
  <2>1. req[r].carrier \in configured
    BY <1>3 DEF Demo
  <2> QED
    BY <1>1, <2>1 DEF TrackInv
<1>11. \A d \in Deliveries : Shows(parcel', delivery'[d])
  BY <1>3, <1>5, ShowsLater DEF TrackInv
<1> QED
  BY <1>2, <1>3, <1>5, <1>9, <1>10, <1>11, TrackTurn

\* What a carrier answers of a parcel that is delivered is that it is.
LEMMA TrackTracks ==
    ASSUME TypeInv, TrackInv, NEW r \in Requests, CarrierTracks(r)
    PROVE  TrackInv'
<1> DEFINE s == parcel[req[r].code].stage
           q == Moved(req[r], "save", req[r].code, s)
<1>1. /\ req[r].pc # "idle" /\ req[r].kind = "sync" /\ Understood(r)
      /\ UNCHANGED <<delivery, parcel, configured, hooks>>
  BY DEF CarrierTracks, Calling, ghosts
<1>2. InHand(parcel, req[r]) /\ req[r] \in Request
  BY <1>1 DEF TrackInv, TypeInv, TypedRequest
<1>3. Turn(r, q)
  BY TurnForms
<1>4. /\ q.pc = "save" /\ q.code = req[r].code /\ q.seen = s /\ q.kind = "sync"
      /\ q.carrier = req[r].carrier /\ q.snap = req[r].snap
  BY <1>1, <1>2, MovedFields
<1> HIDE DEF q
<1>5. OrderOf(parcel, q.code, q.carrier) /\ q.code \in Known
  BY <1>1, <1>4 DEF Understood, OrderOf, Known
<1>6. s = "delivered" => Arrived(parcel, q.code)
  BY <1>4, <1>5 DEF Arrived, Known
<1>7. q.code = q.snap.code
  BY <1>1, <1>2, <1>4 DEF InHand
<1>8. Heard(parcel, q)
  BY <1>4, <1>5, <1>6, <1>7 DEF Heard
<1>9. q.snap.text = "delivered" => s = "delivered"
  <2>1. q.code # LalamoveDemo
    <3>1. q.code \in Nat
      BY <1>5 DEF TypeInv, TypeOK, Parcels
    <3> QED
      BY <3>1, CodesApart
  <2>2. q.snap.text = "delivered" => Arrived(parcel, q.code)
    BY <1>2, <1>4, <1>7, <2>1 DEF InHand, Shows
  <2> QED
    BY <1>4, <2>2 DEF Arrived
<1>10. s # "demo"
  BY <1>1 DEF Understood, TypeInv, TypeOK, Parcel, Stages
<1>11. InHand(parcel, q)
  BY <1>2, <1>4, <1>7, <1>8, <1>9, <1>10 DEF InHand
<1> QED
  BY <1>1, <1>3, <1>11, TrackKept

\* What handlers save over the row they have read shows what the carriers know.
LEMMA ShowsSaved ==
    ASSUME TypeInv, TrackInv, NEW r \in Requests, req[r].pc = "save", req[r].kind # "expense"
    PROVE  Shows(parcel, SavedRow(r))
<1> DEFINE q == req[r]
           row == q.snap
<1>1. /\ InHand(parcel, q) /\ q \in Request
      /\ q.kind \in {"push", "cancel", "sync", "hook", "export"}
  BY DEF TrackInv, TypeInv, TypedRequest, Request
<1>2. row \in Delivery /\ DOMAIN row = {"carrier", "code", "statusId", "text", "status", "priced"}
  BY <1>1 DEF Request, Delivery
<1>3. q.kind = "export" => SavedRow(r) = [row EXCEPT !.status = "SHIPPED"]
  BY DEF SavedRow
<1>4. /\ q.kind = "push" => SavedRow(r) = Pushed(row, q.carrier, q.code)
      /\ q.kind = "cancel" => SavedRow(r) = Cancelled(row, q.carrier)
      /\ q.kind = "hook" => SavedRow(r) = Reported(row, q.carrier, q.seen)
      /\ q.kind = "sync" => SavedRow(r) = IF q.seen = "demo" THEN DemoSynced(row)
                                          ELSE Reported(row, q.carrier, q.seen)
  BY DEF SavedRow
<1>5. q.kind \in {"push", "cancel", "sync", "hook"} => q.carrier \in Carriers
  BY DEF TypeInv, TypedRequest
<1>6. q.pc = "save"
  OBVIOUS
<1> HIDE DEF q, row
<1>7. Shows(parcel, row)
  BY <1>1 DEF InHand, row
<1>8. CASE q.kind = "export"
  <2>1. SavedRow(r).text = row.text /\ SavedRow(r).code = row.code
    BY <1>2, <1>3, <1>8
  <2> QED
    BY <1>7, <2>1 DEF Shows
<1>9. CASE q.kind = "push"
  <2>1. SavedRow(r).code = q.code
        /\ SavedRow(r).text = IF q.carrier = "GHTK" THEN "wording" ELSE "accepted"
    BY <1>2, <1>4, <1>9 DEF Pushed
  <2>2. q.carrier = "GHTK" \/ q.carrier = "LALAMOVE"
    BY <1>5, <1>9 DEF Carriers
  <2>3. q.code = DemoCode(q.carrier) \/ OrderOf(parcel, q.code, q.carrier)
    BY <1>1, <1>6, <1>9 DEF InHand
  <2> QED
    BY <2>1, <2>2, <2>3, CodesApart DEF Shows
<1>10. CASE q.kind = "cancel"
  <2>1. SavedRow(r).text \in {"wording", "cancelled"}
    BY <1>2, <1>4, <1>10 DEF Cancelled
  <2> QED
    BY <2>1 DEF Shows
<1>11. ASSUME Heard(parcel, q), q.carrier \in Carriers,
              SavedRow(r) = Reported(row, q.carrier, q.seen)
       PROVE  Shows(parcel, SavedRow(r))
  <2>1. SavedRow(r).code = q.code
    BY <1>2, <1>11 DEF Reported, Heard, row
  <2>2. SavedRow(r).text = IF q.carrier = "GHTK" THEN "wording" ELSE q.seen
    BY <1>2, <1>11 DEF Reported
  <2>3. q.carrier = "GHTK" \/ q.carrier = "LALAMOVE"
    BY <1>11 DEF Carriers
  <2> QED
    BY <1>11, <2>1, <2>2, <2>3 DEF Shows, Heard
<1>12. CASE q.kind = "hook"
  BY <1>1, <1>4, <1>5, <1>11, <1>12 DEF InHand
<1>13. CASE q.kind = "sync" /\ q.seen # "demo"
  <2>1. Heard(parcel, q)
    BY <1>1, <1>6, <1>13 DEF InHand
  <2> QED
    BY <1>4, <1>5, <1>11, <1>13, <2>1
<1>14. CASE q.kind = "sync" /\ q.seen = "demo"
  <2>1. /\ q.code = row.code
        /\ row.text = "accepted" => row.code = LalamoveDemo
    BY <1>1, <1>6, <1>14 DEF InHand, row
  <2>2. /\ SavedRow(r).code = row.code
        /\ SavedRow(r).text = IF row.text = "accepted" THEN "delivered" ELSE row.text
    BY <1>2, <1>4, <1>14 DEF DemoSynced
  <2> QED
    BY <1>7, <2>1, <2>2 DEF Shows
<1> QED
  BY <1>1, <1>8, <1>9, <1>10, <1>12, <1>13, <1>14

\* A request goes on to another statement.
LEMMA HandMoved ==
    ASSUME NEW t, NEW q \in Request, InHand(t, q), NEW pc, q.kind \notin {"sync", "hook"},
           q.kind = "push" => pc # "save"
    PROVE  InHand(t, Moved(q, pc, q.code, q.seen))
<1>1. PICK m : m = Moved(q, pc, q.code, q.seen)
  OBVIOUS
<1>2. /\ m.pc = pc /\ m.kind = q.kind /\ m.snap = q.snap
  BY <1>1, MovedFields
<1>3. InHand(t, m)
  BY <1>2 DEF InHand
<1> QED
  BY <1>1, <1>3

LEMMA TrackSaves ==
    ASSUME TypeInv, TrackInv, NEW r \in Requests, Save(r)
    PROVE  TrackInv'
<1>1. /\ req[r].pc = "save" /\ req[r].kind # "expense"
      /\ delivery' = [delivery EXCEPT ![req[r].of] = SavedRow(r)]
      /\ IF req[r].kind = "export" /\ Journal THEN Goto(r, "book") ELSE Finish(r)
      /\ hooks' \subseteq hooks /\ UNCHANGED <<parcel, configured>>
  BY DEF Save
<1>2. PICK row : row = SavedRow(r)
  OBVIOUS
<1>3. Shows(parcel, row)
  BY <1>1, <1>2, ShowsSaved
<1>4. \A d \in Deliveries : delivery'[d] = IF d = req[r].of THEN row ELSE delivery[d]
  BY <1>1, <1>2 DEF TypeInv, TypeOK
<1>5. \A d \in Deliveries : Shows(parcel', delivery'[d])
  BY <1>1, <1>3, <1>4 DEF TrackInv
<1>6. InHand(parcel, req[r]) /\ req[r] \in Request
  BY <1>1 DEF TrackInv, TypeInv, TypedRequest
<1>7. PICK q : Turn(r, q) /\ (q.pc # "idle" => InHand(parcel', q))
  <2>1. CASE Finish(r)
    BY <2>1, TurnForms, IdleTyped
  <2>2. CASE req[r].kind = "export" /\ Goto(r, "book")
    <3>1. PICK q : q = Moved(req[r], "book", req[r].code, req[r].seen)
      OBVIOUS
    <3>2. Turn(r, q)
      BY <2>2, <3>1, TurnForms
    <3>3. InHand(parcel, q)
      BY <1>6, <2>2, <3>1, HandMoved
    <3>4. InHand(parcel', q)
      BY <1>1, <3>3
    <3> QED
      BY <3>2, <3>4
  <2> QED
    BY <1>1, <2>1, <2>2
<1>8. Grows(parcel, parcel')
  BY <1>1, GrowsSame
<1>9. \A p \in Known' : parcel'[p].carrier \in configured
  BY <1>1 DEF TrackInv, Known
<1> QED
  BY <1>1, <1>5, <1>7, <1>8, <1>9, TrackTurn

LEMMA TrackGoes ==
    ASSUME TypeInv, TrackInv, NEW r \in Requests, NEW pc, Goto(r, pc), req[r].pc # "idle",
           req[r].kind \notin {"sync", "hook"}, req[r].kind = "push" => pc # "save",
           Grows(parcel, parcel'), UNCHANGED <<delivery, configured, hooks>>,
           \A p \in Known' : parcel'[p].carrier \in configured
    PROVE  TrackInv'
<1>1. InHand(parcel, req[r]) /\ req[r] \in Request
  BY DEF TrackInv, TypeInv, TypedRequest
<1>2. PICK q : q = Moved(req[r], pc, req[r].code, req[r].seen)
  OBVIOUS
<1>3. Turn(r, q)
  BY <1>2, TurnForms
<1>4. InHand(parcel', req[r])
  BY <1>1, InHandLater
<1>5. InHand(parcel', q)
  <2>1. PICK t : t = parcel'
    OBVIOUS
  <2>2. InHand(t, q)
    BY <1>1, <1>2, <1>4, <2>1, HandMoved
  <2> QED
    BY <2>1, <2>2
<1>6. \A d \in Deliveries : Shows(parcel', delivery'[d])
  BY ShowsLater DEF TrackInv
<1> QED
  BY <1>3, <1>5, <1>6, TrackTurn

LEMMA TrackHandlers ==
    ASSUME TypeInv, TrackInv, NEW r \in Requests,
           \/ RetryOtherId(r) \/ CarrierCancels(r) \/ CarrierRefuses(r)
           \/ StockLeaves(r) \/ BookCost(r) \/ FindVoucher(r) \/ InsertVoucher(r) \/ Fail(r)
    PROVE  TrackInv'
<1>1. ASSUME parcel' = parcel
      PROVE  Grows(parcel, parcel') /\ \A p \in Known' : parcel'[p].carrier \in configured
  BY <1>1, GrowsSame DEF TrackInv, Known
<1>2. CASE RetryOtherId(r)
  BY <1>1, <1>2, TrackGoes DEF RetryOtherId, Calling
<1>3. CASE CarrierCancels(r)
  <2>1. PICK p : p = req[r].code
    OBVIOUS
  <2>2. /\ p \in Known /\ parcel[p].stage = "accepted"
        /\ parcel' = [parcel EXCEPT ![p].stage = "cancelled"]
    BY <1>3, <2>1 DEF CarrierCancels, Understood
  <2>3. Grows(parcel, parcel') /\ Known' = Known
    BY <2>2, GrowsStage
  <2>4. \A k \in Known' : parcel'[k].carrier \in configured
    <3>1. \A k \in Known : OrderOf(parcel, k, parcel[k].carrier)
      BY DEF OrderOf, Known
    <3>2. \A k \in Known : OrderOf(parcel', k, parcel[k].carrier)
      BY <2>3, <3>1 DEF Grows
    <3> QED
      BY <2>3, <3>2 DEF OrderOf, TrackInv
  <2> QED
    BY <1>3, <2>3, <2>4, TrackGoes DEF CarrierCancels, Calling
<1>4. CASE StockLeaves(r)
  BY <1>1, <1>4, TrackGoes DEF StockLeaves, Calling
<1>5. CASE FindVoucher(r)
  <2>1. /\ req[r].kind = "expense" /\ req[r].pc # "idle"
        /\ Goto(r, "save") \/ Finish(r)
        /\ UNCHANGED <<delivery, parcel, hooks, configured>>
    BY <1>5 DEF FindVoucher, Calling
  <2>2. CASE Goto(r, "save")
    BY <1>1, <2>1, <2>2, TrackGoes
  <2> QED
    BY <2>1, <2>2, TrackIdle
<1>6. CASE CarrierRefuses(r) \/ BookCost(r) \/ InsertVoucher(r) \/ Fail(r)
  BY <1>6, TrackIdle DEF CarrierRefuses, BookCost, InsertVoucher, Fail
<1> QED
  BY <1>2, <1>3, <1>4, <1>5, <1>6

LEMMA TrackOutside ==
    ASSUME TypeInv, TrackInv,
           CarrierMoves \/ UnknownHook \/ (\E c \in Carriers : Configure(c)) \/ UNCHANGED vars
    PROVE  TrackInv'
<1>1. UNCHANGED <<delivery, req>>
  BY DEF CarrierMoves, UnknownHook, Configure, vars
<1>2. ASSUME Grows(parcel, parcel'),
             \A m \in hooks' : m.stage = "delivered" => Arrived(parcel', m.code),
             \A p \in Known' : parcel'[p].carrier \in configured'
      PROVE  TrackInv'
  <2>1. \A d \in Deliveries : Shows(parcel', delivery'[d])
    BY <1>1, <1>2, ShowsLater DEF TrackInv
  <2>2. \A r \in Requests : req'[r].pc # "idle" => InHand(parcel', req'[r])
    BY <1>1, <1>2, InHandLater DEF TrackInv
  <2> QED
    BY <1>2, <2>1, <2>2 DEF TrackInv
<1>3. CASE CarrierMoves
  <2>1. PICK p \in Known, s \in Stages \ {"accepted"} :
          /\ parcel[p].stage \in Live
          /\ parcel' = [parcel EXCEPT ![p].stage = s]
          /\ hooks' = hooks \cup {[code |-> p, stage |-> s]}
          /\ configured' = configured
    BY <1>3 DEF CarrierMoves
  <2>2. Grows(parcel, parcel') /\ Known' = Known
    BY <2>1, GrowsStage DEF Live
  <2>3. parcel'[p].stage = s
    <3>1. parcel[p] \in Parcel /\ DOMAIN parcel = Known
      BY DEF TypeInv, TypeOK, Known
    <3> QED
      BY <2>1, <3>1 DEF Parcel
  <2>4. s = "delivered" => Arrived(parcel', p)
    BY <2>2, <2>3 DEF Arrived, Known
  <2>5. ASSUME NEW m \in hooks', m.stage = "delivered"
        PROVE  Arrived(parcel', m.code)
    <3>1. CASE m \in hooks
      BY <2>2, <2>5, <3>1 DEF TrackInv, Grows
    <3>2. CASE m = [code |-> p, stage |-> s]
      <4>1. m.code = p /\ m.stage = s
        BY <3>2
      <4> QED
        BY <2>4, <2>5, <4>1
    <3> QED
      BY <2>1, <3>1, <3>2
  <2>6. \A k \in Known' : parcel'[k].carrier \in configured'
    <3>1. \A k \in Known : OrderOf(parcel, k, parcel[k].carrier)
      BY DEF OrderOf, Known
    <3>2. \A k \in Known : OrderOf(parcel', k, parcel[k].carrier)
      BY <2>2, <3>1 DEF Grows
    <3> QED
      BY <2>1, <2>2, <3>2 DEF OrderOf, TrackInv
  <2> QED
    BY <1>2, <2>2, <2>5, <2>6
<1>4. CASE UnknownHook \/ (\E c \in Carriers : Configure(c)) \/ UNCHANGED vars
  <2>1. /\ parcel' = parcel /\ hooks' \subseteq hooks /\ configured \subseteq configured'
    BY <1>4 DEF UnknownHook, Configure, vars
  <2>2. \A p \in Known' : parcel'[p].carrier \in configured'
    BY <2>1 DEF TrackInv, Known
  <2>3. \A m \in hooks' : m.stage = "delivered" => Arrived(parcel', m.code)
    BY <2>1 DEF TrackInv
  <2> QED
    BY <1>2, <2>1, <2>2, <2>3, GrowsSame
<1> QED
  BY <1>3, <1>4

LEMMA TrackStep == TypeInv /\ TrackInv /\ [Next]_vars => TrackInv'
<1> SUFFICES ASSUME TypeInv, TrackInv, [Next]_vars PROVE TrackInv'
  OBVIOUS
<1> QED
  BY TrackBeginning, TrackSkips, TrackAccepts, TrackTracks, TrackSaves, TrackHandlers,
     TrackOutside DEF Next

LEMMA TrackAtStart == Init => TrackInv
<1> SUFFICES ASSUME Init PROVE TrackInv
  OBVIOUS
<1>1. \A d \in Deliveries : Shows(parcel, delivery[d])
  BY DEF Init, Shows, NewDelivery
<1>2. \A r \in Requests : req[r].pc = "idle"
  BY IdleTyped DEF Init
<1>3. hooks = {} /\ Known = {}
  BY DEF Init, Known
<1> QED
  BY <1>1, <1>2, <1>3 DEF TrackInv

--------------------------------------------------------------------------------
\* A request in flight turns to q, ends or keeps what it has read, and once it
\* has saved it saves no more.
LEMMA AloneTurn ==
    ASSUME TypeInv, AloneInv, NEW r \in Requests, NEW q, Turn(r, q), req[r].pc # "idle",
           \/ q.pc = "idle"
           \/ /\ q.of = req[r].of /\ q.snap = req[r].snap
              /\ Saves(q) => Saves(req[r]) /\ delivery' = delivery,
           \A d \in Deliveries : d # req[r].of => delivery'[d] = delivery[d],
           \A d \in Deliveries : excuses'[d] = 0 => excuses[d] = 0
    PROVE  AloneInv'
<1>1. req'[r] = q /\ \A s \in Requests \ {r} : req'[s] = req[s]
  BY TurnRecords
<1>2. r \in InFlight
  BY DEF InFlight
<1>3. \A s \in InFlight' : s \in InFlight /\ req'[s].of = req[s].of
  BY <1>1, <1>2 DEF InFlight
<1> SUFFICES ASSUME NEW d \in Deliveries, excuses'[d] = 0,
                    NEW s \in InFlight', req'[s].of = d
             PROVE  /\ \A o \in InFlight' : req'[o].of = d => o = s
                    /\ Saves(req'[s]) => req'[s].snap = delivery'[d]
  BY DEF AloneInv
<1>4. s \in InFlight /\ req[s].of = d /\ excuses[d] = 0
  BY <1>3
<1>5. /\ \A o \in InFlight : req[o].of = d => o = s
      /\ Saves(req[s]) => req[s].snap = delivery[d]
  BY <1>4 DEF AloneInv
<1>6. \A o \in InFlight' : req'[o].of = d => o = s
  BY <1>3, <1>5
<1>7. CASE s = r
  <2>1. q.pc # "idle"
    BY <1>1, <1>7 DEF InFlight
  <2> QED
    BY <1>1, <1>5, <1>6, <1>7, <2>1
<1>8. CASE s # r
  <2>1. req[r].of # d
    BY <1>2, <1>5, <1>8
  <2>2. req'[s] = req[s] /\ delivery'[d] = delivery[d]
    BY <1>1, <1>8, <2>1 DEF InFlight
  <2> QED
    BY <1>5, <1>6, <2>2
<1> QED
  BY <1>7, <1>8

LEMMA AloneBegins ==
    ASSUME TypeInv, AloneInv, NEW r \in Requests, NEW o \in Deliveries,
           NEW kind, NEW c, NEW code, NEW seen, NEW replaces,
           Begin(r, o, kind, c, code, seen, replaces)
    PROVE  AloneInv'
<1> DEFINE q == [pc |-> IF kind = "hook" THEN "save" ELSE "call", kind |-> kind,
                 carrier |-> c, of |-> o, snap |-> delivery[o], code |-> code,
                 seen |-> seen]
<1>1. /\ Turn(r, q) /\ req[r].pc = "idle" /\ delivery' = delivery
      /\ excuses' = [e \in Deliveries |-> IF e = o /\ (Busy(o) \/ replaces) THEN excuses[e] + 1
                                                                       ELSE excuses[e]]
  BY BeginForm
<1>2. q.of = o /\ q.snap = delivery[o]
  OBVIOUS
<1> HIDE DEF q
<1>3. req'[r] = q /\ \A s \in Requests \ {r} : req'[s] = req[s]
  BY <1>1, TurnRecords
<1> SUFFICES ASSUME NEW d \in Deliveries, excuses'[d] = 0,
                    NEW s \in InFlight', req'[s].of = d
             PROVE  /\ \A k \in InFlight' : req'[k].of = d => k = s
                    /\ Saves(req'[s]) => req'[s].snap = delivery'[d]
  BY DEF AloneInv
<1>4. \A k \in InFlight' : k # r => k \in InFlight /\ req'[k] = req[k]
  BY <1>3 DEF InFlight
<1>5. excuses[d] \in Nat
  BY DEF TypeInv, TypeOK
<1>6. CASE d = o
  <2>1. ~Busy(o)
    BY <1>1, <1>5, <1>6
  <2>2. \A k \in InFlight : req[k].of # d
    BY <1>6, <2>1 DEF Busy
  <2> QED
    BY <1>1, <1>2, <1>3, <1>4, <1>6, <2>2
<1>7. CASE d # o
  <2>1. excuses[d] = 0 /\ s # r
    BY <1>1, <1>2, <1>3, <1>7
  <2>2. s \in InFlight /\ req'[s] = req[s] /\ req[s].of = d
    BY <1>4, <2>1
  <2>3. /\ \A k \in InFlight : req[k].of = d => k = s
        /\ Saves(req[s]) => req[s].snap = delivery[d]
    BY <2>1, <2>2 DEF AloneInv
  <2>4. \A k \in InFlight' : req'[k].of = d => k # r
    BY <1>2, <1>3, <1>7
  <2> QED
    BY <1>1, <1>4, <2>2, <2>3, <2>4
<1> QED
  BY <1>6, <1>7

\* The steps of a request that do not save the row.
LEMMA AloneMoves ==
    ASSUME TypeInv, AloneInv, NEW r \in Requests,
           \/ SkipCarrier(r) \/ RetryOtherId(r) \/ CarrierAccepts(r) \/ CarrierCancels(r)
           \/ CarrierTracks(r) \/ CarrierRefuses(r) \/ StockLeaves(r)
           \/ BookCost(r) \/ FindVoucher(r) \/ InsertVoucher(r)
    PROVE  AloneInv'
<1>1. UNCHANGED <<delivery, excuses>> /\ req[r].pc # "idle"
  BY DEF SkipCarrier, RetryOtherId, CarrierAccepts, CarrierCancels, CarrierTracks, CarrierRefuses,
     StockLeaves, BookCost, FindVoucher, InsertVoucher, ghosts, Calling
<1>2. req[r] \in Request /\ Idle.pc = "idle"
  BY IdleTyped DEF TypeInv, TypeOK
<1>3. ASSUME NEW pc, NEW code, NEW seen, req[r].pc \in {"call", "retry"},
             Turn(r, Moved(req[r], pc, code, seen))
      PROVE  AloneInv'
  <2>1. PICK q : q = Moved(req[r], pc, code, seen)
    OBVIOUS
  <2>2. q.of = req[r].of /\ q.snap = req[r].snap /\ q.kind = req[r].kind
    BY <1>2, <2>1, MovedFields
  <2>3. Saves(q) => Saves(req[r]) /\ delivery' = delivery
    BY <1>1, <1>3, <2>2 DEF Saves
  <2>4. Turn(r, q)
    BY <1>3, <2>1
  <2>5. /\ \A d \in Deliveries : d # req[r].of => delivery'[d] = delivery[d]
        /\ \A d \in Deliveries : excuses'[d] = 0 => excuses[d] = 0
    BY <1>1
  <2> QED
    BY <1>1, <2>2, <2>3, <2>4, <2>5, AloneTurn
<1>4. CASE Turn(r, Idle)
  <2>1. /\ \A d \in Deliveries : d # req[r].of => delivery'[d] = delivery[d]
        /\ \A d \in Deliveries : excuses'[d] = 0 => excuses[d] = 0
    BY <1>1
  <2> QED
    BY <1>1, <1>2, <1>4, <2>1, AloneTurn
<1>5. CASE SkipCarrier(r) \/ CarrierAccepts(r) \/ CarrierTracks(r)
  <2>1. req[r].pc \in {"call", "retry"}
    BY <1>5 DEF SkipCarrier, CarrierAccepts, CarrierTracks, Calling
  <2>2. \/ Turn(r, Idle)
        \/ \E code, seen : Turn(r, Moved(req[r], "save", code, seen))
    BY <1>5, TurnForms
  <2> QED
    BY <1>3, <1>4, <2>1, <2>2
<1>6. CASE RetryOtherId(r) \/ CarrierCancels(r) \/ StockLeaves(r) \/ (FindVoucher(r) /\ Goto(r, "save"))
  <2>1. req[r].pc \in {"call", "retry"}
    BY <1>6 DEF RetryOtherId, CarrierCancels, StockLeaves, FindVoucher, Calling
  <2>2. \E pc \in {"retry", "save"} : Turn(r, Moved(req[r], pc, req[r].code, req[r].seen))
    BY <1>6, TurnForms DEF RetryOtherId, CarrierCancels, StockLeaves
  <2> QED
    BY <1>3, <2>1, <2>2
<1>7. CASE CarrierRefuses(r) \/ BookCost(r) \/ InsertVoucher(r) \/ (FindVoucher(r) /\ Finish(r))
  <2>1. Turn(r, Idle)
    BY <1>7, TurnForms DEF CarrierRefuses, BookCost, InsertVoucher
  <2> QED
    BY <1>4, <2>1
<1> QED
  BY <1>5, <1>6, <1>7 DEF FindVoucher

LEMMA AloneEnds ==
    ASSUME TypeInv, AloneInv, NEW r \in Requests, Save(r) \/ Fail(r)
    PROVE  AloneInv'
<1>1. req[r] \in Request /\ Idle.pc = "idle" /\ req[r].pc # "idle"
  BY IdleTyped DEF TypeInv, TypeOK, Save, Fail
<1>2. \A d \in Deliveries : d # req[r].of => delivery'[d] = delivery[d]
  <2>1. CASE Save(r)
    BY <2>1 DEF Save, TypeInv, TypeOK
  <2>2. CASE Fail(r)
    BY <2>2 DEF Fail
  <2> QED
    BY <2>1, <2>2
<1>3. \A d \in Deliveries : excuses'[d] = 0 => excuses[d] = 0
  <2>1. CASE Save(r)
    BY <2>1 DEF Save
  <2>2. CASE Fail(r)
    <3>1. excuses' = [excuses EXCEPT ![req[r].of] = @ + 1]
      BY <2>2 DEF Fail, Excuse
    <3>2. \A d \in Deliveries :
             excuses'[d] = IF d = req[r].of THEN excuses[d] + 1 ELSE excuses[d]
      BY <3>1 DEF TypeInv, TypeOK
    <3>3. \A d \in Deliveries : excuses[d] \in Nat
      BY DEF TypeInv, TypeOK
    <3>4. \A n \in Nat : n + 1 # 0
      OBVIOUS
    <3> QED
      BY <3>2, <3>3, <3>4
  <2> QED
    BY <2>1, <2>2
<1>4. CASE Turn(r, Idle)
  BY <1>1, <1>2, <1>3, <1>4, AloneTurn
<1>5. CASE Goto(r, "book")
  <2>1. PICK q : q = Moved(req[r], "book", req[r].code, req[r].seen)
    OBVIOUS
  <2>2. q.of = req[r].of /\ q.snap = req[r].snap /\ q.pc = "book"
    BY <1>1, <2>1, MovedFields
  <2>3. Turn(r, q) /\ ~Saves(q)
    BY <1>5, <2>1, <2>2, TurnForms DEF Saves
  <2> QED
    BY <1>1, <1>2, <1>3, <2>2, <2>3, AloneTurn
<1> QED
  BY <1>4, <1>5, TurnForms DEF Save, Fail

LEMMA AloneStep == TypeInv /\ AloneInv /\ [Next]_vars => AloneInv'
<1> SUFFICES ASSUME TypeInv, AloneInv, [Next]_vars PROVE AloneInv'
  OBVIOUS
<1>1. ASSUME NEW r \in Requests,
             Push(r) \/ Cancel(r) \/ Sync(r) \/ Hook(r) \/ Export(r) \/ CreateExpense(r)
      PROVE  AloneInv'
  BY <1>1, AloneBegins DEF Push, Cancel, Sync, Hook, Export, CreateExpense
<1>2. CASE CarrierMoves \/ UnknownHook \/ (\E c \in Carriers : Configure(c)) \/ UNCHANGED vars
  <2>1. UNCHANGED <<delivery, excuses, req>>
    BY <1>2 DEF CarrierMoves, UnknownHook, Configure, vars, ghosts
  <2> QED
    BY <2>1 DEF AloneInv, InFlight
<1> QED
  BY <1>1, <1>2, AloneMoves, AloneEnds DEF Next

\* What a save may turn a status into, from the row as it is.
Forward(old, new) ==
    /\ old.status # "PENDING_EXPORT" => new.status # "PENDING_EXPORT"
    /\ old.status = "COMPLETED" /\ old.text = "delivered" => new.status = "COMPLETED"

LEMMA ReportForward ==
    ASSUME TypeInv, NEW r \in Requests, req[r].pc = "save", req[r].kind # "expense",
           Heard(parcel, req[r]), req[r].kind \in {"sync", "hook"},
           Shows(parcel, req[r].snap), req[r].snap.text = "delivered",
           req[r].kind = "sync" => req[r].seen = "delivered",
           ~Stale(r),
           NEW new, new = Reported(req[r].snap, req[r].carrier, req[r].seen),
           req[r].snap.status = "COMPLETED"
    PROVE  new.status = "COMPLETED"
<1>1. PICK q, row : q = req[r] /\ row = q.snap
  OBVIOUS
<1>2. /\ q \in Request /\ q.carrier \in Carriers
      /\ row \in Delivery /\ DOMAIN row = {"carrier", "code", "statusId", "text", "status", "priced"}
  BY <1>1 DEF TypeInv, TypedRequest, Request, Delivery
<1>3. q.code # LalamoveDemo
  <2>1. q.code \in Known
    BY <1>1 DEF Heard, OrderOf, Known
  <2>2. q.code \in Nat
    BY <2>1 DEF TypeInv, TypeOK, Parcels
  <2> QED
    BY <2>2, CodesApart
<1>4. OrderOf(parcel, q.code, "LALAMOVE") /\ Arrived(parcel, q.code)
  BY <1>1, <1>3 DEF Shows, Heard
<1>5. q.carrier = "LALAMOVE"
  BY <1>1, <1>4 DEF Heard, OrderOf
<1>6. q.seen = "delivered"
  BY <1>1, <1>4 DEF Stale, Arrived
<1>7. new = Reported(row, "LALAMOVE", "delivered")
  BY <1>1, <1>5, <1>6
<1> QED
  BY <1>2, <1>7 DEF Reported

LEMMA SaveForward ==
    ASSUME TypeInv, TrackInv, NEW r \in Requests, req[r].pc = "save", req[r].kind # "expense",
           ~Stale(r)
    PROVE  Forward(req[r].snap, SavedRow(r))
<1>1. PICK q, row, new : q = req[r] /\ row = q.snap /\ new = SavedRow(r)
  OBVIOUS
<1>2. /\ q \in Request /\ q.kind \in {"push", "cancel", "sync", "hook", "export"}
      /\ row \in Delivery /\ DOMAIN row = {"carrier", "code", "statusId", "text", "status", "priced"}
  BY <1>1 DEF TypeInv, TypedRequest, Request, Delivery
<1>3. InHand(parcel, q)
  BY <1>1 DEF TrackInv
<1>4. row.status # "PENDING_EXPORT" => new.status # "PENDING_EXPORT"
  BY <1>1, SavedStatus
<1>5. ASSUME row.status = "COMPLETED", row.text = "delivered"
      PROVE  new.status = "COMPLETED"
  <2>1. q.kind # "export"
    BY <1>1, <1>3, <1>5 DEF InHand
  <2>2. CASE q.kind = "push"
    <3>1. new = Pushed(row, q.carrier, q.code)
      BY <1>1, <2>2 DEF SavedRow
    <3> QED
      BY <1>2, <1>5, <3>1 DEF Pushed
  <2>3. CASE q.kind = "cancel"
    <3>1. new = Cancelled(row, q.carrier)
      BY <1>1, <2>3 DEF SavedRow
    <3> QED
      BY <1>2, <1>5, <3>1 DEF Cancelled
  <2>4. CASE q.kind = "sync" /\ q.seen = "demo"
    <3>1. new = DemoSynced(row)
      BY <1>1, <2>4 DEF SavedRow
    <3> QED
      BY <1>2, <1>5, <3>1 DEF DemoSynced
  <2>5. CASE q.kind = "hook" \/ (q.kind = "sync" /\ q.seen # "demo")
    <3>1. new = Reported(row, q.carrier, q.seen)
      BY <1>1, <2>5 DEF SavedRow
    <3>2. Heard(parcel, q) /\ Shows(parcel, row) /\ (q.kind = "sync" => q.seen = "delivered")
      BY <1>1, <1>3, <1>5, <2>5 DEF InHand
    <3> QED
      BY <1>1, <1>5, <2>5, <3>1, <3>2, ReportForward
  <2> QED
    BY <1>2, <2>1, <2>2, <2>3, <2>4, <2>5
<1> QED
  BY <1>1, <1>4, <1>5 DEF Forward

LEMMA RowsForward ==
    ASSUME TypeInv, TrackInv, AloneInv, [Next]_vars, NEW d \in Deliveries,
           excuses[d] = 0, d \notin late'
    PROVE  Forward(delivery[d], delivery'[d])
<1>1. CASE delivery'[d] = delivery[d]
  BY <1>1 DEF Forward
<1>2. ASSUME NEW r \in Requests, Save(r)
      PROVE  Forward(delivery[d], delivery'[d])
  <2>1. /\ req[r].pc = "save" /\ req[r].kind # "expense"
        /\ delivery' = [delivery EXCEPT ![req[r].of] = SavedRow(r)]
        /\ late' = IF Stale(r) THEN late \cup {req[r].of} ELSE late
    BY <1>2 DEF Save
  <2>2. CASE req[r].of # d
    BY <1>1, <2>1, <2>2 DEF TypeInv, TypeOK
  <2>3. CASE req[r].of = d
    <3>1. ~Stale(r)
      BY <2>1, <2>3
    <3>2. req[r].snap = delivery[d]
      BY <2>1, <2>3 DEF AloneInv, InFlight, Saves
    <3>3. delivery'[d] = SavedRow(r)
      BY <2>1, <2>3 DEF TypeInv, TypeOK
    <3> QED
      BY <2>1, <3>1, <3>2, <3>3, SaveForward
  <2> QED
    BY <2>2, <2>3
<1>3. CASE ~\E r \in Requests : Save(r)
  <2>1. ASSUME NEW r \in Requests,
               \/ Push(r) \/ Cancel(r) \/ Sync(r) \/ Hook(r) \/ Export(r) \/ CreateExpense(r)
        PROVE  delivery' = delivery
    BY <2>1 DEF Push, Cancel, Sync, Hook, Export, CreateExpense, Begin
  <2>2. ASSUME NEW r \in Requests,
               \/ SkipCarrier(r) \/ RetryOtherId(r) \/ CarrierAccepts(r) \/ CarrierCancels(r)
               \/ CarrierTracks(r) \/ CarrierRefuses(r) \/ StockLeaves(r) \/ BookCost(r)
               \/ FindVoucher(r) \/ InsertVoucher(r) \/ Fail(r)
        PROVE  delivery' = delivery
    BY <2>2 DEF SkipCarrier, RetryOtherId, CarrierAccepts, CarrierCancels, CarrierTracks,
       CarrierRefuses, StockLeaves, BookCost, FindVoucher, InsertVoucher, Fail
  <2>3. ASSUME CarrierMoves \/ UnknownHook \/ (\E c \in Carriers : Configure(c)) \/ UNCHANGED vars
        PROVE  delivery' = delivery
    BY <2>3 DEF CarrierMoves, UnknownHook, Configure, vars
  <2> QED
    BY <1>1, <1>3, <2>1, <2>2, <2>3 DEF Next
<1> QED
  BY <1>2, <1>3

\* While no requests for a delivery overlap, none is cut short and no parcel is
\* replaced, its status never goes back, whatever carriers, users, webhooks and
\* synchronisations write, as long as webhooks come in order.
THEOREM NeverBack == Spec => NoStepBack
<1>1. Init => TypeInv /\ TrackInv /\ AloneInv
  <2> SUFFICES ASSUME Init PROVE AloneInv
    BY TypeAtStart, TrackAtStart
  <2>1. InFlight = {}
    BY IdleTyped DEF Init, InFlight
  <2> QED
    BY <2>1 DEF AloneInv
<1>2. TypeInv /\ TrackInv /\ AloneInv /\ [Next]_vars => (TypeInv /\ TrackInv /\ AloneInv)'
  BY TypeStep, TrackStep, AloneStep
<1>3. TypeInv /\ TrackInv /\ AloneInv /\ [Next]_vars =>
        [\A d \in Deliveries :
            (excuses[d] = 0 /\ d \notin late') =>
                /\ delivery[d].status # "PENDING_EXPORT"
                        => delivery'[d].status # "PENDING_EXPORT"
                /\ (delivery[d].status = "COMPLETED" /\ delivery[d].text = "delivered")
                        => delivery'[d].status = "COMPLETED"]_vars
  <2> SUFFICES ASSUME TypeInv, TrackInv, AloneInv, [Next]_vars, NEW d \in Deliveries,
                      excuses[d] = 0, d \notin late'
               PROVE  /\ delivery[d].status # "PENDING_EXPORT"
                            => delivery'[d].status # "PENDING_EXPORT"
                      /\ (delivery[d].status = "COMPLETED" /\ delivery[d].text = "delivered")
                            => delivery'[d].status = "COMPLETED"
    OBVIOUS
  <2>1. Forward(delivery[d], delivery'[d])
    BY RowsForward
  <2> QED
    BY <2>1 DEF Forward
<1> QED
  BY <1>1, <1>2, <1>3, PTL DEF Spec, NoStepBack

--------------------------------------------------------------------------------
(* Codes on the rows *)

\* The parcel with this code is no longer on its way.
Over(t, code) == code \in DOMAIN t /\ t[code].stage \notin Live

\* A row names an order of its carrier, and one that GHTK cancelled is over.
Named(t, row) ==
    /\ row.code \in Nat => OrderOf(t, row.code, row.carrier)
    /\ (row.statusId = "cancelled" /\ row.carrier = "GHTK" /\ row.code \in Nat)
           => Over(t, row.code)

\* What a request has read is named so, and what it writes as cancelled is over.
Settled(t, q) ==
    /\ Named(t, q.snap)
    /\ q.kind = "cancel" => q.code = q.snap.code
    /\ (q.kind = "cancel" /\ q.carrier = "GHTK" /\ q.pc = "save") =>
           (q.snap.carrier = "GHTK" /\ q.code \in Nat => Over(t, q.code))
    /\ (q.kind \in {"sync", "hook"} /\ q.seen = "cancelled") => Over(t, q.code)

CodeInv ==
    /\ \A d \in Deliveries : Named(parcel, delivery[d])
    /\ \A r \in Requests : req[r].pc # "idle" => Settled(parcel, req[r])
    /\ \A m \in hooks : m.stage = "cancelled" => Over(parcel, m.code)

\* Orders are not lost, and parcels that are over stay so.
Settles(t, u) == Grows(t, u) /\ \A code : Over(t, code) => Over(u, code)

LEMMA NamedLater ==
    ASSUME NEW t, NEW u, Settles(t, u), NEW row, Named(t, row)
    PROVE  Named(u, row)
  BY DEF Settles, Grows, Named

LEMMA SettledLater ==
    ASSUME NEW t, NEW u, Settles(t, u), NEW q, Settled(t, q)
    PROVE  Settled(u, q)
<1>1. Named(u, q.snap)
  BY NamedLater DEF Settled
<1>2. Over(t, q.code) => Over(u, q.code)
  BY DEF Settles
<1> QED
  BY <1>1, <1>2 DEF Settled

LEMMA SettlesSame == ASSUME parcel' = parcel PROVE Settles(parcel, parcel')
  BY GrowsSame DEF Settles

LEMMA SettlesAccepted ==
    ASSUME TypeInv, NEW r \in Requests, CarrierAccepts(r)
    PROVE  Settles(parcel, parcel')
<1>1. /\ Known' = Known \cup {Cardinality(Known) + 1}
      /\ \A p \in Known : parcel'[p] = parcel[p]
  BY NextParcel
<1> QED
  BY <1>1, GrowsAccepted DEF Settles, Over, Known

LEMMA SettlesStage ==
    ASSUME TypeInv, NEW p \in Known, NEW s, parcel[p].stage \in Live,
           parcel' = [parcel EXCEPT ![p].stage = s]
    PROVE  /\ Settles(parcel, parcel') /\ Known' = Known
           /\ parcel'[p].stage = s /\ parcel'[p].of = parcel[p].of
           /\ \A k \in Known \ {p} : parcel'[k] = parcel[k]
<1>1. Grows(parcel, parcel') /\ Known' = Known
  BY GrowsStage DEF Live
<1>2. \A k \in Known \ {p} : parcel'[k] = parcel[k]
  BY DEF TypeInv, TypeOK
<1>3. parcel[p] \in Parcel /\ DOMAIN parcel = Known
  BY DEF TypeInv, TypeOK, Known
<1>4. parcel'[p].stage = s /\ parcel'[p].of = parcel[p].of
  BY <1>3 DEF Parcel
<1>5. ASSUME NEW code, Over(parcel, code)
      PROVE  Over(parcel', code)
  <2>1. code \in Known /\ code # p
    BY <1>5 DEF Over, Known
  <2> QED
    BY <1>1, <1>2, <1>5, <2>1 DEF Over, Known
<1> QED
  BY <1>1, <1>2, <1>4, <1>5 DEF Settles
--------------------------------------------------------------------------------
LEMMA CodeTurn ==
    ASSUME TypeInv, CodeInv, NEW r \in Requests, NEW q, Turn(r, q),
           q.pc # "idle" => Settled(parcel', q),
           Settles(parcel, parcel'), hooks' \subseteq hooks,
           \A d \in Deliveries : Named(parcel', delivery'[d])
    PROVE  CodeInv'
<1>1. req'[r] = q /\ \A s \in Requests \ {r} : req'[s] = req[s]
  BY TurnRecords
<1>2. ASSUME NEW s \in Requests, req'[s].pc # "idle"
      PROVE  Settled(parcel', req'[s])
  <2>1. CASE s = r
    BY <1>1, <1>2, <2>1
  <2>2. CASE s # r
    <3>1. Settled(parcel, req[s]) /\ req'[s] = req[s]
      BY <1>1, <1>2, <2>2 DEF CodeInv
    <3> QED
      BY <3>1, SettledLater
  <2> QED
    BY <2>1, <2>2
<1>3. \A m \in hooks' : m.stage = "cancelled" => Over(parcel', m.code)
  BY DEF CodeInv, Settles
<1> QED
  BY <1>2, <1>3 DEF CodeInv

LEMMA CodeKept ==
    ASSUME TypeInv, CodeInv, NEW r \in Requests, NEW q, Turn(r, q),
           q.pc # "idle" => Settled(parcel, q),
           UNCHANGED <<delivery, parcel>>, hooks' \subseteq hooks
    PROVE  CodeInv'
<1>1. Settles(parcel, parcel')
  BY SettlesSame
<1>2. \A d \in Deliveries : Named(parcel', delivery'[d])
  BY DEF CodeInv
<1>3. q.pc # "idle" => Settled(parcel', q)
  OBVIOUS
<1> QED
  BY <1>1, <1>2, <1>3, CodeTurn

LEMMA CodeIdle ==
    ASSUME TypeInv, CodeInv, NEW r \in Requests, Finish(r),
           UNCHANGED <<delivery, parcel>>, hooks' \subseteq hooks
    PROVE  CodeInv'
<1>1. Turn(r, Idle) /\ Idle.pc = "idle"
  BY TurnForms, IdleTyped
<1> QED
  BY <1>1, CodeKept

LEMMA CodeBegins ==
    ASSUME TypeInv, CodeInv, NEW r \in Requests, NEW d \in Deliveries,
           NEW kind, NEW c, NEW code, NEW seen, NEW replaces,
           Begin(r, d, kind, c, code, seen, replaces),
           kind # "cancel" \/ code = Tracked(d),
           seen # "cancelled" \/ Over(parcel, code)
    PROVE  CodeInv'
<1> DEFINE q == [pc |-> IF kind = "hook" THEN "save" ELSE "call", kind |-> kind,
                 carrier |-> c, of |-> d, snap |-> delivery[d], code |-> code,
                 seen |-> seen]
<1>1. Turn(r, q) /\ UNCHANGED <<delivery, parcel, hooks>>
  BY BeginForm
<1>2. /\ q.pc = "save" => kind = "hook"
      /\ q.kind = kind /\ q.carrier = c /\ q.snap = delivery[d] /\ q.code = code
      /\ q.seen = seen
  OBVIOUS
<1> HIDE DEF q
<1>3. Named(parcel, delivery[d])
  BY DEF CodeInv
<1>4. Settled(parcel, q)
  BY <1>2, <1>3 DEF Settled, Tracked
<1> QED
  BY <1>1, <1>4, CodeKept

LEMMA CodeBeginning ==
    ASSUME TypeInv, CodeInv, NEW r \in Requests,
           Push(r) \/ Cancel(r) \/ Sync(r) \/ Hook(r) \/ Export(r) \/ CreateExpense(r)
    PROVE  CodeInv'
<1>1. ASSUME NEW d \in Deliveries, NEW kind, NEW c, NEW code, NEW replaces,
             kind # "cancel", Begin(r, d, kind, c, code, "none", replaces)
      PROVE  CodeInv'
  BY <1>1, CodeBegins
<1>2. CASE Push(r)
  <2>1. PICK d \in Deliveries, c \in Carriers, force \in BOOLEAN :
          Begin(r, d, "push", c, NoCode, "none", Supersedes(d, c, force))
    BY <1>2 DEF Push
  <2>2. PICK over : over = Supersedes(d, c, force)
    OBVIOUS
  <2> QED
    BY <1>1, <2>1, <2>2
<1>3. CASE Cancel(r)
  <2>1. PICK d \in Deliveries, c \in Carriers :
          Begin(r, d, "cancel", c, Tracked(d), "none", FALSE)
    BY <1>3 DEF Cancel
  <2>2. PICK kind, code, seen : kind = "cancel" /\ code = Tracked(d) /\ seen = "none"
    OBVIOUS
  <2>3. Begin(r, d, kind, c, code, seen, FALSE)
    BY <2>1, <2>2
  <2>4. kind # "cancel" \/ code = Tracked(d)
    BY <2>2
  <2>5. seen # "cancelled" \/ Over(parcel, code)
    BY <2>2
  <2> QED
    BY <2>3, <2>4, <2>5, CodeBegins
<1>4. CASE Sync(r)
  BY <1>1, <1>4 DEF Sync
<1>5. CASE Hook(r)
  <2>1. PICK m \in hooks, d \in Deliveries :
          Begin(r, d, "hook", parcel[m.code].carrier, m.code, m.stage, FALSE)
    BY <1>5 DEF Hook
  <2>2. m.stage # "cancelled" \/ Over(parcel, m.code)
    BY DEF CodeInv
  <2>3. PICK kind : kind = "hook"
    OBVIOUS
  <2>4. kind # "cancel" /\ Begin(r, d, kind, parcel[m.code].carrier, m.code, m.stage, FALSE)
    BY <2>1, <2>3
  <2> QED
    BY <2>2, <2>4, CodeBegins
<1>6. CASE Export(r)
  BY <1>1, <1>6 DEF Export
<1>7. CASE CreateExpense(r)
  BY <1>1, <1>7 DEF CreateExpense
<1> QED
  BY <1>2, <1>3, <1>4, <1>5, <1>6, <1>7

\* A cancellation asks no carrier only for a row without an order of its own.
LEMMA CodeSkips ==
    ASSUME TypeInv, TrackInv, CodeInv, NEW r \in Requests, SkipCarrier(r)
    PROVE  CodeInv'
<1>1. /\ req[r].pc # "idle" /\ Demo(r) /\ req[r].kind \in {"push", "cancel", "sync"}
      /\ UNCHANGED <<delivery, parcel, hooks>>
  BY DEF SkipCarrier, Calling
<1>2. Settled(parcel, req[r]) /\ req[r] \in Request
  BY <1>1 DEF CodeInv, TypeInv, TypeOK
<1>3. CASE Turn(r, Idle)
  BY <1>1, <1>3, IdleTyped, CodeKept
<1>4. ASSUME NEW code, code = IF req[r].kind = "push" THEN DemoCode(req[r].carrier)
                              ELSE req[r].code,
             Turn(r, Moved(req[r], "save", code, "demo"))
      PROVE  CodeInv'
  <2>1. PICK q : q = Moved(req[r], "save", code, "demo")
    OBVIOUS
  <2>2. /\ q.code = code /\ q.seen = "demo" /\ q.kind = req[r].kind
        /\ q.carrier = req[r].carrier /\ q.snap = req[r].snap
    BY <1>2, <2>1, MovedFields
  <2>3. ASSUME q.kind = "cancel"
        PROVE  q.code = req[r].code /\ q.code = q.snap.code
    BY <1>2, <1>4, <2>2, <2>3 DEF Settled
  <2>4. ASSUME q.kind = "cancel", q.carrier = "GHTK", q.snap.carrier = "GHTK", q.code \in Nat
        PROVE  FALSE
    <3>1. OrderOf(parcel, q.code, "GHTK")
      BY <1>2, <2>2, <2>3, <2>4 DEF Settled, Named
    <3>2. "GHTK" \in configured
      BY <3>1 DEF OrderOf, TrackInv, Known
    <3>3. req[r].code = GhtkDemo
      BY <1>1, <2>2, <2>4, <3>2, CodesApart DEF Demo
    <3> QED
      BY <2>3, <2>4, <3>3, CodesApart
  <2>5. Settled(parcel, q)
    BY <1>2, <2>2, <2>3, <2>4 DEF Settled
  <2> QED
    BY <1>1, <1>4, <2>1, <2>5, CodeKept
<1>5. PICK code : code = IF req[r].kind = "push" THEN DemoCode(req[r].carrier)
                         ELSE req[r].code
  OBVIOUS
<1>6. Turn(r, Idle) \/ Turn(r, Moved(req[r], "save", code, "demo"))
  BY <1>5, TurnForms
<1> QED
  BY <1>3, <1>4, <1>5, <1>6

LEMMA SettledMoved ==
    ASSUME NEW t, NEW q \in Request, Settled(t, q), NEW pc, NEW code,
           q.kind \notin {"cancel", "sync", "hook"}
    PROVE  Settled(t, Moved(q, pc, code, q.seen))
<1>1. PICK m : m = Moved(q, pc, code, q.seen)
  OBVIOUS
<1>2. m.kind = q.kind /\ m.snap = q.snap
  BY <1>1, MovedFields
<1>3. Settled(t, m)
  BY <1>2 DEF Settled
<1> QED
  BY <1>1, <1>3

LEMMA CodeGoes ==
    ASSUME TypeInv, CodeInv, NEW r \in Requests, NEW pc, Goto(r, pc), req[r].pc # "idle",
           req[r].kind \notin {"cancel", "sync", "hook"},
           UNCHANGED <<delivery, parcel, hooks>>
    PROVE  CodeInv'
<1>1. Settled(parcel, req[r]) /\ req[r] \in Request
  BY DEF CodeInv, TypeInv, TypeOK
<1>2. PICK q : q = Moved(req[r], pc, req[r].code, req[r].seen)
  OBVIOUS
<1>3. Turn(r, q)
  BY <1>2, TurnForms
<1>4. Settled(parcel, q)
  BY <1>1, <1>2, SettledMoved
<1> QED
  BY <1>3, <1>4, CodeKept

LEMMA CodeAnswers ==
    ASSUME TypeInv, CodeInv, NEW r \in Requests,
           CarrierAccepts(r) \/ CarrierCancels(r) \/ CarrierTracks(r)
    PROVE  CodeInv'
<1>1. req[r].pc # "idle" /\ UNCHANGED <<delivery, hooks>>
  BY DEF CarrierAccepts, CarrierCancels, CarrierTracks, Calling, ghosts
<1>2. Settled(parcel, req[r]) /\ req[r] \in Request
  BY <1>1 DEF CodeInv, TypeInv, TypeOK
<1>3. ASSUME Settles(parcel, parcel')
      PROVE  \A d \in Deliveries : Named(parcel', delivery'[d])
  BY <1>1, <1>3, NamedLater DEF CodeInv
<1>4. CASE CarrierAccepts(r)
  <2>1. PICK code, q : q = Moved(req[r], "save", code, req[r].seen) /\ Turn(r, q)
    BY <1>4, TurnForms
  <2>2. Settles(parcel, parcel')
    BY <1>4, SettlesAccepted
  <2>3. req[r].kind = "push"
    BY <1>4 DEF CarrierAccepts, Calling
  <2>4. PICK t : t = parcel'
    OBVIOUS
  <2>5. Settled(t, req[r])
    BY <1>2, <2>2, <2>4, SettledLater
  <2>6. Settled(t, q)
    BY <1>2, <2>1, <2>3, <2>5, SettledMoved
  <2> QED
    BY <1>1, <1>3, <2>1, <2>2, <2>4, <2>6, CodeTurn
<1>5. CASE CarrierCancels(r)
  <2>1. PICK p : p = req[r].code
    OBVIOUS
  <2>2. /\ p \in Known /\ parcel[p].stage = "accepted" /\ req[r].kind = "cancel"
        /\ parcel' = [parcel EXCEPT ![p].stage = "cancelled"] /\ Goto(r, "save")
    BY <1>5, <2>1 DEF CarrierCancels, Understood, Calling
  <2>3. parcel[p].stage \in Live
    BY <2>2 DEF Live
  <2>4. Settles(parcel, parcel') /\ parcel'[p].stage = "cancelled" /\ Known' = Known
    BY <2>2, <2>3, SettlesStage
  <2>5. Over(parcel', p)
    BY <2>2, <2>4 DEF Over, Live, Known
  <2>6. PICK q : q = Moved(req[r], "save", req[r].code, req[r].seen)
    OBVIOUS
  <2>7. q.code = p /\ q.kind = "cancel" /\ q.snap = req[r].snap
    BY <1>2, <2>1, <2>2, <2>6, MovedFields
  <2>8. Named(parcel', q.snap)
    BY <1>2, <2>4, <2>7, NamedLater DEF Settled
  <2>9. q.code = q.snap.code
    BY <1>2, <2>1, <2>2, <2>7 DEF Settled
  <2>10. Settled(parcel', q)
    BY <2>5, <2>7, <2>8, <2>9 DEF Settled
  <2>11. Turn(r, q)
    BY <2>2, <2>6, TurnForms
  <2> QED
    BY <1>1, <1>3, <2>4, <2>10, <2>11, CodeTurn
<1>6. CASE CarrierTracks(r)
  <2>1. /\ req[r].kind = "sync" /\ req[r].code \in Known /\ parcel' = parcel
    BY <1>6 DEF CarrierTracks, Calling, Understood
  <2>2. PICK s, q : s = parcel[req[r].code].stage /\ q = Moved(req[r], "save", req[r].code, s)
    OBVIOUS
  <2>3. Turn(r, q)
    BY <1>6, <2>2, TurnForms
  <2>4. q.code = req[r].code /\ q.seen = s /\ q.kind = "sync" /\ q.snap = req[r].snap
    BY <1>2, <2>1, <2>2, MovedFields
  <2>5. s = "cancelled" => Over(parcel, q.code)
    BY <2>1, <2>2, <2>4 DEF Over, Live, Known
  <2>6. Settled(parcel, q)
    BY <1>2, <2>4, <2>5 DEF Settled
  <2> QED
    BY <1>1, <2>1, <2>3, <2>6, CodeKept
<1> QED
  BY <1>4, <1>5, <1>6
\* What handlers save names an order of its carrier.
LEMMA NamedSaved ==
    ASSUME TypeInv, TrackInv, CodeInv, NEW r \in Requests,
           req[r].pc = "save", req[r].kind # "expense"
    PROVE  Named(parcel, SavedRow(r))
<1>1. PICK q, row, new : q = req[r] /\ row = q.snap /\ new = SavedRow(r)
  OBVIOUS
<1>2. /\ InHand(parcel, q) /\ Settled(parcel, q) /\ q.pc = "save"
      /\ q \in Request /\ q.kind \in {"push", "cancel", "sync", "hook", "export"}
  BY <1>1 DEF TrackInv, CodeInv, TypeInv, TypedRequest, Request
<1>3. row \in Delivery /\ DOMAIN row = {"carrier", "code", "statusId", "text", "status", "priced"}
  BY <1>1, <1>2 DEF Request, Delivery
<1>4. Named(parcel, row)
  BY <1>1, <1>2 DEF Settled
<1>5. ASSUME new.code = row.code, new.carrier = row.carrier, new.statusId = row.statusId
      PROVE  Named(parcel, new)
  BY <1>4, <1>5 DEF Named
<1>6. ASSUME new.code = row.code, new.carrier = row.carrier,
             row.carrier = "GHTK" /\ row.code \in Nat => Over(parcel, row.code)
      PROVE  Named(parcel, new)
  BY <1>4, <1>6 DEF Named
<1>7. CASE q.kind = "export"
  <2>1. new = [row EXCEPT !.status = "SHIPPED"]
    BY <1>1, <1>7 DEF SavedRow
  <2>2. new.code = row.code /\ new.carrier = row.carrier /\ new.statusId = row.statusId
    BY <1>3, <2>1
  <2> QED
    BY <1>1, <1>5, <2>2
<1>8. CASE q.kind = "push"
  <2>1. new = Pushed(row, q.carrier, q.code)
    BY <1>1, <1>8 DEF SavedRow
  <2>2. /\ new.code = q.code /\ new.carrier = q.carrier
        /\ q.carrier = "GHTK" => new.statusId = "accepted"
    BY <1>3, <2>1 DEF Pushed
  <2>3. q.carrier \in Carriers
    BY <1>1, <1>2, <1>8 DEF TypeInv, TypedRequest
  <2>4. q.code = DemoCode(q.carrier) \/ OrderOf(parcel, q.code, q.carrier)
    BY <1>2, <1>8 DEF InHand
  <2>5. q.code \in Nat => OrderOf(parcel, q.code, q.carrier)
    BY <2>3, <2>4, CodesApart DEF Carriers
  <2> QED
    BY <1>1, <2>2, <2>5 DEF Named
<1>9. CASE q.kind = "cancel"
  <2>1. new = Cancelled(row, q.carrier)
    BY <1>1, <1>9 DEF SavedRow
  <2>2. /\ new.code = row.code /\ new.carrier = row.carrier
        /\ q.carrier # "GHTK" => new.statusId = row.statusId
    BY <1>3, <2>1 DEF Cancelled
  <2>3. q.carrier = "GHTK" => (row.carrier = "GHTK" /\ row.code \in Nat => Over(parcel, row.code))
    BY <1>1, <1>2, <1>9 DEF Settled
  <2> QED
    BY <1>1, <1>5, <1>6, <2>2, <2>3
<1>10. CASE q.kind \in {"sync", "hook"}
  <2>1. CASE new = DemoSynced(row)
    <3>1. new.code = row.code /\ new.carrier = row.carrier /\ new.statusId = row.statusId
      BY <1>3, <2>1 DEF DemoSynced
    <3> QED
      BY <1>1, <1>5, <3>1
  <2>2. CASE new = Reported(row, q.carrier, q.seen)
    <3>1. new.code = row.code /\ new.carrier = row.carrier
          /\ new.statusId = IF q.carrier = "GHTK" THEN q.seen ELSE row.statusId
      BY <1>3, <2>2 DEF Reported
    <3>2. q.code = row.code
      BY <1>1, <1>2, <1>10 DEF InHand, Heard
    <3>3. q.seen = "cancelled" => Over(parcel, row.code)
      BY <1>2, <1>10, <3>2 DEF Settled
    <3> QED
      BY <1>1, <1>4, <3>1, <3>3 DEF Named
  <2> QED
    BY <1>1, <1>10, <2>1, <2>2 DEF SavedRow
<1> QED
  BY <1>1, <1>2, <1>7, <1>8, <1>9, <1>10

LEMMA CodeSaves ==
    ASSUME TypeInv, TrackInv, CodeInv, NEW r \in Requests, Save(r)
    PROVE  CodeInv'
<1>1. /\ req[r].pc = "save" /\ req[r].kind # "expense"
      /\ delivery' = [delivery EXCEPT ![req[r].of] = SavedRow(r)]
      /\ IF req[r].kind = "export" /\ Journal THEN Goto(r, "book") ELSE Finish(r)
      /\ hooks' \subseteq hooks /\ parcel' = parcel
  BY DEF Save
<1>2. PICK row : row = SavedRow(r)
  OBVIOUS
<1>3. Named(parcel, row)
  BY <1>1, <1>2, NamedSaved
<1>4. \A d \in Deliveries : delivery'[d] = IF d = req[r].of THEN row ELSE delivery[d]
  BY <1>1, <1>2 DEF TypeInv, TypeOK
<1>5. \A d \in Deliveries : Named(parcel', delivery'[d])
  BY <1>1, <1>3, <1>4 DEF CodeInv
<1>6. Settled(parcel, req[r]) /\ req[r] \in Request
  BY <1>1 DEF CodeInv, TypeInv, TypeOK
<1>7. PICK q : Turn(r, q) /\ (q.pc # "idle" => Settled(parcel, q))
  <2>1. CASE Finish(r)
    BY <2>1, TurnForms, IdleTyped
  <2>2. CASE req[r].kind = "export" /\ Goto(r, "book")
    <3>1. PICK q : q = Moved(req[r], "book", req[r].code, req[r].seen)
      OBVIOUS
    <3>2. Turn(r, q)
      BY <2>2, <3>1, TurnForms
    <3>3. Settled(parcel, q)
      BY <1>6, <2>2, <3>1, SettledMoved
    <3> QED
      BY <3>2, <3>3
  <2> QED
    BY <1>1, <2>1, <2>2
<1>8. Settles(parcel, parcel')
  BY <1>1, SettlesSame
<1>9. q.pc # "idle" => Settled(parcel', q)
  BY <1>1, <1>7
<1> QED
  BY <1>1, <1>5, <1>7, <1>8, <1>9, CodeTurn

LEMMA CodeHandlers ==
    ASSUME TypeInv, CodeInv, NEW r \in Requests,
           \/ RetryOtherId(r) \/ CarrierRefuses(r)
           \/ StockLeaves(r) \/ BookCost(r) \/ FindVoucher(r) \/ InsertVoucher(r) \/ Fail(r)
    PROVE  CodeInv'
<1>1. CASE RetryOtherId(r)
  BY <1>1, CodeGoes DEF RetryOtherId, Calling
<1>2. CASE StockLeaves(r)
  BY <1>2, CodeGoes DEF StockLeaves, Calling
<1>3. CASE FindVoucher(r)
  <2>1. /\ req[r].kind = "expense" /\ req[r].pc # "idle"
        /\ Goto(r, "save") \/ Finish(r)
        /\ UNCHANGED <<delivery, parcel, hooks>>
    BY <1>3 DEF FindVoucher, Calling
  <2>2. CASE Goto(r, "save")
    BY <2>1, <2>2, CodeGoes
  <2> QED
    BY <2>1, <2>2, CodeIdle
<1>4. CASE CarrierRefuses(r) \/ BookCost(r) \/ InsertVoucher(r) \/ Fail(r)
  BY <1>4, CodeIdle DEF CarrierRefuses, BookCost, InsertVoucher, Fail
<1> QED
  BY <1>1, <1>2, <1>3, <1>4

LEMMA CodeOutside ==
    ASSUME TypeInv, CodeInv,
           CarrierMoves \/ UnknownHook \/ (\E c \in Carriers : Configure(c)) \/ UNCHANGED vars
    PROVE  CodeInv'
<1>1. UNCHANGED <<delivery, req>>
  BY DEF CarrierMoves, UnknownHook, Configure, vars
<1>2. ASSUME Settles(parcel, parcel'),
             \A m \in hooks' : m.stage = "cancelled" => Over(parcel', m.code)
      PROVE  CodeInv'
  <2>1. \A d \in Deliveries : Named(parcel', delivery'[d])
    BY <1>1, <1>2, NamedLater DEF CodeInv
  <2>2. \A r \in Requests : req'[r].pc # "idle" => Settled(parcel', req'[r])
    BY <1>1, <1>2, SettledLater DEF CodeInv
  <2> QED
    BY <1>2, <2>1, <2>2 DEF CodeInv
<1>3. CASE CarrierMoves
  <2>1. PICK p \in Known, s \in Stages \ {"accepted"} :
          /\ parcel[p].stage \in Live
          /\ parcel' = [parcel EXCEPT ![p].stage = s]
          /\ hooks' = hooks \cup {[code |-> p, stage |-> s]}
    BY <1>3 DEF CarrierMoves
  <2>2. Settles(parcel, parcel') /\ Known' = Known /\ parcel'[p].stage = s
    BY <2>1, SettlesStage
  <2>3. s = "cancelled" => Over(parcel', p)
    BY <2>2 DEF Over, Known, Live
  <2>4. ASSUME NEW m \in hooks', m.stage = "cancelled"
        PROVE  Over(parcel', m.code)
    <3>1. CASE m \in hooks
      BY <2>2, <2>4, <3>1 DEF CodeInv, Settles
    <3>2. CASE m = [code |-> p, stage |-> s]
      <4>1. m.code = p /\ m.stage = s
        BY <3>2
      <4> QED
        BY <2>3, <2>4, <4>1
    <3> QED
      BY <2>1, <3>1, <3>2
  <2> QED
    BY <1>2, <2>2, <2>4
<1>4. CASE UnknownHook \/ (\E c \in Carriers : Configure(c)) \/ UNCHANGED vars
  <2>1. parcel' = parcel /\ hooks' \subseteq hooks
    BY <1>4 DEF UnknownHook, Configure, vars
  <2>2. \A m \in hooks' : m.stage = "cancelled" => Over(parcel', m.code)
    BY <2>1 DEF CodeInv
  <2> QED
    BY <1>2, <2>1, <2>2, SettlesSame
<1> QED
  BY <1>3, <1>4

LEMMA CodeStep == TypeInv /\ TrackInv /\ CodeInv /\ [Next]_vars => CodeInv'
<1> SUFFICES ASSUME TypeInv, TrackInv, CodeInv, [Next]_vars PROVE CodeInv'
  OBVIOUS
<1> QED
  BY CodeBeginning, CodeSkips, CodeAnswers, CodeSaves, CodeHandlers, CodeOutside DEF Next

LEMMA CodeAtStart == Init => CodeInv
<1> SUFFICES ASSUME Init PROVE CodeInv
  OBVIOUS
<1>1. \A d \in Deliveries : Named(parcel, delivery[d])
  BY CodesApart DEF Init, Named, NewDelivery
<1>2. \A r \in Requests : req[r].pc = "idle"
  BY IdleTyped DEF Init
<1>3. hooks = {}
  BY DEF Init
<1> QED
  BY <1>1, <1>2, <1>3 DEF CodeInv

--------------------------------------------------------------------------------
(* No unknown parcel *)

\* The requests of d that still have its row to save.
Savers(rq, d) == {s \in Requests : rq[s].of = d /\ Saves(rq[s])}

\* Of the live parcels L, those that neither the row's code nor a push about to
\* save shows.
Missing(L, code, A) == L \ ({code} \cup A)

\* Saving over the row with what q has read leaves no more parcels missing.
Keeps(q, L, code, A) ==
    \/ code \notin L
    \/ q.kind # "push" /\ q.snap.code \in {code} \cup Missing(L, code, A)
Safe(rq, d, L, code, A) == \E s \in Savers(rq, d) : Keeps(rq[s], L, code, A)

\* Each request that will save over the row may lose a parcel, but for one if
\* any of them keeps it.
Bound(rq, d, L, code, A, x) ==
    Cardinality(Missing(L, code, A)) + Cardinality(Savers(rq, d))
        <= x + (IF Safe(rq, d, L, code, A) THEN 1 ELSE 0)

ParcelInv ==
    \A d \in Deliveries :
        Bound(req, d, LiveParcels(d), Tracked(d), Arriving(d), excuses[d])

LEMMA SaversFinite ==
    ASSUME NEW rq, NEW d
    PROVE  IsFiniteSet(Savers(rq, d)) /\ Cardinality(Savers(rq, d)) \in Nat
  BY CodesApart, FS_Subset, FS_CardinalityType DEF Savers

LEMMA MissingFinite ==
    ASSUME NEW L, IsFiniteSet(L), NEW code, NEW A
    PROVE  IsFiniteSet(Missing(L, code, A)) /\ Cardinality(Missing(L, code, A)) \in Nat
  BY FS_Subset, FS_CardinalityType DEF Missing

LEMMA SaversTurn ==
    ASSUME NEW rq, NEW rr, NEW r \in Requests, NEW d,
           \A s \in Requests \ {r} : rr[s] = rq[s]
    PROVE  /\ Savers(rr, d) \ {r} = Savers(rq, d) \ {r}
           /\ r \in Savers(rr, d) <=> rr[r].of = d /\ Saves(rr[r])
           /\ r \in Savers(rq, d) <=> rq[r].of = d /\ Saves(rq[r])
  BY DEF Savers

\* A parcel of those missing is over, or none is.
LEMMA BoundMoves ==
    ASSUME NEW rq, NEW rr, NEW d, NEW L, IsFiniteSet(L), NEW M, IsFiniteSet(M),
           NEW code, NEW A, NEW B, NEW p, NEW x \in Nat,
           Savers(rr, d) = Savers(rq, d),
           \A s \in Savers(rq, d) : rr[s].kind = rq[s].kind /\ rr[s].snap = rq[s].snap,
           code \notin L => code \notin M,
           Missing(M, code, B) \subseteq Missing(L, code, A),
           Missing(L, code, A) \ Missing(M, code, B) \subseteq {p},
           Bound(rq, d, L, code, A, x)
    PROVE  Bound(rr, d, M, code, B, x)
<1> DEFINE a == Cardinality(Missing(L, code, A))
           b == Cardinality(Missing(M, code, B))
           n == Cardinality(Savers(rq, d))
           u == IF Safe(rq, d, L, code, A) THEN 1 ELSE 0
           v == IF Safe(rr, d, M, code, B) THEN 1 ELSE 0
<1>1. /\ IsFiniteSet(Missing(L, code, A)) /\ n \in Nat
  BY SaversFinite, MissingFinite
<1>2. a + n <= x + u
  BY DEF Bound
<1>3. Bound(rr, d, M, code, B, x) <=> b + n <= x + v
  BY DEF Bound
<1>4. CASE Missing(M, code, B) = Missing(L, code, A)
  <2>1. Safe(rq, d, L, code, A) => Safe(rr, d, M, code, B)
    BY <1>4 DEF Safe, Keeps
  <2>2. u \in 0..1 /\ v \in 0..1 /\ u <= v /\ a = b /\ a \in Nat
    BY <1>1, <1>4, <2>1, MissingFinite
  <2> HIDE DEF a, b, n, u, v
  <2> QED
    BY <1>1, <1>2, <1>3, <2>2
<1>5. CASE Missing(M, code, B) # Missing(L, code, A)
  <2>1. p \in Missing(L, code, A) /\ Missing(M, code, B) = Missing(L, code, A) \ {p}
    BY <1>5
  <2>2. b = a - 1 /\ a \in Nat
    BY <1>1, <2>1, FS_RemoveElement, FS_CardinalityType
  <2>3. u \in 0..1 /\ v \in 0..1
    OBVIOUS
  <2> HIDE DEF a, b, n, u, v
  <2> QED
    BY <1>1, <1>2, <1>3, <2>2, <2>3
<1> QED
  BY <1>4, <1>5

\* A request ends without saving.
LEMMA BoundLeaves ==
    ASSUME NEW rq, NEW rr, NEW r \in Requests, NEW d, NEW L, IsFiniteSet(L),
           NEW code, NEW A, NEW x \in Nat,
           \A s \in Requests \ {r} : rr[s] = rq[s], ~Saves(rr[r]),
           Bound(rq, d, L, code, A, x)
    PROVE  Bound(rr, d, L, code, A, x)
<1> DEFINE a == Cardinality(Missing(L, code, A))
           n == Cardinality(Savers(rq, d))
           m == Cardinality(Savers(rr, d))
           u == IF Safe(rq, d, L, code, A) THEN 1 ELSE 0
           v == IF Safe(rr, d, L, code, A) THEN 1 ELSE 0
<1>1. Savers(rr, d) = Savers(rq, d) \ {r}
  <2>1. Savers(rr, d) \ {r} = Savers(rq, d) \ {r}
    BY SaversTurn
  <2>2. r \notin Savers(rr, d)
    BY DEF Savers
  <2> QED
    BY <2>1, <2>2
<1>2. IsFiniteSet(Savers(rq, d)) /\ n \in Nat /\ a \in Nat
  BY SaversFinite, MissingFinite
<1>3. m = IF r \in Savers(rq, d) THEN n - 1 ELSE n
  BY <1>1, <1>2, FS_RemoveElement
<1>4. u \in 0..1 /\ v \in 0..1
  OBVIOUS
<1>5. r \notin Savers(rq, d) => u <= v
  <2>1. r \notin Savers(rq, d) => \A s \in Savers(rq, d) : s \in Savers(rr, d) /\ rr[s] = rq[s]
    BY <1>1 DEF Savers
  <2> QED
    BY <2>1 DEF Safe
<1>6. a + n <= x + u
  BY DEF Bound
<1>7. Bound(rr, d, L, code, A, x) <=> a + m <= x + v
  BY DEF Bound
<1> HIDE DEF a, n, m, u, v
<1> QED
  BY <1>2, <1>3, <1>4, <1>5, <1>6, <1>7

\* A request is cut short: the parcel it was to save may go missing.
LEMMA BoundFails ==
    ASSUME NEW rq, NEW rr, NEW r \in Requests, NEW d, NEW L, IsFiniteSet(L),
           NEW code, NEW A, NEW B, NEW p, NEW x \in Nat,
           \A s \in Requests \ {r} : rr[s] = rq[s], ~Saves(rr[r]),
           A # B => r \in Savers(rq, d),
           B \subseteq A, A \ B \subseteq {p},
           Bound(rq, d, L, code, A, x)
    PROVE  Bound(rr, d, L, code, B, x + 1)
<1> DEFINE a == Cardinality(Missing(L, code, A))
           b == Cardinality(Missing(L, code, B))
           n == Cardinality(Savers(rq, d))
           m == Cardinality(Savers(rr, d))
           u == IF Safe(rq, d, L, code, A) THEN 1 ELSE 0
           v == IF Safe(rr, d, L, code, B) THEN 1 ELSE 0
<1>1. Savers(rr, d) = Savers(rq, d) \ {r}
  <2>1. Savers(rr, d) \ {r} = Savers(rq, d) \ {r}
    BY SaversTurn
  <2>2. r \notin Savers(rr, d)
    BY DEF Savers
  <2> QED
    BY <2>1, <2>2
<1>2. /\ IsFiniteSet(Savers(rq, d)) /\ n \in Nat /\ a \in Nat /\ b \in Nat
      /\ IsFiniteSet(Missing(L, code, A))
  BY SaversFinite, MissingFinite
<1>3. m = IF r \in Savers(rq, d) THEN n - 1 ELSE n
  BY <1>1, <1>2, FS_RemoveElement
<1>4. u \in 0..1 /\ v \in 0..1
  OBVIOUS
<1>5. b <= a + 1
  <2>1. Missing(L, code, B) \ {p} = Missing(L, code, A) \ {p}
    BY DEF Missing
  <2> QED
    BY <1>2, <2>1, CountTurn
<1>6. r \notin Savers(rq, d) => b = a
  OBVIOUS
<1>7. a + n <= x + u
  BY DEF Bound
<1>8. Bound(rr, d, L, code, B, x + 1) <=> b + m <= x + 1 + v
  BY DEF Bound
<1> HIDE DEF a, b, n, m, u, v
<1> QED
  BY <1>2, <1>3, <1>4, <1>5, <1>6, <1>7, <1>8

\* One more request comes, and that is excused.
LEMMA BoundJoins ==
    ASSUME NEW rq, NEW rr, NEW r \in Requests, NEW d, NEW L, IsFiniteSet(L),
           NEW code, NEW A, NEW x \in Nat,
           \A s \in Requests \ {r} : rr[s] = rq[s], ~Saves(rq[r]),
           Bound(rq, d, L, code, A, x)
    PROVE  Bound(rr, d, L, code, A, x + 1)
<1> DEFINE a == Cardinality(Missing(L, code, A))
           n == Cardinality(Savers(rq, d))
           m == Cardinality(Savers(rr, d))
           u == IF Safe(rq, d, L, code, A) THEN 1 ELSE 0
           v == IF Safe(rr, d, L, code, A) THEN 1 ELSE 0
<1>1. Savers(rr, d) \ {r} = Savers(rq, d) \ {r} /\ r \notin Savers(rq, d)
  BY SaversTurn
<1>2. IsFiniteSet(Savers(rq, d)) /\ n \in Nat /\ a \in Nat
  BY SaversFinite, MissingFinite
<1>3. m \in Nat /\ m <= n + 1
  BY <1>1, <1>2, CountTurn
<1>4. u \in 0..1 /\ v \in 0..1 /\ u <= v
  <2>1. \A s \in Savers(rq, d) : s \in Savers(rr, d) /\ rr[s] = rq[s]
    BY <1>1 DEF Savers
  <2> QED
    BY <2>1 DEF Safe
<1>5. a + n <= x + u
  BY DEF Bound
<1>6. Bound(rr, d, L, code, A, x + 1) <=> a + m <= x + 1 + v
  BY DEF Bound
<1> HIDE DEF a, n, m, u, v
<1> QED
  BY <1>2, <1>3, <1>4, <1>5, <1>6

\* The first request comes, and keeps what the row shows.
LEMMA BoundFirst ==
    ASSUME NEW rq, NEW rr, NEW r \in Requests, NEW d, NEW L, IsFiniteSet(L),
           NEW code, NEW A, NEW x \in Nat,
           \A s \in Requests \ {r} : rr[s] = rq[s], Savers(rq, d) = {},
           r \in Savers(rr, d) => Keeps(rr[r], L, code, A),
           Bound(rq, d, L, code, A, x)
    PROVE  Bound(rr, d, L, code, A, x)
<1> DEFINE a == Cardinality(Missing(L, code, A))
           m == Cardinality(Savers(rr, d))
<1>1. a \in Nat
  BY MissingFinite
<1>2. a <= x
  <2>1. Cardinality(Savers(rq, d)) = 0 /\ ~Safe(rq, d, L, code, A)
    BY FS_EmptySet DEF Safe
  <2> QED
    BY <1>1, <2>1 DEF Bound
<1>3. Savers(rr, d) \ {r} = {}
  BY SaversTurn
<1>4. CASE r \in Savers(rr, d)
  <2>1. Savers(rr, d) = {r} /\ Safe(rr, d, L, code, A)
    BY <1>3, <1>4 DEF Safe
  <2>2. m = 1
    BY <2>1, FS_Singleton
  <2>3. Bound(rr, d, L, code, A, x) <=> a + m <= x + 1
    BY <2>1 DEF Bound
  <2> HIDE DEF a, m
  <2> QED
    BY <1>1, <1>2, <2>2, <2>3
<1>5. CASE r \notin Savers(rr, d)
  <2>1. Savers(rr, d) = {} /\ ~Safe(rr, d, L, code, A)
    BY <1>3, <1>5 DEF Safe
  <2>2. m = 0
    BY <2>1, FS_EmptySet
  <2>3. Bound(rr, d, L, code, A, x) <=> a + m <= x + 0
    BY <2>1 DEF Bound
  <2> HIDE DEF a, m
  <2> QED
    BY <1>1, <1>2, <2>2, <2>3
<1> QED
  BY <1>4, <1>5

\* A request saves its code c over the row: the parcel that the row showed goes
\* missing, unless another one comes back for it.
LEMMA BoundSaves ==
    ASSUME NEW rq, NEW rr, NEW r \in Requests, NEW d, NEW L, IsFiniteSet(L),
           NEW code, NEW c, NEW A, NEW B, NEW x \in Nat,
           \A s \in Requests \ {r} : rr[s] = rq[s], ~Saves(rr[r]),
           r \in Savers(rq, d), rq[r].kind = "push" \/ c = rq[r].snap.code,
           B \subseteq A, A \ B \subseteq {c},
           Bound(rq, d, L, code, A, x)
    PROVE  Bound(rr, d, L, c, B, x)
<1> DEFINE U == Missing(L, code, A)
           V == Missing(L, c, B)
           a == Cardinality(U)
           b == Cardinality(V)
           n == Cardinality(Savers(rq, d))
           m == Cardinality(Savers(rr, d))
           u == IF Safe(rq, d, L, code, A) THEN 1 ELSE 0
           v == IF Safe(rr, d, L, c, B) THEN 1 ELSE 0
<1>1. Savers(rr, d) = Savers(rq, d) \ {r}
  <2>1. Savers(rr, d) \ {r} = Savers(rq, d) \ {r}
    BY SaversTurn
  <2>2. r \notin Savers(rr, d)
    BY DEF Savers
  <2> QED
    BY <2>1, <2>2
<1>2. /\ IsFiniteSet(Savers(rq, d)) /\ n \in Nat /\ a \in Nat /\ b \in Nat
      /\ IsFiniteSet(U) /\ IsFiniteSet(V)
  BY SaversFinite, MissingFinite
<1>3. m = n - 1
  BY <1>1, <1>2, FS_RemoveElement
<1>4. u \in 0..1 /\ v \in 0..1
  OBVIOUS
<1>5. a + n <= x + u
  BY DEF Bound
<1>6. Bound(rr, d, L, c, B, x) <=> b + m <= x + v
  BY DEF Bound
<1>7. CASE b <= a
  <2> HIDE DEF a, b, n, m, u, v
  <2> QED
    BY <1>2, <1>3, <1>4, <1>5, <1>6, <1>7
<1>8. CASE b <= a + 1 /\ u <= v
  <2> HIDE DEF a, b, n, m, u, v
  <2> QED
    BY <1>2, <1>3, <1>4, <1>5, <1>6, <1>8
<1>9. CASE code \notin L \/ code \in B \/ code = c
  <2>1. V \subseteq U
    BY <1>9 DEF Missing
  <2>2. b <= a
    BY <1>2, <2>1, FS_Subset
  <2> QED
    BY <1>7, <2>2
<1>10. CASE code \in L /\ code \notin B /\ code # c /\ c \in U
  <2>1. V = (U \ {c}) \cup {code} /\ code \notin U \ {c}
    BY <1>10 DEF Missing
  <2>2. IsFiniteSet(U \ {c}) /\ Cardinality(U \ {c}) = a - 1
    BY <1>2, <1>10, FS_RemoveElement
  <2>3. b = a - 1 + 1
    BY <2>1, <2>2, FS_AddElement
  <2>4. b <= a
    BY <1>2, <2>3
  <2> QED
    BY <1>7, <2>4
<1>11. CASE code \in L /\ code \notin B /\ code # c /\ c \notin U
  <2>1. V \ {code} = U \ {code} /\ code \in V
    BY <1>11 DEF Missing
  <2>2. b <= a + 1
    BY <1>2, <2>1, CountTurn
  <2>3. ASSUME NEW s \in Savers(rq, d), Keeps(rq[s], L, code, A)
        PROVE  s \in Savers(rr, d) /\ Keeps(rr[s], L, c, B)
    <3>1. rq[s].kind # "push" /\ rq[s].snap.code \in {code} \cup U
      BY <1>11, <2>3 DEF Keeps
    <3>2. s # r
      BY <1>11, <3>1
    <3>3. s \in Savers(rr, d) /\ rr[s] = rq[s]
      BY <1>1, <3>2 DEF Savers
    <3>4. rq[s].snap.code \in V
      BY <1>11, <2>1, <3>1
    <3> QED
      BY <3>1, <3>3, <3>4 DEF Keeps
  <2>4. u <= v
    BY <2>3 DEF Safe
  <2> QED
    BY <1>8, <2>2, <2>4
<1> QED
  BY <1>9, <1>10, <1>11

--------------------------------------------------------------------------------
\* The codes that pushes for d are about to save.
Arrives(q, d) == q.of = d /\ q.kind = "push" /\ q.pc = "save"
Underway(rq, d) == {rq[s].code : s \in {o \in Requests : Arrives(rq[o], d)}}

LEMMA ArrivingUnderway ==
    ASSUME NEW d
    PROVE  Arriving(d) = Underway(req, d) /\ Arriving(d)' = Underway(req', d)
  BY DEF Arriving, Underway, Arrives, InFlight

LEMMA UnderwayTurn ==
    ASSUME NEW rq, NEW rr, NEW r \in Requests, NEW d,
           \A s \in Requests \ {r} : rr[s] = rq[s]
    PROVE  /\ ~Arrives(rq[r], d) /\ ~Arrives(rr[r], d) => Underway(rr, d) = Underway(rq, d)
           /\ ~Arrives(rq[r], d) /\ Arrives(rr[r], d) =>
                  Underway(rr, d) = Underway(rq, d) \cup {rr[r].code}
           /\ ~Arrives(rr[r], d) => /\ Underway(rr, d) \subseteq Underway(rq, d)
                                    /\ Underway(rq, d) \ Underway(rr, d) \subseteq {rq[r].code}
  BY DEF Underway

\* What TypeInv says of the sets counted here.
LEMMA ParcelTyped ==
    ASSUME TypeInv, NEW d \in Deliveries
    PROVE  /\ excuses[d] \in Nat /\ excuses[d] + 1 \in Nat
           /\ IsFiniteSet(LiveParcels(d)) /\ LiveParcels(d) \subseteq Known
           /\ Known \subseteq Nat
<1>1. PICK n \in 0..MaxParcels : Known = 1..n
  BY DEF TypeInv
<1>2. IsFiniteSet(Known) /\ Known \subseteq Nat
  BY <1>1, FS_Interval, CodesApart
<1>3. LiveParcels(d) \subseteq Known
  BY DEF LiveParcels
<1> QED
  BY <1>2, <1>3, FS_Subset DEF TypeInv, TypeOK

LEMMA LiveParcelsSame ==
    ASSUME NEW d, parcel' = parcel
    PROVE  LiveParcels(d)' = LiveParcels(d)
  BY DEF LiveParcels, Known

\* A request ends and nothing else changes.
LEMMA ParcelQuits ==
    ASSUME TypeInv, ParcelInv, NEW r \in Requests, Finish(r),
           req[r].kind # "push" \/ req[r].pc # "save",
           UNCHANGED <<delivery, parcel, excuses>>
    PROVE  ParcelInv'
<1> SUFFICES ASSUME NEW d \in Deliveries
             PROVE  Bound(req', d, LiveParcels(d)', delivery[d].code, Arriving(d)', excuses[d])
  BY DEF ParcelInv, Tracked
<1>1. PICK rr, x : rr = req' /\ x = excuses[d]
  OBVIOUS
<1>2. rr[r].pc = "idle" /\ \A s \in Requests \ {r} : rr[s] = req[s]
  BY <1>1, TurnForms, TurnRecords, IdleTyped
<1>3. ~Arrives(req[r], d) /\ ~Arrives(rr[r], d) /\ ~Saves(rr[r])
  BY <1>2 DEF Arrives, Saves
<1>4. Arriving(d)' = Arriving(d)
  BY <1>1, <1>2, <1>3, ArrivingUnderway, UnderwayTurn
<1>5. LiveParcels(d)' = LiveParcels(d) /\ IsFiniteSet(LiveParcels(d)) /\ x \in Nat
  BY <1>1, LiveParcelsSame, ParcelTyped
<1>6. Bound(req, d, LiveParcels(d), delivery[d].code, Arriving(d), x)
  BY <1>1 DEF ParcelInv, Tracked
<1>7. Bound(rr, d, LiveParcels(d), delivery[d].code, Arriving(d), x)
  BY <1>2, <1>3, <1>5, <1>6, BoundLeaves
<1> QED
  BY <1>1, <1>4, <1>5, <1>7

\* A request goes on, and of the parcels missing at most one is over.
LEMMA ParcelGoes ==
    ASSUME TypeInv, ParcelInv, NEW r \in Requests, NEW q, Turn(r, q), NEW p,
           q.of = req[r].of, q.kind = req[r].kind, q.snap = req[r].snap,
           Saves(q) <=> Saves(req[r]), UNCHANGED <<delivery, excuses>>,
           \A d \in Deliveries : IsFiniteSet(LiveParcels(d)'),
           \A d \in Deliveries : Tracked(d) \notin LiveParcels(d) => Tracked(d) \notin LiveParcels(d)',
           \A d \in Deliveries : Missing(LiveParcels(d)', Tracked(d), Arriving(d)')
                                    \subseteq Missing(LiveParcels(d), Tracked(d), Arriving(d)),
           \A d \in Deliveries : Missing(LiveParcels(d), Tracked(d), Arriving(d))
                                    \ Missing(LiveParcels(d)', Tracked(d), Arriving(d)')
                                    \subseteq {p}
    PROVE  ParcelInv'
<1> SUFFICES ASSUME NEW d \in Deliveries
             PROVE  Bound(req', d, LiveParcels(d)', delivery[d].code, Arriving(d)', excuses[d])
  BY DEF ParcelInv, Tracked
<1>1. PICK rr, x, M, B : rr = req' /\ x = excuses[d] /\ M = LiveParcels(d)' /\ B = Arriving(d)'
  OBVIOUS
<1>2. rr[r] = q /\ \A s \in Requests \ {r} : rr[s] = req[s]
  BY <1>1, TurnRecords
<1>3. Savers(rr, d) = Savers(req, d)
  BY <1>2 DEF Savers
<1>4. \A s \in Savers(req, d) : rr[s].kind = req[s].kind /\ rr[s].snap = req[s].snap
  BY <1>2 DEF Savers
<1>5. IsFiniteSet(LiveParcels(d)) /\ IsFiniteSet(M) /\ x \in Nat
  BY <1>1, ParcelTyped
<1>6. PICK code : code = Tracked(d)
  OBVIOUS
<1>7. Bound(req, d, LiveParcels(d), code, Arriving(d), x)
  BY <1>1, <1>6 DEF ParcelInv
<1>8. code \notin LiveParcels(d) => code \notin M
  BY <1>1, <1>6
<1>9. Missing(M, code, B) \subseteq Missing(LiveParcels(d), code, Arriving(d))
  BY <1>1, <1>6
<1>10. Missing(LiveParcels(d), code, Arriving(d)) \ Missing(M, code, B) \subseteq {p}
  BY <1>1, <1>6
<1>11. Bound(rr, d, M, code, B, x)
  BY <1>3, <1>4, <1>5, <1>7, <1>8, <1>9, <1>10, BoundMoves
<1> QED
  BY <1>1, <1>6, <1>11 DEF Tracked

\* A request goes on, and carriers do not.
LEMMA ParcelCalls ==
    ASSUME TypeInv, ParcelInv, NEW r \in Requests, NEW pc \in {"retry", "save"}, NEW code, NEW seen,
           Turn(r, Moved(req[r], pc, code, seen)), req[r].pc \in {"call", "retry"},
           req[r].kind = "push" /\ pc = "save" => code \notin Nat,
           UNCHANGED <<delivery, parcel, excuses>>
    PROVE  ParcelInv'
<1>1. PICK q : q = Moved(req[r], pc, code, seen)
  OBVIOUS
<1>2. req[r] \in Request /\ Turn(r, q)
  BY <1>1 DEF TypeInv, TypeOK
<1>3. /\ q.of = req[r].of /\ q.kind = req[r].kind /\ q.snap = req[r].snap
      /\ q.pc = pc /\ q.code = code
  BY <1>1, <1>2, MovedFields
<1>4. Saves(q) <=> Saves(req[r])
  BY <1>3 DEF Saves
<1>5. ASSUME NEW d \in Deliveries
      PROVE  /\ IsFiniteSet(LiveParcels(d)') /\ LiveParcels(d)' = LiveParcels(d)
             /\ Missing(LiveParcels(d)', Tracked(d), Arriving(d)')
                    = Missing(LiveParcels(d), Tracked(d), Arriving(d))
  <2>1. /\ LiveParcels(d)' = LiveParcels(d) /\ IsFiniteSet(LiveParcels(d))
        /\ LiveParcels(d) \subseteq Nat
    BY LiveParcelsSame, ParcelTyped
  <2>2. PICK rr : rr = req'
    OBVIOUS
  <2>3. rr[r] = q /\ \A s \in Requests \ {r} : rr[s] = req[s]
    BY <1>2, <2>2, TurnRecords
  <2>4. ~Arrives(req[r], d)
    BY DEF Arrives
  <2>5. CASE ~Arrives(q, d)
    <3>1. Underway(rr, d) = Underway(req, d)
      BY <2>3, <2>4, <2>5, UnderwayTurn
    <3> QED
      BY <2>1, <2>2, <3>1, ArrivingUnderway
  <2>6. CASE Arrives(q, d)
    <3>1. Underway(rr, d) = Underway(req, d) \cup {code}
      BY <1>3, <2>3, <2>4, <2>6, UnderwayTurn
    <3>2. code \notin LiveParcels(d)
      BY <1>3, <2>1, <2>6 DEF Arrives
    <3>3. Missing(LiveParcels(d), Tracked(d), Underway(rr, d))
            = Missing(LiveParcels(d), Tracked(d), Underway(req, d))
      BY <3>1, <3>2 DEF Missing
    <3> QED
      BY <2>1, <2>2, <3>3, ArrivingUnderway
  <2> QED
    BY <2>5, <2>6
<1>6. \A d \in Deliveries : Tracked(d) \notin LiveParcels(d) => Tracked(d) \notin LiveParcels(d)'
  BY <1>5
<1>7. \A d \in Deliveries : Missing(LiveParcels(d)', Tracked(d), Arriving(d)')
                              \subseteq Missing(LiveParcels(d), Tracked(d), Arriving(d))
  BY <1>5
<1>8. \A d \in Deliveries : Missing(LiveParcels(d), Tracked(d), Arriving(d))
                              \ Missing(LiveParcels(d)', Tracked(d), Arriving(d)') \subseteq {code}
  BY <1>5
<1>9. \A d \in Deliveries : IsFiniteSet(LiveParcels(d)')
  BY <1>5
<1> QED
  BY <1>2, <1>3, <1>4, <1>6, <1>7, <1>8, <1>9, ParcelGoes

\* The order that a push has made is the one it will save.
LEMMA ParcelAccepts ==
    ASSUME TypeInv, CodeInv, ParcelInv, NEW r \in Requests, CarrierAccepts(r)
    PROVE  ParcelInv'
<1>1. PICK p, q : p = Cardinality(Known) + 1 /\ q = Moved(req[r], "save", p, req[r].seen)
  OBVIOUS
<1>2. /\ Known' = Known \cup {p} /\ p \notin Known /\ p \in Nat
      /\ \A k \in Known : parcel'[k] = parcel[k]
      /\ parcel'[p].of = req[r].of /\ parcel'[p].stage = "accepted"
  <2>1. /\ Known' = Known \cup {p} /\ p \notin Known /\ p \in Parcels
        /\ \A k \in Known : parcel'[k] = parcel[k]
        /\ parcel'[p] = [of |-> req[r].of, carrier |-> req[r].carrier,
                         stage |-> "accepted", partnerId |-> req[r].pc = "call"]
    BY <1>1, NextParcel
  <2>2. p \in Nat
    BY <2>1, CodesApart DEF Parcels
  <2>3. parcel'[p].of = req[r].of /\ parcel'[p].stage = "accepted"
    BY <2>1
  <2> QED
    BY <2>1, <2>2, <2>3
<1>3. /\ req[r].kind = "push" /\ req[r].pc \in {"call", "retry"}
      /\ UNCHANGED <<delivery, excuses>>
  BY DEF CarrierAccepts, Calling
<1>4. Turn(r, q) /\ req[r] \in Request
  BY <1>1, TurnForms DEF TypeInv, TypeOK
<1>5. /\ q.of = req[r].of /\ q.kind = "push" /\ q.kind = req[r].kind /\ q.snap = req[r].snap
      /\ q.pc = "save" /\ q.code = p
  BY <1>1, <1>3, <1>4, MovedFields
<1>6. Saves(q) <=> Saves(req[r])
  BY <1>3, <1>5 DEF Saves
<1>7. ASSUME NEW d \in Deliveries
      PROVE  /\ IsFiniteSet(LiveParcels(d)')
             /\ Tracked(d) \notin LiveParcels(d) => Tracked(d) \notin LiveParcels(d)'
             /\ Missing(LiveParcels(d)', Tracked(d), Arriving(d)')
                    = Missing(LiveParcels(d), Tracked(d), Arriving(d))
  <2>1. /\ IsFiniteSet(LiveParcels(d)) /\ p \notin LiveParcels(d)
    BY <1>2, ParcelTyped
  <2>2. PICK rr : rr = req'
    OBVIOUS
  <2>3. rr[r] = q /\ \A s \in Requests \ {r} : rr[s] = req[s]
    BY <1>4, <2>2, TurnRecords
  <2>4. ~Arrives(req[r], d) /\ (Arrives(q, d) <=> d = req[r].of)
    BY <1>3, <1>5 DEF Arrives
  <2>5. LiveParcels(d)' = IF d = req[r].of THEN LiveParcels(d) \cup {p} ELSE LiveParcels(d)
    <3>1. LiveParcels(d)' = {k \in Known' : parcel'[k].of = d /\ parcel'[k].stage \in Live}
      BY DEF LiveParcels
    <3>2. \A k \in Known : k # p
      BY <1>2
    <3> QED
      BY <1>2, <3>1, <3>2 DEF LiveParcels, Live
  <2>6. Underway(rr, d) = IF d = req[r].of THEN Underway(req, d) \cup {p} ELSE Underway(req, d)
    BY <1>5, <2>3, <2>4, UnderwayTurn
  <2>7. Tracked(d) # p
    BY <1>2 DEF CodeInv, Named, OrderOf, Tracked, Known
  <2>8. IsFiniteSet(LiveParcels(d) \cup {p})
    BY <2>1, FS_AddElement
  <2>9. Missing(LiveParcels(d)', Tracked(d), Underway(rr, d))
          = Missing(LiveParcels(d), Tracked(d), Underway(req, d))
    BY <2>1, <2>5, <2>6 DEF Missing
  <2> QED
    BY <2>1, <2>2, <2>5, <2>7, <2>8, <2>9, ArrivingUnderway
<1>8. \A d \in Deliveries : Tracked(d) \notin LiveParcels(d) => Tracked(d) \notin LiveParcels(d)'
  BY <1>7
<1>9. \A d \in Deliveries : Missing(LiveParcels(d)', Tracked(d), Arriving(d)')
                              \subseteq Missing(LiveParcels(d), Tracked(d), Arriving(d))
  BY <1>7
<1>10. \A d \in Deliveries : Missing(LiveParcels(d), Tracked(d), Arriving(d))
                              \ Missing(LiveParcels(d)', Tracked(d), Arriving(d)') \subseteq {p}
  BY <1>7
<1>11. \A d \in Deliveries : IsFiniteSet(LiveParcels(d)')
  BY <1>7
<1> QED
  BY <1>3, <1>4, <1>5, <1>6, <1>8, <1>9, <1>10, <1>11, ParcelGoes

\* A parcel takes another stage: it may be over.
LEMMA LiveStage ==
    ASSUME TypeInv, NEW p \in Known, NEW s, parcel[p].stage \in Live,
           parcel' = [parcel EXCEPT ![p].stage = s], NEW d \in Deliveries
    PROVE  /\ IsFiniteSet(LiveParcels(d)')
           /\ LiveParcels(d)' \subseteq LiveParcels(d)
           /\ LiveParcels(d) \ LiveParcels(d)' \subseteq {p}
<1>1. /\ Known' = Known /\ parcel'[p].of = parcel[p].of
      /\ \A k \in Known \ {p} : parcel'[k] = parcel[k]
  BY SettlesStage
<1>2. LiveParcels(d)' = {k \in Known : parcel'[k].of = d /\ parcel'[k].stage \in Live}
  BY <1>1 DEF LiveParcels
<1>3. LiveParcels(d)' \subseteq LiveParcels(d)
  BY <1>1, <1>2 DEF LiveParcels
<1>4. LiveParcels(d) \ LiveParcels(d)' \subseteq {p}
  BY <1>1, <1>2 DEF LiveParcels
<1> QED
  BY <1>3, <1>4, ParcelTyped, FS_Subset

LEMMA ParcelCancels ==
    ASSUME TypeInv, ParcelInv, NEW r \in Requests, CarrierCancels(r)
    PROVE  ParcelInv'
<1>1. PICK p, q : p = req[r].code /\ q = Moved(req[r], "save", req[r].code, req[r].seen)
  OBVIOUS
<1>2. /\ p \in Known /\ parcel[p].stage \in Live
      /\ parcel' = [parcel EXCEPT ![p].stage = "cancelled"]
      /\ req[r].kind = "cancel" /\ req[r].pc \in {"call", "retry"} /\ Goto(r, "save")
      /\ UNCHANGED <<delivery, excuses>>
  BY <1>1 DEF CarrierCancels, Calling, Understood, Live
<1>3. Turn(r, q) /\ req[r] \in Request
  BY <1>1, <1>2, TurnForms DEF TypeInv, TypeOK
<1>4. q.of = req[r].of /\ q.kind = req[r].kind /\ q.snap = req[r].snap /\ q.pc = "save"
  BY <1>1, <1>3, MovedFields
<1>5. Saves(q) <=> Saves(req[r])
  BY <1>2, <1>4 DEF Saves
<1>6. ASSUME NEW d \in Deliveries
      PROVE  Arriving(d)' = Arriving(d)
  <2>1. PICK rr : rr = req'
    OBVIOUS
  <2>2. rr[r] = q /\ \A s \in Requests \ {r} : rr[s] = req[s]
    BY <1>3, <2>1, TurnRecords
  <2>3. ~Arrives(req[r], d) /\ ~Arrives(rr[r], d)
    BY <1>2, <1>4, <2>2 DEF Arrives
  <2>4. Underway(rr, d) = Underway(req, d)
    BY <2>2, <2>3, UnderwayTurn
  <2> QED
    BY <2>1, <2>4, ArrivingUnderway
<1>7. ASSUME NEW d \in Deliveries
      PROVE  /\ IsFiniteSet(LiveParcels(d)')
             /\ LiveParcels(d)' \subseteq LiveParcels(d)
             /\ LiveParcels(d) \ LiveParcels(d)' \subseteq {p}
  BY <1>2, LiveStage
<1>8. \A d \in Deliveries : Tracked(d) \notin LiveParcels(d) => Tracked(d) \notin LiveParcels(d)'
  BY <1>7
<1>9. \A d \in Deliveries : Missing(LiveParcels(d)', Tracked(d), Arriving(d)')
                              \subseteq Missing(LiveParcels(d), Tracked(d), Arriving(d))
  BY <1>6, <1>7 DEF Missing
<1>10. \A d \in Deliveries : Missing(LiveParcels(d), Tracked(d), Arriving(d))
                              \ Missing(LiveParcels(d)', Tracked(d), Arriving(d)') \subseteq {p}
  BY <1>6, <1>7 DEF Missing
<1>11. \A d \in Deliveries : IsFiniteSet(LiveParcels(d)')
  BY <1>7
<1> QED
  BY <1>2, <1>3, <1>4, <1>5, <1>8, <1>9, <1>10, <1>11, ParcelGoes

LEMMA ParcelOutside ==
    ASSUME TypeInv, ParcelInv,
           CarrierMoves \/ UnknownHook \/ (\E c \in Carriers : Configure(c)) \/ UNCHANGED vars
    PROVE  ParcelInv'
<1>1. UNCHANGED <<delivery, req, excuses>>
  BY DEF CarrierMoves, UnknownHook, Configure, vars
<1> SUFFICES ASSUME NEW d \in Deliveries
             PROVE  Bound(req, d, LiveParcels(d)', Tracked(d), Arriving(d)', excuses[d])
  BY <1>1 DEF ParcelInv, Tracked
<1>2. Arriving(d)' = Arriving(d)
  BY <1>1 DEF Arriving, InFlight
<1>3. Bound(req, d, LiveParcels(d), Tracked(d), Arriving(d), excuses[d])
  BY DEF ParcelInv
<1>4. CASE CarrierMoves
  <2>1. PICK p \in Known, s \in Stages \ {"accepted"} :
          /\ parcel[p].stage \in Live
          /\ parcel' = [parcel EXCEPT ![p].stage = s]
    BY <1>4 DEF CarrierMoves
  <2>2. PICK M, code, A, x : /\ M = LiveParcels(d)' /\ code = Tracked(d)
                             /\ A = Arriving(d) /\ x = excuses[d]
    OBVIOUS
  <2>3. /\ IsFiniteSet(M) /\ M \subseteq LiveParcels(d) /\ LiveParcels(d) \ M \subseteq {p}
    BY <2>1, <2>2, LiveStage
  <2>4. IsFiniteSet(LiveParcels(d)) /\ x \in Nat
    BY <2>2, ParcelTyped
  <2>5. /\ Missing(M, code, A) \subseteq Missing(LiveParcels(d), code, A)
        /\ Missing(LiveParcels(d), code, A) \ Missing(M, code, A) \subseteq {p}
    BY <2>3 DEF Missing
  <2>6. code \notin LiveParcels(d) => code \notin M
    BY <2>3
  <2>7. Bound(req, d, LiveParcels(d), code, A, x)
    BY <1>3, <2>2
  <2>8. Bound(req, d, M, code, A, x)
    BY <2>3, <2>4, <2>5, <2>6, <2>7, BoundMoves
  <2> QED
    BY <1>2, <2>2, <2>8
<1>5. CASE UnknownHook \/ (\E c \in Carriers : Configure(c)) \/ UNCHANGED vars
  <2>1. parcel' = parcel
    BY <1>5 DEF UnknownHook, Configure, vars
  <2>2. LiveParcels(d)' = LiveParcels(d)
    BY <2>1, LiveParcelsSame
  <2> QED
    BY <1>2, <1>3, <2>2
<1> QED
  BY <1>4, <1>5

\* A push that replaces nothing finds no parcel of its delivery under way.
LEMMA PushClear ==
    ASSUME TypeInv, CodeInv, NEW d \in Deliveries, NEW c \in Carriers, NEW force \in BOOLEAN,
           PushAllowed(d, c, force), ~Supersedes(d, c, force)
    PROVE  Tracked(d) \notin LiveParcels(d)
<1> SUFFICES ASSUME Tracked(d) \in LiveParcels(d) PROVE FALSE
  OBVIOUS
<1>1. c = "GHTK" /\ delivery[d].carrier = "GHTK" /\ ~force
  BY DEF Supersedes, Carriers
<1>2. Tracked(d) \in Known /\ parcel[Tracked(d)].stage \in Live /\ Tracked(d) \in Nat
  BY ParcelTyped DEF LiveParcels
<1>3. Tracked(d) # NoCode /\ Tracked(d) # GhtkDemo
  BY <1>2, CodesApart
<1>4. delivery[d].statusId = "cancelled"
  BY <1>1, <1>3, CodesApart DEF PushAllowed
<1>5. Over(parcel, Tracked(d))
  BY <1>1, <1>2, <1>4 DEF CodeInv, Named, Tracked
<1> QED
  BY <1>2, <1>5 DEF Over

LEMMA ParcelBegins ==
    ASSUME TypeInv, ParcelInv, NEW r \in Requests, NEW o \in Deliveries,
           NEW kind, NEW c, NEW code, NEW seen, NEW replaces,
           Begin(r, o, kind, c, code, seen, replaces),
           kind # "push" \/ replaces \/ Tracked(o) \notin LiveParcels(o)
    PROVE  ParcelInv'
<1> DEFINE q == [pc |-> IF kind = "hook" THEN "save" ELSE "call", kind |-> kind,
                 carrier |-> c, of |-> o, snap |-> delivery[o], code |-> code,
                 seen |-> seen]
<1>1. /\ Turn(r, q) /\ req[r].pc = "idle" /\ UNCHANGED <<delivery, parcel>>
      /\ excuses' = [e \in Deliveries |-> IF e = o /\ (Busy(o) \/ replaces) THEN excuses[e] + 1
                                                                       ELSE excuses[e]]
  BY BeginForm
<1>2. /\ q.of = o /\ q.kind = kind /\ q.snap = delivery[o]
      /\ q.pc = "save" => kind = "hook"
  OBVIOUS
<1> HIDE DEF q
<1> SUFFICES ASSUME NEW d \in Deliveries
             PROVE  Bound(req', d, LiveParcels(d)', Tracked(d), Arriving(d)', excuses'[d])
  BY <1>1 DEF ParcelInv, Tracked
<1>3. PICK rr, x, L, t, A : /\ rr = req' /\ x = excuses[d] /\ L = LiveParcels(d)
                            /\ t = Tracked(d) /\ A = Arriving(d)
  OBVIOUS
<1>4. rr[r] = q /\ \A s \in Requests \ {r} : rr[s] = req[s]
  BY <1>1, <1>3, TurnRecords
<1>5. ~Arrives(req[r], d) /\ ~Arrives(rr[r], d) /\ ~Saves(req[r])
  BY <1>1, <1>2, <1>4 DEF Arrives, Saves
<1>6. Arriving(d)' = A
  <2>1. Underway(rr, d) = Underway(req, d)
    BY <1>4, <1>5, UnderwayTurn
  <2> QED
    BY <1>3, <2>1, ArrivingUnderway
<1>7. LiveParcels(d)' = L
  BY <1>1, <1>3, LiveParcelsSame
<1>8. IsFiniteSet(L) /\ x \in Nat
  BY <1>3, ParcelTyped
<1>9. Bound(req, d, L, t, A, x)
  BY <1>3 DEF ParcelInv
<1>10. CASE d = o /\ (Busy(o) \/ replaces)
  <2>1. excuses'[d] = x + 1
    BY <1>1, <1>3, <1>10
  <2>2. Bound(rr, d, L, t, A, x + 1)
    BY <1>4, <1>5, <1>8, <1>9, BoundJoins
  <2> QED
    BY <1>3, <1>6, <1>7, <2>1, <2>2
<1>11. CASE d = o /\ ~Busy(o) /\ ~replaces
  <2>1. excuses'[d] = x
    BY <1>1, <1>3, <1>11
  <2>2. Savers(req, d) = {}
    BY <1>11 DEF Savers, Saves, Busy, InFlight
  <2>3. Keeps(rr[r], L, t, A)
    <3>1. CASE kind = "push"
      BY <1>3, <1>11, <3>1 DEF Keeps
    <3>2. CASE kind # "push"
      BY <1>2, <1>3, <1>4, <1>11, <3>2 DEF Keeps, Tracked
    <3> QED
      BY <3>1, <3>2
  <2>4. Bound(rr, d, L, t, A, x)
    BY <1>4, <1>8, <1>9, <2>2, <2>3, BoundFirst
  <2> QED
    BY <1>3, <1>6, <1>7, <2>1, <2>4
<1>12. CASE d # o
  <2>1. excuses'[d] = x
    BY <1>1, <1>3, <1>12
  <2>2. Savers(rr, d) = Savers(req, d)
    BY <1>2, <1>4, <1>5, <1>12 DEF Savers
  <2>3. \A s \in Savers(req, d) : rr[s].kind = req[s].kind /\ rr[s].snap = req[s].snap
    BY <1>4, <1>5 DEF Savers
  <2>4. /\ t \notin L => t \notin L
        /\ Missing(L, t, A) \subseteq Missing(L, t, A)
        /\ Missing(L, t, A) \ Missing(L, t, A) \subseteq {t}
    OBVIOUS
  <2>5. Bound(rr, d, L, t, A, x)
    BY <1>8, <1>9, <2>2, <2>3, <2>4, BoundMoves
  <2> QED
    BY <1>3, <1>6, <1>7, <2>1, <2>5
<1> QED
  BY <1>10, <1>11, <1>12

LEMMA ParcelBeginning ==
    ASSUME TypeInv, CodeInv, ParcelInv, NEW r \in Requests,
           Push(r) \/ Cancel(r) \/ Sync(r) \/ Hook(r) \/ Export(r) \/ CreateExpense(r)
    PROVE  ParcelInv'
<1>1. ASSUME NEW d \in Deliveries, NEW kind, NEW c, NEW code, NEW seen, NEW replaces,
             kind # "push", Begin(r, d, kind, c, code, seen, replaces)
      PROVE  ParcelInv'
  BY <1>1, ParcelBegins
<1>2. CASE Push(r)
  <2>1. PICK d \in Deliveries, c \in Carriers, force \in BOOLEAN :
          /\ PushAllowed(d, c, force)
          /\ Begin(r, d, "push", c, NoCode, "none", Supersedes(d, c, force))
    BY <1>2 DEF Push
  <2>2. PICK kind, over : kind = "push" /\ over = Supersedes(d, c, force)
    OBVIOUS
  <2>3. Begin(r, d, kind, c, NoCode, "none", over)
    BY <2>1, <2>2
  <2>4. kind # "push" \/ over \/ Tracked(d) \notin LiveParcels(d)
    <3>1. CASE Supersedes(d, c, force)
      BY <2>2, <3>1
    <3>2. CASE ~Supersedes(d, c, force)
      BY <2>1, <3>2, PushClear
    <3> QED
      BY <3>1, <3>2
  <2> QED
    BY <2>3, <2>4, ParcelBegins
<1>3. CASE Cancel(r) \/ Sync(r) \/ Hook(r)
  BY <1>1, <1>3 DEF Cancel, Sync, Hook
<1>4. CASE Export(r) \/ CreateExpense(r)
  BY <1>1, <1>4 DEF Export, CreateExpense
<1> QED
  BY <1>2, <1>3, <1>4

\* The code that a handler saves: a push its own, the others the one they read.
LEMMA SavedCode ==
    ASSUME TypeInv, TrackInv, NEW r \in Requests, req[r].pc = "save", req[r].kind # "expense"
    PROVE  SavedRow(r).code = IF req[r].kind = "push" THEN req[r].code ELSE req[r].snap.code
<1>1. PICK q, row, new : q = req[r] /\ row = q.snap /\ new = SavedRow(r)
  OBVIOUS
<1>2. q \in Request /\ q.kind \in {"push", "cancel", "sync", "hook", "export"}
  BY <1>1 DEF TypeInv, TypedRequest, Request
<1>3. row \in Delivery /\ DOMAIN row = {"carrier", "code", "statusId", "text", "status", "priced"}
  BY <1>1, <1>2 DEF Request, Delivery
<1>4. CASE q.kind = "push"
  <2>1. new = Pushed(row, q.carrier, q.code)
    BY <1>1, <1>4 DEF SavedRow
  <2>2. new.code = q.code
    BY <1>3, <2>1 DEF Pushed
  <2> QED
    BY <1>1, <1>4, <2>2
<1>5. CASE q.kind # "push"
  <2>1. \/ new = [row EXCEPT !.status = "SHIPPED"]
        \/ new \in {Cancelled(row, q.carrier), DemoSynced(row), Reported(row, q.carrier, q.seen)}
    BY <1>1, <1>2, <1>5 DEF SavedRow
  <2>2. new.code = row.code
    BY <1>3, <2>1 DEF Cancelled, DemoSynced, Reported
  <2> QED
    BY <1>1, <1>5, <2>2
<1> QED
  BY <1>4, <1>5

LEMMA ParcelSaves ==
    ASSUME TypeInv, TrackInv, ParcelInv, NEW r \in Requests, Save(r)
    PROVE  ParcelInv'
<1>1. /\ req[r].pc = "save" /\ req[r].kind # "expense"
      /\ delivery' = [delivery EXCEPT ![req[r].of] = SavedRow(r)]
      /\ IF req[r].kind = "export" /\ Journal THEN Goto(r, "book") ELSE Finish(r)
      /\ parcel' = parcel /\ excuses' = excuses
  BY DEF Save
<1>2. PICK q : Turn(r, q) /\ q.pc \in {"idle", "book"}
  <2>1. CASE Finish(r)
    BY <2>1, TurnForms, IdleTyped
  <2>2. CASE Goto(r, "book")
    <3>1. PICK q : q = Moved(req[r], "book", req[r].code, req[r].seen)
      OBVIOUS
    <3>2. Turn(r, q)
      BY <2>2, <3>1, TurnForms
    <3>3. req[r] \in Request
      BY DEF TypeInv, TypeOK
    <3>4. q.pc = "book"
      BY <3>1, <3>3, MovedFields
    <3> QED
      BY <3>2, <3>4
  <2> QED
    BY <1>1, <2>1, <2>2
<1> SUFFICES ASSUME NEW d \in Deliveries
             PROVE  Bound(req', d, LiveParcels(d)', delivery'[d].code, Arriving(d)', excuses[d])
  BY <1>1 DEF ParcelInv, Tracked
<1>3. PICK rr, x, L, t, A, B : /\ rr = req' /\ x = excuses[d] /\ L = LiveParcels(d)
                               /\ t = Tracked(d) /\ A = Arriving(d) /\ B = Arriving(d)'
  OBVIOUS
<1>4. rr[r] = q /\ \A s \in Requests \ {r} : rr[s] = req[s]
  BY <1>2, <1>3, TurnRecords
<1>5. ~Arrives(rr[r], d) /\ ~Saves(rr[r])
  BY <1>2, <1>4 DEF Arrives, Saves
<1>6. LiveParcels(d)' = L
  BY <1>1, <1>3, LiveParcelsSame
<1>7. IsFiniteSet(L) /\ x \in Nat
  BY <1>3, ParcelTyped
<1>8. Bound(req, d, L, t, A, x)
  BY <1>3 DEF ParcelInv
<1>9. A = Underway(req, d) /\ B = Underway(rr, d)
  BY <1>3, ArrivingUnderway
<1>10. CASE d = req[r].of
  <2>1. PICK c : c = SavedRow(r).code
    OBVIOUS
  <2>2. c = IF req[r].kind = "push" THEN req[r].code ELSE req[r].snap.code
    BY <1>1, <2>1, SavedCode
  <2>3. delivery'[d].code = c
    BY <1>1, <1>10, <2>1 DEF TypeInv, TypeOK
  <2>4. B \subseteq A /\ A \ B \subseteq {req[r].code}
    BY <1>4, <1>5, <1>9, UnderwayTurn
  <2>5. req[r].kind # "push" => A = B
    <3>1. req[r].kind # "push" => ~Arrives(req[r], d)
      BY DEF Arrives
    <3> QED
      BY <1>4, <1>5, <1>9, <3>1, UnderwayTurn
  <2>6. A \ B \subseteq {c}
    BY <2>2, <2>4, <2>5
  <2>7. req[r].kind = "push" \/ c = req[r].snap.code
    BY <2>2
  <2>8. r \in Savers(req, d)
    BY <1>1, <1>10 DEF Savers, Saves
  <2>9. Bound(rr, d, L, c, B, x)
    BY <1>4, <1>5, <1>7, <1>8, <2>4, <2>6, <2>7, <2>8, BoundSaves
  <2> QED
    BY <1>3, <1>6, <2>3, <2>9
<1>11. CASE d # req[r].of
  <2>1. delivery'[d].code = t
    BY <1>1, <1>3, <1>11 DEF TypeInv, TypeOK, Tracked
  <2>2. ~Arrives(req[r], d)
    BY <1>11 DEF Arrives
  <2>3. A = B
    BY <1>4, <1>5, <1>9, <2>2, UnderwayTurn
  <2>4. Bound(rr, d, L, t, A, x)
    BY <1>4, <1>5, <1>7, <1>8, BoundLeaves
  <2> QED
    BY <1>3, <1>6, <2>1, <2>3, <2>4
<1> QED
  BY <1>10, <1>11

LEMMA ParcelFails ==
    ASSUME TypeInv, ParcelInv, NEW r \in Requests, Fail(r)
    PROVE  ParcelInv'
<1>1. /\ req[r].pc # "idle" /\ Finish(r) /\ UNCHANGED <<delivery, parcel>>
      /\ excuses' = [excuses EXCEPT ![req[r].of] = @ + 1]
  BY DEF Fail, Excuse
<1> SUFFICES ASSUME NEW d \in Deliveries
             PROVE  Bound(req', d, LiveParcels(d)', Tracked(d), Arriving(d)', excuses'[d])
  BY <1>1 DEF ParcelInv, Tracked
<1>2. PICK rr, x, L, t, A, B : /\ rr = req' /\ x = excuses[d] /\ L = LiveParcels(d)
                               /\ t = Tracked(d) /\ A = Arriving(d) /\ B = Arriving(d)'
  OBVIOUS
<1>3. rr[r].pc = "idle" /\ \A s \in Requests \ {r} : rr[s] = req[s]
  BY <1>1, <1>2, TurnForms, TurnRecords, IdleTyped
<1>4. ~Arrives(rr[r], d) /\ ~Saves(rr[r])
  BY <1>3 DEF Arrives, Saves
<1>5. LiveParcels(d)' = L
  BY <1>1, <1>2, LiveParcelsSame
<1>6. IsFiniteSet(L) /\ x \in Nat
  BY <1>2, ParcelTyped
<1>7. Bound(req, d, L, t, A, x)
  BY <1>2 DEF ParcelInv
<1>8. A = Underway(req, d) /\ B = Underway(rr, d)
  BY <1>2, ArrivingUnderway
<1>9. CASE d = req[r].of
  <2>1. excuses'[d] = x + 1
    BY <1>1, <1>2, <1>9 DEF TypeInv, TypeOK
  <2>2. PICK p : p = req[r].code
    OBVIOUS
  <2>3. B \subseteq A /\ A \ B \subseteq {p}
    BY <1>3, <1>4, <1>8, <2>2, UnderwayTurn
  <2>4. A # B => r \in Savers(req, d)
    <3>1. CASE Arrives(req[r], d)
      BY <3>1 DEF Arrives, Savers, Saves
    <3>2. CASE ~Arrives(req[r], d)
      BY <1>3, <1>4, <1>8, <3>2, UnderwayTurn
    <3> QED
      BY <3>1, <3>2
  <2>5. Bound(rr, d, L, t, B, x + 1)
    BY <1>3, <1>4, <1>6, <1>7, <2>3, <2>4, BoundFails
  <2> QED
    BY <1>2, <1>5, <2>1, <2>5
<1>10. CASE d # req[r].of
  <2>1. excuses'[d] = x
    BY <1>1, <1>2, <1>10 DEF TypeInv, TypeOK
  <2>2. ~Arrives(req[r], d)
    BY <1>10 DEF Arrives
  <2>3. A = B
    BY <1>3, <1>4, <1>8, <2>2, UnderwayTurn
  <2>4. Bound(rr, d, L, t, A, x)
    BY <1>3, <1>4, <1>6, <1>7, BoundLeaves
  <2> QED
    BY <1>2, <1>5, <2>1, <2>3, <2>4
<1> QED
  BY <1>9, <1>10

LEMMA ParcelHandlers ==
    ASSUME TypeInv, ParcelInv, NEW r \in Requests,
           \/ SkipCarrier(r) \/ RetryOtherId(r) \/ CarrierTracks(r) \/ CarrierRefuses(r)
           \/ StockLeaves(r) \/ BookCost(r) \/ FindVoucher(r) \/ InsertVoucher(r)
    PROVE  ParcelInv'
<1>1. UNCHANGED <<delivery, parcel, excuses>>
  BY DEF SkipCarrier, RetryOtherId, CarrierTracks, CarrierRefuses, StockLeaves, BookCost,
     FindVoucher, InsertVoucher, ghosts
<1>2. CASE SkipCarrier(r)
  <2>1. req[r].pc \in {"call", "retry"}
    BY <1>2 DEF SkipCarrier, Calling
  <2>2. CASE Turn(r, Idle) /\ req[r].kind = "sync" /\ req[r].carrier = "GHTK"
    <3>1. Finish(r)
      BY <2>2 DEF Turn, Finish
    <3> QED
      BY <1>1, <2>1, <3>1, ParcelQuits
  <2>3. ASSUME NEW code, code = IF req[r].kind = "push" THEN DemoCode(req[r].carrier)
                                ELSE req[r].code,
               Turn(r, Moved(req[r], "save", code, "demo"))
        PROVE  ParcelInv'
    <3>1. req[r].kind = "push" => code \notin Nat
      BY <2>3, CodesApart DEF DemoCode
    <3>2. PICK pc, seen : pc = "save" /\ seen = "demo"
      OBVIOUS
    <3>3. Turn(r, Moved(req[r], pc, code, seen)) /\ pc \in {"retry", "save"}
      BY <2>3, <3>2
    <3>4. req[r].kind = "push" /\ pc = "save" => code \notin Nat
      BY <3>1
    <3> QED
      BY <1>1, <2>1, <3>3, <3>4, ParcelCalls
  <2>4. PICK code : code = IF req[r].kind = "push" THEN DemoCode(req[r].carrier)
                           ELSE req[r].code
    OBVIOUS
  <2>5. \/ Turn(r, Idle) /\ req[r].kind = "sync" /\ req[r].carrier = "GHTK"
        \/ Turn(r, Moved(req[r], "save", code, "demo"))
    BY <1>2, <2>4, TurnForms
  <2> QED
    BY <2>2, <2>3, <2>4, <2>5
<1>3. CASE RetryOtherId(r) \/ CarrierTracks(r) \/ StockLeaves(r) \/ (FindVoucher(r) /\ Goto(r, "save"))
  <2>1. /\ req[r].pc \in {"call", "retry"}
        /\ RetryOtherId(r) \/ req[r].kind # "push"
    BY <1>3 DEF RetryOtherId, CarrierTracks, StockLeaves, FindVoucher, Calling
  <2>2. PICK pc, code, seen :
          /\ pc \in {"retry", "save"}
          /\ Turn(r, Moved(req[r], pc, code, seen))
          /\ pc = "retry" \/ req[r].kind # "push"
    <3>1. CASE RetryOtherId(r)
      <4>1. Goto(r, "retry")
        BY <3>1 DEF RetryOtherId
      <4> QED
        BY <4>1, TurnForms
    <3>2. CASE CarrierTracks(r)
      <4>1. req[r].kind # "push"
        BY <3>2 DEF CarrierTracks, Calling
      <4>2. Turn(r, Moved(req[r], "save", req[r].code, parcel[req[r].code].stage))
        BY <3>2, TurnForms
      <4> QED
        BY <4>1, <4>2
    <3>3. CASE Goto(r, "save") /\ req[r].kind # "push"
      BY <3>3, TurnForms
    <3> QED
      BY <1>3, <2>1, <3>1, <3>2, <3>3 DEF StockLeaves, Calling, FindVoucher
  <2>3. req[r].kind = "push" /\ pc = "save" => code \notin Nat
    BY <2>2
  <2> QED
    BY <1>1, <2>1, <2>2, <2>3, ParcelCalls
<1>4. CASE CarrierRefuses(r) \/ BookCost(r) \/ InsertVoucher(r) \/ (FindVoucher(r) /\ Finish(r))
  <2>1. Finish(r) /\ (req[r].kind # "push" \/ req[r].pc # "save")
    BY <1>4 DEF CarrierRefuses, BookCost, InsertVoucher, FindVoucher, Calling
  <2> QED
    BY <1>1, <2>1, ParcelQuits
<1> QED
  BY <1>2, <1>3, <1>4 DEF FindVoucher

LEMMA ParcelStep == TypeInv /\ TrackInv /\ CodeInv /\ ParcelInv /\ [Next]_vars => ParcelInv'
<1> SUFFICES ASSUME TypeInv, TrackInv, CodeInv, ParcelInv, [Next]_vars PROVE ParcelInv'
  OBVIOUS
<1> QED
  BY ParcelBeginning, ParcelAccepts, ParcelCancels, ParcelSaves, ParcelFails, ParcelHandlers,
     ParcelOutside DEF Next

LEMMA ParcelAtStart == Init => TypeInv /\ ParcelInv
<1> SUFFICES ASSUME Init PROVE ParcelInv
  BY TypeAtStart
<1> SUFFICES ASSUME NEW d \in Deliveries
             PROVE  Bound(req, d, LiveParcels(d), Tracked(d), Arriving(d), excuses[d])
  BY DEF ParcelInv
<1>1. LiveParcels(d) = {} /\ excuses[d] = 0
  BY DEF Init, LiveParcels, Known
<1>2. Missing(LiveParcels(d), Tracked(d), Arriving(d)) = {}
  BY <1>1 DEF Missing
<1>3. Savers(req, d) = {}
  <2>1. \A r \in Requests : req[r].pc = "idle"
    BY IdleTyped DEF Init
  <2> QED
    BY <2>1 DEF Savers, Saves
<1>4. ~Safe(req, d, LiveParcels(d), Tracked(d), Arriving(d))
  BY <1>3 DEF Safe
<1> QED
  BY <1>1, <1>2, <1>3, <1>4, FS_EmptySet DEF Bound

\* Every parcel under way is one that its delivery shows, or that a push is
\* about to write down, but for one per overlap, lost answer or parcel replaced
\* on purpose: the check of a push for an earlier code holds.
THEOREM ParcelsKnown == Spec => []NoUnknownParcel
<1>1. Init => TypeInv /\ TrackInv /\ CodeInv /\ ParcelInv
  BY ParcelAtStart, TrackAtStart, CodeAtStart
<1>2. TypeInv /\ TrackInv /\ CodeInv /\ ParcelInv /\ [Next]_vars =>
        (TypeInv /\ TrackInv /\ CodeInv /\ ParcelInv)'
  BY TypeStep, TrackStep, CodeStep, ParcelStep
<1>3. TypeInv /\ ParcelInv => NoUnknownParcel
  <2> SUFFICES ASSUME TypeInv, ParcelInv, NEW d \in Deliveries
               PROVE  Cardinality(LiveParcels(d) \ ({Tracked(d)} \cup Arriving(d))) <= excuses[d]
    BY DEF NoUnknownParcel
  <2>1. PICK L, t, A, x : L = LiveParcels(d) /\ t = Tracked(d) /\ A = Arriving(d) /\ x = excuses[d]
    OBVIOUS
  <2>2. Bound(req, d, L, t, A, x)
    BY <2>1 DEF ParcelInv
  <2>3. /\ Cardinality(Missing(L, t, A)) \in Nat /\ Cardinality(Savers(req, d)) \in Nat
        /\ IsFiniteSet(Savers(req, d)) /\ x \in Nat
    BY <2>1, ParcelTyped, MissingFinite, SaversFinite
  <2>4. Safe(req, d, L, t, A) => Cardinality(Savers(req, d)) # 0
    BY <2>3, FS_EmptySet DEF Safe
  <2>5. Cardinality(Missing(L, t, A)) <= x
    BY <2>2, <2>3, <2>4 DEF Bound
  <2> QED
    BY <2>1, <2>5 DEF Missing
<1> QED
  BY <1>1, <1>2, <1>3, PTL DEF Spec
================================================================================
