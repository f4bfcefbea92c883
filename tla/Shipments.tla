------------------------------- MODULE Shipments -------------------------------
(***************************************************************************)
(* Deliveries handed to a carrier: src/src/shipping/carriers               *)
(* ghtk.service.ts and lalamove.service.ts (push, cancel, tracking,        *)
(* webhooks), with the two handlers that share the delivery row and its    *)
(* code with them: confirmStockExport and                                  *)
(* createOrUpdateDeliveryShippingExpense.                                  *)
(*                                                                         *)
(* Every handler loads the delivery, awaits others (the carrier, stock     *)
(* rows, settings) and saves the whole row it loaded.  A request is the    *)
(* statement it will run next and the row it has read.                     *)
(***************************************************************************)
EXTENDS Integers, FiniteSets

CONSTANTS
    Deliveries,   \* sales_deliveries rows
    Requests,     \* slots for the requests in flight
    MaxParcels,   \* bound: orders a carrier accepts
    MaxCalls,     \* bound: requests accepted in a behaviour
    MaxFaults,    \* bound: requests cut short
    Journal,      \* whether expense vouchers are in the picture
    GhtkDemo,     \* the codes GHTK-DEMO-..., made up without a key
    LalamoveDemo, \* the codes LLM_...
    NoCode        \* tracking_code is null

Carriers == {"GHTK", "LALAMOVE"}
Parcels == 1..MaxParcels
DemoCode(c) == IF c = "GHTK" THEN GhtkDemo ELSE LalamoveDemo
Codes == Parcels \cup {GhtkDemo, LalamoveDemo, NoCode}

ASSUME ShipmentConstants ==
    /\ MaxParcels \in Nat
    /\ MaxCalls \in Nat
    /\ MaxFaults \in Nat
    /\ IsFiniteSet(Requests)
    /\ Journal \in BOOLEAN
    /\ Cardinality({GhtkDemo, LalamoveDemo, NoCode}) = 3
    /\ {GhtkDemo, LalamoveDemo, NoCode} \cap Nat = {}

VARIABLES
    delivery,   \* the rows of sales_deliveries
    parcel,     \* external: the orders the carriers know, by number
    hooks,      \* external: webhook calls still to be made
    configured, \* carriers whose API key is in the settings
    voucher,    \* transactions of type EXPENSE that carry the delivery's code
    req,        \* the requests in flight
    calls,      \* requests accepted so far
    faults,     \* requests cut short
    exported,   \* ghost: times the goods of a delivery left the stock
    late,       \* ghost: deliveries that took an event out of order
    excuses     \* ghost: per delivery, overlaps, faults and replaced parcels

vars == <<delivery, parcel, hooks, configured, voucher, req, calls, faults,
          exported, late, excuses>>
ghosts == <<exported, late>>

Stages == {"accepted", "picked", "delivered", "cancelled"}
Live == {"accepted", "picked"}

\* shipping_status_id is written for GHTK only; shipping_status_text holds a
\* Lalamove status or the wording of a GHTK one.
Delivery ==
    [carrier : Carriers \cup {"none"}, code : Codes,
     statusId : Stages \cup {"none"}, text : Stages \cup {"none", "wording"},
     status : {"PENDING_EXPORT", "SHIPPED", "COMPLETED"}, priced : BOOLEAN]

\* Fault seeded: the column status has no default.
NewDeliveryBare ==
    [carrier |-> "none", code |-> NoCode, statusId |-> "none", text |-> "none",
     status |-> "none", priced |-> FALSE]

NewDelivery ==
    [carrier |-> "none", code |-> NoCode, statusId |-> "none", text |-> "none",
     status |-> "PENDING_EXPORT", priced |-> FALSE]

\* partnerId: the order id sent to the carrier is delivery.code itself.
Parcel == [of : Deliveries, carrier : Carriers, stage : Stages, partnerId : BOOLEAN]
Known == DOMAIN parcel

Idle == [pc |-> "idle", kind |-> "none", carrier |-> "none", of |-> "none",
         snap |-> NewDelivery, code |-> NoCode, seen |-> "none"]
InFlight == {r \in Requests : req[r].pc # "idle"}
Busy(d) == \E r \in InFlight : req[r].of = d

Tracked(d) == delivery[d].code
LiveParcels(d) == {p \in Known : parcel[p].of = d /\ parcel[p].stage \in Live}

--------------------------------------------------------------------------------
Init ==
    /\ delivery = [d \in Deliveries |-> NewDelivery]
    /\ parcel = [p \in {} |-> NoCode]
    /\ hooks = {}
    /\ configured = {}
    /\ voucher = [d \in Deliveries |-> [shipping |-> 0, cogs |-> FALSE]]
    /\ req = [r \in Requests |-> Idle]
    /\ calls = 0
    /\ faults = 0
    /\ exported = [d \in Deliveries |-> 0]
    /\ late = {}
    /\ excuses = [d \in Deliveries |-> 0]

Excuse(d, wrong) == excuses' = [excuses EXCEPT ![d] = @ + IF wrong THEN 1 ELSE 0]

\* A handler loads the delivery.  An excuse is noted when another request for
\* it is in flight, or when the call will replace a parcel under way.
Begin(r, d, kind, c, code, seen, replaces) ==
    /\ req[r].pc = "idle"
    /\ calls < MaxCalls
    /\ calls' = calls + 1
    /\ req' = [req EXCEPT ![r] =
            [pc |-> IF kind = "hook" THEN "save" ELSE "call", kind |-> kind,
             carrier |-> c, of |-> d, snap |-> delivery[d], code |-> code, seen |-> seen]]
    /\ Excuse(d, Busy(d) \/ replaces)
    /\ UNCHANGED <<delivery, parcel, hooks, configured, voucher, faults, ghosts>>

Finish(r) == req' = [req EXCEPT ![r] = Idle]
Goto(r, pc) == req' = [req EXCEPT ![r].pc = pc]

\* Fault seeded: a delivery that already has a GHTK parcel is pushed again.
PushAllowedAgain(d, c, force) == TRUE

\* GHTK refuses a second push unless the old code is a demo, is cancelled or
\* the user forces it; Lalamove looks at nothing.
PushAllowed(d, c, force) ==
    c = "GHTK" =>
        \/ Tracked(d) \in {NoCode, DemoCode("GHTK")}
        \/ delivery[d].carrier # "GHTK"
        \/ delivery[d].statusId = "cancelled"
        \/ force

\* The user asks for a new parcel although one is under way: by force, by the
\* other carrier, or by Lalamove, which takes several orders.
Supersedes(d, c, force) ==
    /\ Tracked(d) \in LiveParcels(d)
    /\ force \/ c = "LALAMOVE" \/ c # delivery[d].carrier

Push(r) ==
    \E d \in Deliveries, c \in Carriers, force \in BOOLEAN :
        /\ PushAllowed(d, c, force)
        /\ Begin(r, d, "push", c, NoCode, "none", Supersedes(d, c, force))

\* The cancel and tracking calls need a code, whoever issued it.
Cancel(r) ==
    \E d \in Deliveries, c \in Carriers :
        /\ Tracked(d) # NoCode
        /\ Begin(r, d, "cancel", c, Tracked(d), "none", FALSE)

Sync(r) ==
    \E d \in Deliveries, c \in Carriers :
        /\ Tracked(d) # NoCode
        /\ Begin(r, d, "sync", c, Tracked(d), "none", FALSE)

\* Fault seeded: a delivery in any state is exported.
ExportAllowedAlways(d) == TRUE

ExportAllowed(d) == delivery[d].status = "PENDING_EXPORT"

Export(r) ==
    \E d \in Deliveries :
        /\ ExportAllowed(d)
        /\ Begin(r, d, "export", "none", NoCode, "none", FALSE)

CreateExpense(r) ==
    \E d \in Deliveries :
        /\ Journal
        /\ delivery[d].priced
        /\ Begin(r, d, "expense", "none", NoCode, "none", FALSE)

--------------------------------------------------------------------------------
(***************************************************************************)
(* The carrier's side of a call.                                           *)
(***************************************************************************)
Calling(r, kind) == req[r].pc \in {"call", "retry"} /\ req[r].kind = kind
Demo(r) == req[r].carrier \notin configured \/ req[r].code = DemoCode(req[r].carrier)

\* Without a key, or for a demo code, no carrier is asked.
SkipCarrier(r) ==
    /\ Calling(r, "push") \/ Calling(r, "cancel") \/ Calling(r, "sync")
    /\ Demo(r)
    /\ req' = IF req[r].kind = "sync" /\ req[r].carrier = "GHTK"
              THEN [req EXCEPT ![r] = Idle]
              ELSE [req EXCEPT ![r].pc = "save", ![r].seen = "demo",
                               ![r].code = IF req[r].kind = "push"
                                           THEN DemoCode(req[r].carrier) ELSE @]
    /\ UNCHANGED <<delivery, parcel, hooks, configured, voucher, calls, faults,
                   ghosts, excuses>>

\* External: GHTK keeps one live order per partner id (ORDER_ID_EXIST).
IdTaken(r) ==
    /\ req[r].carrier = "GHTK"
    /\ req[r].pc = "call"
    /\ \E p \in LiveParcels(req[r].of) : parcel[p].carrier = "GHTK" /\ parcel[p].partnerId

\* ORDER_ID_EXIST: the order is sent again under a suffixed id.
RetryOtherId(r) ==
    /\ Calling(r, "push") /\ ~Demo(r) /\ IdTaken(r)
    /\ Goto(r, "retry")
    /\ UNCHANGED <<delivery, parcel, hooks, configured, voucher, calls, faults,
                   ghosts, excuses>>

CarrierAccepts(r) ==
    LET p == Cardinality(Known) + 1
    IN  /\ Calling(r, "push") /\ ~Demo(r) /\ ~IdTaken(r)
        /\ p \in Parcels
        /\ parcel' = [q \in Known \cup {p} |->
                IF q \in Known THEN parcel[q]
                ELSE [of |-> req[r].of, carrier |-> req[r].carrier, stage |-> "accepted",
                      partnerId |-> req[r].pc = "call"]]
        /\ req' = [req EXCEPT ![r].pc = "save", ![r].code = p]
        /\ UNCHANGED <<delivery, hooks, configured, voucher, calls, faults, ghosts, excuses>>

\* The code names an order of the carrier that is asked.
Understood(r) == req[r].code \in Known /\ parcel[req[r].code].carrier = req[r].carrier

CarrierCancels(r) ==
    /\ Calling(r, "cancel") /\ ~Demo(r) /\ Understood(r)
    /\ parcel[req[r].code].stage = "accepted"
    /\ parcel' = [parcel EXCEPT ![req[r].code].stage = "cancelled"]
    /\ Goto(r, "save")
    /\ UNCHANGED <<delivery, hooks, configured, voucher, calls, faults, ghosts, excuses>>

CarrierTracks(r) ==
    /\ Calling(r, "sync") /\ ~Demo(r) /\ Understood(r)
    /\ req' = [req EXCEPT ![r].pc = "save", ![r].seen = parcel[req[r].code].stage]
    /\ UNCHANGED <<delivery, parcel, hooks, configured, voucher, calls, faults,
                   ghosts, excuses>>

\* The carrier answers an error: an exception or a swallowed one, nothing saved.
CarrierRefuses(r) ==
    /\ \/ Calling(r, "push")
       \/ Calling(r, "cancel")
       \/ Calling(r, "sync")
    /\ ~Demo(r)
    /\ Finish(r)
    /\ UNCHANGED <<delivery, parcel, hooks, configured, voucher, calls, faults,
                   ghosts, excuses>>

\* External: a parcel moves on, and the carrier will call the webhook.
CarrierMoves ==
    \E p \in Known, s \in Stages \ {"accepted"} :
        /\ parcel[p].stage \in Live
        /\ parcel[p].stage = "picked" => s = "delivered"
        /\ s = "delivered" => parcel[p].stage = "picked"
        /\ parcel' = [parcel EXCEPT ![p].stage = s]
        /\ hooks' = hooks \cup {[code |-> p, stage |-> s]}
        /\ UNCHANGED <<delivery, configured, voucher, req, calls, faults, ghosts, excuses>>

\* A webhook call arrives, in any order and, until one is answered, again.
Hook(r) ==
    \E m \in hooks, d \in Deliveries :
        /\ Tracked(d) = m.code
        /\ Begin(r, d, "hook", parcel[m.code].carrier, m.code, m.stage, FALSE)

\* No delivery carries the code: the call is answered and forgotten.
UnknownHook ==
    \E m \in hooks :
        /\ \A d \in Deliveries : Tracked(d) # m.code
        /\ hooks' = hooks \ {m}
        /\ UNCHANGED <<delivery, parcel, configured, voucher, req, calls, faults,
                       ghosts, excuses>>

\* An administrator enters the key of a carrier.
Configure(c) ==
    /\ c \notin configured
    /\ configured' = configured \cup {c}
    /\ UNCHANGED <<delivery, parcel, hooks, voucher, req, calls, faults, ghosts, excuses>>

--------------------------------------------------------------------------------
(***************************************************************************)
(* What each handler saves over the row it loaded.                         *)
(***************************************************************************)

\* Fault seeded: the push marks the delivery as waiting for its export.
PushedWaiting(row, c, code) ==
    [row EXCEPT !.carrier = c, !.code = code, !.priced = TRUE, !.status = "PENDING_EXPORT",
                !.text = IF c = "GHTK" THEN "wording" ELSE "accepted",
                !.statusId = IF c = "GHTK" THEN "accepted" ELSE @]

Pushed(row, c, code) ==
    [row EXCEPT !.carrier = c, !.code = code, !.priced = TRUE,
                !.text = IF c = "GHTK" THEN "wording" ELSE "accepted",
                !.statusId = IF c = "GHTK" THEN "accepted" ELSE @]

Cancelled(row, c) ==
    IF c = "GHTK" THEN [row EXCEPT !.statusId = "cancelled", !.text = "wording"]
                  ELSE [row EXCEPT !.text = "cancelled"]

\* Fault seeded: GHTK's delivered parcels leave the status alone.
ReportedSilent(row, c, s) ==
    IF c = "GHTK"
    THEN [row EXCEPT !.statusId = s, !.text = "wording"]
    ELSE [row EXCEPT !.text = s, !.status = IF s = "delivered" THEN "COMPLETED" ELSE @]

\* What a tracking answer or a webhook writes.
Reported(row, c, s) ==
    IF c = "GHTK"
    THEN [row EXCEPT !.statusId = s, !.text = "wording",
                     !.status = IF s = "delivered" THEN "SHIPPED" ELSE @]
    ELSE [row EXCEPT !.text = s,
                     !.status = CASE s = "delivered" -> "COMPLETED"
                                  [] s = "picked" -> "SHIPPED"
                                  [] OTHER -> @]

\* A demo order of Lalamove arrives at its first synchronisation.
DemoSynced(row) ==
    [row EXCEPT !.text = IF @ = "accepted" THEN "delivered" ELSE @,
                !.status = IF row.text = "accepted" THEN "COMPLETED" ELSE @,
                !.priced = TRUE]

SavedRow(r) ==
    LET q == req[r]
    IN  CASE q.kind = "push" -> Pushed(q.snap, q.carrier, q.code)
          [] q.kind = "cancel" -> Cancelled(q.snap, q.carrier)
          [] q.kind = "hook" -> Reported(q.snap, q.carrier, q.seen)
          [] q.kind = "sync" -> IF q.seen = "demo" THEN DemoSynced(q.snap)
                                ELSE Reported(q.snap, q.carrier, q.seen)
          [] q.kind = "export" -> [q.snap EXCEPT !.status = "SHIPPED"]

\* A webhook about a stage its parcel has left behind.
Stale(r) == req[r].kind = "hook" /\ req[r].seen # parcel[req[r].code].stage

Save(r) ==
    LET q == req[r]
    IN  /\ q.pc = "save" /\ q.kind # "expense"
        /\ delivery' = [delivery EXCEPT ![q.of] = SavedRow(r)]
        /\ IF q.kind = "export" /\ Journal THEN Goto(r, "book") ELSE Finish(r)
        /\ hooks' = IF q.kind = "hook" THEN hooks \ {[code |-> q.code, stage |-> q.seen]}
                                       ELSE hooks
        /\ late' = IF Stale(r) THEN late \cup {q.of} ELSE late
        /\ UNCHANGED <<parcel, configured, voucher, calls, faults, exported, excuses>>

\* confirmStockExport takes the goods out before it saves the delivery, ...
StockLeaves(r) ==
    /\ Calling(r, "export")
    /\ exported' = [exported EXCEPT ![req[r].of] = @ + 1]
    /\ Goto(r, "save")
    /\ UNCHANGED <<delivery, parcel, hooks, configured, voucher, calls, faults,
                   late, excuses>>

\* ... and then books their cost under the delivery's code, if they have one.
BookCost(r) ==
    /\ req[r].pc = "book"
    /\ \E costed \in BOOLEAN :
            voucher' = [voucher EXCEPT ![req[r].of].cogs = @ \/ costed]
    /\ Finish(r)
    /\ UNCHANGED <<delivery, parcel, hooks, configured, calls, faults, ghosts, excuses>>

\* Fault seeded: the voucher of the delivery is not looked up.
VoucherFoundNever(d) == FALSE

\* createOrUpdateDeliveryShippingExpense looks for an EXPENSE under the
\* delivery's code: a draft is updated, any other one ends the request.
VoucherFound(d) == voucher[d].shipping > 0 \/ voucher[d].cogs

FindVoucher(r) ==
    LET d == req[r].of
    IN  /\ Calling(r, "expense")
        /\ IF VoucherFound(d)
           THEN Finish(r) ELSE Goto(r, "save")
        /\ UNCHANGED <<delivery, parcel, hooks, configured, voucher, calls, faults,
                       exported, late, excuses>>

InsertVoucher(r) ==
    LET d == req[r].of
    IN  /\ req[r].pc = "save" /\ req[r].kind = "expense"
        /\ voucher' = [voucher EXCEPT ![d].shipping = @ + 1]
        /\ Finish(r)
        /\ UNCHANGED <<delivery, parcel, hooks, configured, calls, faults,
                       exported, late, excuses>>

\* The carrier's answer does not come within the timeout, a statement fails or
\* the process stops: the request ends, what the carrier did stays.
Fail(r) ==
    /\ req[r].pc # "idle"
    /\ faults < MaxFaults
    /\ faults' = faults + 1
    /\ Finish(r)
    /\ Excuse(req[r].of, TRUE)
    /\ UNCHANGED <<delivery, parcel, hooks, configured, voucher, calls, ghosts>>

Next ==
    \/ \E r \in Requests :
        \/ Push(r) \/ Cancel(r) \/ Sync(r) \/ Hook(r) \/ Export(r) \/ CreateExpense(r)
        \/ SkipCarrier(r) \/ RetryOtherId(r) \/ CarrierAccepts(r) \/ CarrierCancels(r)
        \/ CarrierTracks(r) \/ CarrierRefuses(r)
        \/ Save(r) \/ StockLeaves(r) \/ BookCost(r) \/ FindVoucher(r) \/ InsertVoucher(r)
        \/ Fail(r)
    \/ CarrierMoves \/ UnknownHook
    \/ \E c \in Carriers : Configure(c)

Spec == Init /\ [][Next]_vars

--------------------------------------------------------------------------------
Request ==
    [pc : {"idle", "call", "retry", "save", "book"},
     kind : {"none", "push", "cancel", "sync", "hook", "export", "expense"},
     carrier : Carriers \cup {"none"}, of : Deliveries \cup {"none"},
     snap : Delivery, code : Codes,
     seen : Stages \cup {"none", "demo"}]

TypeOK ==
    /\ delivery \in [Deliveries -> Delivery]
    /\ Known \subseteq Parcels
    /\ parcel \in [Known -> Parcel]
    /\ hooks \subseteq [code : Known, stage : Stages]
    /\ configured \subseteq Carriers
    /\ voucher \in [Deliveries -> [shipping : Nat, cogs : BOOLEAN]]
    /\ req \in [Requests -> Request]
    /\ calls \in 0..MaxCalls
    /\ faults \in 0..MaxFaults
    /\ exported \in [Deliveries -> Nat]
    /\ late \subseteq Deliveries
    /\ excuses \in [Deliveries -> Nat]

\* The parcel a push still has to write down.
Arriving(d) == {req[r].code : r \in {o \in InFlight : /\ req[o].of = d
                                                      /\ req[o].kind = "push"
                                                      /\ req[o].pc = "save"}}

\* No parcel is on its way without the delivery knowing its code: the check
\* of pushDeliveryToGhtk holds unless requests for the delivery overlap, an
\* answer is lost, or a push is forced or made with the other carrier, and
\* each such event leaves at most one parcel unknown.
NoUnknownParcel ==
    \A d \in Deliveries :
        Cardinality(LiveParcels(d) \ ({Tracked(d)} \cup Arriving(d))) <= excuses[d]

\* The stock is taken out once per delivery, although every carrier handler
\* writes back the status it read: only an overlap or a fault reopens the
\* export.
GoodsLeaveOnce ==
    \A d \in Deliveries : exported[d] <= 1 + excuses[d]

\* Whatever overlaps, a delivery shown as delivered by GHTK is no longer
\* waiting for its export: handlers write both columns of one reading.
DeliveredIsShipped ==
    \A d \in Deliveries :
        (delivery[d].statusId = "delivered" /\ delivery[d].carrier = "GHTK")
            => delivery[d].status # "PENDING_EXPORT"

\* One draft voucher per delivery's freight, one more per overlap at most.
OneShippingVoucher ==
    \A d \in Deliveries : voucher[d].shipping <= 1 + excuses[d]

\* A delivery never goes back: not to PENDING_EXPORT once it has left it, and
\* not from COMPLETED while it shows a delivered Lalamove order, as long as
\* no requests overlap, no fault strikes and no webhook comes out of order.
NoStepBack ==
    [][\A d \in Deliveries :
        (excuses[d] = 0 /\ d \notin late') =>
            /\ delivery[d].status # "PENDING_EXPORT"
                    => delivery'[d].status # "PENDING_EXPORT"
            /\ (delivery[d].status = "COMPLETED" /\ delivery[d].text = "delivered")
                    => delivery'[d].status = "COMPLETED"]_vars

================================================================================
