------------------------------ MODULE Fulfilment ------------------------------
(***************************************************************************)
(* Deliveries of sales orders on top of Bookings: createDelivery,          *)
(* updateDelivery, deleteDelivery and sendDeliveryEmail of                 *)
(* src/src/sales/sales.service.ts and confirmStockExport of                *)
(* src/src/inventory/inventory.service.ts.                                 *)
(*                                                                         *)
(* A clerk's request works through the delivery item by item; goods and    *)
(* counters change with each item, the status of the delivery last.  The   *)
(* parts of a combo are one step.                                          *)
(***************************************************************************)
EXTENDS Bookings

CONSTANTS
    Deliveries,       \* sales_deliveries
    Clerks,           \* slots for delivery requests in flight
    DeliveryCalls,    \* the delivery handlers users call
    NoDelivery,
    NoSku,
    MaxDeliveryCalls  \* bound: delivery requests accepted

DeliveryCallNames == {"deliver", "update", "email", "export", "delete"}

ASSUME FulfilmentConstants ==
    /\ DeliveryCalls \subseteq DeliveryCallNames
    /\ NoSku \notin Skus
    /\ NoDelivery \notin Deliveries
    /\ MaxDeliveryCalls \in Nat

VARIABLES
    delivery,  \* status, order and items (sku -> quantity) of each delivery
    job,       \* the delivery requests in flight
    served,    \* delivery requests so far
    moved,     \* ghost: times an item's goods left the stock for a delivery
    taken,     \* ghost: units of each single a delivery has taken, less returned
    byHand     \* ghost: deliveries set SHIPPED, or changed then, by no export

deliveryVars == <<delivery, job, served, moved, taken, byHand>>
ghosts == <<moved, taken, byHand>>
bookingVars == vars
allVars == <<vars, deliveryVars>>

Open == {"DRAFT", "PENDING_EXPORT", "SHIPPED"}
SkusOf(o) == {SkuOf[l] : l \in LinesOf(o)}
Absent == [status |-> "none", order |-> NoDelivery, items |-> <<>>]

NoJob == [call |-> "idle", id |-> NoDelivery, what |-> Absent, todo |-> <<>>,
          at |-> NoSku, seen |-> NothingRead]

Busy == {c \in Clerks : job[c].call # "idle"}

\* One at a time means: no booking and no delivery request in flight.
ClerksAdmit == Overlap = "any" \/ Busy = {}
DeliveryCall(name) ==
    /\ name \in DeliveryCalls
    /\ served < MaxDeliveryCalls
    /\ served' = served + 1
    /\ ClerksAdmit
    /\ Admits

\* The line that order.items.find(sku) returns.
LineFor(o, sku) == CHOOSE l \in LinesOf(o) : SkuOf[l] = sku

--------------------------------------------------------------------------------
DeliveryInit ==
    /\ Init
    /\ delivery = [d \in Deliveries |-> Absent]
    /\ job = [c \in Clerks |-> NoJob]
    /\ served = 0
    /\ moved = [d \in Deliveries |-> [sku \in Skus |-> 0]]
    /\ taken = [d \in Deliveries |-> [p \in Singles |-> 0]]
    /\ byHand = {}

--------------------------------------------------------------------------------
(* createDelivery *)

\* A draft is not checked; an item is let through for an approved booking or
\* for stock that approvals have left.
Deliverable(o, items, status) ==
    status = "DRAFT" \/ \A sku \in DOMAIN items :
        \/ line[LineFor(o, sku)].status = "CONFIRMED"
        \/ \A p \in Parts(sku) :
              FromZero(stock[p] - approved[p]) >= Units(sku, items[sku])[p]

BeginDeliver(c) ==
    /\ job[c].call = "idle"
    /\ DeliveryCall("deliver")
    /\ \E o \in Orders, status \in {"DRAFT", "PENDING_EXPORT"} :
        \E items \in UNION {[S -> Amounts] : S \in (SUBSET SkusOf(o)) \ {{}}} :
            /\ Deliverable(o, items, status)
            /\ job' = [job EXCEPT ![c] =
                          [NoJob EXCEPT !.call = "deliver", !.seen = Snapshot,
                                        !.what = [status |-> status, order |-> o,
                                                  items |-> items]]]
    /\ UNCHANGED <<bookingVars, delivery, ghosts>>

SaveDelivery(c) ==
    /\ job[c].call = "deliver"
    /\ job[c].id = NoDelivery
    /\ \E d \in Deliveries :
        /\ delivery[d] = Absent
        /\ delivery' = [delivery EXCEPT ![d] = job[c].what]
        /\ job' = [job EXCEPT ![c].id = d]
    /\ UNCHANGED <<bookingVars, served, ghosts>>

\* orderRepo.save cascades to the order's lines as they were read.
SaveOrder(c) ==
    /\ job[c].call = "deliver"
    /\ job[c].id # NoDelivery
    /\ line' = [l \in Lines |-> IF OrderOf[l] = job[c].what.order
                                THEN job[c].seen.line[l] ELSE line[l]]
    /\ job' = [job EXCEPT ![c] = NoJob]
    /\ UNCHANGED <<stock, booking, approved, issued, req, calls, supplied, faults,
                   delivery, served, ghosts>>

--------------------------------------------------------------------------------
(* updateDelivery and sendDeliveryEmail *)

\* The statuses the form offers for a delivery.
Choices(status) ==
    IF status = "DRAFT" THEN {"DRAFT", "PENDING_EXPORT"} ELSE {"PENDING_EXPORT", "SHIPPED"}

\* Status and items are the user's; the stock stays as it is.
UpdateDelivery(d) ==
    /\ delivery[d].status \in Open
    /\ DeliveryCall("update")
    /\ \E status \in Choices(delivery[d].status),
          items \in [DOMAIN delivery[d].items -> Amounts] :
        /\ delivery' = [delivery EXCEPT ![d].status = status, ![d].items = items]
        /\ byHand' = IF "SHIPPED" \in {status, delivery[d].status}
                     THEN byHand \cup {d} ELSE byHand
    /\ UNCHANGED <<bookingVars, job, moved, taken>>

\* The mail goes out, then the delivery is saved as SHIPPED.
SendDeliveryEmail(d) ==
    /\ delivery[d].status \in Open
    /\ DeliveryCall("email")
    /\ delivery' = [delivery EXCEPT ![d].status = "SHIPPED"]
    /\ byHand' = byHand \cup {d}
    /\ UNCHANGED <<bookingVars, job, moved, taken>>

--------------------------------------------------------------------------------
(* confirmStockExport *)

\* Fault seeded: a delivery that was exported is exported again.
ExportableAgain(d) == delivery[d].status \in {"PENDING_EXPORT", "SHIPPED"}

Exportable(d) == delivery[d].status = "PENDING_EXPORT"

\* Fault seeded: combos are left out.
ItemsToExportWithoutCombos(d) ==
    Restrict(delivery[d].items, DOMAIN delivery[d].items \ Combos)

ItemsToExport(d) == delivery[d].items

BeginExport(c, d) ==
    /\ job[c].call = "idle"
    /\ Exportable(d)
    /\ DeliveryCall("export")
    /\ job' = [job EXCEPT ![c] = [NoJob EXCEPT !.call = "export", !.id = d,
                                               !.what = delivery[d],
                                               !.todo = ItemsToExport(d)]]
    /\ UNCHANGED <<bookingVars, delivery, ghosts>>

\* The product is read, then adjustStock takes the goods out.
ExportGoods(c, sku) ==
    LET d == job[c].id
        units == Units(sku, job[c].todo[sku])
    IN  /\ job[c].call = "export"
        /\ job[c].at = NoSku
        /\ sku \in DOMAIN job[c].todo
        /\ stock' = [p \in Singles |-> stock[p] - units[p]]
        /\ moved' = [moved EXCEPT ![d][sku] = @ + 1]
        /\ taken' = [taken EXCEPT ![d] = [p \in Singles |-> @[p] + units[p]]]
        /\ job' = [job EXCEPT ![c].at = sku, ![c].seen = Snapshot]
        /\ UNCHANGED <<booking, approved, line, issued, req, calls, supplied, faults,
                       delivery, served, byHand>>

\* Both counters fall from what was read before the goods left.
ExportCounters(c, sku) ==
    LET units == Units(sku, job[c].todo[sku])
        Less(counter) == [p \in Singles |-> FromZero(counter[p] - units[p])]
    IN  /\ job[c].call = "export"
        /\ job[c].at = sku
        /\ sku \in DOMAIN job[c].todo
        /\ booking' = Written(sku, booking, Less(job[c].seen.booking))
        /\ approved' = Written(sku, approved, Less(job[c].seen.approved))
        /\ job' = [job EXCEPT ![c].at = NoSku, ![c].seen = NothingRead,
                              ![c].todo = Restrict(@, DOMAIN @ \ {sku})]
        /\ UNCHANGED <<stock, line, issued, req, calls, supplied, faults,
                       delivery, served, ghosts>>

\* deliveryRepo.save writes the whole delivery as it was read.
ShipDelivery(c) ==
    /\ job[c].call = "export"
    /\ job[c].at = NoSku
    /\ DOMAIN job[c].todo = {}
    /\ delivery' = [delivery EXCEPT ![job[c].id] = [job[c].what EXCEPT !.status = "SHIPPED"]]
    /\ job' = [job EXCEPT ![c] = NoJob]
    /\ UNCHANGED <<bookingVars, served, ghosts>>

--------------------------------------------------------------------------------
(* deleteDelivery, of an order that is not COMPLETED *)

BeginDelete(c, d) ==
    /\ job[c].call = "idle"
    /\ delivery[d].status \in Open
    /\ DeliveryCall("delete")
    /\ job' = [job EXCEPT ![c] = [call |-> "delete", id |-> d, what |-> delivery[d],
                                  todo |-> delivery[d].items, at |-> NoSku,
                                  seen |-> Snapshot]]
    /\ UNCHANGED <<bookingVars, delivery, ghosts>>

\* Fault seeded: goods of a delivery that was not exported are put back too.
ReturnedAlways(sku, n, status) ==
    [p \in Singles |-> IF sku = p /\ status # "DRAFT" THEN n ELSE 0]

\* What is put back: the product of the item itself.  A combo goes to a stock
\* row of its own, which no availability check reads.
Returned(sku, n, status) ==
    [p \in Singles |-> IF sku = p /\ status = "SHIPPED" THEN n ELSE 0]

DeleteGoods(c, sku) ==
    LET d == job[c].id
        n == job[c].todo[sku]
        back == Returned(sku, n, job[c].what.status)
    IN  /\ job[c].call = "delete"
        /\ job[c].at = NoSku
        /\ sku \in DOMAIN job[c].todo
        /\ stock' = [p \in Singles |-> stock[p] + back[p]]
        /\ taken' = [taken EXCEPT ![d] = [p \in Singles |-> @[p] - back[p]]]
        /\ approved' = IF job[c].what.status # "PENDING_EXPORT" THEN approved
                       ELSE Written(sku, approved,
                                    [p \in Singles |-> FromZero(approved[p] - Units(sku, n)[p])])
        /\ job' = [job EXCEPT ![c].at = sku]
        /\ UNCHANGED <<booking, line, issued, req, calls, supplied, faults,
                       delivery, served, moved, byHand>>

\* The line gives up what the delivery held of its booking.
DeleteLine(c, sku) ==
    LET l == LineFor(job[c].what.order, sku)
        known == job[c].seen.line[l]
        left == FromZero(known.booked - job[c].todo[sku])
    IN  /\ job[c].call = "delete"
        /\ job[c].at = sku
        /\ sku \in DOMAIN job[c].todo
        /\ line' = [line EXCEPT ![l] =
                        [known EXCEPT !.booked = left,
                                      !.status = IF left = 0 THEN "NONE" ELSE @]]
        /\ job' = [job EXCEPT ![c].at = NoSku,
                              ![c].todo = Restrict(@, DOMAIN @ \ {sku})]
        /\ UNCHANGED <<stock, booking, approved, issued, req, calls, supplied, faults,
                       delivery, served, ghosts>>

RemoveDelivery(c) ==
    /\ job[c].call = "delete"
    /\ job[c].at = NoSku
    /\ DOMAIN job[c].todo = {}
    /\ delivery' = [delivery EXCEPT ![job[c].id].status = "deleted"]
    /\ job' = [job EXCEPT ![c] = NoJob]
    /\ UNCHANGED <<bookingVars, served, ghosts>>

--------------------------------------------------------------------------------
\* The server stops in the middle of a delivery request.
FailJob(c) ==
    /\ job[c].call # "idle"
    /\ faults < MaxFaults
    /\ faults' = faults + 1
    /\ job' = [job EXCEPT ![c] = NoJob]
    /\ UNCHANGED <<stock, booking, approved, line, issued, req, calls, supplied,
                   delivery, served, ghosts>>

\* revertBooking refuses once a shipped delivery of the order has the product.
ShippedLine(l) ==
    \E d \in Deliveries : /\ delivery[d].status = "SHIPPED"
                          /\ delivery[d].order = OrderOf[l]
                          /\ SkuOf[l] \in DOMAIN delivery[d].items

BookingStep ==
    /\ ClerksAdmit
    /\ \/ NextButRevert
       \/ \E r \in Requests, l \in Lines : BeginRevert(r, l) /\ ~ShippedLine(l)
    /\ UNCHANGED deliveryVars

ClerkStep(c) ==
    \/ BeginDeliver(c) \/ SaveDelivery(c) \/ SaveOrder(c)
    \/ \E d \in Deliveries : BeginExport(c, d) \/ BeginDelete(c, d)
    \/ \E sku \in Skus : \/ ExportGoods(c, sku) \/ ExportCounters(c, sku)
                         \/ DeleteGoods(c, sku) \/ DeleteLine(c, sku)
    \/ ShipDelivery(c) \/ RemoveDelivery(c)
    \/ FailJob(c)

DeliveryNext ==
    \/ BookingStep
    \/ \E c \in Clerks : ClerkStep(c)
    \/ \E d \in Deliveries : UpdateDelivery(d) \/ SendDeliveryEmail(d)

DeliverySpec == DeliveryInit /\ [][DeliveryNext]_allVars

--------------------------------------------------------------------------------
Items == UNION {[S -> Amounts] : S \in SUBSET Skus}
Delivery == [status : {"none", "deleted"} \cup Open,
             order : Orders \cup {NoDelivery}, items : Items]
Job == [call : {"idle", "deliver", "export", "delete"},
        id : Deliveries \cup {NoDelivery}, what : Delivery, todo : Items,
        at : Skus \cup {NoSku},
        seen : [stock : [Singles -> Int], booking : Counter, approved : Counter,
                line : [Lines -> Line]]]

DeliveryTypeOK ==
    /\ stock \in [Singles -> Int]
    /\ booking \in Counter
    /\ approved \in Counter
    /\ line \in [Lines -> Line]
    /\ delivery \in [Deliveries -> Delivery]
    /\ job \in [Clerks -> Job]
    /\ served \in 0..MaxDeliveryCalls
    /\ moved \in [Deliveries -> [Skus -> Nat]]
    /\ taken \in [Deliveries -> [Singles -> Int]]
    /\ byHand \subseteq Deliveries

\* "SHIPPED means Stock Deducted": unless a user or the delivery mail set it,
\* a shipped delivery has had the goods of every item taken out, whatever was
\* cut short, retried, edited or deleted on the way.
ShippedMeansDeducted ==
    \A d \in Deliveries : (delivery[d].status = "SHIPPED" /\ d \notin byHand) =>
        \A sku \in DOMAIN delivery[d].items : moved[d][sku] >= 1

\* An item's goods leave once; an export that was cut short and tried again
\* can take them once more, no more often.
GoodsLeaveOnce ==
    \A d \in Deliveries, sku \in Skus : d \notin byHand => moved[d][sku] <= 1 + faults

\* confirmBookings approves "no more than the available stock", also after
\* goods have left: no step of an approval raises the counter above the stock.
ApprovalWithinStock ==
    [][\A r \in Requests, l \in Lines : ConfirmCounters(r, l) =>
          \A p \in Singles : approved'[p] > approved[p] => approved'[p] <= stock[p]]_allVars

\* "If delivery was already SHIPPED, restore inventory": a deleted delivery
\* has left the stock as if it had never been.
Restored(d) == \A p \in Singles : taken[d][p] = 0
DeletionRestores ==
    faults = 0 => \A d \in Deliveries :
        (delivery[d].status = "deleted" /\ d \notin byHand) => Restored(d)

\* DeletionRestores for deliveries without combos.
PlainDeletionRestores ==
    faults = 0 => \A d \in Deliveries :
        (/\ delivery[d].status = "deleted"
         /\ d \notin byHand
         /\ DOMAIN delivery[d].items \cap Combos = {}) => Restored(d)
================================================================================
