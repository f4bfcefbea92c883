------------------------------- MODULE Bookings -------------------------------
(***************************************************************************)
(* Stock bookings of sales order lines: bookItems and checkExpiredBookings *)
(* of src/src/sales/sales.service.ts, confirmBookings, revertBooking and   *)
(* syncBookingStock of src/src/planning/planning.service.ts, the booking   *)
(* part of the sales order update, and the bulk approval that a confirmed  *)
(* goods issue makes.                                                      *)
(*                                                                         *)
(* A handler reads the order, its products and the stock once, then works  *)
(* line by line: it writes the counters of the product, then the line.     *)
(* TypeORM builds one product object per line, so a second line of the     *)
(* same product starts from counters read before the first was written;    *)
(* the parts of a combo are read again for each line.  adjustStock is one  *)
(* step here: StockLedger is about its interleavings.                      *)
(***************************************************************************)
EXTENDS Integers, FiniteSets, Functions

CONSTANTS
    Singles,     \* products that are stocked
    Combos,      \* products of product_type COMBO
    Recipe,      \* combo -> how many of each single it contains
    Lines,       \* sales_order_items
    OrderOf,     \* the order of a line
    SkuOf,       \* the product of a line
    MaxAmount,   \* bound: the largest quantity ordered or asked for
    Opening,     \* stock of each single at the start
    Calls,       \* the handlers users call
    Overlap,     \* whether requests are in flight together
    Requests,    \* slots for requests in flight
    CronSlot,    \* the slot of the hourly job
    NoLine,
    MaxCalls,    \* bound: user requests accepted
    MaxSupply,   \* bound: units that production or purchasing bring in
    MaxFaults    \* bound: requests cut short by a fault

CallNames == {"book", "confirm", "revert", "sync", "issue", "edit"}

ASSUME BookingConstants ==
    /\ Recipe \in [Combos -> [Singles -> Nat]]
    /\ SkuOf \in [Lines -> Singles \cup Combos]
    /\ Singles \cap Combos = {}
    /\ IsFiniteSet(Singles) /\ IsFiniteSet(Combos) /\ IsFiniteSet(Lines)
    /\ Opening \in [Singles -> Nat]
    /\ MaxAmount \in Nat
    /\ Calls \subseteq CallNames
    /\ Overlap \in {"any", "one at a time"}
    /\ CronSlot \in Requests
    /\ NoLine \notin Lines
    /\ MaxCalls \in Nat
    /\ MaxSupply \in Nat
    /\ MaxFaults \in Nat

VARIABLES
    stock,     \* of each single over all warehouses but KHO_MAU
    booking,   \* booking_stock of each single
    approved,  \* approved_booking_stock of each single
    line,      \* quantity and booking fields of each order line
    issued,    \* orders with a confirmed goods issue
    req,       \* the requests in flight
    calls,     \* user requests so far
    supplied,  \* units brought in so far
    faults     \* requests cut short so far

Amounts == 1..MaxAmount

vars == <<stock, booking, approved, line, issued, req, calls, supplied, faults>>

Skus == Singles \cup Combos
Orders == {OrderOf[l] : l \in Lines}
LinesOf(o) == {l \in Lines : OrderOf[l] = o}

BookingStatus == {"NONE", "TEMPORARY", "CONFIRMED", "EXPIRED"}
Line == [qty : 0..MaxAmount, booked : Nat, status : BookingStatus,
         due : {"none", "ahead", "passed"}]
Unbooked(q) == [qty |-> q, booked |-> 0, status |-> "NONE", due |-> "none"]

\* The singles a product is made of, and the units of each in n products.
Contents(sku) ==
    IF sku \in Combos THEN Recipe[sku]
    ELSE [p \in Singles |-> IF p = sku THEN 1 ELSE 0]
Parts(sku) == {p \in Singles : Contents(sku)[p] > 0}
Units(sku, n) == [p \in Singles |-> n * Contents(sku)[p]]

Lesser(a, b) == IF a < b THEN a ELSE b

\* Fault seeded: subtractions are not floored.
NotFloored(n) == n

FromZero(n) == IF n < 0 THEN 0 ELSE n

\* What a handler has read when its first statements are done.
Snapshot == [stock |-> stock, booking |-> booking, approved |-> approved, line |-> line]

NothingRead ==
    [stock |-> [p \in Singles |-> 0], booking |-> [p \in Singles |-> 0],
     approved |-> [p \in Singles |-> 0],
     line |-> [l \in Lines |-> Unbooked(0)]]

Idle == [call |-> "idle", todo |-> [l \in {} |-> 0], at |-> NoLine, seen |-> NothingRead]

InFlight == {r \in Requests : req[r].call # "idle"}

\* The user side: nothing in the code keeps requests apart.
Admits == Overlap = "any" \/ InFlight = {}

Begin(r, call, todo) ==
    /\ req[r].call = "idle"
    /\ Admits
    /\ DOMAIN todo # {}
    /\ req' = [req EXCEPT ![r] = [call |-> call, todo |-> todo, at |-> NoLine,
                                  seen |-> Snapshot]]
    /\ UNCHANGED <<stock, booking, approved, line, issued, supplied, faults>>

UserCall(name) ==
    /\ name \in Calls
    /\ calls < MaxCalls
    /\ calls' = calls + 1

\* Which line the request works on next, and the request once that is done.
Picks(r, call, l) ==
    /\ req[r].call = call
    /\ req[r].at = NoLine
    /\ l \in DOMAIN req[r].todo
Without(r, l) ==
    IF DOMAIN req[r].todo = {l} THEN Idle
    ELSE [req[r] EXCEPT !.todo = Restrict(@, DOMAIN @ \ {l}), !.at = NoLine]

\* The counters a handler starts from: the copy that came with the line, or
\* for a combo the rows getComboComponents reads now.
Known(sku, old, current) == IF sku \in Combos THEN current ELSE old

\* products.update names one column of the parts of this product.
Written(sku, column, value) ==
    [p \in Singles |-> IF p \in Parts(sku) THEN value[p] ELSE column[p]]

--------------------------------------------------------------------------------
Init ==
    /\ stock = Opening
    /\ booking = [p \in Singles |-> 0]
    /\ approved = [p \in Singles |-> 0]
    /\ line \in [Lines -> {Unbooked(q) : q \in Amounts}]
    /\ issued = {}
    /\ req = [r \in Requests |-> Idle]
    /\ calls = 0
    /\ supplied = 0
    /\ faults = 0

--------------------------------------------------------------------------------
(* bookItems *)

NotBooked(l) == FromZero(line[l].qty - line[l].booked)

\* The user names lines and quantities, or none: every unbooked unit then.
\* Lines without anything left are skipped by the loop.
BeginBook(r) ==
    /\ r # CronSlot
    /\ UserCall("book")
    /\ \E o \in Orders :
        \E wanted \in (UNION {[S -> Amounts] : S \in SUBSET LinesOf(o)})
                        \cup {[l \in {m \in LinesOf(o) : NotBooked(m) > 0} |-> NotBooked(l)]} :
            Begin(r, "book", wanted)

\* Fault seeded: the quantity already booked is not taken off.
LeftToBookOfAll(r, l) == Lesser(req[r].todo[l], req[r].seen.line[l].qty)

LeftToBook(r, l) ==
    LET known == req[r].seen.line[l]
    IN  Lesser(req[r].todo[l], known.qty - known.booked)

Fits(r, l) ==
    LET sku == SkuOf[l]
        seen == req[r].seen
        taken == Known(sku, seen.approved, approved)
    IN  \A p \in Parts(sku) :
            seen.stock[p] - taken[p] >= Units(sku, LeftToBook(r, l))[p]

SkipBook(r, l) ==
    /\ Picks(r, "book", l)
    /\ LeftToBook(r, l) <= 0 \/ ~Fits(r, l)
    /\ req' = [req EXCEPT ![r] = Without(r, l)]
    /\ UNCHANGED <<stock, booking, approved, line, issued, calls, supplied, faults>>

BookCounters(r, l) ==
    LET sku == SkuOf[l]
        n == LeftToBook(r, l)
        known == Known(sku, req[r].seen.booking, booking)
    IN  /\ Picks(r, "book", l)
        /\ n > 0
        /\ Fits(r, l)
        /\ booking' = Written(sku, booking,
                              [p \in Singles |-> known[p] + Units(sku, n)[p]])
        /\ req' = [req EXCEPT ![r].at = l, ![r].todo[l] = n]
        /\ UNCHANGED <<stock, approved, line, issued, calls, supplied, faults>>

\* itemRepo.save writes the line back as it was read, with the booking added.
BookLine(r, l) ==
    /\ req[r].call = "book"
    /\ req[r].at = l
    /\ line' = [line EXCEPT ![l] =
                    [req[r].seen.line[l] EXCEPT !.booked = @ + req[r].todo[l],
                                                !.status = "TEMPORARY",
                                                !.due = "ahead"]]
    /\ req' = [req EXCEPT ![r] = Without(r, l)]
    /\ UNCHANGED <<stock, booking, approved, issued, calls, supplied, faults>>

--------------------------------------------------------------------------------
(* confirmBookings *)

\* The approver picks lines of the order, or takes all of them.
BeginConfirm(r) ==
    /\ r # CronSlot
    /\ UserCall("confirm")
    /\ \E o \in Orders :
        \E chosen \in SUBSET {l \in LinesOf(o) : line[l].status = "TEMPORARY"} :
            Begin(r, "confirm", [l \in chosen |-> 0])

\* Fault seeded: the bookings approved before are not taken off the stock.
FillableOfAll(r, l, n) ==
    LET Allows(m) == \A p \in Parts(SkuOf[l]) :
                        Units(SkuOf[l], m)[p] <= FromZero(req[r].seen.stock[p])
    IN  Allows(n) /\ \A m \in 0..req[r].seen.line[l].qty : Allows(m) => m <= n

\* n is as much of the ordered quantity as the stock left by approvals allows.
Fillable(r, l, n) ==
    LET sku == SkuOf[l]
        seen == req[r].seen
        taken == Known(sku, seen.approved, approved)
        Allows(m) == \A p \in Parts(sku) :
                        Units(sku, m)[p] <= FromZero(seen.stock[p] - taken[p])
    IN  Allows(n) /\ \A m \in 0..seen.line[l].qty : Allows(m) => m <= n

\* Fault seeded: the counter starts from zero.
ApprovedFromZero(r, l, n) == Units(SkuOf[l], n)

ApprovedWith(r, l, n) ==
    LET known == Known(SkuOf[l], req[r].seen.approved, approved)
    IN  [p \in Singles |-> known[p] + Units(SkuOf[l], n)[p]]

\* The stock map in memory shrinks by what this request has approved.
ConfirmCounters(r, l) ==
    /\ Picks(r, "confirm", l)
    /\ \E n \in 0..req[r].seen.line[l].qty :
        /\ Fillable(r, l, n)
        /\ approved' = Written(SkuOf[l], approved, ApprovedWith(r, l, n))
        /\ req' = [req EXCEPT
                      ![r].at = l,
                      ![r].todo[l] = n,
                      ![r].seen.stock = [p \in Singles |-> @[p] - Units(SkuOf[l], n)[p]]]
    /\ UNCHANGED <<stock, booking, line, issued, calls, supplied, faults>>

\* A named-column update: the ordered quantity stays as it is.
ConfirmLine(r, l) ==
    /\ req[r].call = "confirm"
    /\ req[r].at = l
    /\ line' = [line EXCEPT ![l].status = "CONFIRMED", ![l].due = "none",
                            ![l].booked = req[r].todo[l]]
    /\ req' = [req EXCEPT ![r] = Without(r, l)]
    /\ UNCHANGED <<stock, booking, approved, issued, calls, supplied, faults>>

--------------------------------------------------------------------------------
(* checkExpiredBookings, the hourly job *)

\* Fault seeded: bookings without a deadline are looked for.
OverdueWithoutDue == {l \in Lines : line[l].status = "TEMPORARY" /\ line[l].due = "none"}

Overdue == {l \in Lines : line[l].status = "TEMPORARY" /\ line[l].due = "passed"}

BeginExpire ==
    /\ Begin(CronSlot, "expire", [l \in Overdue |-> 0])
    /\ UNCHANGED calls

ExpireCounters(r, l) ==
    LET sku == SkuOf[l]
        known == Known(sku, req[r].seen.booking, booking)
        freed == Units(sku, req[r].seen.line[l].booked)
    IN  /\ Picks(r, "expire", l)
        /\ booking' = Written(sku, booking,
                              [p \in Singles |-> FromZero(known[p] - freed[p])])
        /\ req' = [req EXCEPT ![r].at = l]
        /\ UNCHANGED <<stock, approved, line, issued, calls, supplied, faults>>

ExpireLine(r, l) ==
    /\ req[r].call = "expire"
    /\ req[r].at = l
    /\ line' = [line EXCEPT ![l] =
                    [req[r].seen.line[l] EXCEPT !.status = "EXPIRED", !.booked = 0,
                                                !.due = "none"]]
    /\ req' = [req EXCEPT ![r] = Without(r, l)]
    /\ UNCHANGED <<stock, booking, approved, issued, calls, supplied, faults>>

--------------------------------------------------------------------------------
(* revertBooking *)

\* Deliveries that went out refuse a revert: Fulfilment adds that guard.
BeginRevert(r, l) ==
    /\ r # CronSlot
    /\ UserCall("revert")
    /\ line[l].status = "CONFIRMED"
    /\ Begin(r, "revert", [m \in {l} |-> 0])

RevertCounters(r, l) ==
    LET sku == SkuOf[l]
        known == Known(sku, req[r].seen.approved, approved)
        freed == Units(sku, req[r].seen.line[l].booked)
    IN  /\ Picks(r, "revert", l)
        /\ approved' = Written(sku, approved,
                               [p \in Singles |-> FromZero(known[p] - freed[p])])
        /\ req' = [req EXCEPT ![r].at = l]
        /\ UNCHANGED <<stock, booking, line, issued, calls, supplied, faults>>

RevertLine(r, l) ==
    /\ req[r].call = "revert"
    /\ req[r].at = l
    /\ line' = [line EXCEPT ![l] =
                    [req[r].seen.line[l] EXCEPT !.status = "TEMPORARY", !.due = "ahead"]]
    /\ req' = [req EXCEPT ![r] = Without(r, l)]
    /\ UNCHANGED <<stock, booking, approved, issued, calls, supplied, faults>>

--------------------------------------------------------------------------------
(* syncBookingStock, the goods issue and the order update *)

\* Units booked on a set of lines, by single.
BookedOn(lines) ==
    [p \in Singles |->
        SumFunctionOnSet([l \in Lines |-> Units(SkuOf[l], line[l].booked)[p]], lines)]
BookedAs(status) == BookedOn({l \in Lines : line[l].status = status})

\* getBookingStats groups the lines by sku, then takes combos apart.
BookedTotal(sku, status) ==
    SumFunctionOnSet([l \in Lines |-> line[l].booked],
                     {l \in Lines : SkuOf[l] = sku /\ line[l].status = status})

\* Fault seeded: combos are not taken apart.
StatisticsOfSingles(status) == [p \in Singles |-> BookedTotal(p, status)]

Statistics(status) ==
    [p \in Singles |->
        SumFunctionOnSet([sku \in Skus |-> Units(sku, BookedTotal(sku, status))[p]], Skus)]

\* The statistics are read first, the products are saved afterwards; the
\* products that need no change are skipped.
BeginSync(r) ==
    /\ r # CronSlot
    /\ UserCall("sync")
    /\ req[r].call = "idle"
    /\ Admits
    /\ req' = [req EXCEPT ![r] =
                  [call |-> "sync", todo |-> [p \in Singles |-> 0], at |-> NoLine,
                   seen |-> [Snapshot EXCEPT !.booking = Statistics("TEMPORARY"),
                                             !.approved = Statistics("CONFIRMED")]]]
    /\ UNCHANGED <<stock, booking, approved, line, issued, supplied, faults>>

SyncProduct(r, p) ==
    /\ req[r].call = "sync"
    /\ p \in DOMAIN req[r].todo
    /\ booking' = [booking EXCEPT ![p] = req[r].seen.booking[p]]
    /\ approved' = [approved EXCEPT ![p] = req[r].seen.approved[p]]
    /\ req' = [req EXCEPT ![r].todo = Restrict(@, DOMAIN @ \ {p})]
    /\ UNCHANGED <<stock, line, issued, calls, supplied, faults>>

\* The lines an approval in bulk turns CONFIRMED, counters left alone.
ApprovedInBulk(orders, due) ==
    [l \in Lines |->
        IF OrderOf[l] \in orders /\ line[l].status = "TEMPORARY"
        THEN [line[l] EXCEPT !.status = "CONFIRMED", !.due = due[l]]
        ELSE line[l]]

\* The SQL that ends the sync: bookings of orders whose materials are issued.
SyncLines(r) ==
    /\ req[r].call = "sync"
    /\ DOMAIN req[r].todo = {}
    /\ line' = ApprovedInBulk(issued, [l \in Lines |-> line[l].due])
    /\ req' = [req EXCEPT ![r] = Idle]
    /\ UNCHANGED <<stock, booking, approved, issued, calls, supplied, faults>>

\* confirmGoodsIssue of the order's production plan, after its own work.
ConfirmGoodsIssue(o) ==
    /\ UserCall("issue")
    /\ Admits
    /\ issued' = issued \cup {o}
    /\ line' = ApprovedInBulk({o}, [l \in Lines |-> "none"])
    /\ UNCHANGED <<stock, booking, approved, req, supplied, faults>>

\* Fault seeded: an approved booking is not carried over by an order update.
CarriedUnlessApproved(o, sku) ==
    {l \in LinesOf(o) : SkuOf[l] = sku /\ line[l].status \in {"TEMPORARY", "EXPIRED"}}

\* The bookings an order update carries over to lines of the same sku.
Carried(o, sku) == {l \in LinesOf(o) : SkuOf[l] = sku /\ line[l].status # "NONE"}

\* The order update deletes the lines and inserts them again; a booking is
\* carried over by sku, the last one read when the order has several.  A
\* request that holds the ids of deleted lines is outside this model.
EditOrder(o) ==
    /\ UserCall("edit")
    /\ InFlight = {}
    /\ \E qty \in [LinesOf(o) -> Amounts], last \in [Skus -> Lines] :
        /\ \A sku \in Skus : Carried(o, sku) # {} => last[sku] \in Carried(o, sku)
        /\ line' = [l \in Lines |->
                IF l \notin LinesOf(o) THEN line[l]
                ELSE IF Carried(o, SkuOf[l]) = {} THEN Unbooked(qty[l])
                ELSE [line[last[SkuOf[l]]] EXCEPT !.qty = qty[l]]]
    /\ UNCHANGED <<stock, booking, approved, issued, req, supplied, faults>>

--------------------------------------------------------------------------------
(* The surroundings *)

\* Production, purchasing and stock counts bring units in through adjustStock.
Supply(p) ==
    /\ supplied < MaxSupply
    /\ Admits
    /\ supplied' = supplied + 1
    /\ stock' = [stock EXCEPT ![p] = @ + 1]
    /\ UNCHANGED <<booking, approved, line, issued, req, calls, faults>>

\* Five days go by.
DeadlinePasses(l) ==
    /\ line[l].due = "ahead"
    /\ line' = [line EXCEPT ![l].due = "passed"]
    /\ UNCHANGED <<stock, booking, approved, issued, req, calls, supplied, faults>>

\* A statement fails or the server stops: the rest of the request is lost,
\* what it has written stays.
Fail(r) ==
    /\ req[r].call # "idle"
    /\ faults < MaxFaults
    /\ faults' = faults + 1
    /\ req' = [req EXCEPT ![r] = Idle]
    /\ UNCHANGED <<stock, booking, approved, line, issued, calls, supplied>>

StepOf(r) ==
    \/ \E l \in Lines :
        \/ SkipBook(r, l) \/ BookCounters(r, l) \/ BookLine(r, l)
        \/ ConfirmCounters(r, l) \/ ConfirmLine(r, l)
        \/ ExpireCounters(r, l) \/ ExpireLine(r, l)
        \/ RevertCounters(r, l) \/ RevertLine(r, l)
    \/ \E p \in Singles : SyncProduct(r, p)
    \/ SyncLines(r)

Revert == \E r \in Requests, l \in Lines : BeginRevert(r, l)

NextButRevert ==
    \/ \E r \in Requests :
        \/ BeginBook(r) \/ BeginConfirm(r) \/ BeginSync(r)
        \/ StepOf(r)
        \/ Fail(r)
    \/ BeginExpire
    \/ \E o \in Orders : ConfirmGoodsIssue(o) \/ EditOrder(o)
    \/ \E p \in Singles : Supply(p)
    \/ \E l \in Lines : DeadlinePasses(l)

Next == Revert \/ NextButRevert

Spec == Init /\ [][Next]_vars

\* An awaited statement is eventually answered, and the scheduler runs the job.
FairSpec ==
    /\ Spec
    /\ \A r \in Requests : WF_vars(StepOf(r))
    /\ WF_vars(BeginExpire)

--------------------------------------------------------------------------------
Counter == [Singles -> Nat]

\* What is left to do: a quantity for each line, or each product of a sync.
Todo == UNION {[S -> 0..MaxAmount] : S \in SUBSET (Lines \cup Singles)}

Request ==
    [call : CallNames \cup {"idle", "expire"},
     todo : Todo,
     at : Lines \cup {NoLine},
     seen : [stock : [Singles -> Int], booking : Counter, approved : Counter,
             line : [Lines -> Line]]]

\* Counters stay natural numbers, bookings keep their fields.
TypeOK ==
    /\ stock \in Counter
    /\ booking \in Counter
    /\ approved \in Counter
    /\ line \in [Lines -> Line]
    /\ issued \subseteq Orders
    /\ req \in [Requests -> Request]
    /\ calls \in 0..MaxCalls
    /\ supplied \in 0..MaxSupply
    /\ faults \in 0..MaxFaults

\* However approvals, reverts and the job interleave, approved_booking_stock
\* of a product never exceeds its stock, goods leaving aside: a stale approval
\* writes a total that was within a stock which has only grown since.
ApprovedWithinStock == \A p \in Singles : approved[p] <= stock[p]

\* "Prevent over-booking": no request leaves a line with more booked than
\* ordered, whatever it has read and whoever wrote the line meanwhile.
NeverOverbooked ==
    [][\A l \in Lines :
          line'[l].booked > line[l].booked => line'[l].booked <= line'[l].qty]_vars

\* Every unit of an approved booking is counted in approved_booking_stock, so
\* the next approval does not give it away again; a booking in the middle of
\* its revert aside, and as long as no request was cut short.
ApprovedCoversConfirmed ==
    faults = 0 => \A p \in Singles :
        BookedOn({l \in Lines : line[l].status = "CONFIRMED"
                                 /\ \A r \in Requests : req[r].at # l})[p] <= approved[p]

\* What syncBookingStock leaves behind are the totals of the lines as they are.
SyncIsExact ==
    [][\A r \in Requests : SyncLines(r) =>
          /\ booking' = BookedAs("TEMPORARY")'
          /\ approved' = BookedAs("CONFIRMED")']_vars

\* "Preserve booking data": an order update carries every booking over.
EditKeepsBookings ==
    [][\A o \in Orders : EditOrder(o) =>
          /\ BookedAs("TEMPORARY")' = BookedAs("TEMPORARY")
          /\ BookedAs("CONFIRMED")' = BookedAs("CONFIRMED")]_vars

\* A temporary booking past its deadline does not hold stock for ever.
OverdueReleased ==
    \A l \in Lines : (line[l].status = "TEMPORARY" /\ line[l].due = "passed")
                        ~> ~(line[l].status = "TEMPORARY" /\ line[l].due = "passed")
================================================================================
