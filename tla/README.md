# Hula ERP: specifications, model checking and proofs

Hula ERP is a NestJS back end (`src/src`) over PostgreSQL through TypeORM, with a
React user interface (`src/frontend`) and a public website (`src/hula-web`). This
directory holds TLA+ specifications of its core, the TLC runs that check them on
small instances and the proofs TLAPS checks for instances of any size.

Contents: 1 the system, 2 how the code is turned into TLA+, 3 the modules, 4 the
runs, 5 the proofs, 6 divergences met on the way, 7 what is not modelled, 8 plan.

## 1. The system

### 1.1 What makes it hard

The back end never opens a database transaction and takes no lock. A handler is a
series of awaited statements: it reads rows, decides, and writes them back. Three
kinds of write appear, and they differ in what they destroy:

* `repository.save(entity)` writes an entity loaded earlier. Columns that changed
  meanwhile are written back stale, and on `SalesOrder` the save cascades to lines.
* `repository.update(id, {..})` writes only the named columns, with values that were
  computed from a row read earlier.
* raw SQL `UPDATE` on many rows, which reads what it writes.

So every pair of requests can interleave between statements, every handler can stop
half-way (an exception, a lost connection, a restart) with its writes kept, and
nothing is retried by the program: the user clicks again. Three cron jobs run:
`checkExpiredBookings` (hourly), `checkDeadlines` (each minute), the ZNS token refresh
(every four hours). External calls go to two couriers, an e-invoice service, ZNS,
TikTok and an AI provider.

### 1.2 Components, their state, what makes them correct

| component | state | operations | what must hold |
|---|---|---|---|
| stock ledger (`inventory.service.ts`) | `inventory_stocks`, `quantity_in_stock`, `stock_history` | adjustStock, transferStock, convertBtp, resetAllStocks | quantities are neither invented nor lost; the history and the cached total agree with the rows |
| bookings (`sales.service.ts`, `planning.service.ts`) | booking fields of order lines, `booking_stock`, `approved_booking_stock` | bookItems, confirmBookings, revertBooking, checkExpiredBookings, syncBookingStock, SalesService.update | approvals fit the stock, a line is not overbooked, overdue bookings end |
| deliveries (`sales.service.ts`, `inventory.service.ts`) | `sales_deliveries`, with the two above | createDelivery, updateDelivery, sendDeliveryEmail, confirmStockExport, deleteDelivery | SHIPPED means the goods left, once; deletion puts them back |
| goods issues and receipts (`inventory.service.ts`) | issues, receipts and items | create, update, confirm, deliver, delete | a document moves the stock once, and only when confirmed |
| purchase orders (`purchasing.service.ts`) | orders, items, received and paid amounts, pooled orders | create, send, confirm by the supplier, receive, pay | status follows what was received; a pooled order is the sum of its children |
| finance (`finance.service.ts`) | transactions with allocations | createPayment, createBulkPoPayment, deleteTransaction, updateTransaction | `payment_status` and `paid_amount` follow the transactions |
| production file orders (`planning/pfo-*.ts`) | PFO, requirements, milestones, QC records | generatePfo, assignVendor, generatePos, updateMaterialIssue, submitQcRecord | sourcing covers the need once; the issued material stays below the planned |
| work orders (`production.service.ts`) | work orders and steps | start, updateStepStatus, finish | the finished goods come in once |
| shipping (`shipping/carriers`) | courier fields of deliveries | push, cancel, track, webhook | one parcel per delivery; a status never goes back |
| customers and credit | customer, credit rows, balance | addCredit | balance is the sum of the rows |
| ZNS and TikTok | access and refresh tokens, conversations | refresh, send, webhooks | a one-time refresh token is used once |
| tasks, HR, QC, portal, projects, designs, marketing, social, announcements, discussions, notifications, AI, analytics, uploads, system, users | one or two tables each | CRUD and a few check-then-insert handlers | mostly local rules |
| user interfaces, scripts | browser state | HTTP calls | out of scope |

`PROJECT.json` lists every component with its status, and under `hazards` the places
where the code can go wrong in a way that a test would hardly reach.

### 1.3 How they interact

Every movement of goods ends in `InventoryService.adjustStock`: goods receipts, goods
issues, production, deliveries and their deletion, stock counts and imports. Bookings
read the stock that the ledger keeps, and write counters on the product row, which
the ledger also writes (`quantity_in_stock`). Deliveries read bookings, move goods and
lower the counters. Production file orders are made from sales orders and create
purchase orders and goods issues; confirming a goods issue approves the bookings of
its order. The status of a production file order is written by five handlers, one of them
in inventory and two in purchasing. Confirming a receipt writes stock, the supplier's debt, the order's total and
its status. Couriers write the status and tracking fields of deliveries, which the export
and the freight voucher read. Finance writes `payment_status` of sales orders and asks purchasing to write
`paid_amount` of purchase orders.

## 2. How the code is turned into TLA+

* One action per awaited statement that changes or reads shared state; statements
  that read rows nobody else writes in the model are merged with their neighbour.
  A request is a record: the statement that comes next, and what it has read.
* `save` writes the row as read, with the change; `update` writes the named columns.
* A fault (`Fail`, `FailJob`, `Crash`) forgets a request and keeps its writes. The number
  of faults is bounded by `MaxFaults`.
* `Overlap` is an assumption on the environment, not on the code: whether users have
  several requests in flight. Nothing in the code prevents `"any"`. Some properties
  survive it, others hold for requests one after another only, and each run says
  which. The value `"distinct rows"` of the ledger lies between.
* Products, warehouses, orders and lines are model values; quantities are small
  numbers. Prices, names, notes, users and dates are left out; a deadline is
  none, ahead or passed.
* Properties about sums need to know what was brought in and taken out. Ghost
  variables record it (marked `ghost` or `history` in the module); no guard reads them.

Definitions that say "Fault seeded" are not part of any specification: each is the
mutated form of a definition, a plausible bug that the property named for it in
`PROJECT.json` must catch.

## 3. The modules

| module | models | lines of code read |
|---|---|---|
| `StockLedger` | stock rows, cached totals, history; four handlers, statement by statement | `inventory.service.ts` 103-256 |
| `AtomicLedger` | what the ledger promises: adjust, move, reset in one step | abstract |
| `StockLedgerProofs` | theorems about `StockLedger` | |
| `Bookings` | bookings, approvals, the hourly job, resync, order update | `sales.service.ts` 396-460, 1107-1243; `planning.service.ts` 476-567, 662-850 |
| `BookingsProofs` | theorems about `Bookings` | |
| `Fulfilment` | extends `Bookings` with deliveries and the stock export | `sales.service.ts` 837-1104, 1246-1321; `inventory.service.ts` 578-661 |
| `FulfilmentProofs` | theorems about `Fulfilment` | |
| `Payments` | transactions, payment status of sales orders, paid amounts of purchase orders and of pools | `finance.service.ts` 56-219, 566-592; `purchasing.service.ts` 275-388, 995-1013; `sales.service.ts` 336-462 |
| `PaymentsProofs` | theorems about `Payments` | |
| `Shipments` | a delivery's parcels at two couriers, webhooks, freight voucher | `ghtk.service.ts` 614-1040, 1353-1467; `lalamove.service.ts` 772-987, 1094-1217; `inventory.service.ts` 578-689; `finance.service.ts` 473-560 |
| `ShipmentsProofs` | theorems about `Shipments` | |
| `Sourcing` | a production file order, its requirements, drafts of orders, goods issues | `pfo-sourcing.service.ts` 30-554; `pfo-execution.service.ts` 21-109; `pfo-bom-engine.service.ts` 330-412; `planning.service.ts` 412-474; `inventory.service.ts` 698-978; `purchasing.service.ts` 660-771 |
| `SourcingProofs` | theorems about `Sourcing` | |
| `Receiving` | receipts against purchase orders, debt, status of the order | `inventory.service.ts` 329-558; `purchasing.service.ts` 275-336, 629-771; `planning.service.ts` 444-474 |
| `ReceivingProofs` | theorems about `Receiving` | |
| `SumTheorems` | lemmas about sums over finite sets, used by the other proofs | |
| `MC...` | model values, recipes and orders for TLC, one per module | |

**StockLedger.** A request is a list of one or two `adjustStock` calls (`legs`): one for
a plain adjustment, two for a transfer or a conversion. A call is five statements:
`FindRow`, `SaveRow` (or `SaveRejected`, when two calls insert the same row and the
unique index refuses the second), `SumRows`, `UpdateMaster`, `WriteHistory`. The sum
and the write of `quantity_in_stock` are two statements, as in the code. A reset is four
statements. Whether `save` inserts or updates depends on the primary key; the key is
the era (number of truncations) in which the row was inserted. The history is kept
as the sum of its entries and the last `balance_after`, which is all the properties
read. Existence of the item is assumed: the handlers look it up and throw.

**Bookings.** A combo is not stocked; its parts are (`Recipe`). A request keeps
`seen`, the snapshot of its first statements, and `todo`, the lines left. For each line
it writes the counters of the product (one statement), then the line (another). For
a plain product the counters start from the copy that came with the line; for a combo
`getComboComponents` reads the parts again (`Known`). `booking_stock` and
`approved_booking_stock` are columns that `products.update` names one at a time
(`Written`). The writes to the parts of one combo are one step. `adjustStock` is one
step (`Supply`). The update of an order (`EditOrder`) is modelled when no other request
is in flight: the code deletes and inserts the lines, and a request that holds ids of
deleted lines is outside the model. The stock is the total over all warehouses but
KHO_MAU, as the handlers compute it.

**Fulfilment.** A clerk's request runs through a delivery item by item. The combo's
own stock row, which only `deleteDelivery` ever writes, is left out. Which statuses a user
can choose in `updateDelivery` is taken from the form in `SalesDeliveries.tsx`
(the handler accepts any). `deleteDelivery` is modelled for orders that are not
COMPLETED; the handler refuses the others.

**Payments.** Each call of `syncSOPaymentStatus` is three statements (read the order, sum
its rows, save the order whole); each payment of a purchase order is a read of the order
with its children, its save, and a save per child. `received` is the sum that the
synchronisation takes, kept as the rows change, and `TypeOK` says that it is that sum; the
proofs need it because they cannot fold. Allocations of one payment name a purchase order once and are
taken in any order. An approval, and an update with the read of its answer, are one
step each. Order updates (`SalesService.update`, `updatePO`) are there with the columns that payments
read or write: a new total, and the other column as it was read; their other columns, VAT and
discounts are left out. A pooled order is given at the start, with the total of its children; it
has no items of its own, so no screen gives it another total. Refunds are expenses
that name the order with another type; nothing reads them here. The ghosts
`shrunk` and `behind` record which orders lost income or got a higher total, and which were changed
with no synchronisation after it; `crowded` says that two requests have overlapped.

**Shipments.** Requests call the courier and then save the delivery row they read before
(`Push`, `CarrierAccepts` or `CarrierRefuses` or `CarrierTracks`, `Save`). What the courier did stays when its answer is
lost (`Fail`). A parcel moves on its own (`CarrierMoves`), and each move can be reported by a
webhook, in any order and again until one is answered. A code without a parcel, and the demo mode without
configuration, answer without a courier. `excuses` counts for each delivery what the code leaves to its users:
requests that overlap, faults, and pushes that replace a parcel on purpose (forced, or
with the other courier). GHTK statuses that leave `delivery.status` alone count as "picked".

**Sourcing.** A purchase order has a kind and a status, an issue a status and quantities, the
requirement of a material three numbers. `generatePos` is seven statements: what it finds is deleted by
id, and the requirements it nets are those of its first reading. Whether a write cascades is
taken from the relations the handler loads: the board and `generatePos` write requirement rows back, `assignVendor`
and the inspection do not. `raced` and `failed` name the tables that two requests had in hand
together, or one when it was cut short; properties that do not hold then say so. A new explosion
of the BOM is modelled when no other request is in flight (a request would hold ids of deleted rows). Each
material has one supplier, the vendor is one for the whole order, and a PFO has no pooled parents here.

**Receiving.** One item per order at a price of one, so that quantities are money; the orders go to one
supplier and belong to one PFO. A confirmation is eight statements. The order read for the
freight is read without its items, so only its own columns go back; the one read for the
status has them. `counted` says which orders got their last status from receipts, `repriced` which had
their total computed again from the items (freight entered before is lost then; the code
does it without a rule, so `BookedInFull` sets those aside).

## 4. The runs

| run | environment | shows |
|---|---|---|
| `stock_any` | overlap of any kind, one reset, one fault | `NoPhantomStock`: lost updates lose quantities, they never invent them; where requests did not meet also `TransfersConserve`, `HistoryExplainsStock`, `MasterFollowsRows` |
| `stock_rows` | requests in flight share no row, one reset | `RowConservation`, type invariant, and that the ledger implements `AtomicLedger` |
| `book_any` | overlap of any kind, with the hourly job | `ApprovedWithinStock`, `NeverOverbooked`, and `OverdueReleased` under fairness |
| `book_serial` | one request at a time, one fault | `ApprovedCoversConfirmed`, `SyncIsExact`, `EditKeepsBookings` |
| `fulfil` | one request at a time, one fault, deliveries edited, mailed, exported, deleted | `ShippedMeansDeducted`, `GoodsLeaveOnce`, `PlainDeletionRestores`, `ApprovalWithinStock` |
| `fulfil_combo_return` | one exported delivery of a combo | finding: deleting it does not put the parts back |
| `receipts` | two requests that overlap, six calls, one fault | `PaidIsCovered`; without overlap also `StatusFollowsPayments` |
| `payables` | one request at a time, three calls, one fault, a pool of two orders | `PaidFollowsVouchers` (without faults), `NeverOverstated`, `PoolSharesAddUp` |
| `ship_any` | three calls about a delivery, two in flight, both couriers, webhooks in any order, a lost answer | `NoUnknownParcel`, `GoodsLeaveOnce`, `DeliveredIsShipped`, `OneShippingVoucher`, `NoStepBack`, each but for one per overlap, fault or deliberate second push |
| `sourcing` | four calls, two in flight, one fault | `HandedWithinPlan` for every overlap; `IssuesExplainStock`, `NothingFromNowhere` where no two requests had the issues in hand together; `IssuesWithinNeed`, `DraftsReplaced` also after faults |
| `receiving` | two orders, two receipts, four calls, two in flight, one fault | `BookedInFull` for rows no two requests had in hand together; `DeliveredMeansReceived` however confirmations overlap |
| `receiving_ordered` | one order set to ORDERED | finding: the request throws after the save, the PFO stays DRAFT |

**Bounds and why they are enough.** The hazards are races of two requests (both of the
same handler or of different ones) and one fault inside a request, with another
request after it. Two slots, three calls and one fault let a call be overtaken, the
overtaken one finish, and a third meet the result. Two rows are needed for a transfer,
a third item (a material) for the two halves of a reset. Quantities of one are enough where
a property compares sums of signed changes. Bookings have quantities up to two and an
opening stock of two, so that the stock covers one line but not both, and a combo
takes two units, so that the division by its parts is not exact. `book_serial` allows
five calls (book, confirm, revert, book again, sync). Orders have totals of zero, two and three
and incomes of one and two, so that an order is unpaid, partly paid, exactly paid and overpaid;
`payables` has totals from zero to two, where shares are halves and thirds and the total of a pool may
be zero, and three calls: two payments and a deletion, or a payment between two new totals.

`ship_any` allows three calls (push, push again, export); four calls were checked once by hand (9 million
states). `sourcing` has one material with a plan and a stock of two: enough to hand out or issue
twice, and once too often. Four calls are two generations and what comes between or a deletion after
them; five were checked once by hand (12 million states). `receiving` orders twenty and receives nine or ten, or
corrects the order to eighteen, so that two receipts lie below, at and above the 95% that count as delivered;
one order with five calls was checked once by hand (9.5 million states).

**Deadlock.** The runs set `CHECK_DEADLOCK FALSE`: with its bounded number of calls a
behaviour ends, and so does the real system when nobody calls it.

**Fairness.** `OverdueReleased` assumes weak fairness of the steps of each request (an
awaited statement is answered or throws; the scheduler of Node.js is not biased) and
of `BeginExpire` (the cron expression in the code). `MaxFaults` is 0 in that run: the
code gives no other guarantee when the job dies each time. Nothing else is assumed
fair, in particular not that users act.

## 5. The proofs

`tlapm` checks every proof to the last leaf, for any number of items, warehouses,
lines, requests and any bounds. What is assumed of the constants is named in the
modules that declare them: the sets over which a property sums or counts are finite,
recipes use positive quantities, "none" is not a product, and the like. The hypotheses
beyond that stand in the `ASSUME` of the theorem and are given below with the reason for each.
Every one of them holds in the run that checks the same property, so the run also shows that it excludes
nothing else.

| theorem | states | hypotheses |
|---|---|---|
| `StockTyped` | `StockLedger!TypeOK` | |
| `NoStockInvented` | `NoPhantomStock` | |
| `RowsConserved` | `RowConservation` | overlapping requests on distinct rows |
| `MasterFollows`, `HistoryExplains`, `TransfersMove` | `MasterFollowsRows`, `HistoryExplainsStock`, `TransfersConserve` | |
| `LedgerIsAtomic` | `RefinesAtomicLedger` | distinct rows, no faults |
| `BookingsTyped` | `Bookings!TypeOK` | |
| `ApprovalsFitStock` | `ApprovedWithinStock` | nobody resynchronises |
| `LinesNotOverbooked` | `NeverOverbooked` | no order is edited |
| `EditsKeepBookings` | `EditKeepsBookings` | one line per product in an order |
| `SyncsAreExact` | `SyncIsExact` | one request at a time, no goods issue |
| `ApprovalsAreCovered` | `ApprovedCoversConfirmed` | the same, and lines of an order share no part |
| `ExportsAreDeducted` | `ShippedMeansDeducted` | |
| `ExportsTakeOnce` | `Fulfilment!GoodsLeaveOnce` | one delivery request at a time |
| `DeletionsRestore` | `PlainDeletionRestores` | one delivery request at a time |
| `ApprovalsRespectStock` | `ApprovalWithinStock` | one booking or delivery request at a time |
| `DeliveriesTyped` | `Fulfilment!DeliveryTypeOK` | |
| `PaymentsTyped`, `PaymentsCovered` | `Payments!TypeOK`, `PaidIsCovered` | |
| `StatusFollows`, `PaidFollows`, `PaidNotOverstated`, `SharesAddUp` | `StatusFollowsPayments`, `PaidFollowsVouchers`, `NeverOverstated`, `PoolSharesAddUp` | |
| `ShipmentsTyped`, `GhtkDeliveredIsShipped` | `Shipments!TypeOK`, `DeliveredIsShipped` | |
| `GoodsLeaveStockOnce`, `FreightBookedOnce` | `Shipments!GoodsLeaveOnce`, `OneShippingVoucher` | |
| `NeverBack`, `ParcelsKnown` | `Shipments!NoStepBack`, `NoUnknownParcel` | |
| `SourcingTyped`, `HardStopHolds` | `Sourcing!TypeOK`, `HandedWithinPlan` | |
| `DraftsAreReplaced`, `IssuesFitNeed` | `DraftsReplaced`, `IssuesWithinNeed` | |
| `StockIsExplained`, `NothingComesFromNowhere` | `IssuesExplainStock`, `NothingFromNowhere` | |
| `ReceivingTyped`, `ReceiptsAreBooked` | `Receiving!TypeOK`, `BookedInFull` | |
| `DeliveredIsReceived` | `DeliveredMeansReceived` | no receipt of nothing |

Several properties carry their own premise (`Serial`, "where no two requests met on the row"): there the
theorem needs no hypothesis and says no more than the property does.

*`SumTheorems`.* Most properties are about totals. `SumFunctionOnSet` is a fold over a recursively defined
choice of elements, which no backend expands; the library's induction theorems take an operator as a
parameter, which none can instantiate. The module goes around both: it states induction for the *set* of
numbers (or of subsets) where a claim holds, gets it from the well-foundedness theorem of the library in the
form that speaks of sets, and derives once what the proofs need: the sum of nothing, of one more and one fewer element, of
a function changed at one point, of two functions added or compared, and that a sum does not depend on the order.
The sets summed over have to be finite, hence the finiteness assumptions in the modules.

*`StockLedgerProofs`.*
`NoStockInvented` holds for every kind of overlap. The property is not
inductive: a request that has read a row writes what it read later. The strengthening
`SnapshotsBounded` says that what a request remembers of a row also lies between
minus the exports and the imports of now. Since imports and exports only grow between
truncations, a snapshot stays bounded while others write, and the save adds the
change to both the row and the bound.
`RowsConserved` is for overlapping requests on distinct rows: requests in flight touch disjoint rows, and
a snapshot about to be saved is the row as it is now (`SnapshotsFresh`).
The three properties about sums are for behaviours where requests never met. `AloneInv` says that then at most one
request is at work. `MasterInv` counts the items whose cached total is wrong: the item at hand while its call is between
the save and the update, and otherwise one per fault. `HistoryInv` does the same for the rows whose history has not been
written yet. `ConserveInv` follows a transfer leg by leg: what is out of one row and not yet in the other is in the
request. `LedgerIsAtomic` proves the refinement: under the mapping of the module (a transfer has arrived as soon as it has left: what is
in transit counts in the row it goes to) every initial state is initial and every step is a step of `AtomicLedger` or a stutter. A fault between the
two legs has no counterpart in an atomic ledger, and two requests on one row lose updates; both are excluded by
hypothesis, as in the run `stock_rows`.

*`BookingsProofs`.*
For approvals the invariant
`ApprovalInv` adds to the property that, in what a request remembers of an item, both the stock
and the approvals are at most the stock of now: the stock only grows in this module (goods leave
in `Fulfilment`), so a total computed from a stale snapshot still fits. `NoSync` excludes `syncBookingStock`, which sets the total to
what lines hold, whether or not it fits the stock. For overbooking, `BookedInv` says that every line
has at most its quantity booked, that a request knows the quantity of its lines, and
that a decision in hand (`todo` of the line being written) fits what was read. `NoEdit` excludes order updates, which may
lower the quantity below what is booked (the code allows it).
`EditsKeepBookings` is about one statement of the handler, the carry-over by sku: with one line per
product the old and new lines correspond, and the totals per product are sums over the same lines; with two
lines of one product it is false (section 6).
`SyncsAreExact` needs what a sync has read to be the lines of now (`SyncInv`, for requests one at a time); that the two
totals it writes for each product are then the sums over lines and combos is a rearrangement of sums.
`ApprovalsAreCovered` rests on `CoverInv`: while nothing has failed, the approvals of a part are at least the sum over approved
lines but the one a request is at, and what that one will hold or still holds (`Pending`). The counters of a line start from the copy read with the
order, so two lines of one order that share a part overwrite one another (section 6): `NoSharedPart` excludes these, and
nothing else is known to.

*`FulfilmentProofs`.* `ExportsAreDeducted` proves `ShippedMeansDeducted` for requests that overlap freely.
The invariant `DeductedInv` says of an export under way that every item it no longer has to do, and the one it is at,
has left the stock; so when the list is empty everything has, and the status it then writes is true.
`ExportsTakeOnce` proves `GoodsLeaveOnce` under the assumption of the run, delivery requests one at a time (with two
confirmations at once the code does take the goods twice). Its invariant `OnceInv` splits the bound: a delivery that is neither
settled nor past an item in an export has spent on it only what faults allow (`LeftAtMost`), and a fault pays for the item it left behind.
`DeletionsRestore` adds to it, while nothing has been cut short, what a delivery without combos has taken (`Accounted`): its items while it is
SHIPPED, nothing otherwise, and in the middle of an export or a deletion what the request has got to.
`ApprovalsRespectStock` cannot use the invariant of `Bookings`: goods leave, so the stock may be below the approvals, or below zero.
What remains true is that neither has fallen since the approval at work read them (`TurnsInv`): bookings and deliveries are never
at work together. Then the units an approval adds fit into what it read and so into the stock, and an approval that adds nothing raises nothing.
`DeliveriesTyped` is for requests that overlap freely. It reuses the type proofs of `BookingsProofs`, whose invariant asks of the stock only that it
is an integer, and `DeductedInv` for the delivery that a request works on.

*`PaymentsProofs`.* `PaymentsCovered` proves `PaidIsCovered` for any overlap and any number of faults. The
property is not inductive: a synchronisation, or an update of the order, writes a status it
decided on or read earlier. `CoverInv` adds that the order a request holds is covered by
the money received now (`Holds`). Received money falls only with the orders in `shrunk`, so what was
covered when it was read is covered when it is written; and the status a synchronisation
decides on is covered by the very sum it was computed from. For an edit it matters that the
status is paired with the total of the same read.
The other four are for requests that do not overlap. `StatusInv` says that an order is as its transactions say unless it is behind or
the one request at work is on its way to it. `PaidInv` gives for every purchase order the difference between its
`paid_amount` and what the existing transactions allocate to it, as what the request at work still has to add or take back; `PaidFollows` and
`PaidNotOverstated` read off it. `SharesAddUp` adds the rounding errors of the children one by one, against a pooled total that the
invariant keeps equal to the sum of theirs.

*`ShipmentsProofs`.* For `GhtkDeliveredIsShipped`: handlers save the whole delivery
they read earlier, so the rows requests hold must have the property too (`RowsInv`); a handler then only mixes
the two columns within one reading. `ExportInv` (`GoodsLeaveStockOnce`) counts exports done and exports that may still be done, by requests
that hold the delivery as pending, against the excuses: an export that still sees PENDING_EXPORT although the goods are out must have met another
request, or follow a fault, and both were counted when they happened. The voucher of the freight is counted the same way
(`Writers`, `Lookers`).
`NeverBack` needs two invariants that hold together. `AloneInv`: a delivery without an excuse has one request at a time, and what that one
is going to save over is the row as it is. `TrackInv`, under any overlap: what rows, requests and webhooks say of an order of Lalamove is still
true of it, because the couriers only add orders and never take back an arrival (`Grows`). A delivery shown as delivered has
a demo order or one that has arrived, so a synchronisation hears "delivered" again, and a webhook that says anything else is out of order (`Stale`).
`ParcelsKnown` counts in `ParcelInv`: of a delivery, the parcels under way that neither the row nor a push about to save shows, plus the requests
that will still save over the row, are at most the excuses, plus one if any of these requests keeps what the row shows (`Keeps`). A request that is first
keeps it, since a push that was let through without an excuse found no parcel under way (`PushClear`); every other request was counted when it overlapped. A save
that loses the parcel on the row leaves one request fewer, and a request that keeps it still does, because the parcel it has read is now among the missing
and comes back when it saves. That a push finds no parcel rests on `CodeInv`: the code on a row is an order of the carrier on it,
and one that the row shows as cancelled by GHTK is over, also in what requests have read and webhooks report.

*`SourcingProofs`.* `HardStopHolds`: the bound holds for any overlap: what a request
has read of the requirements is within the plan, and so is every sum it has checked (`HandTyped`). That the counter is what was
handed out needs that nobody met on the requirements; then one request has them at a time, and what it read of
them is what they are (`AloneWithNeeds`, with `"needs" \notin raced`). `DraftsAreReplaced` uses the same idea for the orders
(`OrderInv`): what a generation is about to delete contains every draft it replaces, and none is left when it creates new ones.
`IssueInv` is the book-keeping of the issues: `NeedBooks` bounds live issues and drafts, together with what the generation at work still
creates, by what was asked; and the units missing from the rows are those of the issues that left, the one at hand counted
by whether its export has run. The three theorems about issues read off it.

*`ReceivingProofs`.* Confirmations write back whole rows, so for `ReceivingTyped` what requests hold is typed
as well, and a receipt that a request has names its order (`Linked`). `ReceiptsImportOnce` (`ImportedOnce`, the part of `BookedInFull` about
one receipt) follows the one request that has a receipt: the goods are not in until its import,
in by exactly the quantity it carries from then on, and its row says COMPLETED only after (`Imports`); a receipt that no two
requests met on has at most one such request (`Exact`). `ReceiptsAreBooked` adds the sums: the debt of the supplier and the
total of each order are the sums over receipts that were booked there, where a receipt is booked as soon as its request has
saved, and not when it is completed. `DeliveredIsReceived` needs that receipts are of something
(`0 \notin Amounts`): a receipt of nothing leaves the order the status it had, DELIVERED included, after a correction that raised the quantity.

*Only model-checked.* `OverdueReleased` (liveness under fairness, which the provers do not reach). Every invariant and action property of the
passing runs is a theorem, and so is the refinement.

## 6. Divergences met on the way

With a run (see `findings`):

* Deleting a shipped delivery of a combo imports the combo's own product, the export
  had taken its parts (`sales.service.ts:1044` against `inventory.service.ts:602`).
* Setting a purchase order of a PFO to ORDERED saves it and then throws: `syncPoPrices` is
  `throw new Error("Obsolete method")` (`planning.service.ts:395`), so the PFO's status and the total of a pooled parent
  are not renewed (`purchasing.service.ts:330`, against the comment at line 333).

Reproduced with TLC while modelling, without a run of their own:

* `transferStock` is announced as atomic (`inventory.service.ts:231`) and is two
  independent calls: a fault in between loses the quantity.
* `confirmBookings` writes the counter of a second line of the same product over that
  of the first (`planning.service.ts:542`).
* Deleting the payment of a pooled purchase order does not take back what its children were given:
  `Math.round` takes halves upwards, so half a unit is added as 1 and subtracted as 0
  (`purchasing.service.ts:383`, against `finance.service.ts:166`).
* A courier's report of a delivered parcel (`ghtk.service.ts:1463`), and the delivery mail, set SHIPPED without an
  export, against `inventory.service.ts:655` ("SHIPPED means Stock Deducted"); the export then refuses
  the delivery. `byHand` in `Fulfilment` sets the mailed ones aside.
* `createOrUpdateDeliveryShippingExpense` recognises its voucher by the delivery's code, which the
  cost of the exported goods carries too (`inventory.service.ts:679`): it answers success and books no freight, or
  overwrites the cost (`finance.service.ts:493`).
* `quantity_in_stock` can be left at a stale sum when two adjustments of one item overlap,
  although the comment at `inventory.service.ts:150` says the recomputation is exact.
* `syncBookingStock` saves its totals and then approves lines in bulk (`planning.service.ts:828`),
  so the totals it has just written are wrong (`SyncIsExact` fails once a goods
  issue is confirmed).
* `SalesService.update` carries bookings over by sku (`sales.service.ts:426`): two lines of
  one product get one another's booking, against the comment at line 400.
* A confirmed export that fails after its first item takes the first item out
  again when it is retried (`GoodsLeaveOnce` allows one extra per fault for that
  reason), and two overlapping confirmations both take the goods out. The same is true of
  `confirmGoodsIssue` and `confirmReceipt`.

Read in the code:

* `deleteGoodsIssue` announces that it returns the goods (`inventory.service.ts:961`) and raises
  `quantity_in_stock` only; `inventory_stocks` and the history are not touched, and the next `adjustStock` of the
  material computes `quantity_in_stock` from them again, so the return is lost (`ReturnGoods` in `Sourcing`).
* `markGoodsIssueDelivered` asks for no status: an issue that was never confirmed becomes delivered,
  counts as issued in the next generation, and "returns" its goods when it is deleted (`skipped` in `Sourcing`).
* A new explosion of the BOM sets `issued_quantity` to zero (`pfo-bom-engine.service.ts:357`): the hard stop
  of `updateMaterialIssue` starts over, whatever was handed out.
* `generatePos` replaces drafts only; what was ordered before is not netted and is bought again. Its issue
  lines for semi-finished products carry no material, so confirming the issue exports nothing for
  them and the next generation creates them again.
* `updatePODeliveryStatus` makes an order DELIVERED without `checkAndUpdatePfoStatus`: the PFO learns of it with the
  next status change through `updatePO` or the supplier's link.
* `POST purchasing/:id/receive` writes a receipt that stays DRAFT and has no items, imports under a code given by the
  caller, and can be repeated.
* `updatePO` with items computes the total from the items, and loses the freight that confirmations
  had added (`repriced` in `Receiving`); it raises no debt either.
* Two pending deliveries can be created for the same goods (`sales.service.ts:855-880`
  reserves nothing), and a draft is released without the check it was spared.
* One run of the hourly job loses all but one of the releases of a product that several overdue
  lines share, on the counter `booking_stock` (`sales.service.ts:1231`; no decision in the code reads it).
* `updateMaterialIssue` (`pfo-execution.service.ts`) turns TEMPORARY lines CONFIRMED
  without raising the approval counter, as the confirmation of a goods issue does
  (`ApprovedInBulk` in `Bookings`).
* `syncBookingStock` saves whole product rows, over a `quantity_in_stock` that an export
  has written since they were read.
* Incomes booked on the finance page (`createTransaction`) and drafts approved there
  (`approveTransaction`) do not synchronise the payment status of their order; raising
  the total of a paid order does not either. `behind` in `Payments` sets these orders aside.
* `updatePO` and `confirmReceipt` save whole rows and undo a payment recorded since they
  read the order (`PaidFollowsVouchers` is for requests that do not overlap).
* Editing a purchase payment changes its amount and not its allocations, which a deletion goes by.
* `finishProduction` (`production.service.ts:157`) has no guard: finishing twice imports twice.

## 7. What is not modelled, and why

The notes in `PROJECT.json` give the reason per component. In short: CRUD and
rendering have no behaviour to check; external services are modelled only where their
answers race with the state kept here; sums of money, VAT and prices are data; the
website and its 360 tour run in one browser thread.

The definitions stand for a small share of the repository, and will: three quarters of its
154 000 lines are screens (`src/frontend`, `src/hula-web`), which keep no state of the business, and most of the
38 000 lines of the back end read rows and shape answers, or insert and edit single rows. What is
modelled is the part where handlers decide on shared rows and other handlers may come in between.

Within the modelled components: `Fulfilment` and `Shipments` share `sales_deliveries` but are not
composed (a courier's status in `Fulfilment`, lines in `Shipments`); `Receiving` and `Payments` share
`purchase_orders` and are not composed either. Webhooks have no liveness property: nothing
in the code asks a courier again, so what must eventually happen depends on it or on a user.

## 8. Plan

The order follows what would hurt most: goods, then money, then orders, then parcels.

1. `StockLedger`, `AtomicLedger`: done; every safety property and the refinement are theorems.
2. `Bookings`, `Fulfilment`: done; every safety property is a theorem.
3. `Payments`, `Sourcing`, `Receiving`: done; every safety property is a theorem.
4. `Shipments`: done; every safety property is a theorem.
5. `OrderLife`: quotation to completion with the customer's approval, deposits and
   deliveries. Action property: a status never goes back but through the named calls.
6. `TokenKeeper`: refresh of a one-time token by the cron and by senders; work orders with
   the export of their materials and the import of their goods.
