------------------------------ MODULE StockLedger ------------------------------
(***************************************************************************)
(* The stock tables of src/src/inventory/inventory.service.ts:             *)
(* inventory_stocks (one row per item and warehouse), the cached           *)
(* products/materials.quantity_in_stock and stock_history, with the        *)
(* handlers adjustStock, transferStock, convertBtp and resetAllStocks.     *)
(*                                                                         *)
(* No handler opens a database transaction: each is a sequence of awaited  *)
(* statements, and the statements of different requests interleave.  A     *)
(* request is the record of the statement it will run next and of what it  *)
(* has read; repository.save writes back what the request computed from    *)
(* the row it read earlier.                                                *)
(***************************************************************************)
EXTENDS Integers, Sequences, FiniteSets, Functions

CONSTANTS
    Items,           \* the stocked items, PRODUCT and MATERIAL alike
    Products,        \* the items of item_type PRODUCT
    Variants,        \* products that share one name: convertBtp accepts a pair
    Warehouses,      \* warehouse codes
    SampleWarehouse, \* KHO_MAU, left out of quantity_in_stock
    WipWarehouse,    \* KHO_BTP, where convertBtp works
    Requests,        \* slots for the requests in flight
    Quantities,      \* the positive quantities a user asks for
    Overlap,         \* which requests users leave in flight together
    MaxCalls,        \* bound: requests accepted in a behaviour
    MaxResets,       \* bound: resetAllStocks calls
    MaxFaults,       \* bound: requests cut short by a fault
    NoRow            \* findOne returned null

ASSUME StockConstants ==
    /\ IsFiniteSet(Items)
    /\ IsFiniteSet(Warehouses)
    /\ IsFiniteSet(Requests)
    /\ Products \subseteq Items
    /\ Variants \subseteq Products
    /\ WipWarehouse \in Warehouses
    /\ Quantities \subseteq Nat \ {0}
    /\ Overlap \in {"any", "distinct rows", "one at a time"}
    /\ MaxCalls \in Nat
    /\ MaxResets \in Nat
    /\ MaxFaults \in Nat
    /\ NoRow \notin [id : Nat, qty : Int]

VARIABLES
    row,       \* inventory_stocks: [item, warehouse] -> row or NoRow
    onHand,    \* quantity_in_stock of each item
    history,   \* stock_history per key: the signed sum of its entries and
               \* the balance_after of the latest one
    req,       \* the requests in flight
    sumRead,   \* the sum a request in flight has taken over the stock table
    calls,     \* requests accepted so far
    resets,    \* resetAllStocks calls begun
    completed, \* resetAllStocks calls that ran to their end
    era,       \* times the stock table has been truncated
    faults,    \* requests a fault has cut short
    crowded,   \* ghost: two requests have been in flight together
    imported,  \* ghost: quantity added to each row since the truncation
    exported,  \* ghost: quantity taken from each row since the truncation
    outside    \* ghost: net quantity that plain adjustments brought in

vars == <<row, onHand, history, req, sumRead, calls, resets, completed,
          era, faults, crowded, imported, exported, outside>>
ghosts == <<imported, exported, outside>>
bounds == <<calls, resets, completed, faults, crowded>>

Keys == Items \X Warehouses

\* A row keeps the primary key it was inserted with.  The unique index allows
\* one insertion per key between truncations, so the era of the insertion
\* identifies it.
Row == [id : Nat, qty : Int]

\* One adjustStock call: the row it is for and the signed change.
Leg == [key : Keys, change : Int]

Idle == [pc |-> "idle", legs |-> <<>>, at |-> 1, snap |-> NoRow]

RowQty(rw) == IF rw = NoRow THEN 0 ELSE rw.qty
Qty(k) == RowQty(row[k])

TakeFrom(k, q) == [key |-> k, change |-> -q]
PutInto(k, q) == [key |-> k, change |-> q]

\* The sum adjustStock takes over inventory_stocks, KHO_MAU filtered out.
OnHandTotal(i) ==
    SumFunctionOnSet([w \in Warehouses |-> Qty(<<i, w>>)],
                     Warehouses \ {SampleWarehouse})

InFlight == {r \in Requests : req[r].pc # "idle"}
Resetting(r) == req[r].pc \in {"clearStock", "zeroProducts", "zeroMaterials"}
Adjusting(r) == req[r].pc \in {"find", "save", "sum", "master", "log"}

CurrentLeg(r) == req[r].legs[req[r].at]
KeysOf(legs) == {legs[n].key : n \in DOMAIN legs}
Touches(r) == IF Resetting(r) THEN Keys ELSE KeysOf(req[r].legs)

\* The user side: whether a request for these rows arrives while the ones in
\* flight are unfinished.  Nothing in the code prevents "any".
Admits(keys) ==
    CASE Overlap = "any" -> TRUE
      [] Overlap = "distinct rows" ->
            \A o \in InFlight : Touches(o) \cap keys = {}
      [] Overlap = "one at a time" -> InFlight = {}

--------------------------------------------------------------------------------
Init ==
    /\ row = [k \in Keys |-> NoRow]
    /\ onHand = [i \in Items |-> 0]
    /\ history = [k \in Keys |-> [net |-> 0, last |-> 0]]
    /\ req = [r \in Requests |-> Idle]
    /\ sumRead = [r \in Requests |-> 0]
    /\ calls = 0
    /\ resets = 0
    /\ completed = 0
    /\ era = 0
    /\ faults = 0
    /\ crowded = FALSE
    /\ imported = [k \in Keys |-> 0]
    /\ exported = [k \in Keys |-> 0]
    /\ outside = 0

Meet == crowded' = (crowded \/ InFlight # {})

Begin(r, legs) ==
    /\ req[r].pc = "idle"
    /\ calls < MaxCalls
    /\ Admits(KeysOf(legs))
    /\ req' = [req EXCEPT ![r] = [Idle EXCEPT !.pc = "find", !.legs = legs]]
    /\ calls' = calls + 1
    /\ Meet
    /\ UNCHANGED <<sumRead, row, onHand, history, resets, completed, era, faults, ghosts>>

\* POST inventory/adjust, and every confirmation that moves one item.
Adjust(r) ==
    \E k \in Keys, q \in Quantities :
        \/ Begin(r, <<PutInto(k, q)>>)
        \/ Begin(r, <<TakeFrom(k, q)>>)

\* Fault seeded: the destination is credited before the source is debited.
TransferInFirst(r) ==
    \E i \in Items, src, dst \in Warehouses, q \in Quantities :
        /\ src # dst
        /\ Begin(r, <<PutInto(<<i, dst>>, q), TakeFrom(<<i, src>>, q)>>)

\* POST inventory/transfer: two adjustStock calls, no check of the source.
Transfer(r) ==
    \E i \in Items, src, dst \in Warehouses, q \in Quantities :
        /\ src # dst
        /\ Begin(r, <<TakeFrom(<<i, src>>, q), PutInto(<<i, dst>>, q)>>)

\* POST inventory/convert-btp: the source row must hold the quantity when it
\* is read, before the two adjustStock calls begin.
Convert(r) ==
    \E i, j \in Variants, q \in Quantities :
        LET src == <<i, WipWarehouse>>
            dst == <<j, WipWarehouse>>
        IN  /\ i # j
            /\ row[src] # NoRow
            /\ row[src].qty >= q
            /\ Begin(r, <<TakeFrom(src, q), PutInto(dst, q)>>)

--------------------------------------------------------------------------------
(***************************************************************************)
(* adjustStock, one action per awaited statement.                          *)
(***************************************************************************)
FindRow(r) ==
    /\ req[r].pc = "find"
    /\ req' = [req EXCEPT ![r].pc = "save", ![r].snap = row[CurrentLeg(r).key]]
    /\ UNCHANGED <<sumRead, row, onHand, history, bounds, era, ghosts>>

\* Faults seeded: the sign of an export is lost; a row created by the call
\* keeps its initial 0; the source of a two-call request is never debited.
ComputedQtyUnsigned(r) ==
    RowQty(req[r].snap) + (IF CurrentLeg(r).change < 0 THEN -CurrentLeg(r).change
                                                       ELSE CurrentLeg(r).change)
ComputedQtyNewRow(r) ==
    IF req[r].snap = NoRow THEN 0 ELSE RowQty(req[r].snap) + CurrentLeg(r).change
ComputedQtyKept(r) ==
    RowQty(req[r].snap) +
        (IF req[r].at < Len(req[r].legs) THEN 0 ELSE CurrentLeg(r).change)

\* The quantity that the pending save will write.
ComputedQty(r) == RowQty(req[r].snap) + CurrentLeg(r).change

\* Fault seeded: the new row is saved without its key.
ComputedRowNoId(r) == [id |-> NoRow, qty |-> ComputedQty(r)]

ComputedRow(r) ==
    [id |-> IF req[r].snap = NoRow THEN era ELSE req[r].snap.id,
     qty |-> ComputedQty(r)]

\* save finds another row under the same key: the insert breaks the unique
\* index on (item_type, item_id, warehouse_code).
KnownId(r) == IF req[r].snap = NoRow THEN NoRow ELSE req[r].snap.id
Collides(r) ==
    LET stored == row[CurrentLeg(r).key]
    IN  stored # NoRow /\ stored.id # KnownId(r)

SaveRow(r) ==
    LET leg == CurrentLeg(r)
        k == leg.key
    IN  /\ req[r].pc = "save"
        /\ ~Collides(r)
        /\ row' = [row EXCEPT ![k] = ComputedRow(r)]
        /\ req' = [req EXCEPT ![r].pc = "sum"]
        /\ IF leg.change > 0
           THEN /\ imported' = [imported EXCEPT ![k] = @ + leg.change]
                /\ UNCHANGED exported
           ELSE /\ exported' = [exported EXCEPT ![k] = @ - leg.change]
                /\ UNCHANGED imported
        /\ outside' = IF Len(req[r].legs) = 1 THEN outside + leg.change
                                              ELSE outside
        /\ UNCHANGED <<sumRead, onHand, history, bounds, era>>

\* The insert is rejected, the exception leaves adjustStock and its caller.
SaveRejected(r) ==
    /\ req[r].pc = "save"
    /\ Collides(r)
    /\ req' = [req EXCEPT ![r] = Idle]
    /\ UNCHANGED <<sumRead, row, onHand, history, bounds, era, ghosts>>

\* Fault seeded: KHO_MAU is counted.
MasterTotalWithSamples(r) ==
    SumFunctionOnSet([w \in Warehouses |-> Qty(<<CurrentLeg(r).key[1], w>>)], Warehouses)

MasterTotal(r) == OnHandTotal(CurrentLeg(r).key[1])

SumRows(r) ==
    /\ req[r].pc = "sum"
    /\ req' = [req EXCEPT ![r].pc = "master"]
    /\ sumRead' = [sumRead EXCEPT ![r] = MasterTotal(r)]
    /\ UNCHANGED <<row, onHand, history, bounds, era, ghosts>>

UpdateMaster(r) ==
    /\ req[r].pc = "master"
    /\ onHand' = [onHand EXCEPT ![CurrentLeg(r).key[1]] = sumRead[r]]
    /\ req' = [req EXCEPT ![r].pc = "log"]
    /\ sumRead' = [sumRead EXCEPT ![r] = 0]
    /\ UNCHANGED <<row, history, bounds, era, ghosts>>

\* Fault seeded: balance_after is the balance before the change.
EntryBefore(r, h) ==
    [net |-> h.net + CurrentLeg(r).change, last |-> RowQty(req[r].snap)]

\* The history of a key once the entry of r is added to it.
Entry(r, h) == [net |-> h.net + CurrentLeg(r).change, last |-> ComputedQty(r)]

\* The history row; then the second adjustStock call, or the answer.
WriteHistory(r) ==
    /\ req[r].pc = "log"
    /\ history' = [history EXCEPT ![CurrentLeg(r).key] = Entry(r, @)]
    /\ req' = [req EXCEPT ![r] =
            IF req[r].at = Len(req[r].legs) THEN Idle
            ELSE [req[r] EXCEPT !.pc = "find", !.at = @ + 1]]
    /\ UNCHANGED <<sumRead, row, onHand, bounds, era, ghosts>>

--------------------------------------------------------------------------------
(***************************************************************************)
(* resetAllStocks: four statements.                                        *)
(***************************************************************************)
Reset(r) ==
    /\ req[r].pc = "idle"
    /\ resets < MaxResets
    /\ Admits(Keys)
    /\ history' = [k \in Keys |-> [net |-> 0, last |-> 0]]
    /\ req' = [req EXCEPT ![r] = [Idle EXCEPT !.pc = "clearStock"]]
    /\ resets' = resets + 1
    /\ Meet
    /\ UNCHANGED <<sumRead, row, onHand, calls, completed, era, faults, ghosts>>

ClearStock(r) ==
    /\ req[r].pc = "clearStock"
    /\ row' = [k \in Keys |-> NoRow]
    /\ era' = era + 1
    /\ req' = [req EXCEPT ![r].pc = "zeroProducts"]
    /\ imported' = [k \in Keys |-> 0]
    /\ exported' = [k \in Keys |-> 0]
    /\ outside' = 0
    /\ UNCHANGED <<sumRead, onHand, history, bounds>>

ZeroProducts(r) ==
    /\ req[r].pc = "zeroProducts"
    /\ onHand' = [i \in Items |-> IF i \in Products THEN 0 ELSE onHand[i]]
    /\ req' = [req EXCEPT ![r].pc = "zeroMaterials"]
    /\ UNCHANGED <<sumRead, row, history, bounds, era, ghosts>>

ZeroMaterials(r) ==
    /\ req[r].pc = "zeroMaterials"
    /\ onHand' = [i \in Items |-> IF i \in Products THEN onHand[i] ELSE 0]
    /\ req' = [req EXCEPT ![r] = Idle]
    /\ completed' = completed + 1
    /\ UNCHANGED <<sumRead, row, history, calls, resets, faults, crowded, era, ghosts>>

--------------------------------------------------------------------------------
\* A statement of r fails (lost connection, statement timeout): nothing
\* catches it, what r already wrote stays.
Fail(r) ==
    /\ req[r].pc # "idle"
    /\ faults < MaxFaults
    /\ faults' = faults + 1
    /\ req' = [req EXCEPT ![r] = Idle]
    /\ sumRead' = [sumRead EXCEPT ![r] = 0]
    /\ UNCHANGED <<row, onHand, history, calls, resets, completed, crowded, era, ghosts>>

\* The process restarts: every request in flight is gone.
Crash ==
    /\ InFlight # {}
    /\ faults + Cardinality(InFlight) <= MaxFaults
    /\ faults' = faults + Cardinality(InFlight)
    /\ req' = [r \in Requests |-> Idle]
    /\ sumRead' = [r \in Requests |-> 0]
    /\ UNCHANGED <<row, onHand, history, calls, resets, completed, crowded, era, ghosts>>

AdjustStep(r) ==
    \/ FindRow(r) \/ SaveRow(r) \/ SaveRejected(r)
    \/ SumRows(r) \/ UpdateMaster(r) \/ WriteHistory(r)

ResetStep(r) == ClearStock(r) \/ ZeroProducts(r) \/ ZeroMaterials(r)

Next ==
    \/ \E r \in Requests :
        \/ Adjust(r) \/ Transfer(r) \/ Convert(r) \/ Reset(r)
        \/ AdjustStep(r) \/ ResetStep(r) \/ Fail(r)
    \/ Crash

Spec == Init /\ [][Next]_vars

--------------------------------------------------------------------------------
Request ==
    [pc : {"idle", "find", "save", "sum", "master", "log",
           "clearStock", "zeroProducts", "zeroMaterials"},
     legs : Seq(Leg), at : Nat, snap : Row \cup {NoRow}]

TypeOK ==
    /\ row \in [Keys -> Row \cup {NoRow}]
    /\ onHand \in [Items -> Int]
    /\ history \in [Keys -> [net : Int, last : Int]]
    /\ req \in [Requests -> Request]
    /\ sumRead \in [Requests -> Int]
    /\ calls \in 0..MaxCalls
    /\ resets \in 0..MaxResets
    /\ era \in 0..resets
    /\ completed \in 0..era
    /\ faults \in 0..MaxFaults
    /\ crowded \in BOOLEAN
    /\ imported \in [Keys -> Nat]
    /\ exported \in [Keys -> Nat]
    /\ outside \in Int

--------------------------------------------------------------------------------
(***************************************************************************)
(* What the ledger promises.                                               *)
(***************************************************************************)

\* Whatever overlaps, crashes or is rejected: adjustStock on stale rows may
\* lose quantities but never invents them.  A row holds at most what was
\* imported into it and at least minus what was exported from it.  (A reset
\* that meets a request in flight is left out: the stale save then revives
\* the truncated row.)
NoPhantomStock ==
    era = 0 => \A k \in Keys : -exported[k] <= Qty(k) /\ Qty(k) <= imported[k]

\* As long as no two requests in flight touch the same row, a row holds
\* exactly what was imported less what was exported since the last reset,
\* whatever other rows' requests are doing and wherever a fault strikes.
RowConservation ==
    \A k \in Keys : Qty(k) = imported[k] - exported[k]

\* The quantity a two-call request has taken out and not yet put back.
DueIn(r) == \/ req[r].at = 1 /\ req[r].pc \in {"sum", "master", "log"}
            \/ req[r].at = 2 /\ req[r].pc \in {"find", "save"}
InTransit(k) ==
    SumFunction([r \in {o \in Requests : /\ Len(req[o].legs) = 2
                                         /\ DueIn(o)
                                         /\ req[o].legs[2].key = k}
                   |-> req[r].legs[2].change])
TotalStock == SumFunctionOnSet([k \in Keys |-> Qty(k)], Keys)
TotalInTransit == SumFunctionOnSet([k \in Keys |-> InTransit(k)], Keys)

\* Requests never met: transferStock and convertBtp move quantities: over all rows they add
\* nothing to what plain adjustments brought in, and a fault between their
\* two adjustStock calls can only lose the quantity, never double it.
TransfersConserve ==
    ~crowded =>
        /\ TotalStock + TotalInTransit <= outside
        /\ faults = 0 => TotalStock + TotalInTransit = outside

\* A reset is under way, or one was cut short.
HalfReset == resets # completed

\* Rows the history accounts for: its entries add up to the quantity, and the
\* latest balance_after is the quantity.
Explained(k) == history[k].net = Qty(k) /\ history[k].last = Qty(k)
Untouched(k) == \A r \in InFlight : k \notin Touches(r)

\* stock_history explains inventory_stocks where requests never met: rows no request is working on
\* agree with their history entries, but for one row per fault at most.
HistoryExplainsStock ==
    (~crowded /\ ~HalfReset) =>
        Cardinality({k \in Keys : Untouched(k) /\ ~Explained(k)}) <= faults

\* quantity_in_stock follows the stock table where requests never met: with nothing in flight it is
\* the sum over the warehouses without KHO_MAU, but for one item per fault.
MasterFollowsRows ==
    (~crowded /\ InFlight = {} /\ ~HalfReset) =>
        Cardinality({i \in Items : onHand[i] # OnHandTotal(i)}) <= faults

\* The ledger a user sees: a transfer has arrived as soon as it has left.
Seen == [k \in Keys |-> Qty(k) + InTransit(k)]
Atomic == INSTANCE AtomicLedger WITH stock <- Seen

\* Requests that share no row implement the ledger whose operations are atomic.
RefinesAtomicLedger == Atomic!Spec
================================================================================
