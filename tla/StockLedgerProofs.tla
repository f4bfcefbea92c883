--------------------------- MODULE StockLedgerProofs ---------------------------
(***************************************************************************)
(* Theorems about StockLedger, for every set of items, warehouses,         *)
(* requests and quantities and every value of the bounds.                  *)
(***************************************************************************)
EXTENDS StockLedger, SumTheorems

\* TypeOK without the cached total, the sum it is set from and the history:
\* nothing proved here depends on their values.
RowsTypeOK ==
    /\ row \in [Keys -> Row \cup {NoRow}]
    /\ era \in Nat
    /\ imported \in [Keys -> Nat]
    /\ exported \in [Keys -> Nat]
    /\ req \in [Requests -> Request]
    /\ \A r \in Requests : Adjusting(r) => req[r].at \in 1..Len(req[r].legs)

\* The current leg of a request at work in adjustStock is a leg.
LEMMA CurrentLegType ==
    ASSUME RowsTypeOK, NEW r \in Requests, Adjusting(r)
    PROVE  /\ CurrentLeg(r) \in Leg
           /\ CurrentLeg(r).key \in Keys
           /\ CurrentLeg(r).change \in Int
           /\ CurrentLeg(r).key \in KeysOf(req[r].legs)
<1>1. req[r].legs \in Seq(Leg) /\ req[r].at \in 1..Len(req[r].legs)
  BY DEF RowsTypeOK, Request, Adjusting
<1>2. CurrentLeg(r) \in Leg
  BY <1>1 DEF CurrentLeg
<1> QED
  BY <1>1, <1>2 DEF CurrentLeg, Leg, KeysOf

\* What a request has when it has found its row.
LEMMA RowRead ==
    ASSUME RowsTypeOK, NEW r \in Requests, FindRow(r)
    PROVE  CurrentLeg(r)' = CurrentLeg(r) /\ req'[r].snap = row[CurrentLeg(r).key]
<1>1. PICK q, k : q = req[r] /\ k = CurrentLeg(r).key
  OBVIOUS
<1>2. q \in Request /\ req \in [Requests -> Request]
  BY <1>1 DEF RowsTypeOK
<1>3. req' = [req EXCEPT ![r].pc = "save", ![r].snap = row[k]]
  BY <1>1 DEF FindRow
<1>4. req'[r] = [q EXCEPT !.pc = "save", !.snap = row[k]]
  BY <1>1, <1>2, <1>3
<1>5. req'[r].legs = q.legs /\ req'[r].at = q.at /\ req'[r].snap = row[k]
  BY <1>2, <1>4 DEF Request
<1> QED
  BY <1>1, <1>5 DEF CurrentLeg

\* The requests a user can begin have one or two well-typed legs.
BegunLegs(legs) ==
    /\ legs \in Seq(Leg)
    /\ Len(legs) \in {1, 2}

LEMMA LegTypes ==
    ASSUME NEW k \in Keys, NEW q \in Quantities
    PROVE  TakeFrom(k, q) \in Leg /\ PutInto(k, q) \in Leg
<1>1. Quantities \subseteq Nat
  <2>1. Quantities \subseteq Nat \ {0}
    BY StockConstants, Zenon DEF StockConstants
  <2> QED
    BY <2>1
<1> QED
  BY <1>1 DEF TakeFrom, PutInto, Leg

LEMMA BeginsWithLegs ==
    ASSUME NEW r \in Requests, Adjust(r) \/ Transfer(r) \/ Convert(r)
    PROVE  \E legs : BegunLegs(legs) /\ Begin(r, legs)
<1>one. ASSUME NEW l \in Leg PROVE BegunLegs(<<l>>)
  BY DEF BegunLegs
<1>two. ASSUME NEW l \in Leg, NEW m \in Leg PROVE BegunLegs(<<l, m>>)
  BY DEF BegunLegs
<1>1. CASE Adjust(r)
  <2>1. PICK k \in Keys, q \in Quantities :
            Begin(r, <<PutInto(k, q)>>) \/ Begin(r, <<TakeFrom(k, q)>>)
    BY <1>1 DEF Adjust
  <2>2. TakeFrom(k, q) \in Leg /\ PutInto(k, q) \in Leg
    BY LegTypes
  <2> QED
    BY <2>1, <2>2, <1>one
<1>2. CASE Transfer(r)
  <2>1. PICK i \in Items, src \in Warehouses, dst \in Warehouses, q \in Quantities :
            Begin(r, <<TakeFrom(<<i, src>>, q), PutInto(<<i, dst>>, q)>>)
    BY <1>2 DEF Transfer
  <2>2. TakeFrom(<<i, src>>, q) \in Leg /\ PutInto(<<i, dst>>, q) \in Leg
    BY LegTypes DEF Keys
  <2> QED
    BY <2>1, <2>2, <1>two
<1>3. CASE Convert(r)
  <2>1. PICK i \in Variants, j \in Variants, q \in Quantities :
            Begin(r, <<TakeFrom(<<i, WipWarehouse>>, q),
                       PutInto(<<j, WipWarehouse>>, q)>>)
    BY <1>3 DEF Convert
  <2>2. <<i, WipWarehouse>> \in Keys /\ <<j, WipWarehouse>> \in Keys
    BY StockConstants DEF StockConstants, Keys
  <2>3. /\ TakeFrom(<<i, WipWarehouse>>, q) \in Leg
        /\ PutInto(<<j, WipWarehouse>>, q) \in Leg
    BY <2>2, LegTypes
  <2> QED
    BY <2>1, <2>3, <1>two
<1> QED
  BY <1>1, <1>2, <1>3

LEMMA RowsTypeInit == Init => RowsTypeOK
<1>1. Idle \in Request
  BY DEF Idle, Request
<1> QED
  BY <1>1 DEF Init, RowsTypeOK, Adjusting, Idle

\* Adjusting depends on the pc alone, so it may be read off a record.
AtLeg(q) == q.pc \in {"find", "save", "sum", "master", "log"} => q.at \in 1..Len(q.legs)

LEMMA RequestStep ==
    ASSUME RowsTypeOK, NEW r \in Requests, NEW q \in Request, AtLeg(q),
           req' = [req EXCEPT ![r] = q]
    PROVE  /\ req' \in [Requests -> Request]
           /\ \A o \in Requests : Adjusting(o)' => req'[o].at \in 1..Len(req'[o].legs)
  BY DEF RowsTypeOK, AtLeg, Adjusting

LEMMA RowsTypeStep == RowsTypeOK /\ [Next]_vars => RowsTypeOK'
<1> SUFFICES ASSUME RowsTypeOK, [Next]_vars PROVE RowsTypeOK'
  OBVIOUS
<1> DEFINE ReqOK(q) == q \in Request /\ AtLeg(q)
<1>req. ASSUME NEW r \in Requests, NEW q, ReqOK(q), req' = [req EXCEPT ![r] = q],
               row' = row, era' = era, imported' = imported, exported' = exported
        PROVE  RowsTypeOK'
  <2>1. /\ req' \in [Requests -> Request]
        /\ \A o \in Requests : Adjusting(o)' => req'[o].at \in 1..Len(req'[o].legs)
    BY <1>req, RequestStep
  <2> QED
    BY <1>req, <2>1 DEF RowsTypeOK
<1>idle. ReqOK(Idle)
  BY DEF Request, Idle, AtLeg
<1>same. ASSUME NEW r \in Requests PROVE req[r] \in Request /\ AtLeg(req[r])
  BY DEF RowsTypeOK, AtLeg, Adjusting
<1>1. ASSUME NEW r \in Requests, Adjust(r) \/ Transfer(r) \/ Convert(r)
      PROVE  RowsTypeOK'
  <2>1. PICK legs : BegunLegs(legs) /\ Begin(r, legs)
    BY <1>1, BeginsWithLegs
  <2>2. ReqOK([Idle EXCEPT !.pc = "find", !.legs = legs])
    <3>1. [Idle EXCEPT !.pc = "find", !.legs = legs] \in Request
      BY <2>1, <1>idle DEF Request, BegunLegs
    <3>2. /\ [Idle EXCEPT !.pc = "find", !.legs = legs].legs = legs
          /\ [Idle EXCEPT !.pc = "find", !.legs = legs].at = 1
      BY DEF Idle
    <3>3. 1 \in 1..Len(legs)
      BY <2>1 DEF BegunLegs
    <3> QED
      BY <3>1, <3>2, <3>3 DEF AtLeg
  <2> QED
    BY <2>1, <2>2, <1>req DEF Begin, ghosts
<1>2. ASSUME NEW r \in Requests, FindRow(r)
      PROVE  RowsTypeOK'
  <2>1. row[CurrentLeg(r).key] \in Row \cup {NoRow}
    BY <1>2, CurrentLegType DEF FindRow, Adjusting, RowsTypeOK
  <2>2. ReqOK([req[r] EXCEPT !.pc = "save", !.snap = row[CurrentLeg(r).key]])
    BY <1>2, <2>1, <1>same DEF FindRow, Request, AtLeg
  <2> QED
    BY <1>2, <2>2, <1>req DEF FindRow, ghosts, RowsTypeOK
<1>3. ASSUME NEW r \in Requests, SaveRow(r)
      PROVE  RowsTypeOK'
  <2>1. /\ CurrentLeg(r).key \in Keys
        /\ CurrentLeg(r).change \in Int
    BY <1>3, CurrentLegType DEF SaveRow, Adjusting
  <2>2. ComputedRow(r) \in Row
    BY <1>3, <2>1, <1>same DEF ComputedRow, ComputedQty, RowQty, Row, Request, RowsTypeOK
  <2>3. ReqOK([req[r] EXCEPT !.pc = "sum"])
    BY <1>3, <1>same DEF SaveRow, Request, AtLeg
  <2>4. req' = [req EXCEPT ![r] = [req[r] EXCEPT !.pc = "sum"]]
    BY <1>3 DEF SaveRow, RowsTypeOK
  <2>5. /\ req' \in [Requests -> Request]
        /\ \A o \in Requests : Adjusting(o)' => req'[o].at \in 1..Len(req'[o].legs)
    BY <2>3, <2>4, RequestStep
  <2>6. imported' \in [Keys -> Nat] /\ exported' \in [Keys -> Nat]
    BY <1>3, <2>1 DEF SaveRow, RowsTypeOK
  <2>7. row' \in [Keys -> Row \cup {NoRow}] /\ era' \in Nat
    BY <1>3, <2>1, <2>2 DEF SaveRow, RowsTypeOK
  <2> QED
    BY <2>5, <2>6, <2>7 DEF RowsTypeOK
<1>4. ASSUME NEW r \in Requests, SaveRejected(r)
      PROVE  RowsTypeOK'
  BY <1>4, <1>idle, <1>req DEF SaveRejected, ghosts
<1>5. ASSUME NEW r \in Requests, SumRows(r)
      PROVE  RowsTypeOK'
  <2>1. ReqOK([req[r] EXCEPT !.pc = "master"])
    BY <1>5, <1>same DEF SumRows, Request, AtLeg
  <2> QED
    BY <1>5, <2>1, <1>req DEF SumRows, ghosts, RowsTypeOK
<1>6. ASSUME NEW r \in Requests, UpdateMaster(r)
      PROVE  RowsTypeOK'
  <2>1. ReqOK([req[r] EXCEPT !.pc = "log"])
    BY <1>6, <1>same DEF UpdateMaster, Request, AtLeg
  <2> QED
    BY <1>6, <2>1, <1>req DEF UpdateMaster, ghosts, RowsTypeOK
<1>7. ASSUME NEW r \in Requests, WriteHistory(r)
      PROVE  RowsTypeOK'
  <2>1. CASE req[r].at = Len(req[r].legs)
    BY <1>7, <2>1, <1>idle, <1>req DEF WriteHistory, ghosts
  <2>2. CASE req[r].at # Len(req[r].legs)
    <3>1. ReqOK([req[r] EXCEPT !.pc = "find", !.at = @ + 1])
      <4>1. /\ req[r] \in Request
            /\ req[r].at \in 1..Len(req[r].legs)
        BY <1>7, <1>same DEF WriteHistory, AtLeg
      <4>2. Len(req[r].legs) \in Nat
        BY <4>1 DEF Request
      <4>3. req[r].at + 1 \in Nat /\ req[r].at + 1 \in 1..Len(req[r].legs)
        BY <2>2, <4>1, <4>2
      <4> QED
        BY <4>1, <4>3 DEF Request, AtLeg
    <3>2. req' = [req EXCEPT ![r] = [req[r] EXCEPT !.pc = "find", !.at = req[r].at + 1]]
      BY <1>7, <2>2 DEF WriteHistory, RowsTypeOK
    <3> QED
      BY <1>7, <3>1, <3>2, <1>req DEF WriteHistory, ghosts
  <2> QED
    BY <2>1, <2>2
<1>8. ASSUME NEW r \in Requests, Reset(r)
      PROVE  RowsTypeOK'
  <2>1. ReqOK([Idle EXCEPT !.pc = "clearStock"])
    BY <1>idle DEF Request, AtLeg
  <2> QED
    BY <1>8, <2>1, <1>req DEF Reset, ghosts
<1>9. ASSUME NEW r \in Requests, ClearStock(r)
      PROVE  RowsTypeOK'
  <2>1. ReqOK([req[r] EXCEPT !.pc = "zeroProducts"])
    BY <1>9, <1>same DEF ClearStock, Request, AtLeg
  <2>2. req' = [req EXCEPT ![r] = [req[r] EXCEPT !.pc = "zeroProducts"]]
    BY <1>9 DEF ClearStock, RowsTypeOK
  <2>3. /\ req' \in [Requests -> Request]
        /\ \A o \in Requests : Adjusting(o)' => req'[o].at \in 1..Len(req'[o].legs)
    BY <2>1, <2>2, RequestStep
  <2> QED
    BY <1>9, <2>3 DEF ClearStock, RowsTypeOK
<1>10. ASSUME NEW r \in Requests, ZeroProducts(r)
       PROVE  RowsTypeOK'
  <2>1. ReqOK([req[r] EXCEPT !.pc = "zeroMaterials"])
    BY <1>10, <1>same DEF ZeroProducts, Request, AtLeg
  <2> QED
    BY <1>10, <2>1, <1>req DEF ZeroProducts, ghosts, RowsTypeOK
<1>11. ASSUME NEW r \in Requests, ZeroMaterials(r)
       PROVE  RowsTypeOK'
  BY <1>11, <1>idle, <1>req DEF ZeroMaterials, ghosts
<1>12. ASSUME NEW r \in Requests, Fail(r)
       PROVE  RowsTypeOK'
  BY <1>12, <1>idle, <1>req DEF Fail, ghosts
<1>13. CASE Crash
  BY <1>13, <1>idle DEF Crash, ghosts, RowsTypeOK, Adjusting, AtLeg, Idle
<1>14. CASE UNCHANGED vars
  BY <1>14 DEF vars, RowsTypeOK, Adjusting
<1> QED
  BY <1>1, <1>2, <1>3, <1>4, <1>5, <1>6, <1>7, <1>8, <1>9, <1>10, <1>11,
     <1>12, <1>13, <1>14
     DEF Next, AdjustStep, ResetStep

\* Every row, ghost count and request keeps its type.
THEOREM RowsTyped == Spec => []RowsTypeOK
  BY RowsTypeInit, RowsTypeStep, PTL DEF Spec

--------------------------------------------------------------------------------
(***************************************************************************)
(* NoPhantomStock.  A save writes what the request read plus its change,   *)
(* so the bound must also hold of every row already read: in a request     *)
(* past FindRow the snapshot lies within the bounds of its key.            *)
(***************************************************************************)
WithinGhosts(n, k) == -exported[k] <= n /\ n <= imported[k]

SnapshotsBounded ==
    \A r \in Requests : req[r].pc = "save" =>
        WithinGhosts(RowQty(req[r].snap), CurrentLeg(r).key)

NoPhantomInv == RowsTypeOK /\ (era = 0 => NoPhantomStock /\ SnapshotsBounded)

LEMMA QtyType ==
    ASSUME RowsTypeOK
    PROVE  /\ \A k \in Keys : Qty(k) \in Int
           /\ \A r \in Requests : RowQty(req[r].snap) \in Int
  BY DEF RowsTypeOK, Qty, RowQty, Request, Row

\* A step of one request leaves the others' records alone.
OthersKept(r) == \A o \in Requests \ {r} : req'[o] = req[o]

\* The quantity a successful save stores, and the ghosts it moves.
LEMMA SavedQty ==
    ASSUME RowsTypeOK, NEW r \in Requests, SaveRow(r)
    PROVE  LET k == CurrentLeg(r).key
               c == CurrentLeg(r).change
           IN  /\ k \in Keys
               /\ c \in Int
               /\ RowQty(row'[k]) = RowQty(req[r].snap) + c
               /\ \A l \in Keys \ {k} : Qty(l)' = Qty(l)
               /\ imported'[k] - exported'[k] = imported[k] - exported[k] + c
               /\ c > 0 => imported'[k] = imported[k] + c /\ exported'[k] = exported[k]
               /\ c <= 0 => exported'[k] = exported[k] - c /\ imported'[k] = imported[k]
               /\ \A l \in Keys \ {k} : imported'[l] = imported[l] /\ exported'[l] = exported[l]
               /\ req'[r].pc = "sum"
               /\ OthersKept(r)
<1> DEFINE k == CurrentLeg(r).key
           c == CurrentLeg(r).change
<1>1. k \in Keys /\ c \in Int
  BY CurrentLegType DEF SaveRow, Adjusting
<1>2. row' = [row EXCEPT ![k] = ComputedRow(r)]
  BY DEF SaveRow
<1>3. ComputedRow(r) # NoRow /\ ComputedRow(r).qty = RowQty(req[r].snap) + c
  <2>1. ComputedRow(r) \in Row
    BY <1>1, QtyType DEF ComputedRow, ComputedQty, Row, RowsTypeOK, Request
  <2>2. NoRow \notin Row
    BY StockConstants, Zenon DEF StockConstants, Row
  <2> QED
    BY <2>1, <2>2 DEF ComputedRow, ComputedQty
<1>4. RowQty(row'[k]) = RowQty(req[r].snap) + c
  <2>1. row'[k] = ComputedRow(r)
    BY <1>1, <1>2 DEF RowsTypeOK
  <2> QED
    BY <2>1, <1>3 DEF RowQty
<1>5. \A l \in Keys \ {k} : Qty(l)' = Qty(l)
  BY <1>1, <1>2 DEF Qty, RowsTypeOK
<1>6. /\ c > 0 => imported'[k] = imported[k] + c /\ exported'[k] = exported[k]
      /\ c <= 0 => exported'[k] = exported[k] - c /\ imported'[k] = imported[k]
      /\ \A l \in Keys \ {k} : imported'[l] = imported[l] /\ exported'[l] = exported[l]
  BY <1>1 DEF SaveRow, RowsTypeOK
<1>7. imported[k] \in Nat /\ exported[k] \in Nat
  BY <1>1 DEF RowsTypeOK
<1>8. imported'[k] - exported'[k] = imported[k] - exported[k] + c
  BY <1>1, <1>6, <1>7
<1>9. req'[r].pc = "sum" /\ OthersKept(r)
  BY DEF SaveRow, RowsTypeOK, Request, OthersKept
<1> QED
  BY <1>1, <1>4, <1>5, <1>6, <1>8, <1>9

\* Steps that touch neither the rows nor the ghosts, and bring no request to
\* its save.
Harmless ==
    /\ row' = row /\ imported' = imported /\ exported' = exported
    /\ era' = era
    /\ \A r \in Requests : req'[r].pc = "save" => req'[r] = req[r]

LEMMA HarmlessSteps ==
    ASSUME RowsTypeOK, [Next]_vars
    PROVE  \/ Harmless
           \/ \E r \in Requests : FindRow(r) \/ SaveRow(r) \/ ClearStock(r)
<1>1. ASSUME NEW r \in Requests, Adjust(r) \/ Transfer(r) \/ Convert(r)
      PROVE  Harmless
  <2>1. PICK legs : BegunLegs(legs) /\ Begin(r, legs)
    BY <1>1, BeginsWithLegs
  <2>2. [Idle EXCEPT !.pc = "find", !.legs = legs].pc = "find"
    BY DEF Idle
  <2> QED
    BY <2>1, <2>2 DEF Begin, Harmless, ghosts, RowsTypeOK
<1>2. ASSUME NEW r \in Requests, Reset(r)
      PROVE  Harmless
  <2>1. [Idle EXCEPT !.pc = "clearStock"].pc = "clearStock"
    BY DEF Idle
  <2> QED
    BY <1>2, <2>1 DEF Reset, Harmless, ghosts, RowsTypeOK
<1>3. ASSUME NEW r \in Requests,
             SaveRejected(r) \/ ZeroMaterials(r) \/ Fail(r)
      PROVE  Harmless
  BY <1>3 DEF SaveRejected, ZeroMaterials, Fail, Harmless, ghosts, RowsTypeOK, Idle
<1>4. ASSUME NEW r \in Requests,
             SumRows(r) \/ UpdateMaster(r) \/ ZeroProducts(r)
      PROVE  Harmless
  BY <1>4 DEF SumRows, UpdateMaster, ZeroProducts, Harmless, ghosts, RowsTypeOK, Request
<1>5. ASSUME NEW r \in Requests, WriteHistory(r)
      PROVE  Harmless
  <2>1. Idle.pc = "idle" /\ [req[r] EXCEPT !.pc = "find", !.at = @ + 1].pc = "find"
    BY DEF Idle, RowsTypeOK, Request
  <2> QED
    BY <1>5, <2>1 DEF WriteHistory, Harmless, ghosts, RowsTypeOK
<1>6. CASE Crash
  BY <1>6 DEF Crash, Harmless, ghosts, RowsTypeOK, Idle
<1>7. CASE UNCHANGED vars
  BY <1>7 DEF vars, Harmless
<1> QED
  BY <1>1, <1>2, <1>3, <1>4, <1>5, <1>6, <1>7 DEF Next, AdjustStep, ResetStep

LEMMA NoPhantomInit == Init => NoPhantomInv
<1> SUFFICES ASSUME Init PROVE NoPhantomInv
  OBVIOUS
<1>1. RowsTypeOK
  BY RowsTypeInit
<1>2. NoPhantomStock
  BY DEF Init, NoPhantomStock, Qty, RowQty
<1>3. SnapshotsBounded
  BY DEF Init, SnapshotsBounded, Idle
<1> QED
  BY <1>1, <1>2, <1>3 DEF NoPhantomInv

LEMMA NoPhantomStep == NoPhantomInv /\ [Next]_vars => NoPhantomInv'
<1> SUFFICES ASSUME NoPhantomInv, [Next]_vars, era' = 0
             PROVE  NoPhantomStock' /\ SnapshotsBounded'
  BY RowsTypeStep DEF NoPhantomInv
<1>0. RowsTypeOK /\ RowsTypeOK'
  BY RowsTypeStep DEF NoPhantomInv
<1>1. CASE Harmless
  <2>1. NoPhantomStock /\ SnapshotsBounded
    BY <1>1 DEF Harmless, NoPhantomInv
  <2> QED
    BY <1>1, <2>1 DEF Harmless, NoPhantomStock, SnapshotsBounded, WithinGhosts,
                      Qty, CurrentLeg
<1>2. ASSUME NEW r \in Requests, FindRow(r)
      PROVE  NoPhantomStock' /\ SnapshotsBounded'
  <2>1. /\ NoPhantomStock /\ SnapshotsBounded
        /\ UNCHANGED <<row, imported, exported, era>>
    BY <1>2 DEF FindRow, ghosts, NoPhantomInv
  <2>2. NoPhantomStock'
    BY <2>1 DEF NoPhantomStock, Qty
  <2>3. ASSUME NEW o \in Requests, req'[o].pc = "save"
        PROVE  WithinGhosts(RowQty(req[o].snap), CurrentLeg(o).key)'
    <3>1. CASE o = r
      <4>1. CurrentLeg(r).key \in Keys
        BY <1>0, <1>2, CurrentLegType DEF FindRow, Adjusting
      <4>2. CurrentLeg(r)' = CurrentLeg(r) /\ req'[r].snap = row[CurrentLeg(r).key]
        BY <1>0, <1>2, RowRead
      <4>3. WithinGhosts(Qty(CurrentLeg(r).key), CurrentLeg(r).key)
        BY <1>0, <2>1, <4>1 DEF NoPhantomStock, WithinGhosts, NoPhantomInv, RowsTypeOK
      <4> QED
        BY <2>1, <3>1, <4>2, <4>3 DEF WithinGhosts, Qty, RowQty
    <3>2. CASE o # r
      <4>1. req'[o] = req[o]
        BY <1>0, <1>2, <3>2 DEF FindRow, RowsTypeOK
      <4> QED
        BY <2>1, <2>3, <4>1 DEF SnapshotsBounded, WithinGhosts, CurrentLeg
    <3> QED
      BY <3>1, <3>2
  <2> QED
    BY <2>2, <2>3 DEF SnapshotsBounded
<1>3. ASSUME NEW r \in Requests, SaveRow(r)
      PROVE  NoPhantomStock' /\ SnapshotsBounded'
  <2> DEFINE k == CurrentLeg(r).key
             c == CurrentLeg(r).change
  <2>1. NoPhantomStock /\ SnapshotsBounded
    BY <1>3 DEF SaveRow, NoPhantomInv
  <2>2. /\ k \in Keys
        /\ c \in Int
        /\ RowQty(row'[k]) = RowQty(req[r].snap) + c
        /\ \A l \in Keys \ {k} : Qty(l)' = Qty(l)
        /\ c > 0 => imported'[k] = imported[k] + c /\ exported'[k] = exported[k]
        /\ c <= 0 => exported'[k] = exported[k] - c /\ imported'[k] = imported[k]
        /\ \A l \in Keys \ {k} : imported'[l] = imported[l] /\ exported'[l] = exported[l]
        /\ req'[r].pc = "sum"
        /\ OthersKept(r)
    BY <1>0, <1>3, SavedQty
  <2>3. \A l \in Keys : imported[l] \in Nat /\ exported[l] \in Nat /\ Qty(l) \in Int
    BY <1>0, QtyType DEF RowsTypeOK
  <2>4. ASSUME NEW n \in Int, NEW l \in Keys, WithinGhosts(n, l)
        PROVE  /\ -exported'[l] <= n /\ n <= imported'[l]
               /\ l = k => -exported'[l] <= n + c /\ n + c <= imported'[l]
    BY <2>2, <2>3, <2>4 DEF WithinGhosts
  <2>5. WithinGhosts(RowQty(req[r].snap), k) /\ RowQty(req[r].snap) \in Int
    BY <1>0, <1>3, <2>1, QtyType DEF SaveRow, SnapshotsBounded
  <2>6. NoPhantomStock'
    <3>1. ASSUME NEW l \in Keys
          PROVE  -exported'[l] <= Qty(l)' /\ Qty(l)' <= imported'[l]
      <4>1. CASE l = k
        <5>1. Qty(l)' = RowQty(req[r].snap) + c
          BY <2>2, <4>1 DEF Qty
        <5> QED
          BY <2>4, <2>5, <4>1, <5>1
      <4>2. CASE l # k
        <5>1. -exported[l] <= Qty(l) /\ Qty(l) <= imported[l]
          <6>1. era = 0
            BY <1>3 DEF SaveRow
          <6> QED
            BY <6>1, <2>1 DEF NoPhantomStock
        <5>2. /\ Qty(l)' = Qty(l)
              /\ imported'[l] = imported[l] /\ exported'[l] = exported[l]
          BY <2>2, <4>2
        <5> QED
          BY <5>1, <5>2
      <4> QED
        BY <4>1, <4>2
    <3> QED
      BY <3>1 DEF NoPhantomStock
  <2>7. SnapshotsBounded'
    <3>1. ASSUME NEW o \in Requests, req'[o].pc = "save"
          PROVE  WithinGhosts(RowQty(req[o].snap), CurrentLeg(o).key)'
      <4>1. o # r /\ req'[o] = req[o]
        BY <2>2, <3>1 DEF OthersKept
      <4>2. WithinGhosts(RowQty(req[o].snap), CurrentLeg(o).key)
        BY <2>1, <3>1, <4>1 DEF SnapshotsBounded
      <4>3. CurrentLeg(o).key \in Keys /\ RowQty(req[o].snap) \in Int
        BY <1>0, <3>1, <4>1, CurrentLegType, QtyType DEF Adjusting
      <4> QED
        BY <2>4, <4>1, <4>2, <4>3 DEF WithinGhosts, CurrentLeg
    <3> QED
      BY <3>1 DEF SnapshotsBounded
  <2> QED
    BY <2>6, <2>7
<1>4. ASSUME NEW r \in Requests, ClearStock(r)
      PROVE  FALSE
  BY <1>0, <1>4 DEF ClearStock, RowsTypeOK
<1> QED
  BY <1>0, <1>1, <1>2, <1>3, <1>4, HarmlessSteps

\* However requests interleave, crash or are rejected: until the first reset
\* no row of inventory_stocks exceeds what was imported into it, nor falls
\* below minus what was exported from it.
THEOREM NoStockInvented == Spec => []NoPhantomStock
<1>1. Spec => []NoPhantomInv
  BY NoPhantomInit, NoPhantomStep, PTL DEF Spec
<1>2. NoPhantomInv => NoPhantomStock
  BY DEF NoPhantomInv, NoPhantomStock
<1> QED
  BY <1>1, <1>2, PTL

--------------------------------------------------------------------------------
(***************************************************************************)
(* RowConservation, when users leave only requests for distinct rows in    *)
(* flight.  The row a request has read is then still the stored one when   *)
(* it saves: nobody else touches it.                                       *)
(***************************************************************************)
DisjointRequests ==
    \A r, o \in InFlight : r # o => Touches(r) \cap Touches(o) = {}

SnapshotsFresh ==
    \A r \in Requests : req[r].pc = "save" => req[r].snap = row[CurrentLeg(r).key]

ConservationInv ==
    RowsTypeOK /\ DisjointRequests /\ SnapshotsFresh /\ RowConservation

\* A step of r keeps the requests apart when r ends, or was already in flight
\* and goes on for the same rows.
LEMMA DisjointKept ==
    ASSUME DisjointRequests, NEW r \in Requests, OthersKept(r),
           \/ req'[r].pc = "idle"
           \/ req[r].pc # "idle" /\ Touches(r)' = Touches(r)
    PROVE  DisjointRequests'
<1> SUFFICES ASSUME NEW a \in Requests, NEW b \in Requests,
                    req'[a].pc # "idle", req'[b].pc # "idle", a # b
             PROVE  Touches(a)' \cap Touches(b)' = {}
  BY DEF DisjointRequests, InFlight
<1>1. ASSUME NEW o \in Requests, req'[o].pc # "idle"
      PROVE  o \in InFlight /\ Touches(o)' = Touches(o)
  BY <1>1 DEF OthersKept, InFlight, Touches, Resetting
<1> QED
  BY <1>1 DEF DisjointRequests

LEMMA DisjointAdmitted ==
    ASSUME DisjointRequests, Overlap # "any",
           NEW r \in Requests, NEW keys, Admits(keys), req[r].pc = "idle",
           OthersKept(r), Touches(r)' = keys
    PROVE  DisjointRequests'
<1> SUFFICES ASSUME NEW a \in Requests, NEW b \in Requests,
                    req'[a].pc # "idle", req'[b].pc # "idle", a # b
             PROVE  Touches(a)' \cap Touches(b)' = {}
  BY DEF DisjointRequests, InFlight
<1>1. \A o \in InFlight : Touches(o) \cap keys = {}
  <2>1. Overlap \in {"any", "distinct rows", "one at a time"}
    BY StockConstants, Zenon DEF StockConstants
  <2> QED
    BY <2>1 DEF Admits
<1>2. ASSUME NEW o \in Requests \ {r}, req'[o].pc # "idle"
      PROVE  o \in InFlight /\ Touches(o)' = Touches(o)
  BY <1>2 DEF OthersKept, InFlight, Touches, Resetting
<1>3. CASE a = r
  BY <1>1, <1>2, <1>3
<1>4. CASE b = r
  BY <1>1, <1>2, <1>4
<1>5. CASE a # r /\ b # r
  BY <1>2, <1>5 DEF DisjointRequests
<1> QED
  BY <1>3, <1>4, <1>5

LEMMA DisjointStep ==
    ASSUME RowsTypeOK, DisjointRequests, Overlap # "any", [Next]_vars
    PROVE  DisjointRequests'
<1> USE DEF RowsTypeOK
<1>1. ASSUME NEW r \in Requests, Adjust(r) \/ Transfer(r) \/ Convert(r)
      PROVE  DisjointRequests'
  <2>1. PICK legs : BegunLegs(legs) /\ Begin(r, legs)
    BY <1>1, BeginsWithLegs
  <2>2. req'[r] = [Idle EXCEPT !.pc = "find", !.legs = legs]
    BY <2>1 DEF Begin
  <2>3. req'[r].pc = "find" /\ req'[r].legs = legs
    BY <2>2 DEF Idle
  <2>4. Touches(r)' = KeysOf(legs)
    BY <2>3 DEF Touches, Resetting, KeysOf
  <2>5. OthersKept(r) /\ Admits(KeysOf(legs)) /\ req[r].pc = "idle"
    BY <2>1 DEF Begin, OthersKept
  <2> QED
    BY <2>4, <2>5, DisjointAdmitted
<1>2. ASSUME NEW r \in Requests, Reset(r)
      PROVE  DisjointRequests'
  <2>1. req'[r] = [Idle EXCEPT !.pc = "clearStock"]
    BY <1>2 DEF Reset
  <2>2. req'[r].pc = "clearStock"
    BY <2>1 DEF Idle
  <2>3. Touches(r)' = Keys
    BY <2>2 DEF Touches, Resetting
  <2>4. OthersKept(r) /\ Admits(Keys) /\ req[r].pc = "idle"
    BY <1>2 DEF Reset, OthersKept
  <2> QED
    BY <2>3, <2>4, DisjointAdmitted
<1>3. ASSUME NEW r \in Requests,
             SaveRejected(r) \/ ZeroMaterials(r) \/ Fail(r)
      PROVE  DisjointRequests'
  <2>1. OthersKept(r) /\ req'[r].pc = "idle"
    BY <1>3 DEF SaveRejected, ZeroMaterials, Fail, OthersKept, Idle
  <2> QED
    BY <2>1, DisjointKept
<1>4. ASSUME NEW r \in Requests,
             FindRow(r) \/ SaveRow(r) \/ SumRows(r) \/ UpdateMaster(r)
      PROVE  DisjointRequests'
  <2>1. /\ OthersKept(r)
        /\ req'[r].legs = req[r].legs
        /\ req[r].pc \in {"find", "save", "sum", "master"}
        /\ req'[r].pc \in {"save", "sum", "master", "log"}
    BY <1>4 DEF FindRow, SaveRow, SumRows, UpdateMaster, OthersKept, Request
  <2>2. Touches(r)' = Touches(r)
    BY <2>1 DEF Touches, Resetting
  <2> QED
    BY <2>1, <2>2, DisjointKept
<1>5. ASSUME NEW r \in Requests, WriteHistory(r)
      PROVE  DisjointRequests'
  <2>1. OthersKept(r) /\ req[r].pc = "log"
    BY <1>5 DEF WriteHistory, OthersKept
  <2>2. CASE req[r].at = Len(req[r].legs)
    <3>1. req'[r].pc = "idle"
      BY <1>5, <2>2 DEF WriteHistory, Idle
    <3> QED
      BY <2>1, <3>1, DisjointKept
  <2>3. CASE req[r].at # Len(req[r].legs)
    <3>1. req'[r].pc = "find" /\ req'[r].legs = req[r].legs
      BY <1>5, <2>3 DEF WriteHistory, Request
    <3>2. Touches(r)' = Touches(r)
      BY <2>1, <3>1 DEF Touches, Resetting
    <3> QED
      BY <2>1, <3>2, DisjointKept
  <2> QED
    BY <2>2, <2>3
<1>6. ASSUME NEW r \in Requests, ClearStock(r) \/ ZeroProducts(r)
      PROVE  DisjointRequests'
  <2>1. /\ OthersKept(r)
        /\ req[r].pc \in {"clearStock", "zeroProducts"}
        /\ req'[r].pc \in {"zeroProducts", "zeroMaterials"}
    BY <1>6 DEF ClearStock, ZeroProducts, OthersKept, Request
  <2>2. Touches(r)' = Touches(r)
    BY <2>1 DEF Touches, Resetting
  <2> QED
    BY <2>1, <2>2, DisjointKept
<1>7. CASE Crash
  BY <1>7 DEF Crash, DisjointRequests, InFlight, Idle
<1>8. CASE UNCHANGED vars
  BY <1>8 DEF vars, DisjointRequests, InFlight, Touches, Resetting
<1> QED
  BY <1>1, <1>2, <1>3, <1>4, <1>5, <1>6, <1>7, <1>8 DEF Next, AdjustStep, ResetStep

\* Two requests at work in adjustStock are on different rows.
LEMMA OwnRow ==
    ASSUME RowsTypeOK, DisjointRequests,
           NEW r \in Requests, NEW o \in Requests, r # o, Adjusting(r), Adjusting(o)
    PROVE  CurrentLeg(r).key # CurrentLeg(o).key
<1>1. /\ CurrentLeg(r).key \in KeysOf(req[r].legs)
      /\ CurrentLeg(o).key \in KeysOf(req[o].legs)
  BY CurrentLegType
<1>2. Touches(r) \cap Touches(o) = {}
  BY DEF DisjointRequests, InFlight, Adjusting
<1>3. Touches(r) = KeysOf(req[r].legs) /\ Touches(o) = KeysOf(req[o].legs)
  BY DEF Touches, Resetting, Adjusting
<1> QED
  BY <1>1, <1>2, <1>3

LEMMA ConservationInit == Init => ConservationInv
<1> SUFFICES ASSUME Init PROVE ConservationInv
  OBVIOUS
<1>1. RowsTypeOK
  BY RowsTypeInit
<1>2. DisjointRequests
  BY DEF Init, DisjointRequests, InFlight, Idle
<1>3. SnapshotsFresh /\ RowConservation
  BY DEF Init, SnapshotsFresh, RowConservation, Idle, Qty, RowQty
<1> QED
  BY <1>1, <1>2, <1>3 DEF ConservationInv

LEMMA ConservationStep ==
    ASSUME Overlap # "any"
    PROVE  ConservationInv /\ [Next]_vars => ConservationInv'
<1> SUFFICES ASSUME ConservationInv, [Next]_vars
             PROVE  SnapshotsFresh' /\ RowConservation'
  BY RowsTypeStep, DisjointStep DEF ConservationInv
<1>0. /\ RowsTypeOK /\ DisjointRequests /\ SnapshotsFresh /\ RowConservation
      /\ RowsTypeOK'
  BY RowsTypeStep DEF ConservationInv
<1>1. CASE Harmless
  BY <1>0, <1>1 DEF Harmless, SnapshotsFresh, RowConservation, Qty, CurrentLeg
<1>2. ASSUME NEW r \in Requests, FindRow(r)
      PROVE  SnapshotsFresh' /\ RowConservation'
  <2>1. UNCHANGED <<row, imported, exported>> /\ OthersKept(r)
    BY <1>0, <1>2 DEF FindRow, ghosts, OthersKept, RowsTypeOK
  <2>2. CurrentLeg(r)' = CurrentLeg(r) /\ req'[r].snap = row[CurrentLeg(r).key]
    BY <1>0, <1>2, RowRead
  <2>3. SnapshotsFresh'
    BY <1>0, <2>1, <2>2 DEF SnapshotsFresh, OthersKept, CurrentLeg
  <2> QED
    BY <1>0, <2>1, <2>3 DEF RowConservation, Qty
<1>3. ASSUME NEW r \in Requests, SaveRow(r)
      PROVE  SnapshotsFresh' /\ RowConservation'
  <2> DEFINE k == CurrentLeg(r).key
             c == CurrentLeg(r).change
  <2>1. /\ k \in Keys
        /\ c \in Int
        /\ RowQty(row'[k]) = RowQty(req[r].snap) + c
        /\ \A l \in Keys \ {k} : Qty(l)' = Qty(l)
        /\ imported'[k] - exported'[k] = imported[k] - exported[k] + c
        /\ \A l \in Keys \ {k} : imported'[l] = imported[l] /\ exported'[l] = exported[l]
        /\ req'[r].pc = "sum"
        /\ OthersKept(r)
    BY <1>0, <1>3, SavedQty
  <2>2. RowQty(req[r].snap) = Qty(k)
    BY <1>0, <1>3 DEF SaveRow, SnapshotsFresh, Qty
  <2>3. RowConservation'
    <3>1. ASSUME NEW l \in Keys
          PROVE  RowQty(row'[l]) = imported'[l] - exported'[l]
      <4>0. Qty(l) = imported[l] - exported[l]
        BY <1>0 DEF RowConservation
      <4>1. CASE l = k
        BY <2>1, <2>2, <4>0, <4>1
      <4>2. CASE l # k
        BY <2>1, <4>0, <4>2 DEF Qty
      <4> QED
        BY <4>1, <4>2
    <3> QED
      BY <3>1 DEF RowConservation, Qty
  <2>4. SnapshotsFresh'
    <3>1. ASSUME NEW o \in Requests, req'[o].pc = "save"
          PROVE  req'[o].snap = row'[CurrentLeg(o)'.key]
      <4>1. o # r /\ req'[o] = req[o]
        BY <2>1, <3>1 DEF OthersKept
      <4>2. CurrentLeg(o).key # k /\ CurrentLeg(o).key \in Keys
        BY <1>0, <1>3, <3>1, <4>1, OwnRow, CurrentLegType DEF SaveRow, Adjusting
      <4>3. row'[CurrentLeg(o).key] = row[CurrentLeg(o).key]
        BY <1>0, <1>3, <2>1, <4>2 DEF SaveRow, RowsTypeOK
      <4> QED
        BY <1>0, <3>1, <4>1, <4>3 DEF SnapshotsFresh, CurrentLeg
    <3> QED
      BY <3>1 DEF SnapshotsFresh
  <2> QED
    BY <2>3, <2>4
<1>4. ASSUME NEW r \in Requests, ClearStock(r)
      PROVE  SnapshotsFresh' /\ RowConservation'
  <2>1. RowConservation'
    BY <1>4 DEF ClearStock, RowConservation, Qty, RowQty
  <2>2. req'[r].pc = "zeroProducts" /\ OthersKept(r)
    BY <1>0, <1>4 DEF ClearStock, OthersKept, RowsTypeOK, Request
  <2>3. ASSUME NEW o \in Requests, req'[o].pc = "save"
        PROVE  FALSE
    <3>1. o # r /\ req'[o] = req[o]
      BY <2>2, <2>3 DEF OthersKept
    <3>2. CurrentLeg(o).key \in Keys /\ CurrentLeg(o).key \in KeysOf(req[o].legs)
      BY <1>0, <2>3, <3>1, CurrentLegType DEF Adjusting
    <3>3. Touches(o) = KeysOf(req[o].legs) /\ Touches(r) = Keys
      BY <1>4, <2>3, <3>1 DEF ClearStock, Touches, Resetting
    <3>4. Touches(o) \cap Touches(r) = {}
      BY <1>0, <1>4, <2>3, <3>1 DEF DisjointRequests, InFlight, ClearStock
    <3> QED
      BY <3>2, <3>3, <3>4
  <2> QED
    BY <2>1, <2>3 DEF SnapshotsFresh
<1> QED
  BY <1>0, <1>1, <1>2, <1>3, <1>4, HarmlessSteps

\* If requests that overlap in time are for distinct rows, every row of
\* inventory_stocks holds exactly what was imported less what was exported
\* since the last reset, whatever fails and wherever.
THEOREM RowsConserved ==
    ASSUME Overlap # "any"
    PROVE  Spec => []RowConservation
<1>1. Spec => []ConservationInv
  BY ConservationInit, ConservationStep, PTL DEF Spec
<1>2. ConservationInv => RowConservation
  BY DEF ConservationInv
<1> QED
  BY <1>1, <1>2, PTL


--------------------------------------------------------------------------------
(***************************************************************************)
(* TypeOK.  A truncation is begun before it happens and happens before it  *)
(* is completed, so resets, era and completed must count, with each other, *)
(* the resets in flight at each stage.                                     *)
(***************************************************************************)
Clearing == {r \in Requests : req[r].pc = "clearStock"}
Zeroing == {r \in Requests : req[r].pc \in {"zeroProducts", "zeroMaterials"}}

ValuesOK ==
    /\ onHand \in [Items -> Int]
    /\ history \in [Keys -> [net : Int, last : Int]]
    /\ sumRead \in [Requests -> Int]
    /\ calls \in 0..MaxCalls
    /\ resets \in 0..MaxResets
    /\ completed \in Nat
    /\ faults \in 0..MaxFaults
    /\ crowded \in BOOLEAN
    /\ outside \in Int

ResetsCounted ==
    /\ era + Cardinality(Clearing) <= resets
    /\ completed + Cardinality(Zeroing) <= era

TypeInv == RowsTypeOK /\ ValuesOK /\ ResetsCounted

LEMMA BoundTypes == MaxCalls \in Nat /\ MaxResets \in Nat /\ MaxFaults \in Nat
  BY StockConstants, Zenon DEF StockConstants

LEMMA FiniteSets ==
    /\ IsFiniteSet(Items) /\ IsFiniteSet(Warehouses) /\ IsFiniteSet(Requests)
    /\ IsFiniteSet(Keys)
  BY StockConstants, FS_Product DEF StockConstants, Keys

LEMMA ResettersFinite ==
    /\ IsFiniteSet(Clearing) /\ IsFiniteSet(Zeroing) /\ IsFiniteSet(InFlight)
    /\ Cardinality(Clearing) \in Nat /\ Cardinality(Zeroing) \in Nat
    /\ Cardinality(InFlight) \in Nat
<1>1. Clearing \subseteq Requests /\ Zeroing \subseteq Requests /\ InFlight \subseteq Requests
  BY DEF Clearing, Zeroing, InFlight
<1> QED
  BY <1>1, FiniteSets, FS_Subset, FS_CardinalityType

\* What the total read by SumRows is.
LEMMA TotalType ==
    ASSUME RowsTypeOK, NEW i \in Items
    PROVE  OnHandTotal(i) \in Int
<1> DEFINE W == Warehouses \ {SampleWarehouse}
           f == [w \in Warehouses |-> Qty(<<i, w>>)]
<1>1. IsFiniteSet(W)
  BY FiniteSets, FS_Subset
<1>2. \A w \in W : f[w] \in Int
  BY QtyType DEF Keys
<1> HIDE DEF W, f
<1>3. SumFunctionOnSet(f, W) \in Int
  BY <1>1, <1>2, SumInt
<1> QED
  BY <1>3 DEF OnHandTotal, W, f

LEMMA TypeInvInit == Init => TypeInv
<1> SUFFICES ASSUME Init PROVE TypeInv
  OBVIOUS
<1>1. RowsTypeOK
  BY RowsTypeInit
<1>2. ValuesOK
  <2>1. calls \in 0..MaxCalls /\ resets \in 0..MaxResets /\ faults \in 0..MaxFaults
    BY BoundTypes DEF Init
  <2>2. /\ onHand \in [Items -> Int] /\ sumRead \in [Requests -> Int]
        /\ history \in [Keys -> [net : Int, last : Int]]
    BY DEF Init
  <2>3. outside \in Int /\ completed \in Nat
    BY DEF Init
  <2>4. crowded \in BOOLEAN
    BY Zenon DEF Init
  <2> QED
    BY <2>1, <2>2, <2>3, <2>4 DEF ValuesOK
<1>3. Clearing = {} /\ Zeroing = {}
  BY DEF Init, Clearing, Zeroing, Idle
<1>4. ResetsCounted
  BY <1>3, FS_EmptySet DEF Init, ResetsCounted
<1> QED
  BY <1>1, <1>2, <1>4 DEF TypeInv

\* A request r becomes q and the counts move with it.
LEMMA ResetsCountedTurn ==
    ASSUME TypeInv, NEW r \in Requests, NEW q, req' = [req EXCEPT ![r] = q],
           era' \in Nat, completed' \in Nat, resets' \in Nat,
           \/ /\ q.pc # "clearStock" /\ (q.pc \in {"zeroProducts", "zeroMaterials"} =>
                                            req[r].pc \in {"zeroProducts", "zeroMaterials"})
              /\ era' = era /\ completed' = completed /\ resets' = resets
           \/ /\ q.pc = "clearStock" /\ req[r].pc = "idle"
              /\ era' = era /\ completed' = completed /\ resets' = resets + 1
           \/ /\ q.pc = "zeroProducts" /\ req[r].pc = "clearStock"
              /\ era' = era + 1 /\ completed' = completed /\ resets' = resets
           \/ /\ q.pc = "idle" /\ req[r].pc = "zeroMaterials"
              /\ era' = era /\ completed' = completed + 1 /\ resets' = resets
    PROVE  ResetsCounted'
<1> DEFINE C == Clearing
           D == Clearing'
           Y == Zeroing
           Z == Zeroing'
<1>1. req'[r] = q /\ \A o \in Requests \ {r} : req'[o] = req[o]
  BY DEF TypeInv, RowsTypeOK
<1>2. /\ D \ {r} = C \ {r} /\ Z \ {r} = Y \ {r}
      /\ r \in C <=> req[r].pc = "clearStock"
      /\ r \in D <=> q.pc = "clearStock"
      /\ r \in Y <=> req[r].pc \in {"zeroProducts", "zeroMaterials"}
      /\ r \in Z <=> q.pc \in {"zeroProducts", "zeroMaterials"}
  BY <1>1 DEF Clearing, Zeroing
<1>3. IsFiniteSet(C) /\ IsFiniteSet(Y)
  BY ResettersFinite
<1>4. era \in Nat /\ completed \in Nat /\ resets \in Nat
  BY BoundTypes DEF TypeInv, RowsTypeOK, ValuesOK
<1>5. era + Cardinality(C) <= resets /\ completed + Cardinality(Y) <= era
  BY DEF TypeInv, ResetsCounted
<1> HIDE DEF C, D, Y, Z
<1>6. /\ Cardinality(C) \in Nat /\ Cardinality(D) \in Nat
      /\ Cardinality(D) <= Cardinality(C) + 1
      /\ (r \in D => r \in C) => Cardinality(D) <= Cardinality(C)
      /\ (r \notin D /\ r \in C) => Cardinality(D) = Cardinality(C) - 1
  BY <1>2, <1>3, CountTurn
<1>7. /\ Cardinality(Y) \in Nat /\ Cardinality(Z) \in Nat
      /\ Cardinality(Z) <= Cardinality(Y) + 1
      /\ (r \in Z => r \in Y) => Cardinality(Z) <= Cardinality(Y)
      /\ (r \notin Z /\ r \in Y) => Cardinality(Z) = Cardinality(Y) - 1
  BY <1>2, <1>3, CountTurn
<1>8. era' + Cardinality(D) <= resets' /\ completed' + Cardinality(Z) <= era'
  <2>1. CASE /\ q.pc # "clearStock" /\ (q.pc \in {"zeroProducts", "zeroMaterials"} =>
                                            req[r].pc \in {"zeroProducts", "zeroMaterials"})
             /\ era' = era /\ completed' = completed /\ resets' = resets
    BY <2>1, <1>2, <1>4, <1>5, <1>6, <1>7
  <2>2. CASE /\ q.pc = "clearStock" /\ req[r].pc = "idle"
             /\ era' = era /\ completed' = completed /\ resets' = resets + 1
    BY <2>2, <1>2, <1>4, <1>5, <1>6, <1>7
  <2>3. CASE /\ q.pc = "zeroProducts" /\ req[r].pc = "clearStock"
             /\ era' = era + 1 /\ completed' = completed /\ resets' = resets
    BY <2>3, <1>2, <1>4, <1>5, <1>6, <1>7
  <2>4. CASE /\ q.pc = "idle" /\ req[r].pc = "zeroMaterials"
             /\ era' = era /\ completed' = completed + 1 /\ resets' = resets
    BY <2>4, <1>2, <1>4, <1>5, <1>6, <1>7
  <2> QED
    BY <2>1, <2>2, <2>3, <2>4
<1> QED
  BY <1>8 DEF ResetsCounted, D, Z

LEMMA TypeInvStep == TypeInv /\ [Next]_vars => TypeInv'
<1> SUFFICES ASSUME TypeInv, [Next]_vars PROVE ValuesOK' /\ ResetsCounted'
  BY RowsTypeStep DEF TypeInv
<1>0. RowsTypeOK /\ ValuesOK /\ ResetsCounted /\ RowsTypeOK'
  BY RowsTypeStep DEF TypeInv
<1>c. MaxCalls \in Nat /\ MaxResets \in Nat /\ MaxFaults \in Nat
  BY BoundTypes
<1>n. era \in Nat /\ completed \in Nat /\ resets \in Nat
  BY <1>0, <1>c DEF RowsTypeOK, ValuesOK
<1>q. ASSUME NEW r \in Requests, NEW q, req' = [req EXCEPT ![r] = q],
             q.pc # "clearStock",
             q.pc \in {"zeroProducts", "zeroMaterials"} => req[r].pc \in {"zeroProducts", "zeroMaterials"},
             era' = era, completed' = completed, resets' = resets
      PROVE  ResetsCounted'
  BY <1>q, <1>n, ResetsCountedTurn
<1>1. ASSUME NEW r \in Requests, Adjust(r) \/ Transfer(r) \/ Convert(r)
      PROVE  ValuesOK' /\ ResetsCounted'
  <2>1. PICK legs : BegunLegs(legs) /\ Begin(r, legs)
    BY <1>1, BeginsWithLegs
  <2>2. ValuesOK'
    BY <1>0, <1>c, <2>1 DEF Begin, ghosts, ValuesOK, Meet
  <2>3. [Idle EXCEPT !.pc = "find", !.legs = legs].pc = "find"
    BY DEF Idle
  <2>4. ResetsCounted'
    BY <1>q, <2>1, <2>3 DEF Begin
  <2> QED
    BY <2>2, <2>4
<1>2. ASSUME NEW r \in Requests, FindRow(r)
      PROVE  ValuesOK' /\ ResetsCounted'
  <2>1. ValuesOK'
    BY <1>0, <1>2 DEF FindRow, ghosts, bounds, ValuesOK
  <2>2. [req[r] EXCEPT !.pc = "save", !.snap = row[CurrentLeg(r).key]].pc = "save"
    BY <1>0 DEF RowsTypeOK, Request
  <2>3. req' = [req EXCEPT ![r] = [req[r] EXCEPT !.pc = "save", !.snap = row[CurrentLeg(r).key]]]
    BY <1>0, <1>2 DEF FindRow, RowsTypeOK
  <2>4. ResetsCounted'
    BY <1>2, <1>q, <2>2, <2>3 DEF FindRow, bounds
  <2> QED
    BY <2>1, <2>4
<1>3. ASSUME NEW r \in Requests, SaveRow(r)
      PROVE  ValuesOK' /\ ResetsCounted'
  <2>1. CurrentLeg(r).change \in Int
    BY <1>0, <1>3, CurrentLegType DEF SaveRow, Adjusting
  <2>2. outside' \in Int
    BY <1>0, <1>3, <2>1 DEF SaveRow, ValuesOK
  <2>3. ValuesOK'
    BY <1>0, <1>3, <2>2 DEF SaveRow, bounds, ValuesOK
  <2>4. [req[r] EXCEPT !.pc = "sum"].pc = "sum"
    BY <1>0 DEF RowsTypeOK, Request
  <2>5. req' = [req EXCEPT ![r] = [req[r] EXCEPT !.pc = "sum"]]
    BY <1>0, <1>3 DEF SaveRow, RowsTypeOK
  <2>6. ResetsCounted'
    BY <1>3, <1>q, <2>4, <2>5 DEF SaveRow, bounds
  <2> QED
    BY <2>3, <2>6
<1>4. ASSUME NEW r \in Requests, SaveRejected(r)
      PROVE  ValuesOK' /\ ResetsCounted'
  <2>1. Idle.pc = "idle"
    BY DEF Idle
  <2>2. ResetsCounted'
    BY <1>4, <1>q, <2>1 DEF SaveRejected, bounds
  <2> QED
    BY <1>0, <1>4, <2>2 DEF SaveRejected, ghosts, bounds, ValuesOK
<1>5. ASSUME NEW r \in Requests, SumRows(r)
      PROVE  ValuesOK' /\ ResetsCounted'
  <2>1. CurrentLeg(r).key \in Keys
    BY <1>0, <1>5, CurrentLegType DEF SumRows, Adjusting
  <2>2. CurrentLeg(r).key[1] \in Items
    BY <2>1 DEF Keys
  <2>3. MasterTotal(r) \in Int
    BY <1>0, <2>2, TotalType DEF MasterTotal
  <2>4. ValuesOK'
    BY <1>0, <1>5, <2>3 DEF SumRows, ghosts, bounds, ValuesOK
  <2>5. [req[r] EXCEPT !.pc = "master"].pc = "master"
    BY <1>0 DEF RowsTypeOK, Request
  <2>6. req' = [req EXCEPT ![r] = [req[r] EXCEPT !.pc = "master"]]
    BY <1>0, <1>5 DEF SumRows, RowsTypeOK
  <2>7. ResetsCounted'
    BY <1>5, <1>q, <2>5, <2>6 DEF SumRows, bounds
  <2> QED
    BY <2>4, <2>7
<1>6. ASSUME NEW r \in Requests, UpdateMaster(r)
      PROVE  ValuesOK' /\ ResetsCounted'
  <2>1. sumRead[r] \in Int
    BY <1>0 DEF ValuesOK
  <2>2. onHand' \in [Items -> Int] /\ sumRead' \in [Requests -> Int]
    <3> DEFINE i == CurrentLeg(r).key[1]
    <3>1. onHand' = [onHand EXCEPT ![i] = sumRead[r]] /\ onHand \in [Items -> Int]
      BY <1>0, <1>6 DEF UpdateMaster, ValuesOK
    <3>2. sumRead' = [sumRead EXCEPT ![r] = 0] /\ sumRead \in [Requests -> Int]
      BY <1>0, <1>6 DEF UpdateMaster, ValuesOK
    <3> HIDE DEF i
    <3>3. onHand' \in [Items -> Int]
      BY <2>1, <3>1
    <3>4. sumRead' \in [Requests -> Int]
      BY <3>2
    <3> QED
      BY <3>3, <3>4
  <2>3. ValuesOK'
    BY <1>0, <1>6, <2>2 DEF UpdateMaster, ghosts, bounds, ValuesOK
  <2>4. [req[r] EXCEPT !.pc = "log"].pc = "log"
    BY <1>0 DEF RowsTypeOK, Request
  <2>5. req' = [req EXCEPT ![r] = [req[r] EXCEPT !.pc = "log"]]
    BY <1>0, <1>6 DEF UpdateMaster, RowsTypeOK
  <2>6. ResetsCounted'
    BY <1>6, <1>q, <2>4, <2>5 DEF UpdateMaster, bounds
  <2> QED
    BY <2>3, <2>6
<1>7. ASSUME NEW r \in Requests, WriteHistory(r)
      PROVE  ValuesOK' /\ ResetsCounted'
  <2> DEFINE k == CurrentLeg(r).key
             next == [req[r] EXCEPT !.pc = "find", !.at = @ + 1]
  <2>1. k \in Keys /\ CurrentLeg(r).change \in Int
    BY <1>0, <1>7, CurrentLegType DEF WriteHistory, Adjusting
  <2>2. Entry(r, history[k]) \in [net : Int, last : Int]
    <3>1. RowQty(req[r].snap) \in Int /\ history[k].net \in Int
      BY <1>0, <2>1, QtyType DEF ValuesOK
    <3> QED
      BY <2>1, <3>1 DEF Entry, ComputedQty
  <2>3. history' \in [Keys -> [net : Int, last : Int]]
    BY <1>0, <1>7, <2>1, <2>2 DEF WriteHistory, ValuesOK
  <2>4. ValuesOK'
    BY <1>0, <1>7, <2>3 DEF WriteHistory, ghosts, bounds, ValuesOK
  <2>5. Idle.pc = "idle" /\ next.pc = "find"
    BY <1>0 DEF Idle, RowsTypeOK, Request
  <2>6. era' = era /\ completed' = completed /\ resets' = resets
    BY <1>7 DEF WriteHistory, bounds
  <2>7. ResetsCounted'
    <3>1. CASE req[r].at = Len(req[r].legs)
      <4>1. req' = [req EXCEPT ![r] = Idle]
        BY <1>7, <3>1 DEF WriteHistory
      <4> QED
        BY <1>q, <2>5, <2>6, <4>1
    <3>2. CASE req[r].at # Len(req[r].legs)
      <4>1. req' = [req EXCEPT ![r] = next]
        BY <1>7, <3>2 DEF WriteHistory
      <4> HIDE DEF next
      <4> QED
        BY <1>q, <2>5, <2>6, <4>1
    <3> QED
      BY <3>1, <3>2
  <2> QED
    BY <2>4, <2>7
<1>8. ASSUME NEW r \in Requests, Reset(r)
      PROVE  ValuesOK' /\ ResetsCounted'
  <2>1. ValuesOK'
    BY <1>0, <1>8, <1>c DEF Reset, ghosts, ValuesOK, Meet
  <2> DEFINE q == [Idle EXCEPT !.pc = "clearStock"]
  <2>2. q.pc = "clearStock"
    BY DEF Idle
  <2>3. /\ req' = [req EXCEPT ![r] = q] /\ req[r].pc = "idle"
        /\ era' = era /\ completed' = completed /\ resets' = resets + 1
        /\ era' \in Nat /\ completed' \in Nat /\ resets' \in Nat
    BY <1>8, <1>n DEF Reset
  <2> HIDE DEF q
  <2>4. ResetsCounted'
    BY <2>2, <2>3, ResetsCountedTurn
  <2> QED
    BY <2>1, <2>4
<1>9. ASSUME NEW r \in Requests, ClearStock(r)
      PROVE  ValuesOK' /\ ResetsCounted'
  <2>1. ValuesOK'
    BY <1>0, <1>9 DEF ClearStock, bounds, ValuesOK
  <2> DEFINE q == [req[r] EXCEPT !.pc = "zeroProducts"]
  <2>2. q.pc = "zeroProducts"
    BY <1>0 DEF RowsTypeOK, Request
  <2>3. /\ req' = [req EXCEPT ![r] = q] /\ req[r].pc = "clearStock"
        /\ era' = era + 1 /\ completed' = completed /\ resets' = resets
        /\ era' \in Nat /\ completed' \in Nat /\ resets' \in Nat
    BY <1>0, <1>9, <1>n DEF ClearStock, bounds, RowsTypeOK
  <2> HIDE DEF q
  <2>4. ResetsCounted'
    BY <2>2, <2>3, ResetsCountedTurn
  <2> QED
    BY <2>1, <2>4
<1>10. ASSUME NEW r \in Requests, ZeroProducts(r)
       PROVE  ValuesOK' /\ ResetsCounted'
  <2>1. ValuesOK'
    BY <1>0, <1>10 DEF ZeroProducts, ghosts, bounds, ValuesOK
  <2>2. [req[r] EXCEPT !.pc = "zeroMaterials"].pc = "zeroMaterials"
    BY <1>0 DEF RowsTypeOK, Request
  <2>3. req' = [req EXCEPT ![r] = [req[r] EXCEPT !.pc = "zeroMaterials"]]
    BY <1>0, <1>10 DEF ZeroProducts, RowsTypeOK
  <2>4. ResetsCounted'
    BY <1>10, <1>q, <2>2, <2>3 DEF ZeroProducts, bounds
  <2> QED
    BY <2>1, <2>4
<1>11. ASSUME NEW r \in Requests, ZeroMaterials(r)
       PROVE  ValuesOK' /\ ResetsCounted'
  <2>1. onHand' \in [Items -> Int]
    BY <1>0, <1>11 DEF ZeroMaterials, ValuesOK
  <2>2. ValuesOK'
    BY <1>0, <1>11, <2>1 DEF ZeroMaterials, ghosts, ValuesOK
  <2>3. /\ req' = [req EXCEPT ![r] = Idle] /\ req[r].pc = "zeroMaterials" /\ Idle.pc = "idle"
        /\ era' = era /\ completed' = completed + 1 /\ resets' = resets
        /\ era' \in Nat /\ completed' \in Nat /\ resets' \in Nat
    BY <1>11, <1>n DEF ZeroMaterials, Idle
  <2>4. ResetsCounted'
    BY <2>3, ResetsCountedTurn
  <2> QED
    BY <2>2, <2>4
<1>12. ASSUME NEW r \in Requests, Fail(r)
       PROVE  ValuesOK' /\ ResetsCounted'
  <2>1. ValuesOK'
    BY <1>0, <1>12, <1>c DEF Fail, ghosts, ValuesOK
  <2>2. Idle.pc = "idle"
    BY DEF Idle
  <2>3. ResetsCounted'
    BY <1>12, <1>q, <2>2 DEF Fail
  <2> QED
    BY <2>1, <2>3
<1>13. CASE Crash
  <2>1. faults' \in 0..MaxFaults
    BY <1>0, <1>c, <1>13, ResettersFinite DEF Crash, ValuesOK
  <2>2. ValuesOK'
    BY <1>0, <1>13, <2>1 DEF Crash, ghosts, ValuesOK
  <2>3. Clearing' = {} /\ Zeroing' = {}
    BY <1>13 DEF Crash, Clearing, Zeroing, Idle
  <2>4. /\ era + Cardinality(Clearing) <= resets /\ completed + Cardinality(Zeroing) <= era
        /\ UNCHANGED <<era, resets, completed>>
    BY <1>0, <1>13 DEF ResetsCounted, Crash
  <2>5. ResetsCounted'
    BY <1>n, <2>3, <2>4, ResettersFinite, FS_EmptySet DEF ResetsCounted
  <2> QED
    BY <2>2, <2>5
<1>14. CASE UNCHANGED vars
  <2>1. Clearing' = Clearing /\ Zeroing' = Zeroing
    BY <1>14 DEF vars, Clearing, Zeroing
  <2> QED
    BY <1>0, <1>14, <2>1 DEF vars, ValuesOK, ResetsCounted
<1> QED
  BY <1>1, <1>2, <1>3, <1>4, <1>5, <1>6, <1>7, <1>8, <1>9, <1>10, <1>11,
     <1>12, <1>13, <1>14
     DEF Next, AdjustStep, ResetStep

\* The type invariant of the stock tables: in particular a reset is begun
\* before it truncates and truncates before it completes, whatever overlaps.
THEOREM StockTyped == Spec => []TypeOK
<1>1. Spec => []TypeInv
  BY TypeInvInit, TypeInvStep, PTL DEF Spec
<1>2. TypeInv => TypeOK
  <2> SUFFICES ASSUME TypeInv PROVE TypeOK
    OBVIOUS
  <2>1. era \in Nat /\ completed \in Nat /\ resets \in Nat
    BY BoundTypes DEF TypeInv, RowsTypeOK, ValuesOK
  <2>2. era \in 0..resets /\ completed \in 0..era
    BY <2>1, ResettersFinite DEF TypeInv, ResetsCounted
  <2> QED
    BY <2>2 DEF TypeInv, TypeOK, RowsTypeOK, ValuesOK
<1> QED
  BY <1>1, <1>2, PTL

--------------------------------------------------------------------------------
(***************************************************************************)
(* What holds while no two requests have met: the request in flight has    *)
(* the stock tables to itself, so what it read is still stored.            *)
(***************************************************************************)
Alone == \A r, o \in InFlight : r = o

LegOf(q) == q.legs[q.at]
Zero == [net |-> 0, last |-> 0]

\* What a request has read of the rows is stored, and what it saved too.
FreshReq(q, rows) ==
    /\ q.pc = "save" => q.snap = rows[LegOf(q).key]
    /\ q.pc \in {"sum", "master", "log"} =>
            RowQty(rows[LegOf(q).key]) = RowQty(q.snap) + LegOf(q).change

\* How far a reset has come.
ResetReq(q, rows, entries, hand) ==
    /\ q.pc \in {"clearStock", "zeroProducts", "zeroMaterials"} =>
            \A k \in Keys : entries[k] = Zero
    /\ q.pc \in {"zeroProducts", "zeroMaterials"} => \A k \in Keys : rows[k] = NoRow
    /\ q.pc = "zeroMaterials" => \A i \in Products : hand[i] = 0

AloneInv ==
    ~crowded =>
        /\ Alone
        /\ \A r \in Requests : FreshReq(req[r], row) /\ ResetReq(req[r], row, history, onHand)

\* A step of r, which has the tables to itself, leaves every other request idle.
LEMMA Lone ==
    ASSUME RowsTypeOK, AloneInv, ~crowded, NEW r \in Requests, NEW q,
           req' = [req EXCEPT ![r] = q], req[r].pc # "idle" \/ InFlight = {}
    PROVE  /\ req'[r] = q
           /\ \A o \in Requests \ {r} : req[o].pc = "idle" /\ req'[o] = req[o]
           /\ Alone'
<1>1. req'[r] = q /\ \A o \in Requests \ {r} : req'[o] = req[o]
  BY DEF RowsTypeOK
<1>2. \A o \in Requests \ {r} : req[o].pc = "idle"
  BY DEF AloneInv, Alone, InFlight
<1> QED
  BY <1>1, <1>2 DEF Alone, InFlight

LEMMA AloneTurn ==
    ASSUME RowsTypeOK, AloneInv, NEW r \in Requests, NEW q,
           req' = [req EXCEPT ![r] = q],
           ~crowded' => /\ ~crowded
                        /\ req[r].pc # "idle" \/ InFlight = {}
                        /\ FreshReq(q, row')
                        /\ ResetReq(q, row', history', onHand')
    PROVE  AloneInv'
<1> SUFFICES ASSUME ~crowded'
             PROVE  /\ Alone'
                    /\ \A o \in Requests : /\ FreshReq(req'[o], row')
                                           /\ ResetReq(req'[o], row', history', onHand')
  BY DEF AloneInv
<1>1. /\ req'[r] = q
      /\ \A o \in Requests \ {r} : req[o].pc = "idle" /\ req'[o] = req[o]
      /\ Alone'
  BY Lone
<1>2. ASSUME NEW o \in Requests \ {r}
      PROVE  FreshReq(req'[o], row') /\ ResetReq(req'[o], row', history', onHand')
  <2>1. req'[o].pc = "idle"
    BY <1>1
  <2> QED
    BY <2>1 DEF FreshReq, ResetReq
<1> QED
  BY <1>1, <1>2

\* The fields a step changes, read off the record.
LEMMA RequestFields ==
    ASSUME NEW q \in Request, NEW p, NEW rw, NEW n
    PROVE  /\ [q EXCEPT !.pc = p].pc = p
           /\ [q EXCEPT !.pc = p].legs = q.legs /\ [q EXCEPT !.pc = p].at = q.at
           /\ [q EXCEPT !.pc = p].snap = q.snap
           /\ [q EXCEPT !.pc = p, !.snap = rw].pc = p
           /\ [q EXCEPT !.pc = p, !.snap = rw].legs = q.legs
           /\ [q EXCEPT !.pc = p, !.snap = rw].at = q.at
           /\ [q EXCEPT !.pc = p, !.snap = rw].snap = rw
           /\ [q EXCEPT !.pc = p, !.at = n].pc = p
           /\ [q EXCEPT !.pc = p, !.at = n].legs = q.legs
           /\ [q EXCEPT !.pc = p, !.at = n].at = n
  BY DEF Request

LEMMA IdleFields ==
    /\ Idle.pc = "idle"
    /\ \A legs : /\ [Idle EXCEPT !.pc = "find", !.legs = legs].pc = "find"
                 /\ [Idle EXCEPT !.pc = "find", !.legs = legs].legs = legs
                 /\ [Idle EXCEPT !.pc = "find", !.legs = legs].at = 1
    /\ [Idle EXCEPT !.pc = "clearStock"].pc = "clearStock"
  BY DEF Idle

LEMMA ProductsStocked == Products \subseteq Items
  BY StockConstants, Zenon DEF StockConstants

\* What a step of r makes of its record, and what else it does.
Turned(r, q) == req' = [req EXCEPT ![r] = q]

LEMMA TurnBegins ==
    ASSUME NEW r \in Requests, Adjust(r) \/ Transfer(r) \/ Convert(r)
    PROVE  \E q : /\ Turned(r, q) /\ req[r].pc = "idle" /\ q.pc = "find" /\ q.at = 1
                  /\ crowded' = (crowded \/ InFlight # {})
                  /\ UNCHANGED <<sumRead, row, onHand, history, resets, completed, era,
                                 faults, ghosts>>
<1>1. PICK legs : BegunLegs(legs) /\ Begin(r, legs)
  BY BeginsWithLegs
<1> DEFINE q == [Idle EXCEPT !.pc = "find", !.legs = legs]
<1>2. q.pc = "find" /\ q.at = 1
  BY IdleFields
<1>3. Turned(r, q)
  BY <1>1 DEF Begin, Turned
<1> HIDE DEF q
<1> QED
  BY <1>1, <1>2, <1>3 DEF Begin, Meet

\* The steps of adjustStock other than its save: the record they leave behind.
LEMMA TurnReads ==
    ASSUME RowsTypeOK, NEW r \in Requests, FindRow(r)
    PROVE  \E q : /\ Turned(r, q) /\ q.pc = "save" /\ q.legs = req[r].legs /\ q.at = req[r].at
                  /\ q.snap = row[CurrentLeg(r).key]
<1> DEFINE q == [req[r] EXCEPT !.pc = "save", !.snap = row[CurrentLeg(r).key]]
<1>1. req[r] \in Request
  BY DEF RowsTypeOK
<1>2. /\ q.pc = "save" /\ q.legs = req[r].legs /\ q.at = req[r].at
      /\ q.snap = row[CurrentLeg(r).key]
  BY <1>1, RequestFields
<1>3. Turned(r, q)
  BY DEF FindRow, Turned, RowsTypeOK
<1> HIDE DEF q
<1> QED
  BY <1>2, <1>3

LEMMA TurnMoves ==
    ASSUME RowsTypeOK, NEW r \in Requests,
           SaveRow(r) \/ SumRows(r) \/ UpdateMaster(r) \/ ClearStock(r) \/ ZeroProducts(r)
    PROVE  \E q : /\ Turned(r, q)
                  /\ SaveRow(r) => q.pc = "sum"
                  /\ SumRows(r) => q.pc = "master"
                  /\ UpdateMaster(r) => q.pc = "log"
                  /\ ClearStock(r) => q.pc = "zeroProducts"
                  /\ ZeroProducts(r) => q.pc = "zeroMaterials"
                  /\ q.legs = req[r].legs /\ q.at = req[r].at /\ q.snap = req[r].snap
<1>1. req[r] \in Request
  BY DEF RowsTypeOK
<1>2. PICK p : /\ req' = [req EXCEPT ![r] = [req[r] EXCEPT !.pc = p]]
               /\ SaveRow(r) => p = "sum"
               /\ SumRows(r) => p = "master"
               /\ UpdateMaster(r) => p = "log"
               /\ ClearStock(r) => p = "zeroProducts"
               /\ ZeroProducts(r) => p = "zeroMaterials"
  BY DEF SaveRow, SumRows, UpdateMaster, ClearStock, ZeroProducts, RowsTypeOK
<1> DEFINE q == [req[r] EXCEPT !.pc = p]
<1>3. q.pc = p /\ q.legs = req[r].legs /\ q.at = req[r].at /\ q.snap = req[r].snap
  BY <1>1, RequestFields
<1>4. Turned(r, q)
  BY <1>2 DEF Turned
<1> HIDE DEF q
<1> QED
  BY <1>2, <1>3, <1>4

LEMMA TurnEnds ==
    ASSUME NEW r \in Requests, SaveRejected(r) \/ ZeroMaterials(r) \/ Fail(r)
    PROVE  Turned(r, Idle)
  BY DEF SaveRejected, ZeroMaterials, Fail, Turned

LEMMA TurnWrites ==
    ASSUME RowsTypeOK, NEW r \in Requests, WriteHistory(r)
    PROVE  \/ Turned(r, Idle) /\ req[r].at = Len(req[r].legs)
           \/ \E q : /\ Turned(r, q) /\ req[r].at # Len(req[r].legs)
                    /\ q.pc = "find" /\ q.legs = req[r].legs /\ q.at = req[r].at + 1
<1>1. CASE req[r].at = Len(req[r].legs)
  BY <1>1 DEF WriteHistory, Turned
<1>2. CASE req[r].at # Len(req[r].legs)
  <2> DEFINE n == req[r].at + 1
             q == [req[r] EXCEPT !.pc = "find", !.at = n]
  <2>1. req' = [req EXCEPT ![r] = q]
    BY <1>2 DEF WriteHistory
  <2> HIDE DEF n
  <2>2. q.pc = "find" /\ q.legs = req[r].legs /\ q.at = n
    BY RequestFields DEF RowsTypeOK
  <2> HIDE DEF q
  <2> QED
    BY <1>2, <2>1, <2>2 DEF Turned, n
<1> QED
  BY <1>1, <1>2

\* A crash leaves every request idle.
LEMMA AllIdle ==
    ASSUME Crash, NEW r \in Requests
    PROVE  req'[r] = Idle /\ req'[r].pc = "idle"
  BY DEF Crash, Idle

LEMMA AloneInit == Init => AloneInv
  BY DEF Init, AloneInv, Alone, InFlight, FreshReq, ResetReq, Idle

LEMMA AloneStep == TypeInv /\ AloneInv /\ [Next]_vars => AloneInv'
<1> SUFFICES ASSUME TypeInv, AloneInv, [Next]_vars PROVE AloneInv'
  OBVIOUS
<1>0. RowsTypeOK
  BY DEF TypeInv
<1>h. ASSUME NEW r \in Requests, ~crowded
      PROVE  FreshReq(req[r], row) /\ ResetReq(req[r], row, history, onHand)
  BY <1>h DEF AloneInv
<1>1. ASSUME NEW r \in Requests, Adjust(r) \/ Transfer(r) \/ Convert(r)
      PROVE  AloneInv'
  <2>1. PICK q : /\ Turned(r, q) /\ req[r].pc = "idle" /\ q.pc = "find" /\ q.at = 1
                 /\ crowded' = (crowded \/ InFlight # {})
    BY <1>1, TurnBegins
  <2>2. FreshReq(q, row') /\ ResetReq(q, row', history', onHand')
    BY <2>1 DEF FreshReq, ResetReq
  <2> QED
    BY <1>0, <2>1, <2>2, AloneTurn DEF Turned
<1>2. ASSUME NEW r \in Requests, FindRow(r)
      PROVE  AloneInv'
  <2>1. PICK q : /\ Turned(r, q) /\ q.pc = "save" /\ q.legs = req[r].legs /\ q.at = req[r].at
                 /\ q.snap = row[CurrentLeg(r).key]
    BY <1>0, <1>2, TurnReads
  <2>2. row' = row /\ crowded' = crowded /\ req[r].pc # "idle"
    BY <1>2 DEF FindRow, bounds
  <2>3. FreshReq(q, row') /\ ResetReq(q, row', history', onHand')
    BY <2>1, <2>2 DEF FreshReq, ResetReq, LegOf, CurrentLeg
  <2> QED
    BY <1>0, <2>1, <2>2, <2>3, AloneTurn DEF Turned
<1>3. ASSUME NEW r \in Requests, SaveRow(r)
      PROVE  AloneInv'
  <2>1. PICK q : /\ Turned(r, q) /\ q.pc = "sum"
                 /\ q.legs = req[r].legs /\ q.at = req[r].at /\ q.snap = req[r].snap
    BY <1>0, <1>3, TurnMoves
  <2>2. crowded' = crowded /\ req[r].pc # "idle"
    BY <1>3 DEF SaveRow, bounds
  <2>3. RowQty(row'[CurrentLeg(r).key]) = RowQty(req[r].snap) + CurrentLeg(r).change
    BY <1>0, <1>3, SavedQty
  <2>4. FreshReq(q, row') /\ ResetReq(q, row', history', onHand')
    BY <2>1, <2>3 DEF FreshReq, ResetReq, LegOf, CurrentLeg
  <2> QED
    BY <1>0, <2>1, <2>2, <2>4, AloneTurn DEF Turned
<1>4. ASSUME NEW r \in Requests, SaveRejected(r) \/ ZeroMaterials(r) \/ Fail(r)
      PROVE  AloneInv'
  <2>1. Turned(r, Idle)
    BY <1>4, TurnEnds
  <2>2. crowded' = crowded /\ req[r].pc # "idle"
    BY <1>4 DEF SaveRejected, ZeroMaterials, Fail, bounds
  <2>3. FreshReq(Idle, row') /\ ResetReq(Idle, row', history', onHand')
    BY IdleFields DEF FreshReq, ResetReq
  <2> QED
    BY <1>0, <2>1, <2>2, <2>3, AloneTurn DEF Turned
<1>5. ASSUME NEW r \in Requests, SumRows(r) \/ UpdateMaster(r)
      PROVE  AloneInv'
  <2>1. PICK q : /\ Turned(r, q) /\ q.pc \in {"master", "log"}
                 /\ q.legs = req[r].legs /\ q.at = req[r].at /\ q.snap = req[r].snap
    BY <1>0, <1>5, TurnMoves
  <2>2. crowded' = crowded /\ req[r].pc \in {"sum", "master"} /\ row' = row
    BY <1>5 DEF SumRows, UpdateMaster, bounds
  <2>3. ~crowded => FreshReq(q, row') /\ ResetReq(q, row', history', onHand')
    BY <1>h, <2>1, <2>2 DEF FreshReq, ResetReq, LegOf
  <2> QED
    BY <1>0, <2>1, <2>2, <2>3, AloneTurn DEF Turned
<1>6. ASSUME NEW r \in Requests, WriteHistory(r)
      PROVE  AloneInv'
  <2>1. PICK q : Turned(r, q) /\ q.pc \in {"idle", "find"}
    BY <1>0, <1>6, TurnWrites, IdleFields
  <2>2. crowded' = crowded /\ req[r].pc # "idle"
    BY <1>6 DEF WriteHistory, bounds
  <2>3. FreshReq(q, row') /\ ResetReq(q, row', history', onHand')
    BY <2>1 DEF FreshReq, ResetReq
  <2> QED
    BY <1>0, <2>1, <2>2, <2>3, AloneTurn DEF Turned
<1>7. ASSUME NEW r \in Requests, Reset(r)
      PROVE  AloneInv'
  <2> DEFINE q == [Idle EXCEPT !.pc = "clearStock"]
  <2>1. /\ Turned(r, q) /\ crowded' = (crowded \/ InFlight # {})
        /\ \A k \in Keys : history'[k] = Zero
    BY <1>7 DEF Reset, Turned, Meet, Zero
  <2>2. q.pc = "clearStock"
    BY IdleFields
  <2> HIDE DEF q
  <2>3. FreshReq(q, row') /\ ResetReq(q, row', history', onHand')
    BY <2>1, <2>2 DEF FreshReq, ResetReq
  <2> QED
    BY <1>0, <2>1, <2>3, AloneTurn DEF Turned
<1>8. ASSUME NEW r \in Requests, ClearStock(r)
      PROVE  AloneInv'
  <2>1. PICK q : Turned(r, q) /\ q.pc = "zeroProducts"
    BY <1>0, <1>8, TurnMoves
  <2>2. /\ crowded' = crowded /\ req[r].pc = "clearStock" /\ history' = history
        /\ \A k \in Keys : row'[k] = NoRow
    BY <1>8 DEF ClearStock, bounds
  <2>3. ~crowded => FreshReq(q, row') /\ ResetReq(q, row', history', onHand')
    BY <1>h, <2>1, <2>2 DEF FreshReq, ResetReq
  <2> QED
    BY <1>0, <2>1, <2>2, <2>3, AloneTurn DEF Turned
<1>9. ASSUME NEW r \in Requests, ZeroProducts(r)
      PROVE  AloneInv'
  <2>1. PICK q : Turned(r, q) /\ q.pc = "zeroMaterials"
    BY <1>0, <1>9, TurnMoves
  <2>2. /\ crowded' = crowded /\ req[r].pc = "zeroProducts" /\ history' = history /\ row' = row
        /\ \A i \in Products : onHand'[i] = 0
    BY <1>9, ProductsStocked DEF ZeroProducts, bounds
  <2>3. ~crowded => FreshReq(q, row') /\ ResetReq(q, row', history', onHand')
    BY <1>h, <2>1, <2>2 DEF FreshReq, ResetReq
  <2> QED
    BY <1>0, <2>1, <2>2, <2>3, AloneTurn DEF Turned
<1>10. CASE Crash
  BY <1>10, AllIdle DEF AloneInv, Alone, InFlight, FreshReq, ResetReq
<1>11. CASE UNCHANGED vars
  BY <1>11 DEF vars, AloneInv, Alone, InFlight
<1> QED
  BY <1>1, <1>2, <1>3, <1>4, <1>5, <1>6, <1>7, <1>8, <1>9, <1>10, <1>11
     DEF Next, AdjustStep, ResetStep

--------------------------------------------------------------------------------
(***************************************************************************)
(* MasterFollowsRows.  Between its save and its update of the master data  *)
(* a request owes the cached total of one item; for the other items the    *)
(* total is the sum, but for one item per fault.                           *)
(***************************************************************************)
OwedBy(q) == {i \in {LegOf(q).key[1]} : q.pc \in {"sum", "master"}}
Owed == UNION {OwedBy(req[r]) : r \in Requests}
Wrong == {i \in Items : onHand[i] # OnHandTotal(i)}
Stale == Wrong \ Owed

MasterInv ==
    ~crowded =>
        /\ \A r \in Requests :
              req[r].pc = "master" => sumRead[r] = OnHandTotal(LegOf(req[r]).key[1])
        /\ ~HalfReset => Cardinality(Stale) <= faults

LEMMA FewerThan ==
    ASSUME NEW S, IsFiniteSet(S), NEW T, NEW n \in Nat, NEW m \in Nat, NEW e,
           Cardinality(S) <= n,
           \/ T \subseteq S /\ n <= m
           \/ T \subseteq S \cup {e} /\ n + 1 <= m
    PROVE  Cardinality(T) <= m
<1>1. CASE T \subseteq S /\ n <= m
  <2>1. Cardinality(T) <= Cardinality(S) /\ Cardinality(T) \in Nat /\ Cardinality(S) \in Nat
    BY <1>1, FS_Subset, FS_CardinalityType
  <2> QED
    BY <1>1, <2>1
<1>2. CASE T \subseteq S \cup {e} /\ n + 1 <= m
  <2> DEFINE R == S \cup {e}
  <2>1. R \ {e} = S \ {e}
    OBVIOUS
  <2>2. T \subseteq R
    BY <1>2
  <2> HIDE DEF R
  <2>3. IsFiniteSet(R) /\ Cardinality(S) \in Nat /\ Cardinality(R) \in Nat
        /\ Cardinality(R) <= Cardinality(S) + 1
    BY <2>1, CountTurn
  <2>4. Cardinality(T) <= Cardinality(R) /\ Cardinality(T) \in Nat
    BY <2>2, <2>3, FS_Subset, FS_CardinalityType
  <2> QED
    BY <1>2, <2>3, <2>4
<1> QED
  BY <1>1, <1>2

LEMMA StaleFinite == IsFiniteSet(Stale) /\ IsFiniteSet(Wrong)
  BY FiniteSets, FS_Subset DEF Stale, Wrong

LEMMA OwedTurn ==
    ASSUME RowsTypeOK, AloneInv, ~crowded, NEW r \in Requests, NEW q,
           Turned(r, q), req[r].pc # "idle" \/ InFlight = {}
    PROVE  Owed = OwedBy(req[r]) /\ Owed' = OwedBy(q)
<1>1. /\ req'[r] = q
      /\ \A o \in Requests \ {r} : req[o].pc = "idle" /\ req'[o] = req[o]
  BY Lone DEF Turned
<1>2. \A o \in Requests \ {r} : OwedBy(req[o]) = {} /\ OwedBy(req'[o]) = {}
  BY <1>1 DEF OwedBy
<1>3. Owed = OwedBy(req[r])
  BY <1>2 DEF Owed
<1>4. Owed' = OwedBy(req'[r])
  BY <1>2 DEF Owed
<1> QED
  BY <1>1, <1>3, <1>4

\* A request that has not met another is in its reset: the reset is half done.
LEMMA HalfWay ==
    ASSUME TypeInv, NEW r \in Requests, Resetting(r)
    PROVE  HalfReset
<1>1. era \in Nat /\ completed \in Nat /\ resets \in Nat
  BY BoundTypes DEF TypeInv, RowsTypeOK, ValuesOK
<1>2. Cardinality(Clearing) \in Nat /\ Cardinality(Zeroing) \in Nat
  BY ResettersFinite
<1>3. era + Cardinality(Clearing) <= resets /\ completed + Cardinality(Zeroing) <= era
  BY DEF TypeInv, ResetsCounted
<1>4. r \in Clearing \/ r \in Zeroing
  BY DEF Resetting, Clearing, Zeroing
<1>5. Cardinality(Clearing) # 0 \/ Cardinality(Zeroing) # 0
  BY <1>4, ResettersFinite, FS_EmptySet
<1> QED
  BY <1>1, <1>2, <1>3, <1>5 DEF HalfReset

LEMMA SameTotals ==
    ASSUME row' = row
    PROVE  \A i : OnHandTotal(i)' = OnHandTotal(i)
  BY DEF OnHandTotal, Qty

\* A step of r that changes no row nor total, and settles nothing it owed.
LEMMA MasterQuiet ==
    ASSUME TypeInv, AloneInv, MasterInv, NEW r \in Requests, NEW q, Turned(r, q),
           ~crowded' => ~crowded /\ (req[r].pc # "idle" \/ InFlight = {}),
           row' = row, onHand' = onHand, faults' = faults,
           resets' = resets, completed' = completed,
           req[r].pc \in {"sum", "master"} => LegOf(q).key[1] = LegOf(req[r]).key[1],
           req[r].pc \in {"sum", "master"} => q.pc \in {"sum", "master"},
           q.pc = "master" => sumRead'[r] = OnHandTotal(LegOf(q).key[1])
    PROVE  MasterInv'
<1> SUFFICES ASSUME ~crowded'
             PROVE  /\ \A o \in Requests :
                         req'[o].pc = "master" => sumRead'[o] = OnHandTotal(LegOf(req[o]).key[1])'
                    /\ ~HalfReset' => Cardinality(Stale') <= faults'
  BY DEF MasterInv
<1>1. /\ req'[r] = q
      /\ \A o \in Requests \ {r} : req[o].pc = "idle" /\ req'[o] = req[o]
  BY Lone DEF Turned, TypeInv
<1>2. Owed = OwedBy(req[r]) /\ Owed' = OwedBy(q)
  BY OwedTurn DEF TypeInv
<1>3. Owed \subseteq Owed'
  BY <1>2 DEF OwedBy
<1>4. Wrong' = Wrong
  BY SameTotals DEF Wrong
<1>5. Stale' \subseteq Stale
  BY <1>3, <1>4 DEF Stale
<1>6. ~HalfReset' => Cardinality(Stale') <= faults'
  <2>1. HalfReset' <=> HalfReset
    BY DEF HalfReset
  <2>2. faults \in Nat
    BY BoundTypes DEF TypeInv, ValuesOK
  <2>3. ~HalfReset => Cardinality(Stale) <= faults
    BY DEF MasterInv
  <2> QED
    BY <1>5, <2>1, <2>2, <2>3, StaleFinite, FewerThan
<1>7. ASSUME NEW o \in Requests, req'[o].pc = "master"
      PROVE  sumRead'[o] = OnHandTotal(LegOf(req[o]).key[1])'
  <2>1. o = r
    BY <1>1, <1>7
  <2> QED
    BY <1>1, <1>7, <2>1, SameTotals
<1> QED
  BY <1>6, <1>7

LEMMA MasterInit == Init => MasterInv
<1> SUFFICES ASSUME Init PROVE MasterInv
  OBVIOUS
<1>1. \A r \in Requests : req[r].pc = "idle"
  BY IdleFields DEF Init
<1>2. ASSUME NEW i \in Items
      PROVE  onHand[i] = OnHandTotal(i)
  <2> DEFINE W == Warehouses \ {SampleWarehouse}
             f == [w \in Warehouses |-> Qty(<<i, w>>)]
  <2>1. IsFiniteSet(W)
    BY FiniteSets, FS_Subset
  <2>2. \A w \in W : f[w] = 0
    BY DEF Init, Qty, RowQty, Keys
  <2> HIDE DEF W, f
  <2>3. SumFunctionOnSet(f, W) = 0
    BY <2>1, <2>2, SumZero
  <2> QED
    BY <2>3 DEF OnHandTotal, W, f, Init
<1>3. Stale = {}
  BY <1>2 DEF Stale, Wrong
<1> QED
  BY <1>1, <1>3, FS_EmptySet DEF MasterInv, Init

\* Saving a row changes the total of its item alone.
LEMMA OtherTotals ==
    ASSUME RowsTypeOK, NEW r \in Requests, SaveRow(r),
           NEW i \in Items, i # CurrentLeg(r).key[1]
    PROVE  OnHandTotal(i)' = OnHandTotal(i)
<1> DEFINE W == Warehouses \ {SampleWarehouse}
           f == [w \in Warehouses |-> Qty(<<i, w>>)]
           g == [w \in Warehouses |-> Qty(<<i, w>>)']
<1>1. IsFiniteSet(W)
  BY FiniteSets, FS_Subset
<1>2. \A l \in Keys \ {CurrentLeg(r).key} : Qty(l)' = Qty(l)
  BY SavedQty
<1>3. \A w \in W : f[w] = g[w]
  <2> SUFFICES ASSUME NEW w \in W PROVE Qty(<<i, w>>)' = Qty(<<i, w>>)
    OBVIOUS
  <2>1. <<i, w>> \in Keys /\ <<i, w>> # CurrentLeg(r).key
    BY DEF Keys
  <2> QED
    BY <1>2, <2>1
<1> HIDE DEF W, f, g
<1>4. SumFunctionOnSet(f, W) = SumFunctionOnSet(g, W)
  BY <1>1, <1>3, SumSame
<1> QED
  BY <1>4 DEF OnHandTotal, W, f, g

LEMMA MasterStep == TypeInv /\ AloneInv /\ MasterInv /\ [Next]_vars => MasterInv'
<1> SUFFICES ASSUME TypeInv, AloneInv, MasterInv, [Next]_vars PROVE MasterInv'
  OBVIOUS
<1>0. RowsTypeOK /\ faults \in Nat
  BY BoundTypes DEF TypeInv, ValuesOK
<1>m. /\ ~crowded /\ ~HalfReset => Cardinality(Stale) <= faults
      /\ \A r \in Requests :
            ~crowded /\ req[r].pc = "master" => sumRead[r] = OnHandTotal(LegOf(req[r]).key[1])
  BY DEF MasterInv
<1>1. ASSUME NEW r \in Requests, Adjust(r) \/ Transfer(r) \/ Convert(r)
      PROVE  MasterInv'
  <2>1. PICK q : /\ Turned(r, q) /\ req[r].pc = "idle" /\ q.pc = "find" /\ q.at = 1
                 /\ crowded' = (crowded \/ InFlight # {})
                 /\ UNCHANGED <<sumRead, row, onHand, history, resets, completed, era,
                                faults, ghosts>>
    BY <1>1, TurnBegins
  <2> QED
    BY <2>1, MasterQuiet
<1>2. ASSUME NEW r \in Requests, FindRow(r)
      PROVE  MasterInv'
  <2>1. PICK q : /\ Turned(r, q) /\ q.pc = "save"
    BY <1>0, <1>2, TurnReads
  <2>2. UNCHANGED <<row, onHand, bounds>> /\ req[r].pc = "find"
    BY <1>2 DEF FindRow
  <2> QED
    BY <2>1, <2>2, MasterQuiet DEF bounds
<1>3. ASSUME NEW r \in Requests, SaveRow(r), ~crowded'
      PROVE  /\ \A o \in Requests :
                   req'[o].pc = "master" => sumRead'[o] = OnHandTotal(LegOf(req[o]).key[1])'
             /\ ~HalfReset' => Cardinality(Stale') <= faults'
  <2>1. PICK q : /\ Turned(r, q) /\ q.pc = "sum"
                 /\ q.legs = req[r].legs /\ q.at = req[r].at
    BY <1>0, <1>3, TurnMoves
  <2>2. UNCHANGED <<onHand, bounds>> /\ req[r].pc = "save"
    BY <1>3 DEF SaveRow
  <2>3. /\ req'[r] = q
        /\ \A o \in Requests \ {r} : req[o].pc = "idle" /\ req'[o] = req[o]
    BY <1>0, <1>3, <2>1, <2>2, Lone DEF Turned, bounds
  <2>4. Owed = {} /\ Owed' = {CurrentLeg(r).key[1]}
    BY <1>0, <1>3, <2>1, <2>2, OwedTurn DEF OwedBy, LegOf, CurrentLeg, bounds
  <2>5. Stale' \subseteq Stale
    BY <1>0, <1>3, <2>2, <2>4, OtherTotals DEF Stale, Wrong
  <2>6. ~HalfReset' => Cardinality(Stale') <= faults'
    <3>1. HalfReset' <=> HalfReset
      BY <2>2 DEF HalfReset, bounds
    <3>2. faults' = faults /\ ~crowded
      BY <1>3, <2>2 DEF bounds
    <3> QED
      BY <1>0, <1>m, <2>5, <3>1, <3>2, StaleFinite, FewerThan
  <2>7. \A o \in Requests : req'[o].pc # "master"
    BY <2>1, <2>3
  <2> QED
    BY <2>6, <2>7
<1>4. ASSUME NEW r \in Requests, SaveRejected(r)
      PROVE  MasterInv'
  <2>1. Turned(r, Idle) /\ Idle.pc = "idle"
    BY <1>4, TurnEnds, IdleFields
  <2>2. UNCHANGED <<row, onHand, bounds>> /\ req[r].pc = "save"
    BY <1>4 DEF SaveRejected
  <2> QED
    BY <2>1, <2>2, MasterQuiet DEF bounds
<1>5. ASSUME NEW r \in Requests, SumRows(r)
      PROVE  MasterInv'
  <2>1. PICK q : /\ Turned(r, q) /\ q.pc = "master"
                 /\ q.legs = req[r].legs /\ q.at = req[r].at
    BY <1>0, <1>5, TurnMoves
  <2>2. UNCHANGED <<row, onHand, bounds>> /\ req[r].pc = "sum"
    BY <1>5 DEF SumRows
  <2>3. LegOf(q) = LegOf(req[r])
    BY <2>1 DEF LegOf
  <2>4. sumRead'[r] = OnHandTotal(LegOf(q).key[1])
    BY <1>5, <2>3 DEF SumRows, TypeInv, ValuesOK, MasterTotal, CurrentLeg, LegOf
  <2> QED
    BY <2>1, <2>2, <2>3, <2>4, MasterQuiet DEF bounds
<1>6. ASSUME NEW r \in Requests, UpdateMaster(r), ~crowded'
      PROVE  /\ \A o \in Requests :
                   req'[o].pc = "master" => sumRead'[o] = OnHandTotal(LegOf(req[o]).key[1])'
             /\ ~HalfReset' => Cardinality(Stale') <= faults'
  <2> DEFINE i == CurrentLeg(r).key[1]
  <2>1. PICK q : /\ Turned(r, q) /\ q.pc = "log"
    BY <1>0, <1>6, TurnMoves
  <2>2. UNCHANGED <<row, bounds>> /\ req[r].pc = "master" /\ ~crowded
    BY <1>6 DEF UpdateMaster, bounds
  <2>3. /\ req'[r] = q
        /\ \A o \in Requests \ {r} : req[o].pc = "idle" /\ req'[o] = req[o]
    BY <1>0, <1>6, <2>1, <2>2, Lone DEF Turned, bounds
  <2>4. Owed = {i} /\ Owed' = {}
    BY <1>0, <2>1, <2>2, OwedTurn DEF OwedBy, LegOf, CurrentLeg
  <2>5. sumRead[r] = OnHandTotal(i)
    BY <1>m, <2>2 DEF CurrentLeg, LegOf
  <2>6. onHand' = [onHand EXCEPT ![i] = sumRead[r]]
    BY <1>6 DEF UpdateMaster
  <2>7. Stale' \subseteq Stale
    <3> HIDE DEF i
    <3>1. \A j \in Items : onHand'[j] = IF j = i THEN OnHandTotal(j) ELSE onHand[j]
      BY <2>5, <2>6 DEF TypeInv, ValuesOK
    <3>2. \A j \in Items : OnHandTotal(j)' = OnHandTotal(j)
      BY <2>2, SameTotals
    <3> QED
      BY <2>4, <3>1, <3>2 DEF Stale, Wrong
  <2>8. ~HalfReset' => Cardinality(Stale') <= faults'
    <3>1. HalfReset' <=> HalfReset
      BY <2>2 DEF HalfReset, bounds
    <3>2. faults' = faults
      BY <2>2 DEF bounds
    <3> QED
      BY <1>0, <1>m, <2>2, <2>7, <3>1, <3>2, StaleFinite, FewerThan
  <2>9. \A o \in Requests : req'[o].pc # "master"
    BY <2>1, <2>3
  <2> QED
    BY <2>8, <2>9
<1>7. ASSUME NEW r \in Requests, WriteHistory(r)
      PROVE  MasterInv'
  <2>1. PICK q : Turned(r, q) /\ q.pc \in {"idle", "find"}
    BY <1>0, <1>7, TurnWrites, IdleFields
  <2>2. UNCHANGED <<row, onHand, bounds>> /\ req[r].pc = "log"
    BY <1>7 DEF WriteHistory
  <2> QED
    BY <2>1, <2>2, MasterQuiet DEF bounds
<1>8. ASSUME NEW r \in Requests, Reset(r) \/ ClearStock(r) \/ ZeroProducts(r), ~crowded'
      PROVE  /\ \A o \in Requests :
                   req'[o].pc = "master" => sumRead'[o] = OnHandTotal(LegOf(req[o]).key[1])'
             /\ ~HalfReset' => Cardinality(Stale') <= faults'
  <2>1. /\ ~crowded /\ (req[r].pc # "idle" \/ InFlight = {})
        /\ \E q : Turned(r, q) /\ q.pc # "master"
    <3>1. CASE Reset(r)
      BY <1>8, <3>1, IdleFields DEF Reset, Meet, Turned
    <3>2. CASE ClearStock(r) \/ ZeroProducts(r)
      <4>1. PICK q : Turned(r, q) /\ q.pc \in {"zeroProducts", "zeroMaterials"}
        BY <1>0, <3>2, TurnMoves
      <4> QED
        BY <1>8, <3>2, <4>1 DEF ClearStock, ZeroProducts, bounds
    <3> QED
      BY <1>8, <3>1, <3>2
  <2>2. PICK q : Turned(r, q) /\ q.pc # "master"
    BY <2>1
  <2>3. \A o \in Requests : req'[o].pc # "master"
    BY <1>0, <2>1, <2>2, Lone DEF Turned
  <2>4. HalfReset'
    <3>1. CASE Reset(r)
      <4>1. resets' = resets + 1 /\ completed' = completed
        BY <3>1 DEF Reset
      <4>2. /\ era \in Nat /\ completed \in Nat /\ resets \in Nat
            /\ era + Cardinality(Clearing) <= resets /\ completed + Cardinality(Zeroing) <= era
        BY BoundTypes DEF TypeInv, RowsTypeOK, ValuesOK, ResetsCounted
      <4>3. completed <= resets
        BY <4>2, ResettersFinite
      <4> QED
        BY <4>1, <4>2, <4>3 DEF HalfReset
    <3>2. CASE ClearStock(r) \/ ZeroProducts(r)
      <4>1. HalfReset
        BY <3>2, HalfWay DEF ClearStock, ZeroProducts, Resetting
      <4> QED
        BY <3>2, <4>1 DEF ClearStock, ZeroProducts, bounds, HalfReset
    <3> QED
      BY <1>8, <3>1, <3>2
  <2> QED
    BY <2>3, <2>4
<1>9. ASSUME NEW r \in Requests, ZeroMaterials(r), ~crowded'
      PROVE  /\ \A o \in Requests :
                   req'[o].pc = "master" => sumRead'[o] = OnHandTotal(LegOf(req[o]).key[1])'
             /\ ~HalfReset' => Cardinality(Stale') <= faults'
  <2>1. Turned(r, Idle) /\ Idle.pc = "idle"
    BY <1>9, TurnEnds, IdleFields
  <2>2. ~crowded /\ row' = row /\ faults' = faults /\ req[r].pc = "zeroMaterials"
    BY <1>9 DEF ZeroMaterials
  <2>3. \A o \in Requests : req'[o].pc # "master"
    BY <1>0, <2>1, <2>2, Lone DEF Turned
  <2>4. (\A k \in Keys : row[k] = NoRow) /\ \A i \in Products : onHand[i] = 0
    BY <2>2 DEF AloneInv, ResetReq
  <2>5. \A i \in Items : onHand'[i] = 0
    BY <1>9, <2>4 DEF ZeroMaterials
  <2>6. ASSUME NEW i \in Items
        PROVE  OnHandTotal(i)' = 0
    <3> DEFINE W == Warehouses \ {SampleWarehouse}
               f == [w \in Warehouses |-> Qty(<<i, w>>)]
    <3>1. IsFiniteSet(W)
      BY FiniteSets, FS_Subset
    <3>2. \A w \in W : f[w] = 0
      BY <2>4 DEF Qty, RowQty, Keys
    <3> HIDE DEF W, f
    <3>3. SumFunctionOnSet(f, W) = 0
      BY <3>1, <3>2, SumZero
    <3>4. OnHandTotal(i) = 0
      BY <3>3 DEF OnHandTotal, W, f
    <3> QED
      BY <2>2, <3>4, SameTotals
  <2>7. Stale' = {}
    BY <2>5, <2>6 DEF Stale, Wrong
  <2> QED
    BY <1>0, <2>2, <2>3, <2>7, FS_EmptySet
<1>10. ASSUME NEW r \in Requests, Fail(r), ~crowded'
       PROVE  /\ \A o \in Requests :
                    req'[o].pc = "master" => sumRead'[o] = OnHandTotal(LegOf(req[o]).key[1])'
              /\ ~HalfReset' => Cardinality(Stale') <= faults'
  <2>1. Turned(r, Idle) /\ Idle.pc = "idle"
    BY <1>10, TurnEnds, IdleFields
  <2>2. /\ ~crowded /\ row' = row /\ onHand' = onHand /\ faults' = faults + 1
        /\ req[r].pc # "idle" /\ resets' = resets /\ completed' = completed
    BY <1>10 DEF Fail
  <2>3. \A o \in Requests : req'[o].pc # "master"
    BY <1>0, <2>1, <2>2, Lone DEF Turned
  <2>4. Owed \subseteq {LegOf(req[r]).key[1]}
    BY <1>0, <2>1, <2>2, OwedTurn DEF OwedBy
  <2>5. Stale' \subseteq Stale \cup {LegOf(req[r]).key[1]}
    BY <2>2, <2>4, SameTotals DEF Stale, Wrong
  <2>6. ~HalfReset' => ~HalfReset
    BY <2>2 DEF HalfReset
  <2>7. faults' \in Nat /\ faults + 1 <= faults'
    BY <1>0, <2>2
  <2>8. ~HalfReset' => Cardinality(Stale') <= faults'
    BY <1>0, <1>m, <2>2, <2>5, <2>6, <2>7, StaleFinite, FewerThan
  <2> QED
    BY <2>3, <2>8
<1>11. ASSUME Crash, ~crowded'
       PROVE  /\ \A o \in Requests :
                    req'[o].pc = "master" => sumRead'[o] = OnHandTotal(LegOf(req[o]).key[1])'
              /\ ~HalfReset' => Cardinality(Stale') <= faults'
  <2>1. PICK r \in Requests : req[r].pc # "idle"
    BY <1>11 DEF Crash, InFlight
  <2>2. /\ ~crowded /\ row' = row /\ onHand' = onHand /\ faults' = faults + Cardinality(InFlight)
        /\ resets' = resets /\ completed' = completed
    BY <1>11 DEF Crash
  <2>3. \A o \in Requests : req'[o].pc # "master"
    BY <1>11, AllIdle
  <2>4. Owed \subseteq {LegOf(req[r]).key[1]}
    <3>1. \A o \in Requests \ {r} : req[o].pc = "idle"
      BY <2>1, <2>2 DEF AloneInv, Alone, InFlight
    <3> QED
      BY <3>1 DEF Owed, OwedBy
  <2>5. Stale' \subseteq Stale \cup {LegOf(req[r]).key[1]}
    BY <2>2, <2>4, SameTotals DEF Stale, Wrong
  <2>6. ~HalfReset' => ~HalfReset
    BY <2>2 DEF HalfReset
  <2>7. faults' \in Nat /\ faults + 1 <= faults'
    <3>1. Cardinality(InFlight) \in Nat /\ Cardinality(InFlight) # 0
      BY <1>11, ResettersFinite, FS_EmptySet DEF Crash
    <3> QED
      BY <1>0, <2>2, <3>1
  <2>8. ~HalfReset' => Cardinality(Stale') <= faults'
    BY <1>0, <1>m, <2>2, <2>5, <2>6, <2>7, StaleFinite, FewerThan
  <2> QED
    BY <2>3, <2>8
<1>12. CASE UNCHANGED vars
  <2>1. Owed' = Owed /\ Wrong' = Wrong
    BY <1>12, SameTotals DEF vars, Owed, Wrong
  <2> QED
    BY <1>12, <2>1, SameTotals DEF vars, MasterInv, Stale, HalfReset
<1> QED
  BY <1>1, <1>2, <1>3, <1>4, <1>5, <1>6, <1>7, <1>8, <1>9, <1>10, <1>11, <1>12
     DEF Next, AdjustStep, ResetStep, MasterInv

\* As long as requests never met: whatever fails and wherever, the cached
\* quantity of an item nobody is working on is the sum of its rows, but for
\* one item per fault.
THEOREM MasterFollows == Spec => []MasterFollowsRows
<1>1. Spec => [](TypeInv /\ AloneInv /\ MasterInv)
  BY TypeInvInit, TypeInvStep, AloneInit, AloneStep, MasterInit, MasterStep, PTL DEF Spec
<1>2. TypeInv /\ AloneInv /\ MasterInv => MasterFollowsRows
  <2> SUFFICES ASSUME MasterInv, ~crowded, InFlight = {}, ~HalfReset
               PROVE  Cardinality({i \in Items : onHand[i] # OnHandTotal(i)}) <= faults
    BY DEF MasterFollowsRows
  <2>1. Owed = {}
    BY DEF Owed, OwedBy, InFlight
  <2>2. Stale = {i \in Items : onHand[i] # OnHandTotal(i)}
    BY <2>1 DEF Stale, Wrong
  <2> QED
    BY <2>2 DEF MasterInv
<1> QED
  BY <1>1, <1>2, PTL

--------------------------------------------------------------------------------
(***************************************************************************)
(* HistoryExplainsStock.  Between its save and its history row a request   *)
(* owes the history of one key: the entry it will write makes up for its   *)
(* save.  The other keys are explained, but for one per fault.             *)
(***************************************************************************)
Writing(q, k) == q.pc \in {"sum", "master", "log"} /\ LegOf(q).key = k
Writers(k) == {r \in Requests : Writing(req[r], k)}
Booked(k) ==
    /\ Writers(k) = {} => Explained(k)
    /\ \A r \in Writers(k) : history[k].net + LegOf(req[r]).change = Qty(k)
Unbooked == {k \in Keys : ~Booked(k)}

HistoryInv == ~crowded => (~HalfReset => Cardinality(Unbooked) <= faults)

\* The same, for the one request that is in flight.
BookedBy(q, k, entry, n) ==
    /\ Writing(q, k) => entry.net + LegOf(q).change = n
    /\ ~Writing(q, k) => entry.net = n /\ entry.last = n

LEMMA UnbookedTurn ==
    ASSUME RowsTypeOK, AloneInv, ~crowded, NEW r \in Requests, NEW q,
           Turned(r, q), req[r].pc # "idle" \/ InFlight = {}
    PROVE  /\ Unbooked = {k \in Keys : ~BookedBy(req[r], k, history[k], Qty(k))}
           /\ Unbooked' = {k \in Keys : ~BookedBy(q, k, history'[k], Qty(k)')}
<1>1. /\ req'[r] = q
      /\ \A o \in Requests \ {r} : req[o].pc = "idle" /\ req'[o] = req[o]
  BY Lone DEF Turned
<1>2. ASSUME NEW k \in Keys
      PROVE  Booked(k) <=> BookedBy(req[r], k, history[k], Qty(k))
  <2>1. \A o \in Requests \ {r} : ~Writing(req[o], k)
    BY <1>1 DEF Writing
  <2>2. CASE Writing(req[r], k)
    BY <2>1, <2>2 DEF Writers, Booked, BookedBy
  <2>3. CASE ~Writing(req[r], k)
    <3>1. Writers(k) = {}
      BY <2>1, <2>3 DEF Writers
    <3> QED
      BY <2>3, <3>1 DEF Booked, BookedBy, Explained
  <2> QED
    BY <2>2, <2>3
<1>3. ASSUME NEW k \in Keys
      PROVE  Booked(k)' <=> BookedBy(q, k, history'[k], Qty(k)')
  <2>1. \A o \in Requests \ {r} : ~Writing(req'[o], k)
    BY <1>1 DEF Writing
  <2>2. CASE Writing(q, k)
    <3>1. Writers(k)' = {r}
      BY <1>1, <2>1, <2>2 DEF Writers
    <3>2. Booked(k)' <=> history'[k].net + LegOf(req'[r]).change = Qty(k)'
      BY <3>1 DEF Booked
    <3> QED
      BY <1>1, <2>2, <3>2 DEF BookedBy
  <2>3. CASE ~Writing(q, k)
    <3>1. Writers(k)' = {}
      BY <1>1, <2>1, <2>3 DEF Writers
    <3> QED
      BY <2>3, <3>1 DEF Booked, BookedBy, Explained
  <2> QED
    BY <2>2, <2>3
<1>4. Unbooked' = {k \in Keys : ~Booked(k)'}
  BY DEF Unbooked
<1> QED
  BY <1>2, <1>3, <1>4 DEF Unbooked

LEMMA UnbookedFinite == IsFiniteSet(Unbooked)
  BY FiniteSets, FS_Subset DEF Unbooked

LEMMA HistoryInit == Init => HistoryInv
<1> SUFFICES ASSUME Init PROVE HistoryInv
  OBVIOUS
<1>1. \A r \in Requests : req[r].pc = "idle"
  BY IdleFields DEF Init
<1>2. \A k \in Keys : Explained(k) /\ Writers(k) = {}
  BY <1>1 DEF Init, Explained, Qty, RowQty, Writers, Writing
<1>3. Unbooked = {}
  BY <1>2 DEF Unbooked, Booked
<1> QED
  BY <1>3, FS_EmptySet DEF HistoryInv, Init

\* A step of r after which no more keys are unbooked than before.
LEMMA HistoryTurn ==
    ASSUME TypeInv, AloneInv, HistoryInv, NEW r \in Requests, NEW q, Turned(r, q),
           ~crowded' => ~crowded /\ (req[r].pc # "idle" \/ InFlight = {}),
           faults' = faults, resets' = resets, completed' = completed,
           ~crowded => \A k \in Keys : BookedBy(req[r], k, history[k], Qty(k))
                                          => BookedBy(q, k, history'[k], Qty(k)')
    PROVE  HistoryInv'
<1> SUFFICES ASSUME ~crowded', ~HalfReset' PROVE Cardinality(Unbooked') <= faults'
  BY DEF HistoryInv
<1>1. /\ Unbooked = {k \in Keys : ~BookedBy(req[r], k, history[k], Qty(k))}
      /\ Unbooked' = {k \in Keys : ~BookedBy(q, k, history'[k], Qty(k)')}
  BY UnbookedTurn DEF TypeInv
<1>2. Unbooked' \subseteq Unbooked
  BY <1>1
<1>3. Cardinality(Unbooked) <= faults /\ faults \in Nat
  BY BoundTypes DEF HistoryInv, HalfReset, TypeInv, ValuesOK
<1> QED
  BY <1>2, <1>3, UnbookedFinite, FewerThan

\* A step that writes neither rows nor history, nor takes on or settles a key.
LEMMA HistoryQuiet ==
    ASSUME TypeInv, AloneInv, HistoryInv, NEW r \in Requests, NEW q, Turned(r, q),
           ~crowded' => ~crowded /\ (req[r].pc # "idle" \/ InFlight = {}),
           faults' = faults, resets' = resets, completed' = completed,
           row' = row, history' = history,
           \/ /\ q.pc \in {"sum", "master", "log"} /\ req[r].pc \in {"sum", "master", "log"}
              /\ LegOf(q) = LegOf(req[r])
           \/ q.pc \notin {"sum", "master", "log"} /\ req[r].pc \notin {"sum", "master", "log"}
    PROVE  HistoryInv'
<1>1. \A k \in Keys : Qty(k)' = Qty(k)
  BY DEF Qty
<1>2. \A k \in Keys : BookedBy(req[r], k, history[k], Qty(k))
                        => BookedBy(q, k, history'[k], Qty(k)')
  BY <1>1 DEF BookedBy, Writing
<1> QED
  BY <1>2, HistoryTurn

LEMMA HistoryStep == TypeInv /\ AloneInv /\ HistoryInv /\ [Next]_vars => HistoryInv'
<1> SUFFICES ASSUME TypeInv, AloneInv, HistoryInv, [Next]_vars PROVE HistoryInv'
  OBVIOUS
<1>0. RowsTypeOK /\ faults \in Nat /\ history \in [Keys -> [net : Int, last : Int]]
  BY BoundTypes DEF TypeInv, ValuesOK
<1>m. ~crowded /\ ~HalfReset => Cardinality(Unbooked) <= faults
  BY DEF HistoryInv
<1>f. ASSUME NEW r \in Requests, ~crowded
      PROVE  FreshReq(req[r], row) /\ ResetReq(req[r], row, history, onHand)
  BY <1>f DEF AloneInv
<1>1. ASSUME NEW r \in Requests, Adjust(r) \/ Transfer(r) \/ Convert(r)
      PROVE  HistoryInv'
  <2>1. PICK q : /\ Turned(r, q) /\ req[r].pc = "idle" /\ q.pc = "find" /\ q.at = 1
                 /\ crowded' = (crowded \/ InFlight # {})
                 /\ UNCHANGED <<sumRead, row, onHand, history, resets, completed, era,
                                faults, ghosts>>
    BY <1>1, TurnBegins
  <2> QED
    BY <2>1, HistoryQuiet
<1>2. ASSUME NEW r \in Requests, FindRow(r)
      PROVE  HistoryInv'
  <2>1. PICK q : Turned(r, q) /\ q.pc = "save"
    BY <1>0, <1>2, TurnReads
  <2>2. UNCHANGED <<row, history, bounds>> /\ req[r].pc = "find"
    BY <1>2 DEF FindRow
  <2> QED
    BY <2>1, <2>2, HistoryQuiet DEF bounds
<1>3. ASSUME NEW r \in Requests, SaveRow(r)
      PROVE  HistoryInv'
  <2> DEFINE l == CurrentLeg(r).key
             c == CurrentLeg(r).change
  <2>1. PICK q : /\ Turned(r, q) /\ q.pc = "sum"
                 /\ q.legs = req[r].legs /\ q.at = req[r].at
    BY <1>0, <1>3, TurnMoves
  <2>2. UNCHANGED <<history, bounds>> /\ req[r].pc = "save"
    BY <1>3 DEF SaveRow
  <2>3. /\ l \in Keys /\ c \in Int
        /\ RowQty(row'[l]) = RowQty(req[r].snap) + c
        /\ \A k \in Keys \ {l} : Qty(k)' = Qty(k)
    BY <1>0, <1>3, SavedQty
  <2>4. LegOf(q) = CurrentLeg(r) /\ LegOf(req[r]) = CurrentLeg(r)
    BY <2>1 DEF LegOf, CurrentLeg
  <2>5. ~crowded => RowQty(req[r].snap) = Qty(l)
    BY <1>f, <2>2, <2>4 DEF FreshReq, Qty
  <2>6. \A k \in Keys : history[k].net \in Int /\ Qty(k) \in Int
    BY <1>0, QtyType
  <2>7. ASSUME ~crowded, NEW k \in Keys, BookedBy(req[r], k, history[k], Qty(k))
        PROVE  BookedBy(q, k, history'[k], Qty(k)')
    <3>1. history[k].net = Qty(k) /\ history[k].last = Qty(k)
      BY <2>2, <2>7 DEF BookedBy, Writing
    <3>2. CASE k = l
      <4>1. Qty(k)' = Qty(k) + c
        BY <2>3, <2>5, <2>7, <3>2 DEF Qty
      <4>2. Writing(q, k) /\ LegOf(q).change = c
        BY <2>1, <2>4, <3>2 DEF Writing
      <4>3. history'[k].net + c = Qty(k)'
        BY <2>2, <3>1, <4>1
      <4> QED
        BY <4>2, <4>3 DEF BookedBy
    <3>3. CASE k # l
      <4>1. ~Writing(q, k)
        BY <2>4, <3>3 DEF Writing
      <4> QED
        BY <2>2, <2>3, <3>1, <3>3, <4>1 DEF BookedBy
    <3> QED
      BY <3>2, <3>3
  <2> QED
    BY <2>1, <2>2, <2>7, HistoryTurn DEF bounds
<1>4. ASSUME NEW r \in Requests, SaveRejected(r)
      PROVE  HistoryInv'
  <2>1. Turned(r, Idle) /\ Idle.pc = "idle"
    BY <1>4, TurnEnds, IdleFields
  <2>2. UNCHANGED <<row, history, bounds>> /\ req[r].pc = "save"
    BY <1>4 DEF SaveRejected
  <2> QED
    BY <2>1, <2>2, HistoryQuiet DEF bounds
<1>5. ASSUME NEW r \in Requests, SumRows(r) \/ UpdateMaster(r)
      PROVE  HistoryInv'
  <2>1. PICK q : /\ Turned(r, q) /\ q.pc \in {"master", "log"}
                 /\ q.legs = req[r].legs /\ q.at = req[r].at
    BY <1>0, <1>5, TurnMoves
  <2>2. UNCHANGED <<row, history, bounds>> /\ req[r].pc \in {"sum", "master"}
    BY <1>5 DEF SumRows, UpdateMaster
  <2>3. LegOf(q) = LegOf(req[r])
    BY <2>1 DEF LegOf
  <2> QED
    BY <2>1, <2>2, <2>3, HistoryQuiet DEF bounds
<1>6. ASSUME NEW r \in Requests, WriteHistory(r)
      PROVE  HistoryInv'
  <2> DEFINE l == CurrentLeg(r).key
             c == CurrentLeg(r).change
  <2>1. PICK q : Turned(r, q) /\ q.pc \in {"idle", "find"}
    BY <1>0, <1>6, TurnWrites, IdleFields
  <2>2. /\ UNCHANGED <<row, bounds>> /\ req[r].pc = "log"
        /\ history' = [history EXCEPT ![l] = Entry(r, history[l])]
    BY <1>6 DEF WriteHistory
  <2>3. l \in Keys /\ c \in Int /\ RowQty(req[r].snap) \in Int
    BY <1>0, <2>2, CurrentLegType, QtyType DEF Adjusting
  <2>4. ~crowded => Qty(l) = RowQty(req[r].snap) + c
    BY <1>f, <2>2 DEF FreshReq, LegOf, CurrentLeg, Qty
  <2>5. ASSUME ~crowded, NEW k \in Keys, BookedBy(req[r], k, history[k], Qty(k))
        PROVE  BookedBy(q, k, history'[k], Qty(k)')
    <3>1. ~Writing(q, k) /\ Qty(k)' = Qty(k)
      BY <2>1, <2>2 DEF Writing, Qty
    <3>2. CASE k = l
      <4>1. history'[k] = Entry(r, history[l])
        BY <1>0, <2>2, <2>3, <3>2
      <4>2. history'[k].net = history[l].net + c /\ history'[k].last = RowQty(req[r].snap) + c
        BY <4>1 DEF Entry, ComputedQty
      <4>3. history[l].net + c = Qty(l)
        BY <2>2, <2>5, <3>2 DEF BookedBy, Writing, LegOf, CurrentLeg
      <4> QED
        BY <2>4, <2>5, <3>1, <3>2, <4>2, <4>3 DEF BookedBy
    <3>3. CASE k # l
      <4>1. history'[k] = history[k] /\ ~Writing(req[r], k)
        BY <1>0, <2>2, <2>3, <3>3 DEF Writing, LegOf, CurrentLeg
      <4> QED
        BY <2>5, <3>1, <4>1 DEF BookedBy
    <3> QED
      BY <3>2, <3>3
  <2> QED
    BY <2>1, <2>2, <2>5, HistoryTurn DEF bounds
<1>7. ASSUME NEW r \in Requests, Reset(r) \/ ClearStock(r) \/ ZeroProducts(r)
      PROVE  HalfReset'
  <2>1. CASE Reset(r)
    <3>1. resets' = resets + 1 /\ completed' = completed
      BY <2>1 DEF Reset
    <3>2. /\ era \in Nat /\ completed \in Nat /\ resets \in Nat
          /\ era + Cardinality(Clearing) <= resets /\ completed + Cardinality(Zeroing) <= era
      BY BoundTypes DEF TypeInv, RowsTypeOK, ValuesOK, ResetsCounted
    <3>3. completed <= resets
      BY <3>2, ResettersFinite
    <3> QED
      BY <3>1, <3>2, <3>3 DEF HalfReset
  <2>2. CASE ClearStock(r) \/ ZeroProducts(r)
    <3>1. HalfReset
      BY <2>2, HalfWay DEF ClearStock, ZeroProducts, Resetting
    <3> QED
      BY <2>2, <3>1 DEF ClearStock, ZeroProducts, bounds, HalfReset
  <2> QED
    BY <1>7, <2>1, <2>2
<1>8. ASSUME NEW r \in Requests, ZeroMaterials(r), ~crowded'
      PROVE  Cardinality(Unbooked') <= faults'
  <2>1. Turned(r, Idle) /\ Idle.pc = "idle"
    BY <1>8, TurnEnds, IdleFields
  <2>2. /\ ~crowded /\ row' = row /\ history' = history /\ faults' = faults
        /\ req[r].pc = "zeroMaterials"
    BY <1>8 DEF ZeroMaterials
  <2>3. \A k \in Keys : row[k] = NoRow /\ history[k] = Zero
    BY <1>f, <2>2 DEF ResetReq
  <2>4. Unbooked' = {k \in Keys : ~BookedBy(Idle, k, history'[k], Qty(k)')}
    BY <1>0, <2>1, <2>2, UnbookedTurn
  <2>5. \A k \in Keys : BookedBy(Idle, k, history'[k], Qty(k)')
    BY <2>1, <2>2, <2>3 DEF BookedBy, Writing, Qty, RowQty, Zero
  <2>6. Unbooked' = {}
    BY <2>4, <2>5
  <2> QED
    BY <1>0, <2>2, <2>6, FS_EmptySet
<1>9. ASSUME NEW r \in Requests, ~crowded, ~crowded', ~HalfReset, req[r].pc # "idle",
             \A o \in Requests : req'[o].pc = "idle",
             row' = row, history' = history, faults' \in Nat, faults + 1 <= faults'
      PROVE  Cardinality(Unbooked') <= faults'
  <2> DEFINE l == LegOf(req[r]).key
  <2>1. \A o \in Requests \ {r} : req[o].pc = "idle"
    BY <1>9 DEF AloneInv, Alone, InFlight
  <2>2. Unbooked' \subseteq Unbooked \cup {l}
    <3> SUFFICES ASSUME NEW k \in Keys, ~Booked(k)', k # l PROVE ~Booked(k)
      BY DEF Unbooked
    <3>1. Writers(k) = {}
      BY <2>1 DEF Writers, Writing
    <3>2. Writers(k)' = {}
      BY <1>9 DEF Writers, Writing
    <3>3. Explained(k)' <=> Explained(k)
      BY <1>9 DEF Explained, Qty
    <3> QED
      BY <3>1, <3>2, <3>3 DEF Booked
  <2> HIDE DEF l
  <2>3. Cardinality(Unbooked) <= faults
    BY <1>9, <1>m
  <2> QED
    BY <1>0, <1>9, <2>2, <2>3, UnbookedFinite, FewerThan
<1>10. ASSUME NEW r \in Requests, Fail(r)
       PROVE  HistoryInv'
  <2>1. Turned(r, Idle) /\ Idle.pc = "idle"
    BY <1>10, TurnEnds, IdleFields
  <2>2. /\ crowded' = crowded /\ row' = row /\ history' = history /\ faults' = faults + 1
        /\ req[r].pc # "idle" /\ resets' = resets /\ completed' = completed
    BY <1>10 DEF Fail
  <2> SUFFICES ASSUME ~crowded', ~HalfReset' PROVE Cardinality(Unbooked') <= faults'
    BY DEF HistoryInv
  <2>c. ~crowded
    BY <2>2
  <2>3. \A o \in Requests : req'[o].pc = "idle"
    <3>1. /\ req'[r] = Idle
          /\ \A o \in Requests \ {r} : req[o].pc = "idle" /\ req'[o] = req[o]
      BY <1>0, <2>1, <2>2, <2>c, Lone DEF Turned
    <3>2. ASSUME NEW o \in Requests PROVE req'[o].pc = "idle"
      <4>1. CASE o = r
        BY <2>1, <3>1, <4>1
      <4>2. CASE o # r
        BY <3>1, <4>2
      <4> QED
        BY <4>1, <4>2
    <3> QED
      BY <3>2
  <2>4. ~HalfReset
    BY <2>2 DEF HalfReset
  <2>5. faults' \in Nat /\ faults + 1 <= faults'
    BY <1>0, <2>2
  <2> QED
    BY <1>9, <2>2, <2>c, <2>3, <2>4, <2>5
<1>11. CASE Crash
  <2>1. PICK r \in Requests : req[r].pc # "idle"
    BY <1>11 DEF Crash, InFlight
  <2>2. /\ crowded' = crowded /\ row' = row /\ history' = history
        /\ faults' = faults + Cardinality(InFlight)
        /\ resets' = resets /\ completed' = completed
    BY <1>11 DEF Crash
  <2> SUFFICES ASSUME ~crowded', ~HalfReset' PROVE Cardinality(Unbooked') <= faults'
    BY DEF HistoryInv
  <2>3. \A o \in Requests : req'[o].pc = "idle"
    BY <1>11, AllIdle
  <2>4. ~HalfReset
    BY <2>2 DEF HalfReset
  <2>5. faults' \in Nat /\ faults + 1 <= faults'
    <3>1. Cardinality(InFlight) \in Nat /\ Cardinality(InFlight) # 0
      BY <1>11, ResettersFinite, FS_EmptySet DEF Crash
    <3> QED
      BY <1>0, <2>2, <3>1
  <2> QED
    BY <1>9, <2>1, <2>2, <2>3, <2>4, <2>5
<1>12. CASE UNCHANGED vars
  <2>1. Unbooked' = Unbooked
    BY <1>12 DEF vars, Unbooked, Booked, Writers, Explained, Qty
  <2> QED
    BY <1>12, <2>1 DEF vars, HistoryInv, HalfReset
<1> QED
  BY <1>1, <1>2, <1>3, <1>4, <1>5, <1>6, <1>7, <1>8, <1>10, <1>11, <1>12
     DEF Next, AdjustStep, ResetStep, HistoryInv

\* As long as requests never met: whatever fails and wherever, the entries of
\* stock_history for a row nobody is working on add up to its quantity and the
\* latest balance_after is that quantity, but for one row per fault.
THEOREM HistoryExplains == Spec => []HistoryExplainsStock
<1>1. Spec => [](TypeInv /\ AloneInv /\ HistoryInv)
  BY TypeInvInit, TypeInvStep, AloneInit, AloneStep, HistoryInit, HistoryStep, PTL DEF Spec
<1>2. TypeInv /\ AloneInv /\ HistoryInv => HistoryExplainsStock
  <2> SUFFICES ASSUME TypeInv, HistoryInv, ~crowded, ~HalfReset
               PROVE  Cardinality({k \in Keys : Untouched(k) /\ ~Explained(k)}) <= faults
    BY DEF HistoryExplainsStock
  <2>1. faults \in Nat /\ Cardinality(Unbooked) <= faults
    BY BoundTypes DEF HistoryInv, TypeInv, ValuesOK
  <2>2. {k \in Keys : Untouched(k) /\ ~Explained(k)} \subseteq Unbooked
    <3> SUFFICES ASSUME NEW k \in Keys, Untouched(k), NEW r \in Requests, Writing(req[r], k)
                 PROVE  FALSE
      BY DEF Unbooked, Booked, Writers
    <3>1. CurrentLeg(r).key = k /\ CurrentLeg(r).key \in KeysOf(req[r].legs)
      BY CurrentLegType DEF TypeInv, Writing, Adjusting, LegOf, CurrentLeg
    <3> QED
      BY <3>1 DEF Untouched, InFlight, Touches, Resetting, Writing
  <2> QED
    BY <2>1, <2>2, UnbookedFinite, FewerThan
<1> QED
  BY <1>1, <1>2, PTL

--------------------------------------------------------------------------------
(***************************************************************************)
(* TransfersConserve.  A request for two rows takes from the first and     *)
(* puts into the second; in between it carries the quantity.  The request  *)
(* in flight alone has carried what the rows lack.                         *)
(***************************************************************************)
OneLeg(legs) == Len(legs) = 1 /\ \E q \in Quantities : legs[1].change \in {q, -q}
TwoLegs(legs) ==
    /\ Len(legs) = 2
    /\ legs[1].key # legs[2].key
    /\ \E q \in Quantities : legs[1].change = -q /\ legs[2].change = q
GoodLegs(legs) == OneLeg(legs) \/ TwoLegs(legs)

LegsInv == \A r \in Requests : Adjusting(r) => GoodLegs(req[r].legs)

LEMMA BeginsGood ==
    ASSUME NEW r \in Requests, Adjust(r) \/ Transfer(r) \/ Convert(r)
    PROVE  \E legs : BegunLegs(legs) /\ Begin(r, legs) /\ GoodLegs(legs)
<1>one. ASSUME NEW l \in Leg, NEW q \in Quantities, l.change \in {q, -q}
        PROVE  BegunLegs(<<l>>) /\ GoodLegs(<<l>>)
  BY <1>one DEF BegunLegs, GoodLegs, OneLeg
<1>two. ASSUME NEW l \in Leg, NEW m \in Leg, NEW q \in Quantities,
               l.key # m.key, l.change = -q, m.change = q
        PROVE  BegunLegs(<<l, m>>) /\ GoodLegs(<<l, m>>)
  <2>1. TwoLegs(<<l, m>>)
    BY <1>two DEF TwoLegs
  <2> QED
    BY <2>1 DEF BegunLegs, GoodLegs
<1>1. CASE Adjust(r)
  <2>1. PICK k \in Keys, q \in Quantities :
            Begin(r, <<PutInto(k, q)>>) \/ Begin(r, <<TakeFrom(k, q)>>)
    BY <1>1 DEF Adjust
  <2>2. TakeFrom(k, q) \in Leg /\ PutInto(k, q) \in Leg
    BY LegTypes
  <2>3. TakeFrom(k, q).change = -q /\ PutInto(k, q).change = q
    BY DEF TakeFrom, PutInto
  <2> QED
    BY <2>1, <2>2, <2>3, <1>one
<1>2. CASE Transfer(r)
  <2>1. PICK i \in Items, src \in Warehouses, dst \in Warehouses, q \in Quantities :
            src # dst /\ Begin(r, <<TakeFrom(<<i, src>>, q), PutInto(<<i, dst>>, q)>>)
    BY <1>2 DEF Transfer
  <2> DEFINE l == TakeFrom(<<i, src>>, q)
             m == PutInto(<<i, dst>>, q)
  <2>2. l \in Leg /\ m \in Leg
    BY LegTypes DEF Keys
  <2>3. l.change = -q /\ m.change = q /\ l.key # m.key
    BY <2>1 DEF TakeFrom, PutInto
  <2>4. Begin(r, <<l, m>>)
    BY <2>1
  <2> HIDE DEF l, m
  <2> QED
    BY <2>2, <2>3, <2>4, <1>two
<1>3. CASE Convert(r)
  <2>1. PICK i \in Variants, j \in Variants, q \in Quantities :
            i # j /\ Begin(r, <<TakeFrom(<<i, WipWarehouse>>, q),
                                PutInto(<<j, WipWarehouse>>, q)>>)
    BY <1>3 DEF Convert
  <2> DEFINE l == TakeFrom(<<i, WipWarehouse>>, q)
             m == PutInto(<<j, WipWarehouse>>, q)
  <2>2. <<i, WipWarehouse>> \in Keys /\ <<j, WipWarehouse>> \in Keys
    BY StockConstants DEF StockConstants, Keys
  <2>3. l \in Leg /\ m \in Leg
    BY <2>2, LegTypes
  <2>4. l.change = -q /\ m.change = q /\ l.key # m.key
    BY <2>1 DEF TakeFrom, PutInto
  <2>5. Begin(r, <<l, m>>)
    BY <2>1
  <2> HIDE DEF l, m
  <2> QED
    BY <2>3, <2>4, <2>5, <1>two
<1> QED
  BY <1>1, <1>2, <1>3

\* A step of r keeps the legs it has, or is one of those that begin or end it.
LEMMA LegsTurn ==
    ASSUME RowsTypeOK, LegsInv, NEW r \in Requests, NEW q, Turned(r, q),
           q.pc \in {"find", "save", "sum", "master", "log"} => GoodLegs(q.legs)
    PROVE  LegsInv'
<1>1. req'[r] = q /\ \A o \in Requests \ {r} : req'[o] = req[o]
  BY DEF RowsTypeOK, Turned
<1> QED
  BY <1>1 DEF LegsInv, Adjusting

LEMMA TurnBeginsGood ==
    ASSUME NEW r \in Requests, Adjust(r) \/ Transfer(r) \/ Convert(r)
    PROVE  \E q : /\ Turned(r, q) /\ req[r].pc = "idle" /\ q.pc = "find" /\ q.at = 1
                  /\ GoodLegs(q.legs)
                  /\ crowded' = (crowded \/ InFlight # {})
                  /\ UNCHANGED <<sumRead, row, onHand, history, resets, completed, era,
                                 faults, ghosts>>
<1>1. PICK legs : BegunLegs(legs) /\ Begin(r, legs) /\ GoodLegs(legs)
  BY BeginsGood
<1> DEFINE q == [Idle EXCEPT !.pc = "find", !.legs = legs]
<1>2. q.pc = "find" /\ q.at = 1 /\ q.legs = legs
  BY IdleFields
<1>3. Turned(r, q)
  BY <1>1 DEF Begin, Turned
<1> HIDE DEF q
<1> QED
  BY <1>1, <1>2, <1>3 DEF Begin, Meet

LEMMA LegsInit == Init => LegsInv
  BY DEF Init, LegsInv, Adjusting, Idle

LEMMA LegsStep == RowsTypeOK /\ LegsInv /\ [Next]_vars => LegsInv'
<1> SUFFICES ASSUME RowsTypeOK, LegsInv, [Next]_vars PROVE LegsInv'
  OBVIOUS
<1>1. ASSUME NEW r \in Requests, Adjust(r) \/ Transfer(r) \/ Convert(r)
      PROVE  LegsInv'
  BY <1>1, TurnBeginsGood, LegsTurn
<1>2. ASSUME NEW r \in Requests,
             FindRow(r) \/ SaveRow(r) \/ SumRows(r) \/ UpdateMaster(r)
      PROVE  LegsInv'
  <2>1. Adjusting(r)
    BY <1>2 DEF FindRow, SaveRow, SumRows, UpdateMaster, Adjusting
  <2>2. \E q : Turned(r, q) /\ q.legs = req[r].legs
    BY <1>2, TurnReads, TurnMoves
  <2> QED
    BY <2>1, <2>2, LegsTurn DEF LegsInv
<1>3. ASSUME NEW r \in Requests, SaveRejected(r) \/ ZeroMaterials(r) \/ Fail(r)
      PROVE  LegsInv'
  BY <1>3, TurnEnds, IdleFields, LegsTurn
<1>4. ASSUME NEW r \in Requests, WriteHistory(r)
      PROVE  LegsInv'
  <2>1. Adjusting(r)
    BY <1>4 DEF WriteHistory, Adjusting
  <2>2. \E q : Turned(r, q) /\ (q.pc = "idle" \/ q.legs = req[r].legs)
    BY <1>4, TurnWrites, IdleFields
  <2> QED
    BY <2>1, <2>2, LegsTurn DEF LegsInv
<1>5. ASSUME NEW r \in Requests, ClearStock(r) \/ ZeroProducts(r)
      PROVE  LegsInv'
  <2>1. \E q : Turned(r, q) /\ q.pc \in {"zeroProducts", "zeroMaterials"}
    BY <1>5, TurnMoves
  <2> QED
    BY <2>1, LegsTurn
<1>6. ASSUME NEW r \in Requests, Reset(r)
      PROVE  LegsInv'
  BY <1>6, IdleFields, LegsTurn DEF Reset, Turned
<1>7. CASE Crash
  BY <1>7, AllIdle DEF LegsInv, Adjusting
<1>8. CASE UNCHANGED vars
  BY <1>8 DEF vars, LegsInv, Adjusting
<1> QED
  BY <1>1, <1>2, <1>3, <1>4, <1>5, <1>6, <1>7, <1>8 DEF Next, AdjustStep, ResetStep

\* What a request carries, and to which row.
Carries(q) ==
    /\ Len(q.legs) = 2
    /\ \/ q.at = 1 /\ q.pc \in {"sum", "master", "log"}
       \/ q.at = 2 /\ q.pc \in {"find", "save"}
Carried(q) == IF Carries(q) THEN q.legs[2].change ELSE 0
Part(q, k) == IF Carries(q) /\ q.legs[2].key = k THEN q.legs[2].change ELSE 0

\* InTransit, TotalInTransit and TotalStock as functions of the tables.
Carriers(rq, k) == {o \in Requests : Carries(rq[o]) /\ rq[o].legs[2].key = k}
CarriedBy(rq, k, set) == SumFunctionOnSet([o \in set |-> rq[o].legs[2].change], set)
TransitIn(rq, k) == CarriedBy(rq, k, Carriers(rq, k))
TransitSum(rq) == SumFunctionOnSet([k \in Keys |-> TransitIn(rq, k)], Keys)
StockSum(rows) == SumFunctionOnSet([k \in Keys |-> RowQty(rows[k])], Keys)

LEMMA InTransitIs ==
    /\ \A k : InTransit(k) = TransitIn(req, k)
    /\ TotalInTransit = TransitSum(req)
    /\ TotalStock = StockSum(row)
<1>1. ASSUME NEW k PROVE InTransit(k) = TransitIn(req, k)
  <2>1. {o \in Requests : /\ Len(req[o].legs) = 2 /\ DueIn(o) /\ req[o].legs[2].key = k}
          = Carriers(req, k)
    BY DEF Carriers, Carries, DueIn
  <2> QED
    BY <2>1 DEF InTransit, TransitIn, CarriedBy, SumFunction
<1>2. TotalInTransit = TransitSum(req)
  BY <1>1 DEF TotalInTransit, TransitSum
<1>3. TotalStock = StockSum(row)
  BY DEF TotalStock, StockSum, Qty
<1> QED
  BY <1>1, <1>2, <1>3

LEMMA CarriedType ==
    ASSUME NEW q \in Request
    PROVE  /\ Carries(q) => q.legs[2].change \in Int /\ q.legs[2].key \in Keys
           /\ Carried(q) \in Int
           /\ \A k : Part(q, k) \in Int
<1>1. ASSUME Carries(q) PROVE q.legs[2] \in Leg
  BY <1>1 DEF Carries, Request
<1> QED
  BY <1>1 DEF Carried, Part, Leg

\* The part of one request, and that of the others.
LEMMA TransitSplit ==
    ASSUME NEW rq \in [Requests -> Request], NEW k, NEW r \in Requests
    PROVE  /\ CarriedBy(rq, k, Carriers(rq, k) \ {r}) \in Int
           /\ TransitIn(rq, k) = Part(rq[r], k) + CarriedBy(rq, k, Carriers(rq, k) \ {r})
           /\ TransitIn(rq, k) \in Int
<1> DEFINE S == Carriers(rq, k)
           T == S \ {r}
           f == [o \in S |-> rq[o].legs[2].change]
           g == [o \in T |-> rq[o].legs[2].change]
<1>1. IsFiniteSet(S) /\ IsFiniteSet(T)
  BY FiniteSets, FS_Subset DEF Carriers
<1>2. \A o \in S : f[o] \in Int
  BY CarriedType DEF Carriers
<1>3. \A o \in T : g[o] = f[o] /\ g[o] \in Int
  BY <1>2
<1>4. r \in S <=> Carries(rq[r]) /\ rq[r].legs[2].key = k
  BY DEF Carriers
<1>5. r \in S => f[r] = rq[r].legs[2].change
  OBVIOUS
<1>6. T = S \ {r}
  OBVIOUS
<1> HIDE DEF S, T, f, g
<1>7. SumFunctionOnSet(g, T) \in Int
  BY <1>1, <1>3, SumInt
<1>8. SumFunctionOnSet(g, T) = SumFunctionOnSet(f, T)
  BY <1>1, <1>3, SumSame
<1>9. CASE r \in S
  <2>1. SumFunctionOnSet(f, S) = f[r] + SumFunctionOnSet(f, T)
    BY <1>1, <1>2, <1>6, <1>9, SumRemove
  <2>2. SumFunctionOnSet(f, S) = Part(rq[r], k) + SumFunctionOnSet(g, T)
    BY <1>4, <1>5, <1>8, <1>9, <2>1 DEF Part
  <2> QED
    BY <1>7, <2>2, CarriedType DEF TransitIn, CarriedBy, S, T, f, g
<1>10. CASE r \notin S
  <2>1. T = S
    BY <1>6, <1>10
  <2>2. Part(rq[r], k) = 0
    BY <1>4, <1>10 DEF Part
  <2>3. SumFunctionOnSet(f, S) = Part(rq[r], k) + SumFunctionOnSet(g, T)
    BY <1>7, <1>8, <2>1, <2>2
  <2> QED
    BY <1>7, <2>3, CarriedType DEF TransitIn, CarriedBy, S, T, f, g
<1> QED
  BY <1>9, <1>10

\* One request alone: what it carries is what is in transit.
LEMMA LoneTransit ==
    ASSUME NEW rq \in [Requests -> Request], NEW r \in Requests,
           \A o \in Requests \ {r} : rq[o].pc = "idle"
    PROVE  TransitSum(rq) = Carried(rq[r])
<1> DEFINE f == [k \in Keys |-> TransitIn(rq, k)]
<1>1. ASSUME NEW k \in Keys PROVE f[k] = Part(rq[r], k)
  <2>1. Carriers(rq, k) \ {r} = {}
    BY DEF Carriers, Carries
  <2>2. CarriedBy(rq, k, {}) = 0
    BY SumEmpty DEF CarriedBy
  <2>3. TransitIn(rq, k) = Part(rq[r], k) + CarriedBy(rq, k, Carriers(rq, k) \ {r})
    BY TransitSplit
  <2>4. Part(rq[r], k) \in Int
    BY CarriedType
  <2>5. CarriedBy(rq, k, Carriers(rq, k) \ {r}) = 0
    BY <2>1, <2>2
  <2>6. TransitIn(rq, k) = Part(rq[r], k)
    BY <2>3, <2>4, <2>5
  <2> QED
    BY <2>6
<1>2. \A k \in Keys : f[k] \in Int
  BY <1>1, CarriedType
<1>3. IsFiniteSet(Keys)
  BY FiniteSets
<1>4. CASE ~Carries(rq[r])
  <2>1. \A k \in Keys : f[k] = 0
    BY <1>1, <1>4 DEF Part
  <2> HIDE DEF f
  <2>2. SumFunctionOnSet(f, Keys) = 0
    BY <1>3, <2>1, SumZero
  <2> QED
    BY <1>4, <2>2 DEF TransitSum, Carried, f
<1>5. CASE Carries(rq[r])
  <2> DEFINE l == rq[r].legs[2].key
             R == Keys \ {l}
  <2>1. l \in Keys /\ rq[r].legs[2].change \in Int
    BY <1>5, CarriedType
  <2>2. f[l] = rq[r].legs[2].change
    BY <1>1, <1>5, <2>1 DEF Part
  <2>3. \A k \in R : f[k] = 0
    BY <1>1, <1>5 DEF Part
  <2>4. IsFiniteSet(R)
    BY <1>3, FS_Subset
  <2> HIDE DEF f
  <2>5. SumFunctionOnSet(f, Keys) = f[l] + SumFunctionOnSet(f, R)
    BY <1>2, <1>3, <2>1, SumRemove
  <2> HIDE DEF R, l
  <2>6. SumFunctionOnSet(f, R) = 0
    BY <2>3, <2>4, SumZero
  <2>7. SumFunctionOnSet(f, Keys) = rq[r].legs[2].change
    BY <2>1, <2>2, <2>5, <2>6
  <2> QED
    BY <1>5, <2>7 DEF TransitSum, Carried, f
<1> QED
  BY <1>4, <1>5

\* The stock of all rows after a save.
LEMMA SavedStock ==
    ASSUME RowsTypeOK, NEW r \in Requests, SaveRow(r),
           RowQty(req[r].snap) = Qty(CurrentLeg(r).key)
    PROVE  StockSum(row') = StockSum(row) + CurrentLeg(r).change
<1> DEFINE l == CurrentLeg(r).key
           c == CurrentLeg(r).change
           f == [k \in Keys |-> RowQty(row[k])]
           g == [k \in Keys |-> RowQty(row'[k])]
<1>1. /\ l \in Keys /\ c \in Int
      /\ RowQty(row'[l]) = RowQty(req[r].snap) + c
      /\ \A k \in Keys \ {l} : Qty(k)' = Qty(k)
  BY SavedQty
<1>2. \A k \in Keys : RowQty(row[k]) \in Int
  BY QtyType DEF Qty
<1>3. RowQty(row'[l]) = RowQty(row[l]) + c
  BY <1>1 DEF Qty
<1>4. \A k \in Keys \ {l} : RowQty(row'[k]) = RowQty(row[k])
  BY <1>1 DEF Qty
<1> HIDE DEF l, c
<1>5. \A k \in Keys : f[k] \in Int /\ g[k] \in Int
  <2> SUFFICES ASSUME NEW k \in Keys PROVE RowQty(row[k]) \in Int /\ RowQty(row'[k]) \in Int
    OBVIOUS
  <2> QED
    BY <1>1, <1>2, <1>3, <1>4
<1>6. g[l] = f[l] + c /\ \A k \in Keys \ {l} : g[k] = f[k]
  BY <1>1, <1>3, <1>4
<1>7. IsFiniteSet(Keys)
  BY FiniteSets
<1> HIDE DEF f, g
<1>8. SumFunctionOnSet(g, Keys) = SumFunctionOnSet(f, Keys) + g[l] - f[l]
  BY <1>1, <1>5, <1>6, <1>7, SumChange
<1>9. SumFunctionOnSet(f, Keys) \in Int /\ f[l] \in Int
  BY <1>1, <1>5, <1>7, SumInt
<1>10. SumFunctionOnSet(g, Keys) = SumFunctionOnSet(f, Keys) + c
  BY <1>1, <1>6, <1>8, <1>9
<1> QED
  BY <1>10 DEF StockSum, f, g, c

LEMMA StockSumType ==
    ASSUME NEW rows \in [Keys -> Row \cup {NoRow}]
    PROVE  StockSum(rows) \in Int
<1> DEFINE f == [k \in Keys |-> RowQty(rows[k])]
<1>1. \A k \in Keys : f[k] \in Int
  BY DEF RowQty, Row
<1> HIDE DEF f
<1>2. SumFunctionOnSet(f, Keys) \in Int
  BY <1>1, FiniteSets, SumInt
<1> QED
  BY <1>2 DEF StockSum, f

LEMMA EmptyStock ==
    ASSUME NEW rows, \A k \in Keys : rows[k] = NoRow
    PROVE  StockSum(rows) = 0
<1> DEFINE f == [k \in Keys |-> RowQty(rows[k])]
<1>1. \A k \in Keys : f[k] = 0
  BY DEF RowQty
<1> HIDE DEF f
<1>2. SumFunctionOnSet(f, Keys) = 0
  BY <1>1, FiniteSets, SumZero
<1> QED
  BY <1>2 DEF StockSum, f

ConserveInv ==
    ~crowded =>
        /\ StockSum(row) + TransitSum(req) <= outside
        /\ faults = 0 => StockSum(row) + TransitSum(req) = outside

LEMMA ConserveInit == Init => ConserveInv
<1> SUFFICES ASSUME Init PROVE ConserveInv
  OBVIOUS
<1>1. StockSum(row) = 0 /\ outside = 0
  BY EmptyStock DEF Init
<1>2. TransitSum(req) = 0
  <2> DEFINE f == [k \in Keys |-> TransitIn(req, k)]
  <2>1. ASSUME NEW k \in Keys PROVE f[k] = 0
    <3>1. Carriers(req, k) = {}
      BY DEF Init, Idle, Carriers, Carries
    <3>2. CarriedBy(req, k, {}) = 0
      BY SumEmpty DEF CarriedBy
    <3> QED
      BY <3>1, <3>2 DEF TransitIn
  <2> HIDE DEF f
  <2>2. SumFunctionOnSet(f, Keys) = 0
    BY <2>1, FiniteSets, SumZero
  <2> QED
    BY <2>2 DEF TransitSum, f
<1> QED
  BY <1>1, <1>2 DEF ConserveInv

LEMMA Balance ==
    ASSUME NEW s \in Int, NEW t \in Int, NEW a \in Int, NEW b \in Int,
           NEW o \in Int, NEW p \in Int
    PROVE  /\ t + b - p = s + a - o /\ s + a <= o => t + b <= p
           /\ t + b - p = s + a - o /\ s + a = o => t + b = p
           /\ t + b - p <= s + a - o /\ s + a <= o => t + b <= p
  OBVIOUS

\* A step of r that moves what the rows hold and what r carries together with
\* the net quantity brought in.
LEMMA ConserveTurn ==
    ASSUME TypeInv, RowsTypeOK', AloneInv, ConserveInv, NEW r \in Requests, NEW q, Turned(r, q),
           ~crowded' => ~crowded /\ (req[r].pc # "idle" \/ InFlight = {}),
           outside' \in Int,
           \/ ~crowded => /\ StockSum(row') + Carried(q) - outside'
                                = StockSum(row) + Carried(req[r]) - outside
                          /\ faults' = faults
           \/ ~crowded => StockSum(row') + Carried(q) = outside'
           \/ ~crowded => /\ StockSum(row') + Carried(q) - outside'
                                <= StockSum(row) + Carried(req[r]) - outside
                          /\ faults' # 0
    PROVE  ConserveInv'
<1> SUFFICES ASSUME ~crowded'
             PROVE  /\ StockSum(row') + TransitSum(req') <= outside'
                    /\ faults' = 0 => StockSum(row') + TransitSum(req') = outside'
  BY DEF ConserveInv
<1>1. /\ req'[r] = q
      /\ \A o \in Requests \ {r} : req[o].pc = "idle" /\ req'[o] = req[o]
  BY Lone DEF Turned, TypeInv
<1>2. req \in [Requests -> Request] /\ req' \in [Requests -> Request]
  BY DEF TypeInv, RowsTypeOK
<1>3. TransitSum(req) = Carried(req[r])
  BY <1>1, <1>2, LoneTransit
<1>4. TransitSum(req') = Carried(q)
  <2> DEFINE rr == req'
  <2>1. rr \in [Requests -> Request] /\ \A o \in Requests \ {r} : rr[o].pc = "idle"
    BY <1>1, <1>2
  <2>2. rr[r] = q
    BY <1>1
  <2> HIDE DEF rr
  <2>3. TransitSum(rr) = Carried(rr[r])
    BY <2>1, LoneTransit
  <2> QED
    BY <2>2, <2>3 DEF rr
<1>5. Carried(q) \in Int /\ Carried(req[r]) \in Int
  BY <1>1, <1>2, CarriedType
<1>6. StockSum(row) \in Int /\ StockSum(row') \in Int
  BY StockSumType DEF TypeInv, RowsTypeOK
<1>7. outside \in Int /\ outside' \in Int
  BY DEF TypeInv, ValuesOK
<1>8. /\ StockSum(row) + Carried(req[r]) <= outside
      /\ faults = 0 => StockSum(row) + Carried(req[r]) = outside
  BY <1>3 DEF ConserveInv
<1>9. /\ StockSum(row') + Carried(q) <= outside'
      /\ faults' = 0 => StockSum(row') + Carried(q) = outside'
  <2>1. CASE /\ StockSum(row') + Carried(q) - outside' = StockSum(row) + Carried(req[r]) - outside
             /\ faults' = faults
    BY <1>5, <1>6, <1>7, <1>8, <2>1, Balance
  <2>2. CASE StockSum(row') + Carried(q) = outside'
    BY <1>7, <2>2
  <2>3. CASE /\ StockSum(row') + Carried(q) - outside' <= StockSum(row) + Carried(req[r]) - outside
             /\ faults' # 0
    BY <1>5, <1>6, <1>7, <1>8, <2>3, Balance
  <2> QED
    BY <2>1, <2>2, <2>3
<1> QED
  BY <1>4, <1>9

\* The quantity carried is one a user asked for.
LEMMA CarriedPositive ==
    ASSUME RowsTypeOK, LegsInv, NEW r \in Requests
    PROVE  Carried(req[r]) \in Nat
<1>1. ASSUME Carries(req[r]) PROVE req[r].legs[2].change \in Nat
  <2>1. GoodLegs(req[r].legs) /\ Len(req[r].legs) = 2
    BY <1>1 DEF LegsInv, Adjusting, Carries
  <2>2. \E q \in Quantities : req[r].legs[2].change = q
    BY <2>1 DEF GoodLegs, OneLeg, TwoLegs
  <2>3. Quantities \subseteq Nat \ {0}
    BY StockConstants, Zenon DEF StockConstants
  <2> QED
    BY <2>2, <2>3
<1> QED
  BY <1>1 DEF Carried

\* What a save does to what its request carries.
LEMMA CarriedBySave ==
    ASSUME RowsTypeOK, LegsInv, NEW r \in Requests, NEW q,
           req[r].pc = "save", q.pc = "sum", q.legs = req[r].legs, q.at = req[r].at
    PROVE  /\ Len(req[r].legs) = 1 => Carried(req[r]) = 0 /\ Carried(q) = 0
           /\ Len(req[r].legs) # 1 => Carried(q) = Carried(req[r]) - CurrentLeg(r).change
<1>1. GoodLegs(req[r].legs) /\ req[r].at \in 1..Len(req[r].legs) /\ req[r].legs \in Seq(Leg)
  BY DEF LegsInv, Adjusting, RowsTypeOK, Request
<1>2. Len(req[r].legs) \in {1, 2}
  BY <1>1 DEF GoodLegs, OneLeg, TwoLegs
<1>3. CASE Len(req[r].legs) = 1
  BY <1>3 DEF Carried, Carries
<1>4. CASE Len(req[r].legs) = 2
  <2>1. /\ req[r].legs[1].change \in Int /\ req[r].legs[2].change \in Int
        /\ req[r].legs[1].change = -req[r].legs[2].change
    <3>1. TwoLegs(req[r].legs)
      BY <1>1, <1>4 DEF GoodLegs, OneLeg
    <3>2. req[r].legs[1] \in Leg /\ req[r].legs[2] \in Leg
      BY <1>1, <1>4
    <3> QED
      BY <3>1, <3>2 DEF TwoLegs, Leg
  <2>2. CASE req[r].at = 1
    BY <1>4, <2>1, <2>2 DEF Carried, Carries, CurrentLeg
  <2>3. CASE req[r].at = 2
    BY <1>4, <2>1, <2>3 DEF Carried, Carries, CurrentLeg
  <2> QED
    BY <1>1, <1>4, <2>2, <2>3
<1> QED
  BY <1>2, <1>3, <1>4

\* A step that changes neither rows nor what is carried.
LEMMA ConserveQuiet ==
    ASSUME TypeInv, RowsTypeOK', AloneInv, ConserveInv, NEW r \in Requests, NEW q, Turned(r, q),
           ~crowded' => ~crowded /\ (req[r].pc # "idle" \/ InFlight = {}),
           row' = row, outside' = outside, faults' = faults, Carried(q) = Carried(req[r])
    PROVE  ConserveInv'
<1>1. outside' \in Int
  BY DEF TypeInv, ValuesOK
<1> QED
  BY <1>1, ConserveTurn

LEMMA ConserveStep ==
    TypeInv /\ AloneInv /\ LegsInv /\ ConserveInv /\ [Next]_vars => ConserveInv'
<1> SUFFICES ASSUME TypeInv, AloneInv, LegsInv, ConserveInv, [Next]_vars PROVE ConserveInv'
  OBVIOUS
<1>0. RowsTypeOK /\ RowsTypeOK' /\ ValuesOK /\ ValuesOK'
  BY TypeInvStep DEF TypeInv
<1>o. outside \in Int /\ outside' \in Int /\ faults \in Nat /\ faults' \in Nat
  BY <1>0, BoundTypes DEF ValuesOK
<1>f. ASSUME NEW r \in Requests, ~crowded
      PROVE  FreshReq(req[r], row)
  BY <1>f DEF AloneInv
<1>i. ASSUME NEW q, q.pc \in {"idle", "clearStock", "zeroProducts", "zeroMaterials"}
      PROVE  Carried(q) = 0
  BY <1>i DEF Carried, Carries
<1>1. ASSUME NEW r \in Requests, Adjust(r) \/ Transfer(r) \/ Convert(r)
      PROVE  ConserveInv'
  <2>1. PICK q : /\ Turned(r, q) /\ req[r].pc = "idle" /\ q.pc = "find" /\ q.at = 1
                 /\ crowded' = (crowded \/ InFlight # {})
                 /\ UNCHANGED <<sumRead, row, onHand, history, resets, completed, era,
                                faults, ghosts>>
    BY <1>1, TurnBegins
  <2>2. Carried(q) = 0 /\ Carried(req[r]) = 0
    BY <1>i, <2>1 DEF Carried, Carries
  <2> QED
    BY <1>0, <2>1, <2>2, ConserveQuiet DEF ghosts
<1>2. ASSUME NEW r \in Requests, FindRow(r)
      PROVE  ConserveInv'
  <2>1. PICK q : Turned(r, q) /\ q.pc = "save" /\ q.legs = req[r].legs /\ q.at = req[r].at
    BY <1>0, <1>2, TurnReads
  <2>2. UNCHANGED <<row, bounds, ghosts>> /\ req[r].pc = "find"
    BY <1>2 DEF FindRow
  <2>3. Carried(q) = Carried(req[r])
    BY <2>1, <2>2 DEF Carried, Carries
  <2> QED
    BY <1>0, <2>1, <2>2, <2>3, ConserveQuiet DEF bounds, ghosts
<1>3. ASSUME NEW r \in Requests, SaveRow(r)
      PROVE  ConserveInv'
  <2> DEFINE c == CurrentLeg(r).change
  <2>1. PICK q : /\ Turned(r, q) /\ q.pc = "sum"
                 /\ q.legs = req[r].legs /\ q.at = req[r].at
    BY <1>0, <1>3, TurnMoves
  <2>2. /\ UNCHANGED <<history, bounds>> /\ req[r].pc = "save"
        /\ outside' = IF Len(req[r].legs) = 1 THEN outside + c ELSE outside
    BY <1>3 DEF SaveRow
  <2>3. ~crowded => StockSum(row') = StockSum(row) + c
    <3>1. ~crowded => RowQty(req[r].snap) = Qty(CurrentLeg(r).key)
      BY <1>f, <2>2 DEF FreshReq, Qty, LegOf, CurrentLeg
    <3> QED
      BY <1>0, <1>3, <3>1, SavedStock
  <2>4. c \in Int
    BY <1>0, <1>3, SavedQty
  <2>5. StockSum(row) \in Int
    BY <1>0, StockSumType DEF RowsTypeOK
  <2>6. Carried(req[r]) \in Nat
    BY <1>0, CarriedPositive
  <2>7. /\ Len(req[r].legs) = 1 => Carried(req[r]) = 0 /\ Carried(q) = 0
        /\ Len(req[r].legs) # 1 => Carried(q) = Carried(req[r]) - c
    BY <1>0, <2>1, <2>2, CarriedBySave
  <2>8. ~crowded => StockSum(row') + Carried(q) - outside'
                        = StockSum(row) + Carried(req[r]) - outside
    <3> DEFINE s == StockSum(row)
               t == StockSum(row')
               a == Carried(req[r])
               b == Carried(q)
    <3> HIDE DEF s, t, a, b, c
    <3>1. CASE Len(req[r].legs) = 1
      <4>1. a = 0 /\ b = 0 /\ outside' = outside + c
        BY <2>2, <2>7, <3>1 DEF a, b
      <4> QED
        BY <1>o, <2>3, <2>4, <2>5, <4>1 DEF s, t, a, b
    <3>2. CASE Len(req[r].legs) # 1
      <4>1. b = a - c /\ outside' = outside
        BY <2>2, <2>7, <3>2 DEF a, b
      <4> QED
        BY <1>o, <2>3, <2>4, <2>5, <2>6, <4>1 DEF s, t, a, b
    <3> QED
      BY <3>1, <3>2
  <2> QED
    BY <1>0, <1>o, <2>1, <2>2, <2>8, ConserveTurn DEF bounds
<1>4. ASSUME NEW r \in Requests, SaveRejected(r)
      PROVE  ConserveInv'
  <2>1. Turned(r, Idle) /\ Idle.pc = "idle"
    BY <1>4, TurnEnds, IdleFields
  <2>2. UNCHANGED <<row, bounds, ghosts>> /\ req[r].pc = "save" /\ Collides(r)
    BY <1>4 DEF SaveRejected
  <2>3. ~crowded => FALSE
    BY <1>f, <2>2 DEF FreshReq, Collides, KnownId, LegOf, CurrentLeg
  <2> QED
    BY <1>0, <1>o, <2>1, <2>2, <2>3, ConserveTurn DEF bounds
<1>5. ASSUME NEW r \in Requests, SumRows(r) \/ UpdateMaster(r)
      PROVE  ConserveInv'
  <2>1. PICK q : /\ Turned(r, q) /\ q.pc \in {"master", "log"}
                 /\ q.legs = req[r].legs /\ q.at = req[r].at
    BY <1>0, <1>5, TurnMoves
  <2>2. UNCHANGED <<row, bounds, ghosts>> /\ req[r].pc \in {"sum", "master"}
    BY <1>5 DEF SumRows, UpdateMaster
  <2>3. Carried(q) = Carried(req[r])
    BY <2>1, <2>2 DEF Carried, Carries
  <2> QED
    BY <1>0, <2>1, <2>2, <2>3, ConserveQuiet DEF bounds, ghosts
<1>6. ASSUME NEW r \in Requests, WriteHistory(r)
      PROVE  ConserveInv'
  <2>1. UNCHANGED <<row, bounds, ghosts>> /\ req[r].pc = "log"
    BY <1>6 DEF WriteHistory
  <2>2. GoodLegs(req[r].legs) /\ req[r].at \in 1..Len(req[r].legs)
    BY <1>0, <2>1 DEF LegsInv, Adjusting, RowsTypeOK
  <2>3. Len(req[r].legs) \in {1, 2}
    BY <2>2 DEF GoodLegs, OneLeg, TwoLegs
  <2>4. CASE Turned(r, Idle) /\ req[r].at = Len(req[r].legs)
    <3>1. Carried(Idle) = 0
      BY <1>i, IdleFields
    <3>2. Carried(req[r]) = 0
      BY <2>1, <2>3, <2>4 DEF Carried, Carries
    <3> QED
      BY <1>0, <2>1, <2>4, <3>1, <3>2, ConserveQuiet DEF bounds, ghosts
  <2>5. CASE \E q : /\ Turned(r, q) /\ req[r].at # Len(req[r].legs)
                    /\ q.pc = "find" /\ q.legs = req[r].legs /\ q.at = req[r].at + 1
    <3>1. PICK q : /\ Turned(r, q) /\ req[r].at # Len(req[r].legs)
                   /\ q.pc = "find" /\ q.legs = req[r].legs /\ q.at = req[r].at + 1
      BY <2>5
    <3>2. req[r].at = 1 /\ Len(req[r].legs) = 2 /\ q.at = 2
      <4>1. CASE Len(req[r].legs) = 1
        BY <2>2, <3>1, <4>1
      <4>2. CASE Len(req[r].legs) = 2
        BY <2>2, <3>1, <4>2
      <4> QED
        BY <2>3, <4>1, <4>2
    <3>3. Carried(q) = Carried(req[r])
      BY <2>1, <3>1, <3>2 DEF Carried, Carries
    <3> QED
      BY <1>0, <2>1, <3>1, <3>3, ConserveQuiet DEF bounds, ghosts
  <2> QED
    BY <1>0, <1>6, <2>4, <2>5, TurnWrites
<1>7. ASSUME NEW r \in Requests, Reset(r)
      PROVE  ConserveInv'
  <2> DEFINE q == [Idle EXCEPT !.pc = "clearStock"]
  <2>1. q.pc = "clearStock" /\ Turned(r, q)
    BY <1>7, IdleFields DEF Reset, Turned
  <2>2. /\ UNCHANGED <<row, faults, ghosts>> /\ req[r].pc = "idle"
        /\ crowded' = (crowded \/ InFlight # {})
    BY <1>7 DEF Reset, Meet
  <2> HIDE DEF q
  <2>3. Carried(q) = Carried(req[r])
    BY <1>i, <2>1, <2>2
  <2> QED
    BY <1>0, <2>1, <2>2, <2>3, ConserveQuiet DEF ghosts
<1>8. ASSUME NEW r \in Requests, ClearStock(r)
      PROVE  ConserveInv'
  <2>1. PICK q : Turned(r, q) /\ q.pc = "zeroProducts"
    BY <1>0, <1>8, TurnMoves
  <2>2. /\ UNCHANGED bounds /\ req[r].pc = "clearStock" /\ outside' = 0
        /\ \A k \in Keys : row'[k] = NoRow
    BY <1>8 DEF ClearStock
  <2>3. StockSum(row') = 0
    BY <2>2, EmptyStock
  <2>4. Carried(q) = 0
    BY <1>i, <2>1
  <2>5. StockSum(row') + Carried(q) = outside'
    BY <2>2, <2>3, <2>4
  <2> QED
    BY <1>0, <1>o, <2>1, <2>2, <2>5, ConserveTurn DEF bounds
<1>9. ASSUME NEW r \in Requests, ZeroProducts(r)
      PROVE  ConserveInv'
  <2>1. PICK q : Turned(r, q) /\ q.pc = "zeroMaterials"
    BY <1>0, <1>9, TurnMoves
  <2>2. UNCHANGED <<row, bounds, ghosts>> /\ req[r].pc = "zeroProducts"
    BY <1>9 DEF ZeroProducts
  <2>3. Carried(q) = Carried(req[r])
    BY <1>i, <2>1, <2>2
  <2> QED
    BY <1>0, <2>1, <2>2, <2>3, ConserveQuiet DEF bounds, ghosts
<1>10. ASSUME NEW r \in Requests, ZeroMaterials(r)
       PROVE  ConserveInv'
  <2>1. Turned(r, Idle) /\ Idle.pc = "idle"
    BY <1>10, TurnEnds, IdleFields
  <2>2. UNCHANGED <<row, faults, crowded, ghosts>> /\ req[r].pc = "zeroMaterials"
    BY <1>10 DEF ZeroMaterials
  <2>3. Carried(Idle) = Carried(req[r])
    BY <1>i, <2>1, <2>2
  <2> QED
    BY <1>0, <2>1, <2>2, <2>3, ConserveQuiet DEF ghosts
<1>11. ASSUME NEW r \in Requests, Fail(r)
       PROVE  ConserveInv'
  <2>1. Turned(r, Idle) /\ Idle.pc = "idle"
    BY <1>11, TurnEnds, IdleFields
  <2>2. /\ UNCHANGED <<row, crowded, ghosts>> /\ req[r].pc # "idle" /\ faults' = faults + 1
    BY <1>11 DEF Fail
  <2>3. Carried(Idle) = 0 /\ Carried(req[r]) \in Nat
    BY <1>0, <1>i, <2>1, CarriedPositive
  <2>4. StockSum(row) \in Int
    BY <1>0, StockSumType DEF RowsTypeOK
  <2>5. outside' = outside /\ faults' # 0
    BY <1>o, <2>2 DEF ghosts
  <2>6. StockSum(row') + Carried(Idle) - outside' <= StockSum(row) + Carried(req[r]) - outside
    <3> DEFINE s == StockSum(row)
               a == Carried(req[r])
    <3>1. s \in Int /\ a \in Nat /\ StockSum(row') = s
      BY <2>2, <2>3, <2>4
    <3> HIDE DEF s, a
    <3>2. s + 0 - outside <= s + a - outside
      BY <1>o, <3>1
    <3> QED
      BY <2>3, <2>5, <3>1, <3>2 DEF s, a
  <2> QED
    BY <1>0, <1>o, <2>1, <2>2, <2>5, <2>6, ConserveTurn
<1>12. CASE Crash
  <2>1. PICK r \in Requests : req[r].pc # "idle"
    BY <1>12 DEF Crash, InFlight
  <2>2. /\ UNCHANGED <<row, crowded, ghosts>> /\ faults' = faults + Cardinality(InFlight)
        /\ InFlight # {}
    BY <1>12 DEF Crash
  <2>3. faults' # 0 /\ outside' = outside
    <3>1. Cardinality(InFlight) \in Nat /\ Cardinality(InFlight) # 0
      BY <2>2, ResettersFinite, FS_EmptySet
    <3> QED
      BY <1>o, <2>2, <3>1 DEF ghosts
  <2> SUFFICES ASSUME ~crowded, ~crowded'
               PROVE  StockSum(row') + TransitSum(req') <= outside'
    BY <2>2, <2>3 DEF ConserveInv
  <2>4. TransitSum(req) = Carried(req[r])
    <3>1. \A o \in Requests \ {r} : req[o].pc = "idle"
      BY <2>1 DEF AloneInv, Alone, InFlight
    <3> QED
      BY <1>0, <3>1, LoneTransit DEF RowsTypeOK
  <2>5. TransitSum(req') = 0
    <3> DEFINE rr == req'
    <3>1. rr \in [Requests -> Request] /\ \A o \in Requests : rr[o].pc = "idle"
      BY <1>0, <1>12, AllIdle DEF RowsTypeOK
    <3> HIDE DEF rr
    <3>2. TransitSum(rr) = Carried(rr[r])
      BY <3>1, LoneTransit
    <3> QED
      BY <1>i, <3>1, <3>2 DEF rr
  <2>6. StockSum(row) \in Int /\ Carried(req[r]) \in Nat
    BY <1>0, StockSumType, CarriedPositive DEF RowsTypeOK
  <2>7. StockSum(row) + Carried(req[r]) <= outside
    BY <2>4 DEF ConserveInv
  <2>8. StockSum(row') = StockSum(row)
    BY <2>2
  <2> QED
    BY <1>o, <2>3, <2>5, <2>6, <2>7, <2>8
<1>13. CASE UNCHANGED vars
  BY <1>13 DEF vars, ConserveInv
<1> QED
  BY <1>1, <1>2, <1>3, <1>4, <1>5, <1>6, <1>7, <1>8, <1>9, <1>10, <1>11, <1>12, <1>13
     DEF Next, AdjustStep, ResetStep

\* As long as requests never met: transfers and conversions move quantities.
\* The rows and what is in transit add up to what plain adjustments brought
\* in, and a fault between two calls loses the quantity, never doubles it.
THEOREM TransfersMove == Spec => []TransfersConserve
<1>1. Spec => [](TypeInv /\ AloneInv /\ LegsInv /\ ConserveInv)
  <2>1. Init => TypeInv /\ AloneInv /\ LegsInv /\ ConserveInv
    BY TypeInvInit, AloneInit, LegsInit, ConserveInit
  <2>2. TypeInv /\ AloneInv /\ LegsInv /\ ConserveInv /\ [Next]_vars
            => (TypeInv /\ AloneInv /\ LegsInv /\ ConserveInv)'
    BY TypeInvStep, AloneStep, LegsStep, ConserveStep DEF TypeInv
  <2> QED
    BY <2>1, <2>2, PTL DEF Spec
<1>2. ConserveInv => TransfersConserve
  BY InTransitIs DEF ConserveInv, TransfersConserve
<1> QED
  BY <1>1, <1>2, PTL

--------------------------------------------------------------------------------
(***************************************************************************)
(* The refinement.  For requests that share no row, and no fault, the      *)
(* rows together with what each request carries behave as AtomicLedger:    *)
(* the first save of a transfer is the Move, its second save a stutter.    *)
(***************************************************************************)
LEMMA OthersCarry ==
    ASSUME NEW rq \in [Requests -> Request], NEW rr \in [Requests -> Request],
           NEW r \in Requests, \A o \in Requests \ {r} : rr[o] = rq[o], NEW k
    PROVE  /\ TransitIn(rq, k) \in Int /\ TransitIn(rr, k) \in Int
           /\ Part(rq[r], k) \in Int /\ Part(rr[r], k) \in Int
           /\ TransitIn(rr, k) = TransitIn(rq, k) + Part(rr[r], k) - Part(rq[r], k)
<1> DEFINE S == Carriers(rq, k) \ {r}
           T == Carriers(rr, k) \ {r}
<1>1. S = T
  BY DEF Carriers
<1>2. \A o \in S : rr[o] = rq[o]
  BY DEF Carriers
<1>3. /\ CarriedBy(rq, k, S) \in Int
      /\ TransitIn(rq, k) = Part(rq[r], k) + CarriedBy(rq, k, S)
  BY TransitSplit
<1>4. /\ CarriedBy(rr, k, T) \in Int
      /\ TransitIn(rr, k) = Part(rr[r], k) + CarriedBy(rr, k, T)
  BY TransitSplit
<1> HIDE DEF S, T
<1>5. CarriedBy(rq, k, S) = CarriedBy(rr, k, T)
  <2>1. [o \in S |-> rq[o].legs[2].change] = [o \in T |-> rr[o].legs[2].change]
    BY <1>1, <1>2
  <2> QED
    BY <1>1, <2>1 DEF CarriedBy
<1>6. Part(rq[r], k) \in Int /\ Part(rr[r], k) \in Int
  BY CarriedType
<1> DEFINE a == Part(rq[r], k)
           b == Part(rr[r], k)
           c == CarriedBy(rq, k, S)
<1>7. a \in Int /\ b \in Int /\ c \in Int
  BY <1>3, <1>6
<1>8. TransitIn(rq, k) = a + c /\ TransitIn(rr, k) = b + c
  BY <1>3, <1>4, <1>5
<1> HIDE DEF a, b, c
<1>9. a + c \in Int /\ b + c \in Int /\ b + c = (a + c) + b - a
  BY <1>7
<1>10. TransitIn(rr, k) = TransitIn(rq, k) + b - a
  BY <1>8, <1>9
<1> QED
  BY <1>6, <1>8, <1>9, <1>10 DEF a, b

LEMMA SeenStep ==
    ASSUME RowsTypeOK, RowsTypeOK', NEW r \in Requests, NEW q, Turned(r, q)
    PROVE  /\ Seen = [k \in Keys |-> Qty(k) + TransitIn(req, k)]
           /\ Seen' = [k \in Keys |-> Qty(k)' + TransitIn(req', k)]
           /\ \A k \in Keys :
                /\ Qty(k) \in Int /\ Qty(k)' \in Int
                /\ TransitIn(req, k) \in Int
                /\ Part(req[r], k) \in Int /\ Part(q, k) \in Int
                /\ TransitIn(req', k) = TransitIn(req, k) + Part(q, k) - Part(req[r], k)
<1>1. Seen = [k \in Keys |-> Qty(k) + TransitIn(req, k)]
  BY InTransitIs DEF Seen
<1>2. Seen' = [k \in Keys |-> Qty(k)' + TransitIn(req', k)]
  <2>1. \A k : InTransit(k)' = TransitIn(req', k)
    <3> SUFFICES ASSUME NEW k PROVE InTransit(k)' = TransitIn(req', k)
      OBVIOUS
    <3>1. {o \in Requests : /\ Len(req'[o].legs) = 2 /\ DueIn(o)' /\ req'[o].legs[2].key = k}
            = Carriers(req', k)
      BY DEF Carriers, Carries, DueIn
    <3> QED
      BY <3>1 DEF InTransit, TransitIn, CarriedBy, SumFunction
  <2> QED
    BY <2>1 DEF Seen
<1>3. \A k \in Keys : Qty(k) \in Int /\ Qty(k)' \in Int
  BY DEF RowsTypeOK, Qty, RowQty, Row
<1>4. req'[r] = q /\ \A o \in Requests \ {r} : req'[o] = req[o]
  BY DEF RowsTypeOK, Turned
<1>5. ASSUME NEW k \in Keys
      PROVE  /\ TransitIn(req, k) \in Int
             /\ Part(req[r], k) \in Int /\ Part(q, k) \in Int
             /\ TransitIn(req', k) = TransitIn(req, k) + Part(q, k) - Part(req[r], k)
  <2> DEFINE rr == req'
  <2>1. rr \in [Requests -> Request] /\ req \in [Requests -> Request]
    BY DEF RowsTypeOK
  <2>2. rr[r] = q /\ \A o \in Requests \ {r} : rr[o] = req[o]
    BY <1>4
  <2> HIDE DEF rr
  <2>3. /\ TransitIn(req, k) \in Int /\ Part(req[r], k) \in Int /\ Part(rr[r], k) \in Int
        /\ TransitIn(rr, k) = TransitIn(req, k) + Part(rr[r], k) - Part(req[r], k)
    BY <2>1, <2>2, OthersCarry
  <2> QED
    BY <2>2, <2>3 DEF rr
<1> QED
  BY <1>1, <1>2, <1>3, <1>5

\* What is seen does not change when no row does and nothing is picked up.
LEMMA SeenQuiet ==
    ASSUME RowsTypeOK, RowsTypeOK', NEW r \in Requests, NEW q, Turned(r, q),
           row' = row, \A k \in Keys : Part(q, k) = Part(req[r], k)
    PROVE  Seen' = Seen
<1>1. /\ Seen = [k \in Keys |-> Qty(k) + TransitIn(req, k)]
      /\ Seen' = [k \in Keys |-> Qty(k)' + TransitIn(req', k)]
      /\ \A k \in Keys :
           /\ TransitIn(req, k) \in Int
           /\ Part(req[r], k) \in Int
           /\ TransitIn(req', k) = TransitIn(req, k) + Part(q, k) - Part(req[r], k)
  BY SeenStep
<1>2. ASSUME NEW k \in Keys PROVE TransitIn(req', k) = TransitIn(req, k)
  <2> DEFINE t == TransitIn(req, k)
             a == Part(req[r], k)
  <2>1. t \in Int /\ a \in Int /\ TransitIn(req', k) = t + a - a
    BY <1>1
  <2> HIDE DEF t, a
  <2>2. t + a - a = t
    BY <2>1
  <2> QED
    BY <2>1, <2>2 DEF t
<1>3. \A k \in Keys : Qty(k)' = Qty(k)
  BY DEF Qty
<1> QED
  BY <1>1, <1>2, <1>3

LEMMA CarriedPart ==
    ASSUME NEW q, NEW p, Carries(q) <=> Carries(p), Carries(q) => q.legs = p.legs
    PROVE  \A k : Part(q, k) = Part(p, k)
  BY DEF Part

\* Of the quantities seen, those of the rows a save is for.
LEMMA SeenSaved ==
    ASSUME RowsTypeOK, RowsTypeOK', LegsInv, SnapshotsFresh, NEW r \in Requests, SaveRow(r)
    PROVE  \/ Seen' = Seen /\ outside' = outside
           \/ \E k \in Keys, n \in Quantities : Atomic!Adjust(k, n)
           \/ \E k, l \in Keys, n \in Quantities : Atomic!Move(k, l, n)
<1>0. CurrentLeg(r).key \in Keys /\ CurrentLeg(r).change \in Int
  BY SavedQty
<1>m. PICK m \in Keys, c \in Int : m = CurrentLeg(r).key /\ c = CurrentLeg(r).change
  BY <1>0
<1>1. PICK q : /\ Turned(r, q) /\ q.pc = "sum"
               /\ q.legs = req[r].legs /\ q.at = req[r].at
  BY TurnMoves
<1>2. /\ req[r].pc = "save"
      /\ outside' = IF Len(req[r].legs) = 1 THEN outside + c ELSE outside
  BY <1>m DEF SaveRow
<1>3. /\ m \in Keys /\ c \in Int
      /\ RowQty(row'[m]) = RowQty(req[r].snap) + c
      /\ \A k \in Keys \ {m} : Qty(k)' = Qty(k)
  BY <1>m, SavedQty
<1>4. Qty(m)' = Qty(m) + c
  <2>1. RowQty(req[r].snap) = Qty(m)
    BY <1>2, <1>m DEF SnapshotsFresh, Qty
  <2> QED
    BY <1>3, <2>1 DEF Qty
<1>5. GoodLegs(req[r].legs) /\ req[r].at \in 1..Len(req[r].legs) /\ req[r].legs \in Seq(Leg)
  BY <1>2 DEF LegsInv, Adjusting, RowsTypeOK, Request
<1>6. /\ Seen = [k \in Keys |-> Qty(k) + TransitIn(req, k)]
      /\ Seen' = [k \in Keys |-> Qty(k)' + TransitIn(req', k)]
      /\ \A k \in Keys :
           /\ Qty(k) \in Int /\ Qty(k)' \in Int
           /\ TransitIn(req, k) \in Int
           /\ Part(req[r], k) \in Int /\ Part(q, k) \in Int
           /\ TransitIn(req', k) = TransitIn(req, k) + Part(q, k) - Part(req[r], k)
  BY <1>1, SeenStep
<1>q. Quantities \subseteq Nat
  <2>1. Quantities \subseteq Nat \ {0}
    BY StockConstants, Zenon DEF StockConstants
  <2> QED
    BY <2>1
<1>7. CASE OneLeg(req[r].legs)
  <2>1. \A k \in Keys : Part(q, k) = 0 /\ Part(req[r], k) = 0
    BY <1>1, <1>7 DEF OneLeg, Part, Carries
  <2>2. PICK n \in Quantities : c = n \/ c = -n
    BY <1>5, <1>7, <1>m DEF OneLeg, CurrentLeg
  <2>3. outside' = outside + c
    BY <1>2, <1>7 DEF OneLeg
  <2>4. \A k \in Keys : TransitIn(req', k) = TransitIn(req, k)
    BY <1>6, <2>1
  <2>5. Seen' = [Seen EXCEPT ![m] = @ + c]
    <3>1. ASSUME NEW k \in Keys
          PROVE  Seen'[k] = IF k = m THEN Seen[k] + c ELSE Seen[k]
      BY <1>3, <1>4, <1>6, <2>4
    <3> QED
      BY <1>3, <1>6, <3>1
  <2>6. CASE c = n
    BY <1>3, <2>3, <2>5, <2>6 DEF Atomic!Adjust
  <2>7. CASE c = -n
    <3>1. n \in Nat /\ Seen[m] \in Int
      BY <1>3, <1>6, <1>q
    <3>2. Seen' = [Seen EXCEPT ![m] = @ - n]
      BY <2>5, <2>7, <3>1
    <3>3. outside' = outside - n
      BY <2>3, <2>7, <3>1
    <3> QED
      BY <1>3, <3>2, <3>3 DEF Atomic!Adjust
  <2> QED
    BY <2>2, <2>6, <2>7
<1>8. CASE TwoLegs(req[r].legs)
  <2> DEFINE l == req[r].legs[2].key
  <2>1. PICK n \in Quantities : req[r].legs[1].change = -n /\ req[r].legs[2].change = n
    BY <1>8 DEF TwoLegs
  <2>2. Len(req[r].legs) = 2 /\ req[r].legs[1].key # l /\ l \in Keys /\ n \in Nat
    <3>1. Len(req[r].legs) = 2 /\ req[r].legs[1].key # l
      BY <1>8 DEF TwoLegs
    <3>2. req[r].legs[2] \in Leg
      BY <1>5, <3>1
    <3> QED
      BY <1>q, <3>1, <3>2 DEF Leg
  <2>3. outside' = outside
    BY <1>2, <2>2
  <2>4. CASE req[r].at = 1
    <3>1. m = req[r].legs[1].key /\ c = -n
      BY <1>m, <2>1, <2>4 DEF CurrentLeg
    <3>2. \A k \in Keys : Part(req[r], k) = 0 /\ Part(q, k) = IF k = l THEN n ELSE 0
      BY <1>1, <1>2, <2>1, <2>2, <2>4 DEF Part, Carries
    <3> HIDE DEF l
    <3>3. \A k \in Keys : TransitIn(req', k) = IF k = l THEN TransitIn(req, k) + n
                                                        ELSE TransitIn(req, k)
      BY <1>6, <2>2, <3>2
    <3>4. m # l
      BY <2>2, <3>1 DEF l
    <3>5. Seen' = [Seen EXCEPT ![m] = @ - n, ![l] = @ + n]
      <4>1. ASSUME NEW k \in Keys
            PROVE  Seen'[k] = IF k = l THEN Seen[k] + n
                              ELSE IF k = m THEN Seen[k] - n ELSE Seen[k]
        <5>1. CASE k = l
          BY <1>3, <1>6, <2>2, <3>3, <3>4, <5>1
        <5>2. CASE k = m
          BY <1>3, <1>4, <1>6, <2>2, <3>1, <3>3, <3>4, <5>2
        <5>3. CASE k # l /\ k # m
          BY <1>3, <1>6, <3>3, <5>3
        <5> QED
          BY <3>4, <5>1, <5>2, <5>3
      <4> QED
        BY <1>3, <1>6, <2>2, <3>4, <4>1
    <3>6. Atomic!Move(m, l, n)
      BY <2>3, <3>4, <3>5 DEF Atomic!Move
    <3> QED
      BY <1>3, <2>2, <3>6
  <2>5. CASE req[r].at = 2
    <3>1. m = l /\ c = n
      BY <1>m, <2>1, <2>5 DEF CurrentLeg
    <3>2. \A k \in Keys : Part(q, k) = 0 /\ Part(req[r], k) = IF k = l THEN n ELSE 0
      BY <1>1, <1>2, <2>1, <2>2, <2>5 DEF Part, Carries
    <3> HIDE DEF l
    <3>3. ASSUME NEW k \in Keys
          PROVE  TransitIn(req', k) = IF k = l THEN TransitIn(req, k) - n
                                               ELSE TransitIn(req, k)
      <4> DEFINE t == TransitIn(req, k)
                 u == TransitIn(req', k)
                 a == Part(q, k)
                 b == Part(req[r], k)
      <4>1. t \in Int /\ u = t + a - b /\ a = 0 /\ b = IF k = l THEN n ELSE 0
        BY <1>6, <3>2
      <4> HIDE DEF t, u, a, b
      <4>2. u = IF k = l THEN t - n ELSE t
        BY <2>2, <4>1
      <4> QED
        BY <4>2 DEF t, u
    <3>4. ASSUME NEW k \in Keys
          PROVE  Qty(k)' + TransitIn(req', k) = Qty(k) + TransitIn(req, k)
      <4>1. CASE k = l
        BY <1>4, <1>6, <2>2, <3>1, <3>3, <4>1
      <4>2. CASE k # l
        BY <1>3, <1>6, <3>1, <3>3, <4>2
      <4> QED
        BY <4>1, <4>2
    <3> QED
      BY <1>6, <2>3, <3>4
  <2>6. req[r].at = 1 \/ req[r].at = 2
    BY <1>5, <2>2
  <2> QED
    BY <2>4, <2>5, <2>6
<1> QED
  BY <1>5, <1>7, <1>8 DEF GoodLegs

LEMMA RefinementInit == Init => Atomic!Init
<1> SUFFICES ASSUME Init PROVE Seen = [k \in Keys |-> 0] /\ outside = 0
  BY DEF Atomic!Init, Atomic!Keys, Keys
<1>1. ASSUME NEW k \in Keys PROVE Qty(k) + InTransit(k) = 0
  <2>1. Carriers(req, k) = {}
    BY DEF Init, Idle, Carriers, Carries
  <2>2. TransitIn(req, k) = 0
    BY <2>1, SumEmpty DEF TransitIn, CarriedBy
  <2>3. InTransit(k) = 0
    BY <2>2, InTransitIs
  <2>4. Qty(k) = 0
    BY DEF Init, Qty, RowQty
  <2> QED
    BY <2>3, <2>4
<1> QED
  BY <1>1 DEF Seen, Init

LEMMA RefinementStep ==
    ASSUME Overlap # "any", MaxFaults = 0
    PROVE  TypeInv /\ LegsInv /\ ConservationInv /\ [Next]_vars
                => [Atomic!Next]_<<Seen, outside>>
<1> SUFFICES ASSUME TypeInv, LegsInv, ConservationInv, [Next]_vars
             PROVE  Atomic!Next \/ (Seen' = Seen /\ outside' = outside)
  OBVIOUS
<1>0. RowsTypeOK /\ RowsTypeOK' /\ DisjointRequests /\ SnapshotsFresh /\ faults \in 0..0
  BY RowsTypeStep DEF ConservationInv, TypeInv, ValuesOK
<1>p. ASSUME NEW q, q.pc \in {"idle", "clearStock", "zeroProducts", "zeroMaterials"}
      PROVE  ~Carries(q)
  BY <1>p DEF Carries
<1>1. ASSUME NEW r \in Requests, Adjust(r) \/ Transfer(r) \/ Convert(r)
      PROVE  Seen' = Seen /\ outside' = outside
  <2>1. PICK q : /\ Turned(r, q) /\ req[r].pc = "idle" /\ q.pc = "find" /\ q.at = 1
                 /\ UNCHANGED <<sumRead, row, onHand, history, resets, completed, era,
                                faults, ghosts>>
    BY <1>1, TurnBegins
  <2>2. ~Carries(q) /\ ~Carries(req[r])
    BY <1>p, <2>1 DEF Carries
  <2>3. \A k \in Keys : Part(q, k) = Part(req[r], k)
    BY <2>2 DEF Part
  <2> QED
    BY <1>0, <2>1, <2>3, SeenQuiet DEF ghosts
<1>2. ASSUME NEW r \in Requests, FindRow(r) \/ SumRows(r) \/ UpdateMaster(r)
      PROVE  Seen' = Seen /\ outside' = outside
  <2>1. PICK q : /\ Turned(r, q) /\ q.legs = req[r].legs /\ q.at = req[r].at
                 /\ FindRow(r) => q.pc = "save"
                 /\ SumRows(r) => q.pc = "master"
                 /\ UpdateMaster(r) => q.pc = "log"
    <3>1. CASE FindRow(r)
      <4>1. ~SumRows(r) /\ ~UpdateMaster(r)
        BY <3>1 DEF FindRow, SumRows, UpdateMaster
      <4> QED
        BY <1>0, <3>1, <4>1, TurnReads
    <3>2. CASE SumRows(r) \/ UpdateMaster(r)
      <4>1. ~FindRow(r)
        BY <3>2 DEF FindRow, SumRows, UpdateMaster
      <4> QED
        BY <1>0, <3>2, <4>1, TurnMoves
    <3> QED
      BY <1>2, <3>1, <3>2
  <2>2. /\ UNCHANGED <<row, ghosts>>
        /\ \/ req[r].pc = "find" /\ q.pc = "save"
           \/ req[r].pc \in {"sum", "master"} /\ q.pc \in {"master", "log"}
    BY <1>2, <2>1 DEF FindRow, SumRows, UpdateMaster
  <2>3. Carries(q) <=> Carries(req[r])
    BY <2>1, <2>2 DEF Carries
  <2>4. \A k \in Keys : Part(q, k) = Part(req[r], k)
    BY <2>1, <2>3, CarriedPart
  <2> QED
    BY <1>0, <2>1, <2>2, <2>4, SeenQuiet DEF ghosts
<1>3. ASSUME NEW r \in Requests, SaveRow(r)
      PROVE  Atomic!Next \/ (Seen' = Seen /\ outside' = outside)
  <2>1. \/ Seen' = Seen /\ outside' = outside
        \/ \E k \in Keys, n \in Quantities : Atomic!Adjust(k, n)
        \/ \E k, l \in Keys, n \in Quantities : Atomic!Move(k, l, n)
    BY <1>0, <1>3, SeenSaved
  <2> QED
    BY <2>1, Zenon DEF Atomic!Next, Atomic!Keys, Keys
<1>4. ASSUME NEW r \in Requests, SaveRejected(r)
      PROVE  FALSE
  BY <1>0, <1>4 DEF SaveRejected, Collides, KnownId, SnapshotsFresh
<1>5. ASSUME NEW r \in Requests, WriteHistory(r)
      PROVE  Seen' = Seen /\ outside' = outside
  <2>1. UNCHANGED <<row, ghosts>> /\ req[r].pc = "log"
    BY <1>5 DEF WriteHistory
  <2>2. GoodLegs(req[r].legs) /\ req[r].at \in 1..Len(req[r].legs)
    BY <1>0, <2>1 DEF LegsInv, Adjusting, RowsTypeOK
  <2>3. Len(req[r].legs) \in {1, 2}
    BY <2>2 DEF GoodLegs, OneLeg, TwoLegs
  <2>4. CASE Turned(r, Idle) /\ req[r].at = Len(req[r].legs)
    <3>1. ~Carries(Idle) /\ ~Carries(req[r])
      <4>1. ~Carries(Idle)
        BY <1>p, IdleFields
      <4>2. CASE Len(req[r].legs) = 1
        BY <4>1, <4>2 DEF Carries
      <4>3. CASE Len(req[r].legs) = 2
        <5>1. req[r].at = 2 /\ req[r].pc = "log"
          BY <2>1, <2>4, <4>3
        <5> QED
          BY <4>1, <5>1 DEF Carries
      <4> QED
        BY <2>3, <4>2, <4>3
    <3>2. \A k \in Keys : Part(Idle, k) = Part(req[r], k)
      BY <3>1 DEF Part
    <3> QED
      BY <1>0, <2>1, <2>4, <3>2, SeenQuiet DEF ghosts
  <2>5. CASE \E q : /\ Turned(r, q) /\ req[r].at # Len(req[r].legs)
                    /\ q.pc = "find" /\ q.legs = req[r].legs /\ q.at = req[r].at + 1
    <3>1. PICK q : /\ Turned(r, q) /\ req[r].at # Len(req[r].legs)
                   /\ q.pc = "find" /\ q.legs = req[r].legs /\ q.at = req[r].at + 1
      BY <2>5
    <3>2. req[r].at = 1 /\ Len(req[r].legs) = 2 /\ q.at = 2
      <4>1. CASE Len(req[r].legs) = 1
        BY <2>2, <3>1, <4>1
      <4>2. CASE Len(req[r].legs) = 2
        BY <2>2, <3>1, <4>2
      <4> QED
        BY <2>3, <4>1, <4>2
    <3>3. Carries(q) /\ Carries(req[r])
      BY <2>1, <3>1, <3>2 DEF Carries
    <3>4. \A k \in Keys : Part(q, k) = Part(req[r], k)
      BY <3>1, <3>3, CarriedPart
    <3> QED
      BY <1>0, <2>1, <3>1, <3>4, SeenQuiet DEF ghosts
  <2> QED
    BY <1>0, <1>5, <2>4, <2>5, TurnWrites
<1>6. ASSUME NEW r \in Requests, Reset(r) \/ ZeroProducts(r) \/ ZeroMaterials(r)
      PROVE  Seen' = Seen /\ outside' = outside
  <2>1. PICK q : Turned(r, q) /\ q.pc \in {"clearStock", "zeroMaterials", "idle"}
    <3>1. CASE Reset(r)
      BY <3>1, IdleFields DEF Reset, Turned
    <3>2. CASE ZeroProducts(r)
      BY <1>0, <3>2, TurnMoves
    <3>3. CASE ZeroMaterials(r)
      BY <3>3, TurnEnds, IdleFields
    <3> QED
      BY <1>6, <3>1, <3>2, <3>3
  <2>2. UNCHANGED <<row, ghosts>> /\ req[r].pc \in {"idle", "zeroProducts", "zeroMaterials"}
    BY <1>6 DEF Reset, ZeroProducts, ZeroMaterials
  <2>3. ~Carries(q) /\ ~Carries(req[r])
    BY <1>p, <2>1, <2>2
  <2>4. \A k \in Keys : Part(q, k) = Part(req[r], k)
    BY <2>3 DEF Part
  <2> QED
    BY <1>0, <2>1, <2>2, <2>4, SeenQuiet DEF ghosts
<1>7. ASSUME NEW r \in Requests, ClearStock(r)
      PROVE  Atomic!Reset
  <2>1. PICK q : Turned(r, q) /\ q.pc = "zeroProducts"
    BY <1>0, <1>7, TurnMoves
  <2>2. /\ req[r].pc = "clearStock" /\ outside' = 0
        /\ row' = [k \in Keys |-> NoRow]
    BY <1>7 DEF ClearStock
  <2>3. req'[r] = q /\ \A o \in Requests \ {r} : req'[o] = req[o]
    BY <1>0, <2>1 DEF RowsTypeOK, Turned
  <2>4. ASSUME NEW o \in Requests, Carries(req'[o])
        PROVE  FALSE
    <3>1. o # r /\ req'[o] = req[o]
      BY <1>p, <2>1, <2>3, <2>4
    <3>2. Adjusting(o)
      BY <2>4, <3>1 DEF Carries, Adjusting
    <3>3. CurrentLeg(o).key \in Keys /\ CurrentLeg(o).key \in KeysOf(req[o].legs)
      BY <1>0, <3>2, CurrentLegType
    <3>4. Touches(o) = KeysOf(req[o].legs) /\ Touches(r) = Keys
      BY <2>2, <3>2 DEF Touches, Resetting, Adjusting
    <3>5. Touches(o) \cap Touches(r) = {}
      BY <1>0, <2>2, <3>1, <3>2 DEF DisjointRequests, InFlight, Adjusting
    <3> QED
      BY <3>3, <3>4, <3>5
  <2>5. ASSUME NEW k \in Keys PROVE Qty(k)' + TransitIn(req', k) = 0
    <3>1. Carriers(req', k) = {}
      BY <2>4 DEF Carriers
    <3>2. TransitIn(req', k) = 0
      BY <3>1, SumEmpty DEF TransitIn, CarriedBy
    <3>3. Qty(k)' = 0
      BY <2>2 DEF Qty, RowQty
    <3> QED
      BY <3>2, <3>3
  <2>6. Seen' = [k \in Keys |-> Qty(k)' + TransitIn(req', k)]
    BY <1>0, <2>1, SeenStep
  <2>7. Seen' = [k \in Keys |-> 0]
    BY <2>5, <2>6
  <2> QED
    BY <2>2, <2>7 DEF Atomic!Reset, Atomic!Keys, Keys
<1>8. ASSUME NEW r \in Requests, Fail(r)
      PROVE  FALSE
  BY <1>0, <1>8 DEF Fail
<1>9. CASE Crash
  <2>1. Cardinality(InFlight) \in Nat /\ Cardinality(InFlight) # 0
    BY <1>9, ResettersFinite, FS_EmptySet DEF Crash
  <2> QED
    BY <1>0, <1>9, <2>1 DEF Crash
<1>10. CASE UNCHANGED vars
  <2>1. Seen' = Seen
    <3>1. \A k \in Keys : Qty(k)' = Qty(k) /\ InTransit(k)' = InTransit(k)
      BY <1>10 DEF vars, Qty, InTransit, DueIn
    <3> QED
      BY <3>1 DEF Seen
  <2> QED
    BY <1>10, <2>1 DEF vars
<1>11. ASSUME Atomic!Reset PROVE Atomic!Next
  BY <1>11 DEF Atomic!Next
<1> QED
  BY <1>1, <1>2, <1>3, <1>4, <1>5, <1>6, <1>7, <1>8, <1>9, <1>10, <1>11
     DEF Next, AdjustStep, ResetStep

\* If requests that overlap in time are for distinct rows and nothing fails,
\* the stock handlers implement the ledger whose operations are atomic: a
\* transfer or a conversion, two adjustStock calls of several statements each,
\* is seen as one step.
THEOREM LedgerIsAtomic ==
    ASSUME Overlap # "any", MaxFaults = 0
    PROVE  Spec => RefinesAtomicLedger
<1>1. Spec => [](TypeInv /\ LegsInv /\ ConservationInv)
  <2>1. Init => TypeInv /\ LegsInv /\ ConservationInv
    BY TypeInvInit, LegsInit, ConservationInit
  <2>2. TypeInv /\ LegsInv /\ ConservationInv /\ [Next]_vars
            => (TypeInv /\ LegsInv /\ ConservationInv)'
    BY TypeInvStep, LegsStep, ConservationStep DEF TypeInv
  <2> QED
    BY <2>1, <2>2, PTL DEF Spec
<1>2. Init => Atomic!Init
  BY RefinementInit
<1>3. TypeInv /\ LegsInv /\ ConservationInv /\ [Next]_vars
            => [Atomic!Next]_<<Seen, outside>>
  BY RefinementStep
<1> QED
  BY <1>1, <1>2, <1>3, PTL DEF Spec, RefinesAtomicLedger, Atomic!Spec
================================================================================
