---------------------------- MODULE BookingsProofs ----------------------------
(***************************************************************************)
(* Theorems about Bookings, for every set of products, combos, orders and  *)
(* requests and every bound.                                               *)
(***************************************************************************)
EXTENDS Bookings, SumTheorems

\* A request works on a line it has to do, a sync on none.
RequestOK(q) ==
    /\ q \in Request
    /\ q.at # NoLine => q.call # "sync" /\ q.at \in DOMAIN q.todo

Types ==
    /\ stock \in [Singles -> Int]
    /\ booking \in Counter
    /\ approved \in Counter
    /\ line \in [Lines -> Line]
    /\ req \in [Requests -> Request]
    /\ \A r \in Requests : RequestOK(req[r])

LEMMA ContentsType ==
    ASSUME NEW sku \in Skus, NEW p \in Singles
    PROVE  Contents(sku)[p] \in Nat
<1>1. Recipe \in [Combos -> [Singles -> Nat]]
  BY BookingConstants, Zenon DEF BookingConstants
<1> QED
  BY <1>1 DEF Contents, Skus

LEMMA UnitsType ==
    ASSUME NEW sku \in Skus, NEW n \in Nat, NEW p \in Singles
    PROVE  Units(sku, n)[p] \in Nat /\ Units(sku, n)[p] = n * Contents(sku)[p]
<1>1. Contents(sku)[p] \in Nat
  BY ContentsType
<1>2. Units(sku, n)[p] = n * Contents(sku)[p]
  BY DEF Units
<1>3. \A a, b \in Nat : a * b \in Nat
  OBVIOUS
<1> QED
  BY <1>1, <1>2, <1>3

LEMMA LineSku == ASSUME NEW l \in Lines PROVE SkuOf[l] \in Skus
<1>1. SkuOf \in [Lines -> Singles \cup Combos]
  BY BookingConstants, Zenon DEF BookingConstants
<1> QED
  BY <1>1 DEF Skus

LEMMA TodoElements ==
    ASSUME NEW t \in Todo
    PROVE  /\ DOMAIN t \subseteq Lines \cup Singles
           /\ \A x \in DOMAIN t : t[x] \in 0..MaxAmount
<1>1. PICK S \in SUBSET (Lines \cup Singles) : t \in [S -> 0..MaxAmount]
  BY DEF Todo
<1> QED
  BY <1>1

LEMMA TodoBuild ==
    ASSUME NEW S, S \subseteq Lines \cup Singles, NEW t \in [S -> 0..MaxAmount]
    PROVE  t \in Todo
  BY DEF Todo

LEMMA TodoUpdate ==
    ASSUME NEW t \in Todo, NEW x, NEW n \in 0..MaxAmount
    PROVE  [t EXCEPT ![x] = n] \in Todo
<1>1. PICK S \in SUBSET (Lines \cup Singles) : t \in [S -> 0..MaxAmount]
  BY DEF Todo
<1>2. [t EXCEPT ![x] = n] \in [S -> 0..MaxAmount]
  BY <1>1
<1> QED
  BY <1>2, TodoBuild

LEMMA TodoAt ==
    ASSUME NEW t \in Todo, NEW x \in DOMAIN t, NEW n
    PROVE  [t EXCEPT ![x] = n][x] = n
<1>1. PICK S \in SUBSET (Lines \cup Singles) : t \in [S -> 0..MaxAmount]
  BY DEF Todo
<1> QED
  BY <1>1

LEMMA TodoRestrict ==
    ASSUME NEW t \in Todo, NEW S, S \subseteq DOMAIN t
    PROVE  Restrict(t, S) \in Todo
<1>1. Restrict(t, S) \in [S -> 0..MaxAmount]
  BY TodoElements DEF Restrict
<1>2. S \subseteq Lines \cup Singles
  BY TodoElements
<1> QED
  BY <1>1, <1>2, TodoBuild

LEMMA MaxAmountType == MaxAmount \in Nat
  BY BookingConstants, Zenon DEF BookingConstants

LEMMA IdleType == RequestOK(Idle)
<1>1. [l \in {} |-> 0] \in Todo
  <2>1. {} \subseteq Lines \cup Singles /\ [l \in {} |-> 0] \in [{} -> 0..MaxAmount]
    OBVIOUS
  <2> QED
    BY <2>1, TodoBuild
<1>2. NothingRead \in [stock : [Singles -> Int], booking : Counter, approved : Counter,
                       line : [Lines -> Line]]
  BY MaxAmountType DEF NothingRead, Counter, Line, Unbooked, BookingStatus
<1> QED
  BY <1>1, <1>2 DEF Idle, Request, CallNames, RequestOK

LEMMA SnapshotType ==
    ASSUME Types
    PROVE  Snapshot \in [stock : [Singles -> Int], booking : Counter, approved : Counter,
                         line : [Lines -> Line]]
  BY DEF Types, Snapshot, Counter

\* The request that is left when a line is done.
LEMMA WithoutType ==
    ASSUME Types, NEW r \in Requests, NEW l
    PROVE  RequestOK(Without(r, l))
<1>1. CASE DOMAIN req[r].todo = {l}
  BY <1>1, IdleType DEF Without
<1>2. CASE DOMAIN req[r].todo # {l}
  <2>1. req[r] \in Request
    BY DEF Types
  <2>2. Restrict(req[r].todo, DOMAIN req[r].todo \ {l}) \in Todo
    BY <2>1, TodoRestrict DEF Request
  <2> QED
    BY <1>2, <2>1, <2>2 DEF Without, Request, RequestOK
<1> QED
  BY <1>1, <1>2

LEMMA FromZeroType == ASSUME NEW n \in Int PROVE FromZero(n) \in Nat
  BY DEF FromZero

LEMMA WrittenType ==
    ASSUME NEW sku \in Skus, NEW column \in Counter, NEW value \in Counter
    PROVE  Written(sku, column, value) \in Counter
  BY DEF Written, Counter

LEMMA KnownType ==
    ASSUME NEW sku, NEW old \in Counter, NEW current \in Counter
    PROVE  Known(sku, old, current) \in Counter
  BY DEF Known

LEMMA LineUpdateType ==
    ASSUME line \in [Lines -> Line], NEW l, NEW v \in Line
    PROVE  [line EXCEPT ![l] = v] \in [Lines -> Line]
  OBVIOUS

LEMMA RequestUpdate ==
    ASSUME Types, NEW r \in Requests, NEW q, RequestOK(q), req' = [req EXCEPT ![r] = q]
    PROVE  /\ req' \in [Requests -> Request]
           /\ \A o \in Requests : RequestOK(req'[o])
  BY DEF Types, RequestOK

\* A handler begins with tasks on lines.
LEMMA BeginTypes ==
    ASSUME Types, NEW r \in Requests, NEW todo \in Todo,
           NEW call \in CallNames \cup {"expire"}, Begin(r, call, todo)
    PROVE  Types'
<1> DEFINE q == [call |-> call, todo |-> todo, at |-> NoLine, seen |-> Snapshot]
<1>1. RequestOK(q)
  BY SnapshotType DEF Request, RequestOK
<1>2. req' = [req EXCEPT ![r] = q]
  BY DEF Begin
<1> QED
  BY <1>1, <1>2, RequestUpdate DEF Begin, Types

\* What the request works on, and the counters it starts from.
LEMMA Working ==
    ASSUME Types, NEW r \in Requests
    PROVE  /\ req[r] \in Request
           /\ req[r].todo \in Todo
           /\ req[r].seen.stock \in [Singles -> Int]
           /\ req[r].seen.booking \in Counter
           /\ req[r].seen.approved \in Counter
           /\ req[r].seen.line \in [Lines -> Line]
  BY DEF Types, Request

LEMMA BookTypes ==
    ASSUME Types, NEW r \in Requests, NEW l \in Lines, BookCounters(r, l)
    PROVE  Types'
<1> DEFINE sku == SkuOf[l]
           n == LeftToBook(r, l)
           known == Known(sku, req[r].seen.booking, booking)
           value == [p \in Singles |-> known[p] + Units(sku, n)[p]]
           q == [req[r] EXCEPT !.at = l, !.todo = [@ EXCEPT ![l] = n]]
<1>1. sku \in Skus
  BY LineSku
<1>2. n \in 0..MaxAmount
  <2>1. req[r].todo[l] \in 0..MaxAmount
    BY Working, TodoElements DEF BookCounters, Picks
  <2>2. req[r].seen.line[l] \in Line
    BY Working
  <2>3. n > 0 /\ n = Lesser(req[r].todo[l], req[r].seen.line[l].qty - req[r].seen.line[l].booked)
    BY DEF BookCounters, LeftToBook
  <2> QED
    BY <2>1, <2>2, <2>3, MaxAmountType DEF Lesser, Line
<1>3. known \in Counter
  BY Working, KnownType DEF Types
<1>4. \A p \in Singles : Units(sku, n)[p] \in Nat
  BY <1>1, <1>2, UnitsType, MaxAmountType
<1>5. value \in Counter
  BY <1>3, <1>4 DEF Counter
<1>6. booking' \in Counter
  BY <1>1, <1>5, WrittenType DEF BookCounters, Types
<1>7. RequestOK(q)
  <2>1. [req[r].todo EXCEPT ![l] = n] \in Todo
    BY <1>2, Working, TodoUpdate
  <2>2. q \in Request
    BY <2>1, Working DEF Request
  <2>3. q.call # "sync" /\ q.at = l /\ l \in DOMAIN q.todo
    BY Working DEF BookCounters, Picks, Types, RequestOK, Request
  <2> QED
    BY <2>2, <2>3 DEF RequestOK
<1>8. req' = [req EXCEPT ![r] = q]
  BY DEF BookCounters, Types
<1> QED
  BY <1>6, <1>7, <1>8, RequestUpdate DEF BookCounters, Types

\* A line that a request is at is one of its tasks.
LEMMA AtTask ==
    ASSUME Types, NEW r \in Requests, NEW l \in Lines, req[r].at = l
    PROVE  req[r].todo[l] \in 0..MaxAmount
<1>1. l # NoLine
  BY BookingConstants DEF BookingConstants
<1> QED
  BY <1>1, Working, TodoElements DEF Types, RequestOK

LEMMA LineBuild ==
    ASSUME NEW k \in Line, NEW b \in Nat, NEW s \in BookingStatus,
           NEW d \in {"none", "ahead", "passed"}
    PROVE  /\ [k EXCEPT !.booked = b, !.status = s, !.due = d] \in Line
           /\ [k EXCEPT !.status = s, !.booked = b, !.due = d] \in Line
           /\ [k EXCEPT !.status = s, !.due = d, !.booked = b] \in Line
           /\ [k EXCEPT !.status = s, !.due = d] \in Line
           /\ [k EXCEPT !.due = d] \in Line
  BY DEF Line

LEMMA BookLineTypes ==
    ASSUME Types, NEW r \in Requests, NEW l \in Lines, BookLine(r, l)
    PROVE  Types'
<1> DEFINE k == req[r].seen.line[l]
           b == k.booked + req[r].todo[l]
           v == [k EXCEPT !.booked = b, !.status = "TEMPORARY", !.due = "ahead"]
<1>1. req[r].todo[l] \in Nat
  BY AtTask, MaxAmountType DEF BookLine
<1>2. k \in Line
  BY Working
<1>3. b \in Nat
  <2>1. k.booked \in Nat
    BY <1>2 DEF Line
  <2> QED
    BY <1>1, <2>1
<1>4. v \in Line
  <2> HIDE DEF k, b
  <2> QED
    BY <1>2, <1>3, LineBuild DEF BookingStatus
<1>5. line' = [line EXCEPT ![l] = v]
  BY DEF BookLine
<1>6. line' \in [Lines -> Line]
  <2> HIDE DEF v
  <2> QED
    BY <1>4, <1>5, LineUpdateType DEF Types
<1> QED
  BY <1>6, WithoutType, RequestUpdate DEF BookLine, Types

LEMMA ConfirmTypes ==
    ASSUME Types, NEW r \in Requests, NEW l \in Lines, ConfirmCounters(r, l)
    PROVE  Types'
<1>1. PICK n \in 0..req[r].seen.line[l].qty :
        /\ approved' = Written(SkuOf[l], approved, ApprovedWith(r, l, n))
        /\ req' = [req EXCEPT
                      ![r].at = l,
                      ![r].todo[l] = n,
                      ![r].seen.stock = [p \in Singles |-> @[p] - Units(SkuOf[l], n)[p]]]
  BY DEF ConfirmCounters
<1> DEFINE left == [p \in Singles |-> req[r].seen.stock[p] - Units(SkuOf[l], n)[p]]
           q == [req[r] EXCEPT !.at = l, !.todo = [@ EXCEPT ![l] = n],
                               !.seen = [@ EXCEPT !.stock = left]]
<1>2. SkuOf[l] \in Skus
  BY LineSku
<1>3. n \in 0..MaxAmount /\ n \in Nat
  <2>1. req[r].seen.line[l].qty \in 0..MaxAmount
    BY Working DEF Line
  <2> QED
    BY <2>1, MaxAmountType
<1>4. \A p \in Singles : Units(SkuOf[l], n)[p] \in Nat
  BY <1>2, <1>3, UnitsType
<1>5. ApprovedWith(r, l, n) \in Counter
  <2>1. Known(SkuOf[l], req[r].seen.approved, approved) \in Counter
    BY Working, KnownType DEF Types
  <2> QED
    BY <2>1, <1>4 DEF ApprovedWith, Counter
<1>6. approved' \in Counter
  BY <1>1, <1>2, <1>5, WrittenType DEF Types
<1>7. left \in [Singles -> Int]
  BY <1>4, Working
<1>8. RequestOK(q)
  <2>1. [req[r].todo EXCEPT ![l] = n] \in Todo
    BY <1>3, Working, TodoUpdate
  <2>2. q \in Request
    <3> HIDE DEF left
    <3> QED
      BY <1>7, <2>1, Working DEF Request
  <2>3. q.call # "sync" /\ q.at = l /\ l \in DOMAIN q.todo
    BY Working DEF ConfirmCounters, Picks, Types, RequestOK, Request
  <2> QED
    BY <2>2, <2>3 DEF RequestOK
<1>9. req' = [req EXCEPT ![r] = q]
  BY <1>1 DEF Types
<1> QED
  BY <1>6, <1>8, <1>9, RequestUpdate DEF ConfirmCounters, Types

LEMMA ConfirmLineTypes ==
    ASSUME Types, NEW r \in Requests, NEW l \in Lines, ConfirmLine(r, l)
    PROVE  Types'
<1> DEFINE n == req[r].todo[l]
           v == [line[l] EXCEPT !.status = "CONFIRMED", !.due = "none", !.booked = n]
<1>1. n \in Nat
  BY AtTask, MaxAmountType DEF ConfirmLine
<1>2. v \in Line
  <2> HIDE DEF n
  <2> QED
    BY <1>1, LineBuild DEF Types, BookingStatus
<1>3. line' = [line EXCEPT ![l] = v]
  BY DEF ConfirmLine, Types
<1>4. line' \in [Lines -> Line]
  <2> HIDE DEF v
  <2> QED
    BY <1>2, <1>3, LineUpdateType DEF Types
<1> QED
  BY <1>4, WithoutType, RequestUpdate DEF ConfirmLine, Types

\* The job and the revert take what was booked off a counter, floored.
LEMMA FreedType ==
    ASSUME Types, NEW r \in Requests, NEW l \in Lines,
           NEW column \in Counter, NEW known \in Counter
    PROVE  Written(SkuOf[l], column,
               [p \in Singles |->
                   FromZero(known[p] - Units(SkuOf[l], req[r].seen.line[l].booked)[p])])
               \in Counter
<1>1. SkuOf[l] \in Skus
  BY LineSku
<1>2. req[r].seen.line[l].booked \in Nat
  BY Working DEF Line
<1>3. \A p \in Singles : Units(SkuOf[l], req[r].seen.line[l].booked)[p] \in Nat
  BY <1>1, <1>2, UnitsType
<1>4. \A p \in Singles :
        FromZero(known[p] - Units(SkuOf[l], req[r].seen.line[l].booked)[p]) \in Nat
  <2> SUFFICES ASSUME NEW p \in Singles
               PROVE  FromZero(known[p] - Units(SkuOf[l], req[r].seen.line[l].booked)[p])
                          \in Nat
    OBVIOUS
  <2>1. known[p] \in Nat
    BY DEF Counter
  <2> QED
    BY <1>3, <2>1, FromZeroType
<1> QED
  BY <1>1, <1>4, WrittenType DEF Counter

\* The request moves to a line that it has to do.
LEMMA MoveTypes ==
    ASSUME Types, NEW r \in Requests, NEW l \in DOMAIN req[r].todo, l \in Lines,
           req[r].call # "sync", req' = [req EXCEPT ![r].at = l]
    PROVE  /\ req' \in [Requests -> Request]
           /\ \A o \in Requests : RequestOK(req'[o])
<1> DEFINE q == [req[r] EXCEPT !.at = l]
<1>1. RequestOK(q)
  BY DEF Types, RequestOK, Request
<1>2. req' = [req EXCEPT ![r] = q]
  BY DEF Types
<1> QED
  BY <1>1, <1>2, RequestUpdate

LEMMA FreeTypes ==
    ASSUME Types, NEW r \in Requests, NEW l \in Lines,
           ExpireCounters(r, l) \/ RevertCounters(r, l)
    PROVE  Types'
<1>1. CASE ExpireCounters(r, l)
  <2>1. Known(SkuOf[l], req[r].seen.booking, booking) \in Counter
    BY Working, KnownType DEF Types
  <2>2. booking' \in Counter
    BY <1>1, <2>1, FreedType DEF ExpireCounters, Types
  <2> QED
    BY <1>1, <2>2, MoveTypes DEF ExpireCounters, Picks, Types
<1>2. CASE RevertCounters(r, l)
  <2>1. Known(SkuOf[l], req[r].seen.approved, approved) \in Counter
    BY Working, KnownType DEF Types
  <2>2. /\ approved' = Written(SkuOf[l], approved,
                 [p \in Singles |->
                     FromZero(Known(SkuOf[l], req[r].seen.approved, approved)[p]
                              - Units(SkuOf[l], req[r].seen.line[l].booked)[p])])
        /\ approved \in Counter
    BY <1>2, Zenon DEF RevertCounters, Types
  <2>3. approved' \in Counter
    BY <2>1, <2>2, FreedType
  <2> QED
    BY <1>2, <2>3, MoveTypes DEF RevertCounters, Picks, Types
<1> QED
  BY <1>1, <1>2

LEMMA FreeLineTypes ==
    ASSUME Types, NEW r \in Requests, NEW l \in Lines,
           ExpireLine(r, l) \/ RevertLine(r, l)
    PROVE  Types'
<1> DEFINE k == req[r].seen.line[l]
<1>1. k \in Line
  BY Working
<1>2. CASE ExpireLine(r, l)
  <2> DEFINE v == [k EXCEPT !.status = "EXPIRED", !.booked = 0, !.due = "none"]
  <2>1. v \in Line
    BY <1>1, LineBuild DEF BookingStatus
  <2>2. line' = [line EXCEPT ![l] = v]
    BY <1>2 DEF ExpireLine
  <2>3. line' \in [Lines -> Line]
    BY <2>1, <2>2, LineUpdateType DEF Types
  <2> QED
    BY <1>2, <2>3, WithoutType, RequestUpdate DEF ExpireLine, Types
<1>3. CASE RevertLine(r, l)
  <2> DEFINE v == [k EXCEPT !.status = "TEMPORARY", !.due = "ahead"]
  <2>1. v \in Line
    BY <1>1, LineBuild DEF BookingStatus
  <2>2. line' = [line EXCEPT ![l] = v]
    BY <1>3 DEF RevertLine
  <2>3. line' \in [Lines -> Line]
    BY <2>1, <2>2, LineUpdateType DEF Types
  <2> QED
    BY <1>3, <2>3, WithoutType, RequestUpdate DEF RevertLine, Types
<1> QED
  BY <1>2, <1>3

LEMMA IssueTypes ==
    ASSUME Types, NEW o, ConfirmGoodsIssue(o)
    PROVE  Types'
<1> DEFINE v(l) == IF OrderOf[l] \in {o} /\ line[l].status = "TEMPORARY"
                   THEN [line[l] EXCEPT !.status = "CONFIRMED", !.due = "none"]
                   ELSE line[l]
<1>1. \A l \in Lines : v(l) \in Line
  BY LineBuild DEF Types, BookingStatus
<1>2. line' = [l \in Lines |-> v(l)]
  BY DEF ConfirmGoodsIssue, ApprovedInBulk
<1>3. line' \in [Lines -> Line]
  <2> HIDE DEF v
  <2> QED
    BY <1>1, <1>2
<1> QED
  BY <1>3 DEF ConfirmGoodsIssue, Types

LEMMA EditTypes ==
    ASSUME Types, NEW o, EditOrder(o)
    PROVE  Types'
<1>1. PICK qty \in [LinesOf(o) -> Amounts], last \in [Skus -> Lines] :
        line' = [l \in Lines |->
                IF l \notin LinesOf(o) THEN line[l]
                ELSE IF Carried(o, SkuOf[l]) = {} THEN Unbooked(qty[l])
                ELSE [line[last[SkuOf[l]]] EXCEPT !.qty = qty[l]]]
  BY DEF EditOrder
<1>2. \A k \in Line, n \in Amounts : Unbooked(n) \in Line /\ [k EXCEPT !.qty = n] \in Line
  BY MaxAmountType DEF Line, Unbooked, Amounts, BookingStatus
<1>3. ASSUME NEW l \in Lines
      PROVE  line'[l] \in Line
  <2>1. CASE l \notin LinesOf(o)
    BY <1>1, <2>1 DEF Types
  <2>2. CASE l \in LinesOf(o)
    <3>1. qty[l] \in Amounts
      BY <2>2
    <3>2. last[SkuOf[l]] \in Lines
      BY LineSku
    <3>3. line[last[SkuOf[l]]] \in Line
      BY <3>2 DEF Types
    <3>4. \/ line'[l] = Unbooked(qty[l])
          \/ line'[l] = [line[last[SkuOf[l]]] EXCEPT !.qty = qty[l]]
      BY <1>1, <2>2
    <3> QED
      BY <1>2, <3>1, <3>3, <3>4
  <2> QED
    BY <2>1, <2>2
<1>4. line' \in [Lines -> Line]
  <2>1. line' = [l \in Lines |-> line'[l]]
    BY <1>1
  <2> QED
    BY <1>3, <2>1
<1> QED
  BY <1>4 DEF EditOrder, Types

LEMMA InitTypes == Init => Types
<1> SUFFICES ASSUME Init PROVE Types
  OBVIOUS
<1>1. \A q \in Amounts : Unbooked(q) \in Line
  BY MaxAmountType DEF Line, Unbooked, Amounts, BookingStatus
<1>2. line \in [Lines -> Line]
  BY <1>1 DEF Init
<1>3. Opening \in [Singles -> Nat]
  BY BookingConstants, Zenon DEF BookingConstants
<1>4. RequestOK(Idle)
  BY IdleType
<1> QED
  BY <1>2, <1>3, <1>4 DEF Init, Types, Counter, RequestOK

LEMMA BeginBookTypes ==
    ASSUME Types, NEW r \in Requests, BeginBook(r)
    PROVE  Types'
<1>1. PICK o \in Orders :
        \E wanted \in (UNION {[S -> Amounts] : S \in SUBSET LinesOf(o)})
                        \cup {[l \in {m \in LinesOf(o) : NotBooked(m) > 0} |-> NotBooked(l)]} :
            Begin(r, "book", wanted)
  BY DEF BeginBook
<1>2. PICK wanted \in (UNION {[S -> Amounts] : S \in SUBSET LinesOf(o)})
                        \cup {[l \in {m \in LinesOf(o) : NotBooked(m) > 0} |-> NotBooked(l)]} :
            Begin(r, "book", wanted)
  BY <1>1
<1>3. LinesOf(o) \subseteq Lines /\ Amounts \subseteq 0..MaxAmount
  BY MaxAmountType DEF LinesOf, Amounts
<1>4. wanted \in Todo
  <2>1. CASE wanted \in UNION {[S -> Amounts] : S \in SUBSET LinesOf(o)}
    <3>1. PICK S \in SUBSET LinesOf(o) : wanted \in [S -> Amounts]
      BY <2>1
    <3>2. S \subseteq Lines \cup Singles /\ wanted \in [S -> 0..MaxAmount]
      BY <1>3, <3>1
    <3> QED
      BY <3>2, TodoBuild
  <2>2. CASE wanted = [l \in {m \in LinesOf(o) : NotBooked(m) > 0} |-> NotBooked(l)]
    <3> DEFINE S == {m \in LinesOf(o) : NotBooked(m) > 0}
    <3>1. ASSUME NEW l \in S PROVE NotBooked(l) \in 0..MaxAmount
      <4>1. line[l] \in Line
        BY <1>3 DEF Types
      <4>2. line[l].qty \in 0..MaxAmount /\ line[l].booked \in Nat
        BY <4>1 DEF Line
      <4> QED
        BY <4>2, MaxAmountType DEF NotBooked, FromZero
    <3>2. S \subseteq Lines \cup Singles
      BY <1>3
    <3>3. wanted \in [S -> 0..MaxAmount]
      <4> HIDE DEF S
      <4>1. wanted = [l \in S |-> NotBooked(l)]
        BY <2>2 DEF S
      <4> QED
        BY <3>1, <4>1
    <3> HIDE DEF S
    <3> QED
      BY <3>2, <3>3, TodoBuild
  <2> QED
    BY <1>2, <2>1, <2>2, Zenon
<1> QED
  BY <1>2, <1>4, BeginTypes DEF CallNames

\* Tasks without a quantity.
LEMMA ZeroTodo ==
    ASSUME NEW S, S \subseteq Lines
    PROVE  [l \in S |-> 0] \in Todo
<1>1. [l \in S |-> 0] \in [S -> 0..MaxAmount]
  BY MaxAmountType
<1>2. S \subseteq Lines \cup Singles
  OBVIOUS
<1> QED
  BY <1>1, <1>2, TodoBuild

LEMMA ConfirmBeginTypes ==
    ASSUME Types, NEW r \in Requests, BeginConfirm(r)
    PROVE  Types'
<1>1. PICK o \in Orders :
        \E chosen \in SUBSET {m \in LinesOf(o) : line[m].status = "TEMPORARY"} :
            Begin(r, "confirm", [m \in chosen |-> 0])
  BY DEF BeginConfirm
<1>2. PICK chosen \in SUBSET {m \in LinesOf(o) : line[m].status = "TEMPORARY"} :
            Begin(r, "confirm", [m \in chosen |-> 0])
  BY <1>1
<1>3. chosen \subseteq Lines
  BY DEF LinesOf
<1>4. [m \in chosen |-> 0] \in Todo
  BY <1>3, ZeroTodo
<1> QED
  BY <1>2, <1>4, BeginTypes DEF CallNames

LEMMA ExpireBeginTypes == ASSUME Types, BeginExpire PROVE Types'
<1>1. [m \in Overdue |-> 0] \in Todo
  BY ZeroTodo DEF Overdue
<1>2. CronSlot \in Requests
  BY BookingConstants, Zenon DEF BookingConstants
<1> QED
  BY <1>1, <1>2, BeginTypes DEF BeginExpire

LEMMA RevertBeginTypes ==
    ASSUME Types, NEW r \in Requests, NEW l \in Lines, BeginRevert(r, l)
    PROVE  Types'
<1>1. [m \in {l} |-> 0] \in Todo
  BY ZeroTodo
<1> QED
  BY <1>1, BeginTypes DEF BeginRevert, CallNames

LEMMA SupplyTypes == ASSUME Types, NEW p \in Singles, Supply(p) PROVE Types'
<1>1. stock' \in [Singles -> Int]
  BY DEF Supply, Types
<1> QED
  BY <1>1 DEF Supply, Types

LEMMA DeadlineTypes == ASSUME Types, NEW l \in Lines, DeadlinePasses(l) PROVE Types'
<1> DEFINE v == [line[l] EXCEPT !.due = "passed"]
<1>1. v \in Line
  <2>1. line[l] \in Line
    BY DEF Types
  <2> QED
    BY <2>1 DEF Line
<1>2. line' = [line EXCEPT ![l] = v]
  BY DEF DeadlinePasses, Types
<1>3. line' \in [Lines -> Line]
  BY <1>1, <1>2, LineUpdateType DEF Types
<1> QED
  BY <1>3 DEF DeadlinePasses, Types

\* Statistics are sums of natural numbers over the lines and the products.
LEMMA SetsFinite ==
    /\ IsFiniteSet(Lines) /\ IsFiniteSet(Singles) /\ IsFiniteSet(Skus)
    /\ \A S \in SUBSET Lines : IsFiniteSet(S)
<1>1. IsFiniteSet(Lines) /\ IsFiniteSet(Singles) /\ IsFiniteSet(Combos)
  BY BookingConstants, Zenon DEF BookingConstants
<1>2. IsFiniteSet(Skus)
  BY <1>1, FS_Union DEF Skus
<1> QED
  BY <1>1, <1>2, FS_Subset

LEMMA StatisticsType == ASSUME Types, NEW status PROVE Statistics(status) \in Counter
<1>1. ASSUME NEW sku
      PROVE  BookedTotal(sku, status) \in Nat
  <2> DEFINE f == [l \in Lines |-> line[l].booked]
             S == {l \in Lines : SkuOf[l] = sku /\ line[l].status = status}
  <2>1. IsFiniteSet(S) /\ \A l \in S : f[l] \in Nat
    BY SetsFinite DEF Types, Line
  <2> HIDE DEF f, S
  <2>2. SumFunctionOnSet(f, S) \in Nat
    BY <2>1, SumNat
  <2> QED
    BY <2>2 DEF BookedTotal, f, S
<1>2. ASSUME NEW p \in Singles
      PROVE  SumFunctionOnSet([sku \in Skus |-> Units(sku, BookedTotal(sku, status))[p]], Skus)
                 \in Nat
  <2> DEFINE f == [sku \in Skus |-> Units(sku, BookedTotal(sku, status))[p]]
  <2>1. \A sku \in Skus : f[sku] \in Nat
    BY <1>1, UnitsType
  <2> HIDE DEF f
  <2>2. SumFunctionOnSet(f, Skus) \in Nat
    BY <2>1, SetsFinite, SumNat
  <2> QED
    BY <2>2 DEF f
<1> QED
  BY <1>2 DEF Statistics, Counter

LEMMA SyncTypes ==
    ASSUME Types, NEW r \in Requests,
           \/ BeginSync(r) \/ SyncLines(r)
           \/ \E p \in Singles : SyncProduct(r, p)
    PROVE  Types'
<1>1. CASE BeginSync(r)
  <2> DEFINE seen == [Snapshot EXCEPT !.booking = Statistics("TEMPORARY"),
                                      !.approved = Statistics("CONFIRMED")]
             q == [call |-> "sync", todo |-> [p \in Singles |-> 0], at |-> NoLine, seen |-> seen]
  <2>1. seen \in [stock : [Singles -> Int], booking : Counter, approved : Counter,
                  line : [Lines -> Line]]
    BY SnapshotType, StatisticsType
  <2>2. [p \in Singles |-> 0] \in Todo
    <3>1. [p \in Singles |-> 0] \in [Singles -> 0..MaxAmount]
      BY MaxAmountType
    <3>2. Singles \subseteq Lines \cup Singles
      OBVIOUS
    <3> QED
      BY <3>1, <3>2, TodoBuild
  <2>3. req' = [req EXCEPT ![r] = q]
    BY <1>1 DEF BeginSync
  <2> HIDE DEF seen
  <2>4. RequestOK(q)
    BY <2>1, <2>2 DEF Request, RequestOK, CallNames
  <2> HIDE DEF q
  <2> QED
    BY <1>1, <2>3, <2>4, RequestUpdate DEF BeginSync, Types
<1>2. ASSUME SyncLines(r) PROVE Types'
  <2> DEFINE v(l) == IF OrderOf[l] \in issued /\ line[l].status = "TEMPORARY"
                     THEN [line[l] EXCEPT !.status = "CONFIRMED", !.due = line[l].due]
                     ELSE line[l]
  <2>1. \A l \in Lines : line[l] \in Line /\ line[l].due \in {"none", "ahead", "passed"}
    BY DEF Types, Line
  <2>2. \A l \in Lines : v(l) \in Line
    BY <2>1, LineBuild DEF BookingStatus
  <2>3. line' = [l \in Lines |-> v(l)]
    BY <1>2 DEF SyncLines, ApprovedInBulk
  <2>4. line' \in [Lines -> Line]
    <3> HIDE DEF v
    <3> QED
      BY <2>2, <2>3
  <2> QED
    BY <1>2, <2>4, IdleType, RequestUpdate DEF SyncLines, Types
<1>3. ASSUME NEW p \in Singles, SyncProduct(r, p) PROVE Types'
  <2> DEFINE q == [req[r] EXCEPT !.todo = Restrict(@, DOMAIN @ \ {p})]
  <2>1. req[r] \in Request /\ req[r].call = "sync" /\ req[r].at = NoLine
    BY <1>3 DEF SyncProduct, Types, RequestOK
  <2>2. Restrict(req[r].todo, DOMAIN req[r].todo \ {p}) \in Todo
    BY <2>1, TodoRestrict DEF Request
  <2>3. RequestOK(q)
    BY <2>1, <2>2 DEF Request, RequestOK
  <2>4. req' = [req EXCEPT ![r] = q]
    BY <1>3, <2>1 DEF SyncProduct, Types
  <2>5. booking' \in Counter /\ approved' \in Counter
    BY <1>3, Working DEF SyncProduct, Types, Counter
  <2> QED
    BY <1>3, <2>3, <2>4, <2>5, RequestUpdate DEF SyncProduct, Types
<1> QED
  BY <1>1, <1>2, <1>3

LEMMA StepTypes == ASSUME Types, [Next]_vars PROVE Types'
<1>1. CASE UNCHANGED vars
  BY <1>1 DEF vars, Types
<1>2. CASE Revert
  BY <1>2, RevertBeginTypes DEF Revert
<1>3. CASE NextButRevert
  <2>1. ASSUME NEW r \in Requests, StepOf(r)
        PROVE  Types'
    <3>1. ASSUME NEW l \in Lines,
                 \/ SkipBook(r, l) \/ BookCounters(r, l) \/ BookLine(r, l)
                 \/ ConfirmCounters(r, l) \/ ConfirmLine(r, l)
                 \/ ExpireCounters(r, l) \/ ExpireLine(r, l)
                 \/ RevertCounters(r, l) \/ RevertLine(r, l)
          PROVE  Types'
      <4>1. CASE SkipBook(r, l)
        BY <4>1, WithoutType, RequestUpdate DEF SkipBook, Types
      <4> QED
        BY <3>1, <4>1, BookTypes, BookLineTypes, ConfirmTypes, ConfirmLineTypes,
           FreeTypes, FreeLineTypes
    <3> QED
      BY <2>1, <3>1, SyncTypes DEF StepOf
  <2>2. ASSUME NEW r \in Requests, BeginSync(r)
        PROVE  Types'
    BY <2>2, SyncTypes
  <2>3. ASSUME NEW r \in Requests, BeginConfirm(r)
        PROVE  Types'
    BY <2>3, ConfirmBeginTypes
  <2>4. ASSUME NEW r \in Requests, Fail(r)
        PROVE  Types'
    BY <2>4, IdleType, RequestUpdate DEF Fail, Types
  <2> QED
    BY <1>3, <2>1, <2>2, <2>3, <2>4, BeginBookTypes, ExpireBeginTypes, IssueTypes,
       EditTypes, SupplyTypes, DeadlineTypes DEF NextButRevert
<1> QED
  BY <1>1, <1>2, <1>3 DEF Next

\* The stock, which only grows here, the bounds on what users do, and the orders
\* whose materials are out.
Bounded ==
    /\ stock \in Counter
    /\ issued \subseteq Orders
    /\ calls \in 0..MaxCalls
    /\ supplied \in 0..MaxSupply
    /\ faults \in 0..MaxFaults

LEMMA OpeningType == Opening \in Counter
  BY BookingConstants, Zenon DEF BookingConstants, Counter

LEMMA StepBounded == ASSUME Bounded, [Next]_vars PROVE Bounded'
<1>1. MaxCalls \in Nat /\ MaxSupply \in Nat /\ MaxFaults \in Nat
  BY BookingConstants, Zenon DEF BookingConstants
<1>2. \A n \in 0..MaxCalls : n < MaxCalls => n + 1 \in 0..MaxCalls
  BY <1>1
<1>3. /\ \A n \in 0..MaxSupply : n < MaxSupply => n + 1 \in 0..MaxSupply
      /\ \A n \in 0..MaxFaults : n < MaxFaults => n + 1 \in 0..MaxFaults
  BY <1>1
<1>4. CASE UNCHANGED vars
  BY <1>4 DEF vars, Bounded
<1>5. CASE Revert
  BY <1>2, <1>5 DEF Revert, BeginRevert, UserCall, Begin, Bounded
<1>6. CASE NextButRevert
  <2>1. ASSUME NEW r \in Requests, BeginBook(r) \/ BeginConfirm(r) \/ BeginSync(r)
        PROVE  Bounded'
    BY <1>2, <2>1 DEF BeginBook, BeginConfirm, BeginSync, UserCall, Begin, Bounded
  <2>2. ASSUME NEW r \in Requests, StepOf(r)
        PROVE  Bounded'
    <3>1. UNCHANGED <<stock, issued, calls, supplied, faults>>
      BY <2>2 DEF StepOf, SkipBook, BookCounters, BookLine, ConfirmCounters, ConfirmLine,
         ExpireCounters, ExpireLine, RevertCounters, RevertLine, SyncProduct, SyncLines
    <3> QED
      BY <3>1 DEF Bounded
  <2>3. ASSUME NEW r \in Requests, Fail(r)
        PROVE  Bounded'
    BY <1>3, <2>3 DEF Fail, Bounded
  <2>4. CASE BeginExpire
    BY <2>4 DEF BeginExpire, Begin, Bounded
  <2>5. ASSUME NEW o \in Orders, ConfirmGoodsIssue(o) \/ EditOrder(o)
        PROVE  Bounded'
    BY <1>2, <2>5 DEF ConfirmGoodsIssue, EditOrder, UserCall, Bounded
  <2>6. ASSUME NEW p \in Singles, Supply(p)
        PROVE  Bounded'
    <3>1. stock' \in Counter
      BY <2>6 DEF Supply, Bounded, Counter
    <3> QED
      BY <1>3, <2>6, <3>1 DEF Supply, Bounded
  <2>7. ASSUME NEW l \in Lines, DeadlinePasses(l)
        PROVE  Bounded'
    BY <2>7 DEF DeadlinePasses, Bounded
  <2> QED
    BY <1>6, <2>1, <2>2, <2>3, <2>4, <2>5, <2>6, <2>7 DEF NextButRevert
<1> QED
  BY <1>4, <1>5, <1>6 DEF Next

\* However requests, the job, syncs and faults interleave, counters stay
\* natural numbers and lines and requests keep their fields.
THEOREM BookingsTyped == Spec => []TypeOK
<1>1. Init => Types /\ Bounded
  <2>1. MaxCalls \in Nat /\ MaxSupply \in Nat /\ MaxFaults \in Nat
    BY BookingConstants, Zenon DEF BookingConstants
  <2> QED
    BY <2>1, InitTypes, OpeningType DEF Init, Bounded
<1>2. Types /\ Bounded /\ [Next]_vars => (Types /\ Bounded)'
  BY StepTypes, StepBounded
<1>3. Types /\ Bounded => TypeOK
  BY DEF Types, Bounded, TypeOK
<1> QED
  BY <1>1, <1>2, <1>3, PTL DEF Spec

--------------------------------------------------------------------------------
\* syncBookingStock sets the counters from sums over the lines, whatever the
\* stock is; and nothing keeps those within the stock.
NoSync == "sync" \notin Calls

NoSyncInFlight == \A r \in Requests : req[r].call # "sync"

\* A request that is done with a line is one of its kind or none.
LEMMA RestCall ==
    ASSUME Types, NEW r \in Requests, NEW l
    PROVE  Without(r, l).call \in {req[r].call, "idle"}
<1>1. req[r] \in Request
  BY DEF Types
<1> QED
  BY <1>1 DEF Without, Idle, Request

LEMMA NoSyncTurn ==
    ASSUME Types, NoSyncInFlight, NEW r \in Requests, NEW q, req' = [req EXCEPT ![r] = q],
           q.call # "sync"
    PROVE  NoSyncInFlight'
  BY DEF Types, NoSyncInFlight

LEMMA NoSyncStep == ASSUME NoSync, Types, NoSyncInFlight, [Next]_vars PROVE NoSyncInFlight'
<1>1. ASSUME req' = req PROVE NoSyncInFlight'
  BY <1>1 DEF NoSyncInFlight
<1>2. CASE UNCHANGED vars
  BY <1>1, <1>2 DEF vars
<1>3. ASSUME NEW r \in Requests, NEW call, call # "sync", NEW todo, Begin(r, call, todo)
      PROVE  NoSyncInFlight'
  <2> DEFINE q == [call |-> call, todo |-> todo, at |-> NoLine, seen |-> Snapshot]
  <2>1. req' = [req EXCEPT ![r] = q] /\ q.call # "sync"
    BY <1>3 DEF Begin
  <2> HIDE DEF q
  <2> QED
    BY <2>1, NoSyncTurn
<1>4. CASE Revert
  BY <1>3, <1>4 DEF Revert, BeginRevert
<1>5. CASE NextButRevert
  <2>1. ASSUME NEW r \in Requests, Fail(r)
        PROVE  NoSyncInFlight'
    <3>1. Idle.call # "sync" /\ req' = [req EXCEPT ![r] = Idle]
      BY <2>1 DEF Fail, Idle
    <3> QED
      BY <3>1, NoSyncTurn
  <2>2. ASSUME NEW r \in Requests, BeginSync(r)
        PROVE  FALSE
    BY <2>2 DEF BeginSync, UserCall, NoSync
  <2>3. ASSUME NEW r \in Requests, BeginBook(r) \/ BeginConfirm(r)
        PROVE  NoSyncInFlight'
    BY <1>3, <2>3 DEF BeginBook, BeginConfirm
  <2>4. CASE BeginExpire
    <3>1. CronSlot \in Requests
      BY BookingConstants, Zenon DEF BookingConstants
    <3> QED
      BY <1>3, <2>4, <3>1 DEF BeginExpire
  <2>5. ASSUME NEW r \in Requests, StepOf(r)
        PROVE  NoSyncInFlight'
    <3>1. ~SyncLines(r) /\ \A p \in Singles : ~SyncProduct(r, p)
      BY DEF NoSyncInFlight, SyncLines, SyncProduct
    <3>2. PICK l \in Lines :
            \/ SkipBook(r, l) \/ BookCounters(r, l) \/ BookLine(r, l)
            \/ ConfirmCounters(r, l) \/ ConfirmLine(r, l)
            \/ ExpireCounters(r, l) \/ ExpireLine(r, l)
            \/ RevertCounters(r, l) \/ RevertLine(r, l)
      BY <2>5, <3>1 DEF StepOf
    <3>3. req[r] \in Request /\ req[r].call # "sync"
      BY DEF Types, NoSyncInFlight
    <3>4. CASE req' = [req EXCEPT ![r] = Without(r, l)]
      BY <3>3, <3>4, RestCall, NoSyncTurn
    <3>5. CASE BookCounters(r, l)
      <4> DEFINE q == [req[r] EXCEPT !.at = l, !.todo = [@ EXCEPT ![l] = LeftToBook(r, l)]]
      <4>1. req' = [req EXCEPT ![r] = q] /\ q.call # "sync"
        BY <3>3, <3>5 DEF BookCounters, Types, Request
      <4> HIDE DEF q
      <4> QED
        BY <4>1, NoSyncTurn
    <3>6. CASE ConfirmCounters(r, l)
      <4>1. PICK n \in 0..req[r].seen.line[l].qty :
              req' = [req EXCEPT
                      ![r].at = l,
                      ![r].todo[l] = n,
                      ![r].seen.stock = [p \in Singles |-> @[p] - Units(SkuOf[l], n)[p]]]
        BY <3>6 DEF ConfirmCounters
      <4> DEFINE left == [p \in Singles |-> req[r].seen.stock[p] - Units(SkuOf[l], n)[p]]
      <4> DEFINE q == [req[r] EXCEPT !.at = l, !.todo = [@ EXCEPT ![l] = n],
                                     !.seen = [@ EXCEPT !.stock = left]]
      <4>2. req' = [req EXCEPT ![r] = q]
        BY <4>1 DEF Types
      <4>3. q.call # "sync"
        <5> HIDE DEF left
        <5> QED
          BY <3>3 DEF Request
      <4> HIDE DEF q
      <4> QED
        BY <4>2, <4>3, NoSyncTurn
    <3>7. CASE req' = [req EXCEPT ![r].at = l]
      <4> DEFINE q == [req[r] EXCEPT !.at = l]
      <4>1. req' = [req EXCEPT ![r] = q] /\ q.call # "sync"
        BY <3>3, <3>7 DEF Types, Request
      <4> HIDE DEF q
      <4> QED
        BY <4>1, NoSyncTurn
    <3> QED
      BY <3>2, <3>4, <3>5, <3>6, <3>7
      DEF SkipBook, BookLine, ConfirmLine, ExpireCounters, ExpireLine, RevertCounters, RevertLine
  <2> QED
    BY <1>1, <1>5, <2>1, <2>2, <2>3, <2>4, <2>5
    DEF NextButRevert, ConfirmGoodsIssue, EditOrder, Supply, DeadlinePasses
<1> QED
  BY <1>2, <1>4, <1>5 DEF Next

--------------------------------------------------------------------------------
\* What a request remembers of stock and approvals stays within the stock of
\* now: stock only grows here, and a counter it has read was within it.
Remembered(q, p) == q.seen.stock[p] <= stock[p] /\ q.seen.approved[p] <= stock[p]

ApprovalInv ==
    /\ \A p \in Singles : approved[p] <= stock[p]
    /\ \A r \in Requests, p \in Singles : Remembered(req[r], p)

\* What a request must show for the invariant to survive its step.
LEMMA ApprovalStep ==
    ASSUME Types, ApprovalInv, stock' = stock,
           \A p \in Singles : approved'[p] <= stock[p],
           NEW r \in Requests, NEW q, req' = [req EXCEPT ![r] = q],
           \A p \in Singles : Remembered(q, p)
    PROVE  ApprovalInv'
  BY DEF Types, ApprovalInv, Remembered

LEMMA IdleRemembers ==
    ASSUME NEW p \in Singles, stock[p] >= 0
    PROVE  Remembered(Idle, p)
  BY DEF Idle, NothingRead, Remembered

LEMMA StockNatural ==
    ASSUME Types, ApprovalInv, NEW p \in Singles
    PROVE  stock[p] \in Nat /\ stock[p] >= 0
<1>1. stock[p] \in Int /\ approved[p] \in Nat /\ approved[p] <= stock[p]
  BY DEF Types, ApprovalInv, Counter
<1> QED
  BY <1>1

LEMMA RestRemembers ==
    ASSUME Types, ApprovalInv, NEW r \in Requests, NEW l, NEW p \in Singles
    PROVE  Remembered(Without(r, l), p)
<1>1. CASE DOMAIN req[r].todo = {l}
  BY <1>1, IdleRemembers, StockNatural DEF Without
<1>2. CASE DOMAIN req[r].todo # {l}
  <2>1. Without(r, l).seen = req[r].seen
    BY <1>2 DEF Without, Types, Request
  <2> QED
    BY <2>1 DEF ApprovalInv, Remembered
<1> QED
  BY <1>1, <1>2

\* A step that ends the work on a line, or leaves the counters alone.
LEMMA ApprovalWithout ==
    ASSUME Types, ApprovalInv, stock' = stock, approved' = approved,
           NEW r \in Requests, NEW l, req' = [req EXCEPT ![r] = Without(r, l)]
    PROVE  ApprovalInv'
<1>1. \A p \in Singles : approved'[p] <= stock[p]
  BY DEF ApprovalInv
<1> QED
  BY <1>1, RestRemembers, ApprovalStep

LEMMA ApprovalBegin ==
    ASSUME Types, ApprovalInv, NEW r \in Requests, NEW call, NEW todo, Begin(r, call, todo)
    PROVE  ApprovalInv'
<1> DEFINE q == [call |-> call, todo |-> todo, at |-> NoLine, seen |-> Snapshot]
<1>1. \A p \in Singles : stock[p] <= stock[p] /\ approved[p] <= stock[p]
  BY DEF ApprovalInv, Types, Counter
<1>2. \A p \in Singles : Remembered(q, p)
  BY <1>1 DEF Snapshot, Remembered
<1>3. req' = [req EXCEPT ![r] = q]
  BY DEF Begin
<1> HIDE DEF q
<1> QED
  BY <1>1, <1>2, <1>3, ApprovalStep DEF Begin

\* The approval writes at most the stock it knows, or a counter it has read.
LEMMA ApprovalConfirm ==
    ASSUME Types, ApprovalInv, NEW r \in Requests, NEW l \in Lines, ConfirmCounters(r, l)
    PROVE  ApprovalInv'
<1>1. PICK n \in 0..req[r].seen.line[l].qty :
        /\ Fillable(r, l, n)
        /\ approved' = Written(SkuOf[l], approved, ApprovedWith(r, l, n))
        /\ req' = [req EXCEPT
                      ![r].at = l,
                      ![r].todo[l] = n,
                      ![r].seen.stock = [p \in Singles |-> @[p] - Units(SkuOf[l], n)[p]]]
  BY DEF ConfirmCounters
<1> DEFINE left == [p \in Singles |-> req[r].seen.stock[p] - Units(SkuOf[l], n)[p]]
           q == [req[r] EXCEPT !.at = l, !.todo = [@ EXCEPT ![l] = n],
                               !.seen = [@ EXCEPT !.stock = left]]
           taken == Known(SkuOf[l], req[r].seen.approved, approved)
<1>2. SkuOf[l] \in Skus
  BY LineSku
<1>3. n \in Nat
  <2>1. req[r].seen.line[l].qty \in 0..MaxAmount
    BY Working DEF Line
  <2> QED
    BY <2>1, MaxAmountType
<1>4. \A p \in Singles : Units(SkuOf[l], n)[p] \in Nat
  BY <1>2, <1>3, UnitsType
<1>5. ASSUME NEW p \in Singles
      PROVE  approved'[p] <= stock[p]
  <2>1. /\ taken[p] \in Nat
        /\ taken[p] <= stock[p]
        /\ req[r].seen.stock[p] \in Int
        /\ req[r].seen.stock[p] <= stock[p]
        /\ stock[p] \in Nat
        /\ approved[p] <= stock[p]
    BY Working DEF Known, ApprovalInv, Remembered, Types, Counter
  <2>2. approved'[p] = IF p \in Parts(SkuOf[l]) THEN taken[p] + Units(SkuOf[l], n)[p]
                       ELSE approved[p]
    BY <1>1 DEF Written, ApprovedWith
  <2>3. CASE p \in Parts(SkuOf[l])
    <3>1. Units(SkuOf[l], n)[p] <= FromZero(req[r].seen.stock[p] - taken[p])
      BY <1>1, <2>3 DEF Fillable
    <3> HIDE DEF taken
    <3> QED
      BY <1>4, <2>1, <2>2, <2>3, <3>1 DEF FromZero
  <2> QED
    BY <2>1, <2>2, <2>3
<1>6. ASSUME NEW p \in Singles
      PROVE  Remembered(q, p)
  <2>1. q.seen.stock[p] = req[r].seen.stock[p] - Units(SkuOf[l], n)[p]
    BY Working DEF Request
  <2>2. q.seen.approved = req[r].seen.approved
    BY Working DEF Request
  <2>3. /\ req[r].seen.stock[p] \in Int
        /\ req[r].seen.stock[p] <= stock[p]
        /\ req[r].seen.approved[p] <= stock[p]
        /\ stock[p] \in Nat
    BY Working DEF ApprovalInv, Remembered, Types, Counter
  <2> HIDE DEF q
  <2> QED
    BY <1>4, <2>1, <2>2, <2>3 DEF Remembered
<1>7. req' = [req EXCEPT ![r] = q]
  BY <1>1 DEF Types
<1>8. stock' = stock
  BY DEF ConfirmCounters
<1> HIDE DEF q
<1> QED
  BY <1>5, <1>6, <1>7, <1>8, ApprovalStep

\* Taking a booking off a counter that was within the stock leaves it there.
LEMMA ApprovalRevert ==
    ASSUME Types, ApprovalInv, NEW r \in Requests, NEW l \in Lines, RevertCounters(r, l)
    PROVE  ApprovalInv'
<1> DEFINE taken == Known(SkuOf[l], req[r].seen.approved, approved)
           freed == Units(SkuOf[l], req[r].seen.line[l].booked)
           q == [req[r] EXCEPT !.at = l]
<1>1. ASSUME NEW p \in Singles
      PROVE  approved'[p] <= stock[p]
  <2>1. /\ taken[p] \in Nat
        /\ taken[p] <= stock[p]
        /\ stock[p] \in Nat
        /\ approved[p] <= stock[p]
    BY Working DEF Known, ApprovalInv, Remembered, Types, Counter
  <2>2. freed[p] \in Nat
    <3>1. req[r].seen.line[l].booked \in Nat
      BY Working DEF Line
    <3> QED
      BY <3>1, LineSku, UnitsType
  <2>3. approved'[p] = IF p \in Parts(SkuOf[l]) THEN FromZero(taken[p] - freed[p])
                       ELSE approved[p]
    BY DEF RevertCounters, Written
  <2> HIDE DEF taken, freed
  <2> QED
    BY <2>1, <2>2, <2>3 DEF FromZero
<1>2. \A p \in Singles : Remembered(q, p)
  <2>1. q.seen = req[r].seen
    BY Working DEF Request
  <2> QED
    BY <2>1 DEF ApprovalInv, Remembered
<1>3. req' = [req EXCEPT ![r] = q] /\ stock' = stock
  BY DEF RevertCounters, Types
<1> HIDE DEF q
<1> QED
  BY <1>1, <1>2, <1>3, ApprovalStep

\* Steps that only move a request to a line.
LEMMA ApprovalMove ==
    ASSUME Types, ApprovalInv, NEW r \in Requests, NEW l \in Lines,
           BookCounters(r, l) \/ ExpireCounters(r, l)
    PROVE  ApprovalInv'
<1>1. stock' = stock /\ approved' = approved
  BY DEF BookCounters, ExpireCounters
<1>2. \A p \in Singles : approved'[p] <= stock[p]
  BY <1>1 DEF ApprovalInv
<1>3. \A q : q.seen = req[r].seen => \A p \in Singles : Remembered(q, p)
  BY DEF ApprovalInv, Remembered
<1>4. CASE BookCounters(r, l)
  <2> DEFINE q == [req[r] EXCEPT !.at = l, !.todo = [@ EXCEPT ![l] = LeftToBook(r, l)]]
  <2>1. req' = [req EXCEPT ![r] = q]
    BY <1>4 DEF BookCounters, Types
  <2>2. q.seen = req[r].seen
    BY Working DEF Request
  <2> HIDE DEF q
  <2> QED
    BY <1>1, <1>2, <1>3, <2>1, <2>2, ApprovalStep
<1>5. CASE ExpireCounters(r, l)
  <2> DEFINE q == [req[r] EXCEPT !.at = l]
  <2>1. req' = [req EXCEPT ![r] = q]
    BY <1>5 DEF ExpireCounters, Types
  <2>2. q.seen = req[r].seen
    BY Working DEF Request
  <2> HIDE DEF q
  <2> QED
    BY <1>1, <1>2, <1>3, <2>1, <2>2, ApprovalStep
<1> QED
  BY <1>4, <1>5

LEMMA ApprovalSupply ==
    ASSUME Types, ApprovalInv, NEW p \in Singles, Supply(p)
    PROVE  ApprovalInv'
<1>1. \A s \in Singles : stock[s] <= stock'[s] /\ stock[s] \in Int /\ stock'[s] \in Int
  BY DEF Supply, Types
<1>2. approved' = approved /\ req' = req
  BY DEF Supply
<1>3. \A s \in Singles :
        /\ approved[s] \in Int
        /\ \A r \in Requests : req[r].seen.stock[s] \in Int /\ req[r].seen.approved[s] \in Int
  BY Working DEF Types, Counter
<1>4. \A s \in Singles : \A n \in Int : n <= stock[s] => n <= stock'[s]
  BY <1>1
<1>5. \A s \in Singles : approved'[s] <= stock'[s]
  BY <1>2, <1>3, <1>4 DEF ApprovalInv
<1>6. ASSUME NEW r \in Requests, NEW s \in Singles
      PROVE  Remembered(req[r], s)'
  <2>1. req[r].seen.stock[s] <= stock[s] /\ req[r].seen.approved[s] <= stock[s]
    BY DEF ApprovalInv, Remembered
  <2> QED
    BY <1>2, <1>3, <1>4, <2>1 DEF Remembered
<1> QED
  BY <1>5, <1>6 DEF ApprovalInv

LEMMA ApprovalPreserved ==
    ASSUME NoSync, Types, NoSyncInFlight, ApprovalInv, [Next]_vars
    PROVE  ApprovalInv'
<1>1. ASSUME UNCHANGED <<stock, approved, req>>
      PROVE  ApprovalInv'
  BY <1>1 DEF ApprovalInv, Remembered
<1>2. CASE UNCHANGED vars
  BY <1>1, <1>2 DEF vars
<1>3. ASSUME NEW r \in Requests, StepOf(r)
      PROVE  ApprovalInv'
  <2>1. ~SyncLines(r) /\ \A p \in Singles : ~SyncProduct(r, p)
    BY DEF NoSyncInFlight, SyncLines, SyncProduct
  <2>2. PICK l \in Lines :
          \/ SkipBook(r, l) \/ BookCounters(r, l) \/ BookLine(r, l)
          \/ ConfirmCounters(r, l) \/ ConfirmLine(r, l)
          \/ ExpireCounters(r, l) \/ ExpireLine(r, l)
          \/ RevertCounters(r, l) \/ RevertLine(r, l)
    BY <1>3, <2>1 DEF StepOf
  <2>3. CASE SkipBook(r, l) \/ BookLine(r, l) \/ ConfirmLine(r, l)
             \/ ExpireLine(r, l) \/ RevertLine(r, l)
    BY <2>3, ApprovalWithout
       DEF SkipBook, BookLine, ConfirmLine, ExpireLine, RevertLine
  <2> QED
    BY <2>2, <2>3, ApprovalMove, ApprovalConfirm, ApprovalRevert
<1>4. CASE Revert
  BY <1>4, ApprovalBegin DEF Revert, BeginRevert
<1>5. CASE NextButRevert
  <2>1. ASSUME NEW r \in Requests, Fail(r)
        PROVE  ApprovalInv'
    <3>1. \A p \in Singles : approved'[p] <= stock[p]
      BY <2>1 DEF Fail, ApprovalInv
    <3> QED
      BY <2>1, <3>1, IdleRemembers, StockNatural, ApprovalStep DEF Fail
  <2>2. ASSUME NEW r \in Requests, BeginSync(r)
        PROVE  FALSE
    BY <2>2 DEF BeginSync, UserCall, NoSync
  <2>3. ASSUME NEW r \in Requests, BeginBook(r)
        PROVE  ApprovalInv'
    BY <2>3, ApprovalBegin DEF BeginBook
  <2>4. ASSUME NEW r \in Requests, BeginConfirm(r)
        PROVE  ApprovalInv'
    BY <2>4, ApprovalBegin DEF BeginConfirm
  <2>5. ASSUME BeginExpire
        PROVE  ApprovalInv'
    <3>1. CronSlot \in Requests
      BY BookingConstants, Zenon DEF BookingConstants
    <3> QED
      BY <2>5, <3>1, ApprovalBegin DEF BeginExpire
  <2>6. ASSUME NEW o, ConfirmGoodsIssue(o) \/ EditOrder(o)
        PROVE  ApprovalInv'
    BY <1>1, <2>6 DEF ConfirmGoodsIssue, EditOrder
  <2>7. ASSUME NEW l \in Lines, DeadlinePasses(l)
        PROVE  ApprovalInv'
    BY <1>1, <2>7 DEF DeadlinePasses
  <2> QED
    BY <1>3, <1>5, <2>1, <2>2, <2>3, <2>4, <2>5, <2>6, <2>7, ApprovalSupply
       DEF NextButRevert
<1> QED
  BY <1>2, <1>4, <1>5 DEF Next

\* Approvals, reverts, edits, the job and faults may interleave in any way:
\* approved_booking_stock of a product stays within its stock, for every set
\* of products, orders and requests, as long as nobody runs syncBookingStock
\* and no goods leave.
THEOREM ApprovalsFitStock == ASSUME NoSync PROVE Spec => []ApprovedWithinStock
<1>1. Init => Types /\ NoSyncInFlight /\ ApprovalInv
  <2> SUFFICES ASSUME Init PROVE Types /\ NoSyncInFlight /\ ApprovalInv
    OBVIOUS
  <2>1. Types
    BY InitTypes
  <2>2. \A p \in Singles : approved[p] <= stock[p] /\ stock[p] >= 0
    BY OpeningType DEF Init, Counter
  <2>3. NoSyncInFlight
    BY DEF Init, NoSyncInFlight, Idle
  <2> QED
    BY <2>1, <2>2, <2>3, IdleRemembers DEF Init, ApprovalInv
<1>2. Types /\ NoSyncInFlight /\ ApprovalInv /\ [Next]_vars
        => (Types /\ NoSyncInFlight /\ ApprovalInv)'
  BY StepTypes, NoSyncStep, ApprovalPreserved
<1>3. ApprovalInv => ApprovedWithinStock
  BY DEF ApprovalInv, ApprovedWithinStock
<1> QED
  BY <1>1, <1>2, <1>3, PTL DEF Spec

--------------------------------------------------------------------------------
\* An order update is another matter: it carries a booking over to a line
\* whose quantity is smaller.
NoEdit == "edit" \notin Calls

\* A request in flight knows the quantity of every line, remembers a booking
\* within it, and is about to write one within it.
Sound(q) ==
    q.call # "idle" =>
        \A l \in Lines :
            /\ q.seen.line[l].qty = line[l].qty
            /\ q.seen.line[l].booked <= line[l].qty
            /\ q.at = l /\ q.call = "book" =>
                   q.seen.line[l].booked + q.todo[l] <= line[l].qty
            /\ q.at = l /\ q.call = "confirm" => q.todo[l] <= line[l].qty

BookedInv ==
    /\ \A l \in Lines : line[l].booked <= line[l].qty
    /\ \A r \in Requests : Sound(req[r])

LEMMA BookedStep ==
    ASSUME Types, BookedInv,
           \A l \in Lines : line'[l].qty = line[l].qty /\ line'[l].booked <= line[l].qty,
           NEW r \in Requests, NEW q, req' = [req EXCEPT ![r] = q], Sound(q)
    PROVE  BookedInv'
<1>1. ASSUME NEW o \in Requests
      PROVE  Sound(req[o])'
  <2>1. Sound(req'[o])
    BY DEF Types, BookedInv
  <2> QED
    BY <2>1 DEF Sound
<1> QED
  BY <1>1 DEF BookedInv

LEMMA NoLineIsNone == NoLine \notin Lines
  BY BookingConstants, Zenon DEF BookingConstants

LEMMA RestSound ==
    ASSUME Types, BookedInv, NEW r \in Requests, NEW l
    PROVE  Sound(Without(r, l))
<1>1. CASE DOMAIN req[r].todo = {l}
  BY <1>1 DEF Without, Idle, Sound
<1>2. CASE DOMAIN req[r].todo # {l}
  <2>1. /\ Without(r, l).seen = req[r].seen
        /\ Without(r, l).call = req[r].call
        /\ Without(r, l).at = NoLine
    BY <1>2, Working DEF Without, Request
  <2> QED
    BY <2>1, NoLineIsNone DEF BookedInv, Sound
<1> QED
  BY <1>1, <1>2

LEMMA BookedBegin ==
    ASSUME Types, BookedInv, NEW r \in Requests, NEW call, NEW todo, Begin(r, call, todo)
    PROVE  BookedInv'
<1> DEFINE q == [call |-> call, todo |-> todo, at |-> NoLine, seen |-> Snapshot]
<1>1. q.seen.line = line /\ q.at = NoLine
  BY DEF Snapshot
<1>2. req' = [req EXCEPT ![r] = q] /\ line' = line
  BY DEF Begin
<1> HIDE DEF q
<1>3. Sound(q)
  BY <1>1, NoLineIsNone DEF BookedInv, Sound
<1> QED
  BY <1>2, <1>3, BookedStep DEF BookedInv

\* A step that writes one line and ends the work on it.
LEMMA BookedWrite ==
    ASSUME Types, BookedInv, NEW r \in Requests, NEW l \in Lines, NEW v,
           line' = [line EXCEPT ![l] = v],
           v.qty = line[l].qty, v.booked <= line[l].qty,
           req' = [req EXCEPT ![r] = Without(r, l)]
    PROVE  BookedInv'
<1>1. \A k \in Lines : line'[k].qty = line[k].qty /\ line'[k].booked <= line[k].qty
  BY DEF Types, BookedInv
<1> QED
  BY <1>1, RestSound, BookedStep

LEMMA BookedSaved ==
    ASSUME Types, BookedInv, NEW r \in Requests, NEW l \in Lines,
           BookLine(r, l) \/ ExpireLine(r, l) \/ RevertLine(r, l)
    PROVE  BookedInv'
<1> DEFINE k == req[r].seen.line[l]
<1>1. /\ k \in Line
      /\ line[l].qty \in Nat
      /\ req' = [req EXCEPT ![r] = Without(r, l)]
  <2>1. k \in Line /\ line[l] \in Line
    BY Working DEF Types
  <2> QED
    BY <2>1, MaxAmountType DEF Line, BookLine, ExpireLine, RevertLine
<1>2. CASE BookLine(r, l)
  <2> DEFINE b == k.booked + req[r].todo[l]
             v == [k EXCEPT !.booked = b, !.status = "TEMPORARY", !.due = "ahead"]
  <2>1. line' = [line EXCEPT ![l] = v]
    BY <1>2 DEF BookLine
  <2>2. k.qty = line[l].qty /\ b <= line[l].qty
    BY <1>2 DEF BookLine, BookedInv, Sound
  <2>3. v.qty = k.qty /\ v.booked = b
    <3> HIDE DEF k, b
    <3> QED
      BY <1>1 DEF Line
  <2> HIDE DEF v, b, k
  <2> QED
    BY <1>1, <2>1, <2>2, <2>3, BookedWrite
<1>3. CASE ExpireLine(r, l)
  <2> DEFINE v == [k EXCEPT !.status = "EXPIRED", !.booked = 0, !.due = "none"]
  <2>1. line' = [line EXCEPT ![l] = v]
    BY <1>3 DEF ExpireLine
  <2>2. k.qty = line[l].qty
    BY <1>3 DEF ExpireLine, BookedInv, Sound
  <2>3. v.qty = k.qty /\ v.booked = 0
    BY <1>1 DEF Line
  <2> HIDE DEF v, k
  <2>4. v.qty = line[l].qty /\ v.booked <= line[l].qty
    BY <1>1, <2>2, <2>3
  <2> QED
    BY <1>1, <2>1, <2>4, BookedWrite
<1>4. CASE RevertLine(r, l)
  <2> DEFINE v == [k EXCEPT !.status = "TEMPORARY", !.due = "ahead"]
  <2>1. line' = [line EXCEPT ![l] = v]
    BY <1>4 DEF RevertLine
  <2>2. k.qty = line[l].qty /\ k.booked <= line[l].qty
    BY <1>4 DEF RevertLine, BookedInv, Sound
  <2>3. v.qty = k.qty /\ v.booked = k.booked
    BY <1>1 DEF Line
  <2> HIDE DEF v, k
  <2>4. v.qty = line[l].qty /\ v.booked <= line[l].qty
    BY <2>2, <2>3
  <2> QED
    BY <1>1, <2>1, <2>4, BookedWrite
<1> QED
  BY <1>2, <1>3, <1>4

LEMMA BookedConfirmLine ==
    ASSUME Types, BookedInv, NEW r \in Requests, NEW l \in Lines, ConfirmLine(r, l)
    PROVE  BookedInv'
<1> DEFINE n == req[r].todo[l]
           v == [line[l] EXCEPT !.status = "CONFIRMED", !.due = "none", !.booked = n]
<1>1. line' = [line EXCEPT ![l] = v] /\ req' = [req EXCEPT ![r] = Without(r, l)]
  BY DEF ConfirmLine, Types
<1>2. n <= line[l].qty
  BY DEF ConfirmLine, BookedInv, Sound
<1>3. v.qty = line[l].qty /\ v.booked = n
  <2>1. line[l] \in Line
    BY DEF Types
  <2> HIDE DEF n
  <2> QED
    BY <2>1 DEF Line
<1> HIDE DEF v, n
<1> QED
  BY <1>1, <1>2, <1>3, BookedWrite

\* bookItems asks for no more than what is left, confirmBookings for no more
\* than what was ordered.
LEMMA BookedTask ==
    ASSUME Types, BookedInv, NEW r \in Requests, NEW l \in Lines, NEW q,
           BookCounters(r, l) \/ ConfirmCounters(r, l),
           line' = line, req' = [req EXCEPT ![r] = q],
           q.seen.line = req[r].seen.line, q.call = req[r].call, q.at = l,
           q.call = "book" => q.todo[l] <= req[r].seen.line[l].qty - req[r].seen.line[l].booked,
           q.call = "confirm" => q.todo[l] <= req[r].seen.line[l].qty,
           q.todo[l] \in Nat
    PROVE  BookedInv'
<1>1. req[r].call # "idle"
  BY DEF BookCounters, ConfirmCounters, Picks
<1>2. /\ req[r].seen.line[l].qty = line[l].qty
      /\ req[r].seen.line[l].booked <= line[l].qty
  BY <1>1 DEF BookedInv, Sound
<1>3. req[r].seen.line[l].booked \in Nat /\ line[l].qty \in Nat
  <2>1. req[r].seen.line[l] \in Line /\ line[l] \in Line
    BY Working DEF Types
  <2> QED
    BY <2>1, MaxAmountType DEF Line
<1>4. /\ q.call = "book" => req[r].seen.line[l].booked + q.todo[l] <= line[l].qty
      /\ q.call = "confirm" => q.todo[l] <= line[l].qty
  BY <1>2, <1>3
<1>5. Sound(q)
  BY <1>1, <1>4 DEF BookedInv, Sound
<1> QED
  BY <1>5, BookedStep DEF BookedInv

LEMMA BookedCounters ==
    ASSUME Types, BookedInv, NEW r \in Requests, NEW l \in Lines,
           BookCounters(r, l) \/ ConfirmCounters(r, l)
    PROVE  BookedInv'
<1>0. req[r].seen.line[l].qty \in Nat /\ req[r].seen.line[l].booked \in Nat
  <2>1. req[r].seen.line[l] \in Line
    BY Working
  <2> QED
    BY <2>1, MaxAmountType DEF Line
<1>1. CASE BookCounters(r, l)
  <2> DEFINE n == LeftToBook(r, l)
             q == [req[r] EXCEPT !.at = l, !.todo = [@ EXCEPT ![l] = n]]
  <2>1. req' = [req EXCEPT ![r] = q] /\ line' = line
    BY <1>1 DEF BookCounters, Types
  <2>2. req[r].todo[l] \in Nat /\ req[r].call = "book" /\ l \in DOMAIN req[r].todo
    BY <1>1, Working, TodoElements, MaxAmountType DEF BookCounters, Picks
  <2>3. n \in Nat /\ n <= req[r].seen.line[l].qty - req[r].seen.line[l].booked
    <3> DEFINE a == req[r].todo[l]
               d == req[r].seen.line[l].qty - req[r].seen.line[l].booked
    <3>1. n > 0
      BY <1>1 DEF BookCounters
    <3>2. n = Lesser(a, d)
      BY DEF LeftToBook
    <3>3. a \in Nat /\ d \in Int
      BY <1>0, <2>2
    <3> HIDE DEF n, a, d
    <3>4. n \in Nat /\ n <= d
      BY <3>1, <3>2, <3>3 DEF Lesser
    <3> QED
      BY <3>4 DEF d
  <2> HIDE DEF n
  <2>4. /\ q.seen.line = req[r].seen.line /\ q.call = req[r].call
        /\ q.at = l /\ q.todo = [req[r].todo EXCEPT ![l] = n]
    BY Working DEF Request
  <2>5. q.todo[l] = n
    BY <2>2, <2>4, Working, TodoAt
  <2> HIDE DEF q
  <2>6. /\ q.call = "book" =>
              q.todo[l] <= req[r].seen.line[l].qty - req[r].seen.line[l].booked
        /\ q.call = "confirm" => q.todo[l] <= req[r].seen.line[l].qty
        /\ q.todo[l] \in Nat
    BY <2>2, <2>3, <2>4, <2>5
  <2> QED
    BY <1>1, <2>1, <2>4, <2>6, BookedTask
<1>2. CASE ConfirmCounters(r, l)
  <2>1. PICK n \in 0..req[r].seen.line[l].qty :
          req' = [req EXCEPT
                      ![r].at = l,
                      ![r].todo[l] = n,
                      ![r].seen.stock = [p \in Singles |-> @[p] - Units(SkuOf[l], n)[p]]]
    BY <1>2 DEF ConfirmCounters
  <2> DEFINE left == [p \in Singles |-> req[r].seen.stock[p] - Units(SkuOf[l], n)[p]]
             q == [req[r] EXCEPT !.at = l, !.todo = [@ EXCEPT ![l] = n],
                                 !.seen = [@ EXCEPT !.stock = left]]
  <2>2. req' = [req EXCEPT ![r] = q] /\ line' = line
    <3>1. req' = [req EXCEPT ![r] = q]
      BY <2>1 DEF Types
    <3>2. line' = line
      BY <1>2 DEF ConfirmCounters
    <3> QED
      BY <3>1, <3>2
  <2>3. req[r].call = "confirm" /\ l \in DOMAIN req[r].todo
    BY <1>2 DEF ConfirmCounters, Picks
  <2>4. n \in Nat /\ n <= req[r].seen.line[l].qty
    BY <1>0, <2>1
  <2> HIDE DEF left
  <2>5. /\ q.seen.line = req[r].seen.line /\ q.call = req[r].call
        /\ q.at = l /\ q.todo = [req[r].todo EXCEPT ![l] = n]
    BY Working DEF Request
  <2>6. q.todo[l] = n
    BY <2>3, <2>5, Working, TodoAt
  <2> HIDE DEF q
  <2>7. /\ q.call = "book" =>
              q.todo[l] <= req[r].seen.line[l].qty - req[r].seen.line[l].booked
        /\ q.call = "confirm" => q.todo[l] <= req[r].seen.line[l].qty
        /\ q.todo[l] \in Nat
    BY <2>3, <2>4, <2>5, <2>6
  <2> QED
    BY <1>2, <2>2, <2>5, <2>7, BookedTask
<1> QED
  BY <1>1, <1>2

LEMMA BookedMove ==
    ASSUME Types, BookedInv, NEW r \in Requests, NEW l \in Lines,
           ExpireCounters(r, l) \/ RevertCounters(r, l)
    PROVE  BookedInv'
<1> DEFINE q == [req[r] EXCEPT !.at = l]
<1>1. req' = [req EXCEPT ![r] = q] /\ line' = line
  BY DEF ExpireCounters, RevertCounters, Types
<1>2. q.seen = req[r].seen /\ q.call = req[r].call /\ q.call \in {"expire", "revert"}
  BY Working DEF Request, ExpireCounters, RevertCounters, Picks
<1> HIDE DEF q
<1>3. Sound(q)
  BY <1>2 DEF BookedInv, Sound
<1> QED
  BY <1>1, <1>3, BookedStep DEF BookedInv

\* A sync turns bookings into approved ones and leaves their units alone.
LEMMA BookedSync ==
    ASSUME Types, BookedInv, NEW r \in Requests,
           \/ BeginSync(r) \/ SyncLines(r)
           \/ \E p \in Singles : SyncProduct(r, p)
    PROVE  BookedInv'
<1>0. /\ \A l \in Lines : line[l] \in Line
      /\ \A l \in Lines : line[l].qty = line[l].qty /\ line[l].booked <= line[l].qty
      /\ req[r] \in Request /\ Sound(req[r])
  BY DEF Types, BookedInv
<1>1. CASE BeginSync(r)
  <2> DEFINE q == [call |-> "sync", todo |-> [p \in Singles |-> 0], at |-> NoLine,
                   seen |-> [Snapshot EXCEPT !.booking = Statistics("TEMPORARY"),
                                             !.approved = Statistics("CONFIRMED")]]
  <2>1. req' = [req EXCEPT ![r] = q] /\ line' = line
    BY <1>1 DEF BeginSync
  <2>2. q.seen.line = line /\ q.at = NoLine
    BY DEF Snapshot
  <2> HIDE DEF q
  <2>3. Sound(q)
    BY <1>0, <2>2, NoLineIsNone DEF Sound
  <2> QED
    BY <1>0, <2>1, <2>3, BookedStep
<1>2. ASSUME SyncLines(r) PROVE BookedInv'
  <2>1. \A l \in Lines : line'[l].qty = line[l].qty /\ line'[l].booked <= line[l].qty
    BY <1>0, <1>2 DEF SyncLines, ApprovedInBulk, Line
  <2>2. Sound(Idle) /\ req' = [req EXCEPT ![r] = Idle]
    BY <1>2 DEF SyncLines, Sound, Idle
  <2> QED
    BY <2>1, <2>2, BookedStep
<1>3. ASSUME NEW p \in Singles, SyncProduct(r, p) PROVE BookedInv'
  <2> DEFINE q == [req[r] EXCEPT !.todo = Restrict(@, DOMAIN @ \ {p})]
  <2>1. req' = [req EXCEPT ![r] = q] /\ line' = line
    BY <1>3 DEF SyncProduct, Types
  <2>2. q.seen = req[r].seen /\ q.call = "sync" /\ req[r].call = "sync"
    BY <1>0, <1>3 DEF SyncProduct, Request
  <2> HIDE DEF q
  <2>3. Sound(q)
    BY <1>0, <2>2 DEF Sound
  <2> QED
    BY <1>0, <2>1, <2>3, BookedStep
<1> QED
  BY <1>1, <1>2, <1>3

LEMMA BookedPreserved ==
    ASSUME NoEdit, Types, BookedInv, [Next]_vars
    PROVE  BookedInv'
<1>1. ASSUME req' = req,
             \A l \in Lines : line'[l].qty = line[l].qty /\ line'[l].booked = line[l].booked
      PROVE  BookedInv'
  BY <1>1 DEF BookedInv, Sound
<1>2. CASE UNCHANGED vars
  BY <1>1, <1>2 DEF vars
<1>3. ASSUME NEW r \in Requests, StepOf(r)
      PROVE  BookedInv'
  <2>1. ASSUME NEW l \in Lines,
               \/ SkipBook(r, l) \/ BookCounters(r, l) \/ BookLine(r, l)
               \/ ConfirmCounters(r, l) \/ ConfirmLine(r, l)
               \/ ExpireCounters(r, l) \/ ExpireLine(r, l)
               \/ RevertCounters(r, l) \/ RevertLine(r, l)
        PROVE  BookedInv'
    <3>1. CASE SkipBook(r, l)
      BY <3>1, RestSound, BookedStep DEF SkipBook, BookedInv
    <3> QED
      BY <2>1, <3>1, BookedSaved, BookedConfirmLine, BookedCounters, BookedMove
  <2> QED
    BY <1>3, <2>1, BookedSync DEF StepOf
<1>4. CASE Revert
  BY <1>4, BookedBegin DEF Revert, BeginRevert
<1>5. CASE NextButRevert
  <2>1. ASSUME NEW r \in Requests, Fail(r)
        PROVE  BookedInv'
    <3>1. Sound(Idle)
      BY DEF Sound, Idle
    <3> QED
      BY <2>1, <3>1, BookedStep DEF Fail, BookedInv
  <2>2. ASSUME NEW r \in Requests, BeginSync(r)
        PROVE  BookedInv'
    BY <2>2, BookedSync
  <2>3. ASSUME NEW r \in Requests, BeginBook(r)
        PROVE  BookedInv'
    BY <2>3, BookedBegin DEF BeginBook
  <2>4. ASSUME NEW r \in Requests, BeginConfirm(r)
        PROVE  BookedInv'
    BY <2>4, BookedBegin DEF BeginConfirm
  <2>5. ASSUME BeginExpire
        PROVE  BookedInv'
    <3>1. CronSlot \in Requests
      BY BookingConstants, Zenon DEF BookingConstants
    <3> QED
      BY <2>5, <3>1, BookedBegin DEF BeginExpire
  <2>6. ASSUME NEW o, ConfirmGoodsIssue(o)
        PROVE  BookedInv'
    <3>1. \A l \in Lines : line[l] \in Line
      BY DEF Types
    <3>2. \A l \in Lines : line'[l].qty = line[l].qty /\ line'[l].booked = line[l].booked
      BY <2>6, <3>1 DEF ConfirmGoodsIssue, ApprovedInBulk, Line
    <3> QED
      BY <1>1, <2>6, <3>2 DEF ConfirmGoodsIssue
  <2>7. ASSUME NEW o, EditOrder(o)
        PROVE  FALSE
    BY <2>7 DEF EditOrder, UserCall, NoEdit
  <2>8. ASSUME NEW l \in Lines, DeadlinePasses(l)
        PROVE  BookedInv'
    <3>1. \A k \in Lines : line[k] \in Line
      BY DEF Types
    <3>2. \A k \in Lines : line'[k].qty = line[k].qty /\ line'[k].booked = line[k].booked
      BY <2>8, <3>1 DEF DeadlinePasses, Types, Line
    <3> QED
      BY <1>1, <2>8, <3>2 DEF DeadlinePasses
  <2>9. ASSUME NEW p \in Singles, Supply(p)
        PROVE  BookedInv'
    BY <1>1, <2>9 DEF Supply
  <2> QED
    BY <1>3, <1>5, <2>1, <2>2, <2>3, <2>4, <2>5, <2>6, <2>7, <2>8, <2>9
       DEF NextButRevert
<1> QED
  BY <1>2, <1>4, <1>5 DEF Next

\* No line is ever booked beyond its quantity, whatever the requests have read
\* and however they interleave, for every set of lines and requests: bookItems
\* caps by what it has read, confirmBookings by the quantity, and nothing but
\* an order update, left out here, changes a quantity.
THEOREM LinesNotOverbooked == ASSUME NoEdit PROVE Spec => NeverOverbooked
<1>1. Init => Types /\ BookedInv
  <2> SUFFICES ASSUME Init PROVE Types /\ BookedInv
    OBVIOUS
  <2>1. Types
    BY InitTypes
  <2>2. \A l \in Lines : line[l].booked <= line[l].qty
    BY MaxAmountType DEF Init, Unbooked, Amounts
  <2>3. Sound(Idle)
    BY DEF Sound, Idle
  <2> QED
    BY <2>1, <2>2, <2>3 DEF Init, BookedInv
<1>2. Types /\ BookedInv /\ [Next]_vars => (Types /\ BookedInv)'
  BY StepTypes, BookedPreserved
<1>3. BookedInv' =>
        [\A l \in Lines :
            line'[l].booked > line[l].booked => line'[l].booked <= line'[l].qty]_vars
  BY DEF BookedInv
<1>4. Spec => [](Types /\ BookedInv)
  BY <1>1, <1>2, PTL DEF Spec
<1> QED
  BY <1>3, <1>4, PTL DEF NeverOverbooked

--------------------------------------------------------------------------------
(* Units on a set of lines *)

\* A sum over part of a set is the sum over the whole with zeros elsewhere.
LEMMA SumFilter ==
    ASSUME NEW S, IsFiniteSet(S), NEW T \in SUBSET S, NEW f, NEW g,
           \A x \in T : f[x] \in Int /\ g[x] = f[x], \A x \in S \ T : g[x] = 0
    PROVE  SumFunctionOnSet(f, T) = SumFunctionOnSet(g, S)
<1>1. IsFiniteSet(T) /\ IsFiniteSet(S \ T) /\ \A x \in S : g[x] \in Int
  BY FS_Subset
<1>2. SumFunctionOnSet(g, S) = SumFunctionOnSet(g, T) + SumFunctionOnSet(g, S \ T)
  BY <1>1, SumSplit
<1>3. SumFunctionOnSet(g, S \ T) = 0
  BY <1>1, SumZero
<1>4. SumFunctionOnSet(g, T) = SumFunctionOnSet(f, T)
  BY <1>1, SumSame
<1>5. SumFunctionOnSet(f, T) \in Int
  BY <1>1, SumInt
<1> QED
  BY <1>2, <1>3, <1>4, <1>5

\* Units of single p on line l of a table, and on a set of its lines.
OnLine(t, l, p) == Units(SkuOf[l], t[l].booked)[p]
Weights(t, S, p) == [l \in Lines |-> IF l \in S THEN OnLine(t, l, p) ELSE 0]
On(t, S, p) == SumFunctionOnSet(Weights(t, S, p), Lines)

LEMMA OnLineType ==
    ASSUME NEW t \in [Lines -> Line], NEW l \in Lines, NEW p \in Singles
    PROVE  OnLine(t, l, p) \in Nat /\ (p \notin Parts(SkuOf[l]) => OnLine(t, l, p) = 0)
<1>1. t[l].booked \in Nat /\ SkuOf[l] \in Skus
  BY LineSku DEF Line
<1>2. /\ Units(SkuOf[l], t[l].booked)[p] \in Nat
      /\ Units(SkuOf[l], t[l].booked)[p] = t[l].booked * Contents(SkuOf[l])[p]
      /\ Contents(SkuOf[l])[p] \in Nat
  BY <1>1, UnitsType, ContentsType
<1>3. p \notin Parts(SkuOf[l]) => Contents(SkuOf[l])[p] = 0
  BY <1>2 DEF Parts
<1>4. \A n \in Nat : n * 0 = 0
  OBVIOUS
<1> QED
  BY <1>1, <1>2, <1>3, <1>4 DEF OnLine

LEMMA WeightsType ==
    ASSUME NEW t \in [Lines -> Line], NEW S, NEW p \in Singles
    PROVE  \A l \in Lines : /\ Weights(t, S, p)[l] \in Nat
                            /\ Weights(t, S, p)[l] = IF l \in S THEN OnLine(t, l, p) ELSE 0
  BY OnLineType DEF Weights

LEMMA OnType ==
    ASSUME NEW t \in [Lines -> Line], NEW S, NEW p \in Singles
    PROVE  On(t, S, p) \in Nat
  BY WeightsType, SetsFinite, SumNat DEF On

\* What a set of lines of a table holds of each single.
HeldBy(t, S) ==
    [p \in Singles |-> SumFunctionOnSet([l \in Lines |-> Units(SkuOf[l], t[l].booked)[p]], S)]

LEMMA HeldByIs ==
    ASSUME NEW t \in [Lines -> Line], NEW S \in SUBSET Lines, NEW p \in Singles
    PROVE  HeldBy(t, S)[p] = On(t, S, p)
<1> DEFINE f == [l \in Lines |-> Units(SkuOf[l], t[l].booked)[p]]
           g == Weights(t, S, p)
<1>1. /\ \A l \in S : f[l] \in Int /\ g[l] = f[l]
      /\ \A l \in Lines \ S : g[l] = 0
  BY OnLineType DEF Weights, OnLine
<1>2. HeldBy(t, S)[p] = SumFunctionOnSet(f, S)
  BY DEF HeldBy
<1>3. On(t, S, p) = SumFunctionOnSet(g, Lines)
  BY DEF On
<1> HIDE DEF f, g
<1>4. SumFunctionOnSet(f, S) = SumFunctionOnSet(g, Lines)
  BY <1>1, SetsFinite, SumFilter
<1> QED
  BY <1>2, <1>3, <1>4

LEMMA BookedOnIs ==
    ASSUME line \in [Lines -> Line], NEW S \in SUBSET Lines, NEW p \in Singles
    PROVE  BookedOn(S)[p] = On(line, S, p)
<1>1. BookedOn(S)[p] = HeldBy(line, S)[p]
  BY DEF BookedOn, HeldBy
<1> QED
  BY <1>1, HeldByIs

\* Tables and sets that agree on what they hold of p.
LEMMA OnSame ==
    ASSUME NEW t \in [Lines -> Line], NEW u \in [Lines -> Line], NEW S, NEW T, NEW p \in Singles,
           \A l \in Lines : p \in Parts(SkuOf[l]) =>
               (l \in S <=> l \in T) /\ (l \in S => u[l].booked = t[l].booked)
    PROVE  On(u, T, p) = On(t, S, p)
<1>1. \A l \in Lines : Weights(u, T, p)[l] = Weights(t, S, p)[l]
  BY WeightsType, OnLineType DEF OnLine
<1> QED
  BY <1>1, SetsFinite, SumSame DEF On

\* Less on each line, less in all.
LEMMA OnLess ==
    ASSUME NEW t \in [Lines -> Line], NEW u \in [Lines -> Line], NEW S, NEW T, NEW p \in Singles,
           \A l \in Lines : l \in T => l \in S /\ u[l].booked = t[l].booked
    PROVE  On(u, T, p) <= On(t, S, p)
<1> DEFINE f == Weights(u, T, p)
           g == Weights(t, S, p)
<1>1. \A l \in Lines : f[l] \in Int /\ g[l] \in Int /\ f[l] <= g[l]
  <2> SUFFICES ASSUME NEW l \in Lines PROVE f[l] \in Int /\ g[l] \in Int /\ f[l] <= g[l]
    OBVIOUS
  <2>1. /\ f[l] = (IF l \in T THEN OnLine(u, l, p) ELSE 0) /\ f[l] \in Nat
        /\ g[l] = (IF l \in S THEN OnLine(t, l, p) ELSE 0) /\ g[l] \in Nat
    BY WeightsType
  <2>2. l \in T => f[l] = g[l]
    BY <2>1 DEF OnLine
  <2> HIDE DEF f, g
  <2> QED
    BY <2>1, <2>2
<1> HIDE DEF f, g
<1>2. SumFunctionOnSet(f, Lines) <= SumFunctionOnSet(g, Lines)
  BY <1>1, SetsFinite, SumOrder
<1> QED
  BY <1>2 DEF On, f, g

LEMMA LinesChange ==
    ASSUME NEW f, NEW g, NEW e \in Lines, \A x \in Lines : f[x] \in Int /\ g[x] \in Int,
           \A x \in Lines \ {e} : g[x] = f[x]
    PROVE  SumFunctionOnSet(g, Lines) = SumFunctionOnSet(f, Lines) + g[e] - f[e]
<1>1. IsFiniteSet(Lines)
  BY SetsFinite
<1> QED
  BY <1>1, SumChange

\* One line changes, joins or leaves.
LEMMA OnTurn ==
    ASSUME NEW t \in [Lines -> Line], NEW u \in [Lines -> Line], NEW S, NEW T, NEW p \in Singles,
           NEW l \in Lines,
           \A k \in Lines \ {l} : (k \in T <=> k \in S) /\ u[k].booked = t[k].booked
    PROVE  On(u, T, p) = On(t, S, p) - (IF l \in S THEN OnLine(t, l, p) ELSE 0)
                                     + (IF l \in T THEN OnLine(u, l, p) ELSE 0)
<1> DEFINE f == Weights(t, S, p)
           g == Weights(u, T, p)
<1>1. /\ f[l] = (IF l \in S THEN OnLine(t, l, p) ELSE 0)
      /\ g[l] = (IF l \in T THEN OnLine(u, l, p) ELSE 0)
  BY WeightsType
<1>2. \A k \in Lines : f[k] \in Int /\ g[k] \in Int
  BY WeightsType
<1>3. \A k \in Lines \ {l} : g[k] = f[k]
  BY WeightsType DEF OnLine
<1>4. On(t, S, p) = SumFunctionOnSet(f, Lines) /\ On(u, T, p) = SumFunctionOnSet(g, Lines)
  BY DEF On
<1> HIDE DEF f, g
<1>5. SumFunctionOnSet(g, Lines) = SumFunctionOnSet(f, Lines) + g[l] - f[l]
  BY <1>2, <1>3, LinesChange
<1>6. On(t, S, p) \in Int /\ f[l] \in Int /\ g[l] \in Int
  BY <1>2, OnType
<1> QED
  BY <1>1, <1>4, <1>5, <1>6



--------------------------------------------------------------------------------
(* The statistics of getBookingStats are the totals of the lines *)

\* Units of what some lines of one product hold together.
HeldOf(t, T, sku) == SumFunctionOnSet([l \in Lines |-> t[l].booked], {l \in T : SkuOf[l] = sku})
BySku(t, T, p) == [sku \in Skus |-> Units(sku, HeldOf(t, T, sku))[p]]

LEMMA HeldOfType ==
    ASSUME NEW t \in [Lines -> Line], NEW T \in SUBSET Lines, NEW sku \in Skus, NEW p \in Singles
    PROVE  HeldOf(t, T, sku) \in Nat /\ BySku(t, T, p)[sku] \in Nat
<1> DEFINE f == [l \in Lines |-> t[l].booked]
           S == {l \in T : SkuOf[l] = sku}
<1>1. IsFiniteSet(S) /\ \A l \in S : f[l] \in Nat
  BY SetsFinite DEF Line
<1> HIDE DEF f, S
<1>2. SumFunctionOnSet(f, S) \in Nat
  BY <1>1, SumNat
<1>3. HeldOf(t, T, sku) \in Nat
  BY <1>2 DEF HeldOf, f, S
<1> QED
  BY <1>3, UnitsType DEF BySku

LEMMA HeldOfTurn ==
    ASSUME NEW t \in [Lines -> Line], NEW T \in SUBSET Lines, NEW x \in T, NEW sku \in Skus
    PROVE  HeldOf(t, T, sku) =
               HeldOf(t, T \ {x}, sku) + (IF SkuOf[x] = sku THEN t[x].booked ELSE 0)
<1> DEFINE f == [l \in Lines |-> t[l].booked]
           S == {l \in T : SkuOf[l] = sku}
           R == {l \in T \ {x} : SkuOf[l] = sku}
<1>1. IsFiniteSet(S) /\ \A l \in S : f[l] \in Int
  BY SetsFinite DEF Line
<1>2. HeldOf(t, T, sku) = SumFunctionOnSet(f, S) /\ HeldOf(t, T \ {x}, sku) = SumFunctionOnSet(f, R)
  BY DEF HeldOf
<1>3. CASE SkuOf[x] = sku
  <2>1. x \in S /\ R = S \ {x} /\ f[x] = t[x].booked
    BY <1>3
  <2> HIDE DEF f, S, R
  <2>2. SumFunctionOnSet(f, S) = f[x] + SumFunctionOnSet(f, S \ {x})
    BY <1>1, <2>1, SumRemove
  <2>3. SumFunctionOnSet(f, S \ {x}) \in Int /\ f[x] \in Int
    <3>1. IsFiniteSet(S \ {x})
      BY <1>1, FS_Subset
    <3> QED
      BY <1>1, <2>1, <3>1, SumInt
  <2> QED
    BY <1>2, <1>3, <2>1, <2>2, <2>3
<1>4. CASE SkuOf[x] # sku
  <2>1. R = S
    BY <1>4
  <2>2. HeldOf(t, T, sku) = HeldOf(t, T \ {x}, sku)
    BY <1>2, <2>1
  <2>3. HeldOf(t, T, sku) \in Int
    <3> HIDE DEF f, S, R
    <3>1. SumFunctionOnSet(f, S) \in Int
      BY <1>1, SumInt
    <3> QED
      BY <1>2, <3>1
  <2> HIDE DEF f, S, R
  <2> QED
    BY <1>4, <2>2, <2>3
<1> QED
  BY <1>3, <1>4

\* Line by line or product by product, the units are the same.
LEMMA SumBySku ==
    ASSUME NEW t \in [Lines -> Line], NEW p \in Singles, NEW T \in SUBSET Lines
    PROVE  SumFunctionOnSet(BySku(t, T, p), Skus) = On(t, T, p)
<1> DEFINE Good == {U \in SUBSET Lines : SumFunctionOnSet(BySku(t, U, p), Skus) = On(t, U, p)}
<1>1. ASSUME NEW U \in SUBSET Lines, \A x \in U : U \ {x} \in Good
      PROVE  SumFunctionOnSet(BySku(t, U, p), Skus) = On(t, U, p)
  <2>1. CASE U = {}
    <3>1. On(t, U, p) = 0
      <4>1. \A l \in Lines : Weights(t, U, p)[l] = 0
        BY <2>1, WeightsType
      <4> QED
        BY <4>1, SetsFinite, SumZero DEF On
    <3>2. \A sku \in Skus : HeldOf(t, U, sku) = 0
      <4> SUFFICES ASSUME NEW sku \in Skus PROVE HeldOf(t, U, sku) = 0
        OBVIOUS
      <4>1. {l \in U : SkuOf[l] = sku} = {}
        BY <2>1
      <4> QED
        BY <4>1, SumEmpty DEF HeldOf
    <3>3. \A sku \in Skus : BySku(t, U, p)[sku] = 0
      <4> SUFFICES ASSUME NEW sku \in Skus PROVE BySku(t, U, p)[sku] = 0
        OBVIOUS
      <4>1. /\ Units(sku, 0)[p] = 0 * Contents(sku)[p] /\ Contents(sku)[p] \in Nat
        BY UnitsType, ContentsType
      <4>2. \A n \in Nat : 0 * n = 0
        OBVIOUS
      <4> QED
        BY <3>2, <4>1, <4>2 DEF BySku
    <3>4. SumFunctionOnSet(BySku(t, U, p), Skus) = 0
      BY <3>3, SetsFinite, SumZero
    <3> QED
      BY <3>1, <3>4
  <2>2. ASSUME NEW x \in U
        PROVE  SumFunctionOnSet(BySku(t, U, p), Skus) = On(t, U, p)
    <3> DEFINE R == U \ {x}
               e == SkuOf[x]
               f == BySku(t, R, p)
               g == BySku(t, U, p)
    <3>1. SumFunctionOnSet(f, Skus) = On(t, R, p) /\ R \in SUBSET Lines /\ x \in Lines
      BY <1>1
    <3>2. e \in Skus
      BY LineSku
    <3>3. \A sku \in Skus : f[sku] \in Int /\ g[sku] \in Int
      BY <3>1, HeldOfType
    <3>4. \A sku \in Skus \ {e} : g[sku] = f[sku]
      <4> SUFFICES ASSUME NEW sku \in Skus \ {e} PROVE g[sku] = f[sku]
        OBVIOUS
      <4>1. HeldOf(t, U, sku) = HeldOf(t, R, sku) + 0 /\ HeldOf(t, R, sku) \in Nat
        BY <3>1, HeldOfTurn, HeldOfType
      <4> QED
        BY <4>1 DEF BySku
    <3>5. g[e] = f[e] + OnLine(t, x, p)
      <4> DEFINE a == HeldOf(t, R, e)
                 b == t[x].booked
                 c == Contents(e)[p]
      <4>1. HeldOf(t, U, e) = a + b /\ a \in Nat /\ b \in Nat
        BY <3>1, <3>2, HeldOfTurn, HeldOfType DEF Line
      <4>2. c \in Nat
        BY <3>2, ContentsType
      <4>3. /\ g[e] = HeldOf(t, U, e) * c /\ f[e] = a * c
            /\ OnLine(t, x, p) = b * c
        BY <3>1, <3>2, <4>1, HeldOfType, UnitsType DEF BySku, OnLine
      <4> HIDE DEF a, b, c, f, g
      <4>4. (a + b) * c = a * c + b * c
        BY <4>1, <4>2
      <4> QED
        BY <4>1, <4>3, <4>4
    <3>6. On(t, U, p) = On(t, R, p) - 0 + OnLine(t, x, p)
      BY <3>1, OnTurn
    <3>7. On(t, R, p) \in Nat /\ OnLine(t, x, p) \in Nat
      BY <3>1, OnType, OnLineType
    <3> HIDE DEF f, g, R, e
    <3>8. SumFunctionOnSet(g, Skus) = SumFunctionOnSet(f, Skus) + g[e] - f[e]
      BY <3>2, <3>3, <3>4, SetsFinite, SumChange
    <3>9. f[e] \in Int
      BY <3>2, <3>3
    <3>10. SumFunctionOnSet(g, Skus) = On(t, U, p)
      BY <3>1, <3>5, <3>6, <3>7, <3>8, <3>9
    <3> QED
      BY <3>10 DEF g
  <2> QED
    BY <2>1, <2>2
<1>2. \A U \in SUBSET Lines : (\A x \in U : U \ {x} \in Good) => U \in Good
  BY <1>1
<1> HIDE DEF Good
<1>3. SUBSET Lines \subseteq Good
  BY <1>2, SetsFinite, SetInduction
<1> QED
  BY <1>3 DEF Good

LEMMA StatisticsAre ==
    ASSUME line \in [Lines -> Line], NEW status
    PROVE  Statistics(status) = BookedAs(status)
<1> DEFINE T == {l \in Lines : line[l].status = status}
<1>1. ASSUME NEW p \in Singles
      PROVE  Statistics(status)[p] = BookedAs(status)[p]
  <2>1. \A sku : BookedTotal(sku, status) = HeldOf(line, T, sku)
    <3> SUFFICES ASSUME NEW sku PROVE BookedTotal(sku, status) = HeldOf(line, T, sku)
      OBVIOUS
    <3>1. {l \in T : SkuOf[l] = sku} = {l \in Lines : SkuOf[l] = sku /\ line[l].status = status}
      OBVIOUS
    <3> QED
      BY <3>1 DEF BookedTotal, HeldOf
  <2>2. [sku \in Skus |-> Units(sku, BookedTotal(sku, status))[p]] = BySku(line, T, p)
    BY <2>1 DEF BySku
  <2>3. Statistics(status)[p] = SumFunctionOnSet(BySku(line, T, p), Skus)
    BY <2>2 DEF Statistics
  <2>4. BookedAs(status)[p] = On(line, T, p)
    BY BookedOnIs DEF BookedAs
  <2> HIDE DEF T
  <2>5. T \in SUBSET Lines
    BY DEF T
  <2> QED
    BY <2>3, <2>4, <2>5, SumBySku
<1> QED
  BY <1>1 DEF Statistics, BookedAs, BookedOn


--------------------------------------------------------------------------------
(* The order update *)

\* No order has two lines of one product.
OnePerProduct ==
    \A l, k \in Lines : l # k /\ OrderOf[l] = OrderOf[k] => SkuOf[l] # SkuOf[k]

\* What the lines of a status hold of each single.
TotalOf(t, status) == HeldBy(t, {l \in Lines : t[l].status = status})

\* Two tables whose lines of a status are the same, with the same bookings.
LEMMA SameTotals ==
    ASSUME NEW t \in [Lines -> Line], NEW u \in [Lines -> Line], NEW status,
           \A l \in Lines : /\ u[l].status = status <=> t[l].status = status
                            /\ t[l].status = status => u[l].booked = t[l].booked
    PROVE  TotalOf(u, status) = TotalOf(t, status)
<1> DEFINE S == {l \in Lines : t[l].status = status}
           T == {l \in Lines : u[l].status = status}
<1>1. /\ S \in SUBSET Lines /\ T \in SUBSET Lines
      /\ \A l \in Lines : (l \in S <=> l \in T) /\ (l \in S => u[l].booked = t[l].booked)
  OBVIOUS
<1> HIDE DEF S, T
<1>2. ASSUME NEW p \in Singles
      PROVE  HeldBy(u, T)[p] = HeldBy(t, S)[p]
  <2>1. On(u, T, p) = On(t, S, p)
    BY <1>1, OnSame
  <2> QED
    BY <1>1, <2>1, HeldByIs
<1>3. HeldBy(u, T) = HeldBy(t, S)
  BY <1>2 DEF HeldBy
<1> QED
  BY <1>3 DEF S, T, TotalOf

LEMMA TotalsKept ==
    ASSUME Types, Types', NEW status,
           \A l \in Lines : /\ line'[l].status = status <=> line[l].status = status
                            /\ line[l].status = status => line'[l].booked = line[l].booked
    PROVE  BookedAs(status)' = BookedAs(status)
<1>1. PICK t : t = line
  OBVIOUS
<1>2. PICK u : u = line'
  OBVIOUS
<1>3. t \in [Lines -> Line] /\ u \in [Lines -> Line]
  BY <1>1, <1>2 DEF Types
<1>4. \A l \in Lines : /\ u[l].status = status <=> t[l].status = status
                       /\ t[l].status = status => u[l].booked = t[l].booked
  BY <1>1, <1>2
<1>5. TotalOf(u, status) = TotalOf(t, status)
  BY <1>3, <1>4, SameTotals
<1>6. BookedAs(status) = TotalOf(t, status)
  BY <1>1 DEF BookedAs, BookedOn, HeldBy, TotalOf
<1>7. BookedAs(status)' = TotalOf(u, status)
  BY <1>2 DEF BookedAs, BookedOn, HeldBy, TotalOf
<1> QED
  BY <1>5, <1>6, <1>7

LEMMA EditKeeps ==
    ASSUME OnePerProduct, Types, NEW o, EditOrder(o), NEW status \in {"TEMPORARY", "CONFIRMED"}
    PROVE  BookedAs(status)' = BookedAs(status)
<1>1. PICK qty \in [LinesOf(o) -> Amounts], last \in [Skus -> Lines] :
        /\ \A sku \in Skus : Carried(o, sku) # {} => last[sku] \in Carried(o, sku)
        /\ line' = [l \in Lines |->
                IF l \notin LinesOf(o) THEN line[l]
                ELSE IF Carried(o, SkuOf[l]) = {} THEN Unbooked(qty[l])
                ELSE [line[last[SkuOf[l]]] EXCEPT !.qty = qty[l]]]
  BY DEF EditOrder
<1>2. ASSUME NEW l \in Lines
      PROVE  /\ line'[l].status = status <=> line[l].status = status
             /\ line[l].status = status => line'[l].booked = line[l].booked
  <2>1. CASE l \notin LinesOf(o)
    BY <1>1, <2>1
  <2>2. CASE l \in LinesOf(o) /\ Carried(o, SkuOf[l]) = {}
    <3>1. line[l].status = "NONE" /\ line'[l].status = "NONE"
      BY <1>1, <2>2 DEF Carried, Unbooked
    <3> QED
      BY <3>1
  <2>3. CASE l \in LinesOf(o) /\ Carried(o, SkuOf[l]) # {}
    <3>1. SkuOf[l] \in Skus
      BY LineSku
    <3>2. last[SkuOf[l]] \in Carried(o, SkuOf[l])
      BY <1>1, <2>3, <3>1
    <3>3. last[SkuOf[l]] = l
      BY <2>3, <3>2 DEF Carried, LinesOf, OnePerProduct
    <3>4. line'[l] = [line[l] EXCEPT !.qty = qty[l]] /\ line[l] \in Line
      BY <1>1, <2>3, <3>3 DEF Types
    <3> QED
      BY <3>4 DEF Line
  <2> QED
    BY <2>1, <2>2, <2>3
<1>3. Types'
  BY EditTypes
<1> QED
  BY <1>2, <1>3, TotalsKept

\* Saving an order keeps what its lines hold of every product, temporary and
\* approved, for every set of products, combos and lines, and whatever requests
\* did before it: as long as no order has two lines of one product.
THEOREM EditsKeepBookings == ASSUME OnePerProduct PROVE Spec => EditKeepsBookings
<1>1. Init => Types
  BY InitTypes
<1>2. Types /\ [Next]_vars => Types'
  BY StepTypes
<1>3. Types /\ [Next]_vars =>
        [\A o \in Orders : EditOrder(o) =>
            /\ BookedAs("TEMPORARY")' = BookedAs("TEMPORARY")
            /\ BookedAs("CONFIRMED")' = BookedAs("CONFIRMED")]_vars
  BY EditKeeps
<1> QED
  BY <1>1, <1>2, <1>3, PTL DEF Spec, EditKeepsBookings


--------------------------------------------------------------------------------
(* Requests that do not overlap *)

Serial == Overlap = "one at a time"
NoIssue == "issue" \notin Calls

\* Request r is the only one that may be in flight.
Lone(r) ==
    /\ \A s \in Requests \ {r} : req[s] = Idle
    /\ req[r].call = "idle" => req[r] = Idle

Put(r, q) == req' = [req EXCEPT ![r] = q]

\* A request that waits for nothing else finds the others idle.
LEMMA Quiet ==
    ASSUME Serial, NEW r \in Requests, Lone(r), Admits
    PROVE  \A s \in Requests : req[s] = Idle /\ Lone(s)
<1>1. InFlight = {}
  BY DEF Serial, Admits
<1>2. \A s \in Requests : req[s] = Idle
  BY <1>1 DEF InFlight, Lone
<1> QED
  BY <1>2 DEF Lone

\* The request that takes a step is the lone one.
LEMMA InTurn ==
    ASSUME NEW r \in Requests, Lone(r), NEW s \in Requests, req[s].call # "idle"
    PROVE  s = r
<1>1. Idle.call = "idle"
  BY DEF Idle
<1> QED
  BY <1>1 DEF Lone

LEMMA LonePut ==
    ASSUME Types, NEW r \in Requests, Lone(r), NEW q, q.call = "idle" => q = Idle, Put(r, q)
    PROVE  Lone(r)' /\ req'[r] = q
  BY DEF Types, Lone, Put

\* The request that is left when a line is done.
LEMMA RestIs ==
    ASSUME Types, NEW r \in Requests, NEW l
    PROVE  \/ Without(r, l) = Idle
           \/ /\ Without(r, l).call = req[r].call
              /\ Without(r, l).at = NoLine
              /\ Without(r, l).seen = req[r].seen
              /\ DOMAIN Without(r, l).todo = DOMAIN req[r].todo \ {l}
<1>1. req[r] \in Request
  BY DEF Types
<1>2. CASE DOMAIN req[r].todo = {l}
  BY <1>2 DEF Without
<1>3. CASE DOMAIN req[r].todo # {l}
  <2> DEFINE rest == Restrict(req[r].todo, DOMAIN req[r].todo \ {l})
  <2>1. DOMAIN rest = DOMAIN req[r].todo \ {l}
    BY DEF Restrict
  <2>2. Without(r, l) = [req[r] EXCEPT !.todo = rest, !.at = NoLine]
    BY <1>3 DEF Without
  <2> HIDE DEF rest
  <2> QED
    BY <1>1, <2>1, <2>2 DEF Request
<1> QED
  BY <1>2, <1>3

\* What a request keeps when it moves to a line.
Moves(p, l, q) ==
    /\ q.call = p.call
    /\ q.at = l
    /\ DOMAIN q.todo = DOMAIN p.todo
    /\ q.seen.line = p.seen.line
    /\ q.seen.approved = p.seen.approved

LEMMA MoveTurn ==
    ASSUME Types, NEW r \in Requests, NEW l \in Lines,
           BookCounters(r, l) \/ ExpireCounters(r, l) \/ RevertCounters(r, l)
    PROVE  \E q : Put(r, q) /\ Moves(req[r], l, q)
<1>1. req[r] \in Request
  BY DEF Types
<1>2. CASE BookCounters(r, l)
  <2> DEFINE todo == [req[r].todo EXCEPT ![l] = LeftToBook(r, l)]
             q == [req[r] EXCEPT !.at = l, !.todo = todo]
  <2>1. req' = [req EXCEPT ![r] = q]
    BY <1>2 DEF BookCounters, Types
  <2>2. DOMAIN todo = DOMAIN req[r].todo
    OBVIOUS
  <2> HIDE DEF todo
  <2>3. Moves(req[r], l, q)
    BY <1>1, <2>2 DEF Moves, Request
  <2> QED
    BY <2>1, <2>3 DEF Put
<1>3. CASE ExpireCounters(r, l) \/ RevertCounters(r, l)
  <2> DEFINE q == [req[r] EXCEPT !.at = l]
  <2>1. req' = [req EXCEPT ![r] = q]
    BY <1>3 DEF ExpireCounters, RevertCounters, Types
  <2>2. Moves(req[r], l, q)
    BY <1>1 DEF Moves, Request
  <2> QED
    BY <2>1, <2>2 DEF Put
<1> QED
  BY <1>2, <1>3

LEMMA ConfirmTurn ==
    ASSUME Types, NEW r \in Requests, NEW l \in Lines, ConfirmCounters(r, l)
    PROVE  \E q : /\ Put(r, q)
                  /\ Moves(req[r], l, q)
                  /\ q.todo[l] \in Nat
                  /\ approved' = Written(SkuOf[l], approved, ApprovedWith(r, l, q.todo[l]))
<1>1. PICK n \in 0..req[r].seen.line[l].qty :
        /\ approved' = Written(SkuOf[l], approved, ApprovedWith(r, l, n))
        /\ req' = [req EXCEPT
                      ![r].at = l,
                      ![r].todo[l] = n,
                      ![r].seen.stock = [p \in Singles |-> @[p] - Units(SkuOf[l], n)[p]]]
  BY DEF ConfirmCounters
<1>2. req[r] \in Request /\ l \in DOMAIN req[r].todo
  BY DEF Types, ConfirmCounters, Picks
<1>3. n \in Nat
  <2>1. req[r].seen.line[l].qty \in 0..MaxAmount
    BY Working DEF Line
  <2> QED
    BY <2>1, MaxAmountType
<1> DEFINE left == [p \in Singles |-> req[r].seen.stock[p] - Units(SkuOf[l], n)[p]]
           seen == [req[r].seen EXCEPT !.stock = left]
           todo == [req[r].todo EXCEPT ![l] = n]
           q == [req[r] EXCEPT !.at = l, !.todo = todo, !.seen = seen]
<1>4. req' = [req EXCEPT ![r] = q]
  BY <1>1 DEF Types
<1>5. DOMAIN todo = DOMAIN req[r].todo /\ todo[l] = n
  BY <1>2
<1>6. seen.line = req[r].seen.line /\ seen.approved = req[r].seen.approved
  <2> HIDE DEF left
  <2> QED
    BY <1>2 DEF Request
<1> HIDE DEF todo, seen
<1>7. Moves(req[r], l, q) /\ q.todo = todo
  BY <1>2, <1>5, <1>6 DEF Moves, Request
<1>8. q.todo[l] \in Nat /\ q.todo[l] = n
  BY <1>3, <1>5, <1>7
<1> HIDE DEF q
<1>9. approved' = Written(SkuOf[l], approved, ApprovedWith(r, l, q.todo[l]))
  BY <1>1, <1>8
<1> QED
  BY <1>4, <1>7, <1>8, <1>9 DEF Put

LEMMA BeginTurn ==
    ASSUME Types, NEW r \in Requests, NEW call, NEW todo, Begin(r, call, todo)
    PROVE  \E q : /\ Put(r, q)
                  /\ q.call = call /\ q.at = NoLine /\ q.todo = todo
                  /\ q.seen = Snapshot
<1> DEFINE q == [call |-> call, todo |-> todo, at |-> NoLine, seen |-> Snapshot]
<1>1. req' = [req EXCEPT ![r] = q]
  BY DEF Begin
<1>2. q.call = call /\ q.at = NoLine /\ q.todo = todo /\ q.seen = Snapshot
  OBVIOUS
<1> HIDE DEF q
<1> QED
  BY <1>1, <1>2 DEF Put

LEMMA SyncTurn ==
    ASSUME Types, NEW r \in Requests, NEW p \in Singles, SyncProduct(r, p)
    PROVE  \E q : /\ Put(r, q)
                  /\ q.call = "sync" /\ q.at = req[r].at /\ q.seen = req[r].seen
                  /\ DOMAIN q.todo = DOMAIN req[r].todo \ {p}
<1> DEFINE todo == Restrict(req[r].todo, DOMAIN req[r].todo \ {p})
           q == [req[r] EXCEPT !.todo = todo]
<1>1. req' = [req EXCEPT ![r] = q]
  BY DEF SyncProduct, Types
<1>2. DOMAIN todo = DOMAIN req[r].todo \ {p}
  BY DEF Restrict
<1> HIDE DEF todo
<1>3. req[r] \in Request /\ req[r].call = "sync"
  BY DEF Types, SyncProduct
<1>4. q.call = "sync" /\ q.at = req[r].at /\ q.seen = req[r].seen /\ q.todo = todo
  BY <1>3 DEF Request
<1> QED
  BY <1>1, <1>2, <1>4 DEF Put

--------------------------------------------------------------------------------
(* What a sync leaves behind *)

\* A sync in flight carries the totals of the lines, and has given them to the
\* products it is done with.
SyncBooks(q) ==
    q.call = "sync" =>
        /\ q.seen.booking = BookedAs("TEMPORARY")
        /\ q.seen.approved = BookedAs("CONFIRMED")
        /\ \A p \in Singles : p \notin DOMAIN q.todo =>
               booking[p] = q.seen.booking[p] /\ approved[p] = q.seen.approved[p]

SyncInv == issued = {} /\ \E r \in Requests : Lone(r) /\ SyncBooks(req[r])

LEMMA SyncFree ==
    ASSUME Types, issued' = {}, NEW r \in Requests, Lone(r), NEW q, Put(r, q),
           q.call # "sync", q.call = "idle" => q = Idle
    PROVE  SyncInv'
<1>1. Lone(r)' /\ req'[r] = q
  BY LonePut
<1>2. SyncBooks(req[r])'
  BY <1>1 DEF SyncBooks
<1> QED
  BY <1>1, <1>2 DEF SyncInv

\* The lines keep their bookings while a sync is in flight.
LEMMA SyncSame ==
    ASSUME Types, Types', SyncInv, UNCHANGED <<booking, approved, issued, req>>,
           \A l \in Lines : /\ line'[l].status = line[l].status
                            /\ line'[l].booked = line[l].booked
    PROVE  SyncInv'
<1>1. /\ BookedAs("TEMPORARY")' = BookedAs("TEMPORARY")
      /\ BookedAs("CONFIRMED")' = BookedAs("CONFIRMED")
  BY TotalsKept
<1>2. PICK r \in Requests : Lone(r) /\ SyncBooks(req[r])
  BY DEF SyncInv
<1>3. SyncBooks(req[r])'
  BY <1>1, <1>2 DEF SyncBooks
<1>4. Lone(r)'
  BY <1>2 DEF Lone
<1> QED
  BY <1>3, <1>4 DEF SyncInv

LEMMA SyncBegins ==
    ASSUME Serial, Types, SyncInv, NEW r \in Requests, BeginSync(r)
    PROVE  SyncInv'
<1> DEFINE seen == [Snapshot EXCEPT !.booking = Statistics("TEMPORARY"),
                                    !.approved = Statistics("CONFIRMED")]
           q == [call |-> "sync", todo |-> [p \in Singles |-> 0], at |-> NoLine, seen |-> seen]
<1>1. req' = [req EXCEPT ![r] = q] /\ issued' = {}
  BY DEF BeginSync, SyncInv
<1>2. seen.booking = Statistics("TEMPORARY") /\ seen.approved = Statistics("CONFIRMED")
  BY DEF Snapshot
<1> HIDE DEF seen
<1>3. q.call = "sync" /\ q.seen = seen /\ DOMAIN q.todo = Singles
  OBVIOUS
<1> HIDE DEF q
<1>4. PICK s \in Requests : Lone(s)
  BY DEF SyncInv
<1>5. Lone(r)
  BY <1>4, Quiet DEF BeginSync
<1>6. Lone(r)' /\ req'[r] = q
  <2>1. q.call = "idle" => q = Idle
    BY <1>3
  <2>2. Put(r, q)
    BY <1>1 DEF Put
  <2> QED
    BY <1>5, <2>1, <2>2, LonePut
<1>7. seen.booking = BookedAs("TEMPORARY") /\ seen.approved = BookedAs("CONFIRMED")
  BY <1>2, StatisticsAre DEF Types
<1>8. /\ BookedAs("TEMPORARY")' = BookedAs("TEMPORARY")
      /\ BookedAs("CONFIRMED")' = BookedAs("CONFIRMED")
  BY DEF BeginSync, BookedAs, BookedOn
<1>9. SyncBooks(req[r])'
  BY <1>3, <1>6, <1>7, <1>8 DEF SyncBooks
<1> QED
  BY <1>1, <1>6, <1>9 DEF SyncInv

LEMMA SyncSets ==
    ASSUME Types, SyncInv, NEW r \in Requests, NEW p \in Singles, SyncProduct(r, p)
    PROVE  SyncInv'
<1>1. PICK s \in Requests : Lone(s) /\ SyncBooks(req[s])
  BY DEF SyncInv
<1>2. req[r].call = "sync" /\ s = r
  BY <1>1, InTurn DEF SyncProduct
<1>3. PICK q : /\ Put(r, q)
               /\ q.call = "sync" /\ q.at = req[r].at /\ q.seen = req[r].seen
               /\ DOMAIN q.todo = DOMAIN req[r].todo \ {p}
  BY SyncTurn
<1>4. Lone(r)' /\ req'[r] = q
  BY <1>1, <1>2, <1>3, LonePut
<1>5. /\ BookedAs("TEMPORARY")' = BookedAs("TEMPORARY")
      /\ BookedAs("CONFIRMED")' = BookedAs("CONFIRMED")
  BY DEF SyncProduct, BookedAs, BookedOn
<1>6. ASSUME NEW k \in Singles, k \notin DOMAIN q.todo
      PROVE  booking'[k] = q.seen.booking[k] /\ approved'[k] = q.seen.approved[k]
  <2>1. /\ booking' = [booking EXCEPT ![p] = req[r].seen.booking[p]]
        /\ approved' = [approved EXCEPT ![p] = req[r].seen.approved[p]]
        /\ booking \in Counter /\ approved \in Counter
    BY DEF SyncProduct, Types
  <2>2. CASE k = p
    BY <1>3, <2>1, <2>2 DEF Counter
  <2>3. CASE k # p
    <3>1. booking[k] = req[r].seen.booking[k] /\ approved[k] = req[r].seen.approved[k]
      BY <1>1, <1>2, <1>3, <1>6, <2>3 DEF SyncBooks
    <3> QED
      BY <1>3, <2>1, <2>3, <3>1 DEF Counter
  <2> QED
    BY <2>2, <2>3
<1>7. SyncBooks(req[r])'
  BY <1>1, <1>2, <1>3, <1>4, <1>5, <1>6 DEF SyncBooks
<1>8. issued' = {}
  BY DEF SyncInv, SyncProduct
<1> QED
  BY <1>4, <1>7, <1>8 DEF SyncInv

LEMMA SyncAside ==
    ASSUME Types, SyncInv, NEW r \in Requests, NEW l \in Lines,
           \/ SkipBook(r, l) \/ BookCounters(r, l) \/ BookLine(r, l)
           \/ ConfirmCounters(r, l) \/ ConfirmLine(r, l)
           \/ ExpireCounters(r, l) \/ ExpireLine(r, l)
           \/ RevertCounters(r, l) \/ RevertLine(r, l)
    PROVE  SyncInv'
<1>1. req[r].call \in {"book", "confirm", "expire", "revert"} /\ issued' = {}
  BY DEF SyncInv, SkipBook, BookCounters, BookLine, ConfirmCounters, ConfirmLine,
     ExpireCounters, ExpireLine, RevertCounters, RevertLine, Picks
<1>2. Lone(r)
  <2>1. PICK s \in Requests : Lone(s)
    BY DEF SyncInv
  <2> QED
    BY <1>1, <2>1, InTurn
<1>3. ASSUME NEW q, Put(r, q), q.call = req[r].call
      PROVE  SyncInv'
  BY <1>1, <1>2, <1>3, SyncFree
<1>4. CASE Put(r, Without(r, l))
  <2>1. CASE Without(r, l) = Idle
    <3>1. Idle.call # "sync"
      BY DEF Idle
    <3>2. Put(r, Idle)
      BY <1>4, <2>1
    <3> QED
      BY <1>1, <1>2, <3>1, <3>2, SyncFree
  <2>2. CASE Without(r, l).call = req[r].call
    BY <1>3, <1>4, <2>2
  <2> QED
    BY <2>1, <2>2, RestIs
<1>5. CASE BookCounters(r, l) \/ ExpireCounters(r, l) \/ RevertCounters(r, l)
  BY <1>3, <1>5, MoveTurn DEF Moves
<1>6. CASE ConfirmCounters(r, l)
  BY <1>3, <1>6, ConfirmTurn DEF Moves
<1> QED
  BY <1>4, <1>5, <1>6 DEF SkipBook, BookLine, ConfirmLine, ExpireLine, RevertLine, Put

\* What stands when the last statement of a sync is done.
LEMMA SyncEnds ==
    ASSUME Types, SyncInv, NEW r \in Requests, SyncLines(r)
    PROVE  /\ SyncInv'
           /\ booking' = BookedAs("TEMPORARY")'
           /\ approved' = BookedAs("CONFIRMED")'
<1>1. PICK s \in Requests : Lone(s) /\ SyncBooks(req[s])
  BY DEF SyncInv
<1>2. req[r].call = "sync" /\ s = r
  BY <1>1, InTurn DEF SyncLines
<1>3. issued = {} /\ issued' = {}
  BY DEF SyncInv, SyncLines
<1>4. SyncInv'
  <2>1. Put(r, Idle) /\ Idle.call # "sync"
    BY DEF SyncLines, Put, Idle
  <2> QED
    BY <1>1, <1>2, <1>3, <2>1, SyncFree
<1>5. \A l \in Lines : line'[l] = line[l]
  BY <1>3 DEF SyncLines, ApprovedInBulk
<1>6. Types'
  BY SyncTypes
<1>7. /\ BookedAs("TEMPORARY")' = BookedAs("TEMPORARY")
      /\ BookedAs("CONFIRMED")' = BookedAs("CONFIRMED")
  BY <1>5, <1>6, TotalsKept
<1>8. /\ req[r].seen.booking = BookedAs("TEMPORARY")
      /\ req[r].seen.approved = BookedAs("CONFIRMED")
      /\ \A p \in Singles : /\ booking[p] = req[r].seen.booking[p]
                            /\ approved[p] = req[r].seen.approved[p]
  BY <1>1, <1>2 DEF SyncBooks, SyncLines
<1>9. /\ booking \in Counter /\ approved \in Counter
      /\ req[r].seen.booking \in Counter /\ req[r].seen.approved \in Counter
  BY Working DEF Types
<1>10. booking = req[r].seen.booking /\ approved = req[r].seen.approved
  BY <1>8, <1>9 DEF Counter
<1>11. booking' = booking /\ approved' = approved
  BY DEF SyncLines
<1> QED
  BY <1>4, <1>7, <1>8, <1>10, <1>11


LEMMA SyncPreserved ==
    ASSUME Serial, NoIssue, Types, SyncInv, [Next]_vars
    PROVE  SyncInv'
<1>0. Types'
  BY StepTypes
<1>1. ASSUME UNCHANGED <<booking, approved, line, issued, req>>
      PROVE  SyncInv'
  BY <1>0, <1>1, SyncSame
<1>2. CASE UNCHANGED vars
  BY <1>1, <1>2 DEF vars
<1>3. ASSUME NEW r \in Requests, StepOf(r)
      PROVE  SyncInv'
  BY <1>3, SyncAside, SyncSets, SyncEnds DEF StepOf
<1>4. ASSUME NEW r \in Requests, NEW call \in {"book", "confirm", "revert", "expire"},
             NEW todo, Begin(r, call, todo)
      PROVE  SyncInv'
  <2>1. PICK q : Put(r, q) /\ q.call = call
    BY <1>4, BeginTurn
  <2>2. PICK s \in Requests : Lone(s)
    BY DEF SyncInv
  <2>3. Lone(r)
    BY <1>4, <2>2, Quiet DEF Begin
  <2>4. issued' = {}
    BY <1>4 DEF Begin, SyncInv
  <2> QED
    BY <2>1, <2>3, <2>4, SyncFree
<1>5. CASE Revert
  BY <1>4, <1>5 DEF Revert, BeginRevert
<1>6. CASE NextButRevert
  <2>1. ASSUME NEW r \in Requests, Fail(r)
        PROVE  SyncInv'
    <3>1. PICK s \in Requests : Lone(s)
      BY DEF SyncInv
    <3>2. Lone(r)
      BY <2>1, <3>1, InTurn DEF Fail
    <3>3. Put(r, Idle) /\ Idle.call # "sync" /\ issued' = {}
      BY <2>1 DEF Fail, Put, Idle, SyncInv
    <3> QED
      BY <3>2, <3>3, SyncFree
  <2>2. ASSUME NEW r \in Requests, BeginSync(r)
        PROVE  SyncInv'
    BY <2>2, SyncBegins
  <2>3. ASSUME NEW r \in Requests, BeginBook(r) \/ BeginConfirm(r)
        PROVE  SyncInv'
    BY <1>4, <2>3 DEF BeginBook, BeginConfirm
  <2>4. CASE BeginExpire
    <3>1. CronSlot \in Requests
      BY BookingConstants, Zenon DEF BookingConstants
    <3> QED
      BY <1>4, <2>4, <3>1 DEF BeginExpire
  <2>5. ASSUME NEW o, ConfirmGoodsIssue(o)
        PROVE  FALSE
    BY <2>5 DEF ConfirmGoodsIssue, UserCall, NoIssue
  <2>6. ASSUME NEW o, EditOrder(o)
        PROVE  SyncInv'
    <3>1. PICK s \in Requests : Lone(s)
      BY DEF SyncInv
    <3>2. req[s] = Idle /\ Idle.call # "sync" /\ req \in [Requests -> Request]
      BY <2>6, <3>1 DEF EditOrder, InFlight, Lone, Idle, Types
    <3>3. Put(s, Idle) /\ issued' = {}
      BY <2>6, <3>2 DEF EditOrder, SyncInv, Put
    <3> QED
      BY <3>1, <3>2, <3>3, SyncFree
  <2>7. ASSUME NEW p \in Singles, Supply(p)
        PROVE  SyncInv'
    BY <1>1, <2>7 DEF Supply
  <2>8. ASSUME NEW l \in Lines, DeadlinePasses(l)
        PROVE  SyncInv'
    <3>1. \A k \in Lines : /\ line'[k].status = line[k].status
                           /\ line'[k].booked = line[k].booked
      BY <2>8 DEF DeadlinePasses, Types, Line
    <3> QED
      BY <1>0, <2>8, <3>1, SyncSame DEF DeadlinePasses
  <2> QED
    BY <1>3, <1>6, <2>1, <2>2, <2>3, <2>4, <2>5, <2>6, <2>7, <2>8 DEF NextButRevert
<1> QED
  BY <1>2, <1>5, <1>6 DEF Next

LEMMA QuietAtFirst ==
    ASSUME Init
    PROVE  issued = {} /\ \E r \in Requests : Lone(r) /\ req[r] = Idle
<1>1. CronSlot \in Requests
  BY BookingConstants, Zenon DEF BookingConstants
<1> QED
  BY <1>1 DEF Init, Lone

\* A sync leaves booking_stock and approved_booking_stock of every product at
\* the totals of the lines as they are, for every set of products, combos and
\* lines, after whatever requests and faults came before: as long as requests do
\* not overlap and no goods issue has approved bookings in bulk.
THEOREM SyncsAreExact == ASSUME Serial, NoIssue PROVE Spec => SyncIsExact
<1>1. Init => Types /\ SyncInv
  <2> SUFFICES ASSUME Init PROVE Types /\ SyncInv
    OBVIOUS
  <2>1. Idle.call # "sync"
    BY DEF Idle
  <2> QED
    BY <2>1, InitTypes, QuietAtFirst DEF SyncInv, SyncBooks
<1>2. Types /\ SyncInv /\ [Next]_vars => (Types /\ SyncInv)'
  BY StepTypes, SyncPreserved
<1>3. Types /\ SyncInv /\ [Next]_vars =>
        [\A r \in Requests : SyncLines(r) =>
            /\ booking' = BookedAs("TEMPORARY")'
            /\ approved' = BookedAs("CONFIRMED")']_vars
  BY SyncEnds
<1> QED
  BY <1>1, <1>2, <1>3, PTL DEF Spec, SyncIsExact


--------------------------------------------------------------------------------
(* Approved bookings and the counter that stands for them *)

\* The lines of a table whose approval is not in the middle of its revert, the
\* units of an approval whose line is still to be written, and a counter that
\* has both.
FixedIn(t, q) == {l \in Lines : t[l].status = "CONFIRMED" /\ l # q.at}
Pending(q, p) ==
    IF q.call = "confirm" /\ q.at \in Lines THEN Units(SkuOf[q.at], q.todo[q.at])[p] ELSE 0
Covers(t, a, q) == \A p \in Singles : On(t, FixedIn(t, q), p) + Pending(q, p) <= a[p]

\* Fewer lines count, and the counter is no smaller.
LEMMA CoversLess ==
    ASSUME NEW t \in [Lines -> Line], NEW u \in [Lines -> Line],
           NEW a \in Counter, NEW b \in Counter, NEW p, NEW q,
           Covers(t, a, p),
           \A s \in Singles : Pending(p, s) \in Nat /\ Pending(q, s) = 0 /\ a[s] <= b[s],
           \A l \in Lines : u[l].status = "CONFIRMED" /\ l # q.at =>
               t[l].status = "CONFIRMED" /\ l # p.at /\ u[l].booked = t[l].booked
    PROVE  Covers(u, b, q)
<1> SUFFICES ASSUME NEW s \in Singles
             PROVE  On(u, FixedIn(u, q), s) + Pending(q, s) <= b[s]
  BY DEF Covers
<1> DEFINE S == FixedIn(t, p)
           T == FixedIn(u, q)
<1>1. \A l \in Lines : l \in T => l \in S /\ u[l].booked = t[l].booked
  BY DEF FixedIn
<1>2. On(t, S, s) + Pending(p, s) <= a[s]
  BY DEF Covers
<1> HIDE DEF S, T
<1>3. On(u, T, s) <= On(t, S, s)
  BY <1>1, OnLess
<1>4. On(u, T, s) \in Nat /\ On(t, S, s) \in Nat
  BY OnType
<1>5. a[s] \in Nat /\ b[s] \in Nat /\ a[s] <= b[s]
  BY DEF Counter
<1>6. Pending(p, s) \in Nat /\ Pending(q, s) = 0
  OBVIOUS
<1>7. On(u, T, s) + Pending(q, s) <= b[s]
  BY <1>2, <1>3, <1>4, <1>5, <1>6
<1> QED
  BY <1>7 DEF T

\* Counters first: the approval adds its units to the counter.
LEMMA CoversTaken ==
    ASSUME NEW t \in [Lines -> Line], NEW a \in Counter, NEW b \in Counter, NEW p, NEW q,
           NEW l \in Lines,
           Covers(t, a, p), p.at = NoLine, q.at = l, q.call = "confirm", q.todo[l] \in Nat,
           t[l].status = "TEMPORARY",
           \A s \in Singles : b[s] = a[s] + Units(SkuOf[l], q.todo[l])[s]
    PROVE  Covers(t, b, q)
<1> SUFFICES ASSUME NEW s \in Singles
             PROVE  On(t, FixedIn(t, q), s) + Pending(q, s) <= b[s]
  BY DEF Covers
<1>1. FixedIn(t, q) = FixedIn(t, p)
  BY NoLineIsNone DEF FixedIn
<1>2. Pending(p, s) = 0 /\ Pending(q, s) = Units(SkuOf[l], q.todo[l])[s]
  BY NoLineIsNone DEF Pending
<1>3. On(t, FixedIn(t, p), s) + Pending(p, s) <= a[s]
  BY DEF Covers
<1>4. On(t, FixedIn(t, p), s) \in Nat
  BY OnType
<1>5. Units(SkuOf[l], q.todo[l])[s] \in Nat
  BY LineSku, UnitsType
<1>6. a[s] \in Nat /\ b[s] = a[s] + Units(SkuOf[l], q.todo[l])[s]
  BY DEF Counter
<1> QED
  BY <1>1, <1>2, <1>3, <1>4, <1>5, <1>6

\* Then the line: its units are no longer pending but held.
LEMMA CoversHeld ==
    ASSUME NEW t \in [Lines -> Line], NEW u \in [Lines -> Line], NEW a \in Counter,
           NEW p, NEW q, NEW l \in Lines,
           Covers(t, a, p), p.at = l, p.call = "confirm", q.at = NoLine,
           u[l].booked = p.todo[l], p.todo[l] \in Nat,
           \A k \in Lines \ {l} : u[k].booked = t[k].booked /\ u[k].status = t[k].status
    PROVE  Covers(u, a, q)
<1> SUFFICES ASSUME NEW s \in Singles
             PROVE  On(u, FixedIn(u, q), s) + Pending(q, s) <= a[s]
  BY DEF Covers
<1> DEFINE S == FixedIn(t, p)
           T == FixedIn(u, q)
           n == Units(SkuOf[l], p.todo[l])[s]
<1>1. l \notin S /\ \A k \in Lines \ {l} : (k \in T <=> k \in S) /\ u[k].booked = t[k].booked
  BY NoLineIsNone DEF FixedIn
<1>2. Pending(p, s) = n /\ Pending(q, s) = 0
  BY NoLineIsNone DEF Pending
<1>3. On(t, S, s) + Pending(p, s) <= a[s]
  BY DEF Covers
<1>4. OnLine(u, l, s) = n
  BY DEF OnLine
<1>5. n \in Nat /\ a[s] \in Nat
  BY LineSku, UnitsType DEF Counter
<1> HIDE DEF S, T, n
<1>6. On(u, T, s) = On(t, S, s) - (IF l \in S THEN OnLine(t, l, s) ELSE 0)
                                + (IF l \in T THEN OnLine(u, l, s) ELSE 0)
  BY <1>1, OnTurn
<1>7. On(t, S, s) \in Nat /\ On(u, T, s) \in Nat
  BY OnType
<1>8. On(u, T, s) <= On(t, S, s) + n
  BY <1>1, <1>4, <1>5, <1>6, <1>7
<1>9. On(u, T, s) + Pending(q, s) <= a[s]
  BY <1>2, <1>3, <1>5, <1>7, <1>8
<1> QED
  BY <1>9 DEF T

\* A revert takes the units of its line off the counter.
LEMMA CoversFreed ==
    ASSUME NEW t \in [Lines -> Line], NEW a \in Counter, NEW b \in Counter, NEW p, NEW q,
           NEW l \in Lines,
           Covers(t, a, p), p.at = NoLine, q.at = l, q.call = "revert",
           t[l].status = "CONFIRMED",
           \A s \in Singles : b[s] >= a[s] - OnLine(t, l, s)
    PROVE  Covers(t, b, q)
<1> SUFFICES ASSUME NEW s \in Singles
             PROVE  On(t, FixedIn(t, q), s) + Pending(q, s) <= b[s]
  BY DEF Covers
<1> DEFINE S == FixedIn(t, p)
           T == FixedIn(t, q)
<1>1. l \in S /\ l \notin T /\ \A k \in Lines \ {l} : k \in T <=> k \in S
  BY NoLineIsNone DEF FixedIn
<1>2. Pending(p, s) = 0 /\ Pending(q, s) = 0
  BY NoLineIsNone DEF Pending
<1>3. On(t, S, s) + Pending(p, s) <= a[s]
  BY DEF Covers
<1>4. a[s] \in Nat /\ b[s] \in Nat /\ b[s] >= a[s] - OnLine(t, l, s)
  BY DEF Counter
<1>5. OnLine(t, l, s) \in Nat
  BY OnLineType
<1> HIDE DEF S, T
<1>6. On(t, T, s) = On(t, S, s) - (IF l \in S THEN OnLine(t, l, s) ELSE 0)
                                + (IF l \in T THEN OnLine(t, l, s) ELSE 0)
  BY <1>1, OnTurn
<1>7. On(t, S, s) \in Nat /\ On(t, T, s) \in Nat
  BY OnType
<1>8. On(t, T, s) = On(t, S, s) - OnLine(t, l, s)
  BY <1>1, <1>5, <1>6, <1>7
<1>9. On(t, T, s) + Pending(q, s) <= b[s]
  BY <1>2, <1>3, <1>4, <1>5, <1>7, <1>8
<1> QED
  BY <1>9 DEF T

\* With no line at work, all approved lines count.
LEMMA CoversAll ==
    ASSUME NEW t \in [Lines -> Line], NEW a \in Counter, NEW q, q.at = NoLine
    PROVE  Covers(t, a, q) <=> \A p \in Singles : TotalOf(t, "CONFIRMED")[p] <= a[p]
<1> DEFINE S == {l \in Lines : t[l].status = "CONFIRMED"}
<1>1. FixedIn(t, q) = S
  BY NoLineIsNone DEF FixedIn
<1>2. ASSUME NEW p \in Singles
      PROVE  (On(t, FixedIn(t, q), p) + Pending(q, p) <= a[p])
                 <=> TotalOf(t, "CONFIRMED")[p] <= a[p]
  <2>1. Pending(q, p) = 0
    BY NoLineIsNone DEF Pending
  <2>2. TotalOf(t, "CONFIRMED")[p] = On(t, S, p)
    BY HeldByIs DEF TotalOf
  <2>3. On(t, S, p) \in Nat
    BY OnType
  <2> HIDE DEF S
  <2> QED
    BY <1>1, <2>1, <2>2, <2>3
<1> QED
  BY <1>2 DEF Covers


\* No order has two lines of one product, nor of products with a part in common.
NoSharedPart ==
    \A l, k \in Lines : l # k /\ OrderOf[l] = OrderOf[k] =>
        SkuOf[l] # SkuOf[k] /\ Parts(SkuOf[l]) \cap Parts(SkuOf[k]) = {}

\* An approval in flight has temporary lines of one order to do, and the counters
\* it has read of those still to come are the counters as they are.
ConfirmBooks(q) ==
    q.call = "confirm" => \A l \in DOMAIN q.todo :
        /\ l \in Lines
        /\ line[l].status = "TEMPORARY"
        /\ \A k \in DOMAIN q.todo : OrderOf[k] = OrderOf[l]
        /\ l # q.at => \A p \in Parts(SkuOf[l]) : q.seen.approved[p] = approved[p]

\* A revert in flight has read its line and its counters as they are.
RevertBooks(q) ==
    q.call = "revert" => \A l \in DOMAIN q.todo :
        /\ l \in Lines
        /\ \A k \in DOMAIN q.todo : k = l
        /\ q.at = NoLine =>
               /\ line[l].status = "CONFIRMED"
               /\ line[l].booked = q.seen.line[l].booked
               /\ q.seen.approved = approved

CoverInv ==
    \E r \in Requests :
        /\ Lone(r)
        /\ ConfirmBooks(req[r])
        /\ RevertBooks(req[r])
        /\ faults = 0 => Covers(line, approved, req[r])

LEMMA CoverPut ==
    ASSUME Types, NEW r \in Requests, Lone(r), NEW q, Put(r, q), q.call = "idle" => q = Idle,
           ConfirmBooks(q)', RevertBooks(q)', faults' = 0 => Covers(line', approved', q)
    PROVE  CoverInv'
<1>1. Lone(r)' /\ req'[r] = q
  BY LonePut
<1>2. ConfirmBooks(req[r])' /\ RevertBooks(req[r])'
  BY <1>1 DEF ConfirmBooks, RevertBooks
<1>3. faults' = 0 => Covers(line', approved', req'[r])
  BY <1>1
<1> QED
  BY <1>1, <1>2, <1>3 DEF CoverInv

\* The counter stays.
LEMMA CoversStill ==
    ASSUME NEW t \in [Lines -> Line], NEW u \in [Lines -> Line], NEW a \in Counter, NEW p, NEW q,
           Covers(t, a, p),
           \A s \in Singles : Pending(p, s) \in Nat /\ Pending(q, s) = 0,
           \A l \in Lines : u[l].status = "CONFIRMED" /\ l # q.at =>
               t[l].status = "CONFIRMED" /\ l # p.at /\ u[l].booked = t[l].booked
    PROVE  Covers(u, a, q)
<1>1. \A s \in Singles : Pending(p, s) \in Nat /\ Pending(q, s) = 0 /\ a[s] <= a[s]
  BY DEF Counter
<1> QED
  BY <1>1, CoversLess

\* What a request holds back is a number of units.
LEMMA PendingType ==
    ASSUME NEW q, RequestOK(q), NEW p \in Singles
    PROVE  /\ Pending(q, p) \in Nat
           /\ q.call # "confirm" \/ q.at = NoLine => Pending(q, p) = 0
<1>1. ASSUME q.at \in Lines
      PROVE  Units(SkuOf[q.at], q.todo[q.at])[p] \in Nat
  <2>1. q.at \in DOMAIN q.todo /\ q.todo \in Todo
    BY <1>1, NoLineIsNone DEF RequestOK, Request
  <2>2. q.todo[q.at] \in Nat
    BY <2>1, TodoElements, MaxAmountType
  <2> QED
    BY <1>1, <2>2, LineSku, UnitsType
<1> QED
  BY <1>1, NoLineIsNone DEF Pending

\* A step that leaves the counter alone and approves no line.
LEMMA CoverRest ==
    ASSUME Types, Types', NEW r \in Requests, Lone(r),
           faults = 0 => Covers(line, approved, req[r]),
           NEW q, Put(r, q), q.call = "idle" => q = Idle,
           ConfirmBooks(q)', RevertBooks(q)',
           q.call # "confirm" \/ q.at = NoLine,
           approved' = approved, faults' = faults,
           \A l \in Lines : line'[l].status = "CONFIRMED" /\ l # q.at =>
               /\ line[l].status = "CONFIRMED" /\ l # req[r].at
               /\ line'[l].booked = line[l].booked
    PROVE  CoverInv'
<1>1. PICK t : t = line
  OBVIOUS
<1>2. PICK u : u = line'
  OBVIOUS
<1>3. PICK p : p = req[r]
  OBVIOUS
<1>4. t \in [Lines -> Line] /\ u \in [Lines -> Line] /\ approved \in Counter
  BY <1>1, <1>2 DEF Types
<1>0. PICK a : a = approved
  OBVIOUS
<1>5. \A s \in Singles : Pending(p, s) \in Nat /\ Pending(q, s) = 0
  <2> SUFFICES ASSUME NEW s \in Singles
               PROVE  Pending(p, s) \in Nat /\ Pending(q, s) = 0
    OBVIOUS
  <2>2. Pending(q, s) = 0
    BY NoLineIsNone DEF Pending
  <2>3. RequestOK(p)
    BY <1>3 DEF Types
  <2> QED
    BY <2>2, <2>3, PendingType
<1>6. \A l \in Lines : u[l].status = "CONFIRMED" /\ l # q.at =>
          t[l].status = "CONFIRMED" /\ l # p.at /\ u[l].booked = t[l].booked
  BY <1>1, <1>2, <1>3
<1>7. ASSUME faults = 0
      PROVE  Covers(u, approved, q)
  <2>1. Covers(t, a, p) /\ a \in Counter
    BY <1>0, <1>1, <1>3, <1>4, <1>7
  <2>2. Covers(u, a, q)
    BY <1>4, <1>5, <1>6, <2>1, CoversStill
  <2> QED
    BY <1>0, <2>2
<1>9. faults' = 0 => Covers(line', approved', q)
  BY <1>2, <1>7
<1> QED
  BY <1>9, CoverPut

LEMMA RestBooks ==
    ASSUME Types, NEW r \in Requests, NEW l \in Lines, req[r].at = l, approved' = approved,
           ConfirmBooks(req[r]), RevertBooks(req[r]),
           \A k \in Lines \ {l} : line'[k] = line[k],
           req[r].call # "idle",
           NEW q, q = Without(r, l)
    PROVE  ConfirmBooks(q)' /\ RevertBooks(q)'
<1>1. l \in DOMAIN req[r].todo
  BY NoLineIsNone DEF Types, RequestOK
<1>2. CASE q = Idle
  BY <1>2 DEF Idle, ConfirmBooks, RevertBooks
<1>3. CASE /\ q.call = req[r].call
           /\ q.seen = req[r].seen
           /\ DOMAIN q.todo = DOMAIN req[r].todo \ {l}
  <2>1. ASSUME q.call = "confirm", NEW k \in DOMAIN q.todo
        PROVE  /\ k \in Lines
               /\ line'[k].status = "TEMPORARY"
               /\ \A m \in DOMAIN q.todo : OrderOf[m] = OrderOf[k]
               /\ \A p \in Parts(SkuOf[k]) : q.seen.approved[p] = approved'[p]
    <3>1. k \in DOMAIN req[r].todo /\ k # l /\ req[r].call = "confirm"
      BY <1>3, <2>1
    <3>2. /\ k \in Lines
          /\ line[k].status = "TEMPORARY"
          /\ \A m \in DOMAIN req[r].todo : OrderOf[m] = OrderOf[k]
          /\ \A p \in Parts(SkuOf[k]) : req[r].seen.approved[p] = approved[p]
      BY <3>1 DEF ConfirmBooks
    <3> QED
      BY <1>3, <3>1, <3>2
  <2>2. q.call = "revert" => DOMAIN q.todo = {}
    BY <1>1, <1>3 DEF RevertBooks
  <2>3. ConfirmBooks(q)'
    BY <2>1 DEF ConfirmBooks
  <2>4. RevertBooks(q)'
    BY <2>2 DEF RevertBooks
  <2> QED
    BY <2>3, <2>4
<1> QED
  BY <1>2, <1>3, RestIs

\* Bookings and the hourly job approve nothing.
LEMMA CoverAside ==
    ASSUME Types, Types', CoverInv, NEW r \in Requests, NEW l \in Lines,
           \/ SkipBook(r, l) \/ BookCounters(r, l) \/ BookLine(r, l)
           \/ ExpireCounters(r, l) \/ ExpireLine(r, l)
    PROVE  CoverInv'
<1>1. req[r].call \in {"book", "expire"} /\ approved' = approved /\ faults' = faults
  BY DEF SkipBook, BookCounters, BookLine, ExpireCounters, ExpireLine, Picks
<1>2. /\ Lone(r)
      /\ faults = 0 => Covers(line, approved, req[r])
  <2>1. PICK s \in Requests : Lone(s) /\ (faults = 0 => Covers(line, approved, req[s]))
    BY DEF CoverInv
  <2>2. s = r
    BY <1>1, <2>1, InTurn
  <2> QED
    BY <2>1, <2>2
<1>3. ASSUME NEW q, Put(r, q), q.call \in {"book", "expire"} \/ q = Idle,
             \A k \in Lines : line'[k].status = "CONFIRMED" /\ k # q.at =>
                 /\ line[k].status = "CONFIRMED" /\ k # req[r].at
                 /\ line'[k].booked = line[k].booked
      PROVE  CoverInv'
  <2>1. /\ q.call # "confirm" /\ q.call # "revert"
        /\ q.call = "idle" => q = Idle
    BY <1>3 DEF Idle
  <2>2. ConfirmBooks(q)' /\ RevertBooks(q)'
    BY <2>1 DEF ConfirmBooks, RevertBooks
  <2> QED
    BY <1>1, <1>2, <1>3, <2>1, <2>2, CoverRest
<1>4. CASE SkipBook(r, l) \/ BookLine(r, l) \/ ExpireLine(r, l)
  <2>1. PICK q : q = Without(r, l)
    OBVIOUS
  <2>2. Put(r, q)
    BY <1>4, <2>1 DEF SkipBook, BookLine, ExpireLine, Put
  <2>3. (q.call \in {"book", "expire"} \/ q = Idle) /\ q.at = NoLine
    BY <1>1, <2>1, RestIs DEF Idle
  <2>4. ASSUME NEW k \in Lines, line'[k].status = "CONFIRMED"
        PROVE  /\ line[k].status = "CONFIRMED" /\ k # req[r].at
               /\ line'[k].booked = line[k].booked
    <3>1. CASE SkipBook(r, l)
      BY <2>4, <3>1, NoLineIsNone DEF SkipBook, Picks
    <3>2. CASE BookLine(r, l) \/ ExpireLine(r, l)
      <4>1. req[r].at = l /\ \A m \in Lines \ {l} : line'[m] = line[m]
        BY <3>2 DEF BookLine, ExpireLine, Types
      <4>2. req[r].seen.line[l] \in Line /\ line \in [Lines -> Line]
        BY Working DEF Types
      <4>3. PICK was : was = req[r].seen.line[l]
        OBVIOUS
      <4>4. CASE BookLine(r, l)
        <5>1. line' = [line EXCEPT ![l] = [was EXCEPT !.booked = @ + req[r].todo[l],
                                                    !.status = "TEMPORARY", !.due = "ahead"]]
          BY <4>3, <4>4 DEF BookLine
        <5> QED
          BY <2>4, <4>1, <4>2, <4>3, <5>1 DEF Line
      <4>5. CASE ExpireLine(r, l)
        <5>1. line' = [line EXCEPT ![l] = [was EXCEPT !.status = "EXPIRED", !.booked = 0,
                                                    !.due = "none"]]
          BY <4>3, <4>5 DEF ExpireLine
        <5> QED
          BY <2>4, <4>1, <4>2, <4>3, <5>1 DEF Line
      <4> QED
        BY <3>2, <4>4, <4>5
    <3> QED
      BY <1>4, <3>1, <3>2
  <2> QED
    BY <1>3, <2>2, <2>3, <2>4
<1>5. CASE BookCounters(r, l) \/ ExpireCounters(r, l)
  <2>1. PICK q : Put(r, q) /\ Moves(req[r], l, q)
    BY <1>5, MoveTurn
  <2>2. q.call \in {"book", "expire"} /\ req[r].at = NoLine /\ line' = line
    BY <1>1, <1>5, <2>1 DEF BookCounters, ExpireCounters, Picks, Moves
  <2> QED
    BY <1>3, <2>1, <2>2, NoLineIsNone
<1> QED
  BY <1>4, <1>5


LEMMA CoverLone ==
    ASSUME CoverInv, NEW r \in Requests, req[r].call # "idle"
    PROVE  /\ Lone(r) /\ ConfirmBooks(req[r]) /\ RevertBooks(req[r])
           /\ faults = 0 => Covers(line, approved, req[r])
<1>1. PICK s \in Requests :
        /\ Lone(s) /\ ConfirmBooks(req[s]) /\ RevertBooks(req[s])
        /\ faults = 0 => Covers(line, approved, req[s])
  BY DEF CoverInv
<1>2. s = r
  BY <1>1, InTurn
<1> QED
  BY <1>1, <1>2

\* An approval starts from the counters as they are, and adds its units.
LEMMA CoverConfirm ==
    ASSUME NoSharedPart, Types, Types', CoverInv, NEW r \in Requests, NEW l \in Lines,
           ConfirmCounters(r, l)
    PROVE  CoverInv'
<1>1. /\ req[r].call = "confirm" /\ req[r].at = NoLine /\ l \in DOMAIN req[r].todo
      /\ line' = line /\ faults' = faults
  BY DEF ConfirmCounters, Picks
<1>2. /\ Lone(r) /\ ConfirmBooks(req[r])
      /\ faults = 0 => Covers(line, approved, req[r])
  BY <1>1, CoverLone
<1>3. PICK q : /\ Put(r, q)
               /\ Moves(req[r], l, q)
               /\ q.todo[l] \in Nat
               /\ approved' = Written(SkuOf[l], approved, ApprovedWith(r, l, q.todo[l]))
  BY ConfirmTurn
<1>4. /\ q.call = "confirm" /\ q.at = l /\ DOMAIN q.todo = DOMAIN req[r].todo
      /\ q.seen.approved = req[r].seen.approved
  BY <1>1, <1>3 DEF Moves
<1>5. approved \in Counter /\ approved' \in Counter
  BY DEF Types
<1>6. ASSUME NEW p \in Singles
      PROVE  /\ approved'[p] = approved[p] + Units(SkuOf[l], q.todo[l])[p]
             /\ p \notin Parts(SkuOf[l]) => approved'[p] = approved[p]
  <2> DEFINE n == Units(SkuOf[l], q.todo[l])[p]
             known == Known(SkuOf[l], req[r].seen.approved, approved)
  <2>1. approved'[p] = IF p \in Parts(SkuOf[l]) THEN known[p] + n ELSE approved[p]
    BY <1>3 DEF Written, ApprovedWith
  <2>2. approved[p] \in Nat /\ n \in Nat
    BY <1>3, <1>5, LineSku, UnitsType DEF Counter
  <2>3. p \in Parts(SkuOf[l]) => known[p] = approved[p]
    BY <1>1, <1>2, NoLineIsNone DEF ConfirmBooks, Known
  <2>4. p \notin Parts(SkuOf[l]) => n = 0
    <3>1. n = q.todo[l] * Contents(SkuOf[l])[p] /\ Contents(SkuOf[l])[p] \in Nat
      BY <1>3, LineSku, UnitsType, ContentsType
    <3>2. p \notin Parts(SkuOf[l]) => Contents(SkuOf[l])[p] = 0
      BY <3>1 DEF Parts
    <3>3. \A m \in Nat : m * 0 = 0
      OBVIOUS
    <3> QED
      BY <1>3, <3>1, <3>2, <3>3
  <2> HIDE DEF n, known
  <2>5. approved'[p] = approved[p] + n
    BY <2>1, <2>2, <2>3, <2>4
  <2> QED
    BY <2>1, <2>5 DEF n
<1>7. ConfirmBooks(q)'
  <2>1. ASSUME NEW k \in DOMAIN q.todo
        PROVE  /\ k \in Lines
               /\ line'[k].status = "TEMPORARY"
               /\ \A m \in DOMAIN q.todo : OrderOf[m] = OrderOf[k]
               /\ k # q.at => \A p \in Parts(SkuOf[k]) : q.seen.approved[p] = approved'[p]
    <3>1. /\ k \in Lines /\ k # NoLine
          /\ line[k].status = "TEMPORARY"
          /\ \A m \in DOMAIN req[r].todo : OrderOf[m] = OrderOf[k]
          /\ \A p \in Parts(SkuOf[k]) : req[r].seen.approved[p] = approved[p]
      BY <1>1, <1>2, <1>4, NoLineIsNone DEF ConfirmBooks
    <3>2. ASSUME k # l, NEW p \in Parts(SkuOf[k])
          PROVE  q.seen.approved[p] = approved'[p]
      <4>1. OrderOf[l] = OrderOf[k]
        BY <1>1, <3>1
      <4>2. p \notin Parts(SkuOf[l]) /\ p \in Singles
        BY <3>1, <3>2, <4>1 DEF NoSharedPart, Parts
      <4> QED
        BY <1>4, <1>6, <3>1, <4>2
    <3> QED
      BY <1>1, <1>4, <3>1, <3>2
  <2> QED
    BY <2>1 DEF ConfirmBooks
<1>8. RevertBooks(q)'
  BY <1>4 DEF RevertBooks
<1>9. ASSUME faults' = 0
      PROVE  Covers(line', approved', q)
  <2>1. PICK t, a, b, p : t = line /\ a = approved /\ b = approved' /\ p = req[r]
    OBVIOUS
  <2>2. Covers(t, a, p) /\ p.at = NoLine
    BY <1>1, <1>2, <1>9, <2>1
  <2>3. t \in [Lines -> Line] /\ a \in Counter /\ b \in Counter
    BY <1>5, <2>1 DEF Types
  <2>4. t[l].status = "TEMPORARY"
    BY <1>1, <1>2, <2>1 DEF ConfirmBooks
  <2>5. \A s \in Singles : b[s] = a[s] + Units(SkuOf[l], q.todo[l])[s]
    BY <1>6, <2>1
  <2>6. Covers(t, b, q)
    BY <1>3, <1>4, <2>2, <2>3, <2>4, <2>5, CoversTaken
  <2> QED
    BY <1>1, <2>1, <2>6
<1>10. q.call = "idle" => q = Idle
  BY <1>4
<1> QED
  BY <1>2, <1>3, <1>7, <1>8, <1>9, <1>10, CoverPut

LEMMA CoverConfirmLine ==
    ASSUME Types, Types', CoverInv, NEW r \in Requests, NEW l \in Lines, ConfirmLine(r, l)
    PROVE  CoverInv'
<1>1. /\ req[r].call = "confirm" /\ req[r].at = l
      /\ approved' = approved /\ faults' = faults
  BY DEF ConfirmLine
<1>2. /\ Lone(r) /\ ConfirmBooks(req[r]) /\ RevertBooks(req[r])
      /\ faults = 0 => Covers(line, approved, req[r])
  BY <1>1, CoverLone
<1>3. PICK q : q = Without(r, l)
  OBVIOUS
<1>4. Put(r, q)
  BY <1>3 DEF ConfirmLine, Put
<1>5. /\ \A k \in Lines \ {l} : line'[k] = line[k]
      /\ line'[l].booked = req[r].todo[l]
  <2>1. line[l] \in Line
    BY DEF Types
  <2>2. line'[l] = [line[l] EXCEPT !.status = "CONFIRMED", !.due = "none",
                                   !.booked = req[r].todo[l]]
    BY DEF ConfirmLine, Types
  <2>3. line'[l].booked = req[r].todo[l]
    BY <2>1, <2>2 DEF Line
  <2> QED
    BY <2>3 DEF ConfirmLine, Types
<1>6. ConfirmBooks(q)' /\ RevertBooks(q)'
  BY <1>1, <1>2, <1>3, <1>5, RestBooks
<1>7. (q.call = "idle" => q = Idle) /\ q.at = NoLine
  BY <1>1, <1>3, RestIs DEF Idle
<1>8. ASSUME faults' = 0
      PROVE  Covers(line', approved', q)
  <2>1. PICK t, u, a, p : t = line /\ u = line' /\ a = approved /\ p = req[r]
    OBVIOUS
  <2>2. Covers(t, a, p) /\ p.at = l /\ p.call = "confirm"
    BY <1>1, <1>2, <1>8, <2>1
  <2>3. t \in [Lines -> Line] /\ u \in [Lines -> Line] /\ a \in Counter
    BY <2>1 DEF Types
  <2>4. u[l].booked = p.todo[l] /\ p.todo[l] \in Nat
    BY <1>1, <1>5, <2>1, AtTask, MaxAmountType
  <2>5. \A k \in Lines \ {l} : u[k].booked = t[k].booked /\ u[k].status = t[k].status
    BY <1>5, <2>1
  <2>6. Covers(u, a, q)
    BY <1>7, <2>2, <2>3, <2>4, <2>5, CoversHeld
  <2> QED
    BY <1>1, <2>1, <2>6
<1> QED
  BY <1>2, <1>4, <1>6, <1>7, <1>8, CoverPut

LEMMA CoverRevert ==
    ASSUME Types, Types', CoverInv, NEW r \in Requests, NEW l \in Lines, RevertCounters(r, l)
    PROVE  CoverInv'
<1>1. /\ req[r].call = "revert" /\ req[r].at = NoLine /\ l \in DOMAIN req[r].todo
      /\ line' = line /\ faults' = faults
  BY DEF RevertCounters, Picks
<1>2. /\ Lone(r) /\ RevertBooks(req[r])
      /\ faults = 0 => Covers(line, approved, req[r])
  BY <1>1, CoverLone
<1>3. PICK q : Put(r, q) /\ Moves(req[r], l, q)
  BY MoveTurn
<1>4. /\ q.call = "revert" /\ q.at = l /\ DOMAIN q.todo = DOMAIN req[r].todo
  BY <1>1, <1>3 DEF Moves
<1>5. approved \in Counter /\ approved' \in Counter /\ line \in [Lines -> Line]
  BY DEF Types
<1>6. /\ line[l].status = "CONFIRMED" /\ line[l].booked = req[r].seen.line[l].booked
      /\ req[r].seen.approved = approved
      /\ \A k \in DOMAIN req[r].todo : \A m \in DOMAIN req[r].todo : m = k
  BY <1>1, <1>2 DEF RevertBooks
<1>7. ASSUME NEW p \in Singles
      PROVE  approved'[p] >= approved[p] - OnLine(line, l, p)
  <2> DEFINE n == Units(SkuOf[l], req[r].seen.line[l].booked)[p]
             known == Known(SkuOf[l], req[r].seen.approved, approved)
  <2>1. approved'[p] = IF p \in Parts(SkuOf[l]) THEN FromZero(known[p] - n) ELSE approved[p]
    BY DEF RevertCounters, Written
  <2>2. known[p] = approved[p]
    BY <1>6 DEF Known
  <2>3. OnLine(line, l, p) = n /\ n \in Nat
    BY <1>5, <1>6, OnLineType DEF OnLine
  <2>4. approved[p] \in Nat
    BY <1>5 DEF Counter
  <2> HIDE DEF n, known
  <2> QED
    BY <2>1, <2>2, <2>3, <2>4 DEF FromZero
<1>8. ConfirmBooks(q)' /\ RevertBooks(q)'
  <2>1. \A k \in DOMAIN q.todo : k = l
    BY <1>1, <1>4, <1>6
  <2>2. q.at # NoLine
    BY <1>4, NoLineIsNone
  <2>3. ConfirmBooks(q)'
    BY <1>4 DEF ConfirmBooks
  <2>4. RevertBooks(q)'
    BY <2>1, <2>2 DEF RevertBooks
  <2> QED
    BY <2>3, <2>4
<1>9. ASSUME faults' = 0
      PROVE  Covers(line', approved', q)
  <2>1. PICK t, a, b, p : t = line /\ a = approved /\ b = approved' /\ p = req[r]
    OBVIOUS
  <2>2. Covers(t, a, p) /\ p.at = NoLine
    BY <1>1, <1>2, <1>9, <2>1
  <2>3. t \in [Lines -> Line] /\ a \in Counter /\ b \in Counter /\ t[l].status = "CONFIRMED"
    BY <1>5, <1>6, <2>1
  <2>4. \A s \in Singles : b[s] >= a[s] - OnLine(t, l, s)
    BY <1>7, <2>1
  <2>5. Covers(t, b, q)
    BY <1>4, <2>2, <2>3, <2>4, CoversFreed
  <2> QED
    BY <1>1, <2>1, <2>5
<1>10. q.call = "idle" => q = Idle
  BY <1>4
<1> QED
  BY <1>2, <1>3, <1>8, <1>9, <1>10, CoverPut

LEMMA CoverRevertLine ==
    ASSUME Types, Types', CoverInv, NEW r \in Requests, NEW l \in Lines, RevertLine(r, l)
    PROVE  CoverInv'
<1>1. /\ req[r].call = "revert" /\ req[r].at = l
      /\ approved' = approved /\ faults' = faults
  BY DEF RevertLine
<1>2. /\ Lone(r) /\ ConfirmBooks(req[r]) /\ RevertBooks(req[r])
      /\ faults = 0 => Covers(line, approved, req[r])
  BY <1>1, CoverLone
<1>3. PICK q : q = Without(r, l)
  OBVIOUS
<1>4. Put(r, q)
  BY <1>3 DEF RevertLine, Put
<1>5. \A k \in Lines \ {l} : line'[k] = line[k]
  BY DEF RevertLine, Types
<1>6. line'[l].status # "CONFIRMED"
  <2>1. req[r].seen.line[l] \in Line
    BY Working
  <2> QED
    BY <2>1 DEF RevertLine, Types, Line
<1>7. ConfirmBooks(q)' /\ RevertBooks(q)'
  BY <1>1, <1>2, <1>3, <1>5, RestBooks
<1>8. (q.call = "idle" => q = Idle) /\ q.at = NoLine
  BY <1>1, <1>3, RestIs DEF Idle
<1>9. \A k \in Lines : line'[k].status = "CONFIRMED" /\ k # q.at =>
          /\ line[k].status = "CONFIRMED" /\ k # req[r].at
          /\ line'[k].booked = line[k].booked
  BY <1>1, <1>5, <1>6
<1> QED
  BY <1>1, <1>2, <1>4, <1>7, <1>8, <1>9, CoverRest


\* A sync writes the totals of the lines, which cover themselves.
LEMMA CoverSync ==
    ASSUME Types, Types', SyncInv, CoverInv, NEW r \in Requests, NEW p \in Singles,
           SyncProduct(r, p)
    PROVE  CoverInv'
<1>1. /\ req[r].call = "sync" /\ req[r].at = NoLine
      /\ line' = line /\ faults' = faults
      /\ approved' = [approved EXCEPT ![p] = req[r].seen.approved[p]]
  BY DEF SyncProduct, Types, RequestOK
<1>2. Lone(r) /\ (faults = 0 => Covers(line, approved, req[r]))
  BY <1>1, CoverLone
<1>3. PICK q : Put(r, q) /\ q.call = "sync" /\ q.at = req[r].at
  BY SyncTurn
<1>4. req[r].seen.approved = BookedAs("CONFIRMED")
  <2>1. PICK s \in Requests : Lone(s) /\ SyncBooks(req[s])
    BY DEF SyncInv
  <2>2. s = r
    BY <1>1, <2>1, InTurn
  <2> QED
    BY <1>1, <2>1, <2>2 DEF SyncBooks
<1>5. ASSUME faults' = 0
      PROVE  Covers(line', approved', q)
  <2>1. PICK t, a, b : t = line /\ a = approved /\ b = approved'
    OBVIOUS
  <2>2. t \in [Lines -> Line] /\ a \in Counter /\ b \in Counter
    BY <2>1 DEF Types
  <2>3. \A s \in Singles : TotalOf(t, "CONFIRMED")[s] <= a[s]
    <3>1. PICK g : g = req[r]
      OBVIOUS
    <3>2. Covers(t, a, g) /\ g.at = NoLine
      BY <1>1, <1>2, <1>5, <2>1, <3>1
    <3> QED
      BY <2>2, <3>2, CoversAll
  <2>4. TotalOf(t, "CONFIRMED") = req[r].seen.approved
    BY <1>4, <2>1 DEF BookedAs, BookedOn, HeldBy, TotalOf
  <2>5. ASSUME NEW s \in Singles
        PROVE  TotalOf(t, "CONFIRMED")[s] <= b[s]
    <3>1. b[s] = IF s = p THEN req[r].seen.approved[p] ELSE a[s]
      BY <1>1, <2>1, <2>2 DEF Counter
    <3>2. req[r].seen.approved[p] \in Nat
      BY Working DEF Counter
    <3>3. s = p => TotalOf(t, "CONFIRMED")[s] = req[r].seen.approved[p]
      BY <2>4
    <3>4. s = p => TotalOf(t, "CONFIRMED")[s] = b[s] /\ b[s] \in Nat
      BY <3>1, <3>2, <3>3
    <3>5. s # p => TotalOf(t, "CONFIRMED")[s] <= b[s]
      BY <2>3, <3>1
    <3>6. \A x, y : x = y /\ y \in Nat => x <= y
      OBVIOUS
    <3> QED
      BY <3>4, <3>5, <3>6
  <2>6. Covers(t, b, q)
    BY <1>1, <1>3, <2>2, <2>5, CoversAll
  <2> QED
    BY <1>1, <2>1, <2>6
<1>6. ConfirmBooks(q)' /\ RevertBooks(q)' /\ (q.call = "idle" => q = Idle)
  BY <1>3 DEF ConfirmBooks, RevertBooks
<1> QED
  BY <1>2, <1>3, <1>5, <1>6, CoverPut

LEMMA CoverSyncEnds ==
    ASSUME Types, Types', SyncInv, CoverInv, NEW r \in Requests, SyncLines(r)
    PROVE  CoverInv'
<1>1. /\ req[r].call = "sync" /\ req[r].at = NoLine
      /\ approved' = approved /\ faults' = faults
  BY DEF SyncLines, Types, RequestOK
<1>2. Lone(r) /\ (faults = 0 => Covers(line, approved, req[r]))
  BY <1>1, CoverLone
<1>3. \A k \in Lines : line'[k] = line[k]
  BY DEF SyncInv, SyncLines, ApprovedInBulk
<1>4. Put(r, Idle) /\ Idle.call # "confirm" /\ Idle.call # "revert"
  BY DEF SyncLines, Put, Idle
<1>5. ConfirmBooks(Idle)' /\ RevertBooks(Idle)'
  BY <1>4 DEF ConfirmBooks, RevertBooks
<1>6. \A k \in Lines : line'[k].status = "CONFIRMED" /\ k # Idle.at =>
          /\ line[k].status = "CONFIRMED" /\ k # req[r].at
          /\ line'[k].booked = line[k].booked
  BY <1>1, <1>3, NoLineIsNone
<1> QED
  BY <1>1, <1>2, <1>4, <1>5, <1>6, CoverRest

\* With nothing in flight, whoever comes next finds the counters covering.
LEMMA CoverQuiet ==
    ASSUME Serial, Types, CoverInv, NEW r \in Requests, Admits
    PROVE  /\ \A s \in Requests : req[s] = Idle /\ Lone(s)
           /\ faults = 0 => Covers(line, approved, req[r])
<1>1. PICK s \in Requests : Lone(s) /\ (faults = 0 => Covers(line, approved, req[s]))
  BY DEF CoverInv
<1>2. \A g \in Requests : req[g] = Idle /\ Lone(g)
  BY <1>1, Quiet
<1>3. req[s] = req[r]
  BY <1>2
<1> QED
  BY <1>1, <1>2, <1>3

LEMMA CoverBegin ==
    ASSUME Serial, Types, Types', CoverInv, NEW r \in Requests, Admits,
           UNCHANGED <<line, approved, faults>>,
           NEW q, Put(r, q), q.call # "idle", q.at = NoLine,
           ConfirmBooks(q)', RevertBooks(q)'
    PROVE  CoverInv'
<1>1. Lone(r) /\ req[r].at = NoLine /\ (faults = 0 => Covers(line, approved, req[r]))
  BY CoverQuiet DEF Idle
<1>2. \A k \in Lines : line'[k].status = "CONFIRMED" /\ k # q.at =>
          /\ line[k].status = "CONFIRMED" /\ k # req[r].at
          /\ line'[k].booked = line[k].booked
  BY <1>1, NoLineIsNone
<1> QED
  BY <1>1, <1>2, CoverRest

LEMMA CoverBegins ==
    ASSUME Serial, Types, Types', CoverInv, NEW r \in Requests,
           \/ BeginBook(r) \/ BeginConfirm(r) \/ BeginSync(r)
           \/ \E l \in Lines : BeginRevert(r, l)
           \/ r = CronSlot /\ BeginExpire
    PROVE  CoverInv'
<1>1. ASSUME NEW call \in {"book", "expire"}, NEW todo, Begin(r, call, todo)
      PROVE  CoverInv'
  <2>1. PICK q : Put(r, q) /\ q.call = call /\ q.at = NoLine
    BY <1>1, BeginTurn
  <2>2. ConfirmBooks(q)' /\ RevertBooks(q)'
    BY <2>1 DEF ConfirmBooks, RevertBooks
  <2>3. Admits /\ UNCHANGED <<line, approved, faults>>
    BY <1>1 DEF Begin
  <2> QED
    BY <2>1, <2>2, <2>3, CoverBegin
<1>2. CASE BeginConfirm(r)
  <2>1. PICK o \in Orders : \E chosen \in SUBSET {l \in LinesOf(o) : line[l].status = "TEMPORARY"} :
            Begin(r, "confirm", [l \in chosen |-> 0])
    BY <1>2 DEF BeginConfirm
  <2>2. PICK chosen \in SUBSET {l \in LinesOf(o) : line[l].status = "TEMPORARY"} :
            Begin(r, "confirm", [l \in chosen |-> 0])
    BY <2>1
  <2>3. PICK q : /\ Put(r, q) /\ q.call = "confirm" /\ q.at = NoLine
                 /\ q.todo = [l \in chosen |-> 0] /\ q.seen = Snapshot
    BY <2>2, BeginTurn
  <2>4. DOMAIN q.todo = chosen /\ q.seen.approved = approved
    BY <2>3 DEF Snapshot
  <2>5. Admits /\ UNCHANGED <<line, approved, faults>>
    BY <2>2 DEF Begin
  <2>6. \A l \in chosen : l \in Lines /\ OrderOf[l] = o /\ line[l].status = "TEMPORARY"
    BY DEF LinesOf
  <2>7. ConfirmBooks(q)'
    BY <2>4, <2>5, <2>6 DEF ConfirmBooks
  <2>8. RevertBooks(q)'
    BY <2>3 DEF RevertBooks
  <2> QED
    BY <2>3, <2>5, <2>7, <2>8, CoverBegin
<1>3. ASSUME NEW l \in Lines, BeginRevert(r, l)
      PROVE  CoverInv'
  <2>1. PICK q : /\ Put(r, q) /\ q.call = "revert" /\ q.at = NoLine
                 /\ q.todo = [m \in {l} |-> 0] /\ q.seen = Snapshot
    BY <1>3, BeginTurn DEF BeginRevert
  <2>2. DOMAIN q.todo = {l} /\ q.seen.approved = approved /\ q.seen.line = line
    BY <2>1 DEF Snapshot
  <2>3. Admits /\ UNCHANGED <<line, approved, faults>> /\ line[l].status = "CONFIRMED"
    BY <1>3 DEF BeginRevert, Begin
  <2>4. ConfirmBooks(q)' /\ RevertBooks(q)'
    BY <2>1, <2>2, <2>3 DEF ConfirmBooks, RevertBooks
  <2> QED
    BY <2>1, <2>3, <2>4, CoverBegin
<1>4. CASE BeginSync(r)
  <2> DEFINE q == [call |-> "sync", todo |-> [p \in Singles |-> 0], at |-> NoLine,
                   seen |-> [Snapshot EXCEPT !.booking = Statistics("TEMPORARY"),
                                             !.approved = Statistics("CONFIRMED")]]
  <2>1. Put(r, q) /\ Admits /\ UNCHANGED <<line, approved, faults>>
    BY <1>4 DEF BeginSync, Put
  <2>2. q.call = "sync" /\ q.at = NoLine
    OBVIOUS
  <2>3. PICK g : g = q
    OBVIOUS
  <2> HIDE DEF q
  <2>4. Put(r, g) /\ g.call = "sync" /\ g.at = NoLine
    BY <2>1, <2>2, <2>3
  <2>5. ConfirmBooks(g)' /\ RevertBooks(g)'
    BY <2>4 DEF ConfirmBooks, RevertBooks
  <2> QED
    BY <2>1, <2>4, <2>5, CoverBegin
<1> QED
  BY <1>1, <1>2, <1>3, <1>4 DEF BeginBook, BeginExpire

LEMMA CoversSame ==
    ASSUME NEW t \in [Lines -> Line], NEW u \in [Lines -> Line], NEW a, NEW q,
           Covers(t, a, q),
           \A l \in Lines : u[l].status = t[l].status /\ u[l].booked = t[l].booked
    PROVE  Covers(u, a, q)
<1>1. FixedIn(u, q) = FixedIn(t, q)
  BY DEF FixedIn
<1>2. ASSUME NEW p \in Singles
      PROVE  On(u, FixedIn(u, q), p) = On(t, FixedIn(t, q), p)
  <2>1. PICK S : S = FixedIn(t, q)
    OBVIOUS
  <2>2. On(u, S, p) = On(t, S, p)
    BY OnSame
  <2> QED
    BY <1>1, <2>1, <2>2
<1> QED
  BY <1>2 DEF Covers

\* Supplies, and time going by, leave the lines' bookings as they are.
LEMMA CoverSame ==
    ASSUME Types, Types', CoverInv, UNCHANGED <<approved, req, faults>>,
           \A l \in Lines : /\ line'[l].status = line[l].status
                            /\ line'[l].booked = line[l].booked
    PROVE  CoverInv'
<1>1. PICK r \in Requests :
        /\ Lone(r) /\ ConfirmBooks(req[r]) /\ RevertBooks(req[r])
        /\ faults = 0 => Covers(line, approved, req[r])
  BY DEF CoverInv
<1>2. Lone(r)'
  BY <1>1 DEF Lone
<1>3. ConfirmBooks(req[r])'
  BY <1>1 DEF ConfirmBooks
<1>4. RevertBooks(req[r])'
  BY <1>1 DEF RevertBooks
<1>5. ASSUME faults' = 0
      PROVE  Covers(line', approved', req'[r])
  <2>1. PICK t, u, a, q : t = line /\ u = line' /\ a = approved /\ q = req[r]
    OBVIOUS
  <2>2. t \in [Lines -> Line] /\ u \in [Lines -> Line]
    BY <2>1 DEF Types
  <2>3. \A l \in Lines : u[l].status = t[l].status /\ u[l].booked = t[l].booked
    BY <2>1
  <2>4. Covers(t, a, q)
    BY <1>1, <1>5, <2>1
  <2>5. Covers(u, a, q)
    BY <2>2, <2>3, <2>4, CoversSame
  <2> QED
    BY <2>1, <2>5
<1> QED
  BY <1>2, <1>3, <1>4, <1>5 DEF CoverInv

\* An order update keeps the totals (EditKeeps), and finds nothing in flight.
LEMMA CoverEdit ==
    ASSUME Serial, NoSharedPart, Types, Types', CoverInv, NEW o, EditOrder(o)
    PROVE  CoverInv'
<1>1. InFlight = {} /\ UNCHANGED <<approved, req, faults>>
  BY DEF EditOrder
<1>2. PICK r \in Requests : TRUE
  BY DEF CoverInv
<1>3. /\ req[r] = Idle /\ Lone(r)
      /\ faults = 0 => Covers(line, approved, Idle)
  <2>1. Admits
    BY <1>1 DEF Admits
  <2> QED
    BY <2>1, CoverQuiet
<1>4. Idle.at = NoLine /\ Idle.call # "confirm" /\ Idle.call # "revert"
  BY DEF Idle
<1>5. BookedAs("CONFIRMED")' = BookedAs("CONFIRMED")
  <2>1. OnePerProduct
    BY DEF NoSharedPart, OnePerProduct
  <2> QED
    BY <2>1, EditKeeps
<1>6. Put(r, Idle)
  BY <1>1, <1>3 DEF Put, Types
<1>7. ConfirmBooks(Idle)' /\ RevertBooks(Idle)'
  BY <1>4 DEF ConfirmBooks, RevertBooks
<1>8. ASSUME faults' = 0
      PROVE  Covers(line', approved', Idle)
  <2>1. PICK t, u, a, q : t = line /\ u = line' /\ a = approved /\ q = Idle
    OBVIOUS
  <2>2. t \in [Lines -> Line] /\ u \in [Lines -> Line] /\ a \in Counter
    BY <2>1 DEF Types
  <2>3. TotalOf(t, "CONFIRMED") = TotalOf(u, "CONFIRMED")
    BY <1>5, <2>1 DEF BookedAs, BookedOn, HeldBy, TotalOf
  <2>4. Covers(t, a, q) /\ q.at = NoLine
    BY <1>1, <1>3, <1>4, <1>8, <2>1
  <2>5. Covers(u, a, q)
    BY <2>2, <2>3, <2>4, CoversAll
  <2> QED
    BY <1>1, <2>1, <2>5
<1> QED
  BY <1>3, <1>6, <1>7, <1>8, CoverPut

LEMMA CoverPreserved ==
    ASSUME Serial, NoIssue, NoSharedPart, Types, Bounded, SyncInv, CoverInv, [Next]_vars
    PROVE  CoverInv'
<1>0. Types'
  BY StepTypes
<1>1. ASSUME UNCHANGED <<approved, line, faults, req>>
      PROVE  CoverInv'
  BY <1>0, <1>1, CoverSame
<1>2. CASE UNCHANGED vars
  BY <1>1, <1>2 DEF vars
<1>3. ASSUME NEW r \in Requests, StepOf(r)
      PROVE  CoverInv'
  BY <1>0, <1>3, CoverAside, CoverConfirm, CoverConfirmLine, CoverRevert, CoverRevertLine,
     CoverSync, CoverSyncEnds DEF StepOf
<1>4. CASE Revert
  BY <1>0, <1>4, CoverBegins DEF Revert
<1>5. CASE NextButRevert
  <2>1. ASSUME NEW r \in Requests, Fail(r)
        PROVE  CoverInv'
    <3>1. Lone(r)
      BY <2>1, CoverLone DEF Fail
    <3>2. faults \in Nat /\ faults' = faults + 1
      <4>1. MaxFaults \in Nat /\ faults \in 0..MaxFaults
        BY BookingConstants, Zenon DEF BookingConstants, Bounded
      <4> QED
        BY <2>1, <4>1 DEF Fail
    <3>3. Put(r, Idle) /\ Idle.call # "confirm" /\ Idle.call # "revert"
      BY <2>1 DEF Fail, Put, Idle
    <3>4. ConfirmBooks(Idle)' /\ RevertBooks(Idle)'
      BY <3>3 DEF ConfirmBooks, RevertBooks
    <3>5. faults' # 0
      BY <3>2
    <3> QED
      BY <3>1, <3>3, <3>4, <3>5, CoverPut
  <2>2. ASSUME NEW r \in Requests, BeginBook(r) \/ BeginConfirm(r) \/ BeginSync(r)
        PROVE  CoverInv'
    BY <1>0, <2>2, CoverBegins
  <2>3. CASE BeginExpire
    <3>1. CronSlot \in Requests
      BY BookingConstants, Zenon DEF BookingConstants
    <3> QED
      BY <1>0, <2>3, <3>1, CoverBegins
  <2>4. ASSUME NEW o, ConfirmGoodsIssue(o)
        PROVE  FALSE
    BY <2>4 DEF ConfirmGoodsIssue, UserCall, NoIssue
  <2>5. ASSUME NEW o, EditOrder(o)
        PROVE  CoverInv'
    BY <1>0, <2>5, CoverEdit
  <2>6. ASSUME NEW p \in Singles, Supply(p)
        PROVE  CoverInv'
    BY <1>1, <2>6 DEF Supply
  <2>7. ASSUME NEW l \in Lines, DeadlinePasses(l)
        PROVE  CoverInv'
    <3>1. \A k \in Lines : /\ line'[k].status = line[k].status
                           /\ line'[k].booked = line[k].booked
      BY <2>7 DEF DeadlinePasses, Types, Line
    <3> QED
      BY <1>0, <2>7, <3>1, CoverSame DEF DeadlinePasses
  <2> QED
    BY <1>3, <1>5, <2>1, <2>2, <2>3, <2>4, <2>5, <2>6, <2>7 DEF NextButRevert
<1> QED
  BY <1>2, <1>4, <1>5 DEF Next

LEMMA CoverAtFirst == ASSUME Init PROVE CoverInv
<1>1. PICK r \in Requests : Lone(r) /\ req[r] = Idle
  BY QuietAtFirst
<1>2. Types
  BY InitTypes
<1>3. ConfirmBooks(Idle) /\ RevertBooks(Idle) /\ Idle.at = NoLine
  BY DEF ConfirmBooks, RevertBooks, Idle
<1>4. Covers(line, approved, Idle)
  <2>1. PICK t, a, q : t = line /\ a = approved /\ q = Idle
    OBVIOUS
  <2>2. t \in [Lines -> Line] /\ a \in Counter
    BY <1>2, <2>1 DEF Types
  <2>3. \A p \in Singles : TotalOf(t, "CONFIRMED")[p] <= a[p]
    <3> SUFFICES ASSUME NEW p \in Singles PROVE TotalOf(t, "CONFIRMED")[p] <= a[p]
      OBVIOUS
    <3>1. {l \in Lines : t[l].status = "CONFIRMED"} = {}
      BY <2>1 DEF Init, Unbooked
    <3>2. TotalOf(t, "CONFIRMED")[p] = 0
      BY <3>1, SumEmpty DEF TotalOf, HeldBy
    <3>3. a[p] \in Nat
      BY <2>2 DEF Counter
    <3> QED
      BY <3>2, <3>3
  <2>4. Covers(t, a, q)
    BY <1>3, <2>1, <2>2, <2>3, CoversAll
  <2> QED
    BY <2>1, <2>4
<1> QED
  BY <1>1, <1>3, <1>4 DEF CoverInv

LEMMA CoverShows == ASSUME Types, CoverInv PROVE ApprovedCoversConfirmed
<1> SUFFICES ASSUME faults = 0, NEW p \in Singles
             PROVE  BookedOn({l \in Lines : line[l].status = "CONFIRMED"
                                 /\ \A r \in Requests : req[r].at # l})[p] <= approved[p]
  BY DEF ApprovedCoversConfirmed
<1>1. PICK r \in Requests : Covers(line, approved, req[r])
  BY DEF CoverInv
<1>2. PICK t, a, q : t = line /\ a = approved /\ q = req[r]
  OBVIOUS
<1> DEFINE T == {l \in Lines : line[l].status = "CONFIRMED" /\ \A s \in Requests : req[s].at # l}
           S == FixedIn(t, q)
<1>3. \A l \in Lines : l \in T => l \in S /\ t[l].booked = t[l].booked
  BY <1>2 DEF FixedIn
<1>4. t \in [Lines -> Line] /\ a[p] \in Nat
  BY <1>2 DEF Types, Counter
<1>5. On(t, S, p) + Pending(q, p) <= a[p]
  BY <1>1, <1>2 DEF Covers
<1>6. Pending(q, p) \in Nat
  BY <1>2, PendingType DEF Types
<1>7. T \in SUBSET Lines
  OBVIOUS
<1> HIDE DEF T, S
<1>8. On(t, T, p) <= On(t, S, p) /\ On(t, T, p) \in Nat /\ On(t, S, p) \in Nat
  BY <1>3, <1>4, OnLess, OnType
<1>9. BookedOn(T)[p] = On(t, T, p)
  BY <1>2, <1>4, <1>7, BookedOnIs
<1>10. BookedOn(T)[p] <= approved[p]
  BY <1>2, <1>4, <1>5, <1>6, <1>8, <1>9
<1> QED
  BY <1>10 DEF T

\* Every unit of an approved line is counted in approved_booking_stock of its
\* parts, for every set of products, combos, orders and lines, as long as
\* requests do not overlap, no goods issue approves in bulk, and no order has
\* two lines with a part in common.
THEOREM ApprovalsAreCovered ==
    ASSUME Serial, NoIssue, NoSharedPart PROVE Spec => []ApprovedCoversConfirmed
<1>1. Init => Types /\ Bounded /\ SyncInv /\ CoverInv
  <2> SUFFICES ASSUME Init PROVE Types /\ Bounded /\ SyncInv /\ CoverInv
    OBVIOUS
  <2>1. Bounded
    <3>1. MaxCalls \in Nat /\ MaxSupply \in Nat /\ MaxFaults \in Nat
      BY BookingConstants, Zenon DEF BookingConstants
    <3> QED
      BY <3>1, OpeningType DEF Init, Bounded
  <2>2. Idle.call # "sync"
    BY DEF Idle
  <2>3. SyncInv
    BY <2>2, QuietAtFirst DEF SyncInv, SyncBooks
  <2> QED
    BY <2>1, <2>3, InitTypes, CoverAtFirst
<1>2. Types /\ Bounded /\ SyncInv /\ CoverInv /\ [Next]_vars
          => (Types /\ Bounded /\ SyncInv /\ CoverInv)'
  BY StepTypes, StepBounded, SyncPreserved, CoverPreserved
<1>3. Types /\ CoverInv => ApprovedCoversConfirmed
  BY CoverShows
<1> QED
  BY <1>1, <1>2, <1>3, PTL DEF Spec
================================================================================
