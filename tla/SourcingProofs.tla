----------------------------- MODULE SourcingProofs -----------------------------
(***************************************************************************)
(* Theorems about Sourcing, for any materials, plans and numbers of        *)
(* requests, overlapping freely and cut short anywhere: types, the hard    *)
(* stop on what is handed out, the replacement of drafts, and the books of *)
(* the issues against need and stock.                                      *)
(***************************************************************************)
EXTENDS Sourcing, SumTheorems

\* Requests that have the requirements in hand.
Uses(q) == q.call \in {"generate", "handOut", "board"}

\* Requests that may still write the requirements they read.
Holds(q) == q.call \in {"generate", "board"} \/ (q.call = "handOut" /\ q.at = "save")

\* Requirements within the plan.
Within(rows_) == rows_ \in Need /\ \A m \in Mats : rows_[m].issued <= Planned[m]

\* What a request has read: its fields, and requirements within the plan.
GoodSeen(s) ==
    /\ DOMAIN s = {"status", "vendor", "need", "ids", "qty", "gi", "po"}
    /\ Within(s.need)

\* A request: its fields, and a hand-out about to be saved that fits the plan.
GoodRequest(q) ==
    /\ DOMAIN q = {"call", "at", "id", "seen"}
    /\ GoodSeen(q.seen)
    /\ (q.call = "handOut" /\ q.at = "save") =>
        /\ q.id \in Mats
        /\ q.seen.qty \in [Mats -> Nat]
        /\ q.seen.need[q.id].issued + q.seen.qty[q.id] <= Planned[q.id]

HandTyped ==
    /\ Within(need)
    /\ handed \in [Mats -> Nat]
    /\ req = [r \in Requests |-> req[r]]
    /\ \A r \in Requests : GoodRequest(req[r])

SameIssued(f, g) == \A m \in Mats : f[m].issued = g[m].issued

\* As long as no two requests had the requirements in hand together, one has
\* them at a time, and what it read of the issued quantities is as it was.
AloneWithNeeds ==
    /\ \A m \in Mats : need[m].issued = handed[m]
    /\ \A r \in Requests : Holds(req[r]) => SameIssued(req[r].seen.need, need)
    /\ \A r, s \in Requests : Uses(req[r]) /\ Uses(req[s]) => r = s

\* The inductive invariant of the hard stop.
HandInv ==
    /\ HandTyped
    /\ "needs" \notin raced => AloneWithNeeds

--------------------------------------------------------------------------------
LEMMA FreshNeedWithin == Within(FreshNeed)
  BY SourcingConstants DEF FreshNeed, Within, Need

LEMMA NothingSeenGood == GoodSeen(NothingSeen)
  BY FreshNeedWithin DEF NothingSeen, GoodSeen

LEMMA IdleGood == GoodRequest(Idle) /\ ~Uses(Idle) /\ ~Holds(Idle)
  BY NothingSeenGood DEF Idle, GoodRequest, Uses, Holds

LEMMA AsReadGood == GoodSeen(PfoAsRead)
  BY NothingSeenGood DEF PfoAsRead, GoodSeen, NothingSeen

LEMMA WithNeedsGood ==
    ASSUME Within(need)
    PROVE  GoodSeen(PfoWithNeeds) /\ PfoWithNeeds.need = need
  BY DEF PfoWithNeeds, PfoAsRead, NothingSeen, GoodSeen

\* Both have the requirements among their tables.
LEMMA NeedsTable ==
    ASSUME NEW q, Uses(q)
    PROVE  "needs" \in Tables(q.call)
  <1>1. CASE q.call = "generate"
    BY <1>1 DEF Tables
  <1>2. CASE q.call = "handOut"
    BY <1>2 DEF Tables
  <1>3. CASE q.call = "board"
    BY <1>3 DEF Tables
  <1>4. QED
    BY <1>1, <1>2, <1>3 DEF Uses

--------------------------------------------------------------------------------
\* A step of request r that leaves the issued quantities alone and does not
\* take the requirements in hand.
LEMMA OtherStep ==
    ASSUME HandInv, NEW r \in Requests, NEW q, GoodRequest(q),
           req' = [req EXCEPT ![r] = q],
           need' = need, handed' = handed, raced' = raced,
           Uses(q) => Uses(req[r]),
           Holds(q) => Holds(req[r]) /\ q.seen.need = req[r].seen.need
    PROVE  HandInv'
  <1>1. \A s \in Requests : req'[s] = IF s = r THEN q ELSE req[s]
    BY DEF HandInv, HandTyped
  <1>2. HandTyped'
    BY <1>1 DEF HandInv, HandTyped, Within, GoodRequest, GoodSeen
  <1>3. ASSUME "needs" \notin raced' PROVE AloneWithNeeds'
    <2>1. AloneWithNeeds
      BY <1>3 DEF HandInv
    <2>2. \A s \in Requests : Holds(req'[s]) => SameIssued(req'[s].seen.need, need')
      BY <1>1, <2>1 DEF AloneWithNeeds
    <2>3. \A s, t \in Requests : Uses(req'[s]) /\ Uses(req'[t]) => s = t
      BY <1>1, <2>1 DEF AloneWithNeeds
    <2>4. QED
      BY <2>1, <2>2, <2>3 DEF AloneWithNeeds, Holds, Uses, SameIssued
  <1>4. QED
    BY <1>2, <1>3 DEF HandInv

\* A request ends.
LEMMA DoneStep ==
    ASSUME HandInv, NEW r \in Requests, Done(r),
           need' = need, handed' = handed, raced' = raced
    PROVE  HandInv'
  BY IdleGood, OtherStep DEF Done

\* A request goes on to a step that is not the save of a hand-out.
LEMMA GotoStep ==
    ASSUME HandInv, NEW r \in Requests, NEW step, NEW seen, Goto(r, step, seen),
           GoodSeen(seen), step # "save",
           Uses(req[r]) => seen.need = req[r].seen.need,
           need' = need, handed' = handed, raced' = raced
    PROVE  HandInv'
  <1> DEFINE q == [req[r] EXCEPT !.at = step, !.seen = seen]
  <1>1. GoodRequest(req[r])
    BY DEF HandInv, HandTyped
  <1>2. /\ DOMAIN q = {"call", "at", "id", "seen"}
        /\ q.call = req[r].call /\ q.at = step /\ q.seen = seen
    BY <1>1 DEF GoodRequest
  <1>3. req' = [req EXCEPT ![r] = q]
    BY <1>1 DEF Goto, GoodRequest, HandInv, HandTyped
  <1> HIDE DEF q
  <1>4. GoodRequest(q)
    BY <1>2 DEF GoodRequest
  <1>5. /\ Uses(q) => Uses(req[r])
        /\ Holds(q) => Holds(req[r]) /\ q.seen.need = req[r].seen.need
    BY <1>2 DEF Uses, Holds
  <1>6. QED
    BY <1>3, <1>4, <1>5, OtherStep

\* A request begins: if it takes the requirements in hand, it reads them now.
LEMMA BeginStep ==
    ASSUME HandInv, NEW r \in Requests, NEW call, NEW step, NEW id, NEW seen,
           Begin(r, call, step, id, seen),
           GoodRequest([call |-> call, at |-> step, id |-> id, seen |-> seen]),
           call \in {"generate", "handOut", "board"} => seen.need = need
    PROVE  HandInv'
  <1> DEFINE q == [call |-> call, at |-> step, id |-> id, seen |-> seen]
  <1>1. /\ need' = need /\ handed' = handed
        /\ req' = [req EXCEPT ![r] = q]
        /\ raced' = raced \cup UNION {Tables(call) \cap Tables(req[s].call) : s \in InFlight}
        /\ ~Uses(req[r])
    BY DEF Begin, history, Uses
  <1>2. /\ q.call = call /\ q.seen = seen /\ GoodRequest(q)
    OBVIOUS
  <1> HIDE DEF q
  <1>3. \A s \in Requests : req'[s] = IF s = r THEN q ELSE req[s]
    BY <1>1 DEF HandInv, HandTyped
  <1>4. HandTyped'
    BY <1>1, <1>2, <1>3 DEF HandInv, HandTyped, Within, GoodRequest, GoodSeen
  <1>5. ASSUME "needs" \notin raced' PROVE AloneWithNeeds'
    <2>1. AloneWithNeeds
      BY <1>1, <1>5 DEF HandInv
    <2>2. ASSUME NEW s \in Requests, Uses(req[s]), Uses(q) PROVE FALSE
      <3>1. "needs" \in Tables(req[s].call) /\ "needs" \in Tables(call)
        BY <1>2, <2>2, NeedsTable
      <3>2. s \in InFlight
        BY <2>2 DEF InFlight, Uses
      <3>3. QED
        BY <1>1, <1>5, <3>1, <3>2
    <2>3. \A s \in Requests : Holds(req'[s]) => SameIssued(req'[s].seen.need, need')
      BY <1>1, <1>2, <1>3, <2>1 DEF AloneWithNeeds, Holds, SameIssued
    <2>4. \A s, t \in Requests : Uses(req'[s]) /\ Uses(req'[t]) => s = t
      BY <1>1, <1>3, <2>1, <2>2 DEF AloneWithNeeds
    <2>5. QED
      BY <1>1, <2>1, <2>3, <2>4 DEF AloneWithNeeds, Holds, Uses, SameIssued
  <1>6. QED
    BY <1>4, <1>5 DEF HandInv

\* The same for requests that read no requirements.
LEMMA BeginElsewhere ==
    ASSUME HandInv, NEW r \in Requests, NEW call, NEW step, NEW id, NEW seen,
           Begin(r, call, step, id, seen), GoodSeen(seen),
           call \notin {"generate", "handOut", "board"}
    PROVE  HandInv'
  <1>1. GoodRequest([call |-> call, at |-> step, id |-> id, seen |-> seen])
    BY DEF GoodRequest
  <1>2. QED
    BY <1>1, BeginStep

--------------------------------------------------------------------------------
\* The same for a request without the requirements, whatever its next step.
LEMMA GotoElsewhere ==
    ASSUME HandInv, NEW r \in Requests, NEW step, NEW seen, Goto(r, step, seen),
           GoodSeen(seen), req[r].call \notin {"generate", "handOut", "board"},
           need' = need, handed' = handed, raced' = raced
    PROVE  HandInv'
  <1> DEFINE q == [req[r] EXCEPT !.at = step, !.seen = seen]
  <1>1. GoodRequest(req[r])
    BY DEF HandInv, HandTyped
  <1>2. /\ DOMAIN q = {"call", "at", "id", "seen"}
        /\ q.call = req[r].call /\ q.at = step /\ q.seen = seen
    BY <1>1 DEF GoodRequest
  <1>3. req' = [req EXCEPT ![r] = q]
    BY <1>1 DEF Goto, GoodRequest, HandInv, HandTyped
  <1> HIDE DEF q
  <1>4. GoodRequest(q) /\ ~Uses(q) /\ ~Holds(q)
    BY <1>2 DEF GoodRequest, Uses, Holds
  <1>5. QED
    BY <1>3, <1>4, OtherStep

\* Requirements, requests and what was handed out stay as they are.
LEMMA NothingTouched ==
    ASSUME HandInv, need' = need, handed' = handed, req' = req, raced' = raced
    PROVE  HandInv'
  BY DEF HandInv, HandTyped, Within, GoodRequest, GoodSeen, AloneWithNeeds, SameIssued,
         Uses, Holds

--------------------------------------------------------------------------------
LEMMA SeenKeepsNeed ==
    ASSUME NEW s, GoodSeen(s), NEW x
    PROVE  /\ GoodSeen([s EXCEPT !.ids = x]) /\ [s EXCEPT !.ids = x].need = s.need
           /\ GoodSeen([s EXCEPT !.qty = x]) /\ [s EXCEPT !.qty = x].need = s.need
           /\ GoodSeen([s EXCEPT !.gi.qty = x]) /\ [s EXCEPT !.gi.qty = x].need = s.need
           /\ GoodSeen([s EXCEPT !.gi = x, !.qty = x])
           /\ GoodSeen([s EXCEPT !.po = x])
           /\ GoodSeen([s EXCEPT !.status = x]) /\ [s EXCEPT !.status = x].need = s.need
  BY DEF GoodSeen

LEMMA SeenGood ==
    ASSUME HandInv, NEW r \in Requests
    PROVE  GoodSeen(Seen(r)) /\ Seen(r) = req[r].seen
  BY DEF HandInv, HandTyped, GoodRequest, Seen

\* The BOM is exploded again: nothing is handed out, and no request is about.
LEMMA RecalculateStep ==
    ASSUME HandInv, Recalculate
    PROVE  HandInv'
  <1>1. /\ need' = FreshNeed /\ handed' = Zero /\ req' = req /\ InFlight = {}
    BY DEF Recalculate
  <1>2. Zero \in [Mats -> Nat] /\ \A m \in Mats : FreshNeed[m].issued = Zero[m]
    BY DEF Zero, FreshNeed
  <1>3. \A r \in Requests : ~Uses(req'[r]) /\ ~Holds(req'[r])
    BY <1>1 DEF InFlight, Uses, Holds
  <1>4. HandTyped'
    BY <1>1, <1>2, FreshNeedWithin DEF HandInv, HandTyped, Within, GoodRequest, GoodSeen
  <1>5. AloneWithNeeds'
    BY <1>1, <1>2, <1>3 DEF AloneWithNeeds, Uses, Holds
  <1>6. QED
    BY <1>4, <1>5 DEF HandInv

LEMMA SaveRequirementsStep ==
    ASSUME HandInv, NEW m \in Mats, NEW n \in 0..Planned[m], SaveRequirements(m, n)
    PROVE  HandInv'
  <1>1. /\ need' = [need EXCEPT ![m].toBuy = FromZero(Planned[m] - n), ![m].fromStock = n]
        /\ handed' = handed /\ req' = req /\ raced' = raced
    BY DEF SaveRequirements
  <1>2. n \in Nat /\ FromZero(Planned[m] - n) \in Nat
    BY SourcingConstants DEF FromZero
  <1>3. need \in Need /\ Within(need)
    BY DEF HandInv, HandTyped, Within
  <1>4. need' \in Need /\ \A k \in Mats : need'[k].issued = need[k].issued
    BY <1>1, <1>2, <1>3 DEF Need
  <1>5. HandTyped'
    BY <1>1, <1>3, <1>4 DEF HandInv, HandTyped, Within, GoodRequest, GoodSeen
  <1>6. ASSUME "needs" \notin raced' PROVE AloneWithNeeds'
    BY <1>1, <1>4, <1>6 DEF HandInv, AloneWithNeeds, SameIssued, Uses, Holds
  <1>7. QED
    BY <1>5, <1>6 DEF HandInv

\* Requirements are written back as the request read them, and it ends.
LEMMA WriteBackStep ==
    ASSUME HandInv, NEW r \in Requests, req[r].call \in {"generate", "board"},
           need' = req[r].seen.need, Done(r), handed' = handed, raced' = raced
    PROVE  HandInv'
  <1>1. \A s \in Requests : req'[s] = IF s = r THEN Idle ELSE req[s]
    BY DEF Done, HandInv, HandTyped
  <1>2. Within(need')
    BY DEF HandInv, HandTyped, GoodRequest, GoodSeen
  <1>3. HandTyped'
    BY <1>1, <1>2, IdleGood DEF Done, HandInv, HandTyped, Within, GoodRequest, GoodSeen
  <1>4. ASSUME "needs" \notin raced' PROVE AloneWithNeeds'
    <2>1. AloneWithNeeds
      BY <1>4 DEF HandInv
    <2>2. \A m \in Mats : need'[m].issued = handed'[m]
      BY <2>1 DEF AloneWithNeeds, Holds, SameIssued
    <2>3. \A s \in Requests : ~Uses(req'[s]) /\ ~Holds(req'[s])
      BY <1>1, <2>1, IdleGood DEF AloneWithNeeds, Uses, Holds
    <2>4. QED
      BY <2>2, <2>3 DEF AloneWithNeeds, Uses, Holds
  <1>5. QED
    BY <1>3, <1>4 DEF HandInv

\* The hard stop itself: what is added was checked against the row read.
LEMMA SaveHandOutStep ==
    ASSUME HandInv, NEW r \in Requests, NEW m \in Mats, SaveHandOut(r, m)
    PROVE  HandInv'
  <1> DEFINE row == [req[r].seen.need[m] EXCEPT !.issued = @ + req[r].seen.qty[m]]
             q == [req[r] EXCEPT !.at = "promote", !.seen = req[r].seen]
  <1>1. /\ req[r].call = "handOut" /\ req[r].at = "save" /\ req[r].id = m
        /\ need' = [need EXCEPT ![m] = row]
        /\ handed' = [handed EXCEPT ![m] = @ + req[r].seen.qty[m]]
        /\ req' = [req EXCEPT ![r].at = "promote", ![r].seen = req[r].seen]
        /\ raced' = raced
    BY DEF SaveHandOut, At, Goto, Seen
  <1>2. GoodRequest(req[r]) /\ need \in Need /\ Within(need) /\ handed \in [Mats -> Nat]
    BY DEF HandInv, HandTyped, Within
  <1>3. /\ req[r].seen.need \in Need /\ req[r].seen.qty[m] \in Nat
        /\ req[r].seen.need[m].issued + req[r].seen.qty[m] <= Planned[m]
    BY <1>1, <1>2 DEF GoodRequest, GoodSeen, Within
  <1>4. /\ row \in [issued : Nat, toBuy : Nat, fromStock : Nat]
        /\ row.issued = req[r].seen.need[m].issued + req[r].seen.qty[m]
    BY <1>3 DEF Need
  <1>5. /\ q.call = "handOut" /\ q.at = "promote" /\ GoodRequest(q)
        /\ req' = [req EXCEPT ![r] = q]
    BY <1>1, <1>2 DEF GoodRequest, HandInv, HandTyped
  <1> HIDE DEF row, q
  <1>6. \A s \in Requests : req'[s] = IF s = r THEN q ELSE req[s]
    BY <1>5 DEF HandInv, HandTyped
  <1>7. /\ need' \in Need
        /\ \A k \in Mats : need'[k].issued = IF k = m THEN row.issued ELSE need[k].issued
    BY <1>1, <1>2, <1>4 DEF Need
  <1>8. Within(need')
    BY <1>2, <1>3, <1>4, <1>7 DEF Within
  <1>9. HandTyped'
    <2>1. handed' \in [Mats -> Nat]
      BY <1>1, <1>2, <1>3
    <2>2. req' = [s \in Requests |-> req'[s]]
      BY <1>5 DEF HandInv, HandTyped
    <2>3. \A s \in Requests : GoodRequest(req'[s])
      BY <1>5, <1>6 DEF HandInv, HandTyped
    <2>4. QED
      BY <1>8, <2>1, <2>2, <2>3 DEF HandTyped, Within, GoodRequest, GoodSeen
  <1>10. ASSUME "needs" \notin raced' PROVE AloneWithNeeds'
    <2>1. AloneWithNeeds
      BY <1>1, <1>10 DEF HandInv
    <2>2. SameIssued(req[r].seen.need, need)
      BY <1>1, <2>1 DEF AloneWithNeeds, Holds
    <2>3. \A k \in Mats : need'[k].issued = handed'[k]
      BY <1>1, <1>2, <1>4, <1>7, <2>1, <2>2 DEF AloneWithNeeds, SameIssued
    <2>4. ASSUME NEW s \in Requests PROVE ~Holds(req'[s])
      <3>1. Uses(req[r]) /\ (Holds(req[s]) => Uses(req[s])) /\ ~Holds(q)
        BY <1>1, <1>5 DEF Uses, Holds
      <3>2. Holds(req[s]) => s = r
        BY <2>1, <3>1 DEF AloneWithNeeds
      <3>3. QED
        BY <1>6, <3>1, <3>2
    <2>5. \A s, t \in Requests : Uses(req'[s]) /\ Uses(req'[t]) => s = t
      BY <1>1, <1>5, <1>6, <2>1 DEF AloneWithNeeds, Uses
    <2>6. QED
      BY <2>3, <2>4, <2>5 DEF AloneWithNeeds, Uses, Holds
  <1>11. QED
    BY <1>9, <1>10 DEF HandInv

--------------------------------------------------------------------------------
LEMMA GenerateKeeps ==
    ASSUME HandInv, NEW r \in Requests, Generate(r)
    PROVE  HandInv'
  <1> USE DEF history
  <1>0. GoodSeen(Seen(r)) /\ Seen(r) = req[r].seen
    BY SeenGood
  <1>1. CASE BeginGenerate(r)
    <2> DEFINE seen == [PfoWithNeeds EXCEPT !.ids = ToReplace]
    <2>1. GoodSeen(seen) /\ seen.need = need
      BY WithNeedsGood, SeenKeepsNeed DEF HandInv, HandTyped
    <2>2. Begin(r, "generate", "drop", NoId, seen)
      BY <1>1 DEF BeginGenerate
    <2> HIDE DEF seen
    <2>3. GoodRequest([call |-> "generate", at |-> "drop", id |-> NoId, seen |-> seen])
      BY <2>1 DEF GoodRequest
    <2>4. QED
      BY <2>1, <2>2, <2>3, BeginStep
  <1>2. CASE DropDrafts(r)
    <2>1. Goto(r, "clear", [Seen(r) EXCEPT !.ids = DraftIssues])
      BY <1>2 DEF DropDrafts
    <2>2. need' = need /\ handed' = handed /\ raced' = raced
      BY <1>2 DEF DropDrafts
    <2>3. QED
      BY <1>0, <2>1, <2>2, SeenKeepsNeed, GotoStep
  <1>3. CASE ClearIssues(r)
    <2>1. Goto(r, "net", [Seen(r) EXCEPT !.ids = {}])
      BY <1>3 DEF ClearIssues
    <2>2. need' = need /\ handed' = handed /\ raced' = raced
      BY <1>3 DEF ClearIssues
    <2>3. QED
      BY <1>0, <2>1, <2>2, SeenKeepsNeed, GotoStep
  <1>4. CASE NetIssued(r)
    <2> DEFINE left == Unissued(Seen(r).need)
               step == IF left = Zero THEN "buy" ELSE "issue"
    <2>1. Goto(r, step, [Seen(r) EXCEPT !.qty = left])
      BY <1>4 DEF NetIssued
    <2>2. need' = need /\ handed' = handed /\ raced' = raced
      BY <1>4 DEF NetIssued
    <2>3. step # "save"
      OBVIOUS
    <2> HIDE DEF left, step
    <2>4. QED
      BY <1>0, <2>1, <2>2, <2>3, SeenKeepsNeed, GotoStep
  <1>5. CASE \E g \in Issues : DraftIssue(r, g)
    BY <1>0, <1>5, GotoStep DEF DraftIssue
  <1>6. CASE BuyMaterials(r)
    BY <1>0, <1>6, GotoStep DEF BuyMaterials
  <1>7. CASE Subcontract(r)
    BY <1>0, <1>7, GotoStep DEF Subcontract
  <1>8. CASE FinishGenerate(r)
    <2>1. /\ Done(r) /\ handed' = handed /\ raced' = raced /\ req[r].call = "generate"
          /\ need' = need \/ need' = req[r].seen.need
      BY <1>0, <1>8 DEF FinishGenerate, At
    <2>2. QED
      BY <2>1, DoneStep, WriteBackStep
  <1>9. QED
    BY <1>1, <1>2, <1>3, <1>4, <1>5, <1>6, <1>7, <1>8 DEF Generate

LEMMA HandOutKeeps ==
    ASSUME HandInv, NEW r \in Requests, HandOut(r)
    PROVE  HandInv'
  <1>1. CASE \E m \in Mats : SaveHandOut(r, m)
    BY <1>1, SaveHandOutStep
  <1>2. ASSUME NEW m \in Mats, NEW n \in 1..Planned[m], BeginHandOut(r, m, n)
        PROVE  HandInv'
    <2> DEFINE qty == [Zero EXCEPT ![m] = n]
               seen == [PfoWithNeeds EXCEPT !.qty = qty]
    <2>1. need \in Need /\ GoodSeen(seen) /\ seen.need = need /\ seen.qty = qty
      BY WithNeedsGood, SeenKeepsNeed DEF HandInv, HandTyped, Within, GoodSeen
    <2>2. /\ Begin(r, "handOut", "save", m, seen)
          /\ need[m].issued + n <= Planned[m]
      BY <1>2 DEF BeginHandOut, WithinPlan
    <2>3. n \in Nat /\ qty \in [Mats -> Nat] /\ qty[m] = n
      BY SourcingConstants DEF Zero
    <2> HIDE DEF qty, seen
    <2>4. GoodRequest([call |-> "handOut", at |-> "save", id |-> m, seen |-> seen])
      BY <2>1, <2>2, <2>3 DEF GoodRequest
    <2>5. QED
      BY <2>1, <2>2, <2>4, BeginStep
  <1>3. CASE PromotePfo(r)
    BY <1>3, DoneStep DEF PromotePfo, history
  <1>4. QED
    BY <1>1, <1>2, <1>3 DEF HandOut

LEMMA IssueKeeps ==
    ASSUME HandInv, NEW r \in Requests, NEW g \in Issues, OnIssue(r, g)
    PROVE  HandInv'
  <1> USE DEF history
  <1>0. GoodSeen(Seen(r)) /\ Seen(r) = req[r].seen
    BY SeenGood
  <1>1. ASSUME NEW call \in {"confirm", "delivered", "edit", "delete"}, NEW step, NEW qty,
               BeginWithIssue(r, call, step, g, qty)
        PROVE  HandInv'
    <2>1. GoodSeen([NothingSeen EXCEPT !.gi = gi[g], !.qty = qty])
      BY NothingSeenGood DEF GoodSeen, NothingSeen
    <2>2. QED
      BY <1>1, <2>1, BeginElsewhere DEF BeginWithIssue
  <1>2. CASE BeginConfirm(r, g)
    BY <1>1, <1>2 DEF BeginConfirm
  <1>3. ASSUME NEW qty, Export(r, g, qty)
        PROVE  HandInv'
    <2>1. /\ Goto(r, "save", [Seen(r) EXCEPT !.gi.qty = qty])
          /\ req[r].call = "confirm"
          /\ need' = need /\ handed' = handed /\ raced' = raced
      BY <1>3 DEF Export, At
    <2>2. GoodSeen([Seen(r) EXCEPT !.gi.qty = qty])
      BY <1>0, SeenKeepsNeed
    <2>3. QED
      BY <2>1, <2>2, GotoElsewhere
  <1>4. CASE SaveConfirmed(r, g)
    BY <1>0, <1>4, GotoStep DEF SaveConfirmed
  <1>5. CASE SaveDelivered(r, g)
    BY <1>5, DoneStep DEF SaveDelivered
  <1>6. CASE ReturnGoods(r, g)
    BY <1>0, <1>6, GotoStep DEF ReturnGoods
  <1>7. CASE DropIssue(r, g)
    BY <1>7, DoneStep DEF DropIssue
  <1>8. CASE SaveEdited(r, g)
    BY <1>8, DoneStep DEF SaveEdited
  <1>9. QED
    BY <1>1, <1>2, <1>3, <1>4, <1>5, <1>6, <1>7, <1>8 DEF OnIssue

LEMMA OrderKeeps ==
    ASSUME HandInv, NEW r \in Requests, NEW p \in Orders, OnOrder(r, p)
    PROVE  HandInv'
  <1>0. GoodSeen(Seen(r)) /\ Seen(r) = req[r].seen
    BY SeenGood
  <1>1. ASSUME NEW answer, BeginSupplier(r, p, answer)
        PROVE  HandInv'
    <2>1. GoodSeen([NothingSeen EXCEPT !.po = [po[p] EXCEPT !.status = answer]])
      BY NothingSeenGood, SeenKeepsNeed
    <2>2. QED
      BY <1>1, <2>1, BeginElsewhere DEF BeginSupplier
  <1>2. CASE SaveOrder(r, p)
    BY <1>0, <1>2, GotoStep DEF SaveOrder, history
  <1>3. QED
    BY <1>1, <1>2 DEF OnOrder

LEMMA MoveKeeps ==
    ASSUME HandInv, NEW r \in Requests, MovePfo(r)
    PROVE  HandInv'
  <1> DEFINE seen(status, vendor) ==
                 [PfoWithNeeds EXCEPT !.status = status, !.vendor = vendor]
  <1>1. ASSUME NEW call \in {"vendor", "qc", "board"}, NEW status, NEW vendor,
               BeginMove(r, call, status, vendor)
        PROVE  HandInv'
    <2>1. GoodSeen(seen(status, vendor)) /\ seen(status, vendor).need = need
      BY WithNeedsGood DEF HandInv, HandTyped, GoodSeen
    <2>2. Begin(r, call, "set", NoId, seen(status, vendor))
      BY <1>1 DEF BeginMove
    <2> HIDE DEF seen
    <2>3. GoodRequest([call |-> call, at |-> "set", id |-> NoId,
                       seen |-> seen(status, vendor)])
      BY <2>1 DEF GoodRequest
    <2>4. QED
      BY <2>1, <2>2, <2>3, BeginStep
  <1>2. CASE AssignVendor(r)
    BY <1>1, <1>2 DEF AssignVendor
  <1>3. CASE SubmitQcRecord(r)
    BY <1>1, <1>3 DEF SubmitQcRecord
  <1>4. CASE \E status \in BoardMoves : UpdatePfoStatus(r, status)
    BY <1>1, <1>4 DEF UpdatePfoStatus
  <1>5. CASE SetPfo(r)
    <2>1. /\ Done(r) /\ handed' = handed /\ raced' = raced
          /\ need' = IF req[r].call = "board" THEN req[r].seen.need ELSE need
      BY <1>5 DEF SetPfo, Seen, history
    <2>2. QED
      BY <2>1, DoneStep, WriteBackStep
  <1>6. QED
    BY <1>2, <1>3, <1>4, <1>5 DEF MovePfo

LEMMA CheckPfoKeeps ==
    ASSUME HandInv, NEW r \in Requests, CheckPfo(r)
    PROVE  HandInv'
  <1>1. /\ req[r].call = "supplier"
        /\ need' = need /\ handed' = handed /\ raced' = raced
        /\ \/ Done(r)
           \/ Goto(r, "set", [PfoAsRead EXCEPT !.status = CalledFor(pfo.status)])
    BY DEF CheckPfo, At, history
  <1>2. GoodSeen([PfoAsRead EXCEPT !.status = CalledFor(pfo.status)])
    BY AsReadGood, SeenKeepsNeed
  <1>3. QED
    BY <1>1, <1>2, DoneStep, GotoElsewhere

LEMMA HandInvKept ==
    ASSUME HandInv, [Next]_vars
    PROVE  HandInv'
  <1>1. CASE Recalculate
    BY <1>1, RecalculateStep
  <1>2. CASE \E m \in Mats : \E n \in 0..Planned[m] : SaveRequirements(m, n)
    BY <1>2, SaveRequirementsStep
  <1>3. ASSUME NEW g \in Issues, NEW qty \in Quantities, CreateGoodsIssue(g, qty)
        PROVE  HandInv'
    BY <1>3, NothingTouched DEF CreateGoodsIssue
  <1>4. ASSUME NEW r \in Requests, Generate(r) \/ HandOut(r) \/ CheckPfo(r) \/ MovePfo(r)
        PROVE  HandInv'
    BY <1>4, GenerateKeeps, HandOutKeeps, CheckPfoKeeps, MoveKeeps
  <1>5. ASSUME NEW r \in Requests, StartProduction(r) \/ Fail(r)
        PROVE  HandInv'
    BY <1>5, DoneStep DEF StartProduction, Fail, history
  <1>6. ASSUME NEW r \in Requests, NEW g \in Issues, OnIssue(r, g)
        PROVE  HandInv'
    BY <1>6, IssueKeeps
  <1>7. ASSUME NEW r \in Requests, NEW p \in Orders, OnOrder(r, p)
        PROVE  HandInv'
    BY <1>7, OrderKeeps
  <1>8. CASE UNCHANGED vars
    BY <1>8, NothingTouched DEF vars
  <1>9. QED
    BY <1>1, <1>2, <1>3, <1>4, <1>5, <1>6, <1>7, <1>8 DEF Next

LEMMA HandInvAtStart == Init => HandInv
  <1> SUFFICES ASSUME Init PROVE HandInv
    OBVIOUS
  <1>1. /\ need = FreshNeed /\ handed = Zero /\ req = [r \in Requests |-> Idle]
    BY DEF Init
  <1>2. HandTyped
    BY <1>1, FreshNeedWithin, IdleGood DEF HandTyped, Zero
  <1>3. AloneWithNeeds
    BY <1>1, IdleGood DEF AloneWithNeeds, FreshNeed, Zero
  <1>4. QED
    BY <1>2, <1>3 DEF HandInv

\* "Hard stop": whichever handlers overlap, write back old rows or fail,
\* issued_quantity stays within the plan; and it is what was handed out since
\* the BOM was run, unless two requests had the requirements in hand together.
THEOREM HardStopHolds == Spec => []HandedWithinPlan
  <1>1. HandInv => HandedWithinPlan
    BY DEF HandInv, HandTyped, Within, AloneWithNeeds, HandedWithinPlan
  <1>2. QED
    BY <1>1, HandInvAtStart, HandInvKept, PTL DEF Spec


--------------------------------------------------------------------------------
\* What a request can be: the steps of the handlers, what they have read.
Steps == {"begin", "drop", "clear", "net", "issue", "buy", "subcontract", "finish", "save",
          "promote", "export", "pfo", "return", "set", "check"}
SourceSeen == [status : PfoStatus, vendor : BOOLEAN, need : Need,
               ids : SUBSET (Issues \cup Orders), qty : Quantity, gi : IssueRow, po : OrderRow]
SourceRequest == [call : CallNames \cup {"idle"}, at : Steps,
                  id : {NoId} \cup Mats \cup Issues \cup Orders, seen : SourceSeen]

\* The inductive invariant of the types.
SourceInv == TypeOK /\ req \in [Requests -> SourceRequest]

LEMMA ZeroTyped == Zero \in Quantity /\ \A m \in Mats : Zero[m] = 0
  BY DEF Zero, Quantity

LEMMA FreshTyped == FreshNeed \in Need
  BY SourcingConstants DEF FreshNeed, Need

LEMMA RowsAsNew ==
    /\ NoIssue \in IssueRow /\ NoIssue.status = "unused"
    /\ DeletedIssue \in IssueRow /\ DeletedIssue.status = "deleted"
    /\ DeletedIssue.qty = Zero
    /\ NoOrder \in OrderRow /\ NoOrder.status = "unused"
  BY ZeroTyped DEF NoIssue, DeletedIssue, NoOrder, IssueRow, OrderRow

LEMMA NothingTyped == NothingSeen \in SourceSeen
  <1>1. "DRAFT" \in PfoStatus /\ FALSE \in BOOLEAN /\ {} \in SUBSET (Issues \cup Orders)
    BY DEF PfoStatus, Early
  <1>2. QED
    BY <1>1, ZeroTyped, FreshTyped, RowsAsNew DEF NothingSeen, SourceSeen

LEMMA IdleTyped == Idle \in SourceRequest /\ Idle.call = "idle" /\ Idle.seen = NothingSeen
  BY NothingTyped DEF Idle, SourceRequest, Steps

LEMMA SeenTyped ==
    ASSUME SourceInv, NEW r \in Requests
    PROVE  req[r] \in SourceRequest /\ Seen(r) \in SourceSeen /\ Seen(r) = req[r].seen
  BY DEF SourceInv, SourceRequest, Seen

LEMMA AsReadTyped ==
    ASSUME SourceInv
    PROVE  PfoAsRead \in SourceSeen /\ PfoWithNeeds \in SourceSeen
  BY NothingTyped DEF SourceInv, TypeOK, PfoAsRead, PfoWithNeeds, SourceSeen

\* What a request turns into: q, and the others as they were.
Put(r, q) == req' = [req EXCEPT ![r] = q]

LEMMA PutEach ==
    ASSUME SourceInv, NEW r \in Requests, NEW q, Put(r, q)
    PROVE  /\ req'[r] = q
           /\ \A s \in Requests \ {r} : req'[s] = req[s]
           /\ q \in SourceRequest => req' \in [Requests -> SourceRequest]
  BY DEF SourceInv, Put

\* A request after a step of its own: its call and id stay.
LEMMA GotoTurn ==
    ASSUME SourceInv, NEW r \in Requests, NEW step \in Steps, NEW seen \in SourceSeen,
           Goto(r, step, seen)
    PROVE  \E q \in SourceRequest :
               /\ Put(r, q)
               /\ q.call = req[r].call /\ q.id = req[r].id /\ q.at = step /\ q.seen = seen
  <1> DEFINE q == [req[r] EXCEPT !.at = step, !.seen = seen]
  <1>1. req[r] \in SourceRequest /\ req \in [Requests -> SourceRequest]
    BY DEF SourceInv
  <1>2. /\ q \in SourceRequest
        /\ q.call = req[r].call /\ q.id = req[r].id /\ q.at = step /\ q.seen = seen
    BY <1>1 DEF SourceRequest
  <1>3. Put(r, q)
    BY <1>1 DEF Goto, Put, SourceRequest
  <1>4. QED
    BY <1>2, <1>3

LEMMA DoneTurn ==
    ASSUME SourceInv, NEW r \in Requests, Done(r)
    PROVE  Put(r, Idle) /\ Idle \in SourceRequest
  BY IdleTyped DEF Done, Put

LEMMA BeginTurn ==
    ASSUME SourceInv, NEW r \in Requests, NEW call, NEW step \in Steps,
           NEW id \in {NoId} \cup Mats \cup Issues \cup Orders, NEW seen \in SourceSeen,
           Begin(r, call, step, id, seen)
    PROVE  \E q \in SourceRequest :
               /\ Put(r, q) /\ req[r].call = "idle"
               /\ q.call = call /\ q.id = id /\ q.at = step /\ q.seen = seen
               /\ UNCHANGED <<pfo, need, gi, po, rows, master, history>>
               /\ raced' = raced \cup UNION {Tables(call) \cap Tables(req[s].call) : s \in InFlight}
  <1> DEFINE q == [call |-> call, at |-> step, id |-> id, seen |-> seen]
  <1>1. call \in CallNames
    BY SourcingConstants DEF Begin
  <1>2. q \in SourceRequest /\ q.call = call /\ q.id = id /\ q.at = step /\ q.seen = seen
    BY <1>1 DEF SourceRequest
  <1>3. QED
    BY <1>2 DEF Begin, Put

--------------------------------------------------------------------------------
\* Units of a material on a set of issues.
Units(table, m) == [g \in Issues |-> table[g].qty[m]]
Amount(table, issues, m) == SumFunctionOnSet(Units(table, m), issues)

LEMMA TotalIsAmount ==
    ASSUME NEW issues, NEW m \in Mats
    PROVE  Total(issues)[m] = Amount(gi, issues, m)
  BY DEF Total, Amount, Units

LEMMA IssuesFinite ==
    ASSUME NEW issues \in SUBSET Issues
    PROVE  IsFiniteSet(issues)
  <1>1. MaxIssues \in Nat /\ 1 \in Int
    BY SourcingConstants
  <1>2. IsFiniteSet(Issues)
    BY <1>1, FS_Interval DEF Issues
  <1>3. QED
    BY <1>2, FS_Subset

LEMMA UnitsTyped ==
    ASSUME NEW table \in [Issues -> IssueRow], NEW m \in Mats
    PROVE  \A g \in Issues : Units(table, m)[g] \in Nat /\ Units(table, m)[g] = table[g].qty[m]
  BY DEF Units, IssueRow, Quantity

LEMMA AmountTyped ==
    ASSUME NEW table \in [Issues -> IssueRow], NEW issues \in SUBSET Issues, NEW m \in Mats
    PROVE  Amount(table, issues, m) \in Nat
  <1>1. IsFiniteSet(issues) /\ \A g \in issues : Units(table, m)[g] \in Nat
    BY IssuesFinite, UnitsTyped
  <1>2. QED
    BY <1>1, SumNat DEF Amount

LEMMA UnissuedTyped ==
    ASSUME SourceInv, NEW wanted \in Need
    PROVE  /\ Unissued(wanted) \in Quantity
           /\ \A m \in Mats :
                  Unissued(wanted)[m] = FromZero(wanted[m].fromStock - Amount(gi, Live, m))
  <1>1. gi \in [Issues -> IssueRow] /\ Live \in SUBSET Issues
    BY DEF SourceInv, TypeOK, Live
  <1>2. \A m \in Mats : wanted[m].fromStock \in Nat /\ Amount(gi, Live, m) \in Nat
    BY <1>1, AmountTyped DEF Need
  <1>3. \A m \in Mats :
            Unissued(wanted)[m] = FromZero(wanted[m].fromStock - Amount(gi, Live, m))
    BY TotalIsAmount DEF Unissued
  <1>4. \A m \in Mats : Unissued(wanted)[m] \in Nat
    BY <1>2, <1>3 DEF FromZero
  <1>5. QED
    BY <1>3, <1>4 DEF Unissued, Quantity

LEMMA SeenChanged ==
    ASSUME NEW s \in SourceSeen
    PROVE  /\ \A ids \in SUBSET (Issues \cup Orders) : [s EXCEPT !.ids = ids] \in SourceSeen
           /\ \A qty \in Quantity : [s EXCEPT !.qty = qty] \in SourceSeen
           /\ \A qty \in Quantity : [s EXCEPT !.gi.qty = qty] \in SourceSeen
           /\ \A row \in OrderRow : [s EXCEPT !.po = row] \in SourceSeen
           /\ \A row \in IssueRow, qty \in Quantity :
                  [s EXCEPT !.gi = row, !.qty = qty] \in SourceSeen
           /\ \A status \in PfoStatus : [s EXCEPT !.status = status] \in SourceSeen
           /\ \A status \in PfoStatus, vendor \in BOOLEAN :
                  [s EXCEPT !.status = status, !.vendor = vendor] \in SourceSeen
  BY DEF SourceSeen, IssueRow

\* The tables of the PFO but the requests.
Tables4 == <<pfo, need, gi, po, rows, master, handed, asked, gone>>

\* A handler that begins has a request of the right type, and writes nothing.
LEMMA BeginTyped ==
    ASSUME SourceInv, NEW r \in Requests, NEW call, NEW step \in Steps,
           NEW id \in {NoId} \cup Mats \cup Issues \cup Orders, NEW seen \in SourceSeen,
           Begin(r, call, step, id, seen)
    PROVE  UNCHANGED Tables4 /\ \E q \in SourceRequest : Put(r, q)
  <1> DEFINE q == [call |-> call, at |-> step, id |-> id, seen |-> seen]
  <1>1. call \in CallNames
    BY SourcingConstants DEF Begin
  <1>2. q \in SourceRequest
    BY <1>1 DEF SourceRequest
  <1>3. Put(r, q)
    BY DEF Begin, Put
  <1>4. UNCHANGED Tables4
    BY DEF Begin, Tables4, history
  <1> HIDE DEF q
  <1>5. QED
    BY <1>2, <1>3, <1>4

LEMMA TypesSame ==
    ASSUME SourceInv, UNCHANGED Tables4
    PROVE  TypeOK'
  BY DEF SourceInv, TypeOK, Tables4

LEMMA QuantitySums ==
    ASSUME NEW f \in Quantity, NEW g \in Quantity
    PROVE  Plus(f, g) \in Quantity
  BY DEF Plus, Quantity

LEMMA IntSums ==
    ASSUME NEW f \in [Mats -> Int], NEW g \in Quantity
    PROVE  Plus(f, g) \in [Mats -> Int] /\ Minus(f, g) \in [Mats -> Int]
  BY DEF Plus, Minus, Quantity

LEMMA EnteredTyped == Quantities \subseteq Quantity
  BY SourcingConstants DEF Quantities, Quantity

--------------------------------------------------------------------------------
LEMMA GenerateTyped ==
    ASSUME SourceInv, NEW r \in Requests, Generate(r)
    PROVE  SourceInv'
  <1> USE DEF history
  <1>0. /\ TypeOK /\ Seen(r) \in SourceSeen /\ PfoWithNeeds \in SourceSeen
        /\ ToReplace \in SUBSET (Issues \cup Orders)
        /\ DraftIssues \in SUBSET (Issues \cup Orders) /\ {} \in SUBSET (Issues \cup Orders)
    BY SeenTyped, AsReadTyped DEF SourceInv, ToReplace, DraftIssues
  <1>1. CASE BeginGenerate(r)
    <2> DEFINE seen == [PfoWithNeeds EXCEPT !.ids = ToReplace]
    <2>1. seen \in SourceSeen /\ Begin(r, "generate", "drop", NoId, seen)
      BY <1>0, <1>1, SeenChanged DEF BeginGenerate
    <2> HIDE DEF seen
    <2>2. UNCHANGED Tables4 /\ \E q \in SourceRequest : Put(r, q)
      BY <2>1, BeginTyped DEF Steps
    <2>3. QED
      BY <2>2, TypesSame, PutEach DEF SourceInv
  <1>2. CASE DropDrafts(r)
    <2> DEFINE seen == [Seen(r) EXCEPT !.ids = DraftIssues]
    <2>1. seen \in SourceSeen /\ Goto(r, "clear", seen)
      BY <1>0, <1>2, SeenChanged DEF DropDrafts
    <2> HIDE DEF seen
    <2>2. \E q \in SourceRequest : Put(r, q)
      BY <2>1, GotoTurn DEF Steps
    <2>3. \A row \in OrderRow : [row EXCEPT !.status = "deleted"] \in OrderRow
      BY DEF OrderRow
    <2>4. po' \in [Orders -> OrderRow]
      BY <1>0, <1>2, <2>3 DEF DropDrafts, TypeOK
    <2>5. TypeOK'
      BY <1>0, <1>2, <2>4 DEF DropDrafts, TypeOK
    <2>6. QED
      BY <2>2, <2>5, PutEach DEF SourceInv
  <1>3. CASE ClearIssues(r)
    <2> DEFINE seen == [Seen(r) EXCEPT !.ids = {}]
    <2>1. seen \in SourceSeen /\ Goto(r, "net", seen)
      BY <1>0, <1>3, SeenChanged DEF ClearIssues
    <2> HIDE DEF seen
    <2>2. \E q \in SourceRequest : Put(r, q)
      BY <2>1, GotoTurn DEF Steps
    <2>3. gi' \in [Issues -> IssueRow]
      BY <1>0, <1>3, RowsAsNew DEF ClearIssues, TypeOK
    <2>4. TypeOK'
      BY <1>0, <1>3, <2>3 DEF ClearIssues, TypeOK
    <2>5. QED
      BY <2>2, <2>4, PutEach DEF SourceInv
  <1>4. CASE NetIssued(r)
    <2> DEFINE left == Unissued(Seen(r).need)
               step == IF left = Zero THEN "buy" ELSE "issue"
               seen == [Seen(r) EXCEPT !.qty = left]
    <2>1. Seen(r).need \in Need
      BY <1>0 DEF SourceSeen
    <2>2. left \in Quantity
      BY <2>1, UnissuedTyped
    <2>3. seen \in SourceSeen
      BY <1>0, <2>2, SeenChanged
    <2>4. Goto(r, step, seen) /\ UNCHANGED Tables4
      BY <1>4 DEF NetIssued, Tables4
    <2>5. step \in Steps
      BY DEF Steps
    <2> HIDE DEF left, step, seen
    <2>6. QED
      BY <2>3, <2>4, <2>5, GotoTurn, TypesSame, PutEach DEF SourceInv
  <1>5. ASSUME NEW g \in Issues, DraftIssue(r, g)
        PROVE  SourceInv'
    <2>1. Goto(r, "buy", Seen(r)) /\ "buy" \in Steps
      BY <1>5 DEF DraftIssue, Steps
    <2>2. [status |-> "DRAFT", qty |-> Seen(r).qty] \in IssueRow
      BY <1>0 DEF SourceSeen, IssueRow
    <2>3. gi' \in [Issues -> IssueRow]
      BY <1>0, <1>5, <2>2 DEF DraftIssue, TypeOK
    <2>4. TypeOK'
      BY <1>0, <1>5, <2>3 DEF DraftIssue, TypeOK
    <2>5. QED
      BY <1>0, <2>1, <2>4, GotoTurn, PutEach DEF SourceInv
  <1>6. ASSUME BuyMaterials(r) \/ Subcontract(r)
        PROVE  SourceInv'
    <2>1. /\ \E step \in Steps : Goto(r, step, Seen(r))
          /\ \/ po' = po
             \/ \E p \in Orders, kind \in {"MATERIAL", "OUTSOURCING"} :
                    po' = [po EXCEPT ![p] = [status |-> "DRAFT", kind |-> kind]]
      BY <1>6 DEF BuyMaterials, Subcontract, Steps
    <2>2. \A kind \in {"MATERIAL", "OUTSOURCING"} :
              [status |-> "DRAFT", kind |-> kind] \in OrderRow
      BY DEF OrderRow
    <2>3. po' \in [Orders -> OrderRow]
      BY <1>0, <2>1, <2>2 DEF TypeOK
    <2>4. TypeOK'
      BY <1>0, <1>6, <2>3 DEF BuyMaterials, Subcontract, TypeOK
    <2>5. QED
      BY <1>0, <2>1, <2>4, GotoTurn, PutEach DEF SourceInv
  <1>7. CASE FinishGenerate(r)
    <2>1. /\ Seen(r).need \in Need /\ Seen(r).status \in PfoStatus /\ Seen(r).vendor \in BOOLEAN
          /\ Prepared(Seen(r).status) \in PfoStatus
      BY <1>0 DEF SourceSeen, Prepared, PfoStatus, Early
    <2>2. /\ pfo' \in [status : PfoStatus, vendor : BOOLEAN]
          /\ need' \in Need
      BY <1>0, <1>7, <2>1 DEF FinishGenerate, TypeOK
    <2>3. TypeOK'
      BY <1>0, <1>7, <2>2 DEF FinishGenerate, TypeOK
    <2>4. Done(r)
      BY <1>7 DEF FinishGenerate
    <2>5. QED
      BY <2>3, <2>4, DoneTurn, PutEach DEF SourceInv
  <1>8. QED
    BY <1>1, <1>2, <1>3, <1>4, <1>5, <1>6, <1>7 DEF Generate

LEMMA HandOutTyped ==
    ASSUME SourceInv, NEW r \in Requests, HandOut(r)
    PROVE  SourceInv'
  <1> USE DEF history
  <1>0. TypeOK /\ Seen(r) \in SourceSeen /\ PfoWithNeeds \in SourceSeen
    BY SeenTyped, AsReadTyped DEF SourceInv
  <1>1. ASSUME NEW m \in Mats, SaveHandOut(r, m)
        PROVE  SourceInv'
    <2>1. Seen(r).need \in Need /\ Seen(r).qty \in Quantity
      BY <1>0 DEF SourceSeen
    <2>2. [Seen(r).need[m] EXCEPT !.issued = @ + Seen(r).qty[m]]
              \in [issued : Nat, toBuy : Nat, fromStock : Nat]
      BY <2>1 DEF Need, Quantity
    <2>3. need' \in Need
      BY <1>0, <1>1, <2>2 DEF SaveHandOut, TypeOK, Need
    <2>4. handed' \in Quantity
      BY <1>0, <1>1, <2>1 DEF SaveHandOut, TypeOK, Quantity
    <2>5. TypeOK'
      BY <1>0, <1>1, <2>3, <2>4 DEF SaveHandOut, TypeOK
    <2>6. Goto(r, "promote", Seen(r)) /\ "promote" \in Steps
      BY <1>1 DEF SaveHandOut, Steps
    <2>7. QED
      BY <1>0, <2>5, <2>6, GotoTurn, PutEach DEF SourceInv
  <1>2. ASSUME NEW m \in Mats, NEW n \in 1..Planned[m], BeginHandOut(r, m, n)
        PROVE  SourceInv'
    <2> DEFINE qty == [Zero EXCEPT ![m] = n]
               seen == [PfoWithNeeds EXCEPT !.qty = qty]
    <2>1. qty \in Quantity
      BY ZeroTyped, SourcingConstants DEF Quantity
    <2>2. seen \in SourceSeen
      BY <1>0, <2>1, SeenChanged
    <2>3. Begin(r, "handOut", "save", m, seen) /\ "save" \in Steps
      BY <1>2 DEF BeginHandOut, Steps
    <2> HIDE DEF qty, seen
    <2>4. UNCHANGED Tables4 /\ \E q \in SourceRequest : Put(r, q)
      BY <2>2, <2>3, BeginTyped
    <2>5. QED
      BY <2>4, TypesSame, PutEach DEF SourceInv
  <1>3. CASE PromotePfo(r)
    <2>1. Done(r) /\ pfo' \in [status : PfoStatus, vendor : BOOLEAN]
      BY <1>0, <1>3 DEF PromotePfo, TypeOK, SourceSeen, PfoStatus
    <2>2. TypeOK'
      BY <1>0, <1>3, <2>1 DEF PromotePfo, TypeOK
    <2>3. QED
      BY <2>1, <2>2, DoneTurn, PutEach DEF SourceInv
  <1>4. QED
    BY <1>1, <1>2, <1>3 DEF HandOut


LEMMA IssueTyped ==
    ASSUME SourceInv, NEW r \in Requests, NEW g \in Issues, OnIssue(r, g)
    PROVE  SourceInv'
  <1> USE DEF history
  <1>0. /\ TypeOK /\ Seen(r) \in SourceSeen /\ gi \in [Issues -> IssueRow]
        /\ Seen(r).gi \in IssueRow /\ Seen(r).gi.qty \in Quantity /\ Seen(r).qty \in Quantity
    BY SeenTyped DEF SourceInv, TypeOK, SourceSeen, IssueRow
  <1>1. ASSUME NEW call, NEW step \in Steps, NEW qty \in Quantity,
               BeginWithIssue(r, call, step, g, qty)
        PROVE  SourceInv'
    <2> DEFINE seen == [NothingSeen EXCEPT !.gi = gi[g], !.qty = qty]
    <2>1. seen \in SourceSeen
      BY <1>0, NothingTyped, SeenChanged
    <2>2. Begin(r, call, step, g, seen)
      BY <1>1 DEF BeginWithIssue
    <2> HIDE DEF seen
    <2>3. UNCHANGED Tables4 /\ \E q \in SourceRequest : Put(r, q)
      BY <2>1, <2>2, BeginTyped
    <2>4. QED
      BY <2>3, TypesSame, PutEach DEF SourceInv
  <1>2. CASE BeginConfirm(r, g)
    BY <1>1, <1>2, ZeroTyped DEF BeginConfirm, Steps
  <1>3. ASSUME NEW qty \in Quantities, Export(r, g, qty)
        PROVE  SourceInv'
    <2>1. qty \in Quantity
      BY EnteredTyped
    <2>2. /\ [Seen(r) EXCEPT !.gi.qty = qty] \in SourceSeen
          /\ [gi[g] EXCEPT !.qty = qty] \in IssueRow
      BY <1>0, <2>1, SeenChanged DEF IssueRow
    <2>3. Goto(r, "save", [Seen(r) EXCEPT !.gi.qty = qty]) /\ "save" \in Steps
      BY <1>3 DEF Export, Steps
    <2>4. gi' \in [Issues -> IssueRow]
      BY <1>0, <1>3, <2>2 DEF Export
    <2>5. rows' \in [Mats -> Int] /\ rows' = Minus(rows, qty)
      BY <1>0, <1>3, <2>1, IntSums DEF Export, TypeOK
    <2>6. master' \in [Mats -> Int]
      BY <1>0, <1>3, <2>5 DEF Export, TypeOK
    <2>7. TypeOK'
      BY <1>0, <1>3, <2>4, <2>5, <2>6 DEF Export, TypeOK
    <2>8. \E q \in SourceRequest : Put(r, q)
      BY <2>2, <2>3, GotoTurn
    <2>9. QED
      BY <2>7, <2>8, PutEach DEF SourceInv
  <1>4. CASE SaveConfirmed(r, g)
    <2>1. Goto(r, "pfo", Seen(r)) /\ "pfo" \in Steps
      BY <1>4 DEF SaveConfirmed, Steps
    <2>2. [Seen(r).gi EXCEPT !.status = "CONFIRMED"] \in IssueRow
      BY <1>0 DEF IssueRow
    <2>3. gi' \in [Issues -> IssueRow]
      BY <1>0, <1>4, <2>2 DEF SaveConfirmed
    <2>4. TypeOK'
      BY <1>0, <1>4, <2>3 DEF SaveConfirmed, TypeOK
    <2>5. QED
      BY <1>0, <2>1, <2>4, GotoTurn, PutEach DEF SourceInv
  <1>5. CASE SaveDelivered(r, g)
    <2>1. [Seen(r).gi EXCEPT !.status = "DELIVERED"] \in IssueRow
      BY <1>0 DEF IssueRow
    <2>2. gi' \in [Issues -> IssueRow] /\ Done(r)
      BY <1>0, <1>5, <2>1 DEF SaveDelivered
    <2>3. TypeOK'
      BY <1>0, <1>5, <2>2 DEF SaveDelivered, TypeOK
    <2>4. QED
      BY <2>2, <2>3, DoneTurn, PutEach DEF SourceInv
  <1>6. CASE ReturnGoods(r, g)
    <2>1. Goto(r, "drop", Seen(r)) /\ "drop" \in Steps
      BY <1>6 DEF ReturnGoods, Steps
    <2>2. master' \in [Mats -> Int]
      BY <1>0, <1>6, IntSums DEF ReturnGoods, TypeOK
    <2>3. TypeOK'
      BY <1>0, <1>6, <2>2 DEF ReturnGoods, TypeOK
    <2>4. QED
      BY <1>0, <2>1, <2>3, GotoTurn, PutEach DEF SourceInv
  <1>7. CASE DropIssue(r, g)
    <2>1. gi' \in [Issues -> IssueRow] /\ Done(r)
      BY <1>0, <1>7, RowsAsNew DEF DropIssue
    <2>2. gone' \in Quantity
      BY <1>0, <1>7, QuantitySums DEF DropIssue, TypeOK
    <2>3. TypeOK'
      BY <1>0, <1>7, <2>1, <2>2 DEF DropIssue, TypeOK
    <2>4. QED
      BY <2>1, <2>3, DoneTurn, PutEach DEF SourceInv
  <1>8. CASE SaveEdited(r, g)
    <2> DEFINE new == IF Editable(Seen(r).gi) THEN Seen(r).qty ELSE Seen(r).gi.qty
               more == [m \in Mats |-> FromZero(new[m] - Seen(r).gi.qty[m])]
    <2>1. new \in Quantity /\ [Seen(r).gi EXCEPT !.qty = new] \in IssueRow
      BY <1>0 DEF IssueRow
    <2>2. /\ gi' = [gi EXCEPT ![g] = [Seen(r).gi EXCEPT !.qty = new]]
          /\ asked' = Plus(asked, more) /\ Done(r)
      BY <1>8 DEF SaveEdited
    <2>3. UNCHANGED <<pfo, need, po, rows, master, handed, gone>>
      BY <1>8 DEF SaveEdited
    <2> HIDE DEF new
    <2>4. more \in Quantity
      BY <1>0, <2>1 DEF Quantity, FromZero
    <2> HIDE DEF more
    <2>5. gi' \in [Issues -> IssueRow] /\ asked' \in Quantity
      BY <1>0, <2>1, <2>2, <2>4, QuantitySums DEF TypeOK
    <2>6. TypeOK'
      BY <1>0, <2>3, <2>5 DEF TypeOK
    <2>7. QED
      BY <2>2, <2>6, DoneTurn, PutEach DEF SourceInv
  <1>9. "save" \in Steps /\ "return" \in Steps /\ Zero \in Quantity
    BY ZeroTyped DEF Steps
  <1>10. ASSUME \/ BeginWithIssue(r, "delivered", "save", g, Zero)
                \/ BeginWithIssue(r, "delete", "return", g, Zero)
                \/ \E qty \in Quantities : BeginWithIssue(r, "edit", "save", g, qty)
         PROVE  SourceInv'
    BY <1>1, <1>9, <1>10, EnteredTyped
  <1>11. QED
    BY <1>2, <1>3, <1>4, <1>5, <1>6, <1>7, <1>8, <1>10 DEF OnIssue

LEMMA OrderTyped ==
    ASSUME SourceInv, NEW r \in Requests, NEW p \in Orders, OnOrder(r, p)
    PROVE  SourceInv'
  <1> USE DEF history
  <1>0. TypeOK /\ Seen(r) \in SourceSeen /\ Seen(r).po \in OrderRow /\ po[p] \in OrderRow
    BY SeenTyped DEF SourceInv, TypeOK, SourceSeen
  <1>1. ASSUME NEW answer, BeginSupplier(r, p, answer)
        PROVE  SourceInv'
    <2> DEFINE row == [po[p] EXCEPT !.status = answer]
               seen == [NothingSeen EXCEPT !.po = row]
    <2>1. row \in OrderRow
      BY <1>0, <1>1 DEF BeginSupplier, Answers, OrderRow
    <2> HIDE DEF row
    <2>2. seen \in SourceSeen
      BY <2>1, NothingTyped, SeenChanged
    <2>3. Begin(r, "supplier", "save", p, seen) /\ "save" \in Steps
      BY <1>1 DEF BeginSupplier, Steps, row
    <2> HIDE DEF seen
    <2>4. UNCHANGED Tables4 /\ \E q \in SourceRequest : Put(r, q)
      BY <2>2, <2>3, BeginTyped
    <2>5. QED
      BY <2>4, TypesSame, PutEach DEF SourceInv
  <1>2. CASE SaveOrder(r, p)
    <2>1. Goto(r, "check", Seen(r)) /\ "check" \in Steps
      BY <1>2 DEF SaveOrder, Steps
    <2>2. po' \in [Orders -> OrderRow]
      BY <1>0, <1>2 DEF SaveOrder, TypeOK
    <2>3. TypeOK'
      BY <1>0, <1>2, <2>2 DEF SaveOrder, TypeOK
    <2>4. QED
      BY <1>0, <2>1, <2>3, GotoTurn, PutEach DEF SourceInv
  <1>3. QED
    BY <1>1, <1>2 DEF OnOrder

LEMMA BeginsTyped ==
    ASSUME SourceInv, NEW r \in Requests, NEW call, NEW step \in Steps,
           NEW seen \in SourceSeen, Begin(r, call, step, NoId, seen)
    PROVE  SourceInv'
  <1>1. UNCHANGED Tables4 /\ \E q \in SourceRequest : Put(r, q)
    BY BeginTyped
  <1>2. QED
    BY <1>1, TypesSame, PutEach DEF SourceInv

LEMMA MoveTyped ==
    ASSUME SourceInv, NEW r \in Requests, MovePfo(r) \/ CheckPfo(r)
    PROVE  SourceInv'
  <1> USE DEF history
  <1>0. /\ TypeOK /\ Seen(r) \in SourceSeen /\ PfoAsRead \in SourceSeen
        /\ PfoWithNeeds \in SourceSeen
        /\ Seen(r).need \in Need /\ Seen(r).status \in PfoStatus /\ Seen(r).vendor \in BOOLEAN
        /\ pfo.status \in PfoStatus /\ pfo.vendor \in BOOLEAN
    BY SeenTyped, AsReadTyped DEF SourceInv, TypeOK, SourceSeen
  <1>1. ASSUME NEW call, NEW status \in PfoStatus, NEW vendor \in BOOLEAN,
               BeginMove(r, call, status, vendor)
        PROVE  SourceInv'
    <2> DEFINE seen == [PfoWithNeeds EXCEPT !.status = status, !.vendor = vendor]
    <2>1. seen \in SourceSeen
      BY <1>0, SeenChanged
    <2>2. Begin(r, call, "set", NoId, seen) /\ "set" \in Steps
      BY <1>1 DEF BeginMove, Steps
    <2> HIDE DEF seen
    <2>3. QED
      BY <2>1, <2>2, BeginsTyped
  <1>2. CASE AssignVendor(r)
    <2>1. "WAITING_VENDOR" \in PfoStatus /\ TRUE \in BOOLEAN
      BY DEF PfoStatus, Early
    <2>2. QED
      BY <1>1, <1>2, <2>1 DEF AssignVendor
  <1>3. CASE SubmitQcRecord(r)
    <2>1. "RECEIVING" \in PfoStatus
      BY DEF PfoStatus
    <2>2. QED
      BY <1>0, <1>1, <1>3, <2>1 DEF SubmitQcRecord
  <1>4. CASE \E status \in BoardMoves : UpdatePfoStatus(r, status)
    BY <1>0, <1>1, <1>4, SourcingConstants DEF UpdatePfoStatus
  <1>5. CASE SetPfo(r)
    <2>1. Done(r) /\ pfo' \in [status : PfoStatus, vendor : BOOLEAN] /\ need' \in Need
      BY <1>0, <1>5 DEF SetPfo, TypeOK
    <2>2. TypeOK'
      BY <1>0, <1>5, <2>1 DEF SetPfo, TypeOK
    <2>3. QED
      BY <2>1, <2>2, DoneTurn, PutEach DEF SourceInv
  <1>6. CASE CheckPfo(r)
    <2> DEFINE seen == [PfoAsRead EXCEPT !.status = CalledFor(pfo.status)]
    <2>1. CalledFor(pfo.status) \in PfoStatus
      BY <1>0 DEF CalledFor, PfoStatus
    <2>2. seen \in SourceSeen
      BY <1>0, <2>1, SeenChanged
    <2>3. (Done(r) \/ Goto(r, "set", seen)) /\ UNCHANGED Tables4 /\ "set" \in Steps
      BY <1>6 DEF CheckPfo, Tables4, Steps
    <2> HIDE DEF seen
    <2>4. \E q \in SourceRequest : Put(r, q)
      BY <2>2, <2>3, GotoTurn, DoneTurn
    <2>5. QED
      BY <2>3, <2>4, TypesSame, PutEach DEF SourceInv
  <1>7. QED
    BY <1>2, <1>3, <1>4, <1>5, <1>6 DEF MovePfo

LEMMA ScreenTyped ==
    ASSUME SourceInv,
           \/ Recalculate
           \/ \E m \in Mats : \E n \in 0..Planned[m] : SaveRequirements(m, n)
           \/ \E g \in Issues, qty \in Quantities : CreateGoodsIssue(g, qty)
    PROVE  SourceInv'
  <1>0. TypeOK
    BY DEF SourceInv
  <1>1. CASE Recalculate
    <2>1. need' \in Need /\ handed' \in Quantity
      BY <1>1, FreshTyped, ZeroTyped DEF Recalculate
    <2>2. TypeOK' /\ req' = req
      BY <1>0, <1>1, <2>1 DEF Recalculate, TypeOK
    <2>3. QED
      BY <2>2 DEF SourceInv
  <1>2. ASSUME NEW m \in Mats, NEW n \in 0..Planned[m], SaveRequirements(m, n)
        PROVE  SourceInv'
    <2>1. n \in Nat /\ FromZero(Planned[m] - n) \in Nat
      BY SourcingConstants DEF FromZero
    <2>2. [need[m] EXCEPT !.toBuy = FromZero(Planned[m] - n), !.fromStock = n]
              \in [issued : Nat, toBuy : Nat, fromStock : Nat]
      BY <1>0, <2>1 DEF TypeOK, Need
    <2>3. need' = [need EXCEPT ![m] =
                      [need[m] EXCEPT !.toBuy = FromZero(Planned[m] - n), !.fromStock = n]]
      BY <1>0, <1>2 DEF SaveRequirements, TypeOK, Need
    <2>4. need' \in Need
      BY <1>0, <2>2, <2>3 DEF TypeOK, Need
    <2>5. asked' \in Quantity
      BY <1>0, <1>2, <2>1 DEF SaveRequirements, TypeOK, Quantity, Larger
    <2>6. TypeOK' /\ req' = req
      BY <1>0, <1>2, <2>4, <2>5 DEF SaveRequirements, TypeOK
    <2>7. QED
      BY <2>6 DEF SourceInv
  <1>3. ASSUME NEW g \in Issues, NEW qty \in Quantities, CreateGoodsIssue(g, qty)
        PROVE  SourceInv'
    <2>1. qty \in Quantity
      BY EnteredTyped
    <2>2. [status |-> "DRAFT", qty |-> qty] \in IssueRow
      BY <2>1 DEF IssueRow
    <2>3. gi' \in [Issues -> IssueRow]
      BY <1>0, <1>3, <2>2 DEF CreateGoodsIssue, TypeOK
    <2>4. asked' \in Quantity
      BY <1>0, <1>3, <2>1, QuantitySums DEF CreateGoodsIssue, TypeOK
    <2>5. TypeOK' /\ req' = req
      BY <1>0, <1>3, <2>3, <2>4 DEF CreateGoodsIssue, TypeOK
    <2>6. QED
      BY <2>5 DEF SourceInv
  <1>4. QED
    BY <1>1, <1>2, <1>3

LEMMA SourceInvKept ==
    ASSUME SourceInv, [Next]_vars
    PROVE  SourceInv'
  <1>1. CASE UNCHANGED vars
    BY <1>1 DEF vars, SourceInv, TypeOK
  <1>2. ASSUME \/ Recalculate
               \/ \E m \in Mats : \E n \in 0..Planned[m] : SaveRequirements(m, n)
               \/ \E g \in Issues, qty \in Quantities : CreateGoodsIssue(g, qty)
        PROVE  SourceInv'
    BY <1>2, ScreenTyped
  <1>3. ASSUME NEW r \in Requests, Generate(r) \/ HandOut(r) \/ CheckPfo(r) \/ MovePfo(r)
        PROVE  SourceInv'
    BY <1>3, GenerateTyped, HandOutTyped, MoveTyped
  <1>4. ASSUME NEW r \in Requests, StartProduction(r)
        PROVE  SourceInv'
    <2>1. Done(r) /\ pfo' \in [status : PfoStatus, vendor : BOOLEAN]
      BY <1>4 DEF StartProduction, SourceInv, TypeOK, PfoStatus
    <2>2. TypeOK'
      BY <1>4, <2>1 DEF StartProduction, SourceInv, TypeOK, history
    <2>3. QED
      BY <2>1, <2>2, DoneTurn, PutEach DEF SourceInv
  <1>5. ASSUME NEW r \in Requests, Fail(r)
        PROVE  SourceInv'
    <2>1. Done(r) /\ UNCHANGED Tables4
      BY <1>5 DEF Fail, Tables4
    <2>2. QED
      BY <2>1, TypesSame, DoneTurn, PutEach DEF SourceInv
  <1>6. ASSUME NEW r \in Requests, NEW g \in Issues, OnIssue(r, g)
        PROVE  SourceInv'
    BY <1>6, IssueTyped
  <1>7. ASSUME NEW r \in Requests, NEW p \in Orders, OnOrder(r, p)
        PROVE  SourceInv'
    BY <1>7, OrderTyped
  <1>8. QED
    BY <1>1, <1>2, <1>3, <1>4, <1>5, <1>6, <1>7 DEF Next

LEMMA SourceInvAtStart == Init => SourceInv
  <1> SUFFICES ASSUME Init PROVE SourceInv
    OBVIOUS
  <1>1. /\ pfo = [status |-> "DRAFT", vendor |-> FALSE] /\ need = FreshNeed
        /\ gi = [g \in Issues |-> NoIssue] /\ po = [p \in Orders |-> NoOrder]
        /\ rows = Opening /\ master = Opening /\ req = [r \in Requests |-> Idle]
        /\ handed = Zero /\ asked = Zero /\ gone = Zero
    BY DEF Init
  <1>2. Opening \in [Mats -> Int] /\ "DRAFT" \in PfoStatus
    BY SourcingConstants DEF PfoStatus, Early
  <1>3. TypeOK
    BY <1>1, <1>2, FreshTyped, RowsAsNew, ZeroTyped DEF TypeOK
  <1>4. QED
    BY <1>1, <1>3, IdleTyped DEF SourceInv

\* Every table keeps its fields, whichever handlers overlap, write back rows
\* that were deleted or changed meanwhile, or stop half-way.
THEOREM SourcingTyped == Spec => []TypeOK
  <1>1. SourceInv => TypeOK
    BY DEF SourceInv
  <1>2. QED
    BY <1>1, SourceInvAtStart, SourceInvKept, PTL DEF Spec

--------------------------------------------------------------------------------
\* The one request among those that run the handlers of a set, or none.
Sole(q, users) ==
    \/ q = Idle /\ \A s \in Requests : req[s].call \notin users
    \/ \E r \in Requests :
           /\ q = req[r] /\ q.call \in users
           /\ \A s \in Requests \ {r} : req[s].call \notin users

LEMMA SoleBusy ==
    ASSUME NEW users, NEW q, Sole(q, users), NEW r \in Requests, req[r].call \in users
    PROVE  q = req[r] /\ \A s \in Requests \ {r} : req[s].call \notin users
  BY DEF Sole

\* A request of another kind takes a step and stays one.
LEMMA SoleElsewhere ==
    ASSUME SourceInv, NEW users, "idle" \notin users, NEW q, Sole(q, users),
           NEW r \in Requests, NEW q1, Put(r, q1),
           req[r].call \notin users, q1.call \notin users
    PROVE  Sole(q, users)'
  <1>1. req'[r] = q1 /\ \A s \in Requests \ {r} : req'[s] = req[s]
    BY PutEach
  <1>2. CASE q = Idle /\ \A s \in Requests : req[s].call \notin users
    BY <1>1, <1>2 DEF Sole
  <1>3. ASSUME NEW o \in Requests, q = req[o], q.call \in users,
               \A s \in Requests \ {o} : req[s].call \notin users
        PROVE  Sole(q, users)'
    <2>1. o # r /\ q = req'[o] /\ \A s \in Requests \ {o} : req'[s].call \notin users
      BY <1>1, <1>3
    <2>2. QED
      BY <1>3, <2>1 DEF Sole
  <1>4. QED
    BY <1>2, <1>3 DEF Sole

\* It takes a step itself, or begins when there was none.
LEMMA SoleThen ==
    ASSUME SourceInv, NEW users, "idle" \notin users,
           NEW r \in Requests, \A s \in Requests \ {r} : req[s].call \notin users,
           NEW q1, Put(r, q1)
    PROVE  /\ q1.call \in users => Sole(q1, users)'
           /\ q1.call \notin users => Sole(Idle, users)'
  <1>1. req'[r] = q1 /\ \A s \in Requests \ {r} : req'[s] = req[s]
    BY PutEach
  <1>2. ASSUME q1.call \in users PROVE Sole(q1, users)'
    BY <1>1, <1>2 DEF Sole
  <1>3. ASSUME q1.call \notin users PROVE Sole(Idle, users)'
    BY <1>1, <1>3 DEF Sole
  <1>4. QED
    BY <1>2, <1>3

LEMMA SoleSame ==
    ASSUME NEW users, NEW q, Sole(q, users), req' = req
    PROVE  Sole(q, users)'
  BY DEF Sole

\* None of them had the table in hand when another begins, unless they race.
LEMMA SoleFree ==
    ASSUME NEW users, "idle" \notin users, NEW table, \A u \in users : table \in Tables(u),
           NEW call \in users, table \notin raced',
           raced' = raced \cup UNION {Tables(call) \cap Tables(req[s].call) : s \in InFlight}
    PROVE  table \notin raced /\ \A s \in Requests : req[s].call \notin users
  <1>1. ASSUME NEW s \in Requests, req[s].call \in users PROVE FALSE
    <2>1. s \in InFlight
      BY <1>1 DEF InFlight
    <2>2. table \in Tables(call) \cap Tables(req[s].call)
      BY <1>1
    <2>3. QED
      BY <2>1, <2>2
  <1>2. QED
    BY <1>1

--------------------------------------------------------------------------------
OrderCalls == {"generate", "supplier"}

LEMMA OrderTables == "idle" \notin OrderCalls /\ \A u \in OrderCalls : "orders" \in Tables(u)
  <1>1. "orders" \in Tables("generate")
    BY DEF Tables
  <1>2. "orders" \in Tables("supplier")
    BY DEF Tables
  <1>3. QED
    BY <1>1, <1>2 DEF OrderCalls

\* The drafts a request means to replace are all there are until it has
\* dropped them, and then there are none until it makes its own; an answer of
\* a supplier never makes a draft again.
OrderBooks(q) ==
    /\ \A p1, p2 \in Orders : po[p1].status = "DRAFT" /\ po[p2] = po[p1] => p1 = p2
    /\ q.call = "generate" /\ q.at = "drop" => ToReplace \subseteq q.seen.ids
    /\ q.call = "generate" /\ q.at \in {"clear", "net", "issue", "buy"} => ToReplace = {}
    /\ q.call = "generate" /\ q.at = "subcontract" =>
           \A p \in ToReplace : po[p].kind = "MATERIAL"
    /\ q.call = "supplier" /\ q.at = "save" => q.seen.po.status # "DRAFT"

\* The inductive invariant of the drafts.
OrderInv == "orders" \notin raced => \E q : Sole(q, OrderCalls) /\ OrderBooks(q)

LEMMA OrderBooksIdle ==
    ASSUME NEW q, OrderBooks(q)
    PROVE  OrderBooks(Idle)
  BY IdleTyped DEF OrderBooks

LEMMA OrderBooksSame ==
    ASSUME NEW q, OrderBooks(q), po' = po
    PROVE  OrderBooks(q)'
  BY DEF OrderBooks, ToReplace

LEMMA OrderElsewhere ==
    ASSUME SourceInv, OrderInv, NEW r \in Requests, NEW q1, Put(r, q1), po' = po,
           raced \subseteq raced', req[r].call \notin OrderCalls, q1.call \notin OrderCalls
    PROVE  OrderInv'
  <1> SUFFICES ASSUME "orders" \notin raced' PROVE \E q : (Sole(q, OrderCalls) /\ OrderBooks(q))'
    BY DEF OrderInv
  <1>1. PICK q : Sole(q, OrderCalls) /\ OrderBooks(q)
    BY DEF OrderInv
  <1>2. Sole(q, OrderCalls)' /\ OrderBooks(q)'
    BY <1>1, OrderTables, SoleElsewhere, OrderBooksSame
  <1>3. QED
    BY <1>2

LEMMA OrderOwn ==
    ASSUME SourceInv, OrderInv, NEW r \in Requests, NEW q1, Put(r, q1),
           req[r].call \in OrderCalls, q1.call \in OrderCalls, raced' = raced,
           OrderBooks(req[r]) => OrderBooks(q1)'
    PROVE  OrderInv'
  <1> SUFFICES ASSUME "orders" \notin raced' PROVE \E q : (Sole(q, OrderCalls) /\ OrderBooks(q))'
    BY DEF OrderInv
  <1>1. PICK q : Sole(q, OrderCalls) /\ OrderBooks(q)
    BY DEF OrderInv
  <1>2. q = req[r] /\ \A s \in Requests \ {r} : req[s].call \notin OrderCalls
    BY <1>1, SoleBusy
  <1>3. Sole(q1, OrderCalls)' /\ OrderBooks(q1)'
    BY <1>1, <1>2, OrderTables, SoleThen
  <1>4. QED
    BY <1>3

\* A request ends without a word to the orders.
LEMMA OrderDone ==
    ASSUME SourceInv, OrderInv, NEW r \in Requests, Done(r), po' = po, raced' = raced
    PROVE  OrderInv'
  <1>1. Put(r, Idle) /\ Idle.call \notin OrderCalls
    BY DoneTurn, IdleTyped, OrderTables
  <1>2. CASE req[r].call \notin OrderCalls
    BY <1>1, <1>2, OrderElsewhere
  <1>3. ASSUME req[r].call \in OrderCalls, "orders" \notin raced'
        PROVE  \E q : (Sole(q, OrderCalls) /\ OrderBooks(q))'
    <2>1. PICK q : Sole(q, OrderCalls) /\ OrderBooks(q)
      BY <1>3 DEF OrderInv
    <2>2. \A s \in Requests \ {r} : req[s].call \notin OrderCalls
      BY <1>3, <2>1, SoleBusy
    <2>3. Sole(Idle, OrderCalls)'
      BY <1>1, <2>2, OrderTables, SoleThen
    <2>4. OrderBooks(Idle)'
      BY <2>1, OrderBooksIdle, OrderBooksSame
    <2>5. QED
      BY <2>3, <2>4
  <1>4. QED
    BY <1>2, <1>3 DEF OrderInv

LEMMA OrderBegins ==
    ASSUME SourceInv, OrderInv, NEW r \in Requests, NEW q1, Put(r, q1), po' = po,
           req[r].call = "idle", q1.call \in OrderCalls,
           raced' = raced \cup UNION {Tables(q1.call) \cap Tables(req[s].call) : s \in InFlight},
           OrderBooks(Idle) => OrderBooks(q1)'
    PROVE  OrderInv'
  <1> SUFFICES ASSUME "orders" \notin raced' PROVE \E q : (Sole(q, OrderCalls) /\ OrderBooks(q))'
    BY DEF OrderInv
  <1>1. "orders" \notin raced /\ \A s \in Requests : req[s].call \notin OrderCalls
    BY OrderTables, SoleFree
  <1>2. PICK q : Sole(q, OrderCalls) /\ OrderBooks(q)
    BY <1>1 DEF OrderInv
  <1>3. OrderBooks(Idle)
    BY <1>2, OrderBooksIdle
  <1>4. Sole(q1, OrderCalls)' /\ OrderBooks(q1)'
    BY <1>1, <1>3, OrderTables, SoleThen
  <1>5. QED
    BY <1>4

LEMMA OrderUntouched ==
    ASSUME OrderInv, po' = po, req' = req, raced' = raced
    PROVE  OrderInv'
  BY OrderBooksSame, SoleSame DEF OrderInv

\* A step of a request that says nothing to the orders.
LEMMA OrderGoes ==
    ASSUME SourceInv, OrderInv, NEW r \in Requests, NEW step \in Steps, NEW seen \in SourceSeen,
           Goto(r, step, seen), po' = po, raced' = raced, req[r].call \notin OrderCalls
    PROVE  OrderInv'
  <1>1. PICK q1 \in SourceRequest : Put(r, q1) /\ q1.call = req[r].call
    BY GotoTurn
  <1>2. QED
    BY <1>1, OrderElsewhere

LEMMA OrderStarts ==
    ASSUME SourceInv, OrderInv, NEW r \in Requests, NEW call, call \notin OrderCalls,
           NEW step \in Steps, NEW id \in {NoId} \cup Mats \cup Issues \cup Orders,
           NEW seen \in SourceSeen, Begin(r, call, step, id, seen)
    PROVE  OrderInv'
  <1>1. PICK q1 \in SourceRequest :
            /\ Put(r, q1) /\ req[r].call = "idle" /\ q1.call = call
            /\ UNCHANGED <<pfo, need, gi, po, rows, master, history>>
            /\ raced' = raced \cup UNION {Tables(call) \cap Tables(req[s].call) : s \in InFlight}
    BY BeginTurn
  <1>2. po' = po /\ raced \subseteq raced' /\ req[r].call \notin OrderCalls
    BY <1>1, OrderTables
  <1>3. QED
    BY <1>1, <1>2, OrderElsewhere

--------------------------------------------------------------------------------
\* The ranges the steps' lemmas ask for.
LEMMA Ranges ==
    ASSUME SourceInv, NEW r \in Requests
    PROVE  /\ NothingSeen \in SourceSeen /\ Seen(r) \in SourceSeen /\ Seen(r) = req[r].seen
           /\ PfoAsRead \in SourceSeen /\ PfoWithNeeds \in SourceSeen
           /\ ToReplace \in SUBSET (Issues \cup Orders)
           /\ DraftIssues \in SUBSET (Issues \cup Orders) /\ {} \in SUBSET (Issues \cup Orders)
           /\ Seen(r).need \in Need /\ Seen(r).gi \in IssueRow /\ Seen(r).gi.qty \in Quantity
           /\ Seen(r).qty \in Quantity /\ Seen(r).po \in OrderRow
           /\ Zero \in Quantity
  BY NothingTyped, SeenTyped, AsReadTyped, ZeroTyped
  DEF ToReplace, DraftIssues, SourceSeen, IssueRow

LEMMA GenerateOrders ==
    ASSUME SourceInv, OrderInv, NEW r \in Requests, Generate(r)
    PROVE  OrderInv'
  <1> USE DEF history
  <1>0. /\ Seen(r) \in SourceSeen /\ PfoWithNeeds \in SourceSeen /\ Seen(r) = req[r].seen
        /\ ToReplace \in SUBSET (Issues \cup Orders)
        /\ DraftIssues \in SUBSET (Issues \cup Orders) /\ {} \in SUBSET (Issues \cup Orders)
        /\ "generate" \in OrderCalls /\ po \in [Orders -> OrderRow]
    BY Ranges DEF OrderCalls, SourceInv, TypeOK
  <1>1. CASE BeginGenerate(r)
    <2> DEFINE seen == [PfoWithNeeds EXCEPT !.ids = ToReplace]
    <2>1. seen \in SourceSeen /\ Begin(r, "generate", "drop", NoId, seen) /\ seen.ids = ToReplace
      BY <1>0, <1>1, SeenChanged DEF BeginGenerate, SourceSeen
    <2> HIDE DEF seen
    <2>2. PICK q1 \in SourceRequest :
              /\ Put(r, q1) /\ req[r].call = "idle"
              /\ q1.call = "generate" /\ q1.at = "drop" /\ q1.seen = seen
              /\ UNCHANGED <<pfo, need, gi, po, rows, master, history>>
              /\ raced' = raced \cup UNION {Tables("generate") \cap Tables(req[s].call) : s \in InFlight}
      BY <2>1, BeginTurn DEF Steps
    <2>3. OrderBooks(Idle) => OrderBooks(q1)'
      BY <2>1, <2>2 DEF OrderBooks, ToReplace
    <2>4. QED
      BY <1>0, <2>2, <2>3, OrderBegins
  <1>2. CASE DropDrafts(r)
    <2> DEFINE seen == [Seen(r) EXCEPT !.ids = DraftIssues]
    <2>1. seen \in SourceSeen /\ Goto(r, "clear", seen)
      BY <1>0, <1>2, SeenChanged DEF DropDrafts
    <2> HIDE DEF seen
    <2>2. PICK q1 \in SourceRequest : Put(r, q1) /\ q1.call = req[r].call /\ q1.at = "clear"
      BY <2>1, GotoTurn DEF Steps
    <2>3. /\ req[r].call = "generate" /\ req[r].at = "drop" /\ raced' = raced
          /\ po' = [p \in Orders |-> IF p \in req[r].seen.ids
                                     THEN [po[p] EXCEPT !.status = "deleted"] ELSE po[p]]
      BY <1>0, <1>2 DEF DropDrafts, At
    <2>4. \A p \in Orders : [po[p] EXCEPT !.status = "deleted"].status = "deleted"
      BY <1>0 DEF OrderRow
    <2>5. ASSUME OrderBooks(req[r])
          PROVE  \A p \in Orders : po'[p].status # "DRAFT"
      BY <2>3, <2>4, <2>5 DEF OrderBooks, ToReplace
    <2>6. OrderBooks(req[r]) => OrderBooks(q1)'
      BY <2>2, <2>3, <2>5 DEF OrderBooks, ToReplace
    <2>7. QED
      BY <1>0, <2>2, <2>3, <2>6, OrderOwn
  <1>3. ASSUME ClearIssues(r) \/ NetIssued(r) \/ \E g \in Issues : DraftIssue(r, g)
        PROVE  OrderInv'
    <2>1. /\ req[r].call = "generate" /\ req[r].at \in {"clear", "net", "issue"}
          /\ po' = po /\ raced' = raced
          /\ \E step \in {"net", "issue", "buy"} :
                 \/ Goto(r, step, Seen(r)) \/ Goto(r, step, [Seen(r) EXCEPT !.ids = {}])
                 \/ Goto(r, step, [Seen(r) EXCEPT !.qty = Unissued(Seen(r).need)])
      BY <1>3 DEF ClearIssues, NetIssued, DraftIssue, At
    <2>2. Unissued(Seen(r).need) \in Quantity
      BY UnissuedTyped, Ranges
    <2>3. /\ [Seen(r) EXCEPT !.ids = {}] \in SourceSeen
          /\ [Seen(r) EXCEPT !.qty = Unissued(Seen(r).need)] \in SourceSeen
      BY <1>0, <2>2, SeenChanged
    <2>4. PICK step \in {"net", "issue", "buy"}, seen \in SourceSeen : Goto(r, step, seen)
      BY <1>0, <2>1, <2>3
    <2>5. PICK q1 \in SourceRequest : Put(r, q1) /\ q1.call = req[r].call /\ q1.at = step
      BY <2>4, GotoTurn DEF Steps
    <2>6. OrderBooks(req[r]) => OrderBooks(q1)'
      BY <2>1, <2>5 DEF OrderBooks, ToReplace
    <2>7. QED
      BY <1>0, <2>1, <2>5, <2>6, OrderOwn
  <1>4. CASE BuyMaterials(r)
    <2>1. Goto(r, "subcontract", Seen(r)) /\ "subcontract" \in Steps
      BY <1>4 DEF BuyMaterials, Steps
    <2>2. PICK q1 \in SourceRequest :
              Put(r, q1) /\ q1.call = req[r].call /\ q1.at = "subcontract"
      BY <1>0, <2>1, GotoTurn
    <2>3. /\ req[r].call = "generate" /\ req[r].at = "buy" /\ raced' = raced
          /\ \/ po' = po
             \/ \E p \in Orders :
                    po' = [po EXCEPT ![p] = [status |-> "DRAFT", kind |-> "MATERIAL"]]
      BY <1>4 DEF BuyMaterials, At
    <2>4. ASSUME OrderBooks(req[r]) PROVE OrderBooks(q1)'
      <3>1. ToReplace = {}
        BY <2>3, <2>4 DEF OrderBooks
      <3>2. CASE po' = po
        BY <2>2, <2>3, <3>1, <3>2 DEF OrderBooks, ToReplace
      <3>3. ASSUME NEW p \in Orders,
                   po' = [po EXCEPT ![p] = [status |-> "DRAFT", kind |-> "MATERIAL"]]
            PROVE  OrderBooks(q1)'
        <4>1. \A o \in Orders : po'[o].status = "DRAFT" => o = p
          BY <1>0, <3>1, <3>3 DEF ToReplace
        <4>2. po'[p].kind = "MATERIAL"
          BY <1>0, <3>3
        <4>3. QED
          BY <2>2, <2>3, <4>1, <4>2 DEF OrderBooks, ToReplace
      <3>4. QED
        BY <2>3, <3>2, <3>3
    <2>5. QED
      BY <1>0, <2>2, <2>3, <2>4, OrderOwn
  <1>5. CASE Subcontract(r)
    <2>1. Goto(r, "finish", Seen(r)) /\ "finish" \in Steps
      BY <1>5 DEF Subcontract, Steps
    <2>2. PICK q1 \in SourceRequest : Put(r, q1) /\ q1.call = req[r].call /\ q1.at = "finish"
      BY <1>0, <2>1, GotoTurn
    <2>3. /\ req[r].call = "generate" /\ req[r].at = "subcontract" /\ raced' = raced
          /\ \/ po' = po
             \/ \E p \in Orders :
                    po' = [po EXCEPT ![p] = [status |-> "DRAFT", kind |-> "OUTSOURCING"]]
      BY <1>5 DEF Subcontract, At
    <2>4. ASSUME OrderBooks(req[r]) PROVE OrderBooks(q1)'
      <3>1. \A p \in ToReplace : po[p].kind = "MATERIAL"
        BY <2>3, <2>4 DEF OrderBooks
      <3>2. CASE po' = po
        BY <2>2, <2>3, <2>4, <3>2 DEF OrderBooks, ToReplace
      <3>3. ASSUME NEW p \in Orders,
                   po' = [po EXCEPT ![p] = [status |-> "DRAFT", kind |-> "OUTSOURCING"]]
            PROVE  OrderBooks(q1)'
        <4>1. /\ po'[p].status = "DRAFT" /\ po'[p].kind = "OUTSOURCING"
              /\ \A o \in Orders \ {p} : po'[o] = po[o]
          BY <1>0, <3>3
        <4>2. \A o \in Orders \ {p} : po'[o].status = "DRAFT" => po'[o].kind = "MATERIAL"
          BY <3>1, <4>1 DEF ToReplace
        <4>3. \A p1, p2 \in Orders : po'[p1].status = "DRAFT" /\ po'[p2] = po'[p1] => p1 = p2
          BY <2>4, <4>1, <4>2 DEF OrderBooks
        <4>4. QED
          BY <2>2, <2>3, <4>3 DEF OrderBooks
      <3>4. QED
        BY <2>3, <3>2, <3>3
    <2>5. QED
      BY <1>0, <2>2, <2>3, <2>4, OrderOwn
  <1>6. CASE FinishGenerate(r)
    BY <1>6, OrderDone DEF FinishGenerate
  <1>7. QED
    BY <1>1, <1>2, <1>3, <1>4, <1>5, <1>6 DEF Generate

LEMMA SupplierOrders ==
    ASSUME SourceInv, OrderInv, NEW r \in Requests, NEW p \in Orders, OnOrder(r, p)
    PROVE  OrderInv'
  <1> USE DEF history
  <1>0. /\ "supplier" \in OrderCalls /\ po[p] \in OrderRow /\ po \in [Orders -> OrderRow]
        /\ NothingSeen \in SourceSeen /\ Seen(r) \in SourceSeen /\ Seen(r) = req[r].seen
    BY Ranges DEF OrderCalls, SourceInv, TypeOK
  <1>1. ASSUME NEW answer, BeginSupplier(r, p, answer)
        PROVE  OrderInv'
    <2> DEFINE row == [po[p] EXCEPT !.status = answer]
               seen == [NothingSeen EXCEPT !.po = row]
    <2>1. row \in OrderRow /\ row.status # "DRAFT"
      BY <1>0, <1>1 DEF BeginSupplier, Answers, OrderRow
    <2>2. Begin(r, "supplier", "save", p, seen) /\ "save" \in Steps
      BY <1>1 DEF BeginSupplier, Steps
    <2> HIDE DEF row
    <2>3. seen \in SourceSeen /\ seen.po = row
      BY <1>0, <2>1, SeenChanged DEF SourceSeen
    <2> HIDE DEF seen
    <2>4. PICK q1 \in SourceRequest :
              /\ Put(r, q1) /\ req[r].call = "idle" /\ q1.call = "supplier" /\ q1.seen = seen
              /\ UNCHANGED <<pfo, need, gi, po, rows, master, history>>
              /\ raced' = raced \cup UNION {Tables("supplier") \cap Tables(req[s].call) : s \in InFlight}
      BY <2>2, <2>3, BeginTurn
    <2>5. OrderBooks(Idle) => OrderBooks(q1)'
      BY <2>1, <2>3, <2>4 DEF OrderBooks, ToReplace
    <2>6. QED
      BY <1>0, <2>4, <2>5, OrderBegins
  <1>2. CASE SaveOrder(r, p)
    <2>1. Goto(r, "check", Seen(r)) /\ "check" \in Steps
      BY <1>2 DEF SaveOrder, Steps
    <2>2. PICK q1 \in SourceRequest : Put(r, q1) /\ q1.call = req[r].call /\ q1.at = "check"
      BY <1>0, <2>1, GotoTurn
    <2>3. /\ req[r].call = "supplier" /\ req[r].at = "save" /\ raced' = raced
          /\ po' = [po EXCEPT ![p] = req[r].seen.po]
      BY <1>0, <1>2 DEF SaveOrder, At
    <2>4. OrderBooks(req[r]) => OrderBooks(q1)'
      BY <1>0, <2>2, <2>3 DEF OrderBooks
    <2>5. QED
      BY <1>0, <2>2, <2>3, <2>4, OrderOwn
  <1>3. QED
    BY <1>1, <1>2 DEF OnOrder

LEMMA IssueOrders ==
    ASSUME SourceInv, OrderInv, NEW r \in Requests, NEW g \in Issues, OnIssue(r, g)
    PROVE  OrderInv'
  <1> USE DEF history
  <1>0. /\ Seen(r) \in SourceSeen /\ NothingSeen \in SourceSeen /\ Zero \in Quantity
        /\ gi[g] \in IssueRow
    BY Ranges DEF SourceInv, TypeOK
  <1>1. ASSUME NEW call, call \notin OrderCalls, NEW step \in Steps, NEW qty \in Quantity,
               BeginWithIssue(r, call, step, g, qty)
        PROVE  OrderInv'
    <2>1. [NothingSeen EXCEPT !.gi = gi[g], !.qty = qty] \in SourceSeen
      BY <1>0, SeenChanged
    <2>2. QED
      BY <1>1, <2>1, OrderStarts DEF BeginWithIssue
  <1>2. \A call \in {"confirm", "delivered", "delete", "edit"} : call \notin OrderCalls
    BY DEF OrderCalls
  <1>3. \A step \in {"export", "save", "return", "pfo", "drop"} : step \in Steps
    BY DEF Steps
  <1>4. ASSUME \/ BeginConfirm(r, g)
               \/ BeginWithIssue(r, "delivered", "save", g, Zero)
               \/ BeginWithIssue(r, "delete", "return", g, Zero)
               \/ \E qty \in Quantities : BeginWithIssue(r, "edit", "save", g, qty)
        PROVE  OrderInv'
    BY <1>0, <1>1, <1>2, <1>3, <1>4, EnteredTyped DEF BeginConfirm
  <1>5. ASSUME NEW qty \in Quantities, Export(r, g, qty)
        PROVE  OrderInv'
    <2>1. [Seen(r) EXCEPT !.gi.qty = qty] \in SourceSeen
      BY <1>0, EnteredTyped, SeenChanged
    <2>2. /\ Goto(r, "save", [Seen(r) EXCEPT !.gi.qty = qty]) /\ po' = po /\ raced' = raced
          /\ req[r].call \notin OrderCalls
      BY <1>2, <1>5 DEF Export, At
    <2>3. QED
      BY <1>3, <2>1, <2>2, OrderGoes
  <1>6. ASSUME SaveConfirmed(r, g) \/ ReturnGoods(r, g)
        PROVE  OrderInv'
    <2>1. /\ Goto(r, "pfo", Seen(r)) \/ Goto(r, "drop", Seen(r))
          /\ po' = po /\ raced' = raced /\ req[r].call \notin OrderCalls
      BY <1>2, <1>6 DEF SaveConfirmed, ReturnGoods, At
    <2>2. QED
      BY <1>0, <1>3, <2>1, OrderGoes
  <1>7. ASSUME SaveDelivered(r, g) \/ DropIssue(r, g) \/ SaveEdited(r, g)
        PROVE  OrderInv'
    BY <1>7, OrderDone DEF SaveDelivered, DropIssue, SaveEdited
  <1>8. QED
    BY <1>4, <1>5, <1>6, <1>7 DEF OnIssue


LEMMA PfoOrders ==
    ASSUME SourceInv, OrderInv, NEW r \in Requests,
           HandOut(r) \/ StartProduction(r) \/ MovePfo(r) \/ CheckPfo(r)
    PROVE  OrderInv'
  <1> USE DEF history
  <1>0. /\ Seen(r) \in SourceSeen /\ PfoWithNeeds \in SourceSeen /\ PfoAsRead \in SourceSeen
        /\ Zero \in Quantity
        /\ NoId \in {NoId} \cup Mats \cup Issues \cup Orders
        /\ Mats \subseteq {NoId} \cup Mats \cup Issues \cup Orders
        /\ pfo.status \in PfoStatus /\ pfo.vendor \in BOOLEAN
    BY Ranges DEF SourceInv, TypeOK
  <1>1. \A call \in {"handOut", "vendor", "qc", "board"} : call \notin OrderCalls
    BY DEF OrderCalls
  <1>2. \A step \in {"save", "promote", "set"} : step \in Steps
    BY DEF Steps
  <1>3. ASSUME NEW m \in Mats, NEW n \in 1..Planned[m], BeginHandOut(r, m, n)
        PROVE  OrderInv'
    <2> DEFINE qty == [Zero EXCEPT ![m] = n]
    <2>1. qty \in Quantity
      BY ZeroTyped, SourcingConstants DEF Quantity
    <2>2. [PfoWithNeeds EXCEPT !.qty = qty] \in SourceSeen
      BY <1>0, <2>1, SeenChanged
    <2>3. Begin(r, "handOut", "save", m, [PfoWithNeeds EXCEPT !.qty = qty])
      BY <1>3 DEF BeginHandOut
    <2> HIDE DEF qty
    <2>4. QED
      BY <1>0, <1>1, <1>2, <2>2, <2>3, OrderStarts
  <1>4. ASSUME NEW m \in Mats, SaveHandOut(r, m)
        PROVE  OrderInv'
    <2>1. /\ Goto(r, "promote", Seen(r)) /\ po' = po /\ raced' = raced
          /\ req[r].call \notin OrderCalls
      BY <1>1, <1>4 DEF SaveHandOut, At
    <2>2. QED
      BY <1>0, <1>2, <2>1, OrderGoes
  <1>5. ASSUME PromotePfo(r) \/ StartProduction(r) \/ SetPfo(r)
        PROVE  OrderInv'
    BY <1>5, OrderDone DEF PromotePfo, StartProduction, SetPfo
  <1>6. ASSUME NEW call \in {"vendor", "qc", "board"}, NEW status \in PfoStatus,
               NEW vendor \in BOOLEAN, BeginMove(r, call, status, vendor)
        PROVE  OrderInv'
    <2>1. /\ \E seen \in SourceSeen : Begin(r, call, "set", NoId, seen)
          /\ call \notin OrderCalls
      BY <1>0, <1>1, <1>6, SeenChanged DEF BeginMove
    <2>2. QED
      BY <1>0, <1>2, <2>1, OrderStarts
  <1>7. ASSUME \/ AssignVendor(r) \/ SubmitQcRecord(r)
               \/ \E status \in BoardMoves : UpdatePfoStatus(r, status)
        PROVE  OrderInv'
    <2>1. "WAITING_VENDOR" \in PfoStatus /\ "RECEIVING" \in PfoStatus /\ TRUE \in BOOLEAN
      BY DEF PfoStatus, Early
    <2>2. BoardMoves \subseteq PfoStatus
      BY SourcingConstants
    <2>3. QED
      BY <1>0, <1>6, <1>7, <2>1, <2>2 DEF AssignVendor, SubmitQcRecord, UpdatePfoStatus
  <1>8. CASE CheckPfo(r)
    <2>1. CASE Done(r)
      BY <1>8, <2>1, OrderDone DEF CheckPfo
    <2>2. ASSUME ~Done(r)
          PROVE  OrderInv'
      <3> DEFINE seen == [PfoAsRead EXCEPT !.status = CalledFor(pfo.status)]
      <3>1. CalledFor(pfo.status) \in PfoStatus
        BY <1>0 DEF CalledFor, PfoStatus
      <3>2. seen \in SourceSeen /\ Goto(r, "set", seen)
        BY <1>0, <1>8, <2>2, <3>1, SeenChanged DEF CheckPfo
      <3> HIDE DEF seen
      <3>3. PICK q1 \in SourceRequest : Put(r, q1) /\ q1.call = req[r].call /\ q1.at = "set"
        BY <1>2, <3>2, GotoTurn
      <3>4. /\ req[r].call = "supplier" /\ "supplier" \in OrderCalls
            /\ po' = po /\ raced' = raced
        BY <1>8 DEF CheckPfo, At, OrderCalls
      <3>5. OrderBooks(req[r]) => OrderBooks(q1)'
        BY <3>3, <3>4 DEF OrderBooks
      <3>6. QED
        BY <3>3, <3>4, <3>5, OrderOwn
    <2>3. QED
      BY <2>1, <2>2
  <1>9. QED
    BY <1>3, <1>4, <1>5, <1>7, <1>8 DEF HandOut, MovePfo

LEMMA OrderInvKept ==
    ASSUME SourceInv, OrderInv, [Next]_vars
    PROVE  OrderInv'
  <1>1. CASE UNCHANGED vars
    BY <1>1, OrderUntouched DEF vars
  <1>2. ASSUME \/ Recalculate
               \/ \E m \in Mats : \E n \in 0..Planned[m] : SaveRequirements(m, n)
               \/ \E g \in Issues, qty \in Quantities : CreateGoodsIssue(g, qty)
        PROVE  OrderInv'
    <2>1. po' = po /\ req' = req /\ raced' = raced
      BY <1>2 DEF Recalculate, SaveRequirements, CreateGoodsIssue
    <2>2. QED
      BY <2>1, OrderUntouched
  <1>3. ASSUME NEW r \in Requests,
               Generate(r) \/ HandOut(r) \/ StartProduction(r) \/ CheckPfo(r) \/ MovePfo(r)
        PROVE  OrderInv'
    BY <1>3, GenerateOrders, PfoOrders
  <1>4. ASSUME NEW r \in Requests, Fail(r)
        PROVE  OrderInv'
    BY <1>4, OrderDone DEF Fail
  <1>5. ASSUME NEW r \in Requests, NEW g \in Issues, OnIssue(r, g)
        PROVE  OrderInv'
    BY <1>5, IssueOrders
  <1>6. ASSUME NEW r \in Requests, NEW p \in Orders, OnOrder(r, p)
        PROVE  OrderInv'
    BY <1>6, SupplierOrders
  <1>7. QED
    BY <1>1, <1>2, <1>3, <1>4, <1>5, <1>6 DEF Next

LEMMA OrderInvAtStart == Init => OrderInv
  <1> SUFFICES ASSUME Init PROVE OrderInv
    OBVIOUS
  <1>1. po = [p \in Orders |-> NoOrder] /\ req = [r \in Requests |-> Idle]
    BY DEF Init
  <1>2. Sole(Idle, OrderCalls)
    BY <1>1, IdleTyped, OrderTables DEF Sole
  <1>3. OrderBooks(Idle)
    BY <1>1, IdleTyped, RowsAsNew DEF OrderBooks
  <1>4. QED
    BY <1>2, <1>3 DEF OrderInv

\* Regenerating replaces the drafts: whatever has been sent, answered, failed
\* or regenerated before, no two drafts stand for one need, unless two
\* requests had the orders in hand together.
THEOREM DraftsAreReplaced == Spec => []DraftsReplaced
  <1>1. OrderInv => DraftsReplaced
    BY DEF OrderInv, OrderBooks, DraftsReplaced
  <1>2. QED
    BY <1>1, SourceInvAtStart, SourceInvKept, OrderInvAtStart, OrderInvKept, PTL DEF Spec

--------------------------------------------------------------------------------
LiveStates == {"CONFIRMED", "DELIVERED"}

\* The issues of a table in some statuses, but those of a set, and their units.
Chosen(table, states, out) == {g \in Issues : table[g].status \in states} \ out
Held(table, states, out, m) == Amount(table, Chosen(table, states, out), m)
Part(table, states, out, g, m) ==
    IF g \in Chosen(table, states, out) THEN table[g].qty[m] ELSE 0

LEMMA HeldTyped ==
    ASSUME NEW table \in [Issues -> IssueRow], NEW states, NEW out, NEW m \in Mats
    PROVE  /\ Held(table, states, out, m) \in Nat
           /\ \A g \in Issues : table[g].qty[m] \in Nat /\ Part(table, states, out, g, m) \in Nat
  <1>1. Chosen(table, states, out) \in SUBSET Issues
    BY DEF Chosen
  <1>2. \A g \in Issues : table[g].qty[m] \in Nat
    BY DEF IssueRow, Quantity
  <1>3. QED
    BY <1>1, <1>2, AmountTyped DEF Held, Part

\* One row changes: so do the units, by what it held and what it holds.
LEMMA HeldTurn ==
    ASSUME NEW t \in [Issues -> IssueRow], NEW u \in [Issues -> IssueRow], NEW g \in Issues,
           \A h \in Issues \ {g} : u[h] = t[h],
           NEW states, NEW out, NEW out2, out \ {g} = out2 \ {g}, NEW m \in Mats
    PROVE  Held(u, states, out2, m) =
               Held(t, states, out, m) - Part(t, states, out, g, m) + Part(u, states, out2, g, m)
  <1> DEFINE S == Chosen(t, states, out)
             V == Chosen(u, states, out2)
             W == S \ {g}
             f == Units(t, m)
             k == Units(u, m)
  <1>1. S \in SUBSET Issues /\ V \in SUBSET Issues /\ W \in SUBSET Issues /\ V \ {g} = W
    BY DEF Chosen
  <1>2. IsFiniteSet(S) /\ IsFiniteSet(V) /\ IsFiniteSet(W)
    BY <1>1, IssuesFinite
  <1>3. \A h \in Issues : f[h] \in Int /\ k[h] \in Int
    BY UnitsTyped
  <1>4. f[g] = t[g].qty[m] /\ k[g] = u[g].qty[m]
    BY UnitsTyped
  <1>5. \A h \in W : f[h] = k[h]
    BY <1>1 DEF Units
  <1>6. Part(t, states, out, g, m) = IF g \in S THEN f[g] ELSE 0
    BY <1>4 DEF Part
  <1>7. Part(u, states, out2, g, m) = IF g \in V THEN k[g] ELSE 0
    BY <1>4 DEF Part
  <1>8. Held(t, states, out, m) = SumFunctionOnSet(f, S)
    BY DEF Held, Amount
  <1>9. Held(u, states, out2, m) = SumFunctionOnSet(k, V)
    BY DEF Held, Amount
  <1> HIDE DEF f, k, S, V
  <1> DEFINE rest == SumFunctionOnSet(f, W)
  <1>10. SumFunctionOnSet(k, W) = rest
    BY <1>2, <1>5, SumSame
  <1>11. \A h \in W : f[h] \in Int
    BY <1>1, <1>3
  <1>12. rest \in Int
    BY <1>2, <1>11, SumInt
  <1>13. SumFunctionOnSet(f, S) = (IF g \in S THEN f[g] ELSE 0) + rest
    <2>1. CASE g \in S
      <3>1. \A h \in S : f[h] \in Int
        BY <1>1, <1>3
      <3>2. SumFunctionOnSet(f, S) = f[g] + SumFunctionOnSet(f, S \ {g})
        BY <1>2, <2>1, <3>1, SumRemove
      <3>3. QED
        BY <2>1, <3>2
    <2>2. CASE g \notin S
      <3>1. W = S
        BY <2>2
      <3>2. SumFunctionOnSet(f, S) = SumFunctionOnSet(f, W)
        BY <3>1
      <3>3. QED
        BY <2>2, <3>2, <1>12
    <2>3. QED
      BY <2>1, <2>2
  <1>14. SumFunctionOnSet(k, V) = (IF g \in V THEN k[g] ELSE 0) + rest
    <2>1. CASE g \in V
      <3>1. \A h \in V : k[h] \in Int
        BY <1>1, <1>3
      <3>2. SumFunctionOnSet(k, V) = k[g] + SumFunctionOnSet(k, V \ {g})
        BY <1>2, <2>1, <3>1, SumRemove
      <3>3. QED
        BY <2>1, <3>2, <1>1, <1>10
    <2>2. CASE g \notin V
      <3>1. V = V \ {g}
        BY <2>2
      <3>2. SumFunctionOnSet(k, V) = SumFunctionOnSet(k, W)
        BY <3>1, <1>1
      <3>3. QED
        BY <2>2, <3>2, <1>10, <1>12
    <2>3. QED
      BY <2>1, <2>2
  <1> HIDE DEF rest
  <1>15. f[g] \in Int /\ k[g] \in Int
    BY <1>3
  <1>16. QED
    BY <1>6, <1>7, <1>8, <1>9, <1>12, <1>13, <1>14, <1>15

\* The same with nothing but the row's fields.
LEMMA PartIs ==
    ASSUME NEW table, NEW states, NEW out, NEW g \in Issues, NEW m
    PROVE  Part(table, states, out, g, m) =
               IF table[g].status \in states /\ g \notin out THEN table[g].qty[m] ELSE 0
  BY DEF Part, Chosen

LEMMA HeldNone ==
    ASSUME NEW table, NEW states, NEW out, NEW m, Chosen(table, states, out) = {}
    PROVE  Held(table, states, out, m) = 0
  BY SumEmpty DEF Held, Amount

\* Units on live issues and on drafts, together.
LEMMA LiveAndDrafts ==
    ASSUME NEW m \in Mats, gi \in [Issues -> IssueRow]
    PROVE  Total(Live \cup DraftIssues)[m] =
               Held(gi, LiveStates, {}, m) + Held(gi, {"DRAFT"}, {}, m)
  <1> DEFINE A == Chosen(gi, LiveStates, {})
             B == Chosen(gi, {"DRAFT"}, {})
             S == Live \cup DraftIssues
             f == Units(gi, m)
  <1>1. S \in SUBSET Issues /\ A \in SUBSET S /\ S \ A = B
    BY DEF Chosen, Live, DraftIssues, LiveStates
  <1>2. IsFiniteSet(S) /\ \A g \in S : f[g] \in Int
    BY <1>1, IssuesFinite, UnitsTyped
  <1>3. Total(S)[m] = SumFunctionOnSet(f, S)
    BY TotalIsAmount DEF Amount
  <1>4. /\ Held(gi, LiveStates, {}, m) = SumFunctionOnSet(f, A)
        /\ Held(gi, {"DRAFT"}, {}, m) = SumFunctionOnSet(f, B)
    BY DEF Held, Amount
  <1> HIDE DEF A, B, S, f
  <1>5. SumFunctionOnSet(f, S) = SumFunctionOnSet(f, A) + SumFunctionOnSet(f, S \ A)
    BY <1>1, <1>2, SumSplit
  <1>6. Total(S)[m] = SumFunctionOnSet(f, A) + SumFunctionOnSet(f, B)
    BY <1>1, <1>3, <1>5
  <1>7. QED
    BY <1>4, <1>6 DEF S

--------------------------------------------------------------------------------
\* No requirement, kept or in a request's hands, takes more from stock than
\* was ever asked for.
AskedInv ==
    /\ \A m \in Mats : need[m].fromStock <= asked[m]
    /\ \A r \in Requests, m \in Mats : req[r].seen.need[m].fromStock <= asked[m]

LEMMA FreshAsksNothing == \A m \in Mats : FreshNeed[m].fromStock = 0
  BY DEF FreshNeed

LEMMA NothingSeenNeeds == NothingSeen.need = FreshNeed
  BY DEF NothingSeen

\* One request's step, with what it holds then within what was asked.
LEMMA AskedPut ==
    ASSUME SourceInv, SourceInv', AskedInv, NEW r \in Requests, NEW q1, Put(r, q1),
           \A m \in Mats : q1.seen.need[m].fromStock <= asked[m],
           \A m \in Mats : asked[m] <= asked'[m],
           \A m \in Mats : need'[m].fromStock <= asked[m]
    PROVE  AskedInv'
  <1>1. req'[r] = q1 /\ \A s \in Requests \ {r} : req'[s] = req[s]
    BY PutEach
  <1>2. /\ \A m \in Mats : asked[m] \in Nat /\ asked'[m] \in Nat
        /\ \A m \in Mats : need'[m].fromStock \in Nat
        /\ \A s \in Requests, m \in Mats : req'[s].seen.need[m].fromStock \in Nat
    BY DEF SourceInv, TypeOK, SourceRequest, SourceSeen, Need, Quantity
  <1>3. \A s \in Requests, m \in Mats : req'[s].seen.need[m].fromStock <= asked[m]
    BY <1>1 DEF AskedInv
  <1>4. \A s \in Requests, m \in Mats : req'[s].seen.need[m].fromStock <= asked'[m]
    BY <1>2, <1>3
  <1>5. \A m \in Mats : need'[m].fromStock <= asked'[m]
    BY <1>2
  <1>6. QED
    BY <1>4, <1>5 DEF AskedInv

LEMMA AskedSame ==
    ASSUME SourceInv
    PROVE  \A m \in Mats : asked[m] <= asked[m] /\ asked[m] \in Nat /\ 0 <= asked[m]
  BY DEF SourceInv, TypeOK, Quantity

LEMMA AskedGoes ==
    ASSUME SourceInv, SourceInv', AskedInv, NEW r \in Requests, NEW step \in Steps,
           NEW seen \in SourceSeen, Goto(r, step, seen), seen.need = req[r].seen.need,
           \A m \in Mats : asked[m] <= asked'[m],
           \A m \in Mats : need'[m].fromStock <= asked[m]
    PROVE  AskedInv'
  <1>1. PICK q1 \in SourceRequest : Put(r, q1) /\ q1.seen = seen
    BY GotoTurn
  <1>2. \A m \in Mats : q1.seen.need[m].fromStock <= asked[m]
    BY <1>1 DEF AskedInv
  <1>3. QED
    BY <1>1, <1>2, AskedPut

LEMMA AskedEnds ==
    ASSUME SourceInv, SourceInv', AskedInv, NEW r \in Requests, Done(r),
           \A m \in Mats : asked[m] <= asked'[m],
           \A m \in Mats : need'[m].fromStock <= asked[m]
    PROVE  AskedInv'
  <1>1. Put(r, Idle)
    BY DoneTurn
  <1>2. \A m \in Mats : Idle.seen.need[m].fromStock <= asked[m]
    BY IdleTyped, NothingSeenNeeds, FreshAsksNothing, AskedSame
  <1>3. QED
    BY <1>1, <1>2, AskedPut

LEMMA BeginPut ==
    ASSUME SourceInv, NEW r \in Requests, NEW call, NEW step \in Steps,
           NEW id \in {NoId} \cup Mats \cup Issues \cup Orders, NEW seen \in SourceSeen,
           Begin(r, call, step, id, seen)
    PROVE  \E q \in SourceRequest : Put(r, q) /\ q.seen = seen
  BY BeginTurn

LEMMA AskedBegins ==
    ASSUME SourceInv, SourceInv', AskedInv, NEW r \in Requests, NEW call, NEW step \in Steps,
           NEW id \in {NoId} \cup Mats \cup Issues \cup Orders, NEW seen \in SourceSeen,
           Begin(r, call, step, id, seen), seen.need = need \/ seen.need = FreshNeed
    PROVE  AskedInv'
  <1>1. PICK q1 \in SourceRequest : Put(r, q1) /\ q1.seen = seen
    BY BeginPut
  <1>2. need' = need /\ asked' = asked
    BY DEF Begin, history
  <1>3. \A m \in Mats : need[m].fromStock <= asked[m] /\ FreshNeed[m].fromStock <= asked[m]
    BY FreshAsksNothing, AskedSame DEF AskedInv
  <1>4. \A m \in Mats : q1.seen.need[m].fromStock <= asked[m]
    BY <1>1, <1>3
  <1>5. QED
    BY <1>1, <1>2, <1>3, <1>4, AskedSame, AskedPut

LEMMA SeenNeedsSame ==
    ASSUME NEW s \in SourceSeen
    PROVE  /\ \A x : [s EXCEPT !.ids = x].need = s.need
           /\ \A x : [s EXCEPT !.qty = x].need = s.need
           /\ \A x : [s EXCEPT !.gi.qty = x].need = s.need
           /\ \A x : [s EXCEPT !.po = x].need = s.need
           /\ \A x : [s EXCEPT !.status = x].need = s.need
           /\ \A x, y : [s EXCEPT !.gi = x, !.qty = y].need = s.need
           /\ \A x, y : [s EXCEPT !.status = x, !.vendor = y].need = s.need
  BY DEF SourceSeen

LEMMA NeedsRead == PfoWithNeeds.need = need /\ PfoAsRead.need = FreshNeed
  BY DEF PfoWithNeeds, PfoAsRead, NothingSeen

LEMMA NeedsWithin ==
    ASSUME SourceInv, AskedInv, NEW r \in Requests
    PROVE  /\ \A m \in Mats : need[m].fromStock <= asked[m]
           /\ \A m \in Mats : Seen(r).need[m].fromStock <= asked[m]
           /\ Seen(r).need = req[r].seen.need
  BY DEF AskedInv, Seen

LEMMA GenerateAsked ==
    ASSUME SourceInv, SourceInv', AskedInv, NEW r \in Requests, Generate(r)
    PROVE  AskedInv'
  <1> USE DEF history
  <1>0. /\ Seen(r) \in SourceSeen /\ PfoWithNeeds \in SourceSeen /\ PfoWithNeeds.need = need
        /\ ToReplace \in SUBSET (Issues \cup Orders)
        /\ DraftIssues \in SUBSET (Issues \cup Orders) /\ {} \in SUBSET (Issues \cup Orders)
        /\ Unissued(Seen(r).need) \in Quantity
    BY Ranges, NeedsRead, UnissuedTyped
  <1>1. CASE BeginGenerate(r)
    <2> DEFINE seen == [PfoWithNeeds EXCEPT !.ids = ToReplace]
    <2>1. seen \in SourceSeen /\ seen.need = need
      BY <1>0, SeenChanged, SeenNeedsSame
    <2>2. Begin(r, "generate", "drop", NoId, seen)
      BY <1>1 DEF BeginGenerate
    <2> HIDE DEF seen
    <2>3. QED
      BY <2>1, <2>2, AskedBegins DEF Steps
  <1>2. ASSUME ~BeginGenerate(r), ~FinishGenerate(r)
        PROVE  AskedInv'
    <2>1. \A step \in {"clear", "net", "issue", "buy", "subcontract", "finish"} : step \in Steps
      BY DEF Steps
    <2>2. /\ need' = need /\ asked' = asked
          /\ \E step \in {"clear", "net", "issue", "buy", "subcontract", "finish"} :
                 \/ Goto(r, step, Seen(r))
                 \/ Goto(r, step, [Seen(r) EXCEPT !.ids = {}])
                 \/ Goto(r, step, [Seen(r) EXCEPT !.ids = DraftIssues])
                 \/ Goto(r, step, [Seen(r) EXCEPT !.qty = Unissued(Seen(r).need)])
      BY <1>2 DEF Generate, DropDrafts, ClearIssues, NetIssued, DraftIssue, BuyMaterials,
         Subcontract
    <2>3. /\ [Seen(r) EXCEPT !.ids = {}] \in SourceSeen
          /\ [Seen(r) EXCEPT !.ids = DraftIssues] \in SourceSeen
          /\ [Seen(r) EXCEPT !.qty = Unissued(Seen(r).need)] \in SourceSeen
      BY <1>0, SeenChanged
    <2>4. /\ [Seen(r) EXCEPT !.ids = {}].need = req[r].seen.need
          /\ [Seen(r) EXCEPT !.ids = DraftIssues].need = req[r].seen.need
          /\ [Seen(r) EXCEPT !.qty = Unissued(Seen(r).need)].need = req[r].seen.need
          /\ Seen(r).need = req[r].seen.need
      BY <1>0, SeenNeedsSame, NeedsWithin
    <2>5. PICK step \in Steps, seen \in SourceSeen :
              Goto(r, step, seen) /\ seen.need = req[r].seen.need
      BY <1>0, <2>1, <2>2, <2>3, <2>4
    <2>6. QED
      BY <2>2, <2>5, NeedsWithin, AskedSame, AskedGoes
  <1>3. CASE FinishGenerate(r)
    <2>1. Done(r) /\ asked' = asked /\ (need' = need \/ need' = Seen(r).need)
      BY <1>3 DEF FinishGenerate
    <2>2. QED
      BY <2>1, NeedsWithin, AskedSame, AskedEnds
  <1>4. QED
    BY <1>1, <1>2, <1>3

LEMMA HandOutAsked ==
    ASSUME SourceInv, SourceInv', AskedInv, NEW r \in Requests,
           HandOut(r) \/ StartProduction(r)
    PROVE  AskedInv'
  <1> USE DEF history
  <1>0. /\ Seen(r) \in SourceSeen /\ PfoWithNeeds \in SourceSeen /\ PfoWithNeeds.need = need
        /\ Mats \subseteq {NoId} \cup Mats \cup Issues \cup Orders
    BY Ranges, NeedsRead
  <1>1. ASSUME NEW m \in Mats, NEW n \in 1..Planned[m], BeginHandOut(r, m, n)
        PROVE  AskedInv'
    <2> DEFINE qty == [Zero EXCEPT ![m] = n]
               seen == [PfoWithNeeds EXCEPT !.qty = qty]
    <2>1. qty \in Quantity
      BY ZeroTyped, SourcingConstants DEF Quantity
    <2>2. seen \in SourceSeen /\ seen.need = need
      BY <1>0, <2>1, SeenChanged, SeenNeedsSame
    <2>3. Begin(r, "handOut", "save", m, seen) /\ "save" \in Steps
      BY <1>1 DEF BeginHandOut, Steps
    <2> HIDE DEF qty, seen
    <2>4. QED
      BY <1>0, <2>2, <2>3, AskedBegins
  <1>2. ASSUME NEW m \in Mats, SaveHandOut(r, m)
        PROVE  AskedInv'
    <2>1. Goto(r, "promote", Seen(r)) /\ "promote" \in Steps /\ asked' = asked
      BY <1>2 DEF SaveHandOut, Steps
    <2>2. \A k \in Mats : need'[k].fromStock = IF k = m THEN Seen(r).need[m].fromStock
                                               ELSE need[k].fromStock
      BY <1>0, <1>2 DEF SaveHandOut, SourceInv, TypeOK, SourceSeen, Need
    <2>3. \A k \in Mats : need'[k].fromStock <= asked[k]
      BY <2>2, NeedsWithin
    <2>4. QED
      BY <1>0, <2>1, <2>3, NeedsWithin, AskedSame, AskedGoes
  <1>3. ASSUME PromotePfo(r) \/ StartProduction(r)
        PROVE  AskedInv'
    <2>1. Done(r) /\ asked' = asked /\ need' = need
      BY <1>3 DEF PromotePfo, StartProduction
    <2>2. QED
      BY <2>1, NeedsWithin, AskedSame, AskedEnds
  <1>4. QED
    BY <1>1, <1>2, <1>3 DEF HandOut

LEMMA IssueAsked ==
    ASSUME SourceInv, SourceInv', AskedInv, NEW r \in Requests, NEW g \in Issues, OnIssue(r, g)
    PROVE  AskedInv'
  <1> USE DEF history
  <1>0. /\ Seen(r) \in SourceSeen /\ NothingSeen \in SourceSeen /\ Zero \in Quantity
        /\ gi[g] \in IssueRow /\ Issues \subseteq {NoId} \cup Mats \cup Issues \cup Orders
    BY Ranges DEF SourceInv, TypeOK
  <1>1. ASSUME NEW call, NEW step \in Steps, NEW qty \in Quantity,
               BeginWithIssue(r, call, step, g, qty)
        PROVE  AskedInv'
    <2> DEFINE seen == [NothingSeen EXCEPT !.gi = gi[g], !.qty = qty]
    <2>1. seen \in SourceSeen
      BY <1>0, <1>1, SeenChanged
    <2>2. seen.need = FreshNeed
      BY <1>0, SeenNeedsSame, NothingSeenNeeds
    <2>3. Begin(r, call, step, g, seen)
      BY <1>1 DEF BeginWithIssue
    <2> HIDE DEF seen
    <2>4. QED
      BY <1>0, <1>1, <2>1, <2>2, <2>3, AskedBegins
  <1>2. \A step \in {"export", "save", "return", "pfo", "drop"} : step \in Steps
    BY DEF Steps
  <1>3. ASSUME \/ BeginConfirm(r, g)
               \/ BeginWithIssue(r, "delivered", "save", g, Zero)
               \/ BeginWithIssue(r, "delete", "return", g, Zero)
               \/ \E qty \in Quantities : BeginWithIssue(r, "edit", "save", g, qty)
        PROVE  AskedInv'
    BY <1>0, <1>1, <1>2, <1>3, EnteredTyped DEF BeginConfirm
  <1>4. ASSUME NEW qty \in Quantities, Export(r, g, qty)
        PROVE  AskedInv'
    <2> DEFINE seen == [Seen(r) EXCEPT !.gi.qty = qty]
    <2>1. seen \in SourceSeen /\ seen.need = req[r].seen.need
      BY <1>0, EnteredTyped, SeenChanged, SeenNeedsSame, NeedsWithin
    <2>2. Goto(r, "save", seen) /\ need' = need /\ asked' = asked
      BY <1>4 DEF Export
    <2> HIDE DEF seen
    <2>3. QED
      BY <1>2, <2>1, <2>2, NeedsWithin, AskedSame, AskedGoes
  <1>5. ASSUME SaveConfirmed(r, g) \/ ReturnGoods(r, g)
        PROVE  AskedInv'
    <2>1. /\ Goto(r, "pfo", Seen(r)) \/ Goto(r, "drop", Seen(r))
          /\ need' = need /\ asked' = asked
      BY <1>5 DEF SaveConfirmed, ReturnGoods
    <2>2. QED
      BY <1>0, <1>2, <2>1, NeedsWithin, AskedSame, AskedGoes
  <1>6. ASSUME SaveDelivered(r, g) \/ DropIssue(r, g)
        PROVE  AskedInv'
    <2>1. Done(r) /\ asked' = asked /\ need' = need
      BY <1>6 DEF SaveDelivered, DropIssue
    <2>2. QED
      BY <2>1, NeedsWithin, AskedSame, AskedEnds
  <1>7. CASE SaveEdited(r, g)
    <2> DEFINE new == IF Editable(Seen(r).gi) THEN Seen(r).qty ELSE Seen(r).gi.qty
               more == [m \in Mats |-> FromZero(new[m] - Seen(r).gi.qty[m])]
    <2>1. Done(r) /\ asked' = Plus(asked, more) /\ need' = need
      BY <1>7 DEF SaveEdited
    <2>2. new \in Quantity /\ Seen(r).gi.qty \in Quantity
      BY Ranges
    <2> HIDE DEF new
    <2>3. \A m \in Mats : more[m] \in Nat
      BY <2>2 DEF Quantity, FromZero
    <2> HIDE DEF more
    <2>4. \A m \in Mats : asked[m] <= asked'[m]
      BY <2>1, <2>3, AskedSame DEF Plus
    <2>5. QED
      BY <2>1, <2>4, NeedsWithin, AskedEnds
  <1>8. QED
    BY <1>3, <1>4, <1>5, <1>6, <1>7 DEF OnIssue

LEMMA MoveAsked ==
    ASSUME SourceInv, SourceInv', AskedInv, NEW r \in Requests,
           MovePfo(r) \/ CheckPfo(r) \/ \E p \in Orders : OnOrder(r, p)
    PROVE  AskedInv'
  <1> USE DEF history
  <1>0. /\ Seen(r) \in SourceSeen /\ PfoWithNeeds \in SourceSeen /\ PfoAsRead \in SourceSeen
        /\ NothingSeen \in SourceSeen
        /\ NoId \in {NoId} \cup Mats \cup Issues \cup Orders
        /\ Orders \subseteq {NoId} \cup Mats \cup Issues \cup Orders
        /\ pfo.status \in PfoStatus /\ pfo.vendor \in BOOLEAN
    BY Ranges DEF SourceInv, TypeOK
  <1>1. \A step \in {"save", "set", "check"} : step \in Steps
    BY DEF Steps
  <1>2. ASSUME NEW call, NEW status \in PfoStatus, NEW vendor \in BOOLEAN,
               BeginMove(r, call, status, vendor)
        PROVE  AskedInv'
    <2> DEFINE seen == [PfoWithNeeds EXCEPT !.status = status, !.vendor = vendor]
    <2>1. seen \in SourceSeen
      BY <1>0, SeenChanged
    <2>2. seen.need = need
      BY <1>0, SeenNeedsSame, NeedsRead
    <2>3. Begin(r, call, "set", NoId, seen)
      BY <1>2 DEF BeginMove
    <2> HIDE DEF seen
    <2>4. \E x \in SourceSeen : Begin(r, call, "set", NoId, x) /\ x.need = need
      BY <2>1, <2>2, <2>3
    <2>5. QED
      BY <1>0, <1>1, <2>4, AskedBegins
  <1>3. ASSUME \/ AssignVendor(r) \/ SubmitQcRecord(r)
               \/ \E status \in BoardMoves : UpdatePfoStatus(r, status)
        PROVE  AskedInv'
    <2>1. "WAITING_VENDOR" \in PfoStatus /\ "RECEIVING" \in PfoStatus /\ TRUE \in BOOLEAN
      BY DEF PfoStatus, Early
    <2>2. BoardMoves \subseteq PfoStatus
      BY SourcingConstants
    <2>3. QED
      BY <1>0, <1>2, <1>3, <2>1, <2>2 DEF AssignVendor, SubmitQcRecord, UpdatePfoStatus
  <1>4. CASE SetPfo(r)
    <2>1. Done(r) /\ asked' = asked /\ (need' = need \/ need' = Seen(r).need)
      BY <1>4 DEF SetPfo
    <2>2. QED
      BY <2>1, NeedsWithin, AskedSame, AskedEnds
  <1>5. CASE CheckPfo(r)
    <2>1. need' = need /\ asked' = asked
      BY <1>5 DEF CheckPfo
    <2>2. CASE Done(r)
      BY <2>1, <2>2, NeedsWithin, AskedSame, AskedEnds
    <2>3. ASSUME ~Done(r)
          PROVE  AskedInv'
      <3> DEFINE seen == [PfoAsRead EXCEPT !.status = CalledFor(pfo.status)]
      <3>1. CalledFor(pfo.status) \in PfoStatus
        BY <1>0 DEF CalledFor, PfoStatus
      <3>2. seen \in SourceSeen /\ Goto(r, "set", seen) /\ seen.need = FreshNeed
        BY <1>0, <1>5, <2>3, <3>1, SeenChanged, SeenNeedsSame, NeedsRead DEF CheckPfo
      <3> HIDE DEF seen
      <3>3. PICK q1 \in SourceRequest : Put(r, q1) /\ q1.seen = seen
        BY <1>1, <3>2, GotoTurn
      <3>4. \A m \in Mats : q1.seen.need[m].fromStock <= asked[m]
        BY <3>2, <3>3, FreshAsksNothing, AskedSame
      <3>5. QED
        BY <2>1, <3>3, <3>4, NeedsWithin, AskedSame, AskedPut
    <2>4. QED
      BY <2>2, <2>3
  <1>6. ASSUME NEW p \in Orders, NEW answer, BeginSupplier(r, p, answer)
        PROVE  AskedInv'
    <2> DEFINE row == [po[p] EXCEPT !.status = answer]
               seen == [NothingSeen EXCEPT !.po = row]
    <2>1. row \in OrderRow
      BY <1>6 DEF BeginSupplier, Answers, OrderRow, SourceInv, TypeOK
    <2>2. Begin(r, "supplier", "save", p, seen)
      BY <1>6 DEF BeginSupplier
    <2> HIDE DEF row
    <2>3. seen \in SourceSeen /\ seen.need = FreshNeed
      BY <1>0, <2>1, SeenChanged, SeenNeedsSame, NothingSeenNeeds
    <2> HIDE DEF seen
    <2>4. QED
      BY <1>0, <1>1, <2>2, <2>3, AskedBegins
  <1>7. ASSUME NEW p \in Orders, SaveOrder(r, p)
        PROVE  AskedInv'
    <2>1. Goto(r, "check", Seen(r)) /\ need' = need /\ asked' = asked
      BY <1>7 DEF SaveOrder
    <2>2. QED
      BY <1>0, <1>1, <2>1, NeedsWithin, AskedSame, AskedGoes
  <1>8. QED
    BY <1>3, <1>4, <1>5, <1>6, <1>7 DEF MovePfo, OnOrder

LEMMA ScreenAsked ==
    ASSUME SourceInv, SourceInv', AskedInv,
           \/ Recalculate
           \/ \E m \in Mats : \E n \in 0..Planned[m] : SaveRequirements(m, n)
           \/ \E g \in Issues, qty \in Quantities : CreateGoodsIssue(g, qty)
    PROVE  AskedInv' /\ req' = req /\ \A m \in Mats : asked[m] <= asked'[m]
  <1>0. /\ \A s \in Requests, m \in Mats : req[s].seen.need[m].fromStock \in Nat
        /\ need \in Need /\ asked \in Quantity
    BY DEF SourceInv, TypeOK, SourceRequest, SourceSeen, Need
  <1>1. /\ req' = req
        /\ \A m \in Mats : asked[m] <= asked'[m] /\ asked'[m] \in Nat /\ asked[m] \in Nat
        /\ \A m \in Mats : need'[m].fromStock <= asked'[m]
    <2>1. CASE Recalculate
      BY <1>0, <2>1, FreshAsksNothing, AskedSame DEF Recalculate, Quantity
    <2>2. ASSUME NEW m \in Mats, NEW n \in 0..Planned[m], SaveRequirements(m, n)
          PROVE  <1>1!1 /\ <1>1!2 /\ <1>1!3
      <3>1. n \in Nat
        BY SourcingConstants
      <3>2. /\ \A k \in Mats : asked'[k] = IF k = m THEN Larger(asked[m], n) ELSE asked[k]
            /\ \A k \in Mats : need'[k].fromStock = IF k = m THEN n ELSE need[k].fromStock
            /\ req' = req
        BY <1>0, <2>2 DEF SaveRequirements, Need, Quantity
      <3>3. QED
        BY <1>0, <3>1, <3>2 DEF Larger, Quantity, AskedInv
    <2>3. ASSUME NEW g \in Issues, NEW qty \in Quantities, CreateGoodsIssue(g, qty)
          PROVE  <1>1!1 /\ <1>1!2 /\ <1>1!3
      <3>1. \A m \in Mats : qty[m] \in Nat /\ asked'[m] = asked[m] + qty[m]
        BY <2>3, EnteredTyped DEF CreateGoodsIssue, Plus, Quantity
      <3>2. need' = need /\ req' = req
        BY <2>3 DEF CreateGoodsIssue
      <3>3. QED
        BY <1>0, <3>1, <3>2 DEF Quantity, AskedInv, Need
    <2>4. QED
      BY <2>1, <2>2, <2>3
  <1>2. \A s \in Requests, m \in Mats : req'[s].seen.need[m].fromStock <= asked'[m]
    BY <1>0, <1>1 DEF AskedInv
  <1>3. QED
    BY <1>1, <1>2 DEF AskedInv

LEMMA AskedInvKept ==
    ASSUME SourceInv, SourceInv', AskedInv, [Next]_vars
    PROVE  AskedInv'
  <1>1. CASE UNCHANGED vars
    BY <1>1 DEF vars, AskedInv
  <1>2. ASSUME \/ Recalculate
               \/ \E m \in Mats : \E n \in 0..Planned[m] : SaveRequirements(m, n)
               \/ \E g \in Issues, qty \in Quantities : CreateGoodsIssue(g, qty)
        PROVE  AskedInv'
    BY <1>2, ScreenAsked
  <1>3. ASSUME NEW r \in Requests,
               \/ Generate(r) \/ HandOut(r) \/ StartProduction(r) \/ CheckPfo(r) \/ MovePfo(r)
               \/ \E p \in Orders : OnOrder(r, p)
        PROVE  AskedInv'
    BY <1>3, GenerateAsked, HandOutAsked, MoveAsked
  <1>4. ASSUME NEW r \in Requests, Fail(r)
        PROVE  AskedInv'
    <2>1. Done(r) /\ need' = need /\ asked' = asked
      BY <1>4 DEF Fail
    <2>2. QED
      BY <2>1, NeedsWithin, AskedSame, AskedEnds
  <1>5. ASSUME NEW r \in Requests, NEW g \in Issues, OnIssue(r, g)
        PROVE  AskedInv'
    BY <1>5, IssueAsked
  <1>6. QED
    BY <1>1, <1>2, <1>3, <1>4, <1>5 DEF Next

LEMMA AskedInvAtStart == Init => AskedInv
  <1> SUFFICES ASSUME Init PROVE AskedInv
    OBVIOUS
  <1>1. need = FreshNeed /\ asked = Zero /\ req = [r \in Requests |-> Idle]
    BY DEF Init
  <1>2. QED
    BY <1>1, FreshAsksNothing, ZeroTyped, IdleTyped, NothingSeenNeeds DEF AskedInv

--------------------------------------------------------------------------------
IssueCalls == {"generate", "confirm", "delivered", "edit", "delete"}

LEMMA IssueTables == "idle" \notin IssueCalls /\ \A u \in IssueCalls : "issues" \in Tables(u)
  <1>1. "issues" \in Tables("generate")
    BY DEF Tables
  <1>2. "issues" \in Tables("confirm")
    BY DEF Tables
  <1>3. \A u \in {"delivered", "edit", "delete"} : "issues" \in Tables(u)
    BY DEF Tables
  <1>4. QED
    BY <1>1, <1>2, <1>3 DEF IssueCalls

\* Units on live issues, on drafts, on drafts but those of a set, and on live
\* issues that were confirmed.
LiveUnits(m) == Held(gi, LiveStates, {}, m)
DraftUnits(m) == Held(gi, {"DRAFT"}, {}, m)
OtherDraftUnits(ids, m) == Held(gi, {"DRAFT"}, ids, m)
LeftUnits(m) == Held(gi, LiveStates, skipped, m)

\* A request that means to write the issue it read.
HoldsIssue(q) ==
    q.call \in {"delivered", "edit", "delete"} \/ (q.call = "confirm" /\ q.at \in {"export", "save"})

\* What it read is as it was; what is to be cleared are drafts; only issues
\* marked delivered or deleted since had skipped their confirmation.
IssueBooks(q) ==
    /\ q.call = "generate" /\ q.at = "clear" => q.seen.ids \subseteq DraftIssues
    /\ q.call = "generate" /\ q.at = "net" => q.seen.ids = {}
    /\ HoldsIssue(q) => /\ q.id \in Issues /\ gi[q.id] = q.seen.gi
                        /\ q.seen.gi.status \in {"DRAFT", "CONFIRMED", "DELIVERED"}
    /\ q.call = "confirm" /\ HoldsIssue(q) => q.seen.gi.status = "DRAFT"
    /\ \A g \in skipped : g \in Issues /\ gi[g].status \in {"DELIVERED", "deleted"}

\* What exists was asked for, and what a request is about to draft fits in.
NeedBooks(q) == \A m \in Mats :
    /\ LiveUnits(m) + DraftUnits(m) <= asked[m]
    /\ q.call = "generate" /\ q.at \in {"clear", "net"} =>
           /\ LiveUnits(m) + OtherDraftUnits(q.seen.ids, m) <= asked[m]
           /\ q.seen.need[m].fromStock + OtherDraftUnits(q.seen.ids, m) <= asked[m]
    /\ q.call = "generate" /\ q.at = "issue" =>
           q.seen.qty[m] + LiveUnits(m) + DraftUnits(m) <= asked[m]

\* Goods that left with an issue not yet saved, and goods put back from one
\* not yet deleted.
OnWay(q, m) == IF q.call = "confirm" /\ q.at = "save" THEN q.seen.gi.qty[m] ELSE 0
PutDown(q, m) ==
    IF q.call = "delete" /\ q.at = "drop" /\ PutBack(q.seen.gi) THEN q.seen.gi.qty[m] ELSE 0

\* Where the goods are.
StockBooks(q) == \A m \in Mats :
    /\ Opening[m] - rows[m] = LeftUnits(m) + gone[m] + OnWay(q, m)
    /\ skipped = {} => master[m] <= Opening[m] - LiveUnits(m) - OnWay(q, m) + PutDown(q, m)

Books(q) == IssueBooks(q) /\ NeedBooks(q) /\ ("issues" \notin failed => StockBooks(q))

\* The inductive invariant of the issues.
IssueInv == "issues" \notin raced => \E q : Sole(q, IssueCalls) /\ Books(q)

\* What the books are about.
IssueState == <<gi, rows, master, asked, gone, skipped, failed>>

LEMMA BooksSame ==
    ASSUME NEW q, Books(q), UNCHANGED IssueState
    PROVE  Books(q)'
  BY DEF Books, IssueBooks, NeedBooks, StockBooks, LiveUnits, DraftUnits, OtherDraftUnits,
         LeftUnits, IssueState, DraftIssues

\* A request between two steps that touch nothing, or with nothing to write.
Quiet(q) == /\ q.call = "generate" => q.at \in {"drop", "buy", "subcontract", "finish"}
            /\ ~HoldsIssue(q)

LEMMA QuietIdle == Quiet(Idle)
  BY IdleTyped DEF Quiet, HoldsIssue

LEMMA BooksQuiet ==
    ASSUME NEW q, Books(q), NEW q1, Quiet(q1),
           q.call = "confirm" => q.at # "save", q.call = "delete" => q.at # "drop"
    PROVE  Books(q1)
  <1>1. IssueBooks(q1)
    BY DEF Books, IssueBooks, Quiet
  <1>2. NeedBooks(q1)
    BY DEF Books, NeedBooks, Quiet
  <1>3. ASSUME NEW m \in Mats
        PROVE  /\ OnWay(q, m) = 0 /\ OnWay(q1, m) = 0
               /\ PutDown(q, m) = 0 /\ PutDown(q1, m) = 0
    BY DEF OnWay, PutDown, Quiet, HoldsIssue
  <1>4. StockBooks(q) => StockBooks(q1)
    BY <1>3 DEF StockBooks
  <1>5. QED
    BY <1>1, <1>2, <1>4 DEF Books

LEMMA IssueElsewhere ==
    ASSUME SourceInv, IssueInv, NEW r \in Requests, NEW q1, Put(r, q1),
           \A q : Books(q) => Books(q)',
           raced \subseteq raced', req[r].call \notin IssueCalls, q1.call \notin IssueCalls
    PROVE  IssueInv'
  <1> SUFFICES ASSUME "issues" \notin raced' PROVE \E q : (Sole(q, IssueCalls) /\ Books(q))'
    BY DEF IssueInv
  <1>1. PICK q : Sole(q, IssueCalls) /\ Books(q)
    BY DEF IssueInv
  <1>2. Sole(q, IssueCalls)' /\ Books(q)'
    BY <1>1, IssueTables, SoleElsewhere
  <1>3. QED
    BY <1>2

LEMMA IssueOwn ==
    ASSUME SourceInv, IssueInv, NEW r \in Requests, NEW q1, Put(r, q1),
           req[r].call \in IssueCalls, q1.call \in IssueCalls, raced' = raced,
           Books(req[r]) => Books(q1)'
    PROVE  IssueInv'
  <1> SUFFICES ASSUME "issues" \notin raced' PROVE \E q : (Sole(q, IssueCalls) /\ Books(q))'
    BY DEF IssueInv
  <1>1. PICK q : Sole(q, IssueCalls) /\ Books(q)
    BY DEF IssueInv
  <1>2. q = req[r] /\ \A s \in Requests \ {r} : req[s].call \notin IssueCalls
    BY <1>1, SoleBusy
  <1>3. Sole(q1, IssueCalls)' /\ Books(q1)'
    BY <1>1, <1>2, IssueTables, SoleThen
  <1>4. QED
    BY <1>3

LEMMA IssueEnds ==
    ASSUME SourceInv, IssueInv, NEW r \in Requests, Done(r), raced' = raced,
           req[r].call \in IssueCalls, Books(req[r]) => Books(Idle)'
    PROVE  IssueInv'
  <1> SUFFICES ASSUME "issues" \notin raced' PROVE \E q : (Sole(q, IssueCalls) /\ Books(q))'
    BY DEF IssueInv
  <1>1. Put(r, Idle) /\ Idle.call \notin IssueCalls
    BY DoneTurn, IdleTyped, IssueTables
  <1>2. PICK q : Sole(q, IssueCalls) /\ Books(q)
    BY DEF IssueInv
  <1>3. q = req[r] /\ \A s \in Requests \ {r} : req[s].call \notin IssueCalls
    BY <1>2, SoleBusy
  <1>4. Sole(Idle, IssueCalls)' /\ Books(Idle)'
    BY <1>1, <1>2, <1>3, IssueTables, SoleThen
  <1>5. QED
    BY <1>4

LEMMA IssueBegins ==
    ASSUME SourceInv, IssueInv, NEW r \in Requests, NEW q1, Put(r, q1),
           q1.call \in IssueCalls,
           raced' = raced \cup UNION {Tables(q1.call) \cap Tables(req[s].call) : s \in InFlight},
           Books(Idle) => Books(q1)'
    PROVE  IssueInv'
  <1> SUFFICES ASSUME "issues" \notin raced' PROVE \E q : (Sole(q, IssueCalls) /\ Books(q))'
    BY DEF IssueInv
  <1>1. "issues" \notin raced /\ \A s \in Requests : req[s].call \notin IssueCalls
    BY IssueTables, SoleFree
  <1>2. PICK q : Sole(q, IssueCalls) /\ Books(q)
    BY <1>1 DEF IssueInv
  <1>3. q = Idle
    BY <1>1, <1>2 DEF Sole
  <1>4. Sole(q1, IssueCalls)' /\ Books(q1)'
    BY <1>1, <1>2, <1>3, IssueTables, SoleThen
  <1>5. QED
    BY <1>4

LEMMA IssueUntouched ==
    ASSUME IssueInv, UNCHANGED IssueState, req' = req, raced' = raced
    PROVE  IssueInv'
  BY BooksSame, SoleSame DEF IssueInv

\* Requests of the other kinds take a step.
LEMMA IssueGoes ==
    ASSUME SourceInv, IssueInv, NEW r \in Requests, NEW step \in Steps, NEW seen \in SourceSeen,
           Goto(r, step, seen), UNCHANGED IssueState, raced' = raced,
           req[r].call \notin IssueCalls
    PROVE  IssueInv'
  <1>1. PICK q1 \in SourceRequest : Put(r, q1) /\ q1.call = req[r].call
    BY GotoTurn
  <1>2. QED
    BY <1>1, BooksSame, IssueElsewhere

LEMMA BeginCall ==
    ASSUME SourceInv, NEW r \in Requests, NEW call, NEW step \in Steps,
           NEW id \in {NoId} \cup Mats \cup Issues \cup Orders, NEW seen \in SourceSeen,
           Begin(r, call, step, id, seen)
    PROVE  /\ \E q \in SourceRequest : /\ Put(r, q) /\ q.call = call /\ q.id = id
                                       /\ q.at = step /\ q.seen = seen
           /\ req[r].call = "idle" /\ UNCHANGED IssueState /\ po' = po
           /\ raced' = raced \cup UNION {Tables(call) \cap Tables(req[s].call) : s \in InFlight}
  <1>1. /\ req[r].call = "idle" /\ UNCHANGED IssueState /\ po' = po
        /\ raced' = raced \cup UNION {Tables(call) \cap Tables(req[s].call) : s \in InFlight}
    BY DEF Begin, IssueState, history
  <1>2. \E q \in SourceRequest : /\ Put(r, q) /\ q.call = call /\ q.id = id
                                 /\ q.at = step /\ q.seen = seen
    <2> DEFINE q == [call |-> call, at |-> step, id |-> id, seen |-> seen]
    <2>1. call \in CallNames
      BY SourcingConstants DEF Begin
    <2>2. q \in SourceRequest /\ q.call = call /\ q.id = id /\ q.at = step /\ q.seen = seen
      BY <2>1 DEF SourceRequest
    <2>3. QED
      BY <2>2 DEF Begin, Put
  <1>3. QED
    BY <1>1, <1>2

LEMMA BeginAs ==
    ASSUME SourceInv, NEW r \in Requests, NEW call, NEW step \in Steps,
           NEW id \in {NoId} \cup Mats \cup Issues \cup Orders, NEW seen \in SourceSeen,
           Begin(r, call, step, id, seen)
    PROVE  \E q \in SourceRequest : /\ Put(r, q) /\ q.call = call /\ q.id = id
                                    /\ q.at = step /\ q.seen = seen
  <1> DEFINE q == [call |-> call, at |-> step, id |-> id, seen |-> seen]
  <1>1. call \in CallNames
    BY SourcingConstants DEF Begin
  <1>2. q \in SourceRequest /\ q.call = call /\ q.id = id /\ q.at = step /\ q.seen = seen
    BY <1>1 DEF SourceRequest
  <1>3. QED
    BY <1>2 DEF Begin, Put

LEMMA IssueStarts ==
    ASSUME SourceInv, IssueInv, NEW r \in Requests, NEW call, call \notin IssueCalls,
           NEW step \in Steps, NEW id \in {NoId} \cup Mats \cup Issues \cup Orders,
           NEW seen \in SourceSeen, Begin(r, call, step, id, seen)
    PROVE  IssueInv'
  <1>1. /\ \E q \in SourceRequest : Put(r, q) /\ q.call = call
        /\ req[r].call = "idle" /\ UNCHANGED IssueState /\ raced \subseteq raced'
    BY BeginCall
  <1>2. QED
    BY <1>1, BooksSame, IssueElsewhere, IssueTables

--------------------------------------------------------------------------------
RowIn(row, states, m) == IF row.status \in states THEN row.qty[m] ELSE 0
LeftIn(row, left, m) == IF row.status \in LiveStates /\ left THEN row.qty[m] ELSE 0

LEMMA UnitsNat ==
    ASSUME SourceInv, NEW m \in Mats
    PROVE  /\ LiveUnits(m) \in Nat /\ DraftUnits(m) \in Nat /\ LeftUnits(m) \in Nat
           /\ \A ids : OtherDraftUnits(ids, m) \in Nat
           /\ asked[m] \in Nat /\ gone[m] \in Nat /\ rows[m] \in Int /\ master[m] \in Int
           /\ Opening[m] \in Nat
  <1>1. gi \in [Issues -> IssueRow]
    BY DEF SourceInv, TypeOK
  <1>2. asked[m] \in Nat /\ gone[m] \in Nat /\ rows[m] \in Int /\ master[m] \in Int
    BY DEF SourceInv, TypeOK, Quantity
  <1>3. QED
    BY <1>1, <1>2, HeldTyped, SourcingConstants
    DEF LiveUnits, DraftUnits, LeftUnits, OtherDraftUnits

LEMMA RowNat ==
    ASSUME NEW row \in IssueRow, NEW m \in Mats
    PROVE  row.qty[m] \in Nat
  BY DEF IssueRow, Quantity

\* One issue's row changes, or is marked as one that skipped its confirmation.
LEMMA RowTurn ==
    ASSUME SourceInv, SourceInv', NEW g \in Issues,
           \A h \in Issues \ {g} : gi'[h] = gi[h], NEW m \in Mats
    PROVE  /\ LiveUnits(m)' =
                  LiveUnits(m) - RowIn(gi[g], LiveStates, m) + RowIn(gi'[g], LiveStates, m)
           /\ DraftUnits(m)' =
                  DraftUnits(m) - RowIn(gi[g], {"DRAFT"}, m) + RowIn(gi'[g], {"DRAFT"}, m)
           /\ \A ids : g \notin ids =>
                  OtherDraftUnits(ids, m)' = OtherDraftUnits(ids, m)
                      - RowIn(gi[g], {"DRAFT"}, m) + RowIn(gi'[g], {"DRAFT"}, m)
           /\ skipped' \ {g} = skipped \ {g} =>
                  LeftUnits(m)' = LeftUnits(m) - LeftIn(gi[g], g \notin skipped, m)
                                      + LeftIn(gi'[g], g \notin skipped', m)
  <1>1. gi \in [Issues -> IssueRow] /\ gi' \in [Issues -> IssueRow]
    BY DEF SourceInv, TypeOK
  <1>2. \A states, out : g \notin out =>
            /\ Part(gi, states, out, g, m) = RowIn(gi[g], states, m)
            /\ Part(gi', states, out, g, m) = RowIn(gi'[g], states, m)
    BY PartIs DEF RowIn
  <1>3. \A states, out : g \notin out =>
            Held(gi', states, out, m) = Held(gi, states, out, m)
                - RowIn(gi[g], states, m) + RowIn(gi'[g], states, m)
    BY <1>1, <1>2, HeldTurn
  <1>4. g \notin {}
    OBVIOUS
  <1>5. LiveUnits(m)' =
            LiveUnits(m) - RowIn(gi[g], LiveStates, m) + RowIn(gi'[g], LiveStates, m)
    BY <1>3, <1>4 DEF LiveUnits
  <1>6. DraftUnits(m)' =
            DraftUnits(m) - RowIn(gi[g], {"DRAFT"}, m) + RowIn(gi'[g], {"DRAFT"}, m)
    BY <1>3, <1>4 DEF DraftUnits
  <1>7. \A ids : g \notin ids =>
            OtherDraftUnits(ids, m)' = OtherDraftUnits(ids, m)
                - RowIn(gi[g], {"DRAFT"}, m) + RowIn(gi'[g], {"DRAFT"}, m)
    BY <1>3 DEF OtherDraftUnits
  <1>8. ASSUME skipped' \ {g} = skipped \ {g}
        PROVE  LeftUnits(m)' = LeftUnits(m) - LeftIn(gi[g], g \notin skipped, m)
                                   + LeftIn(gi'[g], g \notin skipped', m)
    <2>1. Held(gi', LiveStates, skipped', m) =
              Held(gi, LiveStates, skipped, m) - Part(gi, LiveStates, skipped, g, m)
                  + Part(gi', LiveStates, skipped', g, m)
      BY <1>1, <1>8, HeldTurn
    <2>2. /\ Part(gi, LiveStates, skipped, g, m) = LeftIn(gi[g], g \notin skipped, m)
          /\ Part(gi', LiveStates, skipped', g, m) = LeftIn(gi'[g], g \notin skipped', m)
      BY PartIs DEF LeftIn
    <2>3. QED
      BY <2>1, <2>2 DEF LeftUnits
  <1>9. QED
    BY <1>5, <1>6, <1>7, <1>8

LEMMA HeldSame ==
    ASSUME NEW t, NEW u, NEW states, NEW out, NEW out2, NEW m,
           Chosen(u, states, out2) = Chosen(t, states, out),
           \A g \in Chosen(t, states, out) : u[g] = t[g]
    PROVE  Held(u, states, out2, m) = Held(t, states, out, m)
  <1> DEFINE S == Chosen(t, states, out)
             f == Units(t, m)
             k == Units(u, m)
  <1>1. S \in SUBSET Issues
    BY DEF Chosen
  <1>2. IsFiniteSet(S) /\ \A g \in S : k[g] = f[g]
    BY <1>1, IssuesFinite DEF Units
  <1> HIDE DEF f, k
  <1>3. SumFunctionOnSet(k, S) = SumFunctionOnSet(f, S)
    BY <1>2, SumSame
  <1>4. QED
    BY <1>3 DEF Held, Amount, f, k

LEMMA GenerateWay ==
    ASSUME NEW q, q.call = "generate", NEW m
    PROVE  OnWay(q, m) = 0 /\ PutDown(q, m) = 0 /\ ~HoldsIssue(q)
  BY DEF OnWay, PutDown, HoldsIssue

--------------------------------------------------------------------------------
LEMMA DropDraftsIssues ==
    ASSUME SourceInv, AskedInv, IssueInv, NEW r \in Requests, DropDrafts(r)
    PROVE  IssueInv'
  <1> DEFINE seen == [Seen(r) EXCEPT !.ids = DraftIssues]
  <1>0. Seen(r) \in SourceSeen /\ DraftIssues \in SUBSET (Issues \cup Orders)
    BY Ranges
  <1>1. /\ seen \in SourceSeen /\ seen.ids = DraftIssues /\ seen.need = req[r].seen.need
    BY <1>0, SeenChanged, SeenNeedsSame, NeedsWithin DEF SourceSeen
  <1>2. Goto(r, "clear", seen) /\ "clear" \in Steps
    BY DEF DropDrafts, Steps
  <1> HIDE DEF seen
  <1>3. PICK q1 \in SourceRequest :
            Put(r, q1) /\ q1.call = req[r].call /\ q1.at = "clear" /\ q1.seen = seen
    BY <1>1, <1>2, GotoTurn
  <1>4. req[r].call = "generate" /\ UNCHANGED IssueState /\ raced' = raced
    BY DEF DropDrafts, At, IssueState, history
  <1>5. ASSUME Books(req[r]) PROVE Books(q1)'
    <2>1. IssueBooks(q1)
      BY <1>1, <1>3, <1>4, <1>5, GenerateWay DEF Books, IssueBooks
    <2>2. ASSUME NEW m \in Mats
          PROVE  /\ LiveUnits(m) + DraftUnits(m) <= asked[m]
                 /\ LiveUnits(m) + OtherDraftUnits(DraftIssues, m) <= asked[m]
                 /\ req[r].seen.need[m].fromStock + OtherDraftUnits(DraftIssues, m) <= asked[m]
      <3>1. OtherDraftUnits(DraftIssues, m) = 0
        BY HeldNone DEF OtherDraftUnits, Chosen, DraftIssues
      <3>2. req[r].seen.need[m].fromStock \in Nat
        BY DEF SourceInv, SourceRequest, SourceSeen, Need
      <3>3. QED
        BY <1>5, <3>1, <3>2, UnitsNat DEF Books, NeedBooks, AskedInv
    <2>3. NeedBooks(q1)
      BY <1>1, <1>3, <1>4, <2>2 DEF NeedBooks
    <2>4. StockBooks(req[r]) => StockBooks(q1)
      BY <1>3, <1>4, GenerateWay DEF StockBooks
    <2>5. QED
      BY <1>4, <1>5, <2>1, <2>3, <2>4, BooksSame DEF Books
  <1>6. QED
    BY <1>3, <1>4, <1>5, IssueOwn DEF IssueCalls

LEMMA ClearIssuesIssues ==
    ASSUME SourceInv, SourceInv', IssueInv, NEW r \in Requests, ClearIssues(r)
    PROVE  IssueInv'
  <1> DEFINE seen == [Seen(r) EXCEPT !.ids = {}]
             ids == req[r].seen.ids
  <1>0. /\ Seen(r) \in SourceSeen /\ {} \in SUBSET (Issues \cup Orders)
        /\ gi \in [Issues -> IssueRow]
    BY Ranges DEF SourceInv, TypeOK
  <1>1. /\ seen \in SourceSeen /\ seen.ids = {} /\ seen.need = req[r].seen.need
    <2>1. seen \in SourceSeen /\ seen.ids = {}
      BY <1>0 DEF SourceSeen
    <2>2. seen.need = Seen(r).need
      BY <1>0, SeenNeedsSame
    <2>3. QED
      BY <2>1, <2>2, NeedsWithin DEF Seen
  <1>2. Goto(r, "net", seen) /\ "net" \in Steps
    BY DEF ClearIssues, Steps
  <1> HIDE DEF seen
  <1>3. PICK q1 \in SourceRequest :
            Put(r, q1) /\ q1.call = req[r].call /\ q1.at = "net" /\ q1.seen = seen
    BY <1>1, <1>2, GotoTurn
  <1>4. /\ req[r].call = "generate" /\ req[r].at = "clear" /\ raced' = raced
        /\ gi' = [g \in Issues |-> IF g \in ids THEN DeletedIssue ELSE gi[g]]
        /\ UNCHANGED <<rows, master, asked, gone, skipped, failed>>
    BY DEF ClearIssues, At, history, Seen
  <1> HIDE DEF ids
  <1>5. ASSUME Books(req[r]) PROVE Books(q1)'
    <2>1. ids \subseteq DraftIssues
      BY <1>4, <1>5 DEF Books, IssueBooks, ids
    <2>2. \A g \in Issues : g \in ids => gi[g].status = "DRAFT" /\ gi'[g].status = "deleted"
      BY <1>4, <2>1, RowsAsNew DEF DraftIssues
    <2>3. \A g \in Issues : g \notin ids => gi'[g] = gi[g]
      BY <1>4
    <2>4. \A out : Chosen(gi', LiveStates, out) = Chosen(gi, LiveStates, out)
      BY <2>2, <2>3 DEF Chosen, LiveStates
    <2>5. Chosen(gi', {"DRAFT"}, {}) = Chosen(gi, {"DRAFT"}, ids)
      BY <2>2, <2>3 DEF Chosen
    <2>6. \A out : \A g \in Chosen(gi, LiveStates, out) : gi'[g] = gi[g]
      BY <2>2, <2>3 DEF Chosen, LiveStates
    <2>7. \A g \in Chosen(gi, {"DRAFT"}, ids) : gi'[g] = gi[g]
      BY <2>3 DEF Chosen
    <2>8. ASSUME NEW m \in Mats
          PROVE  /\ LiveUnits(m)' = LiveUnits(m) /\ LeftUnits(m)' = LeftUnits(m)
                 /\ DraftUnits(m)' = OtherDraftUnits(ids, m)
                 /\ OtherDraftUnits({}, m)' = OtherDraftUnits(ids, m)
      <3>1. \A out : Held(gi', LiveStates, out, m) = Held(gi, LiveStates, out, m)
        BY <2>4, <2>6, HeldSame
      <3>2. Held(gi', {"DRAFT"}, {}, m) = Held(gi, {"DRAFT"}, ids, m)
        BY <2>5, <2>7, HeldSame
      <3>3. QED
        BY <1>4, <3>1, <3>2 DEF LiveUnits, LeftUnits, DraftUnits, OtherDraftUnits
    <2>9. IssueBooks(q1)'
      <3>1. \A g \in skipped' : g \in Issues /\ gi'[g].status \in {"DELIVERED", "deleted"}
        BY <1>4, <1>5, <2>2, <2>3 DEF Books, IssueBooks
      <3>2. q1.call = "generate" /\ ~HoldsIssue(q1)
        BY <1>3, <1>4, GenerateWay
      <3>3. QED
        BY <1>1, <1>3, <3>1, <3>2 DEF IssueBooks, HoldsIssue
    <2>10. NeedBooks(q1)'
      <3>1. \A m \in Mats :
                /\ LiveUnits(m) + OtherDraftUnits(ids, m) <= asked[m]
                /\ req[r].seen.need[m].fromStock + OtherDraftUnits(ids, m) <= asked[m]
        BY <1>4, <1>5 DEF Books, NeedBooks, ids
      <3>2. asked' = asked
        BY <1>4
      <3>3. QED
        BY <1>1, <1>3, <2>8, <3>1, <3>2 DEF NeedBooks
    <2>11. ASSUME StockBooks(req[r]) PROVE StockBooks(q1)'
      <3>1. \A m \in Mats : /\ OnWay(req[r], m) = 0 /\ PutDown(req[r], m) = 0
                            /\ OnWay(q1, m) = 0 /\ PutDown(q1, m) = 0
        BY <1>3, <1>4, GenerateWay
      <3>2. \A m \in Mats : OnWay(q1, m)' = 0 /\ PutDown(q1, m)' = 0
        BY <3>1 DEF OnWay, PutDown
      <3>3. QED
        BY <1>4, <2>8, <2>11, <3>1, <3>2 DEF StockBooks
    <2>12. QED
      BY <1>4, <1>5, <2>9, <2>10, <2>11 DEF Books
  <1>6. QED
    BY <1>3, <1>4, <1>5, IssueOwn DEF IssueCalls

LEMMA NetIssuedIssues ==
    ASSUME SourceInv, IssueInv, NEW r \in Requests, NetIssued(r)
    PROVE  IssueInv'
  <1> DEFINE left == Unissued(Seen(r).need)
             step == IF left = Zero THEN "buy" ELSE "issue"
             seen == [Seen(r) EXCEPT !.qty = left]
  <1>0. Seen(r) \in SourceSeen /\ Seen(r).need \in Need /\ Seen(r) = req[r].seen
    BY Ranges
  <1>1. /\ left \in Quantity
        /\ \A m \in Mats : left[m] = FromZero(Seen(r).need[m].fromStock - Amount(gi, Live, m))
    BY <1>0, UnissuedTyped
  <1>2. step \in Steps /\ step \in {"buy", "issue"} /\ Goto(r, step, seen)
    BY DEF NetIssued, Steps
  <1> HIDE DEF left, step
  <1>3. seen \in SourceSeen /\ seen.qty = left
    BY <1>0, <1>1, SeenChanged DEF SourceSeen
  <1> HIDE DEF seen
  <1>4. PICK q1 \in SourceRequest :
            Put(r, q1) /\ q1.call = req[r].call /\ q1.at = step /\ q1.seen = seen
    BY <1>2, <1>3, GotoTurn
  <1>5. /\ req[r].call = "generate" /\ req[r].at = "net" /\ raced' = raced
        /\ UNCHANGED IssueState
    BY DEF NetIssued, At, IssueState, history
  <1>6. \A m \in Mats : LiveUnits(m) = Amount(gi, Live, m)
    BY DEF LiveUnits, Held, Chosen, Live, LiveStates
  <1>7. ASSUME Books(req[r]) PROVE Books(q1)'
    <2>1. IssueBooks(q1)
      BY <1>2, <1>4, <1>5, <1>7, GenerateWay DEF Books, IssueBooks
    <2>2. ASSUME NEW m \in Mats
          PROVE  left[m] + LiveUnits(m) + DraftUnits(m) <= asked[m]
      <3>1. OtherDraftUnits({}, m) = DraftUnits(m) /\ req[r].seen.ids = {}
        BY <1>5, <1>7 DEF OtherDraftUnits, DraftUnits, Books, IssueBooks
      <3>2. /\ LiveUnits(m) + DraftUnits(m) <= asked[m]
            /\ req[r].seen.need[m].fromStock + DraftUnits(m) <= asked[m]
        BY <1>5, <1>7, <3>1 DEF Books, NeedBooks
      <3>3. left[m] = FromZero(req[r].seen.need[m].fromStock - LiveUnits(m))
        BY <1>0, <1>1, <1>6
      <3>4. req[r].seen.need[m].fromStock \in Nat
        BY <1>0 DEF Need
      <3>5. QED
        BY <3>2, <3>3, <3>4, UnitsNat DEF FromZero
    <2>3. NeedBooks(q1)
      BY <1>2, <1>3, <1>4, <1>7, <2>2 DEF NeedBooks, Books
    <2>4. StockBooks(req[r]) => StockBooks(q1)
      BY <1>4, <1>5, GenerateWay DEF StockBooks
    <2>5. QED
      BY <1>5, <1>7, <2>1, <2>3, <2>4, BooksSame DEF Books
  <1>8. QED
    BY <1>4, <1>5, <1>7, IssueOwn DEF IssueCalls


LEMMA NextUnused ==
    ASSUME SourceInv, NEW g \in Issues, NextId(gi, g)
    PROVE  gi[g].status = "unused"
  <1>1. g \in DOMAIN gi /\ ~(g < g)
    BY SourcingConstants DEF SourceInv, TypeOK, Issues
  <1>2. QED
    BY <1>1 DEF NextId

LEMMA DraftIssueIssues ==
    ASSUME SourceInv, SourceInv', IssueInv, NEW r \in Requests, NEW g \in Issues,
           DraftIssue(r, g)
    PROVE  IssueInv'
  <1>0. /\ Seen(r) \in SourceSeen /\ Seen(r) = req[r].seen /\ gi \in [Issues -> IssueRow]
        /\ Seen(r).qty \in Quantity
    BY Ranges DEF SourceInv, TypeOK
  <1>1. Goto(r, "buy", Seen(r)) /\ "buy" \in Steps
    BY DEF DraftIssue, Steps
  <1>2. PICK q1 \in SourceRequest : Put(r, q1) /\ q1.call = req[r].call /\ q1.at = "buy"
    BY <1>0, <1>1, GotoTurn
  <1>3. /\ req[r].call = "generate" /\ req[r].at = "issue" /\ raced' = raced
        /\ gi[g].status = "unused"
        /\ gi' = [gi EXCEPT ![g] = [status |-> "DRAFT", qty |-> req[r].seen.qty]]
        /\ UNCHANGED <<rows, master, asked, gone, skipped, failed>>
    BY <1>0, NextUnused DEF DraftIssue, At, history
  <1>4. /\ gi'[g].status = "DRAFT" /\ gi'[g].qty = req[r].seen.qty
        /\ \A h \in Issues \ {g} : gi'[h] = gi[h]
    BY <1>0, <1>3
  <1>5. ASSUME Books(req[r]) PROVE Books(q1)'
    <2>1. q1.call = "generate" /\ ~HoldsIssue(q1)
      BY <1>2, <1>3, GenerateWay
    <2>2. IssueBooks(q1)'
      <3>1. \A h \in skipped' : h \in Issues /\ gi'[h].status \in {"DELIVERED", "deleted"}
        BY <1>3, <1>4, <1>5 DEF Books, IssueBooks
      <3>2. QED
        BY <1>2, <2>1, <3>1 DEF IssueBooks, HoldsIssue
    <2>3. ASSUME NEW m \in Mats
          PROVE  /\ LiveUnits(m)' = LiveUnits(m) /\ LeftUnits(m)' = LeftUnits(m)
                 /\ DraftUnits(m)' = DraftUnits(m) + req[r].seen.qty[m]
      <3>1. /\ RowIn(gi[g], LiveStates, m) = 0 /\ RowIn(gi'[g], LiveStates, m) = 0
            /\ RowIn(gi[g], {"DRAFT"}, m) = 0 /\ RowIn(gi'[g], {"DRAFT"}, m) = req[r].seen.qty[m]
            /\ LeftIn(gi[g], g \notin skipped, m) = 0 /\ LeftIn(gi'[g], g \notin skipped', m) = 0
        BY <1>3, <1>4 DEF RowIn, LeftIn, LiveStates
      <3>2. skipped' \ {g} = skipped \ {g} /\ req[r].seen.qty[m] \in Nat
        BY <1>0, <1>3 DEF Quantity
      <3>3. QED
        BY <1>4, <3>1, <3>2, RowTurn, UnitsNat
    <2>4. NeedBooks(q1)'
      <3>1. \A m \in Mats : req[r].seen.qty[m] + LiveUnits(m) + DraftUnits(m) <= asked[m]
        BY <1>3, <1>5 DEF Books, NeedBooks
      <3>2. \A m \in Mats : LiveUnits(m)' + DraftUnits(m)' <= asked'[m]
        <4> SUFFICES ASSUME NEW m \in Mats PROVE LiveUnits(m)' + DraftUnits(m)' <= asked'[m]
          OBVIOUS
        <4>1. req[r].seen.qty[m] \in Nat /\ asked' = asked
          BY <1>0, <1>3 DEF Quantity
        <4>2. QED
          BY <2>3, <3>1, <4>1, UnitsNat
      <3>3. QED
        BY <1>2, <3>2 DEF NeedBooks
    <2>5. ASSUME StockBooks(req[r]) PROVE StockBooks(q1)'
      <3>1. \A m \in Mats : /\ OnWay(req[r], m) = 0 /\ PutDown(req[r], m) = 0
                            /\ OnWay(q1, m)' = 0 /\ PutDown(q1, m)' = 0
        BY <1>3, <2>1, GenerateWay DEF OnWay, PutDown
      <3>2. QED
        BY <1>3, <2>3, <2>5, <3>1 DEF StockBooks
    <2>6. QED
      BY <1>3, <1>5, <2>2, <2>4, <2>5 DEF Books
  <1>6. QED
    BY <1>2, <1>3, <1>5, IssueOwn DEF IssueCalls

LEMMA GenerateIssues ==
    ASSUME SourceInv, SourceInv', AskedInv, IssueInv, NEW r \in Requests, Generate(r)
    PROVE  IssueInv'
  <1>0. /\ Seen(r) \in SourceSeen /\ PfoWithNeeds \in SourceSeen
        /\ ToReplace \in SUBSET (Issues \cup Orders) /\ "generate" \in IssueCalls
    BY Ranges DEF IssueCalls
  <1>1. CASE BeginGenerate(r)
    <2> DEFINE seen == [PfoWithNeeds EXCEPT !.ids = ToReplace]
    <2>1. seen \in SourceSeen /\ Begin(r, "generate", "drop", NoId, seen)
      BY <1>0, <1>1, SeenChanged DEF BeginGenerate
    <2> HIDE DEF seen
    <2>2. /\ \E q \in SourceRequest : Put(r, q) /\ q.call = "generate" /\ q.at = "drop"
          /\ UNCHANGED IssueState
          /\ raced' = raced \cup UNION {Tables("generate") \cap Tables(req[s].call) : s \in InFlight}
      <3>1. "drop" \in Steps /\ NoId \in {NoId} \cup Mats \cup Issues \cup Orders
        BY DEF Steps
      <3>2. \E q \in SourceRequest : /\ Put(r, q) /\ q.call = "generate" /\ q.id = NoId
                                     /\ q.at = "drop" /\ q.seen = seen
        BY <2>1, <3>1, BeginCall
      <3>3. UNCHANGED IssueState
        BY <2>1, <3>1, BeginCall
      <3>4. raced' = raced \cup UNION {Tables("generate") \cap Tables(req[s].call) : s \in InFlight}
        BY <2>1 DEF Begin
      <3>5. QED
        BY <3>2, <3>3, <3>4
    <2>3. PICK q1 \in SourceRequest : Put(r, q1) /\ q1.call = "generate" /\ q1.at = "drop"
      BY <2>2
    <2>4. Quiet(q1) /\ Idle.call = "idle"
      BY <2>3, GenerateWay, IdleTyped DEF Quiet
    <2>5. Books(Idle) => Books(q1)'
      BY <2>2, <2>4, BooksQuiet, BooksSame
    <2>6. QED
      BY <1>0, <2>2, <2>3, <2>5, IssueBegins
  <1>2. CASE DropDrafts(r)
    BY <1>2, DropDraftsIssues
  <1>3. CASE ClearIssues(r)
    BY <1>3, ClearIssuesIssues
  <1>4. CASE NetIssued(r)
    BY <1>4, NetIssuedIssues
  <1>5. ASSUME NEW g \in Issues, DraftIssue(r, g)
        PROVE  IssueInv'
    BY <1>5, DraftIssueIssues
  <1>6. ASSUME BuyMaterials(r) \/ Subcontract(r)
        PROVE  IssueInv'
    <2>1. /\ \E step \in {"subcontract", "finish"} : Goto(r, step, Seen(r))
          /\ req[r].call = "generate" /\ UNCHANGED IssueState /\ raced' = raced
      BY <1>6 DEF BuyMaterials, Subcontract, At, IssueState, history
    <2>2. PICK step \in {"subcontract", "finish"} : Goto(r, step, Seen(r))
      BY <2>1
    <2>3. PICK q1 \in SourceRequest : Put(r, q1) /\ q1.call = req[r].call /\ q1.at = step
      BY <1>0, <2>2, GotoTurn DEF Steps
    <2>4. Quiet(q1)
      BY <2>1, <2>3, GenerateWay DEF Quiet
    <2>5. Books(req[r]) => Books(q1)'
      BY <2>1, <2>4, BooksQuiet, BooksSame
    <2>6. QED
      BY <1>0, <2>1, <2>3, <2>5, IssueOwn
  <1>7. CASE FinishGenerate(r)
    <2>1. Done(r) /\ req[r].call = "generate" /\ UNCHANGED IssueState /\ raced' = raced
      BY <1>7 DEF FinishGenerate, At, IssueState, history
    <2>2. Books(req[r]) => Books(Idle)'
      BY <2>1, QuietIdle, BooksQuiet, BooksSame
    <2>3. QED
      BY <1>0, <2>1, <2>2, IssueEnds
  <1>8. QED
    BY <1>1, <1>2, <1>3, <1>4, <1>5, <1>6, <1>7 DEF Generate

--------------------------------------------------------------------------------
LEMMA WayNat ==
    ASSUME NEW q \in SourceRequest, NEW m \in Mats
    PROVE  OnWay(q, m) \in Nat /\ PutDown(q, m) \in Nat /\ q.seen.gi.qty[m] \in Nat
  BY DEF OnWay, PutDown, SourceRequest, SourceSeen, IssueRow, Quantity

LEMMA RowInNat ==
    ASSUME NEW row \in IssueRow, NEW m \in Mats
    PROVE  /\ \A states : RowIn(row, states, m) \in Nat
           /\ \A left : LeftIn(row, left, m) \in Nat
  BY RowNat DEF RowIn, LeftIn

\* The books after a step on issue g, from what the step does to its row, to
\* the stock and to what was asked.
LEMMA RowBooks ==
    ASSUME SourceInv, SourceInv', NEW g \in Issues, \A h \in Issues \ {g} : gi'[h] = gi[h],
           NEW q \in SourceRequest, Books(q), q.call # "generate",
           NEW q1 \in SourceRequest, q1.call # "generate",
           HoldsIssue(q1) =>
               /\ q1.id = g /\ gi'[g] = q1.seen.gi
               /\ q1.seen.gi.status \in {"DRAFT", "CONFIRMED", "DELIVERED"}
               /\ q1.call = "confirm" => q1.seen.gi.status = "DRAFT",
           skipped \subseteq skipped', skipped' \subseteq skipped \cup {g},
           g \in skipped' => gi'[g].status \in {"DELIVERED", "deleted"},
           failed' = failed,
           \A m \in Mats :
               RowIn(gi'[g], LiveStates, m) + RowIn(gi'[g], {"DRAFT"}, m) + asked[m]
                   <= RowIn(gi[g], LiveStates, m) + RowIn(gi[g], {"DRAFT"}, m) + asked'[m],
           \A m \in Mats :
               rows'[m] + LeftIn(gi'[g], g \notin skipped', m) + gone'[m] + OnWay(q1, m)
                   = rows[m] + LeftIn(gi[g], g \notin skipped, m) + gone[m] + OnWay(q, m),
           \A m \in Mats : skipped' = {} =>
               \/ master'[m] <= rows'[m]
               \/ master'[m] + RowIn(gi'[g], LiveStates, m) + OnWay(q1, m) + PutDown(q, m)
                      <= master[m] + RowIn(gi[g], LiveStates, m) + OnWay(q, m) + PutDown(q1, m)
    PROVE  Books(q1)'
  <1>1. gi[g] \in IssueRow /\ gi'[g] \in IssueRow
    BY DEF SourceInv, TypeOK
  <1>2. skipped' \ {g} = skipped \ {g}
    OBVIOUS
  <1>3. IssueBooks(q1)'
    <2>1. \A h \in skipped' : h \in Issues /\ gi'[h].status \in {"DELIVERED", "deleted"}
      BY DEF Books, IssueBooks
    <2>2. QED
      BY <2>1 DEF IssueBooks, HoldsIssue
  <1>4. NeedBooks(q1)'
    <2>1. \A m \in Mats : LiveUnits(m)' + DraftUnits(m)' <= asked'[m]
      <3> SUFFICES ASSUME NEW m \in Mats PROVE LiveUnits(m)' + DraftUnits(m)' <= asked'[m]
        OBVIOUS
      <3> DEFINE L1 == RowIn(gi'[g], LiveStates, m)
                 D1 == RowIn(gi'[g], {"DRAFT"}, m)
                 L0 == RowIn(gi[g], LiveStates, m)
                 D0 == RowIn(gi[g], {"DRAFT"}, m)
      <3>1. /\ LiveUnits(m)' = LiveUnits(m) - L0 + L1
            /\ DraftUnits(m)' = DraftUnits(m) - D0 + D1
        BY RowTurn
      <3>2. L0 \in Nat /\ L1 \in Nat /\ D0 \in Nat /\ D1 \in Nat
        BY <1>1, RowInNat
      <3>3. L1 + D1 + asked[m] <= L0 + D0 + asked'[m]
        OBVIOUS
      <3>4. LiveUnits(m) + DraftUnits(m) <= asked[m]
        BY DEF Books, NeedBooks
      <3>5. asked'[m] \in Nat
        BY DEF SourceInv, TypeOK, Quantity
      <3> HIDE DEF L0, L1, D0, D1
      <3>6. QED
        BY <3>1, <3>2, <3>3, <3>4, <3>5, UnitsNat
    <2>2. QED
      BY <2>1 DEF NeedBooks
  <1>5. ASSUME StockBooks(q) PROVE StockBooks(q1)'
    <2>1. ASSUME NEW m \in Mats
          PROVE  Opening[m] - rows'[m] = LeftUnits(m)' + gone'[m] + OnWay(q1, m)
      <3> DEFINE F1 == LeftIn(gi'[g], g \notin skipped', m)
                 F0 == LeftIn(gi[g], g \notin skipped, m)
      <3>1. LeftUnits(m)' = LeftUnits(m) - F0 + F1
        BY <1>2, RowTurn
      <3>2. F0 \in Nat /\ F1 \in Nat
        BY <1>1, RowInNat
      <3>3. rows'[m] + F1 + gone'[m] + OnWay(q1, m) = rows[m] + F0 + gone[m] + OnWay(q, m)
        OBVIOUS
      <3>4. Opening[m] - rows[m] = LeftUnits(m) + gone[m] + OnWay(q, m)
        BY <1>5 DEF StockBooks
      <3>5. gone'[m] \in Nat /\ rows'[m] \in Int
        BY DEF SourceInv, TypeOK, Quantity
      <3> HIDE DEF F0, F1
      <3>6. QED
        BY <3>1, <3>2, <3>3, <3>4, <3>5, UnitsNat, WayNat
    <2>2. ASSUME NEW m \in Mats, skipped' = {}
          PROVE  master'[m] <= Opening[m] - LiveUnits(m)' - OnWay(q1, m) + PutDown(q1, m)
      <3> DEFINE L1 == RowIn(gi'[g], LiveStates, m)
                 L0 == RowIn(gi[g], LiveStates, m)
      <3>1. LiveUnits(m)' = LiveUnits(m) - L0 + L1
        BY RowTurn
      <3>2. L0 \in Nat /\ L1 \in Nat
        BY <1>1, RowInNat
      <3>3. \/ master'[m] <= rows'[m]
            \/ master'[m] + L1 + OnWay(q1, m) + PutDown(q, m)
                   <= master[m] + L0 + OnWay(q, m) + PutDown(q1, m)
        BY <2>2
      <3>4. skipped = {}
        BY <2>2
      <3>5. master[m] <= Opening[m] - LiveUnits(m) - OnWay(q, m) + PutDown(q, m)
        BY <1>5, <3>4 DEF StockBooks
      <3>6. master'[m] \in Int /\ rows'[m] \in Int /\ gone'[m] \in Nat
        BY DEF SourceInv, TypeOK, Quantity
      <3>7. LeftUnits(m)' = LiveUnits(m)'
        BY <2>2 DEF LeftUnits, LiveUnits
      <3>8. Opening[m] - rows'[m] = LiveUnits(m)' + gone'[m] + OnWay(q1, m)
        BY <2>1, <3>7
      <3> HIDE DEF L0, L1
      <3>9. LiveUnits(m)' \in Int
        BY <3>1, <3>2, UnitsNat
      <3>10. CASE master'[m] <= rows'[m]
        BY <3>6, <3>8, <3>9, <3>10, UnitsNat, WayNat
      <3>11. CASE master'[m] + L1 + OnWay(q1, m) + PutDown(q, m)
                      <= master[m] + L0 + OnWay(q, m) + PutDown(q1, m)
        BY <3>1, <3>2, <3>5, <3>6, <3>11, UnitsNat, WayNat
      <3>12. QED
        BY <3>3, <3>10, <3>11
    <2>3. \A m \in Mats : OnWay(q1, m)' = OnWay(q1, m) /\ PutDown(q1, m)' = PutDown(q1, m)
      BY DEF OnWay, PutDown
    <2>4. QED
      BY <2>1, <2>2, <2>3 DEF StockBooks
  <1>6. QED
    BY <1>3, <1>4, <1>5 DEF Books

\* What a request that holds an issue found.
LEMMA Holder ==
    ASSUME SourceInv, NEW r \in Requests, NEW g \in Issues, req[r].id = g,
           HoldsIssue(req[r]), Books(req[r])
    PROVE  /\ gi[g] = req[r].seen.gi /\ gi[g] \in IssueRow
           /\ gi[g].status \in {"DRAFT", "CONFIRMED", "DELIVERED"}
           /\ req[r].call = "confirm" => gi[g].status = "DRAFT"
           /\ g \in skipped => gi[g].status = "DELIVERED"
           /\ req[r] \in SourceRequest
  BY DEF Books, IssueBooks, SourceInv, TypeOK

LEMMA BeginIssueIssues ==
    ASSUME SourceInv, IssueInv, NEW r \in Requests, NEW g \in Issues, NEW call,
           NEW step \in Steps, NEW qty \in Quantity, BeginWithIssue(r, call, step, g, qty),
           \/ call = "confirm" /\ step = "export" /\ gi[g].status = "DRAFT"
           \/ call \in {"delivered", "edit"} /\ step = "save"
           \/ call = "delete" /\ step = "return"
    PROVE  IssueInv'
  <1> DEFINE seen == [NothingSeen EXCEPT !.gi = gi[g], !.qty = qty]
  <1>1. /\ gi[g] \in IssueRow /\ g \in {NoId} \cup Mats \cup Issues \cup Orders
        /\ call \in IssueCalls
    BY DEF SourceInv, TypeOK, IssueCalls
  <1>2. seen \in SourceSeen
    BY <1>1, NothingTyped, SeenChanged
  <1>3. seen.gi = gi[g]
    BY NothingTyped DEF SourceSeen
  <1>4. Begin(r, call, step, g, seen) /\ Exists(g)
    BY DEF BeginWithIssue
  <1> HIDE DEF seen
  <1>5. \E q \in SourceRequest : /\ Put(r, q) /\ q.call = call /\ q.id = g
                                 /\ q.at = step /\ q.seen = seen
    BY <1>1, <1>2, <1>4, BeginAs
  <1>6. UNCHANGED IssueState
    BY <1>4 DEF Begin, IssueState, history
  <1>7. raced' = raced \cup UNION {Tables(call) \cap Tables(req[s].call) : s \in InFlight}
    BY <1>4 DEF Begin
  <1>8. PICK q1 \in SourceRequest : /\ Put(r, q1) /\ q1.call = call /\ q1.id = g
                                    /\ q1.at = step /\ q1.seen = seen
    BY <1>5
  <1>9. gi[g].status \in {"DRAFT", "CONFIRMED", "DELIVERED"}
    BY <1>1, <1>4 DEF Exists, IssueRow
  <1>10. ASSUME Books(Idle) PROVE Books(q1)
    <2>1. IssueBooks(q1)
      BY <1>3, <1>8, <1>9, <1>10 DEF Books, IssueBooks
    <2>2. NeedBooks(q1)
      BY <1>8, <1>10 DEF Books, NeedBooks
    <2>3. \A m \in Mats : /\ OnWay(q1, m) = 0 /\ PutDown(q1, m) = 0
                          /\ OnWay(Idle, m) = 0 /\ PutDown(Idle, m) = 0
      BY <1>8, IdleTyped DEF OnWay, PutDown
    <2>4. StockBooks(Idle) => StockBooks(q1)
      BY <2>3 DEF StockBooks
    <2>5. QED
      BY <1>10, <2>1, <2>2, <2>4 DEF Books
  <1>11. Books(Idle) => Books(q1)'
    BY <1>6, <1>10, BooksSame
  <1>12. QED
    BY <1>1, <1>7, <1>8, <1>11, IssueBegins

LEMMA ExportIssues ==
    ASSUME SourceInv, SourceInv', IssueInv, NEW r \in Requests, NEW g \in Issues,
           NEW qty \in Quantity, Export(r, g, qty)
    PROVE  IssueInv'
  <1> DEFINE seen == [Seen(r) EXCEPT !.gi.qty = qty]
  <1>0. /\ Seen(r) \in SourceSeen /\ Seen(r) = req[r].seen /\ req[r] \in SourceRequest
        /\ gi \in [Issues -> IssueRow] /\ rows \in [Mats -> Int]
    BY Ranges DEF SourceInv, TypeOK
  <1>1. seen \in SourceSeen /\ seen.gi = [req[r].seen.gi EXCEPT !.qty = qty]
    BY <1>0, SeenChanged DEF SourceSeen
  <1>2. Goto(r, "save", seen) /\ "save" \in Steps
    BY DEF Export, Steps
  <1> HIDE DEF seen
  <1>3. PICK q1 \in SourceRequest : /\ Put(r, q1) /\ q1.call = req[r].call /\ q1.id = req[r].id
                                    /\ q1.at = "save" /\ q1.seen = seen
    BY <1>1, <1>2, GotoTurn
  <1>4. /\ req[r].call = "confirm" /\ req[r].at = "export" /\ req[r].id = g /\ raced' = raced
        /\ \A m \in Mats : qty[m] \in 0..req[r].seen.gi.qty[m]
        /\ gi' = IF qty = req[r].seen.gi.qty THEN gi ELSE [gi EXCEPT ![g].qty = qty]
        /\ rows' = Minus(rows, qty)
        /\ master' = [m \in Mats |-> IF qty[m] > 0 THEN rows'[m] ELSE master[m]]
        /\ UNCHANGED <<asked, gone, skipped, failed>>
    BY <1>0 DEF Export, At, history
  <1>5. ASSUME Books(req[r]) PROVE Books(q1)'
    <2>1. HoldsIssue(req[r]) /\ req[r].call # "generate" /\ q1.call # "generate"
      BY <1>3, <1>4 DEF HoldsIssue
    <2>2. gi[g] = req[r].seen.gi /\ gi[g] \in IssueRow /\ gi[g].status = "DRAFT" /\ g \notin skipped
      BY <1>4, <1>5, <2>1, Holder
    <2>3. gi'[g] = [gi[g] EXCEPT !.qty = qty] /\ \A h \in Issues \ {g} : gi'[h] = gi[h]
      BY <1>0, <1>4, <2>2 DEF IssueRow
    <2>4. gi'[g].status = "DRAFT" /\ gi'[g].qty = qty /\ gi'[g] = q1.seen.gi
      BY <1>1, <1>3, <2>2, <2>3 DEF IssueRow
    <2>5. ASSUME NEW m \in Mats
          PROVE  /\ qty[m] \in Nat /\ gi[g].qty[m] \in Nat /\ qty[m] <= gi[g].qty[m]
                 /\ rows'[m] = rows[m] - qty[m]
                 /\ RowIn(gi[g], LiveStates, m) = 0 /\ RowIn(gi'[g], LiveStates, m) = 0
                 /\ RowIn(gi[g], {"DRAFT"}, m) = gi[g].qty[m]
                 /\ RowIn(gi'[g], {"DRAFT"}, m) = qty[m]
                 /\ LeftIn(gi[g], g \notin skipped, m) = 0
                 /\ LeftIn(gi'[g], g \notin skipped', m) = 0
                 /\ OnWay(req[r], m) = 0 /\ OnWay(q1, m) = qty[m]
                 /\ PutDown(req[r], m) = 0 /\ PutDown(q1, m) = 0
      <3>1. gi[g].qty[m] \in Nat /\ qty[m] \in 0..gi[g].qty[m] /\ rows'[m] = rows[m] - qty[m]
        BY <1>4, <2>2 DEF Minus, IssueRow, Quantity
      <3>2. q1.seen.gi.qty[m] = qty[m]
        BY <2>4
      <3>3. QED
        BY <1>3, <1>4, <2>2, <2>4, <3>1, <3>2 DEF RowIn, LeftIn, LiveStates, OnWay, PutDown
    <2>6. \A m \in Mats :
              RowIn(gi'[g], LiveStates, m) + RowIn(gi'[g], {"DRAFT"}, m) + asked[m]
                  <= RowIn(gi[g], LiveStates, m) + RowIn(gi[g], {"DRAFT"}, m) + asked'[m]
      <3> SUFFICES ASSUME NEW m \in Mats
                   PROVE  RowIn(gi'[g], LiveStates, m) + RowIn(gi'[g], {"DRAFT"}, m) + asked[m]
                  <= RowIn(gi[g], LiveStates, m) + RowIn(gi[g], {"DRAFT"}, m) + asked'[m]
        OBVIOUS
      <3>1. asked'[m] = asked[m] /\ asked[m] \in Nat
        BY <1>4, UnitsNat
      <3>2. QED
        BY <2>5, <3>1
    <2>7. \A m \in Mats :
              rows'[m] + LeftIn(gi'[g], g \notin skipped', m) + gone'[m] + OnWay(q1, m)
                  = rows[m] + LeftIn(gi[g], g \notin skipped, m) + gone[m] + OnWay(req[r], m)
      <3> SUFFICES ASSUME NEW m \in Mats
                   PROVE  rows'[m] + LeftIn(gi'[g], g \notin skipped', m) + gone'[m] + OnWay(q1, m)
                  = rows[m] + LeftIn(gi[g], g \notin skipped, m) + gone[m] + OnWay(req[r], m)
        OBVIOUS
      <3>1. gone'[m] = gone[m] /\ gone[m] \in Nat /\ rows[m] \in Int
        BY <1>4, UnitsNat
      <3>2. QED
        BY <2>5, <3>1
    <2>8. \A m \in Mats : skipped' = {} =>
              \/ master'[m] <= rows'[m]
              \/ master'[m] + RowIn(gi'[g], LiveStates, m) + OnWay(q1, m) + PutDown(req[r], m)
                  <= master[m] + RowIn(gi[g], LiveStates, m) + OnWay(req[r], m) + PutDown(q1, m)
      <3>1. ASSUME NEW m \in Mats, qty[m] > 0
            PROVE  master'[m] <= rows'[m]
        <4>1. master'[m] = rows'[m] /\ rows'[m] \in Int
          BY <1>4, <2>5, <3>1, UnitsNat
        <4>2. QED
          BY <4>1
      <3>2. ASSUME NEW m \in Mats, ~(qty[m] > 0)
            PROVE  master'[m] + RowIn(gi'[g], LiveStates, m) + OnWay(q1, m) + PutDown(req[r], m)
                  <= master[m] + RowIn(gi[g], LiveStates, m) + OnWay(req[r], m) + PutDown(q1, m)
        <4>1. qty[m] = 0 /\ master'[m] = master[m] /\ master[m] \in Int
          BY <1>4, <2>5, <3>2, UnitsNat
        <4>2. QED
          BY <2>5, <4>1
      <3>3. QED
        BY <3>1, <3>2
    <2>9. /\ HoldsIssue(q1) =>
                 /\ q1.id = g /\ gi'[g] = q1.seen.gi
                 /\ q1.seen.gi.status \in {"DRAFT", "CONFIRMED", "DELIVERED"}
                 /\ q1.call = "confirm" => q1.seen.gi.status = "DRAFT"
          /\ skipped \subseteq skipped' /\ skipped' \subseteq skipped \cup {g}
          /\ g \in skipped' => gi'[g].status \in {"DELIVERED", "deleted"}
          /\ failed' = failed
      BY <1>3, <1>4, <2>2, <2>4
    <2>10. QED
      BY <1>0, <1>5, <2>1, <2>3, <2>6, <2>7, <2>8, <2>9, RowBooks
  <1>6. QED
    BY <1>3, <1>4, <1>5, IssueOwn DEF IssueCalls


LEMMA SaveConfirmedIssues ==
    ASSUME SourceInv, SourceInv', IssueInv, NEW r \in Requests, NEW g \in Issues,
           SaveConfirmed(r, g)
    PROVE  IssueInv'
  <1>0. /\ Seen(r) \in SourceSeen /\ Seen(r) = req[r].seen /\ req[r] \in SourceRequest
        /\ gi \in [Issues -> IssueRow]
    BY Ranges DEF SourceInv, TypeOK
  <1>1. Goto(r, "pfo", Seen(r)) /\ "pfo" \in Steps
    BY DEF SaveConfirmed, Steps
  <1>2. PICK q1 \in SourceRequest : Put(r, q1) /\ q1.call = req[r].call /\ q1.at = "pfo"
    BY <1>0, <1>1, GotoTurn
  <1>3. /\ req[r].call = "confirm" /\ req[r].at = "save" /\ req[r].id = g /\ raced' = raced
        /\ gi' = [gi EXCEPT ![g] = [req[r].seen.gi EXCEPT !.status = "CONFIRMED"]]
        /\ UNCHANGED <<rows, master, asked, gone, skipped, failed>>
    BY <1>0 DEF SaveConfirmed, At, history
  <1>4. ASSUME Books(req[r]) PROVE Books(q1)'
    <2>1. /\ HoldsIssue(req[r]) /\ req[r].call # "generate" /\ q1.call # "generate"
          /\ ~HoldsIssue(q1)
      BY <1>2, <1>3 DEF HoldsIssue
    <2>2. gi[g] = req[r].seen.gi /\ gi[g] \in IssueRow /\ gi[g].status = "DRAFT" /\ g \notin skipped
      BY <1>3, <1>4, <2>1, Holder
    <2>3. /\ gi'[g].status = "CONFIRMED" /\ gi'[g].qty = gi[g].qty
          /\ \A h \in Issues \ {g} : gi'[h] = gi[h]
      BY <1>0, <1>3, <2>2 DEF IssueRow
    <2>4. ASSUME NEW m \in Mats
          PROVE  /\ gi[g].qty[m] \in Nat
                 /\ RowIn(gi[g], LiveStates, m) = 0
                 /\ RowIn(gi'[g], LiveStates, m) = gi[g].qty[m]
                 /\ RowIn(gi[g], {"DRAFT"}, m) = gi[g].qty[m]
                 /\ RowIn(gi'[g], {"DRAFT"}, m) = 0
                 /\ LeftIn(gi[g], g \notin skipped, m) = 0
                 /\ LeftIn(gi'[g], g \notin skipped', m) = gi[g].qty[m]
                 /\ OnWay(req[r], m) = gi[g].qty[m] /\ OnWay(q1, m) = 0
                 /\ PutDown(req[r], m) = 0 /\ PutDown(q1, m) = 0
      BY <1>2, <1>3, <2>2, <2>3, RowNat DEF RowIn, LeftIn, LiveStates, OnWay, PutDown
    <2>5. \A m \in Mats : /\ asked'[m] = asked[m] /\ gone'[m] = gone[m] /\ rows'[m] = rows[m]
                          /\ master'[m] = master[m]
                          /\ asked[m] \in Nat /\ gone[m] \in Nat /\ rows[m] \in Int
                          /\ master[m] \in Int
      BY <1>3, UnitsNat
    <2>6. \A m \in Mats :
              RowIn(gi'[g], LiveStates, m) + RowIn(gi'[g], {"DRAFT"}, m) + asked[m]
                  <= RowIn(gi[g], LiveStates, m) + RowIn(gi[g], {"DRAFT"}, m) + asked'[m]
      BY <2>4, <2>5
    <2>7. \A m \in Mats :
              rows'[m] + LeftIn(gi'[g], g \notin skipped', m) + gone'[m] + OnWay(q1, m)
                  = rows[m] + LeftIn(gi[g], g \notin skipped, m) + gone[m] + OnWay(req[r], m)
      BY <2>4, <2>5
    <2>8. \A m \in Mats :
              master'[m] + RowIn(gi'[g], LiveStates, m) + OnWay(q1, m) + PutDown(req[r], m)
                  <= master[m] + RowIn(gi[g], LiveStates, m) + OnWay(req[r], m) + PutDown(q1, m)
      BY <2>4, <2>5
    <2>9. /\ skipped \subseteq skipped' /\ skipped' \subseteq skipped \cup {g}
          /\ g \in skipped' => gi'[g].status \in {"DELIVERED", "deleted"}
          /\ failed' = failed
      BY <1>3, <2>2
    <2>10. QED
      BY <1>0, <1>4, <2>1, <2>3, <2>6, <2>7, <2>8, <2>9, RowBooks
  <1>5. QED
    BY <1>2, <1>3, <1>4, IssueOwn DEF IssueCalls

LEMMA SaveDeliveredIssues ==
    ASSUME SourceInv, SourceInv', IssueInv, NEW r \in Requests, NEW g \in Issues,
           SaveDelivered(r, g)
    PROVE  IssueInv'
  <1>0. /\ Seen(r) = req[r].seen /\ req[r] \in SourceRequest /\ Idle \in SourceRequest
        /\ Idle.call = "idle" /\ gi \in [Issues -> IssueRow]
    BY SeenTyped, IdleTyped DEF SourceInv, TypeOK
  <1>1. /\ req[r].call = "delivered" /\ req[r].id = g /\ raced' = raced /\ Done(r)
        /\ gi' = [gi EXCEPT ![g] = [req[r].seen.gi EXCEPT !.status = "DELIVERED"]]
        /\ skipped' = IF req[r].seen.gi.status = "DRAFT" THEN skipped \cup {g} ELSE skipped
        /\ UNCHANGED <<rows, master, asked, gone, failed>>
    BY <1>0 DEF SaveDelivered, At
  <1>2. ASSUME Books(req[r]) PROVE Books(Idle)'
    <2>1. /\ HoldsIssue(req[r]) /\ req[r].call # "generate" /\ Idle.call # "generate"
          /\ ~HoldsIssue(Idle)
      BY <1>0, <1>1 DEF HoldsIssue
    <2>2. /\ gi[g] = req[r].seen.gi /\ gi[g] \in IssueRow
          /\ gi[g].status \in {"DRAFT", "CONFIRMED", "DELIVERED"}
          /\ g \in skipped => gi[g].status = "DELIVERED"
      BY <1>1, <1>2, <2>1, Holder
    <2>3. /\ gi'[g].status = "DELIVERED" /\ gi'[g].qty = gi[g].qty
          /\ \A h \in Issues \ {g} : gi'[h] = gi[h]
      BY <1>0, <1>1, <2>2 DEF IssueRow
    <2>4. /\ gi[g].status = "DRAFT" => g \in skipped' /\ g \notin skipped
          /\ gi[g].status # "DRAFT" => skipped' = skipped
          /\ skipped \subseteq skipped' /\ skipped' \subseteq skipped \cup {g}
          /\ failed' = failed
      BY <1>1, <2>2
    <2>5. ASSUME NEW m \in Mats
          PROVE  /\ gi[g].qty[m] \in Nat
                 /\ RowIn(gi[g], LiveStates, m) + RowIn(gi[g], {"DRAFT"}, m) = gi[g].qty[m]
                 /\ RowIn(gi'[g], LiveStates, m) = gi[g].qty[m]
                 /\ RowIn(gi'[g], {"DRAFT"}, m) = 0
                 /\ skipped' = {} => RowIn(gi[g], LiveStates, m) = gi[g].qty[m]
                 /\ LeftIn(gi'[g], g \notin skipped', m) = LeftIn(gi[g], g \notin skipped, m)
                 /\ LeftIn(gi[g], g \notin skipped, m) \in Nat
                 /\ OnWay(req[r], m) = 0 /\ OnWay(Idle, m) = 0
                 /\ PutDown(req[r], m) = 0 /\ PutDown(Idle, m) = 0
      <3>1. gi[g].qty[m] \in Nat /\ LeftIn(gi[g], g \notin skipped, m) \in Nat
        BY <2>2, RowNat, RowInNat
      <3>2. /\ OnWay(req[r], m) = 0 /\ OnWay(Idle, m) = 0
            /\ PutDown(req[r], m) = 0 /\ PutDown(Idle, m) = 0
        BY <1>0, <1>1 DEF OnWay, PutDown
      <3>3. /\ RowIn(gi[g], LiveStates, m) + RowIn(gi[g], {"DRAFT"}, m) = gi[g].qty[m]
            /\ RowIn(gi'[g], LiveStates, m) = gi[g].qty[m]
            /\ RowIn(gi'[g], {"DRAFT"}, m) = 0
            /\ skipped' = {} => RowIn(gi[g], LiveStates, m) = gi[g].qty[m]
        BY <2>2, <2>3, <2>4, <3>1 DEF RowIn, LiveStates
      <3>4. LeftIn(gi'[g], g \notin skipped', m) = LeftIn(gi[g], g \notin skipped, m)
        <4>1. CASE gi[g].status = "DRAFT"
          BY <2>4, <4>1 DEF LeftIn, LiveStates
        <4>2. CASE gi[g].status # "DRAFT"
          BY <2>2, <2>3, <2>4, <4>2 DEF LeftIn, LiveStates
        <4>3. QED
          BY <4>1, <4>2
      <3>5. QED
        BY <3>1, <3>2, <3>3, <3>4
    <2>6. \A m \in Mats : /\ asked'[m] = asked[m] /\ gone'[m] = gone[m] /\ rows'[m] = rows[m]
                          /\ master'[m] = master[m]
                          /\ asked[m] \in Nat /\ gone[m] \in Nat /\ rows[m] \in Int
                          /\ master[m] \in Int
      BY <1>1, UnitsNat
    <2>7. \A m \in Mats :
              RowIn(gi'[g], LiveStates, m) + RowIn(gi'[g], {"DRAFT"}, m) + asked[m]
                  <= RowIn(gi[g], LiveStates, m) + RowIn(gi[g], {"DRAFT"}, m) + asked'[m]
      BY <2>5, <2>6
    <2>8. \A m \in Mats :
              rows'[m] + LeftIn(gi'[g], g \notin skipped', m) + gone'[m] + OnWay(Idle, m)
                  = rows[m] + LeftIn(gi[g], g \notin skipped, m) + gone[m] + OnWay(req[r], m)
      BY <2>5, <2>6
    <2>9. \A m \in Mats : skipped' = {} =>
              master'[m] + RowIn(gi'[g], LiveStates, m) + OnWay(Idle, m) + PutDown(req[r], m)
                  <= master[m] + RowIn(gi[g], LiveStates, m) + OnWay(req[r], m) + PutDown(Idle, m)
      BY <2>5, <2>6
    <2>10. g \in skipped' => gi'[g].status \in {"DELIVERED", "deleted"}
      BY <2>3
    <2>11. QED
      BY <1>0, <1>2, <2>1, <2>3, <2>4, <2>7, <2>8, <2>9, <2>10, RowBooks
  <1>3. QED
    BY <1>1, <1>2, IssueEnds DEF IssueCalls

LEMMA SaveEditedIssues ==
    ASSUME SourceInv, SourceInv', IssueInv, NEW r \in Requests, NEW g \in Issues,
           SaveEdited(r, g)
    PROVE  IssueInv'
  <1> DEFINE new == IF Editable(Seen(r).gi) THEN Seen(r).qty ELSE Seen(r).gi.qty
             more == [m \in Mats |-> FromZero(new[m] - Seen(r).gi.qty[m])]
  <1>0. /\ Seen(r) = req[r].seen /\ req[r] \in SourceRequest /\ Idle \in SourceRequest
        /\ Idle.call = "idle" /\ gi \in [Issues -> IssueRow]
        /\ Seen(r).qty \in Quantity /\ Seen(r).gi.qty \in Quantity
    BY Ranges, SeenTyped, IdleTyped DEF SourceInv, TypeOK
  <1>1. /\ req[r].call = "edit" /\ req[r].id = g /\ raced' = raced /\ Done(r)
        /\ gi' = [gi EXCEPT ![g] = [req[r].seen.gi EXCEPT !.qty = new]]
        /\ asked' = Plus(asked, more)
        /\ UNCHANGED <<rows, master, gone, skipped, failed>>
    BY <1>0 DEF SaveEdited, At
  <1>2. new \in Quantity /\ (req[r].seen.gi.status # "DRAFT" => new = req[r].seen.gi.qty)
    BY <1>0 DEF Editable
  <1>3. \A m \in Mats : asked'[m] = asked[m] + FromZero(new[m] - req[r].seen.gi.qty[m])
    BY <1>0, <1>1 DEF Plus
  <1> HIDE DEF new, more
  <1>4. ASSUME Books(req[r]) PROVE Books(Idle)'
    <2>1. /\ HoldsIssue(req[r]) /\ req[r].call # "generate" /\ Idle.call # "generate"
          /\ ~HoldsIssue(Idle)
      BY <1>0, <1>1 DEF HoldsIssue
    <2>2. /\ gi[g] = req[r].seen.gi /\ gi[g] \in IssueRow
          /\ gi[g].status \in {"DRAFT", "CONFIRMED", "DELIVERED"}
          /\ g \in skipped => gi[g].status = "DELIVERED"
      BY <1>1, <1>4, <2>1, Holder
    <2>3. /\ gi'[g].status = gi[g].status /\ gi'[g].qty = new
          /\ \A h \in Issues \ {g} : gi'[h] = gi[h]
      BY <1>0, <1>1, <2>2 DEF IssueRow
    <2>4. ASSUME NEW m \in Mats
          PROVE  /\ gi[g].qty[m] \in Nat /\ new[m] \in Nat
                 /\ gi[g].status # "DRAFT" => new[m] = gi[g].qty[m]
                 /\ asked'[m] = asked[m] + FromZero(new[m] - gi[g].qty[m])
                 /\ OnWay(req[r], m) = 0 /\ OnWay(Idle, m) = 0
                 /\ PutDown(req[r], m) = 0 /\ PutDown(Idle, m) = 0
      BY <1>0, <1>1, <1>2, <1>3, <2>2, RowNat DEF OnWay, PutDown, Quantity
    <2>5. ASSUME NEW m \in Mats
          PROVE  /\ RowIn(gi[g], LiveStates, m) + RowIn(gi[g], {"DRAFT"}, m) = gi[g].qty[m]
                 /\ RowIn(gi'[g], LiveStates, m) + RowIn(gi'[g], {"DRAFT"}, m) = new[m]
                 /\ RowIn(gi'[g], LiveStates, m) = RowIn(gi[g], LiveStates, m)
                 /\ RowIn(gi[g], LiveStates, m) \in Nat
                 /\ LeftIn(gi'[g], g \notin skipped', m) = LeftIn(gi[g], g \notin skipped, m)
                 /\ LeftIn(gi[g], g \notin skipped, m) \in Nat
      <3>1. /\ RowIn(gi[g], LiveStates, m) \in Nat
            /\ LeftIn(gi[g], g \notin skipped, m) \in Nat /\ skipped' = skipped
        BY <1>1, <2>2, RowInNat
      <3>2. CASE gi[g].status = "DRAFT"
        BY <2>2, <2>3, <2>4, <3>1, <3>2 DEF RowIn, LeftIn, LiveStates
      <3>3. CASE gi[g].status # "DRAFT"
        BY <2>2, <2>3, <2>4, <3>1, <3>3 DEF RowIn, LeftIn, LiveStates
      <3>4. QED
        BY <3>2, <3>3
    <2>6. \A m \in Mats : /\ gone'[m] = gone[m] /\ rows'[m] = rows[m] /\ master'[m] = master[m]
                          /\ asked[m] \in Nat /\ gone[m] \in Nat /\ rows[m] \in Int
                          /\ master[m] \in Int
      BY <1>1, UnitsNat
    <2>7. ASSUME NEW m \in Mats
          PROVE  RowIn(gi'[g], LiveStates, m) + RowIn(gi'[g], {"DRAFT"}, m) + asked[m]
                  <= RowIn(gi[g], LiveStates, m) + RowIn(gi[g], {"DRAFT"}, m) + asked'[m]
      <3>1. new[m] + asked[m] <= gi[g].qty[m] + asked'[m]
        BY <2>4, <2>6 DEF FromZero
      <3>2. QED
        BY <2>5, <3>1
    <2>8. \A m \in Mats :
              rows'[m] + LeftIn(gi'[g], g \notin skipped', m) + gone'[m] + OnWay(Idle, m)
                  = rows[m] + LeftIn(gi[g], g \notin skipped, m) + gone[m] + OnWay(req[r], m)
      BY <2>4, <2>5, <2>6
    <2>9. \A m \in Mats :
              master'[m] + RowIn(gi'[g], LiveStates, m) + OnWay(Idle, m) + PutDown(req[r], m)
                  <= master[m] + RowIn(gi[g], LiveStates, m) + OnWay(req[r], m) + PutDown(Idle, m)
      BY <2>4, <2>5, <2>6
    <2>10. /\ skipped \subseteq skipped' /\ skipped' \subseteq skipped \cup {g}
           /\ g \in skipped' => gi'[g].status \in {"DELIVERED", "deleted"}
           /\ failed' = failed
      BY <1>1, <2>2, <2>3
    <2>11. QED
      BY <1>0, <1>4, <2>1, <2>3, <2>7, <2>8, <2>9, <2>10, RowBooks
  <1>5. QED
    BY <1>1, <1>4, IssueEnds DEF IssueCalls

LEMMA ReturnGoodsIssues ==
    ASSUME SourceInv, SourceInv', IssueInv, NEW r \in Requests, NEW g \in Issues,
           ReturnGoods(r, g)
    PROVE  IssueInv'
  <1>0. /\ Seen(r) \in SourceSeen /\ Seen(r) = req[r].seen /\ req[r] \in SourceRequest
        /\ gi \in [Issues -> IssueRow]
    BY Ranges DEF SourceInv, TypeOK
  <1>1. Goto(r, "drop", Seen(r)) /\ "drop" \in Steps
    BY DEF ReturnGoods, Steps
  <1>2. PICK q1 \in SourceRequest : /\ Put(r, q1) /\ q1.call = req[r].call /\ q1.at = "drop"
                                    /\ q1.id = req[r].id /\ q1.seen = req[r].seen
    BY <1>0, <1>1, GotoTurn
  <1>3. /\ req[r].call = "delete" /\ req[r].at = "return" /\ req[r].id = g /\ raced' = raced
        /\ master' = IF PutBack(req[r].seen.gi) THEN Plus(master, req[r].seen.gi.qty) ELSE master
        /\ UNCHANGED <<gi, rows, asked, gone, skipped, failed>>
    BY <1>0 DEF ReturnGoods, At, history
  <1>4. ASSUME Books(req[r]) PROVE Books(q1)'
    <2>1. HoldsIssue(req[r]) /\ req[r].call # "generate" /\ q1.call # "generate"
      BY <1>2, <1>3 DEF HoldsIssue
    <2>2. /\ gi[g] = req[r].seen.gi /\ gi[g] \in IssueRow
          /\ gi[g].status \in {"DRAFT", "CONFIRMED", "DELIVERED"}
          /\ g \in skipped => gi[g].status = "DELIVERED"
      BY <1>3, <1>4, <2>1, Holder
    <2>3. gi'[g] = gi[g] /\ \A h \in Issues \ {g} : gi'[h] = gi[h]
      BY <1>3
    <2>4. ASSUME NEW m \in Mats
          PROVE  /\ OnWay(req[r], m) = 0 /\ OnWay(q1, m) = 0
                 /\ PutDown(req[r], m) = 0 /\ PutDown(q1, m) \in Nat
                 /\ master'[m] = master[m] + PutDown(q1, m)
                 /\ LeftIn(gi'[g], g \notin skipped', m) = LeftIn(gi[g], g \notin skipped, m)
                 /\ LeftIn(gi[g], g \notin skipped, m) \in Nat
                 /\ RowIn(gi[g], LiveStates, m) \in Nat /\ RowIn(gi[g], {"DRAFT"}, m) \in Nat
      <3>1. master[m] \in Int /\ master \in [Mats -> Int]
        BY DEF SourceInv, TypeOK
      <3>2. /\ OnWay(req[r], m) = 0 /\ OnWay(q1, m) = 0 /\ PutDown(req[r], m) = 0
        BY <1>2, <1>3 DEF OnWay, PutDown
      <3>3. PutDown(q1, m) = IF PutBack(gi[g]) THEN gi[g].qty[m] ELSE 0
        BY <1>2, <1>3, <2>2 DEF PutDown
      <3>4. master'[m] = master[m] + PutDown(q1, m)
        BY <1>3, <2>2, <3>1, <3>3 DEF Plus
      <3>5. skipped' = skipped
        BY <1>3
      <3>6. /\ LeftIn(gi[g], g \notin skipped, m) \in Nat
            /\ RowIn(gi[g], LiveStates, m) \in Nat /\ RowIn(gi[g], {"DRAFT"}, m) \in Nat
        BY <2>2, RowInNat
      <3>7. QED
        BY <2>3, <3>2, <3>4, <3>5, <3>6, WayNat
    <2>5. \A m \in Mats : /\ asked'[m] = asked[m] /\ gone'[m] = gone[m] /\ rows'[m] = rows[m]
                          /\ asked[m] \in Nat /\ gone[m] \in Nat /\ rows[m] \in Int
                          /\ master[m] \in Int
      BY <1>3, UnitsNat
    <2>6. \A m \in Mats :
              RowIn(gi'[g], LiveStates, m) + RowIn(gi'[g], {"DRAFT"}, m) + asked[m]
                  <= RowIn(gi[g], LiveStates, m) + RowIn(gi[g], {"DRAFT"}, m) + asked'[m]
      BY <2>3, <2>4, <2>5
    <2>7. \A m \in Mats :
              rows'[m] + LeftIn(gi'[g], g \notin skipped', m) + gone'[m] + OnWay(q1, m)
                  = rows[m] + LeftIn(gi[g], g \notin skipped, m) + gone[m] + OnWay(req[r], m)
      BY <2>4, <2>5
    <2>8. \A m \in Mats :
              master'[m] + RowIn(gi'[g], LiveStates, m) + OnWay(q1, m) + PutDown(req[r], m)
                  <= master[m] + RowIn(gi[g], LiveStates, m) + OnWay(req[r], m) + PutDown(q1, m)
      BY <2>3, <2>4, <2>5
    <2>9. /\ HoldsIssue(q1) =>
                 /\ q1.id = g /\ gi'[g] = q1.seen.gi
                 /\ q1.seen.gi.status \in {"DRAFT", "CONFIRMED", "DELIVERED"}
                 /\ q1.call = "confirm" => q1.seen.gi.status = "DRAFT"
          /\ skipped \subseteq skipped' /\ skipped' \subseteq skipped \cup {g}
          /\ g \in skipped' => gi'[g].status \in {"DELIVERED", "deleted"}
          /\ failed' = failed
      BY <1>2, <1>3, <2>2, <2>3
    <2>10. QED
      BY <1>0, <1>4, <2>1, <2>3, <2>6, <2>7, <2>8, <2>9, RowBooks
  <1>5. QED
    BY <1>2, <1>3, <1>4, IssueOwn DEF IssueCalls

LEMMA DropIssueIssues ==
    ASSUME SourceInv, SourceInv', IssueInv, NEW r \in Requests, NEW g \in Issues,
           DropIssue(r, g)
    PROVE  IssueInv'
  <1>0. /\ Seen(r) = req[r].seen /\ req[r] \in SourceRequest /\ Idle \in SourceRequest
        /\ Idle.call = "idle" /\ gi \in [Issues -> IssueRow]
    BY SeenTyped, IdleTyped DEF SourceInv, TypeOK
  <1>1. /\ req[r].call = "delete" /\ req[r].at = "drop" /\ req[r].id = g /\ raced' = raced
        /\ Done(r) /\ gi' = [gi EXCEPT ![g] = DeletedIssue]
        /\ gone' = IF req[r].seen.gi.status \in {"CONFIRMED", "DELIVERED"} /\ g \notin skipped
                   THEN Plus(gone, req[r].seen.gi.qty) ELSE gone
        /\ UNCHANGED <<rows, master, asked, skipped, failed>>
    BY <1>0 DEF DropIssue, At
  <1>2. ASSUME Books(req[r]) PROVE Books(Idle)'
    <2>1. /\ HoldsIssue(req[r]) /\ req[r].call # "generate" /\ Idle.call # "generate"
          /\ ~HoldsIssue(Idle)
      BY <1>0, <1>1 DEF HoldsIssue
    <2>2. /\ gi[g] = req[r].seen.gi /\ gi[g] \in IssueRow
          /\ gi[g].status \in {"DRAFT", "CONFIRMED", "DELIVERED"}
          /\ g \in skipped => gi[g].status = "DELIVERED"
      BY <1>1, <1>2, <2>1, Holder
    <2>3. gi'[g].status = "deleted" /\ \A h \in Issues \ {g} : gi'[h] = gi[h]
      BY <1>0, <1>1, RowsAsNew
    <2>4. ASSUME NEW m \in Mats
          PROVE  /\ gi[g].qty[m] \in Nat
                 /\ RowIn(gi'[g], LiveStates, m) = 0 /\ RowIn(gi'[g], {"DRAFT"}, m) = 0
                 /\ RowIn(gi[g], LiveStates, m) \in Nat /\ RowIn(gi[g], {"DRAFT"}, m) \in Nat
                 /\ LeftIn(gi'[g], g \notin skipped', m) = 0
                 /\ LeftIn(gi[g], g \notin skipped, m) \in Nat
                 /\ gone'[m] = gone[m] + LeftIn(gi[g], g \notin skipped, m)
                 /\ OnWay(req[r], m) = 0 /\ OnWay(Idle, m) = 0 /\ PutDown(Idle, m) = 0
                 /\ PutDown(req[r], m) = RowIn(gi[g], LiveStates, m)
      <3>1. /\ RowIn(gi[g], LiveStates, m) \in Nat /\ RowIn(gi[g], {"DRAFT"}, m) \in Nat
            /\ LeftIn(gi[g], g \notin skipped, m) \in Nat /\ gi[g].qty[m] \in Nat
        BY <2>2, RowNat, RowInNat
      <3>2. /\ RowIn(gi'[g], LiveStates, m) = 0 /\ RowIn(gi'[g], {"DRAFT"}, m) = 0
            /\ LeftIn(gi'[g], g \notin skipped', m) = 0
        BY <2>3 DEF RowIn, LeftIn, LiveStates
      <3>3. /\ OnWay(req[r], m) = 0 /\ OnWay(Idle, m) = 0 /\ PutDown(Idle, m) = 0
            /\ PutDown(req[r], m) = RowIn(gi[g], LiveStates, m)
        BY <1>0, <1>1, <2>2 DEF OnWay, PutDown, PutBack, RowIn, LiveStates
      <3>4. gone[m] \in Nat /\ gone \in Quantity
        BY DEF SourceInv, TypeOK, Quantity
      <3>5. gone'[m] = gone[m] + LeftIn(gi[g], g \notin skipped, m)
        <4>1. CASE gi[g].status \in LiveStates /\ g \notin skipped
          BY <1>1, <2>2, <4>1 DEF LeftIn, LiveStates, Plus
        <4>2. CASE ~(gi[g].status \in LiveStates /\ g \notin skipped)
          BY <1>1, <2>2, <3>4, <4>2 DEF LeftIn, LiveStates
        <4>3. QED
          BY <4>1, <4>2
      <3>6. QED
        BY <3>1, <3>2, <3>3, <3>5
    <2>5. \A m \in Mats : /\ asked'[m] = asked[m] /\ rows'[m] = rows[m] /\ master'[m] = master[m]
                          /\ asked[m] \in Nat /\ gone[m] \in Nat /\ rows[m] \in Int
                          /\ master[m] \in Int
      BY <1>1, UnitsNat
    <2>6. \A m \in Mats :
              RowIn(gi'[g], LiveStates, m) + RowIn(gi'[g], {"DRAFT"}, m) + asked[m]
                  <= RowIn(gi[g], LiveStates, m) + RowIn(gi[g], {"DRAFT"}, m) + asked'[m]
      BY <2>4, <2>5
    <2>7. \A m \in Mats :
              rows'[m] + LeftIn(gi'[g], g \notin skipped', m) + gone'[m] + OnWay(Idle, m)
                  = rows[m] + LeftIn(gi[g], g \notin skipped, m) + gone[m] + OnWay(req[r], m)
      BY <2>4, <2>5
    <2>8. \A m \in Mats :
              master'[m] + RowIn(gi'[g], LiveStates, m) + OnWay(Idle, m) + PutDown(req[r], m)
                  <= master[m] + RowIn(gi[g], LiveStates, m) + OnWay(req[r], m) + PutDown(Idle, m)
      BY <2>4, <2>5
    <2>9. /\ skipped \subseteq skipped' /\ skipped' \subseteq skipped \cup {g}
          /\ g \in skipped' => gi'[g].status \in {"DELIVERED", "deleted"}
          /\ failed' = failed
      BY <1>1, <2>3
    <2>10. QED
      BY <1>0, <1>2, <2>1, <2>3, <2>6, <2>7, <2>8, <2>9, RowBooks
  <1>3. QED
    BY <1>1, <1>2, IssueEnds DEF IssueCalls


--------------------------------------------------------------------------------
\* A request ends that has written all it meant to.
LEMMA IssueDone ==
    ASSUME SourceInv, IssueInv, NEW r \in Requests, Done(r), UNCHANGED IssueState,
           raced' = raced, req[r].call \in IssueCalls => req[r].at \notin {"save", "drop"}
    PROVE  IssueInv'
  <1>1. Put(r, Idle) /\ Idle.call \notin IssueCalls
    BY DoneTurn, IdleTyped, IssueTables
  <1>2. CASE req[r].call \notin IssueCalls
    BY <1>1, <1>2, BooksSame, IssueElsewhere
  <1>3. CASE req[r].call \in IssueCalls
    <2>1. Books(req[r]) => Books(Idle)
      BY <1>3, QuietIdle, BooksQuiet
    <2>2. Books(req[r]) => Books(Idle)'
      BY <2>1, BooksSame
    <2>3. QED
      BY <1>3, <2>2, IssueEnds
  <1>4. QED
    BY <1>2, <1>3

LEMMA IssueIssues ==
    ASSUME SourceInv, SourceInv', IssueInv, NEW r \in Requests, NEW g \in Issues, OnIssue(r, g)
    PROVE  IssueInv'
  <1>0. /\ Zero \in Quantity /\ Quantities \subseteq Quantity
        /\ \A step \in {"export", "save", "return"} : step \in Steps
    BY ZeroTyped, EnteredTyped DEF Steps
  <1>1. ASSUME BeginConfirm(r, g) PROVE IssueInv'
    <2>1. gi[g].status = "DRAFT" /\ BeginWithIssue(r, "confirm", "export", g, Zero)
      BY <1>1 DEF BeginConfirm
    <2>2. QED
      BY <1>0, <2>1, BeginIssueIssues
  <1>2. ASSUME BeginWithIssue(r, "delivered", "save", g, Zero) PROVE IssueInv'
    BY <1>0, <1>2, BeginIssueIssues
  <1>3. ASSUME BeginWithIssue(r, "delete", "return", g, Zero) PROVE IssueInv'
    BY <1>0, <1>3, BeginIssueIssues
  <1>4. ASSUME NEW qty \in Quantities, BeginWithIssue(r, "edit", "save", g, qty) PROVE IssueInv'
    BY <1>0, <1>4, BeginIssueIssues
  <1>5. ASSUME NEW qty \in Quantities, Export(r, g, qty) PROVE IssueInv'
    BY <1>0, <1>5, ExportIssues
  <1>6. QED
    BY <1>1, <1>2, <1>3, <1>4, <1>5, SaveConfirmedIssues, SaveDeliveredIssues, SaveEditedIssues,
       ReturnGoodsIssues, DropIssueIssues
    DEF OnIssue

LEMMA PfoIssues ==
    ASSUME SourceInv, IssueInv, NEW r \in Requests,
           HandOut(r) \/ StartProduction(r) \/ MovePfo(r) \/ CheckPfo(r)
    PROVE  IssueInv'
  <1> USE DEF history
  <1>0. /\ Seen(r) \in SourceSeen /\ PfoWithNeeds \in SourceSeen /\ PfoAsRead \in SourceSeen
        /\ NoId \in {NoId} \cup Mats \cup Issues \cup Orders
        /\ Mats \subseteq {NoId} \cup Mats \cup Issues \cup Orders
        /\ pfo.status \in PfoStatus /\ pfo.vendor \in BOOLEAN
    BY Ranges DEF SourceInv, TypeOK
  <1>1. \A call \in {"handOut", "vendor", "qc", "board", "supplier"} : call \notin IssueCalls
    BY DEF IssueCalls
  <1>2. \A step \in {"save", "promote", "set"} : step \in Steps
    BY DEF Steps
  <1>3. ASSUME NEW m \in Mats, NEW n \in 1..Planned[m], BeginHandOut(r, m, n)
        PROVE  IssueInv'
    <2> DEFINE qty == [Zero EXCEPT ![m] = n]
    <2>1. qty \in Quantity
      BY ZeroTyped, SourcingConstants DEF Quantity
    <2>2. [PfoWithNeeds EXCEPT !.qty = qty] \in SourceSeen
      BY <1>0, <2>1, SeenChanged
    <2>3. Begin(r, "handOut", "save", m, [PfoWithNeeds EXCEPT !.qty = qty])
      BY <1>3 DEF BeginHandOut
    <2> HIDE DEF qty
    <2>4. QED
      BY <1>0, <1>1, <1>2, <2>2, <2>3, IssueStarts
  <1>4. ASSUME NEW m \in Mats, SaveHandOut(r, m)
        PROVE  IssueInv'
    <2>1. /\ Goto(r, "promote", Seen(r)) /\ UNCHANGED IssueState /\ raced' = raced
          /\ req[r].call \notin IssueCalls
      BY <1>1, <1>4 DEF SaveHandOut, At, IssueState
    <2>2. QED
      BY <1>0, <1>2, <2>1, IssueGoes
  <1>5. ASSUME PromotePfo(r) \/ StartProduction(r) \/ SetPfo(r)
        PROVE  IssueInv'
    <2>1. /\ Done(r) /\ UNCHANGED IssueState /\ raced' = raced
          /\ req[r].at \notin {"save", "drop"}
      BY <1>5 DEF PromotePfo, StartProduction, SetPfo, At, IssueState
    <2>2. QED
      BY <2>1, IssueDone
  <1>6. ASSUME NEW call \in {"vendor", "qc", "board"}, NEW status \in PfoStatus,
               NEW vendor \in BOOLEAN, BeginMove(r, call, status, vendor)
        PROVE  IssueInv'
    <2>1. /\ \E seen \in SourceSeen : Begin(r, call, "set", NoId, seen)
          /\ call \notin IssueCalls
      BY <1>0, <1>1, <1>6, SeenChanged DEF BeginMove
    <2>2. QED
      BY <1>0, <1>2, <2>1, IssueStarts
  <1>7. ASSUME \/ AssignVendor(r) \/ SubmitQcRecord(r)
               \/ \E status \in BoardMoves : UpdatePfoStatus(r, status)
        PROVE  IssueInv'
    <2>1. "WAITING_VENDOR" \in PfoStatus /\ "RECEIVING" \in PfoStatus /\ TRUE \in BOOLEAN
      BY DEF PfoStatus, Early
    <2>2. BoardMoves \subseteq PfoStatus
      BY SourcingConstants
    <2>3. QED
      BY <1>0, <1>6, <1>7, <2>1, <2>2 DEF AssignVendor, SubmitQcRecord, UpdatePfoStatus
  <1>8. ASSUME CheckPfo(r)
        PROVE  IssueInv'
    <2>1. /\ UNCHANGED IssueState /\ raced' = raced
          /\ req[r].call \notin IssueCalls
      BY <1>1, <1>8 DEF CheckPfo, At, IssueState
    <2>2. CASE Done(r)
      BY <2>1, <2>2, IssueDone
    <2>3. ASSUME ~Done(r)
          PROVE  IssueInv'
      <3> DEFINE seen == [PfoAsRead EXCEPT !.status = CalledFor(pfo.status)]
      <3>1. CalledFor(pfo.status) \in PfoStatus
        BY <1>0 DEF CalledFor, PfoStatus
      <3>2. seen \in SourceSeen /\ Goto(r, "set", seen)
        BY <1>0, <1>8, <2>3, <3>1, SeenChanged DEF CheckPfo
      <3> HIDE DEF seen
      <3>3. QED
        BY <1>2, <2>1, <3>2, IssueGoes
    <2>4. QED
      BY <2>2, <2>3
  <1>9. QED
    BY <1>3, <1>4, <1>5, <1>7, <1>8 DEF HandOut, MovePfo

LEMMA SupplierIssues ==
    ASSUME SourceInv, IssueInv, NEW r \in Requests, NEW p \in Orders, OnOrder(r, p)
    PROVE  IssueInv'
  <1>0. /\ Seen(r) \in SourceSeen /\ NothingSeen \in SourceSeen /\ po[p] \in OrderRow
        /\ p \in {NoId} \cup Mats \cup Issues \cup Orders
        /\ "supplier" \notin IssueCalls
        /\ \A step \in {"save", "check"} : step \in Steps
    BY Ranges DEF SourceInv, TypeOK, IssueCalls, Steps
  <1>1. ASSUME NEW answer \in Answers(po[p].status), BeginSupplier(r, p, answer)
        PROVE  IssueInv'
    <2> DEFINE row == [po[p] EXCEPT !.status = answer]
    <2>1. answer \in {"DELIVERED", "CANCELLED", "CONFIRMED", "ORDERED", po[p].status}
      BY <1>1 DEF Answers
    <2>2. row \in OrderRow
      BY <1>0, <2>1 DEF OrderRow
    <2>3. [NothingSeen EXCEPT !.po = row] \in SourceSeen
      BY <1>0, <2>2, SeenChanged
    <2>4. Begin(r, "supplier", "save", p, [NothingSeen EXCEPT !.po = row])
      BY <1>1 DEF BeginSupplier
    <2> HIDE DEF row
    <2>5. QED
      BY <1>0, <2>3, <2>4, IssueStarts
  <1>2. ASSUME SaveOrder(r, p) PROVE IssueInv'
    <2>1. /\ Goto(r, "check", Seen(r)) /\ UNCHANGED IssueState /\ raced' = raced
          /\ req[r].call \notin IssueCalls
      BY <1>0, <1>2 DEF SaveOrder, At, IssueState, history
    <2>2. QED
      BY <1>0, <2>1, IssueGoes
  <1>3. QED
    BY <1>1, <1>2 DEF OnOrder


LEMMA FailIssues ==
    ASSUME SourceInv, IssueInv, NEW r \in Requests, Fail(r)
    PROVE  IssueInv'
  <1>1. /\ Put(r, Idle) /\ Done(r) /\ raced' = raced /\ Idle.call \notin IssueCalls
        /\ UNCHANGED <<gi, rows, master, asked, gone, skipped>>
        /\ failed' = failed \cup Tables(req[r].call)
    BY DoneTurn, IdleTyped, IssueTables DEF Fail
  <1>2. ASSUME NEW q, IssueBooks(q) PROVE IssueBooks(q)'
    BY <1>1, <1>2 DEF IssueBooks, DraftIssues
  <1>3. ASSUME NEW q, NeedBooks(q) PROVE NeedBooks(q)'
    BY <1>1, <1>3 DEF NeedBooks, LiveUnits, DraftUnits, OtherDraftUnits
  <1>4. ASSUME NEW q, StockBooks(q) PROVE StockBooks(q)'
    BY <1>1, <1>4 DEF StockBooks, LiveUnits, LeftUnits
  <1>5. CASE req[r].call \notin IssueCalls
    <2>1. \A q : Books(q) => Books(q)'
      BY <1>1, <1>2, <1>3, <1>4 DEF Books
    <2>2. QED
      BY <1>1, <1>5, <2>1, IssueElsewhere
  <1>6. CASE req[r].call \in IssueCalls
    <2>1. "issues" \in failed'
      BY <1>1, <1>6, IssueTables
    <2>2. ASSUME Books(req[r]) PROVE IssueBooks(Idle) /\ NeedBooks(Idle)
      BY <2>2, IdleTyped, QuietIdle DEF Books, IssueBooks, NeedBooks, Quiet
    <2>3. Books(req[r]) => Books(Idle)'
      BY <1>2, <1>3, <2>1, <2>2 DEF Books
    <2>4. QED
      BY <1>1, <1>6, <2>3, IssueEnds
  <1>7. QED
    BY <1>5, <1>6

\* An issue is written by hand, whatever is in flight.
LEMMA CreateIssues ==
    ASSUME SourceInv, SourceInv', IssueInv, NEW g \in Issues, NEW qty \in Quantities,
           CreateGoodsIssue(g, qty)
    PROVE  IssueInv'
  <1>0. /\ qty \in Quantity /\ gi \in [Issues -> IssueRow] /\ asked \in Quantity
    BY EnteredTyped DEF SourceInv, TypeOK
  <1>1. /\ gi[g].status = "unused" /\ asked' = Plus(asked, qty)
        /\ gi' = [gi EXCEPT ![g] = [status |-> "DRAFT", qty |-> qty]]
        /\ UNCHANGED <<req, raced, rows, master, gone, skipped, failed>>
    BY NextUnused DEF CreateGoodsIssue
  <1>2. /\ gi'[g].status = "DRAFT" /\ gi'[g].qty = qty
        /\ \A h \in Issues \ {g} : gi'[h] = gi[h]
    BY <1>0, <1>1
  <1>3. ASSUME NEW q \in SourceRequest, Books(q) PROVE Books(q)'
    <2>1. /\ HoldsIssue(q) => q.id # g
          /\ q.call = "generate" /\ q.at = "clear" => g \notin q.seen.ids
          /\ q.call = "generate" /\ q.at = "net" => q.seen.ids = {}
          /\ g \notin skipped
      BY <1>1, <1>3 DEF Books, IssueBooks, DraftIssues
    <2>2. IssueBooks(q)'
      <3>1. /\ HoldsIssue(q) => /\ q.id \in Issues /\ gi'[q.id] = q.seen.gi
                                /\ q.seen.gi.status \in {"DRAFT", "CONFIRMED", "DELIVERED"}
            /\ q.call = "confirm" /\ HoldsIssue(q) => q.seen.gi.status = "DRAFT"
        BY <1>2, <1>3, <2>1 DEF Books, IssueBooks
      <3>2. q.call = "generate" /\ q.at = "clear" => q.seen.ids \subseteq DraftIssues'
        BY <1>2, <1>3, <2>1 DEF Books, IssueBooks, DraftIssues
      <3>3. \A h \in skipped' : h \in Issues /\ gi'[h].status \in {"DELIVERED", "deleted"}
        BY <1>1, <1>2, <1>3, <2>1 DEF Books, IssueBooks
      <3>4. QED
        BY <2>1, <3>1, <3>2, <3>3 DEF IssueBooks
    <2>3. ASSUME NEW m \in Mats
          PROVE  /\ LiveUnits(m)' = LiveUnits(m) /\ LeftUnits(m)' = LeftUnits(m)
                 /\ DraftUnits(m)' = DraftUnits(m) + qty[m]
                 /\ \A ids : g \notin ids =>
                        OtherDraftUnits(ids, m)' = OtherDraftUnits(ids, m) + qty[m]
                 /\ asked'[m] = asked[m] + qty[m] /\ qty[m] \in Nat
      <3>1. /\ RowIn(gi[g], LiveStates, m) = 0 /\ RowIn(gi'[g], LiveStates, m) = 0
            /\ RowIn(gi[g], {"DRAFT"}, m) = 0 /\ RowIn(gi'[g], {"DRAFT"}, m) = qty[m]
            /\ LeftIn(gi[g], g \notin skipped, m) = 0 /\ LeftIn(gi'[g], g \notin skipped', m) = 0
        BY <1>1, <1>2 DEF RowIn, LeftIn, LiveStates
      <3>2. /\ skipped' \ {g} = skipped \ {g} /\ qty[m] \in Nat
            /\ asked'[m] = asked[m] + qty[m]
        BY <1>0, <1>1 DEF Quantity, Plus
      <3>3. \A ids : g \notin ids =>
                OtherDraftUnits(ids, m)' = OtherDraftUnits(ids, m) + qty[m]
        <4>1. \A ids : g \notin ids =>
                  OtherDraftUnits(ids, m)' = OtherDraftUnits(ids, m)
                      - RowIn(gi[g], {"DRAFT"}, m) + RowIn(gi'[g], {"DRAFT"}, m)
          BY <1>2, RowTurn
        <4>2. QED
          BY <3>1, <3>2, <4>1, UnitsNat
      <3>4. QED
        BY <1>2, <3>1, <3>2, <3>3, RowTurn, UnitsNat
    <2>4. NeedBooks(q)'
      <3> SUFFICES ASSUME NEW m \in Mats
                   PROVE  /\ LiveUnits(m)' + DraftUnits(m)' <= asked'[m]
                          /\ q.call = "generate" /\ q.at \in {"clear", "net"} =>
                                 /\ LiveUnits(m)' + OtherDraftUnits(q.seen.ids, m)' <= asked'[m]
                                 /\ q.seen.need[m].fromStock + OtherDraftUnits(q.seen.ids, m)'
                                        <= asked'[m]
                          /\ q.call = "generate" /\ q.at = "issue" =>
                                 q.seen.qty[m] + LiveUnits(m)' + DraftUnits(m)' <= asked'[m]
        BY DEF NeedBooks
      <3>1. /\ LiveUnits(m) + DraftUnits(m) <= asked[m]
            /\ q.call = "generate" /\ q.at \in {"clear", "net"} =>
                   /\ LiveUnits(m) + OtherDraftUnits(q.seen.ids, m) <= asked[m]
                   /\ q.seen.need[m].fromStock + OtherDraftUnits(q.seen.ids, m) <= asked[m]
            /\ q.call = "generate" /\ q.at = "issue" =>
                   q.seen.qty[m] + LiveUnits(m) + DraftUnits(m) <= asked[m]
        BY <1>3 DEF Books, NeedBooks
      <3>2. /\ LiveUnits(m) \in Nat /\ DraftUnits(m) \in Nat /\ asked[m] \in Nat
            /\ OtherDraftUnits(q.seen.ids, m) \in Nat
            /\ q.seen.need[m].fromStock \in Nat /\ q.seen.qty[m] \in Nat
        BY UnitsNat DEF SourceRequest, SourceSeen, Need, Quantity
      <3>3. LiveUnits(m)' + DraftUnits(m)' <= asked'[m]
        BY <2>3, <3>1, <3>2
      <3>4. ASSUME q.call = "generate", q.at \in {"clear", "net"}
            PROVE  /\ LiveUnits(m)' + OtherDraftUnits(q.seen.ids, m)' <= asked'[m]
                   /\ q.seen.need[m].fromStock + OtherDraftUnits(q.seen.ids, m)' <= asked'[m]
        <4>1. g \notin q.seen.ids
          BY <2>1, <3>4
        <4>2. OtherDraftUnits(q.seen.ids, m)' = OtherDraftUnits(q.seen.ids, m) + qty[m]
          BY <2>3, <4>1 DEF OtherDraftUnits
        <4>3. QED
          BY <2>3, <3>1, <3>2, <3>4, <4>2
      <3>5. ASSUME q.call = "generate", q.at = "issue"
            PROVE  q.seen.qty[m] + LiveUnits(m)' + DraftUnits(m)' <= asked'[m]
        BY <2>3, <3>1, <3>2, <3>5
      <3>6. QED
        BY <3>3, <3>4, <3>5
    <2>5. StockBooks(q) => StockBooks(q)'
      BY <1>1, <2>3 DEF StockBooks, OnWay, PutDown
    <2>6. QED
      BY <1>1, <1>3, <2>2, <2>4, <2>5 DEF Books
  <1>4. ASSUME NEW q, Sole(q, IssueCalls) PROVE q \in SourceRequest
    BY <1>4, IdleTyped DEF Sole, SourceInv
  <1>5. QED
    BY <1>1, <1>3, <1>4, SoleSame DEF IssueInv


\* Hand-made changes of a requirement only ever raise what was asked for.
LEMMA AskMoreIssues ==
    ASSUME SourceInv, SourceInv', IssueInv, NEW m \in Mats, NEW n \in 0..Planned[m],
           SaveRequirements(m, n)
    PROVE  IssueInv'
  <1>1. UNCHANGED <<req, raced, gi, rows, master, gone, skipped, failed>>
    BY DEF SaveRequirements
  <1>2. \A k \in Mats : asked[k] <= asked'[k] /\ asked[k] \in Nat /\ asked'[k] \in Nat
    <2>1. /\ asked \in [Mats -> Nat] /\ n \in Nat
          /\ asked' = [asked EXCEPT ![m] = Larger(@, n)]
      BY SourcingConstants DEF SourceInv, TypeOK, Quantity, SaveRequirements
    <2>2. QED
      BY <2>1 DEF Larger
  <1>3. ASSUME NEW q \in SourceRequest, Books(q) PROVE Books(q)'
    <2>1. IssueBooks(q)'
      BY <1>1, <1>3 DEF Books, IssueBooks, DraftIssues
    <2>2. ASSUME NEW k \in Mats
          PROVE  /\ LiveUnits(k)' = LiveUnits(k) /\ LeftUnits(k)' = LeftUnits(k)
                 /\ DraftUnits(k)' = DraftUnits(k)
                 /\ OtherDraftUnits(q.seen.ids, k)' = OtherDraftUnits(q.seen.ids, k)
      BY <1>1 DEF LiveUnits, LeftUnits, DraftUnits, OtherDraftUnits
    <2>3. NeedBooks(q)'
      <3> SUFFICES ASSUME NEW k \in Mats
                   PROVE  /\ LiveUnits(k)' + DraftUnits(k)' <= asked'[k]
                          /\ q.call = "generate" /\ q.at \in {"clear", "net"} =>
                                 /\ LiveUnits(k)' + OtherDraftUnits(q.seen.ids, k)' <= asked'[k]
                                 /\ q.seen.need[k].fromStock + OtherDraftUnits(q.seen.ids, k)'
                                        <= asked'[k]
                          /\ q.call = "generate" /\ q.at = "issue" =>
                                 q.seen.qty[k] + LiveUnits(k)' + DraftUnits(k)' <= asked'[k]
        BY DEF NeedBooks
      <3>1. /\ LiveUnits(k) + DraftUnits(k) <= asked[k]
            /\ q.call = "generate" /\ q.at \in {"clear", "net"} =>
                   /\ LiveUnits(k) + OtherDraftUnits(q.seen.ids, k) <= asked[k]
                   /\ q.seen.need[k].fromStock + OtherDraftUnits(q.seen.ids, k) <= asked[k]
            /\ q.call = "generate" /\ q.at = "issue" =>
                   q.seen.qty[k] + LiveUnits(k) + DraftUnits(k) <= asked[k]
        BY <1>3 DEF Books, NeedBooks
      <3>2. /\ LiveUnits(k) \in Nat /\ DraftUnits(k) \in Nat
            /\ OtherDraftUnits(q.seen.ids, k) \in Nat
            /\ q.seen.need[k].fromStock \in Nat /\ q.seen.qty[k] \in Nat
        BY UnitsNat DEF SourceRequest, SourceSeen, Need, Quantity
      <3>3. QED
        BY <1>2, <2>2, <3>1, <3>2
    <2>4. StockBooks(q) => StockBooks(q)'
      BY <1>1, <2>2 DEF StockBooks, OnWay, PutDown
    <2>5. QED
      BY <1>1, <1>3, <2>1, <2>3, <2>4 DEF Books
  <1>4. ASSUME NEW q, Sole(q, IssueCalls) PROVE q \in SourceRequest
    BY <1>4, IdleTyped DEF Sole, SourceInv
  <1>5. QED
    BY <1>1, <1>3, <1>4, SoleSame DEF IssueInv

LEMMA IssueInvKept ==
    ASSUME SourceInv, SourceInv', AskedInv, IssueInv, [Next]_vars
    PROVE  IssueInv'
  <1>1. CASE UNCHANGED vars
    BY <1>1, IssueUntouched DEF vars, IssueState, history
  <1>2. CASE Recalculate
    BY <1>2, IssueUntouched DEF Recalculate, IssueState
  <1>3. ASSUME NEW m \in Mats, NEW n \in 0..Planned[m], SaveRequirements(m, n)
        PROVE  IssueInv'
    BY <1>3, AskMoreIssues
  <1>4. ASSUME NEW g \in Issues, NEW qty \in Quantities, CreateGoodsIssue(g, qty)
        PROVE  IssueInv'
    BY <1>4, CreateIssues
  <1>5. ASSUME NEW r \in Requests, Generate(r)
        PROVE  IssueInv'
    BY <1>5, GenerateIssues
  <1>6. ASSUME NEW r \in Requests,
               HandOut(r) \/ StartProduction(r) \/ CheckPfo(r) \/ MovePfo(r)
        PROVE  IssueInv'
    BY <1>6, PfoIssues
  <1>7. ASSUME NEW r \in Requests, Fail(r)
        PROVE  IssueInv'
    BY <1>7, FailIssues
  <1>8. ASSUME NEW r \in Requests, NEW g \in Issues, OnIssue(r, g)
        PROVE  IssueInv'
    BY <1>8, IssueIssues
  <1>9. ASSUME NEW r \in Requests, NEW p \in Orders, OnOrder(r, p)
        PROVE  IssueInv'
    BY <1>9, SupplierIssues
  <1>10. QED
    BY <1>1, <1>2, <1>3, <1>4, <1>5, <1>6, <1>7, <1>8, <1>9 DEF Next

LEMMA IssueInvAtStart == Init => IssueInv
  <1> SUFFICES ASSUME Init PROVE IssueInv
    OBVIOUS
  <1>1. /\ gi = [g \in Issues |-> NoIssue] /\ req = [r \in Requests |-> Idle]
        /\ rows = Opening /\ master = Opening /\ asked = Zero /\ gone = Zero /\ skipped = {}
    BY DEF Init
  <1>2. Sole(Idle, IssueCalls)
    BY <1>1, IdleTyped, IssueTables DEF Sole
  <1>3. \A g \in Issues : gi[g].status = "unused"
    BY <1>1, RowsAsNew
  <1>4. ASSUME NEW m \in Mats
        PROVE  LiveUnits(m) = 0 /\ DraftUnits(m) = 0 /\ LeftUnits(m) = 0
    <2>1. Chosen(gi, LiveStates, {}) = {} /\ Chosen(gi, {"DRAFT"}, {}) = {}
      BY <1>3 DEF Chosen, LiveStates
    <2>2. Chosen(gi, LiveStates, skipped) = {}
      BY <1>3 DEF Chosen, LiveStates
    <2>3. QED
      BY <2>1, <2>2, HeldNone DEF LiveUnits, DraftUnits, LeftUnits
  <1>5. Quiet(Idle) /\ Idle.call = "idle"
    BY QuietIdle, IdleTyped
  <1>6. IssueBooks(Idle)
    BY <1>1, <1>5 DEF IssueBooks, Quiet
  <1>7. NeedBooks(Idle)
    BY <1>1, <1>4, <1>5, ZeroTyped DEF NeedBooks
  <1>8. StockBooks(Idle)
    <2>1. \A m \in Mats : OnWay(Idle, m) = 0 /\ PutDown(Idle, m) = 0
      BY <1>5 DEF OnWay, PutDown
    <2>2. \A m \in Mats : Opening[m] \in Nat /\ rows[m] = Opening[m] /\ master[m] = Opening[m]
                          /\ gone[m] = 0
      BY <1>1, SourcingConstants, ZeroTyped
    <2>3. QED
      BY <1>4, <2>1, <2>2 DEF StockBooks
  <1>9. QED
    BY <1>2, <1>6, <1>7, <1>8 DEF IssueInv, Books

--------------------------------------------------------------------------------
\* "To avoid duplicates": however often orders are generated, live issues and
\* drafts together never exceed what was ever wanted from stock, unless two
\* requests had the issues in hand together.
THEOREM IssuesFitNeed == Spec => []IssuesWithinNeed
  <1>1. SourceInv /\ IssueInv => IssuesWithinNeed
    <2> SUFFICES ASSUME SourceInv, IssueInv, "issues" \notin raced, NEW m \in Mats
                 PROVE  Total(Live \cup DraftIssues)[m] <= asked[m]
      BY DEF IssuesWithinNeed
    <2>1. LiveUnits(m) + DraftUnits(m) <= asked[m]
      BY DEF IssueInv, Books, NeedBooks
    <2>2. Total(Live \cup DraftIssues)[m] = LiveUnits(m) + DraftUnits(m)
      BY LiveAndDrafts DEF SourceInv, TypeOK, LiveUnits, DraftUnits
    <2>3. QED
      BY <2>1, <2>2
  <1>2. QED
    BY <1>1, SourceInvAtStart, SourceInvKept, AskedInvAtStart, AskedInvKept,
       IssueInvAtStart, IssueInvKept, PTL DEF Spec

\* Every unit missing from inventory_stocks is on an issue that left, or left
\* on one deleted afterwards.
THEOREM StockIsExplained == Spec => []IssuesExplainStock
  <1>1. SourceInv /\ IssueInv => IssuesExplainStock
    <2> SUFFICES ASSUME SourceInv, IssueInv, "issues" \notin raced \cup failed,
                        \A r \in InFlight : ~At(r, "confirm", "save")
                 PROVE  Minus(Opening, rows) = Plus(Total(Left(Issues)), gone)
      BY DEF IssuesExplainStock
    <2>1. PICK q : Sole(q, IssueCalls) /\ StockBooks(q)
      BY DEF IssueInv, Books
    <2>2. ~(q.call = "confirm" /\ q.at = "save")
      BY <2>1, IdleTyped DEF Sole, At, InFlight
    <2>3. ASSUME NEW m \in Mats
          PROVE  Opening[m] - rows[m] = Total(Left(Issues))[m] + gone[m]
      <3>1. Opening[m] - rows[m] = LeftUnits(m) + gone[m] + 0
        BY <2>1, <2>2 DEF StockBooks, OnWay
      <3>2. Left(Issues) = Chosen(gi, LiveStates, skipped)
        BY DEF Left, Live, Chosen, LiveStates
      <3>3. Total(Left(Issues))[m] = LeftUnits(m)
        BY <3>2, TotalIsAmount DEF LeftUnits, Held
      <3>4. LeftUnits(m) \in Nat /\ gone[m] \in Nat
        BY UnitsNat
      <3>5. QED
        BY <3>1, <3>3, <3>4
    <2>4. QED
      BY <2>3 DEF Minus, Plus
  <1>2. QED
    BY <1>1, SourceInvAtStart, SourceInvKept, AskedInvAtStart, AskedInvKept,
       IssueInvAtStart, IssueInvKept, PTL DEF Spec

\* One live issue's units are among the live units.
LEMMA RowWithin ==
    ASSUME SourceInv, NEW g \in Issues, gi[g].status \in LiveStates, NEW m \in Mats
    PROVE  gi[g].qty[m] <= LiveUnits(m)
  <1> DEFINE S == Chosen(gi, LiveStates, {})
             f == Units(gi, m)
  <1>1. g \in S /\ S \in SUBSET Issues /\ gi \in [Issues -> IssueRow]
    BY DEF Chosen, SourceInv, TypeOK
  <1>2. IsFiniteSet(S) /\ (\A h \in S : f[h] \in Nat) /\ f[g] = gi[g].qty[m]
    BY <1>1, IssuesFinite, UnitsTyped
  <1>3. LiveUnits(m) = SumFunctionOnSet(f, S)
    BY DEF LiveUnits, Held, Amount
  <1> HIDE DEF S, f
  <1>4. f[g] <= SumFunctionOnSet(f, S)
    BY <1>1, <1>2, SumHolds
  <1>5. QED
    BY <1>2, <1>3, <1>4

\* Deleting issues never puts back more than was taken, unless an issue was
\* marked delivered that had never been confirmed.
THEOREM NothingComesFromNowhere == Spec => []NothingFromNowhere
  <1>1. SourceInv /\ IssueInv => NothingFromNowhere
    <2> SUFFICES ASSUME SourceInv, IssueInv, "issues" \notin raced \cup failed, skipped = {},
                        NEW m \in Mats
                 PROVE  master[m] <= Opening[m]
      BY DEF NothingFromNowhere
    <2>1. PICK q : Sole(q, IssueCalls) /\ Books(q)
      BY DEF IssueInv
    <2>2. q \in SourceRequest
      BY <2>1, IdleTyped DEF Sole, SourceInv
    <2>3. master[m] <= Opening[m] - LiveUnits(m) - OnWay(q, m) + PutDown(q, m)
      BY <2>1 DEF Books, StockBooks
    <2>4. /\ OnWay(q, m) \in Nat /\ PutDown(q, m) \in Nat /\ LiveUnits(m) \in Nat
          /\ Opening[m] \in Nat /\ master[m] \in Int
      BY <2>2, WayNat, UnitsNat
    <2>5. PutDown(q, m) <= LiveUnits(m)
      <3>1. CASE PutDown(q, m) = 0
        BY <2>4, <3>1
      <3>2. CASE PutDown(q, m) # 0
        <4>1. /\ q.call = "delete" /\ q.at = "drop" /\ PutBack(q.seen.gi)
              /\ PutDown(q, m) = q.seen.gi.qty[m]
          BY <3>2 DEF PutDown
        <4>2. q.id \in Issues /\ gi[q.id] = q.seen.gi
          BY <2>1, <4>1 DEF Books, IssueBooks, HoldsIssue
        <4>3. gi[q.id].status \in LiveStates
          BY <4>1, <4>2 DEF PutBack, LiveStates
        <4>4. QED
          BY <4>1, <4>2, <4>3, RowWithin
      <3>3. QED
        BY <3>1, <3>2
    <2>6. QED
      BY <2>3, <2>4, <2>5
  <1>2. QED
    BY <1>1, SourceInvAtStart, SourceInvKept, AskedInvAtStart, AskedInvKept,
       IssueInvAtStart, IssueInvKept, PTL DEF Spec
================================================================================
