------------------------------ MODULE AtomicLedger ------------------------------
(***************************************************************************)
(* What the stock handlers promise together: quantities per item and       *)
(* warehouse, and operations that take effect in one step.                 *)
(***************************************************************************)
EXTENDS Integers

CONSTANTS Items, Warehouses, Quantities

VARIABLES
    stock,    \* the quantity of each item in each warehouse
    outside   \* the net quantity imports and exports have brought in

Keys == Items \X Warehouses

Init == stock = [k \in Keys |-> 0] /\ outside = 0

\* An import or an export of one row; stock may become negative.
Adjust(k, q) ==
    \/ stock' = [stock EXCEPT ![k] = @ + q] /\ outside' = outside + q
    \/ stock' = [stock EXCEPT ![k] = @ - q] /\ outside' = outside - q

\* A transfer between warehouses, or a conversion between variants.
Move(k, l, q) ==
    /\ k # l
    /\ stock' = [stock EXCEPT ![k] = @ - q, ![l] = @ + q]
    /\ UNCHANGED outside

Reset == stock' = [k \in Keys |-> 0] /\ outside' = 0

Next ==
    \/ \E k \in Keys, q \in Quantities : Adjust(k, q)
    \/ \E k, l \in Keys, q \in Quantities : Move(k, l, q)
    \/ Reset

Spec == Init /\ [][Next]_<<stock, outside>>

================================================================================
