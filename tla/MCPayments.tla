------------------------------- MODULE MCPayments -------------------------------
(***************************************************************************)
(* Instances of Payments: a sales order, and a pooled purchase order with  *)
(* two children.                                                           *)
(***************************************************************************)
EXTENDS Payments, TLC

CONSTANTS o1, pool, first, second, v1, v2, r1, r2

MCParentOf == [p \in PurchaseOrders |-> IF p \in {first, second} THEN pool ELSE NoPO]

\* Transactions, slots of requests and the children of the pool are alike.
Symmetry == Permutations({v1, v2}) \cup Permutations({r1, r2}) \cup Permutations({first, second})
=============================================================================
