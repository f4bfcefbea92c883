----------------------------- MODULE MCFulfilment -----------------------------
EXTENDS Fulfilment, TLC

CONSTANTS pen, kit, l1, l2, so1, so2, cron, r1, d1, d2, clerk

MCRecipe == [c \in Combos |-> [p \in Singles |-> 2]]

\* One order for a pen and a kit of two pens.
MCOrderOf == [l \in Lines |-> so1]
MCSkuOf == l1 :> pen @@ l2 :> kit

MCOpening == [p \in Singles |-> 2]

MCSymmetry == Permutations(Deliveries)
================================================================================
