------------------------------ MODULE MCBookings ------------------------------
EXTENDS Bookings, TLC

CONSTANTS pen, kit, other,  \* products: a single, a combo of it, another single
          l1, l2, l3,       \* order lines
          so1, so2,         \* sales orders
          r1, r2, cron

MCRecipe == [c \in Combos |-> [p \in Singles |-> IF p = pen THEN 2 ELSE 0]]

\* Two orders: one for a pen and a kit of two, one for pens.
MixedOrder == l1 :> so1 @@ l2 :> so1 @@ l3 :> so2
MixedSku == l1 :> pen @@ l2 :> kit @@ l3 :> pen

\* Orders whose lines share no part.
PlainOrder == l1 :> so1 @@ l2 :> so2
PlainSku == l1 :> kit @@ l2 :> pen

\* One order with two lines of the same product, in two colours.
TwinOrder == l1 :> so1 @@ l2 :> so1
TwinSku == l1 :> pen @@ l2 :> pen

MCOpening == [p \in Singles |-> 2]

MCSymmetry == Permutations(Requests \ {cron})
================================================================================
