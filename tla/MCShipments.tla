------------------------------ MODULE MCShipments ------------------------------
EXTENDS Shipments, TLC

CONSTANTS d1, r1, r2

MCDeliveries == {d1}
MCRequests == {r1, r2}
Symmetry == Permutations(MCRequests)

================================================================================
