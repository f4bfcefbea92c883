------------------------------ MODULE MCReceiving ------------------------------
EXTENDS Receiving, TLC

CONSTANTS p1, p2, k1, k2, k3, r1, r2

Symmetry == Permutations(Receipts) \cup Permutations(Requests)
================================================================================
