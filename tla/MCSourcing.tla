------------------------------ MODULE MCSourcing ------------------------------
EXTENDS Sourcing, TLC

CONSTANTS cloth, r1, r2

MCPlanned == [m \in Mats |-> 2]
MCOpening == [m \in Mats |-> 2]

Symmetry == Permutations(Requests)
================================================================================
