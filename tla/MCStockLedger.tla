---------------------------- MODULE MCStockLedger ----------------------------
(***************************************************************************)
(* Instances of StockLedger for TLC.                                       *)
(***************************************************************************)
EXTENDS StockLedger, TLC

CONSTANTS bag, pack, cloth, tp, btp, mau, r1, r2

MCSymmetry == Permutations(Requests)

================================================================================
