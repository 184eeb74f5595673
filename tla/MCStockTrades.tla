---------------------------- MODULE MCStockTrades ----------------------------
(* Small instances of StockTrades for TLC.                                 *)
EXTENDS StockTrades, TLC

Symmetry == Permutations(Refreshers)
=============================================================================
