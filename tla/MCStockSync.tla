---------------------------- MODULE MCStockSync ----------------------------
(***************************************************************************)
(* Two calls at a time on a listing with one unit in stock.                *)
(***************************************************************************)
EXTENDS StockSync, TLC

Symmetry == Permutations(Workers)
=============================================================================
