------------------------- MODULE MCStockAllocation --------------------------
(***************************************************************************)
(* StockAllocation for TLC: orders are interchangeable.                    *)
(***************************************************************************)
EXTENDS StockAllocation, TLC

Symmetry == Permutations(Orders)

============================================================================
