----------------------------- MODULE MCCheckout -----------------------------
(***************************************************************************)
(* Checkout for TLC: attempts and carts are interchangeable.               *)
(***************************************************************************)
EXTENDS Checkout, TLC

Symmetry == Permutations(Attempts) \cup Permutations(Carts)

============================================================================
