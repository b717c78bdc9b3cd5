-------------------------- MODULE MCBillingStatements --------------------------
(***************************************************************************)
(* BillingStatements for TLC: orders, requests and operators are           *)
(* interchangeable.                                                        *)
(***************************************************************************)
EXTENDS BillingStatements, TLC

Symmetry == Permutations(Orders) \cup Permutations(Deliveries) \cup Permutations(Refunds)
              \cup Permutations(Operators)

============================================================================
