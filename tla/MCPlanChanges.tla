---------------------------- MODULE MCPlanChanges ----------------------------
(***************************************************************************)
(* PlanChanges, with the store of TenantLifecycle, for TLC: what is not    *)
(* ordered by an action is interchangeable.                                *)
(***************************************************************************)
EXTENDS PlanChanges, TLC

Symmetry == Permutations(Collections) \cup Permutations(Requests)
              \cup Permutations(Changes) \cup Permutations(Runs)

=============================================================================
