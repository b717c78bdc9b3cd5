-------------------------- MODULE MCOrderLifecycle --------------------------
(***************************************************************************)
(* OrderLifecycle for TLC.  Shipments, returns and requests are            *)
(* interchangeable, and no property or initial state tells them apart.     *)
(***************************************************************************)
EXTENDS OrderLifecycle, TLC

Symmetry ==
  Permutations(FulfillmentIds) \cup Permutations(ReturnIds) \cup Permutations(Requests)

============================================================================
