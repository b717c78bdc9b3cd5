----------------------------- MODULE TenantStates -----------------------------
(***************************************************************************)
(* What operators may rely on about the state of a store: it moves along   *)
(* LIFECYCLE_TRANSITIONS (services/tenantLifecycle.js) and in no other     *)
(* way, until its record is deleted for good.  A row from before the       *)
(* lifecycle block ("unset") takes a state with its first transition.      *)
(***************************************************************************)
VARIABLE state

States == {"pending", "onboarding", "active", "suspended", "closed", "archived"}

LIFECYCLE_TRANSITIONS ==
  [pending    |-> {"onboarding", "active", "closed"},
   onboarding |-> {"active", "suspended", "closed"},
   active     |-> {"suspended", "closed"},
   suspended  |-> {"active", "closed"},
   closed     |-> {"active", "archived"},
   archived   |-> {}]

Init == state \in {"unset", "onboarding"}

FirstState == state = "unset" /\ state' \in States \ {"pending", "onboarding"}

Move == state \in States /\ state' \in LIFECYCLE_TRANSITIONS[state]

Delete == state # "deleted" /\ state' = "deleted"

Next == FirstState \/ Move \/ Delete

Spec == Init /\ [][Next]_state

=============================================================================
