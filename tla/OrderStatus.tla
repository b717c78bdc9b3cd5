---------------------------- MODULE OrderStatus -----------------------------
(***************************************************************************)
(* What everyone who reads order.status may rely on, seen from outside.    *)
(* An order is created, and from then on its status changes only by        *)
(*  - the roll-up of its shipments, unless it is terminal,                 *)
(*  - the transactions that cancel it, or complete or delete the draft,    *)
(*  - a write somebody decided earlier, along the graph, from the status   *)
(*    the order had when it was read.                                      *)
(* The last kind may land at any later time, which is all that is left of  *)
(* "every status transition MUST go through guardTransition()".            *)
(***************************************************************************)
EXTENDS OrderStateMachine

VARIABLES
  status,   \* the stored status; "None" before creation, "Gone" after deletion
  decided   \* pairs <<status read, status to write>> of the writes in flight

Terminal == {"Cancelled", "Refunded"}

Init ==
  /\ status \in {"None", "Pending", "Processing", "Draft"}
  /\ decided = {}

Create ==
  /\ status = "None"
  /\ status' \in {"Pending", "Processing", "Draft"}
  /\ UNCHANGED decided

RollUp ==
  /\ status \notin Terminal \cup {"None", "Gone"}
  /\ status' \in {"Pending", "Processing", "Shipped", "Delivered"}
  /\ UNCHANGED decided

Transaction ==
  /\ \/ status \in {"Pending", "Processing"} /\ status' = "Cancelled"
     \/ status = "Draft" /\ status' \in {"Pending", "Gone"}
  /\ UNCHANGED decided

Decide ==
  /\ \E to \in OrderStatuses :
       /\ to \notin {"Draft", "Confirmed", "Archived"}
       /\ guardTransition(ORDER_TRANSITIONS, status, to)
       /\ decided' = decided \cup {<<status, to>>}
  /\ UNCHANGED status

\* A decision is carried out once; another request may hold the same one.
Write ==
  \E w \in decided :
    /\ status' = IF status = "Gone" THEN "Gone" ELSE w[2]
    /\ decided' \in {decided, decided \ {w}}

Forget ==
  /\ decided' \subseteq decided
  /\ UNCHANGED status

Next == Create \/ RollUp \/ Transaction \/ Decide \/ Write \/ Forget

Spec == Init /\ [][Next]_<<status, decided>>

============================================================================
