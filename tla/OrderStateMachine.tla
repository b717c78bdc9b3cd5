------------------------- MODULE OrderStateMachine -------------------------
(***************************************************************************)
(* The status graphs of utils/orderStateMachine.js.  A graph is the set of *)
(* its edges; guardTransition accepts an edge, and also a move from a      *)
(* status to itself, which it reports to the caller as a no-op.            *)
(***************************************************************************)

OrderStatuses ==
  {"Draft", "Pending", "Confirmed", "Processing", "Shipped", "Delivered",
   "Refunded", "Cancelled", "Archived"}

ORDER_TRANSITIONS ==
  ({"Draft"} \X {"Pending", "Cancelled"})
    \cup ({"Pending"} \X {"Confirmed", "Processing", "Cancelled"})
    \cup ({"Confirmed"} \X {"Processing", "Cancelled"})
    \cup ({"Processing"} \X {"Shipped", "Cancelled"})
    \cup ({"Shipped"} \X {"Delivered"})
    \cup ({"Delivered"} \X {"Refunded", "Archived"})
    \cup ({"Cancelled", "Refunded"} \X {"Archived"})

PaymentStatuses ==
  {"Not Paid", "Authorized", "Failed", "Paid", "Partially Refunded",
   "Refunded", "Voided"}

PAYMENT_TRANSITIONS ==
  ({"Not Paid"} \X {"Authorized", "Paid", "Failed"})
    \cup ({"Authorized"} \X {"Paid", "Voided", "Failed"})
    \cup ({"Failed"} \X {"Authorized", "Paid"})
    \cup ({"Paid"} \X {"Partially Refunded", "Refunded"})
    \cup ({"Partially Refunded"} \X {"Refunded"})

FulfillmentStatuses == {"Pending", "Shipped", "Delivered", "Cancelled"}

FULFILLMENT_TRANSITIONS ==
  ({"Pending"} \X {"Shipped", "Cancelled"})
    \cup ({"Shipped"} \X {"Delivered", "Cancelled"})

ReturnStatuses == {"Requested", "Approved", "Received", "Rejected", "Refunded"}

RETURN_TRANSITIONS ==
  ({"Requested"} \X {"Approved", "Rejected"})
    \cup ({"Approved"} \X {"Received", "Refunded"})
    \cup ({"Received"} \X {"Refunded"})

guardTransition(graph, from, to) == from = to \/ <<from, to>> \in graph

============================================================================
