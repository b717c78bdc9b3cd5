-------------------------- MODULE StockAllocation ---------------------------
(***************************************************************************)
(* The stock of one product (Product.stock and preorder.unitsReserved) and *)
(* the orders that draw on it.  Checkout, draft completion, line edits and *)
(* cancellation each adjust the counter and the order in one MongoDB       *)
(* transaction, so each is one step.  Other writers of order.status -- the *)
(* status PATCH, payment handlers, the shipment roll-up, replacements --   *)
(* leave the counters alone.                                               *)
(*                                                                         *)
(* Each order has one line of the product, on hand or pre-ordered.  What   *)
(* the shipments of an order make of its status is left open here (see     *)
(* OrderLifecycle), and so are payment and fulfillment gates.              *)
(*                                                                         *)
(* A definition marked DEVIATION is not the code: it is a plausible bug    *)
(* that a property is shown to catch.                                      *)
(***************************************************************************)
EXTENDS Integers, OrderStateMachine

CONSTANTS
  Orders,       \* orders that can exist (bound)
  Requests,     \* status writes that can be in flight (bound)
  MaxQuantity,  \* units one line can have (bound)
  InitialStock, \* units on hand at the start
  MaxUnits,     \* preorder.maxUnits
  MaxStock,     \* the model stops restocking above this level (bound)
  MaxOverReturn \* units an order can give back beyond what it took (bound)

ASSUME BoundsAssumption ==
  /\ MaxQuantity \in Nat \ {0}
  /\ InitialStock \in Nat
  /\ MaxUnits \in Nat
  /\ MaxStock \in Nat
  /\ MaxOverReturn \in Nat

VARIABLES
  stock,          \* Product.stock
  unitsReserved,  \* Product.preorder.unitsReserved
  status,         \* order.status; "None" before creation, "Gone" after deletion
  quantity,       \* products[0].quantity
  isPreorder,     \* products[0].isPreorder
  req,            \* the status write each request has in flight
  held,           \* history: units the order took from stock minus returned
  reserved,       \* history: units the order reserved minus released
  bypassed        \* history: a writer that ignores stock has changed the order

productVars == <<stock, unitsReserved>>
orderVars == <<status, quantity, isPreorder>>
history == <<held, reserved, bypassed>>
vars == <<productVars, orderVars, req, history>>

Statuses == OrderStatuses \cup {"None", "Gone"}

PatchTargets == {"Pending", "Processing", "Shipped", "Delivered", "Cancelled", "Refunded"}

Request == [order: Orders, read: Statuses, target: PatchTargets]

Idle == [read |-> "None"]

TypeOK ==
  /\ stock \in Nat
  /\ unitsReserved \in Int
  /\ unitsReserved <= MaxUnits
  /\ status \in [Orders -> Statuses]
  /\ quantity \in [Orders -> Nat]
  /\ isPreorder \in [Orders -> BOOLEAN]
  /\ req \in [Requests -> Request \cup {Idle}]
  /\ held \in [Orders -> Int]
  /\ reserved \in [Orders -> Int]
  /\ bypassed \in [Orders -> BOOLEAN]

Init ==
  /\ stock = InitialStock
  /\ unitsReserved = 0
  /\ status = [o \in Orders |-> "None"]
  /\ quantity = [o \in Orders |-> 0]
  /\ isPreorder = [o \in Orders |-> FALSE]
  /\ req = [r \in Requests |-> Idle]
  /\ held = [o \in Orders |-> 0]
  /\ reserved = [o \in Orders |-> 0]
  /\ bypassed = [o \in Orders |-> FALSE]

(* ------------------------ Counters of the product ------------------------ *)

\* DEVIATION: $inc without the stock >= quantity condition.
decrementStockRepo_Unguarded(o, q) ==
  /\ stock' = stock - q
  /\ held' = [held EXCEPT ![o] = @ + q]

decrementStockRepo(o, q) ==
  /\ stock >= q
  /\ stock' = stock - q
  /\ held' = [held EXCEPT ![o] = @ + q]

incrementStockRepo(o, q) ==
  /\ stock + q <= MaxStock /\ held[o] - q >= -MaxOverReturn  \* bounds
  /\ stock' = stock + q
  /\ held' = [held EXCEPT ![o] = @ - q]

\* The increment and its roll-back above the cap are one transaction's.
reservePreorderRepo(o, q) ==
  /\ unitsReserved + q <= MaxUnits
  /\ unitsReserved' = unitsReserved + q
  /\ reserved' = [reserved EXCEPT ![o] = @ + q]

releasePreorderRepo(o, q) ==
  /\ reserved[o] - q >= -MaxOverReturn  \* bound
  /\ unitsReserved' = unitsReserved - q
  /\ reserved' = [reserved EXCEPT ![o] = @ - q]

(* -------------------- Transactions that move stock ----------------------- *)

\* One line, on hand or from pre-order capacity; a fully covered order starts
\* in Processing.
createOrderService(o, q, preorder, st) ==
  /\ status[o] = "None"
  /\ IF preorder
     THEN reservePreorderRepo(o, q) /\ UNCHANGED <<stock, held>>
     ELSE decrementStockRepo(o, q) /\ UNCHANGED <<unitsReserved, reserved>>
  /\ status' = [status EXCEPT ![o] = st]
  /\ quantity' = [quantity EXCEPT ![o] = q]
  /\ isPreorder' = [isPreorder EXCEPT ![o] = preorder]
  /\ UNCHANGED <<req, bypassed>>

\* DEVIATION: a repeated request completes the order again.
completable_Twice(o) == status[o] \in {"Draft", "Pending"}

completable(o) == status[o] = "Draft"

completeDraftOrderService(o) ==
  /\ completable(o)
  /\ decrementStockRepo(o, quantity[o])
  /\ status' = [status EXCEPT ![o] = "Pending"]
  /\ UNCHANGED <<unitsReserved, quantity, isPreorder, req, reserved, bypassed>>

\* DEVIATION: the status is checked before the transaction and not in it.
cancellable_Any(o) == status[o] \notin {"None", "Gone", "Draft"}

cancellable(o) == status[o] \in {"Pending", "Processing"}

cancelOrderService(o) ==
  /\ cancellable(o)
  /\ IF isPreorder[o]
     THEN releasePreorderRepo(o, quantity[o]) /\ UNCHANGED <<stock, held>>
     ELSE incrementStockRepo(o, quantity[o]) /\ UNCHANGED <<unitsReserved, reserved>>
  /\ status' = [status EXCEPT ![o] = "Cancelled"]
  /\ UNCHANGED <<quantity, isPreorder, req, bypassed>>

\* DEVIATION: the old line is not given back, all of the new one is taken.
onHand_Forgotten(o) == 0

onHand(o) == IF isPreorder[o] THEN 0 ELSE quantity[o]

\* The new line has q units, 0 when the product is dropped.  It is an on-hand
\* line even when the old one was a pre-order, whose reservation stays.
editOrderLinesService(o, q) ==
  /\ status[o] = "Pending"
  /\ IF q >= onHand(o)
     THEN decrementStockRepo(o, q - onHand(o))
     ELSE incrementStockRepo(o, onHand(o) - q)
  /\ quantity' = [quantity EXCEPT ![o] = q]
  /\ isPreorder' = [isPreorder EXCEPT ![o] = FALSE]
  /\ bypassed' = [bypassed EXCEPT ![o] = @ \/ isPreorder[o]]
  /\ UNCHANGED <<unitsReserved, status, req, reserved>>

(* ----------------------- Writers that leave stock alone ------------------ *)

createDraftOrderService(o, q) ==
  /\ status[o] = "None"
  /\ status' = [status EXCEPT ![o] = "Draft"]
  /\ quantity' = [quantity EXCEPT ![o] = q]
  /\ UNCHANGED <<productVars, isPreorder, req, history>>

updateDraftOrderService(o, q) ==
  /\ status[o] = "Draft"
  /\ quantity' = [quantity EXCEPT ![o] = q]
  /\ UNCHANGED <<productVars, status, isPreorder, req, history>>

deleteDraftOrderService(o) ==
  /\ status[o] = "Draft"
  /\ status' = [status EXCEPT ![o] = "Gone"]
  /\ UNCHANGED <<productVars, quantity, isPreorder, req, history>>

\* The replacement re-ships units of the original without allocating them.
createReplacementOrderService(o, original, q) ==
  /\ status[o] = "None"
  /\ status[original] \notin {"None", "Gone"}
  /\ q <= quantity[original]
  /\ status' = [status EXCEPT ![o] = "Processing"]
  /\ quantity' = [quantity EXCEPT ![o] = q]
  /\ bypassed' = [bypassed EXCEPT ![o] = TRUE]
  /\ UNCHANGED <<productVars, isPreorder, req, held, reserved>>

\* Any shipment of the order: recomputeOrderStatusFromFulfillments.  On a
\* draft this starts the order without allocating its stock.
ShipmentRollUp(o, to) ==
  /\ status[o] \notin {"None", "Gone", "Cancelled", "Refunded"}
  /\ status' = [status EXCEPT ![o] = to]
  /\ bypassed' = [bypassed EXCEPT ![o] = @ \/ status[o] = "Draft"]
  /\ UNCHANGED <<productVars, quantity, isPreorder, req, held, reserved>>

\* Status PATCH and payment handlers up to their write.
ReadForStatus(r, o, to) ==
  /\ req[r] = Idle
  /\ guardTransition(ORDER_TRANSITIONS, status[o], to)
  /\ to # status[o] \/ to = "Processing"
  /\ req' = [req EXCEPT ![r] = [order |-> o, read |-> status[o], target |-> to]]
  /\ UNCHANGED <<productVars, orderVars, history>>

\* The statuses in which an order is expected to hold its units.
Holding == OrderStatuses \ {"Draft", "Cancelled"}

WriteStatus(r) ==
  /\ req[r] # Idle
  /\ LET o == req[r].order
         from == status[o]
         to == req[r].target
     IN IF from = "Gone" THEN UNCHANGED <<status, bypassed>>
        ELSE /\ status' = [status EXCEPT ![o] = to]
             /\ bypassed' = [bypassed EXCEPT ![o] = @ \/ (from \in Holding) # (to \in Holding)]
  /\ req' = [req EXCEPT ![r] = Idle]
  /\ UNCHANGED <<productVars, quantity, isPreorder, held, reserved>>

Abandon(r) ==
  /\ req[r] # Idle
  /\ req' = [req EXCEPT ![r] = Idle]
  /\ UNCHANGED <<productVars, orderVars, history>>

(* ------------------------- Staff change the stock ------------------------ *)

adjustStockController(delta) ==
  /\ stock + delta \in 0..MaxStock
  /\ stock' = stock + delta
  /\ UNCHANGED <<unitsReserved, orderVars, req, history>>

\* PUT replaces the number, whatever was sold in the meantime.
updateInventoryController(n) ==
  /\ stock' = n
  /\ UNCHANGED <<unitsReserved, orderVars, req, history>>

Next ==
  \/ \E o \in Orders :
       \/ \E q \in 1..MaxQuantity, preorder \in BOOLEAN, st \in {"Pending", "Processing"} :
            createOrderService(o, q, preorder, st)
       \/ \E q \in 1..MaxQuantity : createDraftOrderService(o, q)
       \/ \E q \in 1..MaxQuantity : updateDraftOrderService(o, q)
       \/ completeDraftOrderService(o)
       \/ deleteDraftOrderService(o)
       \/ cancelOrderService(o)
       \/ \E q \in 0..MaxQuantity : editOrderLinesService(o, q)
       \/ \E original \in Orders, q \in 1..MaxQuantity :
            createReplacementOrderService(o, original, q)
       \/ \E to \in {"Pending", "Processing", "Shipped", "Delivered"} : ShipmentRollUp(o, to)
  \/ \E r \in Requests :
       \/ \E o \in Orders, to \in PatchTargets : ReadForStatus(r, o, to)
       \/ WriteStatus(r)
       \/ Abandon(r)
  \/ \E delta \in (-MaxQuantity)..MaxQuantity : adjustStockController(delta)
  \/ \E n \in 0..MaxStock : updateInventoryController(n)

Spec == Init /\ [][Next]_vars

(* ------------------------------- Properties ------------------------------ *)

\* An order that only checkout, draft completion, line edits, shipments and
\* cancellation have touched holds exactly the units its line says while it
\* stands, and none once it is cancelled.
HoldsWhatItsLineSays ==
  \A o \in Orders : ~bypassed[o] =>
    /\ held[o] = IF status[o] \in Holding /\ ~isPreorder[o] THEN quantity[o] ELSE 0
    /\ reserved[o] = IF status[o] \in Holding /\ isPreorder[o] THEN quantity[o] ELSE 0

\* However its status was written, no order takes more stock than its line
\* has units: a draft is not allocated twice, an edit not on top of the old.
TakesAtMostItsLine == \A o \in Orders : held[o] <= quantity[o]

\* Seen from outside, each order's status follows OrderStatus.
pendingWrites(o) ==
  {<<req[r].read, req[r].target>> : r \in {s \in Requests : req[s] # Idle /\ req[s].order = o}}

Order(o) == INSTANCE OrderStatus WITH status <- status[o], decided <- pendingWrites(o)

StatusesFollowSpec ==
  /\ \A o \in Orders : Order(o)!Init
  /\ [][\A o \in Orders : Order(o)!Next \/ UNCHANGED <<status[o], pendingWrites(o)>>]_vars

\* "Order has been cancelled and stock returned" (cancelOrderService): what is
\* returned was taken before, so no order ever holds less than nothing.
ReturnsOnlyWhatItTook == \A o \in Orders : held[o] >= 0

============================================================================
