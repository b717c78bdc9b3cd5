--------------------------- MODULE OrderLifecycle ---------------------------
(***************************************************************************)
(* One order document and everyone who writes it: dashboard staff, the     *)
(* courier's shipments, returns, and the payment handlers that advance an  *)
(* order (services/order.js, services/draftOrder.js, controllers/payment). *)
(*                                                                         *)
(* Three kinds of write reach the document:                                *)
(*  - a MongoDB transaction (fulfillments, cancel, draft completion).  The *)
(*    first writer of a document wins and a transaction whose snapshot is  *)
(*    older is aborted, so each of them is one step here;                  *)
(*  - a Mongoose save() outside a transaction (returns).  The schema has   *)
(*    optimisticConcurrency, so the save is refused when another save      *)
(*    bumped __v after the document was read;                              *)
(*  - findOneAndUpdate by _id (status PATCH, payment handlers).  It checks *)
(*    neither the status it read nor __v, and it does not bump __v.        *)
(* The last two read first and write later: the gap is a step of its own.  *)
(*                                                                         *)
(* The order has a single line of Quantity units.                          *)
(*                                                                         *)
(* A definition marked DEVIATION is not the code: it is a plausible bug    *)
(* that a property is shown to catch.                                      *)
(***************************************************************************)
EXTENDS Integers, FiniteSets, Sums, OrderStateMachine

CONSTANTS
  Quantity,        \* units ordered on the line
  FulfillmentIds,  \* shipments the order can have (bound)
  ReturnIds,       \* return requests the order can have (bound)
  Requests,        \* read-then-write requests that can be in flight (bound)
  MaxAsked         \* units one payload can ask for (bound)

ASSUME QuantityAssumption == Quantity \in Nat \ {0}
ASSUME FiniteIdsAssumption == IsFiniteSet(FulfillmentIds) /\ IsFiniteSet(ReturnIds)
ASSUME MaxAskedAssumption == MaxAsked \in Nat

VARIABLES
  status,            \* order.status, or "Gone" once a draft is deleted
  fulfillmentStatus, \* order.fulfillmentStatus, a cached roll-up
  fulfillments,      \* order.fulfillments[], "None" where there is none yet
  fulfilledQuantity, \* products[0].fulfilledQuantity
  returns,           \* order.returns[], "None" where there is none yet
  returnedQuantity,  \* products[0].returnedQuantity
  refundedQuantity,  \* products[0].refundedQuantity
  req                \* what each in-flight request read and wants to write

lineVars == <<fulfillments, fulfilledQuantity>>
returnVars == <<returns, returnedQuantity, refundedQuantity>>
vars == <<status, fulfillmentStatus, lineVars, returnVars, req>>

(* --------------------------------- Types -------------------------------- *)

Statuses == OrderStatuses \cup {"Gone"}

OrderFulfillmentStatuses ==
  {"Unfulfilled", "Partially Fulfilled", "Fulfilled", "Returned", "Cancelled"}

FulfillmentRecord ==
  [status: FulfillmentStatuses \cup {"None"}, quantity: Nat]

ReturnRecord == [status: ReturnStatuses \cup {"None"}, quantity: Nat]

\* What a request has decided to write, from the copy of the order it read:
\* a status and the one it replaces, or all that the save() of a return sets.
StatusRequest ==
  [op: {"idle", "status"}, read: Statuses, target: Statuses, ret: {"none"},
   quantity: {0}, rollUp: {"Unfulfilled"}, returned: {0}, refunded: {0}]

ReturnRequest ==
  [op: {"newReturn"}, read: {"Gone"}, target: {"Requested"}, ret: {"none"}, quantity: Nat,
   rollUp: OrderFulfillmentStatuses, returned: Nat, refunded: Nat]

ReturnStatusRequest ==
  [op: {"returnStatus"}, read: {"Gone"}, target: ReturnStatuses, ret: ReturnIds, quantity: Nat,
   rollUp: OrderFulfillmentStatuses, returned: Nat, refunded: Nat]

Request == StatusRequest \cup ReturnRequest \cup ReturnStatusRequest

Idle == [op |-> "idle", read |-> "Gone", target |-> "Gone", ret |-> "none",
         quantity |-> 0, rollUp |-> "Unfulfilled", returned |-> 0, refunded |-> 0]

TypeOK ==
  /\ status \in Statuses
  /\ fulfillmentStatus \in OrderFulfillmentStatuses
  /\ fulfillments \in [FulfillmentIds -> FulfillmentRecord]
  /\ fulfilledQuantity \in Nat
  /\ returns \in [ReturnIds -> ReturnRecord]
  /\ returnedQuantity \in Nat
  /\ refundedQuantity \in Nat
  /\ req \in [Requests -> Request]

(* ------------------------- Pure helpers of order.js ---------------------- *)

AtMost(a, b) == IF a <= b THEN a ELSE b

Live == {"Pending", "Shipped", "Delivered"}
ShippedOrBeyond == {"Shipped", "Delivered"}

\* Units of the shipments (or returns) in `docs` whose status is in S.
Units(docs, S) ==
  SumOver([d \in DOMAIN docs |-> docs[d].quantity], {d \in DOMAIN docs : docs[d].status \in S})

StatusOfShipments(fs) ==
  IF \A f \in DOMAIN fs : fs[f].status \notin Live THEN "Pending"
  ELSE IF Units(fs, {"Delivered"}) >= Quantity THEN "Delivered"
  ELSE IF Units(fs, ShippedOrBeyond) >= Quantity THEN "Shipped"
  ELSE "Processing"

\* DEVIATION: shipments override a cancelled or refunded order.
recomputeOrderStatusFromFulfillments_Always(st, fs) == StatusOfShipments(fs)

recomputeOrderStatusFromFulfillments(st, fs) ==
  IF st \in {"Cancelled", "Refunded"} THEN st ELSE StatusOfShipments(fs)

\* DEVIATION: the order status stored as the fulfillment status.
recomputeOrderFulfillmentStatus_Swapped(st, fs, rs) == StatusOfShipments(fs)

recomputeOrderFulfillmentStatus(st, fs, rs) ==
  LET shipped == Units(fs, ShippedOrBeyond) IN
  IF st = "Cancelled" THEN "Cancelled"
  ELSE IF Units(rs, {"Refunded"}) >= Quantity /\ shipped >= Quantity THEN "Returned"
  ELSE IF shipped = 0 THEN "Unfulfilled"
  ELSE IF shipped >= Quantity THEN "Fulfilled"
  ELSE "Partially Fulfilled"

\* DEVIATION: shipments still awaiting dispatch do not use up the line.
computeUnfulfilledByLine_ShippedOnly == Quantity - Units(fulfillments, ShippedOrBeyond)

computeUnfulfilledByLine == Quantity - Units(fulfillments, Live)

getEffectiveFulfilledQuantityForLine ==
  IF fulfilledQuantity > 0 THEN AtMost(Quantity, fulfilledQuantity)
  ELSE IF Units(fulfillments, Live) > 0 THEN AtMost(Quantity, Units(fulfillments, Live))
  ELSE IF \/ status \in {"Shipped", "Delivered", "Refunded"}
          \/ fulfillmentStatus \in {"Fulfilled", "Returned"}
       THEN Quantity
  ELSE 0

(* ----------------------------- Initial states ---------------------------- *)

\* The documents that checkout, a zero-total checkout or a replacement, and
\* the draft editor create.
Init ==
  /\ status \in {"Pending", "Processing", "Draft"}
  /\ fulfillmentStatus = "Unfulfilled"
  /\ fulfillments = [f \in FulfillmentIds |-> [status |-> "None", quantity |-> 0]]
  /\ fulfilledQuantity = 0
  /\ returns = [t \in ReturnIds |-> [status |-> "None", quantity |-> 0]]
  /\ returnedQuantity = 0
  /\ refundedQuantity = 0
  /\ req = [r \in Requests |-> Idle]

(* ------------------- Transactions: one step, __v bumped ------------------ *)

Exists == status # "Gone"

\* DEVIATION: no optimisticConcurrency, pending saves stay valid.
bumpVersion_NoCheck == UNCHANGED req

\* A committed save() increments __v, so a pending save() that read earlier
\* will be refused (VersionError); it is dropped here, and a retry is a new
\* read.  A pending status write does not look at __v.
bumpVersion ==
  req' = [r \in Requests |-> IF req[r].op = "status" THEN req[r] ELSE Idle]

RollUp ==
  /\ fulfillmentStatus' = recomputeOrderFulfillmentStatus(status, fulfillments', returns)
  /\ status' = recomputeOrderStatusFromFulfillments(status, fulfillments')

\* A payload may name the line in several entries, of one unit at least.  Each is
\* compared with the same limit, and nothing compares their sum q with it.
eachFits(q, limit) == \E entries \in 1..q : q <= entries * limit

createFulfillmentService(f, q, markShipped) ==
  /\ Exists
  /\ fulfillments[f].status = "None"
  /\ eachFits(q, computeUnfulfilledByLine)
  /\ fulfillments' = [fulfillments EXCEPT ![f] =
       [status |-> IF markShipped THEN "Shipped" ELSE "Pending", quantity |-> q]]
  /\ fulfilledQuantity' = fulfilledQuantity + q
  /\ RollUp
  /\ bumpVersion
  /\ UNCHANGED returnVars

\* A status other than the current one, along the graph.
MayMoveShipment(f, to) ==
  /\ fulfillments[f].status \notin {"None", to}
  /\ guardTransition(FULFILLMENT_TRANSITIONS, fulfillments[f].status, to)

\* DEVIATION: a cancelled shipment keeps its units.
RolledBack_Never(f, to) == fulfilledQuantity

\* Cancelling a shipment gives its units back to the line.
RolledBack(f, to) ==
  IF to # "Cancelled" THEN fulfilledQuantity
  ELSE IF fulfillments[f].quantity <= fulfilledQuantity
       THEN fulfilledQuantity - fulfillments[f].quantity
  ELSE 0

updateFulfillmentStatusService(f, to) ==
  /\ Exists
  /\ MayMoveShipment(f, to)
  /\ fulfillments' = [fulfillments EXCEPT ![f].status = to]
  /\ fulfilledQuantity' = RolledBack(f, to)
  /\ RollUp
  /\ bumpVersion
  /\ UNCHANGED returnVars

\* The transactions below write through findOneAndUpdate: __v stays.
cancelOrderService ==
  /\ status \in {"Pending", "Processing"}
  /\ status' = "Cancelled"
  /\ UNCHANGED <<fulfillmentStatus, lineVars, returnVars, req>>

completeDraftOrderService ==
  /\ status = "Draft"
  /\ status' = "Pending"
  /\ UNCHANGED <<fulfillmentStatus, lineVars, returnVars, req>>

deleteDraftOrderService ==
  /\ status = "Draft"
  /\ status' = "Gone"
  /\ UNCHANGED <<fulfillmentStatus, lineVars, returnVars, req>>

(* ---------------- Requests that read first and write later --------------- *)

Send(r, request) ==
  /\ Exists
  /\ req[r] = Idle
  /\ req' = [req EXCEPT ![r] = request]
  /\ UNCHANGED <<status, fulfillmentStatus, lineVars, returnVars>>

PatchTargets == {"Pending", "Processing", "Shipped", "Delivered", "Cancelled", "Refunded"}

\* DEVIATION: no guardTransition on the status PATCH.
MayPatch_NoGuard(to) == to # status

MayPatch(to) == to # status /\ guardTransition(ORDER_TRANSITIONS, status, to)

\* updateOrderStatusService up to its write: findOne, guard, no-op exit.
ReadForPatch(r, to) ==
  /\ MayPatch(to)
  /\ Send(r, [Idle EXCEPT !.op = "status", !.read = status, !.target = to])

\* Webhook (payment succeeded): a no-op move Processing -> Processing passes
\* its guard and is written too.  Manual verification advances a Pending
\* order only.  Whether the payment guard also passes is not modelled here.
ReadForPayment(r) ==
  /\ guardTransition(ORDER_TRANSITIONS, status, "Processing")
  /\ Send(r, [Idle EXCEPT !.op = "status", !.read = status, !.target = "Processing"])

\* findOneAndUpdate({_id}, {$set: {status}}): nothing if the draft is gone.
WriteStatus(r) ==
  /\ req[r].op = "status"
  /\ status' = IF Exists THEN req[r].target ELSE status
  /\ req' = [req EXCEPT ![r] = Idle]
  /\ UNCHANGED <<fulfillmentStatus, lineVars, returnVars>>

ReadForReturn(r, q) ==
  /\ eachFits(q, getEffectiveFulfilledQuantityForLine)
  /\ Send(r, [op |-> "newReturn", read |-> "Gone", target |-> "Requested",
       ret |-> "none", quantity |-> q,
       rollUp |-> recomputeOrderFulfillmentStatus(status, fulfillments, returns),
       returned |-> returnedQuantity, refunded |-> refundedQuantity])

\* DEVIATION: the counter advances on every save of the return's status.
Advance_EveryTime(counter, at, t, to) ==
  IF to = at
  THEN AtMost(counter + returns[t].quantity, getEffectiveFulfilledQuantityForLine)
  ELSE counter

\* A per-line counter advances once, on the return's entry into `at`.
Advance(counter, at, t, to) ==
  IF to = at /\ returns[t].status # at
  THEN AtMost(counter + returns[t].quantity, getEffectiveFulfilledQuantityForLine)
  ELSE counter

ReadForReturnStatus(r, t, to) ==
  /\ returns[t].status # "None"
  /\ guardTransition(RETURN_TRANSITIONS, returns[t].status, to)
  /\ Send(r, [op |-> "returnStatus", read |-> "Gone", target |-> to,
       ret |-> t, quantity |-> returns[t].quantity,
       rollUp |-> recomputeOrderFulfillmentStatus(status, fulfillments,
                    [returns EXCEPT ![t].status = to]),
       returned |-> Advance(returnedQuantity, "Received", t, to),
       refunded |-> Advance(refundedQuantity, "Refunded", t, to)])

\* save() of what request r computed; bumpVersion has dropped r if anyone
\* saved the order since r read it.
Save(r, t) ==
  /\ Exists
  /\ returns' = [returns EXCEPT ![t] =
       [status |-> req[r].target, quantity |-> req[r].quantity]]
  /\ fulfillmentStatus' = req[r].rollUp
  /\ returnedQuantity' = req[r].returned
  /\ refundedQuantity' = req[r].refunded
  /\ bumpVersion
  /\ UNCHANGED <<status, lineVars>>

createReturnService(r, t) ==
  /\ req[r].op = "newReturn"
  /\ returns[t].status = "None"
  /\ Save(r, t)

updateReturnStatusService(r) ==
  /\ req[r].op = "returnStatus"
  /\ Save(r, req[r].ret)

\* save() by an operation that leaves this state alone: notes, tags, addresses,
\* performPaymentAction, recordOrderNotified.  Other readers become stale.
SaveElsewhere ==
  /\ Exists
  /\ bumpVersion
  /\ UNCHANGED <<status, fulfillmentStatus, lineVars, returnVars>>

\* The connection is lost or the server stops between the read and the write.
Abandon(r) ==
  /\ req[r] # Idle
  /\ req' = [req EXCEPT ![r] = Idle]
  /\ UNCHANGED <<status, fulfillmentStatus, lineVars, returnVars>>

Next ==
  \/ \E f \in FulfillmentIds, q \in 1..MaxAsked, markShipped \in BOOLEAN :
       createFulfillmentService(f, q, markShipped)
  \/ \E f \in FulfillmentIds, to \in {"Shipped", "Delivered", "Cancelled"} :
       updateFulfillmentStatusService(f, to)
  \/ cancelOrderService
  \/ completeDraftOrderService
  \/ deleteDraftOrderService
  \/ SaveElsewhere
  \/ \E r \in Requests :
       \/ \E to \in PatchTargets : ReadForPatch(r, to)
       \/ ReadForPayment(r)
       \/ WriteStatus(r)
       \/ \E q \in 1..MaxAsked : ReadForReturn(r, q)
       \/ \E t \in ReturnIds, to \in ReturnStatuses :
            ReadForReturnStatus(r, t, to)
       \/ \E t \in ReturnIds : createReturnService(r, t)
       \/ updateReturnStatusService(r)
       \/ Abandon(r)

Spec == Init /\ [][Next]_vars

(* ------------------------------- Properties ------------------------------ *)

\* The per-line counter always says what the live shipments say: the two
\* places that count fulfilled units (the line and computeUnfulfilledByLine)
\* never drift apart through partial shipments and cancellations.
FulfilledCounterExact == fulfilledQuantity = Units(fulfillments, Live)

\* "Validates that requested quantities don't exceed the unfulfilled remainder
\* per line" (createFulfillmentService): no line is shipped beyond its quantity.
FulfilledWithinOrdered == Units(fulfillments, Live) <= Quantity

\* What the code keeps of it: units beyond the line come from a single payload
\* that named the line more than once.  Without some one live shipment the
\* others stay below the line, so an excess never builds up over shipments,
\* cancellations and the re-use of the units they free.
ExcessInOneShipment ==
  Units(fulfillments, Live) > Quantity =>
    \E f \in FulfillmentIds :
      /\ fulfillments[f].status \in Live
      /\ Units(fulfillments, Live) - fulfillments[f].quantity < Quantity

\* "Cancelled and Refunded are terminal" (utils/orderStateMachine.js).
TerminalStatusesStay ==
  [][\A s \in {"Cancelled", "Refunded"} : status = s => status' = s]_vars

\* What the code keeps of it: only a status write that was decided before the
\* order became terminal can take it out again.  Shipments, returns and any
\* request that reads the terminal status cannot.
TerminalLostOnlyToStaleWrite ==
  [][(status \in {"Cancelled", "Refunded"} /\ status' # status) =>
        \E r \in Requests :
          req[r].op = "status" /\ req[r].read # status /\ status' = req[r].target]_vars

\* Seen from outside, the order's status follows OrderStatus: shipments move it
\* only while it is not terminal, and every other change is a transaction or a
\* write that was decided along the graph.
decided ==
  {<<req[r].read, req[r].target>> : r \in {s \in Requests : req[s].op = "status"}}

OrderView == INSTANCE OrderStatus

StatusFollowsSpec == OrderView!Spec

\* The stored roll-up is the one the shipments and returns give: a save()
\* computed from an older copy of the order is never accepted.  (An order
\* whose roll-up says "Cancelled" keeps it until the next recomputation.)
FulfillmentStatusMatchesShipments ==
  fulfillmentStatus # "Cancelled" =>
    fulfillmentStatus = recomputeOrderFulfillmentStatus("Pending", fulfillments, returns)

\* A return advances each counter at most once, even when two requests move
\* the same return concurrently ("so re-saving the same record won't
\* double-count", updateReturnStatusService).
ReturnsCountedOnce ==
  /\ returnedQuantity <= Units(returns, {"Received", "Refunded"})
  /\ refundedQuantity <= Units(returns, {"Refunded"})

============================================================================
