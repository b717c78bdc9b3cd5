------------------------- MODULE PaymentSettlement --------------------------
(***************************************************************************)
(* The money of one order: order.paymentStatus, order.refundedAmount and   *)
(* the Payment rows, as changed by Stripe's webhook, manual verification,  *)
(* refunds, cash on delivery and the payment actions of the dashboard      *)
(* (controllers/payment.js, services/order.js).                            *)
(*                                                                         *)
(* Payment actions and shipments are transactions, one step each.  All the *)
(* others read the order, write it later, and create the Payment row later *)
(* still, each in a separate database call: a handler is between two calls *)
(* in the states of this module, and the server may stop there.  Stripe    *)
(* delivers an event at least once and in any order, until it is answered  *)
(* 200.                                                                    *)
(*                                                                         *)
(* Of the order's own status only what concerns Stripe is here, whether it *)
(* can move to Processing, and it may change at any time (OrderLifecycle   *)
(* has the rest).  Refunds take the manual path only: the order schema     *)
(* declares no paymentIntentId, so no order read from the database carries *)
(* one.                                                                    *)
(*                                                                         *)
(* A definition marked DEVIATION is not the code: it is a plausible bug    *)
(* that a property is shown to catch.                                      *)
(***************************************************************************)
EXTENDS Integers, FiniteSets, Sums, OrderStateMachine

CONSTANTS
  Handlers,       \* requests that can be in flight at a time (bound)
  SuccessEvents,  \* payment_intent.succeeded, each of its own intent
  FailureEvents,  \* payment_intent.payment_failed
  AuthEvents,     \* payment_intent.amount_capturable_updated
  Total,          \* order.totalAmount
  MaxVerified,    \* rows of manual verification (bound)
  MaxCrashes      \* times the server stops in a handler (bound)

ASSUME TotalAssumption == Total \in Nat \ {0}
ASSUME HandlersAssumption == IsFiniteSet(Handlers)
ASSUME BoundsAssumption == MaxVerified \in Nat /\ MaxCrashes \in Nat

VARIABLES
  paymentStatus,  \* order.paymentStatus
  refundedAmount, \* order.refundedAmount
  processable,    \* order.status passes guardTransition to "Processing"
  recorded,       \* events with a Payment row (unique by eventId)
  verifiedRows,   \* completed rows of manual verification, each with its own id
  nullRow,        \* is the tenant's one row without provider ids taken?
  refundRows,     \* sum of the order's refunded rows
  h,              \* what each handler in flight read and does next
  sent,           \* success events Stripe has sent
  acked,          \* success events answered with 200
  refused,        \* history: success events the guards turned down
  everPaid,       \* history: the order has been Paid
  lostRefunds,    \* history: refunds whose row a crash prevented
  crashes

orderVars == <<paymentStatus, refundedAmount, processable, everPaid>>
rowVars == <<recorded, verifiedRows, nullRow, refundRows, lostRefunds>>
stripeVars == <<sent, acked, refused>>
vars == <<orderVars, rowVars, stripeVars, h, crashes>>

Events == SuccessEvents \cup FailureEvents \cup AuthEvents

EventOps == {"checked", "success", "successRow", "failure", "auth"}
RefundOps == {"refund", "refundRow"}
Ops == {"idle", "verify", "verifyRow", "cod", "codRow"} \cup EventOps \cup RefundOps

Idle == [op |-> "idle", event |-> "none", read |-> "Not Paid", target |-> "Not Paid", amount |-> 0]

Handler == [op: Ops, event: Events \cup {"none"}, read: PaymentStatuses,
            target: PaymentStatuses, amount: Nat]

TypeOK ==
  /\ paymentStatus \in PaymentStatuses
  /\ refundedAmount \in Nat
  /\ processable \in BOOLEAN
  /\ recorded \subseteq SuccessEvents
  /\ verifiedRows \in Nat
  /\ nullRow \in {"free", "taken"}
  /\ refundRows \in Nat
  /\ h \in [Handlers -> Handler]
  /\ \A p \in Handlers :
       /\ h[p].op \in EventOps => h[p].event \in Events
       /\ h[p].op \in {"success", "successRow"} => h[p].event \in SuccessEvents
       /\ h[p].op \in RefundOps => h[p].amount \in 1..Total
  /\ sent \subseteq SuccessEvents
  /\ acked \subseteq SuccessEvents
  /\ refused \subseteq SuccessEvents
  /\ everPaid \in BOOLEAN
  /\ lostRefunds \in Nat
  /\ crashes \in Nat

Init ==
  /\ paymentStatus = "Not Paid"
  /\ refundedAmount = 0
  /\ processable = TRUE
  /\ recorded = {}
  /\ verifiedRows = 0
  /\ nullRow = "free"
  /\ refundRows = 0
  /\ h = [p \in Handlers |-> Idle]
  /\ sent = {}
  /\ acked = {}
  /\ refused = {}
  /\ everPaid = FALSE
  /\ lostRefunds = 0
  /\ crashes = 0

(* ------------------------------- Handlers -------------------------------- *)

mayPay(to) == guardTransition(PAYMENT_TRANSITIONS, paymentStatus, to)

SetPayment(to) ==
  /\ paymentStatus' = to
  /\ everPaid' = (everPaid \/ to = "Paid")

Begin(p, request) ==
  /\ h[p] = Idle
  /\ h' = [h EXCEPT ![p] = request]

GoTo(p, op) ==
  h' = [h EXCEPT ![p] = [Idle EXCEPT !.op = op, !.event = h[p].event, !.amount = h[p].amount]]

Done(p) == h' = [h EXCEPT ![p] = Idle]

(* ---------------------------- Stripe's webhook --------------------------- *)

\* A payment is captured.  Failures and authorizations may be delivered at any
\* time.
StripeSends(e) ==
  /\ e \in SuccessEvents \ sent
  /\ sent' = sent \cup {e}
  /\ UNCHANGED <<orderVars, rowVars, acked, refused, h, crashes>>

\* Payment.findOne({eventId}): a recorded event is acknowledged at once.
CheckEvent(p, e) ==
  /\ e \in SuccessEvents => e \in sent
  /\ IF e \in recorded
     THEN h[p] = Idle /\ acked' = acked \cup {e} /\ UNCHANGED h
     ELSE Begin(p, [Idle EXCEPT !.op = "checked", !.event = e]) /\ UNCHANGED acked
  /\ UNCHANGED <<orderVars, rowVars, sent, refused, crashes>>

Acknowledge(p) ==
  /\ acked' = acked \cup ({h[p].event} \cap SuccessEvents)
  /\ Done(p)

\* DEVIATION: a payment that is already Paid is taken for a processed event.
accepted_PaidIsProcessed(e) ==
  IF e \in SuccessEvents THEN paymentStatus # "Paid" /\ mayPay("Paid") /\ processable
  ELSE mayPay(IF e \in FailureEvents THEN "Failed" ELSE "Authorized")

\* The guards on the order as it is; a no-op move passes.
accepted(e) ==
  IF e \in SuccessEvents THEN mayPay("Paid") /\ processable
  ELSE mayPay(IF e \in FailureEvents THEN "Failed" ELSE "Authorized")

ReadOrderForEvent(p) ==
  /\ h[p].op = "checked"
  /\ accepted(h[p].event)
  /\ h' = [h EXCEPT ![p].read = paymentStatus,
                    ![p].op = IF h[p].event \in SuccessEvents THEN "success"
                              ELSE IF h[p].event \in FailureEvents THEN "failure"
                              ELSE "auth"]
  /\ UNCHANGED <<orderVars, rowVars, stripeVars, crashes>>

\* A guard rejects the event: it is answered 200 and dropped.
RefuseEvent(p) ==
  /\ h[p].op = "checked"
  /\ ~accepted(h[p].event)
  /\ refused' = IF mayPay("Paid") /\ processable THEN refused
                ELSE refused \cup ({h[p].event} \cap SuccessEvents)
  /\ Acknowledge(p)
  /\ UNCHANGED <<orderVars, rowVars, sent, crashes>>

\* findByIdAndUpdate(orderId, {paymentStatus: "Paid", status: "Processing"})
WriteSuccess(p) ==
  /\ h[p].op = "success"
  /\ SetPayment("Paid")
  /\ processable' = TRUE
  /\ GoTo(p, "successRow")
  /\ UNCHANGED <<refundedAmount, rowVars, stripeVars, crashes>>

\* Payment.create; the unique index refuses a second row of the event, and the
\* webhook then answers 400.
CreateSuccessRow(p) ==
  /\ h[p].op = "successRow"
  /\ recorded' = recorded \cup {h[p].event}
  /\ IF h[p].event \in recorded THEN Done(p) /\ UNCHANGED acked ELSE Acknowledge(p)
  /\ UNCHANGED <<orderVars, verifiedRows, nullRow, refundRows, lostRefunds, sent, refused, crashes>>

\* No row is created for a failed payment.
WriteFailure(p) ==
  /\ h[p].op = "failure"
  /\ SetPayment("Failed")
  /\ Acknowledge(p)
  /\ UNCHANGED <<refundedAmount, processable, rowVars, sent, refused, crashes>>

\* The row's status "authorized" is not in the schema's enum, so Payment.create
\* always throws after the order is written: answered 400, never recorded.
WriteAuthorization(p) ==
  /\ h[p].op = "auth"
  /\ SetPayment("Authorized")
  /\ Done(p)
  /\ UNCHANGED <<refundedAmount, processable, rowVars, stripeVars, crashes>>

(* -------------------------- Manual verification -------------------------- *)

\* A Paid order passes too, as a no-op move.
ReadForVerify(p) ==
  /\ verifiedRows < MaxVerified  \* bound
  /\ mayPay("Paid")
  /\ Begin(p, [Idle EXCEPT !.op = "verify", !.read = paymentStatus])
  /\ UNCHANGED <<orderVars, rowVars, stripeVars, crashes>>

\* DEVIATION: findOneAndUpdate by _id alone.
stillAsRead_Unchecked(p) == TRUE

\* findOneAndUpdate({_id, paymentStatus: prevPaymentStatus})
stillAsRead(p) == paymentStatus = h[p].read

\* An order that was Pending when read also becomes Processing.
WriteVerified(p) ==
  /\ h[p].op = "verify"
  /\ IF stillAsRead(p)
     THEN SetPayment("Paid") /\ processable' \in {processable, TRUE} /\ GoTo(p, "verifyRow")
     ELSE Done(p) /\ UNCHANGED <<paymentStatus, processable, everPaid>>
  /\ UNCHANGED <<refundedAmount, rowVars, stripeVars, crashes>>

CreateVerifiedRow(p) ==
  /\ h[p].op = "verifyRow"
  /\ verifiedRows' = verifiedRows + 1
  /\ Done(p)
  /\ UNCHANGED <<orderVars, recorded, nullRow, refundRows, lostRefunds, stripeVars, crashes>>

(* --------------------------- Cash on delivery ---------------------------- *)

\* The status PATCH from Shipped to Delivered of a COD order that is not Paid.
ReadForDelivery(p) ==
  /\ ~processable
  /\ paymentStatus # "Paid"
  /\ Begin(p, [Idle EXCEPT !.op = "cod"])
  /\ UNCHANGED <<orderVars, rowVars, stripeVars, crashes>>

WriteDelivered(p) ==
  /\ h[p].op = "cod"
  /\ SetPayment("Paid")
  /\ processable' = FALSE
  /\ GoTo(p, "codRow")
  /\ UNCHANGED <<refundedAmount, rowVars, stripeVars, crashes>>

\* The row has neither providerTransactionId nor eventId.  The compound sparse
\* indexes count both as null, so a tenant has room for one such row; the
\* error of the second is logged and forgotten.
CreateCodRow(p) ==
  /\ h[p].op = "codRow"
  /\ nullRow' = "taken"
  /\ Done(p)
  /\ UNCHANGED <<orderVars, recorded, verifiedRows, refundRows, lostRefunds, stripeVars, crashes>>

\* The shipment that completes a COD delivery settles in its transaction: the
\* row's error aborts it, and the delivery with it.
updateFulfillmentStatusService ==
  /\ paymentStatus # "Paid"
  /\ nullRow = "free"
  /\ nullRow' = "taken"
  /\ SetPayment("Paid")
  /\ processable' = FALSE
  /\ UNCHANGED <<refundedAmount, recorded, verifiedRows, refundRows, lostRefunds, stripeVars, h, crashes>>

\* Another order of the tenant creates such a row first.
OtherOrderRow ==
  /\ nullRow = "free"
  /\ nullRow' = "taken"
  /\ UNCHANGED <<orderVars, recorded, verifiedRows, refundRows, lostRefunds, stripeVars, h, crashes>>

(* -------------------- Payment actions (one transaction) ------------------ *)

performPaymentAction(target, record) ==
  /\ mayPay(target) /\ paymentStatus # target
  /\ record => target = "Paid" /\ nullRow = "free"
  /\ nullRow' = IF record THEN "taken" ELSE nullRow
  /\ SetPayment(target)
  /\ UNCHANGED <<refundedAmount, processable, recorded, verifiedRows, refundRows, lostRefunds, stripeVars, h, crashes>>

(* ----------------------- Other writers of the order ---------------------- *)

OrderMoves ==
  /\ processable' = ~processable
  /\ UNCHANGED <<paymentStatus, refundedAmount, everPaid, rowVars, stripeVars, h, crashes>>

(* -------------------------------- Refunds -------------------------------- *)

maxRefundable == Total - refundedAmount

\* DEVIATION: nothing left to refund is not an error.
refundable_Always == TRUE

refundable == maxRefundable > 0

smaller(a, b) == IF a <= b THEN a ELSE b

\* DEVIATION: any refund marks the order Refunded.
statusAfter_Always(amount) == "Refunded"

statusAfter(amount) ==
  IF refundedAmount + amount >= Total THEN "Refunded" ELSE "Partially Refunded"

\* DEVIATION: any order can be refunded.
mayRefund_Unguarded(amount) == TRUE

mayRefund(amount) == mayPay(statusAfter(amount))

ReadForRefund(p, requested) ==
  LET amount == smaller(requested, maxRefundable) IN
  /\ refundable
  /\ mayRefund(amount)
  /\ Begin(p, [op |-> "refund", event |-> "none", read |-> paymentStatus,
               target |-> statusAfter(amount), amount |-> amount])
  /\ UNCHANGED <<orderVars, rowVars, stripeVars, crashes>>

\* DEVIATION: the cap is checked only on the amount that was read.
fits_AsRead(amount) == TRUE

\* $expr: refundedAmount + amount <= totalAmount, on the stored document.
fits(amount) == refundedAmount + amount <= Total

\* DEVIATION: a refused reservation goes on to create its row.
afterConflict_Ignored(p) == GoTo(p, "refundRow")

afterConflict(p) == Done(p)

ReserveRefund(p) ==
  /\ h[p].op = "refund"
  /\ IF fits(h[p].amount)
     THEN /\ refundedAmount' = refundedAmount + h[p].amount
          /\ SetPayment(h[p].target)
          /\ GoTo(p, "refundRow")
     ELSE afterConflict(p) /\ UNCHANGED <<paymentStatus, refundedAmount, everPaid>>
  /\ UNCHANGED <<processable, rowVars, stripeVars, crashes>>

CreateRefundRow(p) ==
  /\ h[p].op = "refundRow"
  /\ refundRows' = refundRows + h[p].amount
  /\ Done(p)
  /\ UNCHANGED <<orderVars, recorded, verifiedRows, nullRow, lostRefunds, stripeVars, crashes>>

(* --------------------------------- Crash --------------------------------- *)

Crash(p) ==
  /\ h[p] # Idle
  /\ crashes < MaxCrashes  \* bound
  /\ crashes' = crashes + 1
  /\ lostRefunds' = lostRefunds + (IF h[p].op = "refundRow" THEN h[p].amount ELSE 0)
  /\ Done(p)
  /\ UNCHANGED <<orderVars, recorded, verifiedRows, nullRow, refundRows, stripeVars>>

\* What a handler in flight does next unless the server stops.
Continue(p) ==
  \/ ReadOrderForEvent(p)
  \/ RefuseEvent(p)
  \/ WriteSuccess(p)
  \/ CreateSuccessRow(p)
  \/ WriteFailure(p)
  \/ WriteAuthorization(p)
  \/ WriteVerified(p)
  \/ CreateVerifiedRow(p)
  \/ WriteDelivered(p)
  \/ CreateCodRow(p)
  \/ ReserveRefund(p)
  \/ CreateRefundRow(p)

Next ==
  \/ \E e \in SuccessEvents : StripeSends(e)
  \/ \E p \in Handlers :
       \/ \E e \in Events : CheckEvent(p, e)
       \/ Continue(p)
       \/ ReadForVerify(p)
       \/ ReadForDelivery(p)
       \/ \E requested \in 1..Total : ReadForRefund(p, requested)
       \/ Crash(p)
  \/ updateFulfillmentStatusService
  \/ OtherOrderRow
  \/ OrderMoves
  \/ \E target \in {"Paid", "Failed", "Voided"}, record \in BOOLEAN :
       performPaymentAction(target, record)

Spec == Init /\ [][Next]_vars

\* A handler that is not interrupted finishes, and Stripe delivers an event
\* again and again until it is answered with 200, other traffic or not.
Fairness ==
  /\ \A p \in Handlers : WF_vars(Continue(p))
  /\ \A e \in SuccessEvents :
       SF_vars(e \notin acked /\ \E p \in Handlers : CheckEvent(p, e))

FairSpec == Spec /\ Fairness

(* ------------------------------- Properties ------------------------------ *)

\* However refunds interleave, the order is never refunded for more than its
\* total ("prevents two admins from over-refunding the same order",
\* schemas/store/order.js).
RefundsWithinTotal == refundedAmount <= Total

\* The two records of refunds, order.refundedAmount and the Payment rows, agree
\* up to the refunds in flight and those a crash cut off before their row.
inFlight == {p \in Handlers : h[p].op = "refundRow"}

RefundLedgerExact ==
  refundedAmount = refundRows + lostRefunds + SumOver([p \in Handlers |-> h[p].amount], inFlight)

\* Only an order that has been paid is ever refunded, even when a webhook or
\* another member of staff changes it in the middle of the refund.
RefundsOnlyOfPaidOrders == refundedAmount > 0 => everPaid

\* An order is marked Refunded only by the refund that exhausts its total,
\* although each refund computes the mark from an amount it read earlier.
RefundedMeansAll == paymentStatus = "Refunded" => refundedAmount = Total

\* What is left of "Refunded: [], Voided: []" in PAYMENT_TRANSITIONS: such a
\* status is lost only to a webhook event or refund that read another status,
\* or to the settlement of a cash-on-delivery order, which creates its row in
\* the same step when a shipment does it.
SettledLostOnlyToStaleWrite ==
  [][(paymentStatus \in {"Refunded", "Voided"} /\ paymentStatus' # paymentStatus) =>
       \/ \E p \in Handlers :
            \/ h[p].op \in {"success", "failure", "auth", "refund"} /\ h[p].read # paymentStatus
            \/ h[p].op = "cod"
       \/ nullRow = "free" /\ nullRow' = "taken"]_vars

\* A captured payment is never forgotten: whatever crashes and duplicates, its
\* event ends up recorded in a Payment row unless the guards refused it.
CapturesSettle ==
  \A e \in SuccessEvents : e \in sent ~> e \in recorded \cup refused

============================================================================
