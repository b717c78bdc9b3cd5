---------------------- MODULE PaymentSettlementProofs -----------------------
(***************************************************************************)
(* What PaymentSettlement guarantees for every number of requests, events  *)
(* and crashes, and every order total.                                     *)
(***************************************************************************)
EXTENDS PaymentSettlement, SumsProofs, TLAPS

(* ---------------------------- Type correctness --------------------------- *)

LEMMA IdleType ==
  /\ Idle \in Handler
  /\ Idle.op = "idle" /\ Idle.event = "none" /\ Idle.amount = 0
BY DEF Idle, Handler, Ops, PaymentStatuses

\* What a handler may become: a type-correct record that Slot accepts.
SlotOK(r) ==
  /\ r \in Handler
  /\ r.op \in EventOps => r.event \in Events
  /\ r.op \in {"success", "successRow"} => r.event \in SuccessEvents
  /\ r.op \in RefundOps => r.amount \in 1..Total

LEMMA SlotChange ==
  ASSUME TypeOK, NEW p \in Handlers, NEW r, SlotOK(r), h' = [h EXCEPT ![p] = r]
  PROVE  /\ h' \in [Handlers -> Handler]
         /\ \A q \in Handlers : SlotOK(h'[q])
BY DEF TypeOK, SlotOK

LEMMA IdleSlot == SlotOK(Idle)
BY IdleType DEF SlotOK, EventOps, RefundOps

LEMMA NextSlot ==
  ASSUME TypeOK, NEW p \in Handlers, NEW op \in Ops,
         op \in EventOps => h[p].event \in Events,
         op = "success" \/ op = "successRow" => h[p].event \in SuccessEvents,
         op \in RefundOps => h[p].amount \in 1..Total
  PROVE  SlotOK([Idle EXCEPT !.op = op, !.event = h[p].event, !.amount = h[p].amount])
BY DEF TypeOK, SlotOK, Handler, Idle, PaymentStatuses, Events

LEMMA RefundSlot ==
  ASSUME NEW read \in PaymentStatuses, NEW target \in PaymentStatuses, NEW amount \in 1..Total
  PROVE  SlotOK([op |-> "refund", event |-> "none", read |-> read, target |-> target, amount |-> amount])
<1>1. amount \in Nat
  BY TotalAssumption
<1> QED BY <1>1 DEF SlotOK, Handler, Ops, EventOps, RefundOps

LEMMA SlotsTyped ==
  TypeOK => h \in [Handlers -> Handler] /\ \A q \in Handlers : SlotOK(h[q])
BY DEF TypeOK, SlotOK

\* Everything but the handlers.
StateOK ==
  /\ paymentStatus \in PaymentStatuses
  /\ refundedAmount \in Nat
  /\ processable \in BOOLEAN
  /\ recorded \subseteq SuccessEvents
  /\ verifiedRows \in Nat
  /\ nullRow \in {"free", "taken"}
  /\ refundRows \in Nat
  /\ sent \subseteq SuccessEvents
  /\ acked \subseteq SuccessEvents
  /\ refused \subseteq SuccessEvents
  /\ everPaid \in BOOLEAN
  /\ lostRefunds \in Nat
  /\ crashes \in Nat

LEMMA TypeParts ==
  TypeOK <=> StateOK /\ h \in [Handlers -> Handler] /\ \A q \in Handlers : SlotOK(h[q])
BY DEF TypeOK, StateOK, SlotOK

\* Any step changes at most one handler, to a type-correct record.
LEMMA SlotsStep == TypeOK /\ [Next]_vars => h' \in [Handlers -> Handler] /\ \A q \in Handlers : SlotOK(h'[q])
<1> SUFFICES ASSUME TypeOK, [Next]_vars
             PROVE  h' \in [Handlers -> Handler] /\ \A q \in Handlers : SlotOK(h'[q])
  OBVIOUS
<1> USE SlotsTyped
<1>1. CASE UNCHANGED h
  BY <1>1
<1>2. ASSUME NEW p \in Handlers, Done(p)
      PROVE  h' \in [Handlers -> Handler] /\ \A q \in Handlers : SlotOK(h'[q])
  BY <1>2, IdleSlot, SlotChange DEF Done
<1>3. ASSUME NEW p \in Handlers, NEW op \in {"successRow", "verifyRow", "codRow", "refundRow"}, GoTo(p, op),
             op = "successRow" => h[p].event \in SuccessEvents,
             op = "refundRow" => h[p].amount \in 1..Total
      PROVE  h' \in [Handlers -> Handler] /\ \A q \in Handlers : SlotOK(h'[q])
  BY <1>3, NextSlot, SlotChange DEF GoTo, Ops, EventOps, RefundOps, Events
<1>4. ASSUME NEW p \in Handlers, NEW e \in Events, Begin(p, [Idle EXCEPT !.op = "checked", !.event = e])
      PROVE  h' \in [Handlers -> Handler] /\ \A q \in Handlers : SlotOK(h'[q])
  <2>1. SlotOK([Idle EXCEPT !.op = "checked", !.event = e])
    BY DEF SlotOK, Handler, Idle, Ops, EventOps, RefundOps, PaymentStatuses
  <2> QED BY <1>4, <2>1, SlotChange DEF Begin
<1>5. ASSUME NEW p \in Handlers, ReadForVerify(p) \/ ReadForDelivery(p)
      PROVE  h' \in [Handlers -> Handler] /\ \A q \in Handlers : SlotOK(h'[q])
  <2>1. paymentStatus \in PaymentStatuses
    BY DEF TypeOK
  <2>2. SlotOK([Idle EXCEPT !.op = "verify", !.read = paymentStatus]) /\ SlotOK([Idle EXCEPT !.op = "cod"])
    BY <2>1 DEF SlotOK, Handler, Idle, Ops, EventOps, RefundOps, PaymentStatuses
  <2> QED BY <1>5, <2>2, SlotChange DEF ReadForVerify, ReadForDelivery, Begin
<1>6. ASSUME NEW p \in Handlers, NEW requested \in 1..Total, ReadForRefund(p, requested)
      PROVE  h' \in [Handlers -> Handler] /\ \A q \in Handlers : SlotOK(h'[q])
  <2> DEFINE amount == smaller(requested, maxRefundable)
  <2>1. amount \in 1..Total
    BY <1>6, TotalAssumption DEF ReadForRefund, refundable, maxRefundable, smaller, TypeOK
  <2>2. paymentStatus \in PaymentStatuses /\ statusAfter(amount) \in PaymentStatuses
    BY DEF TypeOK, statusAfter, PaymentStatuses
  <2> HIDE DEF amount
  <2>3. SlotOK([op |-> "refund", event |-> "none", read |-> paymentStatus,
                target |-> statusAfter(amount), amount |-> amount])
    BY <2>1, <2>2, RefundSlot
  <2> USE DEF amount
  <2> QED BY <1>6, <2>3, SlotChange DEF ReadForRefund, Begin
<1>7. ASSUME NEW p \in Handlers, ReadOrderForEvent(p)
      PROVE  h' \in [Handlers -> Handler] /\ \A q \in Handlers : SlotOK(h'[q])
  <2> DEFINE op == IF h[p].event \in SuccessEvents THEN "success"
                   ELSE IF h[p].event \in FailureEvents THEN "failure"
                   ELSE "auth"
             r == [h[p] EXCEPT !.read = paymentStatus, !.op = op]
  <2>1. h[p] \in Handler /\ h[p].event \in Events /\ paymentStatus \in PaymentStatuses
    BY <1>7 DEF ReadOrderForEvent, TypeOK, EventOps
  <2>2. op \in {"success", "failure", "auth"} /\ (op = "success" => h[p].event \in SuccessEvents)
    OBVIOUS
  <2> HIDE DEF op
  <2>3. SlotOK(r)
    BY <2>1, <2>2 DEF SlotOK, Handler, Ops, EventOps, RefundOps
  <2>4. h' = [h EXCEPT ![p] = r]
    BY <1>7 DEF ReadOrderForEvent, op
  <2> HIDE DEF r
  <2> QED BY <2>3, <2>4, SlotChange
<1>8. ASSUME NEW p \in Handlers, Continue(p)
      PROVE  h' \in [Handlers -> Handler] /\ \A q \in Handlers : SlotOK(h'[q])
  BY <1>2, <1>3, <1>7, <1>8
  DEF Continue, RefuseEvent, WriteSuccess, CreateSuccessRow, WriteFailure, WriteAuthorization,
      WriteVerified, CreateVerifiedRow, WriteDelivered, CreateCodRow, ReserveRefund, afterConflict,
      CreateRefundRow, Acknowledge, TypeOK, RefundOps
<1> QED BY <1>1, <1>2, <1>4, <1>5, <1>6, <1>8
        DEF Next, vars, StripeSends, CheckEvent, Crash, OtherOrderRow, OrderMoves, performPaymentAction,
            updateFulfillmentStatusService

LEMMA StateStep == TypeOK /\ [Next]_vars => StateOK'
<1> SUFFICES ASSUME TypeOK, [Next]_vars PROVE StateOK'
  OBVIOUS
<1> StateOK
  BY TypeParts
<1> USE DEF StateOK
<1>1. CASE UNCHANGED vars
  BY <1>1 DEF vars, orderVars, rowVars, stripeVars
<1>2. /\ \A p \in Handlers : h[p].event \in Events \cup {"none"} /\ h[p].amount \in Nat /\ h[p].target \in PaymentStatuses
      /\ \A p \in Handlers : h[p].op = "successRow" => h[p].event \in SuccessEvents
  BY DEF TypeOK, Handler
<1>3. \A to \in PaymentStatuses : SetPayment(to) => paymentStatus' \in PaymentStatuses /\ everPaid' \in BOOLEAN
  BY DEF SetPayment
<1>4. {"Paid", "Failed", "Authorized", "Voided"} \subseteq PaymentStatuses
  BY DEF PaymentStatuses
<1>5. ASSUME NEW p \in Handlers, Continue(p) PROVE StateOK'
  <2>1. CASE ReadOrderForEvent(p)
    BY <2>1 DEF ReadOrderForEvent, orderVars, rowVars, stripeVars
  <2>2. CASE RefuseEvent(p)
    BY <2>2 DEF RefuseEvent, Acknowledge, orderVars, rowVars
  <2>3. CASE WriteSuccess(p)
    BY <2>3, <1>3, <1>4 DEF WriteSuccess, rowVars, stripeVars
  <2>4. CASE CreateSuccessRow(p)
    BY <2>4, <1>2 DEF CreateSuccessRow, Acknowledge, orderVars
  <2>5. CASE WriteFailure(p)
    BY <2>5, <1>3, <1>4 DEF WriteFailure, Acknowledge, rowVars
  <2>6. CASE WriteAuthorization(p)
    BY <2>6, <1>3, <1>4 DEF WriteAuthorization, rowVars, stripeVars
  <2>7. CASE WriteVerified(p)
    <3>1. processable' \in BOOLEAN
      BY <2>7 DEF WriteVerified
    <3> QED BY <2>7, <3>1, <1>3, <1>4 DEF WriteVerified, rowVars, stripeVars
  <2>8. CASE CreateVerifiedRow(p) \/ CreateCodRow(p)
    BY <2>8 DEF CreateVerifiedRow, CreateCodRow, orderVars, stripeVars
  <2>9. CASE WriteDelivered(p)
    BY <2>9, <1>3, <1>4 DEF WriteDelivered, rowVars, stripeVars
  <2>10. CASE ReserveRefund(p)
    BY <2>10, <1>2, <1>3 DEF ReserveRefund, rowVars, stripeVars
  <2>11. CASE CreateRefundRow(p)
    BY <2>11, <1>2 DEF CreateRefundRow, orderVars, stripeVars
  <2> QED BY <1>5, <2>1, <2>2, <2>3, <2>4, <2>5, <2>6, <2>7, <2>8, <2>9, <2>10, <2>11 DEF Continue
<1>6. ASSUME NEW p \in Handlers, Crash(p) PROVE StateOK'
  <2>1. lostRefunds' \in Nat /\ crashes' \in Nat
    BY <1>6, <1>2 DEF Crash
  <2> QED BY <1>6, <2>1 DEF Crash, orderVars, stripeVars
<1>7. ASSUME NEW p \in Handlers, NEW e \in Events, CheckEvent(p, e) PROVE StateOK'
  BY <1>7 DEF CheckEvent, orderVars, rowVars
<1>8. ASSUME NEW target \in {"Paid", "Failed", "Voided"}, NEW record \in BOOLEAN,
             performPaymentAction(target, record)
      PROVE  StateOK'
  BY <1>8, <1>3, <1>4 DEF performPaymentAction, stripeVars
<1>9. CASE OtherOrderRow
  BY <1>9 DEF OtherOrderRow, orderVars, stripeVars
<1>10. CASE OrderMoves
  BY <1>10 DEF OrderMoves, rowVars, stripeVars
<1>13. CASE updateFulfillmentStatusService
  BY <1>13, <1>3, <1>4 DEF updateFulfillmentStatusService, stripeVars
<1>11. ASSUME NEW e \in SuccessEvents, StripeSends(e) PROVE StateOK'
  BY <1>11 DEF StripeSends, orderVars, rowVars
<1>12. CASE UNCHANGED <<orderVars, rowVars, stripeVars, crashes>>
  BY <1>12 DEF orderVars, rowVars, stripeVars
<1> QED BY <1>1, <1>5, <1>6, <1>7, <1>8, <1>9, <1>10, <1>11, <1>12, <1>13
        DEF Next, ReadForVerify, ReadForDelivery, ReadForRefund

\* The order, its rows and every request in flight are always well formed.
THEOREM TypeCorrect == Spec => []TypeOK
<1>1. Init => TypeOK
  <2> SUFFICES ASSUME Init PROVE TypeOK
    OBVIOUS
  <2>1. \A q \in Handlers : h[q] = Idle
    BY DEF Init
  <2>2. h \in [Handlers -> Handler]
    BY IdleType DEF Init
  <2>3. StateOK
    BY DEF Init, StateOK, PaymentStatuses
  <2> QED BY <2>1, <2>2, <2>3, IdleSlot, TypeParts
<1>2. TypeOK /\ [Next]_vars => TypeOK'
  BY SlotsStep, StateStep DEF TypeOK, StateOK, SlotOK
<1> QED BY <1>1, <1>2, PTL DEF Spec

(* --------------------------- What a step may do -------------------------- *)

Settled == {"Refunded", "Voided"}

\* The only moves the payment graph has into and out of the settled statuses.
LEMMA PaymentGraph ==
  ASSUME NEW to \in PaymentStatuses, paymentStatus \in PaymentStatuses, mayPay(to)
  PROVE  /\ paymentStatus \in Settled => to = paymentStatus
         /\ to \in {"Refunded", "Partially Refunded"}
              => paymentStatus \in {"Paid", "Partially Refunded", "Refunded"}
BY DEF mayPay, guardTransition, PAYMENT_TRANSITIONS, PaymentStatuses, Settled

\* What the read of a refund leaves in its handler.
StartsRefund(r) ==
  /\ r.op = "refund"
  /\ r.read = paymentStatus
  /\ paymentStatus \in {"Paid", "Partially Refunded", "Refunded"}
  /\ refundedAmount < Total
  /\ r.target = statusAfter(r.amount)

\* What a read before any other write of paymentStatus leaves.
StartsWrite(r) ==
  /\ r.op \in {"success", "failure", "auth", "verify"}
  /\ r.read = paymentStatus
  /\ paymentStatus \notin Settled

NoStart(r) ==
  r.op \in {"idle", "checked", "successRow", "verifyRow", "cod", "codRow", "refundRow"}

LEMMA GoToOp ==
  ASSUME NEW p, NEW op
  PROVE  [Idle EXCEPT !.op = op, !.event = h[p].event, !.amount = h[p].amount].op = op
BY DEF Idle

\* Whoever is about to write has just read the order, and found it movable.
LEMMA HandlerStep ==
  ASSUME TypeOK, [Next]_vars
  PROVE  \/ \A q \in Handlers : h'[q] = h[q] \/ NoStart(h'[q])
         \/ /\ UNCHANGED <<paymentStatus, refundedAmount, everPaid>>
            /\ \A q \in Handlers : h'[q] = h[q] \/ StartsWrite(h'[q]) \/ StartsRefund(h'[q])
<1> DEFINE Quiet == \A q \in Handlers : h'[q] = h[q] \/ NoStart(h'[q])
           Starts == /\ UNCHANGED <<paymentStatus, refundedAmount, everPaid>>
                     /\ \A q \in Handlers : h'[q] = h[q] \/ StartsWrite(h'[q]) \/ StartsRefund(h'[q])
<1> SUFFICES Quiet \/ Starts
  OBVIOUS
<1>t. h \in [Handlers -> Handler] /\ paymentStatus \in PaymentStatuses
  BY DEF TypeOK
<1>1. ASSUME NEW p \in Handlers, Done(p) PROVE Quiet
  BY <1>1, <1>t, IdleType DEF Done, NoStart
<1>2. ASSUME NEW p \in Handlers, NEW op \in {"successRow", "verifyRow", "codRow", "refundRow"}, GoTo(p, op)
      PROVE  Quiet
  BY <1>2, <1>t, GoToOp DEF GoTo, NoStart
<1>3. ASSUME NEW p \in Handlers, NEW e \in Events, Begin(p, [Idle EXCEPT !.op = "checked", !.event = e])
      PROVE  Quiet
  <2>1. [Idle EXCEPT !.op = "checked", !.event = e].op = "checked"
    BY DEF Idle
  <2> QED BY <1>3, <1>t, <2>1 DEF Begin, NoStart
<1>4. ASSUME NEW p \in Handlers, ReadForDelivery(p) PROVE Quiet
  <2>1. [Idle EXCEPT !.op = "cod"].op = "cod"
    BY DEF Idle
  <2> QED BY <1>4, <1>t, <2>1 DEF ReadForDelivery, Begin, NoStart
<1>5. ASSUME NEW p \in Handlers, ReadForVerify(p) PROVE Starts
  <2> DEFINE r == [Idle EXCEPT !.op = "verify", !.read = paymentStatus]
  <2>1. r.op = "verify" /\ r.read = paymentStatus
    BY DEF Idle
  <2>2. paymentStatus \notin Settled
    BY <1>5, <1>t, PaymentGraph DEF ReadForVerify, Settled, PaymentStatuses
  <2>3. StartsWrite(r)
    BY <2>1, <2>2 DEF StartsWrite
  <2> HIDE DEF r
  <2>4. h' = [h EXCEPT ![p] = r] /\ UNCHANGED <<paymentStatus, refundedAmount, everPaid>>
    BY <1>5 DEF ReadForVerify, Begin, orderVars, r
  <2> QED BY <2>3, <2>4, <1>t
<1>6. ASSUME NEW p \in Handlers, NEW requested \in 1..Total, ReadForRefund(p, requested) PROVE Starts
  <2> DEFINE amount == smaller(requested, maxRefundable)
             r == [op |-> "refund", event |-> "none", read |-> paymentStatus,
                   target |-> statusAfter(amount), amount |-> amount]
  <2>1. refundedAmount < Total
    BY <1>6, TotalAssumption DEF ReadForRefund, refundable, maxRefundable, TypeOK
  <2>2. statusAfter(amount) \in {"Refunded", "Partially Refunded"} /\ mayPay(statusAfter(amount))
    BY <1>6 DEF ReadForRefund, mayRefund, statusAfter
  <2>3. paymentStatus \in {"Paid", "Partially Refunded", "Refunded"}
    BY <2>2, <1>t, PaymentGraph DEF PaymentStatuses
  <2> HIDE DEF amount
  <2>4. StartsRefund(r)
    BY <2>1, <2>3 DEF StartsRefund
  <2>5. h' = [h EXCEPT ![p] = r] /\ UNCHANGED <<paymentStatus, refundedAmount, everPaid>>
    BY <1>6 DEF ReadForRefund, Begin, orderVars, amount
  <2> HIDE DEF r
  <2> QED BY <2>4, <2>5, <1>t
<1>7. ASSUME NEW p \in Handlers, ReadOrderForEvent(p) PROVE Starts
  <2> DEFINE op == IF h[p].event \in SuccessEvents THEN "success"
                   ELSE IF h[p].event \in FailureEvents THEN "failure"
                   ELSE "auth"
             r == [h[p] EXCEPT !.read = paymentStatus, !.op = op]
  <2>1. op \in {"success", "failure", "auth"}
    OBVIOUS
  <2>2. h' = [h EXCEPT ![p] = r] /\ UNCHANGED <<paymentStatus, refundedAmount, everPaid>>
    BY <1>7 DEF ReadOrderForEvent, orderVars
  <2>3. \E to \in {"Paid", "Failed", "Authorized"} : mayPay(to)
    BY <1>7 DEF ReadOrderForEvent, accepted
  <2>4. paymentStatus \notin Settled
    BY <2>3, <1>t, PaymentGraph DEF Settled, PaymentStatuses
  <2> HIDE DEF op
  <2>5. r.op = op /\ r.read = paymentStatus
    BY <1>t DEF Handler
  <2>6. StartsWrite(r)
    BY <2>1, <2>4, <2>5 DEF StartsWrite
  <2> HIDE DEF r
  <2> QED BY <2>2, <2>6, <1>t
<1>8. ASSUME NEW p \in Handlers, Continue(p) PROVE Quiet \/ Starts
  BY <1>1, <1>2, <1>7, <1>8
  DEF Continue, RefuseEvent, WriteSuccess, CreateSuccessRow, WriteFailure, WriteAuthorization,
      WriteVerified, CreateVerifiedRow, WriteDelivered, CreateCodRow, ReserveRefund, afterConflict,
      CreateRefundRow, Acknowledge
<1>9. CASE UNCHANGED h
  BY <1>9
<1> QED BY <1>1, <1>3, <1>4, <1>5, <1>6, <1>8, <1>9
        DEF Next, vars, StripeSends, CheckEvent, Crash, OtherOrderRow, OrderMoves, performPaymentAction,
            updateFulfillmentStatusService

\* Who writes the payment of the order, and how.
EventWrite(p) ==
  /\ h[p].op \in {"success", "failure", "auth"}
  /\ \E to \in {"Paid", "Failed", "Authorized"} : SetPayment(to)
  /\ UNCHANGED refundedAmount

VerifiedWrite(p) ==
  /\ h[p].op = "verify" /\ h[p].read = paymentStatus
  /\ SetPayment("Paid")
  /\ UNCHANGED refundedAmount

CodWrite(p) ==
  /\ h[p].op = "cod"
  /\ SetPayment("Paid")
  /\ UNCHANGED refundedAmount

ActionWrite ==
  /\ \E to \in {"Paid", "Failed", "Voided"} : mayPay(to) /\ SetPayment(to)
  /\ UNCHANGED refundedAmount

RefundWrite(p) ==
  /\ h[p].op = "refund"
  /\ refundedAmount + h[p].amount <= Total
  /\ refundedAmount' = refundedAmount + h[p].amount
  /\ SetPayment(h[p].target)

DeliveryWrite ==
  /\ nullRow = "free" /\ nullRow' = "taken"
  /\ SetPayment("Paid")
  /\ UNCHANGED refundedAmount

LEMMA MoneyStep ==
  ASSUME [Next]_vars
  PROVE  \/ UNCHANGED <<paymentStatus, refundedAmount, everPaid>>
         \/ ActionWrite
         \/ DeliveryWrite
         \/ \E p \in Handlers : \/ EventWrite(p)
                                \/ VerifiedWrite(p)
                                \/ CodWrite(p)
                                \/ RefundWrite(p)
<1> DEFINE Writes == \E p \in Handlers : EventWrite(p) \/ VerifiedWrite(p) \/ CodWrite(p) \/ RefundWrite(p)
           Same == UNCHANGED <<paymentStatus, refundedAmount, everPaid>>
<1>1. ASSUME NEW p \in Handlers, Continue(p) PROVE Same \/ Writes
  <2>1. CASE WriteSuccess(p) \/ WriteFailure(p) \/ WriteAuthorization(p)
    BY <2>1 DEF WriteSuccess, WriteFailure, WriteAuthorization, EventWrite
  <2>2. CASE WriteVerified(p)
    BY <2>2 DEF WriteVerified, stillAsRead, VerifiedWrite
  <2>3. CASE WriteDelivered(p)
    BY <2>3 DEF WriteDelivered, CodWrite
  <2>4. CASE ReserveRefund(p)
    BY <2>4 DEF ReserveRefund, fits, RefundWrite
  <2>5. CASE UNCHANGED orderVars
    BY <2>5 DEF orderVars
  <2> QED BY <1>1, <2>1, <2>2, <2>3, <2>4, <2>5
          DEF Continue, ReadOrderForEvent, RefuseEvent, CreateSuccessRow, CreateVerifiedRow, CreateCodRow,
              CreateRefundRow
<1>2. ASSUME NEW target \in {"Paid", "Failed", "Voided"}, NEW record \in BOOLEAN,
             performPaymentAction(target, record)
      PROVE  ActionWrite
  BY <1>2 DEF performPaymentAction, ActionWrite
<1>3. CASE OrderMoves
  BY <1>3 DEF OrderMoves
<1>4. CASE UNCHANGED orderVars
  BY <1>4 DEF orderVars
<1>5. CASE updateFulfillmentStatusService
  BY <1>5 DEF updateFulfillmentStatusService, DeliveryWrite
<1> QED BY <1>1, <1>2, <1>3, <1>4, <1>5
        DEF Next, vars, StripeSends, CheckEvent, ReadForVerify, ReadForDelivery, ReadForRefund, Crash, OtherOrderRow

(* --------------------------------- Refunds ------------------------------- *)

\* The invariant behind the refund theorems.  A reservation is not checked
\* against the status it replaces, so its handler must carry that its mark is
\* still right (refundedAmount only grows, so a refund that would exhaust the
\* total when it was read does so when it lands) ...
Marks == {"Partially Refunded", "Refunded"}

AmountInv ==
  /\ refundedAmount <= Total
  /\ paymentStatus = "Refunded" => refundedAmount = Total
  /\ \A p \in Handlers : h[p].op = "refund" =>
       /\ h[p].target \in Marks
       /\ h[p].target = "Refunded" => refundedAmount + h[p].amount >= Total

\* ... and that the order had been paid.
PaidInv ==
  /\ paymentStatus \in {"Paid", "Partially Refunded", "Refunded"} => everPaid
  /\ refundedAmount > 0 => everPaid
  /\ \A p \in Handlers : h[p].op = "refund" => everPaid

RefundInv == AmountInv /\ PaidInv

LEMMA InitRefundInv == Init => RefundInv
<1> SUFFICES ASSUME Init PROVE RefundInv
  OBVIOUS
<1>1. \A p \in Handlers : h[p].op = "idle"
  BY IdleType DEF Init
<1>2. refundedAmount = 0 /\ paymentStatus \notin {"Paid", "Partially Refunded", "Refunded"}
  BY DEF Init
<1>3. paymentStatus # "Refunded"
  BY <1>2
<1>4. refundedAmount <= Total /\ ~(refundedAmount > 0)
  <2>1. refundedAmount = 0
    BY <1>2
  <2> QED BY <2>1, TotalAssumption
<1>5. AmountInv
  BY <1>1, <1>3, <1>4 DEF AmountInv
<1>6. PaidInv
  BY <1>1, <1>2, <1>4 DEF PaidInv
<1> QED BY <1>5, <1>6 DEF RefundInv

\* The mark is Refunded only if the refund reaches the total.
LEMMA MarkOf ==
  ASSUME NEW amount
  PROVE  /\ statusAfter(amount) \in Marks
         /\ statusAfter(amount) = "Refunded" => refundedAmount + amount >= Total
BY DEF statusAfter, Marks

\* The kinds of step, as far as the amount is concerned.
LEMMA AmountStep ==
  ASSUME [Next]_vars
  PROVE  \/ /\ UNCHANGED refundedAmount
            /\ paymentStatus' = paymentStatus \/ paymentStatus' \in {"Paid", "Failed", "Authorized", "Voided"}
         \/ \E p \in Handlers : RefundWrite(p)
BY MoneyStep DEF ActionWrite, DeliveryWrite, EventWrite, VerifiedWrite, CodWrite, SetPayment

LEMMA NextAmountInv ==
  ASSUME TypeOK, TypeOK', AmountInv, [Next]_vars
  PROVE  AmountInv'
<1>0. /\ refundedAmount \in Nat /\ refundedAmount' \in Nat /\ Total \in Nat
      /\ \A p \in Handlers : h[p].amount \in Nat /\ h'[p].amount \in Nat
  BY TotalAssumption DEF TypeOK, Handler
<1>1. refundedAmount' >= refundedAmount /\ refundedAmount' <= Total
  BY <1>0, AmountStep DEF AmountInv, RefundWrite
<1>2. ASSUME paymentStatus' = "Refunded" PROVE refundedAmount' = Total
  <2>1. CASE \E p \in Handlers : RefundWrite(p)
    BY <1>0, <1>1, <1>2, <2>1 DEF AmountInv, RefundWrite, SetPayment
  <2> QED BY <1>2, <2>1, AmountStep DEF AmountInv
<1>3. ASSUME NEW p \in Handlers, h'[p].op = "refund"
      PROVE  /\ h'[p].target \in Marks
             /\ h'[p].target = "Refunded" => refundedAmount' + h'[p].amount >= Total
  <2>1. CASE h'[p] = h[p]
    BY <1>0, <1>1, <1>3, <2>1 DEF AmountInv
  <2>2. CASE StartsRefund(h'[p]) /\ UNCHANGED refundedAmount
    <3>1. h'[p].target = statusAfter(h'[p].amount)
      BY <2>2 DEF StartsRefund
    <3> QED BY <2>2, <3>1, MarkOf
  <2> QED BY <1>3, <2>1, <2>2, HandlerStep DEF NoStart, StartsWrite
<1> QED BY <1>1, <1>2, <1>3 DEF AmountInv

LEMMA NextPaidInv ==
  ASSUME TypeOK, AmountInv, PaidInv, [Next]_vars
  PROVE  PaidInv'
<1>1. everPaid => everPaid'
  BY MoneyStep DEF ActionWrite, DeliveryWrite, EventWrite, VerifiedWrite, CodWrite, RefundWrite, SetPayment
<1>2. ASSUME NEW p \in Handlers, RefundWrite(p) PROVE everPaid'
  BY <1>1, <1>2 DEF RefundWrite, PaidInv
<1>3. ASSUME NEW to \in {"Paid", "Failed", "Authorized", "Voided"}, SetPayment(to)
      PROVE  paymentStatus' \in {"Paid", "Partially Refunded", "Refunded"} => everPaid'
  BY <1>3 DEF SetPayment
<1>4. paymentStatus' \in {"Paid", "Partially Refunded", "Refunded"} => everPaid'
  BY <1>2, <1>3, MoneyStep DEF ActionWrite, DeliveryWrite, EventWrite, VerifiedWrite, CodWrite, PaidInv
<1>5. refundedAmount' > 0 => everPaid'
  BY <1>1, <1>2, AmountStep DEF PaidInv
<1>6. ASSUME NEW p \in Handlers, h'[p].op = "refund" PROVE everPaid'
  <2>1. CASE h'[p] = h[p]
    BY <1>1, <1>6, <2>1 DEF PaidInv
  <2>2. CASE StartsRefund(h'[p])
    BY <1>1, <2>2 DEF StartsRefund, PaidInv
  <2> QED BY <1>6, <2>1, <2>2, HandlerStep DEF NoStart, StartsWrite
<1> QED BY <1>4, <1>5, <1>6 DEF PaidInv

THEOREM RefundInvariant == Spec => [](TypeOK /\ RefundInv)
<1>1. Init => RefundInv
  BY InitRefundInv
<1>2. TypeOK /\ TypeOK' /\ RefundInv /\ [Next]_vars => RefundInv'
  BY NextAmountInv, NextPaidInv DEF RefundInv
<1> QED BY <1>1, <1>2, TypeCorrect, PTL DEF Spec

\* No interleaving of refunds, webhooks, verifications and crashes refunds more
\* than the order's total: the cap is re-checked by the write that uses it up.
THEOREM NeverOverRefunded == Spec => []RefundsWithinTotal
<1>1. TypeOK /\ RefundInv => RefundsWithinTotal
  BY DEF RefundInv, AmountInv, RefundsWithinTotal
<1> QED BY <1>1, RefundInvariant, PTL

\* Only money that came in goes out, although a refund never looks again at
\* the payment status it overwrites.
THEOREM OnlyPaidOrdersRefunded == Spec => []RefundsOnlyOfPaidOrders
<1>1. TypeOK /\ RefundInv => RefundsOnlyOfPaidOrders
  BY DEF RefundInv, PaidInv, RefundsOnlyOfPaidOrders
<1> QED BY <1>1, RefundInvariant, PTL

\* An order marked Refunded has been refunded in full, although the mark was
\* computed from an amount read before other refunds landed.
THEOREM RefundedIsExhausted == Spec => []RefundedMeansAll
<1>1. TypeOK /\ RefundInv => RefundedMeansAll
  BY DEF RefundInv, AmountInv, RefundedMeansAll
<1> QED BY <1>1, RefundInvariant, PTL

(* ---------------------------- Settled statuses --------------------------- *)

\* Whoever is about to write read an order that was not settled.
ReadsOpen ==
  \A p \in Handlers :
    h[p].op \in {"success", "failure", "auth", "verify", "refund"} => h[p].read \notin Settled

\* A step out of a settled status is a stale write or a cash-on-delivery one.
LEMMA SettledStep ==
  ASSUME TypeOK, ReadsOpen, [Next]_vars, paymentStatus \in Settled, paymentStatus' # paymentStatus
  PROVE  \/ \E p \in Handlers : \/ h[p].op \in {"success", "failure", "auth", "refund"} /\ h[p].read # paymentStatus
                                \/ h[p].op = "cod"
         \/ nullRow = "free" /\ nullRow' = "taken"
<1>1. ~ActionWrite
  <2>1. \A to \in {"Paid", "Failed", "Voided"} : mayPay(to) => to = paymentStatus
    BY PaymentGraph DEF PaymentStatuses, TypeOK
  <2> QED BY <2>1 DEF ActionWrite, SetPayment
<1>2. CASE DeliveryWrite
  BY <1>2 DEF DeliveryWrite
<1>3. CASE ~DeliveryWrite
  <2>1. PICK p \in Handlers : EventWrite(p) \/ VerifiedWrite(p) \/ CodWrite(p) \/ RefundWrite(p)
    BY <1>1, <1>3, MoneyStep
  <2> QED BY <2>1 DEF EventWrite, VerifiedWrite, CodWrite, RefundWrite, ReadsOpen
<1> QED BY <1>2, <1>3

\* A refunded or voided order stays so, except for the ways the property
\* names: no handler that reads it in such a status goes on to overwrite it.
THEOREM SettledOnlyLostToStaleWrites == Spec => SettledLostOnlyToStaleWrite
<1> DEFINE Excused ==
             \/ \E p \in Handlers :
                  \/ h[p].op \in {"success", "failure", "auth", "refund"} /\ h[p].read # paymentStatus
                  \/ h[p].op = "cod"
             \/ nullRow = "free" /\ nullRow' = "taken"
           Kept == (paymentStatus \in {"Refunded", "Voided"} /\ paymentStatus' # paymentStatus) => Excused
<1>1. Init => ReadsOpen
  <2> SUFFICES ASSUME Init PROVE ReadsOpen
    OBVIOUS
  <2>1. \A p \in Handlers : h[p].op = "idle"
    BY IdleType DEF Init
  <2> QED BY <2>1 DEF ReadsOpen
<1>2. TypeOK /\ RefundInv /\ ReadsOpen /\ [Next]_vars => ReadsOpen'
  <2> SUFFICES ASSUME TypeOK, RefundInv, ReadsOpen, [Next]_vars,
                      NEW p \in Handlers,
                      h'[p].op \in {"success", "failure", "auth", "verify", "refund"}
               PROVE  h'[p].read \notin Settled
    BY DEF ReadsOpen
  <2>1. CASE StartsWrite(h'[p])
    BY <2>1 DEF StartsWrite
  <2>2. CASE StartsRefund(h'[p])
    <3>1. refundedAmount < Total /\ paymentStatus # "Voided" /\ h'[p].read = paymentStatus
      BY <2>2 DEF StartsRefund
    <3>2. refundedAmount \in Nat /\ (paymentStatus = "Refunded" => refundedAmount = Total)
      BY DEF RefundInv, AmountInv, TypeOK
    <3>3. paymentStatus # "Refunded"
      BY <3>1, <3>2, TotalAssumption
    <3> QED BY <3>1, <3>3 DEF Settled
  <2> QED BY <2>1, <2>2, HandlerStep DEF ReadsOpen, NoStart
<1>3. TypeOK /\ ReadsOpen /\ [Next]_vars => [Kept]_vars
  BY SettledStep DEF Settled
<1>4. SettledLostOnlyToStaleWrite <=> [][Kept]_vars
  BY DEF SettledLostOnlyToStaleWrite
<1> HIDE DEF Kept
<1> QED BY <1>1, <1>2, <1>3, <1>4, RefundInvariant, PTL DEF Spec

(* ---------------------------- The refund ledger -------------------------- *)

\* What a handler holds between its reservation and its row.
Owed(r) == IF r.op = "refundRow" THEN r.amount ELSE 0

Amounts == [p \in Handlers |-> h[p].amount]

\* One element more or less in a sum.
LEMMA SumSplit ==
  ASSUME NEW S \in SUBSET Handlers, NEW f, \A q \in Handlers : f[q] \in Nat, NEW p \in Handlers
  PROVE  /\ SumOver(f, S \ {p}) \in Nat
         /\ SumOver(f, S) = SumOver(f, S \ {p}) + (IF p \in S THEN f[p] ELSE 0)
<1>1. IsFiniteSet(S)
  BY HandlersAssumption, FS_Subset
<1>2. CASE p \in S
  BY <1>1, <1>2, SumRemove
<1>3. CASE p \notin S
  <2>1. S \ {p} = S
    BY <1>3
  <2>2. SumOver(f, S) \in Nat
    BY <1>1, SumType
  <2> QED BY <1>3, <2>1, <2>2
<1> QED BY <1>2, <1>3

\* A step of one handler changes the sum in flight by what that handler holds.
LEMMA FlightStep ==
  ASSUME TypeOK, TypeOK', NEW p \in Handlers, \A q \in Handlers \ {p} : h'[q] = h[q]
  PROVE  /\ SumOver(Amounts, inFlight) \in Nat
         /\ SumOver(Amounts, inFlight)' \in Nat
         /\ SumOver(Amounts, inFlight)' + Owed(h[p]) = SumOver(Amounts, inFlight) + Owed(h'[p])
<1> DEFINE A == Amounts
           B == [q \in Handlers |-> h'[q].amount]
           S == inFlight
           T == {q \in Handlers : h'[q].op = "refundRow"}
<1>1. \A q \in Handlers : A[q] = h[q].amount /\ A[q] \in Nat /\ B[q] = h'[q].amount /\ B[q] \in Nat
  BY DEF Amounts, TypeOK, Handler
<1>2. S \ {p} = T \ {p} /\ S \subseteq Handlers /\ T \subseteq Handlers
  BY DEF inFlight
<1>3. \A q \in S \ {p} : A[q] = B[q]
  BY <1>1, <1>2
<1>4. (p \in S <=> h[p].op = "refundRow") /\ (p \in T <=> h'[p].op = "refundRow")
  BY DEF inFlight
<1>5. SumOver(Amounts, inFlight)' = SumOver(B, T)
  BY DEF Amounts, inFlight, SumOver, UnitsOf
<1> HIDE DEF A, B, S, T
<1>6. SumOver(A, S \ {p}) = SumOver(B, S \ {p})
  BY <1>3, SumSame
<1>7. SumOver(A, S \ {p}) \in Nat /\ SumOver(A, S) = SumOver(A, S \ {p}) + Owed(h[p])
  <2>1. /\ SumOver(A, S \ {p}) \in Nat
        /\ SumOver(A, S) = SumOver(A, S \ {p}) + (IF p \in S THEN A[p] ELSE 0)
    <3>1. S \in SUBSET Handlers /\ \A q \in Handlers : A[q] \in Nat
      BY <1>1, <1>2
    <3> QED BY <3>1, SumSplit, Zenon
  <2>2. (IF p \in S THEN A[p] ELSE 0) = Owed(h[p])
    BY <1>1, <1>4 DEF Owed
  <2> QED BY <2>1, <2>2
<1>8. SumOver(B, T \ {p}) \in Nat /\ SumOver(B, T) = SumOver(B, T \ {p}) + Owed(h'[p])
  <2>1. /\ SumOver(B, T \ {p}) \in Nat
        /\ SumOver(B, T) = SumOver(B, T \ {p}) + (IF p \in T THEN B[p] ELSE 0)
    <3>1. T \in SUBSET Handlers /\ \A q \in Handlers : B[q] \in Nat
      BY <1>1, <1>2
    <3> QED BY <3>1, SumSplit, Zenon
  <2>2. (IF p \in T THEN B[p] ELSE 0) = Owed(h'[p])
    BY <1>1, <1>4 DEF Owed
  <2> QED BY <2>1, <2>2
<1>9. Owed(h[p]) \in Nat /\ Owed(h'[p]) \in Nat
  BY <1>1 DEF Owed
<1>10. SumOver(A, S) \in Nat /\ SumOver(B, T) \in Nat /\ SumOver(B, T) + Owed(h[p]) = SumOver(A, S) + Owed(h'[p])
  BY <1>2, <1>6, <1>7, <1>8, <1>9
<1> QED BY <1>5, <1>10 DEF A, S

\* Every step books what it moves.
LEMMA LedgerStep ==
  ASSUME TypeOK, [Next]_vars
  PROVE  \/ UNCHANGED <<refundedAmount, refundRows, lostRefunds, h>>
         \/ \E p \in Handlers :
              /\ \A q \in Handlers \ {p} : h'[q] = h[q]
              /\ refundedAmount' + refundRows + lostRefunds + Owed(h[p])
                   = refundedAmount + refundRows' + lostRefunds' + Owed(h'[p])
<1> DEFINE Booked(p) == /\ \A q \in Handlers \ {p} : h'[q] = h[q]
                        /\ refundedAmount' + refundRows + lostRefunds + Owed(h[p])
                             = refundedAmount + refundRows' + lostRefunds' + Owed(h'[p])
<1>t. /\ h \in [Handlers -> Handler]
      /\ refundedAmount \in Nat /\ refundRows \in Nat /\ lostRefunds \in Nat
      /\ \A p \in Handlers : h[p].amount \in Nat /\ Owed(h[p]) \in Nat
  BY DEF TypeOK, Handler, Owed
<1>i. Owed(Idle) = 0
  BY IdleType DEF Owed
<1>1. ASSUME NEW p \in Handlers, Done(p), h[p].op # "refundRow",
             UNCHANGED <<refundedAmount, refundRows, lostRefunds>>
      PROVE  Booked(p)
  <2>1. h'[p] = Idle /\ \A q \in Handlers \ {p} : h'[q] = h[q]
    BY <1>1, <1>t DEF Done
  <2>2. Owed(h[p]) = 0
    BY <1>1 DEF Owed
  <2> QED BY <1>1, <1>t, <1>i, <2>1, <2>2
<1>2. ASSUME NEW p \in Handlers, NEW op \in {"successRow", "verifyRow", "codRow"}, GoTo(p, op),
             h[p].op # "refundRow", UNCHANGED <<refundedAmount, refundRows, lostRefunds>>
      PROVE  Booked(p)
  <2>1. h'[p].op = op /\ \A q \in Handlers \ {p} : h'[q] = h[q]
    BY <1>2, <1>t, GoToOp DEF GoTo
  <2>2. Owed(h[p]) = 0 /\ Owed(h'[p]) = 0
    BY <1>2, <2>1 DEF Owed
  <2> QED BY <1>2, <1>t, <2>1, <2>2
<1>3. ASSUME NEW p \in Handlers, NEW r, Begin(p, r), r.op # "refundRow",
             UNCHANGED <<refundedAmount, refundRows, lostRefunds>>
      PROVE  Booked(p)
  <2>1. h[p] = Idle /\ h'[p] = r /\ \A q \in Handlers \ {p} : h'[q] = h[q]
    BY <1>3, <1>t DEF Begin
  <2>2. Owed(h'[p]) = 0 /\ Owed(h[p]) = 0
    BY <1>3, <1>i, <2>1 DEF Owed
  <2> QED BY <1>3, <1>t, <2>1, <2>2
<1>4. ASSUME NEW p \in Handlers, ReserveRefund(p) PROVE Booked(p)
  <2>1. CASE fits(h[p].amount)
    <3>1. /\ h[p].op = "refund" /\ refundedAmount' = refundedAmount + h[p].amount
          /\ UNCHANGED <<refundRows, lostRefunds>>
      BY <1>4, <2>1 DEF ReserveRefund, rowVars
    <3>2. h' = [h EXCEPT ![p] = [Idle EXCEPT !.op = "refundRow", !.event = h[p].event, !.amount = h[p].amount]]
      BY <1>4, <2>1 DEF ReserveRefund, GoTo
    <3>3. h'[p].op = "refundRow" /\ h'[p].amount = h[p].amount /\ \A q \in Handlers \ {p} : h'[q] = h[q]
      BY <1>t, <3>2 DEF Idle
    <3>4. Owed(h[p]) = 0 /\ Owed(h'[p]) = h[p].amount
      BY <3>1, <3>3 DEF Owed
    <3> QED BY <1>t, <3>1, <3>3, <3>4
  <2>2. CASE ~fits(h[p].amount)
    BY <1>1, <1>4, <2>2 DEF ReserveRefund, afterConflict, rowVars
  <2> QED BY <2>1, <2>2
<1>5. ASSUME NEW p \in Handlers, CreateRefundRow(p) PROVE Booked(p)
  <2>1. /\ h'[p] = Idle /\ \A q \in Handlers \ {p} : h'[q] = h[q]
        /\ h[p].op = "refundRow" /\ refundRows' = refundRows + h[p].amount
        /\ UNCHANGED <<refundedAmount, lostRefunds>>
    BY <1>5, <1>t DEF CreateRefundRow, Done, orderVars
  <2>2. Owed(h[p]) = h[p].amount
    BY <2>1 DEF Owed
  <2> QED BY <1>t, <1>i, <2>1, <2>2
<1>6. ASSUME NEW p \in Handlers, Crash(p) PROVE Booked(p)
  <2>1. /\ h'[p] = Idle /\ \A q \in Handlers \ {p} : h'[q] = h[q]
        /\ lostRefunds' = lostRefunds + Owed(h[p])
        /\ UNCHANGED <<refundedAmount, refundRows>>
    BY <1>6, <1>t DEF Crash, Done, orderVars, Owed
  <2> QED BY <1>t, <1>i, <2>1
<1>7. ASSUME NEW p \in Handlers, ReadOrderForEvent(p) PROVE Booked(p)
  <2> DEFINE op == IF h[p].event \in SuccessEvents THEN "success"
                   ELSE IF h[p].event \in FailureEvents THEN "failure"
                   ELSE "auth"
             r == [h[p] EXCEPT !.read = paymentStatus, !.op = op]
  <2>1. op # "refundRow"
    OBVIOUS
  <2>2. h[p].op = "checked" /\ h' = [h EXCEPT ![p] = r] /\ UNCHANGED <<refundedAmount, refundRows, lostRefunds>>
    BY <1>7 DEF ReadOrderForEvent, orderVars, rowVars
  <2> HIDE DEF op
  <2>3. r.op = op
    BY <1>t DEF Handler
  <2> HIDE DEF r
  <2>4. h'[p] = r /\ \A q \in Handlers \ {p} : h'[q] = h[q]
    BY <1>t, <2>2
  <2>5. Owed(h[p]) = 0 /\ Owed(h'[p]) = 0
    BY <2>1, <2>2, <2>3, <2>4 DEF Owed
  <2> QED BY <1>t, <2>2, <2>4, <2>5
<1>8. ASSUME NEW p \in Handlers, Continue(p) PROVE Booked(p)
  <2>1. CASE RefuseEvent(p) \/ WriteFailure(p) \/ WriteAuthorization(p) \/ CreateVerifiedRow(p) \/ CreateCodRow(p)
    BY <1>1, <2>1 DEF RefuseEvent, WriteFailure, WriteAuthorization, CreateVerifiedRow, CreateCodRow,
                      Acknowledge, orderVars, rowVars
  <2>2. CASE WriteSuccess(p) \/ WriteDelivered(p)
    BY <1>2, <2>2 DEF WriteSuccess, WriteDelivered, rowVars
  <2>3. CASE WriteVerified(p)
    BY <1>1, <1>2, <2>3 DEF WriteVerified, rowVars
  <2>4. CASE CreateSuccessRow(p)
    BY <1>1, <2>4 DEF CreateSuccessRow, Acknowledge, orderVars
  <2> QED BY <1>4, <1>5, <1>7, <1>8, <2>1, <2>2, <2>3, <2>4 DEF Continue
<1>9. ASSUME NEW p \in Handlers,
             ReadForVerify(p) \/ ReadForDelivery(p) \/ (\E e \in Events : CheckEvent(p, e) /\ h' # h)
                \/ (\E requested \in 1..Total : ReadForRefund(p, requested))
      PROVE  Booked(p)
  <2>1. /\ [Idle EXCEPT !.op = "verify", !.read = paymentStatus].op = "verify"
        /\ [Idle EXCEPT !.op = "cod"].op = "cod"
        /\ \A e \in Events : [Idle EXCEPT !.op = "checked", !.event = e].op = "checked"
    BY DEF Idle
  <2>2. CASE ReadForVerify(p) \/ ReadForDelivery(p)
    BY <1>3, <2>1, <2>2 DEF ReadForVerify, ReadForDelivery, orderVars, rowVars
  <2>3. ASSUME NEW e \in Events, CheckEvent(p, e), h' # h PROVE Booked(p)
    BY <1>3, <2>1, <2>3 DEF CheckEvent, orderVars, rowVars
  <2>4. ASSUME NEW requested \in 1..Total, ReadForRefund(p, requested) PROVE Booked(p)
    BY <1>3, <2>4 DEF ReadForRefund, orderVars, rowVars
  <2> QED BY <1>9, <2>2, <2>3, <2>4
<1>10. CASE UNCHANGED <<refundedAmount, refundRows, lostRefunds, h>>
  BY <1>10
<1> QED BY <1>6, <1>8, <1>9, <1>10
        DEF Next, vars, orderVars, rowVars, StripeSends, CheckEvent, OtherOrderRow, OrderMoves, performPaymentAction,
            updateFulfillmentStatusService

\* The amount refunded on the order and the refund rows never drift apart,
\* whatever is interleaved, except by the rows a crash prevented.
THEOREM RefundLedgerIsExact == Spec => []RefundLedgerExact
<1>0. RefundLedgerExact <=> refundedAmount = refundRows + lostRefunds + SumOver(Amounts, inFlight)
  BY DEF RefundLedgerExact, Amounts
<1>1. Init => RefundLedgerExact
  <2> SUFFICES ASSUME Init PROVE RefundLedgerExact
    OBVIOUS
  <2>1. \A p \in Handlers : h[p].op = "idle"
    BY IdleType DEF Init
  <2>2. inFlight = {}
    BY <2>1 DEF inFlight
  <2>3. refundedAmount = 0 /\ refundRows = 0 /\ lostRefunds = 0
    BY DEF Init
  <2>4. SumOver(Amounts, inFlight) = 0
    BY <2>2, SumEmpty
  <2> QED BY <1>0, <2>3, <2>4
<1>2. TypeOK /\ TypeOK' /\ RefundLedgerExact /\ [Next]_vars => RefundLedgerExact'
  <2> SUFFICES ASSUME TypeOK, TypeOK', RefundLedgerExact, [Next]_vars PROVE RefundLedgerExact'
    OBVIOUS
  <2>t. /\ refundedAmount \in Nat /\ refundRows \in Nat /\ lostRefunds \in Nat
        /\ refundedAmount' \in Nat /\ refundRows' \in Nat /\ lostRefunds' \in Nat
    BY DEF TypeOK
  <2>o. \A p \in Handlers : Owed(h[p]) \in Nat /\ Owed(h'[p]) \in Nat
    BY DEF TypeOK, Handler, Owed
  <2>1. CASE UNCHANGED <<refundedAmount, refundRows, lostRefunds, h>>
    BY <2>1 DEF RefundLedgerExact, inFlight
  <2>2. ASSUME NEW p \in Handlers,
               \A q \in Handlers \ {p} : h'[q] = h[q],
               refundedAmount' + refundRows + lostRefunds + Owed(h[p])
                 = refundedAmount + refundRows' + lostRefunds' + Owed(h'[p])
        PROVE  refundedAmount' = refundRows' + lostRefunds' + SumOver(Amounts, inFlight)'
    <3>1. PICK newAmount \in Nat, newRows \in Nat, newLost \in Nat, newSum \in Nat :
            /\ newAmount = refundedAmount' /\ newRows = refundRows' /\ newLost = lostRefunds'
            /\ newSum = SumOver(Amounts, inFlight)'
      BY <2>t, <2>2, FlightStep
    <3>2. PICK sum \in Nat, before \in Nat, after \in Nat :
            sum = SumOver(Amounts, inFlight) /\ before = Owed(h[p]) /\ after = Owed(h'[p])
      BY <2>o, <2>2, FlightStep
    <3>3. refundedAmount = refundRows + lostRefunds + sum
      BY <1>0, <3>2, Zenon
    <3>4. newSum + before = sum + after
      BY <2>2, <3>1, <3>2, FlightStep, Zenon
    <3>5. newAmount + refundRows + lostRefunds + before = refundedAmount + newRows + newLost + after
      BY <2>2, <3>1, <3>2, Zenon
    <3>6. newAmount = newRows + newLost + newSum
      <4>1. refundedAmount \in Nat /\ refundRows \in Nat /\ lostRefunds \in Nat
        BY <2>t
      <4> HIDE <3>1, <3>2
      <4> QED BY <4>1, <3>3, <3>4, <3>5
    <3> QED BY <3>1, <3>6, Zenon
  <2>3. RefundLedgerExact' <=> refundedAmount' = refundRows' + lostRefunds' + SumOver(Amounts, inFlight)'
    BY DEF RefundLedgerExact, Amounts
  <2> QED BY <2>1, <2>2, <2>3, LedgerStep
<1> QED BY <1>1, <1>2, TypeCorrect, PTL DEF Spec

============================================================================
