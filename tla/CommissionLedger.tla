--------------------------- MODULE CommissionLedger ---------------------------
(***************************************************************************)
(* The platform's fee ledger for one store in one billing period           *)
(* (services/platform/billing/ledger.js and calculator.js).                *)
(*                                                                         *)
(* An order that is delivered owes a commission; a refund gives part of it *)
(* back; an operator may add a charge or a credit.  Each is a row that is  *)
(* never changed afterwards, save for the stamp of a statement.  The rows  *)
(* for orders are written by listeners of in-process events: a listener    *)
(* reads rows first and writes its own later, other listeners run between  *)
(* the two, and an event whose listener fails or whose process stops is    *)
(* lost.                                                                   *)
(*                                                                         *)
(* The policy is one tier, in the store's currency, with a period cap.     *)
(***************************************************************************)
EXTENDS Integers, FiniteSets, FiniteSetsExt, Sums

CONSTANTS
  Orders,
  Deliveries,   \* requests that set an order's status to Delivered (bound)
  Refunds,      \* refunds made (bound)
  Adjustments,  \* adjustments an operator makes (bound)
  Total,        \* what every order costs
  Percent,      \* of the policy's tier
  PeriodCap     \* of the policy: at most this much commission in a period

ASSUME TotalAssumption == Total \in Nat \ {0}
ASSUME PercentAssumption == Percent \in 0..100
ASSUME CapAssumption == PeriodCap \in Nat
ASSUME EventsAssumption ==
  /\ IsFiniteSet(Deliveries) /\ IsFiniteSet(Refunds) /\ IsFiniteSet(Adjustments)
  /\ Deliveries \cap Refunds = {} /\ Deliveries \cap Adjustments = {}
  /\ Refunds \cap Adjustments = {}

VARIABLES
  order,       \* per order: is it delivered, and how much is refunded
  delivery,    \* per Delivered request: its order, phase, event and what it read
  refund,      \* per refund: its order, phase, event and what it read
  adjustment,  \* per adjustment: its amount and phase
  ledger       \* the row each of them wrote, or NoRow

ledgerVars == <<order, delivery, refund, adjustment, ledger>>

Events == Deliveries \cup Refunds \cup Adjustments

NoRow == [fee |-> 0, basis |-> 0, written |-> FALSE, stamped |-> FALSE]
Row(fee, basis) == [fee |-> fee, basis |-> basis, written |-> TRUE, stamped |-> FALSE]

Rows == {e \in Events : ledger[e].written}

(* The sum of a field of the rows in S, reversals and credits negative. *)
Fees(S) == SumInt([e \in Events |-> ledger[e].fee], S)
Bases(S) == SumInt([e \in Events |-> ledger[e].basis], S)

CommissionsOf(o) == {d \in Deliveries \cap Rows : delivery[d].order = o}
ReversalsOf(o) == {r \in Refunds \cap Rows : refund[r].order = o}
OrderRows == Rows \ Adjustments

NetFee(o) == Fees(CommissionsOf(o) \cup ReversalsOf(o))

(* What periodBasisSoFar reads: the fees of the period, never below zero. *)
FeeSoFar == Max({0, Fees(OrderRows)})

-----------------------------------------------------------------------------
(* The calculator, for a policy of one tier.  n / d to the nearest unit,    *)
(* half away from zero.                                                     *)

roundMoney(n, d) == (2 * n + d) \div (2 * d)

FeeOf(amount) == roundMoney(amount * Percent, 100)

\* DEVIATION: the cap is not looked at.
computeCommission_NoCap(amount, feeSoFar) == FeeOf(amount)

computeCommission(amount, feeSoFar) ==
  Min({FeeOf(amount), Max({0, PeriodCap - feeSoFar})})

\* DEVIATION: what earlier refunds took back is not looked at.
computeReversal_IgnoresPrior(fee, basis, amount, reversed) ==
  IF fee <= 0 \/ basis <= 0 THEN 0
  ELSE roundMoney(fee * Min({amount, basis}), basis)

(* roundMoney(min(remaining, fee * min(1, amount / basis))): remaining is a *)
(* whole number, so the rounding may be done inside the minimum.            *)
computeReversal(fee, basis, amount, reversed) ==
  IF fee <= 0 \/ basis <= 0 THEN 0
  ELSE Min({Max({0, fee - reversed}), roundMoney(fee * Min({amount, basis}), basis)})

-----------------------------------------------------------------------------
LedgerInit ==
  /\ order = [o \in Orders |-> [delivered |-> FALSE, refunded |-> 0]]
  /\ \E os \in [Deliveries -> Orders] :
       delivery = [d \in Deliveries |->
                     [order |-> os[d], phase |-> "idle", basis |-> 0, feeSoFar |-> 0]]
  /\ \E os \in [Refunds -> Orders] :
       refund = [r \in Refunds |->
                   [order |-> os[r], phase |-> "idle", amount |-> 0,
                    fee |-> 0, basis |-> 0, prior |-> {}]]
  /\ adjustment = [j \in Adjustments |-> [amount |-> 0, phase |-> "idle"]]
  /\ ledger = [e \in Events |-> NoRow]

(* updateOrderStatusService: reads the order and checks the transition; two *)
(* requests may both pass.                                                  *)
CheckDelivery(d) ==
  /\ delivery[d].phase = "idle"
  /\ ~order[delivery[d].order].delivered
  /\ delivery' = [delivery EXCEPT ![d].phase = "checked"]
  /\ UNCHANGED <<order, refund, adjustment, ledger>>

(* ... writes the status; the event will carry the totals of this write.    *)
DeliverByStatus(d) ==
  LET o == delivery[d].order IN
  /\ delivery[d].phase = "checked"
  /\ order' = [order EXCEPT ![o].delivered = TRUE]
  /\ delivery' = [delivery EXCEPT ![d].phase = "written", ![d].basis = Total - order[o].refunded]
  /\ UNCHANGED <<refund, adjustment, ledger>>

(* updateFulfillmentStatusService: the last shipment arrives and the order  *)
(* is Delivered.  No event is emitted.                                      *)
DeliverByShipment(o) ==
  /\ ~order[o].delivered
  /\ order' = [order EXCEPT ![o].delivered = TRUE]
  /\ UNCHANGED <<delivery, refund, adjustment, ledger>>

(* The event is emitted; recognizeDelivered reads the fees of the period.   *)
RecognizeRead(d) ==
  /\ delivery[d].phase = "written"
  /\ delivery' = [delivery EXCEPT ![d].phase = IF delivery[d].basis > 0 THEN "read" ELSE "done",
                                  ![d].feeSoFar = FeeSoFar]
  /\ UNCHANGED <<order, refund, adjustment, ledger>>

(* ... and creates the commission row, once per order (a unique index).     *)
recognizeDelivered(d) ==
  LET fee == computeCommission(delivery[d].basis, delivery[d].feeSoFar)
  IN
  /\ delivery[d].phase = "read"
  /\ delivery' = [delivery EXCEPT ![d].phase = "done"]
  /\ ledger' = IF CommissionsOf(delivery[d].order) = {}
               THEN [ledger EXCEPT ![d] = Row(fee, delivery[d].basis)]
               ELSE ledger
  /\ UNCHANGED <<order, refund, adjustment>>

\* DEVIATION: the amount is not held to what is left of the order.
Refund_Unguarded(r, amount) ==
  LET o == refund[r].order IN
  /\ refund[r].phase = "idle"
  /\ order' = [order EXCEPT ![o].refunded = @ + amount]
  /\ refund' = [refund EXCEPT ![r].phase = "emitted", ![r].amount = amount]
  /\ UNCHANGED <<delivery, adjustment, ledger>>

(* refundPayment: saves the order, then emits (see PaymentSettlement for    *)
(* what guards the amount).                                                 *)
Refund(r, amount) ==
  LET o == refund[r].order IN
  /\ refund[r].phase = "idle"
  /\ amount \in 1..(Total - order[o].refunded)
  /\ order' = [order EXCEPT ![o].refunded = @ + amount]
  /\ refund' = [refund EXCEPT ![r].phase = "emitted", ![r].amount = amount]
  /\ UNCHANGED <<delivery, adjustment, ledger>>

(* reverseForRefund reads the commission and the reversals before it.       *)
ReverseRead(r) ==
  LET o == refund[r].order
      charged == {d \in CommissionsOf(o) : ledger[d].fee > 0}
  IN
  /\ refund[r].phase = "emitted"
  /\ \/ /\ charged = {}
        /\ refund' = [refund EXCEPT ![r].phase = "done"]
     \/ \E d \in charged :
          refund' = [refund EXCEPT ![r].phase = "read", ![r].fee = ledger[d].fee,
                                   ![r].basis = ledger[d].basis, ![r].prior = ReversalsOf(o)]
  /\ UNCHANGED <<order, delivery, adjustment, ledger>>

(* ... and creates its row, if there is anything to reverse.                *)
reverseForRefund(r) ==
  LET p == refund[r]
      amount == computeReversal(p.fee, p.basis, p.amount, -Fees(p.prior))
      basis == Min({p.amount, Max({0, p.basis + Bases(p.prior)})})
  IN
  /\ p.phase = "read"
  /\ refund' = [refund EXCEPT ![r].phase = "done"]
  /\ ledger' = IF amount > 0 THEN [ledger EXCEPT ![r] = Row(-amount, -basis)] ELSE ledger
  /\ UNCHANGED <<order, delivery, adjustment>>

(* A listener's database call fails, or the process stops: the event of     *)
(* that delivery or refund is not delivered again.                          *)
LoseDelivery(d) ==
  /\ delivery[d].phase \in {"checked", "written", "read"}
  /\ delivery' = [delivery EXCEPT ![d].phase = "lost"]
  /\ UNCHANGED <<order, refund, adjustment, ledger>>

LoseRefund(r) ==
  /\ refund[r].phase \in {"emitted", "read"}
  /\ refund' = [refund EXCEPT ![r].phase = "lost"]
  /\ UNCHANGED <<order, delivery, adjustment, ledger>>

(* addAdjustment: closed is whether the period has an issued statement;     *)
(* the row is created later.                                                *)
CheckAdjustment(j, amount, closed) ==
  /\ adjustment[j].phase = "idle"
  /\ adjustment' = [adjustment EXCEPT ![j] =
                      [amount |-> amount, phase |-> IF closed THEN "done" ELSE "checked"]]
  /\ UNCHANGED <<order, delivery, refund, ledger>>

addAdjustment(j) ==
  /\ adjustment[j].phase = "checked"
  /\ adjustment' = [adjustment EXCEPT ![j].phase = "done"]
  /\ ledger' = [ledger EXCEPT ![j] = Row(adjustment[j].amount, 0)]
  /\ UNCHANGED <<order, delivery, refund>>

LedgerStarts(closed) ==
  \/ \E d \in Deliveries : CheckDelivery(d)
  \/ \E o \in Orders : DeliverByShipment(o)
  \/ \E r \in Refunds, amount \in 1..Total : Refund(r, amount)
  \/ \E j \in Adjustments, amount \in {-1, 1} : CheckAdjustment(j, amount, closed)

LedgerContinues ==
  \/ \E d \in Deliveries : \/ DeliverByStatus(d) \/ RecognizeRead(d)
                           \/ recognizeDelivered(d) \/ LoseDelivery(d)
  \/ \E r \in Refunds : ReverseRead(r) \/ reverseForRefund(r) \/ LoseRefund(r)
  \/ \E j \in Adjustments : addAdjustment(j)

-----------------------------------------------------------------------------
DeliveryPhases == {"idle", "checked", "written", "read", "done", "lost"}
RefundPhases == {"idle", "emitted", "read", "done", "lost"}
RowValues == [fee : -Total..Total, basis : -Total..Total, written : BOOLEAN, stamped : BOOLEAN]

LedgerTypeOK ==
  /\ order \in [Orders -> [delivered : BOOLEAN, refunded : 0..Total]]
  /\ delivery \in [Deliveries -> [order : Orders, phase : DeliveryPhases,
                                  basis : 0..Total, feeSoFar : 0..PeriodCap * Cardinality(Deliveries)]]
  /\ refund \in [Refunds -> [order : Orders, phase : RefundPhases, amount : 0..Total,
                             fee : 0..Total, basis : 0..Total, prior : SUBSET Refunds]]
  /\ adjustment \in [Adjustments -> [amount : {-1, 0, 1}, phase : {"idle", "checked", "done"}]]
  /\ ledger \in [Events -> RowValues]

(* An order's net fee is from nothing to one whole commission, whatever     *)
(* events are repeated and however its refunds are cut.  The one step that  *)
(* leaves that range is a reversal computed from rows that were no longer   *)
(* all of them: reverseForRefund reads the reversals before its own and     *)
(* nothing holds them until it writes.                                      *)
StaleReversal(r) == /\ refund[r].phase = "read" /\ refund'[r].phase = "done"
                    /\ refund[r].prior # ReversalsOf(refund[r].order)

InFeeRange(o) == NetFee(o) \in 0..FeeOf(Total)

OverReversedOnlyByStaleRead ==
  [][\A o \in Orders : InFeeRange(o) =>
       \/ InFeeRange(o)'
       \/ \E r \in Refunds : refund[r].order = o /\ StaleReversal(r)]_ledgerVars

(* A commission takes the period's fees past the cap only when it was       *)
(* computed from a sum that another commission has changed since.           *)
CapExceededOnlyByStaleRead ==
  [][\A d \in Deliveries :
       /\ ~ledger[d].written /\ ledger'[d].written
       /\ ledger'[d].fee > 0
       /\ FeeSoFar' > PeriodCap
       => delivery[d].feeSoFar # FeeSoFar]_ledgerVars

=============================================================================
