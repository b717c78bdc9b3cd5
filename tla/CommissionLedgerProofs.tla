------------------------ MODULE CommissionLedgerProofs ------------------------
(***************************************************************************)
(* What the rows of CommissionLedger are worth, for any number of orders,  *)
(* deliveries, refunds and adjustments, any total, percentage and cap.     *)
(* The ledger is a part of BillingStatements: what is proved here is what  *)
(* each of its steps does, and BillingStatementsProofs takes it from there.*)
(***************************************************************************)
EXTENDS CommissionLedger, SumsProofs

(* ------------------------------ The calculator --------------------------- *)

LEMMA MaxZero ==
  ASSUME NEW x \in Int
  PROVE  Max({0, x}) = IF x >= 0 THEN x ELSE 0
<1> DEFINE m == IF x >= 0 THEN x ELSE 0
<1>1. m \in {0, x} /\ \A y \in {0, x} : m >= y
  OBVIOUS
<1>2. \A n \in {0, x} : (\A y \in {0, x} : n >= y) => n = m
  OBVIOUS
<1> QED BY <1>1, <1>2 DEF Max

LEMMA MinTwo ==
  ASSUME NEW a \in Int, NEW b \in Int
  PROVE  Min({a, b}) = IF a <= b THEN a ELSE b
<1> DEFINE m == IF a <= b THEN a ELSE b
<1>1. m \in {a, b} /\ \A y \in {a, b} : m <= y
  OBVIOUS
<1>2. \A n \in {a, b} : (\A y \in {a, b} : n <= y) => n = m
  OBVIOUS
<1> QED BY <1>1, <1>2 DEF Min

(* The percentage of more is not less, and never more than the amount.      *)
LEMMA FeeOfMonotone ==
  ASSUME NEW a \in Nat, NEW b \in Nat, a <= b
  PROVE  FeeOf(a) \in 0..FeeOf(b) /\ FeeOf(b) \in 0..b
<1>1. Percent \in Int /\ 0 <= Percent /\ Percent <= 100
  BY PercentAssumption
<1>2. 0 <= a * Percent /\ a * Percent <= b * Percent /\ b * Percent <= b * 100
      /\ a * Percent \in Int /\ b * Percent \in Int
  BY <1>1
<1> DEFINE x == a * Percent
           y == b * Percent
<1>3. FeeOf(a) = (2 * x + 100) \div 200 /\ FeeOf(b) = (2 * y + 100) \div 200
  BY DEF FeeOf, roundMoney
<1>4. x \in Nat /\ y \in Nat /\ x <= y /\ y <= b * 100
  BY <1>2
<1> HIDE DEF x, y
<1> QED BY <1>3, <1>4

(* A commission is from nothing to the fee of the whole order, and takes no *)
(* more than what is left under the cap.                                    *)
LEMMA CommissionBounds ==
  ASSUME NEW amount \in 0..Total, NEW feeSoFar \in Nat
  PROVE  LET fee == computeCommission(amount, feeSoFar) IN
         /\ fee \in 0..FeeOf(Total) /\ fee \in 0..Total /\ fee <= PeriodCap
         /\ fee > 0 => feeSoFar + fee <= PeriodCap
<1>1. FeeOf(amount) \in 0..FeeOf(Total) /\ FeeOf(Total) \in 0..Total
  BY FeeOfMonotone, TotalAssumption
<1>2. PeriodCap - feeSoFar \in Int /\ PeriodCap \in Nat
  BY CapAssumption
<1>3. Max({0, PeriodCap - feeSoFar})
        = IF PeriodCap - feeSoFar >= 0 THEN PeriodCap - feeSoFar ELSE 0
  BY <1>2, MaxZero
<1> DEFINE f == FeeOf(amount)
           rest == Max({0, PeriodCap - feeSoFar})
<1>4. rest \in Nat /\ rest <= PeriodCap /\ (rest > 0 => feeSoFar + rest <= PeriodCap)
  BY <1>2, <1>3
<1>5. f \in Nat
  BY <1>1
<1>6. Min({f, rest}) = IF f <= rest THEN f ELSE rest
  <2> HIDE DEF rest, f
  <2> QED BY <1>4, <1>5, MinTwo
<1>7. computeCommission(amount, feeSoFar) = Min({f, rest})
  BY DEF computeCommission
<1> HIDE DEF rest, f
<1>8. FeeOf(Total) \in Nat /\ f <= FeeOf(Total) /\ FeeOf(Total) <= Total /\ Total \in Nat
  BY <1>1, TotalAssumption DEF f
<1> QED BY <1>2, <1>4, <1>5, <1>6, <1>7, <1>8

(* A reversal takes back no more than what is left of the commission.       *)
LEMMA ReversalBounds ==
  ASSUME NEW fee \in 0..Total, NEW basis \in 0..Total, NEW amount \in 0..Total,
         NEW reversed \in Int
  PROVE  LET back == computeReversal(fee, basis, amount, reversed) IN
         /\ back \in Int
         /\ back > 0 => back <= fee - reversed
<1>1. CASE fee <= 0 \/ basis <= 0
  BY <1>1 DEF computeReversal
<1>2. CASE ~(fee <= 0 \/ basis <= 0)
  <2> DEFINE left == Max({0, fee - reversed})
             share == roundMoney(fee * Min({amount, basis}), basis)
  <2>1. fee - reversed \in Int
    BY TotalAssumption
  <2>2. left = IF fee - reversed >= 0 THEN fee - reversed ELSE 0
    BY <2>1, MaxZero
  <2>3. Min({amount, basis}) \in Int
    BY MinTwo, TotalAssumption
  <2>4. share \in Int
    <3>1. fee * Min({amount, basis}) \in Int
      BY <2>3, TotalAssumption
    <3>2. basis \in Int /\ basis > 0
      BY <1>2, TotalAssumption
    <3> DEFINE n == fee * Min({amount, basis})
    <3>3. 2 * n + basis \in Int /\ 2 * basis \in Int /\ 2 * basis > 0
      BY <3>1, <3>2
    <3>4. (2 * n + basis) \div (2 * basis) \in Int
      <4> HIDE DEF n
      <4> QED BY <3>3
    <3> QED BY <3>4 DEF roundMoney
  <2>5. left \in Int
    BY <2>1, <2>2
  <2>6. Min({left, share}) = IF left <= share THEN left ELSE share
    BY <2>4, <2>5, MinTwo
  <2>7. computeReversal(fee, basis, amount, reversed) = Min({left, share})
    BY <1>2 DEF computeReversal
  <2> HIDE DEF left, share
  <2> QED BY <2>1, <2>2, <2>4, <2>5, <2>6, <2>7
<1> QED BY <1>1, <1>2

(* ------------------------------- The rows -------------------------------- *)

FeeFn == [e \in Events |-> ledger[e].fee]

CommissionRows ==
  \A d \in Deliveries \cap Rows :
    /\ delivery[d].phase = "done"
    /\ ledger[d].fee \in 0..FeeOf(Total) /\ ledger[d].fee <= PeriodCap
    /\ ledger[d].basis \in 0..Total

ReversalRows ==
  \A r \in Refunds \cap Rows :
    /\ refund[r].phase = "done"
    /\ ledger[r].fee <= 0
    /\ CommissionsOf(refund[r].order) # {}

OneCommission == \A o \in Orders : \A c, d \in CommissionsOf(o) : c = d

(* What a reversal has read is the order's commission, which never changes.  *)
ReadCharge ==
  \A r \in Refunds : refund[r].phase = "read" =>
    \E d \in CommissionsOf(refund[r].order) :
      refund[r].fee = ledger[d].fee /\ refund[r].basis = ledger[d].basis

PriorRows == \A r \in Refunds : refund[r].prior \subseteq Rows

(* A commission is written once per order, before any reversal of it.       *)
LedgerInv == CommissionRows /\ ReversalRows /\ OneCommission /\ ReadCharge /\ PriorRows

LEMMA EventsFinite == IsFiniteSet(Events)
BY EventsAssumption, FS_Union DEF Events

LEMMA FeesType ==
  ASSUME LedgerTypeOK, NEW S \in SUBSET Events
  PROVE  /\ Fees(S) \in Int /\ IsFiniteSet(S)
         /\ FeeFn \in [Events -> Int] /\ Fees(S) = SumInt(FeeFn, S)
<1>1. \A e \in Events : ledger[e].fee \in Int
  BY TotalAssumption DEF LedgerTypeOK, RowValues
<1>2. FeeFn \in [Events -> Int] /\ Fees(S) = SumInt(FeeFn, S)
  BY <1>1 DEF FeeFn, Fees
<1>3. IsFiniteSet(S)
  BY EventsFinite, FS_Subset
<1> HIDE DEF FeeFn
<1>4. \A e \in S : FeeFn[e] \in Int
  BY <1>2
<1> QED BY <1>2, <1>3, <1>4, SumIntType

LEMMA BasesType ==
  ASSUME LedgerTypeOK, NEW S \in SUBSET Events
  PROVE  Bases(S) \in Int
<1> DEFINE f == [e \in Events |-> ledger[e].basis]
<1>1. \A e \in S : f[e] \in Int
  BY TotalAssumption DEF LedgerTypeOK, RowValues
<1>2. IsFiniteSet(S)
  BY EventsFinite, FS_Subset
<1> HIDE DEF f
<1> QED BY <1>1, <1>2, SumIntType DEF Bases, f

(* The fees of the period are at most one cap for each delivery.            *)
LEMMA FeeSoFarBounds ==
  ASSUME LedgerTypeOK, CommissionRows, ReversalRows
  PROVE  /\ FeeSoFar \in 0..PeriodCap * Cardinality(Deliveries)
         /\ FeeSoFar \in Nat /\ Fees(OrderRows) \in Int
         /\ FeeSoFar = IF Fees(OrderRows) >= 0 THEN Fees(OrderRows) ELSE 0
<1>1. OrderRows \in SUBSET Events
  BY DEF OrderRows, Rows
<1>2. /\ Fees(OrderRows) \in Int /\ IsFiniteSet(OrderRows)
      /\ FeeFn \in [Events -> Int] /\ Fees(OrderRows) = SumInt(FeeFn, OrderRows)
  BY <1>1, FeesType
<1>3. \A e \in OrderRows : FeeFn[e] = ledger[e].fee /\ (e \in Deliveries \/ e \in Refunds) /\ e \in Rows
  BY DEF OrderRows, Rows, FeeFn, Events
<1>4. \A e \in OrderRows : e \in Refunds => FeeFn[e] <= 0
  BY <1>3 DEF ReversalRows
<1>5. \A e \in OrderRows : e \in Deliveries => FeeFn[e] <= PeriodCap
  BY <1>3 DEF CommissionRows
<1>6. \A e \in OrderRows : FeeFn[e] \in Int
  BY <1>1, <1>2
<1> HIDE DEF FeeFn
<1>7. \A e \in OrderRows : FeeFn[e] <= PeriodCap /\ (FeeFn[e] > 0 => e \in Deliveries)
  <2> SUFFICES ASSUME NEW e \in OrderRows
               PROVE  FeeFn[e] <= PeriodCap /\ (FeeFn[e] > 0 => e \in Deliveries)
    OBVIOUS
  <2>1. CASE e \in Deliveries
    BY <1>5, <2>1
  <2>2. CASE e \notin Deliveries
    <3>1. FeeFn[e] <= 0
      BY <1>3, <1>4, <2>2
    <3> QED BY <1>6, <3>1, CapAssumption
  <2> QED BY <2>1, <2>2
<1>8. SumInt(FeeFn, OrderRows) <= PeriodCap * Cardinality(Deliveries)
  BY <1>2, <1>6, <1>7, SumIntBounded, CapAssumption, EventsAssumption
<1>9. FeeSoFar = IF Fees(OrderRows) >= 0 THEN Fees(OrderRows) ELSE 0
  BY <1>2, MaxZero DEF FeeSoFar
<1>10. Cardinality(Deliveries) \in Nat
  BY EventsAssumption, FS_CardinalityType
<1>11. PeriodCap * Cardinality(Deliveries) \in Nat
  BY <1>10, CapAssumption
<1> QED BY <1>2, <1>8, <1>9, <1>11

(* The row an event writes, and what it leaves alone.                       *)
LEMMA AddRow ==
  ASSUME LedgerTypeOK, NEW e \in Events, NEW fee \in -Total..Total, NEW basis \in -Total..Total,
         ledger' = [ledger EXCEPT ![e] = Row(fee, basis)]
  PROVE  /\ ledger' \in [Events -> RowValues]
         /\ Rows' = Rows \cup {e}
         /\ ledger'[e].fee = fee /\ ledger'[e].basis = basis /\ ledger'[e].written
         /\ \A x \in Events \ {e} : ledger'[x] = ledger[x]
<1>1. /\ Row(fee, basis) \in RowValues /\ Row(fee, basis).written
      /\ Row(fee, basis).fee = fee /\ Row(fee, basis).basis = basis
  BY DEF Row, RowValues
<1>2. ledger \in [Events -> RowValues]
  BY DEF LedgerTypeOK
<1>3. /\ ledger' \in [Events -> RowValues] /\ ledger'[e] = Row(fee, basis)
      /\ \A x \in Events \ {e} : ledger'[x] = ledger[x]
  BY <1>1, <1>2
<1>4. Rows' = Rows \cup {e}
  BY <1>1, <1>3 DEF Rows
<1> QED BY <1>1, <1>3, <1>4

(* The rows of one order, and its net fee, after a step that writes none.   *)
SameRows ==
  /\ \A e \in Events : /\ ledger'[e].fee = ledger[e].fee /\ ledger'[e].basis = ledger[e].basis
                       /\ ledger'[e].written = ledger[e].written
  /\ \A d \in Deliveries : delivery'[d].order = delivery[d].order
  /\ \A r \in Refunds : refund'[r].order = refund[r].order

LEMMA SameRowsEffect ==
  ASSUME SameRows
  PROVE  /\ Rows' = Rows /\ FeeFn' = FeeFn
         /\ FeeSoFar' = FeeSoFar
         /\ \A o \in Orders : /\ CommissionsOf(o)' = CommissionsOf(o)
                              /\ ReversalsOf(o)' = ReversalsOf(o)
                              /\ NetFee(o)' = NetFee(o)
<1>1. Rows' = Rows /\ FeeFn' = FeeFn
  BY DEF SameRows, Rows, FeeFn
<1>2. \A o \in Orders : CommissionsOf(o)' = CommissionsOf(o) /\ ReversalsOf(o)' = ReversalsOf(o)
  BY <1>1 DEF SameRows, CommissionsOf, ReversalsOf
<1>3. OrderRows' = OrderRows
  BY <1>1 DEF OrderRows
<1>4. Fees(OrderRows)' = Fees(OrderRows)
  BY <1>1, <1>3 DEF Fees, FeeFn
<1>5. \A o \in Orders : NetFee(o)' = NetFee(o)
  BY <1>1, <1>2 DEF NetFee, Fees, FeeFn
<1> QED BY <1>1, <1>2, <1>4, <1>5 DEF FeeSoFar

LEMMA SameRowsInv ==
  ASSUME LedgerInv, SameRows,
         \A d \in Deliveries : delivery[d].phase = "done" => delivery'[d].phase = "done",
         \A r \in Refunds : /\ refund[r].phase = "done" => refund'[r].phase = "done"
                            /\ refund'[r].phase = "read" =>
                                 refund'[r] = refund[r] \/
                                 \E d \in CommissionsOf(refund[r].order) :
                                   /\ refund'[r].fee = ledger[d].fee
                                   /\ refund'[r].basis = ledger[d].basis
                            /\ refund'[r].prior \subseteq Rows
  PROVE  LedgerInv'
<1>0. CommissionRows /\ ReversalRows /\ OneCommission /\ ReadCharge /\ PriorRows
  BY DEF LedgerInv
<1>1. /\ Rows' = Rows
      /\ \A o \in Orders : CommissionsOf(o)' = CommissionsOf(o)
  BY SameRowsEffect
<1>3. CommissionRows'
  BY <1>0, <1>1 DEF CommissionRows, SameRows, Rows
<1>4. ASSUME NEW r \in Refunds
      PROVE  /\ CommissionsOf(refund[r].order)' = CommissionsOf(refund[r].order)
             /\ \A d \in CommissionsOf(refund[r].order) : d \in Events
  BY <1>1 DEF SameRows, CommissionsOf, Events
<1>5. ReversalRows'
  BY <1>0, <1>1, <1>4 DEF ReversalRows, SameRows, Rows
<1>6. OneCommission'
  BY <1>0, <1>1 DEF OneCommission
<1>7. ReadCharge'
  BY <1>0, <1>4 DEF ReadCharge, SameRows
<1>8. PriorRows'
  BY <1>1 DEF PriorRows
<1> QED BY <1>3, <1>5, <1>6, <1>7, <1>8 DEF LedgerInv

(* The sums after a new row e: those without it stay, those with it grow.   *)
LEMMA SumsAfter ==
  ASSUME LedgerTypeOK, NEW e \in Events, \A x \in Events \ {e} : ledger'[x] = ledger[x],
         ledger'[e].fee \in Int, NEW S \in SUBSET (Events \ {e})
  PROVE  /\ SumInt(FeeFn', S) = SumInt(FeeFn, S)
         /\ SumInt(FeeFn', S \cup {e}) = SumInt(FeeFn, S) + ledger'[e].fee
<1>1. FeeFn \in [Events -> Int] /\ IsFiniteSet(S)
  BY FeesType
<1>2. \A x \in S : FeeFn'[x] = FeeFn[x]
  BY DEF FeeFn
<1>3. FeeFn'[e] = ledger'[e].fee
  BY DEF FeeFn
<1>4. e \notin S
  OBVIOUS
<1>5. \A x \in S \cup {e} : FeeFn'[x] \in Int
  BY <1>1, <1>2, <1>3
<1> HIDE DEF FeeFn
<1>6. SumInt(FeeFn', S) = SumInt(FeeFn, S)
  BY <1>2, SumIntSame
<1>7. SumInt(FeeFn', S \cup {e}) = SumInt(FeeFn', S) + FeeFn'[e]
  BY <1>1, <1>4, <1>5, SumIntAdd
<1> QED BY <1>3, <1>6, <1>7

(* An order's commission is written: the first row of the order, and        *)
(* another one of the period.                                               *)
LEMMA CommissionWritten ==
  ASSUME LedgerTypeOK, LedgerInv, NEW d \in Deliveries, recognizeDelivered(d),
         CommissionsOf(delivery[d].order) = {}
  PROVE  LET o == delivery[d].order
             fee == computeCommission(delivery[d].basis, delivery[d].feeSoFar) IN
         /\ d \notin Rows /\ Rows' = Rows \cup {d}
         /\ ledger' \in [Events -> RowValues]
         /\ \A x \in Events \ {d} : ledger'[x] = ledger[x]
         /\ ledger'[d].fee = fee /\ ledger'[d].basis = delivery[d].basis
         /\ fee \in 0..FeeOf(Total) /\ fee <= PeriodCap
         /\ fee > 0 => delivery[d].feeSoFar + fee <= PeriodCap
         /\ \A p \in Orders \ {o} : CommissionsOf(p)' = CommissionsOf(p)
         /\ CommissionsOf(o)' = {d}
         /\ \A p \in Orders : ReversalsOf(p)' = ReversalsOf(p)
         /\ \A p \in Orders \ {o} : NetFee(p)' = NetFee(p)
         /\ NetFee(o)' = fee
         /\ Fees(OrderRows)' = Fees(OrderRows) + fee
<1> DEFINE o == delivery[d].order
           fee == computeCommission(delivery[d].basis, delivery[d].feeSoFar)
           basis == delivery[d].basis
<1>0. /\ CommissionRows /\ ReversalRows /\ OneCommission
      /\ d \in Events /\ o \in Orders /\ basis \in 0..Total
      /\ delivery[d].phase = "read" /\ \A c \in Deliveries : delivery'[c].order = delivery[c].order
      /\ UNCHANGED refund
  BY DEF LedgerInv, LedgerTypeOK, Events, recognizeDelivered
<1>1. delivery[d].feeSoFar \in Nat
  <2>1. Cardinality(Deliveries) \in Nat
    BY EventsAssumption, FS_CardinalityType
  <2>2. PeriodCap * Cardinality(Deliveries) \in Nat
    BY <2>1, CapAssumption
  <2> QED BY <2>2 DEF LedgerTypeOK
<1>2. /\ fee \in 0..FeeOf(Total) /\ fee \in 0..Total /\ fee <= PeriodCap
      /\ fee > 0 => delivery[d].feeSoFar + fee <= PeriodCap
  BY <1>0, <1>1, CommissionBounds
<1>3. ledger' = [ledger EXCEPT ![d] = Row(fee, basis)]
  BY DEF recognizeDelivered
<1>4. d \notin Rows
  BY <1>0 DEF CommissionRows
<1> HIDE DEF fee, basis
<1>5. /\ ledger' \in [Events -> RowValues] /\ Rows' = Rows \cup {d}
      /\ ledger'[d].fee = fee /\ ledger'[d].basis = basis
      /\ \A x \in Events \ {d} : ledger'[x] = ledger[x]
  <2>1. fee \in -Total..Total /\ basis \in -Total..Total
    BY <1>0, <1>2, TotalAssumption
  <2>2. d \in Events
    BY <1>0
  <2>3. ledger' \in [Events -> RowValues] /\ Rows' = Rows \cup {d}
    BY ONLY LedgerTypeOK, <1>3, <2>1, <2>2, AddRow
  <2>4. ledger'[d].fee = fee /\ ledger'[d].basis = basis
    BY <1>3, <2>2 DEF LedgerTypeOK, Row
  <2>5. \A x \in Events \ {d} : ledger'[x] = ledger[x]
    BY <1>3, <2>1, <2>2, AddRow
  <2> QED BY <2>3, <2>4, <2>5
<1>6. \A p \in Orders \ {o} : CommissionsOf(p)' = CommissionsOf(p)
  BY <1>0, <1>5 DEF CommissionsOf
<1>7. CommissionsOf(o)' = {d}
  BY <1>0, <1>5 DEF CommissionsOf
<1>8. \A p \in Orders : ReversalsOf(p)' = ReversalsOf(p)
  BY <1>0, <1>5, EventsAssumption DEF ReversalsOf
<1>9. ReversalsOf(o) = {}
  BY <1>0 DEF ReversalsOf, ReversalRows
<1>10. ledger'[d].fee \in Int
  BY <1>2, <1>5, TotalAssumption
<1>11. ASSUME NEW p \in Orders \ {o} PROVE NetFee(p)' = NetFee(p)
  <2> DEFINE S == CommissionsOf(p) \cup ReversalsOf(p)
  <2>1. S \in SUBSET (Events \ {d})
    BY <1>4 DEF CommissionsOf, ReversalsOf, Rows
  <2>2. NetFee(p)' = SumInt(FeeFn', S) /\ NetFee(p) = SumInt(FeeFn, S)
    BY <1>6, <1>8, <1>11 DEF NetFee, Fees, FeeFn
  <2> HIDE DEF S
  <2>3. SumInt(FeeFn', S) = SumInt(FeeFn, S)
    BY <1>0, <1>5, <1>10, <2>1, SumsAfter
  <2> QED BY <2>2, <2>3
<1>12. NetFee(o)' = fee
  <2>1. NetFee(o)' = SumInt(FeeFn', {} \cup {d})
    <3>1. CommissionsOf(o)' \cup ReversalsOf(o)' = {} \cup {d}
      BY <1>0, <1>7, <1>8, <1>9
    <3>2. o' = o
      BY <1>0 DEF o
    <3> QED BY <3>1, <3>2 DEF NetFee, Fees, FeeFn
  <2>2. SumInt(FeeFn', {} \cup {d}) = SumInt(FeeFn, {}) + ledger'[d].fee
    BY <1>0, <1>5, <1>10, SumsAfter
  <2> QED BY <1>5, <1>10, <2>1, <2>2, SumIntEmpty
<1>13. Fees(OrderRows)' = Fees(OrderRows) + fee
  <2>1. OrderRows' = OrderRows \cup {d} /\ OrderRows \in SUBSET (Events \ {d})
    BY <1>4, <1>5, EventsAssumption DEF OrderRows, Rows
  <2>2. SumInt(FeeFn', OrderRows \cup {d}) = SumInt(FeeFn, OrderRows) + ledger'[d].fee
    BY <1>0, <1>5, <1>10, <2>1, SumsAfter
  <2>3. Fees(OrderRows)' = SumInt(FeeFn', OrderRows')
    BY DEF Fees, FeeFn
  <2>4. Fees(OrderRows) = SumInt(FeeFn, OrderRows)
    BY DEF Fees, FeeFn
  <2> QED BY <1>5, <2>1, <2>2, <2>3, <2>4
<1> QED BY <1>2, <1>4, <1>5, <1>6, <1>7, <1>8, <1>11, <1>12, <1>13 DEF fee, basis

(* A reversal is written: it lowers the order's net fee, and when it was    *)
(* computed from all the reversals before it, not below nothing.            *)
LEMMA ReversalWritten ==
  ASSUME LedgerTypeOK, LedgerInv, NEW r \in Refunds, reverseForRefund(r), ~UNCHANGED ledger
  PROVE  LET o == refund[r].order
             back == -ledger'[r].fee IN
         /\ r \notin Rows /\ Rows' = Rows \cup {r}
         /\ ledger' \in [Events -> RowValues]
         /\ \A x \in Events \ {r} : ledger'[x] = ledger[x]
         /\ back \in 1..Total /\ CommissionsOf(o) # {}
         /\ \A p \in Orders : CommissionsOf(p)' = CommissionsOf(p)
         /\ \A p \in Orders \ {o} : NetFee(p)' = NetFee(p)
         /\ NetFee(o)' = NetFee(o) - back
         /\ refund[r].prior = ReversalsOf(o) => back <= NetFee(o)
         /\ Fees(OrderRows)' = Fees(OrderRows) - back
<1> DEFINE p0 == refund[r]
           o == refund[r].order
           amount == computeReversal(p0.fee, p0.basis, p0.amount, -Fees(p0.prior))
           basis == Min({p0.amount, Max({0, p0.basis + Bases(p0.prior)})})
<1>0. /\ CommissionRows /\ ReversalRows /\ OneCommission /\ ReadCharge /\ PriorRows
      /\ r \in Events /\ o \in Orders /\ p0.phase = "read" /\ UNCHANGED delivery
      /\ p0.fee \in 0..Total /\ p0.basis \in 0..Total /\ p0.amount \in 0..Total
      /\ p0.prior \in SUBSET Refunds /\ p0.prior \in SUBSET Events
      /\ \A q \in Refunds : refund'[q].order = refund[q].order
  BY DEF LedgerInv, LedgerTypeOK, Events, reverseForRefund
<1>1. Fees(p0.prior) \in Int
  BY <1>0, FeesType
<1>2. amount \in Int /\ (amount > 0 => amount <= p0.fee + Fees(p0.prior))
  <2>1. -Fees(p0.prior) \in Int
    BY <1>1
  <2>2. amount \in Int /\ (amount > 0 => amount <= p0.fee - (-Fees(p0.prior)))
    BY <1>0, <2>1, ReversalBounds
  <2> HIDE DEF amount
  <2> QED BY <1>0, <1>1, <2>2, TotalAssumption
<1>3. basis \in 0..Total
  <2>1. p0.basis + Bases(p0.prior) \in Int
    BY <1>0, BasesType, TotalAssumption
  <2>2. Max({0, p0.basis + Bases(p0.prior)}) \in Nat
    BY <2>1, MaxZero
  <2> DEFINE m == Max({0, p0.basis + Bases(p0.prior)})
  <2> HIDE DEF m
  <2>3. m \in Nat
    BY <2>2 DEF m
  <2>4. Min({p0.amount, m}) = IF p0.amount <= m THEN p0.amount ELSE m
    BY <1>0, <2>3, MinTwo, TotalAssumption
  <2>5. basis = Min({p0.amount, m})
    BY DEF m
  <2> HIDE DEF basis
  <2> QED BY <1>0, <2>3, <2>4, <2>5, TotalAssumption
<1>4. ledger' = IF amount > 0 THEN [ledger EXCEPT ![r] = Row(-amount, -basis)] ELSE ledger
  BY DEF reverseForRefund
<1>5. Fees(p0.prior) <= 0
  <2>1. Fees(p0.prior) = SumInt(FeeFn, p0.prior) /\ IsFiniteSet(p0.prior)
        /\ FeeFn \in [Events -> Int]
    BY <1>0, FeesType
  <2>2. \A q \in p0.prior : FeeFn[q] = ledger[q].fee
    BY <1>0 DEF FeeFn
  <2>3. \A q \in p0.prior : FeeFn[q] <= 0
    <3> SUFFICES ASSUME NEW q \in p0.prior PROVE ledger[q].fee <= 0
      BY <2>2
    <3> QED BY <1>0 DEF ReversalRows, PriorRows
  <2> HIDE DEF FeeFn
  <2> QED BY <1>0, <2>1, <2>3, SumIntNegative
<1> HIDE DEF amount, basis
<1>6. amount > 0 /\ ledger' = [ledger EXCEPT ![r] = Row(-amount, -basis)]
  BY <1>4
<1>7. amount \in 1..Total
  BY <1>0, <1>1, <1>2, <1>5, <1>6, TotalAssumption
<1>8. r \notin Rows
  BY <1>0 DEF ReversalRows
<1>9. /\ ledger' \in [Events -> RowValues] /\ Rows' = Rows \cup {r}
      /\ ledger'[r].fee = -amount
      /\ \A x \in Events \ {r} : ledger'[x] = ledger[x]
  <2>1. -amount \in -Total..Total /\ -basis \in -Total..Total
    BY <1>3, <1>7, TotalAssumption
  <2>2. ledger' \in [Events -> RowValues] /\ Rows' = Rows \cup {r}
    BY ONLY LedgerTypeOK, <1>0, <1>6, <2>1, AddRow
  <2>3. ledger'[r].fee = -amount
    BY <1>0, <1>6 DEF LedgerTypeOK, Row
  <2>4. \A x \in Events \ {r} : ledger'[x] = ledger[x]
    BY <1>0, <1>6, <2>1, AddRow
  <2> QED BY <2>2, <2>3, <2>4
<1>10. ledger'[r].fee \in Int /\ -ledger'[r].fee = amount
  BY <1>7, <1>9, TotalAssumption
<1>11. \A p \in Orders : CommissionsOf(p)' = CommissionsOf(p)
  BY <1>0, <1>9, EventsAssumption DEF CommissionsOf
<1>12. \A p \in Orders \ {o} : ReversalsOf(p)' = ReversalsOf(p)
  BY <1>0, <1>9 DEF ReversalsOf
<1>13. ReversalsOf(o)' = ReversalsOf(o) \cup {r} /\ o' = o
  BY <1>0, <1>9 DEF ReversalsOf
<1>14. ASSUME NEW p \in Orders \ {o} PROVE NetFee(p)' = NetFee(p)
  <2> DEFINE S == CommissionsOf(p) \cup ReversalsOf(p)
  <2>1. S \in SUBSET (Events \ {r})
    BY <1>8 DEF CommissionsOf, ReversalsOf, Rows
  <2>2. NetFee(p)' = SumInt(FeeFn', S) /\ NetFee(p) = SumInt(FeeFn, S)
    BY <1>11, <1>12, <1>14 DEF NetFee, Fees, FeeFn
  <2> HIDE DEF S
  <2>3. SumInt(FeeFn', S) = SumInt(FeeFn, S)
    BY <1>0, <1>9, <1>10, <2>1, SumsAfter
  <2> QED BY <2>2, <2>3
<1> DEFINE S == CommissionsOf(o) \cup ReversalsOf(o)
<1>15. S \in SUBSET (Events \ {r}) /\ S \in SUBSET Events
  BY <1>8 DEF CommissionsOf, ReversalsOf, Rows
<1>16. NetFee(o) = SumInt(FeeFn, S) /\ NetFee(o) \in Int
  BY <1>15, FeesType DEF NetFee
<1>17. NetFee(o)' = SumInt(FeeFn', S \cup {r})
  <2>1. CommissionsOf(o)' \cup ReversalsOf(o)' = S \cup {r}
    BY <1>0, <1>11, <1>13
  <2> QED BY <1>13, <2>1 DEF NetFee, Fees, FeeFn
<1>18. NetFee(o)' = NetFee(o) - amount
  <2> HIDE DEF S
  <2>1. SumInt(FeeFn', S \cup {r}) = SumInt(FeeFn, S) + ledger'[r].fee
    BY <1>0, <1>9, <1>10, <1>15, SumsAfter
  <2> QED BY <1>7, <1>9, <1>16, <1>17, <2>1, TotalAssumption
<1>19. PICK d \in CommissionsOf(o) : p0.fee = ledger[d].fee
  BY <1>0 DEF ReadCharge
<1>20. ASSUME p0.prior = ReversalsOf(o) PROVE amount <= NetFee(o)
  <2>1. CommissionsOf(o) = {d} /\ d \in Deliveries \cap Rows
    BY <1>0, <1>19 DEF OneCommission, CommissionsOf
  <2>2. d \in Events /\ d \notin p0.prior
    BY <1>0, <2>1, EventsAssumption DEF Events
  <2>3. S = p0.prior \cup {d}
    BY <1>20, <2>1
  <2>4. /\ FeeFn \in [Events -> Int] /\ IsFiniteSet(p0.prior)
        /\ Fees(p0.prior) = SumInt(FeeFn, p0.prior)
    BY <1>0, FeesType
  <2>5. FeeFn[d] = p0.fee
    BY <1>19, <2>2 DEF FeeFn
  <2>6. \A x \in p0.prior \cup {d} : FeeFn[x] \in Int
    BY <1>0, <2>2, <2>4
  <2>7. SumInt(FeeFn, p0.prior \cup {d}) = SumInt(FeeFn, p0.prior) + FeeFn[d]
    <3> HIDE DEF FeeFn
    <3> QED BY <2>2, <2>4, <2>6, SumIntAdd
  <2>8. NetFee(o) = Fees(p0.prior) + p0.fee
    BY <1>16, <2>3, <2>4, <2>5, <2>7
  <2> QED BY <1>0, <1>1, <1>2, <1>6, <2>8, TotalAssumption
<1>21. Fees(OrderRows)' = Fees(OrderRows) - amount
  <2>1. OrderRows' = OrderRows \cup {r} /\ OrderRows \in SUBSET (Events \ {r})
        /\ OrderRows \in SUBSET Events
    BY <1>8, <1>9, EventsAssumption DEF OrderRows, Rows
  <2>2. SumInt(FeeFn', OrderRows \cup {r}) = SumInt(FeeFn, OrderRows) + ledger'[r].fee
    BY <1>0, <1>9, <1>10, <2>1, SumsAfter
  <2>3. Fees(OrderRows)' = SumInt(FeeFn', OrderRows')
    BY DEF Fees, FeeFn
  <2>4. Fees(OrderRows) = SumInt(FeeFn, OrderRows) /\ Fees(OrderRows) \in Int
    BY <2>1, FeesType
  <2> QED BY <1>7, <1>9, <2>1, <2>2, <2>3, <2>4, TotalAssumption
<1>22. CommissionsOf(o) # {}
  BY <1>19
<1> QED BY <1>7, <1>8, <1>9, <1>10, <1>11, <1>14, <1>18, <1>20, <1>21, <1>22

(* An adjustment is nobody's commission and nobody's reversal.              *)
LEMMA AdjustmentWritten ==
  ASSUME LedgerTypeOK, NEW j \in Adjustments, addAdjustment(j)
  PROVE  /\ ledger' \in [Events -> RowValues] /\ Rows' = Rows \cup {j}
         /\ \A x \in Events \ {j} : ledger'[x] = ledger[x]
         /\ FeeSoFar' = FeeSoFar
         /\ \A o \in Orders : /\ CommissionsOf(o)' = CommissionsOf(o)
                              /\ ReversalsOf(o)' = ReversalsOf(o)
                              /\ NetFee(o)' = NetFee(o)
<1> DEFINE amount == adjustment[j].amount
<1>0. /\ j \in Events /\ j \notin Deliveries /\ j \notin Refunds
      /\ UNCHANGED <<delivery, refund>>
      /\ ledger' = [ledger EXCEPT ![j] = Row(amount, 0)]
  BY EventsAssumption DEF Events, addAdjustment
<1>1. amount \in -Total..Total /\ 0 \in -Total..Total
  <2>1. amount \in {-1, 0, 1}
    BY DEF LedgerTypeOK
  <2> HIDE DEF amount
  <2> QED BY <2>1, TotalAssumption
<1> HIDE DEF amount
<1>2. /\ ledger' \in [Events -> RowValues] /\ Rows' = Rows \cup {j}
      /\ ledger'[j].fee = amount
      /\ \A x \in Events \ {j} : ledger'[x] = ledger[x]
  BY <1>0, <1>1, AddRow
<1>3. ledger'[j].fee \in Int
  BY <1>1, <1>2, TotalAssumption
<1>4. \A o \in Orders : CommissionsOf(o)' = CommissionsOf(o) /\ ReversalsOf(o)' = ReversalsOf(o)
  BY <1>0, <1>2 DEF CommissionsOf, ReversalsOf
<1>5. OrderRows' = OrderRows
  BY <1>0, <1>2 DEF OrderRows
<1>6. Fees(OrderRows)' = Fees(OrderRows)
  <2>1. OrderRows \in SUBSET (Events \ {j})
    BY DEF OrderRows, Rows
  <2>2. SumInt(FeeFn', OrderRows) = SumInt(FeeFn, OrderRows)
    BY <1>0, <1>2, <1>3, <2>1, SumsAfter
  <2>3. Fees(OrderRows)' = SumInt(FeeFn', OrderRows') /\ Fees(OrderRows) = SumInt(FeeFn, OrderRows)
    BY DEF Fees, FeeFn
  <2> QED BY <1>5, <2>2, <2>3
<1>7. ASSUME NEW o \in Orders PROVE NetFee(o)' = NetFee(o)
  <2> DEFINE S == CommissionsOf(o) \cup ReversalsOf(o)
  <2>1. S \in SUBSET (Events \ {j})
    BY <1>0 DEF CommissionsOf, ReversalsOf, Rows
  <2>2. NetFee(o)' = SumInt(FeeFn', S) /\ NetFee(o) = SumInt(FeeFn, S)
    BY <1>4 DEF NetFee, Fees, FeeFn
  <2> HIDE DEF S
  <2>3. SumInt(FeeFn', S) = SumInt(FeeFn, S)
    BY <1>0, <1>2, <1>3, <2>1, SumsAfter
  <2> QED BY <2>2, <2>3
<1> QED BY <1>2, <1>4, <1>6, <1>7 DEF FeeSoFar

(* ------------------------------- The steps ------------------------------- *)

(* The stamps of the rows are the statements' business.                     *)
Restamped ==
  /\ UNCHANGED <<order, delivery, refund, adjustment>>
  /\ ledger' \in [Events -> RowValues]
  /\ \A e \in Events : /\ ledger'[e].fee = ledger[e].fee /\ ledger'[e].basis = ledger[e].basis
                       /\ ledger'[e].written = ledger[e].written

LedgerStep ==
  \/ \E c \in BOOLEAN : LedgerStarts(c)
  \/ LedgerContinues
  \/ Restamped
  \/ UNCHANGED ledgerVars

RangeKept ==
  \A o \in Orders : InFeeRange(o) =>
     \/ InFeeRange(o)'
     \/ \E r \in Refunds : refund[r].order = o /\ StaleReversal(r)

CapKept ==
  \A d \in Deliveries :
     /\ ~ledger[d].written /\ ledger'[d].written
     /\ ledger'[d].fee > 0
     /\ FeeSoFar' > PeriodCap
     => delivery[d].feeSoFar # FeeSoFar

LedgerKept == LedgerTypeOK' /\ LedgerInv' /\ RangeKept /\ CapKept

(* A step that writes no row, ends no read and forgets no end.              *)
LEMMA QuietStep ==
  ASSUME LedgerInv, LedgerTypeOK', SameRows,
         \A d \in Deliveries : delivery[d].phase = "done" => delivery'[d].phase = "done",
         \A r \in Refunds : /\ refund[r].phase = "done" => refund'[r].phase = "done"
                            /\ refund'[r].phase = "read" =>
                                 refund'[r] = refund[r] \/
                                 \E d \in CommissionsOf(refund[r].order) :
                                   /\ refund'[r].fee = ledger[d].fee
                                   /\ refund'[r].basis = ledger[d].basis
                            /\ refund'[r].prior \subseteq Rows
  PROVE  LedgerKept
<1>1. LedgerInv'
  BY SameRowsInv
<1>2. RangeKept
  <2>1. \A o \in Orders : NetFee(o)' = NetFee(o)
    BY SameRowsEffect
  <2> QED BY <2>1 DEF RangeKept, InFeeRange
<1>3. CapKept
  BY DEF CapKept, SameRows, Events
<1> QED BY <1>1, <1>2, <1>3 DEF LedgerKept

(* A delivery's request or listener moves on, and writes no row.            *)
LEMMA DeliveryMoves ==
  ASSUME LedgerTypeOK, LedgerInv, NEW d \in Deliveries, delivery[d].phase # "done",
         NEW x, x.order = delivery[d].order,
         x \in [order : Orders, phase : DeliveryPhases, basis : 0..Total,
                feeSoFar : 0..PeriodCap * Cardinality(Deliveries)],
         delivery' = [delivery EXCEPT ![d] = x],
         order' \in [Orders -> [delivered : BOOLEAN, refunded : 0..Total]],
         UNCHANGED <<refund, adjustment, ledger>>
  PROVE  LedgerKept
<1>1. LedgerTypeOK'
  BY DEF LedgerTypeOK
<1>2. /\ delivery'[d] = x /\ \A c \in Deliveries \ {d} : delivery'[c] = delivery[c]
  BY DEF LedgerTypeOK
<1>3. SameRows
  BY <1>2 DEF SameRows
<1>4. \A c \in Deliveries : delivery[c].phase = "done" => delivery'[c].phase = "done"
  BY <1>2
<1>5. \A r \in Refunds : refund'[r] = refund[r] /\ refund'[r].prior \subseteq Rows
  BY DEF LedgerInv, PriorRows
<1> QED BY <1>1, <1>3, <1>4, <1>5, QuietStep

(* A refund or its listener moves on, and writes no row.                    *)
LEMMA RefundMoves ==
  ASSUME LedgerTypeOK, LedgerInv, NEW r \in Refunds, refund[r].phase # "done",
         NEW x, x.order = refund[r].order,
         x \in [order : Orders, phase : RefundPhases, amount : 0..Total,
                fee : 0..Total, basis : 0..Total, prior : SUBSET Refunds],
         x.prior \subseteq Rows,
         x.phase = "read" => \E d \in CommissionsOf(refund[r].order) :
                               x.fee = ledger[d].fee /\ x.basis = ledger[d].basis,
         refund' = [refund EXCEPT ![r] = x],
         order' \in [Orders -> [delivered : BOOLEAN, refunded : 0..Total]],
         UNCHANGED <<delivery, adjustment, ledger>>
  PROVE  LedgerKept
<1>1. LedgerTypeOK'
  BY DEF LedgerTypeOK
<1>2. /\ refund'[r] = x /\ \A q \in Refunds \ {r} : refund'[q] = refund[q]
  BY DEF LedgerTypeOK
<1>3. SameRows
  BY <1>2 DEF SameRows
<1>4. \A q \in Refunds : /\ refund[q].phase = "done" => refund'[q].phase = "done"
                         /\ refund'[q].phase = "read" =>
                              refund'[q] = refund[q] \/
                              \E d \in CommissionsOf(refund[q].order) :
                                /\ refund'[q].fee = ledger[d].fee
                                /\ refund'[q].basis = ledger[d].basis
                         /\ refund'[q].prior \subseteq Rows
  BY <1>2 DEF LedgerInv, PriorRows
<1> QED BY <1>1, <1>3, <1>4, QuietStep

LEMMA DeliveryStarts ==
  ASSUME LedgerTypeOK, LedgerInv, NEW d \in Deliveries,
         CheckDelivery(d) \/ DeliverByStatus(d) \/ RecognizeRead(d) \/ LoseDelivery(d)
  PROVE  LedgerKept
<1> DEFINE o == delivery[d].order
           read == IF delivery[d].basis > 0 THEN "read" ELSE "done"
           Values == [order : Orders, phase : DeliveryPhases, basis : 0..Total,
                      feeSoFar : 0..PeriodCap * Cardinality(Deliveries)]
<1>0. /\ delivery[d] \in Values /\ o \in Orders
      /\ order \in [Orders -> [delivered : BOOLEAN, refunded : 0..Total]]
  BY DEF LedgerTypeOK
<1>1. CASE CheckDelivery(d)
  <2> DEFINE x == [delivery[d] EXCEPT !.phase = "checked"]
  <2>1. x \in Values /\ x.order = o
    BY <1>0 DEF DeliveryPhases
  <2>2. /\ delivery' = [delivery EXCEPT ![d] = x] /\ delivery[d].phase # "done"
        /\ UNCHANGED <<order, refund, adjustment, ledger>>
    BY <1>1 DEF CheckDelivery
  <2> HIDE DEF x
  <2> QED BY <1>0, <2>1, <2>2, DeliveryMoves
<1>2. CASE DeliverByStatus(d)
  <2> DEFINE x == [delivery[d] EXCEPT !.phase = "written", !.basis = Total - order[o].refunded]
  <2>1. Total - order[o].refunded \in 0..Total
    BY <1>0, TotalAssumption
  <2>2. x \in Values /\ x.order = o
    BY <1>0, <2>1 DEF DeliveryPhases
  <2>3. /\ delivery' = [delivery EXCEPT ![d] = x] /\ delivery[d].phase # "done"
        /\ UNCHANGED <<refund, adjustment, ledger>>
        /\ order' = [order EXCEPT ![o].delivered = TRUE]
    BY <1>2 DEF DeliverByStatus
  <2>4. order' \in [Orders -> [delivered : BOOLEAN, refunded : 0..Total]]
    BY <1>0, <2>3
  <2> HIDE DEF x
  <2> QED BY <2>2, <2>3, <2>4, DeliveryMoves
<1>3. CASE RecognizeRead(d)
  <2> DEFINE x == [delivery[d] EXCEPT !.phase = read, !.feeSoFar = FeeSoFar]
  <2>1. FeeSoFar \in 0..PeriodCap * Cardinality(Deliveries)
    BY FeeSoFarBounds DEF LedgerInv
  <2>2. x \in Values /\ x.order = o
    BY <1>0, <2>1 DEF DeliveryPhases
  <2>3. /\ delivery' = [delivery EXCEPT ![d] = x] /\ delivery[d].phase # "done"
        /\ UNCHANGED <<order, refund, adjustment, ledger>>
    BY <1>3 DEF RecognizeRead
  <2> HIDE DEF x
  <2> QED BY <1>0, <2>2, <2>3, DeliveryMoves
<1>4. CASE LoseDelivery(d)
  <2> DEFINE x == [delivery[d] EXCEPT !.phase = "lost"]
  <2>1. x \in Values /\ x.order = o
    BY <1>0 DEF DeliveryPhases
  <2>2. /\ delivery' = [delivery EXCEPT ![d] = x] /\ delivery[d].phase # "done"
        /\ UNCHANGED <<order, refund, adjustment, ledger>>
    BY <1>4 DEF LoseDelivery
  <2> HIDE DEF x
  <2> QED BY <1>0, <2>1, <2>2, DeliveryMoves
<1> QED BY <1>1, <1>2, <1>3, <1>4

LEMMA RecognizeStep ==
  ASSUME LedgerTypeOK, LedgerInv, NEW d \in Deliveries, recognizeDelivered(d)
  PROVE  LedgerKept
<1> DEFINE o == delivery[d].order
           x == [delivery[d] EXCEPT !.phase = "done"]
           Values == [order : Orders, phase : DeliveryPhases, basis : 0..Total,
                      feeSoFar : 0..PeriodCap * Cardinality(Deliveries)]
<1>0. /\ delivery[d] \in Values /\ o \in Orders /\ delivery \in [Deliveries -> Values]
      /\ order \in [Orders -> [delivered : BOOLEAN, refunded : 0..Total]]
  BY DEF LedgerTypeOK
<1>1. x \in Values /\ x.order = o /\ x.phase = "done"
  BY <1>0 DEF DeliveryPhases
<1>2. /\ delivery' = [delivery EXCEPT ![d] = x] /\ delivery[d].phase # "done"
      /\ UNCHANGED <<order, refund, adjustment>>
  BY DEF recognizeDelivered
<1> HIDE DEF x
<1>3. CASE CommissionsOf(o) # {}
  <2>1. UNCHANGED ledger
    BY <1>3 DEF recognizeDelivered
  <2> QED BY <1>0, <1>1, <1>2, <2>1, DeliveryMoves
<1>4. CASE CommissionsOf(o) = {}
  <2> DEFINE fee == computeCommission(delivery[d].basis, delivery[d].feeSoFar)
  <2>0. /\ CommissionRows /\ ReversalRows /\ OneCommission /\ ReadCharge /\ PriorRows
        /\ d \in Events
    BY DEF LedgerInv, Events
  <2>1. /\ d \notin Rows /\ Rows' = Rows \cup {d}
        /\ ledger' \in [Events -> RowValues]
        /\ \A e \in Events \ {d} : ledger'[e] = ledger[e]
        /\ ledger'[d].fee = fee /\ ledger'[d].basis = delivery[d].basis
    BY <1>4, CommissionWritten
  <2>2. /\ fee \in 0..FeeOf(Total) /\ fee <= PeriodCap
        /\ fee > 0 => delivery[d].feeSoFar + fee <= PeriodCap
    BY <1>4, CommissionWritten
  <2>3. /\ \A p \in Orders \ {o} : CommissionsOf(p)' = CommissionsOf(p)
        /\ CommissionsOf(o)' = {d}
        /\ \A p \in Orders : ReversalsOf(p)' = ReversalsOf(p)
    BY <1>4, CommissionWritten
  <2>4. /\ \A p \in Orders \ {o} : NetFee(p)' = NetFee(p)
        /\ NetFee(o)' = fee
        /\ Fees(OrderRows)' = Fees(OrderRows) + fee
    BY <1>4, CommissionWritten
  <2> HIDE DEF fee
  <2>5. /\ delivery'[d] = x /\ \A c \in Deliveries \ {d} : delivery'[c] = delivery[c]
        /\ delivery' \in [Deliveries -> Values] /\ o' = o
    BY <1>0, <1>1, <1>2
  <2>6. LedgerTypeOK'
    BY <1>2, <2>1, <2>5 DEF LedgerTypeOK
  <2>7. CommissionRows'
    <3> SUFFICES ASSUME NEW c \in Deliveries, c \in Rows'
                 PROVE  /\ delivery'[c].phase = "done"
                        /\ ledger'[c].fee \in 0..FeeOf(Total) /\ ledger'[c].fee <= PeriodCap
                        /\ ledger'[c].basis \in 0..Total
      BY DEF CommissionRows
    <3>1. CASE c = d
      BY <1>0, <1>1, <2>1, <2>2, <2>5, <3>1
    <3>2. CASE c # d
      BY <2>0, <2>1, <2>5, <3>2 DEF CommissionRows, Events
    <3> QED BY <3>1, <3>2
  <2>8. \A p \in Orders : CommissionsOf(p) # {} => CommissionsOf(p)' = CommissionsOf(p)
    BY <1>4, <2>3
  <2>9. ReversalRows'
    <3> SUFFICES ASSUME NEW r \in Refunds, r \in Rows'
                 PROVE  /\ refund'[r].phase = "done" /\ ledger'[r].fee <= 0
                        /\ CommissionsOf(refund[r].order)' # {}
      BY <1>2 DEF ReversalRows
    <3>1. r \in Events \ {d} /\ r \in Rows /\ refund[r].order \in Orders
      BY <2>1, EventsAssumption DEF Events, LedgerTypeOK
    <3> QED BY <1>2, <2>0, <2>1, <2>8, <3>1 DEF ReversalRows
  <2>10. OneCommission'
    <3> SUFFICES ASSUME NEW p \in Orders PROVE \A b, c \in CommissionsOf(p)' : b = c
      BY DEF OneCommission
    <3> QED BY <2>0, <2>3, <2>5 DEF OneCommission
  <2>11. ReadCharge'
    <3> SUFFICES ASSUME NEW r \in Refunds, refund[r].phase = "read"
                 PROVE  \E c \in CommissionsOf(refund[r].order)' :
                          refund[r].fee = ledger'[c].fee /\ refund[r].basis = ledger'[c].basis
      BY <1>2 DEF ReadCharge
    <3>1. PICK c \in CommissionsOf(refund[r].order) :
            refund[r].fee = ledger[c].fee /\ refund[r].basis = ledger[c].basis
      BY <2>0 DEF ReadCharge
    <3>2. c \in Events \ {d} /\ refund[r].order \in Orders
      BY <2>1, <3>1 DEF CommissionsOf, Rows, LedgerTypeOK
    <3> QED BY <1>2, <2>1, <2>8, <3>1, <3>2
  <2>12. PriorRows'
    BY <1>2, <2>0, <2>1 DEF PriorRows
  <2>13. RangeKept
    <3> SUFFICES ASSUME NEW p \in Orders, NetFee(p) \in 0..FeeOf(Total)
                 PROVE  NetFee(p)' \in 0..FeeOf(Total)
      BY DEF RangeKept, InFeeRange
    <3> QED BY <2>2, <2>4, <2>5
  <2>14. CapKept
    <3> SUFFICES ASSUME NEW c \in Deliveries, ~ledger[c].written, ledger'[c].written,
                        ledger'[c].fee > 0, FeeSoFar' > PeriodCap, delivery[c].feeSoFar = FeeSoFar
                 PROVE  FALSE
      BY DEF CapKept
    <3>1. c = d
      BY <2>1 DEF Events
    <3>2. fee > 0 /\ delivery[d].feeSoFar + fee <= PeriodCap
      BY <2>1, <2>2, <3>1
    <3>3. /\ FeeSoFar \in Nat /\ Fees(OrderRows) \in Int
          /\ FeeSoFar = IF Fees(OrderRows) >= 0 THEN Fees(OrderRows) ELSE 0
      BY <2>0, FeeSoFarBounds
    <3>4. FeeOf(Total) \in Nat
      BY FeeOfMonotone, TotalAssumption
    <3>5. fee \in Nat /\ FeeSoFar + fee <= PeriodCap
      BY <2>2, <3>1, <3>2, <3>4
    <3>6. Fees(OrderRows)' \in Int /\ Fees(OrderRows)' <= FeeSoFar + fee
      BY <2>4, <3>3, <3>5
    <3> DEFINE F == Fees(OrderRows)
    <3>7. FeeSoFar' = Max({0, F'})
      BY DEF FeeSoFar
    <3> HIDE DEF F
    <3>8. F' \in Int /\ F' <= FeeSoFar + fee
      BY <3>6 DEF F
    <3>9. Max({0, F'}) = IF F' >= 0 THEN F' ELSE 0
      BY <3>8, MaxZero
    <3> QED BY <3>3, <3>5, <3>7, <3>8, <3>9, CapAssumption
  <2> QED BY <2>6, <2>7, <2>9, <2>10, <2>11, <2>12, <2>13, <2>14 DEF LedgerKept, LedgerInv
<1> QED BY <1>3, <1>4

LEMMA RefundStarts ==
  ASSUME LedgerTypeOK, LedgerInv, NEW r \in Refunds,
         (\E amount \in 1..Total : Refund(r, amount)) \/ ReverseRead(r) \/ LoseRefund(r)
  PROVE  LedgerKept
<1> DEFINE o == refund[r].order
           Values == [order : Orders, phase : RefundPhases, amount : 0..Total,
                      fee : 0..Total, basis : 0..Total, prior : SUBSET Refunds]
<1>0. /\ refund[r] \in Values /\ o \in Orders /\ refund[r].prior \subseteq Rows
      /\ order \in [Orders -> [delivered : BOOLEAN, refunded : 0..Total]]
      /\ CommissionRows
  BY DEF LedgerTypeOK, LedgerInv, PriorRows
<1>1. CASE \E amount \in 1..Total : Refund(r, amount)
  <2>1. PICK amount \in 1..Total : Refund(r, amount)
    BY <1>1
  <2> DEFINE x == [refund[r] EXCEPT !.phase = "emitted", !.amount = amount]
  <2>amount. amount \in 0..Total
    BY TotalAssumption
  <2>2. x \in Values /\ x.order = o /\ x.phase # "read" /\ x.prior \subseteq Rows
    BY <1>0, <2>amount DEF RefundPhases
  <2>3. /\ refund' = [refund EXCEPT ![r] = x] /\ refund[r].phase # "done"
        /\ UNCHANGED <<delivery, adjustment, ledger>>
    BY <2>1 DEF Refund
  <2>guard. /\ amount \in 1..(Total - order[o].refunded)
        /\ order' = [order EXCEPT ![o].refunded = @ + amount]
    BY <2>1 DEF Refund
  <2>4. order[o].refunded + amount \in 0..Total
    BY <1>0, <2>guard, TotalAssumption
  <2>5. order' \in [Orders -> [delivered : BOOLEAN, refunded : 0..Total]]
    BY <1>0, <2>guard, <2>4
  <2> HIDE DEF x
  <2> QED BY <2>2, <2>3, <2>5, RefundMoves
<1>2. CASE ReverseRead(r) /\ refund' = [refund EXCEPT ![r].phase = "done"]
  <2> DEFINE x == [refund[r] EXCEPT !.phase = "done"]
  <2>1. x \in Values /\ x.order = o /\ x.phase # "read" /\ x.prior \subseteq Rows
    BY <1>0 DEF RefundPhases
  <2>2. /\ refund' = [refund EXCEPT ![r] = x] /\ refund[r].phase # "done"
        /\ UNCHANGED <<order, delivery, adjustment, ledger>>
    BY <1>2 DEF ReverseRead
  <2> HIDE DEF x
  <2> QED BY <1>0, <2>1, <2>2, RefundMoves
<1>3. CASE ReverseRead(r) /\ refund' # [refund EXCEPT ![r].phase = "done"]
  <2>0. refund[r].phase # "done" /\ UNCHANGED <<order, delivery, adjustment, ledger>>
    BY <1>3 DEF ReverseRead
  <2>1. PICK d \in CommissionsOf(o) :
          refund' = [refund EXCEPT ![r].phase = "read", ![r].fee = ledger[d].fee,
                                   ![r].basis = ledger[d].basis, ![r].prior = ReversalsOf(o)]
    BY <1>3 DEF ReverseRead
  <2> DEFINE x == [refund[r] EXCEPT !.phase = "read", !.fee = ledger[d].fee,
                                    !.basis = ledger[d].basis, !.prior = ReversalsOf(o)]
  <2>2. ledger[d].fee \in 0..Total /\ ledger[d].basis \in 0..Total
    <3>1. d \in Deliveries \cap Rows
      BY <2>1 DEF CommissionsOf
    <3>2. ledger[d].fee \in 0..FeeOf(Total) /\ ledger[d].basis \in 0..Total
      BY <1>0, <3>1 DEF CommissionRows
    <3>3. FeeOf(Total) \in 0..Total
      BY FeeOfMonotone, TotalAssumption
    <3> QED BY <3>2, <3>3, TotalAssumption
  <2>3. ReversalsOf(o) \subseteq Refunds /\ ReversalsOf(o) \subseteq Rows
    BY DEF ReversalsOf
  <2>4. x \in Values /\ x.order = o
    BY <1>0, <2>2, <2>3 DEF RefundPhases
  <2>5. x.fee = ledger[d].fee /\ x.basis = ledger[d].basis /\ x.prior \subseteq Rows
    BY <1>0, <2>3
  <2>6. refund' = [refund EXCEPT ![r] = x]
    BY <2>1
  <2> HIDE DEF x
  <2> QED BY <1>0, <2>0, <2>1, <2>4, <2>5, <2>6, RefundMoves
<1>4. CASE LoseRefund(r)
  <2> DEFINE x == [refund[r] EXCEPT !.phase = "lost"]
  <2>1. x \in Values /\ x.order = o /\ x.phase # "read" /\ x.prior \subseteq Rows
    BY <1>0 DEF RefundPhases
  <2>2. /\ refund' = [refund EXCEPT ![r] = x] /\ refund[r].phase # "done"
        /\ UNCHANGED <<order, delivery, adjustment, ledger>>
    BY <1>4 DEF LoseRefund
  <2> HIDE DEF x
  <2> QED BY <1>0, <2>1, <2>2, RefundMoves
<1> QED BY <1>1, <1>2, <1>3, <1>4

LEMMA ReverseStep ==
  ASSUME LedgerTypeOK, LedgerInv, NEW r \in Refunds, reverseForRefund(r)
  PROVE  LedgerKept
<1> DEFINE o == refund[r].order
           x == [refund[r] EXCEPT !.phase = "done"]
           Values == [order : Orders, phase : RefundPhases, amount : 0..Total,
                      fee : 0..Total, basis : 0..Total, prior : SUBSET Refunds]
<1>0. /\ refund[r] \in Values /\ o \in Orders /\ refund \in [Refunds -> Values]
      /\ order \in [Orders -> [delivered : BOOLEAN, refunded : 0..Total]]
      /\ CommissionRows /\ ReversalRows /\ OneCommission /\ ReadCharge /\ PriorRows
  BY DEF LedgerTypeOK, LedgerInv
<1>1. x \in Values /\ x.order = o /\ x.phase = "done" /\ x.prior = refund[r].prior
  BY <1>0 DEF RefundPhases
<1>2. /\ refund' = [refund EXCEPT ![r] = x] /\ refund[r].phase = "read"
      /\ UNCHANGED <<order, delivery, adjustment>>
  BY DEF reverseForRefund
<1> HIDE DEF x
<1>3. CASE UNCHANGED ledger
  <2>1. x.prior \subseteq Rows
    BY <1>0, <1>1 DEF PriorRows
  <2> QED BY <1>0, <1>1, <1>2, <1>3, <2>1, RefundMoves
<1>4. CASE ~UNCHANGED ledger
  <2> DEFINE back == -ledger'[r].fee
  <2>1. /\ r \notin Rows /\ Rows' = Rows \cup {r}
        /\ ledger' \in [Events -> RowValues]
        /\ \A e \in Events \ {r} : ledger'[e] = ledger[e]
    BY <1>4, ReversalWritten
  <2>2. /\ back \in 1..Total /\ CommissionsOf(o) # {}
        /\ refund[r].prior = ReversalsOf(o) => back <= NetFee(o)
    BY <1>4, ReversalWritten
  <2>3. \A p \in Orders : CommissionsOf(p)' = CommissionsOf(p)
    BY <1>4, ReversalWritten
  <2>4. /\ \A p \in Orders \ {o} : NetFee(p)' = NetFee(p)
        /\ NetFee(o)' = NetFee(o) - back
    BY <1>4, ReversalWritten
  <2>5. /\ refund'[r] = x /\ \A q \in Refunds \ {r} : refund'[q] = refund[q]
        /\ refund' \in [Refunds -> Values] /\ o' = o
    BY <1>0, <1>1, <1>2
  <2>charge. \A q \in Refunds : CommissionsOf(refund[q].order)' = CommissionsOf(refund[q].order)
    <3>1. \A q \in Refunds : refund'[q].order = refund[q].order
      BY <1>1, <2>5
    <3>2. Deliveries \cap Rows' = Deliveries \cap Rows
      BY <2>1, EventsAssumption
    <3> QED BY <1>2, <3>1, <3>2 DEF CommissionsOf
  <2>6. LedgerTypeOK'
    BY <1>2, <2>1, <2>5 DEF LedgerTypeOK
  <2>7. CommissionRows'
    <3> SUFFICES ASSUME NEW c \in Deliveries, c \in Rows'
                 PROVE  /\ delivery[c].phase = "done"
                        /\ ledger'[c].fee \in 0..FeeOf(Total) /\ ledger'[c].fee <= PeriodCap
                        /\ ledger'[c].basis \in 0..Total
      BY <1>2 DEF CommissionRows
    <3>1. c \in Events \ {r} /\ c \in Rows
      BY <2>1, EventsAssumption DEF Events
    <3> QED BY <1>0, <2>1, <3>1 DEF CommissionRows
  <2>8. ReversalRows'
    <3> SUFFICES ASSUME NEW q \in Refunds, q \in Rows'
                 PROVE  /\ refund'[q].phase = "done" /\ ledger'[q].fee <= 0
                        /\ CommissionsOf(refund[q].order)' # {}
      BY DEF ReversalRows
    <3>1. CASE q = r
      <4>1. ledger'[r].fee <= 0
        <5>1. r \in Events
          BY DEF Events
        <5>2. ledger'[r].fee \in Int
          BY <2>1, <5>1, TotalAssumption DEF RowValues
        <5> QED BY <2>2, <5>2, TotalAssumption
      <4> QED BY <1>0, <1>1, <2>2, <2>charge, <2>5, <3>1, <4>1
    <3>2. CASE q # r
      <4>1. q \in Events \ {r} /\ q \in Rows /\ refund[q].order \in Orders
        BY <2>1, <3>2 DEF Events, LedgerTypeOK
      <4> QED BY <1>0, <2>1, <2>charge, <2>5, <3>2, <4>1 DEF ReversalRows
    <3> QED BY <3>1, <3>2
  <2>9. OneCommission'
    BY <1>0, <2>3 DEF OneCommission
  <2>10. ReadCharge'
    <3> SUFFICES ASSUME NEW q \in Refunds, refund'[q].phase = "read"
                 PROVE  \E c \in CommissionsOf(refund[q].order)' :
                          refund'[q].fee = ledger'[c].fee /\ refund'[q].basis = ledger'[c].basis
      BY DEF ReadCharge
    <3>1. q # r /\ refund'[q] = refund[q] /\ refund[q].order \in Orders
      BY <1>1, <2>5 DEF LedgerTypeOK
    <3>2. PICK c \in CommissionsOf(refund[q].order) :
            refund[q].fee = ledger[c].fee /\ refund[q].basis = ledger[c].basis
      BY <1>0, <3>1 DEF ReadCharge
    <3>3. c \in Events \ {r}
      BY <2>1, <3>2, EventsAssumption DEF CommissionsOf, Rows
    <3> QED BY <2>1, <2>charge, <3>1, <3>2, <3>3
  <2>11. PriorRows'
    <3>1. \A q \in Refunds : refund'[q].prior \subseteq Rows
      BY <1>0, <1>1, <2>5 DEF PriorRows
    <3> QED BY <2>1, <3>1 DEF PriorRows
  <2>12. RangeKept
    <3> SUFFICES ASSUME NEW p \in Orders, NetFee(p) \in 0..FeeOf(Total),
                        \A q \in Refunds : ~(refund[q].order = p /\ StaleReversal(q))
                 PROVE  NetFee(p)' \in 0..FeeOf(Total)
      BY DEF RangeKept, InFeeRange
    <3>1. FeeOf(Total) \in Nat
      BY FeeOfMonotone, TotalAssumption
    <3>2. CASE p # o
      BY <2>4, <3>2
    <3>3. CASE p = o
      <4>1. refund[r].prior = ReversalsOf(o)
        BY <1>1, <1>2, <2>5, <3>3 DEF StaleReversal
      <4>2. back <= NetFee(o) /\ back \in Nat /\ NetFee(o) \in 0..FeeOf(Total)
        BY <2>2, <3>3, <4>1, TotalAssumption
      <4>3. NetFee(p)' = NetFee(o) - back
        BY <2>4, <2>5, <3>3
      <4> HIDE DEF back
      <4> QED BY <3>1, <4>2, <4>3
    <3> QED BY <3>2, <3>3
  <2>13. CapKept
    <3>1. \A d \in Deliveries : ledger'[d] = ledger[d]
      BY <2>1, EventsAssumption DEF Events
    <3> QED BY <3>1 DEF CapKept
  <2> QED BY <2>6, <2>7, <2>8, <2>9, <2>10, <2>11, <2>12, <2>13 DEF LedgerKept, LedgerInv
<1> QED BY <1>3, <1>4

LEMMA AdjustmentSteps ==
  ASSUME LedgerTypeOK, LedgerInv, NEW j \in Adjustments,
         \/ \E amount \in {-1, 1}, c \in BOOLEAN : CheckAdjustment(j, amount, c)
         \/ addAdjustment(j)
  PROVE  LedgerKept
<1>0. CommissionRows /\ ReversalRows /\ OneCommission /\ ReadCharge /\ PriorRows
  BY DEF LedgerInv
<1>1. CASE \E amount \in {-1, 1}, c \in BOOLEAN : CheckAdjustment(j, amount, c)
  <2>1. PICK amount \in {-1, 1}, c \in BOOLEAN : CheckAdjustment(j, amount, c)
    BY <1>1
  <2> DEFINE x == [amount |-> amount, phase |-> IF c THEN "done" ELSE "checked"]
  <2>2. x \in [amount : {-1, 0, 1}, phase : {"idle", "checked", "done"}]
    OBVIOUS
  <2>3. /\ adjustment' = [adjustment EXCEPT ![j] = x]
        /\ UNCHANGED <<order, delivery, refund, ledger>>
    BY <2>1 DEF CheckAdjustment
  <2> HIDE DEF x
  <2>4. LedgerTypeOK'
    BY <2>2, <2>3 DEF LedgerTypeOK
  <2>5. SameRows
    BY <2>3 DEF SameRows
  <2> QED BY <1>0, <2>3, <2>4, <2>5, QuietStep DEF PriorRows
<1>2. CASE addAdjustment(j)
  <2>0. /\ j \in Events /\ j \notin Deliveries /\ j \notin Refunds
        /\ UNCHANGED <<order, delivery, refund>>
        /\ adjustment' = [adjustment EXCEPT ![j].phase = "done"]
    BY <1>2, EventsAssumption DEF Events, addAdjustment
  <2>1. /\ ledger' \in [Events -> RowValues] /\ Rows' = Rows \cup {j}
        /\ \A x \in Events \ {j} : ledger'[x] = ledger[x]
        /\ FeeSoFar' = FeeSoFar
    BY <1>2, AdjustmentWritten
  <2>2. \A o \in Orders : CommissionsOf(o)' = CommissionsOf(o) /\ NetFee(o)' = NetFee(o)
    BY <1>2, AdjustmentWritten
  <2>3. LedgerTypeOK'
    BY <2>0, <2>1 DEF LedgerTypeOK
  <2>4. /\ \A d \in Deliveries : d \in Rows' => d \in Rows
        /\ \A r \in Refunds : r \in Rows' => r \in Rows
        /\ \A x \in Deliveries \cup Refunds : ledger'[x] = ledger[x]
        /\ \A r \in Refunds : CommissionsOf(refund[r].order)' = CommissionsOf(refund[r].order)
    <3>1. \A r \in Refunds : refund[r].order \in Orders
      BY DEF LedgerTypeOK
    <3> QED BY <2>0, <2>1, <2>2, <3>1 DEF Events, CommissionsOf
  <2>5. CommissionRows'
    BY <1>0, <2>0, <2>4 DEF CommissionRows
  <2>6. ReversalRows'
    BY <1>0, <2>0, <2>4 DEF ReversalRows
  <2>7. OneCommission'
    BY <1>0, <2>2 DEF OneCommission
  <2>8. ReadCharge'
    <3>1. \A r \in Refunds : \A d \in CommissionsOf(refund[r].order) : ledger'[d] = ledger[d]
      BY <2>4 DEF CommissionsOf
    <3> QED BY <1>0, <2>0, <2>4, <3>1 DEF ReadCharge
  <2>9. PriorRows'
    BY <1>0, <2>0, <2>1 DEF PriorRows
  <2>10. RangeKept
    BY <2>2 DEF RangeKept, InFeeRange
  <2>11. CapKept
    BY <2>4 DEF CapKept
  <2> QED BY <2>3, <2>5, <2>6, <2>7, <2>8, <2>9, <2>10, <2>11 DEF LedgerKept, LedgerInv
<1> QED BY <1>1, <1>2

(* What every step of the ledger keeps, whoever takes it.                   *)
LEMMA LedgerSteps ==
  ASSUME LedgerTypeOK, LedgerInv, LedgerStep
  PROVE  LedgerKept
<1>0. LedgerInv /\ PriorRows
  BY DEF LedgerInv
<1>1. CASE \E c \in BOOLEAN : LedgerStarts(c)
  <2>1. PICK c \in BOOLEAN : LedgerStarts(c)
    BY <1>1
  <2>2. CASE \E d \in Deliveries : CheckDelivery(d)
    BY <2>2, DeliveryStarts
  <2>3. CASE \E o \in Orders : DeliverByShipment(o)
    <3>1. PICK o \in Orders : DeliverByShipment(o)
      BY <2>3
    <3>2. LedgerTypeOK'
      BY <3>1 DEF DeliverByShipment, LedgerTypeOK
    <3>3. SameRows /\ UNCHANGED <<delivery, refund>>
      BY <3>1 DEF DeliverByShipment, SameRows
    <3> QED BY <1>0, <3>2, <3>3, QuietStep DEF PriorRows
  <2>4. CASE \E r \in Refunds, amount \in 1..Total : Refund(r, amount)
    BY <2>4, RefundStarts
  <2>5. CASE \E j \in Adjustments, amount \in {-1, 1} : CheckAdjustment(j, amount, c)
    BY <2>1, <2>5, AdjustmentSteps
  <2> QED BY <2>1, <2>2, <2>3, <2>4, <2>5 DEF LedgerStarts
<1>2. CASE LedgerContinues
  <2>1. CASE \E d \in Deliveries : DeliverByStatus(d) \/ RecognizeRead(d) \/ LoseDelivery(d)
    BY <2>1, DeliveryStarts
  <2>2. CASE \E d \in Deliveries : recognizeDelivered(d)
    BY <2>2, RecognizeStep
  <2>3. CASE \E r \in Refunds : ReverseRead(r) \/ LoseRefund(r)
    BY <2>3, RefundStarts
  <2>4. CASE \E r \in Refunds : reverseForRefund(r)
    BY <2>4, ReverseStep
  <2>5. CASE \E j \in Adjustments : addAdjustment(j)
    BY <2>5, AdjustmentSteps
  <2> QED BY <1>2, <2>1, <2>2, <2>3, <2>4, <2>5 DEF LedgerContinues
<1>3. CASE Restamped
  <2>1. LedgerTypeOK' /\ SameRows /\ UNCHANGED <<delivery, refund>>
    BY <1>3 DEF Restamped, LedgerTypeOK, SameRows
  <2> QED BY <1>0, <2>1, QuietStep DEF PriorRows
<1>4. CASE UNCHANGED ledgerVars
  <2>1. LedgerTypeOK' /\ SameRows /\ UNCHANGED <<delivery, refund>>
    BY <1>4 DEF ledgerVars, LedgerTypeOK, SameRows
  <2> QED BY <1>0, <2>1, QuietStep DEF PriorRows
<1> QED BY <1>1, <1>2, <1>3, <1>4 DEF LedgerStep

LEMMA LedgerStarted ==
  ASSUME LedgerInit
  PROVE  LedgerTypeOK /\ LedgerInv
<1>0. 0 \in 0..Total /\ 0 \in -Total..Total
  BY TotalAssumption
<1>1. 0 \in 0..PeriodCap * Cardinality(Deliveries)
  <2>1. Cardinality(Deliveries) \in Nat
    BY EventsAssumption, FS_CardinalityType
  <2>2. PeriodCap * Cardinality(Deliveries) \in Nat
    BY <2>1, CapAssumption
  <2> DEFINE m == PeriodCap * Cardinality(Deliveries)
  <2> HIDE DEF m
  <2>3. m \in Nat
    BY <2>2 DEF m
  <2> QED BY <2>3 DEF m
<1>2. /\ \A d \in Deliveries : delivery[d].phase = "idle"
      /\ \A r \in Refunds : refund[r].phase = "idle" /\ refund[r].prior = {}
      /\ Rows = {}
  BY DEF LedgerInit, Rows, NoRow
<1>3. LedgerInv
  BY <1>2 DEF LedgerInv, CommissionRows, ReversalRows, OneCommission, ReadCharge, PriorRows,
              CommissionsOf
<1>4. order \in [Orders -> [delivered : BOOLEAN, refunded : 0..Total]]
  BY <1>0 DEF LedgerInit
<1>5. delivery \in [Deliveries -> [order : Orders, phase : DeliveryPhases, basis : 0..Total,
                                   feeSoFar : 0..PeriodCap * Cardinality(Deliveries)]]
  BY <1>0, <1>1 DEF LedgerInit, DeliveryPhases
<1>6. refund \in [Refunds -> [order : Orders, phase : RefundPhases, amount : 0..Total,
                              fee : 0..Total, basis : 0..Total, prior : SUBSET Refunds]]
  BY <1>0 DEF LedgerInit, RefundPhases
<1>7. /\ adjustment \in [Adjustments -> [amount : {-1, 0, 1}, phase : {"idle", "checked", "done"}]]
      /\ ledger \in [Events -> RowValues]
  BY <1>0 DEF LedgerInit, RowValues, NoRow
<1> QED BY <1>3, <1>4, <1>5, <1>6, <1>7 DEF LedgerTypeOK

===============================================================================
