---------------------------- MODULE CheckoutProofs ----------------------------
(***************************************************************************)
(* What Checkout guarantees for any number of attempts, carts, keys and    *)
(* requests on the card, any price, balance and limit of the code.         *)
(***************************************************************************)
EXTENDS Checkout, FiniteSetTheorems, TLAPS

(* ----------------------- How an attempt's record moves -------------------- *)

AttemptRecords ==
  [phase: Phases, cart: Carts, stamp: 0..MaxEdits, key: Keys, amount: 0..Price,
   code: BOOLEAN, target: CardStatuses]

AdminRecords ==
  [op: {"idle", "adjust", "enable", "redeem", "done"}, delta: {-1, 0, 1}, target: CardStatuses]

(* Nobody but a moves. *)
OthersStay(a) == \A b \in Attempts \ {a} : checkout'[b] = checkout[b]

SameOrder(a) ==
  /\ checkout'[a].cart = checkout[a].cart
  /\ checkout'[a].stamp = checkout[a].stamp
  /\ checkout'[a].key = checkout[a].key
  /\ checkout'[a].amount = checkout[a].amount
  /\ checkout'[a].code = checkout[a].code

LEMMA AttemptType ==
  ASSUME NEW phase \in Phases, NEW k \in Carts
  PROVE  Attempt(phase, k) \in AttemptRecords
<1>1. 0 \in 0..MaxEdits /\ 0 \in 0..Price
  BY PriceAssumption, BoundsAssumption
<1>2. <<k, 0>> \in Keys
  BY <1>1 DEF Keys
<1> QED BY <1>1, <1>2 DEF Attempt, AttemptRecords, CardStatuses

LEMMA MoveEffect ==
  ASSUME checkout \in [Attempts -> AttemptRecords], NEW a \in Attempts, NEW phase \in Phases,
         Move(a, phase)
  PROVE  /\ checkout' \in [Attempts -> AttemptRecords]
         /\ OthersStay(a) /\ SameOrder(a)
         /\ checkout'[a].phase = phase /\ checkout'[a].target = checkout[a].target
<1> DEFINE x == [checkout[a] EXCEPT !.phase = phase]
<1>1. checkout[a] \in AttemptRecords
  OBVIOUS
<1>2. /\ x \in AttemptRecords /\ x.phase = phase /\ x.target = checkout[a].target
      /\ x.cart = checkout[a].cart /\ x.stamp = checkout[a].stamp /\ x.key = checkout[a].key
      /\ x.amount = checkout[a].amount /\ x.code = checkout[a].code
  BY <1>1 DEF AttemptRecords
<1>3. checkout' = [checkout EXCEPT ![a] = x]
  BY DEF Move
<1> HIDE DEF x
<1>4. checkout'[a] = x /\ OthersStay(a) /\ checkout' \in [Attempts -> AttemptRecords]
  BY <1>2, <1>3 DEF OthersStay
<1> QED BY <1>2, <1>4 DEF SameOrder

LEMMA GiveUpEffect ==
  ASSUME checkout \in [Attempts -> AttemptRecords], NEW a \in Attempts, GiveUp(a)
  PROVE  /\ checkout' \in [Attempts -> AttemptRecords]
         /\ OthersStay(a)
         /\ checkout'[a] = Attempt("done", checkout[a].cart)
         /\ checkout'[a].phase = "done" /\ checkout'[a].amount = 0
         /\ checkout'[a].code = FALSE
<1>1. checkout[a].cart \in Carts
  BY DEF AttemptRecords
<1>2. Attempt("done", checkout[a].cart) \in AttemptRecords
  BY <1>1, AttemptType DEF Phases
<1>3. /\ Attempt("done", checkout[a].cart).phase = "done"
      /\ Attempt("done", checkout[a].cart).amount = 0
      /\ Attempt("done", checkout[a].cart).code = FALSE
  BY DEF Attempt
<1> QED BY <1>2, <1>3 DEF GiveUp, OthersStay

LEMMA FinishEffect ==
  ASSUME checkout \in [Attempts -> AttemptRecords], NEW a \in Attempts, Finish(a)
  PROVE  /\ checkout' \in [Attempts -> AttemptRecords]
         /\ OthersStay(a)
         /\ checkout'[a].phase = "done"
         /\ orders[a] = "None" => checkout'[a].amount = 0 /\ checkout'[a].code = FALSE
         /\ orders[a] # "None" => SameOrder(a)
<1>1. CASE orders[a] = "None"
  BY <1>1, GiveUpEffect DEF Finish
<1>2. CASE orders[a] # "None"
  <2> DEFINE x == [checkout[a] EXCEPT !.phase = "done", !.target = "active"]
  <2>1. checkout[a] \in AttemptRecords
    OBVIOUS
  <2>2. /\ x \in AttemptRecords /\ x.phase = "done"
        /\ x.cart = checkout[a].cart /\ x.stamp = checkout[a].stamp /\ x.key = checkout[a].key
        /\ x.amount = checkout[a].amount /\ x.code = checkout[a].code
    BY <2>1 DEF AttemptRecords, Phases, CardStatuses
  <2>3. checkout' = [checkout EXCEPT ![a] = x]
    BY <1>2 DEF Finish
  <2> HIDE DEF x
  <2>4. checkout'[a] = x /\ OthersStay(a) /\ checkout' \in [Attempts -> AttemptRecords]
    BY <2>2, <2>3 DEF OthersStay
  <2> QED BY <1>2, <2>2, <2>4 DEF SameOrder
<1> QED BY <1>1, <1>2

LEMMA BeginEffect ==
  ASSUME TypeOK, NEW a \in Attempts, NEW key \in Keys, NEW code \in BOOLEAN,
         NEW pays \in BOOLEAN, Begin(a, key, code, pays)
  PROVE  /\ checkout' \in [Attempts -> AttemptRecords]
         /\ OthersStay(a)
         /\ checkout[a].phase = "idle" /\ checkout'[a].phase = "priced"
<1> DEFINE k == checkout[a].cart
           amount == IF pays THEN (IF card.balance <= Price THEN card.balance ELSE Price) ELSE 0
           x == [checkout[a] EXCEPT !.phase = "priced", !.stamp = cart[k].stamp, !.key = key,
                                    !.amount = amount, !.code = code]
<1>1. checkout \in [Attempts -> AttemptRecords] /\ checkout[a] \in AttemptRecords
  BY DEF TypeOK, AttemptRecords
<1>2. amount \in 0..Price
  BY PriceAssumption DEF TypeOK
<1>3. cart[k].stamp \in 0..MaxEdits
  BY <1>1 DEF TypeOK, AttemptRecords
<1>4. checkout' = [checkout EXCEPT ![a] = x]
  BY <1>1 DEF Begin
<1> HIDE DEF amount, k
<1>5. x \in AttemptRecords /\ x.phase = "priced"
  BY <1>1, <1>2, <1>3 DEF AttemptRecords, Phases
<1>6. checkout[a].phase = "idle"
  BY DEF Begin
<1> HIDE DEF x
<1>7. checkout'[a] = x /\ checkout' \in [Attempts -> AttemptRecords]
  BY <1>1, <1>4, <1>5
<1>8. OthersStay(a)
  BY <1>1, <1>4 DEF OthersStay
<1> QED BY <1>5, <1>6, <1>7, <1>8

LEMMA RefundReadEffect ==
  ASSUME TypeOK, NEW a \in Attempts, RefundRead(a)
  PROVE  /\ checkout' \in [Attempts -> AttemptRecords]
         /\ OthersStay(a) /\ SameOrder(a)
         /\ checkout[a].phase = "refunding" /\ checkout'[a].phase = "refundWrite"
         /\ checkout'[a].target = statusAfter(checkout[a].amount)
<1> DEFINE s == statusAfter(checkout[a].amount)
           x == [checkout[a] EXCEPT !.phase = "refundWrite", !.target = s]
<1>1. checkout \in [Attempts -> AttemptRecords] /\ checkout[a].phase = "refunding"
  BY DEF TypeOK, AttemptRecords, RefundRead
<1>2. s \in CardStatuses
  BY DEF statusAfter, TypeOK, CardStatuses
<1>3. checkout' = [checkout EXCEPT ![a] = x]
  BY DEF RefundRead
<1> HIDE DEF s
<1>4. /\ x \in AttemptRecords /\ x.phase = "refundWrite" /\ x.target = s
      /\ x.cart = checkout[a].cart /\ x.stamp = checkout[a].stamp /\ x.key = checkout[a].key
      /\ x.amount = checkout[a].amount /\ x.code = checkout[a].code
  BY <1>1, <1>2 DEF AttemptRecords, Phases
<1> HIDE DEF x
<1>5. checkout'[a] = x /\ OthersStay(a) /\ checkout' \in [Attempts -> AttemptRecords]
  BY <1>1, <1>3, <1>4 DEF OthersStay
<1> QED BY <1>1, <1>4, <1>5 DEF SameOrder, s

(* ---------------------------- Type correctness --------------------------- *)

(* Of the open transactions at most one has written the code, and while it is *)
(* open the code has a use left.                                              *)
CodeInv ==
  \A a \in Attempts : checkout[a].phase \in Open /\ checkout[a].code =>
    used < UsageLimit /\ \A b \in OpenOthers(a) : ~checkout[b].code

Cards == [status: CardStatuses, balance: Nat]

LEMMA RedeemType ==
  ASSUME card \in Cards, NEW amount \in Nat, redeemable(amount), redeemCardAtomicRepo(amount)
  PROVE  card' \in Cards
BY DEF Cards, redeemable, Spendable, redeemCardAtomicRepo, CardStatuses

LEMMA AddType ==
  ASSUME card \in Cards, NEW delta \in Int, card.balance + delta >= 0,
         NEW target \in CardStatuses, addTransactionRepo(delta, target)
  PROVE  card' \in Cards
BY DEF Cards, addTransactionRepo

(* The part of the type that a checkout attempt may change. *)
CheckoutTypeOK ==
  /\ card \in Cards
  /\ cart \in [Carts -> [stamp: 0..MaxEdits, live: BOOLEAN]]
  /\ orders \in [Attempts -> {"None", "Placed", "Cancelled"}]
  /\ used \in 0..UsageLimit
  /\ stale \in SUBSET Attempts
  /\ checkout \in [Attempts -> AttemptRecords]
  /\ debit \in [Attempts -> 0..Price]
  /\ fate \in [Attempts -> {"fine", "stopped", "refused", "lost", "unknown"}]

LEMMA TypeParts ==
  TypeOK <=> /\ CheckoutTypeOK /\ past \in BOOLEAN /\ reopened \in BOOLEAN
             /\ admin \in [Admins -> AdminRecords]
BY DEF TypeOK, CheckoutTypeOK, Cards, AttemptRecords, AdminRecords

LEMMA CommittedTypes ==
  ASSUME TypeOK, CodeInv, NEW a \in Attempts, Redeemed(a), Committed(a)
  PROVE  /\ orders' \in [Attempts -> {"None", "Placed", "Cancelled"}]
         /\ cart' \in [Carts -> [stamp: 0..MaxEdits, live: BOOLEAN]]
         /\ used' \in 0..UsageLimit
         /\ stale' \in SUBSET Attempts
<1>1. checkout[a].phase \in Open
  BY DEF Redeemed, Open
<1>2. used' \in 0..UsageLimit
  <2>1. CASE checkout[a].code
    <3>1. used < UsageLimit
      BY <1>1, <2>1 DEF CodeInv
    <3>2. used' = used + 1
      BY <2>1 DEF Committed
    <3> QED BY <3>1, <3>2, LimitAssumption DEF TypeOK
  <2>2. CASE ~checkout[a].code
    BY <2>2 DEF Committed, TypeOK
  <2> QED BY <2>1, <2>2
<1>3. stale' \in SUBSET Attempts
  BY DEF Committed, TypeOK, Reading
<1>4. orders' \in [Attempts -> {"None", "Placed", "Cancelled"}]
  BY DEF Committed, TypeOK
<1>5. cart' \in [Carts -> [stamp: 0..MaxEdits, live: BOOLEAN]]
  <2> DEFINE k == checkout[a].cart
             x == [cart[k] EXCEPT !.live = FALSE]
  <2>1. k \in Carts
    BY DEF TypeOK
  <2>2. cart' = [cart EXCEPT ![k] = x]
    BY DEF Committed
  <2>3. cart \in [Carts -> [stamp: 0..MaxEdits, live: BOOLEAN]]
    BY DEF TypeOK
  <2> HIDE DEF k
  <2>4. x \in [stamp: 0..MaxEdits, live: BOOLEAN]
    BY <2>1, <2>3
  <2> HIDE DEF x
  <2> QED BY <2>1, <2>2, <2>3, <2>4
<1> QED BY <1>2, <1>3, <1>4, <1>5

LEMMA AttemptTypes ==
  ASSUME TypeOK, CodeInv, NEW a \in Attempts, createOrderService(a)
  PROVE  TypeOK'
<1> USE DEF Phases
<1>0. /\ CheckoutTypeOK /\ past \in BOOLEAN /\ reopened \in BOOLEAN
      /\ admin \in [Admins -> AdminRecords]
      /\ checkout \in [Attempts -> AttemptRecords] /\ checkout[a] \in AttemptRecords
  BY TypeParts DEF CheckoutTypeOK
<1>a. checkout[a].amount \in 0..Price /\ checkout[a].amount \in Nat
  BY <1>0, PriceAssumption DEF AttemptRecords
<1> SUFFICES CheckoutTypeOK'
  <2>1. UNCHANGED <<past, reopened, admin>>
    BY DEF createOrderService, Begin, AnswerExisting, Write, RedeemRead, redeemGiftCard,
           RedeemUnknown, Fail, Commit, CommitFails, CommitUnknown, RefundRead, RefundFails,
           refundGiftCard, Stop, cardVars, orderVars, history, vars
  <2>2. past' \in BOOLEAN /\ reopened' \in BOOLEAN /\ admin' \in [Admins -> AdminRecords]
    BY <1>0, <2>1
  <2> QED BY <2>2 DEF TypeOK, CheckoutTypeOK, Cards, AttemptRecords, AdminRecords
<1>1. CASE \E key \in Keys, code, pays \in BOOLEAN : Begin(a, key, code, pays)
  <2>1. checkout' \in [Attempts -> AttemptRecords]
    BY <1>1, BeginEffect
  <2> QED BY <1>0, <1>1, <2>1 DEF Begin, CheckoutTypeOK, cardVars, orderVars, history
<1>2. CASE \E key \in ClientKeys : AnswerExisting(a, key)
  <2>1. checkout' \in [Attempts -> AttemptRecords]
    BY <1>0, <1>2, GiveUpEffect DEF AnswerExisting
  <2> QED BY <1>0, <1>2, <2>1 DEF AnswerExisting, CheckoutTypeOK, cardVars, orderVars, history
<1>3. CASE Write(a) \/ RedeemRead(a)
  <2>1. checkout' \in [Attempts -> AttemptRecords]
    BY <1>0, <1>3, MoveEffect DEF Write, RedeemRead
  <2> QED BY <1>0, <1>3, <2>1 DEF Write, RedeemRead, CheckoutTypeOK, cardVars, orderVars, history
<1>4. CASE redeemGiftCard(a)
  <2>1. checkout' \in [Attempts -> AttemptRecords]
    BY <1>0, <1>4, MoveEffect DEF redeemGiftCard
  <2>2. card' \in Cards
    BY <1>0, <1>a, <1>4, RedeemType DEF redeemGiftCard, CheckoutTypeOK
  <2>3. debit' \in [Attempts -> 0..Price]
    BY <1>0, <1>a, <1>4 DEF redeemGiftCard, CheckoutTypeOK
  <2> QED BY <1>0, <1>4, <2>1, <2>2, <2>3 DEF redeemGiftCard, CheckoutTypeOK, orderVars
<1>5. CASE Fail(a)
  <2>1. checkout' \in [Attempts -> AttemptRecords]
    BY <1>0, <1>5, GiveUpEffect DEF Fail
  <2> QED BY <1>0, <1>5, <2>1 DEF Fail, CheckoutTypeOK, cardVars, history
<1>6. CASE Commit(a)
  <2>1. checkout' \in [Attempts -> AttemptRecords]
    BY <1>0, <1>6, MoveEffect DEF Commit
  <2> QED BY <1>0, <1>6, <2>1, CommittedTypes DEF Commit, CheckoutTypeOK, cardVars, history
<1>7. CASE CommitFails(a)
  <2>1. checkout' \in [Attempts -> AttemptRecords]
    BY <1>0, <1>7, MoveEffect, GiveUpEffect DEF CommitFails, afterCommitError
  <2> QED BY <1>0, <1>7, <2>1 DEF CommitFails, CheckoutTypeOK, cardVars, orderVars, history
<1>8. CASE CommitUnknown(a)
  <2>1. checkout' \in [Attempts -> AttemptRecords]
    BY <1>0, <1>8, MoveEffect DEF CommitUnknown, afterCommitError
  <2>2. fate' \in [Attempts -> {"fine", "stopped", "refused", "lost", "unknown"}]
    BY <1>0, <1>8 DEF CommitUnknown, CheckoutTypeOK
  <2> QED BY <1>0, <1>8, <2>1, <2>2, CommittedTypes DEF CommitUnknown, CheckoutTypeOK, cardVars
<1>9. CASE RefundRead(a)
  <2>1. checkout' \in [Attempts -> AttemptRecords]
    BY <1>9, RefundReadEffect
  <2> QED BY <1>0, <1>9, <2>1 DEF RefundRead, CheckoutTypeOK, cardVars, orderVars, history
<1>10. CASE refundGiftCard(a)
  <2>1. checkout' \in [Attempts -> AttemptRecords]
    BY <1>0, <1>10, FinishEffect DEF refundGiftCard
  <2>2. card' \in Cards
    <3>1. card.balance + checkout[a].amount >= 0 /\ checkout[a].target \in CardStatuses
      BY <1>0, <1>a DEF CheckoutTypeOK, Cards, AttemptRecords
    <3> QED BY <1>0, <1>a, <1>10, <3>1, AddType DEF refundGiftCard, CheckoutTypeOK
  <2>3. debit' \in [Attempts -> 0..Price]
    BY <1>0, <1>10, PriceAssumption DEF refundGiftCard, CheckoutTypeOK
  <2> QED BY <1>0, <1>10, <2>1, <2>2, <2>3 DEF refundGiftCard, CheckoutTypeOK, orderVars
<1>11. CASE Stop(a)
  <2>1. checkout' \in [Attempts -> AttemptRecords]
    BY <1>0, <1>11, FinishEffect DEF Stop
  <2>2. fate' \in [Attempts -> {"fine", "stopped", "refused", "lost", "unknown"}]
    BY <1>0, <1>11 DEF Stop, CheckoutTypeOK
  <2> QED BY <1>0, <1>11, <2>1, <2>2 DEF Stop, CheckoutTypeOK, cardVars
<1>12. CASE RedeemUnknown(a)
  <2>1. checkout' \in [Attempts -> AttemptRecords]
    BY <1>0, <1>12, GiveUpEffect DEF RedeemUnknown
  <2>2. card' \in Cards
    BY <1>0, <1>a, <1>12, RedeemType DEF RedeemUnknown, CheckoutTypeOK
  <2>3. debit' \in [Attempts -> 0..Price]
    BY <1>0, <1>a, <1>12 DEF RedeemUnknown, CheckoutTypeOK
  <2>4. fate' \in [Attempts -> {"fine", "stopped", "refused", "lost", "unknown"}]
    BY <1>0, <1>12 DEF RedeemUnknown, CheckoutTypeOK
  <2> QED BY <1>0, <1>12, <2>1, <2>2, <2>3, <2>4 DEF RedeemUnknown, CheckoutTypeOK, orderVars
<1>13. CASE RefundFails(a)
  <2>1. checkout' \in [Attempts -> AttemptRecords]
    BY <1>0, <1>13, FinishEffect DEF RefundFails
  <2>2. fate' \in [Attempts -> {"fine", "stopped", "refused", "lost", "unknown"}]
    BY <1>0, <1>13 DEF RefundFails, CheckoutTypeOK
  <2> QED BY <1>0, <1>13, <2>1, <2>2 DEF RefundFails, CheckoutTypeOK, cardVars, orderVars
<1> QED BY <1>1, <1>2, <1>3, <1>4, <1>5, <1>6, <1>7, <1>8, <1>9, <1>10, <1>11, <1>12, <1>13
        DEF createOrderService

(* The requests around the checkout, and time.                              *)
AdminStep ==
  \/ \E m \in Admins, op \in {"adjust", "enable", "redeem"}, delta \in {-1, 0, 1} :
       AdminRead(m, op, delta)
  \/ \E m \in Admins : adjustGiftCard(m)
  \/ \E m \in Admins : enableGiftCard(m)
  \/ \E m \in Admins : redeemByRoute(m)
  \/ disableGiftCard
  \/ ExpiryPasses

LEMMA AdminTypes ==
  ASSUME TypeOK, AdminStep
  PROVE  TypeOK'
<1>0. /\ card \in Cards /\ past \in BOOLEAN /\ admin \in [Admins -> AdminRecords]
      /\ card.status \in CardStatuses /\ card.balance \in Nat
  BY DEF TypeOK, Cards, AdminRecords
<1>1. UNCHANGED <<cart, orderVars, checkout, history>>
  BY DEF AdminStep, AdminRead, adjustGiftCard, enableGiftCard, redeemByRoute, disableGiftCard,
         ExpiryPasses
<1> SUFFICES card' \in Cards /\ past' \in BOOLEAN /\ admin' \in [Admins -> AdminRecords]
  BY <1>1 DEF TypeOK, Cards, AdminRecords, orderVars, history
<1>2. Request("done", 0, "active") \in AdminRecords
  BY DEF Request, AdminRecords, CardStatuses
<1>3. CASE \E m \in Admins, op \in {"adjust", "enable", "redeem"}, delta \in {-1, 0, 1} :
             AdminRead(m, op, delta)
  <2>1. PICK m \in Admins, op \in {"adjust", "enable", "redeem"}, delta \in {-1, 0, 1} :
             AdminRead(m, op, delta)
    BY <1>3
  <2>2. statusAfter(delta) \in CardStatuses
    BY <1>0 DEF statusAfter, CardStatuses
  <2>3. Request(op, delta, statusAfter(delta)) \in AdminRecords
    BY <2>2 DEF Request, AdminRecords
  <2> QED BY <1>0, <2>1, <2>3 DEF AdminRead, cardVars
<1>4. CASE \E m \in Admins : adjustGiftCard(m)
  <2>1. PICK m \in Admins : adjustGiftCard(m)
    BY <1>4
  <2>2. admin[m].delta \in {-1, 0, 1} /\ admin[m].target \in CardStatuses
    BY <1>0 DEF AdminRecords
  <2>3. card' \in Cards
    <3>1. CASE overdraft(m)
      BY <1>0, <2>1, <3>1 DEF adjustGiftCard
    <3>2. CASE ~overdraft(m)
      <4>1. card.balance + admin[m].delta >= 0 /\ admin[m].delta \in Int
        BY <1>0, <2>2, <3>2 DEF overdraft
      <4> QED BY <1>0, <2>1, <2>2, <3>2, <4>1, AddType DEF adjustGiftCard
    <3> QED BY <3>1, <3>2
  <2> QED BY <1>0, <1>2, <2>1, <2>3 DEF adjustGiftCard
<1>5. CASE \E m \in Admins : enableGiftCard(m)
  <2>1. card' \in Cards
    BY <1>0, <1>5 DEF enableGiftCard, Cards, CardStatuses
  <2> QED BY <1>0, <1>2, <1>5, <2>1 DEF enableGiftCard
<1>6. CASE \E m \in Admins : redeemByRoute(m)
  <2>1. card' \in Cards
    BY <1>0, <1>6, RedeemType DEF redeemByRoute
  <2> QED BY <1>0, <1>2, <1>6, <2>1 DEF redeemByRoute
<1>7. CASE disableGiftCard
  <2>1. card' \in Cards
    BY <1>0, <1>7 DEF disableGiftCard, Cards, CardStatuses
  <2> QED BY <1>0, <1>7, <2>1 DEF disableGiftCard
<1>8. CASE ExpiryPasses
  BY <1>0, <1>8 DEF ExpiryPasses
<1> QED BY <1>3, <1>4, <1>5, <1>6, <1>7, <1>8 DEF AdminStep

LEMMA CancelTypes ==
  ASSUME TypeOK, NEW a \in Attempts, cancelOrderService(a) \/ updateOrderStatusService(a)
  PROVE  TypeOK'
<1>1. CASE cancelOrderService(a)
  <2>1. used' \in 0..UsageLimit
    BY <1>1, LimitAssumption DEF TypeOK, cancelOrderService
  <2>2. stale' \in SUBSET Attempts
    BY <1>1 DEF TypeOK, cancelOrderService, Reading
  <2>3. orders' \in [Attempts -> {"None", "Placed", "Cancelled"}]
    BY <1>1 DEF TypeOK, cancelOrderService
  <2> QED BY <1>1, <2>1, <2>2, <2>3 DEF TypeOK, cancelOrderService, cardVars, history
<1>2. CASE updateOrderStatusService(a)
  <2>1. orders' \in [Attempts -> {"None", "Placed", "Cancelled"}] /\ reopened' \in BOOLEAN
    BY <1>2 DEF TypeOK, updateOrderStatusService
  <2> QED BY <1>2, <2>1 DEF TypeOK, updateOrderStatusService, cardVars, history
<1> QED BY <1>1, <1>2

LEMMA EditTypes ==
  ASSUME TypeOK, NEW k \in Carts, EditCart(k)
  PROVE  TypeOK'
<1> DEFINE x == [cart[k] EXCEPT !.stamp = @ + 1]
<1>1. cart \in [Carts -> [stamp: 0..MaxEdits, live: BOOLEAN]]
  BY DEF TypeOK
<1>2. cart' = [cart EXCEPT ![k] = x]
  BY DEF EditCart
<1>3. cart[k].stamp + 1 <= MaxEdits
  BY <1>1 DEF EditCart
<1>4. x \in [stamp: 0..MaxEdits, live: BOOLEAN]
  BY <1>1, <1>3, BoundsAssumption
<1> HIDE DEF x
<1>5. cart' \in [Carts -> [stamp: 0..MaxEdits, live: BOOLEAN]]
  BY <1>1, <1>2, <1>4
<1> QED BY <1>5 DEF TypeOK, EditCart, cardVars, orderVars, history

(* The kinds of steps.                                                      *)
LEMMA NextParts ==
  ASSUME [Next]_vars
  PROVE  \/ \E a \in Attempts : createOrderService(a)
         \/ \E a \in Attempts : cancelOrderService(a)
         \/ \E a \in Attempts : updateOrderStatusService(a)
         \/ \E k \in Carts : EditCart(k)
         \/ AdminStep
         \/ UNCHANGED vars
BY DEF Next, AdminStep

LEMMA TypeStep ==
  ASSUME TypeOK, CodeInv, [Next]_vars
  PROVE  TypeOK'
<1>1. CASE UNCHANGED vars
  BY <1>1 DEF TypeOK, vars, cardVars, orderVars, history
<1> QED BY <1>1, NextParts, AttemptTypes, CancelTypes, EditTypes, AdminTypes

(* ---------------- The code's one open transaction, and its limit ---------- *)

HasCode(a) == checkout[a].phase \in Open /\ checkout[a].code

LEMMA CodeStay ==
  ASSUME TypeOK, CodeInv, NEW a \in Attempts, OthersStay(a), used' \in 0..UsageLimit,
         \/ used' <= used /\ (HasCode(a)' => HasCode(a))
         \/ HasCode(a) /\ ~HasCode(a)'
  PROVE  CodeInv'
<1>1. \A b \in Attempts : b # a => (HasCode(b)' <=> HasCode(b))
  BY DEF OthersStay, HasCode
<1>2. \A b \in Attempts : HasCode(b) =>
        used < UsageLimit /\ \A c \in Attempts \ {b} : ~HasCode(c)
  BY DEF CodeInv, HasCode, OpenOthers
<1>3. used \in Int /\ used' \in Int /\ UsageLimit \in Int
  BY LimitAssumption DEF TypeOK
<1>4. ASSUME NEW b \in Attempts, HasCode(b)'
      PROVE  used' < UsageLimit /\ \A c \in Attempts \ {b} : ~HasCode(c)'
  <2>1. CASE used' <= used /\ (HasCode(a)' => HasCode(a))
    <3>1. HasCode(b) /\ \A c \in Attempts : HasCode(c)' => HasCode(c)
      BY <1>1, <1>4, <2>1
    <3>2. used' < UsageLimit
      BY <1>2, <1>3, <2>1, <3>1
    <3> QED BY <1>2, <3>1, <3>2
  <2>2. CASE HasCode(a) /\ ~HasCode(a)'
    <3>1. b # a
      BY <1>4, <2>2
    <3> QED BY <1>1, <1>2, <1>4, <2>2, <3>1
  <2> QED BY <2>1, <2>2
<1> QED BY <1>4 DEF CodeInv, HasCode, OpenOthers

LEMMA CodeAttempt ==
  ASSUME TypeOK, TypeOK', CodeInv, NEW a \in Attempts, createOrderService(a)
  PROVE  CodeInv'
<1>0. /\ checkout \in [Attempts -> AttemptRecords]
      /\ used' \in 0..UsageLimit /\ used \in 0..UsageLimit /\ used \in Int
      /\ UsageLimit \in Int
  BY LimitAssumption DEF TypeOK, AttemptRecords
<1> USE DEF Phases
<1> DEFINE Quiet == OthersStay(a) /\ used' <= used /\ (HasCode(a)' => HasCode(a))
<1>q. ASSUME Quiet PROVE CodeInv'
  BY <1>0, <1>q, CodeStay
<1>u. ASSUME UNCHANGED used PROVE used' <= used
  BY <1>0, <1>u
<1>1. CASE \E key \in Keys, code, pays \in BOOLEAN : Begin(a, key, code, pays)
  <2>1. OthersStay(a) /\ checkout'[a].phase = "priced" /\ UNCHANGED used
    <3>1. OthersStay(a) /\ checkout'[a].phase = "priced"
      BY <1>1, BeginEffect
    <3> QED BY <1>1, <3>1 DEF Begin, orderVars
  <2> QED BY <1>q, <1>u, <2>1 DEF HasCode, Open
<1>2. CASE (\E key \in ClientKeys : AnswerExisting(a, key)) \/ Fail(a) \/ RedeemUnknown(a)
  <2>1. OthersStay(a) /\ checkout'[a].phase = "done" /\ UNCHANGED used
    BY <1>0, <1>2, GiveUpEffect DEF AnswerExisting, Fail, RedeemUnknown, orderVars
  <2> QED BY <1>q, <1>u, <2>1 DEF HasCode, Open
<1>3. CASE Write(a)
  <2>1. OthersStay(a) /\ SameOrder(a) /\ UNCHANGED used
    BY <1>0, <1>3, MoveEffect DEF Write, orderVars
  <2>2. CASE ~checkout[a].code
    BY <1>q, <1>u, <2>1, <2>2 DEF HasCode, SameOrder
  <2>3. CASE checkout[a].code
    <3>1. ~(used >= UsageLimit) /\ \A b \in Attempts \ {a} : ~HasCode(b)
      BY <1>3, <2>3 DEF Write, codeConflict, OpenOthers, HasCode
    <3>2. used' < UsageLimit
      BY <1>0, <2>1, <3>1
    <3>3. \A b \in Attempts \ {a} : ~HasCode(b)'
      BY <2>1, <3>1 DEF OthersStay, HasCode
    <3> QED BY <3>2, <3>3 DEF CodeInv, HasCode, OpenOthers
  <2> QED BY <2>2, <2>3
<1>4. CASE RedeemRead(a) \/ redeemGiftCard(a)
  <2>1. OthersStay(a) /\ SameOrder(a) /\ UNCHANGED used /\ checkout[a].phase \in Open
    BY <1>0, <1>4, MoveEffect DEF RedeemRead, redeemGiftCard, orderVars, Open
  <2> QED BY <1>q, <1>u, <2>1 DEF HasCode, SameOrder
<1>5. CASE Commit(a) \/ CommitUnknown(a)
  <2>1. /\ OthersStay(a) /\ checkout[a].phase \in Open /\ checkout'[a].phase \notin Open
        /\ Committed(a)
    BY <1>0, <1>5, MoveEffect DEF Commit, CommitUnknown, Redeemed, Open, afterCommitError
  <2>2. CASE checkout[a].code
    BY <1>0, <2>1, <2>2, CodeStay DEF HasCode
  <2>3. CASE ~checkout[a].code
    BY <1>q, <1>u, <2>1, <2>3 DEF HasCode, Committed
  <2> QED BY <2>2, <2>3
<1>6. CASE CommitFails(a)
  <2>1. OthersStay(a) /\ checkout'[a].phase \notin Open /\ UNCHANGED used
    BY <1>0, <1>6, MoveEffect, GiveUpEffect DEF CommitFails, afterCommitError, Open, orderVars
  <2> QED BY <1>q, <1>u, <2>1 DEF HasCode
<1>7. CASE RefundRead(a)
  <2>1. OthersStay(a) /\ checkout'[a].phase \notin Open /\ UNCHANGED used
    BY <1>7, RefundReadEffect DEF RefundRead, Open, orderVars
  <2> QED BY <1>q, <1>u, <2>1 DEF HasCode
<1>8. CASE refundGiftCard(a) \/ RefundFails(a) \/ Stop(a)
  <2>1. OthersStay(a) /\ checkout'[a].phase \notin Open /\ UNCHANGED used
    BY <1>0, <1>8, FinishEffect DEF refundGiftCard, RefundFails, Stop, Open, orderVars
  <2> QED BY <1>q, <1>u, <2>1 DEF HasCode
<1> QED BY <1>1, <1>2, <1>3, <1>4, <1>5, <1>6, <1>7, <1>8 DEF createOrderService

LEMMA CodeStep ==
  ASSUME TypeOK, TypeOK', CodeInv, [Next]_vars
  PROVE  CodeInv'
<1>1. ASSUME UNCHANGED <<checkout, used>> PROVE CodeInv'
  BY <1>1 DEF CodeInv, OpenOthers
<1>2. CASE \E a \in Attempts : createOrderService(a)
  BY <1>2, CodeAttempt
<1>3. CASE \E a \in Attempts : cancelOrderService(a)
  <2>1. PICK a \in Attempts : cancelOrderService(a)
    BY <1>3
  <2>2. UNCHANGED checkout /\ used' \in 0..UsageLimit
    BY <2>1 DEF cancelOrderService, TypeOK
  <2>3. used' <= used
    BY <2>1 DEF cancelOrderService, TypeOK
  <2> QED BY <2>2, <2>3, CodeStay DEF HasCode, OthersStay
<1>4. CASE UNCHANGED <<checkout, used>>
  BY <1>1, <1>4
<1>5. CASE \E a \in Attempts : updateOrderStatusService(a)
  BY <1>1, <1>5 DEF updateOrderStatusService
<1>6. CASE \E k \in Carts : EditCart(k)
  BY <1>1, <1>6 DEF EditCart, orderVars
<1>7. CASE AdminStep
  BY <1>1, <1>7 DEF AdminStep, AdminRead, adjustGiftCard, enableGiftCard, redeemByRoute,
                    disableGiftCard, ExpiryPasses, orderVars
<1>8. CASE UNCHANGED vars
  BY <1>1, <1>8 DEF vars, orderVars
<1> QED BY <1>2, <1>3, <1>5, <1>6, <1>7, <1>8, NextParts

LEMMA InitOK == Init => TypeOK /\ CodeInv
<1> SUFFICES ASSUME Init PROVE TypeOK /\ CodeInv
  OBVIOUS
<1>1. checkout \in [Attempts -> AttemptRecords]
  <2>1. \A k \in Carts : Attempt("idle", k) \in AttemptRecords
    BY AttemptType DEF Phases
  <2>2. {Attempt("idle", k) : k \in Carts} \in SUBSET AttemptRecords
    BY <2>1
  <2> HIDE DEF AttemptRecords
  <2> QED BY <2>2 DEF Init
<1>2. \A a \in Attempts : checkout[a].phase = "idle"
  BY DEF Init, Attempt
<1>3. admin \in [Admins -> AdminRecords]
  BY DEF Init, Request, AdminRecords, CardStatuses
<1>4. /\ card \in Cards /\ past \in BOOLEAN /\ stale \in SUBSET Attempts /\ reopened \in BOOLEAN
      /\ orders \in [Attempts -> {"None", "Placed", "Cancelled"}]
      /\ fate \in [Attempts -> {"fine", "stopped", "refused", "lost", "unknown"}]
  BY InitialBalanceAssumption DEF Init, Cards, CardStatuses
<1>5. /\ cart \in [Carts -> [stamp: 0..MaxEdits, live: BOOLEAN]] /\ used \in 0..UsageLimit
      /\ debit \in [Attempts -> 0..Price]
  BY BoundsAssumption, LimitAssumption, PriceAssumption DEF Init
<1> QED BY <1>1, <1>2, <1>3, <1>4, <1>5
        DEF TypeOK, Cards, AttemptRecords, AdminRecords, CodeInv, Open

(* Every variable keeps its type; in particular the balance of the card and   *)
(* the use counter never go below zero and the counter never above its limit, *)
(* although cancellations, adjustments and refunds are not one transaction.   *)
THEOREM TypeCorrect == Spec => []TypeOK
<1>1. TypeOK /\ CodeInv /\ [Next]_vars => TypeOK' /\ CodeInv'
  BY TypeStep, CodeStep
<1> QED BY <1>1, InitOK, PTL DEF Spec

(* --------------------------- One order per cart --------------------------- *)

(* An attempt that holds its cart: the transaction is open, or committed.     *)
InPlay(a) == Placed(a) \/ checkout[a].phase \in Open

CartAsPriced(a) ==
  cart[checkout[a].cart] = [stamp |-> checkout[a].stamp, live |-> ~Placed(a)]

Apart(a, b) == checkout[a].cart # checkout[b].cart /\ checkout[a].key # checkout[b].key

After == {"refunding", "refundWrite", "done"}

(* An order appears with its commit; a cart is as it was when the attempt that *)
(* holds it priced it, and lives exactly as long as it is not ordered; and no  *)
(* two attempts hold one cart or one key.                                      *)
OrderInv ==
  /\ \A a \in Attempts : Placed(a) => checkout[a].phase \in After
  /\ \A a \in Attempts : InPlay(a) => CartAsPriced(a)
  /\ \A a \in Attempts : \A b \in Attempts \ {a} : InPlay(a) /\ InPlay(b) => Apart(a, b)

LEMMA OrderStay ==
  ASSUME OrderInv, NEW a \in Attempts, OthersStay(a), UNCHANGED cart,
         \A b \in Attempts : Placed(b)' <=> Placed(b),
         checkout'[a].phase \in Open => checkout[a].phase \in Open /\ SameOrder(a),
         Placed(a) => SameOrder(a) /\ checkout'[a].phase \in After
  PROVE  OrderInv'
<1>1. \A b \in Attempts : InPlay(b)' => InPlay(b) /\ SameOrder(b)
  BY DEF InPlay, OthersStay, SameOrder
<1>2. \A b \in Attempts : Placed(b)' => checkout'[b].phase \in After
  BY DEF OrderInv, OthersStay
<1>3. ASSUME NEW b \in Attempts, InPlay(b)' PROVE CartAsPriced(b)'
  BY <1>1, <1>3 DEF OrderInv, CartAsPriced, SameOrder
<1>4. ASSUME NEW b \in Attempts, NEW c \in Attempts \ {b}, InPlay(b)', InPlay(c)'
      PROVE  Apart(b, c)'
  BY <1>1, <1>4 DEF OrderInv, Apart, SameOrder
<1> QED BY <1>2, <1>3, <1>4 DEF OrderInv

(* The commit of an open transaction: its order is there and its cart gone.   *)
LEMMA OrderCommit ==
  ASSUME TypeOK, OrderInv, NEW a \in Attempts, Redeemed(a), Committed(a), OthersStay(a),
         SameOrder(a), checkout'[a].phase \in After
  PROVE  OrderInv'
<1> DEFINE k == checkout[a].cart
<1>1. InPlay(a) /\ ~Placed(a) /\ InPlay(a)' /\ Placed(a)'
  BY DEF Redeemed, InPlay, OrderInv, Open, After, Placed, Committed, TypeOK
<1>2. \A b \in Attempts \ {a} : (Placed(b)' <=> Placed(b)) /\ (InPlay(b)' <=> InPlay(b))
  BY DEF InPlay, Placed, Committed, OthersStay, TypeOK
<1>3. \A b \in Attempts : InPlay(b)' => InPlay(b) /\ SameOrder(b)
  BY <1>1, <1>2 DEF OthersStay, SameOrder
<1>4. \A b \in Attempts : Placed(b)' => checkout'[b].phase \in After
  BY <1>2 DEF OrderInv, OthersStay
<1>5. /\ cart \in [Carts -> [stamp: 0..MaxEdits, live: BOOLEAN]] /\ k \in Carts
      /\ cart' = [cart EXCEPT ![k] = [cart[k] EXCEPT !.live = FALSE]]
  BY DEF Committed, TypeOK
<1> HIDE DEF k
<1>6. CartAsPriced(a)'
  <2>1. cart[k] = [stamp |-> checkout[a].stamp, live |-> TRUE]
    BY <1>1 DEF OrderInv, CartAsPriced, k
  <2>2. cart'[k] = [stamp |-> checkout[a].stamp, live |-> FALSE]
    <3> DEFINE x == [cart[k] EXCEPT !.live = FALSE]
    <3>1. x = [stamp |-> checkout[a].stamp, live |-> FALSE]
      <4>1. cart[k] \in [stamp: 0..MaxEdits, live: BOOLEAN] /\ cart[k].stamp = checkout[a].stamp
        BY <1>5, <2>1
      <4>2. /\ x \in [stamp: 0..MaxEdits, live: BOOLEAN]
            /\ x.stamp = checkout[a].stamp /\ x.live = FALSE
        BY <4>1
      <4> HIDE DEF x
      <4> QED BY <4>2
    <3>2. cart' = [cart EXCEPT ![k] = x]
      BY <1>5
    <3> HIDE DEF x
    <3> QED BY <1>5, <3>1, <3>2
  <2> QED BY <1>1, <2>2 DEF CartAsPriced, SameOrder, k
<1>7. ASSUME NEW b \in Attempts \ {a}, InPlay(b)' PROVE CartAsPriced(b)'
  <2>1. CartAsPriced(b) /\ SameOrder(b) /\ checkout[b].cart # k
    BY <1>1, <1>3, <1>7 DEF OrderInv, Apart, k
  <2>2. checkout[b].cart \in Carts
    BY DEF TypeOK
  <2>3. cart'[checkout[b].cart] = cart[checkout[b].cart]
    BY <1>5, <2>1, <2>2
  <2> QED BY <1>2, <2>1, <2>3 DEF CartAsPriced, SameOrder
<1>8. ASSUME NEW b \in Attempts, NEW c \in Attempts \ {b}, InPlay(b)', InPlay(c)'
      PROVE  Apart(b, c)'
  BY <1>3, <1>8 DEF OrderInv, Apart, SameOrder
<1> QED BY <1>4, <1>6, <1>7, <1>8 DEF OrderInv

LEMMA OrderAttempt ==
  ASSUME TypeOK, OrderInv, NEW a \in Attempts, createOrderService(a)
  PROVE  OrderInv'
<1>0. checkout \in [Attempts -> AttemptRecords]
  BY DEF TypeOK, AttemptRecords
<1>p. checkout[a].phase \notin After => ~Placed(a)
  BY DEF OrderInv
<1>u. ASSUME UNCHANGED orders PROVE \A b \in Attempts : Placed(b)' <=> Placed(b)
  BY <1>u DEF Placed
<1> USE DEF Phases
<1>1. CASE \E key \in Keys, code, pays \in BOOLEAN : Begin(a, key, code, pays)
  <2>1. OthersStay(a) /\ checkout[a].phase = "idle" /\ checkout'[a].phase = "priced"
    BY <1>1, BeginEffect
  <2>2. UNCHANGED <<cart, orders>>
    BY <1>1 DEF Begin, orderVars
  <2> QED BY <1>p, <1>u, <2>1, <2>2, OrderStay DEF Open, After
<1>2. CASE (\E key \in ClientKeys : AnswerExisting(a, key)) \/ Fail(a) \/ RedeemUnknown(a)
  <2>1. OthersStay(a) /\ checkout[a].phase \notin After /\ checkout'[a].phase = "done"
    BY <1>0, <1>2, GiveUpEffect DEF AnswerExisting, Fail, RedeemUnknown, After
  <2>2. UNCHANGED <<cart, orders>>
    BY <1>2 DEF AnswerExisting, Fail, RedeemUnknown, orderVars
  <2> QED BY <1>p, <1>u, <2>1, <2>2, OrderStay DEF Open
<1>3. CASE Write(a)
  <2>1. /\ OthersStay(a) /\ SameOrder(a) /\ UNCHANGED <<cart, orders>>
        /\ checkout[a].phase = "priced" /\ checkout'[a].phase = "written"
    BY <1>0, <1>3, MoveEffect DEF Write, orderVars
  <2>2. ~Placed(a)
    BY <1>p, <2>1 DEF After
  <2>3. cart[checkout[a].cart] = [stamp |-> checkout[a].stamp, live |-> TRUE]
    BY <1>3 DEF Write, cartConflict
  <2>4. \A b \in Attempts \ {a} : InPlay(b) => Apart(a, b) /\ Apart(b, a)
    <3>1. SUFFICES ASSUME NEW b \in Attempts \ {a}, InPlay(b)
                   PROVE  Apart(a, b)
      BY DEF Apart
    <3>2. CASE checkout[b].phase \in Open
      BY <1>3, <3>2 DEF Write, cartConflict, OpenOthers, Apart
    <3>3. CASE Placed(b)
      <4>1. checkout[b].key # checkout[a].key
        BY <1>3, <3>3 DEF Write, KeyTaken, Placed
      <4>2. cart[checkout[b].cart] = [stamp |-> checkout[b].stamp, live |-> FALSE]
        BY <3>1, <3>3 DEF OrderInv, CartAsPriced
      <4>3. cart[checkout[b].cart].live # cart[checkout[a].cart].live
        BY <2>3, <4>2
      <4> QED BY <4>1, <4>3 DEF Apart
    <3> QED BY <3>1, <3>2, <3>3 DEF InPlay
  <2>5. \A b \in Attempts : SameOrder(b) /\ (Placed(b)' <=> Placed(b))
    BY <2>1 DEF OthersStay, SameOrder, Placed
  <2>6. \A b \in Attempts \ {a} : InPlay(b)' <=> InPlay(b)
    BY <2>1, <2>5 DEF OthersStay, InPlay
  <2>7. \A b \in Attempts : Placed(b)' => checkout'[b].phase \in After
    BY <2>1, <2>2, <2>5 DEF OrderInv, OthersStay
  <2>8. CartAsPriced(a)'
    BY <2>1, <2>2, <2>3, <2>5 DEF CartAsPriced, SameOrder
  <2>9. \A b \in Attempts \ {a} : InPlay(b)' => CartAsPriced(b)'
    BY <2>1, <2>5, <2>6 DEF OrderInv, CartAsPriced, SameOrder
  <2>10. ASSUME NEW b \in Attempts, NEW c \in Attempts \ {b}, InPlay(b)', InPlay(c)'
         PROVE  Apart(b, c)'
    <3>1. Apart(b, c)
      BY <2>4, <2>6, <2>10 DEF OrderInv
    <3> QED BY <2>5, <3>1 DEF Apart, SameOrder
  <2> QED BY <2>7, <2>8, <2>9, <2>10 DEF OrderInv
<1>4. CASE RedeemRead(a) \/ redeemGiftCard(a)
  <2>1. /\ OthersStay(a) /\ SameOrder(a) /\ UNCHANGED <<cart, orders>>
        /\ checkout[a].phase \in Open /\ checkout[a].phase \notin After
    BY <1>0, <1>4, MoveEffect DEF RedeemRead, redeemGiftCard, orderVars, Open, After
  <2> QED BY <1>p, <1>u, <2>1, OrderStay
<1>5. CASE Commit(a) \/ CommitUnknown(a)
  <2>1. OthersStay(a) /\ SameOrder(a) /\ checkout'[a].phase \in After
    BY <1>0, <1>5, MoveEffect DEF Commit, CommitUnknown, After, afterCommitError
  <2>2. Redeemed(a) /\ Committed(a)
    BY <1>5 DEF Commit, CommitUnknown
  <2> QED BY <2>1, <2>2, OrderCommit
<1>6. CASE CommitFails(a)
  <2>1. OthersStay(a) /\ checkout'[a].phase \notin Open /\ UNCHANGED <<cart, orders>>
    BY <1>0, <1>6, MoveEffect, GiveUpEffect DEF CommitFails, afterCommitError, Open, orderVars
  <2>2. checkout[a].phase \notin After
    BY <1>6 DEF CommitFails, Redeemed, After
  <2> QED BY <1>p, <1>u, <2>1, <2>2, OrderStay
<1>7. CASE RefundRead(a)
  <2>1. /\ OthersStay(a) /\ checkout'[a].phase \notin Open /\ checkout'[a].phase \in After
        /\ SameOrder(a)
    BY <1>7, RefundReadEffect DEF Open, After
  <2>2. UNCHANGED <<cart, orders>>
    BY <1>7 DEF RefundRead, orderVars
  <2> QED BY <1>u, <2>1, <2>2, OrderStay
<1>8. CASE refundGiftCard(a) \/ RefundFails(a) \/ Stop(a)
  <2>1. /\ OthersStay(a) /\ checkout'[a].phase = "done" /\ UNCHANGED <<cart, orders>>
        /\ Placed(a) => SameOrder(a)
    BY <1>0, <1>8, FinishEffect DEF refundGiftCard, RefundFails, Stop, orderVars, Placed
  <2> QED BY <1>u, <2>1, OrderStay DEF Open, After
<1> QED BY <1>1, <1>2, <1>3, <1>4, <1>5, <1>6, <1>7, <1>8 DEF createOrderService

LEMMA OrderStep ==
  ASSUME TypeOK, OrderInv, [Next]_vars
  PROVE  OrderInv'
<1>1. ASSUME UNCHANGED <<checkout, cart>>, \A b \in Attempts : Placed(b)' <=> Placed(b)
      PROVE  OrderInv'
  BY <1>1 DEF OrderInv, InPlay, CartAsPriced, Apart
<1>u. ASSUME UNCHANGED orders PROVE \A b \in Attempts : Placed(b)' <=> Placed(b)
  BY <1>u DEF Placed
<1>2. CASE \E a \in Attempts : createOrderService(a)
  BY <1>2, OrderAttempt
<1>3. CASE \E a \in Attempts : cancelOrderService(a) \/ updateOrderStatusService(a)
  <2>1. PICK a \in Attempts : cancelOrderService(a) \/ updateOrderStatusService(a)
    BY <1>3
  <2>2. \A b \in Attempts : Placed(b)' <=> Placed(b)
    BY <2>1 DEF cancelOrderService, mayCancel, updateOrderStatusService, Placed, TypeOK
  <2>3. UNCHANGED <<checkout, cart>>
    BY <2>1 DEF cancelOrderService, updateOrderStatusService
  <2> QED BY <1>1, <2>2, <2>3
<1>4. CASE \E k \in Carts : EditCart(k)
  <2>1. PICK k \in Carts : EditCart(k)
    BY <1>4
  <2>2. UNCHANGED <<checkout, orders>> /\ cart[k].live
    BY <2>1 DEF EditCart, orderVars
  <2>3. \A c \in Carts \ {k} : cart'[c] = cart[c]
    BY <2>1 DEF EditCart, TypeOK
  <2>4. \A a \in Attempts : InPlay(a) => checkout[a].cart # k
    <3>1. SUFFICES ASSUME NEW a \in Attempts, InPlay(a) PROVE checkout[a].cart # k
      OBVIOUS
    <3>2. CASE Placed(a)
      <4>1. cart[checkout[a].cart] = [stamp |-> checkout[a].stamp, live |-> FALSE]
        BY <3>1, <3>2 DEF OrderInv, CartAsPriced
      <4> QED BY <2>2, <4>1
    <3>3. CASE checkout[a].phase \in Open
      BY <2>1, <3>3 DEF EditCart
    <3> QED BY <3>1, <3>2, <3>3 DEF InPlay
  <2>5. \A a \in Attempts : checkout[a].cart \in Carts
    BY DEF TypeOK
  <2> QED BY <2>2, <2>3, <2>4, <2>5 DEF OrderInv, InPlay, CartAsPriced, Apart, Placed
<1>5. CASE AdminStep
  BY <1>1, <1>u, <1>5 DEF AdminStep, AdminRead, adjustGiftCard, enableGiftCard, redeemByRoute,
                          disableGiftCard, ExpiryPasses, orderVars
<1>6. CASE UNCHANGED vars
  BY <1>1, <1>u, <1>6 DEF vars, orderVars
<1> QED BY <1>2, <1>3, <1>4, <1>5, <1>6, NextParts

LEMMA OrderInvariant == Spec => []OrderInv
<1>1. Init => OrderInv
  BY DEF Init, Attempt, OrderInv, InPlay, Placed, Open
<1>2. TypeOK /\ OrderInv /\ [Next]_vars => OrderInv'
  BY OrderStep
<1> QED BY <1>1, <1>2, TypeCorrect, PTL DEF Spec

(* A cart is ordered at most once and at its last price, whatever keys the    *)
(* requests carry: the deletion of the cart inside createOrderService's       *)
(* transaction and the unique key exclude each other's orders.                *)
THEOREM CartOrderedOnce == Spec => []OneOrderPerCart
<1>1. ASSUME OrderInv PROVE OneOrderPerCart
  <2>1. SUFFICES ASSUME NEW a \in Attempts, Placed(a)
                 PROVE  /\ checkout[a].stamp = cart[checkout[a].cart].stamp
                        /\ \A b \in Attempts \ {a} : Placed(b) =>
                             /\ checkout[b].cart # checkout[a].cart
                             /\ checkout[b].key # checkout[a].key
    BY DEF OneOrderPerCart
  <2>2. cart[checkout[a].cart] = [stamp |-> checkout[a].stamp, live |-> FALSE]
    BY <1>1, <2>1 DEF OrderInv, InPlay, CartAsPriced
  <2>3. \A b \in Attempts \ {a} : Placed(b) => Apart(a, b)
    BY <1>1, <2>1 DEF OrderInv, InPlay
  <2> QED BY <2>2, <2>3 DEF Apart
<1> QED BY <1>1, OrderInvariant, PTL

(* ------------------------ What the card pays for -------------------------- *)

DebitMatches(a) ==
  IF Placed(a)
  THEN debit[a] = checkout[a].amount \/ (fate[a] = "unknown" /\ debit[a] = 0)
  ELSE debit[a] = 0 \/ fate[a] \in {"stopped", "lost", "refused"}

(* What attempt a took from the card, at each point of its way.               *)
MoneyOK(a) ==
  /\ checkout[a].phase \in {"redeeming", "redeemed", "refunding", "refundWrite"} =>
       checkout[a].amount > 0
  /\ checkout[a].phase \in {"idle", "priced", "written", "redeeming"} => debit[a] = 0
  /\ checkout[a].phase \in {"redeemed", "refunding", "refundWrite"} =>
       debit[a] = checkout[a].amount
  /\ fate[a] = "unknown" => Placed(a)
  /\ checkout[a].phase \in {"refunding", "refundWrite"} /\ Placed(a) => fate[a] = "unknown"
  /\ checkout[a].phase = "done" => DebitMatches(a)

MoneyInv == \A a \in Attempts : MoneyOK(a)

LEMMA MoneyFrame ==
  ASSUME MoneyInv, NEW a \in Attempts, OthersStay(a), MoneyOK(a)',
         \A b \in Attempts \ {a} :
           debit'[b] = debit[b] /\ fate'[b] = fate[b] /\ (Placed(b)' <=> Placed(b))
  PROVE  MoneyInv'
<1>1. \A b \in Attempts \ {a} : MoneyOK(b)'
  BY DEF MoneyInv, MoneyOK, DebitMatches, OthersStay
<1> QED BY <1>1 DEF MoneyInv

LEMMA MoneyAttempt ==
  ASSUME TypeOK, OrderInv, MoneyInv, NEW a \in Attempts, createOrderService(a)
  PROVE  MoneyInv'
<1>0. /\ checkout \in [Attempts -> AttemptRecords]
      /\ debit \in [Attempts -> 0..Price]
      /\ fate \in [Attempts -> {"fine", "stopped", "refused", "lost", "unknown"}]
      /\ orders \in [Attempts -> {"None", "Placed", "Cancelled"}]
      /\ checkout[a].amount \in Nat /\ debit[a] \in Nat
  BY PriceAssumption DEF TypeOK, AttemptRecords
<1>p. checkout[a].phase \notin After => ~Placed(a) /\ orders[a] = "None"
  BY DEF OrderInv, Placed
<1>m. MoneyOK(a)
  BY DEF MoneyInv
<1> DEFINE OthersKeep == \A b \in Attempts \ {a} :
             debit'[b] = debit[b] /\ fate'[b] = fate[b] /\ (Placed(b)' <=> Placed(b))
<1>f. ASSUME OthersStay(a), OthersKeep, MoneyOK(a)' PROVE MoneyInv'
  BY <1>f, MoneyFrame
<1>k. ASSUME UNCHANGED <<debit, fate, orders>>
      PROVE  /\ OthersKeep /\ debit'[a] = debit[a] /\ fate'[a] = fate[a]
             /\ Placed(a)' <=> Placed(a)
  BY <1>k DEF Placed
<1> HIDE DEF OthersKeep
<1> USE DEF Phases
<1>1. CASE \E key \in Keys, code, pays \in BOOLEAN : Begin(a, key, code, pays)
  <2>1. OthersStay(a) /\ checkout[a].phase = "idle" /\ checkout'[a].phase = "priced"
    BY <1>1, BeginEffect
  <2>2. UNCHANGED <<debit, fate, orders>>
    BY <1>1 DEF Begin, orderVars, history
  <2>3. MoneyOK(a)'
    BY <1>m, <1>k, <2>1, <2>2 DEF MoneyOK
  <2> QED BY <1>f, <1>k, <2>1, <2>2, <2>3
<1>2. CASE (\E key \in ClientKeys : AnswerExisting(a, key)) \/ Fail(a)
  <2>1. /\ OthersStay(a) /\ checkout[a].phase \in {"idle", "priced", "written", "redeeming"}
        /\ checkout'[a].phase = "done"
    BY <1>0, <1>2, GiveUpEffect DEF AnswerExisting, Fail
  <2>2. UNCHANGED <<debit, fate, orders>>
    BY <1>2 DEF AnswerExisting, Fail, orderVars, history
  <2>3. ~Placed(a) /\ debit[a] = 0
    BY <1>p, <1>m, <2>1 DEF MoneyOK, After
  <2>4. MoneyOK(a)'
    BY <1>m, <1>k, <2>1, <2>2, <2>3 DEF MoneyOK, DebitMatches
  <2> QED BY <1>f, <1>k, <2>1, <2>2, <2>4
<1>3. CASE Write(a) \/ RedeemRead(a)
  <2>1. /\ OthersStay(a) /\ SameOrder(a)
        /\ \/ checkout[a].phase = "priced" /\ checkout'[a].phase = "written"
           \/ /\ checkout[a].phase = "written" /\ checkout'[a].phase = "redeeming"
              /\ checkout[a].amount > 0
    BY <1>0, <1>3, MoveEffect DEF Write, RedeemRead
  <2>2. UNCHANGED <<debit, fate, orders>>
    BY <1>3 DEF Write, RedeemRead, orderVars, history
  <2>3. MoneyOK(a)'
    BY <1>m, <1>k, <2>1, <2>2 DEF MoneyOK, SameOrder
  <2> QED BY <1>f, <1>k, <2>1, <2>2, <2>3
<1>4. CASE redeemGiftCard(a)
  <2>1. /\ OthersStay(a) /\ SameOrder(a) /\ checkout[a].phase = "redeeming"
        /\ checkout'[a].phase = "redeemed"
    BY <1>0, <1>4, MoveEffect DEF redeemGiftCard
  <2>2. /\ UNCHANGED <<fate, orders>> /\ debit'[a] = checkout[a].amount
        /\ \A b \in Attempts \ {a} : debit'[b] = debit[b]
    BY <1>0, <1>4 DEF redeemGiftCard, orderVars
  <2>3. OthersKeep
    BY <2>2 DEF OthersKeep, Placed
  <2>4. ~Placed(a) /\ ~Placed(a)' /\ fate'[a] # "unknown"
    BY <1>p, <1>m, <2>1, <2>2 DEF MoneyOK, After, Placed
  <2>5. MoneyOK(a)'
    BY <1>m, <2>1, <2>2, <2>4 DEF MoneyOK, SameOrder
  <2> QED BY <1>f, <2>1, <2>3, <2>5
<1>5. CASE Commit(a) \/ CommitUnknown(a)
  <2>1. /\ OthersStay(a) /\ SameOrder(a) /\ Committed(a) /\ Redeemed(a)
        /\ checkout'[a].phase = (IF CommitUnknown(a) THEN afterCommitError(a) ELSE "done")
    BY <1>0, <1>5, MoveEffect DEF Commit, CommitUnknown, afterCommitError
  <2>2. UNCHANGED debit /\ Placed(a)'
    BY <1>0, <1>5, <2>1 DEF Commit, CommitUnknown, Committed, history, Placed
  <2>3. fate'[a] = (IF CommitUnknown(a) THEN "unknown" ELSE fate[a])
    BY <1>0, <1>5 DEF Commit, CommitUnknown, history
  <2>4. \A b \in Attempts \ {a} : fate'[b] = fate[b]
    BY <1>0, <1>5 DEF Commit, CommitUnknown, history
  <2>5. OthersKeep
    BY <1>0, <2>1, <2>2, <2>4 DEF OthersKeep, Committed, Placed
  <2>6. debit[a] = checkout[a].amount
    BY <1>m, <2>1 DEF Redeemed, MoneyOK
  <2>7. MoneyOK(a)'
    <3>1. CASE CommitUnknown(a) /\ checkout[a].amount > 0
      BY <2>1, <2>2, <2>3, <2>6, <3>1 DEF MoneyOK, SameOrder, afterCommitError
    <3>2. CASE ~(CommitUnknown(a) /\ checkout[a].amount > 0)
      BY <1>0, <2>1, <2>2, <2>3, <2>6, <3>2 DEF MoneyOK, DebitMatches, SameOrder, afterCommitError
    <3> QED BY <3>1, <3>2
  <2> QED BY <1>f, <2>1, <2>5, <2>7
<1>6. CASE CommitFails(a)
  <2>1. Redeemed(a) /\ UNCHANGED <<debit, fate, orders>>
    BY <1>6 DEF CommitFails, orderVars, history
  <2>2. debit[a] = checkout[a].amount /\ ~Placed(a)
    BY <1>m, <1>p, <2>1 DEF Redeemed, MoneyOK, After
  <2>3. CASE checkout[a].amount > 0
    <3>1. OthersStay(a) /\ SameOrder(a) /\ checkout'[a].phase = "refunding"
      BY <1>0, <1>6, <2>3, MoveEffect DEF CommitFails, afterCommitError
    <3>2. MoneyOK(a)'
      BY <1>m, <1>k, <2>1, <2>2, <2>3, <3>1 DEF MoneyOK, SameOrder
    <3> QED BY <1>f, <1>k, <2>1, <3>1, <3>2
  <2>4. CASE ~(checkout[a].amount > 0)
    <3>1. OthersStay(a) /\ checkout'[a].phase = "done"
      BY <1>0, <1>6, <2>4, GiveUpEffect DEF CommitFails, afterCommitError
    <3>2. debit[a] = 0
      BY <1>0, <2>2, <2>4
    <3>3. MoneyOK(a)'
      BY <1>m, <1>k, <2>1, <2>2, <3>1, <3>2 DEF MoneyOK, DebitMatches
    <3> QED BY <1>f, <1>k, <2>1, <3>1, <3>3
  <2> QED BY <2>3, <2>4
<1>7. CASE RefundRead(a)
  <2>1. /\ OthersStay(a) /\ SameOrder(a) /\ UNCHANGED <<debit, fate, orders>>
        /\ checkout[a].phase = "refunding" /\ checkout'[a].phase = "refundWrite"
    BY <1>7, RefundReadEffect DEF RefundRead, orderVars, history
  <2>2. MoneyOK(a)'
    BY <1>m, <1>k, <2>1 DEF MoneyOK, SameOrder
  <2> QED BY <1>f, <1>k, <2>1, <2>2
<1>8. CASE refundGiftCard(a)
  <2>1. /\ OthersStay(a) /\ checkout'[a].phase = "done" /\ checkout[a].phase = "refundWrite"
        /\ UNCHANGED <<fate, orders>> /\ debit'[a] = 0
        /\ \A b \in Attempts \ {a} : debit'[b] = debit[b]
    BY <1>0, <1>8, FinishEffect DEF refundGiftCard, orderVars
  <2>2. OthersKeep /\ (Placed(a)' <=> Placed(a))
    BY <2>1 DEF OthersKeep, Placed
  <2>3. MoneyOK(a)'
    BY <1>m, <2>1, <2>2 DEF MoneyOK, DebitMatches
  <2> QED BY <1>f, <2>1, <2>2, <2>3
<1>9. CASE Stop(a)
  <2>1. /\ OthersStay(a) /\ checkout'[a].phase = "done" /\ checkout[a].phase \notin {"idle", "done"}
        /\ UNCHANGED <<debit, orders>> /\ (Placed(a) => SameOrder(a))
    BY <1>0, <1>9, FinishEffect DEF Stop, Placed
  <2>2. /\ fate'[a] = (IF debit[a] > 0 /\ orders[a] = "None" THEN "stopped" ELSE fate[a])
        /\ \A b \in Attempts \ {a} : fate'[b] = fate[b]
    BY <1>0, <1>9 DEF Stop
  <2>3. OthersKeep /\ (Placed(a)' <=> Placed(a))
    BY <2>1, <2>2 DEF OthersKeep, Placed
  <2>4. CASE Placed(a)
    <3>1. checkout[a].phase \in {"refunding", "refundWrite"}
      BY <1>p, <2>1, <2>4 DEF After
    <3>2. orders[a] # "None"
      BY <2>4 DEF Placed
    <3>3. fate'[a] = "unknown" /\ debit'[a] = checkout'[a].amount
      BY <1>m, <2>1, <2>2, <2>4, <3>1, <3>2 DEF MoneyOK, SameOrder
    <3>4. MoneyOK(a)'
      BY <2>1, <2>3, <2>4, <3>3 DEF MoneyOK, DebitMatches
    <3> QED BY <1>f, <2>1, <2>3, <3>4
  <2>5. CASE ~Placed(a)
    <3>1. orders[a] = "None" /\ fate[a] # "unknown"
      BY <1>m, <2>5 DEF MoneyOK, Placed
    <3>2. debit'[a] = 0 \/ fate'[a] = "stopped"
      BY <1>0, <2>1, <2>2, <3>1
    <3>3. fate'[a] # "unknown"
      BY <2>2, <3>1
    <3>4. MoneyOK(a)'
      BY <2>1, <2>3, <2>5, <3>2, <3>3 DEF MoneyOK, DebitMatches
    <3> QED BY <1>f, <2>1, <2>3, <3>4
  <2> QED BY <2>4, <2>5
<1>10. CASE RefundFails(a)
  <2>1. /\ OthersStay(a) /\ UNCHANGED <<debit, orders>> /\ (Placed(a) => SameOrder(a))
        /\ checkout[a].phase \in {"refunding", "refundWrite"} /\ checkout'[a].phase = "done"
    BY <1>0, <1>10, FinishEffect DEF RefundFails, Placed, orderVars
  <2>2. /\ fate'[a] = (IF fate[a] = "unknown" THEN fate[a] ELSE "refused")
        /\ \A b \in Attempts \ {a} : fate'[b] = fate[b]
    BY <1>0, <1>10 DEF RefundFails
  <2>3. OthersKeep /\ (Placed(a)' <=> Placed(a))
    BY <2>1, <2>2 DEF OthersKeep, Placed
  <2>4. MoneyOK(a)'
    BY <1>m, <2>1, <2>2, <2>3 DEF MoneyOK, DebitMatches, SameOrder
  <2> QED BY <1>f, <2>1, <2>3, <2>4
<1>11. CASE RedeemUnknown(a)
  <2>1. OthersStay(a) /\ checkout[a].phase = "redeeming" /\ checkout'[a].phase = "done"
    BY <1>0, <1>11, GiveUpEffect DEF RedeemUnknown
  <2>2. /\ UNCHANGED orders /\ fate'[a] = "lost"
        /\ \A b \in Attempts \ {a} : debit'[b] = debit[b] /\ fate'[b] = fate[b]
    BY <1>0, <1>11 DEF RedeemUnknown, orderVars
  <2>3. OthersKeep /\ ~Placed(a)'
    BY <1>p, <2>1, <2>2 DEF OthersKeep, Placed, After
  <2>4. MoneyOK(a)'
    BY <2>1, <2>2, <2>3 DEF MoneyOK, DebitMatches
  <2> QED BY <1>f, <2>1, <2>3, <2>4
<1> QED BY <1>1, <1>2, <1>3, <1>4, <1>5, <1>6, <1>7, <1>8, <1>9, <1>10, <1>11
        DEF createOrderService

LEMMA MoneyStep ==
  ASSUME TypeOK, OrderInv, MoneyInv, [Next]_vars
  PROVE  MoneyInv'
<1>1. ASSUME UNCHANGED <<checkout, debit, fate>>, \A b \in Attempts : Placed(b)' <=> Placed(b)
      PROVE  MoneyInv'
  BY <1>1 DEF MoneyInv, MoneyOK, DebitMatches
<1>u. ASSUME UNCHANGED orders PROVE \A b \in Attempts : Placed(b)' <=> Placed(b)
  BY <1>u DEF Placed
<1>2. CASE \E a \in Attempts : createOrderService(a)
  BY <1>2, MoneyAttempt
<1>3. CASE \E a \in Attempts : cancelOrderService(a) \/ updateOrderStatusService(a)
  <2>1. PICK a \in Attempts : cancelOrderService(a) \/ updateOrderStatusService(a)
    BY <1>3
  <2>2. \A b \in Attempts : Placed(b)' <=> Placed(b)
    BY <2>1 DEF cancelOrderService, mayCancel, updateOrderStatusService, Placed, TypeOK
  <2>3. UNCHANGED <<checkout, debit, fate>>
    BY <2>1 DEF cancelOrderService, updateOrderStatusService, history
  <2> QED BY <1>1, <2>2, <2>3
<1>4. CASE \E k \in Carts : EditCart(k)
  BY <1>1, <1>u, <1>4 DEF EditCart, orderVars, history
<1>5. CASE AdminStep
  BY <1>1, <1>u, <1>5 DEF AdminStep, AdminRead, adjustGiftCard, enableGiftCard, redeemByRoute,
                          disableGiftCard, ExpiryPasses, orderVars, history
<1>6. CASE UNCHANGED vars
  BY <1>1, <1>u, <1>6 DEF vars, orderVars, history
<1> QED BY <1>2, <1>3, <1>4, <1>5, <1>6, NextParts

LEMMA MoneyInvariant == Spec => []MoneyInv
<1>1. Init => MoneyInv
  BY DEF Init, Attempt, MoneyInv, MoneyOK
<1>2. TypeOK /\ OrderInv /\ MoneyInv /\ [Next]_vars => MoneyInv'
  BY MoneyStep
<1> QED BY <1>1, <1>2, TypeCorrect, OrderInvariant, PTL DEF Spec

(* The card pays for orders and for nothing else, although it is redeemed     *)
(* outside createOrderService's transaction: when an attempt is over, only a  *)
(* stop of the server, a redemption whose answer was lost or a refund that was *)
(* refused or failed leaves a debit without an order, and only a commit whose *)
(* answer was lost leaves an order without its debit.                         *)
THEOREM CardPaysForOrders == Spec => []DebitsMatchOrders
<1>1. MoneyInv => DebitsMatchOrders
  BY DEF MoneyInv, MoneyOK, DebitMatches, DebitsMatchOrders
<1> QED BY <1>1, MoneyInvariant, PTL

(* -------------------------- The status of the card ------------------------ *)

(* A status computed from an older copy is never "redeemed": what computes it *)
(* has just made the balance positive.                                        *)
TargetInv ==
  /\ \A m \in Admins : admin[m].op = "adjust" => admin[m].target # "redeemed"
  /\ \A a \in Attempts : checkout[a].phase = "refundWrite" => checkout[a].target # "redeemed"

LEMMA StatusAfterIncrease ==
  ASSUME card \in Cards, RedeemedMeansEmpty, NEW delta \in Int, delta # 0,
         card.balance + delta >= 0
  PROVE  statusAfter(delta) # "redeemed"
<1>1. card.status = "redeemed" => card.balance + delta > 0
  BY DEF RedeemedMeansEmpty, Cards
<1> QED BY <1>1 DEF statusAfter

LEMMA RedeemedEmpty ==
  ASSUME card \in Cards, NEW amount \in Nat, redeemable(amount), redeemCardAtomicRepo(amount)
  PROVE  RedeemedMeansEmpty'
BY DEF Cards, redeemable, Spendable, redeemCardAtomicRepo, RedeemedMeansEmpty

LEMMA StatusStep ==
  ASSUME TypeOK, MoneyInv, RedeemedMeansEmpty, TargetInv, [Next]_vars
  PROVE  RedeemedMeansEmpty' /\ TargetInv'
<1>0. /\ card \in Cards /\ card.balance \in Nat
      /\ checkout \in [Attempts -> AttemptRecords] /\ admin \in [Admins -> AdminRecords]
  BY DEF TypeOK, Cards, AttemptRecords, AdminRecords
<1>a. \A a \in Attempts : checkout[a].amount \in Nat
  BY <1>0, PriceAssumption DEF AttemptRecords
<1>r. ASSUME UNCHANGED card PROVE RedeemedMeansEmpty'
  BY <1>r DEF RedeemedMeansEmpty
<1>s. ASSUME card'.status # "redeemed" PROVE RedeemedMeansEmpty'
  BY <1>s DEF RedeemedMeansEmpty
<1>t. ASSUME UNCHANGED admin, NEW a \in Attempts, OthersStay(a),
             checkout'[a].phase = "refundWrite" => checkout'[a].target # "redeemed"
      PROVE  TargetInv'
  BY <1>t DEF TargetInv, OthersStay
<1>u. ASSUME UNCHANGED checkout, NEW m \in Admins, \A n \in Admins \ {m} : admin'[n] = admin[n],
             admin'[m].op = "adjust" => admin'[m].target # "redeemed"
      PROVE  TargetInv'
  BY <1>u DEF TargetInv
<1>v. ASSUME UNCHANGED <<checkout, admin>> PROVE TargetInv'
  BY <1>v DEF TargetInv
<1>1. CASE \E a \in Attempts : createOrderService(a)
  <2>1. PICK a \in Attempts : createOrderService(a)
    BY <1>1
  <2>2. UNCHANGED admin
    BY <2>1 DEF createOrderService, Begin, AnswerExisting, Write, RedeemRead, redeemGiftCard,
                RedeemUnknown, Fail, Commit, CommitFails, CommitUnknown, RefundRead, RefundFails,
                refundGiftCard, Stop
  <2> USE DEF Phases
  <2>3. CASE \E key \in Keys, code, pays \in BOOLEAN : Begin(a, key, code, pays)
    <3>1. OthersStay(a) /\ checkout'[a].phase = "priced"
      BY <2>3, BeginEffect
    <3>2. UNCHANGED card
      BY <2>3 DEF Begin, cardVars
    <3> QED BY <1>r, <1>t, <2>2, <3>1, <3>2
  <2>4. CASE Write(a) \/ RedeemRead(a) \/ Commit(a) \/ CommitFails(a) \/ CommitUnknown(a)
    <3>1. OthersStay(a) /\ checkout'[a].phase # "refundWrite"
      BY <1>0, <2>4, MoveEffect, GiveUpEffect
      DEF Write, RedeemRead, Commit, CommitFails, CommitUnknown, afterCommitError
    <3>2. UNCHANGED card
      BY <2>4 DEF Write, RedeemRead, Commit, CommitFails, CommitUnknown, cardVars
    <3> QED BY <1>r, <1>t, <2>2, <3>1, <3>2
  <2>5. CASE (\E key \in ClientKeys : AnswerExisting(a, key)) \/ Fail(a) \/ RefundFails(a) \/ Stop(a)
    <3>1. OthersStay(a) /\ checkout'[a].phase = "done"
      BY <1>0, <2>5, GiveUpEffect, FinishEffect DEF AnswerExisting, Fail, RefundFails, Stop
    <3>2. UNCHANGED card
      BY <2>5 DEF AnswerExisting, Fail, RefundFails, Stop, cardVars
    <3> QED BY <1>r, <1>t, <2>2, <3>1, <3>2
  <2>6. CASE redeemGiftCard(a) \/ RedeemUnknown(a)
    <3>1. OthersStay(a) /\ checkout'[a].phase \in {"redeemed", "done"}
      BY <1>0, <2>6, MoveEffect, GiveUpEffect DEF redeemGiftCard, RedeemUnknown
    <3>2. RedeemedMeansEmpty'
      BY <1>0, <1>a, <2>6, RedeemedEmpty DEF redeemGiftCard, RedeemUnknown
    <3> QED BY <1>t, <2>2, <3>1, <3>2
  <2>7. CASE RefundRead(a)
    <3>1. UNCHANGED card /\ checkout[a].phase = "refunding" /\ OthersStay(a)
      BY <2>7, RefundReadEffect DEF RefundRead, cardVars
    <3>2. checkout[a].amount > 0
      BY <3>1 DEF MoneyInv, MoneyOK
    <3>3. statusAfter(checkout[a].amount) # "redeemed"
      BY <1>0, <1>a, <3>2, StatusAfterIncrease DEF Cards
    <3>4. checkout'[a].phase = "refundWrite" => checkout'[a].target # "redeemed"
      BY <2>7, <3>3, RefundReadEffect
    <3> QED BY <1>r, <1>t, <2>2, <3>1, <3>4
  <2>8. CASE refundGiftCard(a)
    <3>1. OthersStay(a) /\ checkout'[a].phase = "done"
      BY <1>0, <2>8, FinishEffect DEF refundGiftCard
    <3>2. card'.status # "redeemed"
      BY <2>8 DEF refundGiftCard, addTransactionRepo, TargetInv
    <3> QED BY <1>s, <1>t, <2>2, <3>1, <3>2
  <2> QED BY <2>1, <2>3, <2>4, <2>5, <2>6, <2>7, <2>8 DEF createOrderService
<1>2. CASE \/ \E a \in Attempts : cancelOrderService(a)
           \/ \E a \in Attempts : updateOrderStatusService(a)
           \/ \E k \in Carts : EditCart(k)
           \/ UNCHANGED vars
  <2>1. UNCHANGED <<card, checkout, admin>>
    BY <1>2 DEF cancelOrderService, updateOrderStatusService, EditCart, cardVars, vars
  <2> QED BY <1>r, <1>v, <2>1
<1>3. CASE \E m \in Admins, op \in {"adjust", "enable", "redeem"}, delta \in {-1, 0, 1} :
             AdminRead(m, op, delta)
  <2>1. PICK m \in Admins, op \in {"adjust", "enable", "redeem"}, delta \in {-1, 0, 1} :
             AdminRead(m, op, delta)
    BY <1>3
  <2>2. /\ UNCHANGED <<card, checkout>> /\ \A n \in Admins \ {m} : admin'[n] = admin[n]
        /\ admin'[m] = Request(op, delta, statusAfter(delta))
    BY <1>0, <2>1 DEF AdminRead, cardVars
  <2>3. op = "adjust" => statusAfter(delta) # "redeemed"
    BY <1>0, <2>1, StatusAfterIncrease DEF AdminRead
  <2> QED BY <1>r, <1>u, <2>2, <2>3 DEF Request
<1>4. CASE \E m \in Admins : adjustGiftCard(m) \/ enableGiftCard(m) \/ redeemByRoute(m)
  <2>1. PICK m \in Admins : adjustGiftCard(m) \/ enableGiftCard(m) \/ redeemByRoute(m)
    BY <1>4
  <2>2. /\ UNCHANGED checkout /\ \A n \in Admins \ {m} : admin'[n] = admin[n]
        /\ admin'[m].op = "done"
    BY <1>0, <2>1 DEF adjustGiftCard, enableGiftCard, redeemByRoute, Request
  <2>3. TargetInv'
    BY <1>u, <2>2
  <2>4. CASE adjustGiftCard(m)
    <3>1. CASE overdraft(m)
      BY <1>r, <2>3, <2>4, <3>1 DEF adjustGiftCard
    <3>2. CASE ~overdraft(m)
      <4>1. card'.status # "redeemed"
        BY <2>4, <3>2 DEF adjustGiftCard, addTransactionRepo, TargetInv
      <4> QED BY <1>s, <2>3, <4>1
    <3> QED BY <3>1, <3>2
  <2>5. CASE enableGiftCard(m)
    <3>1. card'.status # "redeemed"
      BY <1>0, <2>5 DEF enableGiftCard, Cards
    <3> QED BY <1>s, <2>3, <3>1
  <2>6. CASE redeemByRoute(m)
    BY <1>0, <1>r, <2>3, <2>6, RedeemedEmpty DEF redeemByRoute
  <2> QED BY <2>1, <2>4, <2>5, <2>6
<1>5. CASE disableGiftCard
  <2>1. card'.status # "redeemed" /\ UNCHANGED <<checkout, admin>>
    BY <1>0, <1>5 DEF disableGiftCard, Cards
  <2> QED BY <1>s, <1>v, <2>1
<1>6. CASE ExpiryPasses
  BY <1>r, <1>v, <1>6 DEF ExpiryPasses
<1> QED BY <1>1, <1>2, <1>3, <1>4, <1>5, <1>6, NextParts DEF AdminStep

(* A card marked redeemed is empty, although refundGiftCard and adjustGiftCard *)
(* write a status they computed from a copy another request may have outdated. *)
THEOREM RedeemedCardIsEmpty == Spec => []RedeemedMeansEmpty
<1>1. Init => RedeemedMeansEmpty /\ TargetInv
  BY DEF Init, Attempt, Request, RedeemedMeansEmpty, TargetInv
<1>2. TypeOK /\ MoneyInv /\ RedeemedMeansEmpty /\ TargetInv /\ [Next]_vars
        => RedeemedMeansEmpty' /\ TargetInv'
  BY StatusStep
<1> QED BY <1>1, <1>2, TypeCorrect, MoneyInvariant, PTL DEF Spec

(* A disabled card becomes usable again by an enable request, or by the write *)
(* of a refund or an adjustment whose copy of the card is older, and never by *)
(* the conditional redemption (redeemCardAtomicRepo).                         *)
THEOREM DisabledStays == Spec => DisabledLostOnlyToStaleCopy
<1> DEFINE Lost == card.status = "disabled" /\ card'.status # "disabled"
           Why == \/ \E m \in Admins : admin[m].op = "enable" /\ admin'[m].op = "done"
                  \/ \E m \in Admins : admin[m].op = "adjust" /\ card'.status = admin[m].target
                  \/ \E a \in Attempts : /\ checkout[a].phase = "refundWrite"
                                         /\ card'.status = checkout[a].target
<1>1. ASSUME TypeOK, [Next]_vars, Lost PROVE Why
  <2>u. ~UNCHANGED card
    BY <1>1
  <2>1. CASE \E a \in Attempts : createOrderService(a)
    <3>1. PICK a \in Attempts : createOrderService(a)
      BY <2>1
    <3>2. CASE redeemGiftCard(a) \/ RedeemUnknown(a)
      BY <1>1, <3>2 DEF redeemGiftCard, RedeemUnknown, redeemable, Spendable
    <3>3. CASE refundGiftCard(a)
      BY <3>3 DEF refundGiftCard, addTransactionRepo
    <3>4. CASE ~redeemGiftCard(a) /\ ~RedeemUnknown(a) /\ ~refundGiftCard(a)
      BY <2>u, <3>1, <3>4
      DEF createOrderService, Begin, AnswerExisting, Write, RedeemRead, Fail, Commit,
          CommitFails, CommitUnknown, RefundRead, RefundFails, Stop, cardVars
    <3> QED BY <3>2, <3>3, <3>4
  <2>2. CASE \E m \in Admins : adjustGiftCard(m)
    BY <2>2, <2>u DEF adjustGiftCard, addTransactionRepo
  <2>3. CASE \E m \in Admins : enableGiftCard(m)
    <3>1. PICK m \in Admins : enableGiftCard(m)
      BY <2>3
    <3>2. admin[m].op = "enable" /\ admin'[m].op = "done"
      BY <1>1, <3>1 DEF enableGiftCard, Request, TypeOK
    <3> QED BY <3>2
  <2>4. CASE \E m \in Admins : redeemByRoute(m)
    BY <1>1, <2>4 DEF redeemByRoute, redeemable, Spendable
  <2>5. CASE disableGiftCard
    BY <1>1, <2>5 DEF disableGiftCard
  <2>6. CASE \/ \E a \in Attempts : cancelOrderService(a)
             \/ \E a \in Attempts : updateOrderStatusService(a)
             \/ \E k \in Carts : EditCart(k)
             \/ \E m \in Admins, op \in {"adjust", "enable", "redeem"}, delta \in {-1, 0, 1} :
                  AdminRead(m, op, delta)
             \/ ExpiryPasses \/ UNCHANGED vars
    BY <2>6, <2>u DEF cancelOrderService, updateOrderStatusService, EditCart, AdminRead,
                      ExpiryPasses, cardVars, vars
  <2> QED BY <1>1, <2>1, <2>2, <2>3, <2>4, <2>5, <2>6, NextParts DEF AdminStep
<1>2. TypeOK /\ [Next]_vars => [Lost => Why]_vars
  BY <1>1
<1> QED BY <1>2, TypeCorrect, PTL DEF Spec, DisabledLostOnlyToStaleCopy

(* ------------------------ The uses of the code ---------------------------- *)

Standing == {a \in Attempts : orders[a] = "Placed" /\ checkout[a].code}

LEMMA StandingFinite == IsFiniteSet(Standing) /\ IsFiniteSet(Standing')
BY FiniteAssumption, FS_Subset DEF Standing

(* Fewer standing orders with the code, or the same: enough that the counter  *)
(* is not taken back.                                                         *)
LEMMA UsesKept ==
  ASSUME UsesOfCodeCounted, TypeOK, TypeOK', ~reopened, Standing' \in SUBSET Standing,
         used' >= used
  PROVE  UsesOfCodeCounted'
<1>1. Cardinality(Standing') <= Cardinality(Standing)
  BY StandingFinite, FS_Subset
<1>2. Cardinality(Standing') \in Nat /\ Cardinality(Standing) \in Nat
  BY StandingFinite, FS_CardinalityType
<1>3. Cardinality(Standing) <= used
  BY DEF UsesOfCodeCounted, Standing
<1>4. used \in Int /\ used' \in Int
  BY LimitAssumption DEF TypeOK
<1>5. Cardinality(Standing') <= used'
  BY <1>1, <1>2, <1>3, <1>4
<1> QED BY <1>5 DEF UsesOfCodeCounted, Standing

LEMMA UsesStep ==
  ASSUME TypeOK, TypeOK', OrderInv, UsesOfCodeCounted, [Next]_vars
  PROVE  UsesOfCodeCounted'
<1>0. /\ checkout \in [Attempts -> AttemptRecords]
      /\ orders \in [Attempts -> {"None", "Placed", "Cancelled"}]
      /\ used \in Nat /\ used' \in Nat
  BY LimitAssumption DEF TypeOK, AttemptRecords
<1> USE DEF Phases
<1>u. ASSUME UNCHANGED <<used, reopened>>, Standing' \in SUBSET Standing PROVE UsesOfCodeCounted'
  <2>1. CASE reopened
    BY <1>u, <2>1 DEF UsesOfCodeCounted
  <2>2. CASE ~reopened
    <3>1. used' >= used
      BY <1>0, <1>u
    <3> QED BY <1>u, <2>2, <3>1, UsesKept
  <2> QED BY <2>1, <2>2
<1>1. ASSUME NEW a \in Attempts, Commit(a) \/ CommitUnknown(a) PROVE UsesOfCodeCounted'
  <2>1. OthersStay(a) /\ SameOrder(a) /\ Committed(a) /\ UNCHANGED reopened
    BY <1>0, <1>1, MoveEffect DEF Commit, CommitUnknown, afterCommitError
  <2>2. orders'[a] = "Placed" /\ \A b \in Attempts \ {a} : orders'[b] = orders[b]
    BY <1>0, <2>1 DEF Committed
  <2>3. orders[a] = "None"
    BY <1>1 DEF Commit, CommitUnknown, Redeemed, OrderInv, After, Placed
  <2>4. CASE ~checkout[a].code
    <3>1. UNCHANGED used
      BY <2>1, <2>4 DEF Committed
    <3>2. Standing' \in SUBSET Standing
      BY <2>1, <2>2, <2>4 DEF Standing, OthersStay, SameOrder
    <3> QED BY <1>u, <2>1, <3>1, <3>2
  <2>5. CASE checkout[a].code
    <3>1. used' = used + 1
      BY <2>1, <2>5 DEF Committed
    <3>2. Standing' = Standing \cup {a} /\ a \notin Standing
      BY <2>1, <2>2, <2>3, <2>5 DEF Standing, OthersStay, SameOrder
    <3>3. Cardinality(Standing') = Cardinality(Standing) + 1
      BY <3>2, StandingFinite, FS_AddElement
    <3>4. Cardinality(Standing) \in Nat
      BY StandingFinite, FS_CardinalityType
    <3>5. ~reopened => Cardinality(Standing) <= used
      BY DEF UsesOfCodeCounted, Standing
    <3>6. ~reopened' => Cardinality(Standing') <= used'
      BY <1>0, <2>1, <3>1, <3>3, <3>4, <3>5
    <3> QED BY <3>6 DEF UsesOfCodeCounted, Standing
  <2> QED BY <2>4, <2>5
<1>2. ASSUME NEW a \in Attempts, createOrderService(a), ~Commit(a), ~CommitUnknown(a)
      PROVE  UsesOfCodeCounted'
  <2>1. UNCHANGED <<used, reopened, orders>>
    BY <1>2 DEF createOrderService, Begin, AnswerExisting, Write, RedeemRead, redeemGiftCard,
                RedeemUnknown, Fail, CommitFails, RefundRead, RefundFails, refundGiftCard, Stop,
                orderVars
  <2>2. OthersStay(a) /\ (orders[a] = "Placed" => SameOrder(a))
    <3>p. checkout[a].phase \notin After => orders[a] # "Placed"
      BY DEF OrderInv, Placed
    <3>1. CASE \E key \in Keys, code, pays \in BOOLEAN : Begin(a, key, code, pays)
      BY <3>p, <3>1, BeginEffect DEF After
    <3>2. CASE \/ \E key \in ClientKeys : AnswerExisting(a, key)
               \/ Fail(a) \/ RedeemUnknown(a) \/ CommitFails(a)
      <4>1. checkout[a].phase \notin After
        BY <3>2 DEF AnswerExisting, Fail, RedeemUnknown, CommitFails, Redeemed, After
      <4> QED BY <1>0, <3>p, <3>2, <4>1, GiveUpEffect, MoveEffect
              DEF AnswerExisting, Fail, RedeemUnknown, CommitFails, afterCommitError
    <3>3. CASE Write(a) \/ RedeemRead(a) \/ redeemGiftCard(a)
      BY <1>0, <3>3, MoveEffect DEF Write, RedeemRead, redeemGiftCard
    <3>4. CASE RefundRead(a)
      BY <3>4, RefundReadEffect
    <3>5. CASE refundGiftCard(a) \/ RefundFails(a) \/ Stop(a)
      BY <1>0, <3>5, FinishEffect DEF refundGiftCard, RefundFails, Stop
    <3> QED BY <1>2, <3>1, <3>2, <3>3, <3>4, <3>5 DEF createOrderService
  <2>3. Standing' \in SUBSET Standing
    BY <2>1, <2>2 DEF Standing, OthersStay, SameOrder
  <2> QED BY <1>u, <2>1, <2>3
<1>3. ASSUME NEW a \in Attempts, cancelOrderService(a) PROVE UsesOfCodeCounted'
  <2>1. /\ UNCHANGED <<checkout, reopened>> /\ orders[a] = "Placed"
        /\ orders' = [orders EXCEPT ![a] = "Cancelled"]
    BY <1>3 DEF cancelOrderService, mayCancel
  <2>2. CASE ~checkout[a].code
    <3>1. UNCHANGED used
      BY <1>3, <2>2 DEF cancelOrderService
    <3>2. Standing' \in SUBSET Standing
      BY <1>0, <2>1 DEF Standing
    <3> QED BY <1>u, <2>1, <3>1, <3>2
  <2>3. CASE checkout[a].code
    <3>1. Standing' = Standing \ {a} /\ a \in Standing
      BY <1>0, <2>1, <2>3 DEF Standing
    <3>2. Cardinality(Standing') = Cardinality(Standing) - 1
      BY <3>1, StandingFinite, FS_RemoveElement
    <3>3. Cardinality(Standing) \in Nat
      BY StandingFinite, FS_CardinalityType
    <3>4. ~reopened => Cardinality(Standing) <= used
      BY DEF UsesOfCodeCounted, Standing
    <3>5. used' >= used - 1
      BY <1>0, <1>3 DEF cancelOrderService
    <3>6. ~reopened' => Cardinality(Standing') <= used'
      BY <1>0, <2>1, <3>2, <3>3, <3>4, <3>5
    <3> QED BY <3>6 DEF UsesOfCodeCounted, Standing
  <2> QED BY <2>2, <2>3
<1>4. ASSUME NEW a \in Attempts, updateOrderStatusService(a) PROVE UsesOfCodeCounted'
  <2>1. CASE reopened' = TRUE
    BY <2>1 DEF UsesOfCodeCounted
  <2>2. CASE orders' = [orders EXCEPT ![a] = "Cancelled"] /\ UNCHANGED reopened
    <3>1. UNCHANGED <<checkout, used>>
      BY <1>4 DEF updateOrderStatusService
    <3>2. Standing' \in SUBSET Standing
      BY <1>0, <2>2, <3>1 DEF Standing
    <3> QED BY <1>u, <2>2, <3>1, <3>2
  <2> QED BY <1>4, <2>1, <2>2 DEF updateOrderStatusService
<1>5. CASE (\E k \in Carts : EditCart(k)) \/ AdminStep \/ UNCHANGED vars
  <2>1. UNCHANGED <<used, reopened, orders, checkout>>
    BY <1>5 DEF EditCart, AdminStep, AdminRead, adjustGiftCard, enableGiftCard, redeemByRoute,
                disableGiftCard, ExpiryPasses, orderVars, vars
  <2>2. Standing' \in SUBSET Standing
    BY <2>1 DEF Standing
  <2> QED BY <1>u, <2>1, <2>2
<1> QED BY <1>1, <1>2, <1>3, <1>4, <1>5, NextParts

(* The use counter of a discount code covers every standing order with the    *)
(* code until a cancelled order is reopened; with TypeCorrect, the code is     *)
(* then in no more standing orders than applyDiscount's limit allows.         *)
THEOREM CodeUsesCovered == Spec => []UsesOfCodeCounted
<1>1. Init => UsesOfCodeCounted
  <2>1. Init => Standing = {} /\ used = 0
    BY DEF Init, Standing
  <2> QED BY <2>1, FS_EmptySet DEF UsesOfCodeCounted, Standing
<1>2. TypeOK /\ TypeOK' /\ OrderInv /\ UsesOfCodeCounted /\ [Next]_vars => UsesOfCodeCounted'
  BY UsesStep
<1> QED BY <1>1, <1>2, TypeCorrect, OrderInvariant, PTL DEF Spec

===============================================================================
