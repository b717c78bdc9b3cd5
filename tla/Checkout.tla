------------------------------- MODULE Checkout -------------------------------
(***************************************************************************)
(* Placing orders from carts, paid in part or in full by one gift card and *)
(* with one discount code (createOrderService of services/order.js,        *)
(* services/giftCard.js, applyDiscount of services/discount.js).           *)
(*                                                                         *)
(* The order, the deletion of the cart and the use of the code are one     *)
(* MongoDB transaction.  The gift card is not in it: it is redeemed just   *)
(* before the commit and given back by hand when the commit fails.  A      *)
(* checkout attempt is therefore several steps, and between two of them    *)
(* anything may happen to the card, the cart and the code, or the server   *)
(* may stop.                                                               *)
(*                                                                         *)
(* Conflicts: of two transactions that write one document, the one that    *)
(* writes second fails, and so does one that writes a document committed   *)
(* by another after its snapshot was taken.                                *)
(*                                                                         *)
(* Stock is in StockAllocation; here an attempt may simply fail.           *)
(***************************************************************************)
EXTENDS Integers, FiniteSets

CONSTANTS
  Attempts,        \* checkout requests, each made once (bound)
  Carts,
  ClientKeys,      \* idempotency keys clients send
  Admins,          \* staff and storefront requests on the card (bound)
  Price,           \* what the goods of any cart cost
  InitialBalance,  \* of the gift card
  UsageLimit,      \* of the discount code
  MaxEdits         \* edits of a cart (bound)

ASSUME PriceAssumption == Price \in Nat \ {0}
ASSUME InitialBalanceAssumption == InitialBalance \in Nat \ {0}
ASSUME LimitAssumption == UsageLimit \in Nat \ {0}
ASSUME BoundsAssumption == MaxEdits \in Nat
ASSUME FiniteAssumption == IsFiniteSet(Attempts) /\ IsFiniteSet(Admins)

VARIABLES
  card,      \* the gift card: status and balance
  past,      \* is it past its expiresAt?
  cart,      \* per cart: how often edited (updatedAt), and whether it still exists
  orders,    \* per attempt: "None", "Placed" or "Cancelled"
  used,      \* usedCount of the discount code
  checkout,  \* per attempt: where it is and what it read
  stale,     \* priced attempts whose snapshot of the code is no longer the latest
  admin,     \* per card request: what it read and wants to write
  debit,     \* history: what attempt a took from the card and has not given back
  fate,      \* history: attempts cut off, or answered with an error although a write held
  reopened   \* history: has an order left Cancelled?  Once at most (bound)

cardVars == <<card, past>>
orderVars == <<orders, used, stale, reopened>>
history == <<debit, fate>>
vars == <<cardVars, cart, orderVars, checkout, admin, history>>

CardStatuses == {"active", "redeemed", "disabled"}
Keys == ClientKeys \cup (Carts \X (0..MaxEdits))

Phases == {"idle", "priced", "written", "redeeming", "redeemed", "refunding", "refundWrite", "done"}
Open == {"written", "redeeming", "redeemed"}  \* the transaction has written its documents

TypeOK ==
  /\ card \in [status: CardStatuses, balance: Nat]
  /\ past \in BOOLEAN
  /\ cart \in [Carts -> [stamp: 0..MaxEdits, live: BOOLEAN]]
  /\ orders \in [Attempts -> {"None", "Placed", "Cancelled"}]
  /\ used \in 0..UsageLimit
  /\ stale \in SUBSET Attempts
  /\ checkout \in [Attempts -> [phase: Phases, cart: Carts, stamp: 0..MaxEdits, key: Keys,
                                amount: 0..Price, code: BOOLEAN, target: CardStatuses]]
  /\ admin \in [Admins -> [op: {"idle", "adjust", "enable", "redeem", "done"}, delta: {-1, 0, 1},
                           target: CardStatuses]]
  /\ debit \in [Attempts -> 0..Price]
  /\ fate \in [Attempts -> {"fine", "stopped", "refused", "lost", "unknown"}]
  /\ reopened \in BOOLEAN

\* An attempt at this cart that holds nothing.
Attempt(phase, k) ==
  [phase |-> phase, cart |-> k, stamp |-> 0, key |-> <<k, 0>>, amount |-> 0, code |-> FALSE,
   target |-> "active"]

Request(op, delta, target) == [op |-> op, delta |-> delta, target |-> target]

Init ==
  /\ card = [status |-> "active", balance |-> InitialBalance]
  /\ past = FALSE
  /\ cart = [k \in Carts |-> [stamp |-> 0, live |-> TRUE]]
  /\ orders = [a \in Attempts |-> "None"]
  /\ used = 0
  /\ checkout \in [Attempts -> {Attempt("idle", k) : k \in Carts}]
  /\ stale = {}
  /\ admin = [m \in Admins |-> Request("idle", 0, "active")]
  /\ debit = [a \in Attempts |-> 0]
  /\ fate = [a \in Attempts |-> "fine"]
  /\ reopened = FALSE

Move(a, phase) == checkout' = [checkout EXCEPT ![a].phase = phase]

\* The attempt is over and left nothing in the database.
GiveUp(a) == checkout' = [checkout EXCEPT ![a] = Attempt("done", checkout[a].cart)]

\* The attempt is over: what its order records stays.
Finish(a) ==
  IF orders[a] = "None" THEN GiveUp(a)
  ELSE checkout' = [checkout EXCEPT ![a].phase = "done", ![a].target = "active"]

(* ------------------------- The gift card's operations -------------------- *)

Spendable(amount) == card.status = "active" /\ card.balance >= amount

\* DEVIATION: the balance is checked on the copy only.
redeemable_AsRead(amount) == card.status = "active"

\* DEVIATION: the status is checked on the copy only.
redeemable_AnyStatus(amount) == card.balance >= amount

\* The condition of the atomic update in redeemCardAtomicRepo.
redeemable(amount) == Spendable(amount)

redeemCardAtomicRepo(amount) ==
  card' = [status |-> IF card.balance - amount <= 0 THEN "redeemed" ELSE "active",
           balance |-> card.balance - amount]

\* DEVIATION: a refund or an adjustment leaves the status it read.
statusAfter_AsRead(delta) == card.status

\* The status a refund or an adjustment computes from the card it read.
statusAfter(delta) ==
  IF card.status = "redeemed" /\ card.balance + delta > 0 THEN "active" ELSE card.status

addTransactionRepo(delta, target) == card' = [status |-> target, balance |-> card.balance + delta]

(* --------------------------- createOrderService -------------------------- *)

KeyTaken(key) == \E b \in Attempts : orders[b] # "None" /\ checkout[b].key = key

\* The reads: the cart and the order of this key in the snapshot, the code and
\* the card outside it.  The key is the client's, or made from the cart and its
\* updatedAt.
Begin(a, key, code, pays) ==
  LET k == checkout[a].cart
      amount == IF pays THEN (IF card.balance <= Price THEN card.balance ELSE Price) ELSE 0 IN
  /\ checkout[a].phase = "idle"
  /\ cart[k].live
  /\ key \in ClientKeys \/ key = <<k, cart[k].stamp>>
  /\ ~KeyTaken(key)
  /\ code => used < UsageLimit
  /\ pays => card.status = "active" /\ ~past /\ amount > 0
  /\ checkout' = [checkout EXCEPT ![a].phase = "priced", ![a].stamp = cart[k].stamp,
                                  ![a].key = key, ![a].amount = amount, ![a].code = code]
  /\ UNCHANGED <<cardVars, cart, orderVars, admin, history>>

\* The key belongs to an order: its order is the answer, the cart stays.
AnswerExisting(a, key) ==
  /\ checkout[a].phase = "idle"
  /\ cart[checkout[a].cart].live
  /\ key \in ClientKeys /\ KeyTaken(key)
  /\ GiveUp(a)
  /\ UNCHANGED <<cardVars, cart, orderVars, admin, history>>

OpenOthers(a) == {b \in Attempts \ {a} : checkout[b].phase \in Open}

\* DEVIATION: the cart is deleted outside the transaction.
cartConflict_None(a) == FALSE

\* deleteCartRepo in the session: someone edited or deleted the cart, or is about to.
cartConflict(a) ==
  LET k == checkout[a].cart IN
  \/ cart[k] # [stamp |-> checkout[a].stamp, live |-> TRUE]
  \/ \E b \in OpenOthers(a) : checkout[b].cart = k

\* applyDiscount in the session: conditional on the limit, and refused when
\* another transaction wrote the code since this one's snapshot.
codeConflict(a) ==
  \/ a \in stale
  \/ used >= UsageLimit
  \/ \E b \in OpenOthers(a) : checkout[b].code

\* The writes of the transaction: order (unique key), code, cart.
Write(a) ==
  /\ checkout[a].phase = "priced"
  /\ ~KeyTaken(checkout[a].key)
  /\ \A b \in OpenOthers(a) : checkout[b].key # checkout[a].key
  /\ checkout[a].code => ~codeConflict(a)
  /\ ~cartConflict(a)
  /\ Move(a, "written")
  /\ UNCHANGED <<cardVars, cart, orderVars, admin, history>>

\* redeemGiftCard reads the card and checks it, then updates it conditionally.
RedeemRead(a) ==
  /\ checkout[a].phase = "written" /\ checkout[a].amount > 0
  /\ Spendable(checkout[a].amount) /\ ~past
  /\ Move(a, "redeeming")
  /\ UNCHANGED <<cardVars, cart, orderVars, admin, history>>

redeemGiftCard(a) ==
  /\ checkout[a].phase = "redeeming"
  /\ redeemable(checkout[a].amount)
  /\ redeemCardAtomicRepo(checkout[a].amount)
  /\ debit' = [debit EXCEPT ![a] = checkout[a].amount]
  /\ Move(a, "redeemed")
  /\ UNCHANGED <<past, cart, orderVars, admin, fate>>

\* The card is debited, the answer lost: the driver reports an error.  The
\* transaction is aborted, and nothing gives the amount back, because
\* redeemedCard is still null.
RedeemUnknown(a) ==
  /\ checkout[a].phase = "redeeming"
  /\ redeemable(checkout[a].amount)
  /\ redeemCardAtomicRepo(checkout[a].amount)
  /\ debit' = [debit EXCEPT ![a] = checkout[a].amount]
  /\ fate' = [fate EXCEPT ![a] = "lost"]
  /\ GiveUp(a)
  /\ UNCHANGED <<past, cart, orderVars, admin>>

\* Any error before the redemption: no stock, a conflict, a refused card.  The
\* transaction is aborted.
Fail(a) ==
  /\ checkout[a].phase \in {"priced", "written", "redeeming"}
  /\ GiveUp(a)
  /\ stale' = stale \ {a}
  /\ UNCHANGED <<cardVars, cart, orders, used, reopened, admin, history>>

Redeemed(a) ==
  \/ checkout[a].phase = "redeemed"
  \/ checkout[a].phase = "written" /\ checkout[a].amount = 0

\* Attempts other than a that have read the code and not yet written it.
Reading(a) == {b \in Attempts \ {a} : checkout[b].phase = "priced" /\ checkout[b].code}

\* What the commit makes visible.
Committed(a) ==
  /\ orders' = [orders EXCEPT ![a] = "Placed"]
  /\ cart' = [cart EXCEPT ![checkout[a].cart].live = FALSE]
  /\ used' = IF checkout[a].code THEN used + 1 ELSE used
  /\ stale' = IF checkout[a].code THEN stale \cup Reading(a) ELSE stale

Commit(a) ==
  /\ Redeemed(a)
  /\ Committed(a)
  /\ Move(a, "done")
  /\ UNCHANGED <<cardVars, admin, history, reopened>>

\* DEVIATION: no compensation.
afterCommitError_GiveUp(a) == "done"

\* The catch around commitTransaction: give the card back, if it was used.
afterCommitError(a) == IF checkout[a].amount > 0 THEN "refunding" ELSE "done"

CommitFails(a) ==
  /\ Redeemed(a)
  /\ IF afterCommitError(a) = "done" THEN GiveUp(a) ELSE Move(a, afterCommitError(a))
  /\ UNCHANGED <<cardVars, cart, orderVars, admin, history>>

\* The commit is applied, its answer lost: the driver reports an error.
CommitUnknown(a) ==
  /\ Redeemed(a)
  /\ Committed(a)
  /\ fate' = [fate EXCEPT ![a] = "unknown"]
  /\ Move(a, afterCommitError(a))
  /\ UNCHANGED <<cardVars, admin, debit, reopened>>

\* refundGiftCard reads the card, and refuses a disabled one.
RefundRead(a) ==
  /\ checkout[a].phase = "refunding"
  /\ card.status # "disabled"
  /\ checkout' = [checkout EXCEPT ![a].phase = "refundWrite",
                                  ![a].target = statusAfter(checkout[a].amount)]
  /\ UNCHANGED <<cardVars, cart, orderVars, admin, history>>

\* The refusal, or an error of the database in either call: all are swallowed.
RefundFails(a) ==
  /\ checkout[a].phase \in {"refunding", "refundWrite"}
  /\ fate' = [fate EXCEPT ![a] = IF @ = "unknown" THEN @ ELSE "refused"]
  /\ Finish(a)
  /\ UNCHANGED <<cardVars, cart, orderVars, admin, debit>>

refundGiftCard(a) ==
  /\ checkout[a].phase = "refundWrite"
  /\ addTransactionRepo(checkout[a].amount, checkout[a].target)
  /\ debit' = [debit EXCEPT ![a] = 0]
  /\ Finish(a)
  /\ UNCHANGED <<past, cart, orderVars, admin, fate>>

\* The server stops; the database aborts an open transaction.
Stop(a) ==
  /\ checkout[a].phase \notin {"idle", "done"}
  /\ Finish(a)
  /\ fate' = [fate EXCEPT ![a] = IF debit[a] > 0 /\ orders[a] = "None" THEN "stopped" ELSE @]
  /\ stale' = stale \ {a}
  /\ UNCHANGED <<cardVars, cart, orders, used, reopened, admin, debit>>

(* ------------------------------ Around it -------------------------------- *)

\* A save() of the cart; it waits for a transaction that has written it.
EditCart(k) ==
  /\ cart[k].live /\ \A c \in Carts : cart[c].stamp + (IF c = k THEN 1 ELSE 0) <= MaxEdits
  /\ \A b \in Attempts : checkout[b].phase \in Open => checkout[b].cart # k
  /\ cart' = [cart EXCEPT ![k].stamp = @ + 1]
  /\ UNCHANGED <<cardVars, orderVars, checkout, admin, history>>

\* DEVIATION: cancelling twice gives the use back twice.
mayCancel_Any(a) == orders[a] # "None"

mayCancel(a) == orders[a] = "Placed"

\* cancelOrderService, its part on the code; the card is not given back.  It
\* fails on a conflict with an open transaction that wrote the code.
cancelOrderService(a) ==
  LET code == checkout[a].code IN
  /\ mayCancel(a)
  /\ code => \A b \in Attempts : checkout[b].phase \in Open => ~checkout[b].code
  /\ orders' = [orders EXCEPT ![a] = "Cancelled"]
  /\ used' = IF code /\ used > 0 THEN used - 1 ELSE used
  /\ stale' = IF code THEN stale \cup Reading(a) ELSE stale
  /\ UNCHANGED <<cardVars, cart, checkout, admin, history, reopened>>

\* The status PATCH to Cancelled does not touch the code; a stale one takes an
\* order out of Cancelled (OrderLifecycle).
updateOrderStatusService(a) ==
  /\ \/ orders[a] = "Placed" /\ orders' = [orders EXCEPT ![a] = "Cancelled"] /\ UNCHANGED reopened
     \/ /\ orders[a] = "Cancelled" /\ ~reopened
        /\ orders' = [orders EXCEPT ![a] = "Placed"]
        /\ reopened' = TRUE
  /\ UNCHANGED <<cardVars, cart, used, stale, checkout, admin, history>>

(* -------------------- Other requests on the gift card -------------------- *)

\* adjustGiftCard, enableGiftCard and redeemGiftCard of the card routes, up to
\* their write.
AdminRead(m, op, delta) ==
  /\ admin[m].op = "idle"
  /\ \/ op = "adjust" /\ delta # 0 /\ card.status # "disabled" /\ card.balance + delta >= 0
     \/ op = "enable" /\ delta = 0 /\ card.status = "disabled"
     \/ op = "redeem" /\ delta = -1 /\ Spendable(1) /\ ~past
  /\ admin' = [admin EXCEPT ![m] = Request(op, delta, statusAfter(delta))]
  /\ UNCHANGED <<cardVars, cart, orderVars, checkout, history>>

overdraft(m) == admin[m].delta < 0 /\ card.balance + admin[m].delta < 0

adjustGiftCard(m) ==
  /\ admin[m].op = "adjust"
  /\ IF overdraft(m) THEN UNCHANGED card ELSE addTransactionRepo(admin[m].delta, admin[m].target)
  /\ admin' = [admin EXCEPT ![m] = Request("done", 0, "active")]
  /\ UNCHANGED <<past, cart, orderVars, checkout, history>>

enableGiftCard(m) ==
  /\ admin[m].op = "enable"
  /\ card' = [card EXCEPT !.status = "active"]
  /\ admin' = [admin EXCEPT ![m] = Request("done", 0, "active")]
  /\ UNCHANGED <<past, cart, orderVars, checkout, history>>

redeemByRoute(m) ==
  /\ admin[m].op = "redeem"
  /\ IF redeemable(1) THEN redeemCardAtomicRepo(1) ELSE UNCHANGED card
  /\ admin' = [admin EXCEPT ![m] = Request("done", 0, "active")]
  /\ UNCHANGED <<past, cart, orderVars, checkout, history>>

disableGiftCard ==
  /\ card.status # "disabled"
  /\ card' = [card EXCEPT !.status = "disabled"]
  /\ UNCHANGED <<past, cart, orderVars, checkout, admin, history>>

\* expiresAt goes by.  The sweep that would set status expired has no caller.
ExpiryPasses ==
  /\ ~past /\ past' = TRUE
  /\ UNCHANGED <<card, cart, orderVars, checkout, admin, history>>

createOrderService(a) ==
  \/ \E key \in Keys, code, pays \in BOOLEAN : Begin(a, key, code, pays)
  \/ \E key \in ClientKeys : AnswerExisting(a, key)
  \/ Write(a)
  \/ RedeemRead(a)
  \/ redeemGiftCard(a)
  \/ RedeemUnknown(a)
  \/ Fail(a)
  \/ Commit(a)
  \/ CommitFails(a)
  \/ CommitUnknown(a)
  \/ RefundRead(a)
  \/ RefundFails(a)
  \/ refundGiftCard(a)
  \/ Stop(a)

Next ==
  \/ \E a \in Attempts : createOrderService(a)
  \/ \E a \in Attempts : cancelOrderService(a)
  \/ \E a \in Attempts : updateOrderStatusService(a)
  \/ \E k \in Carts : EditCart(k)
  \/ \E m \in Admins, op \in {"adjust", "enable", "redeem"}, delta \in {-1, 0, 1} :
       AdminRead(m, op, delta)
  \/ \E m \in Admins : adjustGiftCard(m)
  \/ \E m \in Admins : enableGiftCard(m)
  \/ \E m \in Admins : redeemByRoute(m)
  \/ disableGiftCard
  \/ ExpiryPasses

Spec == Init /\ [][Next]_vars

(* ------------------------------- Properties ------------------------------ *)

Placed(a) == orders[a] # "None"

\* A cart is ordered at most once, whatever keys its attempts carry, and the
\* order is priced from the cart's last edit: the deletion in the transaction
\* (order.js:881) is what stops a double click and an edit in between.
OneOrderPerCart ==
  \A a \in Attempts : Placed(a) =>
    /\ checkout[a].stamp = cart[checkout[a].cart].stamp
    /\ \A b \in Attempts \ {a} : Placed(b) =>
         checkout[b].cart # checkout[a].cart /\ checkout[b].key # checkout[a].key

\* The card pays for orders, and for nothing else: once an attempt is over, an
\* order keeps its debit unless the commit's answer was lost, and a debit
\* without an order is left only by a stop of the server, a redemption whose
\* answer was lost, or a refund that was refused or failed (the redemption at
\* order.js:887 is outside the transaction).
DebitsMatchOrders ==
  \A a \in Attempts : checkout[a].phase = "done" =>
    IF Placed(a)
    THEN debit[a] = checkout[a].amount \/ (fate[a] = "unknown" /\ debit[a] = 0)
    ELSE debit[a] = 0 \/ fate[a] \in {"stopped", "lost", "refused"}

\* The code is never in more standing orders than its limit allows, and its
\* counter covers them all, as long as no cancelled order was reopened: a
\* second cancellation would give its use back twice.
UsesOfCodeCounted ==
  ~reopened =>
    Cardinality({a \in Attempts : orders[a] = "Placed" /\ checkout[a].code}) <= used

\* A card marked redeemed has nothing left, although refunds and adjustments
\* write a status computed from an older copy of it (giftCard.js:249, 281).
RedeemedMeansEmpty == card.status = "redeemed" => card.balance = 0

\* A disabled card is made usable again by an enable request, or by a refund or
\* an adjustment that read it before it was disabled, and by nothing else.
DisabledLostOnlyToStaleCopy ==
  [][card.status = "disabled" /\ card'.status # "disabled" =>
       \/ \E m \in Admins : admin[m].op = "enable" /\ admin'[m].op = "done"
       \/ \E m \in Admins : admin[m].op = "adjust" /\ card'.status = admin[m].target
       \/ \E a \in Attempts : /\ checkout[a].phase = "refundWrite"
                              /\ card'.status = checkout[a].target]_vars

=============================================================================
