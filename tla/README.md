# Matjar: a TLA+ model of orders, stock, money and stores

Matjar is a multi-tenant commerce platform: an Express API over MongoDB, a BullMQ worker process, a merchant
dashboard, a platform console and storefront themes. What must not go wrong is the order: how it is placed, its status,
the units it takes from stock, and the money received and given back for it. Around it the platform bills the store a
commission and a plan, and decides whether the store lives. That is what this project models, checks with TLC and proves
with TLAPS.

Paths are relative to the repository.

## 1. The system

| Component | State | Operations | What is hard |
|---|---|---|---|
| Status graphs (`utils/orderStateMachine.js`) | none | `guardTransition` | a move to the same status is a *no-op that passes* |
| Order lifecycle (`services/order.js`, `services/orderNotifications.js`) | the order document: status, fulfillment status, lines and their counters, `fulfillments[]`, `returns[]` | checkout, status PATCH, cancel, shipments, returns, replacement, line edit, payment actions | three kinds of write with different guarantees (2.1) |
| Draft orders (`services/draftOrder.js`) | an order in status Draft | create, replace, complete, delete | completion against edit, deletion, and status writes from elsewhere |
| Stock (`repositories/product.js`, `controllers/inventory.js`) | `Product.stock`, variant stock, `preorder.unitsReserved` | guarded `$inc`, reservation with roll-back, adjust, absolute PUT | several orders on one counter; who gave back what |
| Payments (`controllers/payment.js`, `services/payment.js`, `schemas/store/payment.js`) | `order.paymentStatus`, `order.refundedAmount`, Payment rows | Stripe webhook, manual verification, refund, COD settlement, payment actions | read, write and row creation are separate calls; duplicate and late events; a server stop in between |
| Checkout (`createOrderService`, `services/discount.js`, carts) | the cart, the order, `usedCount` of a code | place an order, edit the cart, cancel | one transaction, and a card that is not in it; double clicks; lost answers of a commit |
| Gift cards (`services/giftCard.js`) | balance, status, transactions | redeem, refund, adjust, disable, enable | the new status is computed from a copy |
| Idempotency (`middlewares/idempotency.js`) | one record per key | look up, run, store the answer | the record is written after the answer |
| Fee ledger (`services/platform/billing/ledger.js`, `calculator.js`) | append-only fee rows | recognise on delivery, reverse on refund, adjust | in-process events, reads that are stale when the row is written |
| Statements (`.../billing/statements.js`) | one statement per store and month | generate, issue, pay, waive, void, overdue | copies saved field by field without a version; rows stamped after the save |
| Plan changes (`.../billing/planChanges.js`) | scheduled changes, the store's plan | schedule, cancel, claim, apply | claims taken over; failures retried in the same run; stores that are gone |
| Tenant lifecycle (`services/tenantLifecycle.js`, `services/tenantDeletion.js`, `services/storeSetup.js`, worker sweep) | lifecycle state, the older flags, deletion date | suspend, reactivate, close, cancel the deletion, purge, delete for good, finish the setup | compare-and-set, tombstone before wipe, partial wipes |
| Workers and queues (`workers/`, `services/jobs/`) | jobs | retries, repeatable sweeps | at-least-once execution |
| Domains, themes, auth, analytics, notifications, UI | documents edited as a whole | | pure I/O, rendering, credentials |

How they interact. The dashboard, customers and Stripe reach the order through HTTP handlers that run
concurrently in several processes; the database is the only shared state. Checkout, draft completion, line edits and
cancellation change the product's counters and the order together. The payment webhook and manual verification also
advance the order's status, a delivery settles a COD payment, shipments roll up into the order's status, and
delivery and refunds emit events that the billing ledger listens to. A statement is built from the ledger's rows while more are
written, and the run that issues it also applies the plan changes that are due, of stores that may be closed or gone by then. Nothing coordinates the handlers except MongoDB's
document writes, its transactions, unique indexes, and Mongoose's version key.

For each component the properties that make it correct:

- *Lifecycle*: the cached roll-up says what shipments and returns say; the line's counter says what its live shipments
  say; units shipped beyond a line come from one payload and do not add up; returns count once; terminal statuses stay.
- *Stock*: an order holds the units of its line while it stands and none when cancelled; nothing is taken or given back twice.
- *Payments*: refunds stay within the total and agree with the rows; only paid orders are refunded; every capture is recorded
  once; settled statuses stay.
- *Checkout and gift cards*: a cart is ordered once; the card pays for orders and for nothing else; a code is not used beyond its
  limit; a disabled card stays disabled and an emptied one is not left with money it cannot spend.
- *Billing*: an order's commission and reversals net to between nothing and one commission; the month's cap holds; the statement's figures agree
  with each other and with the money received; a paid statement is final; every delivered order is charged.
- *Stores*: the state moves along its table and the older flags follow it; data is wiped only of a store that is gone, and then all of it;
  a plan change is applied by one run, and no change keeps the others from being tried.

`PROJECT.json` lists every component with its status, and under `hazards` the places in the code where these
can go wrong.

## 2. The modules

```
OrderStateMachine          the four graphs, guardTransition
OrderStatus                abstract: how order.status may change, seen from outside
Sums                       a finite sum, as the size of a set; SumsProofs its laws
OrderLifecycle             one order's shipments, returns and status      -> refines OrderStatus
StockAllocation            one product's counters, several orders         -> each order refines OrderStatus
PaymentSettlement          one order's payment status, refunds and rows
Checkout                   carts, orders, one discount code and one gift card
CommissionLedger           the fee rows of one store in one month
BillingStatements          EXTENDS CommissionLedger: the statement built from them
TenantStates               abstract: how a store's state may change
TenantLifecycle            one store: transitions, sweep, deletion, setup  -> refines TenantStates
PlanChanges                EXTENDS TenantLifecycle: plan changes and the runs that apply them
MC*                        symmetry for TLC
*Proofs                    the theorems of each module
```

The first three detailed modules look at the same order from three sides. They are not composed into one: the product of their
state spaces is out of TLC's reach, and what they share is small. `OrderLifecycle` and `StockAllocation` share the order's
status, and both are shown to implement the same abstract `OrderStatus`; `PaymentSettlement` needs of it only whether the
order may move to Processing (`processable`) and lets that change at any time, which is weaker than anything the other
modules allow. `StockAllocation` leaves open what shipments do to the status (`ShipmentRollUp` may write any
status the roll-up can produce), which covers what `OrderLifecycle` computes. `Checkout` is what comes before: there an attempt may
fail for want of stock at any time, and a stale status write may reopen one cancelled order.

The platform's modules are composed in two pairs, each one specification for TLC: statements with the ledger they are built from,
and plan changes with the store that may disappear under them. The lower module has no `Spec` of its own: it gives actions,
which the upper one interleaves with its own. In `CommissionLedger` delivery and refunds are what `OrderLifecycle` and `PaymentSettlement` allow, reduced to
what the ledger sees of them.

### 2.1 How a write is modelled

| In the code | In the model |
|---|---|
| MongoDB transaction (`session`): shipments, cancel, draft operations, checkout, line edit, replacement, `performPaymentAction` | one action. The first writer of a document wins; a transaction with an older snapshot aborts and changes nothing |
| Mongoose `save()` outside a transaction, schema with `optimisticConcurrency`: returns, notes, tags, notification stamps | two actions, read and `Save`. A save by anyone else in between (`bumpVersion`) drops the pending one: it would fail with VersionError, and a retry is a new read |
| `findOneAndUpdate({_id})`: status PATCH, webhook | two actions, read with its guards and a write that checks nothing |
| conditional `findOneAndUpdate`: verification, refund reservation | two actions; the condition is evaluated on the stored document |
| `Payment.create` after the order was written | a third action of the same handler; a stop of the server may come before it |
| checkout, with a call outside its transaction in the middle | several actions: `Write` takes the write conflicts with other open transactions, `Commit` makes the writes visible, `CommitFails` or `Fail` none of them |
| `save()` of a document whose schema switches versioning off (statements) | read into a copy, and a save of the fields that differ from the copy, over whatever is stored |
| compare-and-set on what was read (`transition`, claims, redemption) | two actions; the second changes nothing if the condition no longer holds |

### 2.2 OrderLifecycle

One order with one line of `Quantity` units. `fulfillments` and `returns` are functions from a finite set of ids to a
status and a quantity ("None" before creation). `req` holds, for each request in flight, what it read and decided.
`createFulfillmentService`, `updateFulfillmentStatusService`, `cancelOrderService`, `completeDraftOrderService`,
`deleteDraftOrderService`, `createReturnService` and `updateReturnStatusService` carry the names of the functions they
translate; `ReadForPatch`/`WriteStatus` are the halves of `updateOrderStatusService`, and `ReadForPayment`/`WriteStatus`
those of the payment handlers. A payload asks for up to `MaxAsked` units, each of its
items within what is left (`eachFits`): a line named twice may so be asked for more than that. `RollUp` calls the two recomputations in the code's order: the fulfillment status
is computed from the *old* order status. `SaveElsewhere` stands for every other `save()`, `Abandon` for a lost request.

### 2.3 StockAllocation

One product, its `stock` and `unitsReserved`, and orders with one line of it, on hand or pre-ordered. The history variables
`held` and `reserved` count what each order took minus what it gave back, and `bypassed` marks an order that a writer
which ignores stock has moved in or out of the statuses that are expected to hold units: a replacement, a status write
across that border, a shipment of a draft, or an edit of a pre-order line.

### 2.4 PaymentSettlement

One order with `Total` units of money. `h[p]` is what handler `p` is about to do and what it read. The webhook takes up to
four steps (look up the event, read and guard, write, create the row), verification, refunds and COD settlement three
each; payment actions and the COD settlement by shipment are transactions. `nullRow` is the tenant's single place for a Payment row without
provider ids (the compound sparse unique indexes index a missing id as null). Stripe's side is `sent`, `acked`, and
redelivery until acknowledged. `refused`, `everPaid` and `lostRefunds` are history. Refunds have only the manual branch: the
order schema declares no `paymentIntentId`, so the Stripe branch is never taken. The order total is at least 1; zero-total
orders start Paid and are not in this module.

### 2.5 Checkout

Attempts to order carts, each in a phase: `idle`, `priced` (it has read cart, code, card and the order of its key), `written` (order, code and
cart are written in the open transaction), `redeeming`, `redeemed`, then `Commit`, `CommitFails` or `CommitUnknown` (applied, but the driver
reports an error), and the compensation `RefundRead`, `refundGiftCard`.
The redemption may be applied while its answer is lost (`RedeemUnknown`): the checkout fails and compensates nothing. The compensation may fail on a database error, which the code
swallows (`RefundFails`). In both the card stays debited with no order, and `fate` says why, as it does for a `Stop` and an unknown commit. MongoDB's rule that of two transactions which write one document the
second fails is in `cartConflict`, `codeConflict` (with `stale`: whoever read the code before another commit changed it) and the key's unique index. A key
is the client's or made from the cart and its `updatedAt` (`stamp`). `Stop` may cut an attempt anywhere. The card's other writers are `Admins`:
adjustment and enabling in two steps, redemption by the route, disabling in one. `debit`, `fate` and `reopened` are history.

### 2.6 CommissionLedger and BillingStatements

A delivery is checked, written, its event read by `recognizeDelivered` and then recorded (`CheckDelivery`, `DeliverByStatus`, `RecognizeRead`,
`recognizeDelivered`); `DeliverByShipment` delivers without an event. A refund emits, reads and reverses. `Lose...` ends a listener whose call fails or
whose process stops. `computeCommission` and `computeReversal` are the calculator's functions for a policy of one tier, in whole units, with
`roundMoney` half up. The period's sum is read in one step and the row written in another. Deliveries, refunds and adjustments are finite, disjoint sets of
events (`EventsAssumption`): a row is identified by the event that wrote it. `Fees` and `Bases` add integers, since reversals and credits are negative
(`SumInt`); `Sums` defines the sum without recursion, as the units of the positive members less those of the negative, so that its laws can be proved.

An operator's request, or one store's part of the period run, is a `job` with its phase and its `copy` of the statement. `Saved` says what a save
writes. `GenerateRead`, `GenerateRows`, `GenerateSave` are the three calls of a generation; `Stamp` and `Unstamp` are the updates after the save
of an issue or a void. A payment may exceed the balance by one cent, the rounding of the code's tolerance (`statements.js:197`). `stale` and `received` are history.

### 2.7 TenantLifecycle and PlanChanges

`tenant` is the row, `lifecycle` and the older flags side by side; `LegacyStores` are rows from before the lifecycle block, whose state is derived.
Each operation is a load with its guard and a `transition` that matches on the state it read. The sweep selects, loads and purges: the tombstone first, then the
collections one by one, any of which may fail and is passed over. `HardDelete` ignores the state and removes the row last.
`SetupChecks` and `SetupLoads` are the two reads at the end of the setup; a run that fails takes back the mark that another run completed it (`SetupFails`).

A change of plan goes through its request (`SchedulePlanChange`, `Supersede`, `Create`, and at once `ApplyAtOnce`, `SaveAtOnce`) and then waits for a run.
`claimedAt` holds the run that made the claim, since the code stamps a claim with the start of its run; `older` are the runs that began more than 15
minutes before this one. `at` is in half months: an immediate change takes effect within the month, a scheduled one at its end.

Definitions marked DEVIATION are not the code. Each is a plausible bug, used to show that a property notices it.

## 3. The runs

| Run | Shows | Expected |
|---|---|---|
| `OrderLifecycle` | counters, roll-up, units beyond the line, returns, refinement of `OrderStatus` | pass |
| `StockAllocation` | what orders hold against what their lines say, refinement per order | pass |
| `PaymentSettlement` | refund cap, refund ledger, only paid orders refunded, settled statuses; liveness: a captured payment is recorded or refused | pass |
| `OverShipped` | a payload that names a line twice ships it beyond its quantity | violation |
| `TerminalReopened` | a stale status write takes an order out of Cancelled | violation |
| `StockReturned` | cancelling returns units that were never taken | violation |
| `Checkout` | one order per cart, what the card pays for, uses of the code, the card's status | pass |
| `BillingStatements` | ledger and statement together: fees in range, cap, books, finality | pass |
| `TenantAccount` | store and plan changes together: table, flags, wipes, claims; refinement of `TenantStates` | pass |
| `DeliveryNotCharged` | an order delivered by its shipment is never charged | violation |
| `PlanStarved` | a change that always fails keeps another from being tried | violation |
| `PurgeNeverFinished` | liveness: a partial wipe is never finished | violation |

The violation runs check what a comment of the code says and find that the code does something else; `findings` in
`PROJECT.json` quotes the line and tells the story. The passing runs state what the code does keep:
`TerminalLostOnlyToStaleWrite` and `SettledLostOnlyToStaleWrite` say exactly which writers can break the terminal
statuses, `HoldsWhatItsLineSays` which orders hold what they should. Likewise the billing properties name the stale reads that are the only way out of the
range they state, and `DisabledLostOnlyToStaleCopy` the only writers that revive a card.

The properties:

- `FulfilledCounterExact`: the two places that count fulfilled units agree through partial shipments and cancellations.
- `ExcessInOneShipment`: the code promises that no line is shipped beyond its quantity (`FulfilledWithinOrdered`) and does not keep it, as
  `OverShipped` shows. What it keeps is that an excess comes from one payload: without some one live shipment the others stay within the line,
  whatever was shipped and cancelled before. Counting only what has left as fulfilled (`computeUnfulfilledByLine_ShippedOnly`) breaks it.
- `FulfillmentStatusMatchesShipments`: no stale roll-up is ever saved. This is what the version key is for; without it
  (`bumpVersion_NoCheck`) TLC finds the lost update.
- `ReturnsCountedOnce`: two requests that move one return do not count it twice.
- `StatusFollowsSpec`, `StatusesFollowSpec`: how statuses move over steps.
- `HoldsWhatItsLineSays`, `TakesAtMostItsLine`: conservation of units per order.
- `RefundsWithinTotal`, `RefundLedgerExact`, `RefundsOnlyOfPaidOrders`, `RefundedMeansAll`: money under concurrency and stops.
- `CapturesSettle`: see fairness below.
- `OneOrderPerCart`, `DebitsMatchOrders`, `UsesOfCodeCounted`: two attempts, a stop, a failed or unknown commit, a disabled card.
- `RedeemedMeansEmpty`, `DisabledLostOnlyToStaleCopy`: the status written from a copy.
- `OverReversedOnlyByStaleRead`, `CapExceededOnlyByStaleRead`: an order's net fee, and the month's fees, leave their range only by a row computed from a
  sum that was no longer the sum.
- `BooksBalance`, `PaidIsFinal`: the statement, as long as no save was made from a stale copy. Removing that condition makes both fail: two payments recorded
  at once count one of them.
- `FollowsTable`, `FlagsFollowState`, `WipedOnlyWhenGone`: two operators, the sweep, a deletion and the setup on one row.
- `HeldByOneRun`: the claim is atomic; only a takeover makes two runs hold one change.
- `DeliveredIsCharged`, `EveryDueChangeTried`, `PurgeFinishes`: what the comments and the design document promise, and the code does not keep.

### Bounds

| Bound | Value | Why it is enough |
|---|---|---|
| `Quantity` | 2 | one unit shipped, one left: partial, full and exceeding shipments all occur |
| `MaxAsked` | 2 | a payload may ask twice for the one unit that is left |
| `FulfillmentIds`, `ReturnIds`, `Requests` | 2, 1, 2 | two shipments share a line; two requests race on one return, or on the order with a transaction between their halves |
| `Orders`, `MaxQuantity`, `InitialStock`, `MaxStock`, `MaxUnits` | 2, 2, 2, 2, 1 | two orders compete for the last units, on hand and pre-ordered |
| `MaxOverReturn` | 1 | lets an order give back more than it took, once, and keeps `held` finite |
| `Handlers` | 2 | any two handlers interleave, of the same kind or of different kinds |
| events | one per kind, `Total` = 2 | a partial and a final refund; success, failure and authorization in any order, each delivered any number of times |
| `MaxVerified`, `MaxCrashes` | 1, 1 | a stop at every point of every handler |
| `Attempts`, `Carts`, `ClientKeys`, `Admins` | 2, 2, 1, 1 | one cart twice or two carts, with one key or two; one other writer of the card |
| `Price`, `InitialBalance`, `UsageLimit`, `MaxEdits` | 2, 2, 1, 1 | both attempts want the whole card; after an adjustment it also covers one order and half of another, or half of one; two attempts want the last use of the code |
| ledger `Orders`, `Deliveries`, `Refunds`, `Adjustments` | 2, 2, 2, 1 | two deliveries of one order or of two; two partial refunds of one order |
| `Total`, `Percent`, `PeriodCap`, `BaseFee` | 2, 50, 1, 1 | half a unit rounds up; the first commission reaches the cap |
| `Operators`, `MaxRequests` | 2, 4 | two overlapping operations on the statement, and two events in the ledger |
| `Collections`, `Requests`, `MaxFailures` | 1, 2, 1 | two operations on the store, one failure anywhere |
| `Changes`, `Runs`, `MaxClaims`, `MaxMonths`, `MaxStarts` | 2, 2, 2, 1, 3 | one change replaces another, or two stores' changes; one run takes over from another; 10000 claims of the code are 2 |

The passing runs have 0.6 to 1.7 million distinct states and take one to three minutes. What bounds the platform's is the number of operations started in a
behaviour, not how those interleave.

Requests, shipments, returns, orders and handlers are interchangeable, so the safety runs use symmetry; `PaymentSettlement`
checks a liveness property as well and uses none. `CHECK_DEADLOCK FALSE` appears where the order can come to an end: a deleted draft
with no request in flight has no further step. In `Checkout`, `BillingStatements` and `TenantAccount` the bounds end every behaviour: each attempt, event and run is made once. The theorems below hold without these bounds; `MaxStock`,
`MaxOverReturn`, `MaxVerified` and `MaxCrashes` remain in the guards as parameters of any size.

### Fairness

`PaymentSettlement` is checked under `FairSpec`: weak fairness of `Continue(p)`, the steps of a handler in flight: a handler whose server does not stop reaches its end, as the
event loop and the database driver make it. `Crash` may interrupt it, at most `MaxCrashes` times. It assumes strong fairness of
delivery for each success event not yet answered 200: Stripe retries until it is. (Stripe gives up after some days; the
assumption is that the service is back before that.) Strong fairness is needed because a delivery can only start while a
handler is free. Nothing is assumed of staff, refunds or other events.

For `PurgeNeverFinished`, `FairSpec` assumes weak fairness of the sweep, which the repeatable job keeps starting, and of the steps of requests in
progress, which may still stop or fail at most `MaxFailures` times. Nothing else is needed: the counterexample is not one where the system pauses but one where no action that is
left, fair or not, wipes the collection.

Under the fairness of `PaymentSettlement`, an event is recorded in a Payment row, or the guards refused it and it was answered 200 and dropped. That second case is real:
a capture that arrives after the order was cancelled leaves no trace in the store's records.

## 4. The proofs

| Module | Theorems | Obligations |
|---|---|---|
| `SumsProofs` | laws of the finite sum, of naturals and of integers: empty set, adding, removing and changing one member, sign, bound by the number of positive members | lemmas for the others |
| `OrderLifecycleProofs` | `TypeCorrect`, `CounterIsExact`, `ExcessNeverAccumulates`, `TerminalOnlyLostToStaleWrites`, `OrderImplementsStatusSpec`, `RollUpIsCurrent`, `ReturnsCounted` | all proved |
| `StockAllocationProofs` | `TypeCorrect`, `HoldsItsLine`, `NeverTakesMoreThanItsLine`, `StatusesImplementSpec` | all proved |
| `PaymentSettlementProofs` | `TypeCorrect`, `NeverOverRefunded`, `RefundLedgerIsExact`, `OnlyPaidOrdersRefunded`, `RefundedIsExhausted`, `SettledOnlyLostToStaleWrites` | all proved |
| `PlanChangesProofs` | `TypeCorrect`, `FlagsAgreeWithState`, `OnlyGoneStoresWiped`, `StoreImplementsTable`, `ClaimsExclusive` | all proved |
| `CheckoutProofs` | `TypeCorrect`, `CartOrderedOnce`, `CardPaysForOrders`, `RedeemedCardIsEmpty`, `DisabledStays`, `CodeUsesCovered` | all proved |
| `CommissionLedgerProofs` | the calculator's bounds, what each kind of row does to the sums, and what every step of the ledger keeps (`LedgerSteps`) | lemmas for the next |
| `BillingStatementsProofs` | `TypeCorrect`, `OverReversalNeedsStaleRead`, `CapNeedsStaleRead`, `BooksAgree`, `PaidStays` | all proved |

They hold for every value of the constants that satisfies the named assumptions (finite sets of ids, handlers, events and runs,
natural numbers, a positive quantity and total, a percentage), on every behaviour of `Spec`.

*Counters* (`CounterIsExact`). The counter equals the sum over live shipments; each action changes at most one
shipment, so the step follows from the laws of the sum. Cancelling a shipment needs that its units are at most the counter:
a member of a sum of naturals is at most the sum. `ExcessNeverAccumulates` needs no more than that: a payload is accepted only when
something is left, so before it the live shipments are together at most the line, and the new shipment is the one whose removal leaves that; cancelling a shipment
or moving one only makes the sum smaller or leaves it.

*Saves* (`RollUpIsCurrent`, `ReturnsCounted`). What the order says of its shipments and returns stays right because what a pending `save()` wants to
write is right for the order as it is *now*: `SavesInv` says of each request about to save that its roll-up and its two totals are those of the current
shipments, and of the returns as its own save leaves them. Whatever would falsify that bumps the version, which drops the request; the writes that bump nothing,
the status PATCH and the payment handlers, touch nothing a roll-up is computed from. In short, the version key covers exactly what the roll-up reads.

*Stock*. Neither property is inductive. Completing a draft takes its line's units without looking at what the order holds, so the
proof needs that an order that does not exist yet or is still a draft holds and reserves nothing (`HoldsNothingYet`); this lasts because no
writer moves an order to Draft. A line edit takes the difference to the old on-hand line, which counts 0 for a pre-order, so the bound on what an order
holds must be that line and not its quantity (`HoldsNoMore`), whatever wrote its status. `HoldingInv` is the conjunction of these two with
`HoldsWhatItsLineSays`, for each order; an action touches one order, and the others are `Untouched`.

*Money*. `RefundsWithinTotal` is inductive with types, since the reservation tests the stored amount. `RefundedMeansAll` is not: a refund
in flight decided on the mark "Refunded" from an amount it read. `RefundInv` adds that amounts only grow: a pending refund marked Refunded
has an amount that reaches the total from what is stored now or from less, so the guard of the reservation
and the mark together force equality. `PaidInv` adds that a refund in flight read a paid order.
`SettledLostOnlyToStaleWrite` needs that no handler in flight read a settled status (`ReadsOpen`), as the graph has no edge out of one.

*Ledger*. `RefundLedgerExact` relates two counters and the sum over refunds in flight; one lemma per kind of step says what it does to
that sum.

*Refinement*. `OrderLifecycle` maps `decided` to the status writes in flight. Each step maps to the step of the same
meaning or to a stutter; a write by one of two requests with the same decision leaves it in the set, which is why `OrderStatus!Write` may keep it.

*Stores*. `FollowsTable` needs to know what a request in flight has read: `RequestInv` says that a request which will write a state has loaded a state from which the table
leads there. The compare-and-set fails unless the stored state is still that one, so the write is a move of the table, and the flags are written with it
(`FlagsAgreeWithState`). `OnlyGoneStoresWiped` needs that a request in its wiping phase works on a store that is archived or being erased, and that nothing leaves "archived".
`StoreInv` is the conjunction of all this; the steps of plan changes leave it alone.

*Claims* (`ClaimsExclusive`). That two runs share a claim only after a takeover is not inductive: a claimed change must not become scheduled again
behind the back of the run that holds it. `ClaimInv` adds that a change which is held and was not taken over is not scheduled, and that a change with a row
is past its creation, so that no request still in progress can write "scheduled" over a claim. Only `Claim` and `ReleaseFailed` need an argument of their own;
every other step is `Steady`: it makes no change scheduled that was past its creation and not scheduled.

*Checkout*. `TypeOK` alone is not inductive: that the uses of the code stay within the limit needs that an open transaction which uses the code found a use
left and is the only one that does (`CodeInv`, from the rule that the second writer of a document fails). `OneOrderPerCart` needs the same of the cart: `OrderInv` says that an attempt which has
written or committed its order sees the cart as it was priced, and that two of them differ in cart and in key. `DebitsMatchOrders` is strengthened by what an attempt has taken from the card in each of
its phases (`MoneyInv`): nothing before the redemption, the whole amount from there to the end of the compensation; a stop, a lost answer or a failed compensation is recorded in `fate` when it cuts.
`RedeemedMeansEmpty` needs that no pending adjustment or refund wants to write "redeemed" (`TargetInv`): only the conditional redemption computes that status, from the stored balance.

*Fees*. Nothing says that the rows of an order net to at most one commission and at least nothing: that is what can fail. What is invariant (`LedgerInv`) is what the reads rest on: an order has one commission at most,
written before any reversal of it; a reversal that has read holds that commission's fee and basis, which never change, and a set of rows that are all still there; commissions are not negative and
reversals not positive. A reversal is at most the fee less what it read as reversed, so if it read all of them the net fee stays at or above zero; a commission fits under the cap with the sum it
read. Both theorems follow from what one new row does to the sums (`CommissionWritten`, `ReversalWritten`,
`AdjustmentWritten`); every other step leaves the rows alone, save for their stamps (`QuietStep`). The type of `feeSoFar` needs an argument of its own: a sum in which only deliveries have a positive member, each at most
the cap (`SumIntBounded`). The ledger has no `Spec` of its own, so its lemmas are about steps (`LedgerStep`), and `BillingStatementsProofs` shows that its `Next` takes no others.

*Statements*. A save from a stale copy may write any mixture of two statements, so `JobInv` says nothing of how a copy relates to the statement, only what the operation checked when it read: a payment's copy is
unsettled and its balance covers the amount but for one cent, a generation's is not frozen, a void's may be voided. As long as no stale save was made, a copy that is saved *is* the statement, and the books
follow from what was checked. `BooksBalance` is not inductive: a first generation sets the payments to zero, which is right only if nothing was received for a statement that does not exist (`Balanced`).
`PaidIsFinal` needs that no copy that may be saved is that of a paid statement.

Not proved, only model-checked: `CapturesSettle`, since liveness under fairness is out of the prover's reach. Every other property of a passing run has a theorem. The violation runs
state what does not hold. The bounds on the number of claims, months, starts and failures are parameters of the proved module.

## 5. What the models leave out

- Orders with several lines, and line edits of an order in `OrderLifecycle`. An edit requires status Pending and
  fulfillment status Unfulfilled; after a stale write a shipment awaiting dispatch may exist then, and an edited line could become smaller
  than it.
- Prices, taxes, discounts, currencies; floating-point rounding of refunds.
- Variants, which have the same guarded counter as products.
- Permissions, validation of inputs beyond the statuses a PATCH may name, wording of history entries and messages.
- Payment intents and listing; refunds through Stripe (unreachable, see 2.4).
- Refund requests of a negative amount: the handler does not look at the sign (`controllers/payment.js:603`), the models refund at least one unit.
- Two verifications in the same millisecond, whose ids contain the time and would collide on the unique index.
- Quotation, shipping and tax in checkout; a code limited per customer; several cards on one order. Several stores, except the two of `PlanChanges`.
- Fee holidays, pricing overrides, tiers and exchange rates; due dates and minimum charges of statements; eligibility and limits of plans, trials.
- What the setup of a store seeds; files, domains and user accounts in a deletion.
- Request idempotency (`middlewares/idempotency.js`): a store of answers in front of the order and refund routes. Two concurrent requests of one key both run, so it excludes nothing the
  models allow; planned.
- The rest of the components of section 1, for the reason `PROJECT.json` gives.

Seen while modelling, with no run of its own:

- The roll-up assigns a status without the graph (`services/order.js:1593`, `1810`): the last shipment cancelled takes a Delivered order back to Pending, and a shipment
  takes a draft out of Draft. `OrderStatus` therefore allows it any move out of a status that is not terminal.
- A return is accepted for a shipment that is still Pending (`services/order.js:1793`, `2548-2551`).
- Two verifications in flight both create a Payment row: Paid to Paid is a no-op that passes (`controllers/payment.js:480`, `500`).
- The compound sparse indexes leave a store one Payment row without provider ids (`schemas/store/payment.js:46-47`): later COD settlements have no row
  (`services/order.js:1294`), or cannot be delivered by shipment at all (`services/order.js:1968`).
- `expireOverdueCards` has no caller. Cancelling an order does not give its gift card back: `refundGiftCard` is called only by the compensation.
- The branch of checkout that answers with an existing order is reached only by a client's key reused with another cart, since an order deletes its own.
- Reversals round: many small refunds may each reverse nothing. A refund handled before the commission row exists reverses nothing either.
- Ledger rows written between the generation and the issue of a statement are stamped with it though no line bills them. A waived statement can be voided and generated again; a
  partially paid one becomes overdue and may then be regenerated by force.
- A store whose deletion is cancelled and scheduled again between the sweep's load and its write is purged without a new grace period: the compare-and-set looks at the state only.
- The completion of a setup checks the state and reads it again (`services/storeSetup.js:258-272`): a store suspended or closed in between is activated.
- After a permanent deletion that failed half way, reactivating the store sets it active over what is left.
- Two changes of plan requested at once may both stay scheduled. A change that is applied but whose row could not be saved is missing from the plan's history.
- `claimedAt` is the start of the run (`planChanges.js:164`), so a run that lasts longer than 15 minutes makes claims that are taken over at once.

## 6. Plan

In order:

1. Done: `OrderStateMachine`, `OrderStatus`, `OrderLifecycle`, `StockAllocation`, `PaymentSettlement`, their runs and first theorems.
2. Done: `Checkout`, `CommissionLedger` and `BillingStatements`, `TenantStates`, `TenantLifecycle` and `PlanChanges`, and their runs.
3. Done: every safety and action property of the passing runs, for every size.
4. `Idempotency`: the record store of the middleware, with the handler abstract.
5. Domains: the switch of the primary domain.

Running the checks: `tlc -config OrderLifecycle.cfg MCOrderLifecycle`, `tlapm OrderLifecycleProofs.tla`, and so on for the others.
