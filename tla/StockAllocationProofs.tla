----------------------- MODULE StockAllocationProofs ------------------------
(***************************************************************************)
(* What StockAllocation guarantees for every number of orders, units and   *)
(* status writes in flight.                                                *)
(***************************************************************************)
EXTENDS StockAllocation, TLAPS

(* ---------------------------- Type correctness --------------------------- *)

LEMMA CounterTypes ==
  ASSUME TypeOK, NEW o \in Orders, NEW q \in Nat
  PROVE  /\ decrementStockRepo(o, q) => stock' \in Nat /\ held' \in [Orders -> Int]
         /\ incrementStockRepo(o, q) => stock' \in Nat /\ held' \in [Orders -> Int]
         /\ reservePreorderRepo(o, q) =>
              unitsReserved' \in Int /\ unitsReserved' <= MaxUnits /\ reserved' \in [Orders -> Int]
         /\ releasePreorderRepo(o, q) =>
              unitsReserved' \in Int /\ unitsReserved' <= MaxUnits /\ reserved' \in [Orders -> Int]
BY BoundsAssumption
DEF TypeOK, decrementStockRepo, incrementStockRepo, reservePreorderRepo, releasePreorderRepo

\* Stock never goes below zero and pre-orders never above their cap.
THEOREM TypeCorrect == Spec => []TypeOK
<1>1. Init => TypeOK
  BY BoundsAssumption DEF Init, TypeOK, Statuses
<1>2. TypeOK /\ [Next]_vars => TypeOK'
  <2> SUFFICES ASSUME TypeOK, Next PROVE TypeOK'
    BY DEF vars, productVars, orderVars, history, TypeOK
  <2> USE BoundsAssumption
  <2>1. ASSUME NEW o \in Orders, NEW q \in 1..MaxQuantity, NEW preorder \in BOOLEAN,
               NEW st \in {"Pending", "Processing"}, createOrderService(o, q, preorder, st)
        PROVE  TypeOK'
    BY <2>1, CounterTypes DEF createOrderService, TypeOK, Statuses, OrderStatuses
  <2>2. ASSUME NEW o \in Orders, NEW q \in 1..MaxQuantity,
               createDraftOrderService(o, q) \/ updateDraftOrderService(o, q)
        PROVE  TypeOK'
    BY <2>2 DEF createDraftOrderService, updateDraftOrderService, TypeOK, Statuses,
                OrderStatuses, productVars, history
  <2>3. ASSUME NEW o \in Orders, completeDraftOrderService(o) PROVE TypeOK'
    <3>1. quantity[o] \in Nat
      BY DEF TypeOK
    <3> QED BY <2>3, <3>1, CounterTypes DEF completeDraftOrderService, TypeOK, Statuses, OrderStatuses
  <2>4. ASSUME NEW o \in Orders, deleteDraftOrderService(o) PROVE TypeOK'
    BY <2>4 DEF deleteDraftOrderService, TypeOK, Statuses, productVars, history
  <2>5. ASSUME NEW o \in Orders, cancelOrderService(o) PROVE TypeOK'
    <3>1. quantity[o] \in Nat
      BY DEF TypeOK
    <3> QED BY <2>5, <3>1, CounterTypes DEF cancelOrderService, TypeOK, Statuses, OrderStatuses
  <2>6. ASSUME NEW o \in Orders, NEW q \in 0..MaxQuantity, editOrderLinesService(o, q)
        PROVE  TypeOK'
    <3>1. onHand(o) \in Nat
      BY DEF TypeOK, onHand
    <3>2. q >= onHand(o) => q - onHand(o) \in Nat
      BY <3>1
    <3>3. ~(q >= onHand(o)) => onHand(o) - q \in Nat
      BY <3>1
    <3>4. stock' \in Nat /\ held' \in [Orders -> Int]
      BY <2>6, <3>2, <3>3, CounterTypes DEF editOrderLinesService
    <3>5. quantity' \in [Orders -> Nat] /\ isPreorder' \in [Orders -> BOOLEAN]
      BY <2>6 DEF editOrderLinesService, TypeOK
    <3>6. bypassed' \in [Orders -> BOOLEAN]
      <4>1. (bypassed[o] \/ isPreorder[o]) \in BOOLEAN /\ bypassed \in [Orders -> BOOLEAN]
        BY DEF TypeOK
      <4>2. bypassed' = [bypassed EXCEPT ![o] = bypassed[o] \/ isPreorder[o]]
        BY <2>6 DEF editOrderLinesService
      <4> HIDE BoundsAssumption
      <4> QED BY <4>1, <4>2
    <3> QED BY <2>6, <3>4, <3>5, <3>6 DEF editOrderLinesService, TypeOK
  <2>7. ASSUME NEW o \in Orders, NEW original \in Orders, NEW q \in 1..MaxQuantity,
               createReplacementOrderService(o, original, q)
        PROVE  TypeOK'
    BY <2>7 DEF createReplacementOrderService, TypeOK, Statuses, OrderStatuses, productVars
  <2>8. ASSUME NEW o \in Orders, NEW to \in {"Pending", "Processing", "Shipped", "Delivered"},
               ShipmentRollUp(o, to)
        PROVE  TypeOK'
    BY <2>8 DEF ShipmentRollUp, TypeOK, Statuses, OrderStatuses, productVars
  <2>9. ASSUME NEW r \in Requests, NEW o \in Orders, NEW to \in PatchTargets,
               ReadForStatus(r, o, to)
        PROVE  TypeOK'
    BY <2>9 DEF ReadForStatus, TypeOK, Request, productVars, orderVars, history
  <2>10. ASSUME NEW r \in Requests, WriteStatus(r) PROVE TypeOK'
    <3>1. req[r].order \in Orders /\ req[r].target \in Statuses
      BY <2>10 DEF WriteStatus, TypeOK, Request, PatchTargets, Statuses, OrderStatuses
    <3>2. status' \in [Orders -> Statuses] /\ bypassed' \in [Orders -> BOOLEAN]
      BY <2>10, <3>1 DEF WriteStatus, TypeOK
    <3> QED BY <2>10, <3>2 DEF WriteStatus, TypeOK, productVars
  <2>11. ASSUME NEW r \in Requests, Abandon(r) PROVE TypeOK'
    BY <2>11 DEF Abandon, TypeOK, productVars, orderVars, history
  <2>12. ASSUME NEW n \in Nat, stock' = n,
                UNCHANGED <<unitsReserved, orderVars, req, history>>
         PROVE  TypeOK'
    BY <2>12 DEF TypeOK, orderVars, history
  <2> QED BY <2>1, <2>2, <2>3, <2>4, <2>5, <2>6, <2>7, <2>8, <2>9, <2>10, <2>11, <2>12
          DEF Next, adjustStockController, updateInventoryController
<1> QED BY <1>1, <1>2, PTL DEF Spec

(* ------------------------- What the orders hold -------------------------- *)

\* The inductive invariant, order by order.  Neither stated property is
\* inductive: completing a draft takes all of its line and leaves no more than
\* the line only because a draft holds nothing before, and an edit only because
\* an order holds no more than its on-hand line, which is 0 for a pre-order.
HoldsNothingYet(o) ==
  status[o] \in {"None", "Draft"} => held[o] = 0 /\ reserved[o] = 0 /\ ~isPreorder[o]

HoldsNoMore(o) == held[o] <= onHand(o)

HoldsExactly(o) ==
  ~bypassed[o] =>
    /\ held[o] = IF status[o] \in Holding /\ ~isPreorder[o] THEN quantity[o] ELSE 0
    /\ reserved[o] = IF status[o] \in Holding /\ isPreorder[o] THEN quantity[o] ELSE 0

OrderInv(o) == HoldsNothingYet(o) /\ HoldsNoMore(o) /\ HoldsExactly(o)

HoldingInv == \A o \in Orders : OrderInv(o)

\* The state of one order.
Untouched(o) ==
  /\ status'[o] = status[o] /\ quantity'[o] = quantity[o] /\ isPreorder'[o] = isPreorder[o]
  /\ held'[o] = held[o] /\ reserved'[o] = reserved[o] /\ bypassed'[o] = bypassed[o]

LEMMA UntouchedInv ==
  ASSUME NEW o \in Orders, OrderInv(o), Untouched(o) PROVE OrderInv(o)'
BY DEF OrderInv, HoldsNothingYet, HoldsNoMore, HoldsExactly, Untouched, onHand

LEMMA HoldingStep == TypeOK /\ HoldingInv /\ [Next]_vars => HoldingInv'
<1> SUFFICES ASSUME TypeOK, HoldingInv, [Next]_vars, NEW x \in Orders PROVE OrderInv(x)'
  BY DEF HoldingInv
<1> OrderInv(x)
  BY DEF HoldingInv
<1> USE DEF OrderStatuses
<1>1. ASSUME NEW o \in Orders, NEW q \in 1..MaxQuantity, NEW preorder \in BOOLEAN,
             NEW st \in {"Pending", "Processing"}, createOrderService(o, q, preorder, st)
      PROVE  OrderInv(x)'
  <2>1. CASE x # o
    <3>1. Untouched(x)
      BY <1>1, <2>1 DEF createOrderService, reservePreorderRepo, decrementStockRepo, TypeOK, Untouched
    <3> QED BY <3>1, UntouchedInv
  <2>2. CASE x = o
    BY <1>1, <2>2, BoundsAssumption
    DEF createOrderService, reservePreorderRepo, decrementStockRepo, TypeOK, OrderInv,
        HoldsNothingYet, HoldsNoMore, HoldsExactly, onHand, Holding
  <2> QED BY <2>1, <2>2
<1>2. ASSUME NEW o \in Orders, NEW q \in 1..MaxQuantity,
             createDraftOrderService(o, q) \/ updateDraftOrderService(o, q)
      PROVE  OrderInv(x)'
  BY <1>2, BoundsAssumption
  DEF createDraftOrderService, updateDraftOrderService, TypeOK, OrderInv, history,
      HoldsNothingYet, HoldsNoMore, HoldsExactly, onHand, Holding
<1>3. ASSUME NEW o \in Orders, completeDraftOrderService(o) PROVE OrderInv(x)'
  BY <1>3
  DEF completeDraftOrderService, completable, decrementStockRepo, TypeOK, OrderInv,
      HoldsNothingYet, HoldsNoMore, HoldsExactly, onHand, Holding
<1>4. ASSUME NEW o \in Orders, deleteDraftOrderService(o) PROVE OrderInv(x)'
  BY <1>4
  DEF deleteDraftOrderService, TypeOK, OrderInv, history, HoldsNothingYet, HoldsNoMore,
      HoldsExactly, onHand, Holding
<1>5. ASSUME NEW o \in Orders, cancelOrderService(o) PROVE OrderInv(x)'
  <2>1. CASE x # o
    <3>1. Untouched(x)
      BY <1>5, <2>1 DEF cancelOrderService, releasePreorderRepo, incrementStockRepo, TypeOK, Untouched
    <3> QED BY <3>1, UntouchedInv
  <2>2. CASE x = o
    BY <1>5, <2>2
    DEF cancelOrderService, cancellable, releasePreorderRepo, incrementStockRepo, TypeOK,
        OrderInv, HoldsNothingYet, HoldsNoMore, HoldsExactly, onHand, Holding
  <2> QED BY <2>1, <2>2
<1>6. ASSUME NEW o \in Orders, NEW q \in 0..MaxQuantity, editOrderLinesService(o, q)
      PROVE  OrderInv(x)'
  <2>1. CASE x # o
    <3>1. Untouched(x)
      BY <1>6, <2>1 DEF editOrderLinesService, decrementStockRepo, incrementStockRepo, TypeOK, Untouched
    <3> QED BY <3>1, UntouchedInv
  <2>2. CASE x = o
    <3>1. onHand(o) \in Nat
      BY DEF TypeOK, onHand
    <3>2. held'[o] = held[o] + q - onHand(o)
      BY <1>6, <3>1 DEF editOrderLinesService, decrementStockRepo, incrementStockRepo, TypeOK
    <3>3. /\ status'[o] = "Pending" /\ status[o] = "Pending"
          /\ quantity'[o] = q /\ ~isPreorder'[o] /\ reserved'[o] = reserved[o]
      BY <1>6 DEF editOrderLinesService, TypeOK
    <3>4. ~bypassed'[o] => ~bypassed[o] /\ ~isPreorder[o]
      BY <1>6 DEF editOrderLinesService, TypeOK
    <3> QED BY <2>2, <3>1, <3>2, <3>3, <3>4
            DEF TypeOK, OrderInv, HoldsNothingYet, HoldsNoMore, HoldsExactly, onHand, Holding
  <2> QED BY <2>1, <2>2
<1>7. ASSUME NEW o \in Orders, NEW original \in Orders, NEW q \in 1..MaxQuantity,
             createReplacementOrderService(o, original, q)
      PROVE  OrderInv(x)'
  BY <1>7, BoundsAssumption
  DEF createReplacementOrderService, TypeOK, OrderInv, HoldsNothingYet, HoldsNoMore,
      HoldsExactly, onHand, Holding
<1>8. ASSUME NEW o \in Orders, NEW to \in {"Pending", "Processing", "Shipped", "Delivered"},
             ShipmentRollUp(o, to)
      PROVE  OrderInv(x)'
  <2>1. /\ status'[x] \in Statuses
        /\ status'[x] # status[x] =>
              status'[x] \notin {"None", "Draft"} /\ (~bypassed'[x] => ({status[x], status'[x]} \subseteq Holding))
        /\ ~bypassed'[x] => ~bypassed[x]
    BY <1>8 DEF ShipmentRollUp, TypeOK, Statuses, Holding
  <2> QED BY <1>8, <2>1
          DEF ShipmentRollUp, TypeOK, OrderInv, HoldsNothingYet, HoldsNoMore, HoldsExactly, onHand
<1>9. ASSUME NEW r \in Requests, WriteStatus(r) PROVE OrderInv(x)'
  <2>1. req[r].order \in Orders /\ req[r].target \in PatchTargets
    BY <1>9 DEF WriteStatus, TypeOK, Request
  <2>2. /\ status'[x] # status[x] => status'[x] \in PatchTargets
        /\ ~bypassed'[x] =>
              ~bypassed[x] /\ ((status[x] \in Holding) <=> (status'[x] \in Holding))
    BY <1>9, <2>1 DEF WriteStatus, TypeOK
  <2> QED BY <1>9, <2>2
          DEF WriteStatus, TypeOK, OrderInv, HoldsNothingYet, HoldsNoMore, HoldsExactly, onHand,
              PatchTargets
<1>10. ASSUME UNCHANGED <<orderVars, history>> PROVE OrderInv(x)'
  BY <1>10, UntouchedInv DEF orderVars, history, Untouched
<1> QED BY <1>1, <1>2, <1>3, <1>4, <1>5, <1>6, <1>7, <1>8, <1>9, <1>10
        DEF Next, vars, ReadForStatus, Abandon, adjustStockController, updateInventoryController

LEMMA HoldingInvariant == Spec => []HoldingInv
<1>1. Init => HoldingInv
  BY DEF Init, HoldingInv, OrderInv, HoldsNothingYet, HoldsNoMore, HoldsExactly, onHand, Holding,
         OrderStatuses
<1> QED BY <1>1, TypeCorrect, HoldingStep, PTL DEF Spec

\* Checkout, draft completion, edits and cancellation keep the units an order
\* holds equal to those of its line, for any number of orders.
THEOREM HoldsItsLine == Spec => []HoldsWhatItsLineSays
<1>1. HoldingInv => HoldsWhatItsLineSays
  BY DEF HoldingInv, OrderInv, HoldsExactly, HoldsWhatItsLineSays
<1> QED BY <1>1, HoldingInvariant, PTL

\* Nothing, not even the writers that ignore stock, makes an order take more
\* than its line.
THEOREM NeverTakesMoreThanItsLine == Spec => []TakesAtMostItsLine
<1>1. TypeOK /\ HoldingInv => TakesAtMostItsLine
  BY DEF TypeOK, HoldingInv, OrderInv, HoldsNoMore, onHand, TakesAtMostItsLine
<1> QED BY <1>1, TypeCorrect, HoldingInvariant, PTL

(* ------------- Every order implements what OrderStatus promises ---------- *)

LEMMA WritesKept ==
  ASSUME UNCHANGED req, NEW x \in Orders PROVE pendingWrites(x)' = pendingWrites(x)
BY DEF pendingWrites

LEMMA WritesDropped ==
  ASSUME TypeOK, NEW r \in Requests, req' = [req EXCEPT ![r] = Idle], NEW x \in Orders
  PROVE  pendingWrites(x)' = {<<req[s].read, req[s].target>> :
           s \in {t \in Requests : t # r /\ req[t] # Idle /\ req[t].order = x}}
<1>1. \A s \in Requests : req'[s] = IF s = r THEN Idle ELSE req[s]
  BY DEF TypeOK
<1>2. {s \in Requests : req'[s] # Idle /\ req'[s].order = x}
        = {t \in Requests : t # r /\ req[t] # Idle /\ req[t].order = x}
  BY <1>1
<1> QED BY <1>1, <1>2 DEF pendingWrites

LEMMA StatusStep ==
  ASSUME TypeOK, [Next]_vars, NEW x \in Orders
  PROVE  Order(x)!Next \/ UNCHANGED <<status[x], pendingWrites(x)>>
<1> USE DEF Order!Next
<1>1. CASE UNCHANGED vars
  BY <1>1, WritesKept DEF vars, orderVars
<1>2. ASSUME NEW o \in Orders, NEW s \in Statuses, UNCHANGED req,
             status' = [status EXCEPT ![o] = s],
             \/ status[o] = "None" /\ s \in {"None", "Pending", "Processing", "Draft"}
             \/ status[o] = "Draft" /\ s \in {"Pending", "Gone"}
             \/ status[o] \in {"Pending", "Processing"} /\ s = "Cancelled"
             \/ /\ status[o] \notin {"None", "Gone", "Cancelled", "Refunded"}
                /\ s \in {"Pending", "Processing", "Shipped", "Delivered"}
      PROVE  Order(x)!Next \/ UNCHANGED <<status[x], pendingWrites(x)>>
  BY <1>2, WritesKept DEF TypeOK, Order!Create, Order!Transaction, Order!RollUp, Order!Terminal
<1>4. ASSUME NEW r \in Requests, NEW o \in Orders, NEW to \in PatchTargets, ReadForStatus(r, o, to)
      PROVE  Order(x)!Next \/ UNCHANGED <<status[x], pendingWrites(x)>>
  <2>1. /\ status' = status
        /\ \A s \in Requests : s # r => req'[s] = req[s]
        /\ req'[r] = [order |-> o, read |-> status[o], target |-> to]
        /\ req[r] = Idle
    BY <1>4 DEF ReadForStatus, TypeOK, orderVars
  <2>2. req'[r] # Idle /\ req'[r].order = o /\ req'[r].read = status[o] /\ req'[r].target = to
    <3>1. [order |-> o, read |-> status[o], target |-> to] # Idle
      BY DEF Idle
    <3> QED BY <2>1, <3>1
  <2>3. CASE x # o
    <3>1. {s \in Requests : req'[s] # Idle /\ req'[s].order = x}
            = {s \in Requests : req[s] # Idle /\ req[s].order = x}
      BY <2>1, <2>2, <2>3
    <3>2. \A s \in Requests : req'[s] # Idle /\ req'[s].order = x => req'[s] = req[s]
      BY <2>1, <2>2, <2>3
    <3>3. pendingWrites(x)' = pendingWrites(x)
      BY <3>1, <3>2 DEF pendingWrites
    <3> QED BY <2>1, <3>3
  <2>4. CASE x = o
    <3>1. {s \in Requests : req'[s] # Idle /\ req'[s].order = x}
            = {s \in Requests : req[s] # Idle /\ req[s].order = x} \cup {r}
      BY <2>1, <2>2, <2>4
    <3>2. pendingWrites(x)' = pendingWrites(x) \cup {<<status[x], to>>}
      BY <2>1, <2>2, <2>4, <3>1 DEF pendingWrites
    <3>3. to \in OrderStatuses /\ to \notin {"Draft", "Confirmed", "Archived"}
      BY DEF PatchTargets, OrderStatuses
    <3>4. guardTransition(ORDER_TRANSITIONS, status[x], to)
      BY <1>4, <2>4 DEF ReadForStatus
    <3>5. to \in Order(x)!OrderStatuses
      BY <3>3 DEF OrderStatuses, Order!OrderStatuses
    <3>6. Order(x)!guardTransition(Order(x)!ORDER_TRANSITIONS, status[x], to)
      BY <3>4 DEF guardTransition, ORDER_TRANSITIONS, Order!guardTransition, Order!ORDER_TRANSITIONS
    <3>7. Order(x)!Decide
      BY <2>1, <3>2, <3>3, <3>5, <3>6 DEF Order!Decide
    <3> QED BY <3>7
  <2> QED BY <2>3, <2>4
<1>5. ASSUME NEW r \in Requests, WriteStatus(r)
      PROVE  Order(x)!Next \/ UNCHANGED <<status[x], pendingWrites(x)>>
  <2> DEFINE w == <<req[r].read, req[r].target>>
  <2>1. req[r].order \in Orders /\ req[r] # Idle
    BY <1>5 DEF WriteStatus, TypeOK, Request
  <2>2. req' = [req EXCEPT ![r] = Idle]
    BY <1>5 DEF WriteStatus
  <2>3. CASE x # req[r].order
    <3>1. pendingWrites(x)' = pendingWrites(x)
      <4>1. {t \in Requests : t # r /\ req[t] # Idle /\ req[t].order = x}
              = {t \in Requests : req[t] # Idle /\ req[t].order = x}
        BY <2>3
      <4> QED BY <2>2, <4>1, WritesDropped DEF pendingWrites
    <3>2. status'[x] = status[x]
      BY <1>5, <2>1, <2>3 DEF WriteStatus, TypeOK
    <3> QED BY <3>1, <3>2
  <2>4. CASE x = req[r].order
    <3>1. w \in pendingWrites(x)
      BY <2>1, <2>4 DEF pendingWrites
    <3>2. pendingWrites(x)' \in {pendingWrites(x), pendingWrites(x) \ {w}}
      <4> DEFINE others == {t \in Requests : t # r /\ req[t] # Idle /\ req[t].order = x}
      <4>1. pendingWrites(x) = pendingWrites(x)' \cup {w}
        <5>1. {t \in Requests : req[t] # Idle /\ req[t].order = x} = others \cup {r}
          BY <2>1, <2>4
        <5>2. pendingWrites(x) = {<<req[s].read, req[s].target>> : s \in others} \cup {w}
          BY <5>1 DEF pendingWrites
        <5> QED BY <2>2, <5>2, WritesDropped
      <4> HIDE DEF w
      <4>2. CASE w \in pendingWrites(x)'
        BY <4>1, <4>2
      <4>3. CASE w \notin pendingWrites(x)'
        BY <4>1, <4>3
      <4> QED BY <4>2, <4>3
    <3>3. status'[x] = IF status[x] = "Gone" THEN "Gone" ELSE w[2]
      BY <1>5, <2>1, <2>4 DEF WriteStatus, TypeOK
    <3> QED BY <3>1, <3>2, <3>3 DEF Order!Write
  <2> QED BY <2>3, <2>4
<1>6. ASSUME NEW r \in Requests, Abandon(r)
      PROVE  Order(x)!Next \/ UNCHANGED <<status[x], pendingWrites(x)>>
  <2>1. pendingWrites(x)' \subseteq pendingWrites(x)
    BY <1>6, WritesDropped DEF Abandon, pendingWrites
  <2> QED BY <1>6, <2>1 DEF Abandon, orderVars, Order!Forget
<1>7. CASE UNCHANGED <<status, req>>
  BY <1>7, WritesKept
<1>8. ASSUME NEW o \in Orders,
             \/ completeDraftOrderService(o) \/ deleteDraftOrderService(o) \/ cancelOrderService(o)
             \/ \E q \in 1..MaxQuantity, preorder \in BOOLEAN, st \in {"Pending", "Processing"} :
                  createOrderService(o, q, preorder, st)
             \/ \E q \in 1..MaxQuantity : createDraftOrderService(o, q)
             \/ \E original \in Orders, q \in 1..MaxQuantity : createReplacementOrderService(o, original, q)
             \/ \E to \in {"Pending", "Processing", "Shipped", "Delivered"} : ShipmentRollUp(o, to)
      PROVE  Order(x)!Next \/ UNCHANGED <<status[x], pendingWrites(x)>>
  BY <1>2, <1>8
  DEF completeDraftOrderService, completable, deleteDraftOrderService, cancelOrderService, cancellable,
      createOrderService, createDraftOrderService, createReplacementOrderService, ShipmentRollUp,
      Statuses, OrderStatuses
<1> QED BY <1>1, <1>4, <1>5, <1>6, <1>7, <1>8
        DEF Next, updateDraftOrderService, editOrderLinesService, adjustStockController,
            updateInventoryController, productVars, orderVars

\* However its status was written, each order's status follows OrderStatus.
THEOREM StatusesImplementSpec == Spec => StatusesFollowSpec
<1> DEFINE Step == \A o \in Orders : Order(o)!Next \/ UNCHANGED <<status[o], pendingWrites(o)>>
           Start == \A o \in Orders : Order(o)!Init
<1>1. Init => Start
  BY DEF Init, Order!Init, pendingWrites, Idle
<1>2. TypeOK /\ [Next]_vars => [Step]_vars
  BY StatusStep
<1> HIDE DEF Step, Start
<1>3. Spec => Start /\ [][Step]_vars
  BY <1>1, <1>2, TypeCorrect, PTL DEF Spec
<1> QED BY <1>3 DEF StatusesFollowSpec, Step, Start

============================================================================
