------------------------ MODULE OrderLifecycleProofs ------------------------
(***************************************************************************)
(* What OrderLifecycle guarantees for every Quantity and every set of      *)
(* shipments, returns and requests.                                        *)
(***************************************************************************)
EXTENDS OrderLifecycle, SumsProofs

(* ------------------------- Lemmas about the sums ------------------------- *)

DocsOf(D, T) == [D -> [status: T, quantity: Nat]]

Quantities(docs) == [e \in DOMAIN docs |-> docs[e].quantity]

Others(docs, S, d) == {e \in DOMAIN docs \ {d} : docs[e].status \in S}

\* The units of one document and those of the others.
LEMMA UnitsSplit ==
  ASSUME NEW D, IsFiniteSet(D), NEW T, NEW docs \in DocsOf(D, T), NEW d \in D, NEW S
  PROVE  /\ SumOver(Quantities(docs), Others(docs, S, d)) \in Nat
         /\ Units(docs, S) = SumOver(Quantities(docs), Others(docs, S, d))
                              + (IF docs[d].status \in S THEN docs[d].quantity ELSE 0)
<1> DEFINE in == {e \in D : docs[e].status \in S}
<1>1. /\ DOMAIN docs = D
      /\ Units(docs, S) = SumOver(Quantities(docs), in)
      /\ \A e \in in : Quantities(docs)[e] \in Nat
      /\ Quantities(docs)[d] = docs[d].quantity
      /\ docs[d].quantity \in Nat
  BY DEF DocsOf, Units, Quantities
<1>2. IsFiniteSet(in)
  BY FS_Subset
<1>3. CASE docs[d].status \in S
  <2>1. in \ {d} = Others(docs, S, d) /\ d \in in
    BY <1>1, <1>3 DEF Others
  <2>2. /\ SumOver(Quantities(docs), in) = SumOver(Quantities(docs), in \ {d}) + Quantities(docs)[d]
        /\ SumOver(Quantities(docs), in \ {d}) \in Nat
    <3> HIDE DEF in
    <3> QED BY <1>1, <1>2, <2>1, SumRemove
  <2> HIDE DEF in
  <2> QED BY <1>1, <1>3, <2>1, <2>2
<1>4. CASE docs[d].status \notin S
  <2>1. in = Others(docs, S, d)
    BY <1>1, <1>4 DEF Others
  <2> HIDE DEF in
  <2>2. SumOver(Quantities(docs), in) \in Nat
    BY <1>1, <1>2, SumType
  <2> QED BY <1>1, <1>4, <2>1, <2>2
<1> QED BY <1>3, <1>4

\* Units are natural numbers.
LEMMA UnitsType ==
  ASSUME NEW D, IsFiniteSet(D), NEW T, NEW docs \in DocsOf(D, T), NEW S
  PROVE  Units(docs, S) \in Nat
<1> DEFINE in == {e \in D : docs[e].status \in S}
<1>1. /\ Units(docs, S) = SumOver(Quantities(docs), in)
      /\ \A e \in in : Quantities(docs)[e] \in Nat
  BY DEF DocsOf, Units, Quantities
<1>2. IsFiniteSet(in)
  BY FS_Subset
<1> HIDE DEF in
<1> QED BY <1>1, <1>2, SumType

\* Replacing one document changes the total by what it held and now holds.
LEMMA UnitsReplace ==
  ASSUME NEW D, IsFiniteSet(D), NEW T, NEW docs \in DocsOf(D, T), NEW d \in D,
         NEW new \in DocsOf(D, T), \A e \in D \ {d} : new[e] = docs[e], NEW S
  PROVE  Units(new, S) = Units(docs, S)
                          - (IF docs[d].status \in S THEN docs[d].quantity ELSE 0)
                          + (IF new[d].status \in S THEN new[d].quantity ELSE 0)
<1> DEFINE rest == Others(docs, S, d)
<1>1. Others(new, S, d) = rest
  BY DEF Others, DocsOf
<1>2. SumOver(Quantities(docs), rest) = SumOver(Quantities(new), rest)
  <2>1. \A e \in rest : Quantities(docs)[e] = Quantities(new)[e]
    BY DEF Others, DocsOf, Quantities
  <2> HIDE DEF rest
  <2> QED BY <2>1, SumSame
<1>3. /\ SumOver(Quantities(docs), rest) \in Nat
      /\ Units(docs, S) = SumOver(Quantities(docs), rest)
                           + (IF docs[d].status \in S THEN docs[d].quantity ELSE 0)
  BY UnitsSplit
<1>4. Units(new, S) = SumOver(Quantities(new), Others(new, S, d))
                       + (IF new[d].status \in S THEN new[d].quantity ELSE 0)
  BY UnitsSplit
<1>5. docs[d].quantity \in Nat /\ new[d].quantity \in Nat
  BY DEF DocsOf
<1> HIDE DEF rest
<1> QED BY <1>1, <1>2, <1>3, <1>4, <1>5

\* A document is part of the total of its status.
LEMMA UnitsContain ==
  ASSUME NEW D, IsFiniteSet(D), NEW T, NEW docs \in DocsOf(D, T), NEW d \in D, NEW S,
         docs[d].status \in S
  PROVE  docs[d].quantity <= Units(docs, S)
<1>1. docs[d].quantity \in Nat
  BY DEF DocsOf
<1> QED BY <1>1, UnitsSplit

(* ---------------------------- Type correctness --------------------------- *)

LEMMA ShipmentUnitsType ==
  ASSUME TypeOK, NEW S
  PROVE  Units(fulfillments, S) \in Nat /\ Units(returns, S) \in Nat
<1>1. /\ fulfillments \in DocsOf(FulfillmentIds, FulfillmentStatuses \cup {"None"})
      /\ returns \in DocsOf(ReturnIds, ReturnStatuses \cup {"None"})
  BY DEF TypeOK, DocsOf, FulfillmentRecord, ReturnRecord
<1> QED BY <1>1, UnitsType, FiniteIdsAssumption

LEMMA RecomputeTypes ==
  ASSUME NEW st \in Statuses, NEW fs, NEW rs
  PROVE  /\ recomputeOrderStatusFromFulfillments(st, fs) \in Statuses
         /\ recomputeOrderFulfillmentStatus(st, fs, rs) \in OrderFulfillmentStatuses
BY DEF recomputeOrderStatusFromFulfillments, StatusOfShipments,
       recomputeOrderFulfillmentStatus, Statuses, OrderStatuses, OrderFulfillmentStatuses

LEMMA EffectiveType ==
  ASSUME TypeOK
  PROVE  getEffectiveFulfilledQuantityForLine \in Nat
<1>1. Units(fulfillments, Live) \in Nat
  BY ShipmentUnitsType
<1> QED BY <1>1, QuantityAssumption
        DEF TypeOK, getEffectiveFulfilledQuantityForLine, AtMost

LEMMA IdleType == Idle \in Request
BY DEF Idle, Request, StatusRequest, Statuses

LEMMA DropType ==
  ASSUME TypeOK, bumpVersion PROVE req' \in [Requests -> Request]
BY IdleType DEF TypeOK, bumpVersion

\* Every variable keeps its type: in particular no counter goes negative.
THEOREM TypeCorrect == Spec => []TypeOK
<1>1. Init => TypeOK
  BY IdleType DEF Init, TypeOK, Statuses, OrderStatuses, OrderFulfillmentStatuses,
                  FulfillmentRecord, ReturnRecord
<1>2. TypeOK /\ [Next]_vars => TypeOK'
  <2> SUFFICES ASSUME TypeOK, Next PROVE TypeOK'
    BY DEF vars, lineVars, returnVars, TypeOK
  <2>1. ASSUME NEW f \in FulfillmentIds, NEW q \in 1..MaxAsked, NEW markShipped \in BOOLEAN,
               createFulfillmentService(f, q, markShipped)
        PROVE  TypeOK'
    <3>1. fulfillments' \in [FulfillmentIds -> FulfillmentRecord]
      BY <2>1, MaxAskedAssumption
      DEF createFulfillmentService, TypeOK, FulfillmentRecord, FulfillmentStatuses
    <3>2. fulfilledQuantity' \in Nat
      BY <2>1, MaxAskedAssumption DEF createFulfillmentService, TypeOK
    <3>3. status' \in Statuses /\ fulfillmentStatus' \in OrderFulfillmentStatuses
      BY <2>1, RecomputeTypes DEF createFulfillmentService, RollUp, TypeOK
    <3>4. req' \in [Requests -> Request]
      BY <2>1, DropType DEF createFulfillmentService
    <3> QED BY <2>1, <3>1, <3>2, <3>3, <3>4
            DEF createFulfillmentService, returnVars, TypeOK
  <2>2. ASSUME NEW f \in FulfillmentIds, NEW to \in {"Shipped", "Delivered", "Cancelled"},
               updateFulfillmentStatusService(f, to)
        PROVE  TypeOK'
    <3>1. fulfillments' \in [FulfillmentIds -> FulfillmentRecord]
      BY <2>2 DEF updateFulfillmentStatusService, TypeOK, FulfillmentRecord, FulfillmentStatuses
    <3>2. fulfilledQuantity' \in Nat
      <4>1. fulfillments[f].quantity \in Nat
        BY DEF TypeOK, FulfillmentRecord
      <4> QED BY <2>2, <4>1 DEF updateFulfillmentStatusService, RolledBack, TypeOK
    <3>3. status' \in Statuses /\ fulfillmentStatus' \in OrderFulfillmentStatuses
      BY <2>2, RecomputeTypes DEF updateFulfillmentStatusService, RollUp, TypeOK
    <3>4. req' \in [Requests -> Request]
      BY <2>2, DropType DEF updateFulfillmentStatusService
    <3> QED BY <2>2, <3>1, <3>2, <3>3, <3>4
            DEF updateFulfillmentStatusService, returnVars, TypeOK
  <2>3. CASE cancelOrderService \/ completeDraftOrderService \/ deleteDraftOrderService
    BY <2>3 DEF cancelOrderService, completeDraftOrderService, deleteDraftOrderService,
                lineVars, returnVars, TypeOK, Statuses, OrderStatuses
  <2>4. CASE SaveElsewhere
    BY <2>4, DropType DEF SaveElsewhere, lineVars, returnVars, TypeOK
  <2>5. ASSUME NEW r \in Requests, NEW to \in PatchTargets, ReadForPatch(r, to)
        PROVE  TypeOK'
    <3>1. [Idle EXCEPT !.op = "status", !.read = status, !.target = to] \in Request
      BY DEF Idle, Request, StatusRequest, PatchTargets, TypeOK, Statuses, OrderStatuses
    <3> QED BY <2>5, <3>1 DEF ReadForPatch, Send, lineVars, returnVars, TypeOK
  <2>6. ASSUME NEW r \in Requests, ReadForPayment(r)
        PROVE  TypeOK'
    <3>1. [Idle EXCEPT !.op = "status", !.read = status, !.target = "Processing"] \in Request
      BY DEF Idle, Request, StatusRequest, TypeOK, Statuses, OrderStatuses
    <3> QED BY <2>6, <3>1 DEF ReadForPayment, Send, lineVars, returnVars, TypeOK
  <2>7. ASSUME NEW r \in Requests, WriteStatus(r)
        PROVE  TypeOK'
    <3>1. status' \in Statuses
      BY <2>7 DEF WriteStatus, TypeOK, Request, StatusRequest, ReturnRequest, ReturnStatusRequest
    <3> QED BY <2>7, <3>1, IdleType DEF WriteStatus, lineVars, returnVars, TypeOK
  <2>8. ASSUME NEW r \in Requests, NEW q \in 1..MaxAsked, ReadForReturn(r, q)
        PROVE  TypeOK'
    <3> DEFINE m == [op |-> "newReturn", read |-> "Gone", target |-> "Requested",
          ret |-> "none", quantity |-> q,
          rollUp |-> recomputeOrderFulfillmentStatus(status, fulfillments, returns),
          returned |-> returnedQuantity, refunded |-> refundedQuantity]
    <3>1. m \in ReturnRequest
      BY RecomputeTypes, MaxAskedAssumption DEF ReturnRequest, TypeOK
    <3>2. Send(r, m)
      BY <2>8 DEF ReadForReturn
    <3>3. m \in Request
      BY <3>1 DEF Request
    <3> HIDE DEF m
    <3> QED BY <3>2, <3>3 DEF Send, lineVars, returnVars, TypeOK
  <2>9. ASSUME NEW r \in Requests, NEW t \in ReturnIds, NEW to \in ReturnStatuses,
               ReadForReturnStatus(r, t, to)
        PROVE  TypeOK'
    <3> DEFINE m == [op |-> "returnStatus", read |-> "Gone", target |-> to,
          ret |-> t, quantity |-> returns[t].quantity,
          rollUp |-> recomputeOrderFulfillmentStatus(status, fulfillments,
                       [returns EXCEPT ![t].status = to]),
          returned |-> Advance(returnedQuantity, "Received", t, to),
          refunded |-> Advance(refundedQuantity, "Refunded", t, to)]
    <3>1. returns[t].quantity \in Nat /\ getEffectiveFulfilledQuantityForLine \in Nat
      BY EffectiveType DEF TypeOK, ReturnRecord
    <3>2. /\ Advance(returnedQuantity, "Received", t, to) \in Nat
          /\ Advance(refundedQuantity, "Refunded", t, to) \in Nat
      BY <3>1 DEF Advance, AtMost, TypeOK
    <3>3. m \in ReturnStatusRequest
      BY <3>1, <3>2, RecomputeTypes DEF ReturnStatusRequest, TypeOK
    <3>4. Send(r, m)
      BY <2>9 DEF ReadForReturnStatus
    <3>5. m \in Request
      BY <3>3 DEF Request
    <3> HIDE DEF m
    <3> QED BY <3>4, <3>5 DEF Send, lineVars, returnVars, TypeOK
  <2>10. ASSUME NEW r \in Requests, NEW t, Save(r, t),
                req[r].op \in {"newReturn", "returnStatus"}
         PROVE  TypeOK'
    <3>1. /\ req[r].target \in ReturnStatuses /\ req[r].quantity \in Nat
          /\ req[r].rollUp \in OrderFulfillmentStatuses
          /\ req[r].returned \in Nat /\ req[r].refunded \in Nat
      BY <2>10 DEF TypeOK, Request, StatusRequest, ReturnRequest, ReturnStatusRequest,
                   ReturnStatuses
    <3>2. returns' \in [ReturnIds -> ReturnRecord]
      BY <2>10, <3>1 DEF Save, TypeOK, ReturnRecord
    <3> QED BY <2>10, <3>1, <3>2, DropType DEF Save, lineVars, TypeOK
  <2>11. ASSUME NEW r \in Requests, Abandon(r) PROVE TypeOK'
    BY <2>11, IdleType DEF Abandon, lineVars, returnVars, TypeOK
  <2> QED BY <2>1, <2>2, <2>3, <2>4, <2>5, <2>6, <2>7, <2>8, <2>9, <2>10, <2>11
          DEF Next, createReturnService, updateReturnStatusService
<1> QED BY <1>1, <1>2, PTL DEF Spec

(* --------------------------- Shipments and units ------------------------- *)

\* A payload passes only while the line has units left.
LEMMA SomethingLeft ==
  ASSUME NEW q \in Nat \ {0}, NEW limit \in Int, eachFits(q, limit)
  PROVE  limit > 0
<1>1. PICK entries \in 1..q : q <= entries * limit
  BY DEF eachFits
<1>2. ASSUME limit <= 0 PROVE FALSE
  <2>1. entries * limit <= 0
    BY <1>2
  <2> QED BY <1>1, <2>1
<1> QED BY <1>2

\* The shipments other than f, and all of them.
LEMMA ShipmentsSplit ==
  ASSUME TypeOK, NEW f \in FulfillmentIds
  PROVE  /\ fulfillments[f].quantity \in Nat
         /\ Units(fulfillments, Live) \in Nat
         /\ fulfillments[f].status \in Live => fulfillments[f].quantity <= Units(fulfillments, Live)
<1>1. /\ fulfillments \in DocsOf(FulfillmentIds, FulfillmentStatuses \cup {"None"})
      /\ IsFiniteSet(FulfillmentIds)
      /\ fulfillments[f].quantity \in Nat
  BY FiniteIdsAssumption DEF TypeOK, DocsOf, FulfillmentRecord
<1> QED BY <1>1, UnitsType, UnitsContain

\* The counter and the bound on it, carried through one shipment change.
ShipmentsInv == FulfilledCounterExact /\ ExcessInOneShipment

\* One shipment changes and the others stay.
LEMMA OneShipmentChanges ==
  ASSUME TypeOK, TypeOK', NEW f \in FulfillmentIds,
         \A g \in FulfillmentIds \ {f} : fulfillments'[g] = fulfillments[g]
  PROVE  Units(fulfillments', Live) = Units(fulfillments, Live)
           - (IF fulfillments[f].status \in Live THEN fulfillments[f].quantity ELSE 0)
           + (IF fulfillments'[f].status \in Live THEN fulfillments'[f].quantity ELSE 0)
<1>1. /\ fulfillments \in DocsOf(FulfillmentIds, FulfillmentStatuses \cup {"None"})
      /\ fulfillments' \in DocsOf(FulfillmentIds, FulfillmentStatuses \cup {"None"})
      /\ IsFiniteSet(FulfillmentIds)
  BY FiniteIdsAssumption DEF TypeOK, DocsOf, FulfillmentRecord
<1> QED BY <1>1, UnitsReplace

\* A new shipment passes only below the line, so it alone makes an excess.
LEMMA CreateStep ==
  ASSUME TypeOK, TypeOK', ShipmentsInv, NEW f \in FulfillmentIds, NEW q \in 1..MaxAsked,
         NEW markShipped \in BOOLEAN, createFulfillmentService(f, q, markShipped)
  PROVE  ShipmentsInv'
<1> DEFINE before == Units(fulfillments, Live)
           after == Units(fulfillments', Live)
<1>1. /\ before \in Nat /\ fulfilledQuantity = before
      /\ q \in Nat \ {0}
  BY ShipmentsSplit, MaxAskedAssumption DEF ShipmentsInv, FulfilledCounterExact
<1>2. /\ fulfillments[f].status \notin Live
      /\ fulfillments'[f].status \in Live
      /\ fulfillments'[f].quantity = q
      /\ \A g \in FulfillmentIds \ {f} : fulfillments'[g] = fulfillments[g]
      /\ fulfilledQuantity' = fulfilledQuantity + q
      /\ eachFits(q, Quantity - before)
  BY DEF createFulfillmentService, TypeOK, Live, computeUnfulfilledByLine
<1>3. after = before - (IF fulfillments[f].status \in Live THEN fulfillments[f].quantity ELSE 0)
                     + (IF fulfillments'[f].status \in Live THEN fulfillments'[f].quantity ELSE 0)
  BY <1>2, OneShipmentChanges
<1> HIDE DEF before, after
<1>4. after = before + q
  BY <1>1, <1>2, <1>3
<1>5. Quantity - before \in Int
  BY <1>1, QuantityAssumption
<1>6. Quantity - before > 0
  BY <1>1, <1>2, <1>5, SomethingLeft
<1>7. after - fulfillments'[f].quantity < Quantity
  BY <1>1, <1>2, <1>4, <1>6, QuantityAssumption
<1>8. fulfilledQuantity' = after
  BY <1>1, <1>2, <1>4
<1> QED BY <1>2, <1>7, <1>8 DEF ShipmentsInv, FulfilledCounterExact, ExcessInOneShipment, after

\* A shipment that moves keeps its units, or gives all of them back.
LEMMA MoveStep ==
  ASSUME TypeOK, TypeOK', ShipmentsInv, NEW f \in FulfillmentIds,
         NEW to \in {"Shipped", "Delivered", "Cancelled"}, updateFulfillmentStatusService(f, to)
  PROVE  ShipmentsInv'
<1> DEFINE n == fulfillments[f].quantity
           before == Units(fulfillments, Live)
           after == Units(fulfillments', Live)
<1>1. before \in Nat /\ n \in Nat /\ fulfilledQuantity = before
  BY ShipmentsSplit DEF ShipmentsInv, FulfilledCounterExact
<1>2. /\ fulfillments'[f].status = to
      /\ fulfillments'[f].quantity = n
      /\ fulfilledQuantity' = RolledBack(f, to)
      /\ \A g \in FulfillmentIds \ {f} : fulfillments'[g] = fulfillments[g]
  BY DEF updateFulfillmentStatusService, TypeOK, FulfillmentRecord
<1>3. fulfillments[f].status \in Live
  BY DEF updateFulfillmentStatusService, MayMoveShipment, guardTransition,
         FULFILLMENT_TRANSITIONS, Live
<1>4. n <= before
  BY <1>3, ShipmentsSplit
<1>5. after = before - (IF fulfillments[f].status \in Live THEN n ELSE 0)
                     + (IF fulfillments'[f].status \in Live THEN fulfillments'[f].quantity ELSE 0)
  BY <1>2, OneShipmentChanges
<1>6. CASE to = "Cancelled"
  <2>1. to \notin Live
    BY <1>6 DEF Live
  <2>2. fulfilledQuantity' = before - n
    BY <1>1, <1>2, <1>4, <1>6 DEF RolledBack
  <2>3. \A g \in FulfillmentIds : fulfillments[g].status \in Live /\ g # f =>
          fulfillments'[g].status \in Live /\ fulfillments'[g].quantity = fulfillments[g].quantity
    BY <1>2
  <2>t. \A g \in FulfillmentIds : fulfillments[g].quantity \in Nat
    BY DEF TypeOK, FulfillmentRecord
  <2> HIDE DEF before, after, n
  <2>4. after = before - n
    BY <1>1, <1>2, <1>3, <1>5, <2>1
  <2>5. ASSUME after > Quantity
        PROVE  \E g \in FulfillmentIds :
                 fulfillments'[g].status \in Live /\ after - fulfillments'[g].quantity < Quantity
    <3>1. before > Quantity
      BY <1>1, <2>4, <2>5, QuantityAssumption
    <3>2. PICK g \in FulfillmentIds :
            fulfillments[g].status \in Live /\ before - fulfillments[g].quantity < Quantity
      BY <3>1 DEF ShipmentsInv, ExcessInOneShipment, before
    <3>3. g # f
      BY <1>1, <2>4, <2>5, <3>2, QuantityAssumption DEF n
    <3> QED BY <1>1, <2>3, <2>4, <2>t, <3>2, <3>3, QuantityAssumption
  <2> QED BY <2>2, <2>4, <2>5 DEF ShipmentsInv, FulfilledCounterExact, ExcessInOneShipment, after
<1>7. CASE to # "Cancelled"
  <2>1. to \in Live
    BY <1>7 DEF Live
  <2>2. fulfilledQuantity' = before
    BY <1>1, <1>2, <1>7 DEF RolledBack
  <2>3. \A g \in FulfillmentIds : fulfillments[g].status \in Live =>
          fulfillments'[g].status \in Live /\ fulfillments'[g].quantity = fulfillments[g].quantity
    BY <1>2, <2>1
  <2> HIDE DEF before, after, n
  <2>4. after = before
    BY <1>1, <1>2, <1>3, <1>5, <2>1
  <2>5. after > Quantity =>
          \E g \in FulfillmentIds :
            fulfillments'[g].status \in Live /\ after - fulfillments'[g].quantity < Quantity
    BY <2>3, <2>4 DEF ShipmentsInv, ExcessInOneShipment, before
  <2> QED BY <2>2, <2>4, <2>5 DEF ShipmentsInv, FulfilledCounterExact, ExcessInOneShipment, after
<1> QED BY <1>6, <1>7

LEMMA ShipmentsStep ==
  ASSUME TypeOK, TypeOK', ShipmentsInv, [Next]_vars
  PROVE  ShipmentsInv'
<1>1. ASSUME UNCHANGED lineVars PROVE ShipmentsInv'
  BY <1>1 DEF ShipmentsInv, FulfilledCounterExact, ExcessInOneShipment, lineVars, Units
<1> QED BY <1>1, CreateStep, MoveStep
        DEF Next, vars, cancelOrderService, completeDraftOrderService, deleteDraftOrderService,
            SaveElsewhere, ReadForPatch, ReadForPayment, WriteStatus, ReadForReturn,
            ReadForReturnStatus, createReturnService, updateReturnStatusService, Abandon,
            Send, Save

LEMMA ShipmentsAlways == Spec => []ShipmentsInv
<1>1. Init => ShipmentsInv
  <2> SUFFICES ASSUME Init PROVE Units(fulfillments, Live) = 0
    BY QuantityAssumption
    DEF Init, ShipmentsInv, FulfilledCounterExact, ExcessInOneShipment
  <2>1. {f \in DOMAIN fulfillments : fulfillments[f].status \in Live} = {}
    BY DEF Init, Live
  <2> QED BY <2>1, SumEmpty DEF Units
<1>2. TypeOK /\ TypeOK' /\ ShipmentsInv /\ [Next]_vars => ShipmentsInv'
  BY ShipmentsStep
<1> QED BY <1>1, <1>2, TypeCorrect, PTL DEF Spec

\* The line's counter is the sum of its live shipments, whatever the number of
\* shipments and units.
THEOREM CounterIsExact == Spec => []FulfilledCounterExact
<1>1. ShipmentsInv => FulfilledCounterExact
  BY DEF ShipmentsInv
<1> QED BY <1>1, ShipmentsAlways, PTL

\* Units beyond the line are those of one payload: however many shipments are
\* made and cancelled, an excess never accumulates.
THEOREM ExcessNeverAccumulates == Spec => []ExcessInOneShipment
<1>1. ShipmentsInv => ExcessInOneShipment
  BY DEF ShipmentsInv
<1> QED BY <1>1, ShipmentsAlways, PTL

(* ---------------------------- Terminal statuses -------------------------- *)

Terminal == {"Cancelled", "Refunded"}

\* No request can be holding a write it decided on a terminal status.
ReadsInv == \A r \in Requests : req[r].op = "status" => req[r].read \notin Terminal

LEMMA ReadsStep ==
  ASSUME TypeOK, ReadsInv, [Next]_vars
  PROVE  ReadsInv'
<1>1. Idle.op # "status"
  BY DEF Idle
<1>2. ASSUME UNCHANGED req PROVE ReadsInv'
  BY <1>2 DEF ReadsInv
<1>3. ASSUME bumpVersion PROVE ReadsInv'
  BY <1>1, <1>3 DEF bumpVersion, ReadsInv
<1>4. ASSUME NEW r \in Requests, req' = [req EXCEPT ![r] = Idle] PROVE ReadsInv'
  BY <1>1, <1>4 DEF ReadsInv, TypeOK
<1>5. ASSUME NEW r \in Requests, NEW to, ReadForPatch(r, to), to \in PatchTargets PROVE ReadsInv'
  <2>1. status \notin Terminal
    BY <1>5 DEF ReadForPatch, MayPatch, guardTransition, ORDER_TRANSITIONS, PatchTargets, Terminal
  <2> QED BY <1>5, <2>1 DEF ReadForPatch, Send, ReadsInv, TypeOK, Idle
<1>6. ASSUME NEW r \in Requests, ReadForPayment(r) PROVE ReadsInv'
  <2>1. status \notin Terminal
    BY <1>6 DEF ReadForPayment, guardTransition, ORDER_TRANSITIONS, Terminal
  <2> QED BY <1>6, <2>1 DEF ReadForPayment, Send, ReadsInv, TypeOK, Idle
<1>7. ASSUME NEW r \in Requests, NEW m, Send(r, m), m.op # "status" PROVE ReadsInv'
  BY <1>7 DEF Send, ReadsInv, TypeOK
<1> QED BY <1>2, <1>3, <1>4, <1>5, <1>6, <1>7
        DEF Next, vars, createFulfillmentService, updateFulfillmentStatusService,
            cancelOrderService, completeDraftOrderService, deleteDraftOrderService,
            SaveElsewhere, WriteStatus, ReadForReturn, ReadForReturnStatus,
            createReturnService, updateReturnStatusService, Save, Abandon

\* Only a write decided before the order became terminal takes it out again.
THEOREM TerminalOnlyLostToStaleWrites == Spec => TerminalLostOnlyToStaleWrite
<1> DEFINE Step == (status \in {"Cancelled", "Refunded"} /\ status' # status) =>
      \E r \in Requests :
        req[r].op = "status" /\ req[r].read # status /\ status' = req[r].target
<1>1. Init => ReadsInv
  BY DEF Init, ReadsInv, Idle
<1>2. TypeOK /\ ReadsInv /\ [Next]_vars => ReadsInv'
  BY ReadsStep
<1>3. ReadsInv /\ [Next]_vars => [Step]_vars
  <2> SUFFICES ASSUME ReadsInv, Next, status \in Terminal, status' # status
               PROVE  \E r \in Requests :
                 req[r].op = "status" /\ req[r].read # status /\ status' = req[r].target
    BY DEF Terminal
  <2>1. ~RollUp
    BY DEF RollUp, recomputeOrderStatusFromFulfillments, Terminal
  <2>2. PICK r \in Requests : WriteStatus(r)
    BY <2>1 DEF Next, createFulfillmentService, updateFulfillmentStatusService,
        cancelOrderService, completeDraftOrderService, deleteDraftOrderService,
        SaveElsewhere, ReadForPatch, ReadForPayment, ReadForReturn, ReadForReturnStatus,
        createReturnService, updateReturnStatusService, Send, Save, Abandon, Terminal
  <2> QED BY <2>2 DEF WriteStatus, ReadsInv
<1>4. Spec => [][Step]_vars
  BY <1>1, <1>2, <1>3, TypeCorrect, PTL DEF Spec
<1> QED BY <1>4 DEF TerminalLostOnlyToStaleWrite

(* --------------- The order implements what OrderStatus promises ---------- *)

LEMMA DecidedKept ==
  ASSUME bumpVersion \/ UNCHANGED req
  PROVE  decided' = decided
BY DEF bumpVersion, decided, Idle

LEMMA DecidedAfterDrop ==
  ASSUME TypeOK, NEW r \in Requests, req' = [req EXCEPT ![r] = Idle]
  PROVE  decided' = {<<req[s].read, req[s].target>> :
                       s \in {q \in Requests : q # r /\ req[q].op = "status"}}
<1>1. \A s \in Requests : req'[s] = IF s = r THEN Idle ELSE req[s]
  BY DEF TypeOK
<1>2. {s \in Requests : req'[s].op = "status"} = {s \in Requests : s # r /\ req[s].op = "status"}
  BY <1>1 DEF Idle
<1> QED BY <1>1, <1>2 DEF decided

\* Every step of the order document is a step, or none, of OrderStatus.
THEOREM OrderImplementsStatusSpec == Spec => StatusFollowsSpec
<1>1. Init => OrderView!Init
  BY DEF Init, OrderView!Init, decided, Idle
<1>2. TypeOK /\ [Next]_vars => [OrderView!Next]_<<status, decided>>
  <2> SUFFICES ASSUME TypeOK, [Next]_vars PROVE [OrderView!Next]_<<status, decided>>
    OBVIOUS
  <2>1. CASE UNCHANGED vars
    BY <2>1, DecidedKept DEF vars
  <2>2. ASSUME RollUp, bumpVersion, Exists PROVE OrderView!Next \/ UNCHANGED <<status, decided>>
    <3>1. status \notin {"None", "Gone"}
      BY <2>2 DEF Exists, TypeOK, Statuses, OrderStatuses
    <3>2. CASE status \in {"Cancelled", "Refunded"}
      BY <2>2, <3>2, DecidedKept DEF RollUp, recomputeOrderStatusFromFulfillments
    <3>3. CASE status \notin {"Cancelled", "Refunded"}
      <4>1. status' \in {"Pending", "Processing", "Shipped", "Delivered"}
        BY <2>2, <3>3 DEF RollUp, recomputeOrderStatusFromFulfillments, StatusOfShipments
      <4> QED BY <2>2, <3>1, <3>3, <4>1, DecidedKept
              DEF OrderView!Next, OrderView!RollUp, OrderView!Terminal
    <3> QED BY <3>2, <3>3
  <2>3. CASE cancelOrderService \/ completeDraftOrderService \/ deleteDraftOrderService
    BY <2>3, DecidedKept DEF cancelOrderService, completeDraftOrderService,
       deleteDraftOrderService, OrderView!Next, OrderView!Transaction
  <2>4. ASSUME UNCHANGED status, bumpVersion PROVE UNCHANGED <<status, decided>>
    BY <2>4, DecidedKept
  <2>5. ASSUME NEW r \in Requests, NEW to \in PatchTargets, req[r] = Idle, UNCHANGED status,
               guardTransition(ORDER_TRANSITIONS, status, to),
               req' = [req EXCEPT ![r] = [Idle EXCEPT !.op = "status", !.read = status, !.target = to]]
        PROVE  OrderView!Next
    <3>1. decided' = decided \cup {<<status, to>>}
      <4>1. \A s \in Requests : s # r => req'[s] = req[s]
        BY <2>5 DEF TypeOK
      <4>2. req'[r].op = "status" /\ req'[r].read = status /\ req'[r].target = to
        BY <2>5 DEF TypeOK, Idle
      <4>3. req[r].op # "status"
        BY <2>5 DEF Idle
      <4>4. {s \in Requests : req'[s].op = "status"} = {s \in Requests : req[s].op = "status"} \cup {r}
        BY <4>1, <4>2, <4>3
      <4> QED BY <4>1, <4>2, <4>3, <4>4 DEF decided
    <3>2. to \in OrderStatuses /\ to \notin {"Draft", "Confirmed", "Archived"}
      BY DEF PatchTargets, OrderStatuses
    <3> QED BY <2>5, <3>1, <3>2 DEF OrderView!Next, OrderView!Decide,
               guardTransition, OrderView!guardTransition, ORDER_TRANSITIONS,
               OrderView!ORDER_TRANSITIONS, OrderStatuses, OrderView!OrderStatuses
  <2>6. ASSUME NEW r \in Requests, WriteStatus(r) PROVE OrderView!Next
    <3> DEFINE w == <<req[r].read, req[r].target>>
    <3>1. w \in decided
      BY <2>6 DEF WriteStatus, decided
    <3>2. decided' = {<<req[s].read, req[s].target>> :
                        s \in {q \in Requests : q # r /\ req[q].op = "status"}}
      BY <2>6, DecidedAfterDrop DEF WriteStatus
    <3>3. decided = decided' \cup {w}
      BY <2>6, <3>2 DEF WriteStatus, decided
    <3>4. decided' = decided \/ decided' = decided \ {w}
      BY <3>3
    <3>5. status' = IF status = "Gone" THEN "Gone" ELSE w[2]
      BY <2>6 DEF WriteStatus, Exists
    <3> HIDE DEF w
    <3> QED BY <3>1, <3>4, <3>5 DEF OrderView!Next, OrderView!Write
  <2>7. ASSUME NEW r \in Requests, NEW m, Send(r, m), m.op # "status"
        PROVE  UNCHANGED <<status, decided>>
    <3>1. \A s \in Requests : (req'[s].op = "status" <=> req[s].op = "status")
                             /\ (s # r => req'[s] = req[s])
      BY <2>7 DEF Send, TypeOK, Idle
    <3>2. req[r].op # "status"
      BY <2>7 DEF Send, Idle
    <3> QED BY <2>7, <3>1, <3>2 DEF decided, Send
  <2>8. ASSUME NEW r \in Requests, Abandon(r) PROVE OrderView!Next
    <3> DEFINE others == {<<req[s].read, req[s].target>> :
                            s \in {q \in Requests : q # r /\ req[q].op = "status"}}
    <3>1. decided' \subseteq decided
      <4>1. decided' = others
        BY <2>8, DecidedAfterDrop DEF Abandon
      <4>2. others \subseteq decided
        BY DEF decided
      <4> QED BY <4>1, <4>2
    <3> QED BY <2>8, <3>1 DEF Abandon, OrderView!Next, OrderView!Forget
  <2>9. ASSUME NEW r \in Requests, NEW to \in PatchTargets, ReadForPatch(r, to)
        PROVE  OrderView!Next
    BY <2>5, <2>9 DEF ReadForPatch, MayPatch, Send
  <2>10. ASSUME NEW r \in Requests, ReadForPayment(r) PROVE OrderView!Next
    BY <2>5, <2>10 DEF ReadForPayment, Send, PatchTargets
  <2> QED BY <2>1, <2>2, <2>3, <2>4, <2>6, <2>7, <2>8, <2>9, <2>10
          DEF Next, createFulfillmentService, updateFulfillmentStatusService, SaveElsewhere,
              ReadForReturn, ReadForReturnStatus, createReturnService,
              updateReturnStatusService, Save
<1> QED BY <1>1, <1>2, TypeCorrect, PTL DEF Spec, StatusFollowsSpec, OrderView!Spec

(* ----------------- Roll-up and counters across stale saves --------------- *)

SaveOps == {"newReturn", "returnStatus"}

\* The returns as request r would leave them; a new return starts as Requested.
Left(r) ==
  IF req[r].op = "returnStatus" THEN [returns EXCEPT ![req[r].ret].status = req[r].target]
  ELSE returns

RollUpOf(fs, rs) == recomputeOrderFulfillmentStatus("Pending", fs, rs)

\* What a pending save() wants to write is right for the order as it is now:
\* any save that would make it wrong bumps __v, and the request is refused.
Current(r) ==
  /\ req[r].rollUp \in {"Cancelled", RollUpOf(fulfillments, Left(r))}
  /\ req[r].returned <= Units(Left(r), {"Received", "Refunded"})
  /\ req[r].refunded <= Units(Left(r), {"Refunded"})
  /\ req[r].op = "returnStatus" => req[r].quantity = returns[req[r].ret].quantity

SavesInv == \A r \in Requests : req[r].op \in SaveOps => Current(r)

LEMMA RollUpCases ==
  ASSUME NEW st, NEW fs, NEW rs
  PROVE  recomputeOrderFulfillmentStatus(st, fs, rs) \in {"Cancelled", RollUpOf(fs, rs)}
<1>1. CASE st = "Cancelled"
  BY <1>1 DEF recomputeOrderFulfillmentStatus
<1>2. CASE st # "Cancelled"
  BY <1>2, Zenon DEF recomputeOrderFulfillmentStatus, RollUpOf
<1> QED BY <1>1, <1>2

\* The roll-up looks at nothing but the shipped and the refunded units.
LEMMA RollUpOfUnits ==
  ASSUME NEW fs, NEW rs, NEW other, Units(rs, {"Refunded"}) = Units(other, {"Refunded"})
  PROVE  RollUpOf(fs, rs) = RollUpOf(fs, other)
BY DEF RollUpOf, recomputeOrderFulfillmentStatus

\* The units after a return moves from its status to another.
LEMMA ReturnMoves ==
  ASSUME TypeOK, NEW t \in ReturnIds, NEW to \in ReturnStatuses, NEW S
  PROVE  Units([returns EXCEPT ![t].status = to], S) = Units(returns, S)
           - (IF returns[t].status \in S THEN returns[t].quantity ELSE 0)
           + (IF to \in S THEN returns[t].quantity ELSE 0)
<1> DEFINE T == ReturnStatuses \cup {"None"}
           x == [returns[t] EXCEPT !.status = to]
           new == [returns EXCEPT ![t] = x]
<1>1. returns \in DocsOf(ReturnIds, T) /\ returns[t] \in [status: T, quantity: Nat]
  BY DEF TypeOK, DocsOf, ReturnRecord
<1>2. x \in [status: T, quantity: Nat] /\ x.status = to /\ x.quantity = returns[t].quantity
  BY <1>1
<1>3. [returns EXCEPT ![t].status = to] = new
  OBVIOUS
<1> HIDE DEF x, T
<1>4. new \in DocsOf(ReturnIds, T) /\ new[t] = x /\ \A e \in ReturnIds \ {t} : new[e] = returns[e]
  BY <1>1, <1>2 DEF DocsOf
<1> HIDE DEF new
<1>5. Units(new, S) = Units(returns, S)
           - (IF returns[t].status \in S THEN returns[t].quantity ELSE 0)
           + (IF new[t].status \in S THEN new[t].quantity ELSE 0)
  BY <1>1, <1>4, UnitsReplace, FiniteIdsAssumption
<1> QED BY <1>2, <1>3, <1>4, <1>5

\* Saving a request leaves the units its own computation was based on.
LEMMA SaveUnits ==
  ASSUME TypeOK, NEW r \in Requests, NEW S,
         \/ /\ updateReturnStatusService(r)
            /\ req[r].quantity = returns[req[r].ret].quantity
         \/ /\ \E t \in ReturnIds : createReturnService(r, t)
            /\ "None" \notin S /\ "Requested" \notin S
  PROVE  Units(returns', S) = Units(Left(r), S)
<1>1. CASE updateReturnStatusService(r) /\ req[r].quantity = returns[req[r].ret].quantity
  <2> DEFINE t == req[r].ret
             x == [status |-> req[r].target, quantity |-> req[r].quantity]
             y == [returns[t] EXCEPT !.status = req[r].target]
  <2>1. /\ t \in ReturnIds /\ req[r].target \in ReturnStatuses /\ req[r].op = "returnStatus"
    BY <1>1 DEF updateReturnStatusService, TypeOK, Request, StatusRequest, ReturnRequest,
                ReturnStatusRequest
  <2>2. returns[t] \in ReturnRecord
    BY <2>1 DEF TypeOK
  <2>3. x = y
    BY <1>1, <2>2 DEF ReturnRecord
  <2>4. returns' = [returns EXCEPT ![t] = x]
    BY <1>1 DEF updateReturnStatusService, Save
  <2>5. Left(r) = [returns EXCEPT ![t] = y]
    BY <2>1 DEF Left
  <2> HIDE DEF x, y, t
  <2> QED BY <2>3, <2>4, <2>5
<1>2. CASE /\ \E t \in ReturnIds : createReturnService(r, t)
           /\ "None" \notin S /\ "Requested" \notin S
  <2>1. PICK t \in ReturnIds : createReturnService(r, t)
    BY <1>2
  <2> DEFINE T == ReturnStatuses \cup {"None"}
             x == [status |-> req[r].target, quantity |-> req[r].quantity]
  <2>2. req[r].target = "Requested" /\ req[r].quantity \in Nat /\ req[r].op = "newReturn"
    BY <2>1 DEF createReturnService, TypeOK, Request, StatusRequest, ReturnRequest,
                ReturnStatusRequest
  <2>3. x \in [status: T, quantity: Nat] /\ x.status = "Requested"
    BY <2>2 DEF ReturnStatuses
  <2>4. returns' = [returns EXCEPT ![t] = x] /\ returns[t].status = "None"
    BY <2>1 DEF createReturnService, Save
  <2>5. returns \in DocsOf(ReturnIds, T)
    BY DEF TypeOK, DocsOf, ReturnRecord
  <2> HIDE DEF x, T
  <2>6. /\ returns' \in DocsOf(ReturnIds, T) /\ returns'[t] = x
        /\ \A e \in ReturnIds \ {t} : returns'[e] = returns[e]
    BY <2>3, <2>4, <2>5 DEF DocsOf
  <2>7. Units(returns', S) = Units(returns, S)
           - (IF returns[t].status \in S THEN returns[t].quantity ELSE 0)
           + (IF returns'[t].status \in S THEN returns'[t].quantity ELSE 0)
    BY <2>5, <2>6, UnitsReplace, FiniteIdsAssumption
  <2>8. Units(returns, S) \in Nat
    BY ShipmentUnitsType
  <2>9. Units(returns', S) = Units(returns, S)
    BY <1>2, <2>3, <2>4, <2>6, <2>7, <2>8
  <2> QED BY <2>2, <2>9 DEF Left
<1> QED BY <1>1, <1>2

\* What a status change does to the counters, when it follows the graph.
LEMMA AdvanceBounded ==
  ASSUME TypeOK, ReturnsCountedOnce, NEW t \in ReturnIds, NEW to \in ReturnStatuses,
         guardTransition(RETURN_TRANSITIONS, returns[t].status, to)
  PROVE  LET new == [returns EXCEPT ![t].status = to] IN
         /\ Advance(returnedQuantity, "Received", t, to) <= Units(new, {"Received", "Refunded"})
         /\ Advance(refundedQuantity, "Refunded", t, to) <= Units(new, {"Refunded"})
<1> DEFINE new == [returns EXCEPT ![t].status = to]
           from == returns[t].status
           n == returns[t].quantity
           both == {"Received", "Refunded"}
<1>1. /\ n \in Nat /\ returnedQuantity \in Nat /\ refundedQuantity \in Nat
      /\ getEffectiveFulfilledQuantityForLine \in Nat
      /\ Units(returns, both) \in Nat /\ Units(returns, {"Refunded"}) \in Nat
  BY EffectiveType, ShipmentUnitsType DEF TypeOK, ReturnRecord
<1>2. /\ Units(new, both) = Units(returns, both)
           - (IF from \in both THEN n ELSE 0) + (IF to \in both THEN n ELSE 0)
      /\ Units(new, {"Refunded"}) = Units(returns, {"Refunded"})
           - (IF from \in {"Refunded"} THEN n ELSE 0) + (IF to \in {"Refunded"} THEN n ELSE 0)
  BY ReturnMoves
<1>3. returnedQuantity <= Units(returns, both) /\ refundedQuantity <= Units(returns, {"Refunded"})
  BY DEF ReturnsCountedOnce
<1>4. from \in both => to \in both
  BY DEF guardTransition, RETURN_TRANSITIONS
<1>5. from = "Refunded" => to = "Refunded"
  BY DEF guardTransition, RETURN_TRANSITIONS
<1>6. from = "Received" => to \in both
  BY <1>4
<1>7. /\ Advance(returnedQuantity, "Received", t, to)
           <= returnedQuantity + (IF to = "Received" /\ from # "Received" THEN n ELSE 0)
      /\ Advance(refundedQuantity, "Refunded", t, to)
           <= refundedQuantity + (IF to = "Refunded" /\ from # "Refunded" THEN n ELSE 0)
  BY <1>1 DEF Advance, AtMost
<1>8. /\ Advance(returnedQuantity, "Received", t, to) \in Nat
      /\ Advance(refundedQuantity, "Refunded", t, to) \in Nat
  BY <1>1 DEF Advance, AtMost
<1>9. to = "Received" /\ from # "Received" => from \notin both
  BY <1>5
<1>t. Units(new, both) \in Int /\ Units(new, {"Refunded"}) \in Int
  BY <1>1, <1>2
<1> HIDE DEF new, n
<1>10. Advance(returnedQuantity, "Received", t, to) <= Units(new, both)
  <2>1. CASE to = "Received" /\ from # "Received"
    BY <1>1, <1>2, <1>3, <1>7, <1>8, <1>9, <2>1
  <2>2. CASE ~(to = "Received" /\ from # "Received")
    <3>1. Units(new, both) >= Units(returns, both)
      BY <1>1, <1>2, <1>4
    <3>2. Advance(returnedQuantity, "Received", t, to) = returnedQuantity
      BY <2>2 DEF Advance
    <3> QED BY <1>1, <1>3, <1>t, <3>1, <3>2
  <2> QED BY <2>1, <2>2
<1>11. Advance(refundedQuantity, "Refunded", t, to) <= Units(new, {"Refunded"})
  <2>1. CASE to = "Refunded" /\ from # "Refunded"
    BY <1>1, <1>2, <1>3, <1>7, <1>8, <2>1
  <2>2. CASE ~(to = "Refunded" /\ from # "Refunded")
    <3>1. Units(new, {"Refunded"}) >= Units(returns, {"Refunded"})
      BY <1>1, <1>2, <1>5
    <3>2. Advance(refundedQuantity, "Refunded", t, to) = refundedQuantity
      BY <2>2 DEF Advance
    <3> QED BY <1>1, <1>3, <1>t, <3>1, <3>2
  <2> QED BY <2>1, <2>2
<1> QED BY <1>10, <1>11 DEF new

LEMMA SavesStep ==
  ASSUME TypeOK, TypeOK', ReturnsCountedOnce, SavesInv, [Next]_vars
  PROVE  SavesInv'
<1>0. Idle.op \notin SaveOps
  BY DEF Idle, SaveOps
<1>1. ASSUME bumpVersion PROVE SavesInv'
  <2>1. \A r \in Requests : req'[r].op \notin SaveOps
    BY <1>0, <1>1 DEF bumpVersion, SaveOps
  <2> QED BY <2>1 DEF SavesInv
<1>2. ASSUME UNCHANGED <<fulfillments, returns>>,
             \A r \in Requests : req'[r].op \in SaveOps => req'[r] = req[r] \/ Current(r)'
      PROVE  SavesInv'
  <2>1. \A r \in Requests : req'[r] = req[r] => (Current(r)' <=> Current(r))
    BY <1>2 DEF Current, Left
  <2> QED BY <1>2, <2>1 DEF SavesInv
<1>3. ASSUME NEW r \in Requests, NEW m, Send(r, m), m.op \in SaveOps => Current(r)'
      PROVE  SavesInv'
  <2>1. UNCHANGED <<fulfillments, returns>>
    BY <1>3 DEF Send, lineVars, returnVars
  <2>2. req'[r] = m /\ \A s \in Requests \ {r} : req'[s] = req[s]
    BY <1>3 DEF Send, TypeOK
  <2> QED BY <1>2, <1>3, <2>1, <2>2
<1>4. ASSUME NEW r \in Requests, req' = [req EXCEPT ![r] = Idle], UNCHANGED <<lineVars, returnVars>>
      PROVE  SavesInv'
  <2>1. req'[r] = Idle /\ \A s \in Requests \ {r} : req'[s] = req[s]
    BY <1>4 DEF TypeOK
  <2>2. UNCHANGED <<fulfillments, returns>>
    BY <1>4 DEF lineVars, returnVars
  <2> QED BY <1>0, <1>2, <2>1, <2>2
<1>5. ASSUME NEW r \in Requests, NEW to \in PatchTargets, ReadForPatch(r, to) PROVE SavesInv'
  BY <1>3, <1>5 DEF ReadForPatch, Idle, SaveOps
<1>6. ASSUME NEW r \in Requests, ReadForPayment(r) PROVE SavesInv'
  BY <1>3, <1>6 DEF ReadForPayment, Idle, SaveOps
<1>7. ASSUME NEW r \in Requests, NEW q \in 1..MaxAsked, ReadForReturn(r, q) PROVE SavesInv'
  <2> DEFINE m == [op |-> "newReturn", read |-> "Gone", target |-> "Requested",
        ret |-> "none", quantity |-> q,
        rollUp |-> recomputeOrderFulfillmentStatus(status, fulfillments, returns),
        returned |-> returnedQuantity, refunded |-> refundedQuantity]
  <2>1. Send(r, m)
    BY <1>7 DEF ReadForReturn
  <2>2. /\ m.op = "newReturn" /\ m.returned = returnedQuantity /\ m.refunded = refundedQuantity
        /\ m.rollUp = recomputeOrderFulfillmentStatus(status, fulfillments, returns)
    OBVIOUS
  <2> HIDE DEF m
  <2>3. req'[r] = m /\ UNCHANGED <<fulfillments, returns>>
    BY <2>1 DEF Send, TypeOK, lineVars, returnVars
  <2>4. Left(r)' = returns
    BY <2>2, <2>3 DEF Left
  <2>5. Current(r)'
    BY <2>2, <2>3, <2>4, RollUpCases DEF Current, ReturnsCountedOnce
  <2> QED BY <1>3, <2>1, <2>5
<1>8. ASSUME NEW r \in Requests, NEW t \in ReturnIds, NEW to \in ReturnStatuses,
             ReadForReturnStatus(r, t, to)
      PROVE  SavesInv'
  <2> DEFINE new == [returns EXCEPT ![t].status = to]
             m == [op |-> "returnStatus", read |-> "Gone", target |-> to,
                   ret |-> t, quantity |-> returns[t].quantity,
                   rollUp |-> recomputeOrderFulfillmentStatus(status, fulfillments, new),
                   returned |-> Advance(returnedQuantity, "Received", t, to),
                   refunded |-> Advance(refundedQuantity, "Refunded", t, to)]
  <2>1. Send(r, m)
    BY <1>8 DEF ReadForReturnStatus
  <2>2. /\ m.op = "returnStatus" /\ m.target = to /\ m.ret = t
        /\ m.quantity = returns[t].quantity
        /\ m.returned = Advance(returnedQuantity, "Received", t, to)
        /\ m.refunded = Advance(refundedQuantity, "Refunded", t, to)
        /\ m.rollUp = recomputeOrderFulfillmentStatus(status, fulfillments, new)
    OBVIOUS
  <2> HIDE DEF m
  <2>3. req'[r] = m /\ UNCHANGED <<fulfillments, returns>>
    BY <2>1 DEF Send, TypeOK, lineVars, returnVars
  <2>4. Left(r)' = new
    BY <2>2, <2>3 DEF Left
  <2>5. /\ Advance(returnedQuantity, "Received", t, to) <= Units(new, {"Received", "Refunded"})
        /\ Advance(refundedQuantity, "Refunded", t, to) <= Units(new, {"Refunded"})
    BY <1>8, AdvanceBounded DEF ReadForReturnStatus
  <2> HIDE DEF new
  <2>6. Current(r)'
    BY <2>2, <2>3, <2>4, <2>5, RollUpCases DEF Current
  <2> QED BY <1>3, <2>1, <2>6
<1>9. CASE UNCHANGED vars
  BY <1>2, <1>9 DEF vars, lineVars, returnVars
<1>10. CASE cancelOrderService \/ completeDraftOrderService \/ deleteDraftOrderService
  BY <1>2, <1>10 DEF cancelOrderService, completeDraftOrderService, deleteDraftOrderService,
                     lineVars, returnVars
<1> QED BY <1>1, <1>4, <1>5, <1>6, <1>7, <1>8, <1>9, <1>10
        DEF Next, createFulfillmentService, updateFulfillmentStatusService, SaveElsewhere,
            WriteStatus, createReturnService, updateReturnStatusService, Save, Abandon

\* What the save of request r leaves in the document.
LEMMA SaveEffect ==
  ASSUME TypeOK, SavesInv, NEW r \in Requests,
         updateReturnStatusService(r) \/ \E t \in ReturnIds : createReturnService(r, t)
  PROVE  /\ fulfillmentStatus' \in {"Cancelled", RollUpOf(fulfillments', returns')}
         /\ ReturnsCountedOnce'
<1>1. /\ req[r].op \in SaveOps
      /\ fulfillmentStatus' = req[r].rollUp /\ UNCHANGED fulfillments
      /\ returnedQuantity' = req[r].returned /\ refundedQuantity' = req[r].refunded
  BY DEF updateReturnStatusService, createReturnService, Save, SaveOps, lineVars
<1>2. Current(r)
  BY <1>1 DEF SavesInv
<1>3. updateReturnStatusService(r) => req[r].quantity = returns[req[r].ret].quantity
  BY <1>2 DEF Current, updateReturnStatusService
<1>4. /\ Units(returns', {"Refunded"}) = Units(Left(r), {"Refunded"})
      /\ Units(returns', {"Received", "Refunded"}) = Units(Left(r), {"Received", "Refunded"})
  BY <1>3, SaveUnits
<1>5. RollUpOf(fulfillments', returns') = RollUpOf(fulfillments, Left(r))
  BY <1>1, <1>4, RollUpOfUnits
<1> QED BY <1>1, <1>2, <1>4, <1>5 DEF Current, ReturnsCountedOnce

LEMMA CountersStep ==
  ASSUME TypeOK, SavesInv, ReturnsCountedOnce, FulfillmentStatusMatchesShipments, [Next]_vars
  PROVE  ReturnsCountedOnce' /\ FulfillmentStatusMatchesShipments'
<1>1. ASSUME UNCHANGED returnVars PROVE ReturnsCountedOnce'
  BY <1>1 DEF ReturnsCountedOnce, returnVars
<1>2. ASSUME fulfillmentStatus' \in {"Cancelled", RollUpOf(fulfillments', returns')}
      PROVE  FulfillmentStatusMatchesShipments'
  BY <1>2 DEF FulfillmentStatusMatchesShipments, RollUpOf
<1>3. ASSUME UNCHANGED <<fulfillmentStatus, fulfillments, returns>>
      PROVE  FulfillmentStatusMatchesShipments'
  BY <1>3 DEF FulfillmentStatusMatchesShipments
<1>4. ASSUME RollUp, UNCHANGED returnVars
      PROVE  ReturnsCountedOnce' /\ FulfillmentStatusMatchesShipments'
  <2>1. UNCHANGED returns
    BY <1>4 DEF returnVars
  <2>2. fulfillmentStatus' = recomputeOrderFulfillmentStatus(status, fulfillments', returns)
    BY <1>4 DEF RollUp
  <2>3. fulfillmentStatus' \in {"Cancelled", RollUpOf(fulfillments', returns')}
    BY <2>1, <2>2, RollUpCases
  <2> QED BY <1>1, <1>2, <1>4, <2>3
<1>5. ASSUME UNCHANGED <<fulfillmentStatus, lineVars, returnVars>>
      PROVE  ReturnsCountedOnce' /\ FulfillmentStatusMatchesShipments'
  BY <1>1, <1>3, <1>5 DEF lineVars, returnVars
<1>6. ASSUME NEW r \in Requests,
             updateReturnStatusService(r) \/ \E t \in ReturnIds : createReturnService(r, t)
      PROVE  ReturnsCountedOnce' /\ FulfillmentStatusMatchesShipments'
  BY <1>2, <1>6, SaveEffect
<1>7. ASSUME NEW r \in Requests, NEW m, Send(r, m)
      PROVE  ReturnsCountedOnce' /\ FulfillmentStatusMatchesShipments'
  BY <1>5, <1>7 DEF Send
<1>8. ASSUME UNCHANGED vars
      PROVE  ReturnsCountedOnce' /\ FulfillmentStatusMatchesShipments'
  BY <1>5, <1>8 DEF vars
<1> QED BY <1>4, <1>5, <1>6, <1>7, <1>8
        DEF Next, createFulfillmentService, updateFulfillmentStatusService,
            cancelOrderService, completeDraftOrderService, deleteDraftOrderService,
            SaveElsewhere, ReadForPatch, ReadForPayment, WriteStatus, ReadForReturn,
            ReadForReturnStatus, Abandon

LEMMA RollUpAlways ==
  Spec => [](SavesInv /\ ReturnsCountedOnce /\ FulfillmentStatusMatchesShipments)
<1>1. Init => SavesInv /\ ReturnsCountedOnce /\ FulfillmentStatusMatchesShipments
  <2> SUFFICES ASSUME Init
               PROVE  SavesInv /\ ReturnsCountedOnce /\ FulfillmentStatusMatchesShipments
    OBVIOUS
  <2>1. SavesInv
    BY DEF Init, SavesInv, SaveOps, Idle
  <2>2. /\ Units(fulfillments, ShippedOrBeyond) = 0 /\ Units(returns, {"Refunded"}) = 0
        /\ Units(returns, {"Received", "Refunded"}) = 0
    <3>1. /\ {f \in DOMAIN fulfillments : fulfillments[f].status \in ShippedOrBeyond} = {}
          /\ {t \in DOMAIN returns : returns[t].status \in {"Refunded"}} = {}
          /\ {t \in DOMAIN returns : returns[t].status \in {"Received", "Refunded"}} = {}
      BY DEF Init, ShippedOrBeyond
    <3> QED BY <3>1, SumEmpty DEF Units
  <2>3. ReturnsCountedOnce
    BY <2>2 DEF Init, ReturnsCountedOnce
  <2>4. recomputeOrderFulfillmentStatus("Pending", fulfillments, returns) = "Unfulfilled"
    <3>1. ~(Units(returns, {"Refunded"}) >= Quantity)
      BY <2>2, QuantityAssumption
    <3> QED BY <2>2, <3>1 DEF recomputeOrderFulfillmentStatus
  <2> QED BY <2>1, <2>3, <2>4 DEF Init, FulfillmentStatusMatchesShipments
<1>2. TypeOK /\ TypeOK' /\ SavesInv /\ ReturnsCountedOnce /\ FulfillmentStatusMatchesShipments
        /\ [Next]_vars
      => SavesInv' /\ ReturnsCountedOnce' /\ FulfillmentStatusMatchesShipments'
  BY SavesStep, CountersStep
<1> QED BY <1>1, <1>2, TypeCorrect, PTL DEF Spec

\* The stored fulfillmentStatus is the roll-up of the shipments and returns,
\* or "Cancelled": optimisticConcurrency refuses every save() of a return that
\* was computed from an older copy of the order.
THEOREM RollUpIsCurrent == Spec => []FulfillmentStatusMatchesShipments
BY RollUpAlways, PTL

\* No return is counted twice in returnedQuantity or refundedQuantity, however
\* many requests move it at once (updateReturnStatusService).
THEOREM ReturnsCounted == Spec => []ReturnsCountedOnce
BY RollUpAlways, PTL

============================================================================
