\* Two units, two shipments, one return and two requests in flight; a payload
\* asks for up to two units, so that it may name a line with one unit left twice.
SPECIFICATION Spec
CONSTANTS
  Quantity = 2
  FulfillmentIds = {f1, f2}
  ReturnIds = {t1}
  Requests = {r1, r2}
  MaxAsked = 2
INVARIANTS
  TypeOK
  FulfilledCounterExact
  ExcessInOneShipment
  FulfillmentStatusMatchesShipments
  ReturnsCountedOnce
PROPERTIES
  TerminalLostOnlyToStaleWrite
  StatusFollowsSpec
CHECK_DEADLOCK FALSE
SYMMETRY Symmetry
