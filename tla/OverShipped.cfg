\* A payload that names the line twice ships it beyond its quantity.
SPECIFICATION Spec
CONSTANTS
  Quantity = 2
  FulfillmentIds = {f1, f2}
  ReturnIds = {t1}
  Requests = {r1, r2}
  MaxAsked = 2
INVARIANT FulfilledWithinOrdered
SYMMETRY Symmetry
CHECK_DEADLOCK FALSE
