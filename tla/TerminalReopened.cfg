\* A status write decided before a cancellation lands after it.
SPECIFICATION Spec
CONSTANTS
  Quantity = 2
  FulfillmentIds = {f1, f2}
  ReturnIds = {t1}
  Requests = {r1, r2}
  MaxAsked = 2
PROPERTY TerminalStatusesStay
SYMMETRY Symmetry
CHECK_DEADLOCK FALSE
