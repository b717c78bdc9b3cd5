\* One order that may be delivered by a request or by its last shipment.
SPECIFICATION Spec
CONSTANTS
  Orders = {o1}
  Deliveries = {d1}
  Refunds = {r1}
  Adjustments = {}
  Total = 2
  Percent = 50
  PeriodCap = 1
  Operators = {w1}
  BaseFee = 1
  MaxRequests = 3
INVARIANTS
  DeliveredIsCharged
CHECK_DEADLOCK FALSE
