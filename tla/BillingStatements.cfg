\* Two orders of total 2 at 50 percent under a cap of 1, two operators, and
\* four requests of any kind.
SPECIFICATION Spec
CONSTANTS
  Orders = {o1, o2}
  Deliveries = {d1, d2}
  Refunds = {r1, r2}
  Adjustments = {j1}
  Total = 2
  Percent = 50
  PeriodCap = 1
  Operators = {w1, w2}
  BaseFee = 1
  MaxRequests = 4
SYMMETRY Symmetry
INVARIANTS
  TypeOK
  BooksBalance
PROPERTIES
  OverReversedOnlyByStaleRead
  CapExceededOnlyByStaleRead
  PaidIsFinal
CHECK_DEADLOCK FALSE
