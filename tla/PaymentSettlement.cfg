\* Two requests at a time on an order of total 2, with one event of each kind
\* from Stripe and one stop of the server.  No symmetry: CapturesSettle is a
\* liveness property.
SPECIFICATION FairSpec
CONSTANTS
  Handlers = {p1, p2}
  SuccessEvents = {s1}
  FailureEvents = {f1}
  AuthEvents = {a1}
  Total = 2
  MaxVerified = 1
  MaxCrashes = 1
INVARIANTS
  TypeOK
  RefundsWithinTotal
  RefundLedgerExact
  RefundsOnlyOfPaidOrders
  RefundedMeansAll
PROPERTIES
  SettledLostOnlyToStaleWrite
  CapturesSettle
