\* Two orders of up to two units against two units on hand, one status write
\* in flight.
SPECIFICATION Spec
CONSTANTS
  Orders = {o1, o2}
  Requests = {r1}
  MaxQuantity = 2
  InitialStock = 2
  MaxUnits = 1
  MaxStock = 2
  MaxOverReturn = 1
INVARIANTS
  TypeOK
  HoldsWhatItsLineSays
  TakesAtMostItsLine
PROPERTIES
  StatusesFollowSpec
SYMMETRY Symmetry
