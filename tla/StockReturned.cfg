\* Cancelling an order that never took its units.
SPECIFICATION Spec
CONSTANTS
  Orders = {o1, o2}
  Requests = {r1}
  MaxQuantity = 2
  InitialStock = 2
  MaxUnits = 1
  MaxStock = 2
  MaxOverReturn = 1
INVARIANT ReturnsOnlyWhatItTook
SYMMETRY Symmetry
