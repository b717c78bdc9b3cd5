\* Two attempts, of one cart or of two, with a key of the client's or of the
\* cart's, on a card that covers one order, or half of another once it is adjusted.
SPECIFICATION Spec
CONSTANTS
  Attempts = {a1, a2}
  Carts = {k1, k2}
  ClientKeys = {x1}
  Admins = {m1}
  Price = 2
  InitialBalance = 2
  UsageLimit = 1
  MaxEdits = 1
INVARIANTS
  TypeOK
  OneOrderPerCart
  DebitsMatchOrders
  UsesOfCodeCounted
  RedeemedMeansEmpty
PROPERTIES
  DisabledLostOnlyToStaleCopy
SYMMETRY Symmetry
CHECK_DEADLOCK FALSE
