\* Two operations on one store at a time, two changes of plan and two runs:
\* three operations of any kind, and one failure.
SPECIFICATION Spec
CONSTANTS
  Collections = {k1}
  Requests = {q1, q2}
  MaxFailures = 1
  Changes = {c1, c2}
  Runs = {n1, n2}
  MaxClaims = 2
  MaxMonths = 1
  MaxStarts = 3
SYMMETRY Symmetry
INVARIANTS
  TypeOK
  FlagsFollowState
  WipedOnlyWhenGone
  HeldByOneRun
PROPERTIES
  FollowsTable
CHECK_DEADLOCK FALSE
