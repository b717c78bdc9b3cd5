\* The plan change of a store that is then deleted for good, one of another
\* store, and one run at the end of the month.
SPECIFICATION Spec
CONSTANTS
  Collections = {}
  Requests = {q1}
  MaxFailures = 0
  Changes = {c1, c2}
  Runs = {n1}
  MaxClaims = 2
  MaxMonths = 1
  MaxStarts = 4
SYMMETRY Symmetry
INVARIANTS
  EveryDueChangeTried
CHECK_DEADLOCK FALSE
