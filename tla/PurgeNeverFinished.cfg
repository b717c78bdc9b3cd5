\* One store to be deleted, one failed wipe.
SPECIFICATION FairSpec
CONSTANTS
  Collections = {k1}
  Requests = {q1}
  MaxFailures = 1
  Changes = {}
  Runs = {}
  MaxClaims = 0
  MaxMonths = 0
  MaxStarts = 4
PROPERTIES
  PurgeFinishes
CHECK_DEADLOCK FALSE
