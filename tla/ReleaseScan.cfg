SPECIFICATION Spec
CONSTANTS
  Repos = {r1}
  MaxTag = 2
  MaxRetracts = 1
  Tokens = {t1, t2}
  MaxFaults = 1
  FreshBroker = TRUE
  MaxStops = 0
  MaxQueue = 1
SYMMETRY TokenSymmetry
INVARIANTS
  TypeOK
  DuplicatesNeedDedupLoss
  OwedIsOnItsWay
PROPERTY
  OldTagNeedsACause
CHECK_DEADLOCK FALSE
