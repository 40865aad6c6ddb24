SPECIFICATION Spec
CONSTANTS
  Repos = {r1}
  MaxTag = 1
  MaxRetracts = 0
  Tokens = {t1}
  MaxFaults = 0
  FreshBroker = TRUE
  MaxStops = 0
  MaxQueue = 1
INVARIANT
  StartOrderIsFree
CHECK_DEADLOCK FALSE
