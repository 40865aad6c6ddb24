SPECIFICATION Spec
CONSTANTS
  Repos = {r1}
  MaxTag = 1
  MaxRetracts = 0
  Tokens = {t1}
  MaxFaults = 0
  FreshBroker = FALSE
  MaxStops = 1
  MaxQueue = 1
INVARIANT
  AtLeastOnce
CHECK_DEADLOCK FALSE
