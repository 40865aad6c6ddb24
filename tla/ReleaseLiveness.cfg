SPECIFICATION FairSpec
CONSTANTS
  Repos = {r1}
  MaxTag = 2
  MaxRetracts = 1
  Tokens = {t1}
  MaxFaults = 2
  FreshBroker = FALSE
  MaxStops = 1
  MaxQueue = 1
PROPERTY
  ScannerCatchesUp
CHECK_DEADLOCK FALSE
