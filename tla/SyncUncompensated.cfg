SPECIFICATION FairSpec
CONSTANTS
  Emails = {e1}
  Repos = {r1}
  MaxSagas = 1
  MaxFaults = 1
  MaxQueue = 0
  SweepLimit = 100
  Clients = {c1}
  Requests = {"subscribe"}
PROPERTY
  CompensatedOnAnyError
CHECK_DEADLOCK FALSE
