SPECIFICATION Spec
CONSTANTS
  Emails = {e1}
  Repos = {r1}
  MaxSagas = 1
  MaxFaults = 1
  MaxQueue = 1
  BatchLimit = 100
  SweepLimit = 100
  MaxAttempts = 1
  MaxTries = 2
  Clients = {c1}
  Requests = {"subscribe"}
INVARIANT
  CompletedMeansMailed
CHECK_DEADLOCK FALSE
