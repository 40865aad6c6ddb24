SPECIFICATION FairSpec
CONSTANTS
  Emails = {e1}
  Repos = {r1}
  MaxSagas = 2
  MaxFaults = 1
  MaxQueue = 1
  BatchLimit = 100
  SweepLimit = 1
  MaxAttempts = 1
  MaxTries = 1
  Clients = {c1}
  Requests = {"subscribe", "unsubscribe"}
PROPERTY
  SweptIndependently
CHECK_DEADLOCK FALSE
