SPECIFICATION FairSpec
CONSTANTS
  Emails = {e1}
  Repos = {r1}
  MaxSagas = 1
  MaxFaults = 1
  MaxQueue = 1
  BatchLimit = 100
  SweepLimit = 100
  MaxAttempts = 2
  MaxTries = 2
  Clients = {c1}
  Requests = {"subscribe", "confirm", "unsubscribe"}
PROPERTIES
  EverySagaDecided
  CompensationFinishes
CHECK_DEADLOCK FALSE
