SPECIFICATION Spec
CONSTANTS
  Emails = {e1}
  Repos = {r1}
  MaxSagas = 2
  MaxFaults = 1
  MaxQueue = 2
  BatchLimit = 100
  SweepLimit = 100
  MaxAttempts = 2
  MaxTries = 2
  Clients = {c1}
  Requests = {"subscribe"}
INVARIANTS
  TypeOK
  DecisionHasCause
  PendingIsDriven
  StatusIsExplained
  NothingLostWithoutFaults
  ExactlyOnceWithoutFaults
PROPERTY
  ImplementsOutcome
CHECK_DEADLOCK FALSE
