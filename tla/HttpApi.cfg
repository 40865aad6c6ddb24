SPECIFICATION FairSpec
CONSTANTS
  Emails = {e1}
  Repos = {r1}
  MaxSagas = 2
  MaxFaults = 1
  MaxQueue = 1
  MaxTries = 1
  MaxRetries = 1
  MaxChanges = 1
  Clients = {c1, c2}
  Requests = {"subscribe", "confirm", "unsubscribe"}
INVARIANTS
  TypeOK
  StatusIsExplained
  VerdictHasGrounds
  ConfirmedIsTracked
  LiveSagaOwnsPair
PROPERTIES
  EveryRequestEnds
  RefusalEnds
CHECK_DEADLOCK FALSE
