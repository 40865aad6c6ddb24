SPECIFICATION FairSpec
CONSTANTS
  Emails = {e1}
  Repos = {r1}
  MaxSagas = 2
  MaxFaults = 1
  MaxQueue = 0
  SweepLimit = 100
  Clients = {c1, c2}
  Requests = {"subscribe", "unsubscribe"}
INVARIANTS
  TypeOK
  SyncCompletedMeansMailed
  SyncPendingNotFailed
PROPERTIES
  SyncDecidedOnce
  SyncOutcomeWithoutFaults
  SyncSagaEnds
CHECK_DEADLOCK FALSE
