SPECIFICATION FairSpec
CONSTANTS
  Ingests = {i1}
  Operations = {o1}
  MaxRetries = 1
  Faulty = TRUE
  NoReplay = NoReplay

INVARIANTS
  TypeOK
  DeliveredIsComplete
  ReplayIsAlone
  RowFollowsItsAttempt
  OnlyStaleIsRefused
  SuspendedAwaitsNoCommit

PROPERTIES
  ImplementsIngestLifecycle
  ExecutionsEnd
