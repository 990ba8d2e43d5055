SPECIFICATION Spec
CONSTANTS
  Deliveries = {d1}
  Runs = {r1}
  NoAlarm = NoAlarm
  NoClaim = NoClaim
  UndoWindow = 1
  AlarmRetry = 2
  BaseDelay = 1
  MaxDelay = 2
  StaleTimeout = 2
  MaxAttempts = 2
  StartTime = 3
  Horizon = 5
  CalmTime = 5
  MaxTime = 6
  ClockRetreats = FALSE

INVARIANTS
  AcceptanceCanSettle
