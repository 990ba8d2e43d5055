SPECIFICATION SettlingSpec
CONSTANTS
  Deliveries = {d1, d2}
  Runs = {r1}
  NoAlarm = NoAlarm
  NoClaim = NoClaim
  UndoWindow = 1
  AlarmRetry = 2
  BaseDelay = 1
  MaxDelay = 2
  StaleTimeout = 3
  MaxAttempts = 2
  StartTime = 4
  Horizon = 5
  CalmTime = 6
  MaxTime = 20
  ClockRetreats = FALSE

ACTION_CONSTRAINT SettlingStep

INVARIANTS
  AlarmIsInTime

PROPERTIES
  EveryDeliverySettles

\* Once the calm has come and no mail is pending, nothing is left to happen.
CHECK_DEADLOCK FALSE
