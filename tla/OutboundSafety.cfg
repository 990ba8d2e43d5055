SPECIFICATION Spec
CONSTANTS
  Deliveries = {d1}
  Runs = {r1, r2}
  NoAlarm = NoAlarm
  NoClaim = NoClaim
  UndoWindow = 1
  AlarmRetry = 2
  BaseDelay = 1
  MaxDelay = 2
  StaleTimeout = 2
  MaxAttempts = 2
  StartTime = 3
  Horizon = 4
  CalmTime = 4
  MaxTime = 3
  ClockRetreats = TRUE

INVARIANTS
  TypeOK
  UnsentMeansUnsent
  RowsDecode
  PendingWorkIsArmed
  SuspendedIsQuiet

SYMMETRY RunSymmetry

PROPERTIES
  ImplementsLifecycle
  SuspensionFreezesBudget
