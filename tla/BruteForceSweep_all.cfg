SPECIFICATION Spec
CONSTANTS
  TicksPerHour = 1
  HoursPerDay = 2
  None = None
  MaxLogs = 4
  LastTick = 3
  Ips = {"a", "b"}
  Thresholds = {0, 2, 3}
  Windows = {0, 1, 2}
  Rules <- MCRules
  Batches <- MCBatches
INVARIANTS
  TypeOK
  SweepInvariant
  ResultCorrect
PROPERTY Termination
CHECK_DEADLOCK FALSE
