SPECIFICATION Spec
CONSTANTS
  TicksPerHour = 1
  HoursPerDay = 6
  None = None
  LogIds = {1, 2, 3}
  Keys <- MCKeys
  HighKeys <- MCHighKeys
  Detected <- MCDetected
  Evidence <- MCEvidence
  Position <- MCPosition
  LogOrder <- MCLogOrder
  Runners = {r1, r2}
  Limits = {0, 2}
  ParamLimit = 14
  MaxCrashes = 1
SYMMETRY RunnerSymmetry
INVARIANTS
  TypeOK
  BookMatchesRuns
  HighAlertsEscalated
  CountsAddUp
PROPERTIES
  ImplementsBook
