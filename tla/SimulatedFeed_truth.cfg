SPECIFICATION FeedSpec
CONSTANTS
  TicksPerHour = 2
  HoursPerDay = 4
  None = None
  Start = 1
  WindowHours = 4
  BenignEvents = 2
  BenignKinds = {"fumble", "sudo"}
  FumbleDelays = {1}
  Attempts = 3
  BurstWidth = 2
  Jitter = 1
  BreachDelays = {1}
  BurstMargin = 2
  OffHoursStart = 3
  OffHoursEnd = 1
  OffHourPreference <- MCPreference
  FallbackHour = 3
  Keywords = {"sudo su"}
  SudoSpacing = 1
  SudoDelays = {1}
  EscalationMargin = 5
  MalformedLines = 1
  Threshold = 3
  RuleWindow = 3
INVARIANTS
  GroundTruthDetected
  WindowRespected
CHECK_DEADLOCK FALSE
