SPECIFICATION Spec
CONSTANTS
  None = None
  Torn = Torn
  TicksPerHour = 1
  HoursPerDay = 6
  Addresses = {"a", "b"}
  FeedNames = {1, 2, 3}
  FeedOf <- MCFeedOf
  CutLine <- Cut
  MaxCrashes = 1
  LogIds <- MCLogIds
  IdOf <- MCIdOf
  Keys <- MCKeys
  HighKeys <- MCHighKeys
  Detected <- MCDetected
  Evidence <- MCEvidence
  Position <- MCPosition
  LogOrder <- MCLogOrder
  Subject <- MCSubject
  Job = job
  Hands = {hand}
  Limits = {2}
  ParamLimit = 9
INVARIANTS
  WholeArrivals
  AttacksAlerted
PROPERTIES
  JobsProcessTheirFeed
  ImplementsBook
  LogsGetProcessed
