SPECIFICATION Spec
CONSTANTS
  None = None
  Torn = Torn
  Addresses = {"a", "b"}
  Ingesters = {i1, i2}
  FeedNames = {f1}
  Contents <- MCContents
  CutLine <- MCCutLine
  MaxWrites = 2
  MaxCrashes = 1
INVARIANTS
  TypeOK
  TablesMatchFeeds
  InsertedAddsUp
  NoDeadlock
PROPERTIES
  ReingestIsNoOp
  LoadsEnd
