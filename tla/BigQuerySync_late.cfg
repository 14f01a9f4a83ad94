SPECIFICATION Spec
CONSTANTS
  NoStage = NoStage
  f1 = f1
  f2 = f2
  d1 = d1
  d2 = d2
  Syncs = {s1}
  Writers = {w1, w2}
  Alerts = {a1}
  Feeds = {}
  Days = {}
  DaysOf <- MCDaysOf
  MaxTransactions = 2
  MaxMishaps = 0
INVARIANT AlertsSynced
