SPECIFICATION FairSpec
CONSTANTS
  NoStage = NoStage
  f1 = f1
  f2 = f2
  d1 = d1
  d2 = d2
  Syncs = {s1, s2}
  Writers = {w1, w2}
  Alerts = {a1}
  Feeds = {f1, f2}
  Days = {d1, d2}
  DaysOf <- MCDaysOf
  MaxTransactions = 2
  MaxMishaps = 1
INVARIANTS
  TypeOK
  AlertsSyncedIfTrusted
  LogsSyncedIfTrusted
PROPERTIES
  ChangesArrive
