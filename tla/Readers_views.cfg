SPECIFICATION Spec
CONSTANTS
  None = None
  a1 = a1
  a2 = a2
  a3 = a3
  ReaderKinds = {"report", "dashboard"}
  Alerts = {a1, a2, a3}
  Severity <- MCSeverity
  TriggeredAt <- MCTriggeredAt
  Technique <- MCTechnique
  Recent = {a1, a2, a3}
  TopLimit = 2
  TTL = 2
  MaxChanges = 3
INVARIANTS
  TypeOK
  ReportTotalsGrow
  UndisturbedReportAgrees
  TracesNotEmpty
  CurrentWhenQuiet
