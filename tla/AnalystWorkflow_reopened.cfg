SPECIFICATION Spec
CONSTANTS
  None = None
  Sessions = {s1, s2}
  Notes = {"fixed"}
  Analysts = {"ann"}
PROPERTIES
  ClosedIsTerminal
