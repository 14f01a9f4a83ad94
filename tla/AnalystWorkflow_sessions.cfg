SPECIFICATION Spec
CONSTANTS
  None = None
  Sessions = {s1, s2}
  Notes = {"fixed"}
  Analysts = {"ann"}
SYMMETRY SessionSymmetry
INVARIANTS
  TypeOK
  ClosedHasNotes
  StampedIffClosed
PROPERTY FinalStaysFinal
