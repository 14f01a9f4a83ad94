SPECIFICATION Spec
CONSTANTS
  r1 = r1
  r2 = r2
  Runs = {r1, r2}
  NOLOGIN = NOLOGIN
  CHANGE_ME = CHANGE_ME
  Missing = Missing
  MaxStarts = 4
  MaxDeaths = 1
SYMMETRY RunSymmetry
INVARIANTS
  TypeOK
  NothingBrokenInSilence
  EditsStay
PROPERTIES
  LoneRunSetsUp
  WorkingPasswordsStay
