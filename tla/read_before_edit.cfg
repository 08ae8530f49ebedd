SPECIFICATION Spec
CONSTANTS
  s1 = s1
  d1 = d1
  a = a
  dotA = dotA
  aTail = aTail
  c1 = c1
  c2 = c2
  i1 = i1
  i2 = i2
  Absent = Absent
  NoName = NoName
  Session = {s1}
  Dir = {d1}
  Path = {a}
  Spelling = {a, dotA, aTail}
  Untidy = {aTail}
  Id = {i1, i2}
  Content = {c1, c2}
  DirOf <- MCDirOf
  Rel <- MCRel
  MaxParallel = 2
  MaxRequests = 2
  MaxTurns = 2
  MaxCalls = 1
  MaxOutside = 1
  MaxSent = 0
  OutsideAnytime = FALSE
SYMMETRY MCSymmetry
INVARIANTS
  PlainlyVouchedIsVisible
PROPERTIES
  NoBlindOverwrite
  OnlyALookRestoresTrust
CHECK_DEADLOCK FALSE
