SPECIFICATION FairSpec
CONSTANTS
  bash = bash
  c1 = c1
  c2 = c2
  Bash = bash
  Child = {c1, c2}
  Sizes <- MCSizes
  MaxPrinted = 5
INVARIANTS
  OutputKept
  OutputIsWhole
  TimeoutClearsGroup
PROPERTY
  RunEnds
CHECK_DEADLOCK FALSE
