SPECIFICATION Spec
CONSTANTS
  k1 = k1
  k2 = k2
  i1 = i1
  i2 = i2
  d1 = d1
  Client = {k1, k2}
  Id = {i1, i2}
  CallerDir = {d1}
  Sweeper = Sweeper
  Main = Main
  Nobody = Nobody
  Owned = Owned
  Unused = Unused
  Drains = FALSE
  MaxRestarts = 1
SYMMETRY MCSymmetry
INVARIANTS
  OneRunPerSession
  DestroyedOnce
  NothingLeaks
PROPERTIES
  OnlyDeadWorkspacesRemoved
  LifeImplemented
CHECK_DEADLOCK FALSE
