SPECIFICATION Spec
CONSTANTS
  r1 = r1
  r2 = r2
  Request = {r1, r2}
  Calls <- MCCalls
  Configs <- MCConfigs
  Allowlists = {{}, {"read"}}
  Left = {0, 1}
  RepeatThreshold = 2
  MaxCalls = 3
  MaxServers = 2
SYMMETRY MCSymmetry
INVARIANTS
  GapsAreReported
  RunsAsAnswered
CHECK_DEADLOCK FALSE
