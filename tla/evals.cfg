SPECIFICATION FairSpec
CHECK_DEADLOCK FALSE
CONSTANTS
  Fallback = 2
  Private = {".git"}
  Dir = {d1, d2, d3}
  TurnCounts = {1, 2}
  Stops = {"complete", "max_iterations"}
  Settings <- MCSettings
  Entries <- MCEntries
  Onlys <- MCOnlys
  InOrder <- MCInOrder
  Trees <- MCTrees
  Baselines <- MCBaselines
INVARIANTS
  MeasuresTheAgent
  VerdictIsHonest
PROPERTIES
  EveryRunIsCounted
  SuiteEnds
