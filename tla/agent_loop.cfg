SPECIFICATION FairSpec
CONSTANTS
  r = r
  w = w
  Key = {r, w}
  Safe = {r}
  Conversations <- MCConversations
  ReplyCost = {1, 4}
  Limit = 9
  RetainBudget = 3
  PruneAbove = 2
  MaxCalls <- MCMaxCalls
  MaxParallel = 2
  MaxIterations = 3
  RepeatThreshold = 2
INVARIANTS
  RequestsAnswered
  WritesAreBarriers
  RepeatsStop
PROPERTIES
  PromptAndTaskKept
  RunEnds
CHECK_DEADLOCK FALSE
