SPECIFICATION FairClientSpec
CONSTANTS
  k1 = k1
  k2 = k2
  m1 = m1
  Call = {k1, k2}
  Model = {m1}
  Unnamed = Unnamed
  Configured <- MCConfigured
  AgentRequest <- MCAgentRequest
  Rules <- MCRules
  MaxRetries = 1
  MaxAutoFixes = 3
INVARIANTS
  SendsBounded
PROPERTIES
  LearnedStaysAway
  CompleteEnds
CHECK_DEADLOCK FALSE
