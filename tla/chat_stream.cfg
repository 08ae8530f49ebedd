SPECIFICATION FairSpec
CONSTANTS
  c1 = c1
  c2 = c2
  Call = {c1, c2}
  Handler = Handler
  Keepalive = Keepalive
  MaxTurns = 2
  MaxCalls <- MCMaxCalls
  MaxTicks = 1
  MaxPieces = 1
  Layers <- MCLayers
  Requests <- MCRequests
INVARIANTS
  AdmittedAsAsked
  StreamWellFormed
  ClientIsTold
PROPERTIES
  QuietAfterReturn
  StreamEnds
CHECK_DEADLOCK FALSE
