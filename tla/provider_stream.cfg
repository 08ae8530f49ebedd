SPECIFICATION StreamSpec
CONSTANTS
  a = a
  b = b
  Absent = Absent
  DonePiece = DonePiece
  ToolCall = {a, b}
  Position <- MCPosition
  Styles = {"indexed", "repeating", "nameless", "zero_omitted", "by_id", "bare"}
  MaxChunks = 3
  MaxEvent = 2
  MaxFiller = 1
INVARIANTS
  NothingLostOrTorn
  AssembledAsMeant
CHECK_DEADLOCK FALSE
