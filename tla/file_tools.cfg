SPECIFICATION FileToolsSpec
CONSTANTS
  MaxLines = 2
  MaxLineChars = 2
  MaxViewBytes = 2
  Marker = 1
  Context = 1
  GlobDefaultLimit = 2
  GlobMaxLimit = 3
  GlobMaxScan = 8
  GrepDefaultLimit = 2
  GrepMaxLimit = 3
  GrepMaxScan = 3
  MaxText = 3
  MaxEdits = 1
  Names <- MCNames
  Tree <- MCTree
  PathOrder <- MCPathOrder
  File <- MCFile
  Sample <- MCSample
  Texts <- MCTexts
  IgnoreFiles <- MCIgnoreFiles
  OldTexts <- MCOldTexts
  NewTexts <- MCNewTexts
  Patterns <- MCPatterns
INVARIANTS
  ReadingShowsAll
  EditIsExact
  AnswersAreTrue
