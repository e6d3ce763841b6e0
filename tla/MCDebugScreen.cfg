SPECIFICATION Spec
CONSTANTS
  MX = 3
  MY = 3
  BufSize = 12
  TabWidth = 5
  Texts <- MCTexts
INVARIANTS
  TypeOK
  PlainTextMoves
  FittingTextKeepsRows
  EnteredRowIsWiped
PROPERTIES
  PrintEnds
