CONSTANTS
  H = 2
  HistoryLines = 3
  Word = 16
  Zones <- OneZone
  Tokens = {blank, a}
  Blank = blank
  Foreign = foreign
  MaxImage = 2
  WideChars = TRUE
  TallImages = TRUE
  MaxPending = 1
SPECIFICATION Spec
INVARIANTS TypeOK ViewAtBottom
PROPERTIES ImplementsScrollback
