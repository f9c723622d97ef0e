CONSTANTS
  H = 2
  HistoryLines = 7
  Word = 8
  Zones <- OneZone
  Tokens = {blank, a}
  Blank = blank
  Foreign = foreign
  MaxImage = 0
  WideChars = FALSE
  TallImages = FALSE
  MaxPending = 1
SPECIFICATION Spec
PROPERTIES ScrollShiftsRegion
