CONSTANTS
  H = 3
  HistoryLines = 0
  Word = 16
  Zones <- OneZone
  Tokens = {blank, a}
  Blank = blank
  Foreign = foreign
  MaxImage = 3
  WideChars = FALSE
  TallImages = FALSE
  MaxPending = 2
SPECIFICATION Spec
INVARIANTS LinesPermutation DisplayMatchesBuffer PostponedSync ImageStaysInMargins
PROPERTIES ScrollShiftsRegion
