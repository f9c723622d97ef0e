CONSTANTS
  NR_IM_WINS = 2
  NR_WIN_MSGS = 1
  Cursors = {c1, c2}
  NoRect = norect
  Timeouts = TRUE
  Crashes = TRUE
  MaxUnread = 3
  MaxValid = 3
SPECIFICATION FairSpec
INVARIANTS ImTypeOK DrawsInOwnWindow RedrawsEveryWindow RawModeFollowsServer
PROPERTIES DrawingsAreKept HideIsAnswered SetWindowReturns
