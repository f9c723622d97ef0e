CONSTANTS
  NR_IM_WINS = 1
  NR_WIN_MSGS = 1
  Cursors = {c1, c2}
  NoRect = norect
  Timeouts = FALSE
  Crashes = FALSE
  MaxUnread = 4
  MaxValid = 3
SPECIFICATION Spec
INVARIANTS HiddenDrawsNothing
