SPECIFICATION Spec
CONSTANTS
  Fields = {comment}
  Null = Null
  Ids = {a}
  Pace = "shown"
  UserMoves = {"dismiss", "reopen"}
  OtherMoves = {"acknowledge", "claimFix"}
  MaxUser = 2
  MaxOther = 2
  MaxFaults = 1
  MaxReloads = 0
  MaxPairs = 1
  MayFill = FALSE
  MayRefuse = TRUE
  InitialServer <- OnePending
PROPERTY HistoryGrows
CHECK_DEADLOCK FALSE
