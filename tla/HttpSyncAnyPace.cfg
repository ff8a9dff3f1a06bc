SPECIFICATION Spec
CONSTANTS
  Fields = {comment}
  Null = Null
  Ids = {a}
  Pace = "any"
  UserMoves = {"dismiss", "reopen"}
  OtherMoves = {"acknowledge", "claimFix"}
  MaxUser = 2
  MaxOther = 2
  MaxFaults = 0
  MaxReloads = 0
  MaxPairs = 0
  MayFill = FALSE
  MayRefuse = FALSE
  InitialServer <- OnePending
PROPERTY HistoryGrows
CHECK_DEADLOCK FALSE
