SPECIFICATION Spec
CONSTANTS
  Fields = {comment}
  Null = Null
  Ids = {a}
  Pace = "idle"
  UserMoves = {"dismiss", "reopen"}
  OtherMoves = {"acknowledge", "claimFix"}
  MaxUser = 3
  MaxOther = 2
  MaxFaults = 2
  MaxReloads = 1
  MaxPairs = 0
  MayFill = FALSE
  MayRefuse = FALSE
  InitialServer <- OnePending
INVARIANT NothingDiscarded
CHECK_DEADLOCK FALSE
