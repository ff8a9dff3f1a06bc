SPECIFICATION Spec
CONSTANTS
  Fields = {comment}
  Null = Null
  Ids = {a}
  Pace = "shown"
  UserMoves = {"dismiss", "reopen"}
  OtherMoves = {"claimFix"}
  MaxUser = 2
  MaxOther = 1
  MaxFaults = 2
  MaxReloads = 1
  MaxPairs = 1
  MayFill = TRUE
  MayRefuse = TRUE
  InitialServer <- NoneOrPending
INVARIANTS NothingDiscarded SyncedIsTrue
PROPERTIES QueueIsDurable
CHECK_DEADLOCK FALSE
