SPECIFICATION FairSpec
CONSTANTS
  Fields = {comment}
  Null = Null
  Ids = {a}
  Pace = "any"
  UserMoves = {}
  OtherMoves = {"acknowledge"}
  MaxUser = 2
  MaxOther = 1
  MaxFaults = 2
  MaxReloads = 1
  MaxPairs = 0
  MayFill = FALSE
  MayRefuse = TRUE
  InitialServer <- OnePending
PROPERTIES QueuedEnds GreenIsCurrent
CHECK_DEADLOCK FALSE
