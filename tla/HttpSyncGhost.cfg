SPECIFICATION FairSpec
CONSTANTS
  Fields = {comment}
  Null = Null
  Ids = {a}
  Pace = "shown"
  UserMoves = {"dismiss"}
  OtherMoves = {"acknowledge"}
  MaxUser = 0
  MaxOther = 1
  MaxFaults = 1
  MaxReloads = 1
  MaxPairs = 0
  MayFill = FALSE
  MayRefuse = FALSE
  InitialServer <- OnePending
PROPERTY Converges
CHECK_DEADLOCK FALSE
