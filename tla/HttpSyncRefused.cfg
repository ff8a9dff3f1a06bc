SPECIFICATION FairSpec
CONSTANTS
  Fields = {comment}
  Null = Null
  Ids = {a}
  Pace = "any"
  UserMoves = {"dismiss"}
  OtherMoves = {"acknowledge"}
  MaxUser = 1
  MaxOther = 0
  MaxFaults = 1
  MaxReloads = 0
  MaxPairs = 0
  MayFill = FALSE
  MayRefuse = FALSE
  InitialServer <- OnePending
PROPERTY OutboxDrains
CHECK_DEADLOCK FALSE
