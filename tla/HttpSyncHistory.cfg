SPECIFICATION Spec
CONSTANTS
  Fields = {comment}
  Null = Null
  Ids = {a}
  Pace = "any"
  UserMoves = {"dismiss"}
  OtherMoves = {"acknowledge"}
  MaxUser = 2
  MaxOther = 2
  MaxFaults = 2
  MaxReloads = 1
  MaxPairs = 1
  MayFill = FALSE
  MayRefuse = TRUE
  InitialServer <- NoneOrPending
PROPERTY OnlyStaleSavesRewrite
CHECK_DEADLOCK FALSE
