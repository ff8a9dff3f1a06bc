SPECIFICATION Spec
CONSTANTS
  Fields = {comment}
  Null = Null
  Ids = {a}
  Pace = "shown"
  UserMoves = {"dismiss"}
  OtherMoves = {}
  MaxUser = 3
  MaxOther = 1
  MaxFaults = 2
  MaxReloads = 1
  MaxPairs = 0
  MayFill = FALSE
  MayRefuse = FALSE
  InitialServer <- NoStore
PROPERTY HistoryGrows
CHECK_DEADLOCK FALSE
