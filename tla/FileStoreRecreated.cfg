SPECIFICATION Spec
CONSTANTS
  Null = Null
  c1 = c1
  c2 = c2
  c3 = c3
  c4 = c4
  op1 = op1
  a = a
  Calls = {c1, c2, c3, c4}
  OpIds = {op1}
  EventIds = {c1, c2, c3, c4, op1}
  Ids = {a}
  Contents = {1, 2}
  CallKinds <- AllButSave
  WidgetMoves = {"dismiss"}
  AgentMoves = {"claimFix", "acknowledge"}
  Initial <- OnlyFull
  Recreate = TRUE
  MaxCrashes = 1
SYMMETRY Symmetry
PROPERTY StaleNeverOverwrites
CHECK_DEADLOCK FALSE
