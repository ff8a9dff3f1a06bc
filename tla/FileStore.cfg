SPECIFICATION FairSpec
CONSTANTS
  Null = Null
  c1 = c1
  c2 = c2
  c3 = c3
  op1 = op1
  a = a
  b = b
  Calls = {c1, c2, c3}
  OpIds = {op1}
  EventIds = {c1, c2, c3, op1}
  Ids = {a, b}
  Contents = {1, 2}
  CallKinds <- AllButSave
  WidgetMoves = {"reject"}
  AgentMoves = {"claimFix"}
  Initial <- HalfFull
  Recreate = FALSE
  MaxCrashes = 1
INVARIANTS TypeOK LoadedIsCurrent EventOnce StatusExplained WinIsDurable
PROPERTIES HistoryGrows StaleNeverOverwrites Linearizable EveryCallSettles
CHECK_DEADLOCK FALSE
