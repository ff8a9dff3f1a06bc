SPECIFICATION Spec
CONSTANTS
  Null = Null
  a = a
  b = b
  t1 = t1
  t2 = t2
  g1 = g1
  Ids = {a, b}
  Tabs = {t1, t2}
  Agents = {g1}
  TabMoves = {"acknowledge"}
  AgentMoves = {"claimFix"}
  Tables <- MCTables
  ImportFile <- MCImport
  OnError = "throw"
  OneAtATime = TRUE
  MaxAttempts = 2
  MaxMade = 2
  MaxImports = 1
  MaxFaults = 1
PROPERTIES StaleNeverOverwrites
CHECK_DEADLOCK FALSE
