SPECIFICATION Spec
CONSTANTS
  p1 = p1
  p2 = p2
  Procs = {p1, p2}
  Pids = {11, 12}
  Port <- OwnPorts
  Ids = {a1}
  Written = {"pending"}
  Watches = {w1}
  StartsOverlap = FALSE
  MaxStarts = 3
  MaxWrites = 2
  MaxKills = 1
  MaxFaults = 1
  MaxStrangers = 1
  Null = Null
  Torn = Torn
INVARIANTS OneServer WritesOnCurrent IdleFolderIsCurrent SleepsWhileNothingIsPending
PROPERTIES IdentityKept FolderConverges
CHECK_DEADLOCK FALSE
