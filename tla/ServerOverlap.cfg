SPECIFICATION Spec
CONSTANTS
  p1 = p1
  p2 = p2
  Procs = {p1, p2}
  Pids = {11, 12}
  Port <- OwnPorts
  Ids = {a1}
  Written = {"pending"}
  Watches = {w1}
  StartsOverlap = TRUE
  MaxStarts = 3
  MaxWrites = 2
  MaxKills = 1
  MaxFaults = 1
  MaxStrangers = 0
  Null = Null
  Torn = Torn
INVARIANT OneServer
CHECK_DEADLOCK FALSE
