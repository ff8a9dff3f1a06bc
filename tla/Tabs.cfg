SPECIFICATION Spec
CONSTANTS
  Null = Null
  Unknown = Unknown
  Legacy = Legacy
  a = a
  TabNames = {t1, t2}
  Projects = {p1, p2}
  Writes <- MCWrites
  Locks = TRUE
  Buffered <- MCBuffered
  MaxCalls = 1
  MaxOps = 1
  MaxPairs = 1
  MaxTroubles = 2
INVARIANTS NoStrays QueueKept SentOnce
SYMMETRY Symmetry
CHECK_DEADLOCK FALSE
