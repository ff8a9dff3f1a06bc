SPECIFICATION DriftSpec
CONSTANTS
  Fields = {comment, quality}
  Null = Null
  Texts = {1, 2}
  MaxEvents = 4
  MaxRev = 4
INVARIANTS HistoryKept NothingLost ServerEditsKept RetryNotDuplicated
CHECK_DEADLOCK FALSE
