SPECIFICATION DriftSpec
CONSTANTS
  Fields = {comment}
  Null = Null
  Texts = {1}
  MaxEvents = 4
  MaxRev = 4
INVARIANT NeverRolledBack
CHECK_DEADLOCK FALSE
