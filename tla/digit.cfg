CONSTANTS
  unset = unset
  Unset = unset
  Files <- NegativeFiles
  Requests <- AllRequests
SPECIFICATION Spec
INVARIANT CountdownIsDigit
CHECK_DEADLOCK FALSE
