SPECIFICATION Spec
CONSTANTS
  InLen = 1
  ErrLen = 0
  Capacity = 1
CHECK_DEADLOCK FALSE
PROPERTY
  TermThenKill
