SPECIFICATION Spec
CONSTANTS
  InLen = 3
  ErrLen = 2
  Capacity = 1
CHECK_DEADLOCK FALSE
INVARIANTS
  OutputIsWhole
  EndOfInputIsTheEnd
  CancelledIsTruthful
PROPERTIES
  RunReturns
  CancelReturns
