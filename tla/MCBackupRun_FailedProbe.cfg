SPECIFICATION Spec
CONSTANTS
  Order <- MCOrder
  DeStem <- MCStems
  Holds <- MCHolds
  Debuggable = {}
  AbFile = "ab"
  Extras <- MCNone
  Options <- MCRootData
  MaxRuns = 1
CHECK_DEADLOCK FALSE
INVARIANT
  NothingMeansNothing
