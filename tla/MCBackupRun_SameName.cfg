SPECIFICATION Spec
CONSTANTS
  Order <- MCNamesakes
  DeStem <- MCNamesakeStems
  Holds <- MCNamesakesHold
  Debuggable = {}
  AbFile = "ab"
  Extras <- MCNone
  Options <- MCRootData
  MaxRuns = 1
CHECK_DEADLOCK FALSE
INVARIANT
  EveryListedVerifies
