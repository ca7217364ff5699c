SPECIFICATION FairSpec
CONSTANTS
  Order <- MCOrder
  DeStem <- MCStems
  Holds <- MCHolds
  Debuggable = {"foo"}
  AbFile = "ab"
  Extras <- MCExtras
  Options <- MCOptions
  MaxRuns = 2
CHECK_DEADLOCK FALSE
INVARIANTS
  FreshManifestVerifies
  SuccessIsComplete
  TroubleIsMarked
  EmptyAndCleanWasReached
PROPERTIES
  KeepsItsWord
  CancelEndsTheRun
