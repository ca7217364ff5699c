SPECIFICATION RestoreSpec
CONSTANTS
  Order <- MCOrder
  DeStem <- MCStems
  Holds <- MCHolds
  Debuggable = {"foo"}
  AbFile = "ab"
  Extras <- MCExtras
  Options <- MCOptions
  MaxRuns = 1
  Choices <- MCChoices
  MaxRestores = 1
CHECK_DEADLOCK FALSE
INVARIANTS
  RestoredWasWritten
