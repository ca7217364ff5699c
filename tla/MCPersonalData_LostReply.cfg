SPECIFICATION Spec
CONSTANTS
  Device <- MCDevice
  Keyed = {"ada", "eve"}
  Named = {"ada", "bob"}
  Undated = {"e2"}
  PartType <- MCPartType
  Stores <- MCStores
  Expressible = {"home", "former"}
  Rooted = TRUE
  OldPhone = FALSE
  PerRead = 2
  MaxRuns = 2
  MaxRestores = 1
  MaxTroubles = 2
CHECK_DEADLOCK FALSE
INVARIANT
  SkippedIsMissing
