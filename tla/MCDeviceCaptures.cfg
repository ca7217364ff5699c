SPECIFICATION Spec
CONSTANTS
  Lists <- MCLists
  Requests <- MCRequests
  Present <- MCPresent
  Cards <- MCCards
  Entries <- MCEntries
  MaxRuns = 2
  MaxRestores = 1
  MaxTroubles = 1
CHECK_DEADLOCK FALSE
INVARIANTS
  CollapseIsMinimal
  CapturesAreTheirOwn
  SuccessHasEveryPath
  SharedRestoredIsTrue
