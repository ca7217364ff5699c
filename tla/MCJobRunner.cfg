SPECIFICATION FairSpec
CONSTANTS
  Requests = {r1, r2}
  Free = Free
  MaxJobs = 2
  MaxInterrupts = 1
INVARIANTS
  OneLiveWorker
  JoinUnderLockIsSafe
  EveryWorkerIsJoinable
  SinkIsTheWorkers
  CancelStaysVisible
PROPERTIES
  KeepsContract
  StartIsAnswered
