SPECIFICATION Spec
CONSTANTS
  Requests = {r1, r2}
  Free = Free
  MaxJobs = 1
  MaxInterrupts = 1
INVARIANT
  NoStuckCancel
