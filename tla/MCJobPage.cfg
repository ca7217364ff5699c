SPECIFICATION Spec
CONSTANTS
  MaxJobs = 2
  MaxLines = 2
  Slots <- MCSlots
  MaxClicks = 2
  MaxLost = 1
CHECK_DEADLOCK FALSE
INVARIANTS
  LogReadsInOrder
PROPERTIES
  RunningPanelEnds
