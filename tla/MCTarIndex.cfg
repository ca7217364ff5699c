SPECIFICATION Spec
CONSTANTS
  Archives <- MCArchives
  CorruptSizes <- MCCorruptSizes
  MaxGrowths = 1
CHECK_DEADLOCK FALSE
INVARIANTS
  WholeMembersAreListed
  SlicesAreInside
  FoldersAddUp
