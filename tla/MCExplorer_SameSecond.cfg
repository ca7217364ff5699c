SPECIFICATION Spec
CONSTANTS
  Requests = {r1, r2}
  Nobody = Nobody
  MaxAccepts = 2
  MaxWrites = 2
  Size <- SizeHere
  Lengths <- EdgeLengths
  Ranges <- EdgeRanges
SYMMETRY Interchangeable
CHECK_DEADLOCK FALSE
INVARIANTS
  ListingIsFresh
