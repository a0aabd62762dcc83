SPECIFICATION Spec
CONSTANTS
  k1 = k1
  k2 = k2
  Keys <- MCKeys
  Window = 2
  Max = 2
  MaxArrivals = 5
  LastArrival = 3
INVARIANTS
  TypeOK
  DecisionsFollowHistory
  OneSummaryPerCappedWindow
CHECK_DEADLOCK FALSE
SYMMETRY MCSymmetry
