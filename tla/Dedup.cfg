CONSTANTS
  Ids = {i1, i2, i3, i4}
  Blank = Blank
  TTL = 2
  Every = 3
  Horizon = 7
SPECIFICATION Spec
SYMMETRY IdSymmetry
INVARIANTS
  CleanupIsRegular
PROPERTY
  NoReplayWithinTTL
