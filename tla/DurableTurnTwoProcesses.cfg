SPECIFICATION Spec
CONSTANTS
  k1 = k1
  w1 = w1
  w2 = w2
  None = None
  Workers = {w1, w2}
  StopKeys = {k1}
  Observers = {}
  Drainable = {}
  MaximumAttempts = 1
  MaxClaims = 2
  MaxResumes = 0
  MaxEvents = 0
  MaxFaults = 1
SYMMETRY Symmetry
INVARIANTS
  StopReachesWork
CHECK_DEADLOCK FALSE
