SPECIFICATION Spec
CONSTANTS
  k1 = k1
  w1 = w1
  None = None
  Workers = {w1}
  StopKeys = {k1}
  Observers = {}
  Drainable = {}
  MaximumAttempts = 1
  MaxClaims = 2
  MaxResumes = 0
  MaxEvents = 0
  MaxFaults = 0
SYMMETRY Symmetry
INVARIANTS
  StopWaitsForHandle
CHECK_DEADLOCK FALSE
