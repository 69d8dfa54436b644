SPECIFICATION Spec
CONSTANTS
  k1 = k1
  w1 = w1
  w2 = w2
  None = None
  Workers = {w1, w2}
  StopKeys = {k1}
  Observers = {}
  Drainable = {}
  MaximumAttempts = 1
  MaxClaims = 3
  MaxResumes = 1
  MaxEvents = 0
  MaxFaults = 2
SYMMETRY Symmetry
INVARIANTS
  StoppedTurnNeverFails
  AcceptedStopIsCertain
  ExecutionBudget
CHECK_DEADLOCK FALSE
