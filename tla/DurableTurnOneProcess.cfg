\* One process that may be drained, and two Stop identities.
SPECIFICATION SpecUnscanned
CONSTANTS
  k1 = k1
  k2 = k2
  o1 = o1
  w1 = w1
  None = None
  Workers = {w1}
  StopKeys = {k1, k2}
  Observers = {o1}
  Drainable = {w1}
  MaximumAttempts = 2
  MaxClaims = 4
  MaxResumes = 1
  MaxEvents = 0
  MaxFaults = 1
INVARIANTS
  StopReachesWork
PROPERTIES
  StopIsKept
  UndisturbedStopSettles
  ObserverResolves
CHECK_DEADLOCK FALSE
