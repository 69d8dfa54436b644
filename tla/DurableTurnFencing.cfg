SPECIFICATION Spec
CONSTANTS
  o1 = o1
  w1 = w1
  w2 = w2
  None = None
  Workers = {w1, w2}
  StopKeys = {}
  Observers = {o1}
  Drainable = {}
  MaximumAttempts = 2
  MaxClaims = 2
  MaxResumes = 0
  MaxEvents = 2
  MaxFaults = 2
SYMMETRY Symmetry
INVARIANTS
  TypeOK
  FencedEvents
  ObserverSawEverything
PROPERTIES
  SettledForGood
CHECK_DEADLOCK FALSE
