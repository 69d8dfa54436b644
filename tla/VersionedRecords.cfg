SPECIFICATION RecordsSpec
CONSTANTS
  Callers = {c1, c2, c3}
  Null = Null
  Records <- MCRecords
  Mutate <- MCMutate
  MaximumCasAttempts = 2
  MaxVersion = 4
  CallWorkers = {w1, w2}
  CallTools = {t1, t2}
  NoCallRecord = NoCallRecord
  NoRequest = NoRequest
  NoReceiptYet = NoReceiptYet
  LeaseTime = 2
  MaximumUpdates = 2
  MaxTime = 3
  MaxCallFaults = 1
SYMMETRY Alike
INVARIANTS
  CallIsAccounted
  ReadIsSeen
PROPERTIES
  Atomic
CHECK_DEADLOCK FALSE
