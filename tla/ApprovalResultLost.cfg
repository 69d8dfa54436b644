SPECIFICATION Spec
CONSTANTS
  c1 = c1
  c2 = c2
  c3 = c3
  x1 = x1
  x2 = x2
  r1 = r1
  r2 = r2
  Confirmers = {r1}
  Rejecters = {r2}
  Callers = {c1, c2, c3}
  Executions = {x1, x2}
  ExecutionOf <- MCExecutionOf
  KeepsKeyOrder = FALSE
  MaxFaults = 0
INVARIANTS
  ExecutedResultIsRead
