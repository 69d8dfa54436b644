SPECIFICATION Spec
CONSTANTS
  browser = browser
  projection = projection
  metered = metered
  paused = paused
  batched = batched
  other = other
  None = None
  Runtimes = {browser, projection}
  Senders = {browser}
  Turns = {metered, batched, paused, other}
  Response <- Responses
  PauseAfter <- Pauses
  BatchSize = 2
  MaximumAttempts <- TwoAttempts
  MaximumRebases = 1
  Histories <- OneOrTwo
INVARIANTS
  ResponseIsWhole
  ToldIsCanonical
  ReplayIsKnown
 
CHECK_DEADLOCK FALSE
