SPECIFICATION LateSpec
CONSTANTS
  first = first
  second = second
  third = third
  voice = voice
  video = video
  lookup = lookup
  write = write
  Selections = {f1, f2}
  Concurrency = 1
  MaxItemCount = 2
  ByteSize = 1
  MaxItems = 2
  MaxAttempts = 2
  MaxTokens = 3
  OperationRuns = {first, second, third}
  Fingerprint <- Requests
  MayClaim = {first, second}
  NoOperation = NoOperation
  MaxOperationFaults = 2
  Receipts = {x1, x2}
  Sinks = {s1, s2}
  NoReceipt = NoReceipt
  MaximumWrites = 2
  MaxFlushes = 2
  MaxOutboxFaults = 1
  Conversations = {c1, c2}
  NoPresence = NoPresence
  MaxSubscriptions = 3
  MaxGenerations = 4
  ToolSessions = {voice, video}
  Capabilities = {"old", "new"}
  Envelopes <- CallsToSend
  Gated <- CallsToReview
  MaxRequests = 2
  MaxRegistrations = 2
  MaximumTrackedSessions = 1
  MaximumTrackedCalls = 2
  MaximumBindings = 2
INVARIANTS
  CallsAreExact
  SlotsAreAccounted
  DispatchedOnce
  PresenceIsCurrent
PROPERTIES
  LateAnswersAreDropped
  ReceiptIsKept
CHECK_DEADLOCK FALSE
