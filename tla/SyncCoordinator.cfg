SPECIFICATION SyncSpec
CONSTANTS
  a = a
  b = b
  device = device
  e = e
  None = None
  Clients = {a, b}
  Stores = {device}
  StoreOf <- OneDevice
  Mutations = {1, 2, 3}
  Author <- QueuedInA
  ServerEvents = {e}
  ReadBatchSize = 2
  MaximumBatch = 2
  MaximumConflicts = 1
  MaxEvents = 4
  MaxFaults = 2
INVARIANTS
  TypeOK
  AppendedOnce
  Faithful
  NothingLost
  InQueueOrder
PROPERTIES
  AuthorityGrows
  DeliveredAlone
CHECK_DEADLOCK FALSE
