SPECIFICATION RealtimeSpec
CONSTANTS
  None = None
  c1 = c1
  c2 = c2
  t1 = t1
  t2 = t2
  Client = {c1, c2}
  Interest <- CollectionAndRecord
  RecordEvent <- TwoTenants
  BusCap = 1
  QueueCap = 1
  RingCap = 2
  MaxEvents = 4
  MaxRestarts = 1
INVARIANTS
  GapsAccounted
  TenantIsolation
PROPERTIES
  InOrder
