SPECIFICATION Spec
CONSTANTS
  t1 = t1  t2 = t2
  Tabs = {t1, t2}
  HasLocks = TRUE
  MaxOps = 4
  BatchSize = 3
  MaxPending = 3
  MaxAttempts = 3
  MaxFaults = 3
  MaxEvents = 4
INVARIANTS TypeOK SyncedIsRecorded SyncingIsHeld EffectsAreReported
PROPERTIES CheckOutIsFinal QueuedOpsSettle
