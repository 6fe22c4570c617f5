SPECIFICATION Spec
CONSTANTS
  m1 = m1
  m2 = m2
  m3 = m3
  k1 = k1
  k2 = k2
  k3 = k3
  None = None
  Msgs = {m1, m2}
  Keys = {k1, k2}
  KeyOf <- KeyPerMessage
  NoTenant = {}
  NoHandler = {}
  Workers = {w1, w2}
  MaxAttempts = 2
  BatchSize = 2
  VtCoversBatch = FALSE
  FailingRpcs = {"check_dedup", "record_processed", "archive_queue_message", "set_queue_message_vt"}
  MaxFaults = 2
  MaxLeft = 0
INVARIANTS NoSilentLoss DeadLettersAreExhausted RepeatsNeedFaults
PROPERTIES EverySentMessageLeaves
CHECK_DEADLOCK FALSE
