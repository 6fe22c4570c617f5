SPECIFICATION Spec
CONSTANTS
  m1 = m1
  m2 = m2
  m3 = m3
  k1 = k1
  k2 = k2
  k3 = k3
  None = None
  Msgs = {m1, m2, m3}
  Keys = {k1, k2, k3}
  KeyOf <- KeyPerMessage
  NoTenant = {m3}
  NoHandler = {m2}
  Workers = {w1, w2}
  MaxAttempts = 3
  BatchSize = 2
  VtCoversBatch = TRUE
  FailingRpcs = {"record_processed", "archive_queue_message", "set_queue_message_vt"}
  MaxFaults = 1
  MaxLeft = 1
PROPERTIES ProcessedIsNotBuried LedgerSpec
CHECK_DEADLOCK FALSE
