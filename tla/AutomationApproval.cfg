SPECIFICATION Spec
CONSTANTS
  r1 = r1  r2 = r2  w1 = w1  w2 = w2
  s1 = s1  s2 = s2  s3 = s3  s4 = s4
  Runs = {r1}
  Steps = {s1, s2}
  First = s1
  Kind <- ApprovalKinds
  OnSuccess <- RowSuccess
  OnFailure <- ToFail
  Branches <- NoForks
  BadConfig = {}
  RetryMax <- Retry3
  Workers = {w1}
  None = None
  JobsAreSlow = TRUE
  MayCancel = FALSE
  MaxRetries = 0
  VtCoversBatch = TRUE
  FailingRpcs = {}
  MaxFaults = 0
PROPERTIES DecisionsTakeEffect
CHECK_DEADLOCK FALSE
