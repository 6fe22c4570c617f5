SPECIFICATION Spec
CONSTANTS
  r1 = r1  r2 = r2  w1 = w1  w2 = w2
  s1 = s1  s2 = s2  s3 = s3  s4 = s4
  Runs = {r1, r2}
  Steps = {s1, s2, s3, s4}
  First = s1
  Kind <- WaitKinds
  OnSuccess <- WaitSuccess
  OnFailure <- ToFail
  Branches <- WaitForks
  BadConfig = {}
  RetryMax <- Retry3
  Workers = {w1, w2}
  None = None
  JobsAreSlow = TRUE
  MayCancel = FALSE
  MaxRetries = 0
  VtCoversBatch = TRUE
  FailingRpcs = {}
  MaxFaults = 0
INVARIANTS NeverStranded WaitsAreResumable
PROPERTIES RunsMoveOn
CHECK_DEADLOCK FALSE
