SPECIFICATION Spec
CONSTANTS
  r1 = r1  r2 = r2  w1 = w1  w2 = w2
  s1 = s1  s2 = s2  s3 = s3  s4 = s4
  Runs = {r1}
  Steps = {s1, s2, s3, s4}
  First = s1
  Kind <- JobKinds
  OnSuccess <- JobSuccess
  OnFailure <- JobFailure
  Branches <- JobForks
  BadConfig = {s4}
  RetryMax <- Retry3
  Workers = {w1, w2}
  None = None
  JobsAreSlow = TRUE
  MayCancel = TRUE
  MaxRetries = 0
  VtCoversBatch = TRUE
  FailingRpcs = {"get_automation_execution_context", "complete_automation_step_run",
    "schedule_automation_wait", "complete_automation_run", "enqueue_automation_step",
    "check_dedup", "record_processed", "archive_queue_message"}
  MaxFaults = 3
INVARIANTS StepsRunOnce StepsTakeTurns EndedRunsAreQuiet
PROPERTIES PromiseSpec
CHECK_DEADLOCK FALSE
