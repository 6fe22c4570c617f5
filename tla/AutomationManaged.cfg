SPECIFICATION Spec
CONSTANTS
  r1 = r1  r2 = r2  w1 = w1  w2 = w2
  s1 = s1  s2 = s2  s3 = s3  s4 = s4
  Runs = {r1}
  Steps = {s1, s2}
  First = s1
  Kind <- PairKinds
  OnSuccess <- RowSuccess
  OnFailure <- ToFail
  Branches <- NoForks
  BadConfig = {s2}
  RetryMax <- Retry1
  Workers = {w1, w2}
  None = None
  JobsAreSlow = FALSE
  MayCancel = TRUE
  MaxRetries = 1
  VtCoversBatch = FALSE
  FailingRpcs = {"get_automation_execution_context", "start_automation_step_run",
    "complete_automation_step_run", "schedule_automation_wait", "complete_automation_run",
    "enqueue_automation_step",
    "check_dedup", "record_processed", "archive_queue_message"}
  MaxFaults = 2
INVARIANTS RerunsNeedFaults
PROPERTIES CancelledStepsStay
CHECK_DEADLOCK FALSE
