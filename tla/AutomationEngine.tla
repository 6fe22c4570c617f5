--------------------------- MODULE AutomationEngine ---------------------------
(***************************************************************************)
(* The workflow engine: a trigger creates a run with one step_run per step *)
(* of the workflow and queues the first; process-automation-queue executes *)
(* one step per message and queues the next; waits are resumed from SQL    *)
(* (a timer, a PDF or signing job that ends); managers decide approvals,   *)
(* cancel runs and retry failed ones.                                      *)
(*                                                                         *)
(* Every RPC of the worker is a transaction and a step of its own.  The    *)
(* queue is the one of QueueRuntime, reduced to what its ledger promises:  *)
(* a message is delivered until it is settled, and a key once recorded is  *)
(* not handled again.                                                      *)
(***************************************************************************)
EXTENDS Integers, FiniteSets

CONSTANTS
  Runs,           \* instantiations of the workflow
  Steps, First,   \* its steps, and the first of them
  Kind,           \* "action", "condition", "approval", "wait" or "job" (PDF, signing)
  OnSuccess, OnFailure,  \* the step that follows, or "END_OK", "END_FAIL"
  Branches,       \* where a condition may lead
  BadConfig,      \* steps whose config makes resolveConfigValues throw
  RetryMax,       \* retry_max of a step
  Workers,        \* concurrent invocations of process-automation-queue
  None,           \* no message, no result
  JobsAreSlow,    \* TRUE: a job ends only after the worker that started it went on
  MayCancel,      \* TRUE: managers cancel runs
  MaxRetries,     \* bound: manual retries of one run
  VtCoversBatch,  \* TRUE: a batch is always finished before its VT runs out
  FailingRpcs,    \* the RPCs that may return an error
  MaxFaults       \* bound: crashes + failed RPCs + VTs that run out too early

Ends == {"END_OK", "END_FAIL"}
Messages == [run : Runs, step : Steps, retry : 0..MaxRetries]
RunStatus == {"RUNNING", "WAITING_HUMAN", "WAITING_TIMER", "COMPLETED", "FAILED", "CANCELLED"}
StepStatus == RunStatus \union {"PENDING"}
Stages == {"idle", "context", "start", "execute", "complete", "schedule", "advance",
           "settle", "leave", "return"}
Results == [status : {"COMPLETED", "FAILED", "WAITING_HUMAN", "WAITING_TIMER"},
            next : Steps \union Ends \union {"HUMAN", "TIMER", "LEAVE", "GIVE_UP"}]

ASSUME EngineAssumption ==
  /\ First \in Steps /\ Steps \cap (Ends \union {"HUMAN", "TIMER", "LEAVE", "GIVE_UP"}) = {}
  /\ Kind \in [Steps -> {"action", "condition", "approval", "wait", "job"}]
  /\ OnSuccess \in [Steps -> Steps \union Ends] /\ OnFailure \in [Steps -> Steps \union Ends]
  /\ Branches \in [Steps -> SUBSET (Steps \union Ends)]
  /\ BadConfig \subseteq Steps /\ RetryMax \in [Steps -> Nat]
  /\ None \notin Messages /\ None \notin Results
  /\ {JobsAreSlow, MayCancel, VtCoversBatch} \subseteq BOOLEAN
  /\ MaxRetries \in Nat /\ MaxFaults \in Nat

VARIABLES
  launch,     \* how far instantiateWorkflow got
  status,     \* automation_runs.status, "none" before the row exists
  step,       \* automation_step_runs.status of each step
  timer,      \* TRUE when automation_runs.wait_until is set
  queue,      \* copies of each message a worker may read
  processed,  \* messages whose key is recorded
  approvals,  \* rows of automation_pending_approvals
  decided,    \* approvals somebody tried to approve or reject
  jobs,       \* running PDF and signing jobs of each step
  failedJobs, \* steps with a job that ended without completing
  retries,    \* manual retries of each run
  pc,         \* where each worker is in the handler
  msg,        \* the message it handles
  result,     \* what the step handler returned
  ran,        \* history: handler runs of each step
  faults      \* history: faults so far

runVars    == <<launch, status, step, timer, retries>>
queueVars  == <<queue, processed>>
outsideVars == <<approvals, decided, jobs, failedJobs>>
workerVars == <<pc, msg, result>>
vars == <<runVars, queueVars, outsideVars, workerVars, ran, faults>>

TypeOK ==
  /\ launch \in [Runs -> {"none", "run", "steps", "done", "failed"}]
  /\ status \in [Runs -> RunStatus \union {"none"}]
  /\ step \in [Runs -> [Steps -> StepStatus \union {"none"}]]
  /\ timer \in [Runs -> BOOLEAN]
  /\ queue \in [Messages -> Nat]
  /\ processed \subseteq Messages
  /\ approvals \subseteq Runs \X Steps /\ decided \subseteq approvals
  /\ jobs \in [Runs -> [Steps -> Nat]]
  /\ failedJobs \subseteq Runs \X Steps
  /\ retries \in [Runs -> 0..MaxRetries]
  /\ pc \in [Workers -> Stages]
  /\ msg \in [Workers -> Messages \union {None}]
  /\ result \in [Workers -> Results \union {None}]
  /\ ran \in [Runs -> [Steps -> Nat]]
  /\ faults \in Nat

Init ==
  /\ launch = [r \in Runs |-> "none"]
  /\ status = [r \in Runs |-> "none"]
  /\ step = [r \in Runs |-> [s \in Steps |-> "none"]]
  /\ timer = [r \in Runs |-> FALSE]
  /\ queue = [m \in Messages |-> 0]
  /\ processed = {}
  /\ approvals = {} /\ decided = {}
  /\ jobs = [r \in Runs |-> [s \in Steps |-> 0]]
  /\ failedJobs = {}
  /\ retries = [r \in Runs |-> 0]
  /\ pc = [w \in Workers |-> "idle"]
  /\ msg = [w \in Workers |-> None]
  /\ result = [w \in Workers |-> None]
  /\ ran = [r \in Runs |-> [s \in Steps |-> 0]]
  /\ faults = 0

-----------------------------------------------------------------------------
(* Helpers *)

Fault == faults < MaxFaults /\ faults' = faults + 1
RpcOk == UNCHANGED faults
RpcFails(rpc) == rpc \in FailingRpcs /\ Fault

FirstAttempt(r, s) == [run |-> r, step |-> s, retry |-> 0]

\* enqueue_automation_step: the message of the first attempt at s.
Enqueue(r, s) == queue' = [queue EXCEPT ![FirstAttempt(r, s)] = @ + 1]

SetStep(r, s, new) == step' = [step EXCEPT ![r][s] = new]
SetStatus(r, new) == status' = [status EXCEPT ![r] = new]

\* Worker w goes from stage a to stage b.
GoTo(w, a, b) == pc[w] = a /\ pc' = [pc EXCEPT ![w] = b]

\* Worker w, at stage a, is through with its message.
Free(w, a) ==
  /\ GoTo(w, a, "idle")
  /\ msg' = [msg EXCEPT ![w] = None]
  /\ result' = [result EXCEPT ![w] = None]

\* The message worker w holds is in the queue again.
GiveBack(w) == queue' = [queue EXCEPT ![msg[w]] = @ + 1]

-----------------------------------------------------------------------------
(* The trigger: instantiateWorkflow *)

CreateRun(r) ==
  /\ launch[r] = "none"
  /\ launch' = [launch EXCEPT ![r] = "run"]
  /\ SetStatus(r, "RUNNING")
  /\ UNCHANGED <<step, timer, retries, queueVars, outsideVars, workerVars, ran, faults>>

CreateStepRuns(r) ==
  /\ launch[r] = "run"
  /\ launch' = [launch EXCEPT ![r] = "steps"]
  /\ step' = [step EXCEPT ![r] = [s \in Steps |-> "PENDING"]]
  /\ UNCHANGED <<status, timer, retries, queueVars, outsideVars, workerVars, ran, faults>>

EnqueueFirst(r) ==
  /\ launch[r] = "steps"
  /\ launch' = [launch EXCEPT ![r] = "done"]
  /\ Enqueue(r, First)
  /\ UNCHANGED <<status, step, timer, retries, processed, outsideVars, workerVars, ran, faults>>

\* An RPC fails or the worker dies: the trigger message is retried with a
\* new run, and this one is left as it is.
LaunchFails(r) ==
  /\ launch[r] \in {"run", "steps"} /\ Fault
  /\ launch' = [launch EXCEPT ![r] = "failed"]
  /\ UNCHANGED <<status, step, timer, retries, queueVars, outsideVars, workerVars, ran>>

-----------------------------------------------------------------------------
(* The worker: createStepHandler under the QueueRunner *)

\* Mutant of Read: the message stays visible while it is handled.
ReadKeepsVisible(w) ==
  /\ \E m \in Messages :
       /\ queue[m] > 0
       /\ msg' = [msg EXCEPT ![w] = m]
       /\ GoTo(w, "idle", IF m \in processed THEN "settle" ELSE "context")
  /\ UNCHANGED <<runVars, queueVars, outsideVars, result, ran, faults>>

\* The runner reads a message; a recorded key is archived unhandled, unless
\* check_dedup fails.
Read(w) ==
  /\ \E m \in Messages :
       /\ queue[m] > 0
       /\ queue' = [queue EXCEPT ![m] = @ - 1]
       /\ msg' = [msg EXCEPT ![w] = m]
       /\ \/ RpcOk /\ GoTo(w, "idle", IF m \in processed THEN "settle" ELSE "context")
          \/ m \in processed /\ RpcFails("check_dedup") /\ GoTo(w, "idle", "context")
  /\ UNCHANGED <<runVars, processed, outsideVars, result, ran>>

\* Mutant of ReadContext: no look at the status of the step.
ReadContextIgnoresStatus(w) ==
  /\ GoTo(w, "context", "start")
  /\ UNCHANGED <<runVars, queueVars, outsideVars, msg, result, ran, faults>>

\* get_automation_execution_context: a step that is not PENDING is skipped.
ReadContext(w) ==
  /\ pc[w] = "context"
  /\ \/ /\ RpcOk
        /\ GoTo(w, "context", IF step[msg[w].run][msg[w].step] = "PENDING"
                              THEN "start" ELSE "settle")
     \/ RpcFails("get_automation_execution_context") /\ GoTo(w, "context", "return")
  /\ UNCHANGED <<runVars, queueVars, outsideVars, msg, result, ran>>

\* Mutant of Start: the step is not marked.
StartForgetsStatus(w) ==
  /\ GoTo(w, "start", "execute")
  /\ UNCHANGED <<runVars, queueVars, outsideVars, msg, result, ran, faults>>

\* Mutant of Start: no condition on the status it overwrites.
StartIgnoresStatus(w) ==
  /\ GoTo(w, "start", "execute")
  /\ SetStep(msg[w].run, msg[w].step, "RUNNING")
  /\ UNCHANGED <<launch, status, timer, retries, queueVars, outsideVars, msg, result, ran, faults>>

\* start_automation_step_run: an error is only logged.
Start(w) ==
  LET r == msg[w].run
      s == msg[w].step
  IN /\ GoTo(w, "start", "execute")
     /\ \/ RpcOk /\ step[r][s] \in {"PENDING", "FAILED"} /\ SetStep(r, s, "RUNNING")
        \/ RpcOk /\ step[r][s] \notin {"PENDING", "FAILED"} /\ UNCHANGED step
        \/ RpcFails("start_automation_step_run") /\ UNCHANGED step
     /\ UNCHANGED <<launch, status, timer, retries, queueVars, outsideVars, msg, result, ran>>

Returned(new, next) == [status |-> new, next |-> next]

\* What executeStep may return for step s (resolveNextAction included); it
\* throws only for a config it cannot resolve.
Outcomes(s) ==
  LET failed == Returned("FAILED", OnFailure[s])
      success == Returned("COMPLETED", OnSuccess[s])
      later == Returned("WAITING_TIMER", "TIMER")
  IN IF s \in BadConfig
     THEN {Returned("FAILED", IF RetryMax[s] > 1 THEN "LEAVE" ELSE "GIVE_UP")}
     ELSE CASE Kind[s] = "action"    -> {success, failed}
            [] Kind[s] = "condition" -> {Returned("COMPLETED", t) : t \in Branches[s]}
            [] Kind[s] = "approval"  -> {Returned("WAITING_HUMAN", "HUMAN"), failed}
            [] Kind[s] = "wait"      -> {later, success}
            [] Kind[s] = "job"       -> {later, success, failed}

\* The step handler runs: an approval row or a job may come of it.
Execute(w) ==
  LET r == msg[w].run
      s == msg[w].step
  IN /\ GoTo(w, "execute", "complete")
     /\ \E o \in Outcomes(s) :
          /\ result' = [result EXCEPT ![w] = o]
          /\ approvals' = IF o.next = "HUMAN" THEN approvals \union {<<r, s>>} ELSE approvals
          /\ jobs' = IF o.next = "TIMER" /\ Kind[s] = "job"
                     THEN [jobs EXCEPT ![r][s] = @ + 1] ELSE jobs
     /\ ran' = [ran EXCEPT ![r][s] = @ + 1]
     /\ UNCHANGED <<runVars, queueVars, decided, failedJobs, msg, faults>>

\* complete_automation_step_run writes whatever the handler returned over
\* whatever is there.
Complete(w) ==
  /\ \/ /\ pc[w] = "complete" /\ RpcOk
        /\ SetStep(msg[w].run, msg[w].step, result[w].status)
     \/ pc[w] = "complete" /\ RpcFails("complete_automation_step_run") /\ UNCHANGED step
  /\ GoTo(w, "complete", CASE result[w].next = "TIMER" -> "schedule"
                           [] result[w].next = "LEAVE" -> "leave"
                           [] OTHER -> "advance")
  /\ UNCHANGED <<launch, status, timer, retries, queueVars, outsideVars, msg, result, ran>>

\* Mutant of Schedule: wait_until is not stored.
ScheduleForgetsTime(w) ==
  /\ GoTo(w, "schedule", "settle")
  /\ SetStep(msg[w].run, msg[w].step, "WAITING_TIMER")
  /\ SetStatus(msg[w].run, "WAITING_TIMER")
  /\ UNCHANGED <<launch, timer, retries, queueVars, outsideVars, msg, result, ran, faults>>

\* schedule_automation_wait: only a wait has a time to be resumed at.
Schedule(w) ==
  LET r == msg[w].run
      s == msg[w].step
  IN /\ GoTo(w, "schedule", "settle")
     /\ \/ /\ RpcOk
           /\ SetStep(r, s, "WAITING_TIMER")
           /\ SetStatus(r, "WAITING_TIMER")
           /\ timer' = [timer EXCEPT ![r] = Kind[s] = "wait"]
        \/ RpcFails("schedule_automation_wait") /\ UNCHANGED <<step, status, timer>>
     /\ UNCHANGED <<launch, retries, queueVars, outsideVars, msg, result, ran>>

\* Mutant of CloseRun: END_OK is looked for among the steps and not found.
CloseRunMissesEnd(w) ==
  /\ GoTo(w, "advance", "settle")
  /\ result[w].next \notin Steps
  /\ SetStatus(msg[w].run, IF result[w].next = "HUMAN" THEN "WAITING_HUMAN" ELSE "FAILED")
  /\ UNCHANGED <<launch, step, timer, retries, queueVars, outsideVars, msg, result, ran, faults>>

\* complete_automation_run and update_automation_run_status: the new status
\* goes over whatever is there.
CloseRun(w) ==
  LET next == result[w].next IN
  /\ GoTo(w, "advance", IF next = "GIVE_UP" THEN "return" ELSE "settle")
  /\ next \notin Steps
  /\ \/ RpcOk /\ SetStatus(msg[w].run, CASE next = "END_OK" -> "COMPLETED"
                                         [] next = "HUMAN"  -> "WAITING_HUMAN"
                                         [] OTHER           -> "FAILED")
     \/ RpcFails("complete_automation_run") /\ UNCHANGED status
  /\ UNCHANGED <<launch, step, timer, retries, queueVars, outsideVars, msg, result, ran>>

\* enqueue_automation_step: an error is only logged.  A retry message has no
\* workflow_run_id, so the call lacks p_run_id and PostgREST refuses it.
EnqueueNext(w) ==
  /\ GoTo(w, "advance", "settle")
  /\ result[w].next \in Steps
  /\ \/ RpcOk /\ msg[w].retry = 0 /\ Enqueue(msg[w].run, result[w].next)
     \/ RpcOk /\ msg[w].retry > 0 /\ UNCHANGED queue
     \/ RpcFails("enqueue_automation_step") /\ UNCHANGED queue
  /\ UNCHANGED <<runVars, processed, outsideVars, msg, result, ran>>

\* The handler returned success: the runner records the key and archives.  The errors
\* are only logged; what is recorded and not archived comes back.
Settle(w) ==
  /\ Free(w, "settle")
  /\ \/ RpcOk /\ processed' = processed \union {msg[w]} /\ UNCHANGED queue
     \/ RpcFails("record_processed") /\ UNCHANGED queueVars
     \/ /\ RpcFails("archive_queue_message")
        /\ processed' = processed \union {msg[w]} /\ GiveBack(w)
  /\ UNCHANGED <<runVars, outsideVars, ran>>

\* The handler left its message to the VT (selfManaged).
Leave(w) ==
  /\ Free(w, "leave")
  /\ GiveBack(w)
  /\ UNCHANGED <<runVars, processed, outsideVars, ran, faults>>

\* The handler returned failure: the runner backs off, or moves the message
\* to the dead-letter table (QueueRuntime counts the attempts).
Return(w) ==
  /\ Free(w, "return")
  /\ GiveBack(w) \/ UNCHANGED queue
  /\ UNCHANGED <<runVars, processed, outsideVars, ran, faults>>

\* The invocation dies: its message comes back.
Crash(w) ==
  /\ pc[w] # "idle" /\ Fault
  /\ Free(w, pc[w])
  /\ GiveBack(w)
  /\ UNCHANGED <<runVars, processed, outsideVars, ran>>

\* The VT runs out while the worker is still busy.
ExpireEarly(w) ==
  /\ pc[w] # "idle" /\ ~VtCoversBatch /\ Fault
  /\ GiveBack(w)
  /\ UNCHANGED <<runVars, processed, outsideVars, workerVars, ran>>

-----------------------------------------------------------------------------
(* Resumption: automation_resume_step_service *)

\* Mutant of Resume: the next step is not queued.
ResumeForgetsNext(r, s) ==
  /\ SetStep(r, s, "COMPLETED")
  /\ SetStatus(r, IF OnSuccess[s] \in Steps THEN "RUNNING" ELSE "COMPLETED")
  /\ timer' = [timer EXCEPT ![r] = FALSE]
  /\ UNCHANGED queue

\* The step completes, whatever its status was, and the run goes on.
Resume(r, s) ==
  LET next == OnSuccess[s] IN
  /\ SetStep(r, s, "COMPLETED")
  /\ SetStatus(r, CASE next = "END_OK"   -> "COMPLETED"
                    [] next = "END_FAIL" -> "FAILED"
                    [] OTHER             -> "RUNNING")
  /\ timer' = [timer EXCEPT ![r] = @ /\ next = "END_FAIL"]
  /\ IF next \in Steps THEN Enqueue(r, next) ELSE UNCHANGED queue

\* process_automation_wait_timers, as process-date-triggers calls it.  (The
\* cron job of the same migration has no JWT and is refused.)
ResumeTimer(r, s) ==
  /\ status[r] = "WAITING_TIMER" /\ timer[r] /\ step[r][s] = "WAITING_TIMER"
  /\ Resume(r, s)
  /\ UNCHANGED <<launch, retries, processed, outsideVars, workerVars, ran, faults>>

\* A job of step s ends.
JobEnds(r, s) ==
  /\ jobs[r][s] > 0
  /\ JobsAreSlow => \A w \in Workers :
       pc[w] # "idle" => msg[w].run # r \/ msg[w].step # s
  /\ jobs' = [jobs EXCEPT ![r][s] = @ - 1]

\* The PDF is ready, or everybody signed.
JobSucceeds(r, s) ==
  /\ JobEnds(r, s)
  /\ Resume(r, s)
  /\ UNCHANGED <<launch, retries, processed, approvals, decided, failedJobs, workerVars, ran, faults>>

\* A signer declined: the step and the run fail.
JobDeclined(r, s) ==
  /\ JobEnds(r, s)
  /\ SetStep(r, s, "FAILED") /\ SetStatus(r, "FAILED")
  /\ UNCHANGED <<launch, timer, retries, queueVars, approvals, decided, failedJobs, workerVars, ran, faults>>

\* The PDF cannot be rendered, or the signature expires: the triggers react
\* to neither, and nobody tells the run.
JobFails(r, s) ==
  /\ JobEnds(r, s)
  /\ failedJobs' = failedJobs \union {<<r, s>>}
  /\ UNCHANGED <<runVars, queueVars, approvals, decided, workerVars, ran, faults>>

-----------------------------------------------------------------------------
(* Managers *)

\* resolve_automation_approval, approved or rejected: its CASE is of type
\* text, the column an enum, so the UPDATE raises and nothing is written.
Decide(r, s) ==
  /\ <<r, s>> \in approvals
  /\ decided' = decided \union {<<r, s>>}
  /\ UNCHANGED <<runVars, queueVars, approvals, jobs, failedJobs, workerVars, ran, faults>>

\* cancel_automation_run: the run and its active steps.
Cancel(r) ==
  /\ MayCancel
  /\ status[r] \in {"RUNNING", "WAITING_HUMAN", "WAITING_TIMER"}
  /\ SetStatus(r, "CANCELLED")
  /\ step' = [step EXCEPT ![r] = [s \in Steps |->
       IF @[s] \in {"PENDING", "RUNNING", "WAITING_HUMAN", "WAITING_TIMER"}
       THEN "CANCELLED" ELSE @[s]]]
  /\ UNCHANGED <<launch, timer, retries, queueVars, outsideVars, workerVars, ran, faults>>

\* retry_automation_run: one of the failed steps (all were created in the
\* same instant) is PENDING again.  With none, a task without a handler is
\* sent and dead-lettered.
Retry(r) ==
  LET failed == {s \in Steps : step[r][s] = "FAILED"} IN
  /\ status[r] = "FAILED" /\ retries[r] < MaxRetries
  /\ SetStatus(r, "RUNNING")
  /\ retries' = [retries EXCEPT ![r] = @ + 1]
  /\ \/ \E s \in failed :
          /\ SetStep(r, s, "PENDING")
          /\ queue' = [queue EXCEPT ![[run |-> r, step |-> s, retry |-> retries[r] + 1]] = @ + 1]
     \/ failed = {} /\ UNCHANGED <<step, queue>>
  /\ UNCHANGED <<launch, timer, processed, outsideVars, workerVars, ran, faults>>

-----------------------------------------------------------------------------
Launch(r) == CreateStepRuns(r) \/ EnqueueFirst(r)

Step(w) ==
  \/ Read(w) \/ ReadContext(w) \/ Start(w) \/ Execute(w) \/ Complete(w) \/ Schedule(w)
  \/ CloseRun(w) \/ EnqueueNext(w) \/ Settle(w) \/ Leave(w) \/ Return(w)

Outside(r, s) ==
  \/ JobSucceeds(r, s) \/ JobDeclined(r, s) \/ JobFails(r, s) \/ Decide(r, s)

Next ==
  \/ \E r \in Runs : CreateRun(r) \/ Launch(r) \/ LaunchFails(r) \/ Cancel(r) \/ Retry(r)
  \/ \E w \in Workers : Step(w) \/ Crash(w) \/ ExpireEarly(w)
  \/ \E r \in Runs, s \in Steps : ResumeTimer(r, s) \/ Outside(r, s)

\* A running invocation goes on, pg_cron starts new ones every minute, and
\* process-date-triggers comes round; jobs and managers may take for ever.
Fairness ==
  /\ \A r \in Runs : WF_vars(Launch(r))
  /\ \A w \in Workers : WF_vars(Step(w))
  /\ \A r \in Runs, s \in Steps : WF_vars(ResumeTimer(r, s))

Spec == Init /\ [][Next]_vars /\ Fairness

-----------------------------------------------------------------------------
(* Properties *)

Busy(w) == pc[w] \in {"start", "execute", "complete", "schedule", "advance"}

\* Without manual retries the handler of a step runs at most once, however
\* often the worker crashes and its message is delivered again: the PENDING
\* guard and start_automation_step_run see to it.
StepsRunOnce ==
  \A r \in Runs, s \in Steps : retries[r] = 0 => ran[r][s] <= 1

\* Further runs of a step's handler cost manual retries or faults: the step is
\* PENDING once and once more after each retry, and the i-th time i messages
\* of the run, and one more per fault, may find it so.  This is the sum of
\* i + faults for i in 1 .. 1 + retries.
RerunsNeedFaults ==
  \A r \in Runs, s \in Steps :
    2 * ran[r][s] <= (1 + retries[r]) * (2 + retries[r] + 2 * faults)

\* At most one worker at a time works on a run.
StepsTakeTurns ==
  \A v, w \in Workers :
    v # w /\ Busy(v) /\ Busy(w) => msg[v].run # msg[w].run

\* When a run has completed or failed no worker is at it any more and no
\* message of it would start a step.
EndedRunsAreQuiet ==
  \A r \in Runs : status[r] \in {"COMPLETED", "FAILED"} =>
    /\ \A w \in Workers : Busy(w) => msg[w].run # r
    /\ \A m \in Messages : queue[m] > 0 /\ m.run = r => step[r][m.step] # "PENDING"

\* A RUNNING run always has somebody to carry it on: the launcher, a message
\* of a PENDING step, or a worker that holds one.
Carried(r) ==
  \/ launch[r] \in {"run", "steps"}
  \/ \E m \in Messages : m.run = r /\ queue[m] > 0 /\ step[r][m.step] = "PENDING"
  \/ \E w \in Workers : pc[w] # "idle" /\ msg[w].run = r
       /\ (pc[w] = "context" => step[r][msg[w].step] = "PENDING") /\ pc[w] # "settle"
NeverStranded == \A r \in Runs : status[r] = "RUNNING" => Carried(r)

\* A run that waits can be resumed: by its timer, or by a job of a step that
\* waits (unless the job failed, which nobody reports).
WaitsAreResumable ==
  \A r \in Runs : status[r] = "WAITING_TIMER" =>
    \E s \in Steps : /\ step[r][s] = "WAITING_TIMER"
                     /\ \/ Kind[s] = "wait" /\ timer[r]
                        \/ jobs[r][s] > 0 \/ <<r, s>> \in failedJobs

\* A cancelled step stays cancelled unless a worker had it in hand already
\* or a job of it ends afterwards.
CancelledStepsStay ==
  [][\A r \in Runs, s \in Steps :
       step[r][s] = "CANCELLED" /\ step'[r][s] # "CANCELLED" =>
         \/ \E w \in Workers : pc[w] \in {"complete", "schedule"}
                               /\ msg[w].run = r /\ msg[w].step = s
         \/ jobs'[r][s] < jobs[r][s]]_vars

\* A run does not stay RUNNING for ever: it ends or waits.
RunsMoveOn == \A r \in Runs : (status[r] = "RUNNING") ~> (status[r] # "RUNNING")

\* The engine implements WorkflowRun.
After == [s \in Steps |->
  {o.next : o \in Outcomes(s)}
  \union (IF Kind[s] \in {"wait", "job"} THEN {OnSuccess[s]} ELSE {})
  \union (IF Kind[s] = "job" \/ s \in BadConfig THEN {"END_FAIL"} ELSE {})]
Promise == INSTANCE WorkflowRun WITH
  performed <- ran,
  ended <- [r \in Runs |-> IF status[r] \in {"COMPLETED", "FAILED"} THEN status[r] ELSE "no"]
PromiseSpec == Promise!Spec

-----------------------------------------------------------------------------
(* What the documents say *)

\* "quan l'usuari aprova/rebutja, el workflow repren o falla".
DecisionsTakeEffect ==
  \A r \in Runs, s \in Steps :
    (<<r, s>> \in decided) ~> (status[r] # "WAITING_HUMAN")
=============================================================================
