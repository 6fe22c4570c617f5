----------------------- MODULE AutomationEngineProofs -----------------------
(***************************************************************************)
(* Theorems about AutomationEngine, for any workflow graph and any number  *)
(* of runs, workers and faults.                                            *)
(***************************************************************************)
EXTENDS AutomationEngine, TLAPS

-----------------------------------------------------------------------------
(* Types *)

\* A worker in the middle of a message has one, and a result once the
\* handler returned.
HasMessage == \A w \in Workers : pc[w] # "idle" => msg[w] \in Messages

HasResult ==
  \A w \in Workers :
    /\ pc[w] \in {"complete", "schedule", "advance", "leave"} =>
         result[w] \in Outcomes(msg[w].step)
    /\ pc[w] = "schedule" => result[w].next = "TIMER"
    /\ pc[w] = "leave" => result[w].next = "LEAVE"
    /\ pc[w] = "advance" => result[w].next \notin {"TIMER", "LEAVE"}

\* A run that was not launched to the end has no message, worker or job,
\* and no steps before the launch created them.
Launched ==
  \A r \in Runs : launch[r] # "done" =>
    /\ \A m \in Messages : m.run = r => queue[m] = 0 /\ m \notin processed
    /\ \A w \in Workers : pc[w] # "idle" => msg[w].run # r
    /\ \A s \in Steps : ran[r][s] = 0 /\ jobs[r][s] = 0
    /\ status[r] \in {"none", "RUNNING", "CANCELLED"}
    /\ launch[r] \in {"none", "run"} => \A s \in Steps : step[r][s] = "none"

TypeInv == TypeOK /\ HasMessage /\ HasResult /\ Launched

LEMMA Constants ==
  /\ First \in Steps /\ None \notin Messages /\ None \notin Results
  /\ MaxRetries \in Nat /\ MaxFaults \in Nat /\ 0 \in 0..MaxRetries
  /\ OnSuccess \in [Steps -> Steps \union Ends] /\ OnFailure \in [Steps -> Steps \union Ends]
  /\ Branches \in [Steps -> SUBSET (Steps \union Ends)]
  /\ Kind \in [Steps -> {"action", "condition", "approval", "wait", "job"}]
  /\ Steps \cap {"END_OK", "END_FAIL", "HUMAN", "TIMER", "LEAVE", "GIVE_UP"} = {}
BY EngineAssumption, SMT DEF Ends

LEMMA MessageParts ==
  ASSUME NEW m \in Messages
  PROVE  m.run \in Runs /\ m.step \in Steps /\ m.retry \in 0..MaxRetries
BY DEF Messages

LEMMA FirstAttempts ==
  ASSUME NEW r \in Runs, NEW s \in Steps
  PROVE  /\ FirstAttempt(r, s) \in Messages
         /\ FirstAttempt(r, s).run = r /\ FirstAttempt(r, s).step = s
BY Constants, SMT DEF FirstAttempt, Messages

\* What a step handler may return.
LEMMA OutcomesFit ==
  ASSUME NEW s \in Steps, NEW o \in Outcomes(s)
  PROVE  /\ o \in Results
         /\ o.next \in After[s]
         /\ o.next = "TIMER" <=> o.status = "WAITING_TIMER"
         /\ o.next = "TIMER" => Kind[s] \in {"wait", "job"}
         /\ o.next \in {"LEAVE", "GIVE_UP"} => s \in BadConfig
<1>1. PICK how \in {"COMPLETED", "FAILED", "WAITING_HUMAN", "WAITING_TIMER"},
           next \in Steps \union Ends \union {"HUMAN", "TIMER", "LEAVE", "GIVE_UP"} :
        /\ o = Returned(how, next)
        /\ next = "TIMER" <=> how = "WAITING_TIMER"
        /\ next = "TIMER" => Kind[s] \in {"wait", "job"}
        /\ next \in {"LEAVE", "GIVE_UP"} => s \in BadConfig
  <2>1. CASE s \in BadConfig
    BY <2>1, Constants, SMT DEF Outcomes, Returned, Ends
  <2>2. CASE s \notin BadConfig /\ Kind[s] = "condition"
    <3>1. PICK t \in Branches[s] : o = Returned("COMPLETED", t)
      BY <2>2, SMT DEF Outcomes
    <3> QED
      BY <3>1, Constants, SMT DEF Ends
  <2>3. CASE s \notin BadConfig /\ Kind[s] # "condition"
    <3>1. OnSuccess[s] \in Steps \union Ends /\ OnFailure[s] \in Steps \union Ends
      BY Constants
    <3>2. Kind[s] \in {"action", "approval", "wait", "job"}
      BY <2>3, Constants
    <3>3. CASE Kind[s] = "action"
      BY <2>3, <3>1, <3>3, Constants, SMT DEF Outcomes, Ends
    <3>4. CASE Kind[s] = "approval"
      BY <2>3, <3>1, <3>4, Constants, SMT DEF Outcomes, Ends
    <3>5. CASE Kind[s] = "wait"
      BY <2>3, <3>1, <3>5, Constants, SMT DEF Outcomes, Ends
    <3>6. CASE Kind[s] = "job"
      BY <2>3, <3>1, <3>6, Constants, SMT DEF Outcomes, Ends
    <3> QED
      BY <3>2, <3>3, <3>4, <3>5, <3>6
  <2> QED
    BY <2>1, <2>2, <2>3
<1>2. o.next = next /\ o.status = how /\ o \in Results
  BY <1>1 DEF Returned, Results
<1>3. o.next \in After[s]
  BY DEF After
<1> QED
  BY <1>1, <1>2, <1>3

LEMMA InitTypes == Init => TypeInv
<1> SUFFICES ASSUME Init PROVE TypeInv
  OBVIOUS
<1>1. TypeOK
  BY Constants, SMT DEF Init, TypeOK, RunStatus, StepStatus, Stages
<1> QED
  BY <1>1 DEF Init, TypeInv, HasMessage, HasResult, Launched

-----------------------------------------------------------------------------
(* What the helpers of the module do, pointwise *)

\* The status of step s of run r becomes new, that of run r, the message m
\* gets one more copy.
StepIs(r, s, new) ==
  /\ step' \in [Runs -> [Steps -> StepStatus \union {"none"}]]
  /\ step'[r][s] = new
  /\ \A q \in Runs, t \in Steps : q # r \/ t # s => step'[q][t] = step[q][t]

StatusIs(r, new) ==
  /\ status' \in [Runs -> RunStatus \union {"none"}]
  /\ status'[r] = new
  /\ \A q \in Runs \ {r} : status'[q] = status[q]

Sends(m) ==
  /\ m \in Messages
  /\ queue' \in [Messages -> Nat]
  /\ queue'[m] = queue[m] + 1
  /\ \A n \in Messages \ {m} : queue'[n] = queue[n]

\* Worker w goes on with its message, or is through with it; the others
\* stay where they are.
Goes(w, a, b) ==
  /\ pc[w] = a /\ pc' \in [Workers -> Stages] /\ pc'[w] = b
  /\ \A v \in Workers \ {w} : pc'[v] = pc[v]

Frees(w, a) ==
  /\ Goes(w, a, "idle")
  /\ msg' \in [Workers -> Messages \union {None}]
  /\ result' \in [Workers -> Results \union {None}]
  /\ \A v \in Workers \ {w} : msg'[v] = msg[v] /\ result'[v] = result[v]

LEMMA SetStepEffect ==
  ASSUME TypeOK, NEW r \in Runs, NEW s \in Steps, NEW new \in StepStatus, SetStep(r, s, new)
  PROVE  StepIs(r, s, new)
BY SMT DEF TypeOK, SetStep, StepIs

LEMMA SetStatusEffect ==
  ASSUME TypeOK, NEW r \in Runs, NEW new \in RunStatus, SetStatus(r, new)
  PROVE  StatusIs(r, new)
BY SMT DEF TypeOK, SetStatus, StatusIs

LEMMA SendEffect ==
  ASSUME TypeOK, NEW m \in Messages, queue' = [queue EXCEPT ![m] = @ + 1]
  PROVE  Sends(m)
BY SMT DEF TypeOK, Sends

LEMMA EnqueueEffect ==
  ASSUME TypeOK, NEW r \in Runs, NEW s \in Steps, Enqueue(r, s)
  PROVE  Sends(FirstAttempt(r, s))
BY FirstAttempts, SendEffect DEF Enqueue

LEMMA GoToEffect ==
  ASSUME TypeOK, NEW w \in Workers, NEW a, NEW b \in Stages, GoTo(w, a, b)
  PROVE  Goes(w, a, b)
BY SMT DEF TypeOK, GoTo, Goes

LEMMA FreeEffect ==
  ASSUME TypeOK, NEW w \in Workers, NEW a, Free(w, a)
  PROVE  Frees(w, a)
<1>1. "idle" \in Stages
  BY DEF Stages
<1>2. Goes(w, a, "idle")
  BY <1>1, GoToEffect DEF Free
<1> QED
  BY <1>2, SMT DEF Free, Frees, TypeOK

LEMMA GiveBackEffect ==
  ASSUME TypeInv, NEW w \in Workers, pc[w] # "idle", GiveBack(w)
  PROVE  Sends(msg[w])
BY SendEffect DEF GiveBack, TypeInv, HasMessage

\* The message of a busy worker is one of a run and a step.
LEMMA Holding ==
  ASSUME TypeInv, NEW w \in Workers, pc[w] # "idle"
  PROVE  msg[w] \in Messages /\ msg[w].run \in Runs /\ msg[w].step \in Steps
BY MessageParts DEF TypeInv, HasMessage

\* What the handler returned is one of the outcomes of the step.
LEMMA Returning ==
  ASSUME TypeInv, NEW w \in Workers, pc[w] \in {"complete", "schedule", "advance", "leave"}
  PROVE  /\ result[w] \in Outcomes(msg[w].step) /\ result[w] \in Results
         /\ result[w].status \in {"COMPLETED", "FAILED", "WAITING_HUMAN", "WAITING_TIMER"}
         /\ result[w].next \in Steps \union Ends \union {"HUMAN", "TIMER", "LEAVE", "GIVE_UP"}
         /\ result[w].next \in After[msg[w].step]
         /\ result[w].next = "TIMER" <=> result[w].status = "WAITING_TIMER"
         /\ result[w].next = "TIMER" => Kind[msg[w].step] \in {"wait", "job"}
<1>1. msg[w].step \in Steps
  BY Holding
<1>2. result[w] \in Outcomes(msg[w].step)
  BY DEF TypeInv, HasResult
<1>3. result[w] \in Results
  BY <1>1, <1>2, OutcomesFit
<1> QED
  BY <1>1, <1>2, <1>3, OutcomesFit DEF Results

-----------------------------------------------------------------------------
(* What the steps of the worker do, pointwise *)

LEMMA ReadEffect ==
  ASSUME TypeInv, NEW w \in Workers, Read(w)
  PROVE  \E m \in Messages :
           /\ queue[m] > 0
           /\ queue' \in [Messages -> Nat] /\ queue'[m] = queue[m] - 1
           /\ \A n \in Messages \ {m} : queue'[n] = queue[n]
           /\ msg' \in [Workers -> Messages \union {None}] /\ msg'[w] = m
           /\ \A v \in Workers \ {w} : msg'[v] = msg[v]
           /\ Goes(w, "idle", pc'[w])
           /\ pc'[w] = "context" \/ (pc'[w] = "settle" /\ m \in processed)
<1>1. PICK m \in Messages :
        /\ queue[m] > 0
        /\ queue' = [queue EXCEPT ![m] = @ - 1]
        /\ msg' = [msg EXCEPT ![w] = m]
        /\ \/ GoTo(w, "idle", "context")
           \/ m \in processed /\ GoTo(w, "idle", "settle")
  BY DEF Read
<1>2. {"context", "settle"} \subseteq Stages
  BY DEF Stages
<1>3. \/ Goes(w, "idle", "context")
      \/ m \in processed /\ Goes(w, "idle", "settle")
  BY <1>1, <1>2, GoToEffect DEF TypeInv
<1>4. /\ Goes(w, "idle", pc'[w])
      /\ pc'[w] = "context" \/ (pc'[w] = "settle" /\ m \in processed)
  BY <1>3 DEF Goes
<1> QED
  BY <1>1, <1>4, SMT DEF TypeInv, TypeOK

LEMMA ReadContextEffect ==
  ASSUME TypeInv, NEW w \in Workers, ReadContext(w)
  PROVE  \/ Goes(w, "context", "start") /\ step[msg[w].run][msg[w].step] = "PENDING"
         \/ Goes(w, "context", "settle") /\ step[msg[w].run][msg[w].step] # "PENDING"
         \/ Goes(w, "context", "return")
<1>1. {"start", "settle", "return"} \subseteq Stages
  BY DEF Stages
<1> QED
  BY <1>1, GoToEffect DEF ReadContext, TypeInv

LEMMA StartEffect ==
  ASSUME TypeInv, NEW w \in Workers, Start(w)
  PROVE  /\ Goes(w, "start", "execute")
         /\ \/ /\ step[msg[w].run][msg[w].step] \in {"PENDING", "FAILED"}
               /\ StepIs(msg[w].run, msg[w].step, "RUNNING")
            \/ /\ step[msg[w].run][msg[w].step] \in {"PENDING", "FAILED"} =>
                    "start_automation_step_run" \in FailingRpcs
               /\ UNCHANGED step
<1>1. "execute" \in Stages /\ "RUNNING" \in StepStatus
  BY DEF Stages, StepStatus, RunStatus
<1>2. Goes(w, "start", "execute")
  BY <1>1, GoToEffect DEF Start, TypeInv
<1>3. msg[w].run \in Runs /\ msg[w].step \in Steps
  BY <1>2, Holding DEF Goes
<1>4. ASSUME SetStep(msg[w].run, msg[w].step, "RUNNING")
      PROVE  StepIs(msg[w].run, msg[w].step, "RUNNING")
  BY <1>1, <1>3, <1>4, SetStepEffect DEF TypeInv
<1> QED
  BY <1>2, <1>4 DEF Start, RpcFails

LEMMA ExecuteEffect ==
  ASSUME TypeInv, NEW w \in Workers, Execute(w)
  PROVE  LET r == msg[w].run
             s == msg[w].step
         IN /\ Goes(w, "execute", "complete")
            /\ result' \in [Workers -> Results \union {None}]
            /\ result'[w] \in Outcomes(s)
            /\ \A v \in Workers \ {w} : result'[v] = result[v]
            /\ approvals' \subseteq Runs \X Steps /\ approvals \subseteq approvals'
            /\ jobs' \in [Runs -> [Steps -> Nat]]
            /\ jobs'[r][s] = jobs[r][s]
                 + (IF result'[w].next = "TIMER" /\ Kind[s] = "job" THEN 1 ELSE 0)
            /\ \A q \in Runs, t \in Steps : q # r \/ t # s => jobs'[q][t] = jobs[q][t]
            /\ ran' \in [Runs -> [Steps -> Nat]]
            /\ ran'[r][s] = ran[r][s] + 1
            /\ \A q \in Runs, t \in Steps : q # r \/ t # s => ran'[q][t] = ran[q][t]
<1> DEFINE r == msg[w].run
           s == msg[w].step
<1>1. "complete" \in Stages
  BY DEF Stages
<1>2. Goes(w, "execute", "complete")
  BY <1>1, GoToEffect DEF Execute, TypeInv
<1>3. r \in Runs /\ s \in Steps
  BY <1>2, Holding DEF Goes
<1>4. PICK o \in Outcomes(s) :
        /\ result' = [result EXCEPT ![w] = o]
        /\ approvals' = IF o.next = "HUMAN" THEN approvals \union {<<r, s>>} ELSE approvals
        /\ jobs' = IF o.next = "TIMER" /\ Kind[s] = "job"
                   THEN [jobs EXCEPT ![r][s] = @ + 1] ELSE jobs
  BY DEF Execute
<1>5. o \in Results
  BY <1>3, OutcomesFit
<1>6. /\ result' \in [Workers -> Results \union {None}] /\ result'[w] = o
      /\ \A v \in Workers \ {w} : result'[v] = result[v]
  BY <1>4, <1>5, SMT DEF TypeInv, TypeOK
<1>7. approvals' \subseteq Runs \X Steps /\ approvals \subseteq approvals'
  BY <1>3, <1>4 DEF TypeInv, TypeOK
<1>8. /\ jobs' \in [Runs -> [Steps -> Nat]]
      /\ jobs'[r][s] = jobs[r][s] + (IF o.next = "TIMER" /\ Kind[s] = "job" THEN 1 ELSE 0)
      /\ \A q \in Runs, t \in Steps : q # r \/ t # s => jobs'[q][t] = jobs[q][t]
  <2>1. jobs \in [Runs -> [Steps -> Nat]]
    BY DEF TypeInv, TypeOK
  <2>2. CASE o.next = "TIMER" /\ Kind[s] = "job"
    <3>1. jobs' = [jobs EXCEPT ![r][s] = @ + 1]
      BY <1>4, <2>2
    <3> HIDE DEF r, s
    <3> QED
      BY <1>3, <2>1, <2>2, <3>1, SMT
  <2>3. CASE ~(o.next = "TIMER" /\ Kind[s] = "job")
    <3>1. jobs' = jobs
      BY <1>4, <2>3
    <3> HIDE DEF r, s
    <3> QED
      BY <1>3, <2>1, <2>3, <3>1, SMT
  <2> QED
    BY <2>2, <2>3
<1>9. /\ ran' \in [Runs -> [Steps -> Nat]]
      /\ ran'[r][s] = ran[r][s] + 1
      /\ \A q \in Runs, t \in Steps : q # r \/ t # s => ran'[q][t] = ran[q][t]
  <2>1. ran \in [Runs -> [Steps -> Nat]] /\ ran' = [ran EXCEPT ![r][s] = @ + 1]
    BY DEF TypeInv, TypeOK, Execute
  <2> HIDE DEF r, s
  <2> QED
    BY <1>3, <2>1, SMT
<1> QED
  BY <1>2, <1>4, <1>6, <1>7, <1>8, <1>9

LEMMA CompleteEffect ==
  ASSUME TypeInv, NEW w \in Workers, Complete(w)
  PROVE  /\ Goes(w, "complete", CASE result[w].next = "TIMER" -> "schedule"
                                  [] result[w].next = "LEAVE" -> "leave"
                                  [] OTHER -> "advance")
         /\ StepIs(msg[w].run, msg[w].step, result[w].status) \/ UNCHANGED step
<1>1. (CASE result[w].next = "TIMER" -> "schedule" [] result[w].next = "LEAVE" -> "leave"
         [] OTHER -> "advance") \in Stages
  BY DEF Stages
<1>2. Goes(w, "complete", CASE result[w].next = "TIMER" -> "schedule"
                            [] result[w].next = "LEAVE" -> "leave"
                            [] OTHER -> "advance")
  BY <1>1, GoToEffect DEF Complete, TypeInv
<1>3. pc[w] = "complete" /\ msg[w].run \in Runs /\ msg[w].step \in Steps
  BY <1>2, Holding DEF Goes
<1>4. result[w].status \in StepStatus
  BY <1>3, Returning DEF StepStatus, RunStatus
<1> QED
  BY <1>2, <1>3, <1>4, SetStepEffect DEF Complete, TypeInv

LEMMA ScheduleEffect ==
  ASSUME TypeInv, NEW w \in Workers, Schedule(w)
  PROVE  LET r == msg[w].run
             s == msg[w].step
         IN /\ Goes(w, "schedule", "settle")
            /\ \/ /\ StepIs(r, s, "WAITING_TIMER") /\ StatusIs(r, "WAITING_TIMER")
                  /\ timer' \in [Runs -> BOOLEAN] /\ (timer'[r] <=> Kind[s] = "wait")
                  /\ \A q \in Runs \ {r} : timer'[q] = timer[q]
               \/ UNCHANGED <<step, status, timer>>
<1> DEFINE r == msg[w].run
           s == msg[w].step
<1>1. "settle" \in Stages /\ "WAITING_TIMER" \in StepStatus /\ "WAITING_TIMER" \in RunStatus
  BY DEF Stages, StepStatus, RunStatus
<1>2. Goes(w, "schedule", "settle")
  BY <1>1, GoToEffect DEF Schedule, TypeInv
<1>3. r \in Runs /\ s \in Steps
  BY <1>2, Holding DEF Goes
<1>4. CASE /\ SetStep(r, s, "WAITING_TIMER") /\ SetStatus(r, "WAITING_TIMER")
           /\ timer' = [timer EXCEPT ![r] = Kind[s] = "wait"]
  <2>1. StepIs(r, s, "WAITING_TIMER")
    BY <1>1, <1>3, <1>4, SetStepEffect DEF TypeInv
  <2>2. StatusIs(r, "WAITING_TIMER")
    BY <1>1, <1>3, <1>4, SetStatusEffect DEF TypeInv
  <2>3. /\ timer' \in [Runs -> BOOLEAN] /\ (timer'[r] <=> Kind[s] = "wait")
        /\ \A q \in Runs \ {r} : timer'[q] = timer[q]
    <3>1. timer \in [Runs -> BOOLEAN] /\ timer' = [timer EXCEPT ![r] = Kind[s] = "wait"]
      BY <1>4 DEF TypeInv, TypeOK
    <3> HIDE DEF r, s
    <3> QED
      BY <1>3, <3>1
  <2> QED
    BY <1>2, <2>1, <2>2, <2>3
<1> QED
  BY <1>2, <1>4 DEF Schedule

LEMMA CloseRunEffect ==
  ASSUME TypeInv, NEW w \in Workers, CloseRun(w)
  PROVE  LET next == result[w].next IN
         /\ Goes(w, "advance", IF next = "GIVE_UP" THEN "return" ELSE "settle")
         /\ next \notin Steps
         /\ \/ StatusIs(msg[w].run, CASE next = "END_OK" -> "COMPLETED"
                                      [] next = "HUMAN"  -> "WAITING_HUMAN"
                                      [] OTHER           -> "FAILED")
            \/ UNCHANGED status
<1> DEFINE next == result[w].next
           new == CASE next = "END_OK" -> "COMPLETED"
                    [] next = "HUMAN"  -> "WAITING_HUMAN"
                    [] OTHER           -> "FAILED"
<1>1. (IF next = "GIVE_UP" THEN "return" ELSE "settle") \in Stages /\ new \in RunStatus
  BY DEF Stages, RunStatus
<1>2. Goes(w, "advance", IF next = "GIVE_UP" THEN "return" ELSE "settle")
  BY <1>1, GoToEffect DEF CloseRun, TypeInv
<1>3. msg[w].run \in Runs
  BY <1>2, Holding DEF Goes
<1> QED
  BY <1>1, <1>2, <1>3, SetStatusEffect DEF CloseRun, TypeInv

LEMMA EnqueueNextEffect ==
  ASSUME TypeInv, NEW w \in Workers, EnqueueNext(w)
  PROVE  /\ Goes(w, "advance", "settle")
         /\ result[w].next \in Steps
         /\ Sends(FirstAttempt(msg[w].run, result[w].next)) \/ UNCHANGED queue
<1>1. "settle" \in Stages
  BY DEF Stages
<1>2. Goes(w, "advance", "settle")
  BY <1>1, GoToEffect DEF EnqueueNext, TypeInv
<1>3. msg[w].run \in Runs
  BY <1>2, Holding DEF Goes
<1> QED
  BY <1>2, <1>3, EnqueueEffect DEF EnqueueNext, TypeInv

\* The four ways to be through with a message.
LEMMA FreeingEffect ==
  ASSUME TypeInv, NEW w \in Workers, Settle(w) \/ Leave(w) \/ Return(w) \/ Crash(w)
  PROVE  \/ Settle(w) /\ Frees(w, "settle") /\ (Sends(msg[w]) \/ UNCHANGED queue)
         \/ Leave(w) /\ Frees(w, "leave") /\ Sends(msg[w])
         \/ Return(w) /\ Frees(w, "return") /\ (Sends(msg[w]) \/ UNCHANGED queue)
         \/ Crash(w) /\ pc[w] # "idle" /\ Frees(w, pc[w]) /\ Sends(msg[w])
<1>1. CASE Settle(w)
  <2>1. Frees(w, "settle") /\ (GiveBack(w) \/ UNCHANGED queue)
    BY <1>1, FreeEffect DEF Settle, TypeInv, queueVars
  <2> QED
    BY <1>1, <2>1, GiveBackEffect DEF Frees, Goes
<1>2. CASE Leave(w)
  <2>1. Frees(w, "leave") /\ GiveBack(w)
    BY <1>2, FreeEffect DEF Leave, TypeInv
  <2> QED
    BY <1>2, <2>1, GiveBackEffect DEF Frees, Goes
<1>3. CASE Return(w)
  <2>1. Frees(w, "return") /\ (GiveBack(w) \/ UNCHANGED queue)
    BY <1>3, FreeEffect DEF Return, TypeInv
  <2> QED
    BY <1>3, <2>1, GiveBackEffect DEF Frees, Goes
<1>4. CASE Crash(w)
  <2>1. Frees(w, pc[w]) /\ GiveBack(w) /\ pc[w] # "idle"
    BY <1>4, FreeEffect DEF Crash, TypeInv
  <2> QED
    BY <1>4, <2>1, GiveBackEffect
<1> QED
  BY <1>1, <1>2, <1>3, <1>4

-----------------------------------------------------------------------------
(* What happens outside the worker, pointwise *)

LEMMA ResumeEffect ==
  ASSUME TypeInv, NEW r \in Runs, NEW s \in Steps, Resume(r, s)
  PROVE  LET next == OnSuccess[s] IN
         /\ StepIs(r, s, "COMPLETED")
         /\ StatusIs(r, CASE next = "END_OK"   -> "COMPLETED"
                          [] next = "END_FAIL" -> "FAILED"
                          [] OTHER             -> "RUNNING")
         /\ timer' \in [Runs -> BOOLEAN] /\ (timer'[r] <=> timer[r] /\ next = "END_FAIL")
         /\ \A q \in Runs \ {r} : timer'[q] = timer[q]
         /\ next \in Steps \union Ends
         /\ next \in Steps => Sends(FirstAttempt(r, next))
         /\ next \notin Steps => UNCHANGED queue
<1> DEFINE next == OnSuccess[s]
           new == CASE next = "END_OK"   -> "COMPLETED"
                    [] next = "END_FAIL" -> "FAILED"
                    [] OTHER             -> "RUNNING"
<1>1. "COMPLETED" \in StepStatus /\ new \in RunStatus /\ next \in Steps \union Ends
  BY Constants DEF StepStatus, RunStatus
<1>2. StepIs(r, s, "COMPLETED")
  BY <1>1, SetStepEffect DEF Resume, TypeInv
<1>3. StatusIs(r, new)
  BY <1>1, SetStatusEffect DEF Resume, TypeInv
<1>4. /\ timer' \in [Runs -> BOOLEAN] /\ (timer'[r] <=> timer[r] /\ next = "END_FAIL")
      /\ \A q \in Runs \ {r} : timer'[q] = timer[q]
  BY DEF Resume, TypeInv, TypeOK
<1>5. next \in Steps => Sends(FirstAttempt(r, next))
  BY EnqueueEffect DEF Resume, TypeInv
<1>6. next \notin Steps => UNCHANGED queue
  BY DEF Resume
<1> QED
  BY <1>1, <1>2, <1>3, <1>4, <1>5, <1>6

LEMMA JobEndsEffect ==
  ASSUME TypeInv, NEW r \in Runs, NEW s \in Steps, JobEnds(r, s)
  PROVE  /\ jobs[r][s] > 0 /\ jobs' \in [Runs -> [Steps -> Nat]] /\ jobs'[r][s] = jobs[r][s] - 1
         /\ \A q \in Runs, t \in Steps : q # r \/ t # s => jobs'[q][t] = jobs[q][t]
BY SMT DEF JobEnds, TypeInv, TypeOK

LEMMA CancelEffect ==
  ASSUME TypeInv, NEW r \in Runs, Cancel(r)
  PROVE  /\ StatusIs(r, "CANCELLED")
         /\ status[r] \in {"RUNNING", "WAITING_HUMAN", "WAITING_TIMER"}
         /\ step' \in [Runs -> [Steps -> StepStatus \union {"none"}]]
         /\ \A t \in Steps : step'[r][t] =
              IF step[r][t] \in {"PENDING", "RUNNING", "WAITING_HUMAN", "WAITING_TIMER"}
              THEN "CANCELLED" ELSE step[r][t]
         /\ \A q \in Runs \ {r} : step'[q] = step[q]
<1>1. "CANCELLED" \in RunStatus /\ "CANCELLED" \in StepStatus
  BY DEF RunStatus, StepStatus
<1>2. StatusIs(r, "CANCELLED")
  BY <1>1, SetStatusEffect DEF Cancel, TypeInv
<1> QED
  BY <1>1, <1>2, SMT DEF Cancel, TypeInv, TypeOK

LEMMA RetryEffect ==
  ASSUME TypeInv, NEW r \in Runs, Retry(r)
  PROVE  /\ StatusIs(r, "RUNNING") /\ status[r] = "FAILED"
         /\ retries' \in [Runs -> 0..MaxRetries]
         /\ \/ \E s \in Steps, m \in Messages :
                 m.run = r /\ step[r][s] = "FAILED" /\ StepIs(r, s, "PENDING") /\ Sends(m)
            \/ UNCHANGED <<step, queue>>
<1>1. "RUNNING" \in RunStatus /\ "PENDING" \in StepStatus
  BY DEF RunStatus, StepStatus
<1>2. StatusIs(r, "RUNNING") /\ status[r] = "FAILED"
  BY <1>1, SetStatusEffect DEF Retry, TypeInv
<1>3. retries[r] + 1 \in 0..MaxRetries /\ retries' \in [Runs -> 0..MaxRetries]
  BY Constants, SMT DEF Retry, TypeInv, TypeOK
<1>4. CASE UNCHANGED <<step, queue>>
  BY <1>2, <1>3, <1>4
<1>5. CASE ~UNCHANGED <<step, queue>>
  <2>1. PICK s \in Steps :
          /\ step[r][s] = "FAILED" /\ SetStep(r, s, "PENDING")
          /\ queue' = [queue EXCEPT ![[run |-> r, step |-> s, retry |-> retries[r] + 1]] = @ + 1]
    BY <1>5 DEF Retry
  <2>2. StepIs(r, s, "PENDING")
    BY <1>1, <2>1, SetStepEffect DEF TypeInv
  <2>3. [run |-> r, step |-> s, retry |-> retries[r] + 1] \in Messages
    BY <1>3 DEF Messages
  <2>4. Sends([run |-> r, step |-> s, retry |-> retries[r] + 1])
    BY <2>1, <2>3, SendEffect DEF TypeInv
  <2> QED
    BY <1>2, <1>3, <2>1, <2>2, <2>3, <2>4
<1> QED
  BY <1>4, <1>5

-----------------------------------------------------------------------------
(* Every step keeps the types *)

LEMMA LaunchTypes ==
  ASSUME TypeInv, NEW r \in Runs,
         CreateRun(r) \/ Launch(r) \/ LaunchFails(r) \/ Cancel(r) \/ Retry(r)
  PROVE  TypeInv'
<1> USE DEF TypeInv, runVars, queueVars, outsideVars, workerVars
<1>1. CASE CreateRun(r)
  BY <1>1, SMT DEF CreateRun, SetStatus, TypeOK, RunStatus, HasMessage, HasResult, Launched
<1>2. CASE CreateStepRuns(r)
  <2>1. TypeOK' /\ HasMessage' /\ HasResult'
    BY <1>2, SMT DEF CreateStepRuns, TypeOK, StepStatus, HasMessage, HasResult
  <2>2. Launched'
    BY <1>2, SMT DEF CreateStepRuns, TypeOK, Launched
  <2> QED
    BY <2>1, <2>2
<1>3. CASE EnqueueFirst(r)
  <2>1. Sends(FirstAttempt(r, First)) /\ FirstAttempt(r, First).run = r
    BY <1>3, Constants, EnqueueEffect, FirstAttempts DEF EnqueueFirst
  <2>2. TypeOK' /\ HasMessage' /\ HasResult'
    BY <1>3, <2>1, SMT DEF EnqueueFirst, Sends, TypeOK, HasMessage, HasResult
  <2>3. launch'[r] = "done" /\ \A q \in Runs \ {r} : launch'[q] = launch[q]
    BY <1>3 DEF EnqueueFirst, TypeOK
  <2>4. \A m \in Messages : m.run # r => queue'[m] = queue[m]
    BY <2>1 DEF Sends
  <2>5. Launched'
    BY <1>3, <2>3, <2>4 DEF EnqueueFirst, Launched
  <2> QED
    BY <2>2, <2>5
<1>4. CASE LaunchFails(r)
  BY <1>4, SMT DEF LaunchFails, Fault, TypeOK, HasMessage, HasResult, Launched
<1>5. CASE Cancel(r)
  <2>1. /\ status' \in [Runs -> RunStatus \union {"none"}]
        /\ step' \in [Runs -> [Steps -> StepStatus \union {"none"}]]
    BY <1>5, CancelEffect DEF StatusIs
  <2>2. TypeOK'
    BY <1>5, <2>1 DEF Cancel, TypeOK
  <2>3. HasMessage' /\ HasResult'
    BY <1>5 DEF Cancel, HasMessage, HasResult
  <2>4. \A q \in Runs : status'[q] = status[q] \/ status'[q] = "CANCELLED"
    BY <1>5, CancelEffect DEF StatusIs
  <2>5. \A q \in Runs, t \in Steps : step[q][t] = "none" => step'[q][t] = "none"
    BY <1>5, CancelEffect, SMT
  <2>6. Launched'
    BY <1>5, <2>4, <2>5 DEF Cancel, Launched
  <2> QED
    BY <2>2, <2>3, <2>6
<1>6. CASE Retry(r)
  <2>1. /\ StatusIs(r, "RUNNING") /\ status[r] = "FAILED"
        /\ retries' \in [Runs -> 0..MaxRetries]
        /\ \/ \E s \in Steps, m \in Messages :
                m.run = r /\ step[r][s] = "FAILED" /\ StepIs(r, s, "PENDING") /\ Sends(m)
           \/ UNCHANGED <<step, queue>>
    BY <1>6, RetryEffect
  <2>2. TypeOK'
    BY <1>6, <2>1 DEF Retry, StatusIs, StepIs, Sends, TypeOK
  <2>3. HasMessage' /\ HasResult'
    BY <1>6 DEF Retry, HasMessage, HasResult
  <2>4. launch[r] = "done" /\ launch' = launch
    BY <1>6, <2>1 DEF Retry, Launched
  <2>5. /\ \A q \in Runs \ {r} : status'[q] = status[q] /\ \A t \in Steps : step'[q][t] = step[q][t]
        /\ \A m \in Messages : m.run # r => queue'[m] = queue[m] /\ (m \in processed' => m \in processed)
    BY <1>6, <2>1 DEF Retry, StatusIs, StepIs, Sends
  <2>6. Launched'
    BY <1>6, <2>4, <2>5 DEF Retry, Launched
  <2> QED
    BY <2>2, <2>3, <2>6
<1> QED
  BY <1>1, <1>2, <1>3, <1>4, <1>5, <1>6 DEF Launch

\* What a step that serves run r only may do to the others.
LocalTo(r) ==
  /\ UNCHANGED launch
  /\ \A q \in Runs \ {r} : status'[q] = status[q]
  /\ \A q \in Runs \ {r}, s \in Steps :
       step'[q][s] = step[q][s] /\ ran'[q][s] = ran[q][s] /\ jobs'[q][s] = jobs[q][s]
  /\ \A m \in Messages : m.run # r => queue'[m] = queue[m] /\ (m \in processed' => m \in processed)
  /\ \A w \in Workers :
       pc'[w] # "idle" => (pc[w] # "idle" /\ msg'[w] = msg[w]) \/ msg'[w].run = r

LEMMA OnlyRun ==
  ASSUME TypeInv, TypeOK', NEW r \in Runs, launch[r] = "done", LocalTo(r)
  PROVE  Launched'
<1> SUFFICES ASSUME NEW q \in Runs, launch'[q] # "done"
             PROVE  /\ \A m \in Messages : m.run = q => queue'[m] = 0 /\ m \notin processed'
                    /\ \A w \in Workers : pc'[w] # "idle" => msg'[w].run # q
                    /\ \A s \in Steps : ran'[q][s] = 0 /\ jobs'[q][s] = 0
                    /\ status'[q] \in {"none", "RUNNING", "CANCELLED"}
                    /\ launch'[q] \in {"none", "run"} => \A s \in Steps : step'[q][s] = "none"
  BY DEF Launched
<1>1. q # r /\ launch[q] # "done" /\ launch'[q] = launch[q]
  BY DEF LocalTo
<1>2. ASSUME NEW m \in Messages, m.run = q PROVE queue'[m] = 0 /\ m \notin processed'
  <2>1. queue[m] = 0 /\ m \notin processed /\ queue'[m] = queue[m] /\ (m \in processed' => m \in processed)
    BY <1>1, <1>2 DEF LocalTo, Launched, TypeInv
  <2> QED
    BY <2>1
<1> QED
  BY <1>1, <1>2 DEF LocalTo, Launched, TypeInv

LEMMA WorkerTypes ==
  ASSUME TypeInv, NEW w \in Workers, Step(w) \/ Crash(w) \/ ExpireEarly(w)
  PROVE  TypeInv'
<1> USE DEF TypeInv, runVars, queueVars, outsideVars, workerVars
<1> DEFINE r == msg[w].run
           s == msg[w].step
<1>1. pc[w] # "idle" => r \in Runs /\ s \in Steps /\ msg[w] \in Messages /\ launch[r] = "done"
  BY Holding DEF Launched
<1> HIDE DEF r, s
<1>2. CASE Read(w)
  <2>1. PICK m \in Messages :
           /\ queue[m] > 0
           /\ queue' \in [Messages -> Nat] /\ queue'[m] = queue[m] - 1
           /\ \A n \in Messages \ {m} : queue'[n] = queue[n]
           /\ msg' \in [Workers -> Messages \union {None}] /\ msg'[w] = m
           /\ \A v \in Workers \ {w} : msg'[v] = msg[v]
           /\ Goes(w, "idle", pc'[w])
           /\ pc'[w] = "context" \/ (pc'[w] = "settle" /\ m \in processed)
    BY <1>2, ReadEffect
  <2>2. TypeOK'
    <3>1. faults' \in Nat /\ UNCHANGED <<runVars, processed, outsideVars, result, ran>>
      BY <1>2, SMT DEF Read, RpcOk, RpcFails, Fault, TypeOK
    <3> QED
      BY <2>1, <3>1 DEF Goes, TypeOK
  <2>3. HasMessage' /\ HasResult'
    BY <1>2, <2>1 DEF Read, Goes, HasMessage, HasResult
  <2>4. m.run \in Runs /\ launch[m.run] = "done"
    BY <2>1, MessageParts, SMT DEF Launched
  <2>5. \A n \in Messages : n.run # m.run => queue'[n] = queue[n]
    BY <2>1
  <2>6. \A v \in Workers : pc'[v] # "idle" => (pc[v] # "idle" /\ msg'[v] = msg[v]) \/ msg'[v].run = m.run
    BY <2>1 DEF Goes
  <2>7. Launched'
    <3>1. LocalTo(m.run)
      BY <1>2, <2>5, <2>6 DEF LocalTo, Read
    <3> QED
      BY <2>2, <2>4, <3>1, OnlyRun
  <2> QED
    BY <2>2, <2>3, <2>7
<1>3. CASE ReadContext(w)
  <2>1. /\ pc[w] = "context" /\ pc' \in [Workers -> Stages]
        /\ pc'[w] \in {"start", "settle", "return"}
        /\ \A v \in Workers \ {w} : pc'[v] = pc[v]
    BY <1>3, ReadContextEffect DEF Goes
  <2>2. TypeOK'
    BY <1>3, <2>1, SMT DEF ReadContext, RpcOk, RpcFails, Fault, TypeOK
  <2>3. HasMessage' /\ HasResult' /\ Launched'
    BY <1>3, <2>1 DEF ReadContext, HasMessage, HasResult, Launched
  <2> QED
    BY <2>2, <2>3
<1>4. CASE Start(w)
  <2>1. Goes(w, "start", "execute") /\ (StepIs(r, s, "RUNNING") \/ UNCHANGED step)
    BY <1>4, StartEffect DEF r, s
  <2>2. TypeOK'
    BY <1>4, <2>1, SMT DEF Start, RpcOk, RpcFails, Fault, TypeOK, Goes, StepIs
  <2>3. HasMessage' /\ HasResult'
    BY <1>4, <2>1 DEF Start, Goes, HasMessage, HasResult
  <2>4. Launched'
    <3>1. LocalTo(r)
      BY <1>1, <1>4, <2>1 DEF LocalTo, TypeOK, Start, Goes, StepIs
    <3> QED
      BY <1>1, <1>4, <2>1, <2>2, <3>1, OnlyRun DEF Goes
  <2> QED
    BY <2>2, <2>3, <2>4
<1>5. CASE Execute(w)
  <2>1. /\ Goes(w, "execute", "complete")
        /\ result' \in [Workers -> Results \union {None}] /\ result'[w] \in Outcomes(s)
        /\ \A v \in Workers \ {w} : result'[v] = result[v]
        /\ approvals' \subseteq Runs \X Steps /\ approvals \subseteq approvals'
        /\ jobs' \in [Runs -> [Steps -> Nat]] /\ ran' \in [Runs -> [Steps -> Nat]]
        /\ \A q \in Runs, t \in Steps : q # r \/ t # s => jobs'[q][t] = jobs[q][t] /\ ran'[q][t] = ran[q][t]
    BY <1>5, ExecuteEffect DEF r, s
  <2>2. TypeOK'
    BY <1>5, <2>1 DEF Execute, TypeOK, Goes
  <2>3. HasMessage' /\ HasResult'
    <3>1. UNCHANGED msg
      BY <1>5 DEF Execute
    <3> QED
      BY <2>1, <3>1 DEF Goes, HasMessage, HasResult, s
  <2>4. Launched'
    <3>1. LocalTo(r)
      BY <1>1, <1>5, <2>1 DEF LocalTo, TypeOK, Execute, Goes
    <3> QED
      BY <1>1, <1>5, <2>1, <2>2, <3>1, OnlyRun DEF Goes
  <2> QED
    BY <2>2, <2>3, <2>4
<1>6. CASE Complete(w)
  <2>1. /\ Goes(w, "complete", CASE result[w].next = "TIMER" -> "schedule"
                                 [] result[w].next = "LEAVE" -> "leave"
                                 [] OTHER -> "advance")
        /\ StepIs(r, s, result[w].status) \/ UNCHANGED step
    BY <1>6, CompleteEffect DEF r, s
  <2>2. TypeOK'
    BY <1>6, <2>1, SMT DEF Complete, RpcOk, RpcFails, Fault, TypeOK, Goes, StepIs
  <2>3. HasMessage' /\ HasResult'
    BY <1>6, <2>1 DEF Complete, Goes, HasMessage, HasResult
  <2>4. Launched'
    <3>1. LocalTo(r)
      BY <1>1, <1>6, <2>1 DEF LocalTo, TypeOK, Complete, Goes, StepIs
    <3> QED
      BY <1>1, <1>6, <2>1, <2>2, <3>1, OnlyRun DEF Goes
  <2> QED
    BY <2>2, <2>3, <2>4
<1>7. CASE Schedule(w)
  <2>1. /\ Goes(w, "schedule", "settle")
        /\ \/ StepIs(r, s, "WAITING_TIMER") /\ StatusIs(r, "WAITING_TIMER") /\ timer' \in [Runs -> BOOLEAN]
           \/ UNCHANGED <<step, status, timer>>
    BY <1>7, ScheduleEffect DEF r, s
  <2>2. TypeOK'
    BY <1>7, <2>1, SMT DEF Schedule, RpcOk, RpcFails, Fault, TypeOK, Goes, StepIs, StatusIs
  <2>3. HasMessage' /\ HasResult'
    BY <1>7, <2>1 DEF Schedule, Goes, HasMessage, HasResult
  <2>4. Launched'
    <3>1. LocalTo(r)
      BY <1>1, <1>7, <2>1 DEF LocalTo, TypeOK, Schedule, Goes, StepIs, StatusIs
    <3> QED
      BY <1>1, <1>7, <2>1, <2>2, <3>1, OnlyRun DEF Goes
  <2> QED
    BY <2>2, <2>3, <2>4
<1>8. CASE CloseRun(w)
  <2>1. PICK new \in {"COMPLETED", "WAITING_HUMAN", "FAILED"} :
        /\ Goes(w, "advance", IF result[w].next = "GIVE_UP" THEN "return" ELSE "settle")
        /\ StatusIs(r, new) \/ UNCHANGED status
    BY <1>8, CloseRunEffect DEF r
  <2>2. TypeOK'
    BY <1>8, <2>1, SMT DEF CloseRun, RpcOk, RpcFails, Fault, TypeOK, Goes, StatusIs
  <2>3. HasMessage' /\ HasResult'
    BY <1>8, <2>1 DEF CloseRun, Goes, HasMessage, HasResult
  <2>4. Launched'
    <3>1. LocalTo(r)
      BY <1>1, <1>8, <2>1 DEF LocalTo, TypeOK, CloseRun, Goes, StatusIs
    <3> QED
      BY <1>1, <1>8, <2>1, <2>2, <3>1, OnlyRun DEF Goes
  <2> QED
    BY <2>2, <2>3, <2>4
<1>9. CASE EnqueueNext(w)
  <2>1. Goes(w, "advance", "settle")
        /\ (UNCHANGED queue \/ \E m \in Messages : m.run = r /\ Sends(m))
    BY <1>1, <1>9, EnqueueNextEffect, FirstAttempts DEF Goes, r
  <2>2. TypeOK'
    BY <1>9, <2>1, SMT DEF EnqueueNext, RpcOk, RpcFails, Fault, TypeOK, Goes, Sends
  <2>3. HasMessage' /\ HasResult'
    BY <1>9, <2>1 DEF EnqueueNext, Goes, HasMessage, HasResult
  <2>4. Launched'
    <3>1. LocalTo(r)
      BY <1>1, <1>9, <2>1 DEF LocalTo, TypeOK, EnqueueNext, Goes, Sends
    <3> QED
      BY <1>1, <1>9, <2>1, <2>2, <3>1, OnlyRun DEF Goes
  <2> QED
    BY <2>2, <2>3, <2>4
<1>10. CASE Settle(w) \/ Leave(w) \/ Return(w) \/ Crash(w)
  <2>1. pc[w] # "idle" /\ Frees(w, pc[w]) /\ (UNCHANGED queue \/ Sends(msg[w]))
    BY <1>10, FreeingEffect DEF Frees, Goes
  <2>2. /\ processed' \subseteq processed \union {msg[w]} /\ faults' \in Nat
        /\ UNCHANGED <<runVars, outsideVars, ran>>
    BY <1>10, SMT DEF Settle, Leave, Return, Crash, RpcOk, RpcFails, Fault, TypeOK, queueVars
  <2>3. TypeOK'
    BY <1>1, <2>1, <2>2 DEF TypeOK, Frees, Goes, Sends
  <2>4. HasMessage' /\ HasResult'
    BY <2>1 DEF Frees, Goes, HasMessage, HasResult
  <2>5. Launched'
    <3>1. LocalTo(r)
      BY <1>1, <2>1, <2>2 DEF LocalTo, TypeOK, Frees, Goes, Sends, r
    <3> QED
      BY <1>1, <2>1, <2>2, <2>3, <3>1, OnlyRun
  <2> QED
    BY <2>3, <2>4, <2>5
<1>11. CASE ExpireEarly(w)
  <2>1. pc[w] # "idle" /\ Sends(msg[w])
    BY <1>11, GiveBackEffect DEF ExpireEarly
  <2>2. TypeOK'
    BY <1>11, <2>1, SMT DEF ExpireEarly, Fault, TypeOK, Sends
  <2>3. HasMessage' /\ HasResult'
    BY <1>11 DEF ExpireEarly, HasMessage, HasResult
  <2>4. Launched'
    <3>1. LocalTo(r)
      BY <1>1, <1>11, <2>1 DEF LocalTo, TypeOK, ExpireEarly, Sends, r
    <3> QED
      BY <1>1, <1>11, <2>1, <2>2, <3>1, OnlyRun DEF Goes
  <2> QED
    BY <2>2, <2>3, <2>4
<1> QED
  BY <1>2, <1>3, <1>4, <1>5, <1>6, <1>7, <1>8, <1>9, <1>10, <1>11 DEF Step

LEMMA OutsideTypes ==
  ASSUME TypeInv, NEW r \in Runs, NEW s \in Steps, ResumeTimer(r, s) \/ Outside(r, s)
  PROVE  TypeInv'
<1> USE DEF TypeInv, runVars, queueVars, outsideVars, workerVars
<1>1. ASSUME Resume(r, s)
      PROVE  /\ \E new \in {"COMPLETED", "FAILED", "RUNNING"} : StatusIs(r, new)
             /\ StepIs(r, s, "COMPLETED") /\ timer' \in [Runs -> BOOLEAN]
             /\ UNCHANGED queue \/ \E m \in Messages : m.run = r /\ Sends(m)
  BY <1>1, ResumeEffect, FirstAttempts
<1>2. CASE ResumeTimer(r, s)
  <2>1. launch[r] = "done"
    BY <1>2 DEF ResumeTimer, Launched
  <2>2. Resume(r, s)
    BY <1>2 DEF ResumeTimer
  <2>3. TypeOK'
    BY <1>1, <1>2, <2>2, SMT DEF ResumeTimer, TypeOK, StepIs, StatusIs, Sends
  <2>4. HasMessage' /\ HasResult'
    BY <1>2 DEF ResumeTimer, HasMessage, HasResult
  <2>5. Launched'
    <3>1. LocalTo(r)
      BY <1>1, <1>2, <2>1, <2>2 DEF LocalTo, TypeOK, ResumeTimer, StepIs, StatusIs, Sends
    <3> QED
      BY <1>1, <1>2, <2>1, <2>2, <2>3, <3>1, OnlyRun
  <2> QED
    BY <2>3, <2>4, <2>5
<1>3. ASSUME JobEnds(r, s)
      PROVE  /\ launch[r] = "done" /\ jobs' \in [Runs -> [Steps -> Nat]]
             /\ \A q \in Runs, t \in Steps : q # r \/ t # s => jobs'[q][t] = jobs[q][t]
  BY <1>3, JobEndsEffect, SMT DEF Launched
<1>4. CASE JobSucceeds(r, s)
  <2>1. JobEnds(r, s) /\ Resume(r, s)
    BY <1>4 DEF JobSucceeds
  <2>2. TypeOK'
    BY <1>1, <1>3, <1>4, <2>1, SMT DEF JobSucceeds, TypeOK, StepIs, StatusIs, Sends
  <2>3. HasMessage' /\ HasResult'
    BY <1>4 DEF JobSucceeds, HasMessage, HasResult
  <2>4. Launched'
    <3>1. LocalTo(r)
      BY <1>1, <1>3, <1>4, <2>1 DEF LocalTo, TypeOK, JobSucceeds, StepIs, StatusIs, Sends
    <3> QED
      BY <1>1, <1>3, <1>4, <2>1, <2>2, <3>1, OnlyRun DEF Goes
  <2> QED
    BY <2>2, <2>3, <2>4
<1>5. CASE JobDeclined(r, s)
  <2>1. JobEnds(r, s) /\ StepIs(r, s, "FAILED") /\ StatusIs(r, "FAILED")
    BY <1>5, SetStepEffect, SetStatusEffect DEF JobDeclined, StepStatus, RunStatus
  <2>2. TypeOK'
    BY <1>3, <1>5, <2>1 DEF JobDeclined, TypeOK, StepIs, StatusIs
  <2>3. HasMessage' /\ HasResult'
    BY <1>5 DEF JobDeclined, HasMessage, HasResult
  <2>4. Launched'
    <3>1. LocalTo(r)
      BY <1>3, <1>5, <2>1 DEF LocalTo, TypeOK, JobDeclined, StepIs, StatusIs
    <3> QED
      BY <1>1, <1>3, <1>5, <2>1, <2>2, <3>1, OnlyRun DEF Goes
  <2> QED
    BY <2>2, <2>3, <2>4
<1>6. CASE JobFails(r, s)
  <2>1. JobEnds(r, s)
    BY <1>6 DEF JobFails
  <2>2. TypeOK' /\ HasMessage' /\ HasResult'
    BY <1>3, <1>6, <2>1 DEF JobFails, TypeOK, HasMessage, HasResult
  <2>3. Launched'
    <3>1. LocalTo(r)
      BY <1>3, <1>6, <2>1 DEF LocalTo, TypeOK, JobFails
    <3> QED
      BY <1>1, <1>3, <1>6, <2>1, <2>2, <3>1, OnlyRun DEF Goes
  <2> QED
    BY <2>2, <2>3
<1>7. CASE Decide(r, s)
  <2>1. TypeOK'
    <3>1. decided' \subseteq approvals' /\ UNCHANGED <<runVars, queueVars, approvals, jobs, failedJobs, workerVars, ran, faults>>
      BY <1>7 DEF Decide, TypeOK
    <3> QED
      BY <3>1 DEF TypeOK
  <2>2. HasMessage' /\ HasResult' /\ Launched'
    BY <1>7 DEF Decide, HasMessage, HasResult, Launched
  <2> QED
    BY <2>1, <2>2
<1> QED
  BY <1>2, <1>4, <1>5, <1>6, <1>7 DEF Outside

LEMMA TypeStep == TypeInv /\ [Next]_vars => TypeInv'
<1> SUFFICES ASSUME TypeInv, [Next]_vars PROVE TypeInv'
  OBVIOUS
<1>1. CASE UNCHANGED vars
  BY <1>1 DEF vars, runVars, queueVars, outsideVars, workerVars, TypeInv, TypeOK, HasMessage, HasResult, Launched
<1>2. CASE Next
  BY <1>2, LaunchTypes, WorkerTypes, OutsideTypes DEF Next
<1> QED
  BY <1>1, <1>2

\* The type invariant of the engine, for every workflow: what the workers,
\* triggers and managers write is always of its type.
THEOREM TypeCorrect == Spec => []TypeOK
<1>1. TypeInv => TypeOK
  BY DEF TypeInv
<1> QED
  BY <1>1, InitTypes, TypeStep, PTL DEF Spec

\* A cancelled step stays cancelled, whatever fails and whatever the workers
\* are at: only the worker that had it in hand and the end of a job of its
\* own write over it.
THEOREM CancelledStay == Spec => CancelledStepsStay
<1> DEFINE Excused(r, s) ==
      \/ \E w \in Workers : pc[w] \in {"complete", "schedule"} /\ msg[w].run = r /\ msg[w].step = s
      \/ jobs'[r][s] < jobs[r][s]
<1>1. ASSUME TypeInv, [Next]_vars, NEW r \in Runs, NEW s \in Steps,
             step[r][s] = "CANCELLED", step'[r][s] # "CANCELLED"
      PROVE  Excused(r, s)
  <2> USE DEF TypeInv
  <2>1. CASE UNCHANGED vars
    BY <1>1, <2>1 DEF vars, runVars
  <2>2. ASSUME NEW q \in Runs, CreateRun(q) \/ Launch(q) \/ LaunchFails(q) \/ Cancel(q) \/ Retry(q)
        PROVE  Excused(r, s)
    <3>1. CASE CreateStepRuns(q)
      <4>1. r # q
        BY <1>1, <3>1 DEF CreateStepRuns, Launched
      <4> QED
        BY <1>1, <3>1, <4>1 DEF CreateStepRuns, TypeOK
    <3>2. CASE Cancel(q)
      BY <1>1, <3>2, CancelEffect, SMT
    <3>3. CASE Retry(q)
      BY <1>1, <3>3, RetryEffect, SMT DEF StepIs
    <3> QED
      BY <1>1, <2>2, <3>1, <3>2, <3>3 DEF CreateRun, Launch, EnqueueFirst, LaunchFails, runVars
  <2>3. ASSUME NEW w \in Workers, Step(w) \/ Crash(w) \/ ExpireEarly(w)
        PROVE  Excused(r, s)
    <3>1. CASE Start(w)
      <4>1. pc[w] = "start" /\ msg[w].run \in Runs /\ msg[w].step \in Steps
        BY <1>1, <2>3, <3>1, StartEffect, Holding DEF Goes
      <4> QED
        BY <1>1, <3>1, <4>1, StartEffect, SMT DEF StepIs
    <3>2. CASE Complete(w)
      BY <1>1, <3>2, CompleteEffect DEF StepIs, Goes
    <3>3. CASE Schedule(w)
      BY <1>1, <3>3, ScheduleEffect DEF StepIs, Goes
    <3>4. CASE Read(w) \/ ReadContext(w) \/ Execute(w) \/ CloseRun(w) \/ EnqueueNext(w)
                \/ Settle(w) \/ Leave(w) \/ Return(w) \/ Crash(w) \/ ExpireEarly(w)
      BY <1>1, <3>4 DEF Read, ReadContext, Execute, CloseRun, EnqueueNext, Settle, Leave, Return, Crash,
        ExpireEarly, runVars
    <3> QED
      BY <2>3, <3>1, <3>2, <3>3, <3>4 DEF Step
  <2>4. ASSUME NEW q \in Runs, NEW t \in Steps, ResumeTimer(q, t) \/ Outside(q, t)
        PROVE  Excused(r, s)
    <3>1. CASE ResumeTimer(q, t)
      BY <1>1, <3>1, ResumeEffect, SMT DEF ResumeTimer, StepIs
    <3>2. CASE JobSucceeds(q, t) \/ JobDeclined(q, t)
      <4>1. JobEnds(q, t) /\ \E new \in StepStatus : StepIs(q, t, new)
        <5>1. {"COMPLETED", "FAILED"} \subseteq StepStatus
          BY DEF StepStatus, RunStatus
        <5>2. CASE JobSucceeds(q, t)
          BY <1>1, <2>4, <5>1, <5>2, ResumeEffect DEF JobSucceeds
        <5>3. CASE JobDeclined(q, t)
          BY <1>1, <2>4, <5>1, <5>3, SetStepEffect, SetStatusEffect DEF JobDeclined
        <5> QED
          BY <3>2, <5>2, <5>3
      <4>2. q = r /\ t = s
        BY <1>1, <4>1 DEF StepIs
      <4> QED
        BY <1>1, <4>1, <4>2, JobEndsEffect, SMT DEF TypeOK
    <3>3. CASE JobFails(q, t) \/ Decide(q, t)
      BY <1>1, <3>3 DEF JobFails, Decide, runVars
    <3> QED
      BY <2>4, <3>1, <3>2, <3>3 DEF Outside
  <2> QED
    BY <1>1, <2>1, <2>2, <2>3, <2>4 DEF Next
<1>2. TypeInv /\ [Next]_vars =>
        [\A r \in Runs, s \in Steps :
           step[r][s] = "CANCELLED" /\ step'[r][s] # "CANCELLED" => Excused(r, s)]_vars
  BY <1>1
<1> QED
  BY <1>2, InitTypes, TypeStep, PTL DEF Spec, CancelledStepsStay

-----------------------------------------------------------------------------
(* When a run has one carrier *)

\* The conditions of the run automation_faulty: nobody retries by hand, no
\* VT runs out early, a job outlasts its worker, and marking a step as
\* started does not fail.  Workers may die and all other RPCs fail at any
\* point, and runs may be cancelled.
Orderly ==
  /\ JobsAreSlow /\ VtCoversBatch /\ MaxRetries = 0
  /\ "start_automation_step_run" \notin FailingRpcs

\* What carries run r on: a worker that may yet perform a step or is in the
\* middle of it, a message of a PENDING step, a job whose worker has gone
\* on, a timer.
Pending(m) == step[m.run][m.step] = "PENDING"
On(w, r) == pc[w] # "idle" /\ msg[w].run = r
Works(w, r) ==
  On(w, r) /\ (Busy(w) \/ (pc[w] \in {"context", "return"} /\ Pending(msg[w])))
Waits(m) == queue[m] > 0 /\ Pending(m)
JobOut(r, s) ==
  jobs[r][s] > 0 /\ \A w \in Workers : Busy(w) => msg[w].run # r \/ msg[w].step # s
TimerOn(r) == status[r] = "WAITING_TIMER" /\ timer[r]

\* No carriers of r but the workers in W, the messages in M, the jobs of the
\* steps in J and, if T, the timer.
NoneBut(r, W, M, J, T) ==
  /\ \A w \in Workers : Works(w, r) => w \in W
  /\ \A m \in Messages : m.run = r /\ Waits(m) => m \in M
  /\ \A s \in Steps : JobOut(r, s) => s \in J
  /\ TimerOn(r) => T

\* Run r has one carrier at most.
Sole(r) ==
  \/ \E w \in Workers : NoneBut(r, {w}, {}, {}, FALSE)
  \/ \E m \in Messages : NoneBut(r, {}, {m}, {}, FALSE)
  \/ \E s \in Steps : NoneBut(r, {}, {}, {s}, FALSE)
  \/ NoneBut(r, {}, {}, {}, TRUE)

\* A message of a PENDING step is in the queue once, and not recorded.
OneCopy(r) ==
  \A m \in Messages : m.run = r /\ Pending(m) => queue[m] <= 1 /\ m \notin processed

\* A step that was not started was not performed, and the others once.
Once(r) ==
  \A s \in Steps :
    /\ ran[r][s] <= 1 /\ jobs[r][s] <= ran[r][s]
    /\ step[r][s] = "PENDING" => ran[r][s] = 0
    /\ step[r][s] = "WAITING_TIMER" => ran[r][s] = 1 /\ Kind[s] \in {"wait", "job"}
    /\ jobs[r][s] > 0 => Kind[s] = "job"

\* How far the worker got shows in the step it works on.
PlaceOf(w) ==
  LET r == msg[w].run
      s == msg[w].step
  IN /\ pc[w] \in {"execute", "complete", "schedule", "advance", "settle", "leave"} => ~Pending(msg[w])
     /\ pc[w] \in {"start", "execute"} => ran[r][s] = 0
     /\ pc[w] \in {"complete", "schedule", "advance"} =>
          ran[r][s] = 1 /\ (result[w].next # "TIMER" => jobs[r][s] = 0)
Places(r) == \A w \in Workers : On(w, r) => PlaceOf(w)

\* Nothing carries a run that has ended.
Quiet(r) == status[r] \in {"COMPLETED", "FAILED"} => NoneBut(r, {}, {}, {}, FALSE)

\* Whoever may perform a step comes from a step that leads to it.
DoneSteps(r) == {s \in Steps : ran[r][s] > 0}
Due(r, s) ==
  IF DoneSteps(r) = {} THEN s = First ELSE \E p \in DoneSteps(r) : s \in After[p]
AllDue(r) ==
  /\ \A m \in Messages : m.run = r /\ Waits(m) => Due(r, m.step)
  /\ \A w \in Workers : Works(w, r) /\ pc[w] \in {"context", "return", "start", "execute"} =>
       Due(r, msg[w].step)

RunInv(r) == Sole(r) /\ OneCopy(r) /\ Once(r) /\ Places(r) /\ Quiet(r) /\ AllDue(r)

IInv == TypeInv /\ \A r \in Runs : RunInv(r)

\* The sole carrier, whichever it is.
LEMMA SoleWorker ==
  ASSUME NEW r, Sole(r), NEW w \in Workers, Works(w, r)
  PROVE  NoneBut(r, {w}, {}, {}, FALSE)
BY DEF Sole, NoneBut

LEMMA SoleMessage ==
  ASSUME NEW r, Sole(r), NEW m \in Messages, m.run = r, Waits(m)
  PROVE  NoneBut(r, {}, {m}, {}, FALSE)
BY DEF Sole, NoneBut

LEMMA SoleJob ==
  ASSUME NEW r, Sole(r), NEW s \in Steps, JobOut(r, s)
  PROVE  NoneBut(r, {}, {}, {s}, FALSE)
BY DEF Sole, NoneBut

LEMMA SoleTimer ==
  ASSUME NEW r, Sole(r), TimerOn(r)
  PROVE  NoneBut(r, {}, {}, {}, TRUE)
BY DEF Sole, NoneBut

\* A step that adds no carrier of r.
NoMore(r) ==
  /\ \A w \in Workers : Works(w, r)' => Works(w, r)
  /\ \A m \in Messages : m.run = r /\ Waits(m)' => Waits(m)
  /\ \A s \in Steps : JobOut(r, s)' => JobOut(r, s)
  /\ TimerOn(r)' => TimerOn(r)

LEMMA NoMoreSole ==
  ASSUME NEW r, NoMore(r)
  PROVE  /\ Sole(r) => Sole(r)'
         /\ NoneBut(r, {}, {}, {}, FALSE) => NoneBut(r, {}, {}, {}, FALSE)'
<1>1. ASSUME NEW W, NEW M, NEW J, NEW T, NoneBut(r, W, M, J, T) PROVE NoneBut(r, W, M, J, T)'
  BY <1>1 DEF NoMore, NoneBut
<1> QED
  BY <1>1 DEF Sole

\* What is due stays so while no step of the run is performed.
LEMMA DueStays ==
  ASSUME NEW r, \A t \in Steps : ran'[r][t] = ran[r][t], NEW s
  PROVE  Due(r, s)' <=> Due(r, s)
<1>1. DoneSteps(r)' = DoneSteps(r)
  BY DEF DoneSteps
<1> QED
  BY <1>1 DEF Due

\* A step of run r leaves the others alone.
Frame(r) ==
  /\ \A q \in Runs \ {r} : status'[q] = status[q] /\ timer'[q] = timer[q]
  /\ \A q \in Runs \ {r}, s \in Steps :
       step'[q][s] = step[q][s] /\ ran'[q][s] = ran[q][s] /\ jobs'[q][s] = jobs[q][s]
  /\ \A m \in Messages : m.run # r =>
       queue'[m] = queue[m] /\ (m \in processed' => m \in processed)
  /\ \A w \in Workers :
       \/ pc'[w] = pc[w] /\ msg'[w] = msg[w] /\ result'[w] = result[w]
       \/ (pc[w] # "idle" => msg[w].run = r) /\ (pc'[w] # "idle" => msg'[w].run = r)

LEMMA FrameKeeps ==
  ASSUME TypeInv, TypeInv', NEW r \in Runs, Frame(r), NEW q \in Runs \ {r}, RunInv(q)
  PROVE  RunInv(q)'
<1>1. \A m \in Messages : m.run = q => (Pending(m)' <=> Pending(m)) /\ queue'[m] = queue[m]
        /\ (m \in processed' => m \in processed)
  BY MessageParts DEF Frame, Pending
<1>2. \A w \in Workers : On(w, q) \/ On(w, q)' =>
        /\ On(w, q) /\ On(w, q)' /\ msg[w] \in Messages
        /\ pc'[w] = pc[w] /\ msg'[w] = msg[w] /\ result'[w] = result[w]
  BY DEF Frame, On, TypeInv, HasMessage
<1>3. \A w \in Workers : Works(w, q)' <=> Works(w, q)
  BY <1>1, <1>2 DEF Works, Busy, On
<1>4. \A m \in Messages : m.run = q => (Waits(m)' <=> Waits(m))
  BY <1>1 DEF Waits
<1>5. \A s \in Steps : JobOut(q, s)' => JobOut(q, s)
  <2>1. \A w \in Workers : Busy(w) /\ msg[w].run = q => Busy(w)' /\ msg'[w] = msg[w]
    BY <1>2 DEF Busy, On
  <2> QED
    BY <2>1 DEF JobOut, Frame
<1>6. TimerOn(q)' => TimerOn(q)
  BY DEF TimerOn, Frame
<1>7. NoMore(q)
  BY <1>3, <1>4, <1>5, <1>6 DEF NoMore
<1>8. Sole(q)' /\ Quiet(q)'
  BY <1>7, NoMoreSole DEF RunInv, Quiet, Frame
<1>9. OneCopy(q)'
  BY <1>1 DEF RunInv, OneCopy
<1>10. Once(q)'
  BY DEF RunInv, Once, Frame
<1>11. Places(q)'
  <2> SUFFICES ASSUME NEW w \in Workers, On(w, q)' PROVE PlaceOf(w)'
    BY DEF Places
  <2>1. /\ PlaceOf(w) /\ msg[w] \in Messages /\ msg[w].run = q /\ msg[w].step \in Steps
        /\ pc'[w] = pc[w] /\ msg'[w] = msg[w] /\ result'[w] = result[w]
    BY <1>2, MessageParts DEF RunInv, Places, On
  <2> QED
    BY <1>1, <2>1 DEF PlaceOf, Frame
<1>12. AllDue(q)'
  <2>1. \A s : Due(q, s)' <=> Due(q, s)
    BY DueStays DEF Frame
  <2> QED
    BY <1>2, <1>3, <1>4, <2>1 DEF RunInv, AllDue, Works
<1> QED
  BY <1>8, <1>9, <1>10, <1>11, <1>12 DEF RunInv

\* Who works on a run that ended would be a carrier of it.
LEMMA NotEnded ==
  ASSUME NEW r, RunInv(r), ~NoneBut(r, {}, {}, {}, FALSE)
  PROVE  status[r] \notin {"COMPLETED", "FAILED"}
BY DEF RunInv, Quiet

LEMMA NothingSole ==
  ASSUME NEW r, NoneBut(r, {}, {}, {}, FALSE)'
  PROVE  Sole(r)'
BY DEF Sole, NoneBut

\* The steps of the worker: each leaves the other runs alone and keeps the
\* invariant of its own.
LEMMA ReadContextKeeps ==
  ASSUME TypeInv, TypeInv', NEW w \in Workers, ReadContext(w),
         NEW r, r = msg[w].run, RunInv(r)
  PROVE  Frame(r) /\ RunInv(r)'
<1>1. /\ pc[w] = "context" /\ pc'[w] \in {"start", "settle", "return"}
      /\ pc'[w] = "start" => Pending(msg[w])
      /\ pc'[w] = "settle" => ~Pending(msg[w])
      /\ \A v \in Workers \ {w} : pc'[v] = pc[v]
  BY ReadContextEffect DEF Goes, Pending
<1>2. msg[w] \in Messages /\ msg[w].step \in Steps
  BY <1>1, Holding
<1>3. UNCHANGED <<runVars, queueVars, outsideVars, msg, result, ran>>
  BY DEF ReadContext
<1> USE DEF runVars, queueVars, outsideVars
<1>4. Frame(r)
  BY <1>1, <1>3 DEF Frame
<1>5. \A m : Pending(m)' <=> Pending(m)
  BY <1>3 DEF Pending
<1>6. NoMore(r)
  <2>1. \A v \in Workers : Works(v, r)' => Works(v, r)
    BY <1>1, <1>3, <1>5 DEF Works, On, Busy
  <2>2. \A v \in Workers : Busy(v) => Busy(v)'
    BY <1>1 DEF Busy
  <2> QED
    BY <1>3, <1>5, <2>1, <2>2 DEF NoMore, Waits, JobOut, TimerOn
<1>7. Sole(r)' /\ Quiet(r)'
  BY <1>3, <1>6, NoMoreSole DEF RunInv, Quiet
<1>8. OneCopy(r)' /\ Once(r)'
  BY <1>3, <1>5 DEF RunInv, OneCopy, Once
<1>9. Places(r)'
  BY <1>1, <1>2, <1>3, <1>5 DEF RunInv, Places, PlaceOf, On, Once, Pending
<1>10. AllDue(r)'
  <2>1. \A t : Due(r, t)' <=> Due(r, t)
    BY <1>3, DueStays
  <2> QED
    BY <1>1, <1>3, <1>5, <2>1 DEF RunInv, AllDue, Works, On, Waits, Busy
<1> QED
  BY <1>4, <1>7, <1>8, <1>9, <1>10 DEF RunInv

LEMMA StartKeeps ==
  ASSUME Orderly, TypeInv, TypeInv', NEW w \in Workers, Start(w),
         NEW r, r = msg[w].run, NEW s, s = msg[w].step, RunInv(r)
  PROVE  Frame(r) /\ RunInv(r)'
<1>1. /\ pc[w] = "start" /\ pc'[w] = "execute" /\ \A v \in Workers \ {w} : pc'[v] = pc[v]
      /\ step'[r][s] # "PENDING"
      /\ step'[r][s] = "WAITING_TIMER" => step[r][s] = "WAITING_TIMER"
      /\ \A q \in Runs, t \in Steps : q # r \/ t # s => step'[q][t] = step[q][t]
  BY StartEffect DEF Goes, StepIs, Orderly
<1>2. msg[w] \in Messages /\ r \in Runs /\ s \in Steps
  BY <1>1, Holding
<1>3. UNCHANGED <<launch, status, timer, retries, queueVars, outsideVars, msg, result, ran>>
  BY DEF Start
<1> USE DEF queueVars, outsideVars
<1>4. Frame(r)
  BY <1>1, <1>3 DEF Frame
<1>5. \A m \in Messages : m.run = r /\ Pending(m)' => Pending(m)
  BY <1>1, MessageParts DEF Pending
<1>6. Works(w, r) /\ ~Pending(msg[w])'
  BY <1>1, <1>3 DEF Works, On, Busy, Pending
<1>7. NoMore(r)
  <2>1. \A v \in Workers : On(v, r) => msg[v] \in Messages
    BY DEF On, TypeInv, HasMessage
  <2>2. \A v \in Workers : Works(v, r)' => Works(v, r)
    BY <1>1, <1>3, <1>5, <1>6, <2>1 DEF Works, On, Busy
  <2>3. \A v \in Workers : Busy(v) => Busy(v)'
    BY <1>1 DEF Busy
  <2> QED
    BY <1>3, <1>5, <2>2, <2>3 DEF NoMore, Waits, JobOut, TimerOn
<1>8. Sole(r)' /\ Quiet(r)'
  BY <1>3, <1>7, NoMoreSole DEF RunInv, Quiet
<1>9. OneCopy(r)'
  BY <1>3, <1>5 DEF RunInv, OneCopy
<1>10. Once(r)'
  BY <1>1, <1>2, <1>3 DEF RunInv, Once
<1>11. Places(r)'
  <2> SUFFICES ASSUME NEW v \in Workers, On(v, r)' PROVE PlaceOf(v)'
    BY DEF Places
  <2>1. On(v, r) /\ PlaceOf(v) /\ msg[v] \in Messages
    BY <1>1, <1>3 DEF RunInv, Places, On, TypeInv, HasMessage
  <2>2. ~Pending(msg[v]) => ~Pending(msg[v])'
    BY <1>3, <1>5, <2>1 DEF On, Pending
  <2> QED
    BY <1>1, <1>3, <1>6, <2>1, <2>2 DEF PlaceOf
<1>12. AllDue(r)'
  <2>1. \A t : Due(r, t)' <=> Due(r, t)
    BY <1>3, DueStays
  <2> QED
    BY <1>1, <1>3, <1>5, <1>7, <2>1 DEF RunInv, AllDue, NoMore, Waits
<1> QED
  BY <1>4, <1>8, <1>9, <1>10, <1>11, <1>12 DEF RunInv

\* A worker that is at a step is the sole carrier of its run; the others on
\* the same run are not at any step of it.
LEMMA AtWork ==
  ASSUME TypeInv, NEW w \in Workers, Busy(w), RunInv(msg[w].run)
  PROVE  /\ pc[w] # "idle" /\ msg[w] \in Messages /\ msg[w].run \in Runs /\ msg[w].step \in Steps
         /\ Works(w, msg[w].run)
         /\ NoneBut(msg[w].run, {w}, {}, {}, FALSE)
         /\ status[msg[w].run] \notin {"COMPLETED", "FAILED"}
         /\ PlaceOf(w)
         /\ \A v \in Workers \ {w} : On(v, msg[w].run) => ~Busy(v)
<1>1. pc[w] # "idle"
  BY DEF Busy
<1>2. Works(w, msg[w].run)
  BY <1>1 DEF Works, On
<1>3. NoneBut(msg[w].run, {w}, {}, {}, FALSE)
  BY <1>2, SoleWorker DEF RunInv
<1>4. ~NoneBut(msg[w].run, {}, {}, {}, FALSE)
  BY <1>2 DEF NoneBut
<1>5. PlaceOf(w)
  BY <1>1 DEF RunInv, Places, On
<1>6. \A v \in Workers \ {w} : On(v, msg[w].run) => ~Busy(v)
  BY <1>3 DEF NoneBut, Works
<1> QED
  BY <1>1, <1>2, <1>3, <1>4, <1>5, <1>6, Holding, NotEnded

\* The others on the run stay in their places while no step becomes PENDING.
LEMMA OthersInPlace ==
  ASSUME TypeInv, NEW w \in Workers, NEW r, RunInv(r),
         \A v \in Workers \ {w} : On(v, r) => ~Busy(v),
         \A v \in Workers \ {w} : pc'[v] = pc[v] /\ msg'[v] = msg[v],
         \A m \in Messages : m.run = r /\ Pending(m)' => Pending(m),
         On(w, r)' => PlaceOf(w)'
  PROVE  Places(r)'
<1> SUFFICES ASSUME NEW v \in Workers \ {w}, On(v, r)' PROVE PlaceOf(v)'
  BY DEF Places
<1>1. On(v, r) /\ PlaceOf(v) /\ msg[v] \in Messages /\ msg[v].run = r /\ ~Busy(v)
  BY DEF RunInv, Places, On, TypeInv, HasMessage
<1>2. ~Pending(msg[v]) => ~Pending(msg[v])'
  BY <1>1 DEF Pending
<1> QED
  BY <1>1, <1>2 DEF PlaceOf, Busy, Pending

LEMMA ExecuteKeeps ==
  ASSUME TypeInv, TypeInv', NEW w \in Workers, Execute(w),
         NEW r, r = msg[w].run, NEW s, s = msg[w].step, RunInv(r)
  PROVE  Frame(r) /\ RunInv(r)'
<1>1. /\ pc[w] = "execute" /\ pc'[w] = "complete" /\ \A v \in Workers \ {w} : pc'[v] = pc[v]
      /\ \A v \in Workers \ {w} : result'[v] = result[v]
      /\ jobs'[r][s] = jobs[r][s] + (IF result'[w].next = "TIMER" /\ Kind[s] = "job" THEN 1 ELSE 0)
      /\ ran'[r][s] = ran[r][s] + 1
      /\ \A q \in Runs, t \in Steps : q # r \/ t # s => jobs'[q][t] = jobs[q][t] /\ ran'[q][t] = ran[q][t]
  BY ExecuteEffect DEF Goes
<1>2. Busy(w) /\ Busy(w)'
  BY <1>1 DEF Busy
<1>3. UNCHANGED <<runVars, queueVars, msg>>
  BY DEF Execute
<1>4. /\ msg[w] \in Messages /\ r \in Runs /\ s \in Steps
      /\ Works(w, r) /\ NoneBut(r, {w}, {}, {}, FALSE)
      /\ status[r] \notin {"COMPLETED", "FAILED"} /\ PlaceOf(w)
      /\ \A v \in Workers \ {w} : On(v, r) => ~Busy(v)
  BY <1>2, AtWork
<1>5. ran[r][s] = 0 /\ ~Pending(msg[w]) /\ jobs[r][s] = 0
  <2>1. ran[r][s] = 0 /\ ~Pending(msg[w]) /\ jobs[r][s] <= ran[r][s]
    BY <1>1, <1>4 DEF PlaceOf, RunInv, Once
  <2>2. jobs[r][s] \in Nat
    BY <1>4 DEF TypeInv, TypeOK
  <2> QED
    BY <2>1, <2>2, SMT
<1>6. /\ ran'[r][s] = 1 /\ jobs'[r][s] <= 1 /\ (jobs'[r][s] > 0 => Kind[s] = "job")
      /\ (result'[w].next # "TIMER" => jobs'[r][s] = 0)
  BY <1>1, <1>5, SMT
<1> USE DEF runVars, queueVars
<1>7. Frame(r)
  BY <1>1, <1>3 DEF Frame
<1>8. \A m : (Pending(m)' <=> Pending(m)) /\ (Waits(m)' <=> Waits(m))
  BY <1>3 DEF Pending, Waits
<1>9. NoneBut(r, {w}, {}, {}, FALSE)'
  <2>1. \A v \in Workers : Works(v, r)' => v = w
    BY <1>1, <1>3, <1>4, <1>8 DEF NoneBut, Works, On, Busy
  <2>2. \A t \in Steps : ~JobOut(r, t)'
    <3>1. ~JobOut(r, s)'
      BY <1>2, <1>3 DEF JobOut
    <3>2. ASSUME NEW t \in Steps \ {s} PROVE ~JobOut(r, t)'
      <4>1. \A v \in Workers : Busy(v)' => Busy(v)
        BY <1>1, <1>2 DEF Busy
      <4>2. jobs'[r][t] = jobs[r][t] /\ ~JobOut(r, t)
        BY <1>1, <1>4 DEF NoneBut
      <4>3. \A v \in Workers : Busy(v) => Busy(v)'
        BY <1>1, <1>2 DEF Busy
      <4> QED
        BY <1>3, <4>1, <4>2, <4>3 DEF JobOut
    <3> QED
      BY <3>1, <3>2
  <2> QED
    BY <1>3, <1>4, <1>8, <2>1, <2>2 DEF NoneBut, TimerOn
<1>10. Sole(r)' /\ Quiet(r)'
  BY <1>3, <1>4, <1>9 DEF Sole, Quiet
<1>11. OneCopy(r)'
  BY <1>3, <1>8 DEF RunInv, OneCopy
<1>12. Once(r)'
  <2> SUFFICES ASSUME NEW t \in Steps
               PROVE /\ ran'[r][t] <= 1 /\ jobs'[r][t] <= ran'[r][t]
                     /\ step[r][t] = "PENDING" => ran'[r][t] = 0
                     /\ step[r][t] = "WAITING_TIMER" => ran'[r][t] = 1 /\ Kind[t] \in {"wait", "job"}
                     /\ jobs'[r][t] > 0 => Kind[t] = "job"
    BY <1>3 DEF Once
  <2>1. CASE t # s
    BY <1>1, <1>4, <2>1 DEF RunInv, Once
  <2>2. CASE t = s
    <3>1. step[r][t] # "PENDING"
      BY <1>5, <2>2 DEF Pending
    <3>2. step[r][t] # "WAITING_TIMER"
      BY <1>5, <2>2 DEF RunInv, Once
    <3> QED
      BY <1>6, <2>2, <3>1, <3>2, SMT
  <2> QED
    BY <2>1, <2>2
<1>13. Places(r)'
  <2>1. PlaceOf(w)'
    BY <1>1, <1>3, <1>5, <1>6, <1>8 DEF PlaceOf
  <2> QED
    BY <1>1, <1>3, <1>4, <1>8, <2>1, OthersInPlace
<1>14. AllDue(r)'
  BY <1>1, <1>9 DEF AllDue, NoneBut
<1> QED
  BY <1>7, <1>10, <1>11, <1>12, <1>13, <1>14 DEF RunInv

LEMMA CompleteKeeps ==
  ASSUME TypeInv, TypeInv', NEW w \in Workers, Complete(w),
         NEW r, r = msg[w].run, NEW s, s = msg[w].step, RunInv(r)
  PROVE  Frame(r) /\ RunInv(r)'
<1>1. /\ pc[w] = "complete" /\ \A v \in Workers \ {w} : pc'[v] = pc[v]
      /\ pc'[w] \in {"schedule", "leave", "advance"}
      /\ pc'[w] = "leave" => result[w].next = "LEAVE"
      /\ StepIs(r, s, result[w].status) \/ UNCHANGED step
  BY CompleteEffect DEF Goes
<1>2. Busy(w)
  BY <1>1 DEF Busy
<1>3. UNCHANGED <<launch, status, timer, retries, queueVars, outsideVars, msg, result, ran>>
  BY DEF Complete
<1>4. /\ msg[w] \in Messages /\ r \in Runs /\ s \in Steps
      /\ Works(w, r) /\ NoneBut(r, {w}, {}, {}, FALSE)
      /\ status[r] \notin {"COMPLETED", "FAILED"} /\ PlaceOf(w)
      /\ \A v \in Workers \ {w} : On(v, r) => ~Busy(v)
  BY <1>2, AtWork
<1>5. /\ ran[r][s] = 1 /\ ~Pending(msg[w]) /\ (result[w].next # "TIMER" => jobs[r][s] = 0)
  BY <1>1, <1>4 DEF PlaceOf
<1>6. /\ result[w].status \in {"COMPLETED", "FAILED", "WAITING_HUMAN", "WAITING_TIMER"}
      /\ result[w].status = "WAITING_TIMER" => Kind[s] \in {"wait", "job"}
  BY <1>1, Returning
<1> USE DEF queueVars, outsideVars
<1>7. Frame(r)
  BY <1>1, <1>3 DEF Frame, StepIs
<1>8. /\ \A q \in Runs, t \in Steps : q # r \/ t # s => step'[q][t] = step[q][t]
      /\ step'[r][s] # "PENDING"
      /\ step'[r][s] = "WAITING_TIMER" => Kind[s] \in {"wait", "job"}
  <2>1. step[r][s] # "PENDING" /\ (step[r][s] = "WAITING_TIMER" => Kind[s] \in {"wait", "job"})
    BY <1>4, <1>5 DEF Pending, RunInv, Once
  <2> QED
    BY <1>1, <1>4, <1>6, <2>1 DEF StepIs
<1>9. \A m \in Messages : m.run = r => (Pending(m)' => Pending(m)) /\ (Waits(m)' => Waits(m))
  BY <1>3, <1>8, MessageParts DEF Pending, Waits
<1>10. ~Pending(msg[w])'
  BY <1>3, <1>8 DEF Pending
<1>11. NoMore(r)
  <2>1. \A v \in Workers : On(v, r) => msg[v] \in Messages /\ msg[v].run = r
    BY DEF On, TypeInv, HasMessage
  <2>2. ASSUME NEW v \in Workers, Works(v, r)' PROVE Works(v, r)
    <3>1. On(v, r)
      BY <1>1, <1>3, <2>2 DEF Works, On
    <3>2. CASE v = w
      BY <1>4, <3>2
    <3>3. CASE v # w
      BY <1>1, <1>3, <1>9, <2>1, <2>2, <3>1, <3>3 DEF Works, Busy, Pending
    <3> QED
      BY <3>2, <3>3
  <2>3. ASSUME NEW t \in Steps, JobOut(r, t)' PROVE JobOut(r, t)
    <3>1. CASE pc'[w] = "leave" /\ t = s
      BY <1>1, <1>3, <1>5, <2>3, <3>1 DEF JobOut
    <3>2. CASE pc'[w] # "leave"
      <4>1. \A v \in Workers : Busy(v) => Busy(v)'
        BY <1>1, <3>2 DEF Busy
      <4> QED
        BY <1>3, <2>3, <4>1 DEF JobOut
    <3>3. CASE t # s
      <4>1. \A v \in Workers \ {w} : Busy(v) => Busy(v)'
        BY <1>1 DEF Busy
      <4> QED
        BY <1>3, <2>3, <3>3, <4>1 DEF JobOut
    <3> QED
      BY <3>1, <3>2, <3>3
  <2> QED
    BY <1>3, <1>9, <2>2, <2>3 DEF NoMore, TimerOn
<1>12. Sole(r)' /\ Quiet(r)'
  BY <1>3, <1>11, NoMoreSole DEF RunInv, Quiet
<1>13. OneCopy(r)'
  BY <1>3, <1>9 DEF RunInv, OneCopy
<1>14. Once(r)'
  BY <1>3, <1>4, <1>5, <1>8 DEF RunInv, Once
<1>15. Places(r)'
  <2>1. PlaceOf(w)'
    BY <1>1, <1>3, <1>5, <1>10 DEF PlaceOf
  <2> QED
    BY <1>1, <1>3, <1>4, <1>9, <2>1, OthersInPlace
<1>16. AllDue(r)'
  <2>1. \A t : Due(r, t)' <=> Due(r, t)
    BY <1>3, DueStays
  <2>2. \A v \in Workers : Works(v, r)' => v = w
    BY <1>4, <1>11 DEF NoMore, NoneBut
  <2> QED
    BY <1>1, <1>3, <1>9, <2>1, <2>2 DEF RunInv, AllDue
<1> QED
  BY <1>7, <1>12, <1>13, <1>14, <1>15, <1>16 DEF RunInv

\* The end of a worker's step: of the carriers of its run only those are
\* left that it made itself.
LEMMA AfterWork ==
  ASSUME TypeInv, NEW w \in Workers, NEW r, NoneBut(r, {w}, {}, {}, FALSE),
         \A v \in Workers \ {w} : pc'[v] = pc[v] /\ msg'[v] = msg[v],
         \A m \in Messages : m.run = r /\ Pending(m)' => Pending(m),
         \A t \in Steps : jobs'[r][t] = jobs[r][t],
         NEW s, s = msg[w].step
  PROVE  /\ \A v \in Workers : Works(v, r)' => v = w
         /\ \A t \in Steps : JobOut(r, t)' => t = s
<1>1. ASSUME NEW v \in Workers, Works(v, r)', v # w PROVE FALSE
  <2>1. On(v, r) /\ msg[v] \in Messages /\ msg[v].run = r
    BY <1>1 DEF Works, On, TypeInv, HasMessage
  <2>2. Works(v, r)
    BY <1>1, <2>1 DEF Works, Busy, Pending
  <2> QED
    BY <1>1, <2>2 DEF NoneBut
<1>2. ASSUME NEW t \in Steps, JobOut(r, t)', t # s PROVE FALSE
  <2>1. JobOut(r, t)
    BY <1>2 DEF JobOut, Busy
  <2> QED
    BY <2>1 DEF NoneBut
<1> QED
  BY <1>1, <1>2

LEMMA ScheduleKeeps ==
  ASSUME TypeInv, TypeInv', NEW w \in Workers, Schedule(w),
         NEW r, r = msg[w].run, NEW s, s = msg[w].step, RunInv(r)
  PROVE  Frame(r) /\ RunInv(r)'
<1>1. /\ pc[w] = "schedule" /\ pc'[w] = "settle" /\ \A v \in Workers \ {w} : pc'[v] = pc[v]
      /\ \/ /\ StepIs(r, s, "WAITING_TIMER") /\ StatusIs(r, "WAITING_TIMER")
            /\ timer'[r] <=> Kind[s] = "wait"
            /\ \A q \in Runs \ {r} : timer'[q] = timer[q]
         \/ UNCHANGED <<step, status, timer>>
  BY ScheduleEffect DEF Goes
<1>2. Busy(w) /\ ~Busy(w)'
  BY <1>1 DEF Busy
<1>3. UNCHANGED <<launch, retries, queueVars, outsideVars, msg, result, ran>>
  BY DEF Schedule
<1>4. /\ msg[w] \in Messages /\ r \in Runs /\ s \in Steps
      /\ Works(w, r) /\ NoneBut(r, {w}, {}, {}, FALSE)
      /\ status[r] \notin {"COMPLETED", "FAILED"} /\ PlaceOf(w)
      /\ \A v \in Workers \ {w} : On(v, r) => ~Busy(v)
  BY <1>2, AtWork
<1>5. /\ ran[r][s] = 1 /\ ~Pending(msg[w])
  BY <1>1, <1>4 DEF PlaceOf
<1>6. Kind[s] \in {"wait", "job"}
  BY <1>1, Returning DEF TypeInv, HasResult
<1> USE DEF queueVars, outsideVars
<1>7. Frame(r)
  BY <1>1, <1>3 DEF Frame, StepIs, StatusIs
<1>8. /\ \A q \in Runs, t \in Steps : q # r \/ t # s => step'[q][t] = step[q][t]
      /\ step'[r][s] # "PENDING"
  <2>1. step[r][s] # "PENDING"
    BY <1>5 DEF Pending
  <2> QED
    BY <1>1, <1>4, <2>1 DEF StepIs
<1>9. \A m \in Messages : m.run = r => (Pending(m)' => Pending(m)) /\ (Waits(m)' => Waits(m))
  BY <1>3, <1>8, MessageParts DEF Pending, Waits
<1>10. ~Pending(msg[w])'
  BY <1>3, <1>8 DEF Pending
<1>11. /\ \A v \in Workers : ~Works(v, r)'
       /\ \A t \in Steps : JobOut(r, t)' => t = s
  <2>1. ~Works(w, r)'
    BY <1>1 DEF Works, Busy
  <2>2. /\ \A v \in Workers \ {w} : pc'[v] = pc[v] /\ msg'[v] = msg[v]
        /\ \A m \in Messages : m.run = r /\ Pending(m)' => Pending(m)
        /\ \A t \in Steps : jobs'[r][t] = jobs[r][t]
    BY <1>1, <1>3, <1>9
  <2>3. NoneBut(r, {w}, {}, {}, FALSE)
    BY <1>4
  <2>4. /\ \A v \in Workers : Works(v, r)' => v = w
        /\ \A t \in Steps : JobOut(r, t)' => t = s
    BY <2>2, <2>3, AfterWork, Zenon
  <2> QED
    BY <2>1, <2>4
<1>12. \A m \in Messages : m.run = r => ~Waits(m)'
  BY <1>4, <1>9 DEF NoneBut
<1>13. status'[r] \notin {"COMPLETED", "FAILED"}
  BY <1>1, <1>4 DEF StatusIs
<1>14. Sole(r)'
  <2>1. CASE TimerOn(r)'
    <3>1. Kind[s] = "wait"
      BY <1>1, <1>4, <2>1 DEF NoneBut, TimerOn
    <3>2. jobs[r][s] = 0
      <4>1. ~(jobs[r][s] > 0) /\ jobs[r][s] \in Nat
        BY <1>4, <3>1 DEF RunInv, Once, TypeInv, TypeOK
      <4> QED
        BY <4>1, SMT
    <3>3. ~JobOut(r, s)'
      BY <1>3, <3>2 DEF JobOut
    <3>4. NoneBut(r, {}, {}, {}, TRUE)'
      BY <1>11, <1>12, <3>3 DEF NoneBut
    <3> QED
      BY <3>4 DEF Sole
  <2>2. CASE ~TimerOn(r)'
    <3>1. NoneBut(r, {}, {}, {s}, FALSE)'
      BY <1>11, <1>12, <2>2 DEF NoneBut
    <3> QED
      BY <1>4, <3>1 DEF Sole
  <2> QED
    BY <2>1, <2>2
<1>15. OneCopy(r)'
  BY <1>3, <1>9 DEF RunInv, OneCopy
<1>16. Once(r)'
  <2>1. \A t \in Steps : /\ step'[r][t] = "PENDING" => step[r][t] = "PENDING"
                         /\ step'[r][t] = "WAITING_TIMER" => step[r][t] = "WAITING_TIMER" \/ t = s
    BY <1>8, <1>4
  <2> QED
    BY <1>3, <1>5, <1>6, <2>1 DEF RunInv, Once
<1>17. Places(r)'
  <2>1. PlaceOf(w)'
    BY <1>1, <1>10 DEF PlaceOf
  <2> QED
    BY <1>1, <1>3, <1>4, <1>9, <2>1, OthersInPlace
<1>18. AllDue(r)' /\ Quiet(r)'
  BY <1>11, <1>12, <1>13 DEF AllDue, Quiet
<1> QED
  BY <1>7, <1>14, <1>15, <1>16, <1>17, <1>18 DEF RunInv

LEMMA AdvanceKeeps ==
  ASSUME Orderly, TypeInv, TypeInv', NEW w \in Workers, CloseRun(w) \/ EnqueueNext(w),
         NEW r, r = msg[w].run, NEW s, s = msg[w].step, RunInv(r),
         NEW next, next = result[w].next, NEW sent, sent = FirstAttempt(r, next)
  PROVE  Frame(r) /\ RunInv(r)'
<1>1. /\ pc[w] = "advance" /\ pc'[w] \in {"settle", "return"} /\ \A v \in Workers \ {w} : pc'[v] = pc[v]
      /\ UNCHANGED <<launch, step, timer, retries, processed, outsideVars, msg, result, ran>>
      /\ \/ UNCHANGED queue /\ \E new \in {"COMPLETED", "WAITING_HUMAN", "FAILED"} : StatusIs(r, new)
         \/ UNCHANGED <<queue, status>>
         \/ UNCHANGED status /\ next \in Steps /\ Sends(sent)
  <2>1. CASE CloseRun(w)
    BY <2>1, CloseRunEffect DEF CloseRun, Goes, queueVars
  <2>2. CASE EnqueueNext(w)
    BY <2>2, EnqueueNextEffect DEF EnqueueNext, Goes, runVars
  <2> QED
    BY <2>1, <2>2
<1>2. Busy(w) /\ ~Busy(w)'
  BY <1>1 DEF Busy
<1>3. /\ msg[w] \in Messages /\ r \in Runs /\ s \in Steps
      /\ Works(w, r) /\ NoneBut(r, {w}, {}, {}, FALSE)
      /\ status[r] \notin {"COMPLETED", "FAILED"} /\ PlaceOf(w)
      /\ \A v \in Workers \ {w} : On(v, r) => ~Busy(v)
  BY <1>2, AtWork
<1>4. ran[r][s] = 1 /\ ~Pending(msg[w]) /\ jobs[r][s] = 0 /\ next \in After[s]
  <2>1. next # "TIMER" /\ next \in After[s]
    BY <1>1, Returning DEF TypeInv, HasResult
  <2> QED
    BY <1>1, <1>3, <2>1 DEF PlaceOf
<1> USE DEF outsideVars
<1>5. \A m : Pending(m)' <=> Pending(m)
  BY <1>1 DEF Pending
<1>6. /\ \A v \in Workers : ~Works(v, r)'
      /\ \A t \in Steps : ~JobOut(r, t)'
  <2>1. ~Works(w, r)'
    BY <1>1, <1>2, <1>4, <1>5 DEF Works
  <2>2. ~JobOut(r, s)'
    BY <1>1, <1>4 DEF JobOut
  <2> QED
    BY <1>1, <1>3, <1>5, <2>1, <2>2, AfterWork
<1>7. ~TimerOn(r)'
  BY <1>1, <1>3 DEF NoneBut, TimerOn, StatusIs
<1>8. \A m \in Messages : m.run = r => ~Waits(m)
  BY <1>3 DEF NoneBut
<1>9. Once(r)'
  BY <1>1 DEF RunInv, Once
<1>10. Places(r)'
  <2>1. PlaceOf(w)'
    BY <1>1, <1>4, <1>5 DEF PlaceOf
  <2> QED
    BY <1>1, <1>3, <1>5, <2>1, OthersInPlace
<1>11. CASE UNCHANGED queue
  <2>1. Frame(r)
    BY <1>1, <1>11 DEF Frame, StatusIs
  <2>2. \A m \in Messages : m.run = r => ~Waits(m)'
    BY <1>5, <1>8, <1>11 DEF Waits
  <2>3. NoneBut(r, {}, {}, {}, FALSE)'
    BY <1>6, <1>7, <2>2 DEF NoneBut
  <2>4. OneCopy(r)'
    BY <1>1, <1>5, <1>11 DEF RunInv, OneCopy
  <2>5. AllDue(r)'
    BY <1>6, <2>2 DEF AllDue
  <2> QED
    BY <1>9, <1>10, <2>1, <2>3, <2>4, <2>5, NothingSole DEF RunInv, Quiet
<1>12. CASE UNCHANGED status /\ next \in Steps /\ Sends(sent)
  <2>1. sent \in Messages /\ sent.run = r /\ sent.step = next
    BY <1>3, <1>12, FirstAttempts
  <2>2. Frame(r)
    BY <1>1, <1>12, <2>1 DEF Frame, Sends
  <2>3. \A m \in Messages : m.run = r /\ Waits(m)' => m = sent
    BY <1>5, <1>8, <1>12 DEF Waits, Sends
  <2>4. NoneBut(r, {}, {sent}, {}, FALSE)'
    BY <1>6, <1>7, <2>3 DEF NoneBut
  <2>5. Sole(r)'
    BY <2>1, <2>4 DEF Sole
  <2>6. OneCopy(r)'
    <3> SUFFICES ASSUME NEW m \in Messages, m.run = r, Pending(m)
                 PROVE  queue'[m] <= 1 /\ m \notin processed
      BY <1>1, <1>5 DEF OneCopy
    <3>1. queue[m] <= 1 /\ m \notin processed
      BY DEF RunInv, OneCopy
    <3>2. CASE m = sent
      <4>1. ~(queue[m] > 0) /\ queue[m] \in Nat /\ queue'[m] = queue[m] + 1
        BY <1>8, <1>12, <2>1, <3>2 DEF Waits, Sends, TypeInv, TypeOK
      <4> QED
        BY <3>1, <4>1, SMT
    <3>3. CASE m # sent
      BY <1>12, <3>1, <3>3 DEF Sends
    <3> QED
      BY <3>2, <3>3
  <2>7. Due(r, next)'
    <3>1. s \in DoneSteps(r)
      BY <1>3, <1>4, SMT DEF DoneSteps
    <3>2. Due(r, next)
      BY <1>4, <3>1 DEF Due
    <3> QED
      BY <1>1, <3>2, DueStays
  <2>8. AllDue(r)'
    BY <1>6, <2>1, <2>3, <2>7 DEF AllDue
  <2>9. Quiet(r)'
    BY <1>3, <1>12 DEF Quiet
  <2> QED
    BY <1>9, <1>10, <2>2, <2>5, <2>6, <2>8, <2>9 DEF RunInv
<1> QED
  BY <1>1, <1>11, <1>12

\* A worker that lets go of its message, and what it gives back.
LEMMA FreeingKeeps ==
  ASSUME Orderly, TypeInv, TypeInv', NEW w \in Workers,
         Settle(w) \/ Leave(w) \/ Return(w) \/ Crash(w),
         NEW r, r = msg[w].run, NEW s, s = msg[w].step, RunInv(r), NEW m0, m0 = msg[w]
  PROVE  Frame(r) /\ RunInv(r)'
<1>1. /\ pc[w] # "idle" /\ pc'[w] = "idle"
      /\ \A v \in Workers \ {w} : pc'[v] = pc[v] /\ msg'[v] = msg[v] /\ result'[v] = result[v]
      /\ Sends(m0) \/ UNCHANGED queue
      /\ pc[w] \in {"settle", "leave", "return"} \/ (Crash(w) /\ Sends(m0))
  BY FreeingEffect DEF Frees, Goes
<1>2. /\ UNCHANGED <<runVars, outsideVars, ran>>
      /\ processed' \subseteq processed \/ (processed' = processed \union {m0} /\ pc[w] = "settle")
  BY DEF Settle, Leave, Return, Crash, Free, GoTo, queueVars
<1>3. /\ m0 \in Messages /\ m0.run = r /\ m0.step = s /\ r \in Runs /\ s \in Steps /\ On(w, r) /\ PlaceOf(w)
  BY <1>1, Holding DEF On, RunInv, Places
<1> USE DEF runVars, outsideVars
<1>4. \A m : Pending(m)' <=> Pending(m)
  BY <1>2 DEF Pending
<1>5. /\ \A m \in Messages \ {m0} : queue'[m] = queue[m]
      /\ queue'[m0] = queue[m0] + 1 \/ queue'[m0] = queue[m0]
  BY <1>1 DEF Sends
<1>6. Frame(r)
  BY <1>1, <1>2, <1>3, <1>5 DEF Frame
<1>7. Once(r)'
  BY <1>2 DEF RunInv, Once
<1>8. Places(r)'
  <2> SUFFICES ASSUME NEW v \in Workers, On(v, r)' PROVE PlaceOf(v)'
    BY DEF Places
  <2>1. v # w /\ On(v, r)
    BY <1>1 DEF On
  <2>2. PlaceOf(v)
    BY <2>1 DEF RunInv, Places
  <2> QED
    BY <1>1, <1>2, <1>4, <2>1, <2>2 DEF PlaceOf, Pending
<1>9. ~TimerOn(r) => ~TimerOn(r)'
  BY <1>2 DEF TimerOn
<1>10. CASE ~Works(w, r)
  <2>1. ~Pending(m0) /\ ~Busy(w)
    BY <1>1, <1>3, <1>10 DEF Works, PlaceOf, Busy, Stages, TypeInv, TypeOK
  <2>2. NoMore(r)
    <3>1. \A m \in Messages : m.run = r /\ Waits(m)' => Waits(m)
      BY <1>4, <1>5, <2>1 DEF Waits
    <3>2. \A v \in Workers : Works(v, r)' => Works(v, r)
      BY <1>1, <1>4 DEF Works, On, Busy, Pending
    <3>3. \A t \in Steps : JobOut(r, t)' => JobOut(r, t)
      <4>1. \A v \in Workers : Busy(v) => Busy(v)' /\ msg'[v] = msg[v]
        BY <1>1, <2>1 DEF Busy
      <4> QED
        BY <1>2, <4>1 DEF JobOut
    <3> QED
      BY <1>2, <3>1, <3>2, <3>3 DEF NoMore, TimerOn
  <2>3. Sole(r)' /\ Quiet(r)'
    BY <1>2, <2>2, NoMoreSole DEF RunInv, Quiet
  <2>4. OneCopy(r)'
    BY <1>2, <1>4, <1>5, <2>1 DEF RunInv, OneCopy
  <2>5. AllDue(r)'
    <3>1. \A t : Due(r, t)' <=> Due(r, t)
      BY <1>2, DueStays
    <3>2. \A v \in Workers : Works(v, r)' => v # w
      BY <1>1 DEF Works, On
    <3> QED
      BY <1>1, <2>2, <3>1, <3>2 DEF RunInv, AllDue, NoMore
  <2> QED
    BY <1>6, <1>7, <1>8, <2>3, <2>4, <2>5 DEF RunInv
<1>11. CASE Works(w, r)
  <2>1. NoneBut(r, {w}, {}, {}, FALSE)
    BY <1>11, SoleWorker DEF RunInv
  <2>2. status'[r] \notin {"COMPLETED", "FAILED"}
    BY <1>2, <1>11, NotEnded DEF NoneBut
  <2>3. \A v \in Workers : ~Works(v, r)'
    BY <1>1, <1>4, <2>1 DEF Works, On, Busy, Pending, NoneBut
  <2>4. \A m \in Messages : m.run = r => ~Waits(m)
    BY <2>1 DEF NoneBut
  <2>5. \A m \in Messages : m.run = r /\ Waits(m)' => m = m0
    BY <1>4, <1>5, <2>4 DEF Waits
  <2>6. \A t \in Steps : JobOut(r, t)' => t = s
    <3> SUFFICES ASSUME NEW t \in Steps, JobOut(r, t)', t # s PROVE FALSE
      OBVIOUS
    <3>1. \A v \in Workers \ {w} : Busy(v) => Busy(v)' /\ msg'[v] = msg[v]
      BY <1>1 DEF Busy
    <3>2. JobOut(r, t)
      BY <1>2, <3>1 DEF JobOut
    <3> QED
      BY <2>1, <3>2 DEF NoneBut
  <2>7. ~TimerOn(r)'
    BY <1>9, <2>1 DEF NoneBut
  <2>8. processed' \subseteq processed
    BY <1>2, <1>11 DEF Works, Busy
  <2>9. Sole(r)'
    <3>1. CASE Pending(m0)
      <4>1. ran[r][s] = 0 /\ jobs[r][s] <= ran[r][s] /\ jobs[r][s] \in Nat
        BY <1>3, <3>1 DEF RunInv, Once, Pending, TypeInv, TypeOK
      <4>2. ~JobOut(r, s)'
        BY <1>2, <4>1, SMT DEF JobOut
      <4>3. NoneBut(r, {}, {m0}, {}, FALSE)'
        BY <2>3, <2>5, <2>6, <2>7, <4>2 DEF NoneBut
      <4> QED
        BY <1>3, <4>3 DEF Sole
    <3>2. CASE ~Pending(m0)
      <4>1. NoneBut(r, {}, {}, {s}, FALSE)'
        BY <1>4, <2>3, <2>5, <2>6, <2>7, <3>2 DEF NoneBut, Waits
      <4> QED
        BY <1>3, <4>1 DEF Sole
    <3> QED
      BY <3>1, <3>2
  <2>10. OneCopy(r)'
    <3> SUFFICES ASSUME NEW m \in Messages, m.run = r, Pending(m)
                 PROVE  queue'[m] <= 1 /\ m \notin processed'
      BY <1>4 DEF OneCopy
    <3>1. queue[m] <= 1 /\ m \notin processed
      BY DEF RunInv, OneCopy
    <3>2. ~(queue[m] > 0) /\ queue[m] \in Nat
      BY <2>4 DEF Waits, TypeInv, TypeOK
    <3>3. queue'[m] <= 1
      BY <1>5, <3>1, <3>2, SMT
    <3> QED
      BY <2>8, <3>1, <3>3
  <2>11. AllDue(r)'
    <3>1. \A t : Due(r, t)' <=> Due(r, t)
      BY <1>2, DueStays
    <3>2. Pending(m0) => Due(r, s)
      <4>1. Pending(m0) => pc[w] \in {"context", "return", "start"}
        BY <1>3, <1>11 DEF Works, Busy, PlaceOf
      <4> QED
        BY <1>11, <4>1 DEF RunInv, AllDue
    <3>3. \A m \in Messages : m.run = r /\ Waits(m)' => m.step = s /\ Pending(m0)
      BY <1>3, <1>4, <2>5 DEF Waits
    <3> QED
      BY <2>3, <3>1, <3>2, <3>3 DEF AllDue
  <2> QED
    BY <1>6, <1>7, <1>8, <2>2, <2>9, <2>10, <2>11 DEF RunInv, Quiet
<1> QED
  BY <1>10, <1>11

LEMMA ReadKeeps ==
  ASSUME TypeInv, TypeInv', NEW w \in Workers, Read(w), \A q \in Runs : RunInv(q)
  PROVE  \E r \in Runs : Frame(r) /\ RunInv(r)'
<1>1. PICK m0 \in Messages :
         /\ queue[m0] > 0
         /\ queue' \in [Messages -> Nat] /\ queue'[m0] = queue[m0] - 1
         /\ \A n \in Messages \ {m0} : queue'[n] = queue[n]
         /\ msg' \in [Workers -> Messages \union {None}] /\ msg'[w] = m0
         /\ \A v \in Workers \ {w} : msg'[v] = msg[v]
         /\ Goes(w, "idle", pc'[w])
         /\ pc'[w] = "context" \/ (pc'[w] = "settle" /\ m0 \in processed)
  BY ReadEffect
<1>2. PICK r \in Runs : r = m0.run
  BY MessageParts
<1>3. RunInv(r)
  OBVIOUS
<1>4. /\ pc[w] = "idle" /\ pc'[w] \in {"settle", "context"}
      /\ pc'[w] = "settle" => m0 \in processed
      /\ \A v \in Workers \ {w} : pc'[v] = pc[v]
  BY <1>1 DEF Goes
<1>5. UNCHANGED <<runVars, processed, outsideVars, result, ran>>
  BY DEF Read
<1> USE DEF runVars, outsideVars
<1>6. \A m : Pending(m)' <=> Pending(m)
  BY <1>5 DEF Pending
<1>7. m0 \in processed => ~Pending(m0)
  BY <1>1, <1>2, <1>3 DEF RunInv, OneCopy
<1>8. Frame(r)
  BY <1>1, <1>2, <1>4, <1>5 DEF Frame
<1>9. /\ \A m \in Messages : queue'[m] > 0 => queue[m] > 0
      /\ \A m \in Messages : queue[m] <= 1 => queue'[m] <= 1
  <2>1. /\ queue'[m0] > 0 => queue[m0] > 0
        /\ queue[m0] <= 1 => queue'[m0] <= 1
    <3>1. queue[m0] \in Nat
      BY DEF TypeInv, TypeOK
    <3> QED
      BY <1>1, <3>1, SMT
  <2> QED
    BY <1>1, <2>1
<1>10. OneCopy(r)' /\ Once(r)'
  BY <1>3, <1>5, <1>6, <1>9 DEF RunInv, OneCopy, Once
<1>11. Places(r)'
  <2>1. PlaceOf(w)'
    BY <1>1, <1>4, <1>6, <1>7 DEF PlaceOf, Pending
  <2>2. ASSUME NEW v \in Workers \ {w}, On(v, r)' PROVE PlaceOf(v)'
    <3>1. On(v, r) /\ PlaceOf(v)
      BY <1>1, <1>3, <1>4, <2>2 DEF On, RunInv, Places
    <3> QED
      BY <1>1, <1>4, <1>5, <1>6, <3>1 DEF PlaceOf, Pending
  <2> QED
    BY <2>1, <2>2 DEF Places
<1>12. /\ \A v \in Workers \ {w} : Works(v, r)' => Works(v, r)
       /\ Works(w, r)' => Pending(m0) /\ pc'[w] = "context"
  BY <1>1, <1>4, <1>6, <1>7 DEF Works, On, Busy, Pending
<1>13. /\ \A t \in Steps : JobOut(r, t)' => JobOut(r, t)
       /\ TimerOn(r)' => TimerOn(r)
  <2>1. \A v \in Workers : Busy(v) => Busy(v)' /\ msg'[v] = msg[v]
    BY <1>1, <1>4 DEF Busy
  <2> QED
    BY <1>5, <2>1 DEF JobOut, TimerOn
<1>14. \A m \in Messages : m.run = r /\ Waits(m)' => Waits(m)
  BY <1>6, <1>9 DEF Waits
<1>15. \A t : Due(r, t)' <=> Due(r, t)
  BY <1>5, DueStays
<1>16. CASE ~Pending(m0)
  <2>1. NoMore(r)
    BY <1>12, <1>13, <1>14, <1>16 DEF NoMore
  <2>2. Sole(r)' /\ Quiet(r)'
    BY <1>3, <1>5, <2>1, NoMoreSole DEF RunInv, Quiet
  <2>3. AllDue(r)'
    BY <1>1, <1>3, <1>4, <1>12, <1>14, <1>15, <1>16 DEF RunInv, AllDue
  <2> QED
    BY <1>8, <1>10, <1>11, <2>2, <2>3 DEF RunInv
<1>17. CASE Pending(m0)
  <2>1. Waits(m0)
    BY <1>1, <1>17 DEF Waits
  <2>2. NoneBut(r, {}, {m0}, {}, FALSE)
    BY <1>2, <1>3, <2>1, SoleMessage DEF RunInv
  <2>3. status[r] \notin {"COMPLETED", "FAILED"}
    <3>1. ~NoneBut(r, {}, {}, {}, FALSE)
      BY <1>1, <1>2, <2>1 DEF NoneBut
    <3> QED
      BY <1>3, <3>1, NotEnded
  <2>4. ~Waits(m0)'
    <3>1. queue[m0] <= 1 /\ queue[m0] \in Nat
      BY <1>1, <1>2, <1>3, <1>17 DEF RunInv, OneCopy, TypeInv, TypeOK
    <3>2. ~(queue'[m0] > 0)
      BY <1>1, <3>1, SMT
    <3> QED
      BY <3>2 DEF Waits
  <2>5. NoneBut(r, {w}, {}, {}, FALSE)'
    BY <1>12, <1>13, <1>14, <2>2, <2>4 DEF NoneBut
  <2>6. Sole(r)' /\ Quiet(r)'
    BY <1>5, <2>3, <2>5 DEF Sole, Quiet
  <2>7. Due(r, m0.step)'
    BY <1>1, <1>2, <1>3, <1>15, <2>1 DEF RunInv, AllDue
  <2>8. AllDue(r)'
    BY <1>1, <2>5, <2>7 DEF AllDue, NoneBut
  <2> QED
    BY <1>8, <1>10, <1>11, <2>6, <2>8 DEF RunInv
<1> QED
  BY <1>16, <1>17

-----------------------------------------------------------------------------
(* The launch and the managers *)

LEMMA LaunchKeeps ==
  ASSUME Orderly, TypeInv, TypeInv', NEW r \in Runs, RunInv(r),
         CreateRun(r) \/ Launch(r) \/ LaunchFails(r)
  PROVE  Frame(r) /\ RunInv(r)'
<1>1. /\ launch[r] # "done"
      /\ UNCHANGED <<timer, retries, processed, outsideVars, workerVars, ran>>
  BY DEF CreateRun, Launch, CreateStepRuns, EnqueueFirst, LaunchFails, queueVars
<1> USE DEF outsideVars, workerVars
<1>2. /\ \A m \in Messages : m.run = r => queue[m] = 0 /\ m \notin processed
      /\ \A w \in Workers : ~On(w, r)
      /\ \A s \in Steps : ran[r][s] = 0 /\ jobs[r][s] = 0
      /\ status[r] \in {"none", "RUNNING", "CANCELLED"}
  BY <1>1 DEF TypeInv, Launched, On
<1>3. /\ \A w \in Workers : ~Works(w, r)'
      /\ \A s \in Steps : ~JobOut(r, s)'
      /\ Places(r)'
  BY <1>1, <1>2 DEF Works, On, JobOut, Places
<1>4. status' = status \/ (StatusIs(r, "RUNNING") /\ UNCHANGED <<step, queue>>)
  BY SetStatusEffect DEF CreateRun, Launch, CreateStepRuns, EnqueueFirst, LaunchFails, RunStatus,
    TypeInv, queueVars, runVars
<1>5. status'[r] \in {"none", "RUNNING", "CANCELLED"}
  BY <1>2, <1>4 DEF StatusIs
<1>6. ~TimerOn(r)' /\ Quiet(r)'
  BY <1>5 DEF TimerOn, Quiet
<1>7. /\ \A q \in Runs \ {r} : status'[q] = status[q] /\ \A s \in Steps : step'[q][s] = step[q][s]
      /\ \A s \in Steps : step'[r][s] # "WAITING_TIMER" \/ UNCHANGED step
  BY <1>4 DEF CreateRun, Launch, CreateStepRuns, EnqueueFirst, LaunchFails, StatusIs, TypeInv, TypeOK, runVars
<1>8. Once(r)'
  <2>1. \A s \in Steps : step'[r][s] # "WAITING_TIMER"
    BY <1>2, <1>7 DEF RunInv, Once
  <2> QED
    BY <1>1, <1>2, <2>1 DEF Once
<1>9. CASE ~EnqueueFirst(r)
  <2>1. UNCHANGED queue
    BY <1>9 DEF CreateRun, Launch, CreateStepRuns, LaunchFails, queueVars
  <2>2. Frame(r)
    BY <1>1, <1>7, <2>1 DEF Frame
  <2>3. \A m \in Messages : m.run = r => ~Waits(m)'
    BY <1>2, <2>1 DEF Waits
  <2>4. NoneBut(r, {}, {}, {}, FALSE)'
    BY <1>3, <1>6, <2>3 DEF NoneBut
  <2>5. OneCopy(r)' /\ AllDue(r)'
    BY <1>1, <1>2, <1>3, <2>1, <2>3 DEF OneCopy, AllDue
  <2> QED
    BY <1>3, <1>6, <1>8, <2>2, <2>4, <2>5, NothingSole DEF RunInv
<1>10. CASE EnqueueFirst(r)
  <2>1. PICK m0 \in Messages : m0 = FirstAttempt(r, First) /\ m0.run = r /\ m0.step = First
    BY Constants, FirstAttempts
  <2>2. Sends(m0)
    BY <1>10, <2>1, Constants, EnqueueEffect DEF EnqueueFirst, TypeInv
  <2>3. Frame(r)
    BY <1>1, <1>7, <2>1, <2>2 DEF Frame, Sends
  <2>4. \A m \in Messages : m.run = r /\ Waits(m)' => m = m0
    BY <1>2, <2>2 DEF Waits, Sends
  <2>5. NoneBut(r, {}, {m0}, {}, FALSE)'
    BY <1>3, <1>6, <2>4 DEF NoneBut
  <2>6. Sole(r)'
    BY <2>5 DEF Sole
  <2>7. OneCopy(r)'
    BY <1>1, <1>2, <2>1, <2>2, SMT DEF OneCopy, Sends
  <2>8. Due(r, First)'
    BY <1>1, <1>2 DEF Due, DoneSteps
  <2>9. AllDue(r)'
    BY <1>3, <2>1, <2>4, <2>8 DEF AllDue
  <2> QED
    BY <1>3, <1>6, <1>8, <2>3, <2>6, <2>7, <2>9 DEF RunInv
<1> QED
  BY <1>9, <1>10

LEMMA CancelKeeps ==
  ASSUME TypeInv, TypeInv', NEW r \in Runs, RunInv(r), Cancel(r)
  PROVE  Frame(r) /\ RunInv(r)'
<1>1. /\ StatusIs(r, "CANCELLED")
      /\ \A t \in Steps : step'[r][t] # step[r][t] => step'[r][t] = "CANCELLED"
      /\ \A q \in Runs \ {r} : step'[q] = step[q]
  BY CancelEffect
<1>2. UNCHANGED <<launch, timer, retries, queueVars, outsideVars, workerVars, ran>>
  BY DEF Cancel
<1> USE DEF queueVars, outsideVars, workerVars
<1>3. Frame(r)
  BY <1>1, <1>2 DEF Frame, StatusIs
<1>4. \A m \in Messages : m.run = r /\ Pending(m)' => Pending(m)
  BY <1>1, MessageParts DEF Pending
<1>5. \A w \in Workers : On(w, r) => msg[w] \in Messages /\ msg[w].run = r
  BY DEF On, TypeInv, HasMessage
<1>6. NoMore(r)
  BY <1>1, <1>2, <1>4, <1>5 DEF NoMore, Works, On, Busy, Waits, JobOut, TimerOn, StatusIs, Pending
<1>7. Sole(r)' /\ Quiet(r)'
  BY <1>1, <1>6, NoMoreSole DEF RunInv, Quiet, StatusIs
<1>8. OneCopy(r)' /\ Once(r)'
  BY <1>1, <1>2, <1>4 DEF RunInv, OneCopy, Once
<1>9. Places(r)'
  <2> SUFFICES ASSUME NEW v \in Workers, On(v, r)' PROVE PlaceOf(v)'
    BY DEF Places
  <2>1. On(v, r) /\ PlaceOf(v)
    BY <1>2 DEF On, RunInv, Places
  <2>2. ~Pending(msg[v]) => ~Pending(msg[v])'
    BY <1>2, <1>4, <1>5, <2>1 DEF Pending
  <2> QED
    BY <1>2, <2>1, <2>2 DEF PlaceOf
<1>10. AllDue(r)'
  <2>1. \A t : Due(r, t)' <=> Due(r, t)
    BY <1>2, DueStays
  <2> QED
    BY <1>2, <1>6, <2>1 DEF RunInv, AllDue, NoMore
<1> QED
  BY <1>3, <1>7, <1>8, <1>9, <1>10 DEF RunInv

\* Without manual retries there is none.
LEMMA NoRetry ==
  ASSUME Orderly, TypeInv, NEW r \in Runs
  PROVE  ~Retry(r)
BY SMT DEF Orderly, Retry, TypeInv, TypeOK

-----------------------------------------------------------------------------
(* Timers and jobs *)

\* The sole carrier of r was no worker and no message; after the step it is
\* at most a message of the step that follows s.
LEMMA ResumeKeeps ==
  ASSUME TypeInv, TypeInv', NEW r \in Runs, NEW s \in Steps, RunInv(r), Resume(r, s),
         NEW J, NEW T \in BOOLEAN, NoneBut(r, {}, {}, J, T), \A t \in Steps : ~JobOut(r, t)',
         ran[r][s] = 1, Kind[s] \in {"wait", "job"},
         \A q \in Runs, t \in Steps : q # r \/ t # s => jobs'[q][t] = jobs[q][t],
         jobs'[r][s] <= jobs[r][s],
         UNCHANGED <<processed, workerVars, ran>>
  PROVE  Frame(r) /\ RunInv(r)'
<1> DEFINE next == OnSuccess[s]
<1>1. /\ StepIs(r, s, "COMPLETED")
      /\ \E new \in {"COMPLETED", "FAILED", "RUNNING"} : StatusIs(r, new)
      /\ \A q \in Runs \ {r} : timer'[q] = timer[q]
      /\ next \in Steps => Sends(FirstAttempt(r, next)) /\ StatusIs(r, "RUNNING")
      /\ next \notin Steps => UNCHANGED queue
  <2>1. next \in Steps => next \notin {"END_OK", "END_FAIL"}
    BY Constants
  <2> QED
    BY <2>1, ResumeEffect
<1>2. next \in After[s]
  BY DEF After
<1> HIDE DEF next
<1> USE DEF workerVars
<1>3. ~TimerOn(r)'
  BY <1>1 DEF StatusIs, TimerOn
<1>4. \A m \in Messages : m.run = r /\ Pending(m)' => Pending(m)
  BY <1>1, MessageParts DEF Pending, StepIs
<1>5. \A v \in Workers : ~Works(v, r)
  BY DEF NoneBut
<1>6. \A v \in Workers : On(v, r)' => On(v, r) /\ msg[v] \in Messages /\ msg[v].run = r
  BY DEF On, TypeInv, HasMessage
<1>7. \A v \in Workers : ~Works(v, r)'
  BY <1>4, <1>5, <1>6 DEF Works, Busy, Pending
<1>8. \A m \in Messages : m.run = r => ~Waits(m)
  BY DEF NoneBut
<1>9. Once(r)'
  <2> SUFFICES ASSUME NEW t \in Steps
               PROVE /\ ran[r][t] <= 1 /\ jobs'[r][t] <= ran[r][t]
                     /\ step'[r][t] = "PENDING" => ran[r][t] = 0
                     /\ step'[r][t] = "WAITING_TIMER" => ran[r][t] = 1 /\ Kind[t] \in {"wait", "job"}
                     /\ jobs'[r][t] > 0 => Kind[t] = "job"
    BY DEF Once
  <2>1. CASE t # s
    BY <1>1, <2>1 DEF StepIs, RunInv, Once
  <2>2. CASE t = s
    <3>1. step'[r][t] = "COMPLETED"
      BY <1>1, <2>2 DEF StepIs
    <3>2. /\ ran[r][t] <= 1 /\ jobs[r][t] <= ran[r][t] /\ (jobs[r][t] > 0 => Kind[t] = "job")
          /\ jobs[r][t] \in Nat /\ jobs'[r][t] \in Nat /\ ran[r][t] \in Nat
      BY DEF RunInv, Once, TypeInv, TypeOK
    <3> QED
      BY <2>2, <3>1, <3>2, SMT
  <2> QED
    BY <2>1, <2>2
<1>10. Places(r)'
  <2> SUFFICES ASSUME NEW v \in Workers, On(v, r)' PROVE PlaceOf(v)'
    BY DEF Places
  <2>1. On(v, r) /\ PlaceOf(v) /\ ~Busy(v) /\ (~Pending(msg[v]) => ~Pending(msg[v])')
    BY <1>4, <1>5, <1>6 DEF RunInv, Places, Works, Pending
  <2> QED
    BY <2>1 DEF PlaceOf, Busy, Pending
<1>11. CASE next \notin Steps
  <2>1. Frame(r)
    BY <1>1, <1>11 DEF Frame, StepIs, StatusIs
  <2>2. \A m \in Messages : m.run = r => ~Waits(m)'
    BY <1>1, <1>4, <1>8, <1>11 DEF Waits
  <2>3. NoneBut(r, {}, {}, {}, FALSE)'
    BY <1>3, <1>7, <2>2 DEF NoneBut
  <2>4. OneCopy(r)' /\ AllDue(r)'
    BY <1>1, <1>4, <1>7, <1>11, <2>2 DEF RunInv, OneCopy, AllDue
  <2> QED
    BY <1>9, <1>10, <2>1, <2>3, <2>4, NothingSole DEF RunInv, Quiet
<1>12. CASE next \in Steps
  <2>1. PICK m0 \in Messages : m0 = FirstAttempt(r, next) /\ m0.run = r /\ m0.step = next
    BY <1>12, FirstAttempts
  <2>2. Sends(m0) /\ StatusIs(r, "RUNNING")
    BY <1>1, <1>12, <2>1
  <2>3. Frame(r)
    BY <1>1, <2>1, <2>2 DEF Frame, StepIs, StatusIs, Sends
  <2>4. \A m \in Messages : m.run = r /\ Waits(m)' => m = m0
    BY <1>4, <1>8, <2>2 DEF Waits, Sends
  <2>5. NoneBut(r, {}, {m0}, {}, FALSE)'
    BY <1>3, <1>7, <2>4 DEF NoneBut
  <2>6. Sole(r)' /\ Quiet(r)'
    BY <2>2, <2>5 DEF Sole, Quiet, StatusIs
  <2>7. OneCopy(r)'
    <3> SUFFICES ASSUME NEW m \in Messages, m.run = r, Pending(m)'
                 PROVE  queue'[m] <= 1 /\ m \notin processed
      BY DEF OneCopy
    <3>1. queue[m] <= 1 /\ m \notin processed /\ ~(queue[m] > 0) /\ queue[m] \in Nat
      BY <1>4, <1>8 DEF RunInv, OneCopy, Waits, TypeInv, TypeOK
    <3>2. queue'[m] = queue[m] + 1 \/ queue'[m] = queue[m]
      BY <2>2 DEF Sends
    <3> QED
      BY <3>1, <3>2, SMT
  <2>8. Due(r, next)'
    <3>1. s \in DoneSteps(r)
      BY SMT DEF DoneSteps
    <3>2. Due(r, next)
      BY <1>2, <3>1 DEF Due
    <3> QED
      BY <3>2, DueStays
  <2>9. AllDue(r)'
    BY <1>7, <2>1, <2>4, <2>8 DEF AllDue
  <2> QED
    BY <1>9, <1>10, <2>3, <2>6, <2>7, <2>9 DEF RunInv
<1> QED
  BY <1>11, <1>12

LEMMA TimerKeeps ==
  ASSUME TypeInv, TypeInv', NEW r \in Runs, NEW s \in Steps, RunInv(r), ResumeTimer(r, s)
  PROVE  Frame(r) /\ RunInv(r)'
<1>1. /\ status[r] = "WAITING_TIMER" /\ timer[r] /\ step[r][s] = "WAITING_TIMER" /\ Resume(r, s)
      /\ UNCHANGED <<processed, jobs, workerVars, ran>>
  BY DEF ResumeTimer, outsideVars
<1>2. NoneBut(r, {}, {}, {}, TRUE)
  BY <1>1, SoleTimer DEF TimerOn, RunInv
<1>3. ran[r][s] = 1 /\ Kind[s] \in {"wait", "job"}
  BY <1>1 DEF RunInv, Once
<1>4. \A t \in Steps : ~JobOut(r, t)'
  BY <1>1, <1>2 DEF NoneBut, JobOut, Busy, workerVars
<1>5. /\ jobs'[r][s] <= jobs[r][s]
      /\ \A q \in Runs, t \in Steps : q # r \/ t # s => jobs'[q][t] = jobs[q][t]
  <2>1. jobs[r][s] \in Nat
    BY DEF TypeInv, TypeOK
  <2> QED
    BY <1>1, <2>1, SMT
<1> QED
  BY <1>1, <1>2, <1>3, <1>4, <1>5, ResumeKeeps

\* A job that ends was the sole carrier of its run, and none is left.
LEMMA JobWasSole ==
  ASSUME Orderly, TypeInv, TypeInv', NEW r \in Runs, NEW s \in Steps, RunInv(r), JobEnds(r, s),
         UNCHANGED workerVars
  PROVE  /\ JobOut(r, s) /\ NoneBut(r, {}, {}, {s}, FALSE)
         /\ \A t \in Steps : ~JobOut(r, t)'
         /\ ran[r][s] = 1 /\ Kind[s] = "job" /\ jobs'[r][s] <= jobs[r][s]
         /\ \A q \in Runs, t \in Steps : q # r \/ t # s => jobs'[q][t] = jobs[q][t]
<1>1. /\ jobs[r][s] > 0 /\ jobs'[r][s] = jobs[r][s] - 1
      /\ \A q \in Runs, t \in Steps : q # r \/ t # s => jobs'[q][t] = jobs[q][t]
  BY JobEndsEffect
<1>2. JobOut(r, s)
  BY <1>1 DEF JobEnds, JobOut, Orderly, Busy
<1>3. NoneBut(r, {}, {}, {s}, FALSE)
  BY <1>2, SoleJob DEF RunInv
<1>4. /\ ran[r][s] <= 1 /\ jobs[r][s] <= ran[r][s] /\ Kind[s] = "job"
      /\ ran[r][s] \in Nat /\ jobs[r][s] \in Nat
  BY <1>1 DEF RunInv, Once, TypeInv, TypeOK
<1>5. ran[r][s] = 1 /\ jobs'[r][s] = 0
  BY <1>1, <1>4, SMT
<1>6. ASSUME NEW t \in Steps, JobOut(r, t)' PROVE FALSE
  <2>1. CASE t = s
    BY <1>5, <1>6, <2>1 DEF JobOut
  <2>2. CASE t # s
    BY <1>1, <1>3, <1>6, <2>2 DEF JobOut, NoneBut, Busy, workerVars
  <2> QED
    BY <2>1, <2>2
<1>7. jobs'[r][s] <= jobs[r][s]
  BY <1>1, <1>4, <1>5, SMT
<1> QED
  BY <1>1, <1>2, <1>3, <1>4, <1>5, <1>6, <1>7

\* After a job that failed nothing carries the run on.
LEMMA JobLostKeeps ==
  ASSUME Orderly, TypeInv, TypeInv', NEW r \in Runs, NEW s \in Steps, RunInv(r),
         JobDeclined(r, s) \/ JobFails(r, s)
  PROVE  Frame(r) /\ RunInv(r)'
<1>1. JobEnds(r, s) /\ UNCHANGED <<timer, queueVars, workerVars, ran>>
  BY DEF JobDeclined, JobFails, runVars
<1> USE DEF queueVars, workerVars
<1>2. /\ NoneBut(r, {}, {}, {s}, FALSE)
      /\ \A t \in Steps : ~JobOut(r, t)'
      /\ jobs'[r][s] <= jobs[r][s]
      /\ \A q \in Runs, t \in Steps : q # r \/ t # s => jobs'[q][t] = jobs[q][t]
  BY <1>1, JobWasSole
<1>3. \/ StepIs(r, s, "FAILED") /\ StatusIs(r, "FAILED")
      \/ UNCHANGED <<status, step>>
  BY SetStepEffect, SetStatusEffect DEF JobDeclined, JobFails, StepStatus, RunStatus, TypeInv, runVars
<1>4. /\ \A t \in Steps : step'[r][t] = step[r][t] \/ step'[r][t] = "FAILED"
      /\ status'[r] = status[r] \/ status'[r] = "FAILED"
  BY <1>3 DEF StepIs, StatusIs
<1>5. Frame(r)
  BY <1>1, <1>2, <1>3 DEF Frame, StepIs, StatusIs
<1>6. \A m \in Messages : m.run = r /\ Pending(m)' => Pending(m)
  BY <1>4, MessageParts DEF Pending
<1>7. \A v \in Workers : On(v, r)' => On(v, r) /\ msg[v] \in Messages /\ msg[v].run = r
  BY <1>1 DEF On, TypeInv, HasMessage
<1>8. \A v \in Workers : Works(v, r)' => Works(v, r)
  BY <1>1, <1>6, <1>7 DEF Works, Busy, Pending
<1>9. \A m \in Messages : m.run = r /\ Waits(m)' => Waits(m)
  BY <1>1, <1>6 DEF Waits
<1>10. ~TimerOn(r)'
  BY <1>1, <1>2, <1>4 DEF TimerOn, NoneBut
<1>11. NoneBut(r, {}, {}, {}, FALSE)'
  BY <1>2, <1>8, <1>9, <1>10 DEF NoneBut
<1>12. Once(r)'
  <2> SUFFICES ASSUME NEW t \in Steps
               PROVE /\ ran[r][t] <= 1 /\ jobs'[r][t] <= ran[r][t]
                     /\ step'[r][t] = "PENDING" => ran[r][t] = 0
                     /\ step'[r][t] = "WAITING_TIMER" => ran[r][t] = 1 /\ Kind[t] \in {"wait", "job"}
                     /\ jobs'[r][t] > 0 => Kind[t] = "job"
    BY <1>1 DEF Once
  <2>1. /\ ran[r][t] <= 1 /\ jobs[r][t] <= ran[r][t] /\ (jobs[r][t] > 0 => Kind[t] = "job")
        /\ step[r][t] = "PENDING" => ran[r][t] = 0
        /\ step[r][t] = "WAITING_TIMER" => ran[r][t] = 1 /\ Kind[t] \in {"wait", "job"}
        /\ jobs[r][t] \in Nat /\ jobs'[r][t] \in Nat /\ ran[r][t] \in Nat
    BY DEF RunInv, Once, TypeInv, TypeOK
  <2>2. jobs'[r][t] <= jobs[r][t]
    BY <1>2, <2>1, SMT
  <2>3. step'[r][t] = step[r][t] \/ step'[r][t] = "FAILED"
    BY <1>4
  <2> QED
    BY <2>1, <2>2, <2>3, SMT
<1>13. OneCopy(r)'
  BY <1>1, <1>6 DEF RunInv, OneCopy
<1>14. Places(r)'
  <2> SUFFICES ASSUME NEW v \in Workers, On(v, r)' PROVE PlaceOf(v)'
    BY DEF Places
  <2>1. On(v, r) /\ PlaceOf(v) /\ ~Busy(v) /\ (~Pending(msg[v]) => ~Pending(msg[v])')
    BY <1>1, <1>2, <1>6, <1>7 DEF RunInv, Places, Works, Pending, NoneBut
  <2> QED
    BY <1>1, <2>1 DEF PlaceOf, Busy, Pending
<1>15. AllDue(r)'
  BY <1>11 DEF AllDue, NoneBut
<1> QED
  BY <1>5, <1>11, <1>12, <1>13, <1>14, <1>15, NothingSole DEF RunInv, Quiet

LEMMA OutsideKeeps ==
  ASSUME Orderly, TypeInv, TypeInv', NEW r \in Runs, NEW s \in Steps, RunInv(r),
         ResumeTimer(r, s) \/ Outside(r, s)
  PROVE  Frame(r) /\ RunInv(r)'
<1>1. CASE JobSucceeds(r, s)
  <2>1. JobEnds(r, s) /\ Resume(r, s) /\ UNCHANGED <<processed, workerVars, ran>>
    BY <1>1 DEF JobSucceeds
  <2>2. UNCHANGED workerVars
    BY <2>1
  <2>3. /\ NoneBut(r, {}, {}, {s}, FALSE) /\ \A t \in Steps : ~JobOut(r, t)'
        /\ ran[r][s] = 1 /\ Kind[s] \in {"wait", "job"} /\ jobs'[r][s] <= jobs[r][s]
        /\ \A q \in Runs, t \in Steps : q # r \/ t # s => jobs'[q][t] = jobs[q][t]
    BY <2>1, <2>2, JobWasSole
  <2> QED
    BY <2>1, <2>3, ResumeKeeps
<1>2. CASE Decide(r, s)
  <2>1. UNCHANGED <<runVars, queueVars, jobs, workerVars, ran>>
    BY <1>2 DEF Decide
  <2> USE DEF runVars, queueVars, workerVars
  <2>2. \A m : Pending(m)' <=> Pending(m)
    BY <2>1 DEF Pending
  <2>3. NoMore(r) /\ Frame(r)
    BY <2>1, <2>2 DEF NoMore, Works, On, Busy, Waits, JobOut, TimerOn, Frame
  <2>4. Sole(r)' /\ Quiet(r)'
    BY <2>1, <2>3, NoMoreSole DEF RunInv, Quiet
  <2>5. OneCopy(r)' /\ Once(r)' /\ Places(r)'
    BY <2>1, <2>2 DEF RunInv, OneCopy, Once, Places, PlaceOf, On, Pending
  <2>6. AllDue(r)'
    <3>1. \A t : Due(r, t)' <=> Due(r, t)
      BY <2>1, DueStays
    <3> QED
      BY <2>1, <2>3, <3>1 DEF RunInv, AllDue, NoMore
  <2> QED
    BY <2>3, <2>4, <2>5, <2>6 DEF RunInv
<1> QED
  BY <1>1, <1>2, TimerKeeps, JobLostKeeps DEF Outside

-----------------------------------------------------------------------------
(* The invariant *)

LEMMA WorkerKeeps ==
  ASSUME Orderly, TypeInv, TypeInv', NEW w \in Workers, \A q \in Runs : RunInv(q),
         Step(w) \/ Crash(w) \/ ExpireEarly(w)
  PROVE  \E r \in Runs : Frame(r) /\ RunInv(r)'
<1>1. CASE Read(w)
  BY <1>1, ReadKeeps
<1>2. CASE ~Read(w)
  <2>1. pc[w] # "idle"
    BY <1>2 DEF Step, ReadContext, Start, Execute, Complete, Schedule, CloseRun, EnqueueNext, Settle,
      Leave, Return, Crash, ExpireEarly, GoTo, Free
  <2>2. PICK r \in Runs : r = msg[w].run /\ RunInv(r)
    BY <2>1, Holding
  <2>3. PICK s \in Steps : s = msg[w].step
    BY <2>1, Holding
  <2>4. CASE ReadContext(w)
    BY <2>2, <2>4, ReadContextKeeps
  <2>5. CASE Start(w)
    BY <2>2, <2>3, <2>5, StartKeeps
  <2>6. CASE Execute(w)
    BY <2>2, <2>3, <2>6, ExecuteKeeps
  <2>7. CASE Complete(w)
    BY <2>2, <2>3, <2>7, CompleteKeeps
  <2>8. CASE Schedule(w)
    BY <2>2, <2>3, <2>8, ScheduleKeeps
  <2>9. CASE CloseRun(w) \/ EnqueueNext(w)
    BY <2>2, <2>3, <2>9, AdvanceKeeps
  <2>10. CASE Settle(w) \/ Leave(w) \/ Return(w) \/ Crash(w)
    BY <2>2, <2>3, <2>10, FreeingKeeps
  <2>11. CASE ExpireEarly(w)
    BY <2>11 DEF ExpireEarly, Orderly
  <2> QED
    BY <1>2, <2>4, <2>5, <2>6, <2>7, <2>8, <2>9, <2>10, <2>11 DEF Step
<1> QED
  BY <1>1, <1>2

LEMMA InitIInv == Init => IInv
<1> SUFFICES ASSUME Init, NEW r \in Runs PROVE RunInv(r)
  BY InitTypes DEF IInv
<1>1. /\ \A w \in Workers : ~On(w, r)
      /\ \A m \in Messages : queue[m] = 0 /\ m \notin processed
      /\ \A s \in Steps : ran[r][s] = 0 /\ jobs[r][s] = 0 /\ step[r][s] = "none"
      /\ status[r] = "none" /\ timer[r] = FALSE
  BY DEF Init, On
<1>2. NoneBut(r, {}, {}, {}, FALSE)
  BY <1>1 DEF NoneBut, Works, Waits, JobOut, TimerOn
<1>3. Sole(r)
  BY <1>2 DEF Sole, NoneBut
<1>4. OneCopy(r) /\ Once(r) /\ Places(r) /\ Quiet(r)
  BY <1>1, <1>2 DEF OneCopy, Once, Places, Quiet
<1>5. AllDue(r)
  BY <1>2 DEF AllDue, NoneBut
<1> QED
  BY <1>3, <1>4, <1>5 DEF RunInv

LEMMA IInvStep == Orderly /\ IInv /\ [Next]_vars => IInv'
<1> SUFFICES ASSUME Orderly, IInv, [Next]_vars PROVE IInv'
  OBVIOUS
<1>1. TypeInv /\ TypeInv' /\ \A r \in Runs : RunInv(r)
  BY TypeStep DEF IInv
<1>2. ASSUME NEW r \in Runs, Frame(r), RunInv(r)' PROVE IInv'
  <2>1. \A q \in Runs \ {r} : RunInv(q)'
    BY <1>1, <1>2, FrameKeeps
  <2> QED
    BY <1>1, <1>2, <2>1 DEF IInv
<1>3. CASE UNCHANGED vars
  BY <1>1, <1>3 DEF IInv, vars, runVars, queueVars, outsideVars, workerVars, RunInv, Sole, NoneBut, Works,
    On, Busy, Pending, Waits, JobOut, TimerOn, OneCopy, Once, Places, PlaceOf, Quiet, AllDue, Due, DoneSteps
<1>4. ASSUME NEW r \in Runs, CreateRun(r) \/ Launch(r) \/ LaunchFails(r) \/ Cancel(r) \/ Retry(r)
      PROVE  IInv'
  <2>1. Frame(r) /\ RunInv(r)'
    BY <1>1, <1>4, LaunchKeeps, CancelKeeps, NoRetry
  <2> QED
    BY <1>2, <2>1
<1>5. ASSUME NEW w \in Workers, Step(w) \/ Crash(w) \/ ExpireEarly(w) PROVE IInv'
  <2>1. \E r \in Runs : Frame(r) /\ RunInv(r)'
    BY <1>1, <1>5, WorkerKeeps
  <2> QED
    BY <1>2, <2>1
<1>6. ASSUME NEW r \in Runs, NEW s \in Steps, ResumeTimer(r, s) \/ Outside(r, s) PROVE IInv'
  <2>1. Frame(r) /\ RunInv(r)'
    BY <1>1, <1>6, OutsideKeeps
  <2> QED
    BY <1>2, <2>1
<1> QED
  BY <1>3, <1>4, <1>5, <1>6 DEF Next

LEMMA Invariant == ASSUME Orderly PROVE Spec => []IInv
<1>1. IInv /\ [Next]_vars => IInv'
  BY IInvStep
<1> QED
  BY <1>1, InitIInv, PTL DEF Spec

\* Whatever dies, fails or is cancelled, the handler of a step runs once at
\* most: a run has one carrier, and who performs a step makes it not PENDING
\* before it does.
THEOREM OnceEach == ASSUME Orderly PROVE Spec => []StepsRunOnce
<1>1. IInv => StepsRunOnce
  BY DEF IInv, RunInv, Once, StepsRunOnce
<1> QED
  BY <1>1, Invariant, PTL

\* No two workers are at the steps of one run at a time.
THEOREM InTurn == ASSUME Orderly PROVE Spec => []StepsTakeTurns
<1>1. IInv => StepsTakeTurns
  <2> SUFFICES ASSUME IInv, NEW v \in Workers, NEW w \in Workers, v # w, Busy(v), Busy(w),
                      msg[v].run = msg[w].run
               PROVE  FALSE
    BY DEF StepsTakeTurns
  <2>1. pc[v] # "idle" /\ msg[w].run \in Runs
    BY Holding DEF Busy, IInv
  <2>2. \A u \in Workers \ {w} : On(u, msg[w].run) => ~Busy(u)
    BY <2>1, AtWork DEF IInv
  <2> QED
    BY <2>1, <2>2 DEF On
<1> QED
  BY <1>1, Invariant, PTL

\* A run that has completed or failed is over: no worker is at it, and no
\* message of it would start a step.
THEOREM QuietEnds == ASSUME Orderly PROVE Spec => []EndedRunsAreQuiet
<1>1. IInv => EndedRunsAreQuiet
  <2> SUFFICES ASSUME IInv, NEW r \in Runs, status[r] \in {"COMPLETED", "FAILED"}
               PROVE  /\ \A w \in Workers : Busy(w) => msg[w].run # r
                      /\ \A m \in Messages : queue[m] > 0 /\ m.run = r => step[r][m.step] # "PENDING"
    BY DEF EndedRunsAreQuiet
  <2>1. NoneBut(r, {}, {}, {}, FALSE)
    BY DEF IInv, RunInv, Quiet
  <2>2. ASSUME NEW w \in Workers, Busy(w), msg[w].run = r PROVE FALSE
    BY <2>1, <2>2 DEF NoneBut, Works, On, Busy
  <2>3. ASSUME NEW m \in Messages, queue[m] > 0, m.run = r PROVE step[r][m.step] # "PENDING"
    BY <2>1, <2>3 DEF NoneBut, Waits, Pending
  <2> QED
    BY <2>2, <2>3
<1> QED
  BY <1>1, Invariant, PTL

-----------------------------------------------------------------------------
(* The engine implements WorkflowRun *)

Closed == {"COMPLETED", "FAILED"}
EndOf(how) == IF how = "COMPLETED" THEN "END_OK" ELSE "END_FAIL"

\* Where a step gives up, its workflow may fail.
LEMMA GivingUp ==
  ASSUME NEW s \in Steps, NEW o \in Outcomes(s), o.next = "GIVE_UP"
  PROVE  "END_FAIL" \in After[s]
<1>1. s \in BadConfig
  BY OutcomesFit
<1> QED
  BY <1>1 DEF After

\* A step that performs nothing and ends no run.
LEMMA Stutters ==
  ASSUME UNCHANGED ran,
         \A r \in Runs : status'[r] = status[r] \/ {status[r], status'[r]} \cap Closed = {}
  PROVE  UNCHANGED Promise!vars
<1>1. [r \in Runs |-> IF status[r] \in Closed THEN status[r] ELSE "no"]'
        = [r \in Runs |-> IF status[r] \in Closed THEN status[r] ELSE "no"]
  OBVIOUS
<1> QED
  BY <1>1 DEF Promise!vars, Closed

\* A step that gives run r a status it may have.
LEMMA RunEnds ==
  ASSUME UNCHANGED ran, NEW r \in Runs, NEW new, StatusIs(r, new), status[r] \notin Closed,
         new \in Closed => \E p \in DoneSteps(r) : EndOf(new) \in After[p]
  PROVE  [Promise!Next]_(Promise!vars)
<1>1. CASE new \notin Closed
  BY <1>1, Stutters DEF StatusIs
<1>2. CASE new \in Closed
  <2> DEFINE ended == [q \in Runs |-> IF status[q] \in Closed THEN status[q] ELSE "no"]
  <2>1. ended' = [ended EXCEPT ![r] = new]
    BY <1>2 DEF StatusIs
  <2>2. ended[r] = "no" /\ new \in {"COMPLETED", "FAILED"}
    BY <1>2 DEF Closed
  <2>3. Promise!End(r, new)
    BY <1>2, <2>1, <2>2 DEF Promise!End, Promise!Done, DoneSteps, EndOf, Closed
  <2> QED
    BY <2>2, <2>3 DEF Promise!Next
<1> QED
  BY <1>1, <1>2

\* The worker performs a step that is due, for the first time, while the run
\* is open.
LEMMA Performs ==
  ASSUME IInv, NEW w \in Workers, Execute(w)
  PROVE  Promise!Next
<1>1. /\ pc[w] = "execute" /\ UNCHANGED status
      /\ ran' = [ran EXCEPT ![msg[w].run][msg[w].step] = @ + 1]
  BY DEF Execute, GoTo, runVars
<1>2. PICK r \in Runs, s \in Steps : r = msg[w].run /\ s = msg[w].step
  BY <1>1, Holding DEF IInv
<1>3. Busy(w) /\ RunInv(r)
  BY <1>1 DEF Busy, IInv
<1>4. Works(w, r) /\ status[r] \notin Closed /\ PlaceOf(w)
  BY <1>2, <1>3, AtWork DEF IInv, Closed
<1>5. ran[r][s] = 0 /\ Due(r, s)
  BY <1>1, <1>2, <1>3, <1>4 DEF PlaceOf, RunInv, AllDue
<1>6. ran' = [ran EXCEPT ![r][s] = 1]
  BY <1>1, <1>2, <1>5 DEF IInv, TypeInv, TypeOK
<1>7. Promise!Perform(r, s)
  BY <1>1, <1>4, <1>5, <1>6 DEF Promise!Perform, Promise!Done, Due, DoneSteps, Closed
<1> QED
  BY <1>7 DEF Promise!Next

LEMMA WorkerImplements ==
  ASSUME Orderly, IInv, NEW w \in Workers, Step(w) \/ Crash(w) \/ ExpireEarly(w)
  PROVE  [Promise!Next]_(Promise!vars)
<1> USE DEF IInv
<1>1. CASE Execute(w)
  BY <1>1, Performs
<1>2. CASE Schedule(w)
  <2>1. Busy(w) /\ UNCHANGED ran
    BY <1>2 DEF Schedule, GoTo, Busy
  <2>2. PICK r \in Runs : r = msg[w].run /\ status[r] \notin Closed
    BY <2>1, Holding, AtWork DEF Busy, Closed
  <2>3. CASE StatusIs(r, "WAITING_TIMER")
    BY <2>1, <2>2, <2>3, RunEnds DEF Closed
  <2>4. CASE UNCHANGED status
    BY <2>1, <2>4, Stutters
  <2> QED
    BY <1>2, <2>2, <2>3, <2>4, ScheduleEffect
<1>3. CASE CloseRun(w)
  <2>1. Busy(w) /\ UNCHANGED ran /\ pc[w] = "advance" /\ result[w].next \notin Steps
    BY <1>3 DEF CloseRun, GoTo, Busy
  <2>2. PICK r \in Runs, s \in Steps : r = msg[w].run /\ s = msg[w].step /\ status[r] \notin Closed
    BY <2>1, Holding, AtWork DEF Busy, Closed
  <2>3. PlaceOf(w)
    BY <2>1, <2>2, AtWork
  <2>4. s \in DoneSteps(r)
    BY <2>1, <2>2, <2>3, SMT DEF PlaceOf, DoneSteps
  <2>5. /\ result[w] \in Outcomes(s) /\ result[w].next \in After[s]
        /\ result[w].next \in {"END_OK", "END_FAIL", "HUMAN", "GIVE_UP"}
    <3>1. result[w].next \notin {"TIMER", "LEAVE"}
      BY <2>1 DEF TypeInv, HasResult
    <3> QED
      BY <2>1, <2>2, <3>1, Returning DEF Ends
  <2>6. ASSUME NEW new, StatusIs(r, new),
               new = CASE result[w].next = "END_OK" -> "COMPLETED"
                       [] result[w].next = "HUMAN"  -> "WAITING_HUMAN"
                       [] OTHER                     -> "FAILED"
        PROVE  [Promise!Next]_(Promise!vars)
    <3>1. new \in Closed => EndOf(new) \in After[s]
      BY <2>5, <2>6, GivingUp DEF EndOf, Closed
    <3> QED
      BY <2>1, <2>2, <2>4, <2>6, <3>1, RunEnds
  <2>7. CASE UNCHANGED status
    BY <2>1, <2>7, Stutters
  <2> QED
    BY <1>3, <2>2, <2>6, <2>7, CloseRunEffect
<1>4. CASE ~Execute(w) /\ ~Schedule(w) /\ ~CloseRun(w)
  <2>1. UNCHANGED <<ran, status>>
    BY <1>4 DEF Step, Read, ReadContext, Start, Complete, EnqueueNext, Settle, Leave, Return, Crash,
      ExpireEarly, runVars
  <2> QED
    BY <2>1, Stutters
<1> QED
  BY <1>1, <1>2, <1>3, <1>4

LEMMA RunImplements ==
  ASSUME Orderly, IInv, NEW r \in Runs,
         CreateRun(r) \/ Launch(r) \/ LaunchFails(r) \/ Cancel(r) \/ Retry(r)
  PROVE  [Promise!Next]_(Promise!vars)
<1> USE DEF IInv
<1>1. CASE CreateRun(r)
  <2>1. status[r] \notin Closed
    BY <1>1 DEF CreateRun, TypeInv, Launched, Closed
  <2>2. StatusIs(r, "RUNNING") /\ UNCHANGED ran
    BY <1>1, SetStatusEffect DEF CreateRun, TypeInv, RunStatus
  <2> QED
    BY <2>1, <2>2, RunEnds DEF Closed
<1>2. CASE Cancel(r)
  <2>1. StatusIs(r, "CANCELLED") /\ status[r] \notin Closed /\ UNCHANGED ran
    BY <1>2, CancelEffect DEF Cancel, Closed
  <2> QED
    BY <2>1, RunEnds DEF Closed
<1>3. CASE Launch(r) \/ LaunchFails(r)
  <2>1. UNCHANGED <<ran, status>>
    BY <1>3 DEF Launch, CreateStepRuns, EnqueueFirst, LaunchFails
  <2> QED
    BY <2>1, Stutters
<1> QED
  BY <1>1, <1>2, <1>3, NoRetry

LEMMA OutsideImplements ==
  ASSUME Orderly, IInv, IInv', NEW r \in Runs, NEW s \in Steps, ResumeTimer(r, s) \/ Outside(r, s)
  PROVE  [Promise!Next]_(Promise!vars)
<1> USE DEF IInv
<1>1. CASE JobFails(r, s) \/ Decide(r, s)
  <2>1. UNCHANGED <<ran, status>>
    BY <1>1 DEF JobFails, Decide, runVars
  <2> QED
    BY <2>1, Stutters
<1>2. CASE ~(JobFails(r, s) \/ Decide(r, s))
  <2>1. UNCHANGED ran
    BY <1>2 DEF ResumeTimer, Outside, JobSucceeds, JobDeclined
  <2>2. /\ status[r] \notin Closed /\ ran[r][s] = 1 /\ Kind[s] \in {"wait", "job"}
        /\ JobEnds(r, s) => Kind[s] = "job"
    <3>1. CASE JobEnds(r, s)
      <4>1. UNCHANGED workerVars
        BY <1>2 DEF ResumeTimer, Outside, JobSucceeds, JobDeclined
      <4>2. JobOut(r, s) /\ ran[r][s] = 1 /\ Kind[s] = "job"
        BY <3>1, <4>1, JobWasSole
      <4>3. ~NoneBut(r, {}, {}, {}, FALSE)
        BY <4>2 DEF NoneBut
      <4> QED
        BY <4>2, <4>3, NotEnded DEF Closed
    <3>2. CASE ~JobEnds(r, s)
      <4>1. status[r] = "WAITING_TIMER" /\ step[r][s] = "WAITING_TIMER"
        BY <1>2, <3>2 DEF ResumeTimer, Outside, JobSucceeds, JobDeclined
      <4> QED
        BY <3>2, <4>1 DEF RunInv, Once, Closed
    <3> QED
      BY <3>1, <3>2
  <2>3. ASSUME NEW new, StatusIs(r, new), new \in Closed => EndOf(new) \in After[s]
        PROVE  [Promise!Next]_(Promise!vars)
    <3>1. s \in DoneSteps(r)
      BY <2>2, SMT DEF DoneSteps
    <3> QED
      BY <2>1, <2>2, <2>3, <3>1, RunEnds
  <2>4. CASE JobDeclined(r, s)
    <3>1. StatusIs(r, "FAILED")
      BY <2>4, SetStatusEffect DEF JobDeclined, TypeInv, RunStatus
    <3>2. "END_FAIL" \in After[s]
      BY <2>2, <2>4 DEF JobDeclined, After
    <3> QED
      BY <2>3, <3>1, <3>2 DEF EndOf, Closed
  <2>5. CASE Resume(r, s)
    <3>1. OnSuccess[s] \in After[s]
      BY <2>2 DEF After
    <3> QED
      BY <2>3, <2>5, <3>1, ResumeEffect DEF EndOf, Closed
  <2> QED
    BY <1>2, <2>4, <2>5 DEF ResumeTimer, Outside, JobSucceeds
<1> QED
  BY <1>1, <1>2

\* The engine keeps what it promises of a run, whatever the workflow is and
\* whatever dies or fails: its steps are performed along the edges of the
\* workflow, each once at most, it ends where a step of it may, and nothing
\* is performed after that.
THEOREM Implements == ASSUME Orderly PROVE Spec => PromiseSpec
<1>1. Init => Promise!Init
  BY DEF Init, Promise!Init
<1>2. IInv /\ IInv' /\ [Next]_vars => [Promise!Next]_(Promise!vars)
  <2> SUFFICES ASSUME IInv, IInv', [Next]_vars PROVE [Promise!Next]_(Promise!vars)
    OBVIOUS
  <2>1. CASE UNCHANGED vars
    <3>1. UNCHANGED <<ran, status>>
      BY <2>1 DEF vars, runVars
    <3> QED
      BY <3>1, Stutters
  <2> QED
    BY <2>1, RunImplements, WorkerImplements, OutsideImplements DEF Next
<1> QED
  BY <1>1, <1>2, Invariant, PTL DEF Spec, PromiseSpec, Promise!Spec
=============================================================================
