---------------------------- MODULE QueueRuntime ----------------------------
(***************************************************************************)
(* The queue runtime every background job of the platform goes through:    *)
(* a PGMQ queue, the RPCs of 20260503000002_async_infra.sql and the        *)
(* QueueRunner of supabase/functions/_shared/queue-runtime.ts.             *)
(*                                                                         *)
(* A worker is one invocation of an Edge Function.  It reads a batch, and  *)
(* for each message checks the dedup table, runs the handler, then records *)
(* and archives, or backs off, or moves the message to the dead-letter     *)
(* table.  Each of these is an RPC of its own: the worker can crash before *)
(* any of them, any of them can return an error (which the runner only     *)
(* logs), and the visibility timeout (VT) of a message can run out while   *)
(* the worker that read it is still busy with the rest of its batch.       *)
(***************************************************************************)
EXTENDS Integers, FiniteSets

CONSTANTS
  Msgs,           \* the messages producers may send
  Keys,           \* the idempotency keys
  KeyOf,          \* key of a message; fresh per message when the payload has none
  NoTenant,       \* messages whose payload has no tenant_id
  NoHandler,      \* messages whose task has no registered handler
  None,           \* no message
  Workers,        \* concurrent invocations of the worker function
  MaxAttempts,    \* QueueRunnerConfig.maxAttempts
  BatchSize,      \* QueueRunnerConfig.batchSize
  VtCoversBatch,  \* TRUE: a batch is always finished before its VT runs out
  FailingRpcs,    \* the RPCs that may return an error
  MaxFaults,      \* bound: crashes + failed RPCs + VTs that run out too early
  MaxLeft         \* bound: times a handler leaves one message in the queue (selfManaged)

Rpcs == {"check_dedup", "record_processed", "archive_queue_message",
         "set_queue_message_vt", "move_to_dlq"}

ASSUME QueueAssumption ==
  /\ KeyOf \in [Msgs -> Keys]
  /\ None \notin Msgs
  /\ NoTenant \subseteq Msgs /\ NoHandler \subseteq Msgs
  /\ MaxAttempts \in Nat \ {0} /\ BatchSize \in Nat \ {0}
  /\ VtCoversBatch \in BOOLEAN /\ FailingRpcs \subseteq Rpcs
  /\ MaxFaults \in Nat /\ MaxLeft \in Nat

VARIABLES
  qstate,     \* "unsent", "queued" or "archived"
  readCt,     \* pgmq read_ct
  visible,    \* TRUE when the VT of the message is in the past
  backoff,    \* the delay last set by retryWithBackoff, 0 if none
  left,       \* how often a handler left the message to its VT
  processed,  \* keys in data.processed_messages
  dlq,        \* rows of the message in data.dlq_messages
  pc,         \* where each worker is in runBatch / processMessage
  batch,      \* messages of its batch the worker has not started
  cur,        \* the message it is processing
  ct,         \* read_ct of its messages as returned by the read
  done,       \* history: successful handler runs per key
  faults      \* history: faults so far

queueVars  == <<qstate, readCt, visible, backoff, left>>
tableVars  == <<processed, dlq>>
workerVars == <<pc, batch, cur, ct>>
vars == <<queueVars, tableVars, workerVars, done, faults>>

Stages == {"idle", "next", "dedup", "handler", "record", "archive", "retry", "dlq"}

TypeOK ==
  /\ qstate \in [Msgs -> {"unsent", "queued", "archived"}]
  /\ readCt \in [Msgs -> Nat]
  /\ visible \in [Msgs -> BOOLEAN]
  /\ backoff \in [Msgs -> Int]
  /\ left \in [Msgs -> Nat]
  /\ processed \subseteq Keys
  /\ dlq \in [Msgs -> Nat]
  /\ pc \in [Workers -> Stages]
  /\ batch \in [Workers -> SUBSET Msgs]
  /\ cur \in [Workers -> Msgs \union {None}]
  /\ ct \in [Workers -> [Msgs -> Nat]]
  /\ done \in [Keys -> Nat]
  /\ faults \in Nat

Init ==
  /\ qstate = [m \in Msgs |-> "unsent"]
  /\ readCt = [m \in Msgs |-> 0]
  /\ visible = [m \in Msgs |-> FALSE]
  /\ backoff = [m \in Msgs |-> 0]
  /\ left = [m \in Msgs |-> 0]
  /\ processed = {}
  /\ dlq = [m \in Msgs |-> 0]
  /\ pc = [w \in Workers |-> "idle"]
  /\ batch = [w \in Workers |-> {}]
  /\ cur = [w \in Workers |-> None]
  /\ ct = [w \in Workers |-> [m \in Msgs |-> 0]]
  /\ done = [k \in Keys |-> 0]
  /\ faults = 0

-----------------------------------------------------------------------------
(* Helpers *)

Waiting == {m \in Msgs : qstate[m] = "queued" /\ visible[m]}

\* The messages worker w has read and not finished with.
Held(w) == batch[w] \union ({cur[w]} \ {None})

Fault == faults < MaxFaults /\ faults' = faults + 1

RpcOk == UNCHANGED faults
RpcFails(rpc) == rpc \in FailingRpcs /\ Fault

\* min(60 * 2^attempt, 3600) seconds.
Backoff(attempt) == IF 60 * 2^attempt > 3600 THEN 3600 ELSE 60 * 2^attempt

\* Worker w, at stage s, goes on to stage t with the same message.
GoTo(w, s, t) ==
  /\ pc[w] = s
  /\ pc' = [pc EXCEPT ![w] = t]
  /\ UNCHANGED <<batch, cur, ct>>

\* Worker w, at stage s, is through with its message.
Finish(w, s) ==
  /\ pc[w] = s
  /\ pc' = [pc EXCEPT ![w] = "next"]
  /\ cur' = [cur EXCEPT ![w] = None]
  /\ ct' = [ct EXCEPT ![w][cur[w]] = 0]
  /\ UNCHANGED batch

-----------------------------------------------------------------------------
(* The producer and the queue *)

\* A transactional RPC sends m; it is visible at once.
Send(m) ==
  /\ qstate[m] = "unsent"
  /\ qstate' = [qstate EXCEPT ![m] = "queued"]
  /\ visible' = [visible EXCEPT ![m] = TRUE]
  /\ UNCHANGED <<readCt, backoff, left, tableVars, workerVars, done, faults>>

\* The VT of m runs out.  If a worker is still holding m this is a fault,
\* which VtCoversBatch excludes.
VtRunsOut(m) ==
  /\ qstate[m] = "queued" /\ ~visible[m]
  /\ visible' = [visible EXCEPT ![m] = TRUE]
  /\ UNCHANGED <<qstate, readCt, backoff, left, tableVars, workerVars, done>>

Expire(m) == (\A w \in Workers : m \notin Held(w)) /\ VtRunsOut(m) /\ UNCHANGED faults

ExpireEarly(m) ==
  ~VtCoversBatch /\ (\E w \in Workers : m \in Held(w)) /\ VtRunsOut(m) /\ Fault

-----------------------------------------------------------------------------
(* The worker *)

\* Mutant of ReadBatch: the read does not set a VT.
ReadBatchKeepsVisible(w) ==
  /\ pc[w] = "idle" /\ Waiting # {} /\ Cardinality(Waiting) <= BatchSize
  /\ readCt' = [m \in Msgs |-> IF m \in Waiting THEN readCt[m] + 1 ELSE readCt[m]]
  /\ batch' = [batch EXCEPT ![w] = Waiting]
  /\ ct' = [ct EXCEPT ![w] = [m \in Msgs |-> IF m \in Waiting THEN readCt[m] + 1 ELSE 0]]
  /\ pc' = [pc EXCEPT ![w] = "next"]
  /\ UNCHANGED <<qstate, visible, backoff, left, tableVars, cur, done, faults>>

\* Mutant of ReadBatch: passes over messages already read maxAttempts times.
ReadBatchSkipsExhausted(w) ==
  LET fresh == {m \in Waiting : readCt[m] < MaxAttempts}
      S == CHOOSE s \in SUBSET fresh :
             Cardinality(s) <= BatchSize /\ (s = fresh \/ Cardinality(s) = BatchSize)
  IN /\ pc[w] = "idle" /\ fresh # {}
     /\ readCt' = [m \in Msgs |-> IF m \in S THEN readCt[m] + 1 ELSE readCt[m]]
     /\ visible' = [m \in Msgs |-> visible[m] /\ m \notin S]
     /\ batch' = [batch EXCEPT ![w] = S]
     /\ ct' = [ct EXCEPT ![w] = [m \in Msgs |-> IF m \in S THEN readCt[m] + 1 ELSE 0]]
     /\ pc' = [pc EXCEPT ![w] = "next"]
     /\ UNCHANGED <<qstate, backoff, left, tableVars, cur, done, faults>>

\* read_queue_batch: up to BatchSize visible messages become invisible and
\* their read_ct grows.  pgmq skips locked rows and preprocessBatch may
\* reorder, so which messages make the batch is left open.
ReadBatch(w) ==
  /\ pc[w] = "idle"
  /\ \E S \in SUBSET Waiting :
       /\ S # {} /\ Cardinality(S) <= BatchSize
       /\ S = Waiting \/ Cardinality(S) = BatchSize
       /\ readCt' = [m \in Msgs |-> IF m \in S THEN readCt[m] + 1 ELSE readCt[m]]
       /\ visible' = [m \in Msgs |-> visible[m] /\ m \notin S]
       /\ batch' = [batch EXCEPT ![w] = S]
       /\ ct' = [ct EXCEPT ![w] = [m \in Msgs |-> IF m \in S THEN readCt[m] + 1 ELSE 0]]
  /\ pc' = [pc EXCEPT ![w] = "next"]
  /\ UNCHANGED <<qstate, backoff, left, tableVars, cur, done, faults>>

\* The loop of runBatch starts the next message: no tenant, no processing.
TakeNext(w) ==
  /\ pc[w] = "next"
  /\ \E m \in batch[w] :
       /\ cur' = [cur EXCEPT ![w] = m]
       /\ batch' = [batch EXCEPT ![w] = @ \ {m}]
       /\ pc' = [pc EXCEPT ![w] = IF m \in NoTenant THEN "dlq" ELSE "dedup"]
  /\ UNCHANGED <<queueVars, tableVars, ct, done, faults>>

EndBatch(w) ==
  /\ batch[w] = {}
  /\ GoTo(w, "next", "idle")
  /\ UNCHANGED <<queueVars, tableVars, done, faults>>

\* Mutant of Dedup: the answer of check_dedup is not used.
DedupIgnoresTable(w) ==
  /\ GoTo(w, "dedup", IF cur[w] \in NoHandler THEN "dlq" ELSE "handler")
  /\ UNCHANGED <<queueVars, tableVars, done, faults>>

\* dedupCheck: a known key goes straight to archive; an error counts as "not
\* a duplicate".  Then the handler of the task is looked up.
Dedup(w) ==
  LET m == cur[w]
      handlerStage == IF m \in NoHandler THEN "dlq" ELSE "handler"
  IN /\ pc[w] = "dedup"
     /\ \/ KeyOf[m] \in processed /\ RpcOk /\ GoTo(w, "dedup", "archive")
        \/ KeyOf[m] \notin processed /\ RpcOk /\ GoTo(w, "dedup", handlerStage)
        \/ RpcFails("check_dedup") /\ GoTo(w, "dedup", handlerStage)
     /\ UNCHANGED <<queueVars, tableVars, done>>

\* The handler returns success.
HandlerSucceeds(w) ==
  /\ GoTo(w, "handler", "record")
  /\ done' = [done EXCEPT ![KeyOf[cur[w]]] = @ + 1]
  /\ UNCHANGED <<queueVars, tableVars, faults>>

\* Mutant of HandlerFails: an exhausted message is archived and nothing else.
HandlerFailsForgetsDlq(w) ==
  /\ GoTo(w, "handler", IF ct[w][cur[w]] >= MaxAttempts THEN "archive" ELSE "retry")
  /\ UNCHANGED <<queueVars, tableVars, done, faults>>

\* Mutant of HandlerFails: gives up one attempt early.
HandlerFailsTooSoon(w) ==
  /\ GoTo(w, "handler", IF ct[w][cur[w]] + 1 >= MaxAttempts THEN "dlq" ELSE "retry")
  /\ UNCHANGED <<queueVars, tableVars, done, faults>>

\* The handler throws or returns failure: back off, or give up.
HandlerFails(w) ==
  /\ GoTo(w, "handler", IF ct[w][cur[w]] >= MaxAttempts THEN "dlq" ELSE "retry")
  /\ UNCHANGED <<queueVars, tableVars, done, faults>>

\* The handler returns selfManaged: the message is left to its VT.
HandlerLeaves(w) ==
  /\ Finish(w, "handler")
  /\ left[cur[w]] < MaxLeft
  /\ left' = [left EXCEPT ![cur[w]] = @ + 1]
  /\ UNCHANGED <<qstate, readCt, visible, backoff, tableVars, done, faults>>

\* recordProcessed: an error is only logged.
Record(w) ==
  /\ GoTo(w, "record", "archive")
  /\ \/ RpcOk /\ processed' = processed \union {KeyOf[cur[w]]}
     \/ RpcFails("record_processed") /\ UNCHANGED processed
  /\ UNCHANGED <<queueVars, dlq, done>>

\* archiveMessage: an error is only logged and leaves the message queued.
Archive(w) ==
  /\ Finish(w, "archive")
  /\ \/ RpcOk /\ qstate' = [qstate EXCEPT ![cur[w]] = "archived"]
     \/ RpcFails("archive_queue_message") /\ UNCHANGED qstate
  /\ UNCHANGED <<readCt, visible, backoff, left, tableVars, done>>

\* retryWithBackoff: a new VT, of a length given by the read_ct this worker
\* saw; nothing happens if another worker archived the message meanwhile.
Retry(w) ==
  LET m == cur[w] IN
  /\ Finish(w, "retry")
  /\ \/ /\ RpcOk /\ qstate[m] = "queued"
        /\ visible' = [visible EXCEPT ![m] = FALSE]
        /\ backoff' = [backoff EXCEPT ![m] = Backoff(ct[w][m])]
     \/ RpcOk /\ qstate[m] = "archived" /\ UNCHANGED <<visible, backoff>>
     \/ RpcFails("set_queue_message_vt") /\ UNCHANGED <<visible, backoff>>
  /\ UNCHANGED <<qstate, readCt, left, tableVars, done>>

\* moveToDlq: one more row; an error is only logged and the caller archives
\* the message all the same.
MoveToDlq(w) ==
  /\ GoTo(w, "dlq", "archive")
  /\ \/ RpcOk /\ dlq' = [dlq EXCEPT ![cur[w]] = @ + 1]
     \/ RpcFails("move_to_dlq") /\ UNCHANGED dlq
  /\ UNCHANGED <<queueVars, processed, done>>

\* The invocation dies: what it had read comes back when the VT runs out.
Crash(w) ==
  /\ pc[w] # "idle" /\ Fault
  /\ pc' = [pc EXCEPT ![w] = "idle"]
  /\ batch' = [batch EXCEPT ![w] = {}]
  /\ cur' = [cur EXCEPT ![w] = None]
  /\ ct' = [ct EXCEPT ![w] = [m \in Msgs |-> 0]]
  /\ UNCHANGED <<queueVars, tableVars, done>>

Step(w) ==
  \/ ReadBatch(w) \/ TakeNext(w) \/ EndBatch(w) \/ Dedup(w)
  \/ HandlerSucceeds(w) \/ HandlerFails(w) \/ HandlerLeaves(w)
  \/ Record(w) \/ Archive(w) \/ Retry(w) \/ MoveToDlq(w)

Next ==
  \/ \E m \in Msgs : Send(m) \/ Expire(m) \/ ExpireEarly(m)
  \/ \E w \in Workers : Step(w) \/ Crash(w)

\* pg_cron invokes the workers every minute, a running invocation goes on,
\* and clocks advance; nobody has to send or crash.
Fairness ==
  /\ \A w \in Workers : WF_vars(Step(w))
  /\ \A m \in Msgs : WF_vars(Expire(m))

Spec == Init /\ [][Next]_vars /\ Fairness

-----------------------------------------------------------------------------
(* Properties *)

\* A message leaves the queue only if its work was done under its key or it
\* lies in the dead-letter table (queue-runtime.ts: every archiveMessage is
\* preceded by a success, a recorded key or a moveToDlq).
NoSilentLoss ==
  \A m \in Msgs : qstate[m] = "archived" => done[KeyOf[m]] > 0 \/ dlq[m] > 0

\* A well-formed message is dead-lettered only after it was read maxAttempts
\* times, whatever stale read_ct the worker that buries it still holds.
DeadLettersAreExhausted ==
  \A m \in Msgs \ (NoTenant \union NoHandler) : dlq[m] > 0 => readCt[m] >= MaxAttempts

\* With a key per message, each verdict on a message beyond the first (one
\* more successful run of the handler, one more dead-letter row with its
\* critical notification) costs a fault of its own: the dedup table, the VT
\* and the order record-then-archive leave no other way to repeat work.
RepeatsNeedFaults ==
  \A m \in Msgs : done[KeyOf[m]] + dlq[m] <= 1 + faults

\* While batches finish within their VT and the dedup table can be read, a
\* message recorded as processed is never dead-lettered afterwards.  (The
\* other order is possible: a dead-lettered message whose archive is lost is
\* read again and may then succeed.)
ProcessedIsNotBuried ==
  [][\A m \in Msgs : KeyOf[m] \in processed => dlq'[m] = dlq[m]]_vars

\* Every message sent is archived in the end: read again after each crash,
\* lost archive or early VT, and dead-lettered when its handler keeps failing.
EverySentMessageLeaves ==
  \A m \in Msgs : (qstate[m] = "queued") ~> (qstate[m] = "archived")

\* The runtime implements the ledger of TaskLedger.  Work after the message
\* was settled is possible only when a VT can run out under its worker.
Ledger == INSTANCE TaskLedger WITH
  Tasks    <- Msgs,
  LateWork <- ~VtCoversBatch,
  accepted <- {m \in Msgs : qstate[m] # "unsent"},
  done     <- {k \in Keys : done[k] > 0},
  dead     <- {m \in Msgs : dlq[m] > 0},
  settled  <- {m \in Msgs : qstate[m] = "archived"}

LedgerSpec == Ledger!Spec

=============================================================================
