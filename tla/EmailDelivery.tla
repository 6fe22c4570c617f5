---------------------------- MODULE EmailDelivery ----------------------------
(***************************************************************************)
(* One e-mail from enqueue_email to the provider's last word.  Its row in  *)
(* data.email_logs is written by the handler of email_send_queue           *)
(* (process-email-queue), by the provider's webhooks (resend-webhook) and  *)
(* by the back office's syncResendStatus; a trigger refuses the illegal    *)
(* changes of status.  Its message is read by the queue runtime, seen here *)
(* for this one message (QueueRuntime has the runtime itself).             *)
(*                                                                         *)
(* Every write is a call: it may be refused, fail, or be done and its      *)
(* answer lost, and a worker may die before any of them.                   *)
(***************************************************************************)
EXTENDS Integers

CONSTANTS
  Workers,     \* invocations that may read the message
  MaxRetries,  \* email_logs.max_retries
  MaxAttempts, \* QueueRunnerConfig.maxAttempts
  Outcomes,    \* of "delivered", "bounced", "suppressed": what a sent e-mail may meet
  MaxLimited,  \* bound: read_ct up to which the rate limiter may say no
  MaxAccepted, \* bound: copies the provider accepts
  MaxFaults    \* bound: failed calls, lost answers, deaths, early VTs

ASSUME EmailAssumption ==
  /\ MaxRetries \in Nat /\ MaxAttempts \in Nat \ {0}
  /\ Outcomes \subseteq {"delivered", "bounced", "suppressed"}
  /\ MaxLimited \in Nat /\ MaxAccepted \in Nat \ {0} /\ MaxFaults \in Nat

VARIABLES
  log,      \* the row: status, attempt_count, is_dead_letter, provider_message_id
  message,  \* "visible", "hidden" or "archived"
  readCt,   \* its read_ct
  known,    \* its key is in data.processed_messages
  buried,   \* it is in data.dlq_messages
  pc,       \* where a worker is in the handler and the runtime around it
  ct,       \* the read_ct the worker was given
  seen,     \* currentAttempts
  got,      \* the provider id of its send
  accepted, \* copies the provider has accepted; the last one is under the key
  expired,  \* of these, those whose Idempotency-Key it has forgotten
  fate,     \* the last event of each copy
  hooks,    \* webhooks the provider has to deliver
  sync,     \* the status syncResendStatus is about to write
  lost,     \* history: the statuses met by events answered 200 that changed nothing
  faults

queueVars    == <<message, readCt, known, buried>>
workerVars   == <<pc, ct, seen, got>>
providerVars == <<accepted, expired, fate, hooks>>
vars == <<log, queueVars, workerVars, providerVars, sync, lost, faults>>

Statuses == {"queued", "processing", "sent", "failed", "delivered", "bounced", "complained",
             "suppressed"}
Final == {"delivered", "bounced", "complained", "suppressed"}
Fates == {"none", "accepted", "delayed"} \union Final
Stages == {"idle", "dedup", "fetch", "mark", "send", "store", "sent", "fail", "requeue", "thrown",
           "dlq", "record", "archive"}
Copies == 1..MaxAccepted

\* The attempts an e-mail gets: markFailed counts one before it asks for more, also
\* when max_retries is 0.
Tries == IF MaxRetries = 0 THEN 1 ELSE MaxRetries

TypeOK ==
  /\ log \in [status : Statuses, attempts : 0..Tries, dead : BOOLEAN, pid : 0..MaxAccepted]
  /\ message \in {"visible", "hidden", "archived"} /\ readCt \in Nat
  /\ known \in BOOLEAN /\ buried \in BOOLEAN
  /\ pc \in [Workers -> Stages] /\ ct \in [Workers -> Nat]
  /\ seen \in [Workers -> 0..Tries] /\ got \in [Workers -> 0..MaxAccepted]
  /\ accepted \in 0..MaxAccepted /\ expired \in 0..accepted
  /\ fate \in [Copies -> Fates] /\ hooks \subseteq Copies \X Fates
  /\ sync \in Statuses \union {"none"}
  /\ lost \subseteq Statuses /\ faults \in Nat

\* enqueue_email has committed: the row, and the message in the queue.
Init ==
  /\ log = [status |-> "queued", attempts |-> 0, dead |-> FALSE, pid |-> 0]
  /\ message = "visible" /\ readCt = 0 /\ known = FALSE /\ buried = FALSE
  /\ pc = [w \in Workers |-> "idle"] /\ ct = [w \in Workers |-> 0]
  /\ seen = [w \in Workers |-> 0] /\ got = [w \in Workers |-> 0]
  /\ accepted = 0 /\ expired = 0
  /\ fate = [i \in Copies |-> "none"] /\ hooks = {}
  /\ sync = "none" /\ lost = {} /\ faults = 0

-----------------------------------------------------------------------------
(* Helpers *)

Fault == faults < MaxFaults /\ faults' = faults + 1

\* enforce_email_status_transition: the row may take status s.
Allows(s) ==
  \/ s = log.status
  \/ log.status = "queued" /\ s = "processing"
  \/ log.status = "processing" /\ s \in {"sent", "failed"}
  \/ log.status = "sent" /\ s \in Final
  \/ log.status = "failed" /\ s = "queued" /\ ~log.dead /\ log.attempts < MaxRetries
  \/ log.status = "delivered" /\ s = "complained"

GoTo(w, stage) == pc' = [pc EXCEPT ![w] = stage] /\ UNCHANGED <<ct, seen, got>>

\* Worker w is through with the message.
Leave(w) ==
  /\ pc' = [pc EXCEPT ![w] = "idle"] /\ ct' = [ct EXCEPT ![w] = 0]
  /\ seen' = [seen EXCEPT ![w] = 0] /\ got' = [got EXCEPT ![w] = 0]

\* Worker w updates the row and goes on to ok, or to err if the call returns an error.
Update(w, legal, row, ok, err) ==
  /\ \/ legal /\ log' = row /\ GoTo(w, ok) /\ UNCHANGED faults
     \/ ~legal /\ UNCHANGED <<log, faults>> /\ GoTo(w, err)
     \/ Fault /\ UNCHANGED log /\ GoTo(w, err)
     \/ Fault /\ legal /\ log' = row /\ GoTo(w, err)
  /\ UNCHANGED <<queueVars, providerVars, sync, lost>>

-----------------------------------------------------------------------------
(* The queue: the parts of QueueRunner one message meets *)

\* Mutant of Read: passes over a message read maxAttempts times.
ReadFresh(w) ==
  /\ pc[w] = "idle" /\ message = "visible" /\ readCt < MaxAttempts
  /\ message' = "hidden" /\ readCt' = readCt + 1
  /\ pc' = [pc EXCEPT ![w] = "dedup"] /\ ct' = [ct EXCEPT ![w] = readCt + 1]
  /\ UNCHANGED <<log, known, buried, seen, got, providerVars, sync, lost, faults>>

Read(w) ==
  /\ pc[w] = "idle" /\ message = "visible"
  /\ message' = "hidden" /\ readCt' = readCt + 1
  /\ pc' = [pc EXCEPT ![w] = "dedup"] /\ ct' = [ct EXCEPT ![w] = readCt + 1]
  /\ UNCHANGED <<log, known, buried, seen, got, providerVars, sync, lost, faults>>

\* The VT runs out: early when a worker still has the message.
Expire ==
  /\ message = "hidden" /\ message' = "visible"
  /\ IF \A w \in Workers : pc[w] = "idle" THEN UNCHANGED faults ELSE Fault
  /\ UNCHANGED <<log, readCt, known, buried, workerVars, providerVars, sync, lost>>

Dedup(w) ==
  /\ pc[w] = "dedup"
  /\ \/ GoTo(w, IF known THEN "archive" ELSE "fetch") /\ UNCHANGED faults
     \/ known /\ Fault /\ GoTo(w, "fetch")
  /\ UNCHANGED <<log, queueVars, providerVars, sync, lost>>

\* What the handler throws: back off, or bury the message after maxAttempts reads.
Thrown(w) ==
  /\ pc[w] = "thrown"
  /\ IF ct[w] >= MaxAttempts THEN GoTo(w, "dlq") ELSE Leave(w)
  /\ UNCHANGED <<log, queueVars, providerVars, sync, lost, faults>>

MoveToDlq(w) ==
  /\ pc[w] = "dlq" /\ GoTo(w, "archive")
  /\ \/ buried' = TRUE /\ UNCHANGED faults
     \/ UNCHANGED buried /\ Fault
  /\ UNCHANGED <<log, message, readCt, known, providerVars, sync, lost>>

Record(w) ==
  /\ pc[w] = "record" /\ GoTo(w, "archive")
  /\ \/ known' = TRUE /\ UNCHANGED faults
     \/ UNCHANGED known /\ Fault
  /\ UNCHANGED <<log, message, readCt, buried, providerVars, sync, lost>>

Archive(w) ==
  /\ pc[w] = "archive" /\ Leave(w)
  /\ \/ message' = "archived" /\ UNCHANGED faults
     \/ UNCHANGED message /\ Fault
  /\ UNCHANGED <<log, readCt, known, buried, providerVars, sync, lost>>

Die(w) ==
  /\ pc[w] # "idle" /\ Fault /\ Leave(w)
  /\ UNCHANGED <<log, queueVars, providerVars, sync, lost>>

-----------------------------------------------------------------------------
(* The handler *)

\* The rate limiter leaves the message to its VT, or the row is read.  A row that
\* is not queued, or cannot be read, counts as done.
Fetch(w) ==
  /\ pc[w] = "fetch"
  /\ \/ ct[w] <= MaxLimited /\ Leave(w) /\ UNCHANGED faults
     \/ /\ log.status = "queued"
        /\ pc' = [pc EXCEPT ![w] = "mark"]
        /\ seen' = [seen EXCEPT ![w] = log.attempts]
        /\ UNCHANGED <<ct, got, faults>>
     \/ log.status # "queued" /\ GoTo(w, "record") /\ UNCHANGED faults
     \/ Fault /\ GoTo(w, "record")
  /\ UNCHANGED <<log, queueVars, providerVars, sync, lost>>

\* markProcessing, outside the try: an error is thrown to the runtime.
MarkProcessing(w) ==
  /\ pc[w] = "mark"
  /\ Update(w, Allows("processing"), [log EXCEPT !.status = "processing"], "send", "thrown")

\* The provider accepts the e-mail: as one it has, while it remembers the key.
Accept(i) ==
  /\ i = expired + 1
  /\ accepted' = i
  /\ fate' = IF accepted = i THEN fate ELSE [fate EXCEPT ![i] = "accepted"]
  /\ UNCHANGED <<expired, hooks>>

\* Mutant of Send: an error of the provider is taken for an answer.
SendIgnoresErrors(w) ==
  /\ pc[w] = "send"
  /\ \/ \E i \in Copies : /\ Accept(i) /\ UNCHANGED <<ct, seen, faults>>
                          /\ pc' = [pc EXCEPT ![w] = "store"] /\ got' = [got EXCEPT ![w] = i]
     \/ GoTo(w, "store") /\ UNCHANGED <<providerVars, faults>>
  /\ UNCHANGED <<log, queueVars, sync, lost>>

\* Mutant of Send: a template that cannot be parsed counts as one attempt too many.
SendOvercounts(w) ==
  /\ pc[w] = "send"
  /\ \/ \E i \in Copies : /\ Accept(i) /\ UNCHANGED <<ct, seen, faults>>
                          /\ pc' = [pc EXCEPT ![w] = "store"] /\ got' = [got EXCEPT ![w] = i]
     \/ \E i \in Copies : Accept(i) /\ Fault /\ GoTo(w, "fail")
     \/ GoTo(w, "fail") /\ UNCHANGED <<providerVars, faults>>
     \/ /\ pc' = [pc EXCEPT ![w] = "fail"]
        /\ seen' = [seen EXCEPT ![w] = Tries]
        /\ UNCHANGED <<ct, got, providerVars, faults>>
  /\ UNCHANGED <<log, queueVars, sync, lost>>

\* Rendering and sending.  A template that cannot be parsed uses up the attempts.
Send(w) ==
  /\ pc[w] = "send"
  /\ \/ \E i \in Copies : /\ Accept(i) /\ UNCHANGED <<ct, seen, faults>>
                          /\ pc' = [pc EXCEPT ![w] = "store"] /\ got' = [got EXCEPT ![w] = i]
     \/ \E i \in Copies : Accept(i) /\ Fault /\ GoTo(w, "fail")
     \/ GoTo(w, "fail") /\ UNCHANGED <<providerVars, faults>>
     \/ /\ pc' = [pc EXCEPT ![w] = "fail"]
        /\ seen' = [seen EXCEPT ![w] = IF @ < MaxRetries - 1 THEN MaxRetries - 1 ELSE @]
        /\ UNCHANGED <<ct, got, providerVars, faults>>
  /\ UNCHANGED <<log, queueVars, sync, lost>>

\* markSent, first the provider's id, then the status by that id.
StoreId(w) ==
  /\ pc[w] = "store"
  /\ Update(w, TRUE, [log EXCEPT !.pid = got[w]], "sent", "fail")

MarkSent(w) ==
  /\ pc[w] = "sent"
  /\ Update(w, log.pid = got[w] /\ Allows("sent"), [log EXCEPT !.status = "sent"], "record", "fail")

\* markFailed, in the catch, again outside any try.
MarkFailed(w) ==
  /\ pc[w] = "fail"
  /\ Update(w, Allows("failed"), [log EXCEPT !.status = "failed", !.attempts = seen[w] + 1],
            "requeue", "thrown")

\* Mutant of Requeue: one attempt more than the trigger allows.
RequeueLate(w) ==
  /\ pc[w] = "requeue"
  /\ IF seen[w] + 1 <= MaxRetries
     THEN /\ Leave(w)
          /\ \/ Allows("queued") /\ log' = [log EXCEPT !.status = "queued"] /\ UNCHANGED faults
             \/ ~Allows("queued") /\ UNCHANGED <<log, faults>>
             \/ Fault /\ UNCHANGED log
     ELSE /\ GoTo(w, "record")
          /\ \/ log' = [log EXCEPT !.dead = TRUE] /\ UNCHANGED faults
             \/ Fault /\ UNCHANGED log
  /\ UNCHANGED <<queueVars, providerVars, sync, lost>>

\* The second half of markFailed: queued again, or a dead letter.  Errors of these
\* two calls are only logged; then the message is left to its VT, or done.
Requeue(w) ==
  /\ pc[w] = "requeue"
  /\ IF seen[w] + 1 < MaxRetries
     THEN /\ Leave(w)
          /\ \/ Allows("queued") /\ log' = [log EXCEPT !.status = "queued"] /\ UNCHANGED faults
             \/ ~Allows("queued") /\ UNCHANGED <<log, faults>>
             \/ Fault /\ UNCHANGED log
     ELSE /\ GoTo(w, "record")
          /\ \/ log' = [log EXCEPT !.dead = TRUE] /\ UNCHANGED faults
             \/ Fault /\ UNCHANGED log
  /\ UNCHANGED <<queueVars, providerVars, sync, lost>>

-----------------------------------------------------------------------------
(* The provider and the back office *)

\* The status an event stands for (EVENT_TO_STATUS, mapResendEventToStatus).
StatusOf(event) == IF event = "delayed" THEN "processing" ELSE event

\* Something happens to copy i, and a webhook will say so.
Happens(i) ==
  /\ \E event \in Fates :
       /\ \/ fate[i] \in {"accepted", "delayed"} /\ event \in Outcomes
          \/ fate[i] = "accepted" /\ event = "delayed"
          \/ fate[i] = "delivered" /\ event = "complained"
       /\ fate' = [fate EXCEPT ![i] = event]
       /\ hooks' = hooks \union {<<i, event>>}
  /\ UNCHANGED <<log, queueVars, workerVars, accepted, expired, sync, lost, faults>>

\* The provider forgets the key after a day: only a message that waits is that old.
ForgetKey ==
  /\ \A w \in Workers : pc[w] = "idle"
  /\ expired < accepted /\ expired' = accepted
  /\ UNCHANGED <<log, queueVars, workerVars, accepted, fate, hooks, sync, lost, faults>>

\* Mutant of Webhook: an id that is not known yet is acknowledged too.
WebhookForgets(i, event) ==
  LET h == <<i, event>> IN
  /\ h \in hooks /\ hooks' = hooks \ {h}
  /\ IF log.pid = i /\ Allows(StatusOf(event))
     THEN log' = [log EXCEPT !.status = StatusOf(event)]
     ELSE UNCHANGED log
  /\ UNCHANGED <<queueVars, workerVars, accepted, expired, fate, sync, lost, faults>>

\* resend-webhook.  An unknown id is answered 404 and the webhook comes again: no
\* step.  Any other error is answered 200, and the event is not sent again.
Webhook(i, event) ==
  LET h == <<i, event>> IN
  /\ h \in hooks /\ log.pid = i
  /\ \/ /\ Allows(StatusOf(event)) /\ log' = [log EXCEPT !.status = StatusOf(event)]
        /\ \/ hooks' = hooks \ {h} /\ UNCHANGED faults
           \/ Fault /\ UNCHANGED hooks
        /\ UNCHANGED lost
     \/ /\ \/ ~Allows(StatusOf(event)) /\ UNCHANGED faults
           \/ Fault
        /\ hooks' = hooks \ {h} /\ lost' = lost \union {log.status}
        /\ UNCHANGED log
  /\ UNCHANGED <<queueVars, workerVars, accepted, expired, fate, sync>>

\* syncResendStatus reads the row and asks the provider ...
SyncRead ==
  /\ sync = "none" /\ log.pid # 0
  /\ sync' = IF log.status \in Final \union {"failed"} \/ fate[log.pid] = "accepted"
             THEN log.status ELSE StatusOf(fate[log.pid])
  /\ UNCHANGED <<log, queueVars, workerVars, providerVars, lost, faults>>

\* ... and writes what it concluded, whatever the row has become.
SyncWrite ==
  /\ sync # "none" /\ sync' = "none"
  /\ log' = IF Allows(sync) THEN [log EXCEPT !.status = sync] ELSE log
  /\ UNCHANGED <<queueVars, workerVars, providerVars, lost, faults>>

Step(w) ==
  \/ Read(w) \/ Dedup(w) \/ Thrown(w) \/ MoveToDlq(w) \/ Record(w) \/ Archive(w)
  \/ Fetch(w) \/ MarkProcessing(w) \/ Send(w) \/ StoreId(w) \/ MarkSent(w)
  \/ MarkFailed(w) \/ Requeue(w)

Next ==
  \/ Expire \/ ForgetKey \/ SyncRead \/ SyncWrite
  \/ \E w \in Workers : Step(w) \/ Die(w)
  \/ \E i \in Copies : Happens(i)
  \/ \E i \in Copies, event \in Fates : Webhook(i, event)

\* The worker is invoked on each insert and every two minutes and goes on until it
\* dies; time passes.  The provider owes nothing, nor does the back office.
Fairness == WF_vars(Expire) /\ \A w \in Workers : WF_vars(Step(w))

Spec == Init /\ [][Next]_vars /\ Fairness

-----------------------------------------------------------------------------
(* Properties *)

\* The row says of the e-mail only what is true of a copy: sent when the provider
\* has one, an outcome when a copy met it.  Without faults a dead letter has used up
\* its attempts and was never accepted.  A second copy needs a forgotten key and a
\* fault, however many attempts there were.
StatusIsEarned ==
  /\ log.status \in {"sent"} \union Final => accepted > 0
  /\ log.status \in Final => \E i \in Copies :
       fate[i] \in {log.status} \union (IF log.status = "delivered" THEN {"complained"} ELSE {})
  /\ log.dead => faults > 0 \/ (log.attempts = Tries /\ accepted = 0)
  /\ accepted > 1 => expired > 0 /\ faults > 0

\* An e-mail whose message is gone is sent, a dead letter, or in the dead-letter
\* table: what is left queued, processing or failed with nobody to look for it
\* has cost a failed call, a death or an early VT.
AbandonedNeedsFault ==
  message = "archived" /\ log.status \in {"queued", "processing", "failed"} =>
    log.dead \/ buried \/ faults > 0

\* Without faults, when every webhook is answered the row has the provider's last
\* word, unless an event came between the two calls of markSent: then it is lost.
EventsReach ==
  (/\ faults = 0 /\ hooks = {} /\ sync = "none" /\ accepted = 1
   /\ \A w \in Workers : pc[w] = "idle"
   /\ "processing" \notin lost) =>
  log.status = (IF fate[1] \in Final THEN fate[1] ELSE "sent")

\* The message leaves the queue, and without faults its e-mail was sent or is a
\* dead letter, however often it was limited or failed.
EmailSettles ==
  <>(message = "archived" /\ (faults = 0 => accepted > 0 \/ log.dead))
=============================================================================
