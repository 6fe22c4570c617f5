# PiMed: a verification project in TLA+

PiMed is a multi-tenant platform (React portals over Supabase: PostgreSQL with
PGMQ queues and pg_cron, Deno Edge Functions). Almost all of its logic that is
hard to test sits in three places: PostgreSQL RPCs that several users run at
once; background workers that read a queue, call several RPCs one after
another and may die between any two of them; and outboxes in the browser, which
keep what a worker did without a network and send it later, perhaps from two tabs
and perhaps twice. This directory models the parts of it where those behaviours
matter most, checks them with TLC on small instances and proves most of the safety
results with TLAPS for all instances.

Contents: [inventory](#1-inventory), [modules](#2-modules),
[correspondence with the code](#3-how-the-models-correspond-to-the-code),
[runs](#4-runs-bounds-and-what-they-show), [fairness](#5-fairness),
[proofs](#6-proofs), [disagreements](#7-where-code-and-documents-disagree),
[what is not modelled](#8-what-is-not-modelled),
[plan](#9-plan). Paths are relative to the repository; `functions/` stands for
`supabase/functions/` and a migration is named by its number.

## 1. Inventory

| Component | State it keeps | Operations | What makes it correct | Model |
|---|---|---|---|---|
| **Queue runtime** (`functions/_shared/queue-runtime.ts`, 20260503000002) | PGMQ messages (read_ct, visibility timeout), `processed_messages`, `dlq_messages` | read a batch, dedup, run the handler, record, archive, back off, dead-letter | no message is lost; repeats only for a fault; every message leaves the queue | `QueueRuntime`, `TaskLedger`; proved |
| **Automation engine** (`process-workflow-triggers`, `process-automation-queue`, 20260712000001/2, 20260726000001) | runs, step runs, approvals, `wait_until`, queue messages | launch, execute a step, wait, resume, approve, cancel, retry | steps run once, in turn and along the workflow's edges; runs move on | `AutomationEngine`, `WorkflowRun`; proved |
| **Shift openings** (20261040, 20261043, 20261096) | openings with places, claims, slots | create, publish, edit, cancel, expire, claim, withdraw, accept, reject | no overassignment, no double booking, a decision is final | `ShiftOpenings`; proved |
| **Field work logs** (`apps/tenant-portal/src`: `hooks/useFieldSync.ts`, `lib/field-ops-db.ts`, `useWorkLog.ts`; `sync_work_log_ops`) | IndexedDB outbox with a status per operation, the displayed log, `work_logs` | start and stop, online and offline; drain, mark, retry, discard | what is called synced took effect; what took effect is not called failed; a check-out stays | `FieldSync`; proved |
| **Attendance stations** (`apps/public-portal/lib/attendance-station`, `station-api`, 20261033) | IndexedDB outbox, the session's day state, `time_punches` | touch online and offline, drain, retry, quarantine, unpair | a confirmed punch is kept; order of the touches; a quarantined punch is really missing | `StationOutbox`; proved |
| **Email delivery** (`process-email-queue`, `resend-webhook`, 20260415000002) | `email_logs` (status, attempts, provider id), the queue message | mark processing, send, mark sent or failed, requeue, provider webhooks, manual sync | the row says what is true of the e-mail; one copy; nothing left lying | `EmailDelivery`; proved |
| **Shift swaps, give-aways, call-offs** (20261044, 20260521000004) | requests, slots | request, accept, approve, decline | a slot goes where its owner gives it; nobody is booked twice at a time; a decision is final | `ShiftSwaps`; proved |
| Planner and publications (20260521000002, 20261022, 20261041) | slots, publications | plan, preflight, publish | what is published passed the preflight | planned |
| Native signing (20260609000003, 20260615000005, three functions) | signing sessions, groups, tokens | open a group, sign, decline, expire, finalise | groups in order; a document is finalised once | planned |
| File storage (`request-upload`, `confirm-upload`, `process-deletion-queue`, 20260401000006) | files, reserved and committed bytes | reserve, confirm, expire, delete | the quota is respected and given back | planned |
| Period confirmation (20260918000001, 20260921000001, 20260924000001) | confirmations of a month | confirm, amend, close | nothing changes in a closed period | planned |
| Notifications, PDF jobs, other queue handlers | rows they write | one handler per task | that of the queue runtime | as handlers |
| Attendance, lifecycle, contracts, recruitment, checklists, customer portal, geocoding, AI, compliance, settings, portals, user interfaces | see `PROJECT.json` | single-row transitions, arithmetic, external services or presentation | | not modelled |

**Interactions.** A transactional RPC inserts a row and sends a message in one
transaction; pg_cron invokes each worker every minute, so invocations overlap;
a worker talks to the database by RPCs only, each a transaction of its own;
triggers on the document and signature tables call back into the automation
engine (`automation_resume_step_service`); an accepted opening claim writes a
published slot, an approved swap or give-away moves one, and an approved call-off cancels
one and may open a new opening. `AutomationEngine`, `EmailDelivery` and every other worker stand on the
queue runtime. The e-mail provider calls back over webhooks; the two outboxes meet the
server in one call each (`sync_work_log_ops`, `record_station_time_punch`).

**Hard behaviours.** Crashes between two RPCs; RPC errors that are logged and
passed over; a visibility timeout that covers a batch and not a message;
answers computed from a row read earlier (the step's status, the message's
read_ct, an opening, a swap or a slot read without a lock); callbacks that arrive before the step
that awaits them is marked as waiting, or before the provider's id is stored; row
locks taken in different orders; checks that see committed rows only; a lost
answer, after which the device cannot tell whether its call took effect; a tab
reloaded in the middle of a drain; a kiosk whose clock is wrong.
`PROJECT.json` lists each at its line, with the properties that watch it, or why
none does.

## 2. Modules

| Module | What it is |
|---|---|
| `QueueRuntime` | `QueueRunner.runBatch` and `processMessage` over PGMQ, for any set of messages and workers |
| `TaskLedger` | what the runtime promises its producers: at-least-once work or a dead letter |
| `AutomationEngine` | launch, step worker, resumption, approvals, cancel, retry |
| `WorkflowRun` | what the engine promises of a run: steps along the edges, each at most once, none after the end |
| `ShiftOpenings` | the RPCs on openings and claims as transactions with row locks |
| `ShiftSwaps` | requests about published slots: swaps, give-aways, call-offs, and the cancel of a slot |
| `FieldSync` | the work-log outbox of a device: several tabs, the drain, the server's batch |
| `StationOutbox` | the punch outbox of a kiosk: several tabs, the server's idempotent, monotonic record |
| `EmailDelivery` | one e-mail: handler, queue message, provider, webhooks, manual sync |
| `<component>Proofs`, one for each of the seven components | theorems and proofs |
| `AutomationCarrierProofs` | the engine's theorems about reruns, causes, waits and runs that are carried on, on top of `AutomationEngineProofs` |
| `MC<component>`, one for each of the seven | the instances TLC checks: keys, workflows, overlapping windows, clocks |

`QueueRuntime` implements `TaskLedger` and `AutomationEngine` implements
`WorkflowRun`, each by INSTANCE with a refinement mapping. `AutomationEngine`
does not carry a second copy of the queue runtime: it uses the queue in the
form the ledger gives it (a message is delivered until it is settled, a key once
recorded is not handled again). `EmailDelivery` does carry the steps of the
runtime, for its one message, because what it is about is how the
handler's calls and the runtime's meet: which error counts as done, as another
attempt, or as a dead letter.

Definitions whose comment starts with "Mutant of" are not part of a
specification. Each is a plausible bug (a dropped guard, a swapped order, a
forgotten write) put in the place of the definition it names, to see that a
property notices it.

## 3. How the models correspond to the code

### QueueRuntime

A worker is one invocation of an Edge Function; `pc` is its place in
`processMessage`, `batch` what `read_queue_batch` gave it and it has not
started, `cur` the message in hand, `ct` the read_ct it was given (stale as soon
as another worker reads the message again). `qstate`, `readCt` and `visible` are
the PGMQ row, `processed` and `dlq` the two tables. `done` counts successful
handler runs per key and `faults` counts crashes, RPC errors and early timeouts;
both are history.

| Action | Code |
|---|---|
| `Send` | the producer RPCs; visible at once |
| `ReadBatch` | `read_queue_batch`; pgmq skips locked rows and `preprocessBatch` may reorder, so which messages make the batch is open (that it may also hand surplus messages back is not modelled: it is a smaller batch) |
| `TakeNext`, `EndBatch` | the loop of `runBatch`; no tenant means dead letter |
| `Dedup` | `check_dedup`, whose error counts as "not seen"; then the handler lookup |
| `HandlerSucceeds`, `HandlerFails`, `HandlerLeaves` | the handler's result: success, failure or exception, `selfManaged` |
| `Record`, `Archive`, `Retry`, `MoveToDlq` | one RPC each; an error is logged and the runner goes on as if it had worked |
| `Expire`, `ExpireEarly` | the VT runs out, with nobody or somebody at the message |
| `Crash` | the invocation dies |

`Finish` is no RPC: it is the end of each branch of `processMessage`, which drops the message the
worker had in hand, whether that was archived, delayed or left. The handler and the recording are two
steps, as in the code, so a crash between them repeats the work. What a handler does is its own affair; only its verdict
and the count of its successes are kept.

### AutomationEngine

`launch` is the progress of `instantiateWorkflow` (three RPCs: run, step runs,
first message); `status`, `step` and `timer` are the columns of
`automation_runs` and `automation_step_runs`; `queue` counts the copies of a
message a worker may read; `pc`, `msg`, `result` are a worker in
`createStepHandler`. Its stages are the RPCs of the handler in their order:
context (`ReadContext`, with the PENDING test), `Start`, `Execute` (the step
handler), `Complete`, then `Schedule`, `CloseRun` or `EnqueueNext`, then what the
runner makes of the result (`Settle`, `Leave`, `Return`). Each of these RPCs may fail, and so may those of the
runner about them: `check_dedup` in `Read` (a recorded key is then handled again), `record_processed` and
`archive_queue_message` in `Settle` (a message left unrecorded, or recorded and delivered again; both
failing leaves what a `Crash` before it leaves).

The UPDATEs carry the conditions the SQL has and no more: `Start` touches PENDING
and FAILED steps only, while `Complete`, `Schedule`, `CloseRun` and `Resume` write
over whatever they find. `ResumeTimer` resumes one due step, where
`process_automation_wait_timers` loops over all of them in one transaction: the transaction is as many of these
steps in a row. An effect of a step handler whose answer is lost, so that the step fails although it took place, is not modelled:
`Execute` and its result are one. A workflow is data (`Kind`, `OnSuccess`, `OnFailure`,
`Branches`); a step handler returns any result its kind can return
(`Outcomes`), and throws for the steps in `BadConfig`. `JobEnds` is what the ends of a job share; `JobSucceeds`,
`JobDeclined` and `JobFails` are the PDF and signing triggers; a job that fails
reaches nobody, as in the code. `Decide` writes nothing, because the UPDATE of
`resolve_automation_approval` raises (section 7).

### ShiftOpenings

Every RPC is a transaction at READ COMMITTED. One that takes a single row lock
and commits is one step whose guard is that the lock is free. Four take several
and are split where another transaction can come in between:

- accept: claim lock (`StartAccept`), opening lock and validation
  (`LockOpening`), inserts and updates (`Commit`). `Refuse` is the exception of a
  claim that does not validate.
- cancel: opening lock (`StartCancel`), then the rows of the pending claims
  (`CommitCancel`).
- edit: a read without a lock (`StartEdit`), then an UPDATE by id (`WriteEdit`).
- a claim under `first_eligible`: validation under the opening lock (`ClaimFirst`),
  then the same `Commit`.

`call` holds the transaction of each session; what it writes becomes visible at
its commit. A refused call rolls everything back, including the status that
`refresh_shift_opening_status` may have written, so it leaves no trace and is not
an action. `DeadlockAbort` is PostgreSQL ending one of two transactions that wait
for each other. `raced` records, for the properties, which accepts for one
employee were undecided at the same time. Of the eligibility rules only the
overlap test reads state other transactions of this module write; the rest
(absence, qualification, availability, labour rules) show as calls not made or
refused.

### ShiftSwaps

`owner` and `live` are `employee_id` and the published status of the slots, `request` the rows of
`shift_swap_requests`, with `slot`, `by`, `to`, `back` for requester_slot, requester,
target_employee and target_slot. `call` is the transaction each session is in.

| Action | Code |
|---|---|
| `Request` | `request_shift_swap` and the portal's variant; one pending request per slot is a unique index as well |
| `StartAccept`, `WriteAccept` | `accept_shift_swap`: a read without a lock, then an UPDATE by id, which waits for a decision under way and meets the trigger `trg_validate_shift_swap_integrity` (`Consistent`) |
| `StartApprove`, `TakeSlot`, `Commit` | `approve_shift_swap` with `approved`, for a swap or give-away: the request's lock and the evaluation (`Eligible`); the first UPDATE of an exchange, which locks that slot; the last UPDATE, the status and the commit |
| `ApproveCallOff`, `Decline` | the same RPC where it holds its locks from before it looks |
| `CancelSlot` | `bulk_delete_shift_slots` |
| `Rollback` | any refusal after the start, a deadlock (two exchanges of the same slots, crosswise), a lost connection |

`won`, `stale` and `spared` are history, for the properties: the request that gave a slot to its owner;
the requests whose slots or new owners another decision touched between their
evaluation and their commit; the give-aways granted with a target slot.

### FieldSync

Operations are the numbers 1, 2, ... in the order of the presses; `target` says
which start a stop belongs to, `status` and `retries` are the columns of the
outbox, `shown`, `local` and `stopping` what the tab in front displays and is
about, `logs` and `closedBy` the rows of `work_logs` as committed. `pc`, `batch`, `spent` and `todo`
are a drain in `useFieldSync`, which is a chain of awaits; `ok` and `reading` the
transaction of its batch, `press` and `listed` a retry or discard, which is one too.

| Action | Code |
|---|---|
| `StartOffline`, `StopOffline` | the press without a network: one more row in the outbox, if fewer than `MAX_PENDING` wait |
| `StartOnline`, `ReadToStop`, `WriteStop` | `start_work_log`; `stop_work_log`, which reads the row without a lock and updates it by id |
| `PickBatch`, `MarkSyncing` | `nextPendingBatch` (pending rows only), then their status, under `navigator.locks` or a flag of the instance |
| `ServeRead`, `ServeWrite` | an operation in the loop of `sync_work_log_ops`: what it reads (committed rows and the batch's own, `SeenLogs`, `SeenOpen`), then its INSERT or UPDATE, which waits for rows others have written (`Awaits`); a refused one is undone alone |
| `Answer` | the transaction commits (`Commit`), and its results come, or are lost, or nobody is there |
| `Settle`, `SetBack`, `Quarantine`, `EndDrain` | `processSyncResults` and the two branches of the catch, a row at a time |
| `RequestFails` | nothing was done, or all is rolled back; which branch of the catch follows is open |
| `Press`, `ListMore`, `Requeue`, `Delete` | retry and discard: a list, then a write for each of its rows (or one for all of them) whatever their status is by then, then the second list |
| `Refresh`, `Connect`, `CloseVisit` | the refetched queries; the network; the office closes the visit |
| `Reload`, `Abandon` | a tab goes away at any await; its request is lost or rolled back, or goes on with nobody waiting |

Everything interleaves with everything: presses, presses of the other tab, batches, online
stops. `closers`, `unanswered`, `stranded`, `overtaken` and `raced` are history: stops that closed a log,
operations that took effect without an answer, operations a reload cut off, operations a
retry or discard rewrote when they were no longer failed, logs two stops had read as open
before either committed. Some pairs of awaits are one step because nothing can tell
them apart: `get` and `update` within `requeueForRetry` or `markRejected`; the retry and
the discard of one tab do not overlap (those of two tabs do). A
start waits for any other transaction of the worker that has written rows, where the index would have it wait for an
open one only, and the card's count of quarantined rows is fresh whenever somebody presses.

### StationOutbox

Punches are numbered in the order of the touches. `view` is the day state the
session displays, `list` that of the list of employees (stale after an offline
touch), `status` and `attempts` the outbox, `todo` and `seen` the snapshot of a
drain, `call` and `cur` the post a caller waits for, `recorded` and `at` the
punches in `time_punches`. Server time is even and the kiosk's odd, so that
times never tie. The server's call is two steps, `Check` (all it reads) and
`Commit` (the insert under the unique `client_op_id`), since nothing locks the
employee's day in between; `raced` notes that two calls were there at once.

What a page knows of its station is `page`, one for each tab, and `paired` the cookie with the credentials,
which all tabs share; `Front` is the tab the employees see.

| Action | Code |
|---|---|
| `TouchOnline`, `TouchOffline`, `KioskAnswered` | `handlePunch`: the post, the queue, and what its answer shows; after a success `refresh` runs |
| `Refresh` | `refresh` with its catch: everything is fetched; or a network failure (or an error that costs nothing) leaves a page that has its station as it is and shows any other the form for pairing; or credentials that are missing or refused, and `station_error`, clear the cookie and show the form |
| `Begin`, `Post`, `DrainAnswered` | `useStationSync.drain`, which returns at once on a page without a station (`Configured`) |
| `Reload`, `Unpair` | a tab is loaded again and bootstraps; the outbox and, if there is a network, the cookie are cleared |
| `HeartbeatFails` | an answer of another call (`station_error`) at which the proxy clears the cookie, while the pages go on |
| `Check`, `Commit` | the server: what it reads; the insert |

The proxy of the portal (`route.ts`) clears the cookie whenever the server answers that the credentials are no good, and
`station_error`, the name `station-api` gives every exception it does not know, is among these. So a call that fails may cost the
credentials: `Refuse`, `HeartbeatFails`, and `Commit` where another call has inserted the same punch since `Check`
(a unique violation). A call without the cookie is refused, which costs a queued punch one of its attempts.

`Refuse` stands for refusals whose reason is outside the module (lockdown, a
limit, a punch too old, an employee who left), `Lose` for a lost request or
answer. `DrainAnswered` asks its questions in the order of the code, success, network
failure, anything else: that is why `station_offline_disabled`
ends a drain (section 7). `DayState` is `compute_employee_punch_day_state`: `DayAfter` takes the punches
in the order of `occurred_at`, as a recursive function on the set of them (the last punch, after the day of
the others).

### EmailDelivery

`log` is the row, `message`, `readCt`, `known` and `buried` what the queue runtime keeps of
its message, `pc`, `ct`, `seen` and `got` a worker, `accepted`, `expired`, `fate`
and `hooks` the provider. Each write of the handler is `Update`: it succeeds, is
refused by `enforce_email_status_transition` (`Allows`), fails, or succeeds with its answer
lost. The handler's two halves of `markSent` (`StoreId`, `MarkSent`) and
`markFailed` (`MarkFailed`, `Requeue`) are steps of their own; which errors are
thrown to the runtime, caught, or only logged follows from the stage each leads
to. `Webhook` has no step for an id that is not stored yet: the answer is 404 and the
provider comes again. `SyncRead` and `SyncWrite` are the two ends of
`syncResendStatus`; the row and the provider are read in one step, which gives every pair of answers the two awaits can.
`Tries` is how many attempts an e-mail gets: `max_retries`, but one when that is 0, because `markFailed` counts before it asks. `lost` keeps, for the
properties, the statuses met by events that were answered 200 and changed nothing.

## 4. Runs, bounds and what they show

Counts are distinct states. Counters without a bound in the code have one in the
models, named with the CONSTANTS: `MaxFaults`, `MaxLeft` (times a handler leaves a
message to its VT), `MaxRetries` of `AutomationEngine` (manual retries), `MaxOps`
and `MaxPunches` (presses), `MaxEvents` of `FieldSync` (presses and faults together), `MaxLimited` (reads the rate
limiter may refuse), `MaxAccepted` (copies the provider takes). The runs over queues, workflows,
openings, swaps and e-mail set `CHECK_DEADLOCK FALSE` because those instances end: every message
archived, every run ended, every opening cancelled or its claims decided, every request answered. The
outboxes never end (the network comes and goes) and are checked for deadlock.

| Run | Instance | Shows |
|---|---|---|
| `queue_faulty` (397 k) | 2 messages, 2 workers, 2 attempts, 2 faults out of crashes, failed RPCs (all but `move_to_dlq`) and early timeouts | `NoSilentLoss`, `DeadLettersAreExhausted`, `RepeatsNeedFaults`, and `EverySentMessageLeaves` in the end |
| `queue_covered` (215 k) | 3 messages, one without handler and one without tenant, in batches of 2 that finish within their VT; 3 attempts, 1 fault, `selfManaged` results | `ProcessedIsNotBuried`, and the refinement of `TaskLedger` with its liveness (`LedgerSpec`) |
| `automation_calm` (24 k) | 2 runs of a workflow with condition, job, wait and approval; no faults | `NeverStranded`, `WaitsAreResumable`, `RunsMoveOn` |
| `automation_faulty` (120 k) | 1 run that may be cancelled, 2 workers, a step that throws and is left to its VT, 3 faults: crashes and failed RPCs | `StepsRunOnce`, `StepsTakeTurns`, `EndedRunsAreQuiet`, and the refinement of `WorkflowRun` (`PromiseSpec`) |
| `automation_managed` (1.23 M) | cancel, one manual retry (also of a step whose handler gave up), jobs that overtake their worker, early timeouts, every RPC failing (`check_dedup`, `record_processed` and `archive_queue_message` too) | `RerunsNeedFaults`, `CancelledStepsStay`: what still holds with everything at once |
| `automation_approval` | two steps, one worker, no faults | `DecisionsTakeEffect` is violated |
| `openings_shared` (678 k) | 2 openings of 1 or 2 places at one time, 2 employees, 2 transactions at once, both policies, edits, closing time, call-offs | `PlacesAreCounted`, `FilledHasNoPending`, `OverlapsNeedRaces` |
| `swaps_shared` (920 k) | 2 requests, 3 slots (one overlaps the two others), 4 employees, 2 transactions at once | `OverlapsNeedStaleness`, `SlotsComeFromGivers`, `DecidedIsFinal` |
| `field_sync` (536 k) | 2 tabs with the lock, presses of start and stop, presses of retry and discard, lost calls and reloads, 4 of all these together (3 of them other than start and stop); batches of 3, 3 waiting at most | `SyncedIsRecorded`, `SyncingIsHeld`, `EffectsAreReported`, `CheckOutIsFinal`, and `QueuedOpsSettle` |
| `station_outbox` (712 k) | 2 tabs, one of them in front, 2 touches, 2 attempts, 1 fault (a lost call, a refusal, a failed bootstrap or heartbeat, a reload, a change of the flag, unpairing), a clock that is right or ahead | `SyncedIsRecorded`, `ConfirmedIsKept`, `DayIsLegal`, `QuarantineIsHonest`, `OvertakenWasTried`, and `QueueDrains` |
| `station_disabled` | 1 tab, 1 touch | `DisabledIsQuarantined` is violated |
| `email_delivery` (1.28 M) | 2 workers, 2 attempts of the row and of the runtime, 1 refusal by the rate limiter, 2 copies, 1 fault | `StatusIsEarned`, `AbandonedNeedsFault`, `EventsReach`, and `EmailSettles` |

The runs of the outboxes, the swaps and the e-mail also check `TypeOK`; of the queue, the
automation engine and the openings it is proved (section 6).

**Why these bounds are enough to be interesting.** Two workers, tabs or sessions
suffice for every conflict here: each hazard is between one holder and one newcomer. Two faults
let an early timeout be followed by a crash or a lost RPC of either worker; with
three attempts a message passes through retry twice. The workflows have a branch, a join and every kind of step. In
`openings_shared` two sessions give every pair of the four split transactions on
one opening, and employees and sessions are interchangeable (no formula names
one of them), which justifies the symmetry set; the run checks no liveness.
In `swaps_shared` requests and sessions are interchangeable; the requests, accepts and cancels are about
two of the slots (`Asked`), so that the third is what an evaluation must not overlook.
Two requests are a decision and the one that overtakes it.
In `field_sync` a retry or discard counts among the faults. Three presses are a start, its stop and the start of another log, so that the order of
a batch, a stop that overtakes its start and a second open log all occur; with four events in all the run has every mix of
presses and faults up to one start with three faults, as where two tabs retry around a drain, and a
start and a stop with two. Two touches with two attempts allow one to be recorded, retried
or quarantined around the other. An e-mail needs one fault and a forgotten key
for a second copy, so two copies and one fault show it; its provider reports deliveries, bounces, delays and complaints
(`Outcomes`; a suppressed e-mail takes the steps of a bounced one). What the proofs of
section 6 cover holds for all values of these bounds.

**What is excluded from a passing run, and why.**
`move_to_dlq` does not fail in `queue_faulty`: when it does, the message is archived all
the same and lost (section 7). `start_automation_step_run` does not fail in
`automation_faulty`: if the step stays PENDING, a repeat of it is possible, which
`automation_managed` counts as a fault (`RerunsNeedFaults`). `ProcessedIsNotBuried`
and `LedgerSpec` are stated under `VtCoversBatch`, since nothing in the code
renews a VT; `automation_managed` and `queue_faulty` run without it.
`JobsAreSlow` (a job ends after its worker has moved on) holds in the runs about
progress: without it the worker writes WAITING_TIMER over a run a job had
already completed, and the run waits for ever (hazard at migration 20260726000001, line 747).
`NeverStranded` and `RunsMoveOn` hold without faults only:
the chain of messages that carries a run has no supervisor, so any lost link
leaves it RUNNING. (`WaitsAreResumable`, checked in the same run, is proved with crashes and failed
RPCs as well.) `RerunsNeedFaults` has no condition, so its run has everything at once; its bound is
quadratic in the manual retries because a retry makes the step PENDING again for every copy of its
message that is still about, and adds one copy. `EffectsAreReported` is about browsers with `navigator.locks`;
without them (the proofs cover both) two tabs may send one operation twice and
the refusal of the second overwrites the success of the first. `DayIsLegal` leaves out two
calls for one employee at once and a clock that is ahead: both make a day the server
cannot continue. A clock that is behind
shows nothing new: it only makes queued touches earlier against the posts of the
page, as they already are under the right clock. `QueueDrains` asks for a page that knows its station: after a bootstrap that
failed no drain runs (section 7). An e-mail with `max_retries` 0, which the
table's CHECK allows (0 to 10, 20260415000002:96) and a tenant's mail settings may hold (the default is 3), is
not excluded: the theorems are for it too, and say what happens there (`Tries`: attempt_count becomes 1, over a maximum of
0). The run has 2, the smallest value with a retry; with 0 in its place every property holds as well.

## 5. Fairness

- *Workers* (`WF_vars(Step(w))`, in the three worker models): pg_cron invokes the
  workers every minute, and an invocation either goes on or dies, which is
  `Crash` or `Die` and ends its turn. Weak fairness of the whole step promises nothing about
  which message is read or what a handler returns. In `QueueRuntime`
  `EverySentMessageLeaves` does not need more, as read_ct grows with each read and
  `MaxLeft` bounds the `selfManaged` results: the property is about the runtime,
  and says nothing of a handler that leaves its message for ever.
- *Visibility timeouts* (`WF_vars(Expire(m))`, `WF_vars(Expire)`): clocks advance.
- *Launch* (`WF_vars(Launch(r))`): the trigger worker goes on with what it began
  (or fails, `LaunchFails`).
- *Timers* (`WF_vars(ResumeTimer(r, s))`): `process-date-triggers` runs daily and
  calls `process_automation_wait_timers` with the service role.
- *Drains of the field outbox* (`WF_vars(Serve(t))`, `WF_vars(Drain(t))`, `WF_vars(WriteStop)`): a timer starts a drain every 30 s while the device is
  online, a transaction that has begun ends, and so does a stop in progress.
- *Drains of the station* (`Begin`, `Post`, `DrainAnswered` of each tab, `Check` and
  `Commit` of each caller, `Refresh` of each tab): the same timer; a server that has a request answers it, and a
  bootstrap that has begun ends, in success or not.
- No fairness for producers, managers, signers, employees, buttons, the network, PDF jobs,
  the e-mail provider, webhooks, crashes or errors. Liveness of the outboxes is under
  the condition that the network stays (`<>[]online`).
- `ShiftOpenings` and `ShiftSwaps` state safety only; nobody has to claim, request, decide or withdraw.

## 6. Proofs

Proved by `tlapm` with no assumption beyond the named `ASSUME`s of the modules
(each asks for the types of the constants; `OpeningAssumption` also for a finite set of
employees, a reflexive and symmetric overlap relation and at least one place per
opening; `SwapAssumption` for such a relation and a plan in which nobody is booked twice). TLC evaluates the same assumptions in every run. Conditions beyond
them are hypotheses of the theorem.

**QueueRuntimeProofs** (any messages, workers, attempts, faults; early timeouts allowed)

- `TypeCorrect`: `TypeOK`, strengthened with "a worker in the middle of a message
  has one" (`HasMessage`).
- `NothingLost`: if `move_to_dlq` is not among the failing RPCs, `NoSilentLoss`.
  The invariant `LossInv` adds that a worker on its way to record has done
  the work, that one on its way to archive has a verdict for its
  message, and that a recorded key was worked for. The lemma `VerdictsStay`
  (verdicts are never taken back) carries these over the steps of the other
  workers.
- `DeadLettersExhausted`: `DeadLettersAreExhausted`. `ExhaustInv` adds that the
  read_ct a worker holds never exceeds the message's own, and that a worker
  that is about to bury a well-formed message holds one that is exhausted; that is
  why a stale read_ct can delay a dead letter but not hasten it.
- `RepeatsCost`: `RepeatsNeedFaults`, for finitely many workers and a key per message. The
  argument is a budget: the verdicts a message has had, plus the workers that may still
  reach one (`Tries`), plus one if a worker may read it at no cost (`Open`), never
  exceed one plus the faults. `ShapeInv` says what a worker of each stage holds;
  `Balance` lists the five ways a step may move the terms.
- `NotBuried`: `ProcessedIsNotBuried`, when batches finish within their VT, keys are
  unique and `check_dedup` does not fail. `Covered` says that what a worker holds is
  queued, hidden, and held by it alone; `BurialInv` that a worker that may still bury or
  redo a message has seen its key unrecorded, so that nobody else can have recorded it.
- `KeepsLedger`: every initial state and step of the runtime is one of `TaskLedger`, or
  a stutter (its safety part), if `move_to_dlq` is not among the failing RPCs.

**AutomationEngineProofs** (any workflow, runs, workers)

- `TypeCorrect` and `CancelledStay` (`CancelledStepsStay`) hold without conditions.
- `OnceEach`, `InTurn`, `QuietEnds` (`StepsRunOnce`, `StepsTakeTurns`,
  `EndedRunsAreQuiet`) and `Implements` (`PromiseSpec`: every initial state and step of the engine is
  one of `WorkflowRun`, or a stutter) are under `Orderly`: jobs end after their worker has
  moved on, batches finish within their VT, no manual retries, and
  `start_automation_step_run` does not fail. Crashes and all other failed RPCs
  are allowed, in any number. The invariant says that a run has one carrier:
  a message, a worker, a job or a wait, but not two of these (`Sole`), a message in one
  copy (`OneCopy`), on a step not yet executed (`Once`), with the statuses of run and
  step that fit its stage (`Places`), none of it left once the run has ended
  (`Quiet`), and the step it carries due in `WorkflowRun` (`AllDue`).

**AutomationCarrierProofs** (the same, on top of that invariant)

- `RerunsArePaid`: `RerunsNeedFaults`, without conditions. Two budgets: the copies of a run's message (`FewCopies`: queued,
  in a worker's hand, a job, a timer, the launch) are at most one, plus one per retry and fault (a crash, an early VT, an archive that fails); and what a step
  has been run, with whatever may still run it (`Spent`: every copy while it is PENDING), is at most what the copies allowed since each
  retry (`Budget`).
- `WaitsResumable`: `WaitsAreResumable`, under `Orderly`. `WaitInv` adds `WillWait`: a worker that
  is about to let its run wait for a job has one running, from the handler's call to the UPDATE of the run, and
  nobody takes the step out of its hands meanwhile.
- `NeverLeftAlone`: `NeverStranded`, under `Calm`: `Orderly`, no faults, no cancels, a workflow whose
  steps never lead back (`Reached`), and no broken step that is left to its VT. `CalmRun` is the
  inductive invariant: a run is at one step at most (`AtOneStep`), every step reachable from there is
  still PENDING, so the next message is never one the worker skips, and a RUNNING run has such a step
  (`CarriedOn`). The workflows of the repository (the blueprints of migrations 20260712000004,
  20261103000001 and 20261105000001) are chains without loops and there is no editor of steps, but no
  constraint forbids a loop; in one, a step reached again is no longer PENDING, is skipped, and the
  run stays RUNNING (section 7).

- `CausesFirst`: `StepsHaveCauses`, without conditions, an action property no run needs: the handler of a
  step runs only if it is the first of the workflow or the handler of a step that leads to it has run before.
  `CauseInv` says so of whatever can still make a step run: every message and every worker is about a
  step with such a cause, jobs and timers are of steps that have run, and a failed step, which a manual retry
  queues again, has one.

**ShiftOpeningsProofs** (any openings, employees, places, sessions)

The inductive invariant is `IInv`, the conjunction of
`TypeInv` (types, and which stage goes with which operation),
`OneHolder` (one transaction per opening is past its opening lock),
`ClaimsHeld` (one accept per claim, which stays pending meanwhile),
`Validated` (while a transaction decides, its opening stays open with a free
place, and a claim that accepts itself has no pending or accepted one beside it),
`Counting` (the counts themselves; an opening without a row has nobody in it),
`RacesNoted` and `OverlapsNeedRaces`.
None of the properties is inductive alone: `Commit` would overfill an opening if
`Validated` did not say that nothing happened since the check, which holds
only because of `OneHolder`; and it would count one employee twice if `ClaimsHeld` did
not say that the claim it accepts is still pending.

- `TypeCorrect`, `PlacesCounted`, `NobodyWaitsForFilled`, `OnlyRacesOverlap` are the
  four invariants of `openings_shared`. The argument for overlaps: when an accept validates, each
  overlapping slot of its employee either is committed, and refuses it, or comes from a
  transaction still undecided, and that pair is in `raced`.
- `ClosedStaysClosed` and `AcceptedStays` are action properties no run needs: no step takes a place of an
  opening that is not open, and none takes an accepted claim back.

**ShiftSwapsProofs** (any slots, employees, requests, sessions)

`IInv` is `TypeOK`, `Held` (a session has a request, and its stage goes with what it does), `Fixed`
(the request of an approval stays pending and what it was evaluated as), `Sole` (one approval
per request), `StillEligible` (an evaluation nothing has overtaken still holds), `WonDecided` (a slot
is won by a decided request) and `OverlapsNeedStaleness`. `StillEligible` is the heart: a `Commit` that is
not in `stale` finds what its evaluation saw, and every step that could change this
puts the request into `stale`.

- `TypeCorrect`, `OverlapsStale`, `GiversGive`, `DecidedOnce` are the properties of `swaps_shared`.

**FieldSyncProofs** (any number of tabs, operations, faults; with locks and without)

`IInv` is `TypeOK`, `Fresh` (what does not exist yet has no status), `Existing` and `Listed`
(what is recorded or listed was made), `DrainShape` (what a drain of each stage has),
`AcceptedIsRecorded` (what the results a drain holds say took effect did), `SyncedIsRecorded`,
`SyncingIsMarked`, `RacesAreKnown` (two transactions that have both read a log to stop it,
or one beside a check-out already there, are in `raced`), and with the lock `LockedInv`
(one drain at a time whose tab is there; what it sent is syncing unless a press rewrote it; what took effect is in its hands,
settled, unanswered or overtaken). The lemma `StepCases` sorts the steps by what they do to the outbox and the
drains, `StopCases` by how they stop a log.

- `Synced`, `HeldOrStranded`, `Effects`, `CheckOut` are the properties of `field_sync`
  but for its liveness. `Effects` and `CheckOut` say exactly what can go wrong: an effect is misreported
  only after a lost answer or an overtaking press, a check-out is replaced only by a stop that raced.
  `Attempts` says that with the lock no operation is tried twice
  unless somebody presses retry, so that `retry_count` never reaches the limit of 3 by
  itself.

**StationOutboxProofs** (any number of tabs, punches, attempts, any clock)

`IInv` has the two properties `SyncedIsRecorded` and `ConfirmedIsKept`, with which
stage goes with what in hand (`Types`, `Idle`, `KioskDirect`, `KioskOpen`, `TabsQueued`), what an
answer proves (`Recorded`, `Answers`), that one tab has a punch unless it is contested
(`Sole`, `Posted`), and that a drain posts its snapshot in order and has tried what it left behind
(`InOrder`, `Tried`). What the page and the cookie are is in none of these: the theorems hold whatever
happens to the credentials.

- `Synced`, `Kept`, `Order` follow. `Honest` (`QuarantineIsHonest`) needs `HonestInv`
  beside it: a punch recorded by a call without an answer is in `answerLost`
  (`LostIsRecorded`), that cost a fault, and the loss of the credentials costs another or two drains that collide
  (`Costs`, `Collision`); while it was the only fault and there was no collision (`Calm`) no call about that punch
  has been refused (`MadeGood`), because the next post finds it and is answered `duplicate`.
- `LegalDay` (`DayIsLegal`) and `TypeCorrect` (`TypeOK`) need `DayInv` beside it. Touches have rising, odd times
  (`Touches`); a punch is recorded with the time of its touch or the server's (`Timed`), so that no
  two are at the same time; and what a call has checked still holds when it inserts, because without `raced`
  it is alone and without a fast clock its time is later than all that is recorded (`Legal`). The lemmas about
  the day are about the recursive function itself: it has a value for every set of punches
  (`DayAfterTurns`), which depends on their types and times alone (`SamePunches`), and a later punch takes it
  on by one `After` (`OneMorePunch`). They go by the number of punches, with induction
  over a set of numbers (`AllNumbers`, from the least number outside it).

**EmailDeliveryProofs** (any number of workers, attempts, copies, faults)

`IInv` is `TypeOK`, `AttemptsLeft` (a worker that has the row has attempts left, as the lemma `Granted` says of the
boundary, `max_retries` 0 included),
`CopiesFit` and `IdsFit` (a stored id is of an accepted copy), `Earned` (the statuses
of the row and of the provider's record agree) and `Calm`
(before the first fault, which worker, message and status go together).

- `Truthful`, `Attended`, `Reaching` are the three invariants of `email_delivery`.

**Only model-checked.** All liveness (`EverySentMessageLeaves`, `RunsMoveOn`,
`QueuedOpsSettle`, `QueueDrains`, `EmailSettles`, the fairness of `TaskLedger`), which is
outside what the prover handles. Every invariant and every action property of a passing run is proved.
The conditions of a theorem are not proved of the code: that a batch finishes within its VT, a job ends
after its worker has moved on, a workflow has no loop.

## 7. Where code and documents disagree

With a run that shows it (the quotations are in `PROJECT.json`):

1. **An approval has no effect.** The last `resolve_automation_approval` assigns a text
   CASE to an enum column, so approving or rejecting raises (`automation_approval`).
2. **A disabled station never quarantines.** With the flag switched off the server answers
   `station_offline_disabled`, which `stationOutbox.ts` lists as permanent and the runbook
   expects in quarantine; but `isStationNetworkFailure` is asked first and matches
   "offline" in that name, so the drain stops and every queued punch waits for ever (`station_disabled`).

Met while modelling, without a run of their own:

- `moveToDlq` logs an error of `move_to_dlq` and the message is archived regardless,
  so it leaves no trace, against `docs/async-infraestructure.md:42`. `NothingLost` has this as its only condition.
- The first retry waits 120 s, not the 60 s of `docs/async-infraestructure.md:41`
  and of the comment at `queue-runtime.ts:387`: the exponent is read_ct, which starts at 1.
- The second attempt under one key is "silently ignored" (`docs/async-infraestructure.md:40`)
  only while the VT covers the batch: two workers may both pass the dedup check.
- `retry_automation_run` sends `run_id` where the worker reads `workflow_run_id`: the
  step runs again, the next one cannot be queued and the run stays RUNNING.
- A step that threw is marked FAILED before its message is left for another attempt, and
  the redelivery skips steps that are not PENDING: it is not run again.
- A step that returns failure (and does not throw) fails its run at once, whatever
  its `retry_max` (`arquitectura-automatitzacio-v2.md:183,261`).
- The final status of a step or run is written without looking at the present
  one: a run cancelled while a worker has it in hand ends COMPLETED, and a job that ends
  after a cancel sets its run RUNNING.
- A redelivery of a step left RUNNING by a crash is counted as processed
  (`process-automation-queue/index.ts:177`), so the run stops there.
- `retry_automation_run` does not look whether the failed step still has a message in the queue: the message
  of a step whose handler gave up is left to its VT, and after a retry both are there, so two workers may run the step
  (`RerunsNeedFaults` counts it).
- Nothing checks that the steps of a workflow do not lead back. A step that is reached again is not PENDING, its
  message is skipped and archived, and the run stays RUNNING; so does one whose handler threw and was left for
  another attempt (`NeverLeftAlone` assumes neither).
- The cron job of the wait timers (migration 20260726000001, line 948) has no JWT and
  is refused; waits are resumed by the daily `process-date-triggers` alone.
- Two accepts for one employee on overlapping openings at once both pass the overlap test;
  `OverlapsNeedRaces` shows that this is the only way to a double booking.
- The evaluation of a swap request excepts the target slot from the overlap test for every kind, where its
  comment says "excepte el target_slot si és un swap" (migration 20261044000001, lines 149-150).
  `accept_shift_swap` stores a target slot on a give-away too, and there it is not exchanged: a
  give-away accepted against an overlapping slot is granted and books its taker twice,
  without any race. `OverlapsNeedStaleness` excepts exactly this (`spared`).
- Approving a swap or give-away locks the request and no slot, against the "transaccions amb lock en claim,
  swap i publicació" of `docs/plans/checkin/plan-shift-planner-v2.md:288`: two decisions on one slot or one
  employee both pass their evaluation, and the later UPDATE wins.
- An accept that read a pending request writes its target over the decided one
  (`UPDATE ... WHERE id`), so an approved request may name somebody who did not get the slot.
- A pending request outlives its requester's ownership of the slot; until somebody declines it, the new
  owner cannot request anything for that slot (one pending request per slot).
- Editing an opening in between may give a filled opening free places nobody can
  claim, and lowering its places leaves it open and full with its claims pending.
  An expired opening keeps its pending claims.
- `WorkLogCard.tsx:364-369` tells the worker that rejected operations "Es reintentaran
  automàticament"; `nextPendingBatch` lists pending ones only, so nothing retries them, and
  the retry button is shown only while something is quarantined.
- Retry and discard walk a list read earlier and write each row without asking for its status (`useFieldSync.ts:242-264`,
  `requeueForRetry`). Two tabs that press retry around a drain set a synced row back to pending; a stop is then refused,
  its log being closed, and ends in quarantine although it took effect and no answer was lost.
  `EffectsAreReported` excepts exactly these rows (`overtaken`).
- `stop_work_log` reads the open log without a lock and updates it by id (20260506000005, lines 690-727), within a batch as well
  as online. Two stops that have both read the row both succeed, and the later check-out replaces the earlier;
  `CheckOutIsFinal` excepts exactly these logs (`raced`).
- `docs/plans/field-service/06-acceptance-and-gates.md:19` asks that start and
  stop lose no data and that queue and quarantine are visible; an operation that a reload cut
  off while `syncing` is listed by nothing any more.
- A webhook that comes between the two calls of `markSent` meets status `processing`,
  is refused by the trigger and answered 200, so it does not come again
  (`docs/email.md:97-106` has a webhook update the row). `EventsReach` excepts it.
- A bootstrap that fails costs a station its credentials, also when the error has no name: `station_error`, which `station-api`
  gives every exception it does not know (`index.ts:176`), is on the list of the page (`page.tsx:250-256`) and of the proxy
  (`cookie.ts:65`). The cookie is cleared for all tabs and the page shows the form for pairing; its drains return at once from then on
  (`useStationSync.ts:80`), and the queued punches wait with network and flag there until somebody pairs the station.
  A page loaded without a network shows that form as well, and nothing tries again. `QueueDrains` excepts exactly the
  states in which no page knows its station.
- Two drains that insert one punch at once collide on `(tenant_id, client_op_id)`; the violation is such an error, so the loser clears
  the cookie although the punch is recorded. `QuarantineIsHonest` excepts it (`contested`).
- An e-mail with `max_retries` 0 gets one attempt, and its attempt_count becomes 1: `markFailed` counts before it asks.
- After an offline touch the list of employees is not updated
  (`apps/public-portal`, the station page, line 612): a second identification offers the
  buttons of the state before, and the server refuses what they queue.

## 8. What is not modelled

`PROJECT.json` gives the reason per component. Most of the repository is
presentation, generated types, access control and single-row forms, which have no
interleaving or history to check; the models cover the protocols. Within the modelled components:

- Queue runtime: the audit row per batch, logging, the screens over the dead-letter
  table, and the real time of a VT (its order relative to the other steps is what counts).
- Automation: which workflows an event matches, several workflows per trigger
  message and their joint retry, reassignment of an approval, date-field triggers,
  editing of workflows, the context a step reads. `QueueRuntime`'s count of attempts
  appears as a choice (`Return` either gives the message back or drops it).
- Openings: `opens_at`, slots planned, swapped or given away, the unique
  index on (employee, date, shift), notifications, escalation. Windows are model
  values with an overlap relation. Of several claims of one employee on one opening
  the latest stands for all: the earlier ones are withdrawn, rejected or expired,
  and nothing changes them any more.
- Swaps: published slots only (a draft slot counts in the overlap test); slots
  planned or won as an opening while requests are pending; the unique index on (employee, date, shift), absences,
  qualifications, availability and closed days, which show as calls not made or rolled
  back; the opening a call-off creates (`CallOff` of `ShiftOpenings`), calendar events, notifications.
- Field work logs: one worker with one device in one project; a log open elsewhere, a second
  device, the in-memory outbox of a browser without IndexedDB. The visit closes and is
  not reopened. Whether a failed fetch is retryable is open, because it depends on what the client
  library throws; for the same reason the branch that quarantines after three
  retries exists in the model and is not reached with the lock (`Attempts`).
- Stations: one employee on one day at one kiosk (touches at another one race as this one's
  do); identification, geolocation, pairing again (a new device would not see the rows of the old one, as the outbox is
  listed per device), unpairing while a touch or a refresh is under way, a station that is not `ready` (its list is empty). The bootstrap and the
  list are read in one step. Not modelled either: requests that arrive after
  their caller gave up, and those of a tab reloaded while its post is out (the tab
  is reloaded before or after the post).
- E-mail: one e-mail; `enqueue_email` and its idempotency are the initial state;
  templates, layouts and attachments (rendering fails or not); the signature of a webhook; an
  error in reading the row, which the code takes for "not found", is `Fetch`'s fault. The provider forgets an
  idempotency key only while the message waits, as it keeps one for a day.
- Access control (row-level security, JWTs, PINs) is no subject here; calls are by
  whoever may make them.

## 9. Plan

In order:

1. `NativeSigning`: groups in sequence, expiry and decline racing the last signature;
   it refines the job of `AutomationEngine`.
2. `FileQuota`: reserved and committed bytes, two uploads at once, expiry of reservations.
3. The second lane of the field outbox (checklist answers and media).
4. The retry of a trigger message with several workflows.
5. Period confirmation and close.
6. `ShiftOpenings` and `ShiftSwaps` over one table of slots.

Theorems to prove next: what the abstract modules promise for themselves (`TaskLedger`, `WorkflowRun`), and
the steps a liveness argument would rest on (a measure that every step of a drain lowers).
