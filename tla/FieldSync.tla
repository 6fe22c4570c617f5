------------------------------ MODULE FieldSync ------------------------------
(***************************************************************************)
(* The work-log outbox of a field worker's device: starts and stops of     *)
(* work pressed offline are kept in IndexedDB (field-ops-db.ts) and sent   *)
(* in batches to sync_work_log_ops (useFieldSync.ts); pressed online they  *)
(* go straight to the server (useWorkLog.ts).                              *)
(*                                                                         *)
(* One worker, one device, several tabs.  A drain, and a press of retry or *)
(* discard, is a chain of awaits: the tab can be reloaded between any two, *)
(* the request or its answer can be lost.  The server handles a batch in   *)
(* one transaction at READ COMMITTED: its statements see what is committed *)
(* and what it wrote itself, and it waits for a row another transaction    *)
(* has written.  Operations are numbered in the order they are created.    *)
(***************************************************************************)
EXTENDS Integers, FiniteSets

CONSTANTS
  Tabs,        \* tabs, or hook instances, that share the outbox
  HasLocks,    \* the browser has navigator.locks
  MaxOps,      \* bound: presses of start and stop
  BatchSize,   \* size of a batch (20)
  MaxPending,  \* MAX_PENDING (500)
  MaxAttempts, \* MAX_RETRY_BEFORE_QUARANTINE (3)
  MaxFaults,   \* bound: lost or failed calls, reloads that cut something short,
               \* presses of retry and discard
  MaxEvents    \* bound: these and the presses of start and stop together

ASSUME FieldAssumption ==
  /\ HasLocks \in BOOLEAN
  /\ MaxOps \in Nat /\ BatchSize \in Nat \ {0} /\ MaxPending \in Nat \ {0}
  /\ MaxAttempts \in Nat \ {0} /\ MaxFaults \in Nat /\ MaxEvents \in Nat

Ops == 1..MaxOps
None == 0

VARIABLES
  online,     \* navigator.onLine
  made,       \* operations 1..made exist
  target,     \* the start a stop belongs to, None for a start
  status,     \* LocalFieldOp.status; "direct" for an operation never queued
  retries,    \* retry_count
  shown,      \* the open log the tab in front displays, None if none
  local,      \* the display knows it by its client id only
  stopping,   \* the log whose online stop has read its row, None if none
  closed,     \* the visit is completed or published
  logs,       \* starts that have a row in data.work_logs
  closedBy,   \* the stop whose check_out the row has, None while it is open
  pc,         \* where the drain of each tab is
  batch,      \* the batch it sends
  spent,      \* operations of the batch picked with their retries used up
  todo,       \* operations of the batch the present stage has not come to
  ok,         \* operations of the batch the server accepted
  reading,    \* the operation whose row the server has read and not yet written
  press,      \* where the retry or discard of each tab is
  listed,     \* the failed operations it has listed and not yet come to
  closers,    \* history: stops that closed a log
  unanswered, \* history: operations that took effect and whose answer was lost
  stranded,   \* history: operations a drain held when its tab was reloaded
  overtaken,  \* history: no longer failed when a retry or discard rewrote them
  raced,      \* history: logs two stops had read as open before either committed
  faults

outboxVars == <<made, target, status, retries>>
viewVars   == <<shown, local, stopping>>
serverVars == <<logs, closedBy, closers, raced>>
drainVars  == <<pc, batch, spent, todo, ok, reading>>
buttonVars == <<press, listed, overtaken>>
vars == <<online, closed, outboxVars, viewVars, serverVars, drainVars, buttonVars,
          unanswered, stranded, faults>>

Statuses == {"none", "direct", "pending", "syncing", "synced", "rejected",
             "quarantined", "discarded"}
Stages == {"idle", "picked", "sent", "orphaned", "answered", "retryable", "fatal"}
Presses == {"none", "requeue", "requeueLast", "delete", "deleteLast"}

TypeOK ==
  /\ online \in BOOLEAN /\ closed \in BOOLEAN
  /\ made \in 0..MaxOps
  /\ target \in [Ops -> 0..MaxOps]
  /\ status \in [Ops -> Statuses]
  /\ retries \in [Ops -> Nat]
  /\ shown \in 0..MaxOps /\ local \in BOOLEAN /\ stopping \in 0..MaxOps
  /\ logs \subseteq Ops /\ closers \subseteq Ops
  /\ closedBy \in [Ops -> 0..MaxOps]
  /\ pc \in [Tabs -> Stages]
  /\ batch \in [Tabs -> SUBSET Ops] /\ todo \in [Tabs -> SUBSET Ops]
  /\ ok \in [Tabs -> SUBSET Ops] /\ spent \in [Tabs -> SUBSET Ops]
  /\ reading \in [Tabs -> 0..MaxOps]
  /\ press \in [Tabs -> Presses] /\ listed \in [Tabs -> SUBSET Ops]
  /\ overtaken \subseteq Ops /\ raced \subseteq Ops
  /\ unanswered \subseteq Ops /\ stranded \subseteq Ops
  /\ faults \in Nat

Init ==
  /\ online = TRUE /\ closed = FALSE
  /\ made = 0
  /\ target = [o \in Ops |-> None]
  /\ status = [o \in Ops |-> "none"]
  /\ retries = [o \in Ops |-> 0]
  /\ shown = None /\ local = FALSE /\ stopping = None
  /\ logs = {} /\ closers = {}
  /\ closedBy = [o \in Ops |-> None]
  /\ pc = [t \in Tabs |-> "idle"]
  /\ batch = [t \in Tabs |-> {}] /\ todo = [t \in Tabs |-> {}] /\ ok = [t \in Tabs |-> {}]
  /\ spent = [t \in Tabs |-> {}] /\ reading = [t \in Tabs |-> None]
  /\ press = [t \in Tabs |-> "none"] /\ listed = [t \in Tabs |-> {}]
  /\ overtaken = {} /\ raced = {}
  /\ unanswered = {} /\ stranded = {}
  /\ faults = 0

-----------------------------------------------------------------------------
(* Helpers *)

WithStatus(st) == {o \in Ops : status[o] = st}
Failed == WithStatus("quarantined") \union WithStatus("rejected")
Open == {s \in logs : closedBy[s] = None}

\* What a drain is answerable for.
Held(t) == IF pc[t] = "sent" THEN batch[t] ELSE todo[t]

\* Updates of rows that were deleted meanwhile do nothing.
Mark(S, st) == [o \in Ops |-> IF o \in S /\ status[o] # "discarded" THEN st ELSE status[o]]

First(S, o) == o \in S /\ \A p \in S : o <= p

Fault == faults < MaxFaults /\ made + faults < MaxEvents /\ faults' = faults + 1

\* The next operation, o, is created with status st; s is the start it stops.
Create(o, s, st) ==
  /\ made < MaxOps /\ made + faults < MaxEvents /\ o = made + 1
  /\ made' = o
  /\ target' = [target EXCEPT ![o] = s]
  /\ status' = [status EXCEPT ![o] = st]
  /\ UNCHANGED retries

\* nextPendingBatch lists only what is pending.  next_retry_at never holds one
\* back: a failure leaves the operation rejected, a manual retry sets now.
Eligible == WithStatus("pending")

\* The oldest of them.
BatchOf == {o \in Eligible : Cardinality({p \in Eligible : p < o}) < BatchSize}

-----------------------------------------------------------------------------
(* What the server's transactions see *)

Serving(t) == pc[t] \in {"sent", "orphaned"}
IsStart(o) == target[o] = None

\* Rows the batch of t has written and not committed; a duplicate wrote none.
Wrote(t) == IF Serving(t) THEN {o \in ok[t] : ~IsStart(o) \/ o \notin logs} ELSE {}

\* What the batch of t sees: the logs, and those that are open.
SeenLogs(t) == logs \union {o \in ok[t] : IsStart(o)}
SeenOpen(t) == {s \in SeenLogs(t) : closedBy[s] = None /\ \A o \in ok[t] : target[o] # s}

\* The logs whose row a stop in the batch of t has read as open.
StopsOf(t) ==
  {s \in Ops : Serving(t) /\ \E o \in ok[t] \union {reading[t]} : o # None /\ target[o] = s}

\* Somebody else has read log s as open to stop it.
Racing(s) == stopping = s \/ \E t \in Tabs : s \in StopsOf(t)

\* What the write of o waits for: the row of the log it stops; for a start, which
\* no open log may stand beside, any log.
Awaits(t, o) ==
  {p \in UNION {Wrote(u) : u \in Tabs \ {t}} : IsStart(o) \/ target[p] = target[o]}

-----------------------------------------------------------------------------
(* The buttons of the work-log card *)

\* Pressed offline: queued, and displayed as if it were open.
StartOffline ==
  /\ ~online /\ shown = None /\ stopping = None
  /\ Cardinality(WithStatus("pending")) < MaxPending
  /\ \E o \in Ops :
       /\ Create(o, None, "pending")
       /\ shown' = o
       /\ local' = TRUE
  /\ UNCHANGED <<online, closed, stopping, serverVars, drainVars, buttonVars,
                 unanswered, stranded, faults>>

\* The stop names its start by client id; the display is cleared.
StopOffline ==
  /\ ~online /\ shown # None /\ stopping = None
  /\ Cardinality(WithStatus("pending")) < MaxPending
  /\ \E o \in Ops : Create(o, shown, "pending")
  /\ shown' = None
  /\ local' = FALSE
  /\ UNCHANGED <<online, closed, stopping, serverVars, drainVars, buttonVars,
                 unanswered, stranded, faults>>

\* Pressed online: start_work_log, refused while any log is open (asked first,
\* and enforced by one_open_log_per_worker, which waits for the rows a batch has
\* written).  When the answer is lost nothing is queued and nothing displayed.
StartOnline ==
  /\ online /\ shown = None /\ stopping = None
  /\ ~closed /\ Open = {} /\ \A t \in Tabs : Wrote(t) = {}
  /\ \E o \in Ops :
       /\ Create(o, None, "direct")
       /\ logs' = logs \union {o}
       /\ \/ shown' = o /\ UNCHANGED faults
          \/ UNCHANGED shown /\ Fault
  /\ UNCHANGED <<online, closed, local, stopping, closedBy, closers, raced, drainVars,
                 buttonVars, unanswered, stranded>>

\* Pressed online: stop_work_log reads the row by its server id without
\* locking it.  A log known by its client id only is not found.
ReadToStop ==
  /\ online /\ shown # None /\ stopping = None
  /\ ~local /\ shown \in Open
  /\ stopping' = shown
  /\ raced' = IF Racing(shown) THEN raced \union {shown} ELSE raced
  /\ UNCHANGED <<online, closed, outboxVars, shown, local, logs, closedBy, closers,
                 drainVars, buttonVars, unanswered, stranded, faults>>

\* Its UPDATE looks at the id alone, once no batch has the row.
WriteStop ==
  /\ stopping # None
  /\ \A t \in Tabs : \A p \in Wrote(t) : target[p] # stopping
  /\ \E o \in Ops :
       /\ Create(o, stopping, "direct")
       /\ closedBy' = [closedBy EXCEPT ![stopping] = o]
       /\ closers' = closers \union {o}
  /\ stopping' = None
  /\ \/ shown' = None /\ UNCHANGED faults
     \/ UNCHANGED shown /\ Fault
  /\ UNCHANGED <<online, closed, local, logs, raced, drainVars, buttonVars,
                 unanswered, stranded>>

\* The queries are fetched again: the display is what the server has.
Refresh ==
  /\ online
  /\ \/ Open = {} /\ shown' = None
     \/ \E s \in Open : shown' = s
  /\ local' = FALSE
  /\ UNCHANGED <<online, closed, outboxVars, stopping, serverVars, drainVars, buttonVars,
                 unanswered, stranded, faults>>

-----------------------------------------------------------------------------
(* Retry and discard *)

\* retryQuarantined lists what is quarantined, comes to each, and then does the
\* same with what is rejected; discardFailed the other way round.  Tab t makes a list.
Lists(t, stage, st) ==
  /\ press' = [press EXCEPT ![t] = stage]
  /\ listed' = [listed EXCEPT ![t] = WithStatus(st)]

\* The buttons are there while something is quarantined.
Press(t) ==
  /\ WithStatus("quarantined") # {} /\ pc[t] = "idle" /\ press[t] = "none" /\ Fault
  /\ Lists(t, "requeue", "quarantined") \/ Lists(t, "delete", "rejected")
  /\ UNCHANGED <<online, closed, outboxVars, viewVars, serverVars, drainVars, overtaken,
                 unanswered, stranded>>

\* Nothing of the list is left: the second list is made, or the press ends.
ListMore(t) ==
  /\ listed[t] = {}
  /\ \/ press[t] = "requeue" /\ Lists(t, "requeueLast", "rejected")
     \/ press[t] = "delete" /\ Lists(t, "deleteLast", "quarantined")
     \/ /\ press[t] \in {"requeueLast", "deleteLast"}
        /\ press' = [press EXCEPT ![t] = "none"]
        /\ UNCHANGED listed
  /\ UNCHANGED <<online, closed, outboxVars, viewVars, serverVars, drainVars, overtaken,
                 unanswered, stranded, faults>>

\* requeueForRetry, one row after the other, whatever its status is by now.
Requeue(t) ==
  /\ press[t] \in {"requeue", "requeueLast"}
  /\ \E o \in listed[t] :
       /\ First(listed[t], o)
       /\ status' = Mark({o}, "pending")
       /\ retries' = [retries EXCEPT ![o] = 0]
       /\ overtaken' = overtaken \union ({o} \ Failed)
       /\ listed' = [listed EXCEPT ![t] = @ \ {o}]
  /\ UNCHANGED <<online, closed, made, target, viewVars, serverVars, drainVars, press,
                 unanswered, stranded, faults>>

\* bulkDelete of the keys listed, whatever the status of their rows is by now.
Delete(t) ==
  /\ press[t] \in {"delete", "deleteLast"} /\ listed[t] # {}
  /\ status' = Mark(listed[t], "discarded")
  /\ overtaken' = overtaken \union (listed[t] \ Failed)
  /\ listed' = [listed EXCEPT ![t] = {}]
  /\ UNCHANGED <<online, closed, made, target, retries, viewVars, serverVars, drainVars,
                 press, unanswered, stranded, faults>>

Button(t) == Press(t) \/ ListMore(t) \/ Requeue(t) \/ Delete(t)

-----------------------------------------------------------------------------
(* The drain *)

\* Mutant of MayDrain: the lock is never asked for.
MayDrainUnlocked(t) == pc[t] = "idle"

\* navigator.locks, ifAvailable; without it a flag of the instance alone.
MayDrain(t) ==
  pc[t] = "idle" /\ (HasLocks => \A u \in Tabs : pc[u] \in {"idle", "orphaned"})

PickBatch(t) ==
  /\ online /\ MayDrain(t) /\ Eligible # {}
  /\ pc' = [pc EXCEPT ![t] = "picked"]
  /\ batch' = [batch EXCEPT ![t] = BatchOf]
  /\ todo' = [todo EXCEPT ![t] = BatchOf]
  /\ spent' = [spent EXCEPT ![t] = {o \in BatchOf : retries[o] >= MaxAttempts}]
  /\ UNCHANGED <<online, closed, outboxVars, viewVars, serverVars, ok, reading, buttonVars,
                 unanswered, stranded, faults>>

MarkSyncing(t) ==
  /\ pc[t] = "picked"
  /\ pc' = [pc EXCEPT ![t] = "sent"]
  /\ status' = Mark(batch[t], "syncing")
  /\ UNCHANGED <<online, closed, made, target, retries, viewVars, serverVars,
                 batch, spent, todo, ok, reading, buttonVars, unanswered, stranded, faults>>

\* The call fails and nothing was done, or all of it is rolled back.  Whether a
\* failed fetch counts as retryable is up to what supabase-js hands over: an
\* Error, or a plain object.
RequestFails(t) ==
  /\ pc[t] = "sent" /\ Fault
  /\ \E p \in {"retryable", "fatal"} : pc' = [pc EXCEPT ![t] = p]
  /\ todo' = [todo EXCEPT ![t] = batch[t]]
  /\ ok' = [ok EXCEPT ![t] = {}]
  /\ reading' = [reading EXCEPT ![t] = None]
  /\ UNCHANGED <<online, closed, outboxVars, viewVars, serverVars, batch, spent, buttonVars,
                 unanswered, stranded>>

\* Mutant of StopReads: the row is looked up, whatever its status.
StopReadsAnyStatus(t, o) == target[o] \in SeenLogs(t)

\* stop_work_log: the row of the start, and open.
StopReads(t, o) == target[o] \in SeenOpen(t)

\* The loop of sync_work_log_ops, the reads of the next operation.  start_work_log
\* refuses a visit that is closed, then answers a known client id (duplicate).
ServeRead(t) ==
  /\ Serving(t) /\ reading[t] = None
  /\ \E o \in todo[t] :
       /\ First(todo[t], o)
       /\ \/ /\ IF IsStart(o) THEN closed ELSE ~StopReads(t, o)
             /\ todo' = [todo EXCEPT ![t] = @ \ {o}]
             /\ UNCHANGED <<ok, reading, raced>>
          \/ /\ IsStart(o) /\ ~closed /\ o \in SeenLogs(t)
             /\ todo' = [todo EXCEPT ![t] = @ \ {o}]
             /\ ok' = [ok EXCEPT ![t] = @ \union {o}]
             /\ UNCHANGED <<reading, raced>>
          \/ /\ IF IsStart(o) THEN ~closed /\ o \notin SeenLogs(t) ELSE StopReads(t, o)
             /\ reading' = [reading EXCEPT ![t] = o]
             /\ raced' = IF ~IsStart(o) /\ Racing(target[o])
                         THEN raced \union {target[o]} ELSE raced
             /\ UNCHANGED <<todo, ok>>
  /\ UNCHANGED <<online, closed, outboxVars, viewVars, logs, closedBy, closers, pc, batch,
                 spent, buttonVars, unanswered, stranded, faults>>

\* Its INSERT or UPDATE, which waits for the rows of others and looks at no status.
\* A start is refused beside an open log; and whoever waits with rows of its own
\* that another waits for may be refused to end a deadlock.
ServeWrite(t) ==
  LET o == reading[t]
      refused == IsStart(o) /\ (o \in logs \/ SeenOpen(t) # {})
  IN /\ Serving(t) /\ o # None
     /\ \/ /\ Awaits(t, o) = {} /\ ~refused
           /\ ok' = [ok EXCEPT ![t] = @ \union {o}]
        \/ /\ Awaits(t, o) = {} /\ refused
           /\ UNCHANGED ok
        \/ /\ Wrote(t) # {} /\ (IsStart(o) \/ Awaits(t, o) # {})
           /\ UNCHANGED ok
     /\ todo' = [todo EXCEPT ![t] = @ \ {o}]
     /\ reading' = [reading EXCEPT ![t] = None]
     /\ UNCHANGED <<online, closed, outboxVars, viewVars, serverVars, pc, batch, spent,
                    buttonVars, unanswered, stranded, faults>>

\* The transaction of t commits.
Commit(t) ==
  /\ logs' = logs \union {o \in ok[t] : IsStart(o)}
  /\ closers' = closers \union {o \in ok[t] : ~IsStart(o)}
  /\ closedBy' = [s \in Ops |->
       IF \E o \in ok[t] : target[o] = s THEN CHOOSE o \in ok[t] : target[o] = s
       ELSE closedBy[s]]
  /\ UNCHANGED raced

\* It commits, and the tab gets its results, or an error, or is no longer there.
Answer(t) ==
  /\ Serving(t) /\ todo[t] = {}
  /\ Commit(t)
  /\ \/ /\ pc[t] = "sent"
        /\ pc' = [pc EXCEPT ![t] = "answered"]
        /\ todo' = [todo EXCEPT ![t] = batch[t]]
        /\ UNCHANGED <<batch, spent, ok, unanswered, faults>>
     \/ /\ pc[t] = "sent" /\ Fault
        /\ \E p \in {"retryable", "fatal"} : pc' = [pc EXCEPT ![t] = p]
        /\ todo' = [todo EXCEPT ![t] = batch[t]]
        /\ unanswered' = unanswered \union ok[t]
        /\ UNCHANGED <<batch, spent, ok>>
     \/ /\ pc[t] = "orphaned"
        /\ pc' = [pc EXCEPT ![t] = "idle"]
        /\ batch' = [batch EXCEPT ![t] = {}]
        /\ spent' = [spent EXCEPT ![t] = {}]
        /\ ok' = [ok EXCEPT ![t] = {}]
        /\ unanswered' = unanswered \union ok[t]
        /\ UNCHANGED <<todo, faults>>
  /\ UNCHANGED <<online, closed, outboxVars, viewVars, reading, buttonVars, stranded>>

\* Mutants of Settle: only what was accepted is marked; all of it counts as done.
SettleAcceptedOnly(t) ==
  /\ pc[t] = "answered"
  /\ \E o \in todo[t] :
       /\ First(todo[t], o)
       /\ status' = Mark({o} \intersect ok[t], "synced")
       /\ todo' = [todo EXCEPT ![t] = @ \ {o}]
  /\ UNCHANGED <<online, closed, made, target, retries, viewVars, serverVars, pc, batch,
                 spent, ok, reading, buttonVars, unanswered, stranded, faults>>
SettleEverything(t) ==
  /\ pc[t] = "answered"
  /\ \E o \in todo[t] :
       /\ First(todo[t], o)
       /\ status' = Mark({o}, "synced")
       /\ todo' = [todo EXCEPT ![t] = @ \ {o}]
  /\ UNCHANGED <<online, closed, made, target, retries, viewVars, serverVars, pc, batch,
                 spent, ok, reading, buttonVars, unanswered, stranded, faults>>

\* processSyncResults, one row after the other.
Settle(t) ==
  /\ pc[t] = "answered"
  /\ \E o \in todo[t] :
       /\ First(todo[t], o)
       /\ status' = Mark({o}, IF o \in ok[t] THEN "synced" ELSE "quarantined")
       /\ todo' = [todo EXCEPT ![t] = @ \ {o}]
  /\ UNCHANGED <<online, closed, made, target, retries, viewVars, serverVars, pc, batch,
                 spent, ok, reading, buttonVars, unanswered, stranded, faults>>

\* Mutant of SetBack: the status the attendance outbox gives a failure.
SetBackAsFailed(t) ==
  /\ pc[t] = "retryable"
  /\ \E o \in todo[t] :
       /\ First(todo[t], o)
       /\ status' = Mark({o}, "failed")
       /\ retries' = [retries EXCEPT ![o] = @ + 1]
       /\ todo' = [todo EXCEPT ![t] = @ \ {o}]
  /\ UNCHANGED <<online, closed, made, target, viewVars, serverVars, pc, batch, spent, ok,
                 reading, buttonVars, unanswered, stranded, faults>>

\* A retryable error: rejected, or quarantined after too many.
SetBack(t) ==
  /\ pc[t] = "retryable"
  /\ \E o \in todo[t] :
       LET again == o \notin spent[t] IN
       /\ First(todo[t], o)
       /\ status' = Mark({o}, IF again THEN "rejected" ELSE "quarantined")
       /\ retries' = [retries EXCEPT ![o] =
            IF again /\ status[o] # "discarded" THEN @ + 1 ELSE @]
       /\ todo' = [todo EXCEPT ![t] = @ \ {o}]
  /\ UNCHANGED <<online, closed, made, target, viewVars, serverVars, pc, batch, spent, ok,
                 reading, buttonVars, unanswered, stranded, faults>>

\* Any other error: the whole batch is quarantined.
Quarantine(t) ==
  /\ pc[t] = "fatal"
  /\ \E o \in todo[t] :
       /\ First(todo[t], o)
       /\ status' = Mark({o}, "quarantined")
       /\ todo' = [todo EXCEPT ![t] = @ \ {o}]
  /\ UNCHANGED <<online, closed, made, target, retries, viewVars, serverVars, pc, batch,
                 spent, ok, reading, buttonVars, unanswered, stranded, faults>>

\* Mutant of EndDrain: the early return of an error keeps the lock.
EndDrainKeepsLock(t) ==
  /\ pc[t] = "answered" /\ todo[t] = {}
  /\ pc' = [pc EXCEPT ![t] = "idle"]
  /\ batch' = [batch EXCEPT ![t] = {}]
  /\ spent' = [spent EXCEPT ![t] = {}]
  /\ ok' = [ok EXCEPT ![t] = {}]
  /\ UNCHANGED <<online, closed, outboxVars, viewVars, serverVars, todo, reading, buttonVars,
                 unanswered, stranded, faults>>

EndDrain(t) ==
  /\ pc[t] \in {"answered", "retryable", "fatal"} /\ todo[t] = {}
  /\ pc' = [pc EXCEPT ![t] = "idle"]
  /\ batch' = [batch EXCEPT ![t] = {}]
  /\ spent' = [spent EXCEPT ![t] = {}]
  /\ ok' = [ok EXCEPT ![t] = {}]
  /\ UNCHANGED <<online, closed, outboxVars, viewVars, serverVars, todo, reading, buttonVars,
                 unanswered, stranded, faults>>

Serve(t) == ServeRead(t) \/ ServeWrite(t) \/ Answer(t)

Drain(t) ==
  PickBatch(t) \/ MarkSyncing(t) \/ Settle(t) \/ SetBack(t) \/ Quarantine(t) \/ EndDrain(t)

-----------------------------------------------------------------------------
(* The surroundings *)

\* The tab is closed or reloaded: the outbox and its statuses remain; the drain,
\* its lock, the press and the display are gone.
Leave(t) ==
  /\ IF pc[t] = "idle" /\ press[t] = "none" THEN UNCHANGED faults ELSE Fault
  /\ stranded' = IF pc[t] = "picked" THEN stranded ELSE stranded \union Held(t)
  /\ press' = [press EXCEPT ![t] = "none"]
  /\ listed' = [listed EXCEPT ![t] = {}]
  /\ \/ UNCHANGED viewVars
     \/ stopping = None /\ shown' = None /\ local' = FALSE /\ UNCHANGED stopping
  /\ UNCHANGED <<online, closed, outboxVars, serverVars, overtaken, unanswered>>

\* A request that was out is lost, or rolled back.
Reload(t) ==
  /\ pc[t] # "orphaned" /\ Leave(t)
  /\ pc' = [pc EXCEPT ![t] = "idle"]
  /\ batch' = [batch EXCEPT ![t] = {}]
  /\ spent' = [spent EXCEPT ![t] = {}]
  /\ todo' = [todo EXCEPT ![t] = {}]
  /\ ok' = [ok EXCEPT ![t] = {}]
  /\ reading' = [reading EXCEPT ![t] = None]

\* Or the server goes on with it for nobody; the page loaded again is another tab.
Abandon(t) ==
  /\ pc[t] = "sent" /\ Leave(t)
  /\ pc' = [pc EXCEPT ![t] = "orphaned"]
  /\ UNCHANGED <<batch, spent, todo, ok, reading>>

Connect ==
  /\ online' = ~online
  /\ UNCHANGED <<closed, outboxVars, viewVars, serverVars, drainVars, buttonVars,
                 unanswered, stranded, faults>>

\* Somebody completes, cancels or publishes the visit.
CloseVisit ==
  /\ ~closed
  /\ closed' = TRUE
  /\ UNCHANGED <<online, outboxVars, viewVars, serverVars, drainVars, buttonVars,
                 unanswered, stranded, faults>>

Next ==
  \/ StartOffline \/ StopOffline \/ StartOnline \/ ReadToStop \/ WriteStop
  \/ Refresh \/ Connect \/ CloseVisit
  \/ \E t \in Tabs :
       Serve(t) \/ Button(t) \/ Drain(t) \/ RequestFails(t) \/ Reload(t) \/ Abandon(t)

\* While the device is online a timer starts a drain every 30 s, and a call
\* in progress ends; nobody has to press anything.
Fairness ==
  /\ \A t \in Tabs : WF_vars(Serve(t)) /\ WF_vars(Drain(t))
  /\ WF_vars(WriteStop)

Spec == Init /\ [][Next]_vars /\ Fairness

-----------------------------------------------------------------------------
(* Properties *)

\* Has the operation taken effect on the server?
Recorded(o) == IF target[o] = None THEN o \in logs ELSE o \in closers

\* What the device calls synced is on the server: the start has its row, the
\* stop closed one.  Holds through lost answers, reloads, two drains at once
\* and manual retries.
SyncedIsRecorded == \A o \in WithStatus("synced") : Recorded(o)

\* An operation is marked "syncing" only while a drain is busy with it, or for
\* ever after a reload cut that drain short: nothing lists "syncing" rows.
SyncingIsHeld ==
  \A o \in WithStatus("syncing") : o \in stranded \/ \E t \in Tabs : o \in Held(t)

\* With the cross-tab lock, an operation that took effect is not reported as
\* failed, waiting or discarded unless its answer was lost, or a retry or discard
\* came to it from its list after it was no longer failed.
EffectsAreReported ==
  HasLocks => \A o \in Ops :
    Recorded(o) /\ status[o] \in {"pending", "rejected", "quarantined", "discarded"}
      => o \in unanswered \union overtaken

\* The check-out of a log is final: it is replaced only where a second stop, of
\* a batch or online, had read the row as open before the first committed.  No
\* operation that is sent again, or served later, moves it.
CheckOutIsFinal ==
  [][\A s \in Ops : closedBy[s] # None /\ closedBy'[s] # closedBy[s] => s \in raced]_vars

\* With the lock, no operation is tried a second time without somebody asking
\* for it, so retry_count never comes near its limit.
AttemptsAreManual == HasLocks => \A o \in Ops : retries[o] <= 1

\* While the device is online, the outbox gets empty: whatever waits is sent and
\* its outcome marked, unless a reload strands it.
QueuedOpsSettle ==
  <>[]online => []<>(WithStatus("pending") \union WithStatus("syncing") \subseteq stranded)

=============================================================================
