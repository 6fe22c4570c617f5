--------------------------- MODULE FieldSyncProofs ---------------------------
(***************************************************************************)
(* Theorems about FieldSync, for any number of tabs and operations, any    *)
(* batch size and any number of faults, with and without navigator.locks   *)
(* where the statement does not name HasLocks.                             *)
(***************************************************************************)
EXTENDS FieldSync, TLAPS

\* Operations that do not exist yet have no status.
Fresh == \A o \in Ops : o > made => status[o] = "none"

\* The server has nothing of operations that do not exist.
Existing == \A o \in logs \union closers : o <= made

\* How the variables of a drain fit together.
DrainShape ==
  \A t \in Tabs :
    /\ todo[t] \subseteq batch[t] /\ ok[t] \subseteq batch[t]
    /\ \A o \in batch[t] : o <= made
    /\ pc[t] = "picked" => todo[t] = batch[t] /\ ok[t] = {}
    /\ pc[t] = "idle" => batch[t] = {}
    /\ reading[t] # None => Serving(t) /\ reading[t] \in todo[t]

\* Retry and discard list operations that exist.
Listed == \A t \in Tabs : \A o \in listed[t] : o <= made

\* What the server has accepted and answered is recorded.
AcceptedIsRecorded ==
  \A t \in Tabs : pc[t] = "answered" => \A o \in ok[t] : Recorded(o)

\* SyncingIsHeld, by a drain that has marked what it holds.
SyncingIsMarked ==
  \A o \in WithStatus("syncing") :
    o \in stranded \/ \E t \in Tabs : pc[t] \notin {"picked", "orphaned"} /\ o \in Held(t)

\* Two stops of one log that have both read it as open, or one that has read it
\* beside another's write, are on record.
RacesAreKnown ==
  \A s \in Ops :
    /\ closedBy[s] # None /\ Racing(s) => s \in raced
    /\ \A t \in Tabs : stopping = s /\ s \in StopsOf(t) => s \in raced
    /\ \A t, u \in Tabs : t # u /\ s \in StopsOf(t) /\ s \in StopsOf(u) => s \in raced

\* A drain whose tab is there.
Active(t) == pc[t] \notin {"idle", "orphaned"}

\* The two ways in which the outbox may misstate an effect.
Excused(o) == o \in unanswered \union overtaken

\* With the lock there is one drain, and only a press touches its batch.
OneDrain == \A t, u \in Tabs : Active(t) /\ Active(u) => t = u

BatchStatus ==
  \A t \in Tabs : \A o \in batch[t] :
    /\ pc[t] = "picked" => status[o] = "pending" \/ o \in overtaken
    /\ pc[t] = "sent" => status[o] = "syncing" \/ o \in overtaken

\* An effect of an operation of the batch is accounted for.
BatchEffects ==
  \A t \in Tabs : Active(t) =>
    \A o \in batch[t] : Recorded(o) => Excused(o) \/ (o \in ok[t] /\ pc[t] = "answered")

Waiting == {"pending", "rejected", "quarantined", "discarded"}

EffectsKnown == \A o \in Ops : Recorded(o) /\ status[o] \in Waiting => Excused(o)

\* What waits or is being sent has not failed since somebody last asked.
RetriesAtRest ==
  /\ \A o \in Ops :
       retries[o] <= 1 /\ (status[o] \in {"none", "pending", "syncing"} => retries[o] = 0)
  /\ \A t \in Tabs : Active(t) => \A o \in Held(t) : retries[o] = 0

LockedInv == OneDrain /\ BatchStatus /\ BatchEffects /\ EffectsKnown /\ RetriesAtRest

IInv ==
  /\ TypeOK /\ Fresh /\ Existing /\ DrainShape /\ Listed
  /\ AcceptedIsRecorded /\ SyncedIsRecorded /\ SyncingIsMarked /\ RacesAreKnown
  /\ HasLocks => LockedInv

-----------------------------------------------------------------------------
(* Types *)

\* What a newly created operation leaves has its types.
LEMMA CreateTypes ==
  ASSUME TypeOK, NEW o \in Ops, NEW s \in 0..MaxOps, NEW st \in Statuses, Create(o, s, st)
  PROVE  /\ made' \in 0..MaxOps
         /\ target' \in [Ops -> 0..MaxOps]
         /\ status' \in [Ops -> Statuses]
         /\ retries' \in [Ops -> Nat]
BY FieldAssumption DEF TypeOK, Create, Ops

\* A marking gives statuses.
LEMMA MarkTypes ==
  ASSUME TypeOK, NEW S, NEW st \in Statuses
  PROVE  Mark(S, st) \in [Ops -> Statuses]
BY DEF TypeOK, Mark

\* The values the actions write.
LEMMA Names ==
  /\ None \in 0..MaxOps
  /\ \A o \in Ops : o \in 0..MaxOps
  /\ \A st \in {"pending", "direct", "syncing", "synced", "rejected", "quarantined",
                "discarded"} : st \in Statuses
  /\ \A p \in {"idle", "picked", "sent", "orphaned", "answered", "retryable", "fatal"} :
       p \in Stages
  /\ \A p \in {"none", "requeue", "requeueLast", "delete", "deleteLast"} : p \in Presses
BY FieldAssumption DEF None, Ops, Statuses, Stages, Presses

\* A fault is counted.
LEMMA FaultTypes == ASSUME TypeOK, Fault PROVE faults' \in Nat
BY DEF TypeOK, Fault

\* Every step keeps the types.
LEMMA TypeStep ==
  ASSUME TypeOK, [Next]_vars
  PROVE  TypeOK'
<1> USE Names
<1>0. CASE UNCHANGED vars
  BY <1>0 DEF TypeOK, vars, outboxVars, viewVars, serverVars, drainVars, buttonVars
<1>1. CASE StartOffline
  <2>1. PICK o \in Ops : Create(o, None, "pending")
    BY <1>1 DEF StartOffline
  <2>2. /\ made' \in 0..MaxOps /\ target' \in [Ops -> 0..MaxOps]
        /\ status' \in [Ops -> Statuses] /\ retries' \in [Ops -> Nat]
    BY <2>1, CreateTypes DEF TypeOK
  <2> QED
    BY <1>1, <2>1, <2>2 DEF TypeOK, StartOffline, Fault, vars, outboxVars, viewVars, serverVars, drainVars, buttonVars
<1>2. CASE StopOffline
  <2>1. PICK o \in Ops : Create(o, shown, "pending")
    BY <1>2 DEF StopOffline
  <2>2. /\ made' \in 0..MaxOps /\ target' \in [Ops -> 0..MaxOps]
        /\ status' \in [Ops -> Statuses] /\ retries' \in [Ops -> Nat]
    BY <2>1, CreateTypes DEF TypeOK
  <2> QED
    BY <1>2, <2>1, <2>2 DEF TypeOK, StopOffline, Fault, vars, outboxVars, viewVars, serverVars, drainVars, buttonVars
<1>3. CASE StartOnline
  <2>1. PICK o \in Ops : Create(o, None, "direct")
    BY <1>3 DEF StartOnline
  <2>2. /\ made' \in 0..MaxOps /\ target' \in [Ops -> 0..MaxOps]
        /\ status' \in [Ops -> Statuses] /\ retries' \in [Ops -> Nat]
    BY <2>1, CreateTypes DEF TypeOK
  <2> QED
    BY <1>3, <2>1, <2>2 DEF TypeOK, StartOnline, Fault, vars, outboxVars, viewVars, serverVars, drainVars, buttonVars
<1>4. CASE ReadToStop
  BY <1>4 DEF ReadToStop, TypeOK, Open, Ops, vars, outboxVars, viewVars, serverVars, drainVars, buttonVars
<1>5. CASE WriteStop
  <2>1. PICK o \in Ops : Create(o, stopping, "direct")
    BY <1>5 DEF WriteStop
  <2>2. /\ made' \in 0..MaxOps /\ target' \in [Ops -> 0..MaxOps]
        /\ status' \in [Ops -> Statuses] /\ retries' \in [Ops -> Nat]
    BY <2>1, CreateTypes DEF TypeOK
  <2>3. closers' \subseteq Ops /\ closedBy' \in [Ops -> 0..MaxOps]
    BY <1>5 DEF TypeOK, WriteStop
  <2>4. shown' \in 0..MaxOps /\ stopping' \in 0..MaxOps /\ faults' \in Nat
    BY <1>5 DEF TypeOK, WriteStop, Fault
  <2> QED
    BY <1>5, <2>2, <2>3, <2>4 DEF TypeOK, WriteStop, vars, outboxVars, viewVars, serverVars, drainVars, buttonVars
<1>6. CASE Refresh
  BY <1>6 DEF Refresh, TypeOK, Open, Ops, vars, outboxVars, viewVars, serverVars, drainVars, buttonVars
<1>7. CASE Connect
  BY <1>7 DEF Connect, TypeOK, vars, outboxVars, viewVars, serverVars, drainVars, buttonVars
<1>8. CASE CloseVisit
  BY <1>8 DEF CloseVisit, TypeOK, vars, outboxVars, viewVars, serverVars, drainVars, buttonVars
<1>9. ASSUME NEW t \in Tabs, Press(t)
  PROVE  TypeOK'
  BY <1>9, FaultTypes DEF TypeOK, Press, Lists, WithStatus, vars, outboxVars, viewVars, serverVars, drainVars, buttonVars
<1>10. ASSUME NEW t \in Tabs, ListMore(t)
  PROVE  TypeOK'
  BY <1>10 DEF TypeOK, ListMore, Lists, WithStatus, vars, outboxVars, viewVars, serverVars, drainVars, buttonVars
<1>11. ASSUME NEW t \in Tabs, Requeue(t)
  PROVE  TypeOK'
  BY <1>11, MarkTypes DEF TypeOK, Requeue, vars, outboxVars, viewVars, serverVars, drainVars, buttonVars
<1>12. ASSUME NEW t \in Tabs, Delete(t)
  PROVE  TypeOK'
  BY <1>12, MarkTypes DEF TypeOK, Delete, vars, outboxVars, viewVars, serverVars, drainVars, buttonVars
<1>13. ASSUME NEW t \in Tabs, PickBatch(t)
  PROVE  TypeOK'
  BY <1>13 DEF PickBatch, TypeOK, BatchOf, Eligible, WithStatus, vars, outboxVars, viewVars, serverVars, drainVars, buttonVars
<1>14. ASSUME NEW t \in Tabs, MarkSyncing(t)
  PROVE  TypeOK'
  BY <1>14, MarkTypes DEF TypeOK, MarkSyncing, vars, outboxVars, viewVars, serverVars, drainVars, buttonVars
<1>15. ASSUME NEW t \in Tabs, Settle(t)
  PROVE  TypeOK'
  BY <1>15, MarkTypes DEF TypeOK, Settle, vars, outboxVars, viewVars, serverVars, drainVars, buttonVars
<1>16. ASSUME NEW t \in Tabs, SetBack(t)
  PROVE  TypeOK'
  BY <1>16, MarkTypes DEF TypeOK, SetBack, vars, outboxVars, viewVars, serverVars, drainVars, buttonVars
<1>17. ASSUME NEW t \in Tabs, Quarantine(t)
  PROVE  TypeOK'
  BY <1>17, MarkTypes DEF TypeOK, Quarantine, vars, outboxVars, viewVars, serverVars, drainVars, buttonVars
<1>18. ASSUME NEW t \in Tabs, EndDrain(t)
  PROVE  TypeOK'
  BY <1>18 DEF EndDrain, TypeOK, vars, outboxVars, viewVars, serverVars, drainVars, buttonVars
<1>19. ASSUME NEW t \in Tabs, RequestFails(t)
  PROVE  TypeOK'
  BY <1>19, FaultTypes DEF RequestFails, TypeOK, vars, outboxVars, viewVars, serverVars, drainVars, buttonVars
<1>20. ASSUME NEW t \in Tabs, ServeRead(t)
  PROVE  TypeOK'
  <2>1. /\ todo' \in [Tabs -> SUBSET Ops] /\ ok' \in [Tabs -> SUBSET Ops]
        /\ reading' \in [Tabs -> 0..MaxOps]
    BY <1>20 DEF TypeOK, ServeRead
  <2>2. raced' \subseteq Ops
    BY <1>20 DEF TypeOK, ServeRead, StopReads, SeenOpen, SeenLogs, IsStart
  <2> QED
    BY <1>20, <2>1, <2>2 DEF TypeOK, ServeRead, vars, outboxVars, viewVars, serverVars, drainVars, buttonVars
<1>21. ASSUME NEW t \in Tabs, ServeWrite(t)
  PROVE  TypeOK'
  <2>1. /\ todo' \in [Tabs -> SUBSET Ops] /\ reading' \in [Tabs -> 0..MaxOps]
    BY <1>21 DEF TypeOK, ServeWrite
  <2>2. ok' \in [Tabs -> SUBSET Ops]
    <3>1. reading[t] \in Ops
      BY <1>21, FieldAssumption DEF TypeOK, ServeWrite, Ops, None
    <3>2. ok' = ok \/ ok' = [ok EXCEPT ![t] = @ \union {reading[t]}]
      BY <1>21 DEF ServeWrite
    <3> QED
      BY <3>1, <3>2 DEF TypeOK
  <2> QED
    BY <1>21, <2>1, <2>2 DEF TypeOK, ServeWrite, vars, outboxVars, viewVars, serverVars, drainVars, buttonVars
<1>22. ASSUME NEW t \in Tabs, Answer(t)
  PROVE  TypeOK'
  <2>1. logs' \subseteq Ops /\ closers' \subseteq Ops /\ raced' \subseteq Ops
    BY <1>22 DEF TypeOK, Answer, Commit
  <2>2. closedBy' \in [Ops -> 0..MaxOps]
    <3>1. ASSUME NEW s \in Ops, \E o \in ok[t] : target[o] = s
          PROVE  (CHOOSE o \in ok[t] : target[o] = s) \in 0..MaxOps
      BY <3>1 DEF TypeOK
    <3> QED
      BY <1>22, <3>1 DEF TypeOK, Answer, Commit
  <2>3. /\ pc' \in [Tabs -> Stages] /\ todo' \in [Tabs -> SUBSET Ops]
        /\ batch' \in [Tabs -> SUBSET Ops] /\ spent' \in [Tabs -> SUBSET Ops]
        /\ ok' \in [Tabs -> SUBSET Ops] /\ unanswered' \subseteq Ops /\ faults' \in Nat
    BY <1>22, FaultTypes DEF TypeOK, Answer
  <2> QED
    BY <1>22, <2>1, <2>2, <2>3 DEF TypeOK, Answer, vars, outboxVars, viewVars, serverVars, drainVars, buttonVars
<1>23. ASSUME NEW t \in Tabs, Reload(t)
  PROVE  TypeOK'
  <2>1. /\ faults' \in Nat /\ stranded' \subseteq Ops
        /\ press' \in [Tabs -> Presses] /\ listed' \in [Tabs -> SUBSET Ops]
    BY <1>23, FaultTypes DEF TypeOK, Reload, Leave, Held
  <2>2. shown' \in 0..MaxOps /\ local' \in BOOLEAN /\ stopping' \in 0..MaxOps
    BY <1>23 DEF TypeOK, Reload, Leave, viewVars
  <2> QED
    BY <1>23, <2>1, <2>2 DEF TypeOK, Reload, Leave, outboxVars, serverVars
<1>24. ASSUME NEW t \in Tabs, Abandon(t)
  PROVE  TypeOK'
  <2>1. /\ faults' \in Nat /\ stranded' \subseteq Ops
        /\ press' \in [Tabs -> Presses] /\ listed' \in [Tabs -> SUBSET Ops]
    BY <1>24, FaultTypes DEF TypeOK, Abandon, Leave, Held
  <2>2. shown' \in 0..MaxOps /\ local' \in BOOLEAN /\ stopping' \in 0..MaxOps
    BY <1>24 DEF TypeOK, Abandon, Leave, viewVars
  <2> QED
    BY <1>24, <2>1, <2>2 DEF TypeOK, Abandon, Leave, outboxVars, serverVars
<1> QED
  BY <1>0, <1>1, <1>2, <1>3, <1>4, <1>5, <1>6, <1>7, <1>8, <1>9, <1>10, <1>11, <1>12, <1>13, <1>14, <1>15, <1>16, <1>17, <1>18, <1>19, <1>20, <1>21, <1>22, <1>23, <1>24 DEF Next, Serve, Button, Drain

-----------------------------------------------------------------------------
(* The steps, by what they do to the outbox and to the drains *)

\* Nothing the outbox, the drains or the recorded operations show.
Quiet ==
  UNCHANGED <<outboxVars, logs, closers, drainVars, overtaken, unanswered, stranded>>

\* A press of start or stop, recorded at once when it was pressed online.
Makes ==
  \E o \in Ops, s \in 0..MaxOps, st \in {"pending", "direct"} :
    /\ Create(o, s, st)
    /\ logs' = logs \/ (st = "direct" /\ logs' = logs \union {o})
    /\ closers' = closers \/ (st = "direct" /\ closers' = closers \union {o})
    /\ UNCHANGED <<drainVars, overtaken, unanswered, stranded>>

\* A retry or discard rewrites rows.
Rewrites ==
  \E S \in SUBSET Ops :
    /\ \A o \in S : o <= made
    /\ \/ status' = Mark(S, "pending") /\ \E o \in S : S = {o} /\ retries' = [retries EXCEPT ![o] = 0]
       \/ status' = Mark(S, "discarded") /\ UNCHANGED retries
    /\ overtaken' = overtaken \union (S \ Failed)
    /\ UNCHANGED <<made, target, logs, closers, drainVars, unanswered, stranded>>

\* A drain marks the outcome of one operation.
Marks(t) ==
  /\ pc[t] \in {"answered", "retryable", "fatal"}
  /\ \E o \in todo[t], st \in {"synced", "rejected", "quarantined"} :
       /\ status' = Mark({o}, st)
       /\ pc[t] = "answered" => (st = "synced" <=> o \in ok[t])
       /\ st = "synced" => pc[t] = "answered"
       /\ \/ UNCHANGED retries
          \/ /\ st = "rejected" /\ status[o] # "discarded"
             /\ retries' = [retries EXCEPT ![o] = @ + 1]
       /\ todo' = [todo EXCEPT ![t] = @ \ {o}]
  /\ UNCHANGED <<made, target, logs, closers, pc, batch, ok, reading,
                 overtaken, unanswered, stranded>>

\* The server goes on with a batch.
Serves(t) ==
  /\ Serving(t)
  /\ \E S \in SUBSET todo[t] :
       /\ todo' = [todo EXCEPT ![t] = @ \ S]
       /\ ok' = ok \/ ok' = [ok EXCEPT ![t] = @ \union S]
       /\ \/ S # {} /\ reading' = [reading EXCEPT ![t] = None]
          \/ S # {} /\ reading[t] = None /\ UNCHANGED reading
          \/ S = {} /\ \E o \in todo[t] : reading' = [reading EXCEPT ![t] = o]
  /\ UNCHANGED <<outboxVars, logs, closers, pc, batch, spent,
                 overtaken, unanswered, stranded>>

\* Every step is one of these.
LEMMA StepCases ==
  ASSUME TypeOK, DrainShape, Listed, [Next]_vars
  PROVE  \/ Quiet \/ Makes \/ Rewrites
         \/ \E t \in Tabs :
              \/ PickBatch(t) \/ MarkSyncing(t) \/ Marks(t) \/ EndDrain(t)
              \/ RequestFails(t) \/ Serves(t) \/ Answer(t) \/ Reload(t) \/ Abandon(t)
<1> DEFINE StepCase == \/ Quiet \/ Makes \/ Rewrites
                       \/ \E t \in Tabs :
                            \/ PickBatch(t) \/ MarkSyncing(t) \/ Marks(t) \/ EndDrain(t)
                            \/ RequestFails(t) \/ Serves(t) \/ Answer(t) \/ Reload(t) \/ Abandon(t)
<1> SUFFICES StepCase
  OBVIOUS
<1>s. \A t \in Tabs : reading[t] # None => reading[t] \in todo[t]
  BY DEF DrainShape
<1>0. CASE UNCHANGED vars
  BY <1>0 DEF vars, Quiet, outboxVars, drainVars, viewVars, serverVars, buttonVars
<1>1. CASE StartOffline
  <2>1. PICK o \in Ops : Create(o, None, "pending")
    BY <1>1 DEF StartOffline
  <2>2. None \in 0..MaxOps
    BY Names DEF TypeOK
  <2>3. UNCHANGED <<drainVars, overtaken, unanswered, stranded>>
    BY <1>1 DEF StartOffline, buttonVars
  <2>4. logs' = logs /\ closers' = closers
    BY <1>1 DEF StartOffline, serverVars
  <2>5. Makes
    BY <2>1, <2>2, <2>3, <2>4 DEF Makes
  <2> QED
    BY <2>5
<1>2. CASE StopOffline
  <2>1. PICK o \in Ops : Create(o, shown, "pending")
    BY <1>2 DEF StopOffline
  <2>2. shown \in 0..MaxOps
    BY Names DEF TypeOK
  <2>3. UNCHANGED <<drainVars, overtaken, unanswered, stranded>>
    BY <1>2 DEF StopOffline, buttonVars
  <2>4. logs' = logs /\ closers' = closers
    BY <1>2 DEF StopOffline, serverVars
  <2>5. Makes
    BY <2>1, <2>2, <2>3, <2>4 DEF Makes
  <2> QED
    BY <2>5
<1>3. CASE StartOnline
  <2>1. PICK o \in Ops : Create(o, None, "direct") /\ logs' = logs \union {o}
    BY <1>3 DEF StartOnline
  <2>2. None \in 0..MaxOps
    BY Names DEF TypeOK
  <2>3. UNCHANGED <<drainVars, overtaken, unanswered, stranded>>
    BY <1>3 DEF StartOnline, buttonVars
  <2>4. logs' = logs \union {o} /\ closers' = closers
    BY <1>3, <2>1 DEF StartOnline, serverVars
  <2>5. Makes
    BY <2>1, <2>2, <2>3, <2>4 DEF Makes
  <2> QED
    BY <2>5
<1>4. CASE ReadToStop
  BY <1>4 DEF ReadToStop, Quiet, outboxVars, drainVars, viewVars, serverVars, buttonVars
<1>5. CASE WriteStop
  <2>1. PICK o \in Ops : Create(o, stopping, "direct") /\ closers' = closers \union {o}
    BY <1>5 DEF WriteStop
  <2>2. stopping \in 0..MaxOps
    BY Names DEF TypeOK
  <2>3. UNCHANGED <<drainVars, overtaken, unanswered, stranded>>
    BY <1>5 DEF WriteStop, buttonVars
  <2>4. logs' = logs /\ closers' = closers \union {o}
    BY <1>5, <2>1 DEF WriteStop, serverVars
  <2>5. Makes
    BY <2>1, <2>2, <2>3, <2>4 DEF Makes
  <2> QED
    BY <2>5
<1>6. CASE Refresh
  BY <1>6 DEF Refresh, Quiet, outboxVars, drainVars, viewVars, serverVars, buttonVars
<1>7. CASE Connect
  BY <1>7 DEF Connect, Quiet, outboxVars, drainVars, viewVars, serverVars, buttonVars
<1>8. CASE CloseVisit
  BY <1>8 DEF CloseVisit, Quiet, outboxVars, drainVars, viewVars, serverVars, buttonVars
<1>9. ASSUME NEW t \in Tabs, Press(t)
  PROVE  StepCase
  BY <1>9 DEF Press, Quiet, outboxVars, drainVars, viewVars, serverVars, buttonVars
<1>10. ASSUME NEW t \in Tabs, ListMore(t)
  PROVE  StepCase
  BY <1>10 DEF ListMore, Quiet, outboxVars, drainVars, viewVars, serverVars, buttonVars
<1>11. ASSUME NEW t \in Tabs, Requeue(t)
  PROVE  StepCase
  <2>1. PICK o \in listed[t] :
          /\ status' = Mark({o}, "pending")
          /\ retries' = [retries EXCEPT ![o] = 0]
          /\ overtaken' = overtaken \union ({o} \ Failed)
    BY <1>11 DEF Requeue
  <2>2. {o} \in SUBSET Ops /\ o <= made
    BY <2>1 DEF TypeOK, Listed
  <2>3. UNCHANGED <<made, target, logs, closers, drainVars, unanswered, stranded>>
    BY <1>11 DEF Requeue, serverVars
  <2>4. Rewrites
    BY <2>1, <2>2, <2>3 DEF Rewrites
  <2> QED
    BY <2>4
<1>12. ASSUME NEW t \in Tabs, Delete(t)
  PROVE  StepCase
  <2>1. /\ status' = Mark(listed[t], "discarded") /\ UNCHANGED retries
        /\ overtaken' = overtaken \union (listed[t] \ Failed)
    BY <1>12 DEF Delete
  <2>2. listed[t] \in SUBSET Ops /\ \A o \in listed[t] : o <= made
    BY DEF TypeOK, Listed
  <2>3. UNCHANGED <<made, target, logs, closers, drainVars, unanswered, stranded>>
    BY <1>12 DEF Delete, serverVars
  <2>4. Rewrites
    BY <2>1, <2>2, <2>3 DEF Rewrites
  <2> QED
    BY <2>4
<1>13. ASSUME NEW t \in Tabs, PickBatch(t)
  PROVE  StepCase
  BY <1>13
<1>14. ASSUME NEW t \in Tabs, MarkSyncing(t)
  PROVE  StepCase
  BY <1>14
<1>15. ASSUME NEW t \in Tabs, Settle(t)
  PROVE  StepCase
  <2>1. PICK o \in todo[t] :
          /\ status' = Mark({o}, IF o \in ok[t] THEN "synced" ELSE "quarantined")
          /\ todo' = [todo EXCEPT ![t] = @ \ {o}]
    BY <1>15 DEF Settle
  <2>2. UNCHANGED <<made, target, logs, closers, pc, batch, ok, reading,
                    overtaken, unanswered, stranded>>
    BY <1>15 DEF Settle, serverVars, buttonVars
  <2>3. Marks(t)
    BY <1>15, <2>1, <2>2 DEF Settle, Marks
  <2> QED
    BY <2>3
<1>16. ASSUME NEW t \in Tabs, SetBack(t)
  PROVE  StepCase
  <2>1. PICK o \in todo[t], st \in {"rejected", "quarantined"} :
          /\ status' = Mark({o}, st)
          /\ todo' = [todo EXCEPT ![t] = @ \ {o}]
          /\ \/ UNCHANGED retries
             \/ /\ st = "rejected" /\ status[o] # "discarded"
                /\ retries' = [retries EXCEPT ![o] = @ + 1]
    <3>1. PICK o \in todo[t] :
            /\ status' = Mark({o}, IF o \notin spent[t] THEN "rejected" ELSE "quarantined")
            /\ retries' = [retries EXCEPT ![o] =
                 IF o \notin spent[t] /\ status[o] # "discarded" THEN @ + 1 ELSE @]
            /\ todo' = [todo EXCEPT ![t] = @ \ {o}]
      BY <1>16 DEF SetBack
    <3>2. CASE o \notin spent[t] /\ status[o] # "discarded"
      BY <3>1, <3>2
    <3>3. CASE ~(o \notin spent[t] /\ status[o] # "discarded")
      <4>1. UNCHANGED retries
        BY <3>1, <3>3 DEF TypeOK
      <4> QED
        BY <3>1, <4>1
    <3> QED
      BY <3>2, <3>3
  <2>2. UNCHANGED <<made, target, logs, closers, pc, batch, ok, reading,
                    overtaken, unanswered, stranded>>
    BY <1>16 DEF SetBack, serverVars, buttonVars
  <2>3. Marks(t)
    BY <1>16, <2>1, <2>2 DEF SetBack, Marks
  <2> QED
    BY <2>3
<1>17. ASSUME NEW t \in Tabs, Quarantine(t)
  PROVE  StepCase
  <2>1. PICK o \in todo[t] :
          /\ status' = Mark({o}, "quarantined") /\ UNCHANGED retries
          /\ todo' = [todo EXCEPT ![t] = @ \ {o}]
    BY <1>17 DEF Quarantine
  <2>2. UNCHANGED <<made, target, logs, closers, pc, batch, ok, reading,
                    overtaken, unanswered, stranded>>
    BY <1>17 DEF Quarantine, serverVars, buttonVars
  <2>3. Marks(t)
    BY <1>17, <2>1, <2>2 DEF Quarantine, Marks
  <2> QED
    BY <2>3
<1>18. ASSUME NEW t \in Tabs, EndDrain(t)
  PROVE  StepCase
  BY <1>18
<1>19. ASSUME NEW t \in Tabs, RequestFails(t)
  PROVE  StepCase
  BY <1>19
<1>20. ASSUME NEW t \in Tabs, ServeRead(t)
  PROVE  StepCase
  <2>1. Serving(t) /\ reading[t] = None
    BY <1>20 DEF ServeRead
  <2>2. \E S \in SUBSET todo[t] :
          /\ todo' = [todo EXCEPT ![t] = @ \ S]
          /\ ok' = ok \/ ok' = [ok EXCEPT ![t] = @ \union S]
          /\ \/ S # {} /\ reading' = [reading EXCEPT ![t] = None]
             \/ S # {} /\ reading[t] = None /\ UNCHANGED reading
             \/ S = {} /\ \E o \in todo[t] : reading' = [reading EXCEPT ![t] = o]
    <3>1. PICK o \in todo[t] :
            \/ /\ todo' = [todo EXCEPT ![t] = @ \ {o}]
               /\ ok' = ok \/ ok' = [ok EXCEPT ![t] = @ \union {o}]
               /\ UNCHANGED reading
            \/ UNCHANGED <<todo, ok>> /\ reading' = [reading EXCEPT ![t] = o]
      BY <1>20 DEF ServeRead
    <3>2. CASE UNCHANGED reading /\ todo' = [todo EXCEPT ![t] = @ \ {o}]
      <4> WITNESS {o} \in SUBSET todo[t]
      <4> QED
        BY <3>1, <3>2, <2>1
    <3>3. CASE UNCHANGED <<todo, ok>> /\ reading' = [reading EXCEPT ![t] = o]
      <4>1. todo' = [todo EXCEPT ![t] = @ \ {}]
        BY <3>3 DEF TypeOK
      <4> WITNESS {} \in SUBSET todo[t]
      <4> QED
        BY <3>1, <3>3, <4>1
    <3> QED
      BY <3>1, <3>2, <3>3
  <2>3. UNCHANGED <<outboxVars, logs, closers, pc, batch, spent, overtaken, unanswered, stranded>>
    BY <1>20 DEF ServeRead, buttonVars
  <2>4. Serves(t)
    BY <2>1, <2>2, <2>3 DEF Serves
  <2> QED
    BY <2>4
<1>21. ASSUME NEW t \in Tabs, ServeWrite(t)
  PROVE  StepCase
  <2>1. Serving(t)
    BY <1>21 DEF ServeWrite
  <2>2. reading[t] \in todo[t]
    BY <1>21, <1>s DEF ServeWrite
  <2>3. /\ todo' = [todo EXCEPT ![t] = @ \ {reading[t]}]
        /\ ok' = ok \/ ok' = [ok EXCEPT ![t] = @ \union {reading[t]}]
        /\ reading' = [reading EXCEPT ![t] = None]
    BY <1>21 DEF ServeWrite
  <2>4. UNCHANGED <<outboxVars, logs, closers, pc, batch, spent, overtaken, unanswered, stranded>>
    BY <1>21 DEF ServeWrite, buttonVars, serverVars
  <2>5. \E S \in SUBSET todo[t] :
          /\ todo' = [todo EXCEPT ![t] = @ \ S]
          /\ ok' = ok \/ ok' = [ok EXCEPT ![t] = @ \union S]
          /\ \/ S # {} /\ reading' = [reading EXCEPT ![t] = None]
             \/ S # {} /\ reading[t] = None /\ UNCHANGED reading
             \/ S = {} /\ \E o \in todo[t] : reading' = [reading EXCEPT ![t] = o]
    <3> USE <2>2
    <3> WITNESS {reading[t]} \in SUBSET todo[t]
    <3> QED
      BY <2>3
  <2>6. Serves(t)
    BY <2>1, <2>4, <2>5 DEF Serves
  <2> QED
    BY <2>6
<1>22. ASSUME NEW t \in Tabs, Answer(t)
  PROVE  StepCase
  BY <1>22
<1>23. ASSUME NEW t \in Tabs, Reload(t)
  PROVE  StepCase
  BY <1>23
<1>24. ASSUME NEW t \in Tabs, Abandon(t)
  PROVE  StepCase
  BY <1>24
<1> QED
  BY <1>0, <1>1, <1>2, <1>3, <1>4, <1>5, <1>6, <1>7, <1>8, <1>9, <1>10, <1>11, <1>12, <1>13, <1>14, <1>15, <1>16, <1>17, <1>18, <1>19, <1>20, <1>21, <1>22, <1>23, <1>24 DEF Next, Serve, Button, Drain

-----------------------------------------------------------------------------
(* The invariant, part by part *)

\* An operation that exists keeps its target, and what is recorded stays recorded.
LEMMA RecordedStays ==
  ASSUME TypeOK, DrainShape, Listed, [Next]_vars
  PROVE  \A o \in Ops : o <= made => target'[o] = target[o] /\ (Recorded(o) => Recorded(o)')
<1> USE FieldAssumption DEF TypeOK, Ops, Recorded
<1>1. CASE Quiet
  BY <1>1 DEF Quiet, outboxVars, drainVars
<1>2. CASE Makes
  <2>1. PICK p \in Ops, s \in 0..MaxOps :
          /\ p = made + 1
          /\ target' = [target EXCEPT ![p] = s]
          /\ logs \subseteq logs' /\ closers \subseteq closers'
    BY <1>2 DEF Makes, Create
  <2>2. \A o \in Ops : o <= made => target'[o] = target[o]
    BY <2>1
  <2> QED
    BY <2>1, <2>2
<1>3. CASE Rewrites
  BY <1>3 DEF Rewrites, Mark, drainVars
<1>4. ASSUME NEW t \in Tabs, PickBatch(t)
  PROVE  \A o \in Ops : o <= made => target'[o] = target[o] /\ (Recorded(o) => Recorded(o)')
  BY <1>4 DEF PickBatch, BatchOf, Eligible, WithStatus, MayDrain, outboxVars, serverVars, buttonVars
<1>5. ASSUME NEW t \in Tabs, MarkSyncing(t)
  PROVE  \A o \in Ops : o <= made => target'[o] = target[o] /\ (Recorded(o) => Recorded(o)')
  BY <1>5 DEF MarkSyncing, Mark, serverVars, buttonVars
<1>6. ASSUME NEW t \in Tabs, Marks(t)
  PROVE  \A o \in Ops : o <= made => target'[o] = target[o] /\ (Recorded(o) => Recorded(o)')
  BY <1>6 DEF Marks, Mark
<1>7. ASSUME NEW t \in Tabs, EndDrain(t)
  PROVE  \A o \in Ops : o <= made => target'[o] = target[o] /\ (Recorded(o) => Recorded(o)')
  BY <1>7 DEF EndDrain, outboxVars, serverVars, buttonVars
<1>8. ASSUME NEW t \in Tabs, RequestFails(t)
  PROVE  \A o \in Ops : o <= made => target'[o] = target[o] /\ (Recorded(o) => Recorded(o)')
  BY <1>8 DEF RequestFails, outboxVars, serverVars, buttonVars
<1>9. ASSUME NEW t \in Tabs, Serves(t)
  PROVE  \A o \in Ops : o <= made => target'[o] = target[o] /\ (Recorded(o) => Recorded(o)')
  BY <1>9 DEF Serves, outboxVars
<1>10. ASSUME NEW t \in Tabs, Answer(t)
  PROVE  \A o \in Ops : o <= made => target'[o] = target[o] /\ (Recorded(o) => Recorded(o)')
  BY <1>10 DEF Answer, Commit, outboxVars, buttonVars
<1>11. ASSUME NEW t \in Tabs, Reload(t)
  PROVE  \A o \in Ops : o <= made => target'[o] = target[o] /\ (Recorded(o) => Recorded(o)')
  BY <1>11 DEF Reload, Leave, outboxVars, serverVars
<1>12. ASSUME NEW t \in Tabs, Abandon(t)
  PROVE  \A o \in Ops : o <= made => target'[o] = target[o] /\ (Recorded(o) => Recorded(o)')
  BY <1>12 DEF Abandon, Leave, outboxVars, serverVars
<1> QED
  BY StepCases, <1>1, <1>2, <1>3, <1>4, <1>5, <1>6, <1>7, <1>8, <1>9, <1>10, <1>11, <1>12

\* Every step keeps the numbering and the shape of the drains.
LEMMA ShapeStep ==
  ASSUME TypeOK, Fresh, DrainShape, Listed, [Next]_vars
  PROVE  Fresh' /\ DrainShape'
<1> USE FieldAssumption DEF TypeOK, Fresh, DrainShape, Ops, None, Serving
<1>1. CASE Quiet
  BY <1>1 DEF Quiet, outboxVars, drainVars
<1>2. CASE Makes
  BY <1>2 DEF Makes, Create, drainVars
<1>3. CASE Rewrites
  BY <1>3 DEF Rewrites, Mark, drainVars
<1>4. ASSUME NEW t \in Tabs, PickBatch(t)
  PROVE  Fresh' /\ DrainShape'
  BY <1>4 DEF PickBatch, BatchOf, Eligible, WithStatus, MayDrain, outboxVars, serverVars, buttonVars
<1>5. ASSUME NEW t \in Tabs, MarkSyncing(t)
  PROVE  Fresh' /\ DrainShape'
  BY <1>5 DEF MarkSyncing, Mark, serverVars, buttonVars
<1>6. ASSUME NEW t \in Tabs, Marks(t)
  PROVE  Fresh' /\ DrainShape'
  BY <1>6 DEF Marks, Mark
<1>7. ASSUME NEW t \in Tabs, EndDrain(t)
  PROVE  Fresh' /\ DrainShape'
  BY <1>7 DEF EndDrain, outboxVars, serverVars, buttonVars
<1>8. ASSUME NEW t \in Tabs, RequestFails(t)
  PROVE  Fresh' /\ DrainShape'
  BY <1>8 DEF RequestFails, outboxVars, serverVars, buttonVars
<1>9. ASSUME NEW t \in Tabs, Serves(t)
  PROVE  Fresh' /\ DrainShape'
  <2>1. PICK S \in SUBSET todo[t] :
          /\ todo' = [todo EXCEPT ![t] = @ \ S]
          /\ ok' = ok \/ ok' = [ok EXCEPT ![t] = @ \union S]
          /\ \/ S # {} /\ reading' = [reading EXCEPT ![t] = None]
             \/ S # {} /\ reading[t] = None /\ UNCHANGED reading
             \/ S = {} /\ \E o \in todo[t] : reading' = [reading EXCEPT ![t] = o]
    BY <1>9 DEF Serves
  <2>2. Serving(t) /\ UNCHANGED <<outboxVars, pc, batch, unanswered, stranded>>
    BY <1>9 DEF Serves
  <2>3. todo'[t] \subseteq batch[t] /\ ok'[t] \subseteq batch[t]
    <3>1. todo'[t] = todo[t] \ S /\ (ok'[t] = ok[t] \/ ok'[t] = ok[t] \union S)
      BY <2>1
    <3>2. S \subseteq batch[t] /\ todo[t] \subseteq batch[t] /\ ok[t] \subseteq batch[t]
      BY <2>1
    <3> QED
      BY <3>1, <3>2
  <2>4. \A u \in Tabs : u # t => todo'[u] = todo[u] /\ ok'[u] = ok[u] /\ reading'[u] = reading[u]
    BY <2>1
  <2>5. reading'[t] # None => reading'[t] \in todo'[t]
    BY <2>1
  <2>6. Fresh'
    BY <2>2 DEF outboxVars
  <2>7. ASSUME NEW u \in Tabs
        PROVE  /\ todo'[u] \subseteq batch[u] /\ ok'[u] \subseteq batch[u]
               /\ pc[u] = "picked" => todo'[u] = batch[u] /\ ok'[u] = {}
               /\ reading'[u] # None => pc[u] \in {"sent", "orphaned"} /\ reading'[u] \in todo'[u]
    <3>1. CASE u = t
      BY <3>1, <2>2, <2>3, <2>5
    <3>2. CASE u # t
      BY <3>2, <2>4
    <3> QED
      BY <3>1, <3>2
  <2> QED
    BY <2>2, <2>6, <2>7 DEF outboxVars
<1>10. ASSUME NEW t \in Tabs, Answer(t)
  PROVE  Fresh' /\ DrainShape'
  <2>1. Serving(t) /\ todo[t] = {} /\ UNCHANGED <<outboxVars, reading>>
    BY <1>10 DEF Answer
  <2>2. reading[t] = None
    BY <2>1
  <2>3. CASE pc[t] = "sent"
    <3>1. /\ todo' = [todo EXCEPT ![t] = batch[t]] /\ UNCHANGED <<batch, ok>>
          /\ \E p \in {"answered", "retryable", "fatal"} : pc' = [pc EXCEPT ![t] = p]
      BY <1>10, <2>3 DEF Answer
    <3> QED
      BY <2>1, <2>2, <3>1 DEF outboxVars
  <2>4. CASE pc[t] = "orphaned"
    <3>1. /\ pc' = [pc EXCEPT ![t] = "idle"] /\ batch' = [batch EXCEPT ![t] = {}]
          /\ ok' = [ok EXCEPT ![t] = {}] /\ UNCHANGED todo
      BY <1>10, <2>4 DEF Answer
    <3> QED
      BY <2>1, <2>2, <3>1 DEF outboxVars
  <2> QED
    BY <2>1, <2>3, <2>4
<1>11. ASSUME NEW t \in Tabs, Reload(t)
  PROVE  Fresh' /\ DrainShape'
  BY <1>11 DEF Reload, Leave, outboxVars, serverVars
<1>12. ASSUME NEW t \in Tabs, Abandon(t)
  PROVE  Fresh' /\ DrainShape'
  BY <1>12 DEF Abandon, Leave, outboxVars, serverVars
<1> QED
  BY StepCases, <1>1, <1>2, <1>3, <1>4, <1>5, <1>6, <1>7, <1>8, <1>9, <1>10, <1>11, <1>12

\* What retry and discard list is failed when they list it.
LEMMA ListedStep ==
  ASSUME TypeOK, Fresh, Listed, [Next]_vars
  PROVE  Listed'
<1>c. \A o \in Ops : \A s, st : Create(o, s, st) => made' = made + 1
  BY DEF Create
<1>w. \A st \in {"quarantined", "rejected"} : \A o \in WithStatus(st) : o <= made
  BY FieldAssumption DEF WithStatus, TypeOK, Fresh, Ops
<1> USE FieldAssumption DEF TypeOK, Fresh, Listed, Ops
<1>0. CASE UNCHANGED vars
  BY <1>0 DEF vars, outboxVars, buttonVars
<1>1. CASE StartOffline
  BY <1>1, <1>c DEF StartOffline, buttonVars
<1>2. CASE StopOffline
  BY <1>2, <1>c DEF StopOffline, buttonVars
<1>3. CASE StartOnline
  BY <1>3, <1>c DEF StartOnline, buttonVars
<1>4. CASE ReadToStop
  BY <1>4 DEF ReadToStop, outboxVars, buttonVars
<1>5. CASE WriteStop
  BY <1>5, <1>c DEF WriteStop, buttonVars
<1>6. CASE Refresh
  BY <1>6 DEF Refresh, outboxVars, buttonVars
<1>7. CASE Connect
  BY <1>7 DEF Connect, outboxVars, buttonVars
<1>8. CASE CloseVisit
  BY <1>8 DEF CloseVisit, outboxVars, buttonVars
<1>9. ASSUME NEW t \in Tabs, Press(t)
  PROVE  Listed'
  BY <1>9, <1>w DEF Press, Lists, outboxVars
<1>10. ASSUME NEW t \in Tabs, ListMore(t)
  PROVE  Listed'
  BY <1>10, <1>w DEF ListMore, Lists, outboxVars
<1>11. ASSUME NEW t \in Tabs, Requeue(t)
  PROVE  Listed'
  BY <1>11 DEF Requeue, outboxVars, buttonVars
<1>12. ASSUME NEW t \in Tabs, Delete(t)
  PROVE  Listed'
  BY <1>12 DEF Delete, outboxVars, buttonVars
<1>13. ASSUME NEW t \in Tabs, PickBatch(t)
  PROVE  Listed'
  BY <1>13 DEF PickBatch, outboxVars, buttonVars
<1>14. ASSUME NEW t \in Tabs, MarkSyncing(t)
  PROVE  Listed'
  BY <1>14 DEF MarkSyncing, outboxVars, buttonVars
<1>15. ASSUME NEW t \in Tabs, Settle(t)
  PROVE  Listed'
  BY <1>15 DEF Settle, outboxVars, buttonVars
<1>16. ASSUME NEW t \in Tabs, SetBack(t)
  PROVE  Listed'
  BY <1>16 DEF SetBack, outboxVars, buttonVars
<1>17. ASSUME NEW t \in Tabs, Quarantine(t)
  PROVE  Listed'
  BY <1>17 DEF Quarantine, outboxVars, buttonVars
<1>18. ASSUME NEW t \in Tabs, EndDrain(t)
  PROVE  Listed'
  BY <1>18 DEF EndDrain, outboxVars, buttonVars
<1>19. ASSUME NEW t \in Tabs, RequestFails(t)
  PROVE  Listed'
  BY <1>19 DEF RequestFails, outboxVars, buttonVars
<1>20. ASSUME NEW t \in Tabs, ServeRead(t)
  PROVE  Listed'
  BY <1>20 DEF ServeRead, outboxVars, buttonVars
<1>21. ASSUME NEW t \in Tabs, ServeWrite(t)
  PROVE  Listed'
  BY <1>21 DEF ServeWrite, outboxVars, buttonVars
<1>22. ASSUME NEW t \in Tabs, Answer(t)
  PROVE  Listed'
  BY <1>22 DEF Answer, outboxVars, buttonVars
<1>23. ASSUME NEW t \in Tabs, Reload(t)
  PROVE  Listed'
  BY <1>23 DEF Reload, Leave, outboxVars
<1>24. ASSUME NEW t \in Tabs, Abandon(t)
  PROVE  Listed'
  BY <1>24 DEF Abandon, Leave, outboxVars
<1> QED
  BY <1>0, <1>1, <1>2, <1>3, <1>4, <1>5, <1>6, <1>7, <1>8, <1>9, <1>10, <1>11, <1>12, <1>13, <1>14, <1>15, <1>16, <1>17, <1>18, <1>19, <1>20, <1>21, <1>22, <1>23, <1>24 DEF Next, Serve, Button, Drain

\* The server records nothing of an operation that does not exist.
LEMMA ExistingStep ==
  ASSUME TypeOK, Fresh, DrainShape, Listed, Existing, [Next]_vars
  PROVE  Existing'
<1> USE FieldAssumption DEF TypeOK, DrainShape, Existing, Ops
<1>1. CASE Quiet
  BY <1>1 DEF Quiet, outboxVars, drainVars
<1>2. CASE Makes
  <2>1. PICK o \in Ops :
          /\ o = made + 1 /\ made' = o
          /\ logs' = logs \/ logs' = logs \union {o}
          /\ closers' = closers \/ closers' = closers \union {o}
    BY <1>2 DEF Makes, Create
  <2>2. \A p \in logs' \union closers' : p \in logs \union closers \/ p = o
    BY <2>1
  <2>3. \A p \in logs \union closers : p \in Int /\ p <= made
    OBVIOUS
  <2>4. made \in Int /\ made' = made + 1
    BY <2>1
  <2>5. ASSUME NEW p \in logs' \union closers'
        PROVE  p <= made'
    <3>1. p \in logs \union closers \/ p = made + 1
      BY <2>1, <2>2
    <3>2. CASE p \in logs \union closers
      <4>1. p \in Int /\ p <= made
        BY <3>2, <2>3
      <4> QED
        BY <4>1, <2>4
    <3>3. CASE p = made + 1
      BY <3>3, <2>4
    <3> QED
      BY <3>1, <3>2, <3>3
  <2> QED
    BY <2>5
<1>3. CASE Rewrites
  BY <1>3 DEF Rewrites, Mark, drainVars
<1>4. ASSUME NEW t \in Tabs, PickBatch(t)
  PROVE  Existing'
  BY <1>4 DEF PickBatch, BatchOf, Eligible, WithStatus, MayDrain, outboxVars, serverVars, buttonVars
<1>5. ASSUME NEW t \in Tabs, MarkSyncing(t)
  PROVE  Existing'
  BY <1>5 DEF MarkSyncing, Mark, serverVars, buttonVars
<1>6. ASSUME NEW t \in Tabs, Marks(t)
  PROVE  Existing'
  BY <1>6 DEF Marks, Mark
<1>7. ASSUME NEW t \in Tabs, EndDrain(t)
  PROVE  Existing'
  BY <1>7 DEF EndDrain, outboxVars, serverVars, buttonVars
<1>8. ASSUME NEW t \in Tabs, RequestFails(t)
  PROVE  Existing'
  BY <1>8 DEF RequestFails, outboxVars, serverVars, buttonVars
<1>9. ASSUME NEW t \in Tabs, Serves(t)
  PROVE  Existing'
  BY <1>9 DEF Serves, outboxVars
<1>10. ASSUME NEW t \in Tabs, Answer(t)
  PROVE  Existing'
  BY <1>10 DEF Answer, Commit, outboxVars, buttonVars
<1>11. ASSUME NEW t \in Tabs, Reload(t)
  PROVE  Existing'
  BY <1>11 DEF Reload, Leave, outboxVars, serverVars
<1>12. ASSUME NEW t \in Tabs, Abandon(t)
  PROVE  Existing'
  BY <1>12 DEF Abandon, Leave, outboxVars, serverVars
<1> QED
  BY StepCases, <1>1, <1>2, <1>3, <1>4, <1>5, <1>6, <1>7, <1>8, <1>9, <1>10, <1>11, <1>12

\* What is accepted, or synced, has been recorded.
LEMMA RecordedStep ==
  ASSUME TypeOK, Fresh, DrainShape, Listed, AcceptedIsRecorded, SyncedIsRecorded, [Next]_vars
  PROVE  AcceptedIsRecorded' /\ SyncedIsRecorded'
<1>r. \A o \in Ops : o <= made => (Recorded(o) => Recorded(o)')
  BY RecordedStays
<1>b. \A t \in Tabs : \A o \in ok[t] \union batch[t] : o \in Ops /\ o <= made
  BY DEF TypeOK, DrainShape
<1>f. \A o \in WithStatus("synced") : o \in Ops /\ o <= made
  BY FieldAssumption DEF Fresh, WithStatus, TypeOK, Ops
<1> USE FieldAssumption DEF TypeOK, Ops, DrainShape, AcceptedIsRecorded, SyncedIsRecorded, WithStatus
<1>1. CASE Quiet
  BY <1>1, <1>r, <1>b, <1>f DEF Quiet, outboxVars, drainVars
<1>2. CASE Makes
  BY <1>2, <1>r, <1>b, <1>f DEF Makes, Create, drainVars
<1>3. CASE Rewrites
  BY <1>3, <1>r, <1>b, <1>f DEF Rewrites, Mark, drainVars
<1>4. ASSUME NEW t \in Tabs, PickBatch(t)
  PROVE  AcceptedIsRecorded' /\ SyncedIsRecorded'
  BY <1>4, <1>r, <1>b, <1>f DEF PickBatch, BatchOf, Eligible, WithStatus, MayDrain, outboxVars, serverVars, buttonVars
<1>5. ASSUME NEW t \in Tabs, MarkSyncing(t)
  PROVE  AcceptedIsRecorded' /\ SyncedIsRecorded'
  BY <1>5, <1>r, <1>b, <1>f DEF MarkSyncing, Mark, serverVars, buttonVars
<1>6. ASSUME NEW t \in Tabs, Marks(t)
  PROVE  AcceptedIsRecorded' /\ SyncedIsRecorded'
  BY <1>6, <1>r, <1>b, <1>f DEF Marks, Mark
<1>7. ASSUME NEW t \in Tabs, EndDrain(t)
  PROVE  AcceptedIsRecorded' /\ SyncedIsRecorded'
  BY <1>7, <1>r, <1>b, <1>f DEF EndDrain, outboxVars, serverVars, buttonVars
<1>8. ASSUME NEW t \in Tabs, RequestFails(t)
  PROVE  AcceptedIsRecorded' /\ SyncedIsRecorded'
  BY <1>8, <1>r, <1>b, <1>f DEF RequestFails, outboxVars, serverVars, buttonVars
<1>9. ASSUME NEW t \in Tabs, Serves(t)
  PROVE  AcceptedIsRecorded' /\ SyncedIsRecorded'
  <2>1. PICK S \in SUBSET todo[t] :
          /\ todo' = [todo EXCEPT ![t] = @ \ S]
          /\ ok' = ok \/ ok' = [ok EXCEPT ![t] = @ \union S]
          /\ \/ S # {} /\ reading' = [reading EXCEPT ![t] = None]
             \/ S # {} /\ reading[t] = None /\ UNCHANGED reading
             \/ S = {} /\ \E o \in todo[t] : reading' = [reading EXCEPT ![t] = o]
    BY <1>9 DEF Serves
  <2>2. Serving(t) /\ UNCHANGED <<outboxVars, pc, batch, unanswered, stranded>>
    BY <1>9 DEF Serves
  <2>3. \A u \in Tabs : pc[u] = "answered" => ok'[u] = ok[u]
    BY <2>1, <2>2 DEF Serving
  <2> QED
    BY <1>9, <2>2, <2>3, <1>r, <1>b, <1>f DEF Serves, outboxVars
<1>10. ASSUME NEW t \in Tabs, Answer(t)
  PROVE  AcceptedIsRecorded' /\ SyncedIsRecorded'
  <2>1. \A o \in ok[t] : Recorded(o)'
    BY <1>10 DEF Answer, Commit, Recorded, IsStart, outboxVars
  <2> QED
    BY <1>10, <2>1, <1>r, <1>b, <1>f DEF Answer, outboxVars
<1>11. ASSUME NEW t \in Tabs, Reload(t)
  PROVE  AcceptedIsRecorded' /\ SyncedIsRecorded'
  BY <1>11, <1>r, <1>b, <1>f DEF Reload, Leave, outboxVars, serverVars
<1>12. ASSUME NEW t \in Tabs, Abandon(t)
  PROVE  AcceptedIsRecorded' /\ SyncedIsRecorded'
  BY <1>12, <1>r, <1>b, <1>f DEF Abandon, Leave, outboxVars, serverVars
<1> QED
  BY StepCases, <1>1, <1>2, <1>3, <1>4, <1>5, <1>6, <1>7, <1>8, <1>9, <1>10, <1>11, <1>12

\* What is syncing stays with the drain that marked it, or is stranded.
LEMMA HeldStep ==
  ASSUME TypeOK, Fresh, DrainShape, Listed, SyncingIsMarked, [Next]_vars
  PROVE  SyncingIsMarked'
<1> USE FieldAssumption DEF TypeOK, Ops, DrainShape, SyncingIsMarked, WithStatus, Held
<1>1. CASE Quiet
  BY <1>1 DEF Quiet, outboxVars, drainVars
<1>2. CASE Makes
  BY <1>2 DEF Makes, Create, drainVars
<1>3. CASE Rewrites
  BY <1>3 DEF Rewrites, Mark, drainVars
<1>4. ASSUME NEW t \in Tabs, PickBatch(t)
  PROVE  SyncingIsMarked'
  BY <1>4 DEF PickBatch, BatchOf, Eligible, WithStatus, MayDrain, outboxVars, serverVars, buttonVars
<1>5. ASSUME NEW t \in Tabs, MarkSyncing(t)
  PROVE  SyncingIsMarked'
  BY <1>5 DEF MarkSyncing, Mark, serverVars, buttonVars
<1>6. ASSUME NEW t \in Tabs, Marks(t)
  PROVE  SyncingIsMarked'
  <2>1. PICK o \in todo[t], st \in {"synced", "rejected", "quarantined"} :
          status' = Mark({o}, st) /\ todo' = [todo EXCEPT ![t] = @ \ {o}]
    BY <1>6 DEF Marks
  <2>2. pc[t] \in {"answered", "retryable", "fatal"} /\ UNCHANGED <<pc, batch, stranded>>
    BY <1>6 DEF Marks
  <2>3. \A p \in Ops : status'[p] = "syncing" => status[p] = "syncing" /\ p # o
    BY <2>1 DEF Mark
  <2>4. ASSUME NEW p \in Ops, NEW u \in Tabs, p # o, p \in Held(u)
        PROVE  p \in Held(u)'
    <3>1. CASE u = t
      BY <2>1, <2>2, <2>4, <3>1
    <3>2. CASE u # t
      BY <2>1, <2>2, <2>4, <3>2
    <3> QED
      BY <3>1, <3>2
  <2> QED
    BY <2>2, <2>3, <2>4
<1>7. ASSUME NEW t \in Tabs, EndDrain(t)
  PROVE  SyncingIsMarked'
  BY <1>7 DEF EndDrain, outboxVars, serverVars, buttonVars
<1>8. ASSUME NEW t \in Tabs, RequestFails(t)
  PROVE  SyncingIsMarked'
  BY <1>8 DEF RequestFails, outboxVars, serverVars, buttonVars
<1>9. ASSUME NEW t \in Tabs, Serves(t)
  PROVE  SyncingIsMarked'
  <2>1. PICK S \in SUBSET todo[t] :
          /\ todo' = [todo EXCEPT ![t] = @ \ S]
          /\ ok' = ok \/ ok' = [ok EXCEPT ![t] = @ \union S]
          /\ \/ S # {} /\ reading' = [reading EXCEPT ![t] = None]
             \/ S # {} /\ reading[t] = None /\ UNCHANGED reading
             \/ S = {} /\ \E o \in todo[t] : reading' = [reading EXCEPT ![t] = o]
    BY <1>9 DEF Serves
  <2>2. Serving(t) /\ UNCHANGED <<outboxVars, pc, batch, unanswered, stranded>>
    BY <1>9 DEF Serves
  <2>3. ASSUME NEW p \in Ops, NEW u \in Tabs, pc[u] # "orphaned", p \in Held(u)
        PROVE  p \in Held(u)'
    <3>1. CASE u = t
      BY <2>2, <2>3, <3>1 DEF Serving
    <3>2. CASE u # t
      BY <2>1, <2>2, <2>3, <3>2
    <3> QED
      BY <3>1, <3>2
  <2> QED
    BY <2>2, <2>3 DEF outboxVars
<1>10. ASSUME NEW t \in Tabs, Answer(t)
  PROVE  SyncingIsMarked'
  <2>1. Serving(t) /\ UNCHANGED <<outboxVars, stranded>>
    BY <1>10 DEF Answer
  <2>2. ASSUME NEW p \in Ops, NEW u \in Tabs, pc[u] \notin {"picked", "orphaned"}, p \in Held(u)
        PROVE  pc'[u] \notin {"picked", "orphaned"} /\ p \in Held(u)'
    <3>1. CASE u = t
      <4>1. pc[t] = "sent"
        BY <2>1, <2>2, <3>1 DEF Serving
      <4>2. /\ todo' = [todo EXCEPT ![t] = batch[t]]
            /\ \E q \in {"answered", "retryable", "fatal"} : pc' = [pc EXCEPT ![t] = q]
        BY <1>10, <4>1 DEF Answer
      <4> QED
        BY <2>2, <3>1, <4>1, <4>2
    <3>2. CASE u # t
      <4>1. pc'[u] = pc[u] /\ batch'[u] = batch[u] /\ todo'[u] = todo[u]
        BY <1>10, <3>2 DEF Answer
      <4> QED
        BY <2>2, <4>1
    <3> QED
      BY <3>1, <3>2
  <2> QED
    BY <2>1, <2>2 DEF outboxVars
<1>11. ASSUME NEW t \in Tabs, Reload(t)
  PROVE  SyncingIsMarked'
  BY <1>11 DEF Reload, Leave, outboxVars, serverVars
<1>12. ASSUME NEW t \in Tabs, Abandon(t)
  PROVE  SyncingIsMarked'
  BY <1>12 DEF Abandon, Leave, outboxVars, serverVars
<1> QED
  BY StepCases, <1>1, <1>2, <1>3, <1>4, <1>5, <1>6, <1>7, <1>8, <1>9, <1>10, <1>11, <1>12

-----------------------------------------------------------------------------
(* Two stops of one log *)

\* No batch reads a row to stop it.
NoNewStops ==
  \A u \in Tabs : Serving(u)' =>
    \/ ok'[u] = {} /\ reading'[u] = None
    \/ Serving(u) /\ ok'[u] \union {reading'[u]} \subseteq ok[u] \union {reading[u], None}

\* Then the logs whose row a batch has read are those it had read before.
LEMMA StopsShrink ==
  ASSUME TypeOK, DrainShape, Listed, [Next]_vars, NoNewStops, NEW u \in Tabs
  PROVE  StopsOf(u)' \subseteq StopsOf(u)
<1>1. SUFFICES ASSUME NEW s \in Ops, s \in StopsOf(u)' PROVE s \in StopsOf(u)
  BY DEF StopsOf
<1>2. PICK o \in ok'[u] \union {reading'[u]} : Serving(u)' /\ o # None /\ target'[o] = s
  BY <1>1 DEF StopsOf
<1>3. Serving(u) /\ o \in ok[u] \union {reading[u]}
  BY <1>2 DEF NoNewStops
<1>4. o \in Ops /\ o <= made
  BY <1>2, <1>3 DEF TypeOK, DrainShape
<1>5. target[o] = s
  BY <1>2, <1>4, RecordedStays
<1> QED
  BY <1>2, <1>3, <1>5 DEF StopsOf

\* A step that leaves the rows of the server as they are and reads none to stop it.
Calm == UNCHANGED <<stopping, closedBy, raced>> /\ NoNewStops

\* The steps that stop a log, by how they do it.
LEMMA StopCases ==
  ASSUME TypeOK, DrainShape, [Next]_vars
  PROVE  \/ Calm
         \/ (ReadToStop \/ WriteStop) /\ NoNewStops
         \/ \E t \in Tabs : ServeRead(t) \/ (Answer(t) /\ NoNewStops)
<1> DEFINE StopCase == \/ Calm
                       \/ (ReadToStop \/ WriteStop) /\ NoNewStops
                       \/ \E t \in Tabs : ServeRead(t) \/ (Answer(t) /\ NoNewStops)
<1> SUFFICES StopCase
  OBVIOUS
<1>n. UNCHANGED drainVars => NoNewStops
  BY DEF drainVars, NoNewStops, Serving
<1>0. CASE UNCHANGED vars
  BY <1>0, <1>n DEF vars, Calm, serverVars, viewVars
<1>1. CASE StartOffline
  BY <1>1, <1>n DEF StartOffline, Calm, serverVars, viewVars
<1>2. CASE StopOffline
  BY <1>2, <1>n DEF StopOffline, Calm, serverVars, viewVars
<1>3. CASE StartOnline
  BY <1>3, <1>n DEF StartOnline, Calm, serverVars, viewVars
<1>4. CASE ReadToStop
  BY <1>4, <1>n DEF ReadToStop
<1>5. CASE WriteStop
  BY <1>5, <1>n DEF WriteStop
<1>6. CASE Refresh
  BY <1>6, <1>n DEF Refresh, Calm, serverVars, viewVars
<1>7. CASE Connect
  BY <1>7, <1>n DEF Connect, Calm, serverVars, viewVars
<1>8. CASE CloseVisit
  BY <1>8, <1>n DEF CloseVisit, Calm, serverVars, viewVars
<1>9. ASSUME NEW t \in Tabs, Press(t)
  PROVE  StopCase
  BY <1>9, <1>n DEF Press, Calm, serverVars, viewVars
<1>10. ASSUME NEW t \in Tabs, ListMore(t)
  PROVE  StopCase
  BY <1>10, <1>n DEF ListMore, Calm, serverVars, viewVars
<1>11. ASSUME NEW t \in Tabs, Requeue(t)
  PROVE  StopCase
  BY <1>11, <1>n DEF Requeue, Calm, serverVars, viewVars
<1>12. ASSUME NEW t \in Tabs, Delete(t)
  PROVE  StopCase
  BY <1>12, <1>n DEF Delete, Calm, serverVars, viewVars
<1>13. ASSUME NEW t \in Tabs, PickBatch(t)
  PROVE  StopCase
  <2>1. NoNewStops
    BY <1>13 DEF PickBatch, NoNewStops, Serving, DrainShape, TypeOK
  <2> QED
    BY <1>13, <2>1 DEF PickBatch, Calm, serverVars, viewVars
<1>14. ASSUME NEW t \in Tabs, MarkSyncing(t)
  PROVE  StopCase
  <2>1. NoNewStops
    BY <1>14 DEF MarkSyncing, NoNewStops, Serving, DrainShape, TypeOK
  <2> QED
    BY <1>14, <2>1 DEF MarkSyncing, Calm, serverVars, viewVars
<1>15. ASSUME NEW t \in Tabs, Settle(t)
  PROVE  StopCase
  <2>1. NoNewStops
    BY <1>15 DEF Settle, NoNewStops, Serving, DrainShape, TypeOK
  <2> QED
    BY <1>15, <2>1 DEF Settle, Calm, serverVars, viewVars
<1>16. ASSUME NEW t \in Tabs, SetBack(t)
  PROVE  StopCase
  <2>1. NoNewStops
    BY <1>16 DEF SetBack, NoNewStops, Serving, DrainShape, TypeOK
  <2> QED
    BY <1>16, <2>1 DEF SetBack, Calm, serverVars, viewVars
<1>17. ASSUME NEW t \in Tabs, Quarantine(t)
  PROVE  StopCase
  <2>1. NoNewStops
    BY <1>17 DEF Quarantine, NoNewStops, Serving, DrainShape, TypeOK
  <2> QED
    BY <1>17, <2>1 DEF Quarantine, Calm, serverVars, viewVars
<1>18. ASSUME NEW t \in Tabs, EndDrain(t)
  PROVE  StopCase
  <2>1. NoNewStops
    BY <1>18 DEF EndDrain, NoNewStops, Serving, DrainShape, TypeOK
  <2> QED
    BY <1>18, <2>1 DEF EndDrain, Calm, serverVars, viewVars
<1>19. ASSUME NEW t \in Tabs, RequestFails(t)
  PROVE  StopCase
  <2>1. NoNewStops
    BY <1>19 DEF RequestFails, NoNewStops, Serving, DrainShape, TypeOK
  <2> QED
    BY <1>19, <2>1 DEF RequestFails, Calm, serverVars, viewVars
<1>20. ASSUME NEW t \in Tabs, ServeRead(t)
  PROVE  StopCase
  BY <1>20
<1>21. ASSUME NEW t \in Tabs, ServeWrite(t)
  PROVE  StopCase
  <2>1. NoNewStops
    BY <1>21 DEF ServeWrite, NoNewStops, Serving, DrainShape, TypeOK
  <2> QED
    BY <1>21, <2>1 DEF ServeWrite, Calm, serverVars, viewVars
<1>22. ASSUME NEW t \in Tabs, Answer(t)
  PROVE  StopCase
  <2>1. NoNewStops
    BY <1>22 DEF Answer, NoNewStops, Serving, TypeOK
  <2> QED
    BY <1>22, <2>1
<1>23. ASSUME NEW t \in Tabs, Reload(t)
  PROVE  StopCase
  <2>1. NoNewStops
    BY <1>23 DEF Reload, NoNewStops, Serving, DrainShape, TypeOK, Leave
  <2> QED
    BY <1>23, <2>1 DEF Reload, Calm, serverVars, viewVars, Leave
<1>24. ASSUME NEW t \in Tabs, Abandon(t)
  PROVE  StopCase
  <2>1. NoNewStops
    BY <1>24 DEF Abandon, NoNewStops, Serving, DrainShape, TypeOK, Leave
  <2> QED
    BY <1>24, <2>1 DEF Abandon, Calm, serverVars, viewVars, Leave
<1> QED
  BY <1>0, <1>1, <1>2, <1>3, <1>4, <1>5, <1>6, <1>7, <1>8, <1>9, <1>10, <1>11, <1>12, <1>13, <1>14, <1>15, <1>16, <1>17, <1>18, <1>19, <1>20, <1>21, <1>22, <1>23, <1>24 DEF Next, Serve, Button, Drain

\* Every step keeps the record of the races.
LEMMA RaceStep ==
  ASSUME TypeOK, DrainShape, Listed, RacesAreKnown, [Next]_vars
  PROVE  RacesAreKnown'
<1>k. NoNewStops => \A u \in Tabs : StopsOf(u)' \subseteq StopsOf(u)
  BY StopsShrink
<1>1. CASE Calm
  BY <1>1, <1>k DEF Calm, RacesAreKnown, Racing
<1>2. CASE ReadToStop /\ NoNewStops
  <2>1. /\ closedBy' = closedBy /\ stopping' = shown /\ stopping = None
        /\ shown \in Open
        /\ raced' = IF Racing(shown) THEN raced \union {shown} ELSE raced
    BY <1>2 DEF ReadToStop
  <2>2. closedBy[shown] = None
    BY <2>1 DEF Open
  <2>3. raced \subseteq raced'
    BY <2>1
  <2>4. ASSUME NEW s \in Ops
        PROVE  /\ closedBy'[s] # None /\ Racing(s)' => s \in raced'
               /\ \A t \in Tabs : stopping' = s /\ s \in StopsOf(t)' => s \in raced'
    <3>1. CASE s = shown
      BY <1>2, <1>k, <2>1, <2>2, <3>1 DEF Racing
    <3>2. CASE s # shown
      BY <1>2, <1>k, <2>1, <2>3, <3>2 DEF Racing, RacesAreKnown
    <3> QED
      BY <3>1, <3>2
  <2> QED
    BY <1>2, <1>k, <2>3, <2>4 DEF RacesAreKnown
<1>3. CASE WriteStop /\ NoNewStops
  <2>1. PICK o \in Ops : closedBy' = [closedBy EXCEPT ![stopping] = o]
    BY <1>3 DEF WriteStop
  <2>2. stopping' = None /\ raced' = raced
    BY <1>3 DEF WriteStop
  <2>3. \A s \in Ops : s # None
    BY DEF Ops, None
  <2>4. ASSUME NEW s \in Ops, closedBy'[s] # None, Racing(s)'
        PROVE  s \in raced'
    <3>1. PICK t \in Tabs : s \in StopsOf(t)
      BY <1>3, <1>k, <2>2, <2>3, <2>4 DEF Racing
    <3>2. CASE s = stopping
      BY <2>2, <3>1, <3>2 DEF RacesAreKnown
    <3>3. CASE s # stopping
      <4>1. closedBy'[s] = closedBy[s]
        BY <2>1, <3>3 DEF TypeOK
      <4> QED
        BY <2>2, <2>4, <3>1, <4>1 DEF RacesAreKnown, Racing
    <3> QED
      BY <3>2, <3>3
  <2> QED
    BY <1>3, <1>k, <2>2, <2>3, <2>4 DEF RacesAreKnown
<1>4. ASSUME NEW t \in Tabs, ServeRead(t)
  PROVE  RacesAreKnown'
  <2>1. UNCHANGED <<closedBy, stopping, pc, target>> /\ reading[t] = None
    BY <1>4 DEF ServeRead, viewVars, outboxVars
  <2>2. CASE UNCHANGED <<reading, raced>>
    <3>1. \A u \in Tabs : \A o \in ok'[u] \ ok[u] : target[o] = None
      BY <1>4, <2>2, <2>1 DEF ServeRead, TypeOK, IsStart
    <3>2. \A u \in Tabs : StopsOf(u)' \subseteq StopsOf(u)
      BY <2>1, <2>2, <3>1 DEF StopsOf, Serving, Ops, None
    <3> QED
      BY <2>1, <2>2, <3>2 DEF RacesAreKnown, Racing
  <2>3. ASSUME NEW o \in todo[t], ok' = ok, reading' = [reading EXCEPT ![t] = o],
               IF IsStart(o) THEN raced' = raced
               ELSE /\ closedBy[target[o]] = None
                    /\ raced' = IF Racing(target[o]) THEN raced \union {target[o]} ELSE raced
        PROVE  RacesAreKnown'
    <3>1. raced \subseteq raced'
      BY <2>3
    <3>2. \A u \in Tabs : u # t => StopsOf(u)' = StopsOf(u)
      BY <2>1, <2>3 DEF StopsOf, Serving
    <3>3. \A s \in Ops : s \in StopsOf(t)' => s \in StopsOf(t) \/ s = target[o]
      BY <2>1, <2>3 DEF StopsOf, Serving, TypeOK
    <3>4. CASE IsStart(o)
      <4>1. StopsOf(t)' \subseteq StopsOf(t)
        BY <3>3, <3>4 DEF IsStart, StopsOf, Ops, None
      <4> QED
        BY <2>1, <2>3, <3>2, <3>4, <4>1 DEF RacesAreKnown, Racing
    <3>5. CASE ~IsStart(o)
      <4>1. ASSUME NEW s \in Ops, s # target[o]
            PROVE  /\ closedBy'[s] # None /\ Racing(s)' => s \in raced'
                   /\ \A u \in Tabs : stopping' = s /\ s \in StopsOf(u)' => s \in raced'
                   /\ \A u, v \in Tabs : u # v /\ s \in StopsOf(u)' /\ s \in StopsOf(v)' => s \in raced'
        <5>1. \A u \in Tabs : s \in StopsOf(u)' => s \in StopsOf(u)
          BY <3>2, <3>3, <4>1
        <5>2. Racing(s)' => Racing(s)
          BY <2>1, <5>1 DEF Racing
        <5> QED
          BY <2>1, <3>1, <5>1, <5>2 DEF RacesAreKnown
      <4>2. ASSUME NEW s \in Ops, s = target[o]
            PROVE  /\ closedBy'[s] # None /\ Racing(s)' => s \in raced'
                   /\ \A u \in Tabs : stopping' = s /\ s \in StopsOf(u)' => s \in raced'
                   /\ \A u, v \in Tabs : u # v /\ s \in StopsOf(u)' /\ s \in StopsOf(v)' => s \in raced'
        <5>1. closedBy'[s] = None /\ (Racing(s) => s \in raced')
          BY <2>1, <2>3, <3>5, <4>2
        <5>2. ASSUME NEW u \in Tabs, NEW v \in Tabs, u # v, s \in StopsOf(u)', s \in StopsOf(v)'
              PROVE  Racing(s)
          BY <3>2, <5>2 DEF Racing
        <5>3. stopping' = s => Racing(s)
          BY <2>1 DEF Racing
        <5> QED
          BY <5>1, <5>2, <5>3
      <4> QED
        BY <4>1, <4>2 DEF RacesAreKnown
    <3> QED
      BY <3>4, <3>5
  <2> QED
    <3>1. CASE \E o \in todo[t] :
                 /\ ok' = ok /\ reading' = [reading EXCEPT ![t] = o]
                 /\ IF IsStart(o) THEN raced' = raced
                    ELSE /\ closedBy[target[o]] = None
                         /\ raced' = IF Racing(target[o]) THEN raced \union {target[o]} ELSE raced
      BY <2>3, <3>1
    <3> QED
      BY <1>4, <2>2, <3>1 DEF ServeRead, StopReads, SeenOpen
<1>5. ASSUME NEW t \in Tabs, Answer(t), NoNewStops
  PROVE  RacesAreKnown'
  <2>1. UNCHANGED <<stopping, raced>> /\ Serving(t) /\ ~Serving(t)'
    BY <1>5 DEF Answer, Commit, viewVars, Serving, TypeOK
  <2>2. StopsOf(t)' = {}
    BY <2>1 DEF StopsOf
  <2>3. ASSUME NEW s \in Ops, closedBy'[s] # None, Racing(s)'
        PROVE  s \in raced
    <3>1. Racing(s) /\ (stopping = s \/ \E u \in Tabs : u # t /\ s \in StopsOf(u))
      BY <1>5, <1>k, <2>1, <2>2, <2>3 DEF Racing
    <3>2. CASE s \in StopsOf(t)
      BY <3>1, <3>2 DEF RacesAreKnown
    <3>3. CASE s \notin StopsOf(t)
      <4>1. \A o \in ok[t] : target[o] # s
        BY <2>1, <3>3 DEF StopsOf, TypeOK, Ops, None
      <4>2. closedBy'[s] = closedBy[s]
        BY <1>5, <4>1 DEF Answer, Commit
      <4> QED
        BY <2>3, <3>1, <4>2 DEF RacesAreKnown
    <3> QED
      BY <3>2, <3>3
  <2> QED
    BY <1>5, <1>k, <2>1, <2>3 DEF RacesAreKnown
<1> QED
  BY StopCases, <1>1, <1>2, <1>3, <1>4, <1>5

\* A check-out is replaced only by a stop that had read the row before.
LEMMA CheckOutStep ==
  ASSUME TypeOK, DrainShape, RacesAreKnown, [Next]_vars
  PROVE  \A s \in Ops : closedBy[s] # None /\ closedBy'[s] # closedBy[s] => s \in raced
<1> SUFFICES ASSUME NEW s \in Ops, closedBy[s] # None, closedBy'[s] # closedBy[s]
             PROVE  s \in raced
  OBVIOUS
<1>1. CASE Calm
  BY <1>1 DEF Calm
<1>2. CASE ReadToStop
  BY <1>2 DEF ReadToStop
<1>3. CASE WriteStop
  <2>1. PICK o \in Ops : closedBy' = [closedBy EXCEPT ![stopping] = o]
    BY <1>3 DEF WriteStop
  <2>2. stopping = s
    BY <2>1 DEF TypeOK
  <2> QED
    BY <2>2 DEF RacesAreKnown, Racing
<1>4. ASSUME NEW t \in Tabs, ServeRead(t)
  PROVE  s \in raced
  BY <1>4 DEF ServeRead
<1>5. ASSUME NEW t \in Tabs, Answer(t)
  PROVE  s \in raced
  <2>1. PICK o \in ok[t] : target[o] = s
    BY <1>5 DEF Answer, Commit
  <2>2. s \in StopsOf(t)
    BY <1>5, <2>1 DEF Answer, StopsOf, TypeOK, Ops, None
  <2> QED
    BY <2>2 DEF RacesAreKnown, Racing
<1> QED
  BY StopCases, <1>1, <1>2, <1>3, <1>4, <1>5

-----------------------------------------------------------------------------
(* With the cross-tab lock *)

\* The lock lets one drain in at a time.
LEMMA OneDrainStep ==
  ASSUME TypeOK, DrainShape, Listed, HasLocks, OneDrain, [Next]_vars
  PROVE  OneDrain'
<1> USE DEF TypeOK, OneDrain, Active
<1>1. CASE Quiet
  BY <1>1 DEF Quiet, outboxVars, drainVars
<1>2. CASE Makes
  BY <1>2 DEF Makes, Create, drainVars
<1>3. CASE Rewrites
  BY <1>3 DEF Rewrites, Mark, drainVars
<1>4. ASSUME NEW t \in Tabs, PickBatch(t)
  PROVE  OneDrain'
  BY <1>4 DEF PickBatch, BatchOf, Eligible, WithStatus, MayDrain, outboxVars, serverVars, buttonVars
<1>5. ASSUME NEW t \in Tabs, MarkSyncing(t)
  PROVE  OneDrain'
  BY <1>5 DEF MarkSyncing, Mark, serverVars, buttonVars
<1>6. ASSUME NEW t \in Tabs, Marks(t)
  PROVE  OneDrain'
  BY <1>6 DEF Marks, Mark
<1>7. ASSUME NEW t \in Tabs, EndDrain(t)
  PROVE  OneDrain'
  BY <1>7 DEF EndDrain, outboxVars, serverVars, buttonVars
<1>8. ASSUME NEW t \in Tabs, RequestFails(t)
  PROVE  OneDrain'
  BY <1>8 DEF RequestFails, outboxVars, serverVars, buttonVars
<1>9. ASSUME NEW t \in Tabs, Serves(t)
  PROVE  OneDrain'
  BY <1>9 DEF Serves, outboxVars
<1>10. ASSUME NEW t \in Tabs, Answer(t)
  PROVE  OneDrain'
  <2>1. \A u \in Tabs : pc'[u] \notin {"idle", "orphaned"} => pc[u] \notin {"idle", "orphaned"}
    BY <1>10 DEF Answer, Serving
  <2> QED
    BY <2>1
<1>11. ASSUME NEW t \in Tabs, Reload(t)
  PROVE  OneDrain'
  BY <1>11 DEF Reload, Leave, outboxVars, serverVars
<1>12. ASSUME NEW t \in Tabs, Abandon(t)
  PROVE  OneDrain'
  BY <1>12 DEF Abandon, Leave, outboxVars, serverVars
<1> QED
  BY StepCases, <1>1, <1>2, <1>3, <1>4, <1>5, <1>6, <1>7, <1>8, <1>9, <1>10, <1>11, <1>12

\* What a drain is sending is syncing, or somebody has rewritten it.
LEMMA BatchStatusStep ==
  ASSUME TypeOK, Fresh, DrainShape, Listed, HasLocks, OneDrain, BatchStatus, [Next]_vars
  PROVE  BatchStatus'
<1> USE DEF TypeOK, BatchStatus, DrainShape, Ops
<1>1. CASE Quiet
  BY <1>1 DEF Quiet, outboxVars, drainVars
<1>2. CASE Makes
  <2>1. PICK p \in Ops, st \in {"pending", "direct"} :
          p = made + 1 /\ status' = [status EXCEPT ![p] = st]
    BY <1>2 DEF Makes, Create
  <2>2. \A t \in Tabs : \A o \in batch[t] : o # p
    BY <2>1
  <2> QED
    BY <1>2, <2>1, <2>2 DEF Makes, drainVars
<1>3. CASE Rewrites
  <2>1. PICK S \in SUBSET Ops, st \in {"pending", "discarded"} :
          status' = Mark(S, st) /\ overtaken' = overtaken \union (S \ Failed)
    BY <1>3 DEF Rewrites
  <2>2. \A t \in Tabs : pc'[t] = pc[t] /\ batch'[t] = batch[t]
    BY <1>3 DEF Rewrites, drainVars
  <2>3. \A o \in Ops : o \notin S => status'[o] = status[o]
    BY <2>1 DEF Mark
  <2>4. \A o \in S : status[o] \in {"pending", "syncing"} => o \in overtaken'
    BY <2>1 DEF Failed, WithStatus
  <2>5. overtaken \subseteq overtaken'
    BY <2>1
  <2> QED
    BY <2>2, <2>3, <2>4, <2>5
<1>4. ASSUME NEW t \in Tabs, PickBatch(t)
  PROVE  BatchStatus'
  BY <1>4 DEF PickBatch, BatchOf, Eligible, WithStatus, MayDrain, outboxVars, serverVars, buttonVars
<1>5. ASSUME NEW t \in Tabs, MarkSyncing(t)
  PROVE  BatchStatus'
  <2>1. \A u \in Tabs : u # t => pc[u] \notin {"picked", "sent"}
    BY <1>5 DEF MarkSyncing, OneDrain, Active
  <2>2. ASSUME NEW o \in batch[t]
        PROVE  status'[o] = "syncing" \/ o \in overtaken
    BY <1>5 DEF MarkSyncing, Mark
  <2> QED
    BY <1>5, <2>1, <2>2 DEF MarkSyncing, buttonVars
<1>6. ASSUME NEW t \in Tabs, Marks(t)
  PROVE  BatchStatus'
  <2>1. UNCHANGED <<pc, batch, overtaken>>
    BY <1>6 DEF Marks
  <2>2. PICK o \in todo[t], st \in {"synced", "rejected", "quarantined"} : status' = Mark({o}, st)
    BY <1>6 DEF Marks
  <2>3. Active(t)
    BY <1>6 DEF Marks, Active
  <2>4. \A u \in Tabs : pc[u] \in {"picked", "sent"} => u = t
    BY <2>3 DEF OneDrain, Active
  <2>5. pc[t] \notin {"picked", "sent"}
    BY <1>6 DEF Marks
  <2> QED
    BY <2>1, <2>4, <2>5
<1>7. ASSUME NEW t \in Tabs, EndDrain(t)
  PROVE  BatchStatus'
  BY <1>7 DEF EndDrain, outboxVars, serverVars, buttonVars
<1>8. ASSUME NEW t \in Tabs, RequestFails(t)
  PROVE  BatchStatus'
  BY <1>8 DEF RequestFails, outboxVars, serverVars, buttonVars
<1>9. ASSUME NEW t \in Tabs, Serves(t)
  PROVE  BatchStatus'
  BY <1>9 DEF Serves, outboxVars
<1>10. ASSUME NEW t \in Tabs, Answer(t)
  PROVE  BatchStatus'
  <2>1. UNCHANGED <<status, overtaken>>
    BY <1>10 DEF Answer, outboxVars, buttonVars
  <2>2. \A u \in Tabs : pc'[u] \in {"picked", "sent"} => pc'[u] = pc[u] /\ batch'[u] = batch[u]
    BY <1>10 DEF Answer
  <2> QED
    BY <2>1, <2>2
<1>11. ASSUME NEW t \in Tabs, Reload(t)
  PROVE  BatchStatus'
  BY <1>11 DEF Reload, Leave, outboxVars, serverVars
<1>12. ASSUME NEW t \in Tabs, Abandon(t)
  PROVE  BatchStatus'
  BY <1>12 DEF Abandon, Leave, outboxVars, serverVars
<1> QED
  BY StepCases, <1>1, <1>2, <1>3, <1>4, <1>5, <1>6, <1>7, <1>8, <1>9, <1>10, <1>11, <1>12

\* Nothing is tried twice without being asked for.
LEMMA RetriesStep ==
  ASSUME TypeOK, Fresh, DrainShape, Listed, HasLocks, OneDrain, RetriesAtRest, [Next]_vars
  PROVE  RetriesAtRest'
<1> USE DEF TypeOK, RetriesAtRest, DrainShape, Ops, Active, Held
<1>1. CASE Quiet
  BY <1>1 DEF Quiet, outboxVars, drainVars
<1>2. CASE Makes
  <2>1. PICK p \in Ops, st \in {"pending", "direct"} :
          p = made + 1 /\ status' = [status EXCEPT ![p] = st] /\ retries' = retries
    BY <1>2 DEF Makes, Create
  <2>2. retries[p] = 0
    BY <2>1, FieldAssumption DEF Fresh
  <2>3. UNCHANGED <<pc, batch, todo>>
    BY <1>2 DEF Makes, drainVars
  <2>4. \A o \in Ops : o # p => status'[o] = status[o]
    BY <2>1
  <2> QED
    BY <2>1, <2>2, <2>3, <2>4
<1>3. CASE Rewrites
  <2>1. PICK S \in SUBSET Ops :
          \/ status' = Mark(S, "pending") /\ \E o \in S : S = {o} /\ retries' = [retries EXCEPT ![o] = 0]
          \/ status' = Mark(S, "discarded") /\ UNCHANGED retries
    BY <1>3 DEF Rewrites
  <2>2. UNCHANGED <<pc, batch, todo>>
    BY <1>3 DEF Rewrites, drainVars
  <2>3. \A o \in Ops : /\ retries'[o] = retries[o] \/ retries'[o] = 0
                       /\ status'[o] \in {"none", "pending", "syncing"} =>
                            status'[o] = status[o] \/ retries'[o] = 0
    BY <2>1 DEF Mark
  <2> QED
    BY <2>2, <2>3
<1>4. ASSUME NEW t \in Tabs, PickBatch(t)
  PROVE  RetriesAtRest'
  BY <1>4 DEF PickBatch, BatchOf, Eligible, WithStatus, MayDrain, outboxVars, serverVars, buttonVars
<1>5. ASSUME NEW t \in Tabs, MarkSyncing(t)
  PROVE  RetriesAtRest'
  BY <1>5 DEF MarkSyncing, Mark, serverVars, buttonVars
<1>6. ASSUME NEW t \in Tabs, Marks(t)
  PROVE  RetriesAtRest'
  <2>1. PICK o \in todo[t], st \in {"synced", "rejected", "quarantined"} :
          /\ status' = Mark({o}, st)
          /\ todo' = [todo EXCEPT ![t] = @ \ {o}]
          /\ \/ UNCHANGED retries
             \/ /\ st = "rejected" /\ status[o] # "discarded"
                /\ retries' = [retries EXCEPT ![o] = @ + 1]
    BY <1>6 DEF Marks
  <2>2. pc[t] \in {"answered", "retryable", "fatal"} /\ UNCHANGED <<pc, batch>>
    BY <1>6 DEF Marks
  <2>3. retries[o] = 0 /\ o \in Ops
    BY <2>1, <2>2
  <2>4. \A p \in Ops : p # o => retries'[p] = retries[p] /\ status'[p] = status[p]
    BY <2>1, <2>3 DEF Mark
  <2>5. retries'[o] <= 1 /\ (status'[o] \in {"none", "pending", "syncing"} => retries'[o] = 0)
    <3>1. CASE UNCHANGED retries
      BY <2>3, <3>1
    <3>2. CASE /\ st = "rejected" /\ status[o] # "discarded"
               /\ retries' = [retries EXCEPT ![o] = @ + 1]
      <4>1. retries'[o] = 1
        BY <2>3, <3>2
      <4>2. status'[o] = "rejected"
        BY <2>1, <2>3, <3>2 DEF Mark
      <4> QED
        BY <4>1, <4>2
    <3> QED
      BY <2>1, <3>1, <3>2
  <2>6. ASSUME NEW u \in Tabs, pc'[u] \notin {"idle", "orphaned"}, NEW p \in Held(u)'
        PROVE  retries'[p] = 0
    <3>1. u = t
      BY <2>2, <2>6 DEF OneDrain
    <3>2. p \in todo[t] /\ p # o
      BY <2>1, <2>2, <2>6, <3>1
    <3> QED
      BY <2>2, <2>4, <3>2
  <2> QED
    BY <2>4, <2>5, <2>6
<1>7. ASSUME NEW t \in Tabs, EndDrain(t)
  PROVE  RetriesAtRest'
  BY <1>7 DEF EndDrain, outboxVars, serverVars, buttonVars
<1>8. ASSUME NEW t \in Tabs, RequestFails(t)
  PROVE  RetriesAtRest'
  BY <1>8 DEF RequestFails, outboxVars, serverVars, buttonVars
<1>9. ASSUME NEW t \in Tabs, Serves(t)
  PROVE  RetriesAtRest'
  BY <1>9 DEF Serves, outboxVars
<1>10. ASSUME NEW t \in Tabs, Answer(t)
  PROVE  RetriesAtRest'
  BY <1>10 DEF Answer, Commit, outboxVars, buttonVars
<1>11. ASSUME NEW t \in Tabs, Reload(t)
  PROVE  RetriesAtRest'
  BY <1>11 DEF Reload, Leave, outboxVars, serverVars
<1>12. ASSUME NEW t \in Tabs, Abandon(t)
  PROVE  RetriesAtRest'
  BY <1>12 DEF Abandon, Leave, outboxVars, serverVars
<1> QED
  BY StepCases, <1>1, <1>2, <1>3, <1>4, <1>5, <1>6, <1>7, <1>8, <1>9, <1>10, <1>11, <1>12

\* The excuses are remembered.
LEMMA ExcusedStays ==
  ASSUME TypeOK, DrainShape, Listed, [Next]_vars, NEW o, Excused(o)
  PROVE  Excused(o)'
<1> USE DEF Excused
<1>1. CASE Quiet
  BY <1>1 DEF Quiet, outboxVars, drainVars
<1>2. CASE Makes
  BY <1>2 DEF Makes, Create, drainVars
<1>3. CASE Rewrites
  BY <1>3 DEF Rewrites, Mark, drainVars
<1>4. ASSUME NEW t \in Tabs, PickBatch(t)
  PROVE  Excused(o)'
  BY <1>4 DEF PickBatch, BatchOf, Eligible, WithStatus, MayDrain, outboxVars, serverVars, buttonVars
<1>5. ASSUME NEW t \in Tabs, MarkSyncing(t)
  PROVE  Excused(o)'
  BY <1>5 DEF MarkSyncing, Mark, serverVars, buttonVars
<1>6. ASSUME NEW t \in Tabs, Marks(t)
  PROVE  Excused(o)'
  BY <1>6 DEF Marks, Mark
<1>7. ASSUME NEW t \in Tabs, EndDrain(t)
  PROVE  Excused(o)'
  BY <1>7 DEF EndDrain, outboxVars, serverVars, buttonVars
<1>8. ASSUME NEW t \in Tabs, RequestFails(t)
  PROVE  Excused(o)'
  BY <1>8 DEF RequestFails, outboxVars, serverVars, buttonVars
<1>9. ASSUME NEW t \in Tabs, Serves(t)
  PROVE  Excused(o)'
  BY <1>9 DEF Serves, outboxVars
<1>10. ASSUME NEW t \in Tabs, Answer(t)
  PROVE  Excused(o)'
  BY <1>10 DEF Answer, Commit, outboxVars, buttonVars
<1>11. ASSUME NEW t \in Tabs, Reload(t)
  PROVE  Excused(o)'
  BY <1>11 DEF Reload, Leave, outboxVars, serverVars
<1>12. ASSUME NEW t \in Tabs, Abandon(t)
  PROVE  Excused(o)'
  BY <1>12 DEF Abandon, Leave, outboxVars, serverVars
<1> QED
  BY StepCases, <1>1, <1>2, <1>3, <1>4, <1>5, <1>6, <1>7, <1>8, <1>9, <1>10, <1>11, <1>12

\* An effect is accounted for: by the results its drain holds, by a lost answer,
\* or by a press that has overtaken it.
LEMMA EffectsStep ==
  ASSUME TypeOK, Fresh, Existing, DrainShape, Listed, HasLocks, OneDrain, BatchStatus,
         BatchEffects, EffectsKnown, [Next]_vars
  PROVE  BatchEffects' /\ EffectsKnown'
<1>n. ASSUME logs' \subseteq logs, closers' \subseteq closers
      PROVE  \A o \in Ops : Recorded(o)' => Recorded(o)
  <2>1. \A o \in Ops : Recorded(o)' => o <= made
    BY <1>n DEF Recorded, Existing
  <2> QED
    BY <1>n, <2>1, RecordedStays DEF Recorded
<1>e. \A o : Excused(o) => Excused(o)'
  BY ExcusedStays
<1>b. \A t \in Tabs : batch[t] \subseteq Ops /\ batch'[t] \subseteq Ops
  BY TypeStep DEF TypeOK
<1>k. ASSUME logs' \subseteq logs, closers' \subseteq closers, UNCHANGED status
      PROVE  EffectsKnown'
  BY <1>k, <1>n, <1>e DEF EffectsKnown
<1> USE DEF TypeOK
<1>1. CASE Quiet
  <2>1. UNCHANGED <<pc, batch, ok, status, logs, closers>>
    BY <1>1 DEF Quiet, drainVars, outboxVars
  <2> QED
    BY <2>1, <1>n, <1>e, <1>b, <1>k DEF BatchEffects, Active
<1>2. CASE Makes
  <2>1. PICK p \in Ops, s \in 0..MaxOps, st \in {"pending", "direct"} :
          /\ Create(p, s, st)
          /\ logs' = logs \/ (st = "direct" /\ logs' = logs \union {p})
          /\ closers' = closers \/ (st = "direct" /\ closers' = closers \union {p})
    BY <1>2 DEF Makes
  <2>2. p = made + 1 /\ status' = [status EXCEPT ![p] = st]
    BY <2>1 DEF Create
  <2>3. UNCHANGED <<pc, batch, ok>>
    BY <1>2 DEF Makes, drainVars
  <2>4. ASSUME NEW o \in Ops, o # p, Recorded(o)'
        PROVE  Recorded(o)
    <3>1. o \in logs \/ o \in closers
      BY <2>1, <2>4 DEF Recorded
    <3>2. o <= made
      BY <3>1 DEF Existing
    <3>3. target'[o] = target[o]
      BY <3>2, RecordedStays
    <3> QED
      BY <2>1, <2>4, <3>3 DEF Recorded
  <2>5. st = "pending" => ~Recorded(p)'
    <3>1. p \notin logs \union closers
      BY <2>2, FieldAssumption DEF Existing, Ops
    <3> QED
      BY <2>1, <3>1 DEF Recorded
  <2>6. EffectsKnown'
    BY <2>2, <2>4, <2>5, <1>e DEF EffectsKnown, Waiting
  <2>7. \A u \in Tabs : p \notin batch[u]
    BY <2>2, FieldAssumption DEF DrainShape, Ops
  <2>8. BatchEffects'
    BY <2>3, <2>4, <2>7, <1>e, <1>b DEF BatchEffects, Active
  <2> QED
    BY <2>6, <2>8
<1>3. CASE Rewrites
  <2>1. PICK S \in SUBSET Ops, st \in {"pending", "discarded"} :
          status' = Mark(S, st) /\ overtaken' = overtaken \union (S \ Failed)
    BY <1>3 DEF Rewrites
  <2>2. UNCHANGED <<pc, batch, ok, logs, closers>>
    BY <1>3 DEF Rewrites, drainVars
  <2>3. BatchEffects'
    BY <2>2, <1>n, <1>e, <1>b DEF BatchEffects, Active
  <2>4. ASSUME NEW o \in Ops, Recorded(o)', status'[o] \in Waiting
        PROVE  Excused(o)'
    <3>1. Recorded(o)
      BY <2>2, <2>4, <1>n
    <3>2. CASE status[o] \in Waiting
      BY <3>1, <3>2, <1>e DEF EffectsKnown
    <3>3. CASE status[o] \notin Waiting
      <4>1. o \in S
        BY <2>1, <2>4, <3>3 DEF Mark
      <4> QED
        BY <2>1, <3>3, <4>1 DEF Excused, Failed, WithStatus, Waiting
    <3> QED
      BY <3>2, <3>3
  <2> QED
    BY <2>3, <2>4 DEF EffectsKnown
<1>4. ASSUME NEW t \in Tabs, PickBatch(t)
  PROVE  BatchEffects' /\ EffectsKnown'
  <2>1. UNCHANGED <<status, logs, closers, ok>>
    BY <1>4 DEF PickBatch, outboxVars, serverVars
  <2>2. \A u \in Tabs : Active(u)' => u = t
    BY <1>4 DEF PickBatch, MayDrain, Active
  <2>3. \A o \in batch'[t] : o \in Ops /\ status[o] = "pending"
    BY <1>4 DEF PickBatch, BatchOf, Eligible, WithStatus
  <2>4. \A o \in Ops : Recorded(o)' => Recorded(o)
    BY <2>1, <1>n
  <2>5. BatchEffects'
    BY <2>2, <2>3, <2>4, <1>e DEF BatchEffects, EffectsKnown, Waiting
  <2> QED
    BY <2>1, <2>5, <1>k
<1>5. ASSUME NEW t \in Tabs, MarkSyncing(t)
  PROVE  BatchEffects' /\ EffectsKnown'
  <2>1. pc[t] = "picked" /\ pc' = [pc EXCEPT ![t] = "sent"] /\ UNCHANGED <<logs, closers, ok, batch>>
    BY <1>5 DEF MarkSyncing, serverVars
  <2>2. \A o \in Ops : Recorded(o)' => Recorded(o)
    BY <2>1, <1>n
  <2>3. \A o \in Ops : status'[o] \in Waiting => status'[o] = status[o]
    BY <1>5 DEF MarkSyncing, Mark, Waiting
  <2>4. EffectsKnown'
    BY <2>2, <2>3, <1>e DEF EffectsKnown
  <2>5. \A u \in Tabs : Active(u)' => Active(u) /\ (pc'[u] = "answered" <=> pc[u] = "answered")
    BY <2>1 DEF Active
  <2> QED
    BY <2>1, <2>2, <2>4, <2>5, <1>e, <1>b DEF BatchEffects
<1>6. ASSUME NEW t \in Tabs, Marks(t)
  PROVE  BatchEffects' /\ EffectsKnown'
  <2>1. PICK o \in todo[t], st \in {"synced", "rejected", "quarantined"} :
          /\ status' = Mark({o}, st)
          /\ pc[t] = "answered" => (st = "synced" <=> o \in ok[t])
          /\ st = "synced" => pc[t] = "answered"
    BY <1>6 DEF Marks
  <2>2. Active(t) /\ UNCHANGED <<pc, batch, ok, logs, closers>>
    BY <1>6 DEF Marks, Active
  <2>3. \A p \in Ops : Recorded(p)' => Recorded(p)
    BY <2>2, <1>n
  <2>4. ASSUME NEW p \in Ops, Recorded(p), status'[p] \in Waiting
        PROVE  Excused(p)
    <3>1. CASE status[p] \in Waiting
      BY <2>4, <3>1 DEF EffectsKnown
    <3>2. CASE status[p] \notin Waiting
      <4>1. p = o /\ st \in {"rejected", "quarantined"}
        BY <2>1, <2>4, <3>2 DEF Mark, Waiting
      <4>2. o \in batch[t]
        BY DEF DrainShape
      <4> QED
        BY <2>1, <2>2, <2>4, <4>1, <4>2 DEF BatchEffects
    <3> QED
      BY <3>1, <3>2
  <2>5. EffectsKnown'
    BY <2>3, <2>4, <1>e DEF EffectsKnown
  <2>6. BatchEffects'
    BY <2>2, <2>3, <1>e, <1>b DEF BatchEffects, Active
  <2> QED
    BY <2>5, <2>6
<1>7. ASSUME NEW t \in Tabs, EndDrain(t)
  PROVE  BatchEffects' /\ EffectsKnown'
  <2>1. UNCHANGED <<status, logs, closers>> /\ ~Active(t)'
    BY <1>7 DEF EndDrain, Active, outboxVars, serverVars
  <2>2. \A u \in Tabs : u # t => pc'[u] = pc[u] /\ batch'[u] = batch[u] /\ ok'[u] = ok[u]
    BY <1>7 DEF EndDrain
  <2>3. \A o \in Ops : Recorded(o)' => Recorded(o)
    BY <2>1, <1>n
  <2>4. BatchEffects'
    BY <2>1, <2>2, <2>3, <1>e, <1>b DEF BatchEffects, Active
  <2> QED
    BY <2>1, <2>4, <1>k
<1>8. ASSUME NEW t \in Tabs, RequestFails(t)
  PROVE  BatchEffects' /\ EffectsKnown'
  <2>1. UNCHANGED <<status, logs, closers, batch>> /\ pc[t] = "sent"
    BY <1>8 DEF RequestFails, outboxVars, serverVars
  <2>2. \A u \in Tabs : u # t => pc'[u] = pc[u] /\ ok'[u] = ok[u]
    BY <1>8 DEF RequestFails
  <2>3. \A o \in Ops : Recorded(o)' => Recorded(o)
    BY <2>1, <1>n
  <2>4. Active(t) /\ \A o \in batch[t] : Recorded(o) => Excused(o)
    BY <2>1 DEF BatchEffects, Active
  <2>5. BatchEffects'
    BY <2>1, <2>2, <2>3, <2>4, <1>e, <1>b DEF BatchEffects, Active
  <2> QED
    BY <2>1, <2>5, <1>k
<1>9. ASSUME NEW t \in Tabs, Serves(t)
  PROVE  BatchEffects' /\ EffectsKnown'
  <2>1. UNCHANGED <<pc, batch, status, logs, closers>> /\ pc[t] # "answered"
    BY <1>9 DEF Serves, Serving, outboxVars
  <2>2. \A u \in Tabs : pc[u] = "answered" => ok'[u] = ok[u]
    BY <1>9, <2>1 DEF Serves
  <2>3. \A o \in Ops : Recorded(o)' => Recorded(o)
    BY <2>1, <1>n
  <2>4. BatchEffects'
    BY <2>1, <2>2, <2>3, <1>e, <1>b DEF BatchEffects, Active
  <2> QED
    BY <2>1, <2>4, <1>k
<1>10. ASSUME NEW t \in Tabs, Answer(t)
  PROVE  BatchEffects' /\ EffectsKnown'
  <2>1. /\ Serving(t) /\ UNCHANGED <<status, target, overtaken>>
        /\ logs' = logs \union {o \in ok[t] : IsStart(o)}
        /\ closers' = closers \union {o \in ok[t] : ~IsStart(o)}
    BY <1>10 DEF Answer, Commit, outboxVars, buttonVars
  <2>2. \A o \in Ops : Recorded(o)' => Recorded(o) \/ o \in ok[t]
    BY <2>1 DEF Recorded
  <2>3. \/ /\ pc[t] = "sent" /\ pc' = [pc EXCEPT ![t] = "answered"] /\ UNCHANGED <<batch, ok>>
        \/ /\ unanswered' = unanswered \union ok[t]
           /\ \/ pc[t] = "sent" /\ \E p \in {"retryable", "fatal"} : pc' = [pc EXCEPT ![t] = p]
              \/ pc[t] = "orphaned" /\ pc' = [pc EXCEPT ![t] = "idle"]
    BY <1>10 DEF Answer
  <2>4. \A u \in Tabs : u # t => pc'[u] = pc[u] /\ batch'[u] = batch[u] /\ ok'[u] = ok[u]
    BY <1>10 DEF Answer
  <2>5. ok[t] \subseteq batch[t]
    BY DEF DrainShape
  <2>6. CASE pc[t] = "sent" /\ pc' = [pc EXCEPT ![t] = "answered"] /\ UNCHANGED <<batch, ok>>
    <3>1. \A u \in Tabs : Active(u)' => u = t
      BY <2>4, <2>6 DEF Active, OneDrain
    <3>2. Active(t) /\ \A o \in batch[t] : Recorded(o) => Excused(o)
      BY <2>6 DEF Active, BatchEffects
    <3>3. BatchEffects'
      BY <2>2, <2>6, <3>1, <3>2, <1>e, <1>b DEF BatchEffects
    <3>4. \A o \in ok[t] : status[o] \in Waiting => Excused(o)
      BY <2>5, <2>6 DEF BatchStatus, Waiting, Excused
    <3>5. EffectsKnown'
      BY <2>1, <2>2, <3>4, <1>e DEF EffectsKnown
    <3> QED
      BY <3>3, <3>5
  <2>7. CASE unanswered' = unanswered \union ok[t] /\ pc'[t] \in {"retryable", "fatal", "idle"}
    <3>1. \A o \in ok[t] : Excused(o)'
      BY <2>7 DEF Excused
    <3>2. EffectsKnown'
      BY <2>1, <2>2, <3>1, <1>e DEF EffectsKnown
    <3>3. ASSUME NEW u \in Tabs, Active(u)', NEW o \in batch'[u], Recorded(o)'
          PROVE  Excused(o)' \/ (o \in ok'[u] /\ pc'[u] = "answered")
      <4>1. CASE o \in ok[t]
        BY <3>1, <4>1
      <4>2. CASE o \notin ok[t] /\ u # t
        BY <2>2, <2>4, <3>3, <4>2, <1>e, <1>b DEF BatchEffects, Active
      <4>3. CASE o \notin ok[t] /\ u = t
        <5>1. pc[t] = "sent" /\ batch'[t] = batch[t]
          BY <1>10, <2>3, <3>3, <4>3 DEF Answer, Active
        <5> QED
          BY <2>2, <3>3, <4>3, <5>1, <1>e, <1>b DEF BatchEffects, Active
      <4> QED
        BY <4>1, <4>2, <4>3
    <3> QED
      BY <3>2, <3>3 DEF BatchEffects
  <2> QED
    BY <2>3, <2>6, <2>7
<1>11. ASSUME NEW t \in Tabs, Reload(t)
  PROVE  BatchEffects' /\ EffectsKnown'
  <2>1. UNCHANGED <<status, logs, closers>> /\ ~Active(t)'
    BY <1>11 DEF Reload, Active, Leave, outboxVars, serverVars
  <2>2. \A u \in Tabs : u # t => pc'[u] = pc[u] /\ batch'[u] = batch[u] /\ ok'[u] = ok[u]
    BY <1>11 DEF Reload
  <2>3. \A o \in Ops : Recorded(o)' => Recorded(o)
    BY <2>1, <1>n
  <2>4. BatchEffects'
    BY <2>1, <2>2, <2>3, <1>e, <1>b DEF BatchEffects, Active
  <2> QED
    BY <2>1, <2>4, <1>k
<1>12. ASSUME NEW t \in Tabs, Abandon(t)
  PROVE  BatchEffects' /\ EffectsKnown'
  <2>1. UNCHANGED <<status, logs, closers>> /\ ~Active(t)'
    BY <1>12 DEF Abandon, Active, Leave, outboxVars, serverVars
  <2>2. \A u \in Tabs : u # t => pc'[u] = pc[u] /\ batch'[u] = batch[u] /\ ok'[u] = ok[u]
    BY <1>12 DEF Abandon
  <2>3. \A o \in Ops : Recorded(o)' => Recorded(o)
    BY <2>1, <1>n
  <2>4. BatchEffects'
    BY <2>1, <2>2, <2>3, <1>e, <1>b DEF BatchEffects, Active
  <2> QED
    BY <2>1, <2>4, <1>k
<1> QED
  BY StepCases, <1>1, <1>2, <1>3, <1>4, <1>5, <1>6, <1>7, <1>8, <1>9, <1>10, <1>11, <1>12

-----------------------------------------------------------------------------
(* The theorems *)

LEMMA InitInv == Init => IInv
<1> SUFFICES ASSUME Init PROVE IInv
  OBVIOUS
<1> USE FieldAssumption DEF Init
<1>1. TypeOK
  <2>1. /\ target \in [Ops -> 0..MaxOps] /\ status \in [Ops -> Statuses]
        /\ retries \in [Ops -> Nat] /\ closedBy \in [Ops -> 0..MaxOps]
    BY DEF Statuses, None
  <2>2. /\ pc \in [Tabs -> Stages] /\ press \in [Tabs -> Presses]
        /\ reading \in [Tabs -> 0..MaxOps]
    BY DEF Stages, Presses, None
  <2>3. /\ batch \in [Tabs -> SUBSET Ops] /\ todo \in [Tabs -> SUBSET Ops]
        /\ ok \in [Tabs -> SUBSET Ops] /\ spent \in [Tabs -> SUBSET Ops]
        /\ listed \in [Tabs -> SUBSET Ops]
    OBVIOUS
  <2>4. made \in 0..MaxOps /\ shown \in 0..MaxOps /\ stopping \in 0..MaxOps
    BY DEF None
  <2> QED
    BY <2>1, <2>2, <2>3, <2>4 DEF TypeOK
<1>2. Fresh /\ Existing /\ DrainShape /\ Listed
  BY DEF Fresh, Existing, DrainShape, Listed, Serving
<1>3. AcceptedIsRecorded /\ SyncedIsRecorded /\ SyncingIsMarked
  BY DEF AcceptedIsRecorded, SyncedIsRecorded, SyncingIsMarked, WithStatus
<1>4. RacesAreKnown
  BY DEF RacesAreKnown, Racing, StopsOf, Serving
<1>5. OneDrain /\ BatchStatus /\ BatchEffects
  BY DEF OneDrain, BatchStatus, BatchEffects, Active
<1>6. EffectsKnown
  BY DEF EffectsKnown, Waiting
<1>7. RetriesAtRest
  BY DEF RetriesAtRest, Active
<1> QED
  BY <1>1, <1>2, <1>3, <1>4, <1>5, <1>6, <1>7 DEF IInv, LockedInv

LEMMA InvStep == IInv /\ [Next]_vars => IInv'
<1> SUFFICES ASSUME IInv, [Next]_vars PROVE IInv'
  OBVIOUS
<1>1. TypeOK /\ Fresh /\ Existing /\ DrainShape /\ Listed
  BY DEF IInv
<1>2. TypeOK' /\ Fresh' /\ DrainShape' /\ Listed' /\ Existing'
  BY <1>1, TypeStep, ShapeStep, ListedStep, ExistingStep
<1>3. AcceptedIsRecorded' /\ SyncedIsRecorded' /\ SyncingIsMarked' /\ RacesAreKnown'
  BY <1>1, RecordedStep, HeldStep, RaceStep DEF IInv
<1>4. HasLocks => LockedInv'
  <2> SUFFICES ASSUME HasLocks PROVE LockedInv'
    OBVIOUS
  <2>1. OneDrain /\ BatchStatus /\ BatchEffects /\ EffectsKnown /\ RetriesAtRest
    BY DEF IInv, LockedInv
  <2> QED
    BY <1>1, <2>1, OneDrainStep, BatchStatusStep, RetriesStep, EffectsStep DEF LockedInv
<1> QED
  BY <1>2, <1>3, <1>4 DEF IInv

\* Every reachable state satisfies the invariant.
THEOREM Invariant == Spec => []IInv
<1>1. Init => IInv
  BY InitInv
<1>2. IInv /\ [Next]_vars => IInv'
  BY InvStep
<1> QED
  BY <1>1, <1>2, PTL DEF Spec

\* Every variable keeps its type.
THEOREM TypeCorrect == Spec => []TypeOK
<1>1. IInv => TypeOK
  BY DEF IInv
<1> QED
  BY Invariant, <1>1, PTL

\* What the device calls synced is on the server, with any number of tabs,
\* lost answers, reloads and manual retries, with the lock or without.
THEOREM Synced == Spec => []SyncedIsRecorded
<1>1. IInv => SyncedIsRecorded
  BY DEF IInv
<1> QED
  BY Invariant, <1>1, PTL

\* An operation marked "syncing" is held by a drain, or a reload stranded it.
THEOREM HeldOrStranded == Spec => []SyncingIsHeld
<1>1. IInv => SyncingIsHeld
  BY DEF IInv, SyncingIsMarked, SyncingIsHeld
<1> QED
  BY Invariant, <1>1, PTL

\* With the lock, an operation that took effect is reported so unless its
\* answer was lost, or a retry or discard rewrote it when it had stopped being failed.
THEOREM Effects == Spec => []EffectsAreReported
<1>1. IInv => EffectsAreReported
  BY DEF IInv, LockedInv, EffectsKnown, EffectsAreReported, Waiting, Excused
<1> QED
  BY Invariant, <1>1, PTL

\* With the lock, nothing is tried a second time unasked.
THEOREM Attempts == Spec => []AttemptsAreManual
<1>1. IInv => AttemptsAreManual
  BY DEF IInv, LockedInv, RetriesAtRest, AttemptsAreManual
<1> QED
  BY Invariant, <1>1, PTL

\* A check-out is replaced only where two stops, of batches or online, had both
\* read the row as open.
THEOREM CheckOut == Spec => CheckOutIsFinal
<1>1. IInv /\ [Next]_vars =>
        [\A s \in Ops : closedBy[s] # None /\ closedBy'[s] # closedBy[s] => s \in raced]_vars
  BY CheckOutStep DEF IInv
<1> QED
  BY Invariant, <1>1, PTL DEF Spec, CheckOutIsFinal

=============================================================================
