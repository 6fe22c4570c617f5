------------------------- MODULE QueueRuntimeProofs -------------------------
(***************************************************************************)
(* Proofs about QueueRuntime, for any number of messages, keys, workers,   *)
(* attempts and faults.                                                    *)
(***************************************************************************)
EXTENDS QueueRuntime, FiniteSetTheorems, TLAPS

LEMMA BackoffType == ASSUME NEW n \in Nat PROVE Backoff(n) \in Int
  BY DEF Backoff

-----------------------------------------------------------------------------
(* Types: a worker that is in the middle of a message has one. *)

HasMessage == \A w \in Workers : pc[w] \notin {"idle", "next"} => cur[w] \in Msgs

TypeInv == TypeOK /\ HasMessage

LEMMA TypeInit == Init => TypeInv
  BY QueueAssumption DEF Init, TypeInv, TypeOK, HasMessage, Stages

LEMMA GoToType ==
  ASSUME TypeInv, NEW w \in Workers, NEW s \in Stages \ {"idle", "next"},
         NEW t \in Stages, GoTo(w, s, t)
  PROVE  /\ pc' \in [Workers -> Stages]
         /\ HasMessage'
         /\ cur[w] \in Msgs
  BY DEF TypeInv, TypeOK, HasMessage, GoTo

LEMMA FinishType ==
  ASSUME TypeInv, NEW w \in Workers, NEW s \in Stages \ {"idle", "next"}, Finish(w, s)
  PROVE  /\ pc' \in [Workers -> Stages]
         /\ batch' \in [Workers -> SUBSET Msgs]
         /\ cur' \in [Workers -> Msgs \union {None}]
         /\ ct' \in [Workers -> [Msgs -> Nat]]
         /\ HasMessage'
         /\ cur[w] \in Msgs
  BY DEF TypeInv, TypeOK, HasMessage, Finish, Stages

LEMMA TypeNext == TypeInv /\ [Next]_vars => TypeInv'
<1> SUFFICES ASSUME TypeInv, [Next]_vars PROVE TypeInv'
  OBVIOUS
<1> USE QueueAssumption
<1>1. ASSUME NEW m \in Msgs, Send(m) PROVE TypeInv'
  BY <1>1 DEF TypeInv, TypeOK, HasMessage, Send, tableVars, workerVars
<1>2. ASSUME NEW m \in Msgs, Expire(m) PROVE TypeInv'
  BY <1>2 DEF TypeInv, TypeOK, HasMessage, Expire, VtRunsOut, tableVars, workerVars
<1>3. ASSUME NEW m \in Msgs, ExpireEarly(m) PROVE TypeInv'
  BY <1>3 DEF TypeInv, TypeOK, HasMessage, ExpireEarly, VtRunsOut, Fault, tableVars, workerVars
<1>4. ASSUME NEW w \in Workers, ReadBatch(w) PROVE TypeInv'
  BY <1>4 DEF TypeInv, TypeOK, HasMessage, ReadBatch, Waiting, Stages, tableVars
<1>5. ASSUME NEW w \in Workers, TakeNext(w) PROVE TypeInv'
  BY <1>5 DEF TypeInv, TypeOK, HasMessage, TakeNext, Stages, queueVars, tableVars
<1>6. ASSUME NEW w \in Workers, EndBatch(w) PROVE TypeInv'
  <2>1. TypeOK'
    BY <1>6 DEF TypeInv, TypeOK, EndBatch, GoTo, Stages, queueVars, tableVars
  <2>2. HasMessage'
    BY <1>6 DEF TypeInv, TypeOK, HasMessage, EndBatch, GoTo
  <2> QED
    BY <2>1, <2>2 DEF TypeInv
<1>7. ASSUME NEW w \in Workers, Dedup(w) PROVE TypeInv'
  <2>1. PICK t \in {"archive", "dlq", "handler"} : GoTo(w, "dedup", t)
    BY <1>7 DEF Dedup
  <2>2. t \in Stages /\ "dedup" \in Stages \ {"idle", "next"}
    BY DEF Stages
  <2>3. pc' \in [Workers -> Stages] /\ HasMessage' /\ cur[w] \in Msgs
    BY <2>1, <2>2, GoToType
  <2>4. faults' \in Nat
    BY <1>7 DEF TypeInv, TypeOK, Dedup, RpcOk, RpcFails, Fault
  <2> QED
    BY <1>7, <2>1, <2>3, <2>4 DEF TypeInv, TypeOK, Dedup, GoTo, queueVars, tableVars
<1>8. ASSUME NEW w \in Workers, HandlerSucceeds(w) PROVE TypeInv'
  <2>1. GoTo(w, "handler", "record")
    BY <1>8 DEF HandlerSucceeds
  <2>2. pc' \in [Workers -> Stages] /\ HasMessage' /\ cur[w] \in Msgs
    BY <2>1, GoToType DEF Stages
  <2> QED
    BY <1>8, <2>2 DEF TypeInv, TypeOK, HandlerSucceeds, GoTo, queueVars, tableVars
<1>9. ASSUME NEW w \in Workers, HandlerFails(w) PROVE TypeInv'
  BY <1>9 DEF TypeInv, TypeOK, HasMessage, HandlerFails, GoTo, Stages, queueVars, tableVars
<1>10. ASSUME NEW w \in Workers, HandlerLeaves(w) PROVE TypeInv'
  BY <1>10, FinishType DEF TypeInv, TypeOK, HandlerLeaves, Stages, tableVars
<1>11. ASSUME NEW w \in Workers, Record(w) PROVE TypeInv'
  <2>1. GoTo(w, "record", "archive")
    BY <1>11 DEF Record
  <2>2. pc' \in [Workers -> Stages] /\ HasMessage' /\ cur[w] \in Msgs
    BY <2>1, GoToType DEF Stages
  <2>3. processed' \subseteq Keys
    BY <1>11, <2>2 DEF TypeInv, TypeOK, Record
  <2>4. faults' \in Nat
    BY <1>11 DEF TypeInv, TypeOK, Record, RpcOk, RpcFails, Fault
  <2> QED
    BY <1>11, <2>2, <2>3, <2>4 DEF TypeInv, TypeOK, Record, GoTo, queueVars
<1>12. ASSUME NEW w \in Workers, Archive(w) PROVE TypeInv'
  <2>1. Finish(w, "archive")
    BY <1>12 DEF Archive
  <2>2. /\ pc' \in [Workers -> Stages] /\ batch' \in [Workers -> SUBSET Msgs]
        /\ cur' \in [Workers -> Msgs \union {None}]
        /\ ct' \in [Workers -> [Msgs -> Nat]]
        /\ HasMessage' /\ cur[w] \in Msgs
    BY <2>1, FinishType DEF Stages
  <2>3. qstate' \in [Msgs -> {"unsent", "queued", "archived"}]
    BY <1>12, <2>2 DEF TypeInv, TypeOK, Archive
  <2>4. faults' \in Nat
    BY <1>12 DEF TypeInv, TypeOK, Archive, RpcOk, RpcFails, Fault
  <2> QED
    BY <1>12, <2>2, <2>3, <2>4 DEF TypeInv, TypeOK, Archive, tableVars
<1>13. ASSUME NEW w \in Workers, Retry(w) PROVE TypeInv'
  <2>1. Finish(w, "retry")
    BY <1>13 DEF Retry
  <2>2. /\ pc' \in [Workers -> Stages] /\ batch' \in [Workers -> SUBSET Msgs]
        /\ cur' \in [Workers -> Msgs \union {None}]
        /\ ct' \in [Workers -> [Msgs -> Nat]]
        /\ HasMessage' /\ cur[w] \in Msgs
    BY <2>1, FinishType DEF Stages
  <2>3. Backoff(ct[w][cur[w]]) \in Int
    BY <2>2, BackoffType DEF TypeInv, TypeOK
  <2>4. visible' \in [Msgs -> BOOLEAN] /\ backoff' \in [Msgs -> Int]
    <3>1. \/ UNCHANGED <<visible, backoff>>
          \/ /\ visible' = [visible EXCEPT ![cur[w]] = FALSE]
             /\ backoff' = [backoff EXCEPT ![cur[w]] = Backoff(ct[w][cur[w]])]
      BY <1>13 DEF Retry
    <3>2. visible' \in [Msgs -> BOOLEAN]
      BY <3>1 DEF TypeInv, TypeOK
    <3>3. backoff' \in [Msgs -> Int]
      BY <3>1, <2>3 DEF TypeInv, TypeOK
    <3> QED
      BY <3>2, <3>3
  <2>5. faults' \in Nat
    BY <1>13 DEF TypeInv, TypeOK, Retry, RpcOk, RpcFails, Fault
  <2> QED
    BY <1>13, <2>2, <2>4, <2>5 DEF TypeInv, TypeOK, Retry, tableVars
<1>14. ASSUME NEW w \in Workers, MoveToDlq(w) PROVE TypeInv'
  <2>1. GoTo(w, "dlq", "archive")
    BY <1>14 DEF MoveToDlq
  <2>2. pc' \in [Workers -> Stages] /\ HasMessage' /\ cur[w] \in Msgs
    BY <2>1, GoToType DEF Stages
  <2>3. dlq' \in [Msgs -> Nat]
    BY <1>14, <2>2 DEF TypeInv, TypeOK, MoveToDlq
  <2>4. faults' \in Nat
    BY <1>14 DEF TypeInv, TypeOK, MoveToDlq, RpcOk, RpcFails, Fault
  <2> QED
    BY <1>14, <2>2, <2>3, <2>4 DEF TypeInv, TypeOK, MoveToDlq, GoTo, queueVars
<1>15. ASSUME NEW w \in Workers, Crash(w) PROVE TypeInv'
  BY <1>15 DEF TypeInv, TypeOK, HasMessage, Crash, Fault, Stages, queueVars, tableVars
<1>16. ASSUME UNCHANGED vars PROVE TypeInv'
  BY <1>16 DEF TypeInv, TypeOK, HasMessage, vars, queueVars, tableVars, workerVars
<1> QED
  BY <1>1, <1>2, <1>3, <1>4, <1>5, <1>6, <1>7, <1>8, <1>9, <1>10, <1>11, <1>12,
     <1>13, <1>14, <1>15, <1>16 DEF Next, Step

\* The state of the queue, its tables and its workers stays of its type.
THEOREM TypeCorrect == Spec => []TypeOK
<1>1. TypeInv => TypeOK
  BY DEF TypeInv
<1> QED
  BY <1>1, TypeInit, TypeNext, PTL DEF Spec

-----------------------------------------------------------------------------
(* No message is lost.  The invariant follows the justification of an      *)
(* archive back through the stages that lead to it.                        *)

RecordedIsDone == \A k \in processed : done[k] > 0

Justified(m) == done[KeyOf[m]] > 0 \/ dlq[m] > 0

ArchiveIsJustified ==
  \A w \in Workers : /\ pc[w] = "record" => done[KeyOf[cur[w]]] > 0
                     /\ pc[w] = "archive" => Justified(cur[w])

LossInv == RecordedIsDone /\ ArchiveIsJustified /\ NoSilentLoss

LEMMA LossInit == Init => LossInv
  BY DEF Init, LossInv, RecordedIsDone, ArchiveIsJustified, NoSilentLoss

\* Verdicts are never taken back.
LEMMA VerdictsStay ==
  TypeInv /\ [Next]_vars => /\ \A k \in Keys : done[k] > 0 => done'[k] > 0
                            /\ \A m \in Msgs : dlq[m] > 0 => dlq'[m] > 0
<1> SUFFICES ASSUME TypeInv, [Next]_vars
             PROVE  /\ \A k \in Keys : done[k] > 0 => done'[k] > 0
                    /\ \A m \in Msgs : dlq[m] > 0 => dlq'[m] > 0
  OBVIOUS
<1>1. \/ UNCHANGED done
      \/ \E w \in Workers : done' = [done EXCEPT ![KeyOf[cur[w]]] = @ + 1]
  BY DEF Next, Step, Send, Expire, ExpireEarly, VtRunsOut, ReadBatch, TakeNext, EndBatch, Dedup,
     HandlerSucceeds, HandlerFails, HandlerLeaves, Record, Archive, Retry, MoveToDlq, Crash, vars
<1>2. \/ UNCHANGED dlq
      \/ \E w \in Workers : dlq' = [dlq EXCEPT ![cur[w]] = @ + 1]
  BY DEF Next, Step, Send, Expire, ExpireEarly, VtRunsOut, ReadBatch, TakeNext, EndBatch, Dedup,
     HandlerSucceeds, HandlerFails, HandlerLeaves, Record, Archive, Retry, MoveToDlq, Crash,
     vars, tableVars
<1>3. ASSUME NEW k \in Keys, done[k] > 0 PROVE done'[k] > 0
  BY <1>1, <1>3 DEF TypeInv, TypeOK
<1>4. ASSUME NEW m \in Msgs, dlq[m] > 0 PROVE dlq'[m] > 0
  BY <1>2, <1>4 DEF TypeInv, TypeOK
<1> QED
  BY <1>3, <1>4

\* What ArchiveIsJustified says of one worker.
WorkerJustified(w) ==
  /\ pc[w] = "record" => done[KeyOf[cur[w]]] > 0
  /\ pc[w] = "archive" => Justified(cur[w])

\* A worker that did not move keeps its justification.
LEMMA BystanderJustified ==
  ASSUME TypeInv, LossInv, [Next]_vars, NEW v \in Workers,
         pc'[v] = pc[v], cur'[v] = cur[v]
  PROVE  WorkerJustified(v)'
<1>1. pc[v] \in {"record", "archive"} => cur[v] \in Msgs /\ KeyOf[cur[v]] \in Keys
  BY QueueAssumption DEF TypeInv, HasMessage
<1> QED
  BY <1>1, VerdictsStay DEF LossInv, ArchiveIsJustified, WorkerJustified, Justified

LEMMA LossNext ==
  ASSUME "move_to_dlq" \notin FailingRpcs, TypeInv, LossInv, [Next]_vars
  PROVE  LossInv'
<1> USE QueueAssumption
<1>1. ASSUME UNCHANGED <<workerVars, processed>>,
             \A m \in Msgs : qstate'[m] = "archived" => qstate[m] = "archived"
      PROVE  LossInv'
  <2>1. RecordedIsDone'
    BY <1>1, VerdictsStay DEF LossInv, RecordedIsDone, TypeInv, TypeOK
  <2>2. ArchiveIsJustified'
    BY <1>1, BystanderJustified DEF workerVars, ArchiveIsJustified, WorkerJustified, Justified
  <2>3. NoSilentLoss'
    BY <1>1, VerdictsStay DEF LossInv, NoSilentLoss
  <2> QED
    BY <2>1, <2>2, <2>3 DEF LossInv
<1>2. ASSUME NEW w \in Workers, WorkerJustified(w)',
             \A v \in Workers \ {w} : pc'[v] = pc[v] /\ cur'[v] = cur[v],
             \A k \in processed' : k \in processed \/ (k \in Keys /\ done[k] > 0),
             \A m \in Msgs : qstate'[m] = "archived" => qstate[m] = "archived" \/ Justified(m)
      PROVE  LossInv'
  <2>1. RecordedIsDone'
    BY <1>2, VerdictsStay DEF LossInv, RecordedIsDone, TypeInv, TypeOK
  <2>2. ArchiveIsJustified'
    <3> SUFFICES ASSUME NEW v \in Workers PROVE WorkerJustified(v)'
      BY DEF ArchiveIsJustified, WorkerJustified, Justified
    <3> QED
      BY <1>2, BystanderJustified
  <2>3. NoSilentLoss'
    BY <1>2, VerdictsStay DEF LossInv, NoSilentLoss, Justified
  <2> QED
    BY <2>1, <2>2, <2>3 DEF LossInv
<1>3. ASSUME NEW m \in Msgs, Send(m) \/ Expire(m) \/ ExpireEarly(m) PROVE LossInv'
  <2>1. UNCHANGED <<workerVars, processed>>
    BY <1>3 DEF Send, Expire, ExpireEarly, VtRunsOut, tableVars
  <2>2. \A n \in Msgs : qstate'[n] = "archived" => qstate[n] = "archived"
    BY <1>3 DEF Send, Expire, ExpireEarly, VtRunsOut, TypeInv, TypeOK
  <2> QED
    BY <1>1, <2>1, <2>2
<1>4. ASSUME UNCHANGED vars PROVE LossInv'
  BY <1>1, <1>4 DEF vars, queueVars, tableVars
<1>5. ASSUME NEW w \in Workers, ReadBatch(w) \/ TakeNext(w) \/ EndBatch(w) \/ HandlerFails(w)
                                \/ HandlerLeaves(w) \/ Retry(w) \/ Crash(w)
      PROVE  LossInv'
  <2>1. /\ \A v \in Workers \ {w} : pc'[v] = pc[v] /\ cur'[v] = cur[v]
        /\ UNCHANGED <<qstate, processed>>
    BY <1>5 DEF ReadBatch, TakeNext, EndBatch, HandlerFails, HandlerLeaves, Retry, Crash, GoTo, Finish,
       queueVars, tableVars, TypeInv, TypeOK
  <2>2. pc'[w] \notin {"record", "archive"}
    BY <1>5 DEF ReadBatch, TakeNext, EndBatch, HandlerFails, HandlerLeaves, Retry, Crash, GoTo, Finish,
       TypeInv, TypeOK
  <2> QED
    BY <1>2, <2>1, <2>2 DEF WorkerJustified, LossInv, RecordedIsDone, TypeInv, TypeOK
<1>6. ASSUME NEW w \in Workers, Dedup(w) PROVE LossInv'
  <2>1. cur[w] \in Msgs
    BY <1>6 DEF Dedup, TypeInv, HasMessage
  <2>2. WorkerJustified(w)'
    BY <1>6, <2>1 DEF Dedup, GoTo, TypeInv, TypeOK, WorkerJustified, Justified, LossInv, RecordedIsDone,
       tableVars
  <2>3. /\ \A v \in Workers \ {w} : pc'[v] = pc[v] /\ cur'[v] = cur[v]
        /\ UNCHANGED <<qstate, processed>>
    BY <1>6 DEF Dedup, GoTo, queueVars, tableVars, TypeInv, TypeOK
  <2> QED
    BY <1>2, <2>2, <2>3 DEF LossInv, RecordedIsDone, TypeInv, TypeOK
<1>7. ASSUME NEW w \in Workers, HandlerSucceeds(w) PROVE LossInv'
  <2>1. cur[w] \in Msgs
    BY <1>7 DEF HandlerSucceeds, GoTo, TypeInv, HasMessage
  <2>2. WorkerJustified(w)'
    BY <1>7, <2>1 DEF HandlerSucceeds, GoTo, TypeInv, TypeOK, WorkerJustified
  <2>3. /\ \A v \in Workers \ {w} : pc'[v] = pc[v] /\ cur'[v] = cur[v]
        /\ UNCHANGED <<qstate, processed>>
    BY <1>7 DEF HandlerSucceeds, GoTo, queueVars, tableVars, TypeInv, TypeOK
  <2> QED
    BY <1>2, <2>2, <2>3 DEF LossInv, RecordedIsDone, TypeInv, TypeOK
<1>8. ASSUME NEW w \in Workers, Record(w) PROVE LossInv'
  <2>1. cur[w] \in Msgs /\ KeyOf[cur[w]] \in Keys /\ done[KeyOf[cur[w]]] > 0
    BY <1>8 DEF Record, GoTo, TypeInv, HasMessage, LossInv, ArchiveIsJustified
  <2>2. WorkerJustified(w)'
    BY <1>8, <2>1 DEF Record, GoTo, TypeInv, TypeOK, WorkerJustified, Justified
  <2>3. /\ \A v \in Workers \ {w} : pc'[v] = pc[v] /\ cur'[v] = cur[v]
        /\ UNCHANGED qstate
    BY <1>8 DEF Record, GoTo, queueVars, TypeInv, TypeOK
  <2>4. \A k \in processed' : k \in processed \/ (k \in Keys /\ done[k] > 0)
    BY <1>8, <2>1 DEF Record
  <2> QED
    BY <1>2, <2>2, <2>3, <2>4
<1>9. ASSUME NEW w \in Workers, Archive(w) PROVE LossInv'
  <2>1. cur[w] \in Msgs /\ Justified(cur[w])
    BY <1>9 DEF Archive, Finish, TypeInv, HasMessage, LossInv, ArchiveIsJustified
  <2>2. pc'[w] = "next"
    BY <1>9 DEF Archive, Finish, TypeInv, TypeOK
  <2>3. /\ \A v \in Workers \ {w} : pc'[v] = pc[v] /\ cur'[v] = cur[v]
        /\ UNCHANGED processed
    BY <1>9 DEF Archive, Finish, tableVars, TypeInv, TypeOK
  <2>4. \A m \in Msgs : qstate'[m] = "archived" => qstate[m] = "archived" \/ Justified(m)
    BY <1>9, <2>1 DEF Archive, TypeInv, TypeOK
  <2> QED
    BY <1>2, <2>2, <2>3, <2>4 DEF WorkerJustified
<1>10. ASSUME NEW w \in Workers, MoveToDlq(w) PROVE LossInv'
  <2>1. cur[w] \in Msgs
    BY <1>10 DEF MoveToDlq, GoTo, TypeInv, HasMessage
  <2>2. WorkerJustified(w)'
    BY <1>10, <2>1 DEF MoveToDlq, RpcFails, GoTo, TypeInv, TypeOK, WorkerJustified, Justified
  <2>3. /\ \A v \in Workers \ {w} : pc'[v] = pc[v] /\ cur'[v] = cur[v]
        /\ UNCHANGED <<qstate, processed>>
    BY <1>10 DEF MoveToDlq, GoTo, queueVars, TypeInv, TypeOK
  <2> QED
    BY <1>2, <2>2, <2>3 DEF LossInv, RecordedIsDone, TypeInv, TypeOK
<1> QED
  BY <1>3, <1>4, <1>5, <1>6, <1>7, <1>8, <1>9, <1>10 DEF Next, Step

\* As long as the dead-letter table can be written, whatever else fails,
\* crashes or overlaps, no message leaves the queue without its work done
\* or a dead-letter row.
THEOREM NothingLost ==
  ASSUME "move_to_dlq" \notin FailingRpcs
  PROVE  Spec => []NoSilentLoss
<1>1. LossInv => NoSilentLoss
  BY DEF LossInv
<1>2. TypeInv /\ LossInv /\ [Next]_vars => LossInv'
  BY LossNext
<1> QED
  BY <1>1, <1>2, TypeInit, TypeNext, LossInit, PTL DEF Spec

-----------------------------------------------------------------------------
(* Dead letters are exhausted: a worker's copy of read_ct is never ahead   *)
(* of the queue's, so what it decides on that copy holds for the queue.    *)

WellFormed == Msgs \ (NoTenant \union NoHandler)

CopiesLag == \A w \in Workers, m \in Msgs : ct[w][m] <= readCt[m]

BurialIsDue ==
  \A w \in Workers : pc[w] = "dlq" /\ cur[w] \in WellFormed => ct[w][cur[w]] >= MaxAttempts

ExhaustInv == CopiesLag /\ BurialIsDue /\ DeadLettersAreExhausted

LEMMA ExhaustInit == Init => ExhaustInv
  BY DEF Init, ExhaustInv, CopiesLag, BurialIsDue, DeadLettersAreExhausted

LEMMA ExhaustNext == TypeInv /\ ExhaustInv /\ [Next]_vars => ExhaustInv'
<1> SUFFICES ASSUME TypeInv, ExhaustInv, [Next]_vars PROVE ExhaustInv'
  OBVIOUS
<1> USE QueueAssumption
<1>1. ASSUME NEW m \in Msgs, Send(m) \/ Expire(m) \/ ExpireEarly(m) PROVE ExhaustInv'
  BY <1>1 DEF Send, Expire, ExpireEarly, VtRunsOut, tableVars, workerVars, ExhaustInv, CopiesLag,
     BurialIsDue, DeadLettersAreExhausted
<1>2. ASSUME NEW w \in Workers, ReadBatch(w) PROVE ExhaustInv'
  <2>1. CopiesLag' /\ \A m \in Msgs : readCt[m] <= readCt'[m]
    BY <1>2 DEF ReadBatch, Waiting, ExhaustInv, CopiesLag, TypeInv, TypeOK
  <2>2. BurialIsDue'
    BY <1>2 DEF ReadBatch, ExhaustInv, BurialIsDue, TypeInv, TypeOK
  <2>3. DeadLettersAreExhausted'
    <3>1. readCt' \in [Msgs -> Nat] /\ UNCHANGED dlq
      BY <1>2, TypeNext DEF ReadBatch, tableVars, TypeInv, TypeOK
    <3> QED
      BY <2>1, <3>1 DEF ExhaustInv, DeadLettersAreExhausted, TypeInv, TypeOK
  <2> QED
    BY <2>1, <2>2, <2>3 DEF ExhaustInv
<1>3. ASSUME NEW w \in Workers, TakeNext(w) PROVE ExhaustInv'
  BY <1>3 DEF TakeNext, queueVars, tableVars, ExhaustInv, CopiesLag, BurialIsDue, WellFormed,
     DeadLettersAreExhausted, TypeInv, TypeOK
<1>4. ASSUME NEW w \in Workers,
             EndBatch(w) \/ Dedup(w) \/ HandlerSucceeds(w) \/ HandlerFails(w) \/ Record(w)
      PROVE  ExhaustInv'
  <2>1. UNCHANGED <<queueVars, dlq, cur, ct>>
    BY <1>4 DEF EndBatch, Dedup, HandlerSucceeds, HandlerFails, Record, GoTo, tableVars
  <2>2. BurialIsDue'
    <3>1. \A v \in Workers \ {w} : pc'[v] = pc[v]
      BY <1>4 DEF EndBatch, Dedup, HandlerSucceeds, HandlerFails, Record, GoTo, TypeInv, TypeOK
    <3>2. pc'[w] = "dlq" /\ cur[w] \in WellFormed => ct[w][cur[w]] >= MaxAttempts
      BY <1>4 DEF EndBatch, Dedup, HandlerSucceeds, HandlerFails, Record, GoTo, WellFormed, TypeInv, TypeOK
    <3> QED
      BY <2>1, <3>1, <3>2 DEF ExhaustInv, BurialIsDue
  <2> QED
    BY <2>1, <2>2 DEF queueVars, ExhaustInv, CopiesLag, DeadLettersAreExhausted
<1>5. ASSUME NEW w \in Workers,
             HandlerLeaves(w) \/ Archive(w) \/ Retry(w) \/ Crash(w)
      PROVE  ExhaustInv'
  <2>1. /\ UNCHANGED <<readCt, dlq>>
        /\ pc'[w] \in {"next", "idle"}
        /\ \A v \in Workers \ {w} : pc'[v] = pc[v] /\ cur'[v] = cur[v] /\ ct'[v] = ct[v]
    BY <1>5 DEF HandlerLeaves, Archive, Retry, Crash, Finish, queueVars, tableVars, TypeInv, TypeOK
  <2>2. \A m \in Msgs : ct'[w][m] = 0 \/ ct'[w][m] = ct[w][m]
    BY <1>5 DEF HandlerLeaves, Archive, Retry, Crash, Finish, TypeInv, TypeOK
  <2>3. CopiesLag'
    <3> SUFFICES ASSUME NEW v \in Workers, NEW m \in Msgs
                 PROVE  ct'[v][m] <= readCt[m]
      BY <2>1 DEF CopiesLag
    <3>1. ct[v][m] \in Nat /\ readCt[m] \in Nat /\ ct[v][m] <= readCt[m]
      BY DEF ExhaustInv, CopiesLag, TypeInv, TypeOK
    <3>2. CASE v = w
      BY <2>2, <3>1, <3>2
    <3>3. CASE v # w
      BY <2>1, <3>1, <3>3
    <3> QED
      BY <3>2, <3>3
  <2> QED
    BY <2>1, <2>3 DEF ExhaustInv, BurialIsDue, DeadLettersAreExhausted
<1>6. ASSUME NEW w \in Workers, MoveToDlq(w) PROVE ExhaustInv'
  <2>1. CopiesLag'
    BY <1>6 DEF MoveToDlq, GoTo, queueVars, ExhaustInv, CopiesLag
  <2>2. BurialIsDue'
    BY <1>6 DEF MoveToDlq, GoTo, ExhaustInv, BurialIsDue, TypeInv, TypeOK
  <2>3. ASSUME NEW m \in WellFormed, dlq'[m] > 0 PROVE readCt'[m] >= MaxAttempts
    <3>1. CASE m = cur[w]
      <4>1. ct[w][m] >= MaxAttempts /\ ct[w][m] <= readCt[m]
        BY <1>6, <3>1, <2>3 DEF MoveToDlq, GoTo, ExhaustInv, BurialIsDue, CopiesLag, WellFormed
      <4> QED
        BY <1>6, <4>1 DEF MoveToDlq, queueVars, WellFormed, TypeInv, TypeOK
    <3>2. CASE m # cur[w]
      BY <1>6, <3>2, <2>3 DEF MoveToDlq, queueVars, ExhaustInv, DeadLettersAreExhausted, WellFormed,
         TypeInv, TypeOK
    <3> QED
      BY <3>1, <3>2
  <2> QED
    BY <2>1, <2>2, <2>3 DEF ExhaustInv, DeadLettersAreExhausted, WellFormed
<1>7. ASSUME UNCHANGED vars PROVE ExhaustInv'
  BY <1>7 DEF vars, queueVars, tableVars, workerVars, ExhaustInv, CopiesLag, BurialIsDue,
     DeadLettersAreExhausted
<1> QED
  BY <1>1, <1>2, <1>3, <1>4, <1>5, <1>6, <1>7 DEF Next, Step

\* Whatever crashes, fails or overlaps, a well-formed message reaches the
\* dead-letter table only after maxAttempts reads.
THEOREM DeadLettersExhausted == Spec => []DeadLettersAreExhausted
<1>1. ExhaustInv => DeadLettersAreExhausted
  BY DEF ExhaustInv
<1> QED
  BY <1>1, TypeInit, TypeNext, ExhaustInit, ExhaustNext, PTL DEF Spec


-----------------------------------------------------------------------------
(* Where the messages of a worker are, and what its steps do to them. *)

\* A worker between two messages has none in hand, and one that is idle has no
\* batch; the message in hand is not in the batch any more.
Placed ==
  \A w \in Workers :
    /\ pc[w] \in {"idle", "next"} => cur[w] = None
    /\ pc[w] = "idle" => batch[w] = {}
    /\ cur[w] \notin batch[w]

\* What a worker holds was sent.
HeldIsSent == \A w \in Workers : \A m \in Held(w) : qstate[m] # "unsent"

ShapeInv == TypeInv /\ Placed /\ HeldIsSent

\* A worker that keeps its message, and one that is through with it.
Keeps(w) ==
  /\ UNCHANGED <<batch, cur, qstate, visible>>
  /\ pc[w] # "idle" /\ \A v \in Workers \ {w} : pc'[v] = pc[v]

Drops(w) ==
  /\ UNCHANGED <<batch, dlq, processed, done>>
  /\ pc[w] \in {"handler", "archive", "retry"} /\ cur[w] \in Msgs
  /\ pc'[w] = "next" /\ cur'[w] = None
  /\ \A v \in Workers \ {w} : pc'[v] = pc[v] /\ cur'[v] = cur[v]
  /\ \A m \in Msgs \ {cur[w]} : qstate'[m] = qstate[m] /\ visible'[m] = visible[m]
  /\ qstate'[cur[w]] # qstate[cur[w]] => pc[w] = "archive" /\ qstate'[cur[w]] = "archived"
  /\ visible'[cur[w]] => visible[cur[w]]

LEMMA KeepsEffect ==
  ASSUME TypeInv, NEW w \in Workers,
         EndBatch(w) \/ Dedup(w) \/ HandlerSucceeds(w) \/ HandlerFails(w) \/ Record(w) \/ MoveToDlq(w)
  PROVE  /\ Keeps(w)
         /\ pc[w] = "next" => pc'[w] = "idle" /\ batch[w] = {}
         /\ pc[w] # "next" => pc'[w] \notin {"idle", "next"} /\ cur[w] \in Msgs
<1>1. UNCHANGED <<batch, cur, qstate, visible>>
  BY DEF EndBatch, Dedup, HandlerSucceeds, HandlerFails, Record, MoveToDlq, GoTo, queueVars
<1>2. /\ pc[w] # "idle" /\ \A v \in Workers \ {w} : pc'[v] = pc[v]
      /\ pc[w] = "next" => pc'[w] = "idle" /\ batch[w] = {}
      /\ pc[w] # "next" => pc'[w] \notin {"idle", "next"}
  BY DEF EndBatch, Dedup, HandlerSucceeds, HandlerFails, Record, MoveToDlq, GoTo, TypeInv, TypeOK
<1>3. pc[w] # "next" => cur[w] \in Msgs
  BY <1>2 DEF TypeInv, HasMessage
<1> QED
  BY <1>1, <1>2, <1>3 DEF Keeps

LEMMA DropsEffect ==
  ASSUME TypeInv, NEW w \in Workers, HandlerLeaves(w) \/ Archive(w) \/ Retry(w)
  PROVE  Drops(w)
<1>1. /\ pc[w] \in {"handler", "archive", "retry"} /\ pc'[w] = "next" /\ cur'[w] = None
      /\ UNCHANGED <<batch, dlq, processed, done>>
      /\ \A v \in Workers \ {w} : pc'[v] = pc[v] /\ cur'[v] = cur[v]
  BY DEF HandlerLeaves, Archive, Retry, Finish, tableVars, TypeInv, TypeOK
<1>2. cur[w] \in Msgs
  BY <1>1 DEF TypeInv, HasMessage
<1>3. /\ \A m \in Msgs \ {cur[w]} : qstate'[m] = qstate[m] /\ visible'[m] = visible[m]
      /\ qstate'[cur[w]] # qstate[cur[w]] => pc[w] = "archive" /\ qstate'[cur[w]] = "archived"
      /\ visible'[cur[w]] => visible[cur[w]]
  BY <1>2 DEF HandlerLeaves, Archive, Retry, Finish, TypeInv, TypeOK
<1> QED
  BY <1>1, <1>2, <1>3 DEF Drops

\* What worker w reads.
Reads(w, S) ==
  /\ S \in SUBSET Waiting /\ pc[w] = "idle" /\ pc'[w] = "next" /\ batch'[w] = S
  /\ \A m \in S : ~visible'[m]
  /\ \A m \in Msgs \ S : visible'[m] = visible[m]
  /\ \A v \in Workers \ {w} : pc'[v] = pc[v] /\ batch'[v] = batch[v]
  /\ UNCHANGED <<cur, qstate, tableVars, done, faults>>

LEMMA ReadsEffect ==
  ASSUME TypeInv, NEW w \in Workers, ReadBatch(w)
  PROVE  \E S \in SUBSET Waiting : Reads(w, S)
<1>1. PICK S \in SUBSET Waiting :
        /\ visible' = [m \in Msgs |-> visible[m] /\ m \notin S]
        /\ batch' = [batch EXCEPT ![w] = S]
  BY DEF ReadBatch
<1>2. /\ pc[w] = "idle" /\ pc' = [pc EXCEPT ![w] = "next"]
      /\ UNCHANGED <<cur, qstate, tableVars, done, faults>>
  BY DEF ReadBatch
<1>3. S \subseteq Msgs
  BY DEF Waiting
<1>4. /\ \A m \in S : ~visible'[m]
      /\ \A m \in Msgs \ S : visible'[m] = visible[m]
  BY <1>1, <1>3 DEF TypeInv, TypeOK
<1>5. /\ pc'[w] = "next" /\ batch'[w] = S
      /\ \A v \in Workers \ {w} : pc'[v] = pc[v] /\ batch'[v] = batch[v]
  BY <1>1, <1>2 DEF TypeInv, TypeOK
<1> QED
  BY <1>2, <1>4, <1>5 DEF Reads

\* The message worker w takes in hand.
Takes(w, m) ==
  /\ pc[w] = "next" /\ m \in batch[w] /\ m \in Msgs
  /\ pc'[w] = (IF m \in NoTenant THEN "dlq" ELSE "dedup")
  /\ cur'[w] = m /\ batch'[w] = batch[w] \ {m}
  /\ \A v \in Workers \ {w} : pc'[v] = pc[v] /\ cur'[v] = cur[v] /\ batch'[v] = batch[v]
  /\ UNCHANGED <<queueVars, tableVars, done, faults>>

LEMMA TakesEffect ==
  ASSUME TypeInv, NEW w \in Workers, TakeNext(w)
  PROVE  \E m \in Msgs : Takes(w, m)
<1>1. PICK m \in batch[w] :
        /\ cur' = [cur EXCEPT ![w] = m]
        /\ batch' = [batch EXCEPT ![w] = @ \ {m}]
        /\ pc' = [pc EXCEPT ![w] = IF m \in NoTenant THEN "dlq" ELSE "dedup"]
  BY DEF TakeNext
<1>2. m \in Msgs /\ Takes(w, m)
  BY <1>1 DEF TakeNext, Takes, TypeInv, TypeOK
<1> QED
  BY <1>2

\* A worker that dies.
Dies(w) ==
  /\ pc'[w] = "idle" /\ batch'[w] = {} /\ cur'[w] = None
  /\ \A v \in Workers \ {w} : pc'[v] = pc[v] /\ cur'[v] = cur[v] /\ batch'[v] = batch[v]
  /\ UNCHANGED <<queueVars, tableVars, done>> /\ faults' = faults + 1

LEMMA DiesEffect ==
  ASSUME TypeInv, NEW w \in Workers, Crash(w)
  PROVE  Dies(w)
BY DEF Crash, Fault, Dies, TypeInv, TypeOK

\* The queue hides or shows message m, or has it for the first time.
Shows(m) ==
  /\ qstate'[m] = "queued" /\ qstate[m] \in {"unsent", "queued"} /\ visible'[m]
  /\ \A n \in Msgs \ {m} : qstate'[n] = qstate[n] /\ visible'[n] = visible[n]
  /\ UNCHANGED <<tableVars, workerVars, done>>

LEMMA ShowsEffect ==
  ASSUME TypeInv, NEW m \in Msgs, Send(m) \/ Expire(m) \/ ExpireEarly(m)
  PROVE  Shows(m)
BY DEF Send, Expire, ExpireEarly, VtRunsOut, Shows, TypeInv, TypeOK

LEMMA ShapeInit == Init => ShapeInv
  BY TypeInit, QueueAssumption DEF Init, ShapeInv, Placed, HeldIsSent, Held

LEMMA ShapeNext == ShapeInv /\ [Next]_vars => ShapeInv'
<1> SUFFICES ASSUME ShapeInv, [Next]_vars PROVE ShapeInv'
  OBVIOUS
<1> USE QueueAssumption
<1>1. TypeInv /\ TypeInv'
  BY TypeNext DEF ShapeInv
<1>2. CASE UNCHANGED vars
  BY <1>1, <1>2 DEF vars, queueVars, workerVars, ShapeInv, Placed, HeldIsSent, Held
<1>3. ASSUME NEW m \in Msgs, Send(m) \/ Expire(m) \/ ExpireEarly(m) PROVE ShapeInv'
  <2>1. Shows(m)
    BY <1>1, <1>3, ShowsEffect
  <2>2. \A n \in Msgs : qstate[n] # "unsent" => qstate'[n] # "unsent"
    BY <2>1 DEF Shows
  <2> QED
    BY <1>1, <2>1, <2>2 DEF Shows, workerVars, ShapeInv, Placed, HeldIsSent, Held, TypeInv, TypeOK
<1>4. ASSUME NEW w \in Workers,
             EndBatch(w) \/ Dedup(w) \/ HandlerSucceeds(w) \/ HandlerFails(w) \/ Record(w) \/ MoveToDlq(w)
      PROVE  ShapeInv'
  <2>1. /\ Keeps(w)
        /\ pc[w] = "next" => pc'[w] = "idle" /\ batch[w] = {}
        /\ pc[w] # "next" => pc'[w] \notin {"idle", "next"}
    BY <1>1, <1>4, KeepsEffect
  <2>2. Placed'
    BY <2>1 DEF Keeps, ShapeInv, Placed
  <2> QED
    BY <1>1, <2>1, <2>2 DEF Keeps, ShapeInv, HeldIsSent, Held
<1>5. ASSUME NEW w \in Workers, HandlerLeaves(w) \/ Archive(w) \/ Retry(w) PROVE ShapeInv'
  <2>1. Drops(w)
    BY <1>1, <1>5, DropsEffect
  <2>2. None \notin batch[w]
    BY <1>1 DEF TypeInv, TypeOK
  <2>3. Placed'
    BY <2>1, <2>2 DEF Drops, ShapeInv, Placed
  <2>4. \A m \in Msgs : qstate[m] # "unsent" => qstate'[m] # "unsent"
    BY <2>1 DEF Drops
  <2>5. \A v \in Workers : Held(v)' \subseteq Held(v) /\ Held(v) \subseteq Msgs
    BY <1>1, <2>1 DEF Drops, Held, TypeInv, TypeOK
  <2>6. HeldIsSent'
    BY <2>4, <2>5 DEF ShapeInv, HeldIsSent
  <2> QED
    BY <1>1, <2>3, <2>6 DEF ShapeInv
<1>6. ASSUME NEW w \in Workers, ReadBatch(w) PROVE ShapeInv'
  <2>1. PICK S \in SUBSET Waiting : Reads(w, S)
    BY <1>1, <1>6, ReadsEffect
  <2>2. cur[w] = None /\ None \notin S
    BY <2>1 DEF Reads, Waiting, ShapeInv, Placed
  <2>3. Placed'
    BY <2>1, <2>2 DEF Reads, ShapeInv, Placed
  <2>4. \A v \in Workers : \A m \in Held(v)' : m \in Held(v) \/ m \in Waiting
    BY <2>1, <2>2 DEF Reads, Held
  <2>5. HeldIsSent'
    BY <2>1, <2>4 DEF Reads, ShapeInv, HeldIsSent, Waiting
  <2> QED
    BY <1>1, <2>3, <2>5 DEF ShapeInv
<1>7. ASSUME NEW w \in Workers, TakeNext(w) PROVE ShapeInv'
  <2>1. PICK m \in Msgs : Takes(w, m)
    BY <1>1, <1>7, TakesEffect
  <2>2. Placed'
    BY <2>1 DEF Takes, ShapeInv, Placed
  <2>3. \A v \in Workers : Held(v)' \subseteq Held(v)
    BY <2>1 DEF Takes, Held
  <2>4. HeldIsSent'
    BY <2>1, <2>3 DEF Takes, queueVars, ShapeInv, HeldIsSent
  <2> QED
    BY <1>1, <2>2, <2>4 DEF ShapeInv
<1>8. ASSUME NEW w \in Workers, Crash(w) PROVE ShapeInv'
  <2>1. Dies(w)
    BY <1>1, <1>8, DiesEffect
  <2>2. Placed'
    BY <2>1 DEF Dies, ShapeInv, Placed
  <2>3. \A v \in Workers : Held(v)' \subseteq Held(v)
    BY <2>1 DEF Dies, Held
  <2>4. HeldIsSent'
    BY <2>1, <2>3 DEF Dies, queueVars, ShapeInv, HeldIsSent
  <2> QED
    BY <1>1, <2>2, <2>4 DEF ShapeInv
<1> QED
  BY <1>2, <1>3, <1>4, <1>5, <1>6, <1>7, <1>8 DEF Next, Step

-----------------------------------------------------------------------------
(* Repeats cost a fault each: a message has one chance of a verdict, in the *)
(* queue or with a worker, and every further chance is made by a fault.     *)

OneKeyEach == \A m, n \in Msgs : KeyOf[m] = KeyOf[n] => m = n

\* Worker w may still reach a verdict on m.
Trying == {"dedup", "handler", "retry", "dlq"}
Untried(w, m) == m \in batch[w] \/ (cur[w] = m /\ pc[w] \in Trying)
Tries(m) == {w \in Workers : Untried(w, m)}

\* A worker may still read m at no further cost.
Open(m) ==
  \/ qstate[m] = "unsent"
  \/ qstate[m] = "queued" /\ (visible[m] \/ \A w \in Workers : m \notin Held(w))

Spent(m) == done[KeyOf[m]] + dlq[m]
Budget(m) == Spent(m) + Cardinality(Tries(m)) + (IF Open(m) THEN 1 ELSE 0) <= 1 + faults
BudgetInv == \A m \in Msgs : Budget(m)

LEMMA SpentType == ASSUME TypeInv, NEW m \in Msgs PROVE Spent(m) \in Nat
<1>1. KeyOf[m] \in Keys
  BY QueueAssumption
<1>2. done[KeyOf[m]] \in Nat /\ dlq[m] \in Nat
  BY <1>1 DEF TypeInv, TypeOK
<1> QED
  BY <1>2 DEF Spent

\* The balance of the five ways, in numbers.
LEMMA Sums ==
  ASSUME NEW c \in Nat, NEW d \in Nat, NEW s \in Nat, NEW t \in Nat, NEW f \in Nat,
         NEW g \in Nat, NEW i \in {0, 1}, NEW j \in {0, 1}, f <= g, s + c + i <= 1 + f,
         \/ d <= c /\ j <= i /\ t = s
         \/ d <= c - 1 /\ t = s
         \/ d <= c - 1 /\ j <= i /\ t = s + 1
         \/ d <= c + 1 /\ i = 1 /\ j = 0 /\ t = s
         \/ d <= c /\ t = s /\ g = f + 1
  PROVE  t + d + j <= 1 + g
OBVIOUS

\* The ways in which a step may change the chances of m.
LEMMA Balance ==
  ASSUME IsFiniteSet(Workers), TypeInv, TypeInv', NEW m \in Msgs, Budget(m), faults <= faults',
         \/ Tries(m)' \subseteq Tries(m) /\ (Open(m)' => Open(m)) /\ Spent(m)' = Spent(m)
         \/ \E w \in Tries(m) : Tries(m)' \subseteq Tries(m) \ {w} /\ Spent(m)' = Spent(m)
         \/ /\ \E w \in Tries(m) : Tries(m)' \subseteq Tries(m) \ {w}
            /\ (Open(m)' => Open(m)) /\ Spent(m)' = Spent(m) + 1
         \/ /\ \E w \in Workers : Tries(m)' \subseteq Tries(m) \union {w}
            /\ Open(m) /\ ~Open(m)' /\ Spent(m)' = Spent(m)
         \/ Tries(m)' \subseteq Tries(m) /\ Spent(m)' = Spent(m) /\ faults' = faults + 1
  PROVE  Budget(m)'
<1>1. /\ IsFiniteSet(Tries(m)) /\ IsFiniteSet(Tries(m)')
      /\ Cardinality(Tries(m)) \in Nat /\ Cardinality(Tries(m)') \in Nat
  <2>1. Tries(m) \subseteq Workers /\ Tries(m)' \subseteq Workers
    BY DEF Tries
  <2> QED
    BY <2>1, FS_Subset, FS_CardinalityType
<1>2. Spent(m) \in Nat /\ Spent(m)' \in Nat /\ faults \in Nat /\ faults' \in Nat
  BY SpentType DEF TypeInv, TypeOK, Spent
<1>3. Tries(m)' \subseteq Tries(m) => Cardinality(Tries(m)') <= Cardinality(Tries(m))
  BY <1>1, FS_Subset
<1>4. ASSUME NEW w \in Tries(m), Tries(m)' \subseteq Tries(m) \ {w}
      PROVE  Cardinality(Tries(m)') <= Cardinality(Tries(m)) - 1
  <2>1. IsFiniteSet(Tries(m) \ {w}) /\ Cardinality(Tries(m) \ {w}) = Cardinality(Tries(m)) - 1
    BY <1>1, FS_RemoveElement
  <2> QED
    BY <2>1, <1>4, FS_Subset
<1>5. ASSUME NEW w \in Workers, Tries(m)' \subseteq Tries(m) \union {w}
      PROVE  Cardinality(Tries(m)') <= Cardinality(Tries(m)) + 1
  <2>1. /\ IsFiniteSet(Tries(m) \union {w})
        /\ Cardinality(Tries(m) \union {w}) <= Cardinality(Tries(m)) + 1
    <3>1. /\ IsFiniteSet(Tries(m) \union {w})
          /\ \/ Cardinality(Tries(m) \union {w}) = Cardinality(Tries(m))
             \/ Cardinality(Tries(m) \union {w}) = Cardinality(Tries(m)) + 1
      BY <1>1, FS_AddElement, Zenon
    <3> QED
      BY <1>1, <3>1
  <2>2. /\ Cardinality(Tries(m)') <= Cardinality(Tries(m) \union {w})
        /\ Cardinality(Tries(m) \union {w}) \in Nat
    BY <2>1, <1>5, FS_Subset, FS_CardinalityType
  <2> QED
    BY <1>1, <2>1, <2>2
<1>6. PICK i \in {0, 1} : i = (IF Open(m) THEN 1 ELSE 0)
  OBVIOUS
<1>7. PICK j \in {0, 1} : j = (IF Open(m)' THEN 1 ELSE 0)
  OBVIOUS
<1> DEFINE c == Cardinality(Tries(m))
           d == Cardinality(Tries(m)')
           s == Spent(m)
           t == Spent(m)'
<1>8. \/ d <= c /\ j <= i /\ t = s
      \/ d <= c - 1 /\ t = s
      \/ d <= c - 1 /\ j <= i /\ t = s + 1
      \/ d <= c + 1 /\ i = 1 /\ j = 0 /\ t = s
      \/ d <= c /\ t = s /\ faults' = faults + 1
  <2>1. (Open(m)' => Open(m)) => j <= i
    BY <1>6, <1>7
  <2>2. Open(m) /\ ~Open(m)' => i = 1 /\ j = 0
    BY <1>6, <1>7
  <2> QED
    BY <1>3, <1>4, <1>5, <2>1, <2>2, Zenon
<1>9. s + c + i <= 1 + faults
  BY <1>6 DEF Budget
<1>10. c \in Nat /\ d \in Nat /\ s \in Nat /\ t \in Nat
  BY <1>1, <1>2
<1>11. t + d + j <= 1 + faults'
  BY <1>2, <1>6, <1>7, <1>8, <1>9, <1>10, Sums
<1> QED
  BY <1>7, <1>11 DEF Budget

LEMMA BudgetInit ==
  ASSUME IsFiniteSet(Workers), Init
  PROVE  BudgetInv
<1> SUFFICES ASSUME NEW m \in Msgs PROVE Budget(m)
  BY DEF BudgetInv
<1>1. Tries(m) = {}
  BY DEF Init, Tries, Untried, Trying
<1>2. Cardinality(Tries(m)) = 0
  BY <1>1, FS_EmptySet
<1>3. Spent(m) = 0 /\ faults = 0
  BY QueueAssumption DEF Init, Spent
<1> QED
  BY <1>2, <1>3 DEF Budget

LEMMA BudgetNext ==
  ASSUME IsFiniteSet(Workers), OneKeyEach, ShapeInv, ShapeInv', BudgetInv, [Next]_vars
  PROVE  BudgetInv'
<1> SUFFICES ASSUME NEW m \in Msgs PROVE Budget(m)'
  BY DEF BudgetInv
<1>1. TypeInv /\ TypeInv' /\ Budget(m)
  BY DEF ShapeInv, BudgetInv
<1>2. faults \in Nat /\ KeyOf[m] \in Keys
  BY <1>1, QueueAssumption DEF TypeInv, TypeOK
<1>3. CASE UNCHANGED vars
  <2>1. /\ Tries(m)' = Tries(m) /\ Spent(m)' = Spent(m) /\ faults' = faults
        /\ Open(m)' <=> Open(m)
    BY <1>3 DEF vars, queueVars, tableVars, workerVars, Tries, Untried, Spent, Open, Held
  <2> QED
    BY <1>1, <1>2, <2>1, Balance
<1>4. ASSUME NEW n \in Msgs, Send(n) \/ Expire(n) \/ ExpireEarly(n) PROVE Budget(m)'
  <2>1. Shows(n)
    BY <1>1, <1>4, ShowsEffect
  <2>2. Tries(m)' = Tries(m) /\ Spent(m)' = Spent(m)
    BY <2>1 DEF Shows, tableVars, workerVars, Tries, Untried, Spent
  <2>3. CASE ExpireEarly(n)
    BY <1>1, <1>2, <2>2, <2>3, Balance DEF ExpireEarly, Fault
  <2>4. CASE Send(n) \/ Expire(n)
    <3>1. faults' = faults
      BY <2>4 DEF Send, Expire
    <3>2. Open(n)
      BY <2>4 DEF Send, Expire, VtRunsOut, Open
    <3>3. m # n => (Open(m)' <=> Open(m))
      BY <2>1 DEF Shows, workerVars, Open, Held
    <3> QED
      BY <1>1, <1>2, <2>2, <3>1, <3>2, <3>3, Balance
  <2> QED
    BY <1>4, <2>3, <2>4
<1>5. ASSUME NEW w \in Workers,
             EndBatch(w) \/ Dedup(w) \/ HandlerSucceeds(w) \/ HandlerFails(w) \/ Record(w) \/ MoveToDlq(w)
      PROVE  Budget(m)'
  <2>1. Keeps(w)
    BY <1>1, <1>5, KeepsEffect
  <2>2. Open(m)' <=> Open(m)
    BY <2>1 DEF Keeps, Open, Held
  <2>3. pc'[w] \in Trying => pc[w] \in Trying
    BY <1>1, <1>5 DEF EndBatch, Dedup, HandlerSucceeds, HandlerFails, Record, MoveToDlq, GoTo,
       Trying, TypeInv, TypeOK
  <2>4. Tries(m)' \subseteq Tries(m)
    BY <2>1, <2>3 DEF Keeps, Tries, Untried
  <2>5. CASE EndBatch(w) \/ Dedup(w) \/ HandlerFails(w) \/ Record(w)
    <3>1. Spent(m)' = Spent(m)
      BY <2>5 DEF EndBatch, Dedup, HandlerFails, Record, tableVars, Spent
    <3>2. faults' = faults \/ faults' = faults + 1
      BY <2>5 DEF EndBatch, Dedup, HandlerFails, Record, RpcOk, RpcFails, Fault
    <3> QED
      BY <1>1, <1>2, <2>2, <2>4, <3>1, <3>2, Balance
  <2>6. CASE HandlerSucceeds(w) \/ MoveToDlq(w)
    <3>1. pc[w] \in {"handler", "dlq"} /\ pc'[w] \in {"record", "archive"}
      BY <1>1, <2>6 DEF HandlerSucceeds, MoveToDlq, GoTo, TypeInv, TypeOK
    <3>2. cur[w] \in Msgs /\ cur[w] \notin batch[w]
      BY <1>1, <3>1 DEF TypeInv, HasMessage, ShapeInv, Placed
    <3>3. ASSUME m = cur[w] PROVE w \in Tries(m) /\ Tries(m)' \subseteq Tries(m) \ {w}
      <4>1. w \in Tries(m)
        BY <3>1, <3>3 DEF Tries, Untried, Trying
      <4>2. w \notin Tries(m)'
        BY <2>1, <3>1, <3>2, <3>3 DEF Keeps, Tries, Untried, Trying
      <4> QED
        BY <2>4, <4>1, <4>2
    <3>4. CASE HandlerSucceeds(w)
      <4>1. done' = [done EXCEPT ![KeyOf[cur[w]]] = @ + 1] /\ UNCHANGED <<dlq, faults>>
        BY <3>4 DEF HandlerSucceeds, tableVars
      <4>2. CASE m = cur[w]
        <5>1. done[KeyOf[m]] \in Nat /\ dlq[m] \in Nat
          BY <1>1, <1>2 DEF TypeInv, TypeOK
        <5>2. Spent(m)' = Spent(m) + 1
          BY <1>1, <1>2, <4>1, <4>2, <5>1 DEF Spent, TypeInv, TypeOK
        <5> QED
          BY <1>1, <1>2, <2>2, <3>3, <4>1, <4>2, <5>2, Balance
      <4>3. CASE m # cur[w]
        <5>1. KeyOf[m] # KeyOf[cur[w]]
          BY <3>2, <4>3 DEF OneKeyEach
        <5>2. Spent(m)' = Spent(m)
          BY <1>1, <1>2, <4>1, <5>1 DEF Spent, TypeInv, TypeOK
        <5> QED
          BY <1>1, <1>2, <2>2, <2>4, <4>1, <5>2, Balance
      <4> QED
        BY <4>2, <4>3
    <3>5. CASE MoveToDlq(w)
      <4>1. /\ UNCHANGED done
            /\ \/ dlq' = [dlq EXCEPT ![cur[w]] = @ + 1] /\ faults' = faults
               \/ dlq' = dlq /\ faults' = faults + 1
        BY <3>5 DEF MoveToDlq, RpcOk, RpcFails, Fault
      <4>2. CASE dlq' = dlq /\ faults' = faults + 1
        BY <1>1, <1>2, <2>4, <4>1, <4>2, Balance DEF Spent
      <4>3. CASE dlq' = [dlq EXCEPT ![cur[w]] = @ + 1] /\ faults' = faults
        <5>1. CASE m = cur[w]
          <6>1. done[KeyOf[m]] \in Nat /\ dlq[m] \in Nat
            BY <1>1, <1>2 DEF TypeInv, TypeOK
          <6>2. Spent(m)' = Spent(m) + 1
            <7>1. dlq'[m] = dlq[m] + 1
              BY <1>1, <4>3, <5>1 DEF TypeInv, TypeOK
            <7> QED
              BY <4>1, <6>1, <7>1 DEF Spent
          <6> QED
            BY <1>1, <1>2, <2>2, <3>3, <4>3, <5>1, <6>2, Balance
        <5>2. CASE m # cur[w]
          <6>1. Spent(m)' = Spent(m)
            BY <1>1, <4>1, <4>3, <5>2 DEF Spent, TypeInv, TypeOK
          <6> QED
            BY <1>1, <1>2, <2>2, <2>4, <4>3, <6>1, Balance
        <5> QED
          BY <5>1, <5>2
      <4> QED
        BY <4>1, <4>2, <4>3
    <3> QED
      BY <2>6, <3>4, <3>5
  <2> QED
    BY <1>5, <2>5, <2>6
<1>6. ASSUME NEW w \in Workers, HandlerLeaves(w) \/ Archive(w) \/ Retry(w) PROVE Budget(m)'
  <2>1. Drops(w)
    BY <1>1, <1>6, DropsEffect
  <2>2. Spent(m)' = Spent(m)
    BY <2>1 DEF Drops, Spent
  <2>3. faults' = faults \/ faults' = faults + 1
    BY <1>6 DEF HandlerLeaves, Archive, Retry, RpcOk, RpcFails, Fault
  <2>4. m # None
    BY QueueAssumption
  <2>5. Tries(m)' \subseteq Tries(m)
    BY <2>1, <2>4 DEF Drops, Tries, Untried, Trying
  <2>6. CASE m # cur[w]
    <3>1. \A v \in Workers : m \in Held(v)' <=> m \in Held(v)
      BY <2>1, <2>4, <2>6 DEF Drops, Held
    <3>2. Open(m)' <=> Open(m)
      BY <2>1, <2>6, <3>1 DEF Drops, Open
    <3> QED
      BY <1>1, <1>2, <2>2, <2>3, <2>5, <3>2, Balance
  <2>7. CASE m = cur[w] /\ (HandlerLeaves(w) \/ Retry(w))
    <3>1. w \in Tries(m)
      BY <2>7 DEF HandlerLeaves, Retry, Finish, Tries, Untried, Trying
    <3>2. w \notin Tries(m)'
      BY <2>1, <2>4, <2>7 DEF Drops, Tries, Untried, ShapeInv, Placed
    <3> QED
      BY <1>1, <1>2, <2>2, <2>3, <2>5, <3>1, <3>2, Balance
  <2>8. CASE m = cur[w] /\ Archive(w)
    <3>1. CASE qstate' = [qstate EXCEPT ![m] = "archived"]
      <4>1. qstate'[m] = "archived"
        BY <1>1, <3>1 DEF TypeInv, TypeOK
      <4>2. ~Open(m)'
        BY <4>1 DEF Open
      <4> QED
        BY <1>1, <1>2, <2>2, <2>3, <2>5, <4>2, Balance
    <3>2. CASE faults' = faults + 1
      BY <1>1, <1>2, <2>2, <2>5, <3>2, Balance
    <3> QED
      BY <2>8, <3>1, <3>2 DEF Archive, RpcOk, RpcFails, Fault
  <2> QED
    BY <1>6, <2>6, <2>7, <2>8
<1>7. ASSUME NEW w \in Workers, ReadBatch(w) PROVE Budget(m)'
  <2>1. PICK S \in SUBSET Waiting : Reads(w, S)
    BY <1>1, <1>7, ReadsEffect
  <2>2. Spent(m)' = Spent(m) /\ faults' = faults
    BY <2>1 DEF Reads, tableVars, Spent
  <2>3. cur[w] = None /\ batch[w] = {} /\ m # None
    BY <2>1, QueueAssumption DEF Reads, ShapeInv, Placed
  <2>4. \A v \in Workers \ {w} : (Untried(v, m)' <=> Untried(v, m)) /\ (m \in Held(v)' <=> m \in Held(v))
    BY <2>1 DEF Reads, Untried, Held
  <2>5. (Untried(w, m)' => m \in S) /\ (m \in Held(w)' <=> m \in S) /\ m \notin Held(w)
    BY <2>1, <2>3 DEF Reads, Untried, Held
  <2>6. CASE m \in S
    <3>1. Open(m)
      BY <2>6 DEF Waiting, Open
    <3>2. ~Open(m)'
      BY <2>1, <2>5, <2>6 DEF Reads, Waiting, Open
    <3>3. Tries(m)' \subseteq Tries(m) \union {w}
      BY <2>4 DEF Tries
    <3> QED
      BY <1>1, <1>2, <2>2, <3>1, <3>2, <3>3, Balance
  <2>7. CASE m \notin S
    <3>1. Tries(m)' \subseteq Tries(m)
      BY <2>4, <2>5, <2>7 DEF Tries
    <3>2. \A v \in Workers : m \in Held(v)' <=> m \in Held(v)
      BY <2>4, <2>5, <2>7
    <3>3. Open(m)' <=> Open(m)
      BY <2>1, <2>7, <3>2 DEF Reads, Open
    <3> QED
      BY <1>1, <1>2, <2>2, <3>1, <3>3, Balance
  <2> QED
    BY <2>6, <2>7
<1>8. ASSUME NEW w \in Workers, TakeNext(w) PROVE Budget(m)'
  <2>1. PICK n \in Msgs : Takes(w, n)
    BY <1>1, <1>8, TakesEffect
  <2>2. Spent(m)' = Spent(m) /\ faults' = faults
    BY <2>1 DEF Takes, tableVars, Spent
  <2>3. cur[w] = None /\ n # None
    BY <2>1, QueueAssumption DEF Takes, ShapeInv, Placed
  <2>4. Tries(m)' \subseteq Tries(m)
    BY <2>1 DEF Takes, Tries, Untried
  <2>5. \A v \in Workers : m \in Held(v)' <=> m \in Held(v)
    BY <2>1, <2>3 DEF Takes, Held
  <2>6. Open(m)' <=> Open(m)
    BY <2>1, <2>5 DEF Takes, queueVars, Open
  <2> QED
    BY <1>1, <1>2, <2>2, <2>4, <2>6, Balance
<1>9. ASSUME NEW w \in Workers, Crash(w) PROVE Budget(m)'
  <2>1. Dies(w)
    BY <1>1, <1>9, DiesEffect
  <2>2. m # None
    BY QueueAssumption
  <2>3. Tries(m)' \subseteq Tries(m) /\ Spent(m)' = Spent(m) /\ faults' = faults + 1
    BY <2>1, <2>2 DEF Dies, tableVars, Tries, Untried, Spent
  <2> QED
    BY <1>1, <1>2, <2>3, Balance
<1> QED
  BY <1>3, <1>4, <1>5, <1>6, <1>7, <1>8, <1>9 DEF Next, Step

\* With a key per message, every verdict on a message after its first has cost
\* a fault of its own, whatever the number of workers, messages and faults.
THEOREM RepeatsCost ==
  ASSUME IsFiniteSet(Workers), OneKeyEach
  PROVE  Spec => []RepeatsNeedFaults
<1>1. Init => ShapeInv /\ BudgetInv
  BY ShapeInit, BudgetInit
<1>2. ShapeInv /\ BudgetInv /\ [Next]_vars => ShapeInv' /\ BudgetInv'
  BY ShapeNext, BudgetNext
<1>3. ShapeInv /\ BudgetInv => RepeatsNeedFaults
  <2> SUFFICES ASSUME ShapeInv, BudgetInv, NEW m \in Msgs
               PROVE  done[KeyOf[m]] + dlq[m] <= 1 + faults
    BY DEF RepeatsNeedFaults
  <2>1. Spent(m) \in Nat /\ faults \in Nat
    BY SpentType DEF ShapeInv, TypeInv, TypeOK
  <2>2. Cardinality(Tries(m)) \in Nat
    BY FS_Subset, FS_CardinalityType DEF Tries
  <2>3. Spent(m) + Cardinality(Tries(m)) + (IF Open(m) THEN 1 ELSE 0) <= 1 + faults
    BY DEF BudgetInv, Budget
  <2>4. Spent(m) <= 1 + faults
    <3> DEFINE s == Spent(m)
               c == Cardinality(Tries(m))
    <3> HIDE DEF s, c
    <3> QED
      BY <2>1, <2>2, <2>3 DEF s, c
  <2> QED
    BY <2>4 DEF Spent
<1> QED
  BY <1>1, <1>2, <1>3, PTL DEF Spec

-----------------------------------------------------------------------------
(* While batches finish within their VT a message has one holder, and is   *)
(* hidden and queued while it is held.                                     *)

Covered ==
  \A w \in Workers : \A m \in Held(w) :
    /\ qstate[m] = "queued" /\ ~visible[m]
    /\ \A v \in Workers \ {w} : m \notin Held(v)

LEMMA CoveredInit == Init => Covered
  BY DEF Init, Covered, Held

\* A step after which workers hold no more than before, of messages that stay.
LEMMA CoveredShrinks ==
  ASSUME Covered,
         \A v \in Workers : Held(v)' \subseteq Held(v),
         \A v \in Workers : \A m \in Held(v)' : qstate'[m] = qstate[m] /\ (visible'[m] => visible[m])
  PROVE  Covered'
BY DEF Covered

LEMMA CoveredNext ==
  ASSUME VtCoversBatch, ShapeInv, ShapeInv', Covered, [Next]_vars
  PROVE  Covered'
<1>1. TypeInv /\ TypeInv'
  BY DEF ShapeInv
<1>2. CASE UNCHANGED vars
  BY <1>2 DEF vars, queueVars, workerVars, Covered, Held
<1>3. ASSUME NEW m \in Msgs, Send(m) \/ Expire(m) \/ ExpireEarly(m) PROVE Covered'
  <2>1. Shows(m)
    BY <1>1, <1>3, ShowsEffect
  <2>2. \A v \in Workers : m \notin Held(v)
    BY <1>3 DEF Send, Expire, ExpireEarly, ShapeInv, HeldIsSent
  <2>3. \A v \in Workers : Held(v)' = Held(v) /\ Held(v) \subseteq Msgs
    BY <1>1, <2>1 DEF Shows, workerVars, Held, TypeInv, TypeOK
  <2> QED
    BY <2>1, <2>2, <2>3, CoveredShrinks DEF Shows
<1>4. ASSUME NEW w \in Workers,
             EndBatch(w) \/ Dedup(w) \/ HandlerSucceeds(w) \/ HandlerFails(w) \/ Record(w) \/ MoveToDlq(w)
      PROVE  Covered'
  <2>1. UNCHANGED <<batch, cur, qstate, visible>>
    BY <1>1, <1>4, KeepsEffect DEF Keeps
  <2> QED
    BY <2>1 DEF Covered, Held
<1>5. ASSUME NEW w \in Workers, HandlerLeaves(w) \/ Archive(w) \/ Retry(w) PROVE Covered'
  <2>1. Drops(w)
    BY <1>1, <1>5, DropsEffect
  <2>2. \A v \in Workers : Held(v)' \subseteq Held(v) /\ Held(v) \subseteq Msgs
    BY <1>1, <2>1 DEF Drops, Held, TypeInv, TypeOK
  <2>3. \A v \in Workers : cur[w] \notin Held(v)'
    <3>1. cur[w] \in Held(w) /\ cur[w] \notin Held(w)'
      BY <1>1, <2>1, QueueAssumption DEF Drops, Held, ShapeInv, Placed
    <3> QED
      BY <2>2, <3>1 DEF Covered
  <2> QED
    BY <2>1, <2>2, <2>3, CoveredShrinks DEF Drops
<1>6. ASSUME NEW w \in Workers, ReadBatch(w) PROVE Covered'
  <2>1. PICK S \in SUBSET Waiting : Reads(w, S)
    BY <1>1, <1>6, ReadsEffect
  <2>2. /\ Held(w)' = S
        /\ \A v \in Workers \ {w} : Held(v)' = Held(v)
    BY <2>1 DEF Reads, Held, ShapeInv, Placed
  <2>3. \A m \in S : /\ m \in Msgs /\ qstate[m] = "queued" /\ visible[m]
                     /\ \A v \in Workers : m \notin Held(v)
    BY <2>1 DEF Waiting, Covered
  <2>4. \A v \in Workers : Held(v) \subseteq Msgs
    BY <1>1 DEF Held, TypeInv, TypeOK
  <2>5. \A m \in Held(w)' : /\ qstate'[m] = "queued" /\ ~visible'[m]
                            /\ \A v \in Workers \ {w} : m \notin Held(v)'
    BY <2>1, <2>2, <2>3 DEF Reads
  <2>6. ASSUME NEW v \in Workers \ {w}, NEW m \in Held(v)'
        PROVE  /\ qstate'[m] = "queued" /\ ~visible'[m]
               /\ \A u \in Workers \ {v} : m \notin Held(u)'
    <3>1. m \in Held(v) /\ m \notin S /\ m \in Msgs
      BY <2>2, <2>3, <2>4
    <3>2. qstate'[m] = qstate[m] /\ visible'[m] = visible[m]
      BY <2>1, <3>1 DEF Reads
    <3>3. /\ qstate[m] = "queued" /\ ~visible[m]
          /\ \A u \in Workers \ {v} : m \notin Held(u)
      BY <3>1 DEF Covered
    <3> QED
      BY <2>2, <3>1, <3>2, <3>3
  <2> QED
    BY <2>5, <2>6 DEF Covered
<1>7. ASSUME NEW w \in Workers, TakeNext(w) PROVE Covered'
  <2>1. PICK m \in Msgs : Takes(w, m)
    BY <1>1, <1>7, TakesEffect
  <2>2. \A v \in Workers : Held(v)' \subseteq Held(v)
    BY <2>1 DEF Takes, Held
  <2> QED
    BY <2>1, <2>2, CoveredShrinks DEF Takes, queueVars
<1>8. ASSUME NEW w \in Workers, Crash(w) PROVE Covered'
  <2>1. Dies(w)
    BY <1>1, <1>8, DiesEffect
  <2>2. \A v \in Workers : Held(v)' \subseteq Held(v)
    BY <2>1 DEF Dies, Held
  <2> QED
    BY <2>1, <2>2, CoveredShrinks DEF Dies, queueVars
<1> QED
  BY <1>2, <1>3, <1>4, <1>5, <1>6, <1>7, <1>8 DEF Next, Step

-----------------------------------------------------------------------------
(* What is processed is not buried: a worker that may still bury or redo a *)
(* message has seen that its key is not recorded, and as its only holder   *)
(* it is the only one that could record it meanwhile.                      *)

\* A message without a tenant never gets to a handler.
TenantsOnly ==
  /\ \A w \in Workers : pc[w] \in {"dedup", "handler", "record"} => cur[w] \notin NoTenant
  /\ \A m \in NoTenant : KeyOf[m] \notin processed

Undecided == {"handler", "record", "dlq"}

NotYetProcessed == \A w \in Workers : pc[w] \in Undecided => KeyOf[cur[w]] \notin processed

BurialInv == TenantsOnly /\ NotYetProcessed

LEMMA BurialInit == Init => BurialInv
  BY DEF Init, BurialInv, TenantsOnly, NotYetProcessed, Undecided

\* A step after which nothing more is processed and w, if it is at an undecided
\* stage, was there before or has just seen that its key is not.
LEMMA BurialStays ==
  ASSUME BurialInv, processed' \subseteq processed, NEW w \in Workers,
         \A v \in Workers \ {w} : pc'[v] = pc[v] /\ cur'[v] = cur[v],
         pc'[w] \in {"dedup", "handler", "record"} => cur'[w] \notin NoTenant,
         pc'[w] \in Undecided => KeyOf[cur'[w]] \notin processed
  PROVE  BurialInv'
<1>1. TenantsOnly'
  BY DEF BurialInv, TenantsOnly
<1>2. NotYetProcessed'
  BY DEF BurialInv, NotYetProcessed
<1> QED
  BY <1>1, <1>2 DEF BurialInv

LEMMA BurialNext ==
  ASSUME OneKeyEach, "check_dedup" \notin FailingRpcs,
         ShapeInv, Covered, BurialInv, [Next]_vars
  PROVE  BurialInv'
<1> USE QueueAssumption
<1>1. TypeInv
  BY DEF ShapeInv
<1>2. CASE UNCHANGED <<workerVars, processed>>
  BY <1>2 DEF workerVars, BurialInv, TenantsOnly, NotYetProcessed
<1>3. ASSUME NEW m \in Msgs, Send(m) \/ Expire(m) \/ ExpireEarly(m) PROVE BurialInv'
  BY <1>1, <1>2, <1>3, ShowsEffect DEF Shows, tableVars
<1>4. ASSUME NEW w \in Workers, ReadBatch(w) \/ EndBatch(w) \/ Crash(w) \/ HandlerLeaves(w) \/ Archive(w)
                                \/ Retry(w)
      PROVE  BurialInv'
  <2>1. /\ UNCHANGED processed
        /\ \A v \in Workers \ {w} : pc'[v] = pc[v] /\ cur'[v] = cur[v]
        /\ pc'[w] \in {"idle", "next"}
    BY <1>1, <1>4 DEF ReadBatch, EndBatch, Crash, HandlerLeaves, Archive, Retry, GoTo, Finish, tableVars,
       TypeInv, TypeOK
  <2> QED
    BY <2>1, BurialStays DEF Undecided
<1>5. ASSUME NEW w \in Workers, TakeNext(w) PROVE BurialInv'
  <2>1. PICK m \in Msgs : Takes(w, m)
    BY <1>1, <1>5, TakesEffect
  <2>2. pc'[w] \in {"dedup", "handler", "record"} => cur'[w] \notin NoTenant
    BY <2>1 DEF Takes
  <2>3. pc'[w] \in Undecided => KeyOf[cur'[w]] \notin processed
    BY <2>1 DEF Takes, Undecided, BurialInv, TenantsOnly
  <2> QED
    BY <2>1, <2>2, <2>3, BurialStays DEF Takes, tableVars
<1>6. ASSUME NEW w \in Workers, Dedup(w) PROVE BurialInv'
  <2>1. /\ UNCHANGED <<cur, processed>>
        /\ \A v \in Workers \ {w} : pc'[v] = pc[v]
        /\ pc[w] = "dedup" /\ pc'[w] \in {"archive", "handler", "dlq"}
        /\ pc'[w] \in {"handler", "dlq"} => KeyOf[cur[w]] \notin processed
    BY <1>1, <1>6 DEF Dedup, GoTo, RpcFails, tableVars, TypeInv, TypeOK
  <2>2. cur[w] \notin NoTenant
    BY <2>1 DEF BurialInv, TenantsOnly
  <2> QED
    BY <2>1, <2>2, BurialStays DEF Undecided
<1>7. ASSUME NEW w \in Workers, HandlerSucceeds(w) \/ HandlerFails(w) \/ MoveToDlq(w) PROVE BurialInv'
  <2>1. /\ UNCHANGED <<cur, processed>>
        /\ \A v \in Workers \ {w} : pc'[v] = pc[v]
        /\ \/ pc[w] = "handler" /\ pc'[w] \in {"record", "dlq", "retry"}
           \/ pc[w] = "dlq" /\ pc'[w] = "archive"
    BY <1>1, <1>7 DEF HandlerSucceeds, HandlerFails, MoveToDlq, GoTo, tableVars, TypeInv, TypeOK
  <2>2. pc'[w] \in {"dedup", "handler", "record"} => cur'[w] \notin NoTenant
    BY <2>1 DEF BurialInv, TenantsOnly
  <2>3. pc'[w] \in Undecided => KeyOf[cur'[w]] \notin processed
    BY <2>1 DEF Undecided, BurialInv, NotYetProcessed
  <2> QED
    BY <2>1, <2>2, <2>3, BurialStays
<1>8. ASSUME NEW w \in Workers, Record(w) PROVE BurialInv'
  <2>1. /\ UNCHANGED cur /\ processed' \subseteq processed \union {KeyOf[cur[w]]}
        /\ \A v \in Workers \ {w} : pc'[v] = pc[v]
        /\ pc[w] = "record" /\ pc'[w] = "archive"
    BY <1>1, <1>8 DEF Record, GoTo, TypeInv, TypeOK
  <2>2. cur[w] \in Msgs \ NoTenant /\ cur[w] \in Held(w)
    BY <1>1, <2>1 DEF BurialInv, TenantsOnly, TypeInv, HasMessage, Held
  <2>3. TenantsOnly'
    <3>1. \A m \in NoTenant : m \in Msgs /\ KeyOf[m] # KeyOf[cur[w]]
      BY <2>2 DEF OneKeyEach
    <3> QED
      BY <2>1, <3>1 DEF BurialInv, TenantsOnly
  <2>4. NotYetProcessed'
    <3> SUFFICES ASSUME NEW v \in Workers, pc'[v] \in Undecided
                 PROVE  KeyOf[cur[v]] \notin processed'
      BY <2>1 DEF NotYetProcessed
    <3>1. v # w /\ pc[v] \in Undecided
      BY <2>1 DEF Undecided
    <3>2. cur[v] \in Msgs /\ cur[v] \in Held(v)
      BY <1>1, <3>1 DEF Undecided, TypeInv, HasMessage, Held
    <3>3. KeyOf[cur[v]] # KeyOf[cur[w]]
      BY <2>2, <3>1, <3>2 DEF Covered, OneKeyEach
    <3>4. KeyOf[cur[v]] \notin processed
      BY <3>1 DEF BurialInv, NotYetProcessed
    <3> QED
      BY <2>1, <3>3, <3>4
  <2> QED
    BY <2>3, <2>4 DEF BurialInv
<1>9. CASE UNCHANGED vars
  BY <1>2, <1>9 DEF vars, tableVars
<1> QED
  BY <1>3, <1>4, <1>5, <1>6, <1>7, <1>8, <1>9 DEF Next, Step

\* While batches finish within their VT and the dedup table can be read, a
\* message recorded as processed is never dead-lettered, however many workers
\* there are and whatever else fails or crashes.
THEOREM NotBuried ==
  ASSUME VtCoversBatch, OneKeyEach, "check_dedup" \notin FailingRpcs
  PROVE  Spec => ProcessedIsNotBuried
<1> DEFINE Inv == ShapeInv /\ Covered /\ BurialInv
<1>1. Init => Inv
  BY ShapeInit, CoveredInit, BurialInit
<1>2. Inv /\ [Next]_vars => Inv'
  BY ShapeNext, CoveredNext, BurialNext
<1>3. Inv /\ [Next]_vars => [\A m \in Msgs : KeyOf[m] \in processed => dlq'[m] = dlq[m]]_vars
  <2> SUFFICES ASSUME Inv, [Next]_vars, NEW m \in Msgs, KeyOf[m] \in processed
               PROVE  dlq'[m] = dlq[m]
    OBVIOUS
  <2>1. \/ UNCHANGED dlq
        \/ \E w \in Workers : pc[w] = "dlq" /\ dlq' = [dlq EXCEPT ![cur[w]] = @ + 1]
    BY DEF Next, Step, Send, Expire, ExpireEarly, VtRunsOut, ReadBatch, TakeNext, EndBatch, Dedup,
       HandlerSucceeds, HandlerFails, HandlerLeaves, Record, Archive, Retry, MoveToDlq, GoTo, Crash,
       vars, tableVars
  <2>2. \A w \in Workers : pc[w] = "dlq" => cur[w] # m
    BY DEF BurialInv, NotYetProcessed, Undecided
  <2> QED
    BY <2>1, <2>2 DEF ShapeInv, TypeInv, TypeOK
<1> QED
  BY <1>1, <1>2, <1>3, PTL DEF Spec, ProcessedIsNotBuried

-----------------------------------------------------------------------------
(* The steps of the runtime are those of the ledger.                       *)

\* The ledger's state, of messages and keys that exist.
LEMMA LedgerStutters ==
  ASSUME UNCHANGED <<qstate, done, dlq>>
  PROVE  UNCHANGED Ledger!vars
BY DEF Ledger!vars

LEMMA LedgerStep ==
  ASSUME ShapeInv, LossInv, VtCoversBatch => Covered, "move_to_dlq" \notin FailingRpcs, [Next]_vars
  PROVE  [Ledger!Next]_(Ledger!vars)
<1> USE QueueAssumption
<1>1. TypeInv
  BY DEF ShapeInv
<1>2. CASE UNCHANGED <<qstate, done, dlq>>
  BY <1>2, LedgerStutters
<1>3. ASSUME NEW m \in Msgs, Send(m) PROVE Ledger!Next
  <2>1. qstate[m] = "unsent" /\ qstate' = [qstate EXCEPT ![m] = "queued"] /\ UNCHANGED <<done, dlq>>
    BY <1>3 DEF Send, tableVars
  <2>2. Ledger!Accept(m)
    BY <1>1, <2>1 DEF Ledger!Accept, TypeInv, TypeOK
  <2> QED
    BY <2>2 DEF Ledger!Next
<1>4. ASSUME NEW w \in Workers, NEW m \in Msgs, cur[w] = m PROVE Ledger!Workable(m)
  BY <1>4 DEF Ledger!Workable, ShapeInv, HeldIsSent, Held, Covered, TypeInv, TypeOK
<1>5. ASSUME NEW w \in Workers, HandlerSucceeds(w) PROVE Ledger!Next
  <2>1. PICK m \in Msgs : m = cur[w]
    BY <1>1, <1>5 DEF HandlerSucceeds, GoTo, TypeInv, HasMessage
  <2>2. done' = [done EXCEPT ![KeyOf[m]] = @ + 1] /\ UNCHANGED <<qstate, dlq>>
    BY <1>5, <2>1 DEF HandlerSucceeds, queueVars, tableVars
  <2>3. {k \in Keys : done'[k] > 0} = {k \in Keys : done[k] > 0} \union {KeyOf[m]}
    BY <1>1, <2>2 DEF TypeInv, TypeOK
  <2>4. Ledger!Perform(m)
    BY <1>4, <2>1, <2>2, <2>3 DEF Ledger!Perform
  <2> QED
    BY <2>4 DEF Ledger!Next
<1>6. ASSUME NEW w \in Workers, MoveToDlq(w) PROVE Ledger!Next
  <2>1. PICK m \in Msgs : m = cur[w]
    BY <1>1, <1>6 DEF MoveToDlq, GoTo, TypeInv, HasMessage
  <2>2. dlq' = [dlq EXCEPT ![m] = @ + 1] /\ UNCHANGED <<qstate, done>>
    BY <1>6, <2>1 DEF MoveToDlq, RpcFails, queueVars
  <2>3. {n \in Msgs : dlq'[n] > 0} = {n \in Msgs : dlq[n] > 0} \union {m}
    BY <1>1, <2>2 DEF TypeInv, TypeOK
  <2>4. Ledger!Bury(m)
    BY <1>4, <2>1, <2>2, <2>3 DEF Ledger!Bury
  <2> QED
    BY <2>4 DEF Ledger!Next
<1>7. ASSUME NEW w \in Workers, Archive(w) PROVE [Ledger!Next]_(Ledger!vars)
  <2>1. PICK m \in Msgs : m = cur[w]
    BY <1>1, <1>7 DEF Archive, Finish, TypeInv, HasMessage
  <2>2. Justified(m) /\ UNCHANGED <<done, dlq>>
    BY <1>7, <2>1 DEF Archive, Finish, LossInv, ArchiveIsJustified, Justified, tableVars
  <2>3. CASE UNCHANGED qstate
    BY <1>2, <2>2, <2>3
  <2>4. CASE qstate' = [qstate EXCEPT ![m] = "archived"] /\ qstate[m] = "archived"
    <3>1. qstate' = qstate
      BY <1>1, <2>4 DEF TypeInv, TypeOK
    <3> QED
      BY <1>2, <2>2, <3>1
  <2>5. CASE qstate' = [qstate EXCEPT ![m] = "archived"] /\ qstate[m] # "archived"
    <3>1. qstate[m] = "queued"
      BY <1>1, <2>1, <2>5 DEF ShapeInv, HeldIsSent, Held, TypeInv, TypeOK
    <3>2. /\ {n \in Msgs : qstate'[n] # "unsent"} = {n \in Msgs : qstate[n] # "unsent"}
          /\ {n \in Msgs : qstate'[n] = "archived"} =
               {n \in Msgs : qstate[n] = "archived"} \union {m}
      BY <1>1, <2>5, <3>1 DEF TypeInv, TypeOK
    <3>3. Ledger!Settle(m)
      BY <2>2, <2>5, <3>1, <3>2 DEF Ledger!Settle, Justified
    <3> QED
      BY <3>3 DEF Ledger!Next
  <2> QED
    BY <1>7, <2>1, <2>3, <2>4, <2>5 DEF Archive
<1>8. ASSUME NEW w \in Workers, ReadBatch(w) \/ TakeNext(w) \/ EndBatch(w) \/ Dedup(w) \/ HandlerFails(w)
                                \/ HandlerLeaves(w) \/ Record(w) \/ Retry(w) \/ Crash(w)
      PROVE  UNCHANGED <<qstate, done, dlq>>
  BY <1>8 DEF ReadBatch, TakeNext, EndBatch, Dedup, HandlerFails, HandlerLeaves, Record, Retry, Crash,
     queueVars, tableVars
<1>9. ASSUME NEW m \in Msgs, Expire(m) \/ ExpireEarly(m) PROVE UNCHANGED <<qstate, done, dlq>>
  BY <1>9 DEF Expire, ExpireEarly, VtRunsOut, tableVars
<1>10. CASE UNCHANGED vars
  BY <1>2, <1>10 DEF vars, queueVars, tableVars
<1> QED
  BY <1>2, <1>3, <1>5, <1>6, <1>7, <1>8, <1>9, <1>10 DEF Next, Step

\* As long as the dead-letter table can be written, the runtime implements the
\* ledger: each of its steps accepts, performs, buries or settles a task, or
\* is of no concern to the producers.  Tasks that are settled are not worked
\* on when batches finish within their VT.
THEOREM KeepsLedger ==
  ASSUME "move_to_dlq" \notin FailingRpcs
  PROVE  Spec => Ledger!Init /\ [][Ledger!Next]_(Ledger!vars)
<1> DEFINE Inv == ShapeInv /\ LossInv /\ (VtCoversBatch => Covered)
<1>1. Init => Inv /\ Ledger!Init
  BY QueueAssumption, ShapeInit, LossInit, CoveredInit DEF Init, Ledger!Init
<1>2. Inv /\ [Next]_vars => Inv'
  BY ShapeNext, LossNext, CoveredNext DEF ShapeInv
<1>3. Inv /\ [Next]_vars => [Ledger!Next]_(Ledger!vars)
  BY LedgerStep
<1> QED
  BY <1>1, <1>2, <1>3, PTL DEF Spec

=============================================================================
