----------------------- MODULE AutomationCarrierProofs -----------------------
(***************************************************************************)
(* Theorems about what carries a run of AutomationEngine on: how often     *)
(* its steps may be performed when anything goes wrong, that no step runs  *)
(* before one that leads to it whatever goes wrong, and that a run is      *)
(* never left without a carrier when nothing does.                         *)
(***************************************************************************)
EXTENDS AutomationEngineProofs, FiniteSetTheorems

-----------------------------------------------------------------------------
(* Finite sets that lose and gain an element *)

LEMMA Fewer ==
  ASSUME NEW S, IsFiniteSet(S), NEW T, T \subseteq S
  PROVE  /\ IsFiniteSet(T)
         /\ Cardinality(T) \in Nat /\ Cardinality(S) \in Nat /\ Cardinality(T) <= Cardinality(S)
<1>1. T \in SUBSET S
  OBVIOUS
<1>2. IsFiniteSet(T) /\ Cardinality(T) <= Cardinality(S)
  BY <1>1, FS_Subset
<1> QED
  BY <1>2, FS_CardinalityType

LEMMA OneMore ==
  ASSUME NEW S, IsFiniteSet(S), NEW y, NEW T, T \subseteq S \union {y}
  PROVE  /\ IsFiniteSet(T)
         /\ Cardinality(T) \in Nat /\ Cardinality(S) \in Nat /\ Cardinality(T) <= Cardinality(S) + 1
<1>1. /\ IsFiniteSet(S \union {y}) /\ Cardinality(S) \in Nat
      /\ Cardinality(S \union {y}) = IF y \in S THEN Cardinality(S) ELSE Cardinality(S) + 1
  BY FS_AddElement, FS_CardinalityType
<1>2. /\ IsFiniteSet(T) /\ Cardinality(T) \in Nat
      /\ Cardinality(T) <= Cardinality(S \union {y})
  BY <1>1, Fewer
<1> QED
  BY <1>1, <1>2, SMT

LEMMA OneLess ==
  ASSUME NEW S, IsFiniteSet(S), NEW x \in S, NEW T, T \subseteq S \ {x}
  PROVE  /\ IsFiniteSet(T)
         /\ Cardinality(T) \in Nat /\ Cardinality(S) \in Nat /\ Cardinality(T) <= Cardinality(S) - 1
<1>1. /\ IsFiniteSet(S \ {x}) /\ Cardinality(S) \in Nat
      /\ Cardinality(S \ {x}) = Cardinality(S) - 1
  BY FS_RemoveElement, FS_CardinalityType
<1>2. IsFiniteSet(T) /\ Cardinality(T) \in Nat /\ Cardinality(T) <= Cardinality(S \ {x})
  BY <1>1, Fewer
<1> QED
  BY <1>1, <1>2, SMT

LEMMA Exchange ==
  ASSUME NEW S, IsFiniteSet(S), NEW x \in S, NEW y, NEW T, T \subseteq (S \ {x}) \union {y}
  PROVE  /\ IsFiniteSet(T)
         /\ Cardinality(T) \in Nat /\ Cardinality(S) \in Nat /\ Cardinality(T) <= Cardinality(S)
<1>1. /\ IsFiniteSet(S \ {x}) /\ Cardinality(S \ {x}) \in Nat /\ Cardinality(S) \in Nat
      /\ Cardinality(S \ {x}) <= Cardinality(S) - 1
  BY OneLess
<1>2. IsFiniteSet(T) /\ Cardinality(T) \in Nat /\ Cardinality(T) <= Cardinality(S \ {x}) + 1
  BY <1>1, OneMore
<1> QED
  BY <1>1, <1>2, SMT

-----------------------------------------------------------------------------
(* The copies of a run: whatever may still lead to a message of it *)

Holds(w, r) ==
  /\ pc[w] # "idle" /\ msg[w].run = r
  /\ \/ pc[w] \in {"context", "start", "execute", "leave", "return"}
     \/ /\ pc[w] \in {"complete", "schedule", "advance"}
        /\ ~(result[w].next = "TIMER" /\ Kind[msg[w].step] = "job")

Queued(r) ==
  UNION {{<<"message", m, i>> : i \in 1..queue[m]} : m \in {n \in Messages : n.run = r}}
InHand(r) == {<<"worker", w, 0>> : w \in {v \in Workers : Holds(v, r)}}
JobsOf(r) == UNION {{<<"job", s, i>> : i \in 1..jobs[r][s]} : s \in Steps}
TimerOf(r) == IF timer[r] THEN {<<"timer", r, 0>>} ELSE {}
LaunchOf(r) == IF launch[r] \in {"none", "run", "steps"} THEN {<<"launch", r, 0>>} ELSE {}
Copies(r) == Queued(r) \union InHand(r) \union JobsOf(r) \union TimerOf(r) \union LaunchOf(r)

\* The workers that are about to perform step s, or to start it.
At(stage, r, s) ==
  {<<"worker", w, 0>> : w \in {v \in Workers : pc[v] = stage /\ msg[v].run = r /\ msg[v].step = s}}

\* Whatever may yet perform step s: every copy while it is PENDING, the
\* workers that found it so afterwards.
Open(r, s) == launch[r] # "done" \/ step[r][s] = "PENDING"
May(r, s) == IF Open(r, s) THEN Copies(r) ELSE At("start", r, s)
Spent(r, s) == ran[r][s] + Cardinality(At("execute", r, s)) + Cardinality(May(r, s))

\* Twice the sum of i + f for i in 1 .. 1 + k.
Budget(k, f) == (1 + k) * (2 + k + 2 * f)

FewCopies(r) == IsFiniteSet(Copies(r)) /\ Cardinality(Copies(r)) <= 1 + retries[r] + faults
RerunInv(r) ==
  FewCopies(r) /\ \A s \in Steps : 2 * Spent(r, s) <= Budget(retries[r], faults)

\* Each kind of copy has a tag of its own.
LEMMA Tags ==
  ASSUME NEW r, NEW t
  PROVE  /\ t \in Queued(r) => t[1] = "message"
         /\ t \in InHand(r) => t[1] = "worker"
         /\ t \in JobsOf(r) => t[1] = "job"
         /\ t \in TimerOf(r) => t[1] = "timer"
         /\ t \in LaunchOf(r) => t[1] = "launch"
BY DEF Queued, InHand, JobsOf, TimerOf, LaunchOf

LEMMA AtAreCopies ==
  ASSUME NEW stage \in {"start", "execute"}, NEW r, NEW s
  PROVE  At(stage, r, s) \subseteq Copies(r)
<1>1. At(stage, r, s) \subseteq InHand(r)
  BY DEF At, InHand, Holds
<1> QED
  BY <1>1 DEF Copies

\* A message is sent, or read; a job begins, or ends.
LEMMA QueuedStays ==
  ASSUME NEW r, \A m \in Messages : m.run = r => queue'[m] = queue[m]
  PROVE  Queued(r)' = Queued(r)
BY DEF Queued

LEMMA QueuedGrows ==
  ASSUME TypeInv, NEW m \in Messages, Sends(m), NEW r
  PROVE  /\ m.run # r => Queued(r)' = Queued(r)
         /\ Queued(r)' \subseteq Queued(r) \union {<<"message", m, queue[m] + 1>>}
<1>1. \A n \in Messages : queue'[n] = IF n = m THEN queue[m] + 1 ELSE queue[n]
  BY DEF Sends
<1>2. m.run # r => Queued(r)' = Queued(r)
  BY <1>1, QueuedStays
<1>3. ASSUME NEW t \in Queued(r)', t \notin Queued(r) PROVE t = <<"message", m, queue[m] + 1>>
  <2>1. PICK n \in Messages, i \in Nat : i \in 1..queue'[n] /\ n.run = r /\ t = <<"message", n, i>>
    BY <1>3 DEF Queued
  <2>2. queue[n] \in Nat /\ queue[m] \in Nat /\ i \notin 1..queue[n]
    BY <1>3, <2>1 DEF Queued, TypeInv, TypeOK
  <2>3. n = m /\ i = queue[m] + 1
    BY <1>1, <2>1, <2>2, SMT
  <2> QED
    BY <2>1, <2>3
<1> QED
  BY <1>2, <1>3

LEMMA QueuedShrinks ==
  ASSUME TypeInv, NEW m \in Messages, queue[m] > 0, queue'[m] = queue[m] - 1,
         \A n \in Messages \ {m} : queue'[n] = queue[n]
  PROVE  /\ <<"message", m, queue[m]>> \in Queued(m.run)
         /\ Queued(m.run)' \subseteq Queued(m.run) \ {<<"message", m, queue[m]>>}
<1>1. queue[m] \in 1..queue[m]
  BY SMT DEF TypeInv, TypeOK
<1>2. ASSUME NEW t \in Queued(m.run)'
      PROVE  t \in Queued(m.run) /\ t # <<"message", m, queue[m]>>
  <2>1. PICK n \in Messages, i \in Nat : i \in 1..queue'[n] /\ n.run = m.run /\ t = <<"message", n, i>>
    BY <1>2 DEF Queued
  <2>2. i \in 1..queue[n] /\ ~(n = m /\ i = queue[m])
    BY <2>1, SMT DEF TypeInv, TypeOK
  <2> QED
    BY <2>1, <2>2 DEF Queued
<1> QED
  BY <1>1, <1>2 DEF Queued

LEMMA JobsStay ==
  ASSUME NEW r, \A s \in Steps : jobs'[r][s] = jobs[r][s]
  PROVE  JobsOf(r)' = JobsOf(r)
BY DEF JobsOf

LEMMA JobsGrow ==
  ASSUME TypeInv, NEW r \in Runs, NEW s \in Steps, jobs'[r][s] = jobs[r][s] + 1,
         \A t \in Steps \ {s} : jobs'[r][t] = jobs[r][t]
  PROVE  JobsOf(r)' \subseteq JobsOf(r) \union {<<"job", s, jobs[r][s] + 1>>}
<1> SUFFICES ASSUME NEW t \in JobsOf(r)', t \notin JobsOf(r)
             PROVE  t = <<"job", s, jobs[r][s] + 1>>
  OBVIOUS
<1>1. PICK u \in Steps, i \in Nat : i \in 1..jobs'[r][u] /\ t = <<"job", u, i>>
  BY DEF JobsOf
<1>2. jobs[r][u] \in Nat /\ jobs[r][s] \in Nat /\ i \notin 1..jobs[r][u]
  BY <1>1 DEF JobsOf, TypeInv, TypeOK
<1>3. u = s /\ i = jobs[r][s] + 1
  BY <1>1, <1>2, SMT
<1> QED
  BY <1>1, <1>3

LEMMA JobsShrink ==
  ASSUME TypeInv, NEW r \in Runs, NEW s \in Steps, JobEnds(r, s)
  PROVE  /\ <<"job", s, jobs[r][s]>> \in JobsOf(r)
         /\ JobsOf(r)' \subseteq JobsOf(r) \ {<<"job", s, jobs[r][s]>>}
         /\ \A q \in Runs \ {r} : JobsOf(q)' = JobsOf(q)
<1>1. /\ jobs[r][s] > 0 /\ jobs'[r][s] = jobs[r][s] - 1
      /\ \A q \in Runs, t \in Steps : q # r \/ t # s => jobs'[q][t] = jobs[q][t]
  BY JobEndsEffect
<1>2. jobs[r][s] \in 1..jobs[r][s]
  BY <1>1, SMT DEF TypeInv, TypeOK
<1>3. ASSUME NEW t \in JobsOf(r)'
      PROVE  t \in JobsOf(r) /\ t # <<"job", s, jobs[r][s]>>
  <2>1. PICK u \in Steps, i \in Nat : i \in 1..jobs'[r][u] /\ t = <<"job", u, i>>
    BY <1>3 DEF JobsOf
  <2>2. i \in 1..jobs[r][u] /\ ~(u = s /\ i = jobs[r][s])
    BY <1>1, <2>1, SMT DEF TypeInv, TypeOK
  <2> QED
    BY <2>1, <2>2 DEF JobsOf
<1>4. \A q \in Runs \ {r} : JobsOf(q)' = JobsOf(q)
  BY <1>1, JobsStay
<1> QED
  BY <1>2, <1>3, <1>4 DEF JobsOf

\* Only worker w moves: it has its copy still, has it no longer, or took it.
LEMMA InHandMoves ==
  ASSUME NEW w \in Workers, NEW r,
         \A v \in Workers \ {w} : pc'[v] = pc[v] /\ msg'[v] = msg[v] /\ result'[v] = result[v]
  PROVE  /\ InHand(r)' \subseteq InHand(r) \union {<<"worker", w, 0>>}
         /\ ~Holds(w, r)' => InHand(r)' \subseteq InHand(r) \ {<<"worker", w, 0>>}
         /\ Holds(w, r) => InHand(r)' \subseteq InHand(r)
         /\ Holds(w, r) <=> <<"worker", w, 0>> \in InHand(r)
<1>1. \A v \in Workers \ {w} : Holds(v, r)' <=> Holds(v, r)
  BY DEF Holds
<1> QED
  BY <1>1 DEF InHand

\* No copy of r more than before, or one more at most.
NotMore(r) ==
  IsFiniteSet(Copies(r)) =>
    /\ IsFiniteSet(Copies(r)') /\ Cardinality(Copies(r)') \in Nat /\ Cardinality(Copies(r)) \in Nat
    /\ Cardinality(Copies(r)') <= Cardinality(Copies(r))
OneMoreAtMost(r) ==
  IsFiniteSet(Copies(r)) =>
    /\ IsFiniteSet(Copies(r)') /\ Cardinality(Copies(r)') \in Nat /\ Cardinality(Copies(r)) \in Nat
    /\ Cardinality(Copies(r)') <= Cardinality(Copies(r)) + 1

LEMMA NoneAdded ==
  ASSUME NEW r, Copies(r)' \subseteq Copies(r)
  PROVE  NotMore(r)
BY Fewer DEF NotMore

LEMMA OneAdded ==
  ASSUME NEW r, NEW y, Copies(r)' \subseteq Copies(r) \union {y}
  PROVE  OneMoreAtMost(r)
BY OneMore DEF OneMoreAtMost

LEMMA OneSwapped ==
  ASSUME NEW r, NEW x \in Copies(r), NEW y, Copies(r)' \subseteq (Copies(r) \ {x}) \union {y}
  PROVE  NotMore(r)
BY Exchange DEF NotMore

\* One part of the copies loses x, one gains y, and the tags tell the parts
\* apart.
LEMMA PartsSwap ==
  ASSUME NEW r, NEW x, NEW y, x \in Copies(r),
         Queued(r)' \subseteq (IF x[1] = "message" THEN Queued(r) \ {x} ELSE Queued(r)) \union {y},
         InHand(r)' \subseteq (IF x[1] = "worker" THEN InHand(r) \ {x} ELSE InHand(r)) \union {y},
         JobsOf(r)' \subseteq (IF x[1] = "job" THEN JobsOf(r) \ {x} ELSE JobsOf(r)) \union {y},
         TimerOf(r)' \subseteq (IF x[1] = "timer" THEN TimerOf(r) \ {x} ELSE TimerOf(r)) \union {y},
         LaunchOf(r)' \subseteq (IF x[1] = "launch" THEN LaunchOf(r) \ {x} ELSE LaunchOf(r)) \union {y}
  PROVE  NotMore(r)
<1>1. \A t \in Copies(r)' : t # y => t \in Copies(r) /\ t # x
  BY Tags DEF Copies
<1>2. Copies(r)' \subseteq (Copies(r) \ {x}) \union {y}
  BY <1>1
<1> QED
  BY <1>2, OneSwapped

\* No part gains anything but, perhaps, y.
LEMMA PartsShrink ==
  ASSUME NEW r, Queued(r)' \subseteq Queued(r), InHand(r)' \subseteq InHand(r),
         JobsOf(r)' \subseteq JobsOf(r), TimerOf(r)' \subseteq TimerOf(r),
         LaunchOf(r)' \subseteq LaunchOf(r)
  PROVE  NotMore(r)
BY NoneAdded DEF Copies

LEMMA PartsGrow ==
  ASSUME NEW r, NEW y, Queued(r)' \subseteq Queued(r) \union {y}, InHand(r)' \subseteq InHand(r),
         JobsOf(r)' \subseteq JobsOf(r), TimerOf(r)' \subseteq TimerOf(r),
         LaunchOf(r)' \subseteq LaunchOf(r)
  PROVE  OneMoreAtMost(r)
BY OneAdded DEF Copies

LEMMA LaunchCopies ==
  ASSUME TypeInv, NEW r \in Runs, CreateRun(r) \/ Launch(r) \/ LaunchFails(r) \/ Cancel(r),
         NEW q \in Runs
  PROVE  NotMore(q)
<1>1. InHand(q)' = InHand(q) /\ JobsOf(q)' = JobsOf(q) /\ TimerOf(q)' = TimerOf(q)
  BY DEF CreateRun, Launch, CreateStepRuns, EnqueueFirst, LaunchFails, Cancel, InHand, Holds, JobsOf,
    TimerOf, outsideVars, workerVars
<1>2. CASE EnqueueFirst(r)
  <2>1. Sends(FirstAttempt(r, First)) /\ FirstAttempt(r, First).run = r
    BY <1>2, Constants, EnqueueEffect, FirstAttempts DEF EnqueueFirst, TypeInv
  <2>2. launch[r] = "steps" /\ launch'[r] = "done" /\ (q # r => launch'[q] = launch[q])
    BY <1>2 DEF EnqueueFirst, TypeInv, TypeOK
  <2>3. CASE q = r
    <3>1. PICK y : Queued(r)' \subseteq Queued(r) \union {y}
      BY <2>1, QueuedGrows DEF Sends
    <3>2. <<"launch", r, 0>> \in Copies(r) /\ LaunchOf(r)' = {}
      BY <2>2 DEF Copies, LaunchOf
    <3> QED
      BY <1>1, <2>3, <3>1, <3>2, PartsSwap
  <2>4. CASE q # r
    <3>1. Queued(q)' = Queued(q)
      BY <2>1, <2>4, QueuedGrows DEF Sends
    <3>2. LaunchOf(q)' = LaunchOf(q)
      BY <2>2, <2>4 DEF LaunchOf
    <3> QED
      BY <1>1, <3>1, <3>2, PartsShrink
  <2> QED
    BY <2>3, <2>4
<1>3. CASE CreateRun(r) \/ CreateStepRuns(r) \/ LaunchFails(r) \/ Cancel(r)
  <2>1. Queued(q)' = Queued(q)
    BY <1>3, QueuedStays DEF CreateRun, CreateStepRuns, LaunchFails, Cancel, queueVars
  <2>2. LaunchOf(q)' \subseteq LaunchOf(q)
    BY <1>3 DEF CreateRun, CreateStepRuns, LaunchFails, Cancel, LaunchOf, TypeInv, TypeOK
  <2> QED
    BY <1>1, <2>1, <2>2, PartsShrink
<1> QED
  BY <1>2, <1>3 DEF Launch

LEMMA RetryCopies ==
  ASSUME TypeInv, NEW r \in Runs, Retry(r), NEW q \in Runs
  PROVE  OneMoreAtMost(q) /\ (q # r => NotMore(q))
<1>1. /\ InHand(q)' = InHand(q) /\ JobsOf(q)' = JobsOf(q)
      /\ TimerOf(q)' = TimerOf(q) /\ LaunchOf(q)' = LaunchOf(q)
  BY DEF Retry, InHand, Holds, JobsOf, TimerOf, LaunchOf, outsideVars, workerVars
<1>2. CASE UNCHANGED queue
  <2>1. Queued(q)' = Queued(q)
    BY <1>2, QueuedStays
  <2> QED
    BY <1>1, <2>1, PartsShrink, PartsGrow
<1>3. ASSUME NEW m \in Messages, m.run = r, Sends(m)
      PROVE  OneMoreAtMost(q) /\ (q # r => NotMore(q))
  <2>1. Queued(q)' \subseteq Queued(q) \union {<<"message", m, queue[m] + 1>>}
    BY <1>3, QueuedGrows
  <2>2. q # r => Queued(q)' = Queued(q)
    BY <1>3, QueuedGrows
  <2>3. OneMoreAtMost(q)
    BY <1>1, <2>1, PartsGrow
  <2>4. q # r => NotMore(q)
    BY <1>1, <2>2, PartsShrink
  <2> QED
    BY <2>3, <2>4
<1> QED
  BY <1>2, <1>3, RetryEffect

\* A step of worker w that leaves its message with it or gives it up.
LEMMA GoesOn ==
  ASSUME NEW w \in Workers, NEW r, Holds(w, r)' => Holds(w, r),
         \A v \in Workers \ {w} : pc'[v] = pc[v] /\ msg'[v] = msg[v] /\ result'[v] = result[v],
         Queued(r)' = Queued(r), JobsOf(r)' \subseteq JobsOf(r), TimerOf(r)' \subseteq TimerOf(r),
         LaunchOf(r)' = LaunchOf(r)
  PROVE  NotMore(r)
<1>1. InHand(r)' \subseteq InHand(r)
  BY InHandMoves, Zenon
<1> QED
  BY <1>1, PartsShrink

LEMMA ReadCopies ==
  ASSUME TypeInv, NEW w \in Workers, Read(w), NEW q \in Runs
  PROVE  NotMore(q)
<1>1. PICK m \in Messages :
        /\ queue[m] > 0 /\ queue'[m] = queue[m] - 1
        /\ \A n \in Messages \ {m} : queue'[n] = queue[n]
        /\ msg'[w] = m /\ pc'[w] # "idle"
        /\ \A v \in Workers \ {w} : pc'[v] = pc[v] /\ msg'[v] = msg[v]
  BY ReadEffect DEF Goes
<1>2. \A v \in Workers \ {w} : pc'[v] = pc[v] /\ msg'[v] = msg[v] /\ result'[v] = result[v]
  BY <1>1 DEF Read
<1>3. JobsOf(q)' = JobsOf(q) /\ TimerOf(q)' = TimerOf(q) /\ LaunchOf(q)' = LaunchOf(q)
  BY DEF Read, JobsOf, TimerOf, LaunchOf, outsideVars, runVars
<1>4. CASE q = m.run
  <2>1. /\ <<"message", m, queue[m]>> \in Queued(q)
        /\ Queued(q)' \subseteq Queued(q) \ {<<"message", m, queue[m]>>}
    BY <1>1, <1>4, QueuedShrinks
  <2>2. InHand(q)' \subseteq InHand(q) \union {<<"worker", w, 0>>}
    BY <1>2, InHandMoves
  <2>3. <<"message", m, queue[m]>> \in Copies(q)
    BY <2>1 DEF Copies
  <2> QED
    BY <1>3, <2>1, <2>2, <2>3, PartsSwap
<1>5. CASE q # m.run
  <2>1. Queued(q)' = Queued(q)
    BY <1>1, <1>5, QueuedStays
  <2>2. ~Holds(w, q)'
    BY <1>1, <1>5 DEF Holds
  <2> QED
    BY <1>2, <1>3, <2>1, <2>2, GoesOn
<1> QED
  BY <1>4, <1>5

LEMMA HandlerCopies ==
  ASSUME TypeInv, NEW w \in Workers, NEW q \in Runs,
         ReadContext(w) \/ Start(w) \/ Complete(w) \/ CloseRun(w) \/ (Settle(w) /\ UNCHANGED queue)
  PROVE  NotMore(q)
<1>1. /\ Queued(q)' = Queued(q) /\ JobsOf(q)' = JobsOf(q) /\ TimerOf(q)' = TimerOf(q)
      /\ LaunchOf(q)' = LaunchOf(q)
  BY DEF ReadContext, Start, Complete, CloseRun, Settle, Queued, JobsOf, TimerOf, LaunchOf, runVars,
    queueVars, outsideVars
<1>2. /\ \A v \in Workers \ {w} : pc'[v] = pc[v] /\ msg'[v] = msg[v] /\ result'[v] = result[v]
      /\ Holds(w, q)' => Holds(w, q)
  <2>1. CASE ReadContext(w)
    BY <2>1, ReadContextEffect DEF ReadContext, Goes, Holds
  <2>2. CASE Start(w)
    BY <2>2, StartEffect DEF Start, Goes, Holds
  <2>3. CASE Complete(w)
    BY <2>3, CompleteEffect DEF Complete, Goes, Holds
  <2>4. CASE CloseRun(w)
    <3>1. pc[w] = "advance" => result[w].next # "TIMER"
      BY DEF TypeInv, HasResult
    <3> QED
      BY <2>4, <3>1, CloseRunEffect DEF CloseRun, Goes, Holds
  <2>5. CASE Settle(w)
    BY <2>5, FreeEffect DEF Settle, Frees, Goes, Holds, TypeInv
  <2> QED
    BY <2>1, <2>2, <2>3, <2>4, <2>5
<1> QED
  BY <1>1, <1>2, GoesOn

LEMMA ExecuteCopies ==
  ASSUME TypeInv, NEW w \in Workers, Execute(w), NEW q \in Runs
  PROVE  NotMore(q)
<1> DEFINE r == msg[w].run
           s == msg[w].step
<1>1. /\ Goes(w, "execute", "complete") /\ UNCHANGED msg
      /\ \A v \in Workers \ {w} : result'[v] = result[v]
      /\ jobs'[r][s] = jobs[r][s] + (IF result'[w].next = "TIMER" /\ Kind[s] = "job" THEN 1 ELSE 0)
      /\ \A p \in Runs, t \in Steps : p # r \/ t # s => jobs'[p][t] = jobs[p][t]
  BY ExecuteEffect DEF Execute
<1>2. r \in Runs /\ s \in Steps
  BY <1>1, Holding DEF Goes
<1>3. Queued(q)' = Queued(q) /\ TimerOf(q)' = TimerOf(q) /\ LaunchOf(q)' = LaunchOf(q)
  BY DEF Execute, Queued, TimerOf, LaunchOf, runVars, queueVars
<1>4. \A v \in Workers \ {w} : pc'[v] = pc[v] /\ msg'[v] = msg[v] /\ result'[v] = result[v]
  BY <1>1 DEF Goes
<1>5. Holds(w, q)' => Holds(w, q)
  BY <1>1 DEF Goes, Holds
<1>6. CASE q = r /\ result'[w].next = "TIMER" /\ Kind[s] = "job"
  <2>1. ~Holds(w, q)' /\ Holds(w, q)
    BY <1>1, <1>6 DEF Goes, Holds
  <2>2. /\ InHand(q)' \subseteq InHand(q) \ {<<"worker", w, 0>>}
        /\ <<"worker", w, 0>> \in InHand(q)
    BY <1>4, <2>1, InHandMoves
  <2>3. JobsOf(q)' \subseteq JobsOf(q) \union {<<"job", s, jobs[q][s] + 1>>}
    BY <1>1, <1>2, <1>6, JobsGrow
  <2>4. <<"worker", w, 0>> \in Copies(q)
    BY <2>2 DEF Copies
  <2> QED
    BY <1>3, <2>2, <2>3, <2>4, PartsSwap
<1>7. CASE ~(q = r /\ result'[w].next = "TIMER" /\ Kind[s] = "job")
  <2>1. \A t \in Steps : jobs'[q][t] = jobs[q][t]
    BY <1>1, <1>2, <1>7, SMT DEF TypeInv, TypeOK
  <2>2. JobsOf(q)' = JobsOf(q)
    BY <2>1, JobsStay
  <2> QED
    BY <1>3, <1>4, <1>5, <2>2, GoesOn
<1> QED
  BY <1>6, <1>7

LEMMA ScheduleCopies ==
  ASSUME TypeInv, NEW w \in Workers, Schedule(w), NEW q \in Runs
  PROVE  NotMore(q)
<1> DEFINE r == msg[w].run
           s == msg[w].step
<1>1. /\ Goes(w, "schedule", "settle") /\ UNCHANGED <<msg, result>>
      /\ \/ /\ timer'[r] <=> Kind[s] = "wait"
            /\ \A p \in Runs \ {r} : timer'[p] = timer[p]
         \/ UNCHANGED timer
  BY ScheduleEffect DEF Schedule
<1>2. r \in Runs /\ s \in Steps /\ result[w].next = "TIMER"
  BY <1>1, Holding DEF Goes, TypeInv, HasResult
<1>3. Queued(q)' = Queued(q) /\ JobsOf(q)' = JobsOf(q) /\ LaunchOf(q)' = LaunchOf(q)
  BY DEF Schedule, Queued, JobsOf, LaunchOf, queueVars, outsideVars
<1>4. \A v \in Workers \ {w} : pc'[v] = pc[v] /\ msg'[v] = msg[v] /\ result'[v] = result[v]
  BY <1>1 DEF Goes
<1>5. ~Holds(w, q)'
  BY <1>1 DEF Goes, Holds
<1>6. CASE q = r /\ timer'[r] /\ Kind[s] = "wait"
  <2>1. Holds(w, q)
    BY <1>1, <1>6 DEF Goes, Holds
  <2>2. /\ InHand(q)' \subseteq InHand(q) \ {<<"worker", w, 0>>}
        /\ <<"worker", w, 0>> \in InHand(q)
    BY <1>4, <1>5, <2>1, InHandMoves
  <2>3. TimerOf(q)' \subseteq TimerOf(q) \union {<<"timer", q, 0>>}
    BY DEF TimerOf
  <2>4. <<"worker", w, 0>> \in Copies(q)
    BY <2>2 DEF Copies
  <2> QED
    BY <1>3, <2>2, <2>3, <2>4, PartsSwap
<1>7. CASE ~(q = r /\ timer'[r] /\ Kind[s] = "wait")
  <2>1. TimerOf(q)' \subseteq TimerOf(q)
    BY <1>1, <1>7 DEF TimerOf
  <2> QED
    BY <1>3, <1>4, <1>5, <2>1, GoesOn
<1> QED
  BY <1>6, <1>7

LEMMA EnqueueCopies ==
  ASSUME TypeInv, NEW w \in Workers, EnqueueNext(w), NEW q \in Runs
  PROVE  NotMore(q)
<1> DEFINE r == msg[w].run
           m == FirstAttempt(r, result[w].next)
<1>1. /\ Goes(w, "advance", "settle") /\ UNCHANGED <<msg, result>>
      /\ result[w].next \in Steps /\ (Sends(m) \/ UNCHANGED queue)
  BY EnqueueNextEffect DEF EnqueueNext
<1>2. r \in Runs /\ m \in Messages /\ m.run = r /\ result[w].next # "TIMER"
  BY <1>1, Holding, FirstAttempts DEF Goes, TypeInv, HasResult
<1>3. JobsOf(q)' = JobsOf(q) /\ TimerOf(q)' = TimerOf(q) /\ LaunchOf(q)' = LaunchOf(q)
  BY DEF EnqueueNext, JobsOf, TimerOf, LaunchOf, runVars, outsideVars
<1>4. \A v \in Workers \ {w} : pc'[v] = pc[v] /\ msg'[v] = msg[v] /\ result'[v] = result[v]
  BY <1>1 DEF Goes
<1>5. ~Holds(w, q)'
  BY <1>1 DEF Goes, Holds
<1>6. CASE q = r /\ Sends(m)
  <2>1. Holds(w, q)
    BY <1>1, <1>2, <1>6 DEF Goes, Holds
  <2>2. /\ InHand(q)' \subseteq InHand(q) \ {<<"worker", w, 0>>}
        /\ <<"worker", w, 0>> \in InHand(q)
    BY <1>4, <1>5, <2>1, InHandMoves
  <2>3. PICK y : Queued(q)' \subseteq Queued(q) \union {y}
    BY <1>2, <1>6, QueuedGrows
  <2>4. <<"worker", w, 0>> \in Copies(q)
    BY <2>2 DEF Copies
  <2> QED
    BY <1>3, <2>2, <2>3, <2>4, PartsSwap
<1>7. CASE ~(q = r /\ Sends(m))
  <2>1. Queued(q)' = Queued(q)
    BY <1>1, <1>2, <1>7, QueuedGrows, QueuedStays
  <2> QED
    BY <1>3, <1>4, <1>5, <2>1, GoesOn
<1> QED
  BY <1>6, <1>7

LEMMA GivenBackCopies ==
  ASSUME TypeInv, NEW w \in Workers, Leave(w) \/ Return(w), NEW q \in Runs
  PROVE  NotMore(q)
<1>1. /\ pc[w] \in {"leave", "return"} /\ pc'[w] = "idle" /\ (Sends(msg[w]) \/ UNCHANGED queue)
      /\ \A v \in Workers \ {w} : pc'[v] = pc[v] /\ msg'[v] = msg[v] /\ result'[v] = result[v]
  <2>1. CASE Leave(w)
    <3>1. Frees(w, "leave") /\ GiveBack(w)
      BY <2>1, FreeEffect DEF Leave, TypeInv
    <3> QED
      BY <3>1, GiveBackEffect DEF Frees, Goes
  <2>2. CASE Return(w)
    <3>1. Frees(w, "return") /\ (GiveBack(w) \/ UNCHANGED queue)
      BY <2>2, FreeEffect DEF Return, TypeInv
    <3> QED
      BY <3>1, GiveBackEffect DEF Frees, Goes
  <2> QED
    BY <2>1, <2>2
<1>2. msg[w] \in Messages /\ msg[w].run \in Runs
  BY <1>1, Holding
<1>3. JobsOf(q)' = JobsOf(q) /\ TimerOf(q)' = TimerOf(q) /\ LaunchOf(q)' = LaunchOf(q)
  BY DEF Leave, Return, JobsOf, TimerOf, LaunchOf, runVars, outsideVars
<1>4. ~Holds(w, q)'
  BY <1>1 DEF Holds
<1>5. CASE q = msg[w].run
  <2>1. Holds(w, q)
    BY <1>1, <1>5 DEF Holds
  <2>2. /\ InHand(q)' \subseteq InHand(q) \ {<<"worker", w, 0>>}
        /\ <<"worker", w, 0>> \in InHand(q)
    BY <1>1, <1>4, <2>1, InHandMoves
  <2>3. \E y : Queued(q)' \subseteq Queued(q) \union {y}
    BY <1>1, <1>2, QueuedGrows, QueuedStays
  <2>4. <<"worker", w, 0>> \in Copies(q)
    BY <2>2 DEF Copies
  <2> QED
    BY <1>3, <2>2, <2>3, <2>4, PartsSwap
<1>6. CASE q # msg[w].run
  <2>1. Queued(q)' = Queued(q)
    BY <1>1, <1>2, <1>6, QueuedGrows, QueuedStays
  <2> QED
    BY <1>1, <1>3, <1>4, <2>1, GoesOn
<1> QED
  BY <1>5, <1>6

\* A worker is through with a message that could not be archived.
Unarchived(w) == Settle(w) /\ ~UNCHANGED queue

LEMMA UnarchivedFaults ==
  ASSUME NEW w \in Workers, Unarchived(w)
  PROVE  Fault /\ GiveBack(w) /\ Free(w, "settle") /\ UNCHANGED <<runVars, outsideVars, ran>>
BY DEF Unarchived, Settle, RpcFails, queueVars

\* A crash, a VT that runs out early, or a failed archive may put one more copy out.
LEMMA FaultCopies ==
  ASSUME TypeInv, NEW w \in Workers, Crash(w) \/ ExpireEarly(w) \/ Unarchived(w), NEW q \in Runs
  PROVE  OneMoreAtMost(q)
<1>1. /\ pc[w] # "idle" /\ Sends(msg[w])
      /\ pc'[w] = "idle" \/ UNCHANGED workerVars
      /\ \A v \in Workers \ {w} : pc'[v] = pc[v] /\ msg'[v] = msg[v] /\ result'[v] = result[v]
  <2>1. CASE Crash(w)
    <3>1. pc[w] # "idle" /\ Frees(w, pc[w]) /\ GiveBack(w)
      BY <2>1, FreeEffect DEF Crash, TypeInv
    <3> QED
      BY <3>1, GiveBackEffect DEF Frees, Goes
  <2>2. CASE ExpireEarly(w)
    BY <2>2, GiveBackEffect DEF ExpireEarly, workerVars
  <2>3. CASE Unarchived(w)
    <3>1. pc[w] # "idle" /\ Frees(w, pc[w]) /\ GiveBack(w)
      BY <2>3, UnarchivedFaults, FreeEffect DEF Free, GoTo, TypeInv
    <3> QED
      BY <3>1, GiveBackEffect DEF Frees, Goes
  <2> QED
    BY <2>1, <2>2, <2>3
<1>2. JobsOf(q)' = JobsOf(q) /\ TimerOf(q)' = TimerOf(q) /\ LaunchOf(q)' = LaunchOf(q)
  BY UnarchivedFaults DEF Crash, ExpireEarly, JobsOf, TimerOf, LaunchOf, runVars, outsideVars
<1>3. Holds(w, q)' => Holds(w, q)
  BY <1>1 DEF Holds, workerVars
<1>4. InHand(q)' \subseteq InHand(q)
  BY <1>1, <1>3, InHandMoves, Zenon
<1>5. PICK y : Queued(q)' \subseteq Queued(q) \union {y}
  BY <1>1, Holding, QueuedGrows
<1> QED
  BY <1>2, <1>4, <1>5, PartsGrow

LEMMA WorkerCopies ==
  ASSUME TypeInv, NEW w \in Workers, Step(w), ~Unarchived(w), NEW q \in Runs
  PROVE  NotMore(q)
BY ReadCopies, HandlerCopies, ExecuteCopies, ScheduleCopies, EnqueueCopies, GivenBackCopies
  DEF Step, Unarchived

LEMMA OutsideCopies ==
  ASSUME TypeInv, NEW r \in Runs, NEW s \in Steps, ResumeTimer(r, s) \/ Outside(r, s), NEW q \in Runs
  PROVE  NotMore(q)
<1>1. InHand(q)' = InHand(q) /\ LaunchOf(q)' = LaunchOf(q)
  BY DEF ResumeTimer, Outside, JobSucceeds, JobDeclined, JobFails, Decide, InHand, Holds, LaunchOf,
    workerVars, runVars
<1>2. ASSUME Resume(r, s)
      PROVE  /\ \E y : Queued(q)' \subseteq Queued(q) \union {y}
             /\ q # r \/ OnSuccess[s] \notin Steps => Queued(q)' = Queued(q)
             /\ TimerOf(q)' \subseteq TimerOf(q)
             /\ OnSuccess[s] \in Steps => TimerOf(r)' = {}
  <2>1. /\ OnSuccess[s] \in Steps => Sends(FirstAttempt(r, OnSuccess[s]))
        /\ OnSuccess[s] \notin Steps => UNCHANGED queue
        /\ timer'[r] <=> timer[r] /\ OnSuccess[s] = "END_FAIL"
        /\ \A p \in Runs \ {r} : timer'[p] = timer[p]
    BY <1>2, ResumeEffect
  <2>2. OnSuccess[s] \in Steps => OnSuccess[s] # "END_FAIL"
    BY Constants
  <2>3. TimerOf(q)' \subseteq TimerOf(q) /\ (OnSuccess[s] \in Steps => TimerOf(r)' = {})
    BY <2>1, <2>2 DEF TimerOf
  <2>4. /\ \E y : Queued(q)' \subseteq Queued(q) \union {y}
        /\ q # r \/ OnSuccess[s] \notin Steps => Queued(q)' = Queued(q)
    BY <2>1, FirstAttempts, QueuedGrows, QueuedStays DEF Sends
  <2> QED
    BY <2>3, <2>4
<1>3. CASE ResumeTimer(r, s)
  <2>1. Resume(r, s) /\ timer[r] /\ JobsOf(q)' = JobsOf(q)
    BY <1>3 DEF ResumeTimer, JobsOf, outsideVars
  <2>2. CASE q = r /\ OnSuccess[s] \in Steps
    <3>1. <<"timer", r, 0>> \in Copies(r)
      BY <2>1 DEF Copies, TimerOf
    <3> QED
      BY <1>1, <1>2, <2>1, <2>2, <3>1, PartsSwap
  <2>3. CASE q # r \/ OnSuccess[s] \notin Steps
    BY <1>1, <1>2, <2>1, <2>3, PartsShrink
  <2> QED
    BY <2>2, <2>3
<1>4. CASE JobSucceeds(r, s)
  <2>1. JobEnds(r, s) /\ Resume(r, s)
    BY <1>4 DEF JobSucceeds
  <2>2. /\ <<"job", s, jobs[r][s]>> \in JobsOf(r)
        /\ JobsOf(r)' \subseteq JobsOf(r) \ {<<"job", s, jobs[r][s]>>}
        /\ q # r => JobsOf(q)' = JobsOf(q)
    BY <2>1, JobsShrink
  <2>3. CASE q = r
    <3>1. <<"job", s, jobs[r][s]>> \in Copies(r)
      BY <2>2 DEF Copies
    <3> QED
      BY <1>1, <1>2, <2>1, <2>2, <2>3, <3>1, PartsSwap
  <2>4. CASE q # r
    BY <1>1, <1>2, <2>1, <2>2, <2>4, PartsShrink
  <2> QED
    BY <2>3, <2>4
<1>5. CASE JobDeclined(r, s) \/ JobFails(r, s)
  <2>1. /\ JobEnds(r, s) /\ TimerOf(q)' = TimerOf(q)
        /\ \A m \in Messages : queue'[m] = queue[m]
    BY <1>5 DEF JobDeclined, JobFails, TimerOf, runVars, queueVars
  <2>2. JobsOf(q)' \subseteq JobsOf(q) /\ Queued(q)' = Queued(q)
    BY <2>1, JobsShrink, QueuedStays
  <2> QED
    BY <1>1, <2>1, <2>2, PartsShrink
<1>6. CASE Decide(r, s)
  <2>1. Queued(q)' = Queued(q) /\ JobsOf(q)' = JobsOf(q) /\ TimerOf(q)' = TimerOf(q)
    BY <1>6 DEF Decide, Queued, JobsOf, TimerOf, runVars, queueVars
  <2> QED
    BY <1>1, <2>1, PartsShrink
<1> QED
  BY <1>3, <1>4, <1>5, <1>6 DEF Outside

-----------------------------------------------------------------------------
(* What a step of a run may cost *)

LEMMA BudgetGrows ==
  ASSUME NEW k \in Nat, NEW f \in Nat
  PROVE  /\ Budget(k, f) \in Nat
         /\ Budget(k, f) + 2 <= Budget(k, f + 1)
         /\ Budget(k + 1, f) = Budget(k, f) + 2 * (2 + k + f)
<1>1. Budget(k, f + 1) = Budget(k, f) + 2 * (1 + k)
  BY SMT DEF Budget
<1>2. Budget(k + 1, f) = Budget(k, f) + 2 * (2 + k + f)
  BY SMT DEF Budget
<1>3. Budget(k, f) \in Nat
  <2>1. 1 + k \in Nat /\ 2 + k + 2 * f \in Nat
    BY SMT
  <2>2. \A a, b \in Nat : a * b \in Nat
    BY SMT
  <2> QED
    BY <2>1, <2>2 DEF Budget
<1> QED
  BY <1>1, <1>2, <1>3, SMT

\* All three terms are numbers, and nobody starts or performs a step but a
\* holder of a copy.
LEMMA SpentParts ==
  ASSUME TypeInv, NEW r \in Runs, NEW s \in Steps, IsFiniteSet(Copies(r))
  PROVE  /\ \A stage \in {"start", "execute"} :
              /\ IsFiniteSet(At(stage, r, s)) /\ Cardinality(At(stage, r, s)) \in Nat
              /\ Cardinality(At(stage, r, s)) <= Cardinality(Copies(r))
         /\ Cardinality(Copies(r)) \in Nat
         /\ IsFiniteSet(May(r, s)) /\ Cardinality(May(r, s)) \in Nat
         /\ Cardinality(May(r, s)) <= Cardinality(Copies(r))
         /\ ran[r][s] \in Nat
<1>1. \A stage \in {"start", "execute"} :
        /\ IsFiniteSet(At(stage, r, s)) /\ Cardinality(At(stage, r, s)) \in Nat
        /\ Cardinality(At(stage, r, s)) <= Cardinality(Copies(r))
  BY AtAreCopies, Fewer
<1>2. /\ IsFiniteSet(May(r, s)) /\ Cardinality(May(r, s)) \in Nat /\ Cardinality(Copies(r)) \in Nat
      /\ Cardinality(May(r, s)) <= Cardinality(Copies(r))
  <2>1. May(r, s) \subseteq Copies(r)
    BY AtAreCopies DEF May
  <2> QED
    BY <2>1, Fewer
<1> QED
  BY <1>1, <1>2 DEF TypeInv, TypeOK

LEMMA SpentPartsNext ==
  ASSUME TypeInv', NEW r \in Runs, NEW s \in Steps, IsFiniteSet(Copies(r)')
  PROVE  /\ \A stage \in {"start", "execute"} :
              /\ IsFiniteSet(At(stage, r, s)') /\ Cardinality(At(stage, r, s)') \in Nat
              /\ Cardinality(At(stage, r, s)') <= Cardinality(Copies(r)')
         /\ Cardinality(Copies(r)') \in Nat
         /\ IsFiniteSet(May(r, s)') /\ Cardinality(May(r, s)') \in Nat
         /\ Cardinality(May(r, s)') <= Cardinality(Copies(r)')
         /\ ran'[r][s] \in Nat
<1>1. ASSUME NEW stage \in {"start", "execute"} PROVE At(stage, r, s)' \subseteq Copies(r)'
  <2>1. At(stage, r, s)' \subseteq InHand(r)'
    BY DEF At, InHand, Holds
  <2> QED
    BY <2>1 DEF Copies
<1>2. \A stage \in {"start", "execute"} :
        /\ IsFiniteSet(At(stage, r, s)') /\ Cardinality(At(stage, r, s)') \in Nat
        /\ Cardinality(At(stage, r, s)') <= Cardinality(Copies(r)')
  BY <1>1, Fewer
<1>3. /\ IsFiniteSet(May(r, s)') /\ Cardinality(May(r, s)') \in Nat /\ Cardinality(Copies(r)') \in Nat
      /\ Cardinality(May(r, s)') <= Cardinality(Copies(r)')
  <2>1. May(r, s)' \subseteq Copies(r)'
    BY <1>1 DEF May
  <2> QED
    BY <2>1, Fewer
<1> QED
  BY <1>2, <1>3 DEF TypeInv, TypeOK

\* A step of the program that neither performs step s of run r nor lets
\* anybody closer to it.
Untouched(r, s) ==
  /\ ran'[r][s] = ran[r][s]
  /\ At("execute", r, s)' \subseteq At("execute", r, s)
  /\ Open(r, s)' => Open(r, s)
  /\ ~Open(r, s) => At("start", r, s)' \subseteq At("start", r, s)

LEMMA SpentStays ==
  ASSUME TypeInv, TypeInv', NEW r \in Runs, NEW s \in Steps, IsFiniteSet(Copies(r)), Untouched(r, s)
  PROVE  /\ NotMore(r) => Spent(r, s)' <= Spent(r, s)
         /\ OneMoreAtMost(r) => Spent(r, s)' <= Spent(r, s) + 1
<1>1. SUFFICES ASSUME NEW d \in {0, 1}, IsFiniteSet(Copies(r)'),
                      Cardinality(Copies(r)') <= Cardinality(Copies(r)) + d
               PROVE  Spent(r, s)' <= Spent(r, s) + d
  <2>1. NotMore(r) => /\ IsFiniteSet(Copies(r)')
                      /\ Cardinality(Copies(r)') <= Cardinality(Copies(r)) + 0
    BY SMT DEF NotMore
  <2>2. \A a \in Int : a + 0 = a
    BY SMT
  <2>3. Spent(r, s) \in Int
    BY SpentParts, SMT DEF Spent
  <2> QED
    BY <1>1, <2>1, <2>2, <2>3 DEF OneMoreAtMost
<1>2. /\ Cardinality(Copies(r)) \in Nat /\ Cardinality(Copies(r)') \in Nat
      /\ Cardinality(At("execute", r, s)) \in Nat /\ Cardinality(At("execute", r, s)') \in Nat
      /\ Cardinality(May(r, s)) \in Nat /\ Cardinality(May(r, s)') \in Nat
      /\ Cardinality(May(r, s)') <= Cardinality(Copies(r)')
      /\ ran[r][s] \in Nat /\ ran'[r][s] = ran[r][s]
  <2>1. /\ Cardinality(Copies(r)) \in Nat /\ Cardinality(At("execute", r, s)) \in Nat
        /\ Cardinality(May(r, s)) \in Nat /\ ran[r][s] \in Nat
    BY SpentParts
  <2>2. /\ Cardinality(Copies(r)') \in Nat /\ Cardinality(At("execute", r, s)') \in Nat
        /\ Cardinality(May(r, s)') \in Nat /\ Cardinality(May(r, s)') <= Cardinality(Copies(r)')
    BY <1>1, SpentPartsNext
  <2> QED
    BY <1>1, <2>1, <2>2 DEF Untouched
<1>3. Cardinality(At("execute", r, s)') <= Cardinality(At("execute", r, s))
  BY SpentParts, Fewer DEF Untouched
<1>4. Cardinality(May(r, s)') <= Cardinality(May(r, s)) + d
  <2>1. CASE Open(r, s)
    <3>1. May(r, s) = Copies(r)
      BY <2>1 DEF May
    <3> QED
      BY <1>1, <1>2, <3>1, SMT
  <2>2. CASE ~Open(r, s)
    <3>1. May(r, s) = At("start", r, s) /\ May(r, s)' = At("start", r, s)'
      BY <2>2 DEF May, Untouched
    <3>2. Cardinality(May(r, s)') <= Cardinality(May(r, s))
      BY <2>2, <3>1, SpentParts, Fewer DEF Untouched
    <3> QED
      BY <1>2, <3>2, SMT
  <2> QED
    BY <2>1, <2>2
<1> QED
  BY <1>2, <1>3, <1>4, SMT DEF Spent

\* Only worker w moves, to a stage from which it performs nothing, or to
\* "start" of a step that is PENDING.
LEMMA OnlyMoves ==
  ASSUME NEW w \in Workers, NEW r, NEW s,
         \A v \in Workers \ {w} : pc'[v] = pc[v] /\ msg'[v] = msg[v],
         pc'[w] # "execute", pc'[w] = "start" /\ msg'[w].run = r /\ msg'[w].step = s => Open(r, s)
  PROVE  /\ At("execute", r, s)' \subseteq At("execute", r, s)
         /\ ~Open(r, s) => At("start", r, s)' \subseteq At("start", r, s)
BY DEF At

LEMMA LaunchUntouched ==
  ASSUME TypeInv, NEW q \in Runs, CreateRun(q) \/ Launch(q) \/ LaunchFails(q) \/ Cancel(q),
         NEW r \in Runs, NEW s \in Steps
  PROVE  Untouched(r, s)
<1>1. UNCHANGED <<ran, pc, msg>>
  BY DEF CreateRun, Launch, CreateStepRuns, EnqueueFirst, LaunchFails, Cancel, workerVars
<1>2. Open(r, s)' => Open(r, s)
  <2>1. CASE CreateRun(q) \/ Launch(q) \/ LaunchFails(q)
    BY <2>1 DEF CreateRun, Launch, CreateStepRuns, EnqueueFirst, LaunchFails, Open, TypeInv, TypeOK
  <2>2. CASE Cancel(q)
    <3>1. step'[r][s] = "PENDING" => step[r][s] = "PENDING"
      BY <2>2, CancelEffect, SMT
    <3> QED
      BY <2>2, <3>1 DEF Cancel, Open
  <2> QED
    BY <2>1, <2>2
<1> QED
  BY <1>1, <1>2 DEF Untouched, At

LEMMA WorkerUntouched ==
  ASSUME TypeInv, NEW w \in Workers, NEW r \in Runs, NEW s \in Steps,
         \/ Read(w) \/ ReadContext(w) \/ Complete(w) \/ Schedule(w) \/ CloseRun(w) \/ EnqueueNext(w)
         \/ Settle(w) \/ Leave(w) \/ Return(w) \/ Crash(w) \/ ExpireEarly(w)
  PROVE  Untouched(r, s)
<1>1. UNCHANGED <<ran, launch>>
  BY DEF Read, ReadContext, Complete, Schedule, CloseRun, EnqueueNext, Settle, Leave, Return, Crash,
    ExpireEarly, runVars
<1>2. step'[r][s] = "PENDING" => step[r][s] = "PENDING"
  <2>1. CASE Complete(w)
    <3>1. result[w].status # "PENDING"
      BY <2>1, CompleteEffect, Returning DEF Goes
    <3> QED
      BY <2>1, <3>1, CompleteEffect, SMT DEF StepIs
  <2>2. CASE Schedule(w)
    BY <2>2, ScheduleEffect, SMT DEF StepIs
  <2>3. CASE \/ Read(w) \/ ReadContext(w) \/ CloseRun(w) \/ EnqueueNext(w) \/ Settle(w) \/ Leave(w)
             \/ Return(w) \/ Crash(w) \/ ExpireEarly(w)
    BY <2>3 DEF Read, ReadContext, CloseRun, EnqueueNext, Settle, Leave, Return, Crash, ExpireEarly, runVars
  <2> QED
    BY <2>1, <2>2, <2>3
<1>3. /\ At("execute", r, s)' \subseteq At("execute", r, s)
      /\ ~Open(r, s) => At("start", r, s)' \subseteq At("start", r, s)
  <2>1. CASE ExpireEarly(w)
    BY <2>1 DEF ExpireEarly, workerVars, At
  <2>2. CASE ~ExpireEarly(w)
    <3>1. /\ \A v \in Workers \ {w} : pc'[v] = pc[v] /\ msg'[v] = msg[v]
          /\ pc'[w] # "execute"
          /\ pc'[w] = "start" => msg'[w] = msg[w] /\ step[msg[w].run][msg[w].step] = "PENDING"
      <4>1. CASE Read(w)
        BY <4>1, ReadEffect DEF Goes
      <4>2. CASE ReadContext(w)
        BY <4>2, ReadContextEffect DEF ReadContext, Goes
      <4>3. CASE Complete(w)
        BY <4>3, CompleteEffect DEF Complete, Goes
      <4>4. CASE Schedule(w)
        BY <4>4, ScheduleEffect DEF Schedule, Goes
      <4>5. CASE CloseRun(w)
        BY <4>5, CloseRunEffect DEF CloseRun, Goes
      <4>6. CASE EnqueueNext(w)
        BY <4>6, EnqueueNextEffect DEF EnqueueNext, Goes
      <4>7. CASE Settle(w) \/ Leave(w) \/ Return(w) \/ Crash(w)
        BY <4>7, FreeingEffect DEF Frees, Goes
      <4> QED
        BY <2>2, <4>1, <4>2, <4>3, <4>4, <4>5, <4>6, <4>7
    <3> QED
      BY <3>1, OnlyMoves DEF Open
  <2> QED
    BY <2>1, <2>2
<1> QED
  BY <1>1, <1>2, <1>3 DEF Untouched, Open

LEMMA OutsideUntouched ==
  ASSUME TypeInv, NEW q \in Runs, NEW t \in Steps, ResumeTimer(q, t) \/ Outside(q, t),
         NEW r \in Runs, NEW s \in Steps
  PROVE  Untouched(r, s)
<1>1. UNCHANGED <<ran, launch, pc, msg>>
  BY DEF ResumeTimer, Outside, JobSucceeds, JobDeclined, JobFails, Decide, workerVars, runVars
<1>2. step'[r][s] = "PENDING" => step[r][s] = "PENDING"
  <2>1. CASE ResumeTimer(q, t) \/ JobSucceeds(q, t)
    BY <2>1, ResumeEffect, SMT DEF ResumeTimer, JobSucceeds, StepIs
  <2>2. CASE JobDeclined(q, t)
    <3>1. StepIs(q, t, "FAILED")
      BY <2>2, SetStepEffect DEF JobDeclined, StepStatus, RunStatus, TypeInv
    <3> QED
      BY <3>1, SMT DEF StepIs
  <2>3. CASE JobFails(q, t) \/ Decide(q, t)
    BY <2>3 DEF JobFails, Decide, runVars
  <2> QED
    BY <2>1, <2>2, <2>3 DEF Outside
<1> QED
  BY <1>1, <1>2 DEF Untouched, Open, At

\* The worker that starts a step: from now on the step is not PENDING, or
\* the RPC failed.
LEMMA StartSpent ==
  ASSUME TypeInv, TypeInv', NEW w \in Workers, Start(w), NEW r \in Runs, NEW s \in Steps,
         IsFiniteSet(Copies(r))
  PROVE  faults' \in {faults, faults + 1} /\ Spent(r, s)' <= Spent(r, s) + (faults' - faults)
<1> DEFINE x == <<"worker", w, 0>>
<1>1. /\ pc[w] = "start" /\ pc'[w] = "execute" /\ UNCHANGED <<msg, ran, launch>>
      /\ \A v \in Workers \ {w} : pc'[v] = pc[v]
  BY StartEffect DEF Start, Goes
<1>2. msg[w].run \in Runs /\ msg[w].step \in Steps /\ launch[msg[w].run] = "done"
  BY <1>1, Holding DEF TypeInv, Launched
<1>3. /\ \/ faults' = faults /\ step[msg[w].run][msg[w].step] \in {"PENDING", "FAILED"}
            /\ StepIs(msg[w].run, msg[w].step, "RUNNING")
         \/ faults' = faults /\ step[msg[w].run][msg[w].step] # "PENDING" /\ UNCHANGED step
         \/ faults' = faults + 1 /\ UNCHANGED step
  <2>1. "RUNNING" \in StepStatus
    BY DEF StepStatus, RunStatus
  <2> QED
    BY <1>2, <2>1, SetStepEffect DEF Start, RpcOk, RpcFails, Fault, TypeInv
<1>4. NotMore(r)
  BY HandlerCopies
<1>5. faults' \in {faults, faults + 1} /\ faults \in Nat /\ faults' \in Nat
  BY <1>3, SMT DEF TypeInv, TypeOK
<1>6. CASE ~(msg[w].run = r /\ msg[w].step = s)
  <2>1. Open(r, s)' => Open(r, s)
    BY <1>1, <1>3, <1>6 DEF Open, StepIs
  <2>2. Untouched(r, s)
    BY <1>1, <1>6, <2>1 DEF Untouched, At
  <2>3. Spent(r, s)' <= Spent(r, s)
    BY <1>4, <2>2, SpentStays
  <2>4. Spent(r, s) \in Int /\ Spent(r, s)' \in Int
    BY <1>4, SpentParts, SpentPartsNext, SMT DEF Spent, NotMore
  <2> QED
    BY <1>5, <2>3, <2>4, SMT
<1>7. CASE msg[w].run = r /\ msg[w].step = s
  <2>1. x \in At("start", r, s) /\ x \in At("execute", r, s)'
    BY <1>1, <1>7 DEF At
  <2>2. /\ At("execute", r, s)' \subseteq At("execute", r, s) \union {x}
        /\ At("start", r, s)' \subseteq At("start", r, s) \ {x}
    BY <1>1 DEF At
  <2>3. x \in Copies(r)' /\ At("start", r, s)' \subseteq Copies(r)' \ {x}
    BY <2>1, <2>2 DEF At, Copies, InHand, Holds
  <2>4. /\ Cardinality(Copies(r)) \in Nat /\ Cardinality(Copies(r)') \in Nat
        /\ IsFiniteSet(Copies(r)') /\ Cardinality(Copies(r)') <= Cardinality(Copies(r))
        /\ ran[r][s] \in Nat /\ ran'[r][s] = ran[r][s]
    BY <1>1, <1>4, SpentParts DEF NotMore
  <2>5. /\ Cardinality(At("execute", r, s)) \in Nat /\ Cardinality(At("execute", r, s)') \in Nat
        /\ Cardinality(At("execute", r, s)') <= Cardinality(At("execute", r, s)) + 1
    BY <2>2, SpentParts, OneMore
  <2>6. /\ Cardinality(At("start", r, s)) \in Nat /\ Cardinality(At("start", r, s)') \in Nat
        /\ Cardinality(At("start", r, s)') <= Cardinality(At("start", r, s)) - 1
        /\ Cardinality(At("start", r, s)') <= Cardinality(Copies(r)') - 1
    BY <2>1, <2>2, <2>3, <2>4, SpentParts, OneLess
  <2>7. Open(r, s) <=> step[r][s] = "PENDING"
    BY <1>2, <1>7 DEF Open
  <2>8. CASE ~Open(r, s)'
    <3>1. May(r, s)' = At("start", r, s)' /\ (May(r, s) = Copies(r) \/ May(r, s) = At("start", r, s))
      BY <2>8 DEF May
    <3> QED
      BY <1>5, <2>4, <2>5, <2>6, <3>1, SMT DEF Spent
  <2>9. CASE Open(r, s)'
    <3>1. step'[r][s] = "PENDING"
      BY <1>1, <1>2, <1>7, <2>9 DEF Open
    <3>2. step[r][s] = "PENDING" /\ faults' = faults + 1
      BY <1>3, <1>7, <3>1, SMT DEF StepIs
    <3>3. May(r, s)' = Copies(r)' /\ May(r, s) = Copies(r)
      BY <2>7, <2>9, <3>2 DEF May
    <3> QED
      BY <1>5, <2>4, <2>5, <3>2, <3>3, SMT DEF Spent
  <2> QED
    BY <2>8, <2>9
<1> QED
  BY <1>5, <1>6, <1>7

LEMMA ExecuteSpent ==
  ASSUME TypeInv, TypeInv', NEW w \in Workers, Execute(w), NEW r \in Runs, NEW s \in Steps,
         IsFiniteSet(Copies(r))
  PROVE  Spent(r, s)' <= Spent(r, s)
<1> DEFINE x == <<"worker", w, 0>>
<1>1. /\ pc[w] = "execute" /\ pc'[w] = "complete" /\ UNCHANGED <<msg, step, launch>>
      /\ \A v \in Workers \ {w} : pc'[v] = pc[v]
      /\ ran'[msg[w].run][msg[w].step] = ran[msg[w].run][msg[w].step] + 1
      /\ \A q \in Runs, t \in Steps : q # msg[w].run \/ t # msg[w].step => ran'[q][t] = ran[q][t]
  BY ExecuteEffect DEF Execute, Goes, runVars
<1>2. NotMore(r)
  BY ExecuteCopies
<1>3. Open(r, s)' <=> Open(r, s)
  BY <1>1 DEF Open
<1>4. At("start", r, s)' = At("start", r, s)
  BY <1>1 DEF At
<1>5. CASE ~(msg[w].run = r /\ msg[w].step = s)
  <2>1. Untouched(r, s)
    BY <1>1, <1>3, <1>4, <1>5 DEF Untouched, At
  <2> QED
    BY <1>2, <2>1, SpentStays
<1>6. CASE msg[w].run = r /\ msg[w].step = s
  <2>1. /\ x \in At("execute", r, s)
        /\ At("execute", r, s)' \subseteq At("execute", r, s) \ {x}
    BY <1>1, <1>6 DEF At
  <2>2. /\ Cardinality(At("execute", r, s)) \in Nat /\ Cardinality(At("execute", r, s)') \in Nat
        /\ Cardinality(At("execute", r, s)') <= Cardinality(At("execute", r, s)) - 1
    BY <2>1, SpentParts, OneLess
  <2>3. /\ Cardinality(May(r, s)) \in Nat /\ Cardinality(May(r, s)') \in Nat
        /\ Cardinality(May(r, s)') <= Cardinality(May(r, s))
    <3>1. /\ Cardinality(May(r, s)) \in Nat /\ Cardinality(May(r, s)') \in Nat
          /\ Cardinality(At("start", r, s)) \in Nat
      BY <1>2, SpentParts, SpentPartsNext DEF NotMore
    <3>2. \/ May(r, s) = Copies(r) /\ May(r, s)' = Copies(r)'
          \/ May(r, s) = At("start", r, s) /\ May(r, s)' = At("start", r, s)'
      BY <1>3 DEF May
    <3> QED
      BY <1>2, <1>4, <3>1, <3>2, SMT DEF NotMore
  <2>4. ran[r][s] \in Nat /\ ran'[r][s] = ran[r][s] + 1
    BY <1>1, <1>6 DEF TypeInv, TypeOK
  <2> QED
    BY <2>2, <2>3, <2>4, SMT DEF Spent
<1> QED
  BY <1>5, <1>6

\* A retry makes one step PENDING again: at most, every copy of the run may
\* now lead to another run of it.
LEMMA RetrySpent ==
  ASSUME TypeInv, TypeInv', NEW q \in Runs, Retry(q), NEW r \in Runs, NEW s \in Steps,
         IsFiniteSet(Copies(r))
  PROVE  /\ Spent(r, s)' <= Spent(r, s) + Cardinality(Copies(r)')
         /\ q # r => Spent(r, s)' <= Spent(r, s)
<1>1. OneMoreAtMost(r) /\ (q # r => NotMore(r))
  BY RetryCopies
<1>2. UNCHANGED <<pc, msg, ran, launch>>
  BY DEF Retry, workerVars
<1>3. At("execute", r, s)' = At("execute", r, s) /\ At("start", r, s)' = At("start", r, s)
  BY <1>2 DEF At
<1>4. q # r => Spent(r, s)' <= Spent(r, s)
  <2> SUFFICES ASSUME q # r PROVE Untouched(r, s)
    BY <1>1, SpentStays
  <2>1. step'[r][s] = step[r][s]
    BY RetryEffect DEF StepIs
  <2> QED
    BY <1>2, <1>3, <2>1 DEF Untouched, Open
<1>5. /\ Cardinality(Copies(r)') \in Nat /\ Cardinality(May(r, s)') \in Nat
      /\ Cardinality(May(r, s)') <= Cardinality(Copies(r)')
  BY <1>1, SpentPartsNext DEF OneMoreAtMost
<1>6. /\ Cardinality(At("execute", r, s)) \in Nat /\ Cardinality(May(r, s)) \in Nat /\ ran[r][s] \in Nat
  BY SpentParts
<1> QED
  BY <1>2, <1>3, <1>4, <1>5, <1>6, SMT DEF Spent

\* What a step of the program costs run r: nothing, a fault, or a retry.
Costs(r, d) ==
  /\ faults' = faults + d /\ retries'[r] = retries[r]
  /\ IsFiniteSet(Copies(r)') /\ Cardinality(Copies(r)') <= Cardinality(Copies(r)) + d
  /\ \A s \in Steps : Spent(r, s)' <= Spent(r, s) + d
CostsRetry(r) ==
  /\ faults' = faults /\ retries'[r] = retries[r] + 1
  /\ IsFiniteSet(Copies(r)') /\ Cardinality(Copies(r)') <= Cardinality(Copies(r)) + 1
  /\ \A s \in Steps : Spent(r, s)' <= Spent(r, s) + Cardinality(Copies(r)')

LEMMA Affordable ==
  ASSUME TypeInv, TypeInv', NEW r \in Runs, RerunInv(r),
         (\E d \in {0, 1} : Costs(r, d)) \/ CostsRetry(r)
  PROVE  RerunInv(r)'
<1>1. retries[r] \in Nat /\ faults \in Nat
  BY Constants, SMT DEF TypeInv, TypeOK
<1>2. IsFiniteSet(Copies(r)) /\ IsFiniteSet(Copies(r)')
  BY DEF RerunInv, FewCopies, Costs, CostsRetry
<1>3. Cardinality(Copies(r)) \in Nat /\ Cardinality(Copies(r)') \in Nat
  BY <1>2, FS_CardinalityType
<1>4. Cardinality(Copies(r)) <= 1 + retries[r] + faults
  BY DEF RerunInv, FewCopies
<1>5. \A s \in Steps : 2 * Spent(r, s) <= Budget(retries[r], faults)
  BY DEF RerunInv
<1>6. \A s \in Steps : Spent(r, s) \in Int /\ Spent(r, s)' \in Int
  BY <1>2, SpentParts, SpentPartsNext, SMT DEF Spent
<1>7. CASE \E d \in {0, 1} : Costs(r, d)
  <2>1. PICK d \in {0, 1} : Costs(r, d)
    BY <1>7
  <2>2. FewCopies(r)'
    BY <1>1, <1>2, <1>3, <1>4, <2>1, SMT DEF FewCopies, Costs
  <2>3. /\ Budget(retries[r], faults) \in Nat /\ Budget(retries[r], faults') \in Nat
        /\ Budget(retries[r], faults) + 2 * d <= Budget(retries[r], faults')
    <3>1. CASE d = 0
      <4>1. faults' = faults
        BY <1>1, <2>1, <3>1, SMT DEF Costs
      <4>2. Budget(retries[r], faults) \in Nat
        BY <1>1, BudgetGrows
      <4> QED
        BY <3>1, <4>1, <4>2, SMT
    <3>2. CASE d = 1
      <4>1. faults' = faults + 1 /\ faults + 1 \in Nat
        BY <1>1, <2>1, <3>2, SMT DEF Costs
      <4>2. /\ Budget(retries[r], faults) \in Nat /\ Budget(retries[r], faults + 1) \in Nat
            /\ Budget(retries[r], faults) + 2 <= Budget(retries[r], faults + 1)
        BY <1>1, <4>1, BudgetGrows
      <4> QED
        BY <3>2, <4>1, <4>2, SMT
    <3> QED
      BY <2>1, <3>1, <3>2
  <2>4. ASSUME NEW s \in Steps PROVE 2 * Spent(r, s)' <= Budget(retries[r], faults')
    <3>1. Spent(r, s)' <= Spent(r, s) + d /\ 2 * Spent(r, s) <= Budget(retries[r], faults)
      BY <1>5, <2>1 DEF Costs
    <3> QED
      BY <1>6, <2>3, <3>1, SMT
  <2>5. retries'[r] = retries[r]
    BY <2>1 DEF Costs
  <2> QED
    BY <2>2, <2>4, <2>5 DEF RerunInv
<1>8. CASE CostsRetry(r)
  <2>1. faults' = faults /\ retries'[r] = retries[r] + 1
    BY <1>8 DEF CostsRetry
  <2>2. Cardinality(Copies(r)') <= 2 + retries[r] + faults
    BY <1>1, <1>3, <1>4, <1>8, SMT DEF CostsRetry
  <2>3. FewCopies(r)'
    BY <1>1, <1>2, <1>3, <2>1, <2>2, SMT DEF FewCopies
  <2>4. /\ Budget(retries[r], faults) \in Nat
        /\ Budget(retries[r] + 1, faults) = Budget(retries[r], faults) + 2 * (2 + retries[r] + faults)
    BY <1>1, BudgetGrows
  <2>5. ASSUME NEW s \in Steps PROVE 2 * Spent(r, s)' <= Budget(retries[r] + 1, faults)
    <3>1. /\ Spent(r, s)' <= Spent(r, s) + Cardinality(Copies(r)')
          /\ 2 * Spent(r, s) <= Budget(retries[r], faults)
      BY <1>5, <1>8 DEF CostsRetry
    <3> QED
      BY <1>1, <1>3, <1>6, <2>2, <2>4, <3>1, SMT
  <2> QED
    BY <2>1, <2>3, <2>5 DEF RerunInv
<1> QED
  BY <1>7, <1>8

\* The cost of each step of the program.
LEMMA Cheap ==
  ASSUME TypeInv, TypeInv', NEW r \in Runs, IsFiniteSet(Copies(r)), NotMore(r),
         \A s \in Steps : Untouched(r, s), retries'[r] = retries[r], faults' \in {faults, faults + 1}
  PROVE  \E d \in {0, 1} : Costs(r, d)
<1>1. faults \in Nat /\ Cardinality(Copies(r)) \in Nat /\ Cardinality(Copies(r)') \in Nat
  BY DEF NotMore, TypeInv, TypeOK
<1>2. \A s \in Steps : /\ Spent(r, s) \in Int /\ Spent(r, s)' \in Int
                        /\ Spent(r, s)' <= Spent(r, s)
  BY SpentParts, SpentPartsNext, SpentStays, SMT DEF Spent, NotMore
<1>3. CASE faults' = faults
  <2>1. Costs(r, 0)
    BY <1>1, <1>2, <1>3, SMT DEF Costs, NotMore
  <2> QED
    BY <2>1
<1>4. CASE faults' = faults + 1
  <2>1. Costs(r, 1)
    BY <1>1, <1>2, <1>4, SMT DEF Costs, NotMore
  <2> QED
    BY <2>1
<1> QED
  BY <1>3, <1>4

LEMMA InitRerun == Init => \A r \in Runs : RerunInv(r)
<1> SUFFICES ASSUME Init, NEW r \in Runs PROVE RerunInv(r)
  OBVIOUS
<1>1. /\ Queued(r) = {} /\ InHand(r) = {} /\ JobsOf(r) = {} /\ TimerOf(r) = {}
      /\ LaunchOf(r) = {<<"launch", r, 0>>}
  <2>1. 1..0 = {}
    BY SMT
  <2> QED
    BY <2>1 DEF Init, Queued, InHand, Holds, JobsOf, TimerOf, LaunchOf
<1>2. Copies(r) = {<<"launch", r, 0>>}
  BY <1>1 DEF Copies
<1>3. IsFiniteSet(Copies(r)) /\ Cardinality(Copies(r)) = 1
  BY <1>2, FS_Singleton
<1>4. retries[r] = 0 /\ faults = 0
  BY DEF Init
<1>5. FewCopies(r)
  BY <1>3, <1>4, SMT DEF FewCopies
<1>6. ASSUME NEW s \in Steps PROVE Spent(r, s) = 1
  <2>1. At("execute", r, s) = {} /\ May(r, s) = Copies(r) /\ ran[r][s] = 0
    BY DEF Init, At, May, Open
  <2>2. Cardinality(At("execute", r, s)) = 0
    BY <2>1, FS_EmptySet
  <2> QED
    BY <1>3, <2>1, <2>2, SMT DEF Spent
<1>7. Budget(0, 0) = 2
  BY SMT DEF Budget
<1>8. ASSUME NEW s \in Steps PROVE 2 * Spent(r, s) <= Budget(retries[r], faults)
  BY <1>4, <1>6, <1>7, SMT
<1> QED
  BY <1>5, <1>8 DEF RerunInv

LEMMA RerunStep ==
  ASSUME TypeInv, [Next]_vars, NEW r \in Runs, RerunInv(r)
  PROVE  RerunInv(r)'
<1>1. TypeInv'
  BY TypeStep
<1>2. IsFiniteSet(Copies(r))
  BY DEF RerunInv, FewCopies
<1>3. CASE UNCHANGED vars
  <2>1. Copies(r)' = Copies(r)
    BY <1>3 DEF vars, runVars, queueVars, outsideVars, workerVars, Copies, Queued, InHand, Holds, JobsOf,
      TimerOf, LaunchOf
  <2>2. \A s \in Steps : At("execute", r, s)' = At("execute", r, s) /\ May(r, s)' = May(r, s)
    BY <1>3, <2>1 DEF vars, runVars, workerVars, At, May, Open
  <2> QED
    BY <1>3, <2>1, <2>2 DEF vars, runVars, RerunInv, FewCopies, Spent
<1>4. ASSUME NEW q \in Runs, CreateRun(q) \/ Launch(q) \/ LaunchFails(q) \/ Cancel(q)
      PROVE  RerunInv(r)'
  <2>1. retries' = retries /\ faults' \in {faults, faults + 1}
    BY <1>4 DEF CreateRun, Launch, CreateStepRuns, EnqueueFirst, LaunchFails, Fault, Cancel
  <2> QED
    BY <1>1, <1>2, <1>4, <2>1, LaunchCopies, LaunchUntouched, Cheap, Affordable
<1>5. ASSUME NEW q \in Runs, Retry(q)
      PROVE  RerunInv(r)'
  <2>1. faults' = faults /\ retries'[r] = IF q = r THEN retries[r] + 1 ELSE retries[r]
    BY <1>5 DEF Retry, TypeInv, TypeOK
  <2>2. OneMoreAtMost(r) /\ (q # r => NotMore(r))
    BY <1>5, RetryCopies
  <2>3. \A s \in Steps : Spent(r, s)' <= Spent(r, s) + Cardinality(Copies(r)')
    BY <1>1, <1>2, <1>5, RetrySpent
  <2>4. CASE q = r
    <3>1. retries'[r] = retries[r] + 1
      BY <2>1, <2>4
    <3>2. CostsRetry(r)
      BY <1>2, <2>1, <2>2, <2>3, <3>1 DEF CostsRetry, OneMoreAtMost
    <3> QED
      BY <1>1, <3>2, Affordable
  <2>5. CASE q # r
    <3>1. /\ faults \in Nat /\ \A s \in Steps : Spent(r, s) \in Int
          /\ Cardinality(Copies(r)) \in Nat /\ Cardinality(Copies(r)') \in Nat
      BY <1>2, <2>2, <2>5, SpentParts, SMT DEF Spent, NotMore, TypeInv, TypeOK
    <3>2. retries'[r] = retries[r] /\ faults' = faults
      BY <2>1, <2>5
    <3>3. NotMore(r) /\ \A s \in Steps : Spent(r, s)' <= Spent(r, s)
      BY <1>1, <1>2, <1>5, <2>2, <2>5, RetrySpent
    <3>4. Costs(r, 0)
      BY <1>2, <3>1, <3>2, <3>3, SMT DEF Costs, NotMore
    <3> QED
      BY <1>1, <3>4, Affordable
  <2> QED
    BY <2>4, <2>5
<1>6. ASSUME NEW w \in Workers, Step(w) \/ Crash(w) \/ ExpireEarly(w)
      PROVE  RerunInv(r)'
  <2>1. retries' = retries
    BY <1>6 DEF Step, Read, ReadContext, Start, Execute, Complete, Schedule, CloseRun, EnqueueNext,
      Settle, Leave, Return, Crash, ExpireEarly, runVars
  <2>2. CASE Start(w)
    <3>1. NotMore(r)
      BY <2>2, HandlerCopies
    <3>2. /\ faults' \in {faults, faults + 1}
          /\ \A s \in Steps : Spent(r, s)' <= Spent(r, s) + (faults' - faults)
      <4>1. CASE Steps # {}
        BY <1>1, <1>2, <2>2, <4>1, StartSpent
      <4> QED
        BY <4>1, Constants
    <3>3. /\ faults \in Nat /\ Cardinality(Copies(r)) \in Nat /\ Cardinality(Copies(r)') \in Nat
      BY <1>2, <3>1 DEF NotMore, TypeInv, TypeOK
    <3>4. PICK d \in {0, 1} : faults' = faults + d /\ faults' - faults = d
      <4>1. /\ faults' = faults => faults' = faults + 0 /\ faults' - faults = 0
            /\ faults' = faults + 1 => faults' - faults = 1
        BY <3>3, SMT
      <4> QED
        BY <3>2, <4>1
    <3>5. Costs(r, d)
      BY <1>2, <2>1, <3>1, <3>2, <3>3, <3>4, SMT DEF Costs, NotMore
    <3> QED
      BY <1>1, <3>5, Affordable
  <2>3. CASE Execute(w)
    <3>1. NotMore(r) /\ faults' = faults
      BY <2>3, ExecuteCopies DEF Execute
    <3>2. \A s \in Steps : Spent(r, s)' <= Spent(r, s)
      BY <1>1, <1>2, <2>3, ExecuteSpent
    <3>3. /\ faults \in Nat /\ \A s \in Steps : Spent(r, s) \in Int
          /\ Cardinality(Copies(r)) \in Nat /\ Cardinality(Copies(r)') \in Nat
      BY <1>2, <3>1, SpentParts, SMT DEF Spent, NotMore, TypeInv, TypeOK
    <3>4. Costs(r, 0)
      BY <1>2, <2>1, <3>1, <3>2, <3>3, SMT DEF Costs, NotMore
    <3> QED
      BY <1>1, <3>4, Affordable
  <2>4. CASE Crash(w) \/ ExpireEarly(w) \/ Unarchived(w)
    <3>1. OneMoreAtMost(r) /\ faults' = faults + 1 /\ \A s \in Steps : Untouched(r, s)
      BY <2>4, FaultCopies, WorkerUntouched, UnarchivedFaults DEF Crash, ExpireEarly, Unarchived, Fault
    <3>2. \A s \in Steps : Spent(r, s)' <= Spent(r, s) + 1
      BY <1>1, <1>2, <3>1, SpentStays
    <3>3. Costs(r, 1)
      BY <1>2, <2>1, <3>1, <3>2 DEF Costs, OneMoreAtMost
    <3> QED
      BY <1>1, <3>3, Affordable
  <2>5. CASE /\ ~Unarchived(w)
             /\ \/ Read(w) \/ ReadContext(w) \/ Complete(w) \/ Schedule(w) \/ CloseRun(w)
                \/ EnqueueNext(w) \/ Settle(w) \/ Leave(w) \/ Return(w)
    <3>1. NotMore(r) /\ \A s \in Steps : Untouched(r, s)
      BY <2>5, WorkerCopies, WorkerUntouched DEF Step
    <3>2. faults' \in {faults, faults + 1}
      BY <2>5 DEF Read, ReadContext, Complete, Schedule, CloseRun, EnqueueNext, Settle, Leave, Return,
        RpcOk, RpcFails, Fault
    <3> QED
      BY <1>1, <1>2, <2>1, <3>1, <3>2, Cheap, Affordable
  <2> QED
    BY <1>6, <2>2, <2>3, <2>4, <2>5 DEF Step
<1>7. ASSUME NEW q \in Runs, NEW t \in Steps, ResumeTimer(q, t) \/ Outside(q, t)
      PROVE  RerunInv(r)'
  <2>1. retries' = retries /\ faults' = faults
    BY <1>7 DEF ResumeTimer, Outside, JobSucceeds, JobDeclined, JobFails, Decide, runVars
  <2> QED
    BY <1>1, <1>2, <1>7, <2>1, OutsideCopies, OutsideUntouched, Cheap, Affordable
<1> QED
  BY <1>3, <1>4, <1>5, <1>6, <1>7 DEF Next

\* However many workers crash, RPCs fail and VTs run out early, and whatever
\* managers and jobs do meanwhile: the handler of a step runs once, and each
\* further run of it is paid for by a manual retry or a fault.
THEOREM RerunsArePaid == Spec => []RerunsNeedFaults
<1>1. TypeInv /\ (\A r \in Runs : RerunInv(r)) => RerunsNeedFaults
  <2> SUFFICES ASSUME TypeInv, \A r \in Runs : RerunInv(r), NEW r \in Runs, NEW s \in Steps
               PROVE  2 * ran[r][s] <= (1 + retries[r]) * (2 + retries[r] + 2 * faults)
    BY DEF RerunsNeedFaults
  <2>1. IsFiniteSet(Copies(r)) /\ 2 * Spent(r, s) <= Budget(retries[r], faults)
    BY DEF RerunInv, FewCopies
  <2>2. /\ ran[r][s] \in Nat /\ Cardinality(At("execute", r, s)) \in Nat
        /\ Cardinality(May(r, s)) \in Nat
    BY <2>1, SpentParts
  <2>3. Budget(retries[r], faults) \in Nat
    <3>1. retries[r] \in Nat /\ faults \in Nat
      BY Constants, SMT DEF TypeInv, TypeOK
    <3> QED
      BY <3>1, BudgetGrows
  <2>4. 2 * ran[r][s] <= Budget(retries[r], faults)
    BY <2>1, <2>2, <2>3, SMT DEF Spent
  <2> QED
    BY <2>4 DEF Budget
<1>2. TypeInv /\ (\A r \in Runs : RerunInv(r)) /\ [Next]_vars => (\A r \in Runs : RerunInv(r))'
  BY RerunStep
<1> QED
  BY <1>1, <1>2, InitTypes, TypeStep, InitRerun, PTL DEF Spec

-----------------------------------------------------------------------------
(* A run that waits can be resumed *)

Resumable(r) ==
  \E s \in Steps : /\ step[r][s] = "WAITING_TIMER"
                   /\ \/ Kind[s] = "wait" /\ timer[r]
                      \/ jobs[r][s] > 0 \/ <<r, s>> \in failedJobs

\* A worker that is about to record a wait finds no trace of an earlier one,
\* one that goes on to the next step leaves none, and the job it waits for
\* runs: no job ends before its worker has gone on.
WillWait(w) ==
  LET r == msg[w].run
      s == msg[w].step
  IN /\ pc[w] = "complete" => step[r][s] # "WAITING_TIMER"
     /\ pc[w] = "advance" => step[r][s] # "WAITING_TIMER"
     /\ pc[w] \in {"complete", "schedule"} /\ result[w].next = "TIMER" /\ Kind[s] = "job" =>
          jobs[r][s] > 0

WaitInv ==
  /\ \A r \in Runs : status[r] = "WAITING_TIMER" => Resumable(r)
  /\ \A w \in Workers : WillWait(w)

\* What a wait rests on does not go away while the run waits.
LEMMA StillResumable ==
  ASSUME WaitInv, NEW r \in Runs,
         status'[r] = "WAITING_TIMER" =>
           /\ status[r] = "WAITING_TIMER" /\ (timer[r] => timer'[r])
           /\ \A s \in Steps : step[r][s] = "WAITING_TIMER" =>
                /\ step'[r][s] = "WAITING_TIMER"
                /\ jobs[r][s] > 0 => jobs'[r][s] > 0 \/ <<r, s>> \in failedJobs'
                /\ <<r, s>> \in failedJobs => <<r, s>> \in failedJobs'
  PROVE  status'[r] = "WAITING_TIMER" => Resumable(r)'
BY DEF WaitInv, Resumable

\* Two workers at the steps of one run are one worker.
LEMMA OneAtWork ==
  ASSUME IInv, NEW v \in Workers, NEW w \in Workers, Busy(v), Busy(w), msg[v].run = msg[w].run
  PROVE  v = w
<1> SUFFICES ASSUME v # w PROVE FALSE
  OBVIOUS
<1>1. pc[v] # "idle" /\ msg[w].run \in Runs
  BY Holding DEF Busy, IInv
<1>2. \A u \in Workers \ {w} : On(u, msg[w].run) => ~Busy(u)
  BY <1>1, AtWork DEF IInv
<1> QED
  BY <1>1, <1>2 DEF On

\* The worker w stays where it is: nobody else records a wait at its step,
\* and its job does not end.
LEMMA StillWillWait ==
  ASSUME IInv, WaitInv, NEW w \in Workers, pc'[w] = pc[w], msg'[w] = msg[w], result'[w] = result[w],
         Busy(w) /\ step'[msg[w].run][msg[w].step] = "WAITING_TIMER" =>
           step[msg[w].run][msg[w].step] = "WAITING_TIMER",
         Busy(w) /\ jobs[msg[w].run][msg[w].step] > 0 => jobs'[msg[w].run][msg[w].step] > 0
  PROVE  WillWait(w)'
BY DEF WaitInv, WillWait, Busy

\* A worker records a wait only at its own step, and ends none.
LEMMA WorkerAndWaits ==
  ASSUME IInv, WaitInv, NEW w \in Workers, Step(w) \/ Crash(w) \/ ExpireEarly(w)
  PROVE  /\ failedJobs' = failedJobs
         /\ \A v \in Workers \ {w} : pc'[v] = pc[v] /\ msg'[v] = msg[v] /\ result'[v] = result[v]
         /\ \A q \in Runs, t \in Steps :
              /\ step[q][t] = "WAITING_TIMER" => step'[q][t] = "WAITING_TIMER"
              /\ step'[q][t] = "WAITING_TIMER" =>
                   step[q][t] = "WAITING_TIMER" \/ (Busy(w) /\ msg[w].run = q /\ msg[w].step = t)
              /\ jobs[q][t] > 0 => jobs'[q][t] > 0
<1> USE DEF IInv
<1>1. CASE Read(w)
  BY <1>1, ReadEffect DEF Read, Goes, runVars, outsideVars
<1>2. CASE ReadContext(w)
  BY <1>2, ReadContextEffect DEF ReadContext, Goes, runVars, outsideVars
<1>3. CASE Start(w)
  <2>1. /\ Goes(w, "start", "execute") /\ UNCHANGED <<msg, result, jobs, failedJobs>>
        /\ \/ /\ step[msg[w].run][msg[w].step] \in {"PENDING", "FAILED"}
              /\ StepIs(msg[w].run, msg[w].step, "RUNNING")
           \/ UNCHANGED step
    BY <1>3, StartEffect DEF Start, outsideVars
  <2> QED
    BY <2>1, SMT DEF Goes, StepIs
<1>4. CASE Execute(w)
  <2>1. /\ Goes(w, "execute", "complete") /\ UNCHANGED <<msg, step, failedJobs>>
        /\ \A v \in Workers \ {w} : result'[v] = result[v]
    BY <1>4, ExecuteEffect DEF Execute, runVars
  <2>2. ASSUME NEW q \in Runs, NEW t \in Steps, jobs[q][t] > 0 PROVE jobs'[q][t] > 0
    <3>1. \/ jobs'[q][t] = jobs[q][t]
          \/ jobs'[q][t] = jobs[q][t] + 0
          \/ jobs'[q][t] = jobs[q][t] + 1
      BY <1>4, ExecuteEffect
    <3>2. jobs[q][t] \in Nat
      BY DEF TypeInv, TypeOK
    <3> QED
      BY <2>2, <3>1, <3>2, SMT
  <2> QED
    BY <2>1, <2>2 DEF Goes
<1>5. CASE Complete(w)
  <2>1. /\ pc[w] = "complete" /\ \A v \in Workers \ {w} : pc'[v] = pc[v]
        /\ UNCHANGED <<msg, result, jobs, failedJobs>>
        /\ StepIs(msg[w].run, msg[w].step, result[w].status) \/ UNCHANGED step
    BY <1>5, CompleteEffect DEF Complete, Goes, outsideVars
  <2>2. step[msg[w].run][msg[w].step] # "WAITING_TIMER" /\ Busy(w)
    BY <2>1 DEF WaitInv, WillWait, Busy
  <2> QED
    BY <2>1, <2>2, SMT DEF StepIs
<1>6. CASE Schedule(w)
  <2>1. /\ Goes(w, "schedule", "settle") /\ UNCHANGED <<msg, result, jobs, failedJobs>>
        /\ StepIs(msg[w].run, msg[w].step, "WAITING_TIMER") \/ UNCHANGED step
    BY <1>6, ScheduleEffect DEF Schedule, outsideVars
  <2> QED
    BY <2>1, SMT DEF StepIs, Goes, Busy
<1>7. CASE CloseRun(w)
  BY <1>7, CloseRunEffect DEF CloseRun, Goes, outsideVars
<1>8. CASE EnqueueNext(w)
  BY <1>8, EnqueueNextEffect DEF EnqueueNext, Goes, runVars, outsideVars
<1>9. CASE Settle(w) \/ Leave(w) \/ Return(w) \/ Crash(w)
  BY <1>9, FreeingEffect DEF Settle, Leave, Return, Crash, Frees, Goes, runVars, outsideVars
<1>10. CASE ExpireEarly(w)
  BY <1>10 DEF ExpireEarly, runVars, outsideVars, workerVars
<1> QED
  BY <1>1, <1>2, <1>3, <1>4, <1>5, <1>6, <1>7, <1>8, <1>9, <1>10 DEF Step

LEMMA WorkerWaits ==
  ASSUME IInv, WaitInv, NEW w \in Workers, Step(w) \/ Crash(w) \/ ExpireEarly(w)
  PROVE  WaitInv'
<1> USE DEF IInv
<1>1. ASSUME NEW v \in Workers \ {w} PROVE WillWait(v)'
  <2>1. pc'[v] = pc[v] /\ msg'[v] = msg[v] /\ result'[v] = result[v]
    BY WorkerAndWaits
  <2>2. Busy(v) => msg[v].run \in Runs /\ msg[v].step \in Steps
    BY Holding DEF Busy
  <2>3. Busy(v) /\ Busy(w) => msg[v].run # msg[w].run
    BY OneAtWork
  <2> QED
    BY <2>1, <2>2, <2>3, WorkerAndWaits, StillWillWait
<1>2. WillWait(w)'
  <2>1. CASE Execute(w)
    <3>1. /\ pc[w] = "execute" /\ pc'[w] = "complete" /\ UNCHANGED <<msg, step>>
          /\ jobs'[msg[w].run][msg[w].step] = jobs[msg[w].run][msg[w].step]
               + (IF result'[w].next = "TIMER" /\ Kind[msg[w].step] = "job" THEN 1 ELSE 0)
      BY <2>1, ExecuteEffect DEF Execute, Goes, runVars
    <3>2. msg[w].run \in Runs /\ msg[w].step \in Steps /\ On(w, msg[w].run)
      BY <3>1, Holding DEF On
    <3>3. step[msg[w].run][msg[w].step] # "WAITING_TIMER"
      <4>1. RunInv(msg[w].run) /\ PlaceOf(w)
        BY <3>2 DEF RunInv, Places
      <4>2. ran[msg[w].run][msg[w].step] = 0
        BY <3>1, <4>1 DEF PlaceOf
      <4> QED
        BY <3>2, <4>1, <4>2 DEF RunInv, Once
    <3>4. jobs[msg[w].run][msg[w].step] \in Nat
      BY <3>2 DEF TypeInv, TypeOK
    <3>5. result'[w].next = "TIMER" /\ Kind[msg[w].step] = "job" => jobs'[msg[w].run][msg[w].step] > 0
      BY <3>1, <3>4, SMT
    <3> QED
      BY <3>1, <3>3, <3>5 DEF WillWait
  <2>2. CASE Complete(w)
    <3>1. /\ pc[w] = "complete" /\ pc'[w] # "complete" /\ UNCHANGED <<msg, result, jobs>>
          /\ pc'[w] = "advance" => result[w].next # "TIMER"
          /\ StepIs(msg[w].run, msg[w].step, result[w].status) \/ UNCHANGED step
      BY <2>2, CompleteEffect DEF Complete, Goes, outsideVars
    <3>2. result[w].next # "TIMER" => result[w].status # "WAITING_TIMER"
      BY <3>1, Returning
    <3> QED
      BY <3>1, <3>2 DEF WaitInv, WillWait, StepIs
  <2>3. CASE ExpireEarly(w)
    BY <2>3 DEF ExpireEarly, runVars, outsideVars, workerVars, WaitInv, WillWait
  <2>4. CASE ~(Execute(w) \/ Complete(w) \/ ExpireEarly(w))
    <3>1. pc'[w] \notin {"complete", "schedule", "advance"}
      <4>1. CASE Read(w)
        BY <4>1, ReadEffect DEF Goes
      <4>2. CASE ReadContext(w)
        BY <4>2, ReadContextEffect DEF Goes
      <4>3. CASE Start(w)
        BY <4>3, StartEffect DEF Goes
      <4>4. CASE Schedule(w)
        BY <4>4, ScheduleEffect DEF Goes
      <4>5. CASE CloseRun(w)
        BY <4>5, CloseRunEffect DEF Goes
      <4>6. CASE EnqueueNext(w)
        BY <4>6, EnqueueNextEffect DEF Goes
      <4>7. CASE Settle(w) \/ Leave(w) \/ Return(w) \/ Crash(w)
        BY <4>7, FreeingEffect DEF Frees, Goes
      <4> QED
        BY <2>4, <4>1, <4>2, <4>3, <4>4, <4>5, <4>6, <4>7 DEF Step
    <3> QED
      BY <3>1 DEF WillWait
  <2> QED
    BY <2>1, <2>2, <2>3, <2>4
<1>3. ASSUME NEW r \in Runs, status'[r] = "WAITING_TIMER" PROVE Resumable(r)'
  <2>1. CASE status[r] = "WAITING_TIMER" /\ timer' = timer
    BY <1>3, <2>1, WorkerAndWaits, StillResumable
  <2>2. CASE Schedule(w)
    <3>1. /\ pc[w] = "schedule" /\ result[w].next = "TIMER"
          /\ UNCHANGED <<msg, jobs, failedJobs>>
          /\ \/ /\ StepIs(msg[w].run, msg[w].step, "WAITING_TIMER")
                /\ (timer'[msg[w].run] <=> Kind[msg[w].step] = "wait")
                /\ \A q \in Runs \ {msg[w].run} : status'[q] = status[q] /\ timer'[q] = timer[q]
             \/ UNCHANGED <<step, status, timer>>
      BY <2>2, ScheduleEffect DEF Schedule, Goes, StatusIs, outsideVars, TypeInv, HasResult
    <3>2. msg[w].step \in Steps /\ Kind[msg[w].step] \in {"wait", "job"}
      BY <3>1, Holding, Returning
    <3>3. CASE r = msg[w].run /\ ~UNCHANGED <<step, status, timer>>
      <4>1. step'[r][msg[w].step] = "WAITING_TIMER" /\ (timer'[r] <=> Kind[msg[w].step] = "wait")
        BY <3>1, <3>3 DEF StepIs
      <4>2. Kind[msg[w].step] = "job" => jobs'[r][msg[w].step] > 0
        BY <3>1, <3>3 DEF WaitInv, WillWait
      <4> QED
        BY <3>2, <4>1, <4>2 DEF Resumable
    <3>4. CASE r # msg[w].run \/ UNCHANGED <<step, status, timer>>
      BY <1>3, <3>1, <3>4, WorkerAndWaits, StillResumable
    <3> QED
      BY <3>3, <3>4
  <2>3. CASE CloseRun(w)
    <3>1. status'[r] = status[r] \/ status'[r] # "WAITING_TIMER"
      BY <2>3, CloseRunEffect, SMT DEF StatusIs
    <3> QED
      BY <1>3, <2>1, <2>3, <3>1 DEF CloseRun
  <2>4. CASE ~(Schedule(w) \/ CloseRun(w))
    BY <1>3, <2>1, <2>4 DEF Step, Read, ReadContext, Start, Execute, Complete, EnqueueNext, Settle, Leave,
      Return, Crash, ExpireEarly, runVars
  <2> QED
    BY <2>2, <2>3, <2>4
<1> QED
  BY <1>1, <1>2, <1>3 DEF WaitInv

LEMMA LaunchWaits ==
  ASSUME Orderly, IInv, WaitInv, NEW r \in Runs,
         CreateRun(r) \/ Launch(r) \/ LaunchFails(r) \/ Cancel(r) \/ Retry(r)
  PROVE  WaitInv'
<1> USE DEF IInv
<1>1. UNCHANGED <<pc, msg, result, timer, jobs, failedJobs>>
  BY NoRetry DEF CreateRun, Launch, CreateStepRuns, EnqueueFirst, LaunchFails, Cancel, workerVars, outsideVars
<1>2. \A q \in Runs, t \in Steps : step'[q][t] = "WAITING_TIMER" => step[q][t] = "WAITING_TIMER"
  <2>1. CASE CreateStepRuns(r)
    BY <2>1, SMT DEF CreateStepRuns, TypeInv, TypeOK
  <2>2. CASE Cancel(r)
    BY <2>2, CancelEffect, SMT
  <2> QED
    BY <2>1, <2>2, NoRetry DEF CreateRun, Launch, EnqueueFirst, LaunchFails
<1>3. ASSUME NEW w \in Workers PROVE WillWait(w)'
  BY <1>1, <1>2, Holding, StillWillWait DEF Busy
<1>4. ASSUME NEW q \in Runs PROVE status'[q] = "WAITING_TIMER" => Resumable(q)'
  <2>1. status'[q] = "WAITING_TIMER" => status[q] = "WAITING_TIMER" /\ step'[q] = step[q]
    <3>1. CASE CreateRun(r)
      BY <3>1 DEF CreateRun, SetStatus, TypeInv, TypeOK
    <3>2. CASE CreateStepRuns(r)
      <4>1. status[r] # "WAITING_TIMER"
        BY <3>2 DEF CreateStepRuns, TypeInv, Launched
      <4> QED
        BY <3>2, <4>1 DEF CreateStepRuns, TypeInv, TypeOK
    <3>3. CASE Cancel(r)
      BY <3>3, CancelEffect DEF StatusIs
    <3> QED
      BY <3>1, <3>2, <3>3, NoRetry DEF Launch, EnqueueFirst, LaunchFails
  <2> QED
    BY <1>1, <2>1, StillResumable
<1> QED
  BY <1>3, <1>4 DEF WaitInv

LEMMA OutsideWaits ==
  ASSUME Orderly, IInv, WaitInv, NEW r \in Runs, NEW s \in Steps, ResumeTimer(r, s) \/ Outside(r, s)
  PROVE  WaitInv'
<1> USE DEF IInv
<1>1. UNCHANGED <<pc, msg, result>> /\ failedJobs \subseteq failedJobs'
  BY DEF ResumeTimer, Outside, JobSucceeds, JobDeclined, JobFails, Decide, workerVars, outsideVars
<1>2. \A q \in Runs, t \in Steps : step'[q][t] = "WAITING_TIMER" => step[q][t] = "WAITING_TIMER"
  <2>1. CASE ResumeTimer(r, s) \/ JobSucceeds(r, s)
    BY <2>1, ResumeEffect, SMT DEF ResumeTimer, JobSucceeds, StepIs
  <2>2. CASE JobDeclined(r, s)
    <3>1. StepIs(r, s, "FAILED")
      BY <2>2, SetStepEffect DEF JobDeclined, StepStatus, RunStatus, TypeInv
    <3> QED
      BY <3>1, SMT DEF StepIs
  <2>3. CASE JobFails(r, s) \/ Decide(r, s)
    BY <2>3 DEF JobFails, Decide, runVars
  <2> QED
    BY <2>1, <2>2, <2>3 DEF Outside
<1>3. \A q \in Runs, t \in Steps : jobs'[q][t] = jobs[q][t] \/ (q = r /\ t = s /\ JobEnds(r, s))
  BY JobEndsEffect DEF ResumeTimer, Outside, JobSucceeds, JobDeclined, JobFails, Decide, outsideVars
<1>4. ASSUME NEW w \in Workers PROVE WillWait(w)'
  <2>1. Busy(w) => /\ msg[w].run \in Runs /\ msg[w].step \in Steps
                   /\ JobEnds(r, s) => msg[w].run # r \/ msg[w].step # s
    BY Holding DEF Busy, JobEnds, Orderly
  <2> QED
    BY <1>1, <1>2, <1>3, <2>1, StillWillWait
<1>5. ASSUME NEW q \in Runs PROVE status'[q] = "WAITING_TIMER" => Resumable(q)'
  <2>1. CASE ResumeTimer(r, s) \/ JobSucceeds(r, s) \/ JobDeclined(r, s)
    <3>1. \E new \in StepStatus : StepIs(r, s, new)
      <4>1. {"COMPLETED", "FAILED"} \subseteq StepStatus
        BY DEF StepStatus, RunStatus
      <4>2. CASE ResumeTimer(r, s) \/ JobSucceeds(r, s)
        BY <4>1, <4>2, ResumeEffect DEF ResumeTimer, JobSucceeds
      <4>3. CASE JobDeclined(r, s)
        BY <4>1, <4>3, SetStepEffect DEF JobDeclined, TypeInv
      <4> QED
        BY <2>1, <4>2, <4>3
    <3>2. /\ status'[r] # "WAITING_TIMER"
          /\ q # r => status'[q] = status[q] /\ timer'[q] = timer[q]
      <4>1. CASE ResumeTimer(r, s) \/ JobSucceeds(r, s)
        BY <4>1, ResumeEffect, SMT DEF ResumeTimer, JobSucceeds, StatusIs
      <4>2. CASE JobDeclined(r, s)
        BY <4>2 DEF JobDeclined, SetStatus, TypeInv, TypeOK
      <4> QED
        BY <2>1, <4>1, <4>2
    <3>3. q # r => \A t \in Steps : step'[q][t] = step[q][t] /\ jobs'[q][t] = jobs[q][t]
      BY <1>3, <3>1 DEF StepIs
    <3> QED
      BY <1>1, <3>2, <3>3, StillResumable
  <2>2. CASE JobFails(r, s) \/ Decide(r, s)
    <3>1. UNCHANGED <<status, step, timer>> /\ (JobFails(r, s) => <<r, s>> \in failedJobs')
      BY <2>2 DEF JobFails, Decide, runVars
    <3>2. Decide(r, s) => UNCHANGED jobs
      BY DEF Decide
    <3> QED
      BY <1>1, <1>3, <2>2, <3>1, <3>2, StillResumable
  <2> QED
    BY <2>1, <2>2 DEF Outside
<1> QED
  BY <1>4, <1>5 DEF WaitInv

LEMMA WaitStep == Orderly /\ IInv /\ WaitInv /\ [Next]_vars => WaitInv'
<1> SUFFICES ASSUME Orderly, IInv, WaitInv, [Next]_vars PROVE WaitInv'
  OBVIOUS
<1>1. CASE UNCHANGED vars
  BY <1>1 DEF vars, runVars, outsideVars, workerVars, WaitInv, Resumable, WillWait
<1> QED
  BY <1>1, LaunchWaits, WorkerWaits, OutsideWaits DEF Next

\* A run that waits can be resumed, even if workers die, RPCs fail and runs
\* are cancelled: its timer is set, or a job of a step that waits runs (or
\* has failed, which nobody reports).
THEOREM WaitsResumable == ASSUME Orderly PROVE Spec => []WaitsAreResumable
<1>1. Init => WaitInv
  BY DEF Init, WaitInv, WillWait
<1>2. IInv /\ WaitInv /\ [Next]_vars => WaitInv'
  BY WaitStep
<1>3. WaitInv => WaitsAreResumable
  BY DEF WaitInv, Resumable, WaitsAreResumable
<1> QED
  BY <1>1, <1>2, <1>3, Invariant, PTL DEF Spec

-----------------------------------------------------------------------------
(* A RUNNING run is carried on, when nothing fails *)

\* The steps that may be reached from s: whatever holds the steps after s,
\* and with a step those after it, holds them.
Leads(C, s) == After[s] \cap Steps \subseteq C
Reached(s) ==
  {t \in Steps : \A C \in SUBSET Steps : Leads(C, s) /\ (\A u \in C : Leads(C, u)) => t \in C}

\* The conditions of the run automation_calm: no worker dies and no RPC
\* fails, nobody cancels or retries, and a workflow whose steps never lead
\* back.  A step with a broken config is not left to the VT (it would be
\* skipped when its message comes back: its status is FAILED by then).
Calm ==
  /\ Orderly /\ ~MayCancel /\ MaxFaults = 0
  /\ \A s \in BadConfig : RetryMax[s] <= 1
  /\ \A s \in Steps : s \notin Reached(s)

\* Step s is where run r is.
Current(r, s) ==
  \/ \E m \in Messages : m.run = r /\ m.step = s /\ Waits(m)
  \/ \E w \in Workers : Works(w, r) /\ msg[w].step = s
  \/ jobs[r][s] > 0
  \/ step[r][s] = "WAITING_TIMER"

\* It is at one step at most, and those it may reach from there were not
\* started.
AtOneStep(r) ==
  \A s \in Steps : Current(r, s) =>
    /\ \A t \in Steps : Current(r, t) => s = t
    /\ \A t \in Reached(s) : step[r][t] = "PENDING"

\* Somebody carries it on.
InMotion(r) ==
  \/ launch[r] \in {"run", "steps"}
  \/ \E m \in Messages : m.run = r /\ Waits(m)
  \/ \E w \in Workers : Works(w, r)
CarriedOn(r) == status[r] = "RUNNING" => InMotion(r)

\* Its steps are new when its first message is sent, and a message the
\* handler gave up is of a step that failed.
NewSteps(r) == launch[r] = "steps" => \A s \in Steps : step[r][s] = "PENDING"
GivenUp(r) == \A w \in Workers : On(w, r) /\ pc[w] = "return" => ~Pending(msg[w])

CalmRun(r) == AtOneStep(r) /\ CarriedOn(r) /\ NewSteps(r) /\ GivenUp(r)

LEMMA ReachedNext ==
  ASSUME NEW s \in Steps, NEW t \in After[s], t \in Steps
  PROVE  t \in Reached(s) /\ \A u \in Reached(t) : u \in Reached(s)
<1>1. ASSUME NEW C \in SUBSET Steps, Leads(C, s), \A u \in C : Leads(C, u)
      PROVE  t \in C /\ \A u \in Reached(t) : u \in C
  <2>1. t \in C
    BY <1>1 DEF Leads
  <2>2. Leads(C, t)
    BY <1>1, <2>1
  <2> QED
    BY <1>1, <2>1, <2>2 DEF Reached
<1>2. \A u \in Reached(t) : u \in Steps
  BY DEF Reached
<1> QED
  BY <1>1, <1>2 DEF Reached

LEMMA NoFaults == ASSUME Calm, TypeInv PROVE ~Fault
<1>1. MaxFaults = 0 /\ faults \in Nat
  BY DEF Calm, TypeInv, TypeOK
<1> QED
  BY <1>1, SMT DEF Fault

\* A run some worker or job is at has been launched.
LEMMA LaunchedToTheEnd ==
  ASSUME TypeInv, NEW r \in Runs,
         (\E w \in Workers : On(w, r)) \/ (\E s \in Steps : ran[r][s] # 0)
  PROVE  launch[r] = "done"
BY DEF TypeInv, Launched, On

\* The run stays where it is: only the status of the step it is at changes.
LEMMA SameStep ==
  ASSUME Calm, NEW r \in Runs, AtOneStep(r),
         \A m \in Messages : m.run = r /\ Waits(m)' => Waits(m),
         \A w \in Workers : Works(w, r)' => Works(w, r) /\ msg'[w] = msg[w],
         \A t \in Steps : Current(r, t) \/ (jobs'[r][t] = jobs[r][t] /\ step'[r][t] = step[r][t])
  PROVE  AtOneStep(r)'
<1>1. ASSUME NEW t \in Steps, Current(r, t)' PROVE Current(r, t)
  <2>1. CASE \E m \in Messages : m.run = r /\ m.step = t /\ Waits(m)'
    BY <2>1 DEF Current
  <2>2. CASE \E w \in Workers : Works(w, r)' /\ msg'[w].step = t
    BY <2>2 DEF Current
  <2>3. CASE jobs'[r][t] > 0 \/ step'[r][t] = "WAITING_TIMER"
    BY <2>3 DEF Current
  <2> QED
    BY <1>1, <2>1, <2>2, <2>3 DEF Current
<1>2. ASSUME NEW s \in Steps, Current(r, s), NEW t \in Reached(s) PROVE step'[r][t] = "PENDING"
  <2>1. t \in Steps /\ t # s
    BY DEF Calm, Reached
  <2>2. step[r][t] = "PENDING" /\ ~Current(r, t)
    BY <1>2, <2>1 DEF AtOneStep
  <2> QED
    BY <2>1, <2>2
<1> QED
  BY <1>1, <1>2 DEF AtOneStep

\* The run goes on from step s to the next.
LEMMA NextStep ==
  ASSUME NEW r \in Runs, NEW s \in Steps, AtOneStep(r), Current(r, s),
         NEW next, next \in Steps => next \in After[s],
         \A t \in Steps : Current(r, t)' => t = next,
         \A t \in Reached(s) : step'[r][t] = step[r][t]
  PROVE  AtOneStep(r)'
<1> SUFFICES ASSUME next \in Steps
             PROVE  \A t \in Reached(next) : step'[r][t] = "PENDING"
  BY DEF AtOneStep
<1> QED
  BY ReachedNext DEF AtOneStep

\* Who gave up stays so while no step becomes PENDING.
LEMMA StillGivenUp ==
  ASSUME TypeInv, NEW r \in Runs, GivenUp(r),
         \A m \in Messages : m.run = r /\ Pending(m)' => Pending(m),
         \A w \in Workers : On(w, r)' /\ pc'[w] = "return" =>
           On(w, r) /\ msg'[w] = msg[w] /\ (pc[w] = "return" \/ ~Pending(msg[w]))
  PROVE  GivenUp(r)'
<1> SUFFICES ASSUME NEW w \in Workers, On(w, r)', pc'[w] = "return" PROVE ~Pending(msg[w])'
  BY DEF GivenUp
<1>1. On(w, r) /\ msg'[w] = msg[w] /\ msg[w] \in Messages /\ msg[w].run = r /\ ~Pending(msg[w])
  BY DEF GivenUp, On, TypeInv, HasMessage
<1> QED
  BY <1>1 DEF Pending

LEMMA FrameCalm ==
  ASSUME TypeInv, NEW r \in Runs, Frame(r), NEW q \in Runs \ {r}, launch'[q] = launch[q], CalmRun(q)
  PROVE  CalmRun(q)'
<1>1. \A m \in Messages : m.run = q => (Pending(m)' <=> Pending(m)) /\ (Waits(m)' <=> Waits(m))
  BY MessageParts DEF Frame, Pending, Waits
<1>2. \A w \in Workers : On(w, q) \/ On(w, q)' =>
        On(w, q) /\ On(w, q)' /\ msg[w] \in Messages /\ pc'[w] = pc[w] /\ msg'[w] = msg[w]
  BY DEF Frame, On, TypeInv, HasMessage
<1>3. \A w \in Workers : Works(w, q)' <=> Works(w, q)
  BY <1>1, <1>2 DEF Works, Busy, On
<1>4. \A t \in Steps : Current(q, t)' <=> Current(q, t)
  BY <1>1, <1>2, <1>3 DEF Current, Frame, Works
<1>5. AtOneStep(q)'
  <2>1. \A s \in Steps : Reached(s) \subseteq Steps
    BY DEF Reached
  <2> QED
    BY <1>4, <2>1 DEF CalmRun, AtOneStep, Frame
<1>6. CarriedOn(q)'
  BY <1>1, <1>3 DEF CalmRun, CarriedOn, InMotion, Frame
<1>7. NewSteps(q)'
  BY DEF CalmRun, NewSteps, Frame
<1>8. GivenUp(q)'
  BY <1>1, <1>2 DEF CalmRun, GivenUp, On
<1> QED
  BY <1>5, <1>6, <1>7, <1>8 DEF CalmRun

\* A worker that has the step of its message in hand leaves the run there.
LEMMA StaysAtIt ==
  ASSUME Calm, IInv, NEW w \in Workers, NEW r \in Runs, r = msg[w].run, CalmRun(r),
         Works(w, r), CarriedOn(r)', pc'[w] = "return" => ~Pending(msg[w]),
         \A v \in Workers \ {w} : pc'[v] = pc[v], UNCHANGED <<launch, queue, msg>>,
         \A t \in Steps \ {msg[w].step} : step'[r][t] = step[r][t] /\ jobs'[r][t] = jobs[r][t],
         Pending(msg[w])' => Pending(msg[w])
  PROVE  CalmRun(r)'
<1> USE DEF IInv
<1>1. pc[w] # "idle" /\ msg[w] \in Messages /\ msg[w].step \in Steps
  BY Holding DEF Works, On
<1>2. \A m \in Messages : m.run = r /\ Pending(m)' => Pending(m)
  BY MessageParts DEF Pending
<1>3. \A m \in Messages : m.run = r /\ Waits(m)' => Waits(m)
  BY <1>2 DEF Waits
<1>4. \A v \in Workers : Works(v, r)' => Works(v, r) /\ msg'[v] = msg[v]
  <2> SUFFICES ASSUME NEW v \in Workers \ {w}, Works(v, r)' PROVE Works(v, r)
    OBVIOUS
  <2>1. On(v, r) /\ pc'[v] = pc[v] /\ msg[v] \in Messages /\ msg[v].run = r
    BY DEF Works, On, TypeInv, HasMessage
  <2> QED
    BY <1>2, <2>1 DEF Works, Busy, Pending
<1>5. Current(r, msg[w].step)
  BY <1>1 DEF Current
<1>6. AtOneStep(r)'
  BY <1>3, <1>4, <1>5, SameStep DEF CalmRun
<1>7. NewSteps(r)'
  BY LaunchedToTheEnd DEF NewSteps, Works
<1>8. GivenUp(r)'
  <2>1. \A v \in Workers : On(v, r)' /\ pc'[v] = "return" =>
          On(v, r) /\ msg'[v] = msg[v] /\ (pc[v] = "return" \/ ~Pending(msg[v]))
    BY <1>1 DEF On
  <2> QED
    BY <1>2, <2>1, StillGivenUp DEF CalmRun
<1> QED
  BY <1>6, <1>7, <1>8 DEF CalmRun

LEMMA ReadContextCalm ==
  ASSUME Calm, IInv, NEW w \in Workers, NEW r \in Runs, r = msg[w].run, CalmRun(r), ReadContext(w)
  PROVE  CalmRun(r)'
<1> USE DEF IInv
<1>1. /\ pc[w] = "context" /\ \A v \in Workers \ {w} : pc'[v] = pc[v]
      /\ (pc'[w] = "start" /\ Pending(msg[w])) \/ (pc'[w] = "settle" /\ ~Pending(msg[w]))
  <2>1. GoTo(w, "context", IF Pending(msg[w]) THEN "start" ELSE "settle")
    BY NoFaults DEF ReadContext, RpcFails, Pending
  <2>2. (IF Pending(msg[w]) THEN "start" ELSE "settle") \in Stages
    BY DEF Stages
  <2>3. Goes(w, "context", IF Pending(msg[w]) THEN "start" ELSE "settle")
    BY <2>1, <2>2, GoToEffect DEF TypeInv
  <2> QED
    BY <2>3 DEF Goes
<1>2. UNCHANGED <<launch, status, step, jobs, queue, msg>>
  BY DEF ReadContext, runVars, queueVars, outsideVars
<1>3. On(w, r) /\ \A m : Pending(m)' <=> Pending(m)
  BY <1>1, <1>2 DEF Pending, On
<1>4. CASE Pending(msg[w])
  <2>1. Works(w, r) /\ CarriedOn(r)' /\ pc'[w] = "start"
    BY <1>1, <1>2, <1>3, <1>4 DEF Works, On, Busy, CarriedOn, InMotion
  <2> QED
    BY <1>1, <1>2, <1>3, <2>1, StaysAtIt
<1>5. CASE ~Pending(msg[w])
  <2>1. \A v \in Workers : Works(v, r)' <=> Works(v, r)
    BY <1>1, <1>2, <1>3, <1>5 DEF Works, On, Busy
  <2>2. \A m \in Messages : Waits(m)' <=> Waits(m)
    BY <1>2, <1>3 DEF Waits
  <2>3. AtOneStep(r)'
    BY <1>2, <2>1, <2>2, SameStep DEF CalmRun
  <2>4. CarriedOn(r)' /\ NewSteps(r)'
    BY <1>2, <2>1, <2>2 DEF CalmRun, CarriedOn, InMotion, NewSteps
  <2>5. GivenUp(r)'
    BY <1>1, <1>2, <1>3, <1>5 DEF CalmRun, GivenUp, On
  <2> QED
    BY <2>3, <2>4, <2>5 DEF CalmRun
<1> QED
  BY <1>4, <1>5

\* Start, Execute and Complete: the worker has the step in hand.
LEMMA InHandCalm ==
  ASSUME Calm, IInv, NEW w \in Workers, NEW r \in Runs, r = msg[w].run, CalmRun(r),
         Start(w) \/ Execute(w) \/ Complete(w)
  PROVE  CalmRun(r)'
<1> USE DEF IInv
<1>1. /\ pc[w] \in {"start", "execute", "complete"}
      /\ pc'[w] \in {"execute", "complete", "schedule", "advance"}
      /\ \A v \in Workers \ {w} : pc'[v] = pc[v]
  <2>1. CASE Start(w) \/ Execute(w)
    BY <2>1, StartEffect, ExecuteEffect DEF Goes
  <2>2. CASE Complete(w)
    <3>1. /\ pc[w] = "complete" /\ \A v \in Workers \ {w} : pc'[v] = pc[v]
          /\ pc'[w] \in {"schedule", "advance"} \/ result[w].next = "LEAVE"
      BY <2>2, CompleteEffect DEF Goes
    <3>2. result[w].next # "LEAVE"
      <4>1. msg[w].step \in Steps /\ result[w] \in Outcomes(msg[w].step)
        BY <3>1, Holding, Returning
      <4>2. SUFFICES ASSUME result[w].next = "LEAVE" PROVE FALSE
        OBVIOUS
      <4>3. msg[w].step \in BadConfig
        BY <4>1, <4>2, OutcomesFit
      <4>4. result[w] = Returned("FAILED", IF RetryMax[msg[w].step] > 1 THEN "LEAVE" ELSE "GIVE_UP")
        BY <4>1, <4>3 DEF Outcomes
      <4>5. ~(RetryMax[msg[w].step] > 1)
        <5>1. RetryMax[msg[w].step] \in Nat /\ RetryMax[msg[w].step] <= 1
          BY <4>1, <4>3, EngineAssumption DEF Calm
        <5> QED
          BY <5>1, SMT
      <4> QED
        BY <4>2, <4>4, <4>5 DEF Returned
    <3> QED
      BY <3>1, <3>2
  <2> QED
    BY <2>1, <2>2
<1>2. UNCHANGED <<launch, queue, msg>>
  BY DEF Start, Execute, Complete, runVars, queueVars
<1>3. Works(w, r) /\ CarriedOn(r)'
  BY <1>1, <1>2 DEF Busy, Works, On, CarriedOn, InMotion
<1>4. msg[w] \in Messages /\ msg[w].step \in Steps
  BY <1>1, Holding
<1>5. \A t \in Steps \ {msg[w].step} : step'[r][t] = step[r][t] /\ jobs'[r][t] = jobs[r][t]
  <2>1. CASE Start(w)
    BY <1>4, <2>1, StartEffect DEF Start, StepIs, outsideVars
  <2>2. CASE Execute(w)
    <3>1. \A q \in Runs, t \in Steps : q # msg[w].run \/ t # msg[w].step => jobs'[q][t] = jobs[q][t]
      BY <2>2, ExecuteEffect
    <3> QED
      BY <2>2, <3>1 DEF Execute, runVars
  <2>3. CASE Complete(w)
    BY <1>4, <2>3, CompleteEffect DEF Complete, StepIs, outsideVars
  <2> QED
    BY <2>1, <2>2, <2>3
<1>6. Pending(msg[w])' => Pending(msg[w])
  <2>1. CASE Start(w)
    BY <1>2, <1>4, <2>1, StartEffect DEF StepIs, Pending
  <2>2. CASE Execute(w)
    BY <1>2, <2>2 DEF Execute, runVars, Pending
  <2>3. CASE Complete(w)
    <3>1. StepIs(r, msg[w].step, result[w].status) \/ UNCHANGED step
      BY <2>3, CompleteEffect
    <3>2. pc[w] = "complete"
      BY <2>3 DEF Complete
    <3>3. result[w].status # "PENDING"
      BY <3>2, Returning
    <3> QED
      BY <1>2, <1>4, <3>1, <3>3 DEF StepIs, Pending
  <2> QED
    BY <2>1, <2>2, <2>3
<1> QED
  BY <1>1, <1>2, <1>3, <1>5, <1>6, StaysAtIt

\* Schedule and CloseRun: the run waits, or has ended.
LEMMA StopsCalm ==
  ASSUME Calm, IInv, NEW w \in Workers, NEW r \in Runs, r = msg[w].run, CalmRun(r),
         Schedule(w) \/ CloseRun(w)
  PROVE  CalmRun(r)'
<1> USE DEF IInv
<1>1. /\ pc[w] \in {"schedule", "advance"} /\ pc'[w] \in {"settle", "return"}
      /\ pc'[w] = "return" => pc[w] = "advance"
      /\ \A v \in Workers \ {w} : pc'[v] = pc[v]
  BY ScheduleEffect, CloseRunEffect DEF Goes
<1>2. UNCHANGED <<launch, jobs, queue, msg>>
  BY DEF Schedule, CloseRun, queueVars, outsideVars
<1>3. Busy(w) /\ RunInv(r)
  BY <1>1 DEF Busy
<1>4. /\ msg[w] \in Messages /\ msg[w].step \in Steps /\ Works(w, r) /\ PlaceOf(w)
  BY <1>3, AtWork
<1>5. ~Pending(msg[w])
  BY <1>1, <1>4 DEF PlaceOf
<1>6. StepIs(r, msg[w].step, "WAITING_TIMER") \/ UNCHANGED step
  BY ScheduleEffect DEF CloseRun
<1>7. status'[r] # "RUNNING"
  <2>1. CASE Schedule(w)
    <3>1. SetStatus(r, "WAITING_TIMER")
      BY <2>1, NoFaults DEF Schedule, RpcFails
    <3> QED
      BY <3>1 DEF SetStatus, TypeInv, TypeOK
  <2>2. CASE CloseRun(w)
    <3>1. \E new \in {"COMPLETED", "WAITING_HUMAN", "FAILED"} : SetStatus(r, new)
      BY <2>2, NoFaults DEF CloseRun, RpcFails
    <3> QED
      BY <3>1 DEF SetStatus, TypeInv, TypeOK
  <2> QED
    BY <2>1, <2>2
<1>8. \A t \in Steps \ {msg[w].step} : step'[r][t] = step[r][t] /\ jobs'[r][t] = jobs[r][t]
  BY <1>2, <1>6 DEF StepIs
<1>9. ~Pending(msg[w])'
  BY <1>2, <1>4, <1>5, <1>6 DEF Pending, StepIs
<1>10. CarriedOn(r)'
  BY <1>7 DEF CarriedOn
<1> QED
  BY <1>1, <1>2, <1>4, <1>5, <1>8, <1>9, <1>10, StaysAtIt

\* The next step is queued, and found PENDING.
LEMMA EnqueueCalm ==
  ASSUME Calm, IInv, WaitInv, NEW w \in Workers, NEW r \in Runs, r = msg[w].run, CalmRun(r),
         EnqueueNext(w), NEW next, next = result[w].next
  PROVE  CalmRun(r)'
<1> USE DEF IInv
<1>1. /\ pc[w] = "advance" /\ pc'[w] = "settle" /\ next \in Steps
      /\ \A v \in Workers \ {w} : pc'[v] = pc[v]
      /\ UNCHANGED <<launch, status, step, jobs, msg>>
  BY EnqueueNextEffect DEF EnqueueNext, Goes, runVars, outsideVars
<1>2. Busy(w) /\ ~Busy(w)' /\ RunInv(r)
  BY <1>1 DEF Busy
<1>3. /\ msg[w] \in Messages /\ msg[w].step \in Steps /\ Works(w, r) /\ PlaceOf(w)
      /\ NoneBut(r, {w}, {}, {}, FALSE)
  BY <1>2, AtWork
<1>4. Sends(FirstAttempt(r, next))
  <2>1. msg[w].retry = 0
    <3>1. msg[w].retry \in 0..MaxRetries /\ MaxRetries = 0
      BY <1>3, MessageParts DEF Calm, Orderly
    <3> QED
      BY <3>1, SMT
  <2>2. Enqueue(r, next)
    BY <2>1, NoFaults DEF EnqueueNext, RpcFails
  <2> QED
    BY <1>1, <2>2, EnqueueEffect DEF TypeInv
<1>5. /\ FirstAttempt(r, next) \in Messages
      /\ FirstAttempt(r, next).run = r /\ FirstAttempt(r, next).step = next
  BY <1>1, FirstAttempts
<1>6. Current(r, msg[w].step)
  BY <1>3 DEF Current
<1>7. /\ next \in After[msg[w].step] /\ next # "TIMER"
  BY <1>1, Constants, Returning
<1>8. \A m : Pending(m)' <=> Pending(m)
  BY <1>1 DEF Pending
<1>9. \A v \in Workers : ~Works(v, r)'
  <2>1. \A v \in Workers : Works(v, r)' => v = w
    BY <1>1, <1>3, <1>8, AfterWork
  <2> QED
    BY <1>1, <1>2, <2>1 DEF Works
<1>10. \A m \in Messages : m.run = r /\ Waits(m)' => m = FirstAttempt(r, next)
  BY <1>3, <1>4, <1>8 DEF NoneBut, Waits, Sends
<1>11. ASSUME NEW t \in Steps, jobs'[r][t] > 0 \/ step'[r][t] = "WAITING_TIMER" PROVE FALSE
  <2>1. Current(r, t)
    BY <1>1, <1>11 DEF Current
  <2>2. t = msg[w].step
    BY <1>3, <1>6, <2>1 DEF CalmRun, AtOneStep
  <2>3. jobs[r][t] = 0
    BY <1>1, <1>3, <1>7, <2>2 DEF PlaceOf
  <2>4. step[r][t] # "WAITING_TIMER"
    BY <1>1, <2>2 DEF WaitInv, WillWait
  <2> QED
    BY <1>1, <1>11, <2>3, <2>4
<1>12. \A t \in Steps : Current(r, t)' => t = next
  BY <1>5, <1>9, <1>10, <1>11 DEF Current
<1>13. AtOneStep(r)'
  BY <1>1, <1>3, <1>6, <1>7, <1>12, NextStep DEF CalmRun
<1>14. CarriedOn(r)'
  <2>1. Pending(FirstAttempt(r, next))
    BY <1>1, <1>3, <1>5, <1>6, <1>7, ReachedNext DEF CalmRun, AtOneStep, Pending
  <2>2. queue[FirstAttempt(r, next)] \in Nat
    BY <1>5 DEF TypeInv, TypeOK
  <2>3. queue'[FirstAttempt(r, next)] > 0
    BY <1>4, <2>2, SMT DEF Sends
  <2> QED
    BY <1>5, <1>8, <2>1, <2>3 DEF CarriedOn, InMotion, Waits
<1>15. NewSteps(r)'
  BY <1>1, <1>3, LaunchedToTheEnd DEF NewSteps, Works
<1>16. GivenUp(r)'
  BY <1>1, <1>8 DEF CalmRun, GivenUp, On
<1> QED
  BY <1>13, <1>14, <1>15, <1>16 DEF CalmRun

\* A worker is through with a message whose step has been started.
LEMMA FreeCalm ==
  ASSUME Calm, IInv, NEW w \in Workers, NEW r \in Runs, r = msg[w].run, CalmRun(r),
         Settle(w) \/ Leave(w) \/ Return(w)
  PROVE  CalmRun(r)'
<1> USE DEF IInv
<1>1. /\ pc[w] \in {"settle", "leave", "return"} /\ pc'[w] = "idle"
      /\ \A v \in Workers \ {w} : pc'[v] = pc[v] /\ msg'[v] = msg[v]
      /\ Sends(msg[w]) \/ UNCHANGED queue
  <2>1. ~Crash(w)
    BY NoFaults DEF Crash
  <2> QED
    BY <2>1, FreeingEffect DEF Frees, Goes
<1>2. UNCHANGED <<launch, status, step, jobs>>
  BY DEF Settle, Leave, Return, runVars, outsideVars
<1>3. On(w, r) /\ msg[w] \in Messages /\ ~Pending(msg[w])
  <2>1. On(w, r) /\ msg[w] \in Messages
    BY <1>1, Holding DEF On
  <2>2. PlaceOf(w)
    BY <2>1 DEF RunInv, Places
  <2> QED
    BY <1>1, <2>1, <2>2 DEF PlaceOf, CalmRun, GivenUp
<1>4. \A m : Pending(m)' <=> Pending(m)
  BY <1>2 DEF Pending
<1>5. \A m \in Messages : Waits(m)' <=> Waits(m)
  BY <1>1, <1>3, <1>4 DEF Waits, Sends
<1>6. \A v \in Workers : Works(v, r)' <=> Works(v, r)
  BY <1>1, <1>3, <1>4 DEF Works, On, Busy
<1>7. \A v \in Workers : Works(v, r)' => Works(v, r) /\ msg'[v] = msg[v]
  BY <1>1, <1>6 DEF Works, On
<1>8. AtOneStep(r)'
  BY <1>2, <1>5, <1>7, SameStep DEF CalmRun
<1>9. CarriedOn(r)' /\ NewSteps(r)'
  BY <1>2, <1>5, <1>6 DEF CalmRun, CarriedOn, InMotion, NewSteps
<1>10. GivenUp(r)'
  BY <1>1, <1>4, StillGivenUp DEF CalmRun, On
<1> QED
  BY <1>8, <1>9, <1>10 DEF CalmRun

\* A message of a PENDING step passes from the queue to the worker.
LEMMA ReadCalm ==
  ASSUME Calm, IInv, NEW w \in Workers, Read(w), \A q \in Runs : CalmRun(q)
  PROVE  \A q \in Runs : CalmRun(q)'
<1> USE DEF IInv
<1>1. PICK m0 \in Messages :
         /\ queue[m0] > 0
         /\ \A n \in Messages \ {m0} : queue'[n] = queue[n]
         /\ queue'[m0] = queue[m0] - 1
         /\ msg'[w] = m0 /\ \A v \in Workers \ {w} : msg'[v] = msg[v]
         /\ Goes(w, "idle", pc'[w])
         /\ pc'[w] = "context" \/ (pc'[w] = "settle" /\ m0 \in processed)
  BY ReadEffect
<1>2. /\ pc[w] = "idle" /\ pc'[w] \in {"context", "settle"}
      /\ pc'[w] = "settle" => m0 \in processed
      /\ \A v \in Workers \ {w} : pc'[v] = pc[v]
      /\ UNCHANGED <<launch, status, step, jobs>>
  BY <1>1 DEF Goes, Read, runVars, outsideVars
<1> SUFFICES ASSUME NEW r \in Runs PROVE CalmRun(r)'
  OBVIOUS
<1>3. \A m : Pending(m)' <=> Pending(m)
  BY <1>2 DEF Pending
<1>4. m0 \in processed => ~Pending(m0)
  BY <1>1, MessageParts DEF RunInv, OneCopy
<1>5. \A m \in Messages : Waits(m)' => Waits(m)
  <2>1. queue[m0] \in Nat
    BY DEF TypeInv, TypeOK
  <2>2. queue'[m0] > 0 => queue[m0] > 0
    BY <1>1
  <2> QED
    BY <1>1, <1>3, <2>2 DEF Waits
<1>6. \A v \in Workers \ {w} : (Works(v, r)' <=> Works(v, r)) /\ msg'[v] = msg[v]
  BY <1>1, <1>2, <1>3 DEF Works, On, Busy
<1>7. Works(w, r)' <=> m0.run = r /\ Waits(m0)
  BY <1>1, <1>2, <1>3, <1>4 DEF Works, On, Busy, Waits
<1>8. ASSUME NEW t \in Steps, Current(r, t)' PROVE Current(r, t)
  <2>1. CASE \E m \in Messages : m.run = r /\ m.step = t /\ Waits(m)'
    BY <1>5, <2>1 DEF Current
  <2>2. CASE \E v \in Workers : Works(v, r)' /\ msg'[v].step = t
    BY <1>1, <1>6, <1>7, <2>2 DEF Current
  <2>3. CASE jobs'[r][t] > 0 \/ step'[r][t] = "WAITING_TIMER"
    BY <1>2, <2>3 DEF Current
  <2> QED
    BY <1>8, <2>1, <2>2, <2>3 DEF Current
<1>9. AtOneStep(r)'
  BY <1>2, <1>8 DEF CalmRun, AtOneStep
<1>10. InMotion(r) => InMotion(r)'
  <2>1. CASE \E m \in Messages : m.run = r /\ Waits(m)
    <3>1. PICK m \in Messages : m.run = r /\ Waits(m)
      BY <2>1
    <3>2. CASE m = m0
      BY <1>7, <3>1, <3>2 DEF InMotion
    <3>3. CASE m # m0
      BY <1>1, <1>3, <3>1, <3>3 DEF InMotion, Waits
    <3> QED
      BY <3>2, <3>3
  <2>2. CASE \E v \in Workers : Works(v, r)
    BY <1>2, <1>6, <2>2 DEF InMotion, Works, On
  <2> QED
    BY <1>2, <2>1, <2>2 DEF InMotion
<1>11. CarriedOn(r)' /\ NewSteps(r)'
  BY <1>2, <1>10 DEF CalmRun, CarriedOn, NewSteps
<1>12. GivenUp(r)'
  BY <1>1, <1>2, <1>3 DEF CalmRun, GivenUp, On
<1> QED
  BY <1>9, <1>11, <1>12 DEF CalmRun

LEMMA LaunchCalm ==
  ASSUME Calm, IInv, NEW r \in Runs, CalmRun(r), CreateRun(r) \/ Launch(r)
  PROVE  CalmRun(r)'
<1> USE DEF IInv
<1>1. /\ launch[r] # "done" /\ launch'[r] # launch[r]
      /\ UNCHANGED <<jobs, workerVars>>
  BY DEF CreateRun, Launch, CreateStepRuns, EnqueueFirst, outsideVars, TypeInv, TypeOK
<1> USE DEF workerVars
<1>2. /\ \A m \in Messages : m.run = r => queue[m] = 0
      /\ \A w \in Workers : ~On(w, r) /\ ~On(w, r)'
      /\ \A s \in Steps : jobs[r][s] = 0
      /\ launch[r] \in {"none", "run"} => \A s \in Steps : step[r][s] = "none"
  BY <1>1 DEF TypeInv, Launched, On
<1>3. GivenUp(r)' /\ \A w \in Workers : ~Works(w, r)'
  BY <1>2 DEF GivenUp, Works
<1>4. CASE CreateRun(r) \/ CreateStepRuns(r)
  <2>1. /\ launch'[r] \in {"run", "steps"} /\ UNCHANGED queue
        /\ \A s \in Steps : step'[r][s] # "WAITING_TIMER"
        /\ launch'[r] = "steps" => \A s \in Steps : step'[r][s] = "PENDING"
    BY <1>2, <1>4 DEF CreateRun, CreateStepRuns, queueVars, TypeInv, TypeOK
  <2>2. \A t \in Steps : ~Current(r, t)'
    BY <1>1, <1>2, <1>3, <2>1, SMT DEF Current, Waits
  <2>3. AtOneStep(r)' /\ CarriedOn(r)' /\ NewSteps(r)'
    BY <2>1, <2>2 DEF AtOneStep, CarriedOn, InMotion, NewSteps
  <2> QED
    BY <1>3, <2>3 DEF CalmRun
<1>5. CASE EnqueueFirst(r)
  <2>1. /\ launch'[r] = "done" /\ UNCHANGED step /\ \A s \in Steps : step[r][s] = "PENDING"
        /\ First \in Steps /\ Sends(FirstAttempt(r, First))
    BY <1>5, Constants, EnqueueEffect DEF EnqueueFirst, CalmRun, NewSteps, TypeInv, TypeOK
  <2>2. /\ FirstAttempt(r, First) \in Messages /\ FirstAttempt(r, First).run = r
        /\ FirstAttempt(r, First).step = First
    BY <2>1, FirstAttempts
  <2>3. \A m \in Messages : m.run = r /\ Waits(m)' => m = FirstAttempt(r, First)
    BY <1>2, <2>1, SMT DEF Waits, Sends
  <2>4. \A t \in Steps : step'[r][t] = "PENDING" /\ (Current(r, t)' => t = First)
    BY <1>1, <1>2, <1>3, <2>1, <2>2, <2>3, SMT DEF Current
  <2>5. AtOneStep(r)'
    BY <2>4 DEF AtOneStep, Reached
  <2>6. queue'[FirstAttempt(r, First)] > 0
    BY <1>2, <2>1, <2>2, SMT DEF Sends
  <2>7. CarriedOn(r)' /\ NewSteps(r)'
    BY <2>1, <2>2, <2>6 DEF CarriedOn, InMotion, Waits, Pending, NewSteps
  <2> QED
    BY <1>3, <2>5, <2>7 DEF CalmRun
<1> QED
  BY <1>4, <1>5 DEF Launch

\* The step that waited is done: the run goes on with the next, or ends.
LEMMA ResumeCalm ==
  ASSUME Calm, IInv, NEW r \in Runs, NEW s \in Steps, CalmRun(r), Resume(r, s), Current(r, s),
         NEW J, NEW T \in BOOLEAN, NoneBut(r, {}, {}, J, T), \A t \in Steps : ~JobOut(r, t)',
         ran[r][s] = 1, Kind[s] \in {"wait", "job"}, UNCHANGED <<launch, workerVars>>
  PROVE  CalmRun(r)'
<1> DEFINE next == OnSuccess[s]
<1> USE DEF IInv, workerVars
<1>1. /\ StepIs(r, s, "COMPLETED")
      /\ next \in Steps \union Ends
      /\ next \in Steps => Sends(FirstAttempt(r, next))
      /\ next \notin Steps => UNCHANGED queue /\ status'[r] # "RUNNING"
  BY ResumeEffect DEF StatusIs, Ends
<1>2. next \in After[s]
  BY DEF After
<1>3. \A m \in Messages : m.run = r /\ Pending(m)' => Pending(m)
  BY <1>1, MessageParts DEF Pending, StepIs
<1>4. \A v \in Workers : ~Works(v, r) /\ ~Works(v, r)'
  <2> SUFFICES ASSUME NEW v \in Workers, Works(v, r)' PROVE Works(v, r)
    BY DEF NoneBut
  <2>1. On(v, r) /\ msg[v] \in Messages /\ msg[v].run = r
    BY DEF Works, On, TypeInv, HasMessage
  <2> QED
    BY <1>3, <2>1 DEF Works, Busy, Pending
<1>5. \A m \in Messages : m.run = r /\ Waits(m)' => next \in Steps /\ m = FirstAttempt(r, next)
  BY <1>1, <1>3 DEF NoneBut, Waits, Sends
<1>6. \A t \in Steps : ~(jobs'[r][t] > 0)
  <2> SUFFICES ASSUME NEW t \in Steps, jobs'[r][t] > 0 PROVE FALSE
    OBVIOUS
  <2>1. PICK v \in Workers : Busy(v)' /\ msg'[v].run = r
    BY DEF JobOut
  <2> QED
    BY <1>4, <2>1 DEF Works, On, Busy
<1>7. \A t \in Steps : step'[r][t] # "WAITING_TIMER"
  <2> SUFFICES ASSUME NEW t \in Steps, step'[r][t] = "WAITING_TIMER" PROVE FALSE
    OBVIOUS
  <2>1. t # s /\ step[r][t] = "WAITING_TIMER"
    BY <1>1 DEF StepIs
  <2> QED
    BY <2>1 DEF Current, CalmRun, AtOneStep
<1>8. next \in Steps => /\ FirstAttempt(r, next) \in Messages
                        /\ FirstAttempt(r, next).run = r /\ FirstAttempt(r, next).step = next
  BY FirstAttempts
<1>9. \A t \in Steps : Current(r, t)' => t = next
  <2> HIDE DEF next
  <2> QED
    BY <1>4, <1>5, <1>6, <1>7, <1>8 DEF Current
<1>10. \A t \in Reached(s) : step'[r][t] = step[r][t]
  BY <1>1 DEF Calm, Reached, StepIs
<1>11. AtOneStep(r)'
  <2> HIDE DEF next
  <2> QED
    BY <1>2, <1>9, <1>10, NextStep DEF CalmRun
<1>12. CarriedOn(r)'
  <2> HIDE DEF next
  <2>1. CASE next \in Steps
    <3>1. step'[r][next] = "PENDING"
      BY <1>2, <1>10, <2>1, ReachedNext DEF CalmRun, AtOneStep
    <3>2. queue[FirstAttempt(r, next)] \in Nat
      BY <1>8, <2>1 DEF TypeInv, TypeOK
    <3>3. queue'[FirstAttempt(r, next)] > 0
      BY <1>1, <2>1, <3>2, SMT DEF Sends
    <3> QED
      BY <1>8, <2>1, <3>1, <3>3 DEF CarriedOn, InMotion, Waits, Pending
  <2>2. CASE next \notin Steps
    BY <1>1, <2>2 DEF CarriedOn
  <2> QED
    BY <2>1, <2>2
<1>13. NewSteps(r)'
  <2>1. launch[r] = "done"
    BY LaunchedToTheEnd
  <2> QED
    BY <2>1 DEF NewSteps
<1>14. GivenUp(r)'
  BY <1>3, StillGivenUp DEF CalmRun, On
<1> QED
  BY <1>11, <1>12, <1>13, <1>14 DEF CalmRun

\* A job that fails leaves a run that waits or has failed.
LEMMA JobLostCalm ==
  ASSUME Calm, IInv, IInv', NEW r \in Runs, NEW s \in Steps, CalmRun(r), JobDeclined(r, s) \/ JobFails(r, s)
  PROVE  CalmRun(r)'
<1> USE DEF IInv
<1>1. JobEnds(r, s) /\ UNCHANGED <<launch, queue, workerVars>>
  BY DEF JobDeclined, JobFails, runVars, queueVars
<1>2. ran[r][s] = 1 /\ jobs[r][s] > 0 /\ \A t \in Steps \ {s} : jobs'[r][t] = jobs[r][t]
  <2>1. JobEnds(r, s) /\ UNCHANGED workerVars
    BY <1>1
  <2>2. Orderly
    BY DEF Calm
  <2>3. ran[r][s] = 1 /\ RunInv(r)
    BY <2>1, <2>2, JobWasSole
  <2> QED
    BY <2>1, <2>3, JobEndsEffect
<1> USE DEF workerVars
<1>3. Current(r, s)
  BY <1>2 DEF Current
<1>4. (StepIs(r, s, "FAILED") /\ status'[r] = "FAILED") \/ UNCHANGED <<step, status>>
  BY SetStepEffect DEF JobDeclined, JobFails, SetStatus, StepStatus, RunStatus, TypeInv, TypeOK, runVars
<1>5. \A m \in Messages : m.run = r /\ Pending(m)' => Pending(m)
  BY <1>4, MessageParts DEF Pending, StepIs
<1>6. \A m \in Messages : m.run = r /\ Waits(m)' => Waits(m)
  BY <1>1, <1>5 DEF Waits
<1>7. \A v \in Workers : Works(v, r)' => Works(v, r) /\ msg'[v] = msg[v]
  <2> SUFFICES ASSUME NEW v \in Workers, Works(v, r)' PROVE Works(v, r)
    BY <1>1
  <2>1. On(v, r) /\ msg[v] \in Messages /\ msg[v].run = r
    BY <1>1 DEF Works, On, TypeInv, HasMessage
  <2> QED
    BY <1>1, <1>5, <2>1 DEF Works, Busy, Pending
<1>8. AtOneStep(r)'
  BY <1>2, <1>3, <1>4, <1>6, <1>7, SameStep DEF CalmRun, StepIs
<1>9. CarriedOn(r)'
  <2>1. CASE status'[r] = "FAILED"
    BY <2>1 DEF CarriedOn
  <2>2. CASE UNCHANGED <<step, status>>
    BY <1>1, <2>2 DEF CalmRun, CarriedOn, InMotion, Works, On, Busy, Waits, Pending
  <2> QED
    BY <1>4, <2>1, <2>2
<1>10. NewSteps(r)'
  <2>1. launch[r] = "done"
    BY <1>2, LaunchedToTheEnd
  <2> QED
    BY <1>1, <2>1 DEF NewSteps
<1>11. GivenUp(r)'
  BY <1>1, <1>5, StillGivenUp DEF CalmRun, On
<1> QED
  BY <1>8, <1>9, <1>10, <1>11 DEF CalmRun

LEMMA OutsideCalm ==
  ASSUME Calm, IInv, IInv', NEW r \in Runs, NEW s \in Steps, CalmRun(r), ResumeTimer(r, s) \/ Outside(r, s)
  PROVE  CalmRun(r)'
<1> USE DEF IInv
<1>1. CASE ResumeTimer(r, s)
  <2>1. /\ status[r] = "WAITING_TIMER" /\ timer[r] /\ step[r][s] = "WAITING_TIMER" /\ Resume(r, s)
        /\ UNCHANGED <<launch, jobs, workerVars>>
    BY <1>1 DEF ResumeTimer, outsideVars
  <2>2. NoneBut(r, {}, {}, {}, TRUE)
    BY <2>1, SoleTimer DEF TimerOn, RunInv
  <2>3. ran[r][s] = 1 /\ Kind[s] \in {"wait", "job"} /\ Current(r, s)
    BY <2>1 DEF RunInv, Once, Current
  <2>4. \A t \in Steps : ~JobOut(r, t)'
    BY <2>1, <2>2 DEF NoneBut, JobOut, Busy, workerVars
  <2> QED
    BY <2>1, <2>2, <2>3, <2>4, ResumeCalm
<1>2. CASE JobSucceeds(r, s)
  <2>1. JobEnds(r, s) /\ Resume(r, s) /\ UNCHANGED <<launch, workerVars>>
    BY <1>2 DEF JobSucceeds
  <2>2. UNCHANGED workerVars
    BY <2>1
  <2>3. /\ NoneBut(r, {}, {}, {s}, FALSE) /\ \A t \in Steps : ~JobOut(r, t)'
        /\ ran[r][s] = 1 /\ Kind[s] \in {"wait", "job"}
    BY <2>1, <2>2, JobWasSole DEF Calm
  <2>4. Current(r, s)
    BY <2>1 DEF JobEnds, Current
  <2> QED
    BY <2>1, <2>3, <2>4, ResumeCalm
<1>3. CASE Decide(r, s)
  <2>1. UNCHANGED <<launch, status, step, queue, jobs, workerVars>>
    BY <1>3 DEF Decide, runVars, queueVars
  <2> QED
    BY <2>1 DEF CalmRun, AtOneStep, Current, CarriedOn, InMotion, NewSteps, GivenUp, Works, On, Busy,
      Waits, Pending, workerVars
<1> QED
  BY <1>1, <1>2, <1>3, JobLostCalm DEF Outside

LEMMA WorkerCalm ==
  ASSUME Calm, IInv, IInv', WaitInv, NEW w \in Workers, \A q \in Runs : CalmRun(q),
         Step(w) \/ Crash(w) \/ ExpireEarly(w)
  PROVE  \A q \in Runs : CalmRun(q)'
<1> USE DEF IInv
<1>1. CASE Read(w)
  BY <1>1, ReadCalm
<1>2. CASE ~Read(w)
  <2>1. /\ ~Crash(w) /\ ~ExpireEarly(w)
    BY NoFaults DEF Crash, ExpireEarly
  <2>2. pc[w] # "idle" /\ UNCHANGED launch
    BY <1>2, <2>1 DEF Step, ReadContext, Start, Execute, Complete, Schedule, CloseRun, EnqueueNext, Settle,
      Leave, Return, GoTo, Free, runVars
  <2>3. PICK r \in Runs : r = msg[w].run /\ RunInv(r) /\ CalmRun(r)
    BY <2>2, Holding
  <2>4. PICK s \in Steps : s = msg[w].step
    BY <2>2, Holding
  <2>5. Orderly
    BY DEF Calm
  <2>6. CASE ReadContext(w)
    <3>1. Frame(r) /\ CalmRun(r)'
      BY <2>3, <2>6, ReadContextKeeps, ReadContextCalm
    <3> QED
      BY <2>2, <2>3, <3>1, FrameCalm
  <2>7. CASE Start(w) \/ Execute(w) \/ Complete(w)
    <3>1. Frame(r)
      BY <2>3, <2>4, <2>5, <2>7, StartKeeps, ExecuteKeeps, CompleteKeeps
    <3>2. CalmRun(r)'
      BY <2>3, <2>7, InHandCalm
    <3> QED
      BY <2>2, <2>3, <3>1, <3>2, FrameCalm
  <2>8. CASE Schedule(w) \/ CloseRun(w) \/ EnqueueNext(w)
    <3>1. Frame(r)
      BY <2>3, <2>4, <2>5, <2>8, ScheduleKeeps, AdvanceKeeps
    <3>2. CalmRun(r)'
      BY <2>3, <2>8, StopsCalm, EnqueueCalm
    <3> QED
      BY <2>2, <2>3, <3>1, <3>2, FrameCalm
  <2>9. CASE Settle(w) \/ Leave(w) \/ Return(w)
    <3>1. Frame(r)
      BY <2>3, <2>4, <2>5, <2>9, FreeingKeeps
    <3>2. CalmRun(r)'
      BY <2>3, <2>9, FreeCalm
    <3> QED
      BY <2>2, <2>3, <3>1, <3>2, FrameCalm
  <2> QED
    BY <1>2, <2>1, <2>6, <2>7, <2>8, <2>9 DEF Step
<1> QED
  BY <1>1, <1>2

LEMMA CalmStep ==
  ASSUME Calm, IInv, IInv', WaitInv, \A r \in Runs : CalmRun(r), [Next]_vars
  PROVE  \A r \in Runs : CalmRun(r)'
<1> USE DEF IInv
<1>1. CASE UNCHANGED vars
  BY <1>1 DEF vars, runVars, queueVars, outsideVars, workerVars, CalmRun, AtOneStep, Current, CarriedOn,
    InMotion, NewSteps, GivenUp, Works, On, Busy, Waits, Pending
<1>2. ASSUME NEW r \in Runs, Frame(r), CalmRun(r)', \A q \in Runs \ {r} : launch'[q] = launch[q]
      PROVE  \A q \in Runs : CalmRun(q)'
  BY <1>2, FrameCalm
<1>3. Orderly
  BY DEF Calm
<1>4. ASSUME NEW r \in Runs, CreateRun(r) \/ Launch(r) \/ LaunchFails(r) \/ Cancel(r) \/ Retry(r)
      PROVE  \A q \in Runs : CalmRun(q)'
  <2>1. CreateRun(r) \/ Launch(r)
    BY <1>3, <1>4, NoFaults, NoRetry DEF LaunchFails, Cancel, Calm
  <2>2. Frame(r) /\ CalmRun(r)'
    BY <1>3, <2>1, LaunchKeeps, LaunchCalm
  <2>3. \A q \in Runs \ {r} : launch'[q] = launch[q]
    BY <2>1 DEF CreateRun, Launch, CreateStepRuns, EnqueueFirst, TypeInv, TypeOK
  <2> QED
    BY <1>2, <2>2, <2>3
<1>5. ASSUME NEW w \in Workers, Step(w) \/ Crash(w) \/ ExpireEarly(w)
      PROVE  \A q \in Runs : CalmRun(q)'
  BY <1>5, WorkerCalm
<1>6. ASSUME NEW r \in Runs, NEW s \in Steps, ResumeTimer(r, s) \/ Outside(r, s)
      PROVE  \A q \in Runs : CalmRun(q)'
  <2>1. Frame(r) /\ CalmRun(r)'
    BY <1>3, <1>6, OutsideKeeps, OutsideCalm
  <2>2. UNCHANGED launch
    BY <1>6 DEF ResumeTimer, Outside, JobSucceeds, JobDeclined, JobFails, Decide, runVars
  <2> QED
    BY <1>2, <2>1, <2>2
<1> QED
  BY <1>1, <1>4, <1>5, <1>6 DEF Next

\* While nothing fails, nobody interferes and the workflow has no loop, a
\* RUNNING run is never left with nobody to carry it on: the step the queue,
\* a timer or a job leads to is always found PENDING.
THEOREM NeverLeftAlone == ASSUME Calm PROVE Spec => []NeverStranded
<1>1. Init => \A r \in Runs : CalmRun(r)
  BY DEF Init, CalmRun, AtOneStep, Current, CarriedOn, NewSteps, GivenUp, Works, On, Waits
<1>2. IInv /\ IInv' /\ WaitInv /\ (\A r \in Runs : CalmRun(r)) /\ [Next]_vars
        => (\A r \in Runs : CalmRun(r))'
  BY CalmStep
<1>3. (\A r \in Runs : CalmRun(r)) => NeverStranded
  <2> SUFFICES ASSUME \A r \in Runs : CalmRun(r), NEW r \in Runs, status[r] = "RUNNING"
               PROVE  Carried(r)
    BY DEF NeverStranded
  <2>1. InMotion(r)
    BY DEF CalmRun, CarriedOn
  <2>2. CASE \E m \in Messages : m.run = r /\ Waits(m)
    BY <2>2 DEF Carried, Waits, Pending
  <2>3. CASE \E w \in Workers : Works(w, r)
    BY <2>3 DEF Carried, Works, On, Busy, Pending
  <2> QED
    BY <2>1, <2>2, <2>3 DEF InMotion, Carried
<1>4. Init => WaitInv
  BY DEF Init, WaitInv, WillWait
<1>5. IInv /\ WaitInv /\ [Next]_vars => WaitInv'
  BY WaitStep DEF Calm
<1>6. Spec => []IInv
  BY Invariant DEF Calm
<1> QED
  BY <1>1, <1>2, <1>3, <1>4, <1>5, <1>6, PTL DEF Spec
-----------------------------------------------------------------------------
(* No step before one that leads to it, whatever fails *)

\* A step that has run leads to step s of run r, or s is the first.
Caused(r, s) == s = First \/ \E p \in Steps : ran[r][p] > 0 /\ s \in After[p]

Ran(w) == ran[msg[w].run][msg[w].step] > 0
Awaiting(s) == Kind[s] \in {"wait", "job"}

\* What may still make a step run has a cause, and what may still resume a
\* run is of a step that has run.
CauseInv ==
  /\ \A m \in Messages : queue[m] > 0 => Caused(m.run, m.step)
  /\ \A w \in Workers : pc[w] # "idle" => Caused(msg[w].run, msg[w].step)
  /\ \A w \in Workers : pc[w] \in {"complete", "schedule", "advance"} => Ran(w)
  /\ \A r \in Runs, s \in Steps :
       /\ jobs[r][s] > 0 \/ step[r][s] = "WAITING_TIMER" => ran[r][s] > 0 /\ Awaiting(s)
       /\ ran[r][s] > 0 \/ step[r][s] = "FAILED" => Caused(r, s)

\* The handler of a step runs only after that of a step that leads to it.
StepsHaveCauses ==
  [][\A r \in Runs, s \in Steps : ran'[r][s] > ran[r][s] => Caused(r, s)]_vars

\* What has run has run.
RanStays ==
  /\ ran' \in [Runs -> [Steps -> Nat]]
  /\ \A r \in Runs, s \in Steps : ran[r][s] > 0 => ran'[r][s] > 0

LEMMA CausedStays ==
  ASSUME RanStays, NEW r \in Runs, NEW s, Caused(r, s)
  PROVE  Caused(r, s)'
BY DEF RanStays, Caused

LEMMA RanUnchanged ==
  ASSUME TypeInv, UNCHANGED ran
  PROVE  RanStays
BY DEF TypeInv, TypeOK, RanStays

\* What has a cause keeps it, so a step of the system has to give one only to
\* what it adds.
LEMMA CausesStay ==
  ASSUME TypeInv, CauseInv, RanStays,
         \A m \in Messages : queue'[m] > 0 => queue[m] > 0 \/ Caused(m.run, m.step)',
         \A w \in Workers : pc'[w] # "idle" =>
           \/ pc[w] # "idle" /\ msg'[w] = msg[w]
           \/ Caused(msg[w].run, msg[w].step)',
         \A w \in Workers : pc'[w] \in {"complete", "schedule", "advance"} =>
           \/ pc[w] \in {"complete", "schedule", "advance"} /\ msg'[w] = msg[w]
           \/ Ran(w)',
         \A r \in Runs, s \in Steps :
           /\ jobs'[r][s] > 0 => jobs[r][s] > 0 \/ (ran'[r][s] > 0 /\ Awaiting(s))
           /\ step'[r][s] = "WAITING_TIMER" =>
                step[r][s] = "WAITING_TIMER" \/ (ran'[r][s] > 0 /\ Awaiting(s))
           /\ ran'[r][s] > 0 \/ step'[r][s] = "FAILED" =>
                ran[r][s] > 0 \/ step[r][s] = "FAILED" \/ Caused(r, s)'
  PROVE  CauseInv'
<1>1. \A m \in Messages : queue'[m] > 0 => Caused(m.run, m.step)'
  BY MessageParts, CausedStays DEF CauseInv
<1>2. \A w \in Workers : pc'[w] # "idle" => Caused(msg[w].run, msg[w].step)'
  <2> SUFFICES ASSUME NEW w \in Workers, pc'[w] # "idle", pc[w] # "idle", msg'[w] = msg[w]
               PROVE  Caused(msg[w].run, msg[w].step)'
    OBVIOUS
  <2>1. msg[w].run \in Runs /\ Caused(msg[w].run, msg[w].step)
    BY Holding DEF CauseInv
  <2> QED
    BY <2>1 DEF RanStays, Caused
<1>3. \A w \in Workers : pc'[w] \in {"complete", "schedule", "advance"} => Ran(w)'
  <2> SUFFICES ASSUME NEW w \in Workers, pc[w] \in {"complete", "schedule", "advance"},
                      msg'[w] = msg[w]
               PROVE  Ran(w)'
    OBVIOUS
  <2>1. msg[w].run \in Runs /\ msg[w].step \in Steps /\ Ran(w)
    BY Holding DEF CauseInv
  <2> QED
    BY <2>1 DEF RanStays, Ran
<1>4. ASSUME NEW r \in Runs, NEW s \in Steps
      PROVE  /\ jobs'[r][s] > 0 \/ step'[r][s] = "WAITING_TIMER" => ran'[r][s] > 0 /\ Awaiting(s)
             /\ ran'[r][s] > 0 \/ step'[r][s] = "FAILED" => Caused(r, s)'
  BY CausedStays DEF CauseInv, RanStays
<1> QED
  BY <1>1, <1>2, <1>3, <1>4 DEF CauseInv

\* A step of the worker that leaves the steps and jobs alone.
LEMMA HandCauses ==
  ASSUME TypeInv, CauseInv, NEW w \in Workers, UNCHANGED <<step, jobs, ran>>,
         \A v \in Workers \ {w} : pc'[v] = pc[v] /\ msg'[v] = msg[v],
         pc'[w] \notin {"complete", "schedule", "advance"},
         pc'[w] = "idle" \/ (pc[w] # "idle" /\ msg'[w] = msg[w]) \/ Caused(msg[w].run, msg[w].step)',
         \A m \in Messages : queue'[m] > 0 => queue[m] > 0 \/ Caused(m.run, m.step)'
  PROVE  CauseInv'
<1>1. RanStays
  BY RanUnchanged
<1> QED
  BY <1>1, CausesStay

LEMMA ReadCauses ==
  ASSUME TypeInv, CauseInv, NEW w \in Workers, Read(w)
  PROVE  CauseInv'
<1>1. PICK m \in Messages :
        /\ queue[m] > 0 /\ queue'[m] = queue[m] - 1
        /\ \A n \in Messages \ {m} : queue'[n] = queue[n]
        /\ msg'[w] = m /\ \A v \in Workers \ {w} : msg'[v] = msg[v]
        /\ Goes(w, "idle", pc'[w])
        /\ pc'[w] = "context" \/ (pc'[w] = "settle" /\ m \in processed)
  BY ReadEffect
<1>2. UNCHANGED <<step, jobs, ran>>
  BY DEF Read, runVars, outsideVars
<1>3. Caused(m.run, m.step)'
  BY <1>1, <1>2 DEF CauseInv, Caused
<1>4. \A n \in Messages : queue'[n] > 0 => queue[n] > 0
  BY <1>1
<1>5. pc'[w] \in {"settle", "context"} /\ \A v \in Workers \ {w} : pc'[v] = pc[v]
  BY <1>1 DEF Goes
<1> QED
  BY <1>1, <1>2, <1>3, <1>4, <1>5, HandCauses

LEMMA ContextCauses ==
  ASSUME TypeInv, CauseInv, NEW w \in Workers, ReadContext(w) \/ CloseRun(w) \/ EnqueueNext(w)
  PROVE  CauseInv'
<1>1. UNCHANGED <<step, jobs, ran, msg>>
  BY DEF ReadContext, CloseRun, EnqueueNext, runVars, outsideVars
<1>2. /\ pc[w] # "idle" /\ pc'[w] \in {"start", "settle", "return"}
      /\ \A v \in Workers \ {w} : pc'[v] = pc[v]
  BY ReadContextEffect, CloseRunEffect, EnqueueNextEffect DEF Goes
<1>3. \A m \in Messages : queue'[m] > 0 => queue[m] > 0 \/ Caused(m.run, m.step)'
  <2>1. CASE ReadContext(w) \/ CloseRun(w)
    BY <2>1 DEF ReadContext, CloseRun, queueVars
  <2>2. CASE EnqueueNext(w)
    <3> DEFINE r == msg[w].run
               s == msg[w].step
               next == result[w].next
    <3>1. /\ pc[w] = "advance" /\ next \in Steps
          /\ Sends(FirstAttempt(r, next)) \/ UNCHANGED queue
      BY <2>2, EnqueueNextEffect DEF Goes
    <3>2. r \in Runs /\ s \in Steps /\ next \in After[s]
      BY <3>1, Holding, Returning
    <3>3. ran[r][s] > 0
      BY <3>1 DEF CauseInv, Ran
    <3>4. UNCHANGED result /\ next' = next /\ r' = r
      BY <1>1, <2>2 DEF EnqueueNext
    <3>5. Caused(r, next)'
      BY <1>1, <3>2, <3>3, <3>4 DEF Caused
    <3>6. \A m \in Messages : queue'[m] > 0 =>
            queue[m] > 0 \/ (m.run = r /\ m.step = next)
      BY <3>1, <3>2, FirstAttempts DEF Sends
    <3>7. \A m \in Messages : Caused(r, next)' /\ m.run = r /\ m.step = next => Caused(m.run, m.step)'
      BY <3>4 DEF Caused
    <3> QED
      BY <3>5, <3>6, <3>7
  <2> QED
    BY <2>1, <2>2
<1> QED
  BY <1>1, <1>2, <1>3, HandCauses

LEMMA FreeingCauses ==
  ASSUME TypeInv, CauseInv, NEW w \in Workers, Settle(w) \/ Leave(w) \/ Return(w) \/ Crash(w)
  PROVE  CauseInv'
<1>1. UNCHANGED <<step, jobs, ran>>
  BY DEF Settle, Leave, Return, Crash, runVars, outsideVars
<1>2. /\ pc[w] # "idle" /\ pc'[w] = "idle"
      /\ \A v \in Workers \ {w} : pc'[v] = pc[v] /\ msg'[v] = msg[v]
      /\ Sends(msg[w]) \/ UNCHANGED queue
  BY FreeingEffect DEF Frees, Goes
<1>3. Caused(msg[w].run, msg[w].step)
  BY <1>2 DEF CauseInv
<1>4. \A m \in Messages : queue'[m] > 0 => queue[m] > 0 \/ m = msg[w]
  BY <1>2 DEF Sends
<1>5. \A m \in Messages : queue'[m] > 0 => queue[m] > 0 \/ Caused(m.run, m.step)'
  BY <1>1, <1>3, <1>4 DEF Caused
<1> QED
  BY <1>1, <1>2, <1>5, HandCauses

LEMMA ExpiryCauses ==
  ASSUME TypeInv, CauseInv, NEW w \in Workers, ExpireEarly(w)
  PROVE  CauseInv'
<1>1. UNCHANGED <<step, jobs, ran, pc, msg>>
  BY DEF ExpireEarly, runVars, outsideVars, workerVars
<1>2. pc[w] # "idle" /\ Sends(msg[w])
  BY GiveBackEffect DEF ExpireEarly
<1>3. \A m \in Messages : queue'[m] > 0 => queue[m] > 0 \/ Caused(m.run, m.step)'
  BY <1>1, <1>2 DEF Sends, CauseInv, Caused
<1>4. RanStays
  BY <1>1, RanUnchanged
<1> QED
  BY <1>1, <1>3, <1>4, CausesStay

LEMMA StartCauses ==
  ASSUME TypeInv, CauseInv, NEW w \in Workers, Start(w)
  PROVE  CauseInv'
<1>1. UNCHANGED <<queue, jobs, ran, msg>>
  BY DEF Start, queueVars, outsideVars
<1>2. Goes(w, "start", "execute") /\ (StepIs(msg[w].run, msg[w].step, "RUNNING") \/ UNCHANGED step)
  BY StartEffect
<1>3. \A r \in Runs, s \in Steps : step'[r][s] \in {"FAILED", "WAITING_TIMER"} => step'[r][s] = step[r][s]
  BY <1>2 DEF StepIs
<1>4. RanStays
  BY <1>1, RanUnchanged
<1> QED
  BY <1>1, <1>2, <1>3, <1>4, CausesStay DEF Goes

LEMMA ExecuteCauses ==
  ASSUME TypeInv, CauseInv, NEW w \in Workers, Execute(w)
  PROVE  CauseInv' /\ \A r \in Runs, s \in Steps : ran'[r][s] > ran[r][s] => Caused(r, s)
<1> DEFINE r == msg[w].run
           s == msg[w].step
<1>1. UNCHANGED <<queue, step, msg>> /\ Goes(w, "execute", "complete")
  BY ExecuteEffect DEF Execute, queueVars, runVars
<1>2. r \in Runs /\ s \in Steps /\ Caused(r, s)
  BY <1>1, Holding DEF Goes, CauseInv
<1>3. /\ ran' \in [Runs -> [Steps -> Nat]] /\ ran'[r][s] = ran[r][s] + 1
      /\ \A q \in Runs, t \in Steps : q # r \/ t # s => ran'[q][t] = ran[q][t]
  BY ExecuteEffect
<1>4. \A q \in Runs, t \in Steps : ran[q][t] \in Nat
  BY DEF TypeInv, TypeOK
<1>5. ran'[r][s] > 0 /\ \A q \in Runs, t \in Steps : ran'[q][t] > ran[q][t] => q = r /\ t = s
  BY <1>2, <1>3, <1>4, SMT
<1>6. RanStays
  BY <1>3, <1>4, <1>5 DEF RanStays
<1>7. \A q \in Runs, t \in Steps :
        jobs'[q][t] > 0 => jobs[q][t] > 0 \/ (ran'[q][t] > 0 /\ Awaiting(t))
  <2> SUFFICES ASSUME NEW q \in Runs, NEW t \in Steps, jobs'[q][t] > 0, ~(jobs[q][t] > 0)
               PROVE  ran'[q][t] > 0 /\ Awaiting(t)
    OBVIOUS
  <2>1. /\ jobs'[r][s] = jobs[r][s] + (IF result'[w].next = "TIMER" /\ Kind[s] = "job" THEN 1 ELSE 0)
        /\ \A p \in Runs, u \in Steps : p # r \/ u # s => jobs'[p][u] = jobs[p][u]
    BY ExecuteEffect
  <2>2. q = r /\ t = s
    BY <2>1
  <2>3. jobs[r][s] \in Nat
    BY <1>2 DEF TypeInv, TypeOK
  <2>4. Kind[s] = "job"
    BY <2>1, <2>2, <2>3, SMT
  <2> QED
    BY <2>2, <2>4, <1>5 DEF Awaiting
<1>8. \A v \in Workers : pc'[v] # "idle" => pc[v] # "idle"
  BY <1>1 DEF Goes
<1>9. \A v \in Workers : pc'[v] \in {"complete", "schedule", "advance"} =>
        pc[v] \in {"complete", "schedule", "advance"} \/ Ran(v)'
  BY <1>1, <1>5 DEF Goes, Ran
<1>10. \A q \in Runs, t \in Steps : ran'[q][t] > 0 => ran[q][t] > 0 \/ Caused(q, t)'
  <2> SUFFICES ASSUME NEW q \in Runs, NEW t \in Steps, ran'[q][t] > 0, ~(ran[q][t] > 0)
               PROVE  Caused(q, t)'
    OBVIOUS
  <2>1. q = r /\ t = s
    BY <1>3
  <2> QED
    BY <2>1, <1>2, <1>6, CausedStays
<1>11. CauseInv'
  BY <1>1, <1>6, <1>7, <1>8, <1>9, <1>10, CausesStay
<1> QED
  BY <1>2, <1>5, <1>11

\* The worker's writes on the step it has run.
LEMMA WrittenCauses ==
  ASSUME TypeInv, CauseInv, NEW w \in Workers, Complete(w) \/ Schedule(w)
  PROVE  CauseInv'
<1> DEFINE r == msg[w].run
           s == msg[w].step
<1>1. UNCHANGED <<queue, jobs, ran, msg>>
  BY DEF Complete, Schedule, queueVars, outsideVars
<1>2. /\ pc[w] \in {"complete", "schedule"}
      /\ \A v \in Workers \ {w} : pc'[v] = pc[v]
  BY CompleteEffect, ScheduleEffect DEF Goes
<1>3. r \in Runs /\ s \in Steps /\ ran[r][s] > 0 /\ Caused(r, s)
  BY <1>2, Holding DEF CauseInv, Ran
<1>4. PICK new : \/ StepIs(r, s, new) /\ (new = "WAITING_TIMER" => Awaiting(s))
                 \/ UNCHANGED step
  <2>1. CASE Complete(w)
    <3>1. StepIs(r, s, result[w].status) \/ UNCHANGED step
      BY <2>1, CompleteEffect
    <3>2. result[w].status = "WAITING_TIMER" => Awaiting(s)
      BY <1>2, Returning DEF Awaiting
    <3> QED
      BY <3>1, <3>2
  <2>2. CASE Schedule(w)
    <3>1. StepIs(r, s, "WAITING_TIMER") \/ UNCHANGED step
      BY <2>2, ScheduleEffect
    <3>2. pc[w] = "schedule"
      BY <2>2, ScheduleEffect DEF Goes
    <3>3. result[w].next = "TIMER"
      BY <3>2 DEF TypeInv, HasResult
    <3>4. Awaiting(s)
      BY <3>2, <3>3, Returning DEF Awaiting
    <3> QED
      BY <3>1, <3>4
  <2> QED
    BY <2>1, <2>2
<1>5. \A q \in Runs, t \in Steps :
        /\ step'[q][t] = "WAITING_TIMER" =>
             step[q][t] = "WAITING_TIMER" \/ (ran'[q][t] > 0 /\ Awaiting(t))
        /\ step'[q][t] = "FAILED" => step[q][t] = "FAILED" \/ Caused(q, t)'
  <2> TAKE q \in Runs, t \in Steps
  <2>1. CASE q = r /\ t = s
    BY <2>1, <1>1, <1>3, <1>4 DEF StepIs, Caused
  <2>2. CASE q # r \/ t # s
    BY <2>2, <1>4 DEF StepIs
  <2> QED
    BY <2>1, <2>2
<1>6. RanStays
  BY <1>1, RanUnchanged
<1>7. \A v \in Workers : /\ pc'[v] # "idle" => pc[v] # "idle"
                         /\ pc'[v] \in {"complete", "schedule", "advance"} =>
                              pc[v] \in {"complete", "schedule", "advance"}
  BY <1>2
<1> QED
  BY <1>1, <1>5, <1>6, <1>7, CausesStay

\* What ends outside the worker is of a step that has run.
LEMMA OutsideCauses ==
  ASSUME TypeInv, CauseInv, NEW r \in Runs, NEW s \in Steps, ResumeTimer(r, s) \/ Outside(r, s)
  PROVE  CauseInv'
<1>1. UNCHANGED <<pc, msg, ran>>
  BY DEF ResumeTimer, Outside, JobSucceeds, JobDeclined, JobFails, Decide, workerVars
<1>2. RanStays
  BY <1>1, RanUnchanged
<1>3. \A q \in Runs, t \in Steps : jobs'[q][t] > 0 => jobs[q][t] > 0
  <2>1. CASE UNCHANGED jobs
    BY <2>1
  <2>2. CASE JobEnds(r, s)
    BY <2>2, JobEndsEffect
  <2> QED
    BY <2>1, <2>2 DEF ResumeTimer, Outside, JobSucceeds, JobDeclined, JobFails, Decide, outsideVars
<1>4. CASE UNCHANGED <<step, queue>>
  BY <1>1, <1>2, <1>3, <1>4, CausesStay
<1>5. CASE ~UNCHANGED <<step, queue>>
  <2>1. /\ ran[r][s] > 0 /\ Awaiting(s)
        /\ Resume(r, s) \/ (SetStep(r, s, "FAILED") /\ UNCHANGED queue)
    BY <1>5 DEF ResumeTimer, Outside, JobSucceeds, JobDeclined, JobFails, Decide, JobEnds, runVars,
      queueVars, CauseInv
  <2>2. CASE Resume(r, s)
    <3> DEFINE next == OnSuccess[s]
    <3>1. /\ StepIs(r, s, "COMPLETED")
          /\ next \in Steps => Sends(FirstAttempt(r, next))
          /\ next \notin Steps => UNCHANGED queue
      BY <2>2, ResumeEffect
    <3>2. next \in After[s]
      BY <2>1 DEF Awaiting, After
    <3>3. Caused(r, next)'
      BY <1>1, <2>1, <3>2 DEF Caused
    <3>4. \A m \in Messages : queue'[m] > 0 => queue[m] > 0 \/ (m.run = r /\ m.step = next)
      BY <3>1, FirstAttempts DEF Sends
    <3>5. \A q \in Runs, t \in Steps :
            step'[q][t] \in {"WAITING_TIMER", "FAILED"} => step'[q][t] = step[q][t]
      BY <3>1 DEF StepIs
    <3>6. \A m \in Messages : queue'[m] > 0 => queue[m] > 0 \/ Caused(m.run, m.step)'
      BY <3>3, <3>4
    <3> QED
      BY <1>1, <1>2, <1>3, <3>5, <3>6, CausesStay
  <2>3. CASE SetStep(r, s, "FAILED") /\ UNCHANGED queue
    <3>1. StepIs(r, s, "FAILED")
      BY <2>3, SetStepEffect DEF TypeInv, StepStatus, RunStatus
    <3>2. Caused(r, s)'
      BY <1>1, <2>1 DEF Caused, CauseInv
    <3> QED
      BY <1>1, <1>2, <1>3, <2>3, <3>1, <3>2, CausesStay DEF StepIs
  <2> QED
    BY <2>1, <2>2, <2>3
<1> QED
  BY <1>4, <1>5

\* The launch queues the first step; a manager cancels, or has a failed step
\* run again.
LEMMA RunCauses ==
  ASSUME TypeInv, CauseInv, NEW r \in Runs,
         CreateRun(r) \/ Launch(r) \/ LaunchFails(r) \/ Cancel(r) \/ Retry(r)
  PROVE  CauseInv'
<1>1. UNCHANGED <<jobs, pc, msg, ran>>
  BY DEF CreateRun, Launch, CreateStepRuns, EnqueueFirst, LaunchFails, Cancel, Retry, outsideVars,
    workerVars
<1>2. RanStays
  BY <1>1, RanUnchanged
<1>3. \A q \in Runs, t \in Steps :
        step'[q][t] \in {"WAITING_TIMER", "FAILED"} => step'[q][t] = step[q][t]
  <2>1. CASE CreateStepRuns(r)
    <3>1. step' = [step EXCEPT ![r] = [s \in Steps |-> "PENDING"]]
      BY <2>1 DEF CreateStepRuns
    <3> QED
      BY <3>1 DEF TypeInv, TypeOK
  <2>2. CASE Cancel(r)
    BY <2>2, CancelEffect
  <2>3. CASE Retry(r)
    BY <2>3, RetryEffect DEF StepIs
  <2>4. CASE UNCHANGED step
    BY <2>4
  <2> QED
    BY <2>1, <2>2, <2>3, <2>4 DEF CreateRun, Launch, EnqueueFirst, LaunchFails
<1>4. \A m \in Messages : queue'[m] > 0 => queue[m] > 0 \/ Caused(m.run, m.step)'
  <2>1. CASE UNCHANGED queue
    BY <2>1
  <2>2. CASE EnqueueFirst(r)
    <3>1. Sends(FirstAttempt(r, First))
      BY <2>2, Constants, EnqueueEffect DEF EnqueueFirst, TypeInv
    <3>2. FirstAttempt(r, First).step = First
      BY Constants, FirstAttempts
    <3> QED
      BY <3>1, <3>2 DEF Sends, Caused
  <2>3. CASE Retry(r) /\ ~UNCHANGED queue
    <3>1. PICK s \in Steps :
            /\ step[r][s] = "FAILED"
            /\ queue' = [queue EXCEPT ![[run |-> r, step |-> s, retry |-> retries[r] + 1]] = @ + 1]
      BY <2>3 DEF Retry
    <3>2. Caused(r, s)
      BY <3>1 DEF CauseInv
    <3>3. Caused(r, s)'
      BY <1>1, <3>2 DEF Caused
    <3> DEFINE new == [run |-> r, step |-> s, retry |-> retries[r] + 1]
    <3>4. new.run = r /\ new.step = s
      OBVIOUS
    <3>5. \A m \in Messages : m # new => queue'[m] = queue[m]
      BY <3>1 DEF TypeInv, TypeOK
    <3>6. \A m \in Messages : queue'[m] > 0 => queue[m] > 0 \/ m = new
      BY <3>5
    <3>7. \A m \in Messages : m = new => m.run = r /\ m.step = s
      BY <3>4
    <3> HIDE DEF new
    <3> QED
      BY <3>3, <3>6, <3>7
  <2> QED
    BY <2>1, <2>2, <2>3 DEF CreateRun, Launch, CreateStepRuns, LaunchFails, Cancel, queueVars
<1> QED
  BY <1>1, <1>2, <1>3, <1>4, CausesStay

LEMMA StutterCauses ==
  ASSUME CauseInv, UNCHANGED vars
  PROVE  CauseInv'
BY DEF CauseInv, Caused, Ran, vars, runVars, queueVars, outsideVars, workerVars

LEMMA CauseNext ==
  ASSUME TypeInv, CauseInv, [Next]_vars
  PROVE  /\ CauseInv'
         /\ \A r \in Runs, s \in Steps : ran'[r][s] > ran[r][s] => Caused(r, s)
<1>1. CASE \E w \in Workers : Execute(w)
  BY <1>1, ExecuteCauses
<1>2. CASE ~\E w \in Workers : Execute(w)
  <2>1. UNCHANGED ran
    BY <1>2 DEF Next, vars, CreateRun, Launch, CreateStepRuns, EnqueueFirst, LaunchFails, Cancel, Retry,
      Step, Read, ReadContext, Start, Complete, Schedule, CloseRun, EnqueueNext, Settle, Leave, Return,
      Crash, ExpireEarly, ResumeTimer, Outside, JobSucceeds, JobDeclined, JobFails, Decide
  <2>2. \A r \in Runs, s \in Steps : ~ (ran'[r][s] > ran[r][s])
    <3>1. \A r \in Runs, s \in Steps : ran[r][s] \in Nat
      BY DEF TypeInv, TypeOK
    <3> QED
      BY <2>1, <3>1, SMT
  <2>3. ASSUME NEW r \in Runs, CreateRun(r) \/ Launch(r) \/ LaunchFails(r) \/ Cancel(r) \/ Retry(r)
        PROVE  CauseInv'
    BY <2>3, RunCauses
  <2>4. ASSUME NEW w \in Workers, Step(w) \/ Crash(w) \/ ExpireEarly(w) PROVE CauseInv'
    BY <1>2, <2>4, ReadCauses, ContextCauses, StartCauses, WrittenCauses, FreeingCauses, ExpiryCauses
       DEF Step
  <2>5. ASSUME NEW r \in Runs, NEW s \in Steps, ResumeTimer(r, s) \/ Outside(r, s) PROVE CauseInv'
    BY <2>5, OutsideCauses
  <2> QED
    BY <2>2, <2>3, <2>4, <2>5, StutterCauses DEF Next
<1> QED
  BY <1>1, <1>2

\* Whatever crashes, fails, is cancelled, retried or delivered twice: the handler of
\* a step runs only when it is the first of the workflow or the handler of a step
\* that leads to it has run before (executeStep, automation_resume_step_service,
\* retry_automation_run).
THEOREM CausesFirst == Spec => StepsHaveCauses
<1>1. Init => CauseInv
  BY DEF Init, CauseInv
<1>2. TypeInv /\ CauseInv /\ [Next]_vars => CauseInv'
  BY CauseNext
<1>3. TypeInv /\ CauseInv /\ [Next]_vars =>
        [\A r \in Runs, s \in Steps : ran'[r][s] > ran[r][s] => Caused(r, s)]_vars
  BY CauseNext
<1>4. Init => TypeInv
  BY InitTypes
<1>5. TypeInv /\ [Next]_vars => TypeInv'
  BY TypeStep
<1> QED
  BY <1>1, <1>2, <1>3, <1>4, <1>5, PTL DEF Spec, StepsHaveCauses
=============================================================================
