----------------------------- MODULE TaskLedger -----------------------------
(***************************************************************************)
(* What the queue runtime promises its producers, with no queue, worker or *)
(* timeout in sight: at-least-once execution with a dead-letter office.  A *)
(* task is settled only once its work was done (under its idempotency key) *)
(* or it lies in the dead-letter table, and every accepted task is settled *)
(* in the end.                                                             *)
(***************************************************************************)
CONSTANTS Tasks, Keys, KeyOf,
          LateWork  \* TRUE: a task may still be worked on after it is settled

VARIABLES accepted,  \* tasks a producer handed over
          done,      \* keys whose work was done at least once
          dead,      \* tasks in the dead-letter table
          settled    \* tasks the runtime let go of

vars == <<accepted, done, dead, settled>>

Init == accepted = {} /\ done = {} /\ dead = {} /\ settled = {}

Accept(t) ==
  /\ t \notin accepted
  /\ accepted' = accepted \union {t}
  /\ UNCHANGED <<done, dead, settled>>

Workable(t) == t \in accepted /\ (LateWork \/ t \notin settled)

Perform(t) ==
  /\ Workable(t)
  /\ done' = done \union {KeyOf[t]}
  /\ UNCHANGED <<accepted, dead, settled>>

Bury(t) ==
  /\ Workable(t)
  /\ dead' = dead \union {t}
  /\ UNCHANGED <<accepted, done, settled>>

Settle(t) ==
  /\ t \in accepted \ settled
  /\ KeyOf[t] \in done \/ t \in dead
  /\ settled' = settled \union {t}
  /\ UNCHANGED <<accepted, done, dead>>

Next == \E t \in Tasks : Accept(t) \/ Perform(t) \/ Bury(t) \/ Settle(t)

Spec ==
  /\ Init /\ [][Next]_vars
  /\ \A t \in Tasks : WF_vars(Perform(t) \/ Bury(t)) /\ WF_vars(Settle(t))
=============================================================================
