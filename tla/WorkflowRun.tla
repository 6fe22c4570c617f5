----------------------------- MODULE WorkflowRun -----------------------------
(***************************************************************************)
(* What the workflow engine promises of a run: its steps are performed     *)
(* along the edges of the workflow, from the first, each at most once, and *)
(* nothing is performed once the run has ended.                            *)
(***************************************************************************)
EXTENDS Naturals

CONSTANTS Runs, Steps, First,
          After    \* the steps and ends that may follow a step

VARIABLES performed,  \* how often the handler of each step ran
          ended       \* "no", "COMPLETED" or "FAILED"

vars == <<performed, ended>>

Init == /\ performed = [r \in Runs |-> [s \in Steps |-> 0]]
        /\ ended = [r \in Runs |-> "no"]

Done(r) == {s \in Steps : performed[r][s] > 0}

\* The first step, or one that follows a step performed before.
Perform(r, s) ==
  /\ ended[r] = "no" /\ performed[r][s] = 0
  /\ IF Done(r) = {} THEN s = First ELSE \E p \in Done(r) : s \in After[p]
  /\ performed' = [performed EXCEPT ![r][s] = 1]
  /\ UNCHANGED ended

\* A run ends where one of its steps says it may.
End(r, how) ==
  /\ ended[r] = "no"
  /\ \E p \in Done(r) :
       (IF how = "COMPLETED" THEN "END_OK" ELSE "END_FAIL") \in After[p]
  /\ ended' = [ended EXCEPT ![r] = how]
  /\ UNCHANGED performed

Next == \E r \in Runs :
  \/ \E s \in Steps : Perform(r, s)
  \/ \E how \in {"COMPLETED", "FAILED"} : End(r, how)

Spec == Init /\ [][Next]_vars
=============================================================================
