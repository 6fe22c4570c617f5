------------------------- MODULE MCAutomationEngine -------------------------
(* TLC instances of AutomationEngine: three workflows. *)
EXTENDS AutomationEngine, TLC

CONSTANTS s1, s2, s3, s4, r1, r2, w1, w2

Retry1 == [s \in Steps |-> 1]
Retry3 == [s \in Steps |-> 3]
ToFail == [s \in Steps |-> "END_FAIL"]
NoForks == [s \in Steps |-> {}]

\* Every way to wait: a condition that leads to a job or a wait, and after
\* either an approval.
WaitKinds == s1 :> "condition" @@ s2 :> "job" @@ s3 :> "wait" @@ s4 :> "approval"
WaitSuccess == s1 :> "END_OK" @@ s2 :> s4 @@ s3 :> s4 @@ s4 :> "END_OK"
WaitForks == s1 :> {s2, s3, "END_OK"} @@ s2 :> {} @@ s3 :> {} @@ s4 :> {}

\* A condition, a job, an action that also recovers from the job's failure,
\* and an action whose config may be broken.
JobKinds == s1 :> "condition" @@ s2 :> "job" @@ s3 :> "action" @@ s4 :> "action"
JobSuccess == s1 :> "END_OK" @@ s2 :> s3 @@ s3 :> "END_OK" @@ s4 :> s3
JobFailure == s1 :> "END_FAIL" @@ s2 :> s3 @@ s3 :> "END_FAIL" @@ s4 :> "END_FAIL"
JobForks == s1 :> {s2, s4, "END_OK"} @@ s2 :> {} @@ s3 :> {} @@ s4 :> {}

\* Two actions in a row.
RowKinds == s1 :> "action" @@ s2 :> "action"
RowSuccess == s1 :> s2 @@ s2 :> "END_OK"

\* A job, then an action that may fail.
PairKinds == s1 :> "job" @@ s2 :> "action"

\* An approval, then an action.
ApprovalKinds == s1 :> "approval" @@ s2 :> "action"
=============================================================================
