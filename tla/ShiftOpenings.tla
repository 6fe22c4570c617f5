---------------------------- MODULE ShiftOpenings ----------------------------
(***************************************************************************)
(* Shift openings and the claims on them: a manager offers a number of     *)
(* places in a time window, employees claim, a claim is accepted (by a     *)
(* manager, or at once under the policy "first_eligible") and becomes a    *)
(* published slot of the employee.                                         *)
(*                                                                         *)
(* Every RPC is a PostgreSQL transaction at READ COMMITTED.  One that      *)
(* takes a single lock and commits is a step; accept, cancel, edit and the *)
(* claim that accepts itself take several, in a session of their own, and  *)
(* what they write is seen by nobody until they commit.  A refused call    *)
(* rolls back everything, so refresh_shift_opening_status never leaves a   *)
(* trace: whenever it would change a status, its caller then raises.       *)
(***************************************************************************)
EXTENDS Integers, FiniteSets

CONSTANTS
  Openings, Employees,
  Windows,       \* (date, start, end) of openings and slots
  Overlaps,      \* pairs of windows shift_slots_overlap holds of
  Places,        \* the values of places_total managers enter
  Policies,      \* claim policies in use; "ranked_window" acts as "manager_approval"
  Sessions,      \* concurrent transactions that take several locks
  MayEdit,       \* openings managers edit
  Closing,       \* openings given a closes_at
  None

ASSUME OpeningAssumption ==
  /\ Overlaps \subseteq Windows \X Windows
  /\ \A a, b \in Windows : <<a, a>> \in Overlaps /\ (<<a, b>> \in Overlaps => <<b, a>> \in Overlaps)
  /\ Places \subseteq Nat \ {0}
  /\ Policies \subseteq {"manager_approval", "first_eligible"}
  /\ MayEdit \subseteq Openings /\ Closing \subseteq Openings
  /\ IsFiniteSet(Employees)
  /\ None \notin Windows /\ None \notin Employees

Calls == [op : {"accept", "claim", "cancel", "edit"}, opening : Openings,
          employee : Employees \union {None}, stage : {"opening", "write", "commit"}]

ASSUME NoneIsNoCall == None \notin Calls

VARIABLES
  status,   \* shift_openings.status, "none" before the row exists
  window,   \* its date and times
  total,    \* places_total
  filled,   \* places_filled
  policy,   \* claim_policy
  late,     \* openings whose closes_at is past
  claim,    \* status of the latest claim of each employee on each opening
  slot,     \* window of the live slot a claim became, None if none
  call,     \* the transaction each session is in
  raced     \* history: accepts for one employee that were open at once

openingVars == <<status, window, total, filled, policy, late>>
vars == <<openingVars, claim, slot, call, raced>>

Statuses == {"none", "draft", "open", "filled", "expired", "cancelled"}
ClaimStatuses == {"none", "pending", "withdrawn", "rejected", "accepted", "expired"}

TypeOK ==
  /\ status \in [Openings -> Statuses]
  /\ window \in [Openings -> Windows \union {None}]
  /\ total \in [Openings -> Nat] /\ filled \in [Openings -> Nat]
  /\ policy \in [Openings -> {"manager_approval", "first_eligible"}]
  /\ late \subseteq Closing
  /\ claim \in [Openings -> [Employees -> ClaimStatuses]]
  /\ slot \in [Openings -> [Employees -> Windows \union {None}]]
  /\ call \in [Sessions -> Calls \union {None}]
  /\ raced \subseteq Employees \X SUBSET Openings

Init ==
  /\ status = [o \in Openings |-> "none"]
  /\ window = [o \in Openings |-> None]
  /\ total = [o \in Openings |-> 0] /\ filled = [o \in Openings |-> 0]
  /\ policy = [o \in Openings |-> "manager_approval"]
  /\ late = {}
  /\ claim = [o \in Openings |-> [e \in Employees |-> "none"]]
  /\ slot = [o \in Openings |-> [e \in Employees |-> None]]
  /\ call = [s \in Sessions |-> None]
  /\ raced = {}

-----------------------------------------------------------------------------
(* Locks: an accept holds the row of its claim from its start; whoever is  *)
(* about to commit holds the row of its opening.                           *)

At(s, stage) == call[s] # None /\ call[s].stage = stage
HoldsOpening(s, o) == At(s, "commit") /\ call[s].opening = o
HoldsClaim(s, o, e) ==
  call[s] # None /\ call[s].op = "accept" /\ call[s].opening = o /\ call[s].employee = e

OpeningFree(o) == \A s \in Sessions : ~HoldsOpening(s, o)
ClaimFree(o, e) == \A s \in Sessions : ~HoldsClaim(s, o, e)

Pending(o) == {e \in Employees : claim[o][e] = "pending"}

Begin(s, op, o, e, stage) ==
  /\ call[s] = None
  /\ call' = [call EXCEPT ![s] = [op |-> op, opening |-> o, employee |-> e, stage |-> stage]]
End(s) == call' = [call EXCEPT ![s] = None]

SetClaim(o, e, new) == claim' = [claim EXCEPT ![o][e] = new]

\* Claims of o as they are when those of S are expired.
ExpireClaims(o, S) ==
  [claim EXCEPT ![o] = [e \in Employees |-> IF e \in S THEN "expired" ELSE @[e]]]

-----------------------------------------------------------------------------
(* Eligibility *)

\* SHIFT_OVERLAP: a live slot of e that is committed overlaps the window of o.
Overlapping(o, e) ==
  \E p \in Openings : slot[p][e] # None /\ <<window[o], slot[p][e]>> \in Overlaps

\* Mutant of Eligible: the slots are not looked at.
EligibleIgnoresSlots(o, e) ==
  status[o] = "open" /\ o \notin late /\ filled[o] < total[o]

\* evaluate_opening_claim_eligibility: its other blocks (absence,
\* qualifications, availability, labour rules) are calls not made, or Refuse.
Eligible(o, e) ==
  /\ status[o] = "open" /\ o \notin late
  /\ filled[o] < total[o]
  /\ ~Overlapping(o, e)

\* The accepts for e that have passed their check and not committed.
Races(o, e) ==
  {<<e, {o, call[t].opening}>> :
     t \in {t \in Sessions : /\ At(t, "commit") /\ call[t].op \in {"accept", "claim"}
                             /\ call[t].employee = e /\ call[t].opening # o}}
NoteRaces(o, e) == raced' = raced \union Races(o, e)

-----------------------------------------------------------------------------
(* Managers *)

\* upsert_shift_opening without an id.
Create(o) ==
  /\ status[o] = "none"
  /\ \E w \in Windows, n \in Places, p \in Policies :
       /\ window' = [window EXCEPT ![o] = w]
       /\ total' = [total EXCEPT ![o] = n]
       /\ policy' = [policy EXCEPT ![o] = p]
  /\ status' = [status EXCEPT ![o] = "draft"]
  /\ UNCHANGED <<filled, late, claim, slot, call, raced>>

Publish(o) ==
  /\ status[o] = "draft" /\ OpeningFree(o)
  /\ status' = [status EXCEPT ![o] = "open"]
  /\ UNCHANGED <<window, total, filled, policy, late, claim, slot, call, raced>>

\* upsert_shift_opening reads the row, and its status, without a lock.
StartEdit(s, o) ==
  /\ o \in MayEdit /\ status[o] \in {"draft", "open"}
  /\ Begin(s, "edit", o, None, "write")
  /\ UNCHANGED <<openingVars, claim, slot, raced>>

\* Mutant of WriteEdit: places_total as entered.
WriteEditAsEntered(s) ==
  LET o == call[s].opening IN
  /\ At(s, "write") /\ OpeningFree(o)
  /\ \E n \in Places : total' = [total EXCEPT ![o] = n]
  /\ End(s)
  /\ UNCHANGED <<status, window, filled, policy, late, claim, slot, raced>>

\* Its UPDATE waits for the row and looks at the id alone; places_total does
\* not go below what is filled by then.  closes_at may move on.
WriteEdit(s) ==
  LET o == call[s].opening IN
  /\ At(s, "write") /\ OpeningFree(o)
  /\ \E w \in Windows, n \in Places, p \in Policies :
       /\ window' = [window EXCEPT ![o] = w]
       /\ total' = [total EXCEPT ![o] = IF n > filled[o] THEN n ELSE filled[o]]
       /\ policy' = [policy EXCEPT ![o] = p]
  /\ late' \in {late, late \ {o}}
  /\ End(s)
  /\ UNCHANGED <<status, filled, claim, slot, raced>>

StartCancel(s, o) ==
  /\ status[o] \in {"draft", "open", "expired"} /\ OpeningFree(o)
  /\ Begin(s, "cancel", o, None, "commit")
  /\ UNCHANGED <<openingVars, claim, slot, raced>>

\* cancel_shift_opening waits for the rows of the pending claims.
CommitCancel(s) ==
  LET o == call[s].opening IN
  /\ At(s, "commit") /\ call[s].op = "cancel"
  /\ \A e \in Pending(o) : ClaimFree(o, e)
  /\ claim' = ExpireClaims(o, Pending(o))
  /\ status' = [status EXCEPT ![o] = "cancelled"]
  /\ End(s)
  /\ UNCHANGED <<window, total, filled, policy, late, slot, raced>>

Reject(o, e) ==
  /\ claim[o][e] = "pending" /\ ClaimFree(o, e)
  /\ SetClaim(o, e, "rejected")
  /\ UNCHANGED <<openingVars, slot, call, raced>>

\* accept_shift_opening_claim locks the claim first.
StartAccept(s, o, e) ==
  /\ claim[o][e] = "pending" /\ ClaimFree(o, e)
  /\ Begin(s, "accept", o, e, "opening")
  /\ UNCHANGED <<openingVars, claim, slot, raced>>

\* Then the opening, and revalidates.
LockOpening(s) ==
  LET o == call[s].opening
      e == call[s].employee
  IN /\ At(s, "opening") /\ OpeningFree(o)
     /\ Eligible(o, e)
     /\ call' = [call EXCEPT ![s].stage = "commit"]
     /\ NoteRaces(o, e)
     /\ UNCHANGED <<openingVars, claim, slot>>

\* The claim is not eligible, or warnings were not accepted.
Refuse(s) ==
  /\ At(s, "opening") /\ OpeningFree(call[s].opening)
  /\ End(s)
  /\ UNCHANGED <<openingVars, claim, slot, raced>>

\* Mutant of Commit: the claims that lose are left pending.
CommitLeavesPending(s) ==
  LET o == call[s].opening
      e == call[s].employee
  IN /\ At(s, "commit") /\ call[s].op # "cancel"
     /\ slot' = [slot EXCEPT ![o][e] = window[o]]
     /\ filled' = [filled EXCEPT ![o] = @ + 1]
     /\ SetClaim(o, e, "accepted")
     /\ status' = [status EXCEPT ![o] = IF filled[o] + 1 >= total[o] THEN "filled" ELSE @]
     /\ End(s)
     /\ UNCHANGED <<window, total, policy, late, raced>>

\* The slot is inserted, the claim accepted, the place taken; with the last
\* place the opening is filled and its other pending claims expire, once
\* nobody holds their rows.
Commit(s) ==
  LET o == call[s].opening
      e == call[s].employee
      full == filled[o] + 1 >= total[o]
      losers == IF full THEN Pending(o) \ {e} ELSE {}
  IN /\ At(s, "commit") /\ call[s].op # "cancel"
     /\ \A f \in losers : ClaimFree(o, f)
     /\ slot' = [slot EXCEPT ![o][e] = window[o]]
     /\ filled' = [filled EXCEPT ![o] = @ + 1]
     /\ claim' = [ExpireClaims(o, losers) EXCEPT ![o][e] = "accepted"]
     /\ status' = [status EXCEPT ![o] = IF full THEN "filled" ELSE @]
     /\ End(s)
     /\ UNCHANGED <<window, total, policy, late, raced>>

\* An approved call-off cancels the slot and may offer its window again.
CallOff(o, e) ==
  /\ slot[o][e] # None
  /\ slot' = [slot EXCEPT ![o][e] = None]
  /\ \/ UNCHANGED openingVars
     \/ \E n \in Openings :
          /\ status[n] = "none"
          /\ status' = [status EXCEPT ![n] = "open"]
          /\ window' = [window EXCEPT ![n] = slot[o][e]]
          /\ total' = [total EXCEPT ![n] = 1]
          /\ UNCHANGED <<filled, policy, late>>
  /\ UNCHANGED <<claim, call, raced>>

-----------------------------------------------------------------------------
(* Employees *)

\* claim_shift_opening_for_employee, policy manager_approval.
Claim(o, e) ==
  /\ OpeningFree(o) /\ policy[o] = "manager_approval"
  /\ Eligible(o, e)
  /\ claim[o][e] \notin {"pending", "accepted"}
  /\ SetClaim(o, e, "pending")
  /\ UNCHANGED <<openingVars, slot, call, raced>>

\* The same under first_eligible: the claim goes on to accept itself.
ClaimFirst(s, o, e) ==
  /\ OpeningFree(o) /\ policy[o] = "first_eligible"
  /\ Eligible(o, e)
  /\ claim[o][e] \notin {"pending", "accepted"}
  /\ Begin(s, "claim", o, e, "commit")
  /\ NoteRaces(o, e)
  /\ UNCHANGED <<openingVars, claim, slot>>

Withdraw(o, e) ==
  /\ claim[o][e] = "pending" /\ ClaimFree(o, e)
  /\ SetClaim(o, e, "withdrawn")
  /\ UNCHANGED <<openingVars, slot, call, raced>>

-----------------------------------------------------------------------------
(* The clock and the database *)

ClosesAt(o) ==
  /\ o \in Closing \ late /\ status[o] # "none"
  /\ late' = late \union {o}
  /\ UNCHANGED <<status, window, total, filled, policy, claim, slot, call, raced>>

\* list_shift_openings expires what it finds open and closed.
SoftExpire(o) ==
  /\ status[o] = "open" /\ o \in late /\ OpeningFree(o)
  /\ status' = [status EXCEPT ![o] = "expired"]
  /\ UNCHANGED <<window, total, filled, policy, late, claim, slot, call, raced>>

\* s wants the opening t holds, t a claim s holds.
Deadlocked(s, t) ==
  /\ At(s, "opening") /\ HoldsOpening(t, call[s].opening)
  /\ call[t].op = "cancel" \/ filled[call[s].opening] + 1 >= total[call[s].opening]

\* PostgreSQL rolls one of them back.
DeadlockAbort(s) ==
  /\ \E t \in Sessions : Deadlocked(s, t) \/ Deadlocked(t, s)
  /\ End(s)
  /\ UNCHANGED <<openingVars, claim, slot, raced>>

-----------------------------------------------------------------------------
Step(s) ==
  \/ WriteEdit(s) \/ CommitCancel(s) \/ LockOpening(s) \/ Refuse(s) \/ Commit(s)
  \/ DeadlockAbort(s)

Next ==
  \/ \E s \in Sessions : Step(s)
  \/ \E s \in Sessions, o \in Openings :
       \/ StartEdit(s, o) \/ StartCancel(s, o)
       \/ \E e \in Employees : StartAccept(s, o, e) \/ ClaimFirst(s, o, e)
  \/ \E o \in Openings : Create(o) \/ Publish(o) \/ ClosesAt(o) \/ SoftExpire(o)
  \/ \E o \in Openings, e \in Employees :
       Claim(o, e) \/ Withdraw(o, e) \/ Reject(o, e) \/ CallOff(o, e)

Spec == Init /\ [][Next]_vars

-----------------------------------------------------------------------------
(* Properties *)

\* No overassignment: places_filled counts the accepted claims, whatever
\* accepts, edits and cancels run at once, and stays within places_total.
PlacesAreCounted ==
  \A o \in Openings :
    /\ filled[o] = Cardinality({e \in Employees : claim[o][e] = "accepted"})
    /\ filled[o] <= total[o]

\* When the last place is taken no claim is left pending: nobody waits for a
\* decision that cannot come.
FilledHasNoPending == \A o \in Openings : status[o] = "filled" => Pending(o) = {}

\* An opening that is not open takes nobody: neither a cancel nor an expiry
\* slips in between the validation of a claim and its acceptance.
ClosedTakesNobody ==
  [][\A o \in Openings : status[o] # "open" => filled'[o] = filled[o]]_vars

\* An accepted claim is final: no withdrawal, rejection, cancel or lost race
\* takes it back.
AcceptedIsFinal ==
  [][\A o \in Openings, e \in Employees :
       claim[o][e] = "accepted" => claim'[o][e] = "accepted"]_vars

\* An employee is booked twice at a time only by accepts that were open at
\* once: each checks the slots the other has not committed yet.
DoublyBooked(o, p, e) ==
  /\ o # p /\ slot[o][e] # None /\ slot[p][e] # None
  /\ <<slot[o][e], slot[p][e]>> \in Overlaps
OverlapsNeedRaces ==
  \A o, p \in Openings, e \in Employees : DoublyBooked(o, p, e) => <<e, {o, p}>> \in raced

=============================================================================
