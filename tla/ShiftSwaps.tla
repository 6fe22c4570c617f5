------------------------------ MODULE ShiftSwaps ------------------------------
(***************************************************************************)
(* Requests about published shifts: a swap of two shifts, a give-away, a   *)
(* call-off.  An employee requests, a colleague may accept, a manager      *)
(* decides; an approved request reassigns or cancels the slots.            *)
(*                                                                         *)
(* Every RPC is a PostgreSQL transaction at READ COMMITTED.  One that      *)
(* takes one lock and commits is a step.  Approving a swap or give-away    *)
(* evaluates the slots without locking them, then updates one or two by    *)
(* id; an accept reads the request without locking it, then updates it.    *)
(* These run in a session, and nobody sees what they write before they     *)
(* commit.  A refused call rolls back, which is Rollback once it has begun *)
(* and no step before.                                                     *)
(***************************************************************************)
EXTENDS Naturals

CONSTANTS
  Slots, Employees,
  Asked,         \* the slots that requests, accepts and cancels are about
  Requests,      \* requests that may be made
  Sessions,      \* concurrent transactions of several steps
  FirstOwner,    \* the published plan
  Overlaps,      \* pairs of slots shift_slots_overlap holds of
  None

Overlap(s, t) == <<s, t>> \in Overlaps

ASSUME SwapAssumption ==
  /\ Asked \subseteq Slots /\ FirstOwner \in [Slots -> Employees]
  /\ \A s \in Slots : Overlap(s, s)
  /\ \A s, t \in Slots : Overlap(s, t) => Overlap(t, s)
  /\ \A s, t \in Slots : Overlap(s, t) /\ FirstOwner[s] = FirstOwner[t] => s = t
  /\ None \notin Slots /\ None \notin Employees /\ None \notin Requests

Kinds == {"swap", "give_away", "call_off"}
Statuses == {"pending", "approved", "declined"}   \* rejected or cancelled
Rows == [kind : Kinds, slot : Slots, by : Employees, to : Employees \union {None},
         back : Slots \union {None}, status : Statuses]
Calls == [op : {"approve", "accept"}, request : Requests, to : Employees,
          back : Slots \union {None}, stage : {"first", "second", "write"}]

ASSUME NoneIsNoRow == None \notin Rows /\ None \notin Calls

VARIABLES
  owner,    \* shift_slots.employee_id
  live,     \* slots that are published, not cancelled
  request,  \* shift_swap_requests: kind, requester_slot, requester, target, target_slot, status
  call,     \* the transaction each session is in
  won,      \* history: the request that gave a slot to its owner
  stale,    \* history: requests whose evaluation something has overtaken
  spared    \* history: give-aways granted next to the target's own slot

rows == <<owner, live, request>>
vars == <<rows, call, won, stale, spared>>

TypeOK ==
  /\ owner \in [Slots -> Employees]
  /\ live \subseteq Slots
  /\ request \in [Requests -> Rows \union {None}]
  /\ call \in [Sessions -> Calls \union {None}]
  /\ won \in [Slots -> Requests \union {None}]
  /\ stale \subseteq Requests
  /\ spared \subseteq Requests

Init ==
  /\ owner = FirstOwner
  /\ live = Slots
  /\ request = [r \in Requests |-> None]
  /\ call = [c \in Sessions |-> None]
  /\ won = [s \in Slots |-> None]
  /\ stale = {} /\ spared = {}

-----------------------------------------------------------------------------
(* Locks: an approval holds the row of its request from its start, and the *)
(* requester's slot from the first UPDATE.                                 *)

At(c, stage) == call[c] # None /\ call[c].stage = stage
Deciding(c) == call[c] # None /\ call[c].op = "approve"

RequestFree(r) == \A c \in Sessions : ~(Deciding(c) /\ call[c].request = r)
SlotFree(s) == \A c \in Sessions : ~(At(c, "second") /\ request[call[c].request].slot = s)

Begin(c, op, r, e, b, stage) ==
  /\ call[c] = None
  /\ call' = [call EXCEPT ![c] = [op |-> op, request |-> r, to |-> e, back |-> b, stage |-> stage]]
End(c) == call' = [call EXCEPT ![c] = None]

Pending(r) == request[r] # None /\ request[r].status = "pending"
Decided(r) == request[r] # None /\ request[r].status # "pending"

\* A change of the slots S overtakes the evaluations of the approvals under
\* way that concern one of them, or an employee who has got one.
Overtaken(S, getters) ==
  {r \in Requests : \E c \in Sessions :
     /\ Deciding(c) /\ call[c].request = r
     /\ \/ request[r].slot \in S \/ request[r].back \in S
        \/ call[c].to \in getters \/ request[r].by \in getters}

-----------------------------------------------------------------------------
(* Employees *)

\* request_shift_swap.  The portal's request_shift_swap_for_employee, which
\* makes give-aways and call-offs, does not ask whether the target is the
\* requester.  One pending request per slot.
Request(r, k, s, e, b) ==
  /\ request[r] = None
  /\ s \in live
  /\ k = "call_off" => e = None
  /\ b # None => k = "swap" /\ b \in live /\ owner[b] = e
  /\ k = "swap" => e # owner[s]
  /\ \A q \in Requests : ~(Pending(q) /\ request[q].slot = s)
  /\ request' = [request EXCEPT ![r] =
       [kind |-> k, slot |-> s, by |-> owner[s], to |-> e, back |-> b, status |-> "pending"]]
  /\ UNCHANGED <<owner, live, call, won, stale, spared>>

\* accept_shift_swap reads the request; its kind does not matter.
StartAccept(c, r, e, b) ==
  /\ Pending(r)
  /\ request[r].to \in {None, e} /\ e # request[r].by
  /\ b # None => b \in live /\ owner[b] = e
  /\ Begin(c, "accept", r, e, b, "write")
  /\ UNCHANGED <<rows, won, stale, spared>>

\* Mutant of Accepted: the status the table allows and nothing asks for.
AcceptedByStatus(c) ==
  LET q == request[call[c].request] IN
  [q EXCEPT !.to = call[c].to, !.status = "accepted",
            !.back = IF call[c].back # None THEN call[c].back ELSE @]

\* The row an accept writes: trg_validate_shift_swap_integrity checks it
\* while it is pending.
Accepted(c) ==
  LET q == request[call[c].request] IN
  [q EXCEPT !.to = call[c].to, !.back = IF call[c].back # None THEN call[c].back ELSE @]
Consistent(q) ==
  q.status = "pending" => /\ owner[q.slot] = q.by
                          /\ q.back # None => owner[q.back] = q.to

\* Its UPDATE waits for an approval under way and looks at the id alone.
WriteAccept(c) ==
  /\ At(c, "write") /\ RequestFree(call[c].request)
  /\ Consistent(Accepted(c))
  /\ request' = [request EXCEPT ![call[c].request] = Accepted(c)]
  /\ End(c)
  /\ UNCHANGED <<owner, live, won, stale, spared>>

-----------------------------------------------------------------------------
(* Managers *)

\* No slot of e but the one excepted overlaps s.
Fits(s, e, except) == \A t \in live : owner[t] = e /\ t # except => ~Overlap(s, t)

Exchanges(q) == q.kind = "swap" /\ q.back # None

\* Mutant of Eligible: nobody asks what the requester has beside the slot
\* that goes away.
EligibleOneWay(q, e) ==
  /\ q.slot \in live /\ owner[q.slot] = q.by
  /\ Fits(q.slot, e, q.back)
  /\ Exchanges(q) => q.back \in live /\ owner[q.back] = e

\* Mutant of Eligible: the target's slot may have gone to somebody else.
EligibleFromAnybody(q, e) ==
  /\ q.slot \in live /\ owner[q.slot] = q.by
  /\ Fits(q.slot, e, q.back)
  /\ Exchanges(q) => q.back \in live /\ Fits(q.back, q.by, q.slot)

\* evaluate_swap_request_eligibility: its other blocks (absences,
\* qualifications, availability) are calls not made, or Rollback.
Eligible(q, e) ==
  /\ q.slot \in live /\ owner[q.slot] = q.by
  /\ Fits(q.slot, e, q.back)
  /\ Exchanges(q) => /\ q.back \in live /\ owner[q.back] = e
                     /\ Fits(q.back, q.by, q.slot)

\* approve_shift_swap with 'approved', for a swap or give-away: locks the
\* request, settles on a target and evaluates.
StartApprove(c, r, e) ==
  /\ Pending(r) /\ RequestFree(r)
  /\ request[r].kind # "call_off" /\ request[r].to \in {None, e}
  /\ Eligible(request[r], e)
  /\ Begin(c, "approve", r, e, None, "first")
  /\ stale' = stale \ {r}
  /\ UNCHANGED <<rows, won, spared>>

\* The first UPDATE of an exchange; the other slot is read, without a lock.
TakeSlot(c) ==
  LET q == request[call[c].request] IN
  /\ At(c, "first") /\ Exchanges(q)
  /\ SlotFree(q.slot) /\ q.back \in live
  /\ call' = [call EXCEPT ![c].stage = "second"]
  /\ UNCHANGED <<rows, won, stale, spared>>

\* The last UPDATE of a slot, the status, COMMIT.
Commit(c) ==
  LET r == call[c].request
      e == call[c].to
      q == request[r]
      got == IF Exchanges(q) THEN {q.slot, q.back} ELSE {q.slot}
  IN /\ \/ At(c, "first") /\ ~Exchanges(q) /\ SlotFree(q.slot)
        \/ At(c, "second") /\ SlotFree(q.back)
     /\ owner' = [s \in Slots |-> IF s = q.slot THEN e ELSE IF s \in got THEN q.by ELSE owner[s]]
     /\ request' = [request EXCEPT ![r].to = e, ![r].status = "approved"]
     /\ End(c)
     /\ won' = [s \in Slots |-> IF s \in got THEN r ELSE won[s]]
     /\ stale' = stale \union (Overtaken(got, {e, q.by}) \ {r})
     /\ spared' = IF q.back # None /\ ~Exchanges(q) THEN spared \union {r} ELSE spared
     /\ UNCHANGED live

\* A call-off locks its slot before it looks at it.
ApproveCallOff(r) ==
  LET q == request[r] IN
  /\ Pending(r) /\ RequestFree(r) /\ q.kind = "call_off"
  /\ SlotFree(q.slot) /\ q.slot \in live /\ owner[q.slot] = q.by
  /\ live' = live \ {q.slot}
  /\ request' = [request EXCEPT ![r].status = "approved"]
  /\ stale' = stale \union Overtaken({q.slot}, {})
  /\ UNCHANGED <<owner, call, won, spared>>

\* Mutant of Decline: the status it finds is not looked at.
DeclineDecided(r) ==
  /\ request[r] # None /\ RequestFree(r)
  /\ request' = [request EXCEPT ![r].status = "declined"]
  /\ UNCHANGED <<owner, live, call, won, stale, spared>>

\* approve_shift_swap with 'rejected' or 'cancelled'.
Decline(r) ==
  /\ Pending(r) /\ RequestFree(r)
  /\ request' = [request EXCEPT ![r].status = "declined"]
  /\ UNCHANGED <<owner, live, call, won, stale, spared>>

\* bulk_delete_shift_slots, which does not look at requests.
CancelSlot(s) ==
  /\ s \in live /\ SlotFree(s)
  /\ live' = live \ {s}
  /\ stale' = stale \union Overtaken({s}, {})
  /\ UNCHANGED <<owner, request, call, won, spared>>

\* Refused after it began, victim of a deadlock, or disconnected.
Rollback(c) ==
  /\ call[c] # None
  /\ End(c)
  /\ UNCHANGED <<rows, won, stale, spared>>

-----------------------------------------------------------------------------
Step(c) == TakeSlot(c) \/ Commit(c) \/ WriteAccept(c) \/ Rollback(c)

Next ==
  \/ \E c \in Sessions : Step(c)
  \/ \E c \in Sessions, r \in Requests, e \in Employees :
       \/ StartApprove(c, r, e)
       \/ \E b \in Asked \union {None} : StartAccept(c, r, e, b)
  \/ \E r \in Requests :
       \/ ApproveCallOff(r) \/ Decline(r)
       \/ \E k \in Kinds, s \in Asked, e \in Employees \union {None}, b \in Asked \union {None} :
            Request(r, k, s, e, b)
  \/ \E s \in Asked : CancelSlot(s)

Spec == Init /\ [][Next]_vars

-----------------------------------------------------------------------------
(* Properties *)

DoublyBooked(s, t) == s # t /\ s \in live /\ t \in live /\ owner[s] = owner[t] /\ Overlap(s, t)

\* An employee is booked twice at a time only by a request that was granted
\* on an evaluation overtaken by another decision, or (which takes no race)
\* by a give-away accepted against a slot.
OverlapsNeedStaleness ==
  \A s, t \in Slots : DoublyBooked(s, t) => {won[s], won[t]} \cap (stale \union spared) # {}

\* A slot changes hands only by a request its owner gives it away in, as
\* requester or as target of a swap; unless the evaluation was overtaken.
SlotsComeFromGivers ==
  [][\A s \in Slots : owner'[s] # owner[s] =>
       \E r \in Requests :
         /\ Pending(r) /\ request'[r].status = "approved"
         /\ \/ s = request[r].slot /\ owner[s] = request[r].by
            \/ s = request[r].back /\ owner[s] = request'[r].to /\ Exchanges(request[r])
            \/ r \in stale]_vars

\* A request is decided once, whatever managers, colleagues and planners do
\* at once; a decided row is written only by an accept that read it before.
DecidedIsFinal ==
  [][\A r \in Requests : Decided(r) /\ request'[r] # request[r] =>
       /\ request'[r].status = request[r].status
       /\ \E c \in Sessions : At(c, "write") /\ call[c].request = r]_vars

=============================================================================
