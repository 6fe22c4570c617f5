-------------------------- MODULE ShiftSwapsProofs --------------------------
(***************************************************************************)
(* Proofs about ShiftSwaps, for any slots, employees, requests, overlaps   *)
(* and concurrent transactions.                                            *)
(***************************************************************************)
EXTENDS ShiftSwaps, TLAPS

-----------------------------------------------------------------------------
(* What a transaction holds. *)

Row(c) == request[call[c].request]

\* Its request exists; how far it is goes with what it does.
Held ==
  \A c \in Sessions : call[c] # None =>
    /\ Row(c) # None
    /\ call[c].stage = "write" <=> call[c].op = "accept"

\* The request of an approval is pending, and stays as it was evaluated.
Fixed ==
  \A c \in Sessions : Deciding(c) =>
    /\ Row(c).status = "pending" /\ Row(c).to \in {None, call[c].to}
    /\ At(c, "second") => Exchanges(Row(c))

\* One approval per request at a time.
Sole ==
  \A c, d \in Sessions :
    Deciding(c) /\ Deciding(d) /\ call[c].request = call[d].request => c = d

\* An evaluation that nothing has overtaken still holds.
StillEligible ==
  \A c \in Sessions : Deciding(c) /\ call[c].request \notin stale =>
    Eligible(Row(c), call[c].to)

\* Slots are won by requests that are decided.
WonDecided == \A s \in Slots : won[s] # None => Decided(won[s])

TypeInv == TypeOK /\ Held
IInv == TypeInv /\ Fixed /\ Sole /\ StillEligible /\ WonDecided /\ OverlapsNeedStaleness

-----------------------------------------------------------------------------
(* Types *)

LEMMA CallType ==
  ASSUME TypeInv, NEW c \in Sessions, call[c] # None
  PROVE  /\ call[c] \in Calls /\ call[c].request \in Requests /\ call[c].to \in Employees
         /\ Row(c) \in Rows
         /\ call[c].stage = "write" <=> call[c].op = "accept"
         /\ Deciding(c) <=> call[c].stage \in {"first", "second"}
  BY DEF TypeInv, TypeOK, Held, Calls, Row, Deciding

LEMMA BeginType ==
  ASSUME TypeInv, NEW c \in Sessions, NEW r \in Requests, NEW e \in Employees,
         NEW b \in Slots \union {None}, NEW op \in {"approve", "accept"},
         NEW g \in {"first", "write"}, g = "write" <=> op = "accept",
         Pending(r), Begin(c, op, r, e, b, g), UNCHANGED request
  PROVE  call' \in [Sessions -> Calls \union {None}] /\ Held'
  BY DEF TypeInv, TypeOK, Held, Begin, Calls, Row, Pending

LEMMA EndType ==
  ASSUME TypeInv, NEW c \in Sessions, End(c),
         \A r \in Requests : request[r] # None => request'[r] # None
  PROVE  call' \in [Sessions -> Calls \union {None}] /\ Held'
  BY DEF TypeInv, TypeOK, Held, End, Calls, Row

LEMMA TypeInit == Init => TypeInv
  BY SwapAssumption DEF Init, TypeInv, TypeOK, Held

LEMMA AcceptedType ==
  ASSUME TypeInv, NEW c \in Sessions, At(c, "write")
  PROVE  /\ Accepted(c) \in Rows /\ Accepted(c).status = Row(c).status
         /\ call[c].request \in Requests /\ Row(c) \in Rows
<1>1. /\ call[c] \in Calls /\ call[c].request \in Requests /\ call[c].to \in Employees
      /\ Row(c) \in Rows
  BY CallType DEF At
<1> QED
  BY <1>1, NoneIsNoRow DEF Accepted, Rows, Calls, Row

LEMMA TypeNext == TypeInv /\ [Next]_vars => TypeInv'
<1> SUFFICES ASSUME TypeInv, [Next]_vars PROVE TypeInv'
  OBVIOUS
<1> USE SwapAssumption, NoneIsNoRow
<1>1. ASSUME NEW r \in Requests, NEW k \in Kinds, NEW s \in Slots,
             NEW e \in Employees \union {None}, NEW b \in Slots \union {None},
             Request(r, k, s, e, b)
      PROVE  TypeInv'
  <2>1. [kind |-> k, slot |-> s, by |-> owner[s], to |-> e, back |-> b, status |-> "pending"] \in Rows
    BY DEF TypeInv, TypeOK, Rows, Statuses
  <2> QED
    BY <1>1, <2>1 DEF TypeInv, TypeOK, Held, Row, Request
<1>2. ASSUME NEW c \in Sessions, NEW r \in Requests, NEW e \in Employees,
             NEW b \in Slots \union {None}, StartAccept(c, r, e, b)
      PROVE  TypeInv'
  <2>1. call' \in [Sessions -> Calls \union {None}] /\ Held'
    BY <1>2, BeginType DEF StartAccept, rows
  <2> QED
    BY <1>2, <2>1 DEF TypeInv, TypeOK, StartAccept, rows
<1>3. ASSUME NEW c \in Sessions, WriteAccept(c) PROVE TypeInv'
  <2>1. Accepted(c) \in Rows /\ call[c].request \in Requests
    BY <1>3, AcceptedType DEF WriteAccept
  <2>2. call' \in [Sessions -> Calls \union {None}] /\ Held'
    BY <1>3, <2>1, EndType DEF WriteAccept, TypeInv, TypeOK
  <2> QED
    BY <1>3, <2>1, <2>2 DEF TypeInv, TypeOK, WriteAccept
<1>4. ASSUME NEW c \in Sessions, NEW r \in Requests, NEW e \in Employees, StartApprove(c, r, e)
      PROVE  TypeInv'
  <2>1. call' \in [Sessions -> Calls \union {None}] /\ Held'
    BY <1>4, BeginType DEF StartApprove, rows
  <2> QED
    BY <1>4, <2>1 DEF TypeInv, TypeOK, StartApprove, rows
<1>5. ASSUME NEW c \in Sessions, TakeSlot(c) PROVE TypeInv'
  <2>1. call[c] \in Calls /\ (call[c].stage = "write" <=> call[c].op = "accept")
    BY <1>5, CallType DEF TakeSlot, At
  <2>2. call' \in [Sessions -> Calls \union {None}] /\ Held'
    BY <1>5, <2>1 DEF TypeInv, TypeOK, Held, Row, TakeSlot, At, Calls, rows
  <2> QED
    BY <1>5, <2>2 DEF TypeInv, TypeOK, TakeSlot, rows
<1>6. ASSUME NEW c \in Sessions, Commit(c) PROVE TypeInv'
  <2>1. call[c].request \in Requests /\ call[c].to \in Employees /\ Row(c) \in Rows
    BY <1>6, CallType DEF Commit, At
  <2>2. [Row(c) EXCEPT !.to = call[c].to, !.status = "approved"] \in Rows
    BY <2>1 DEF Rows, Statuses
  <2>3. /\ request' \in [Requests -> Rows \union {None}]
        /\ \A r \in Requests : request[r] # None => request'[r] # None
    <3>1. request' = [request EXCEPT ![call[c].request] =
                        [Row(c) EXCEPT !.to = call[c].to, !.status = "approved"]]
      BY <1>6, <2>1 DEF Commit, TypeInv, TypeOK, Row
    <3> QED
      BY <2>1, <2>2, <3>1 DEF TypeInv, TypeOK
  <2>4. call' \in [Sessions -> Calls \union {None}] /\ Held'
    BY <1>6, <2>3, EndType DEF Commit
  <2>5. /\ owner' \in [Slots -> Employees] /\ won' \in [Slots -> Requests \union {None}]
        /\ live' \subseteq Slots
    BY <1>6, <2>1 DEF Commit, TypeInv, TypeOK, Rows, Row
  <2>6. stale' \subseteq Requests /\ spared' \subseteq Requests
    BY <1>6, <2>1 DEF Commit, TypeInv, TypeOK, Overtaken
  <2> QED
    BY <2>3, <2>4, <2>5, <2>6 DEF TypeInv, TypeOK
<1>7. ASSUME NEW r \in Requests, ApproveCallOff(r) \/ Decline(r) PROVE TypeInv'
  <2>1. request[r] \in Rows
    BY <1>7 DEF ApproveCallOff, Decline, Pending, TypeInv, TypeOK
  <2>2. PICK new \in Statuses : request' = [request EXCEPT ![r].status = new]
    BY <1>7 DEF ApproveCallOff, Decline, Statuses
  <2>3. /\ request' \in [Requests -> Rows \union {None}]
        /\ \A q \in Requests : request[q] # None => request'[q] # None
    BY <2>1, <2>2 DEF TypeInv, TypeOK, Rows
  <2>4. Held'
    BY <1>7, <2>3 DEF ApproveCallOff, Decline, TypeInv, TypeOK, Held, Row, Calls
  <2>5. stale' \subseteq Requests /\ live' \subseteq Slots
    BY <1>7 DEF ApproveCallOff, Decline, TypeInv, TypeOK, Overtaken
  <2> QED
    BY <1>7, <2>3, <2>4, <2>5 DEF ApproveCallOff, Decline, TypeInv, TypeOK
<1>8. ASSUME NEW s \in Slots, CancelSlot(s) PROVE TypeInv'
  BY <1>8 DEF CancelSlot, TypeInv, TypeOK, Held, Row, Overtaken
<1>9. ASSUME NEW c \in Sessions, Rollback(c) PROVE TypeInv'
  <2>1. call' \in [Sessions -> Calls \union {None}] /\ Held'
    BY <1>9, EndType DEF Rollback, rows
  <2> QED
    BY <1>9, <2>1 DEF Rollback, TypeInv, TypeOK, rows
<1>10. CASE UNCHANGED vars
  BY <1>10 DEF vars, rows, TypeInv, TypeOK, Held, Row
<1> QED
  BY <1>1, <1>2, <1>3, <1>4, <1>5, <1>6, <1>7, <1>8, <1>9, <1>10 DEF Next, Step

\* Slots, requests and transactions keep their types, and every transaction
\* works on a request that exists.
THEOREM TypeCorrect == Spec => []TypeOK
<1>1. Spec => []TypeInv
  BY TypeInit, TypeNext, PTL DEF Spec
<1>2. TypeInv => TypeOK
  BY DEF TypeInv
<1> QED
  BY <1>1, <1>2, PTL

-----------------------------------------------------------------------------
(* What an approval holds stays with it. *)

\* The approval of session d, if it is under way after a step, was before, on
\* the same row.
Carried(d) ==
  Deciding(d)' =>
    /\ Deciding(d)
    /\ call'[d].request = call[d].request /\ call'[d].to = call[d].to
    /\ Row(d)' = Row(d)
    /\ At(d, "second")' => At(d, "second") \/ Exchanges(Row(d))

LEMMA CarriedStays ==
  ASSUME Fixed, Sole, \A d \in Sessions : Carried(d)
  PROVE  Fixed' /\ Sole'
<1>1. Fixed'
  BY DEF Fixed, Carried, Exchanges
<1>2. Sole'
  BY DEF Sole, Carried
<1> QED
  BY <1>1, <1>2

\* Whoever writes a request while nobody decides it leaves the approvals
\* under way their rows.
LEMMA WriteCarries ==
  ASSUME TypeInv, NEW r \in Requests, RequestFree(r), NEW d \in Sessions,
         \A q \in Requests : q # r => request'[q] = request[q],
         call'[d] = call[d] \/ call'[d] = None
  PROVE  Carried(d)
<1> SUFFICES ASSUME Deciding(d)' PROVE Carried(d)
  BY DEF Carried
<1>1. call'[d] = call[d] /\ Deciding(d)
  BY DEF Deciding
<1>2. call[d].request # r /\ call[d].request \in Requests
  BY <1>1, CallType DEF RequestFree, Deciding
<1> QED
  BY <1>1, <1>2 DEF Carried, Row, At

\* Every step but the start of an approval carries what is under way.
LEMMA StepCarries ==
  ASSUME TypeInv, Fixed, Sole, [Next]_vars,
         ~(\E c \in Sessions, r \in Requests, e \in Employees : StartApprove(c, r, e))
  PROVE  \A d \in Sessions : Carried(d)
<1> SUFFICES ASSUME NEW d \in Sessions PROVE Carried(d)
  OBVIOUS
<1>1. ASSUME NEW r \in Requests, NEW k \in Kinds, NEW s \in Slots,
             NEW e \in Employees \union {None}, NEW b \in Slots \union {None},
             Request(r, k, s, e, b)
      PROVE  Carried(d)
  <2>1. RequestFree(r)
    BY <1>1 DEF Request, RequestFree, TypeInv, Held, Deciding, Row
  <2> QED
    BY <1>1, <2>1, WriteCarries DEF Request, TypeInv, TypeOK
<1>2. ASSUME NEW c \in Sessions, NEW r \in Requests, NEW e \in Employees,
             NEW b \in Slots \union {None}, StartAccept(c, r, e, b)
      PROVE  Carried(d)
  BY <1>2 DEF StartAccept, Begin, Carried, Deciding, Row, At, rows, TypeInv, TypeOK
<1>3. ASSUME NEW c \in Sessions, WriteAccept(c) PROVE Carried(d)
  <2>1. call[c].request \in Requests
    BY <1>3, AcceptedType DEF WriteAccept
  <2> QED
    BY <1>3, <2>1, WriteCarries DEF WriteAccept, End, TypeInv, TypeOK
<1>5. ASSUME NEW c \in Sessions, TakeSlot(c) PROVE Carried(d)
  <2>1. CASE d = c
    BY <1>5, <2>1, CallType DEF TakeSlot, Carried, Deciding, Row, At, rows, TypeInv, TypeOK, Calls
  <2>2. CASE d # c
    BY <1>5, <2>2 DEF TakeSlot, Carried, Deciding, Row, At, rows, TypeInv, TypeOK
  <2> QED
    BY <2>1, <2>2
<1>6. ASSUME NEW c \in Sessions, Commit(c) PROVE Carried(d)
  <2>1. Deciding(c) /\ call[c].request \in Requests
    BY <1>6, CallType DEF Commit, At
  <2> SUFFICES ASSUME Deciding(d)' PROVE Carried(d)
    BY DEF Carried
  <2>2. d # c /\ call'[d] = call[d]
    BY <1>6 DEF Commit, End, TypeInv, TypeOK, Deciding
  <2>3. Deciding(d) /\ call[d].request \in Requests
    BY <2>2, CallType DEF Deciding
  <2>4. call[d].request # call[c].request
    BY <2>1, <2>2, <2>3 DEF Sole
  <2>5. request'[call[d].request] = request[call[d].request]
    BY <1>6, <2>1, <2>3, <2>4 DEF Commit, TypeInv, TypeOK
  <2> QED
    BY <2>2, <2>3, <2>5 DEF Carried, Row, At
<1>7. ASSUME NEW r \in Requests, ApproveCallOff(r) \/ Decline(r) PROVE Carried(d)
  <2>1. RequestFree(r) /\ call' = call /\ \A q \in Requests : q # r => request'[q] = request[q]
    BY <1>7 DEF ApproveCallOff, Decline, TypeInv, TypeOK
  <2> QED
    BY <2>1, WriteCarries
<1>8. ASSUME NEW s \in Slots, CancelSlot(s) PROVE Carried(d)
  BY <1>8 DEF CancelSlot, Carried, Deciding, Row, At
<1>9. ASSUME NEW c \in Sessions, Rollback(c) PROVE Carried(d)
  BY <1>9 DEF Rollback, End, Carried, Deciding, Row, At, rows, TypeInv, TypeOK
<1>10. CASE UNCHANGED vars
  BY <1>10 DEF vars, rows, Carried, Deciding, Row, At
<1> QED
  BY <1>1, <1>2, <1>3, <1>5, <1>6, <1>7, <1>8, <1>9, <1>10, SwapAssumption DEF Next, Step

\* An approval that starts finds nobody else at its request.
LEMMA StartCarries ==
  ASSUME TypeInv, NEW c \in Sessions, NEW r \in Requests, NEW e \in Employees,
         StartApprove(c, r, e)
  PROVE  /\ \A d \in Sessions \ {c} : Carried(d) /\ (Deciding(d) => call[d].request # r)
         /\ Deciding(c)' /\ call'[c].request = r /\ call'[c].to = e /\ ~At(c, "second")'
         /\ Row(c)' = request[r]
<1>1. /\ call[c] = None /\ UNCHANGED request
      /\ call' = [call EXCEPT ![c] = [op |-> "approve", request |-> r, to |-> e,
                                     back |-> None, stage |-> "first"]]
  BY DEF StartApprove, Begin, rows
<1>2. [op |-> "approve", request |-> r, to |-> e, back |-> None, stage |-> "first"] # None
  BY NoneIsNoRow DEF Calls
<1>3. ASSUME NEW d \in Sessions \ {c} PROVE Carried(d) /\ (Deciding(d) => call[d].request # r)
  <2>1. call'[d] = call[d]
    BY <1>1 DEF TypeInv, TypeOK
  <2> QED
    BY <1>1, <2>1 DEF Carried, Deciding, Row, At, StartApprove, RequestFree
<1>4. call'[c] = [op |-> "approve", request |-> r, to |-> e, back |-> None, stage |-> "first"]
  BY <1>1 DEF TypeInv, TypeOK
<1>5. Deciding(c)' /\ call'[c].request = r /\ call'[c].to = e /\ ~At(c, "second")'
  BY <1>2, <1>4 DEF Deciding, At
<1> QED
  BY <1>1, <1>3, <1>5 DEF Row

LEMMA FixedNext ==
  ASSUME TypeInv, Fixed, Sole, [Next]_vars
  PROVE  Fixed' /\ Sole'
<1>1. ASSUME NEW c \in Sessions, NEW r \in Requests, NEW e \in Employees, StartApprove(c, r, e)
      PROVE  Fixed' /\ Sole'
  <2>1. /\ \A d \in Sessions \ {c} : Carried(d) /\ (Deciding(d) => call[d].request # r)
        /\ Deciding(c)' /\ call'[c].request = r /\ call'[c].to = e /\ ~At(c, "second")'
        /\ Row(c)' = request[r]
    BY <1>1, StartCarries
  <2>2. request[r].status = "pending" /\ request[r].to \in {None, e}
    BY <1>1 DEF StartApprove, Pending
  <2>3. Fixed'
    BY <2>1, <2>2 DEF Fixed, Carried, Exchanges
  <2>4. Sole'
    BY <2>1 DEF Sole, Carried
  <2> QED
    BY <2>3, <2>4
<1> QED
  BY <1>1, StepCarries, CarriedStays

-----------------------------------------------------------------------------
(* Requests are decided once. *)

LEMMA DecidedNext ==
  ASSUME TypeInv, Fixed, [Next]_vars, NEW r \in Requests, Decided(r), request'[r] # request[r]
  PROVE  /\ request'[r].status = request[r].status /\ request'[r] # None
         /\ \E c \in Sessions : At(c, "write") /\ call[c].request = r
<1> USE NoneIsNoRow, SwapAssumption
<1>1. ASSUME NEW q \in Requests, NEW k \in Kinds, NEW s \in Slots,
             NEW e \in Employees \union {None}, NEW b \in Slots \union {None},
             Request(q, k, s, e, b)
      PROVE  FALSE
  BY <1>1 DEF Request, Decided, TypeInv, TypeOK
<1>2. ASSUME NEW c \in Sessions, NEW q \in Requests, NEW e \in Employees,
             NEW b \in Slots \union {None}, StartAccept(c, q, e, b) \/ StartApprove(c, q, e)
      PROVE  FALSE
  BY <1>2 DEF StartAccept, StartApprove, rows
<1>3. ASSUME NEW c \in Sessions, WriteAccept(c)
      PROVE  /\ request'[r].status = request[r].status /\ request'[r] # None
             /\ At(c, "write") /\ call[c].request = r
  <2>1. /\ Accepted(c) \in Rows /\ Accepted(c).status = Row(c).status
        /\ call[c].request \in Requests
    BY <1>3, AcceptedType DEF WriteAccept
  <2> QED
    BY <1>3, <2>1 DEF WriteAccept, TypeInv, TypeOK, Row
<1>5. ASSUME NEW c \in Sessions, TakeSlot(c) \/ Rollback(c) PROVE FALSE
  BY <1>5 DEF TakeSlot, Rollback, rows
<1>6. ASSUME NEW c \in Sessions, Commit(c) PROVE FALSE
  <2>1. Deciding(c) /\ call[c].request \in Requests
    BY <1>6, CallType DEF Commit, At
  <2>2. call[c].request # r
    BY <2>1 DEF Fixed, Row, Decided
  <2> QED
    BY <1>6, <2>1, <2>2 DEF Commit, TypeInv, TypeOK
<1>7. ASSUME NEW q \in Requests, ApproveCallOff(q) \/ Decline(q) PROVE FALSE
  BY <1>7 DEF ApproveCallOff, Decline, Pending, Decided, TypeInv, TypeOK
<1>8. ASSUME NEW s \in Slots, CancelSlot(s) PROVE FALSE
  BY <1>8 DEF CancelSlot
<1>10. CASE UNCHANGED vars
  BY <1>10 DEF vars, rows
<1> QED
  BY <1>1, <1>2, <1>3, <1>5, <1>6, <1>7, <1>8, <1>10 DEF Next, Step

LEMMA DecidedStays ==
  ASSUME TypeInv, Fixed, [Next]_vars, NEW r \in Requests, Decided(r)
  PROVE  Decided(r)'
<1>1. CASE request'[r] = request[r]
  BY <1>1 DEF Decided
<1>2. CASE request'[r] # request[r]
  BY <1>2, DecidedNext DEF Decided
<1> QED
  BY <1>1, <1>2

-----------------------------------------------------------------------------
(* An evaluation holds until it is overtaken. *)

\* Slots of S change, and only employees of G get one.
Change(S, G) ==
  /\ live' \subseteq live /\ \A s \in live : s \notin live' => s \in S
  /\ \A s \in Slots : owner'[s] # owner[s] => s \in S /\ owner'[s] \in G

\* What does not concern a request leaves it eligible.
LEMMA EligibleStays ==
  ASSUME TypeInv, NEW S, NEW G, Change(S, G),
         NEW q \in Rows, NEW e \in Employees, Eligible(q, e),
         q.slot \notin S, q.back \notin S, e \notin G, q.by \notin G
  PROVE  Eligible(q, e)'
<1>1. ASSUME NEW s \in Slots, NEW f \in Employees, NEW x \in Slots \union {None},
             f \notin G, Fits(s, f, x)
      PROVE  Fits(s, f, x)'
  BY <1>1 DEF Fits, Change, TypeInv, TypeOK, Overlap
<1>2. /\ q.slot \in Slots /\ q.back \in Slots \union {None} /\ q.by \in Employees
      /\ q.slot \in live' /\ owner'[q.slot] = q.by
  BY DEF Rows, Change, Eligible, TypeInv, TypeOK
<1>3. Fits(q.slot, e, q.back)'
  BY <1>1, <1>2 DEF Eligible
<1>4. ASSUME Exchanges(q)
      PROVE  q.back \in live' /\ owner'[q.back] = e /\ Fits(q.back, q.by, q.slot)'
  <2>1. q.back \in live /\ q.back \in Slots /\ owner[q.back] = e /\ Fits(q.back, q.by, q.slot)
    BY <1>4 DEF Eligible, TypeInv, TypeOK
  <2> QED
    BY <1>1, <1>2, <2>1 DEF Change
<1> QED
  BY <1>2, <1>3, <1>4 DEF Eligible, Exchanges

\* So does an approval that is carried over a change and not overtaken by it.
LEMMA CarriedEligible ==
  ASSUME TypeInv, StillEligible, NEW S, NEW G, Change(S, G), NEW d \in Sessions, Carried(d),
         Deciding(d)', call[d].request \notin stale, call[d].request \notin Overtaken(S, G)
  PROVE  Eligible(Row(d), call[d].to)'
<1>1. /\ Deciding(d) /\ Row(d)' = Row(d) /\ call'[d].to = call[d].to
      /\ Row(d) \in Rows /\ call[d].to \in Employees /\ call[d].request \in Requests
  BY CallType DEF Carried, Deciding
<1>2. PICK q \in Rows, e \in Employees : q = Row(d) /\ e = call[d].to
  BY <1>1
<1>3. Eligible(q, e)
  BY <1>1, <1>2 DEF StillEligible
<1>4. q.slot \notin S /\ q.back \notin S /\ e \notin G /\ q.by \notin G
  BY <1>1, <1>2 DEF Overtaken, Row
<1>5. Eligible(q, e)'
  BY <1>3, <1>4, EligibleStays
<1> QED
  BY <1>1, <1>2, <1>5

LEMMA EligibleNext ==
  ASSUME TypeInv, Fixed, Sole, StillEligible, [Next]_vars
  PROVE  StillEligible'
<1> USE SwapAssumption
<1>1. ASSUME NEW c \in Sessions, NEW r \in Requests, NEW e \in Employees, StartApprove(c, r, e)
      PROVE  StillEligible'
  <2>1. /\ \A d \in Sessions \ {c} : Carried(d) /\ (Deciding(d) => call[d].request # r)
        /\ call'[c].to = e /\ Row(c)' = request[r]
    BY <1>1, StartCarries
  <2>2. Change({}, {}) /\ stale' = stale \ {r}
    BY <1>1 DEF StartApprove, Change, rows
  <2>3. request[r] \in Rows
    BY <1>1 DEF StartApprove, Pending, TypeInv, TypeOK
  <2>4. Eligible(Row(c), call[c].to)'
    <3>1. PICK q \in Rows : q = request[r]
      BY <2>3
    <3>2. Eligible(q, e)'
      BY <1>1, <2>2, <3>1, EligibleStays DEF StartApprove
    <3> QED
      BY <2>1, <3>1, <3>2
  <2>5. ASSUME NEW d \in Sessions \ {c}, Deciding(d)', call'[d].request \notin stale'
        PROVE  Eligible(Row(d), call[d].to)'
    <3>1. Carried(d) /\ call[d].request \notin stale
      BY <2>1, <2>2, <2>5 DEF Carried
    <3>2. call[d].request \notin Overtaken({}, {})
      BY DEF Overtaken
    <3> QED
      BY <2>2, <2>5, <3>1, <3>2, CarriedEligible
  <2> QED
    BY <2>4, <2>5 DEF StillEligible
<1>2. ASSUME ~(\E c \in Sessions, r \in Requests, e \in Employees : StartApprove(c, r, e))
      PROVE  StillEligible'
  <2> SUFFICES ASSUME NEW d \in Sessions, Deciding(d)', call'[d].request \notin stale'
               PROVE  Eligible(Row(d), call[d].to)'
    BY DEF StillEligible
  <2>1. Carried(d) /\ Deciding(d) /\ call'[d].request = call[d].request
    BY <1>2, StepCarries DEF Carried
  <2>2. call[d].request \in Requests
    BY <2>1, CallType DEF Deciding
  <2>3. ASSUME NEW S, NEW G, Change(S, G), stale \subseteq stale',
               call[d].request \in Overtaken(S, G) => call[d].request \in stale'
        PROVE  Eligible(Row(d), call[d].to)'
    BY <2>1, <2>3, CarriedEligible
  <2>4. ASSUME UNCHANGED <<owner, live, stale>> PROVE Eligible(Row(d), call[d].to)'
    <3>1. Change({}, {}) /\ call[d].request \notin Overtaken({}, {})
      BY <2>4 DEF Change, Overtaken
    <3> QED
      BY <2>3, <2>4, <3>1
  <2>5. ASSUME NEW c \in Sessions, Commit(c) PROVE Eligible(Row(d), call[d].to)'
    <3>1. PICK r \in Requests, e \in Employees, q \in Rows :
            r = call[c].request /\ e = call[c].to /\ q = request[r]
      BY <2>5, CallType DEF Commit, At, Row
    <3>2. PICK got \in SUBSET Slots : got = IF Exchanges(q) THEN {q.slot, q.back} ELSE {q.slot}
      <4>1. q.slot \in Slots /\ (Exchanges(q) => q.back \in Slots)
        BY <3>1 DEF Exchanges, Rows
      <4>2. (IF Exchanges(q) THEN {q.slot, q.back} ELSE {q.slot}) \in SUBSET Slots
        BY <4>1
      <4> QED
        BY <4>2
    <3>3. Change(got, {e, q.by})
      BY <2>5, <3>1, <3>2 DEF Commit, Change, TypeInv, TypeOK
    <3>4. stale' = stale \union (Overtaken(got, {e, q.by}) \ {r})
      BY <2>5, <3>1, <3>2 DEF Commit
    <3>5. call[d].request # r
      <4>1. Deciding(c) /\ ~Deciding(c)'
        BY <2>5, CallType DEF Commit, At, End, Deciding, TypeInv, TypeOK
      <4> QED
        BY <2>1, <3>1, <4>1 DEF Sole
    <3> QED
      BY <2>3, <3>3, <3>4, <3>5
  <2>6. ASSUME NEW s \in Slots, owner' = owner, live' = live \ {s},
               stale' = stale \union Overtaken({s}, {})
        PROVE  Eligible(Row(d), call[d].to)'
    <3>1. Change({s}, {})
      BY <2>6 DEF Change
    <3> QED
      BY <2>3, <2>6, <3>1
  <2>7. ASSUME NEW r \in Requests, ApproveCallOff(r) PROVE Eligible(Row(d), call[d].to)'
    <3>1. request[r].slot \in Slots
      BY <2>7 DEF ApproveCallOff, TypeInv, TypeOK
    <3> QED
      BY <2>6, <2>7, <3>1 DEF ApproveCallOff
  <2>8. ASSUME NEW s \in Slots, CancelSlot(s) PROVE Eligible(Row(d), call[d].to)'
    BY <2>6, <2>8 DEF CancelSlot
  <2>9. CASE \/ \E c \in Sessions : TakeSlot(c) \/ WriteAccept(c) \/ Rollback(c)
             \/ \E c \in Sessions, r \in Requests, e \in Employees, b \in Slots \union {None} :
                  StartAccept(c, r, e, b)
             \/ \E r \in Requests : Decline(r)
             \/ \E r \in Requests, k \in Kinds, s \in Slots, e \in Employees \union {None},
                   b \in Slots \union {None} : Request(r, k, s, e, b)
             \/ UNCHANGED vars
    <3>1. UNCHANGED <<owner, live, stale>>
      BY <2>9 DEF TakeSlot, WriteAccept, Rollback, StartAccept, Decline, Request, vars, rows
    <3> QED
      BY <2>4, <3>1
  <2> QED
    BY <1>2, <2>5, <2>7, <2>8, <2>9 DEF Next, Step
<1> QED
  BY <1>1, <1>2

-----------------------------------------------------------------------------
(* What a commit gives to whom. *)

\* Either the evaluation of the request it grants was overtaken, or it still
\* holds.
LEMMA CommitFacts ==
  ASSUME TypeInv, Fixed, StillEligible, NEW c \in Sessions, Commit(c)
  PROVE  \E r \in Requests, e \in Employees, q \in Rows :
           /\ request[r] = q /\ Pending(r) /\ (r \notin stale => Eligible(q, e))
           /\ request'[r].to = e /\ request'[r].status = "approved" /\ request'[r] # None
           /\ \A s \in Slots :
                /\ s = q.slot => owner'[s] = e /\ won'[s] = r
                /\ s = q.back /\ s # q.slot /\ Exchanges(q) => owner'[s] = q.by /\ won'[s] = r
                /\ s # q.slot /\ ~(s = q.back /\ Exchanges(q)) =>
                     owner'[s] = owner[s] /\ won'[s] = won[s]
           /\ r \in stale => r \in stale'
           /\ q.back # None /\ ~Exchanges(q) => r \in spared'
           /\ stale \subseteq stale' /\ spared \subseteq spared' /\ live' = live
<1>1. PICK r \in Requests, e \in Employees, q \in Rows :
        r = call[c].request /\ e = call[c].to /\ q = request[r]
  BY CallType DEF Commit, At, Row
<1>2. Deciding(c)
  BY CallType DEF Commit, At
<1>3. Pending(r) /\ (r \notin stale => Eligible(q, e))
  BY <1>1, <1>2, NoneIsNoRow DEF Fixed, StillEligible, Row, Pending
<1>4. request'[r] = [q EXCEPT !.to = e, !.status = "approved"]
  BY <1>1 DEF Commit, TypeInv, TypeOK
<1>5. request'[r].to = e /\ request'[r].status = "approved" /\ request'[r] # None
  <2>1. [q EXCEPT !.to = e, !.status = "approved"] \in Rows
    BY DEF Rows, Statuses
  <2> QED
    BY <1>4, <2>1, NoneIsNoRow DEF Rows
<1>6. ASSUME NEW s \in Slots
      PROVE  /\ s = q.slot => owner'[s] = e /\ won'[s] = r
             /\ s = q.back /\ s # q.slot /\ Exchanges(q) => owner'[s] = q.by /\ won'[s] = r
             /\ s # q.slot /\ ~(s = q.back /\ Exchanges(q)) =>
                  owner'[s] = owner[s] /\ won'[s] = won[s]
  BY <1>1 DEF Commit
<1>7. /\ stale \subseteq stale' /\ spared \subseteq spared' /\ live' = live
      /\ q.back # None /\ ~Exchanges(q) => r \in spared'
  BY <1>1 DEF Commit
<1> QED
  BY <1>1, <1>3, <1>5, <1>6, <1>7

\* Nothing but a commit, a call-off and a planner's cancel touches a slot, and
\* only a start forgets that a request was overtaken: one that is pending.
LEMMA OtherSteps ==
  ASSUME TypeInv, [Next]_vars, ~(\E c \in Sessions : Commit(c))
  PROVE  /\ owner' = owner /\ live' \subseteq live /\ won' = won /\ spared' = spared
         /\ \A r \in stale : r \in stale' \/ Pending(r)
<1>1. ASSUME NEW c \in Sessions, NEW r \in Requests, NEW e \in Employees, StartApprove(c, r, e)
      PROVE  /\ owner' = owner /\ live' \subseteq live /\ won' = won /\ spared' = spared
             /\ \A q \in stale : q \in stale' \/ Pending(q)
  BY <1>1 DEF StartApprove, rows
<1>2. CASE \/ \E r \in Requests : ApproveCallOff(r)
           \/ \E s \in Slots : CancelSlot(s)
  BY <1>2 DEF ApproveCallOff, CancelSlot
<1>3. CASE \/ \E c \in Sessions : TakeSlot(c) \/ WriteAccept(c) \/ Rollback(c)
           \/ \E c \in Sessions, r \in Requests, e \in Employees, b \in Slots \union {None} :
                StartAccept(c, r, e, b)
           \/ \E r \in Requests : Decline(r)
           \/ \E r \in Requests, k \in Kinds, s \in Slots, e \in Employees \union {None},
                 b \in Slots \union {None} : Request(r, k, s, e, b)
           \/ UNCHANGED vars
  BY <1>3 DEF TakeSlot, WriteAccept, Rollback, StartAccept, Decline, Request, vars, rows
<1> QED
  BY <1>1, <1>2, <1>3, SwapAssumption DEF Next, Step

LEMMA WonNext ==
  ASSUME TypeInv, Fixed, StillEligible, WonDecided, [Next]_vars
  PROVE  WonDecided'
<1> SUFFICES ASSUME NEW s \in Slots, won'[s] # None PROVE Decided(won[s])'
  BY DEF WonDecided
<1>1. ASSUME won'[s] = won[s] PROVE Decided(won[s])'
  <2>1. PICK r \in Requests : r = won[s] /\ Decided(r)
    BY <1>1 DEF WonDecided, TypeInv, TypeOK
  <2>2. Decided(r)'
    BY <2>1, DecidedStays
  <2> QED
    BY <1>1, <2>1, <2>2
<1>2. ASSUME NEW c \in Sessions, Commit(c) PROVE Decided(won[s])'
  <2>1. PICK r \in Requests : /\ request'[r].status = "approved" /\ request'[r] # None
                              /\ won'[s] = r \/ won'[s] = won[s]
    BY <1>2, CommitFacts
  <2> QED
    BY <1>1, <2>1 DEF Decided
<1> QED
  BY <1>1, <1>2, OtherSteps

\* The overlap test of the request being granted has seen everything its
\* winner has, but for what the request exchanges or spares.
LEMMA OverlapNext ==
  ASSUME TypeInv, Fixed, StillEligible, WonDecided, OverlapsNeedStaleness, [Next]_vars
  PROVE  OverlapsNeedStaleness'
<1> SUFFICES ASSUME NEW s \in Slots, NEW t \in Slots, DoublyBooked(s, t)'
             PROVE  {won'[s], won'[t]} \cap (stale' \union spared') # {}
  BY DEF OverlapsNeedStaleness
<1>0. s # t /\ s \in live' /\ t \in live' /\ owner'[s] = owner'[t] /\ Overlap(s, t) /\ Overlap(t, s)
  BY SwapAssumption DEF DoublyBooked, Overlap
<1>1. CASE ~(\E c \in Sessions : Commit(c))
  <2>1. /\ owner' = owner /\ live' \subseteq live /\ won' = won /\ spared' = spared
        /\ \A r \in stale : r \in stale' \/ Pending(r)
    BY <1>1, OtherSteps
  <2>2. DoublyBooked(s, t)
    BY <1>0, <2>1 DEF DoublyBooked
  <2>3. PICK x \in {s, t} : won[x] \in stale \union spared
    BY <2>2 DEF OverlapsNeedStaleness
  <2>4. won[x] \in stale' \union spared'
    BY <2>1, <2>3, SwapAssumption DEF WonDecided, Decided, Pending, TypeInv, TypeOK
  <2> QED
    BY <2>1, <2>4
<1>2. ASSUME NEW c \in Sessions, Commit(c)
      PROVE  {won'[s], won'[t]} \cap (stale' \union spared') # {}
  <2>1. PICK r \in Requests, e \in Employees, q \in Rows :
           /\ request[r] = q /\ Pending(r) /\ (r \notin stale => Eligible(q, e))
           /\ \A x \in Slots :
                /\ x = q.slot => owner'[x] = e /\ won'[x] = r
                /\ x = q.back /\ x # q.slot /\ Exchanges(q) => owner'[x] = q.by /\ won'[x] = r
                /\ x # q.slot /\ ~(x = q.back /\ Exchanges(q)) =>
                     owner'[x] = owner[x] /\ won'[x] = won[x]
           /\ r \in stale => r \in stale'
           /\ q.back # None /\ ~Exchanges(q) => r \in spared'
           /\ stale \subseteq stale' /\ spared \subseteq spared' /\ live' = live
    BY <1>2, CommitFacts
  <2> DEFINE Got(x) == x = q.slot \/ (x = q.back /\ Exchanges(q))
  <2>2. CASE ~Got(s) /\ ~Got(t)
    <3>1. DoublyBooked(s, t) /\ won'[s] = won[s] /\ won'[t] = won[t]
      BY <1>0, <2>1, <2>2 DEF DoublyBooked
    <3> QED
      BY <2>1, <3>1 DEF OverlapsNeedStaleness
  <2>3. CASE r \in stale /\ (Got(s) \/ Got(t))
    BY <2>1, <2>3
  <2>4. ASSUME r \notin stale, NEW x \in Slots, NEW y \in Slots, x # y, x \in live, y \in live,
               owner'[x] = owner'[y], Overlap(x, y), Got(x), ~Got(y)
        PROVE  won'[x] \in spared'
    <3>1. Eligible(q, e) /\ owner'[y] = owner[y] /\ y # q.slot
      BY <2>1, <2>4
    <3>2. CASE x = q.slot
      <4>1. owner[y] = e
        BY <2>1, <2>4, <3>1, <3>2
      <4>2. y = q.back
        BY <2>4, <3>1, <3>2, <4>1 DEF Eligible, Fits
      <4> QED
        BY <2>1, <2>4, <3>2, <4>2, SwapAssumption
    <3>3. CASE x # q.slot
      <4>1. x = q.back /\ Exchanges(q) /\ owner[y] = q.by
        BY <2>1, <2>4, <3>1, <3>3
      <4> QED
        BY <2>4, <3>1, <4>1 DEF Eligible, Fits
    <3> QED
      BY <3>2, <3>3
  <2>5. ASSUME r \notin stale, NEW x \in Slots, NEW y \in Slots, x # y,
               owner'[x] = owner'[y], x = q.slot, y = q.back, Exchanges(q)
        PROVE  FALSE
    <3>1. Eligible(q, e) /\ e = q.by
      BY <2>1, <2>5
    <3> QED
      BY <2>5, <3>1, SwapAssumption DEF Eligible, Fits
  <2>6. CASE r \notin stale /\ Got(s) /\ Got(t)
    BY <1>0, <2>5, <2>6
  <2>7. CASE r \notin stale /\ Got(s) /\ ~Got(t)
    BY <1>0, <2>1, <2>4, <2>7
  <2>8. CASE r \notin stale /\ ~Got(s) /\ Got(t)
    BY <1>0, <2>1, <2>4, <2>8
  <2> QED
    BY <2>2, <2>3, <2>6, <2>7, <2>8
<1> QED
  BY <1>1, <1>2

-----------------------------------------------------------------------------
(* The properties *)

LEMMA InvInit == Init => IInv
<1> SUFFICES ASSUME Init PROVE IInv
  OBVIOUS
<1>1. Fixed /\ Sole /\ StillEligible /\ WonDecided
  BY DEF Init, Fixed, Sole, StillEligible, WonDecided, Deciding
<1>2. OverlapsNeedStaleness
  BY SwapAssumption DEF Init, OverlapsNeedStaleness, DoublyBooked
<1> QED
  BY <1>1, <1>2, TypeInit DEF IInv

LEMMA InvNext == IInv /\ [Next]_vars => IInv'
  BY TypeNext, FixedNext, EligibleNext, WonNext, OverlapNext DEF IInv

LEMMA Invariance == Spec => []IInv
  BY InvInit, InvNext, PTL DEF Spec

\* An employee is booked twice at a time only by a request granted on an
\* evaluation that was overtaken, or by a give-away accepted against a slot.
THEOREM OverlapsStale == Spec => []OverlapsNeedStaleness
<1>1. IInv => OverlapsNeedStaleness
  BY DEF IInv
<1> QED
  BY <1>1, Invariance, PTL

\* Unless the evaluation was overtaken, a slot changes hands only by a
\* request in which its owner gives it away.
THEOREM GiversGive == Spec => SlotsComeFromGivers
<1>1. IInv /\ [Next]_vars =>
        [\A s \in Slots : owner'[s] # owner[s] =>
           \E r \in Requests :
             /\ Pending(r) /\ request'[r].status = "approved"
             /\ \/ s = request[r].slot /\ owner[s] = request[r].by
                \/ s = request[r].back /\ owner[s] = request'[r].to /\ Exchanges(request[r])
                \/ r \in stale]_vars
  <2> SUFFICES ASSUME IInv, [Next]_vars, NEW s \in Slots, owner'[s] # owner[s]
               PROVE  \E r \in Requests :
                        /\ Pending(r) /\ request'[r].status = "approved"
                        /\ \/ s = request[r].slot /\ owner[s] = request[r].by
                           \/ s = request[r].back /\ owner[s] = request'[r].to /\ Exchanges(request[r])
                           \/ r \in stale
    OBVIOUS
  <2>1. PICK c \in Sessions : Commit(c)
    BY OtherSteps DEF IInv
  <2>2. PICK r \in Requests, e \in Employees, q \in Rows :
          /\ request[r] = q /\ Pending(r) /\ (r \notin stale => Eligible(q, e))
          /\ request'[r].to = e /\ request'[r].status = "approved"
          /\ s = q.slot \/ (s = q.back /\ Exchanges(q))
    BY <2>1, CommitFacts DEF IInv
  <2> QED
    BY <2>2 DEF Eligible
<1> QED
  BY <1>1, Invariance, PTL DEF Spec, SlotsComeFromGivers

\* A request is decided once; what is written to it afterwards comes from an
\* accept that had read it before.
THEOREM DecidedOnce == Spec => DecidedIsFinal
<1>1. IInv /\ [Next]_vars =>
        [\A r \in Requests : Decided(r) /\ request'[r] # request[r] =>
           /\ request'[r].status = request[r].status
           /\ \E c \in Sessions : At(c, "write") /\ call[c].request = r]_vars
  BY DecidedNext DEF IInv
<1> QED
  BY <1>1, Invariance, PTL DEF Spec, DecidedIsFinal

=============================================================================
