------------------------ MODULE ShiftOpeningsProofs ------------------------
(***************************************************************************)
(* Proofs about ShiftOpenings, for any number of openings, employees,      *)
(* places and concurrent transactions.                                     *)
(***************************************************************************)
EXTENDS ShiftOpenings, FiniteSetTheorems, TLAPS

-----------------------------------------------------------------------------
(* Types: what a transaction does and how far it is go together. *)

InOrder(c) ==
  /\ c.stage = "opening" => c.op = "accept"
  /\ c.stage = "write" => c.op = "edit"
  /\ c.stage = "commit" => c.op \in {"accept", "claim", "cancel"}
  /\ c.op \in {"accept", "claim"} => c.employee \in Employees

CallsInOrder == \A s \in Sessions : call[s] # None => InOrder(call[s])

TypeInv == TypeOK /\ CallsInOrder

LEMMA BeginType ==
  ASSUME TypeInv, NEW s \in Sessions, NEW op \in {"accept", "claim", "cancel", "edit"},
         NEW o \in Openings, NEW e \in Employees \union {None},
         NEW g \in {"opening", "write", "commit"}, Begin(s, op, o, e, g),
         InOrder([op |-> op, opening |-> o, employee |-> e, stage |-> g])
  PROVE  call' \in [Sessions -> Calls \union {None}] /\ CallsInOrder'
  BY DEF TypeInv, TypeOK, CallsInOrder, Begin, Calls

LEMMA EndType ==
  ASSUME TypeInv, NEW s \in Sessions, End(s)
  PROVE  call' \in [Sessions -> Calls \union {None}] /\ CallsInOrder'
  BY DEF TypeInv, TypeOK, CallsInOrder, End

\* A transaction under way has an opening, and one that decides an employee.
LEMMA CallType ==
  ASSUME TypeInv, NEW s \in Sessions, call[s] # None
  PROVE  /\ call[s] \in Calls /\ call[s].opening \in Openings
         /\ call[s].op \in {"accept", "claim"} => call[s].employee \in Employees
         /\ InOrder(call[s])
  BY DEF TypeInv, TypeOK, CallsInOrder, Calls, InOrder

LEMMA RacesType ==
  ASSUME TypeInv, NEW o \in Openings, NEW e \in Employees, NoteRaces(o, e)
  PROVE  raced' \subseteq Employees \X SUBSET Openings
<1>1. ASSUME NEW t \in Sessions, At(t, "commit") PROVE call[t].opening \in Openings
  BY <1>1, CallType DEF At
<1> QED
  BY <1>1 DEF NoteRaces, Races, TypeInv, TypeOK

LEMMA ExpireType ==
  ASSUME TypeInv, NEW o \in Openings, NEW S
  PROVE  ExpireClaims(o, S) \in [Openings -> [Employees -> ClaimStatuses]]
  BY DEF TypeInv, TypeOK, ExpireClaims, ClaimStatuses

LEMMA TypeInit == Init => TypeInv
  BY OpeningAssumption DEF Init, TypeInv, TypeOK, CallsInOrder, Statuses, ClaimStatuses

LEMMA TypeNext == TypeInv /\ [Next]_vars => TypeInv'
<1> SUFFICES ASSUME TypeInv, [Next]_vars PROVE TypeInv'
  OBVIOUS
<1> USE OpeningAssumption, NoneIsNoCall
<1>1. ASSUME NEW o \in Openings, Create(o) PROVE TypeInv'
  <2>1. /\ status' \in [Openings -> Statuses]
        /\ window' \in [Openings -> Windows \union {None}]
    <3>1. PICK w \in Windows : window' = [window EXCEPT ![o] = w]
      BY <1>1 DEF Create
    <3>2. window' \in [Openings -> Windows \union {None}]
      BY <3>1 DEF TypeInv, TypeOK
    <3> QED
      BY <1>1, <3>2 DEF TypeInv, TypeOK, Create, Statuses
  <2>2. PICK n \in Places, p \in Policies :
          total' = [total EXCEPT ![o] = n] /\ policy' = [policy EXCEPT ![o] = p]
    BY <1>1 DEF Create
  <2>3. /\ total' \in [Openings -> Nat]
        /\ policy' \in [Openings -> {"manager_approval", "first_eligible"}]
    BY <2>2 DEF TypeInv, TypeOK
  <2> QED
    BY <1>1, <2>1, <2>3 DEF TypeInv, TypeOK, CallsInOrder, Create
<1>2. ASSUME NEW o \in Openings, Publish(o) \/ SoftExpire(o) PROVE TypeInv'
  BY <1>2 DEF TypeInv, TypeOK, CallsInOrder, Publish, SoftExpire, Statuses
<1>3. ASSUME NEW o \in Openings, ClosesAt(o) PROVE TypeInv'
  BY <1>3 DEF TypeInv, TypeOK, CallsInOrder, ClosesAt
<1>4. ASSUME NEW o \in Openings, NEW e \in Employees,
             Claim(o, e) \/ Withdraw(o, e) \/ Reject(o, e)
      PROVE  TypeInv'
  <2>1. claim' \in [Openings -> [Employees -> ClaimStatuses]]
    <3>1. PICK new \in ClaimStatuses : SetClaim(o, e, new)
      BY <1>4 DEF Claim, Withdraw, Reject, ClaimStatuses
    <3> QED
      BY <3>1 DEF TypeInv, TypeOK, SetClaim
  <2> QED
    BY <1>4, <2>1 DEF TypeInv, TypeOK, CallsInOrder, Claim, Withdraw, Reject, openingVars
<1>5. ASSUME NEW o \in Openings, NEW e \in Employees, CallOff(o, e) PROVE TypeInv'
  <2>1. slot' \in [Openings -> [Employees -> Windows \union {None}]]
    BY <1>5 DEF TypeInv, TypeOK, CallOff
  <2>2. /\ status' \in [Openings -> Statuses]
        /\ window' \in [Openings -> Windows \union {None}]
        /\ total' \in [Openings -> Nat]
        /\ UNCHANGED <<filled, policy, late>>
    <3>1. CASE UNCHANGED openingVars
      BY <3>1 DEF TypeInv, TypeOK, openingVars
    <3>2. ASSUME NEW n \in Openings,
                 /\ status' = [status EXCEPT ![n] = "open"]
                 /\ window' = [window EXCEPT ![n] = slot[o][e]]
                 /\ total' = [total EXCEPT ![n] = 1]
                 /\ UNCHANGED <<filled, policy, late>>
          PROVE  /\ status' \in [Openings -> Statuses]
                 /\ window' \in [Openings -> Windows \union {None}]
                 /\ total' \in [Openings -> Nat]
                 /\ UNCHANGED <<filled, policy, late>>
      BY <3>2 DEF TypeInv, TypeOK, Statuses
    <3> QED
      BY <1>5, <3>1, <3>2 DEF CallOff
  <2> QED
    BY <1>5, <2>1, <2>2 DEF TypeInv, TypeOK, CallsInOrder, CallOff
<1>6. ASSUME NEW s \in Sessions, NEW o \in Openings, StartEdit(s, o) \/ StartCancel(s, o)
      PROVE  TypeInv'
  <2>1. call' \in [Sessions -> Calls \union {None}] /\ CallsInOrder'
    BY <1>6, BeginType DEF StartEdit, StartCancel, InOrder
  <2> QED
    BY <1>6, <2>1 DEF TypeInv, TypeOK, StartEdit, StartCancel, openingVars
<1>7. ASSUME NEW s \in Sessions, NEW o \in Openings, NEW e \in Employees, StartAccept(s, o, e)
      PROVE  TypeInv'
  <2>1. call' \in [Sessions -> Calls \union {None}] /\ CallsInOrder'
    BY <1>7, BeginType DEF StartAccept, InOrder
  <2> QED
    BY <1>7, <2>1 DEF TypeInv, TypeOK, StartAccept, openingVars
<1>8. ASSUME NEW s \in Sessions, NEW o \in Openings, NEW e \in Employees, ClaimFirst(s, o, e)
      PROVE  TypeInv'
  <2>1. call' \in [Sessions -> Calls \union {None}] /\ CallsInOrder'
    BY <1>8, BeginType DEF ClaimFirst, InOrder
  <2>2. raced' \subseteq Employees \X SUBSET Openings
    BY <1>8, RacesType DEF ClaimFirst
  <2> QED
    BY <1>8, <2>1, <2>2 DEF TypeInv, TypeOK, ClaimFirst, openingVars
<1>9. ASSUME NEW s \in Sessions, WriteEdit(s) PROVE TypeInv'
  <2>1. call' \in [Sessions -> Calls \union {None}] /\ CallsInOrder'
    BY <1>9, EndType DEF WriteEdit
  <2>2. call[s].opening \in Openings
    BY <1>9, CallType DEF WriteEdit, At
  <2>3. PICK w \in Windows, n \in Places, p \in Policies :
          LET o == call[s].opening IN
          /\ window' = [window EXCEPT ![o] = w]
          /\ total' = [total EXCEPT ![o] = IF n > filled[o] THEN n ELSE filled[o]]
          /\ policy' = [policy EXCEPT ![o] = p]
    BY <1>9 DEF WriteEdit
  <2>4. /\ window' \in [Openings -> Windows \union {None}]
        /\ total' \in [Openings -> Nat]
        /\ policy' \in [Openings -> {"manager_approval", "first_eligible"}]
    BY <2>2, <2>3 DEF TypeInv, TypeOK
  <2>5. late' \subseteq Closing
    BY <1>9 DEF TypeInv, TypeOK, WriteEdit
  <2> QED
    BY <1>9, <2>1, <2>4, <2>5 DEF TypeInv, TypeOK, WriteEdit
<1>10. ASSUME NEW s \in Sessions, CommitCancel(s) PROVE TypeInv'
  <2>1. call' \in [Sessions -> Calls \union {None}] /\ CallsInOrder'
    BY <1>10, EndType DEF CommitCancel
  <2>2. claim' \in [Openings -> [Employees -> ClaimStatuses]]
    BY <1>10, CallType, ExpireType DEF CommitCancel, At
  <2> QED
    BY <1>10, <2>1, <2>2 DEF TypeInv, TypeOK, CommitCancel, Statuses
<1>11. ASSUME NEW s \in Sessions, LockOpening(s) PROVE TypeInv'
  <2>1. call[s] \in Calls /\ call[s].op = "accept" /\ call[s].employee \in Employees
    BY <1>11, CallType DEF LockOpening, At, InOrder
  <2>2. call' \in [Sessions -> Calls \union {None}]
    BY <1>11, <2>1 DEF TypeInv, TypeOK, LockOpening, Calls
  <2>3. CallsInOrder'
    BY <1>11, <2>1 DEF TypeInv, TypeOK, LockOpening, CallsInOrder, InOrder, Calls
  <2>4. raced' \subseteq Employees \X SUBSET Openings
    BY <1>11, <2>1, CallType, RacesType DEF LockOpening, At
  <2> QED
    BY <1>11, <2>2, <2>3, <2>4 DEF TypeInv, TypeOK, LockOpening, openingVars
<1>12. ASSUME NEW s \in Sessions, Refuse(s) \/ DeadlockAbort(s) PROVE TypeInv'
  <2>1. call' \in [Sessions -> Calls \union {None}] /\ CallsInOrder'
    BY <1>12, EndType DEF Refuse, DeadlockAbort
  <2> QED
    BY <1>12, <2>1 DEF TypeInv, TypeOK, Refuse, DeadlockAbort, openingVars
<1>13. ASSUME NEW s \in Sessions, Commit(s) PROVE TypeInv'
  <2>1. call' \in [Sessions -> Calls \union {None}] /\ CallsInOrder'
    BY <1>13, EndType DEF Commit
  <2>2. call[s].opening \in Openings /\ call[s].employee \in Employees
    BY <1>13, CallType DEF Commit, At, InOrder
  <2>3. claim' \in [Openings -> [Employees -> ClaimStatuses]]
    <3> DEFINE o == call[s].opening
               e == call[s].employee
               losers == IF filled[o] + 1 >= total[o] THEN Pending(o) \ {e} ELSE {}
    <3>1. ExpireClaims(o, losers) \in [Openings -> [Employees -> ClaimStatuses]]
      BY <2>2, ExpireType
    <3>2. claim' = [ExpireClaims(o, losers) EXCEPT ![o][e] = "accepted"]
      BY <1>13 DEF Commit
    <3> HIDE DEF losers
    <3> QED
      BY <2>2, <3>1, <3>2 DEF ClaimStatuses
  <2>4. slot' \in [Openings -> [Employees -> Windows \union {None}]]
    BY <1>13, <2>2 DEF TypeInv, TypeOK, Commit
  <2>5. filled' \in [Openings -> Nat]
    BY <1>13, <2>2 DEF TypeInv, TypeOK, Commit
  <2>6. status' \in [Openings -> Statuses]
    BY <1>13, <2>2 DEF TypeInv, TypeOK, Commit, Statuses
  <2> QED
    BY <1>13, <2>1, <2>3, <2>4, <2>5, <2>6 DEF TypeInv, TypeOK, Commit
<1>14. CASE UNCHANGED vars
  BY <1>14 DEF TypeInv, TypeOK, CallsInOrder, vars, openingVars
<1> QED
  BY <1>1, <1>2, <1>3, <1>4, <1>5, <1>6, <1>7, <1>8, <1>9, <1>10, <1>11, <1>12, <1>13, <1>14
     DEF Next, Step

\* The state keeps its types whatever transactions run.
THEOREM TypeCorrect == Spec => []TypeOK
<1>1. TypeInv => TypeOK
  BY DEF TypeInv
<1> QED
  BY <1>1, TypeInit, TypeNext, PTL DEF Spec

-----------------------------------------------------------------------------
(* What the writing steps change, place by place. *)

LEMMA EndAt ==
  ASSUME TypeInv, NEW s \in Sessions, End(s)
  PROVE  \A t \in Sessions : call'[t] = IF t = s THEN None ELSE call[t]
  BY DEF TypeInv, TypeOK, End

LEMMA BeginAt ==
  ASSUME TypeInv, NEW s \in Sessions, NEW op, NEW o, NEW e, NEW g, Begin(s, op, o, e, g)
  PROVE  /\ call[s] = None
         /\ \A t \in Sessions : t # s => call'[t] = call[t]
         /\ call'[s] = [op |-> op, opening |-> o, employee |-> e, stage |-> g]
  BY DEF TypeInv, TypeOK, Begin

LEMMA SetClaimAt ==
  ASSUME TypeInv, NEW o \in Openings, NEW e \in Employees, NEW new, SetClaim(o, e, new)
  PROVE  \A p \in Openings, f \in Employees :
           claim'[p][f] = IF p = o /\ f = e THEN new ELSE claim[p][f]
  BY DEF TypeInv, TypeOK, SetClaim

LEMMA ExpireAt ==
  ASSUME TypeInv, NEW o \in Openings, NEW S
  PROVE  \A p \in Openings, f \in Employees :
           ExpireClaims(o, S)[p][f] = IF p = o /\ f \in S THEN "expired" ELSE claim[p][f]
  BY DEF TypeInv, TypeOK, ExpireClaims

LEMMA LockAt ==
  ASSUME TypeInv, NEW s \in Sessions, LockOpening(s)
  PROVE  /\ call[s] # None /\ call[s].op = "accept" /\ call[s].stage = "opening"
         /\ call[s].opening \in Openings /\ call[s].employee \in Employees
         /\ \A t \in Sessions : t # s => call'[t] = call[t]
         /\ call'[s] = [op |-> "accept", opening |-> call[s].opening,
                        employee |-> call[s].employee, stage |-> "commit"]
<1>1. /\ call[s] # None /\ call[s] \in Calls /\ call[s].op = "accept"
      /\ call[s].stage = "opening"
      /\ call[s].opening \in Openings /\ call[s].employee \in Employees
  BY CallType DEF LockOpening, At, InOrder
<1>2. call' = [call EXCEPT ![s] = [call[s] EXCEPT !.stage = "commit"]]
  BY DEF LockOpening
<1> QED
  BY <1>1, <1>2 DEF TypeInv, TypeOK, Calls

Losers(o, e) == IF filled[o] + 1 >= total[o] THEN Pending(o) \ {e} ELSE {}

LEMMA CommitAt ==
  ASSUME TypeInv, NEW s \in Sessions, Commit(s),
         NEW o, o = call[s].opening, NEW e, e = call[s].employee
  PROVE  /\ o \in Openings /\ e \in Employees
         /\ call[s] # None /\ call[s].stage = "commit" /\ call[s].op \in {"accept", "claim"}
         /\ \A f \in Losers(o, e) : ClaimFree(o, f)
         /\ \A t \in Sessions : call'[t] = IF t = s THEN None ELSE call[t]
         /\ \A p \in Openings, f \in Employees :
              claim'[p][f] = IF p = o /\ f = e THEN "accepted"
                             ELSE IF p = o /\ f \in Losers(o, e) THEN "expired"
                             ELSE claim[p][f]
         /\ \A p \in Openings, f \in Employees :
              slot'[p][f] = IF p = o /\ f = e THEN window[o] ELSE slot[p][f]
         /\ \A p \in Openings : filled'[p] = IF p = o THEN filled[o] + 1 ELSE filled[p]
         /\ \A p \in Openings :
              status'[p] = IF p = o /\ filled[o] + 1 >= total[o] THEN "filled" ELSE status[p]
         /\ UNCHANGED <<window, total, raced>>
<1>1. /\ o \in Openings /\ e \in Employees
      /\ call[s] # None /\ call[s].stage = "commit" /\ call[s].op \in {"accept", "claim"}
  BY CallType DEF Commit, At, InOrder
<1>2. \A f \in Losers(o, e) : ClaimFree(o, f)
  BY DEF Commit, Losers
<1>3. \A t \in Sessions : call'[t] = IF t = s THEN None ELSE call[t]
  BY EndAt DEF Commit
<1>4. \A p \in Openings, f \in Employees :
        claim'[p][f] = IF p = o /\ f = e THEN "accepted"
                       ELSE IF p = o /\ f \in Losers(o, e) THEN "expired"
                       ELSE claim[p][f]
  <2>1. claim' = [ExpireClaims(o, Losers(o, e)) EXCEPT ![o][e] = "accepted"]
    BY DEF Commit, Losers
  <2>2. ExpireClaims(o, Losers(o, e)) \in [Openings -> [Employees -> ClaimStatuses]]
    BY <1>1, ExpireType
  <2> QED
    BY <1>1, <2>1, <2>2, ExpireAt
<1>5. \A p \in Openings, f \in Employees :
        slot'[p][f] = IF p = o /\ f = e THEN window[o] ELSE slot[p][f]
  BY <1>1 DEF Commit, TypeInv, TypeOK
<1>6. \A p \in Openings : filled'[p] = IF p = o THEN filled[o] + 1 ELSE filled[p]
  BY <1>1 DEF Commit, TypeInv, TypeOK
<1>7. \A p \in Openings :
        status'[p] = IF p = o /\ filled[o] + 1 >= total[o] THEN "filled" ELSE status[p]
  BY <1>1 DEF Commit, TypeInv, TypeOK
<1>8. UNCHANGED <<window, total, raced>>
  BY DEF Commit
<1> QED
  BY <1>1, <1>2, <1>3, <1>4, <1>5, <1>6, <1>7, <1>8

-----------------------------------------------------------------------------
(* Locks: one transaction at a time is about to commit on an opening, and  *)
(* one accept has a claim, which is pending as long as it does.            *)

OneHolder ==
  \A s, t \in Sessions :
    At(s, "commit") /\ At(t, "commit") /\ call[s].opening = call[t].opening => s = t

\* How a step may change what transactions are under way.
CallChange ==
  \/ UNCHANGED call
  \/ \E s \in Sessions :
       /\ \A t \in Sessions : t # s => call'[t] = call[t]
       /\ ~At(s, "commit")' \/ OpeningFree(call'[s].opening)
       /\ \/ call'[s] = None \/ call'[s].op # "accept"
          \/ HoldsClaim(s, call'[s].opening, call'[s].employee)
          \/ /\ ClaimFree(call'[s].opening, call'[s].employee)
             /\ claim[call'[s].opening][call'[s].employee] = "pending"
             /\ UNCHANGED claim

LEMMA CallChanges == ASSUME TypeInv, [Next]_vars PROVE CallChange
<1>1. ASSUME NEW s \in Sessions, End(s) PROVE CallChange
  BY <1>1, EndAt DEF CallChange, At
<1>2. ASSUME NEW s \in Sessions, NEW o \in Openings, StartEdit(s, o) PROVE CallChange
  <2>1. Begin(s, "edit", o, None, "write")
    BY <1>2 DEF StartEdit
  <2>2. /\ \A t \in Sessions : t # s => call'[t] = call[t]
        /\ call'[s] = [op |-> "edit", opening |-> o, employee |-> None, stage |-> "write"]
    BY <2>1, BeginAt
  <2> QED
    BY <2>1, <2>2 DEF CallChange, At
<1>3. ASSUME NEW s \in Sessions, NEW o \in Openings, StartCancel(s, o) PROVE CallChange
  <2>1. Begin(s, "cancel", o, None, "commit") /\ OpeningFree(o)
    BY <1>3 DEF StartCancel
  <2>2. /\ \A t \in Sessions : t # s => call'[t] = call[t]
        /\ call'[s] = [op |-> "cancel", opening |-> o, employee |-> None, stage |-> "commit"]
    BY <2>1, BeginAt
  <2> QED
    BY <2>1, <2>2 DEF CallChange, At
<1>4. ASSUME NEW s \in Sessions, NEW o \in Openings, NEW e \in Employees, StartAccept(s, o, e)
      PROVE  CallChange
  <2>1. /\ Begin(s, "accept", o, e, "opening")
        /\ ClaimFree(o, e) /\ claim[o][e] = "pending" /\ UNCHANGED claim
    BY <1>4 DEF StartAccept
  <2>2. /\ \A t \in Sessions : t # s => call'[t] = call[t]
        /\ call'[s] = [op |-> "accept", opening |-> o, employee |-> e, stage |-> "opening"]
    BY <2>1, BeginAt
  <2> QED
    BY <2>1, <2>2 DEF CallChange, At
<1>5. ASSUME NEW s \in Sessions, NEW o \in Openings, NEW e \in Employees, ClaimFirst(s, o, e)
      PROVE  CallChange
  <2>1. Begin(s, "claim", o, e, "commit") /\ OpeningFree(o)
    BY <1>5 DEF ClaimFirst
  <2>2. /\ \A t \in Sessions : t # s => call'[t] = call[t]
        /\ call'[s] = [op |-> "claim", opening |-> o, employee |-> e, stage |-> "commit"]
    BY <2>1, BeginAt
  <2> QED
    BY <2>1, <2>2 DEF CallChange, At
<1>6. ASSUME NEW s \in Sessions, LockOpening(s) PROVE CallChange
  BY <1>6, LockAt DEF CallChange, At, LockOpening, HoldsClaim
<1>7. ASSUME NEW s \in Sessions, Step(s) PROVE CallChange
  BY <1>1, <1>6, <1>7 DEF Step, WriteEdit, CommitCancel, Refuse, Commit, DeadlockAbort
<1>8. ASSUME NEW o \in Openings, Create(o) \/ Publish(o) \/ ClosesAt(o) \/ SoftExpire(o)
      PROVE  CallChange
  BY <1>8 DEF CallChange, Create, Publish, ClosesAt, SoftExpire
<1>9. ASSUME NEW o \in Openings, NEW e \in Employees,
             Claim(o, e) \/ Withdraw(o, e) \/ Reject(o, e) \/ CallOff(o, e)
      PROVE  CallChange
  BY <1>9 DEF CallChange, Claim, Withdraw, Reject, CallOff
<1>10. CASE UNCHANGED vars
  BY <1>10 DEF CallChange, vars
<1> QED
  BY <1>2, <1>3, <1>4, <1>5, <1>7, <1>8, <1>9, <1>10 DEF Next

LEMMA OneHolderNext == ASSUME TypeInv, OneHolder, [Next]_vars PROVE OneHolder'
<1>1. CASE UNCHANGED call
  BY <1>1 DEF OneHolder, At
<1>2. ASSUME NEW s \in Sessions,
             \A t \in Sessions : t # s => call'[t] = call[t],
             ~At(s, "commit")' \/ OpeningFree(call'[s].opening)
      PROVE  OneHolder'
  BY <1>2 DEF OneHolder, At, OpeningFree, HoldsOpening
<1> QED
  BY <1>1, <1>2, CallChanges DEF CallChange

Deciding(s) == At(s, "commit") /\ call[s].op # "cancel"

\* A transaction about to take a place found one on an open opening, and
\* nothing changes that until it commits.
Validated ==
  \A s \in Sessions : Deciding(s) =>
    LET o == call[s].opening IN
    /\ status[o] = "open" /\ filled[o] < total[o]
    /\ call[s].op = "claim" => claim[o][call[s].employee] \notin {"pending", "accepted"}

\* The same of one transaction, and the window it validated, after a step.
StillValid(t, o, e) ==
  /\ status'[o] = "open" /\ filled'[o] < total'[o] /\ window'[o] = window[o]
  /\ call[t].op = "claim" => claim'[o][e] \notin {"pending", "accepted"}

LEMMA Undisturbed ==
  ASSUME TypeInv, OneHolder, Validated, [Next]_vars, NEW t \in Sessions,
         Deciding(t), call'[t] = call[t],
         NEW o, o = call[t].opening, NEW e, e = call[t].employee
  PROVE  StillValid(t, o, e)
<1>0. /\ o \in Openings /\ e \in Employees /\ call[t] # None
      /\ HoldsOpening(t, o) /\ ~OpeningFree(o)
      /\ status[o] = "open" /\ filled[o] < total[o]
      /\ call[t].op = "claim" => claim[o][e] \notin {"pending", "accepted"}
  BY CallType DEF Deciding, At, Validated, InOrder, HoldsOpening, OpeningFree
<1>1. ASSUME NEW p \in Openings, Create(p) PROVE StillValid(t, o, e)
  <2>1. p # o
    BY <1>0, <1>1 DEF Create
  <2> QED
    BY <1>0, <1>1, <2>1 DEF Create, StillValid, TypeInv, TypeOK
<1>2. ASSUME NEW p \in Openings, Publish(p) \/ SoftExpire(p) PROVE StillValid(t, o, e)
  <2>1. p # o
    BY <1>0, <1>2 DEF Publish, SoftExpire
  <2> QED
    BY <1>0, <1>2, <2>1 DEF Publish, SoftExpire, StillValid, TypeInv, TypeOK
<1>3. ASSUME NEW p \in Openings, ClosesAt(p) PROVE StillValid(t, o, e)
  BY <1>0, <1>3 DEF ClosesAt, StillValid
<1>4. ASSUME NEW p \in Openings, NEW f \in Employees, Claim(p, f) PROVE StillValid(t, o, e)
  <2>1. p # o /\ SetClaim(p, f, "pending") /\ UNCHANGED openingVars
    BY <1>0, <1>4 DEF Claim
  <2> QED
    BY <1>0, <2>1, SetClaimAt DEF StillValid, openingVars
<1>5. ASSUME NEW p \in Openings, NEW f \in Employees, Withdraw(p, f) \/ Reject(p, f)
      PROVE  StillValid(t, o, e)
  <2>1. PICK new \in {"withdrawn", "rejected"} : SetClaim(p, f, new) /\ UNCHANGED openingVars
    BY <1>5 DEF Withdraw, Reject
  <2> QED
    BY <1>0, <2>1, SetClaimAt DEF StillValid, openingVars
<1>6. ASSUME NEW p \in Openings, NEW f \in Employees, CallOff(p, f) PROVE StillValid(t, o, e)
  <2>1. CASE UNCHANGED openingVars
    BY <1>0, <1>6, <2>1 DEF CallOff, StillValid, openingVars
  <2>2. ASSUME NEW n \in Openings, status[n] = "none",
               status' = [status EXCEPT ![n] = "open"],
               window' = [window EXCEPT ![n] = slot[p][f]],
               total' = [total EXCEPT ![n] = 1],
               UNCHANGED <<filled, policy, late>>
        PROVE  StillValid(t, o, e)
    <3>1. n # o
      BY <1>0, <2>2
    <3> QED
      BY <1>0, <1>6, <2>2, <3>1 DEF CallOff, StillValid, TypeInv, TypeOK
  <2> QED
    BY <1>6, <2>1, <2>2 DEF CallOff
<1>7. ASSUME NEW s \in Sessions, NEW p \in Openings,
             StartEdit(s, p) \/ StartCancel(s, p)
             \/ \E f \in Employees : StartAccept(s, p, f) \/ ClaimFirst(s, p, f)
      PROVE  StillValid(t, o, e)
  BY <1>0, <1>7 DEF StartEdit, StartCancel, StartAccept, ClaimFirst, StillValid, openingVars
<1>8. ASSUME NEW s \in Sessions, WriteEdit(s) PROVE StillValid(t, o, e)
  <2>1. call[s].opening # o /\ call[s].opening \in Openings
    BY <1>0, <1>8, CallType DEF WriteEdit, At
  <2>2. window'[o] = window[o] /\ total'[o] = total[o] /\ UNCHANGED <<status, filled, claim>>
    BY <1>0, <1>8, <2>1 DEF WriteEdit, TypeInv, TypeOK
  <2> QED
    BY <1>0, <2>2 DEF StillValid
<1>9. ASSUME NEW s \in Sessions, CommitCancel(s) PROVE StillValid(t, o, e)
  <2>1. call[s].opening # o /\ call[s].opening \in Openings
    BY <1>0, <1>9, CallType DEF CommitCancel, At, OneHolder, HoldsOpening, Deciding
  <2>2. claim'[o][e] = claim[o][e]
    BY <1>0, <1>9, <2>1, ExpireAt DEF CommitCancel
  <2> QED
    BY <1>0, <1>9, <2>1, <2>2 DEF CommitCancel, StillValid, TypeInv, TypeOK
<1>10. ASSUME NEW s \in Sessions, Commit(s) PROVE StillValid(t, o, e)
  <2>1. s # t
    BY <1>0, <1>10, CommitAt
  <2>2. call[s].opening # o
    BY <1>0, <1>10, <2>1 DEF Commit, At, OneHolder, HoldsOpening
  <2> QED
    BY <1>0, <1>10, <2>2, CommitAt DEF StillValid
<1>11. ASSUME NEW s \in Sessions, LockOpening(s) \/ Refuse(s) \/ DeadlockAbort(s)
       PROVE  StillValid(t, o, e)
  BY <1>0, <1>11 DEF LockOpening, Refuse, DeadlockAbort, StillValid, openingVars
<1>12. CASE UNCHANGED vars
  BY <1>0, <1>12 DEF StillValid, vars, openingVars
<1> QED
  BY <1>1, <1>2, <1>3, <1>4, <1>5, <1>6, <1>7, <1>8, <1>9, <1>10, <1>11, <1>12 DEF Next, Step

\* A transaction that is about to take a place and was not a step before has
\* just made sure of it, with the opening's row in hand.
NewDecision(t, o, e) ==
  /\ status[o] = "open" /\ filled[o] < total[o] /\ ~Overlapping(o, e)
  /\ call'[t].op = "claim" => claim[o][e] \notin {"pending", "accepted"}
  /\ NoteRaces(o, e)
  /\ UNCHANGED <<openingVars, claim, slot>>
  /\ \A s \in Sessions : s # t => call'[s] = call[s]
  /\ OpeningFree(o)

LEMMA NewDecisions ==
  ASSUME TypeInv, [Next]_vars, NEW t \in Sessions, Deciding(t)',
         ~(Deciding(t) /\ call'[t] = call[t]),
         NEW o, o = call'[t].opening, NEW e, e = call'[t].employee
  PROVE  NewDecision(t, o, e)
<1>1. call'[t] # None /\ call'[t].stage = "commit" /\ call'[t].op # "cancel"
      /\ call'[t] # call[t]
  BY DEF Deciding, At
<1>2. ASSUME NEW s \in Sessions, End(s) PROVE FALSE
  BY <1>1, <1>2, EndAt
<1>3. ASSUME NEW s \in Sessions, NEW p \in Openings, StartEdit(s, p) PROVE FALSE
  <2>1. Begin(s, "edit", p, None, "write")
    BY <1>3 DEF StartEdit
  <2>2. /\ \A r \in Sessions : r # s => call'[r] = call[r]
        /\ call'[s] = [op |-> "edit", opening |-> p, employee |-> None, stage |-> "write"]
    BY <2>1, BeginAt
  <2> QED
    BY <1>1, <2>2
<1>4. ASSUME NEW s \in Sessions, NEW p \in Openings, StartCancel(s, p) PROVE FALSE
  <2>1. Begin(s, "cancel", p, None, "commit")
    BY <1>4 DEF StartCancel
  <2>2. /\ \A r \in Sessions : r # s => call'[r] = call[r]
        /\ call'[s] = [op |-> "cancel", opening |-> p, employee |-> None, stage |-> "commit"]
    BY <2>1, BeginAt
  <2> QED
    BY <1>1, <2>2
<1>5. ASSUME NEW s \in Sessions, NEW p \in Openings, NEW f \in Employees, StartAccept(s, p, f)
      PROVE  FALSE
  <2>1. Begin(s, "accept", p, f, "opening")
    BY <1>5 DEF StartAccept
  <2>2. /\ \A r \in Sessions : r # s => call'[r] = call[r]
        /\ call'[s] = [op |-> "accept", opening |-> p, employee |-> f, stage |-> "opening"]
    BY <2>1, BeginAt
  <2> QED
    BY <1>1, <2>2
<1>6. ASSUME NEW s \in Sessions, NEW p \in Openings, NEW f \in Employees, ClaimFirst(s, p, f)
      PROVE  NewDecision(t, o, e)
  <2>1. Begin(s, "claim", p, f, "commit")
    BY <1>6 DEF ClaimFirst
  <2>2. /\ \A r \in Sessions : r # s => call'[r] = call[r]
        /\ call'[s] = [op |-> "claim", opening |-> p, employee |-> f, stage |-> "commit"]
    BY <2>1, BeginAt
  <2>3. s = t /\ o = p /\ e = f
    BY <1>1, <2>2
  <2> QED
    BY <1>6, <2>2, <2>3 DEF ClaimFirst, NewDecision, Eligible
<1>7. ASSUME NEW s \in Sessions, LockOpening(s) PROVE NewDecision(t, o, e)
  <2>1. /\ \A r \in Sessions : r # s => call'[r] = call[r]
        /\ call'[s] = [op |-> "accept", opening |-> call[s].opening,
                       employee |-> call[s].employee, stage |-> "commit"]
    BY <1>7, LockAt
  <2>2. s = t
    BY <1>1, <2>1
  <2>3. o = call[s].opening /\ e = call[s].employee /\ call'[t].op = "accept"
    BY <2>1, <2>2
  <2> QED
    BY <1>7, <2>1, <2>2, <2>3 DEF LockOpening, NewDecision, Eligible
<1>8. ASSUME NEW s \in Sessions, Step(s) PROVE NewDecision(t, o, e)
  BY <1>2, <1>7, <1>8 DEF Step, WriteEdit, CommitCancel, Refuse, Commit, DeadlockAbort
<1>9. ASSUME NEW p \in Openings, Create(p) \/ Publish(p) \/ ClosesAt(p) \/ SoftExpire(p)
      PROVE  FALSE
  BY <1>1, <1>9 DEF Create, Publish, ClosesAt, SoftExpire
<1>10. ASSUME NEW p \in Openings, NEW f \in Employees,
              Claim(p, f) \/ Withdraw(p, f) \/ Reject(p, f) \/ CallOff(p, f)
       PROVE  FALSE
  BY <1>1, <1>10 DEF Claim, Withdraw, Reject, CallOff
<1>11. ~UNCHANGED vars
  BY <1>1 DEF vars
<1> QED
  BY <1>3, <1>4, <1>5, <1>6, <1>8, <1>9, <1>10, <1>11 DEF Next

LEMMA ValidatedNext ==
  ASSUME TypeInv, OneHolder, Validated, [Next]_vars PROVE Validated'
<1>1. SUFFICES ASSUME NEW t \in Sessions, Deciding(t)'
               PROVE  LET o == call'[t].opening IN
                      /\ status'[o] = "open" /\ filled'[o] < total'[o]
                      /\ call'[t].op = "claim" =>
                           claim'[o][call'[t].employee] \notin {"pending", "accepted"}
  BY DEF Validated
<1>2. CASE Deciding(t) /\ call'[t] = call[t]
  BY <1>2, Undisturbed DEF StillValid
<1>3. CASE ~(Deciding(t) /\ call'[t] = call[t])
  <2>1. NewDecision(t, call'[t].opening, call'[t].employee)
    BY <1>1, <1>3, NewDecisions
  <2> QED
    BY <2>1 DEF NewDecision, openingVars
<1> QED
  BY <1>2, <1>3

ClaimsHeld ==
  \A s \in Sessions : call[s] # None /\ call[s].op = "accept" =>
    /\ claim[call[s].opening][call[s].employee] = "pending"
    /\ \A t \in Sessions : HoldsClaim(t, call[s].opening, call[s].employee) => t = s

\* A claim stops being pending when nobody has its row, or by whoever has it.
LEMMA PendingLost ==
  ASSUME TypeInv, Validated, [Next]_vars, NEW p \in Openings, NEW f \in Employees,
         claim[p][f] = "pending", claim'[p][f] # "pending"
  PROVE  ClaimFree(p, f) \/ \E s \in Sessions : HoldsClaim(s, p, f) /\ call'[s] = None
<1>1. ASSUME NEW o \in Openings, NEW e \in Employees, Claim(o, e) PROVE FALSE
  BY <1>1, SetClaimAt DEF Claim
<1>2. ASSUME NEW o \in Openings, NEW e \in Employees, Withdraw(o, e) \/ Reject(o, e)
      PROVE  ClaimFree(p, f)
  <2>1. PICK new : SetClaim(o, e, new)
    BY <1>2 DEF Withdraw, Reject
  <2>2. p = o /\ f = e
    BY <2>1, SetClaimAt
  <2> QED
    BY <1>2, <2>2 DEF Withdraw, Reject
<1>3. ASSUME NEW s \in Sessions, CommitCancel(s) PROVE ClaimFree(p, f)
  <2>1. call[s].opening \in Openings
    BY <1>3, CallType DEF CommitCancel, At
  <2>2. p = call[s].opening /\ f \in Pending(p)
    BY <1>3, <2>1, ExpireAt DEF CommitCancel
  <2> QED
    BY <1>3, <2>2 DEF CommitCancel
<1>4. ASSUME NEW s \in Sessions, Commit(s)
      PROVE  ClaimFree(p, f) \/ (HoldsClaim(s, p, f) /\ call'[s] = None)
  <2> DEFINE o == call[s].opening
             e == call[s].employee
  <2>1. CASE p = o /\ f = e
    <3>1. call[s] # None /\ call[s].op \in {"accept", "claim"} /\ call'[s] = None
      BY <1>4, CommitAt
    <3>2. call[s].op # "claim"
      BY <1>4, <2>1 DEF Commit, Validated, Deciding
    <3> QED
      BY <2>1, <3>1, <3>2 DEF HoldsClaim
  <2>2. CASE p = o /\ f \in Losers(o, e)
    BY <1>4, <2>2, CommitAt
  <2> QED
    BY <1>4, <2>1, <2>2, CommitAt
<1>5. CASE UNCHANGED claim
  BY <1>5
<1> QED
  BY <1>1, <1>2, <1>3, <1>4, <1>5
     DEF Next, Step, vars, Create, Publish, ClosesAt, SoftExpire, CallOff, StartEdit,
         StartCancel, StartAccept, ClaimFirst, WriteEdit, LockOpening, Refuse, DeadlockAbort

LEMMA ClaimsHeldNext ==
  ASSUME TypeInv, Validated, ClaimsHeld, [Next]_vars PROVE ClaimsHeld'
<1>1. SUFFICES ASSUME NEW t \in Sessions, call'[t] # None, call'[t].op = "accept",
                      NEW o, o = call'[t].opening, NEW e, e = call'[t].employee
               PROVE  /\ claim'[o][e] = "pending"
                      /\ \A r \in Sessions : HoldsClaim(r, o, e)' => r = t
  BY DEF ClaimsHeld
<1>2. o \in Openings /\ e \in Employees
  <2>1. TypeInv'
    BY TypeNext
  <2> QED
    BY <1>1, <2>1 DEF TypeInv, TypeOK, CallsInOrder, InOrder, Calls
<1>3. \A r \in Sessions : HoldsClaim(r, o, e)' => r = t
  <2>1. CASE UNCHANGED call
    BY <1>1, <2>1 DEF ClaimsHeld, HoldsClaim
  <2>2. ASSUME NEW s \in Sessions,
               \A r \in Sessions : r # s => call'[r] = call[r],
               \/ call'[s] = None \/ call'[s].op # "accept"
               \/ HoldsClaim(s, call'[s].opening, call'[s].employee)
               \/ ClaimFree(call'[s].opening, call'[s].employee)
        PROVE  \A r \in Sessions : HoldsClaim(r, o, e)' => r = t
    BY <1>1, <2>2 DEF ClaimsHeld, HoldsClaim, ClaimFree
  <2> QED
    BY <2>1, <2>2, CallChanges DEF CallChange
<1>4. \/ HoldsClaim(t, o, e) /\ claim[o][e] = "pending"
      \/ claim[o][e] = "pending" /\ UNCHANGED claim
  BY <1>1, CallChanges DEF CallChange, ClaimsHeld, HoldsClaim
<1>5. claim'[o][e] = "pending"
  <2>1. SUFFICES ASSUME claim'[o][e] # "pending" PROVE FALSE
    OBVIOUS
  <2>2. HoldsClaim(t, o, e) /\ claim[o][e] = "pending"
    BY <1>4, <2>1
  <2>3. PICK s \in Sessions : HoldsClaim(s, o, e) /\ call'[s] = None
    BY <1>2, <2>1, <2>2, PendingLost DEF ClaimFree
  <2>4. s = t
    BY <2>2, <2>3 DEF ClaimsHeld, HoldsClaim
  <2> QED
    BY <1>1, <2>3, <2>4
<1> QED
  BY <1>3, <1>5

-----------------------------------------------------------------------------
(* Counting: only a commit takes a place. *)

Accepted(o) == {e \in Employees : claim[o][e] = "accepted"}

\* An opening nobody created yet has nobody.
Untaken == \A o \in Openings : status[o] = "none" => filled[o] = 0

\* What a step that takes no place may do.
QuietStep ==
  /\ UNCHANGED filled
  /\ \A o \in Openings :
       /\ total'[o] = total[o] \/ total'[o] >= filled[o] \/ status[o] = "none"
       /\ status'[o] = "none" => status[o] = "none"
       /\ status'[o] = "filled" => status[o] = "filled"
  /\ \A o \in Openings, e \in Employees :
       /\ claim'[o][e] = "accepted" <=> claim[o][e] = "accepted"
       /\ claim'[o][e] = "pending" => claim[o][e] = "pending" \/ status'[o] # "filled"

LEMMA QuietOrCommit ==
  ASSUME TypeInv, [Next]_vars PROVE QuietStep \/ \E s \in Sessions : Commit(s)
<1>1. ASSUME NEW o \in Openings, Create(o) PROVE QuietStep
  <2>1. PICK n \in Places : total' = [total EXCEPT ![o] = n]
    BY <1>1 DEF Create
  <2> QED
    BY <1>1, <2>1 DEF Create, QuietStep, TypeInv, TypeOK
<1>2. ASSUME NEW o \in Openings, Publish(o) \/ SoftExpire(o) PROVE QuietStep
  BY <1>2 DEF Publish, SoftExpire, QuietStep, TypeInv, TypeOK
<1>3. ASSUME NEW o \in Openings, ClosesAt(o) PROVE QuietStep
  BY <1>3 DEF ClosesAt, QuietStep
<1>4. ASSUME NEW o \in Openings, NEW e \in Employees, Claim(o, e) PROVE QuietStep
  <2>1. /\ SetClaim(o, e, "pending") /\ UNCHANGED openingVars
        /\ claim[o][e] # "accepted" /\ status[o] = "open"
    BY <1>4 DEF Claim, Eligible
  <2> QED
    BY <2>1, SetClaimAt DEF QuietStep, openingVars
<1>5. ASSUME NEW o \in Openings, NEW e \in Employees, Withdraw(o, e) \/ Reject(o, e)
      PROVE  QuietStep
  <2>1. PICK new \in {"withdrawn", "rejected"} :
          SetClaim(o, e, new) /\ UNCHANGED openingVars /\ claim[o][e] = "pending"
    BY <1>5 DEF Withdraw, Reject
  <2> QED
    BY <2>1, SetClaimAt DEF QuietStep, openingVars
<1>6. ASSUME NEW o \in Openings, NEW e \in Employees, CallOff(o, e) PROVE QuietStep
  <2>1. CASE UNCHANGED openingVars
    BY <1>6, <2>1 DEF CallOff, QuietStep, openingVars
  <2>2. ASSUME NEW n \in Openings, status[n] = "none",
               status' = [status EXCEPT ![n] = "open"],
               total' = [total EXCEPT ![n] = 1],
               UNCHANGED <<filled, policy, late>>
        PROVE  QuietStep
    BY <1>6, <2>2 DEF CallOff, QuietStep, TypeInv, TypeOK
  <2> QED
    BY <1>6, <2>1, <2>2 DEF CallOff
<1>7. ASSUME NEW s \in Sessions, WriteEdit(s) PROVE QuietStep
  <2>1. call[s].opening \in Openings
    BY <1>7, CallType DEF WriteEdit, At
  <2>2. PICK n \in Places :
          LET o == call[s].opening IN
          total' = [total EXCEPT ![o] = IF n > filled[o] THEN n ELSE filled[o]]
    BY <1>7 DEF WriteEdit
  <2>3. \A o \in Openings : total'[o] = total[o] \/ total'[o] >= filled[o]
    BY <2>1, <2>2, OpeningAssumption DEF TypeInv, TypeOK
  <2> QED
    BY <1>7, <2>3 DEF WriteEdit, QuietStep
<1>8. ASSUME NEW s \in Sessions, CommitCancel(s) PROVE QuietStep
  <2>1. call[s].opening \in Openings
    BY <1>8, CallType DEF CommitCancel, At
  <2>2. \A o \in Openings, e \in Employees :
          claim'[o][e] = claim[o][e] \/ (claim[o][e] = "pending" /\ claim'[o][e] = "expired")
    BY <1>8, <2>1, ExpireAt DEF CommitCancel, Pending
  <2> QED
    BY <1>8, <2>1, <2>2 DEF CommitCancel, QuietStep, TypeInv, TypeOK
<1>9. CASE UNCHANGED <<openingVars, claim>>
  BY <1>9 DEF QuietStep, openingVars
<1> QED
  BY <1>1, <1>2, <1>3, <1>4, <1>5, <1>6, <1>7, <1>8, <1>9
     DEF Next, Step, vars, StartEdit, StartCancel, StartAccept, ClaimFirst, LockOpening,
         Refuse, DeadlockAbort

Counting == Untaken /\ PlacesAreCounted /\ FilledHasNoPending

\* Who takes a place had none.
LEMMA TakerIsNew ==
  ASSUME TypeInv, Validated, ClaimsHeld, NEW s \in Sessions, Commit(s),
         NEW o, o = call[s].opening, NEW e, e = call[s].employee
  PROVE  /\ status[o] = "open" /\ filled[o] < total[o]
         /\ claim[o][e] # "accepted"
  BY CommitAt DEF Validated, Deciding, ClaimsHeld, Commit

LEMMA CountingNext ==
  ASSUME TypeInv, Validated, ClaimsHeld, Counting, [Next]_vars PROVE Counting'
<1>1. TypeInv'
  BY TypeNext
<1>2. CASE QuietStep
  <2>1. \A o \in Openings : Accepted(o)' = Accepted(o)
    BY <1>2 DEF QuietStep, Accepted
  <2>2. \A o \in Openings : filled'[o] = Cardinality(Accepted(o)')
    BY <1>2, <2>1 DEF QuietStep, Counting, PlacesAreCounted, Accepted
  <2>3. \A o \in Openings : filled'[o] <= total'[o]
    <3> SUFFICES ASSUME NEW o \in Openings PROVE filled'[o] <= total'[o]
      OBVIOUS
    <3>1. /\ filled[o] \in Nat /\ total[o] \in Nat /\ total'[o] \in Nat
          /\ filled'[o] = filled[o]
          /\ total'[o] = total[o] \/ total'[o] >= filled[o] \/ status[o] = "none"
      BY <1>1, <1>2 DEF QuietStep, TypeInv, TypeOK
    <3>2. filled[o] <= total[o] /\ (status[o] = "none" => filled[o] = 0)
      BY DEF Counting, PlacesAreCounted, Untaken
    <3> QED
      BY <3>1, <3>2
  <2>4. Untaken' /\ FilledHasNoPending'
    BY <1>2 DEF QuietStep, Counting, Untaken, FilledHasNoPending, Pending
  <2> QED
    BY <2>2, <2>3, <2>4 DEF Counting, PlacesAreCounted, Accepted
<1>3. ASSUME NEW s \in Sessions, Commit(s) PROVE Counting'
  <2>0. PICK o \in Openings, e \in Employees : o = call[s].opening /\ e = call[s].employee
    BY <1>3, CommitAt
  <2>1. /\ o \in Openings /\ e \in Employees
        /\ status[o] = "open" /\ filled[o] < total[o] /\ claim[o][e] # "accepted"
    BY <1>3, <2>0, TakerIsNew
  <2>2. /\ \A p \in Openings, f \in Employees :
             claim'[p][f] = IF p = o /\ f = e THEN "accepted"
                            ELSE IF p = o /\ f \in Losers(o, e) THEN "expired"
                            ELSE claim[p][f]
        /\ \A p \in Openings : filled'[p] = IF p = o THEN filled[o] + 1 ELSE filled[p]
        /\ \A p \in Openings :
             status'[p] = IF p = o /\ filled[o] + 1 >= total[o] THEN "filled" ELSE status[p]
        /\ UNCHANGED total
    BY <1>3, <2>0, CommitAt
  <2>3. Accepted(o)' = Accepted(o) \union {e} /\ e \notin Accepted(o)
    <3>1. \A f \in Losers(o, e) : claim[o][f] # "accepted"
      BY DEF Losers, Pending
    <3>2. \A f \in Employees : claim'[o][f] = "accepted" <=> f = e \/ claim[o][f] = "accepted"
      BY <2>1, <2>2, <3>1
    <3> QED
      BY <2>1, <3>2 DEF Accepted
  <2>4. \A p \in Openings : p # o => Accepted(p)' = Accepted(p)
    BY <2>2 DEF Accepted
  <2>5. IsFiniteSet(Accepted(o))
    BY FS_Subset, OpeningAssumption DEF Accepted
  <2>6. Cardinality(Accepted(o)') = Cardinality(Accepted(o)) + 1
    BY <2>3, <2>5, FS_AddElement
  <2>7. \A p \in Openings : filled[p] = Cardinality(Accepted(p)) /\ filled[p] <= total[p]
    BY DEF Counting, PlacesAreCounted, Accepted
  <2>8. \A p \in Openings : filled'[p] = Cardinality(Accepted(p)')
    <3>1. filled'[o] = Cardinality(Accepted(o)')
      BY <2>1, <2>2, <2>6, <2>7
    <3>2. \A p \in Openings : p # o => filled'[p] = Cardinality(Accepted(p)')
      BY <2>2, <2>4, <2>7
    <3> QED
      BY <3>1, <3>2
  <2>9. \A p \in Openings : filled'[p] <= total'[p]
    <3>1. \A p \in Openings : filled[p] \in Nat /\ total[p] \in Nat
      BY DEF TypeInv, TypeOK
    <3>2. filled[o] + 1 <= total[o]
      BY <2>1, <3>1
    <3> QED
      BY <2>2, <2>7, <3>2
  <2>10. Untaken'
    BY <2>1, <2>2 DEF Counting, Untaken
  <2>11. FilledHasNoPending'
    <3>1. SUFFICES ASSUME NEW p \in Openings, status'[p] = "filled", NEW f \in Employees,
                          claim'[p][f] = "pending"
                   PROVE  FALSE
      BY DEF FilledHasNoPending, Pending
    <3>2. CASE p = o
      BY <2>1, <2>2, <3>1, <3>2 DEF Losers, Pending
    <3>3. CASE p # o
      BY <2>2, <3>1, <3>3 DEF Counting, FilledHasNoPending, Pending
    <3> QED
      BY <3>2, <3>3
  <2> QED
    BY <2>8, <2>9, <2>10, <2>11 DEF Counting, PlacesAreCounted, Accepted
<1> QED
  BY <1>2, <1>3, QuietOrCommit

-----------------------------------------------------------------------------
(* Double booking: a transaction that is about to book e sees, or races    *)
(* with, everything that overlaps.                                         *)

RacesNoted ==
  \A t \in Sessions : Deciding(t) =>
    LET o == call[t].opening
        e == call[t].employee
    IN /\ \A p \in Openings \ {o} :
            slot[p][e] # None /\ <<window[o], slot[p][e]>> \in Overlaps => <<e, {o, p}>> \in raced
       /\ \A s \in Sessions :
            Deciding(s) /\ call[s].employee = e /\ call[s].opening # o =>
              <<e, {o, call[s].opening}>> \in raced

LEMMA RacedGrows == ASSUME TypeInv, [Next]_vars PROVE raced \subseteq raced'
  BY DEF Next, Step, vars, Create, Publish, ClosesAt, SoftExpire, Claim, Withdraw, Reject,
         CallOff, StartEdit, StartCancel, StartAccept, ClaimFirst, NoteRaces, WriteEdit,
         CommitCancel, LockOpening, Refuse, Commit, DeadlockAbort

LEMMA SlotsOnlyLeave ==
  ASSUME TypeInv, [Next]_vars, ~\E s \in Sessions : Commit(s)
  PROVE  \A o \in Openings, e \in Employees : slot'[o][e] \in {slot[o][e], None}
<1>1. ASSUME NEW o \in Openings, NEW e \in Employees, CallOff(o, e)
      PROVE  \A p \in Openings, f \in Employees : slot'[p][f] \in {slot[p][f], None}
  BY <1>1 DEF CallOff, TypeInv, TypeOK
<1>2. CASE UNCHANGED slot
  BY <1>2
<1> QED
  BY <1>1, <1>2
     DEF Next, Step, vars, Create, Publish, ClosesAt, SoftExpire, Claim, Withdraw, Reject,
         StartEdit, StartCancel, StartAccept, ClaimFirst, WriteEdit, CommitCancel,
         LockOpening, Refuse, DeadlockAbort

\* A slot that appears is that of a decision that commits.
LEMMA NewSlots ==
  ASSUME TypeInv, [Next]_vars, NEW p \in Openings, NEW e \in Employees,
         slot'[p][e] \notin {slot[p][e], None}
  PROVE  \E s \in Sessions :
           /\ Deciding(s) /\ call[s].opening = p /\ call[s].employee = e
           /\ call'[s] = None /\ slot'[p][e] = window[p]
           /\ \A q \in Openings : q # p => slot'[q][e] = slot[q][e]
<1>1. PICK s \in Sessions : Commit(s)
  BY SlotsOnlyLeave
<1>2. call[s].opening = p /\ call[s].employee = e
  BY <1>1, CommitAt
<1> QED
  BY <1>1, <1>2, CommitAt DEF Deciding, At

LEMMA OverlapsSymmetric ==
  ASSUME NEW v, NEW w, <<v, w>> \in Overlaps PROVE <<w, v>> \in Overlaps
  BY OpeningAssumption

\* Whoever decides again after a step decided before, for the same, or has
\* just begun to and noted its races.
LEMMA DecidesBeforeOrNow ==
  ASSUME TypeInv, OneHolder, Validated, [Next]_vars, NEW t \in Sessions, Deciding(t)',
         NEW o, o = call'[t].opening, NEW e, e = call'[t].employee
  PROVE  \/ /\ Deciding(t) /\ call'[t] = call[t] /\ window'[o] = window[o]
         \/ NewDecision(t, o, e)
  BY Undisturbed, NewDecisions DEF StillValid

LEMMA RacesNotedNext ==
  ASSUME TypeInv, OneHolder, Validated, RacesNoted, [Next]_vars PROVE RacesNoted'
<1>0. TypeInv' /\ raced \subseteq raced'
  BY TypeNext, RacedGrows
<1>1. SUFFICES ASSUME NEW t \in Sessions, Deciding(t)',
                      NEW o, o = call'[t].opening, NEW e, e = call'[t].employee
               PROVE  /\ \A p \in Openings \ {o} :
                           slot'[p][e] # None /\ <<window'[o], slot'[p][e]>> \in Overlaps
                             => <<e, {o, p}>> \in raced'
                      /\ \A s \in Sessions :
                           Deciding(s)' /\ call'[s].employee = e /\ call'[s].opening # o
                             => <<e, {o, call'[s].opening}>> \in raced'
  BY DEF RacesNoted
<1>2. /\ o \in Openings /\ e \in Employees /\ call'[t] # None
      /\ call'[t].op \in {"accept", "claim"}
  BY <1>0, <1>1 DEF TypeInv, TypeOK, CallsInOrder, InOrder, Calls, Deciding, At
<1>3. ASSUME NEW p \in Openings \ {o}, slot'[p][e] # None,
             <<window'[o], slot'[p][e]>> \in Overlaps
      PROVE  <<e, {o, p}>> \in raced'
  <2>1. CASE NewDecision(t, o, e)
    BY <1>3, <2>1 DEF NewDecision, Overlapping, openingVars
  <2>2. CASE Deciding(t) /\ call'[t] = call[t] /\ window'[o] = window[o]
    <3>1. CASE slot'[p][e] = slot[p][e]
      BY <1>0, <1>1, <1>3, <2>2, <3>1 DEF RacesNoted
    <3>2. CASE slot'[p][e] # slot[p][e]
      <4>1. PICK s \in Sessions : Deciding(s) /\ call[s].opening = p /\ call[s].employee = e
        BY <1>2, <1>3, <3>2, NewSlots
      <4> QED
        BY <1>0, <1>1, <1>3, <2>2, <4>1 DEF RacesNoted
    <3> QED
      BY <3>1, <3>2
  <2> QED
    BY <1>1, <2>1, <2>2, DecidesBeforeOrNow
<1>4. ASSUME NEW s \in Sessions, Deciding(s)', call'[s].employee = e, call'[s].opening # o
      PROVE  <<e, {o, call'[s].opening}>> \in raced'
  <2>1. PICK p : p = call'[s].opening
    OBVIOUS
  <2>2. /\ call'[s] # None /\ call'[s].stage = "commit" /\ call'[s].op \in {"accept", "claim"}
    BY <1>0, <1>4 DEF TypeInv, TypeOK, CallsInOrder, InOrder, Calls, Deciding, At
  <2>3. call'[t].stage = "commit"
    BY <1>1 DEF Deciding, At
  <2>4. s # t
    BY <1>1, <1>4
  <2>5. CASE NewDecision(t, o, e)
    <3>1. call[s] = call'[s]
      BY <2>4, <2>5 DEF NewDecision
    <3>2. <<e, {o, call[s].opening}>> \in Races(o, e)
      BY <1>4, <2>2, <3>1 DEF Races, At
    <3> QED
      BY <2>5, <3>1, <3>2 DEF NewDecision, NoteRaces
  <2>6. CASE NewDecision(s, p, e)
    <3>1. call[t] = call'[t]
      BY <2>4, <2>6 DEF NewDecision
    <3>2. <<e, {p, call[t].opening}>> \in Races(p, e)
      BY <1>1, <1>2, <1>4, <2>1, <2>3, <3>1 DEF Races, At
    <3>3. {p, call[t].opening} = {o, call'[s].opening}
      BY <1>1, <2>1, <3>1
    <3> QED
      BY <2>6, <3>2, <3>3 DEF NewDecision, NoteRaces
  <2>7. CASE Deciding(t) /\ call'[t] = call[t] /\ Deciding(s) /\ call'[s] = call[s]
    BY <1>0, <1>1, <1>4, <2>7 DEF RacesNoted
  <2> QED
    BY <1>1, <1>4, <2>1, <2>5, <2>6, <2>7, DecidesBeforeOrNow
<1> QED
  BY <1>3, <1>4

LEMMA OverlapsNext ==
  ASSUME TypeInv, RacesNoted, OverlapsNeedRaces, [Next]_vars PROVE OverlapsNeedRaces'
<1>1. SUFFICES ASSUME NEW o \in Openings, NEW p \in Openings, NEW e \in Employees,
                      o # p, slot'[o][e] # None, slot'[p][e] # None,
                      <<slot'[o][e], slot'[p][e]>> \in Overlaps
               PROVE  <<e, {o, p}>> \in raced'
  BY DEF OverlapsNeedRaces, DoublyBooked
<1>2. raced \subseteq raced'
  BY RacedGrows
<1>3. CASE slot'[o][e] = slot[o][e] /\ slot'[p][e] = slot[p][e]
  BY <1>1, <1>2, <1>3 DEF OverlapsNeedRaces, DoublyBooked
<1>4. CASE slot'[o][e] # slot[o][e]
  <2>1. PICK s \in Sessions :
          /\ Deciding(s) /\ call[s].opening = o /\ call[s].employee = e
          /\ slot'[o][e] = window[o]
          /\ \A q \in Openings : q # o => slot'[q][e] = slot[q][e]
    BY <1>1, <1>4, NewSlots
  <2> QED
    BY <1>1, <1>2, <2>1 DEF RacesNoted
<1>5. CASE slot'[p][e] # slot[p][e]
  <2>1. PICK s \in Sessions :
          /\ Deciding(s) /\ call[s].opening = p /\ call[s].employee = e
          /\ slot'[p][e] = window[p]
          /\ \A q \in Openings : q # p => slot'[q][e] = slot[q][e]
    BY <1>1, <1>5, NewSlots
  <2>2. <<window[p], slot[o][e]>> \in Overlaps /\ slot[o][e] # None
    BY <1>1, <2>1, OverlapsSymmetric
  <2>3. <<e, {p, o}>> \in raced
    BY <1>1, <2>1, <2>2 DEF RacesNoted
  <2> QED
    BY <1>2, <2>3
<1> QED
  BY <1>3, <1>4, <1>5

-----------------------------------------------------------------------------
(* The invariant that makes them all inductive, and the theorems. *)

IInv ==
  /\ TypeInv
  /\ OneHolder /\ ClaimsHeld /\ Validated
  /\ Counting
  /\ RacesNoted /\ OverlapsNeedRaces

LEMMA IInit == Init => IInv
<1> SUFFICES ASSUME Init PROVE IInv
  OBVIOUS
<1>1. TypeInv
  BY TypeInit
<1>2. OneHolder /\ ClaimsHeld /\ Validated /\ RacesNoted
  BY DEF Init, OneHolder, ClaimsHeld, Validated, RacesNoted, Deciding, At, HoldsClaim
<1>3. Counting
  <2>1. \A o \in Openings : {e \in Employees : claim[o][e] = "accepted"} = {}
    BY DEF Init
  <2>2. \A o \in Openings : filled[o] = 0 /\ total[o] = 0
    BY DEF Init
  <2>3. Cardinality({}) = 0
    BY FS_EmptySet, Zenon
  <2>4. \A o \in Openings : Cardinality({e \in Employees : claim[o][e] = "accepted"}) = 0
    BY <2>1, <2>3, Zenon
  <2>5. PlacesAreCounted
    BY <2>2, <2>4 DEF PlacesAreCounted
  <2> QED
    BY <2>5 DEF Init, Counting, Untaken, FilledHasNoPending, Pending
<1>4. OverlapsNeedRaces
  BY DEF Init, OverlapsNeedRaces, DoublyBooked
<1> QED
  BY <1>1, <1>2, <1>3, <1>4 DEF IInv

LEMMA INext == IInv /\ [Next]_vars => IInv'
  BY TypeNext, OneHolderNext, ClaimsHeldNext, ValidatedNext, CountingNext, RacesNotedNext,
     OverlapsNext DEF IInv

LEMMA Invariance == Spec => []IInv
  BY IInit, INext, PTL DEF Spec

\* No overassignment: whatever accepts, edits and cancels run at once, an
\* opening counts its accepted claims and has no more of them than places.
THEOREM PlacesCounted == Spec => []PlacesAreCounted
<1>1. IInv => PlacesAreCounted
  BY DEF IInv, Counting
<1> QED
  BY <1>1, Invariance, PTL

\* The claims that lose the last place do not stay pending.
THEOREM NobodyWaitsForFilled == Spec => []FilledHasNoPending
<1>1. IInv => FilledHasNoPending
  BY DEF IInv, Counting
<1> QED
  BY <1>1, Invariance, PTL

\* Only accepts that were open at once book an employee twice at a time.
THEOREM OnlyRacesOverlap == Spec => []OverlapsNeedRaces
<1>1. IInv => OverlapsNeedRaces
  BY DEF IInv
<1> QED
  BY <1>1, Invariance, PTL

\* A cancelled, expired or filled opening takes nobody, even when the claim
\* was validated before.
THEOREM ClosedStaysClosed == Spec => ClosedTakesNobody
<1>1. IInv /\ [Next]_vars =>
        [\A o \in Openings : status[o] # "open" => filled'[o] = filled[o]]_vars
  <2> SUFFICES ASSUME IInv, [Next]_vars, NEW o \in Openings, status[o] # "open"
               PROVE  filled'[o] = filled[o]
    OBVIOUS
  <2>1. CASE QuietStep
    BY <2>1 DEF QuietStep
  <2>2. ASSUME NEW s \in Sessions, Commit(s) PROVE filled'[o] = filled[o]
    BY <2>2, CommitAt, TakerIsNew DEF IInv
  <2> QED
    BY <2>1, <2>2, QuietOrCommit DEF IInv
<1> QED
  BY <1>1, Invariance, PTL DEF Spec, ClosedTakesNobody

\* No withdrawal, rejection, cancel or lost race takes an accepted claim back.
THEOREM AcceptedStays == Spec => AcceptedIsFinal
<1>1. IInv /\ [Next]_vars =>
        [\A o \in Openings, e \in Employees :
           claim[o][e] = "accepted" => claim'[o][e] = "accepted"]_vars
  <2> SUFFICES ASSUME IInv, [Next]_vars, NEW o \in Openings, NEW e \in Employees,
                      claim[o][e] = "accepted"
               PROVE  claim'[o][e] = "accepted"
    OBVIOUS
  <2>1. CASE QuietStep
    BY <2>1 DEF QuietStep
  <2>2. ASSUME NEW s \in Sessions, Commit(s) PROVE claim'[o][e] = "accepted"
    BY <2>2, CommitAt DEF Losers, Pending, IInv
  <2> QED
    BY <2>1, <2>2, QuietOrCommit DEF IInv
<1> QED
  BY <1>1, Invariance, PTL DEF Spec, AcceptedIsFinal
=============================================================================
