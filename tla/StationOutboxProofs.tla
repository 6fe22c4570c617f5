------------------------- MODULE StationOutboxProofs -------------------------
(***************************************************************************)
(* Theorems about StationOutbox, for any number of tabs, punches, attempts *)
(* and faults and any clock: what a drain marks, what the page promised,   *)
(* the order of the punches, and the day they make.                       *)
(***************************************************************************)
EXTENDS StationOutbox, TLAPS, WellFoundedInduction, FiniteSetTheorems

Statuses == {"none", "direct", "pending", "synced", "quarantined", "cleared"}

Types ==
  /\ made \in 0..MaxPunches
  /\ status \in [Ops -> Statuses]
  /\ attempts \in [Ops -> 0..MaxAttempts]
  /\ todo \in [Tabs -> SUBSET Ops]
  /\ seen \in [Tabs -> [Ops -> 0..MaxAttempts]]
  /\ call \in [Callers -> Stages]
  /\ cur \in [Callers -> 0..MaxPunches]
  /\ recorded \subseteq Ops /\ confirmed \subseteq Ops
  /\ answerLost \subseteq Ops /\ contested \subseteq Ops

\* A caller has a punch as long as it waits for a call.
Idle == \A c \in Callers : call[c] = "none" <=> cur[c] = None

\* What a call says was recorded is.
Recorded == \A c \in Callers : Success(call[c]) => cur[c] \in recorded

\* A punch that has not been made has no row.
Fresh == \A o \in Ops : o > made => status[o] = "none"

\* The page posts the last punch, which no drain sees before it is answered.
KioskDirect == cur[Kiosk] # None => cur[Kiosk] = made /\ status[made] = "direct"

\* What a drain has or had in its snapshot was queued.
TabsQueued ==
  \A t \in Tabs : \A o \in Ops :
    o \in todo[t] \/ o = cur[t] => status[o] \notin {"none", "direct"}

\* Two callers with one punch contest it.
Sole ==
  \A c, d \in Callers : c # d /\ cur[c] = cur[d] /\ cur[c] # None => cur[c] \in contested

\* A punch that one drain posts stays queued until its answer.
Posted ==
  \A t \in Tabs : \A o \in Ops :
    o = cur[t] /\ o \notin contested => status[o] \in {"pending", "cleared"}

\* A recorded punch is synced or cleared, or its answer is on the way.
Answers ==
  \A o \in recorded \ (answerLost \union contested) :
    \/ status[o] \in {"synced", "cleared", "direct"}
    \/ \E c \in Callers : cur[c] = o /\ Success(call[c])

\* What the page's call has not recorded nobody has.
KioskOpen ==
  call[Kiosk] # "none" /\ ~Success(call[Kiosk]) =>
    cur[Kiosk] \notin recorded \ (answerLost \union contested)

\* A drain posts its snapshot from the first punch on.
InOrder == \A t \in Tabs : \A o \in todo[t] : cur[t] < o

\* Before what a drain still has to post, or posts, there are only punches it has
\* as well, and punches that have been tried.
Tried ==
  \A t \in Tabs : \A q \in Ops : \A o \in Ops :
    /\ q \in todo[t] \/ q = cur[t]
    /\ o < q /\ status[o] = "pending" /\ o \notin recorded
    => attempts[o] > 0 \/ o \in todo[t] \/ o = cur[t]

IInv ==
  /\ Types /\ Idle /\ Recorded /\ SyncedIsRecorded /\ ConfirmedIsKept
  /\ Fresh /\ KioskDirect /\ TabsQueued /\ Sole /\ Posted /\ Answers
  /\ KioskOpen /\ InOrder /\ Tried

\* What the invariant is about.
coreVars == <<made, status, attempts, todo, seen, call, cur, recorded, confirmed,
              answerLost, contested>>

-----------------------------------------------------------------------------
(* Helpers *)

\* A snapshot that is not empty has a first punch.
LEMMA First ==
  ASSUME NEW S \in SUBSET Ops, S # {}
  PROVE  NextOf(S) \in S /\ \A p \in S : NextOf(S) <= p
<1>1. S \subseteq Nat
  BY StationAssumption DEF Ops
<1>2. PICK x \in S : \A y \in S : <<y, x>> \notin OpToRel(<, Nat)
  BY <1>1, NatLessThanWellFounded, WFMin
<1>3. \A y \in S : x <= y
  <2> TAKE y \in S
  <2>1. x \in Nat /\ y \in Nat
    BY <1>1
  <2>2. ~ (y < x)
    BY <1>2, <2>1 DEF OpToRel
  <2> QED
    BY <2>1, <2>2, SMT
<1> QED
  BY <1>3 DEF NextOf, Min

\* The attempts after an error: at least one, and within the limit.
LEMMA Tries ==
  ASSUME NEW n \in 0..MaxAttempts
  PROVE  Min({n + 1, MaxAttempts}) \in 1..MaxAttempts
<1>1. MaxAttempts \in Nat \ {0}
  BY StationAssumption
<1>2. \E x \in {n + 1, MaxAttempts} : \A y \in {n + 1, MaxAttempts} : x <= y
  BY <1>1, SMT
<1>3. Min({n + 1, MaxAttempts}) \in {n + 1, MaxAttempts}
  BY <1>2 DEF Min
<1>4. \A y \in {n + 1, MaxAttempts} : Min({n + 1, MaxAttempts}) <= y
  BY <1>2 DEF Min
<1> QED
  BY <1>1, <1>3, <1>4, SMT

LEMMA NoneIsNoPunch == None \in 0..MaxPunches
<1>1. MaxPunches \in Nat
  BY StationAssumption
<1> QED
  BY <1>1, SMT DEF None

LEMMA Steady ==
  ASSUME IInv, UNCHANGED coreVars
  PROVE  IInv'
<1> USE DEF coreVars
<1>1. Types' /\ Idle' /\ Recorded'
  BY DEF IInv, Types, Idle, Recorded
<1>2. SyncedIsRecorded' /\ ConfirmedIsKept' /\ Fresh'
  BY DEF IInv, SyncedIsRecorded, ConfirmedIsKept, Fresh
<1>3. KioskDirect' /\ TabsQueued' /\ Sole' /\ Posted'
  BY DEF IInv, KioskDirect, TabsQueued, Sole, Posted
<1>4. Answers' /\ KioskOpen' /\ InOrder' /\ Tried'
  BY DEF IInv, Answers, KioskOpen, InOrder, Tried
<1> QED
  BY <1>1, <1>2, <1>3, <1>4 DEF IInv

LEMMA InitIInv == Init => IInv
<1> SUFFICES ASSUME Init PROVE IInv
  OBVIOUS
<1> USE StationAssumption DEF Init, None
<1>1. Types
  BY DEF Types, Statuses, Stages, NoAttempts
<1>2. Idle /\ Recorded
  BY DEF Idle, Recorded, Success
<1>3. SyncedIsRecorded /\ ConfirmedIsKept /\ Fresh
  BY DEF SyncedIsRecorded, ConfirmedIsKept, Fresh
<1>4. KioskDirect
  BY DEF KioskDirect, Callers
<1>5. TabsQueued
  BY DEF TabsQueued, Callers, Ops
<1>6. Sole /\ Answers
  BY DEF Sole, Answers
<1>7. Posted
  BY DEF Posted, Callers, Ops
<1>8. KioskOpen
  BY DEF KioskOpen, Callers
<1>9. InOrder /\ Tried
  BY DEF InOrder, Tried, Callers, Ops
<1> QED
  BY <1>1, <1>2, <1>3, <1>4, <1>5, <1>6, <1>7, <1>8, <1>9 DEF IInv

-----------------------------------------------------------------------------
(* The steps *)

LEMMA KioskAnsweredKeeps ==
  ASSUME IInv, KioskAnswered
  PROVE  IInv'
<1> DEFINE o == cur[Kiosk]
<1>1. /\ call[Kiosk] \notin {"none", "sent", "checked"}
      /\ call' = [call EXCEPT ![Kiosk] = "none"]
      /\ cur' = [cur EXCEPT ![Kiosk] = None]
      /\ UNCHANGED <<made, attempts, todo, seen, recorded, answerLost, contested>>
  BY DEF KioskAnswered, Answered, Done, settingVars, punchVars, serverVars
<1>2. \/ Success(call[Kiosk]) /\ confirmed' = confirmed \union {o} /\ status' = status
      \/ /\ call[Kiosk] = "network"
         /\ status' = [status EXCEPT ![o] = "pending"]
         /\ confirmed' = confirmed \union {o}
      \/ status' = status /\ confirmed' = confirmed
  BY DEF KioskAnswered, ShowSuccess
<1>3. Kiosk \in Callers /\ Kiosk \notin Tabs /\ Tabs \subseteq Callers
  BY StationAssumption DEF Callers
<1>4. /\ o \in Ops /\ o = made /\ status[o] = "direct"
      /\ \A c \in Callers : cur'[c] = IF c = Kiosk THEN None ELSE cur[c]
      /\ \A c \in Callers : call'[c] = IF c = Kiosk THEN "none" ELSE call[c]
  BY <1>1, <1>3 DEF IInv, Types, Idle, KioskDirect, Ops, None
<1>5. \A p \in Ops : status'[p] = status[p] \/ (p = o /\ status'[p] = "pending")
  BY <1>2, <1>4 DEF IInv, Types
<1> HIDE DEF o
<1>6. Types'
  <2>1. status' \in [Ops -> Statuses] /\ confirmed' \subseteq Ops
    BY <1>2, <1>4 DEF IInv, Types, Statuses
  <2>2. call' \in [Callers -> Stages] /\ cur' \in [Callers -> 0..MaxPunches]
    BY <1>1, NoneIsNoPunch DEF IInv, Types, Stages
  <2> QED
    BY <1>1, <2>1, <2>2 DEF IInv, Types
<1>7. Idle' /\ Recorded'
  BY <1>1, <1>4 DEF IInv, Idle, Recorded, Success
<1>8. SyncedIsRecorded' /\ Fresh'
  BY <1>1, <1>4, <1>5, SMT DEF IInv, Types, SyncedIsRecorded, Fresh, Ops
<1>9. ConfirmedIsKept'
  <2>1. Success(call[Kiosk]) => o \in recorded
    BY <1>3 DEF IInv, Recorded, o
  <2>2. status' = [status EXCEPT ![o] = "pending"] => status'[o] = "pending"
    BY <1>4 DEF IInv, Types
  <2> QED
    BY <1>1, <1>2, <1>5, <2>1, <2>2 DEF IInv, Types, ConfirmedIsKept
<1>10. KioskDirect' /\ TabsQueued'
  BY <1>1, <1>3, <1>4, <1>5 DEF IInv, Types, KioskDirect, TabsQueued
<1>11. Sole' /\ Posted'
  BY <1>1, <1>3, <1>4, <1>5 DEF IInv, Types, Sole, Posted
<1>12. Answers'
  <2> SUFFICES ASSUME NEW p \in recorded \ (answerLost \union contested)
               PROVE  \/ status'[p] \in {"synced", "cleared", "direct"}
                      \/ \E c \in Callers : cur'[c] = p /\ Success(call'[c])
    BY <1>1 DEF Answers
  <2>1. CASE status'[p] = status[p]
    BY <2>1, <1>4, <1>3 DEF IInv, Answers, o
  <2>2. CASE status'[p] # status[p]
    <3>1. p = o /\ call[Kiosk] = "network"
      BY <2>2, <1>2, <1>4, <1>5 DEF IInv, Types
    <3> QED
      BY <3>1 DEF IInv, KioskOpen, Success, o
  <2> QED
    BY <2>1, <2>2
<1>13. KioskOpen' /\ InOrder'
  BY <1>1, <1>3, <1>4 DEF IInv, KioskOpen, InOrder
<1>14. Tried'
  <2> SUFFICES ASSUME NEW t \in Tabs, NEW q \in Ops, NEW p \in Ops,
                      q \in todo[t] \/ q = cur[t],
                      p < q, status'[p] = "pending", p \notin recorded
               PROVE  attempts[p] > 0 \/ p \in todo[t] \/ p = cur[t]
    BY <1>1, <1>3, <1>4 DEF Tried
  <2>1. q <= made
    BY SMT DEF IInv, Types, TabsQueued, Fresh, Ops
  <2>2. p # o
    BY <2>1, <1>4, SMT DEF IInv, Types, Ops
  <2> QED
    BY <2>2, <1>5 DEF IInv, Tried
<1> QED
  BY <1>6, <1>7, <1>8, <1>9, <1>10, <1>11, <1>12, <1>13, <1>14 DEF IInv

LEMMA UnpairKeeps ==
  ASSUME IInv, Unpair
  PROVE  IInv'
<1>1. /\ status' = [o \in Ops |-> IF status[o] \in {"none", "direct"} THEN status[o] ELSE "cleared"]
      /\ UNCHANGED <<made, attempts, todo, seen, call, cur, recorded, confirmed, answerLost,
                     contested>>
  BY DEF Unpair, punchVars, serverVars, historyVars
<1>2. \A o \in Ops : status'[o] = IF status[o] \in {"none", "direct"} THEN status[o] ELSE "cleared"
  BY <1>1
<1>3. Types'
  <2>1. status' \in [Ops -> Statuses]
    BY <1>1 DEF IInv, Types, Statuses
  <2> QED
    BY <1>1, <2>1 DEF IInv, Types
<1>4. Idle' /\ Recorded' /\ SyncedIsRecorded' /\ ConfirmedIsKept'
  <2>1. Idle' /\ Recorded' /\ SyncedIsRecorded'
    BY <1>1, <1>2 DEF IInv, Idle, Recorded, SyncedIsRecorded
  <2>2. confirmed \subseteq Ops
    BY DEF IInv, Types
  <2>3. ConfirmedIsKept'
    BY <1>1, <1>2, <2>2 DEF IInv, ConfirmedIsKept
  <2> QED
    BY <2>1, <2>3
<1>5. Fresh'
  BY <1>1, <1>2 DEF IInv, Fresh
<1>6. KioskDirect'
  <2>1. cur[Kiosk] # None => made \in Ops
    BY StationAssumption, SMT DEF IInv, Types, Ops, KioskDirect, Callers, None
  <2> QED
    BY <1>1, <1>2, <2>1 DEF IInv, KioskDirect
<1>7. TabsQueued' /\ Sole' /\ Posted'
  BY <1>1, <1>2 DEF IInv, TabsQueued, Sole, Posted
<1>8. Answers'
  <2> SUFFICES ASSUME NEW p \in recorded \ (answerLost \union contested)
               PROVE  \/ status'[p] \in {"synced", "cleared", "direct"}
                      \/ \E c \in Callers : cur[c] = p /\ Success(call[c])
    BY <1>1 DEF Answers
  <2>1. p \in Ops
    BY DEF IInv, Types
  <2> QED
    BY <1>2, <2>1 DEF IInv, Answers
<1>9. KioskOpen' /\ InOrder' /\ Tried'
  BY <1>1, <1>2 DEF IInv, KioskOpen, InOrder, Tried
<1> QED
  BY <1>3, <1>4, <1>5, <1>6, <1>7, <1>8, <1>9 DEF IInv

LEMMA TouchOnlineKeeps ==
  ASSUME IInv, NEW ty \in PunchTypes, TouchOnline(ty)
  PROVE  IInv'
<1> DEFINE o == made + 1
<1>1. /\ made < MaxPunches /\ made' = o /\ call[Kiosk] = "none"
      /\ status' = [status EXCEPT ![o] = "direct"]
      /\ call' = [call EXCEPT ![Kiosk] = "sent"]
      /\ cur' = [cur EXCEPT ![Kiosk] = o]
      /\ UNCHANGED <<attempts, todo, seen, recorded, confirmed, answerLost, contested>>
  BY DEF TouchOnline, NewPunch, Send, settingVars, serverVars, historyVars
<1>2. Kiosk \in Callers /\ Kiosk \notin Tabs /\ Tabs \subseteq Callers
  BY StationAssumption DEF Callers
<1>3. /\ o \in Ops /\ status[o] = "none" /\ o \in 0..MaxPunches /\ o # None
      /\ \A c \in Callers : cur'[c] = IF c = Kiosk THEN o ELSE cur[c]
      /\ \A c \in Callers : call'[c] = IF c = Kiosk THEN "sent" ELSE call[c]
      /\ \A p \in Ops : status'[p] = IF p = o THEN "direct" ELSE status[p]
      /\ made \in Nat
  BY <1>1, <1>2, StationAssumption, SMT DEF IInv, Types, Fresh, Ops, None
<1>4. \A c \in Callers : cur[c] # o
  BY <1>3, <1>2, StationAssumption, SMT DEF IInv, Types, KioskDirect, TabsQueued, Callers
<1>5. o \notin recorded \ (answerLost \union contested)
  BY <1>3, <1>4, SMT DEF IInv, Answers
<1>6. \A p \in Ops : p <= o <=> p <= made \/ p = o
  BY <1>3, SMT DEF Ops
<1>7. \A t \in Tabs : o \notin todo[t]
  BY <1>3 DEF IInv, TabsQueued
<1>8. \A p \in Ops : p > o => p > made /\ p # o
  BY <1>3, SMT DEF Ops
<1> HIDE DEF o
<1>9. Types'
  <2>1. status' \in [Ops -> Statuses] /\ made' \in 0..MaxPunches
    BY <1>1, <1>3 DEF IInv, Types, Statuses
  <2>2. call' \in [Callers -> Stages] /\ cur' \in [Callers -> 0..MaxPunches]
    BY <1>1, <1>3 DEF IInv, Types, Stages
  <2> QED
    BY <1>1, <2>1, <2>2 DEF IInv, Types
<1>10. Idle' /\ Recorded'
  BY <1>1, <1>3 DEF IInv, Idle, Recorded, Success
<1>11. SyncedIsRecorded' /\ ConfirmedIsKept'
  BY <1>1, <1>3 DEF IInv, Types, SyncedIsRecorded, ConfirmedIsKept
<1>12. Fresh'
  BY <1>1, <1>3, <1>8 DEF IInv, Fresh
<1>13. KioskDirect' /\ TabsQueued'
  BY <1>1, <1>2, <1>3, <1>7, <1>4 DEF IInv, KioskDirect, TabsQueued
<1>14. Sole'
  BY <1>1, <1>3, <1>4 DEF IInv, Sole
<1>15. Posted'
  BY <1>1, <1>2, <1>3, <1>4 DEF IInv, Posted
<1>16. Answers'
  <2> SUFFICES ASSUME NEW p \in recorded \ (answerLost \union contested)
               PROVE  \/ status'[p] \in {"synced", "cleared", "direct"}
                      \/ \E c \in Callers : cur'[c] = p /\ Success(call'[c])
    BY <1>1 DEF Answers
  <2>1. p # o /\ p \in Ops
    BY <1>5 DEF IInv, Types
  <2>2. \A c \in Callers : Success(call[c]) => cur'[c] = cur[c] /\ call'[c] = call[c]
    BY <1>1, <1>3 DEF Success
  <2>3. status'[p] = status[p]
    BY <1>3, <2>1
  <2> QED
    BY <2>2, <2>3 DEF IInv, Answers
<1>17. KioskOpen'
  BY <1>1, <1>2, <1>3, <1>5 DEF KioskOpen
<1>18. InOrder' /\ Tried'
  BY <1>1, <1>2, <1>3 DEF IInv, InOrder, Tried
<1> QED
  BY <1>9, <1>10, <1>11, <1>12, <1>13, <1>14, <1>15, <1>16, <1>17, <1>18 DEF IInv

LEMMA TouchOfflineKeeps ==
  ASSUME IInv, NEW ty \in PunchTypes, TouchOffline(ty)
  PROVE  IInv'
<1> DEFINE o == made + 1
<1>1. /\ made < MaxPunches /\ made' = o /\ call[Kiosk] = "none"
      /\ status' = [status EXCEPT ![o] = "pending"]
      /\ confirmed' = confirmed \union {o}
      /\ UNCHANGED <<attempts, todo, seen, call, cur, recorded, answerLost, contested>>
  BY DEF TouchOffline, NewPunch, ShowSuccess, settingVars, serverVars
<1>2. Kiosk \in Callers /\ Kiosk \notin Tabs /\ Tabs \subseteq Callers
  BY StationAssumption DEF Callers
<1>3. /\ o \in Ops /\ status[o] = "none" /\ o \in 0..MaxPunches /\ o # None
      /\ \A p \in Ops : status'[p] = IF p = o THEN "pending" ELSE status[p]
      /\ made \in Nat
  BY <1>1, <1>2, StationAssumption, SMT DEF IInv, Types, Fresh, Ops, None
<1>4. \A c \in Callers : cur[c] # o
  BY <1>3, <1>2, StationAssumption, SMT DEF IInv, Types, KioskDirect, TabsQueued, Callers
<1>5. o \notin recorded \ (answerLost \union contested)
  BY <1>3, <1>4, SMT DEF IInv, Answers
<1>7. \A t \in Tabs : o \notin todo[t]
  BY <1>3 DEF IInv, TabsQueued
<1>8. \A p \in Ops : p > o => p > made /\ p # o
  BY <1>3, SMT DEF Ops
<1>9. cur[Kiosk] = None
  BY <1>1, <1>2 DEF IInv, Idle
<1>10. \A t \in Tabs : \A q \in Ops : q \in todo[t] \/ q = cur[t] => ~ (o < q)
  BY <1>3, SMT DEF IInv, TabsQueued, Fresh, Ops
<1> HIDE DEF o
<1>11. Types'
  <2>1. status' \in [Ops -> Statuses] /\ made' \in 0..MaxPunches
    BY <1>1, <1>3 DEF IInv, Types, Statuses
  <2> QED
    BY <1>1, <1>3, <2>1 DEF IInv, Types
<1>12. Idle' /\ Recorded'
  BY <1>1 DEF IInv, Idle, Recorded
<1>13. SyncedIsRecorded' /\ ConfirmedIsKept'
  BY <1>1, <1>3 DEF IInv, Types, SyncedIsRecorded, ConfirmedIsKept
<1>14. Fresh'
  BY <1>1, <1>3, <1>8 DEF IInv, Fresh
<1>15. KioskDirect' /\ TabsQueued'
  BY <1>1, <1>9, <1>3, <1>7, <1>4 DEF IInv, KioskDirect, TabsQueued
<1>16. Sole' /\ Posted'
  BY <1>1, <1>3 DEF IInv, Sole, Posted
<1>17. Answers'
  BY <1>1, <1>3, <1>5 DEF IInv, Types, Answers
<1>18. KioskOpen' /\ InOrder'
  BY <1>1 DEF IInv, KioskOpen, InOrder
<1>19. Tried'
  BY <1>1, <1>3, <1>10 DEF IInv, Tried
<1> QED
  BY <1>11, <1>12, <1>13, <1>14, <1>15, <1>16, <1>17, <1>18, <1>19 DEF IInv

LEMMA BeginKeeps ==
  ASSUME IInv, NEW t \in Tabs, Begin(t)
  PROVE  IInv'
<1>1. /\ call[t] = "none"
      /\ todo' = [todo EXCEPT ![t] = Pending]
      /\ seen' = [seen EXCEPT ![t] = attempts]
      /\ UNCHANGED <<made, status, attempts, call, cur, recorded, confirmed, answerLost,
                     contested>>
  BY DEF Begin, Busy, settingVars, punchVars, storeVars, serverVars, historyVars
<1>2. /\ Pending \subseteq Ops
      /\ \A u \in Tabs : todo'[u] = IF u = t THEN Pending ELSE todo[u]
      /\ \A p \in Pending : status[p] = "pending"
      /\ cur[t] = None
  BY <1>1 DEF IInv, Types, Idle, Pending, Callers
<1>3. Types'
  <2>1. todo' \in [Tabs -> SUBSET Ops] /\ seen' \in [Tabs -> [Ops -> 0..MaxAttempts]]
    BY <1>1, <1>2 DEF IInv, Types
  <2> QED
    BY <1>1, <2>1 DEF IInv, Types
<1>4. Idle' /\ Recorded' /\ SyncedIsRecorded' /\ ConfirmedIsKept' /\ Fresh' /\ KioskDirect'
  BY <1>1 DEF IInv, Idle, Recorded, SyncedIsRecorded, ConfirmedIsKept, Fresh, KioskDirect
<1>5. TabsQueued'
  BY <1>1, <1>2 DEF IInv, TabsQueued
<1>6. Sole' /\ Posted' /\ Answers' /\ KioskOpen'
  BY <1>1 DEF IInv, Sole, Posted, Answers, KioskOpen
<1>7. InOrder'
  <2>1. \A p \in Ops : None < p
    BY SMT DEF None, Ops
  <2> QED
    BY <1>1, <1>2, <2>1 DEF IInv, InOrder
<1>8. Tried'
  BY <1>1, <1>2 DEF IInv, Tried, Pending
<1> QED
  BY <1>3, <1>4, <1>5, <1>6, <1>7, <1>8 DEF IInv

LEMMA PostKeeps ==
  ASSUME IInv, NEW t \in Tabs, Post(t)
  PROVE  IInv'
<1> DEFINE o == NextOf(todo[t])
<1>1. /\ call[t] = "none" /\ todo[t] # {}
      /\ todo' = [todo EXCEPT ![t] = @ \ {o}]
      /\ call' = [call EXCEPT ![t] = "sent"]
      /\ cur' = [cur EXCEPT ![t] = o]
      /\ contested' = IF status[o] = "pending" /\ \A u \in Tabs \ {t} : cur[u] # o
                      THEN contested ELSE contested \union {o}
      /\ UNCHANGED <<made, status, attempts, seen, recorded, confirmed, answerLost>>
  BY DEF Post, Send, settingVars, punchVars, storeVars, serverVars
<1>2. Kiosk \in Callers /\ Kiosk \notin Tabs /\ Tabs \subseteq Callers
  BY StationAssumption DEF Callers
<1>3. o \in todo[t] /\ o \in Ops /\ \A p \in todo[t] : o <= p
  BY <1>1, First DEF IInv, Types
<1>4. /\ o \in 0..MaxPunches /\ o # None
      /\ status[o] \notin {"none", "direct"}
  BY <1>3, SMT DEF IInv, TabsQueued, Ops, None
<1> HIDE DEF o
<1>5. /\ \A c \in Callers : cur'[c] = IF c = t THEN o ELSE cur[c]
      /\ \A c \in Callers : call'[c] = IF c = t THEN "sent" ELSE call[c]
      /\ \A u \in Tabs : todo'[u] = IF u = t THEN todo[t] \ {o} ELSE todo[u]
  BY <1>1, <1>2 DEF IInv, Types
<1>6. contested \subseteq contested' /\ contested' \subseteq Ops
  BY <1>1, <1>3 DEF IInv, Types
<1>7. o \notin contested' => status[o] = "pending" /\ \A u \in Tabs \ {t} : cur[u] # o
  BY <1>1
<1>8. cur[Kiosk] # o
  BY <1>4 DEF IInv, KioskDirect
<1>9. cur[t] = None
  BY <1>1, <1>2 DEF IInv, Idle
<1>10. Types'
  <2>1. todo' \in [Tabs -> SUBSET Ops]
    BY <1>1 DEF IInv, Types
  <2>2. call' \in [Callers -> Stages] /\ cur' \in [Callers -> 0..MaxPunches]
    BY <1>1, <1>4 DEF IInv, Types, Stages
  <2> QED
    BY <1>1, <1>6, <2>1, <2>2 DEF IInv, Types
<1>11. Idle' /\ Recorded'
  BY <1>1, <1>4, <1>5 DEF IInv, Idle, Recorded, Success
<1>12. SyncedIsRecorded' /\ ConfirmedIsKept' /\ Fresh'
  BY <1>1 DEF IInv, SyncedIsRecorded, ConfirmedIsKept, Fresh
<1>13. KioskDirect' /\ TabsQueued'
  BY <1>1, <1>2, <1>3, <1>5 DEF IInv, KioskDirect, TabsQueued
<1>14. Sole'
  <2> SUFFICES ASSUME NEW c \in Callers, NEW d \in Callers,
                      c # d, cur'[c] = cur'[d], cur'[c] # None
               PROVE  cur'[c] \in contested'
    BY DEF Sole
  <2>1. CASE c # t /\ d # t
    BY <2>1, <1>5, <1>6 DEF IInv, Sole
  <2>2. CASE c = t \/ d = t
    <3>1. cur'[c] = o /\ \E u \in Callers \ {t} : cur[u] = o
      BY <2>2, <1>5
    <3>2. \E u \in Tabs \ {t} : cur[u] = o
      BY <3>1, <1>8 DEF Callers
    <3> QED
      BY <3>1, <3>2, <1>7
  <2> QED
    BY <2>1, <2>2
<1>15. Posted'
  BY <1>1, <1>2, <1>5, <1>6, <1>7 DEF IInv, Posted
<1>16. Answers'
  <2> SUFFICES ASSUME NEW p \in recorded \ (answerLost \union contested')
               PROVE  \/ status[p] \in {"synced", "cleared", "direct"}
                      \/ \E c \in Callers : cur'[c] = p /\ Success(call'[c])
    BY <1>1 DEF Answers
  <2>1. p \in recorded \ (answerLost \union contested)
    BY <1>6
  <2>2. \A c \in Callers : Success(call[c]) => cur'[c] = cur[c] /\ call'[c] = call[c]
    BY <1>1, <1>5 DEF Success
  <2> QED
    BY <2>1, <2>2 DEF IInv, Answers
<1>17. KioskOpen'
  BY <1>1, <1>2, <1>5, <1>6 DEF IInv, KioskOpen
<1>18. InOrder'
  <2> SUFFICES ASSUME NEW u \in Tabs, NEW p \in todo'[u]
               PROVE  cur'[u] < p
    BY DEF InOrder
  <2>1. CASE u = t
    <3>1. cur'[u] = o /\ p \in todo[t] /\ p # o /\ o <= p /\ p \in Ops
      BY <2>1, <1>5, <1>2, <1>3 DEF IInv, Types
    <3> QED
      BY <3>1, <1>3, SMT DEF Ops
  <2>2. CASE u # t
    BY <2>2, <1>5, <1>2 DEF IInv, InOrder
  <2> QED
    BY <2>1, <2>2
<1>19. Tried'
  <2> SUFFICES ASSUME NEW u \in Tabs, NEW q \in Ops, NEW p \in Ops,
                      q \in todo'[u] \/ q = cur'[u],
                      p < q, status[p] = "pending", p \notin recorded
               PROVE  attempts[p] > 0 \/ p \in todo'[u] \/ p = cur'[u]
    BY <1>1 DEF Tried
  <2>1. CASE u = t
    <3>1. q \in todo[t]
      BY <2>1, <1>5, <1>2, <1>3
    <3>2. p # None
      BY SMT DEF None, Ops
    <3>3. attempts[p] > 0 \/ p \in todo[t]
      BY <3>1, <3>2, <1>9 DEF IInv, Tried
    <3> QED
      BY <2>1, <3>3, <1>5, <1>2
  <2>2. CASE u # t
    BY <2>2, <1>5, <1>2 DEF IInv, Tried
  <2> QED
    BY <2>1, <2>2
<1> QED
  BY <1>10, <1>11, <1>12, <1>13, <1>14, <1>15, <1>16, <1>17, <1>18, <1>19 DEF IInv

LEMMA ReloadKeeps ==
  ASSUME IInv, NEW t \in Tabs, Reload(t)
  PROVE  IInv'
<1> DEFINE gone == CallsOf(t)
<1>1. /\ todo' = [todo EXCEPT ![t] = {}]
      /\ seen' = [seen EXCEPT ![t] = NoAttempts]
      /\ call' = [c \in Callers |-> IF c \in gone THEN "none" ELSE call[c]]
      /\ cur' = [c \in Callers |-> IF c \in gone THEN None ELSE cur[c]]
      /\ answerLost' = answerLost \union {cur[c] : c \in {d \in gone : Success(call[d])}}
      /\ UNCHANGED <<made, status, attempts, recorded, confirmed, contested>>
  BY DEF Reload, punchVars, storeVars, serverVars
<1>2. /\ Kiosk \in Callers /\ Kiosk \notin Tabs /\ Tabs \subseteq Callers
      /\ t \in gone /\ gone \subseteq Callers /\ \A u \in Tabs : u \in gone => u = t
  BY StationAssumption DEF Callers, CallsOf
<1> HIDE DEF gone
<1>3. /\ \A c \in Callers : cur'[c] = IF c \in gone THEN None ELSE cur[c]
      /\ \A c \in Callers : call'[c] = IF c \in gone THEN "none" ELSE call[c]
      /\ \A u \in Tabs : todo'[u] = IF u = t THEN {} ELSE todo[u]
  BY <1>1, <1>2 DEF IInv, Types
<1>4. answerLost \subseteq answerLost' /\ answerLost' \subseteq Ops
  BY <1>1, <1>2 DEF IInv, Types, Recorded
<1>5. \A p \in Ops : p # None
  BY SMT DEF Ops, None
<1>6. Types'
  <2>1. todo' \in [Tabs -> SUBSET Ops]
    BY <1>1 DEF IInv, Types
  <2>2. call' \in [Callers -> Stages] /\ cur' \in [Callers -> 0..MaxPunches]
    BY <1>1, NoneIsNoPunch DEF IInv, Types, Stages
  <2>3. NoAttempts \in [Ops -> 0..MaxAttempts]
    BY StationAssumption DEF NoAttempts
  <2>4. seen' \in [Tabs -> [Ops -> 0..MaxAttempts]]
    BY <1>1, <2>3 DEF IInv, Types
  <2> QED
    BY <1>1, <1>4, <2>1, <2>2, <2>4 DEF IInv, Types
<1>7. Idle' /\ Recorded'
  BY <1>1, <1>3 DEF IInv, Idle, Recorded, Success
<1>8. SyncedIsRecorded' /\ ConfirmedIsKept' /\ Fresh'
  BY <1>1 DEF IInv, SyncedIsRecorded, ConfirmedIsKept, Fresh
<1>9. KioskDirect' /\ TabsQueued'
  BY <1>1, <1>2, <1>3, <1>5 DEF IInv, KioskDirect, TabsQueued
<1>10. Sole' /\ Posted'
  BY <1>1, <1>2, <1>3, <1>5 DEF IInv, Sole, Posted
<1>11. Answers'
  <2> SUFFICES ASSUME NEW p \in recorded \ (answerLost' \union contested)
               PROVE  \/ status[p] \in {"synced", "cleared", "direct"}
                      \/ \E c \in Callers : cur'[c] = p /\ Success(call'[c])
    BY <1>1 DEF Answers
  <2>1. \A c \in Callers : cur[c] = p /\ Success(call[c]) => c \notin gone
    BY <1>1
  <2> QED
    BY <2>1, <1>3, <1>4 DEF IInv, Answers
<1>12. KioskOpen'
  BY <1>1, <1>2, <1>3, <1>4 DEF IInv, KioskOpen
<1>13. InOrder' /\ Tried'
  <2>1. \A u \in Tabs : u # t => cur'[u] = cur[u] /\ todo'[u] = todo[u]
    BY <1>2, <1>3
  <2>2. cur'[t] = None /\ todo'[t] = {}
    BY <1>2, <1>3
  <2> QED
    BY <1>1, <1>5, <2>1, <2>2 DEF IInv, InOrder, Tried
<1> QED
  BY <1>6, <1>7, <1>8, <1>9, <1>10, <1>11, <1>12, <1>13 DEF IInv

LEMMA DrainAnsweredKeeps ==
  ASSUME IInv, NEW t \in Tabs, DrainAnswered(t)
  PROVE  IInv'
<1> DEFINE o == cur[t]
           n == Min({seen[t][o] + 1, MaxAttempts})
<1>1. /\ call[t] \notin {"none", "sent", "checked"}
      /\ call' = [call EXCEPT ![t] = "none"]
      /\ cur' = [cur EXCEPT ![t] = None]
      /\ seen' = IF todo'[t] = {} THEN [seen EXCEPT ![t] = NoAttempts] ELSE seen
      /\ UNCHANGED <<made, recorded, confirmed, answerLost, contested>>
  BY DEF DrainAnswered, Answered, Done, settingVars, punchVars, serverVars, historyVars
<1>2. \/ Success(call[t]) /\ Mark(o, "synced", attempts[o]) /\ todo' = todo
      \/ /\ ~Success(call[t])
         /\ todo' = [todo EXCEPT ![t] = {}]
         /\ status' = status /\ attempts' = attempts
      \/ /\ ~Success(call[t])
         /\ \E st \in {"quarantined", "pending"} : Mark(o, st, n)
         /\ todo' = todo
  BY DEF DrainAnswered, MarkFailed, EndsDrain, Success, storeVars
<1>3. Kiosk \in Callers /\ Kiosk \notin Tabs /\ Tabs \subseteq Callers
  BY StationAssumption DEF Callers
<1>4. o \in Ops /\ status[o] \notin {"none", "direct"}
  <2>1. o \in Ops
    BY <1>1, <1>3, SMT DEF IInv, Types, Idle, Ops, None
  <2> QED
    BY <2>1 DEF IInv, TabsQueued
<1>5. n \in 1..MaxAttempts
  BY <1>4, Tries DEF IInv, Types
<1> HIDE DEF o, n
<1>6. /\ \A c \in Callers : cur'[c] = IF c = t THEN None ELSE cur[c]
      /\ \A c \in Callers : call'[c] = IF c = t THEN "none" ELSE call[c]
  BY <1>1, <1>3 DEF IInv, Types
<1>7. \A p \in Ops : p # None
  BY SMT DEF Ops, None
<1>8. \A p \in Ops : p # o => status'[p] = status[p] /\ attempts'[p] = attempts[p]
  BY <1>2, <1>4 DEF IInv, Types, Mark
<1>9. /\ status[o] = "cleared" => status'[o] = "cleared"
      /\ status'[o] \in {status[o], "synced", "quarantined", "pending"}
      /\ status'[o] = "synced" => status[o] = "synced" \/ Success(call[t])
      /\ status'[o] = "pending" =>
           ~Success(call[t]) /\ (attempts'[o] = n \/ todo'[t] = {})
  BY <1>2, <1>4 DEF IInv, Types, Mark
<1>10. /\ Success(call[t]) => o \in recorded
       /\ Success(call[t]) /\ status[o] # "cleared" => status'[o] = "synced"
  BY <1>2, <1>3, <1>4 DEF IInv, Types, Recorded, Mark, o
<1>11. \A u \in Tabs : todo'[u] = todo[u] \/ (u = t /\ todo'[u] = {})
  BY <1>2 DEF IInv, Types
<1>12. Types'
  <2>1. status' \in [Ops -> Statuses]
    BY <1>2, <1>4 DEF IInv, Types, Statuses, Mark
  <2>2. attempts' \in [Ops -> 0..MaxAttempts]
    <3>1. n \in 0..MaxAttempts
      BY <1>5, SMT
    <3> QED
      BY <1>2, <1>4, <3>1 DEF IInv, Types, Mark
  <2>3. todo' \in [Tabs -> SUBSET Ops]
    BY <1>2 DEF IInv, Types
  <2>4. call' \in [Callers -> Stages] /\ cur' \in [Callers -> 0..MaxPunches]
    BY <1>1, NoneIsNoPunch DEF IInv, Types, Stages
  <2>5. NoAttempts \in [Ops -> 0..MaxAttempts]
    BY StationAssumption DEF NoAttempts
  <2>6. seen' \in [Tabs -> [Ops -> 0..MaxAttempts]]
    BY <1>1, <2>5 DEF IInv, Types
  <2> QED
    BY <1>1, <2>1, <2>2, <2>3, <2>4, <2>6 DEF IInv, Types
<1>13. Idle' /\ Recorded'
  BY <1>1, <1>6 DEF IInv, Idle, Recorded, Success
<1>14. SyncedIsRecorded' /\ Fresh'
  <2>1. SyncedIsRecorded'
    BY <1>1, <1>8, <1>9, <1>10 DEF IInv, SyncedIsRecorded
  <2>2. o <= made /\ ~ (o > made)
    BY <1>4, SMT DEF IInv, Types, Fresh, Ops
  <2>3. Fresh'
    BY <1>1, <1>8, <2>2 DEF IInv, Fresh
  <2> QED
    BY <2>1, <2>3
<1>15. ConfirmedIsKept'
  <2> SUFFICES ASSUME NEW p \in confirmed
               PROVE  p \in recorded \/ status'[p] \in {"pending", "quarantined", "cleared"}
    BY <1>1 DEF ConfirmedIsKept
  <2>1. p \in Ops /\ (p \in recorded \/ status[p] \in {"pending", "quarantined", "cleared"})
    BY DEF IInv, Types, ConfirmedIsKept
  <2> QED
    BY <2>1, <1>8, <1>9, <1>10
<1>16. KioskDirect'
  <2>1. cur[Kiosk] # None => made \in Ops
    BY <1>3, SMT DEF IInv, Types, Ops, KioskDirect, None
  <2> QED
    BY <1>1, <1>3, <1>4, <1>6, <1>8, <2>1 DEF IInv, KioskDirect
<1>17. TabsQueued'
  BY <1>3, <1>4, <1>6, <1>7, <1>8, <1>9, <1>11 DEF IInv, TabsQueued
<1>18. Sole'
  BY <1>1, <1>6 DEF IInv, Sole
<1>19. Posted'
  <2> SUFFICES ASSUME NEW u \in Tabs, NEW p \in Ops, p = cur'[u], p \notin contested
               PROVE  status'[p] \in {"pending", "cleared"}
    BY <1>1 DEF Posted
  <2>1. u # t /\ p = cur[u]
    BY <1>3, <1>6, <1>7
  <2>2. p # o
    BY <2>1, <1>3, <1>7 DEF IInv, Sole, o
  <2> QED
    BY <2>1, <2>2, <1>8 DEF IInv, Posted
<1>20. Answers'
  <2> SUFFICES ASSUME NEW p \in recorded \ (answerLost \union contested)
               PROVE  \/ status'[p] \in {"synced", "cleared", "direct"}
                      \/ \E c \in Callers : cur'[c] = p /\ Success(call'[c])
    BY <1>1 DEF Answers
  <2>1. p \in Ops
    BY DEF IInv, Types
  <2>2. CASE p # o
    <3>1. CASE status[p] \in {"synced", "cleared", "direct"}
      BY <3>1, <2>1, <2>2, <1>8
    <3>2. CASE \E c \in Callers : cur[c] = p /\ Success(call[c])
      <4>1. PICK c \in Callers : cur[c] = p /\ Success(call[c])
        BY <3>2
      <4>2. c # t
        BY <4>1, <2>2 DEF o
      <4> QED
        BY <4>1, <4>2, <1>6
    <3> QED
      BY <3>1, <3>2 DEF IInv, Answers
  <2>3. CASE p = o
    <3>1. status[o] \in {"pending", "cleared"}
      BY <2>3, <2>1 DEF IInv, Posted, o
    <3>2. CASE status[o] = "cleared"
      BY <3>2, <2>3, <1>9
    <3>3. CASE status[o] = "pending"
      <4>1. PICK c \in Callers : cur[c] = o /\ Success(call[c])
        BY <3>3, <2>3 DEF IInv, Answers
      <4>2. c = t
        BY <4>1, <2>3, <1>3, <1>4, <1>7 DEF IInv, Sole, o
      <4> QED
        BY <4>1, <4>2, <1>10, <2>3, <3>3
    <3> QED
      BY <3>1, <3>2, <3>3
  <2> QED
    BY <2>2, <2>3
<1>21. KioskOpen'
  BY <1>1, <1>3, <1>6 DEF IInv, KioskOpen
<1>22. InOrder'
  <2>1. \A p \in Ops : None < p
    BY SMT DEF None, Ops
  <2>2. \A u \in Tabs : todo'[u] \subseteq todo[u] /\ todo[u] \subseteq Ops
    BY <1>11 DEF IInv, Types
  <2> QED
    BY <1>3, <1>6, <2>1, <2>2 DEF IInv, InOrder
<1>23. Tried'
  <2> SUFFICES ASSUME NEW u \in Tabs, NEW q \in Ops, NEW p \in Ops,
                      q \in todo'[u] \/ q = cur'[u],
                      p < q, status'[p] = "pending", p \notin recorded
               PROVE  attempts'[p] > 0 \/ p \in todo'[u] \/ p = cur'[u]
    BY <1>1 DEF Tried
  <2>1. (todo'[u] = todo[u] /\ q \in todo[u]) \/ (u # t /\ q = cur[u])
    BY <1>3, <1>6, <1>7, <1>11
  <2>2. todo'[u] = todo[u]
    BY <2>1, <1>11
  <2>3. CASE p # o
    <3>1. status[p] = "pending" /\ attempts'[p] = attempts[p]
      BY <2>3, <1>8
    <3>2. attempts[p] > 0 \/ p \in todo[u] \/ p = cur[u]
      BY <3>1, <2>1 DEF IInv, Tried
    <3>3. p = cur[u] => u # t
      BY <2>3 DEF o
    <3> QED
      BY <3>1, <3>2, <3>3, <2>2, <1>3, <1>6
  <2>4. CASE p = o /\ attempts'[p] = n
    BY <2>4, <1>5, SMT
  <2>5. CASE p = o /\ attempts'[p] # n
    <3>1. todo'[t] = {}
      BY <2>5, <1>9
    <3>2. u # t
      BY <3>1, <2>1, <2>2
    <3>3. status[p] = "pending" /\ attempts'[p] = attempts[p]
      BY <2>5, <3>1, <1>2, <1>4, <1>9, <1>10 DEF IInv, Types, Mark
    <3>4. attempts[p] > 0 \/ p \in todo[u] \/ p = cur[u]
      BY <3>3, <2>1, <3>2 DEF IInv, Tried
    <3> QED
      BY <3>2, <3>3, <3>4, <2>2, <1>3, <1>6
  <2> QED
    BY <2>3, <2>4, <2>5
<1> QED
  BY <1>12, <1>13, <1>14, <1>15, <1>16, <1>17, <1>18, <1>19, <1>20, <1>21, <1>22, <1>23
     DEF IInv

\* Check, Refuse and Lose move a call on and leave the rest alone, but for what the
\* history says of an answer that is lost.
LEMMA MovingOnKeeps ==
  ASSUME IInv, NEW c \in Callers, NEW stage \in Stages \ {"none"},
         call[c] # "none", call' = [call EXCEPT ![c] = stage],
         Success(stage) => cur[c] \in recorded,
         answerLost \subseteq answerLost', answerLost' \subseteq Ops,
         Success(call[c]) /\ ~Success(stage) => cur[c] \in answerLost',
         UNCHANGED <<made, status, attempts, todo, seen, cur, recorded, confirmed,
                     contested>>
  PROVE  IInv'
<1>1. \A d \in Callers : call'[d] = IF d = c THEN stage ELSE call[d]
  BY DEF IInv, Types
<1>2. Types'
  BY DEF IInv, Types
<1>3. Idle' /\ Recorded'
  BY <1>1 DEF IInv, Idle, Recorded
<1>4. SyncedIsRecorded' /\ ConfirmedIsKept' /\ Fresh' /\ KioskDirect'
  BY DEF IInv, SyncedIsRecorded, ConfirmedIsKept, Fresh, KioskDirect
<1>5. TabsQueued' /\ Sole' /\ Posted' /\ InOrder' /\ Tried'
  BY DEF IInv, TabsQueued, Sole, Posted, InOrder, Tried
<1>6. Answers'
  <2> SUFFICES ASSUME NEW p \in recorded \ (answerLost' \union contested)
               PROVE  \/ status[p] \in {"synced", "cleared", "direct"}
                      \/ \E d \in Callers : cur[d] = p /\ Success(call'[d])
    BY DEF Answers
  <2>1. CASE status[p] \in {"synced", "cleared", "direct"}
    BY <2>1
  <2>2. CASE \E d \in Callers : cur[d] = p /\ Success(call[d])
    <3>1. PICK d \in Callers : cur[d] = p /\ Success(call[d])
      BY <2>2
    <3>2. CASE d = c
      BY <3>1, <3>2, <1>1
    <3>3. CASE d # c
      BY <3>1, <3>3, <1>1
    <3> QED
      BY <3>2, <3>3
  <2> QED
    BY <2>1, <2>2 DEF IInv, Answers
<1>7. KioskOpen'
  BY <1>1 DEF IInv, KioskOpen, Callers
<1> QED
  BY <1>2, <1>3, <1>4, <1>5, <1>6, <1>7 DEF IInv

LEMMA CheckKeeps ==
  ASSUME IInv, NEW c \in Callers, Check(c)
  PROVE  IInv'
<1>1. PICK stage \in {"refused", "disabled", "duplicate", "permanent", "checked"} :
        /\ call' = [call EXCEPT ![c] = stage]
        /\ stage = "duplicate" => cur[c] \in recorded
  <2> DEFINE verdict ==
        IF ~paired THEN "refused"
        ELSE IF Deferred(c) /\ ~flag THEN "disabled"
        ELSE IF cur[c] \in recorded THEN "duplicate"
        ELSE IF Deferred(c) /\ \E p \in recorded :
                  at[p] > (IF Deferred(c) THEN touch[cur[c]] ELSE 2 * clock) THEN "permanent"
        ELSE IF Allows(DayState, type[cur[c]]) THEN "checked" ELSE "refused"
  <2>1. call' = [call EXCEPT ![c] = verdict]
    BY DEF Check, Answer
  <2>2. verdict \in {"refused", "disabled", "duplicate", "permanent", "checked"}
    OBVIOUS
  <2>3. verdict = "duplicate" => cur[c] \in recorded
    OBVIOUS
  <2> QED
    BY <2>1, <2>2, <2>3
<1>2. /\ call[c] = "sent"
      /\ UNCHANGED <<made, status, attempts, todo, seen, cur, recorded, confirmed,
                     answerLost, contested>>
  BY DEF Check, settingVars, punchVars, storeVars, serverVars
<1>3. /\ stage \in Stages \ {"none"}
      /\ Success(stage) => cur[c] \in recorded
      /\ ~Success(call[c])
  BY <1>1, <1>2 DEF Stages, Success
<1>4. answerLost' \subseteq Ops
  BY <1>2 DEF IInv, Types
<1> QED
  BY <1>1, <1>2, <1>3, <1>4, MovingOnKeeps

LEMMA RefuseKeeps ==
  ASSUME IInv, NEW c \in Callers, Refuse(c)
  PROVE  IInv'
<1>1. PICK stage \in {"refused", "permanent"} : call' = [call EXCEPT ![c] = stage]
  BY DEF Refuse, Answer
<1>2. /\ call[c] = "sent"
      /\ UNCHANGED <<made, status, attempts, todo, seen, cur, recorded, confirmed,
                     answerLost, contested>>
  BY DEF Refuse, settingVars, punchVars, storeVars, serverVars, historyVars
<1>3. stage \in Stages \ {"none"} /\ ~Success(stage) /\ ~Success(call[c])
  BY <1>1, <1>2 DEF Stages, Success
<1>4. answerLost' \subseteq Ops
  BY <1>2 DEF IInv, Types
<1> QED
  BY <1>1, <1>2, <1>3, <1>4, MovingOnKeeps

LEMMA LoseKeeps ==
  ASSUME IInv, NEW c \in Callers, Lose(c)
  PROVE  IInv'
<1>1. /\ call[c] = "sent" \/ Success(call[c])
      /\ call' = [call EXCEPT ![c] = "network"]
      /\ answerLost' = IF Success(call[c]) THEN answerLost \union {cur[c]} ELSE answerLost
      /\ UNCHANGED <<made, status, attempts, todo, seen, cur, recorded, confirmed,
                     contested>>
  BY DEF Lose, Answer, settingVars, punchVars, storeVars, serverVars
<1>2. call[c] # "none"
  BY <1>1 DEF Success
<1>3. "network" \in Stages \ {"none"} /\ ~Success("network")
  BY DEF Stages, Success
<1>4. answerLost \subseteq answerLost' /\ answerLost' \subseteq Ops
  BY <1>1 DEF IInv, Types, Recorded
<1>5. Success(call[c]) => cur[c] \in answerLost'
  BY <1>1
<1> QED
  BY <1>1, <1>2, <1>3, <1>4, <1>5, MovingOnKeeps

LEMMA CommitKeeps ==
  ASSUME IInv, NEW c \in Callers, Commit(c)
  PROVE  IInv'
<1> DEFINE o == cur[c]
<1>1. /\ call[c] = "checked"
      /\ UNCHANGED <<made, status, attempts, todo, seen, cur, confirmed, answerLost,
                     contested>>
  BY DEF Commit, settingVars, punchVars, storeVars, historyVars
<1>2. CASE o \in recorded
  <2>1. call' = [call EXCEPT ![c] = "refused"] /\ recorded' = recorded
    BY <1>2 DEF Commit, Answer, serverVars
  <2>2. "refused" \in Stages \ {"none"} /\ ~Success("refused") /\ ~Success(call[c])
    BY <1>1 DEF Stages, Success
  <2>3. answerLost' \subseteq Ops
    BY <1>1 DEF IInv, Types
  <2> QED
    BY <1>1, <2>1, <2>2, <2>3, MovingOnKeeps
<1>3. CASE o \notin recorded
  <2>1. call' = [call EXCEPT ![c] = "created"] /\ recorded' = recorded \union {o}
    BY <1>3 DEF Commit, Answer
  <2>2. o \in Ops
    BY <1>1, SMT DEF IInv, Types, Idle, Ops, None
  <2>3. \A d \in Callers : call'[d] = IF d = c THEN "created" ELSE call[d]
    BY <2>1 DEF IInv, Types
  <2> HIDE DEF o
  <2>4. Types'
    BY <1>1, <2>1, <2>2 DEF IInv, Types, Stages
  <2>5. Idle' /\ Recorded'
    BY <1>1, <2>1, <2>3 DEF IInv, Idle, Recorded, o
  <2>6. SyncedIsRecorded' /\ ConfirmedIsKept' /\ Fresh' /\ KioskDirect'
    BY <1>1, <2>1 DEF IInv, SyncedIsRecorded, ConfirmedIsKept, Fresh, KioskDirect
  <2>7. TabsQueued' /\ Sole' /\ Posted' /\ InOrder' /\ Tried'
    BY <1>1, <2>1 DEF IInv, TabsQueued, Sole, Posted, InOrder, Tried
  <2>8. Answers'
    <3> SUFFICES ASSUME NEW p \in recorded' \ (answerLost \union contested)
                 PROVE  \/ status[p] \in {"synced", "cleared", "direct"}
                        \/ \E d \in Callers : cur[d] = p /\ Success(call'[d])
      BY <1>1 DEF Answers
    <3>1. CASE p = o
      <4>1. Success(call'[c]) /\ cur[c] = p
        BY <3>1, <2>3 DEF Success, o
      <4> QED
        BY <4>1
    <3>2. CASE p # o
      <4>1. \A d \in Callers : Success(call[d]) => call'[d] = call[d]
        BY <1>1, <2>3 DEF Success
      <4> QED
        BY <3>2, <2>1, <4>1 DEF IInv, Answers
    <3> QED
      BY <3>1, <3>2
  <2>9. KioskOpen'
    <3> SUFFICES ASSUME call'[Kiosk] # "none", ~Success(call'[Kiosk])
                 PROVE  cur[Kiosk] \notin recorded' \ (answerLost \union contested)
      BY <1>1 DEF KioskOpen
    <3>1. Kiosk \in Callers /\ Kiosk # c
      BY <2>3 DEF Callers, Success
    <3>2. cur[Kiosk] \notin recorded \ (answerLost \union contested)
      BY <3>1, <2>3 DEF IInv, KioskOpen
    <3>3. cur[Kiosk] = o => o \in contested
      BY <3>1, <2>2, SMT DEF IInv, Sole, o, None, Ops
    <3> QED
      BY <3>2, <3>3, <2>1
  <2> QED
    BY <2>4, <2>5, <2>6, <2>7, <2>8, <2>9 DEF IInv
<1> QED
  BY <1>2, <1>3

-----------------------------------------------------------------------------
(* Theorems *)

LEMMA NextKeeps ==
  ASSUME IInv, [Next]_vars
  PROVE  IInv'
<1>1. CASE \/ NewSession \/ Connect \/ SetFlag \/ HeartbeatFails \/ UNCHANGED vars
          \/ \E t \in Tabs : Refresh(t)
  <2>1. UNCHANGED coreVars
    BY <1>1 DEF NewSession, Refresh, Connect, SetFlag, HeartbeatFails, vars, coreVars,
                settingVars, punchVars, storeVars, serverVars, historyVars
  <2> QED
    BY <2>1, Steady
<1>2. CASE KioskAnswered
  BY <1>2, KioskAnsweredKeeps
<1>3. CASE Unpair
  BY <1>3, UnpairKeeps
<1>4. ASSUME NEW ty \in PunchTypes, TouchOnline(ty) PROVE IInv'
  BY <1>4, TouchOnlineKeeps
<1>5. ASSUME NEW ty \in PunchTypes, TouchOffline(ty) PROVE IInv'
  BY <1>5, TouchOfflineKeeps
<1>6. ASSUME NEW t \in Tabs, Begin(t) PROVE IInv'
  BY <1>6, BeginKeeps
<1>7. ASSUME NEW t \in Tabs, Post(t) PROVE IInv'
  BY <1>7, PostKeeps
<1>8. ASSUME NEW t \in Tabs, DrainAnswered(t) PROVE IInv'
  BY <1>8, DrainAnsweredKeeps
<1>9. ASSUME NEW t \in Tabs, Reload(t) PROVE IInv'
  BY <1>9, ReloadKeeps
<1>10. ASSUME NEW c \in Callers, Check(c) PROVE IInv'
  BY <1>10, CheckKeeps
<1>11. ASSUME NEW c \in Callers, Commit(c) PROVE IInv'
  BY <1>11, CommitKeeps
<1>12. ASSUME NEW c \in Callers, Refuse(c) PROVE IInv'
  BY <1>12, RefuseKeeps
<1>13. ASSUME NEW c \in Callers, Lose(c) PROVE IInv'
  BY <1>13, LoseKeeps
<1> QED
  BY <1>1, <1>2, <1>3, <1>4, <1>5, <1>6, <1>7, <1>8, <1>9, <1>10, <1>11, <1>12, <1>13
     DEF Next

\* The inductive invariant of the page, the drains and the server.
THEOREM Invariant == Spec => []IInv
<1>1. Init => IInv
  BY InitIInv
<1>2. IInv /\ [Next]_vars => IInv'
  BY NextKeeps
<1> QED
  BY <1>1, <1>2, PTL DEF Spec

\* Whatever the drains of any number of tabs do, a row is called synced only when
\* the server has the punch (useStationSync.ts, markStationOpSynced).
THEOREM Synced == Spec => []SyncedIsRecorded
<1>1. IInv => SyncedIsRecorded
  BY DEF IInv
<1> QED
  BY <1>1, Invariant, PTL

\* A punch the page confirmed is recorded, queued, in quarantine, or cleared when the
\* station was unpaired, whatever happens to the credentials (handlePunch,
\* enqueueOffline, clearStationCredentials).
THEOREM Kept == Spec => []ConfirmedIsKept
<1>1. IInv => ConfirmedIsKept
  BY DEF IInv
<1> QED
  BY <1>1, Invariant, PTL

-----------------------------------------------------------------------------
(* What a lost answer can do: alone, nothing. *)

LostIsRecorded == answerLost \subseteq recorded

\* A lost answer has cost a fault; so have the credentials that are gone, or two
\* drains have collided.
Costs ==
  /\ faults \in Nat
  /\ answerLost # {} => faults > 0
  /\ ~paired => faults > 0 \/ contested # {}
  /\ answerLost # {} /\ ~paired => faults > 1 \/ contested # {}

Denied == {"refused", "permanent", "checked"}

\* There was no other fault than a loss, and no two drains at one punch.
Calm == faults <= 1 /\ contested = {}

\* Then nobody denies the punch whose answer was lost.
MadeGood ==
  Calm => \A o \in answerLost :
    /\ status[o] # "quarantined"
    /\ \A c \in Callers : cur[c] = o => call[c] \notin Denied

\* What is recorded while a call is about to insert it was posted by two drains.
Collision ==
  \A c \in Callers : call[c] = "checked" /\ cur[c] \in recorded => cur[c] \in contested

HonestInv == LostIsRecorded /\ Costs /\ MadeGood /\ Collision

\* Steps that lose no answer and deny no punch.
LEMMA QuietKeeps ==
  ASSUME HonestInv,
         UNCHANGED <<recorded, answerLost>>, contested \subseteq contested',
         faults' = faults \/ faults' = faults + 1,
         ~paired' => ~paired \/ faults' = faults + 1,
         \A o \in answerLost : status'[o] = "quarantined" => status[o] = "quarantined",
         \A c \in Callers : call'[c] \in Denied => call'[c] = call[c] /\ cur'[c] = cur[c]
  PROVE  HonestInv'
<1>1. LostIsRecorded' /\ faults' \in Nat /\ faults <= faults'
  BY SMT DEF HonestInv, LostIsRecorded, Costs
<1>2. contested # {} => contested' # {}
  OBVIOUS
<1>3. Costs'
  BY <1>1, <1>2, SMT DEF HonestInv, Costs
<1>4. Calm' => Calm
  BY <1>1, <1>2, SMT DEF HonestInv, Costs, Calm
<1>5. MadeGood'
  BY <1>4 DEF HonestInv, MadeGood
<1>6. Collision'
  BY DEF HonestInv, Collision, Denied
<1> QED
  BY <1>1, <1>3, <1>5, <1>6 DEF HonestInv

\* The callers of C, if there are any, lose the answers that their punches were
\* recorded.
LEMMA LosesKeeps ==
  ASSUME IInv, HonestInv, NEW C \in SUBSET Callers, \A c \in C : Success(call[c]),
         answerLost' = answerLost \union {cur[c] : c \in C}, faults' = faults + 1,
         \A c \in C : call'[c] \notin Denied,
         \A d \in Callers \ C : call'[d] \in Denied => call'[d] = call[d] /\ cur'[d] = cur[d],
         UNCHANGED <<status, paired, recorded, contested>>
  PROVE  HonestInv'
<1>1. \A c \in C : cur[c] \in recorded /\ cur[c] \in Ops
  BY DEF IInv, Recorded, Types
<1>2. LostIsRecorded'
  BY <1>1 DEF HonestInv, LostIsRecorded
<1>3. Costs'
  BY SMT DEF HonestInv, Costs
<1>4. Calm' => answerLost = {} /\ contested = {}
  BY SMT DEF HonestInv, Costs, Calm
<1>5. ASSUME NEW c \in C, contested = {}
      PROVE  /\ status[cur[c]] # "quarantined"
             /\ \A d \in Callers : cur'[d] = cur[c] => call'[d] \notin Denied
  <2>1. cur[c] # None /\ cur[c] \in Ops
    BY <1>1, SMT DEF Ops, None
  <2>2. status[cur[c]] # "quarantined"
    <3>1. CASE c = Kiosk
      BY <3>1, <2>1 DEF IInv, KioskDirect
    <3>2. CASE c \in Tabs
      BY <3>2, <2>1, <1>5 DEF IInv, Posted
    <3> QED
      BY <3>1, <3>2 DEF Callers
  <2>3. \A d \in Callers \ C : cur[d] # cur[c]
    BY <2>1, <1>5 DEF IInv, Sole
  <2> QED
    BY <2>2, <2>3
<1>6. MadeGood'
  BY <1>4, <1>5 DEF MadeGood
<1>7. Collision'
  BY DEF HonestInv, Collision, Denied
<1> QED
  BY <1>2, <1>3, <1>6, <1>7 DEF HonestInv

\* Caller c gets the answer stage from the server, which may cost the credentials.
LEMMA ServedKeeps ==
  ASSUME IInv, HonestInv, NEW c \in Callers, NEW stage, call' = [call EXCEPT ![c] = stage],
         faults' = faults \/ faults' = faults + 1,
         Calm' /\ stage \in Denied => cur[c] \notin answerLost,
         ~paired' => ~paired \/ faults' = faults + 1 \/ contested # {},
         \/ recorded' = recorded /\ (stage = "checked" => cur[c] \notin recorded)
         \/ recorded' = recorded \union {cur[c]} /\ stage # "checked",
         UNCHANGED <<answerLost, contested, status, cur>>
  PROVE  HonestInv'
<1>1. LostIsRecorded' /\ faults' \in Nat /\ faults <= faults'
  BY SMT DEF HonestInv, LostIsRecorded, Costs
<1>2. Costs'
  BY <1>1, SMT DEF HonestInv, Costs
<1>3. Calm' => Calm
  BY <1>1, SMT DEF HonestInv, Costs, Calm
<1>4. \A d \in Callers : call'[d] = IF d = c THEN stage ELSE call[d]
  BY DEF IInv, Types
<1>5. MadeGood'
  BY <1>3, <1>4 DEF HonestInv, MadeGood
<1>6. Collision'
  <2> SUFFICES ASSUME NEW d \in Callers, call'[d] = "checked", cur[d] \in recorded'
               PROVE  cur[d] \in contested
    BY DEF Collision
  <2>1. CASE d = c
    BY <2>1, <1>4
  <2>2. CASE d # c /\ cur[d] \in recorded
    BY <2>2, <1>4 DEF HonestInv, Collision
  <2>3. CASE d # c /\ cur[d] = cur[c]
    <3>1. cur[d] # None
      BY <2>3, <1>4 DEF IInv, Idle
    <3> QED
      BY <2>3, <3>1 DEF IInv, Sole
  <2> QED
    BY <2>1, <2>2, <2>3
<1> QED
  BY <1>1, <1>2, <1>5, <1>6 DEF HonestInv

LEMMA HonestNext ==
  ASSUME IInv, HonestInv, [Next]_vars
  PROVE  HonestInv'
<1> USE DEF Denied
<1>1. CASE \/ NewSession \/ Connect \/ SetFlag \/ HeartbeatFails \/ UNCHANGED vars
          \/ \E t \in Tabs : Refresh(t)
  <2>1. UNCHANGED <<recorded, answerLost, contested, status, call, cur>>
    BY <1>1 DEF NewSession, Refresh, Connect, SetFlag, HeartbeatFails, vars, settingVars,
       storeVars, serverVars, historyVars
  <2>2. /\ faults' = faults \/ faults' = faults + 1
        /\ ~paired' => ~paired \/ faults' = faults + 1
    BY <1>1 DEF NewSession, Refresh, Connect, SetFlag, HeartbeatFails, Fault, vars, settingVars
  <2> QED
    BY <2>1, <2>2, QuietKeeps
<1>2. CASE KioskAnswered
  <2>1. /\ UNCHANGED <<recorded, answerLost, contested, faults, paired>>
        /\ call' = [call EXCEPT ![Kiosk] = "none"] /\ cur' = [cur EXCEPT ![Kiosk] = None]
        /\ status' = status \/ status' = [status EXCEPT ![cur[Kiosk]] = "pending"]
    BY <1>2 DEF KioskAnswered, Done, serverVars, ShowSuccess
  <2>2. \A d \in Callers : call'[d] \in Denied => call'[d] = call[d] /\ cur'[d] = cur[d]
    BY <2>1 DEF IInv, Types
  <2>3. \A o \in answerLost : status'[o] = "quarantined" => status[o] = "quarantined"
    BY <2>1 DEF IInv, Types
  <2> QED
    BY <2>1, <2>2, <2>3, QuietKeeps
<1>3. CASE Unpair
  <2>1. /\ UNCHANGED <<recorded, answerLost, contested, call, cur>> /\ faults' = faults + 1
        /\ \A o \in Ops : status'[o] = "quarantined" => status[o] = "quarantined"
    BY <1>3 DEF Unpair, Fault, serverVars, historyVars
  <2>2. answerLost \subseteq Ops
    BY DEF IInv, Types
  <2> QED
    BY <2>1, <2>2, QuietKeeps
<1>4. ASSUME NEW ty \in PunchTypes, TouchOnline(ty) \/ TouchOffline(ty) PROVE HonestInv'
  <2>1. /\ UNCHANGED <<recorded, answerLost, contested, faults, paired>>
        /\ \/ UNCHANGED <<call, cur>>
           \/ call' = [call EXCEPT ![Kiosk] = "sent"] /\ cur' = [cur EXCEPT ![Kiosk] = made + 1]
        /\ \E st \in {"direct", "pending"} : status' = [status EXCEPT ![made + 1] = st]
    BY <1>4 DEF TouchOnline, TouchOffline, NewPunch, Send, ShowSuccess, settingVars, serverVars,
       historyVars
  <2>2. \A d \in Callers : call'[d] \in Denied => call'[d] = call[d] /\ cur'[d] = cur[d]
    BY <2>1 DEF IInv, Types
  <2>3. \A o \in answerLost : status'[o] = "quarantined" => status[o] = "quarantined"
    BY <2>1 DEF IInv, Types
  <2> QED
    BY <2>1, <2>2, <2>3, QuietKeeps
<1>5. ASSUME NEW t \in Tabs, Begin(t) PROVE HonestInv'
  BY <1>5, QuietKeeps DEF Begin, settingVars, punchVars, storeVars, serverVars, historyVars
<1>6. ASSUME NEW t \in Tabs, Post(t) PROVE HonestInv'
  <2>1. /\ UNCHANGED <<recorded, answerLost, faults, paired, status>>
        /\ contested \subseteq contested'
        /\ call' = [call EXCEPT ![t] = "sent"]
        /\ \E o : cur' = [cur EXCEPT ![t] = o]
    BY <1>6 DEF Post, Send, settingVars, storeVars, serverVars
  <2>2. \A d \in Callers : call'[d] \in Denied => call'[d] = call[d] /\ cur'[d] = cur[d]
    BY <2>1 DEF IInv, Types
  <2> QED
    BY <2>1, <2>2, QuietKeeps
<1>7. ASSUME NEW t \in Tabs, Reload(t) PROVE HonestInv'
  <2> DEFINE C == {d \in CallsOf(t) : Success(call[d])}
  <2>1. /\ UNCHANGED <<recorded, contested, paired, status>> /\ faults' = faults + 1
        /\ answerLost' = answerLost \union {cur[c] : c \in C}
        /\ call' = [c \in Callers |-> IF c \in CallsOf(t) THEN "none" ELSE call[c]]
        /\ cur' = [c \in Callers |-> IF c \in CallsOf(t) THEN None ELSE cur[c]]
    BY <1>7 DEF Reload, Fault, storeVars, serverVars
  <2>2. CallsOf(t) \subseteq Callers
    BY DEF Callers, CallsOf
  <2>3. C \in SUBSET Callers /\ (\A c \in C : Success(call[c]) /\ call'[c] = "none")
    BY <2>1, <2>2
  <2>4. \A d \in Callers : call'[d] \in Denied => call'[d] = call[d] /\ cur'[d] = cur[d]
    BY <2>1
  <2> HIDE DEF C
  <2> QED
    BY <2>1, <2>3, <2>4, LosesKeeps
<1>8. ASSUME NEW t \in Tabs, DrainAnswered(t) PROVE HonestInv'
  <2> DEFINE o == cur[t]
  <2>1. /\ UNCHANGED <<recorded, answerLost, contested, faults, paired>>
        /\ call' = [call EXCEPT ![t] = "none"] /\ cur' = [cur EXCEPT ![t] = None]
        /\ call[t] \notin {"none", "sent", "checked"}
    BY <1>8 DEF DrainAnswered, Answered, Done, settingVars, serverVars, historyVars
  <2>2. \/ status' = status
        \/ status' = [status EXCEPT ![o] = IF @ = "cleared" THEN @ ELSE "synced"]
        \/ /\ ~Success(call[t]) /\ ~EndsDrain(call[t])
           /\ \E st \in {"quarantined", "pending"} :
                status' = [status EXCEPT ![o] = IF @ = "cleared" THEN @ ELSE st]
    BY <1>8 DEF DrainAnswered, MarkFailed, Mark, storeVars
  <2>3. t \in Callers
    BY DEF Callers
  <2>4. ~Success(call[t]) /\ ~EndsDrain(call[t]) => call[t] \in Denied
    BY <2>1, <2>3 DEF IInv, Types, Stages, Success, EndsDrain
  <2>5. \A d \in Callers : call'[d] \in Denied => call'[d] = call[d] /\ cur'[d] = cur[d]
    BY <2>1 DEF IInv, Types
  <2>6. CASE \A p \in answerLost : status'[p] = "quarantined" => status[p] = "quarantined"
    BY <2>1, <2>5, <2>6, QuietKeeps
  <2>7. CASE call[t] \in Denied /\ \A p \in Ops \ {o} : status'[p] = status[p]
    <3>1. o \in answerLost => ~Calm
      BY <2>3, <2>7 DEF HonestInv, MadeGood
    <3>2. answerLost \subseteq Ops
      BY DEF IInv, Types
    <3>3. Calm' = Calm
      BY <2>1 DEF Calm
    <3>4. MadeGood'
      BY <2>1, <2>5, <2>7, <3>1, <3>2, <3>3 DEF HonestInv, MadeGood
    <3>5. Collision'
      BY <2>1, <2>5 DEF HonestInv, Collision
    <3> QED
      BY <2>1, <3>4, <3>5 DEF HonestInv, LostIsRecorded, Costs
  <2>8. \/ \A p \in Ops : status'[p] = "quarantined" => status[p] = "quarantined"
        \/ call[t] \in Denied /\ \A p \in Ops \ {o} : status'[p] = status[p]
    <3> HIDE DEF o
    <3> QED
      BY <2>2, <2>4 DEF IInv, Types
  <2>9. answerLost \subseteq Ops
    BY DEF IInv, Types
  <2> QED
    BY <2>6, <2>7, <2>8, <2>9
<1>9. ASSUME NEW c \in Callers, Check(c) PROVE HonestInv'
  <2>1. PICK stage \in {"refused", "disabled", "duplicate", "permanent", "checked"} :
          /\ call' = [call EXCEPT ![c] = stage]
          /\ stage \in Denied => cur[c] \notin recorded \/ ~paired
          /\ stage = "checked" => cur[c] \notin recorded
    <3> DEFINE verdict ==
          IF ~paired THEN "refused"
          ELSE IF Deferred(c) /\ ~flag THEN "disabled"
          ELSE IF cur[c] \in recorded THEN "duplicate"
          ELSE IF Deferred(c) /\ \E p \in recorded :
                    at[p] > (IF Deferred(c) THEN touch[cur[c]] ELSE 2 * clock) THEN "permanent"
          ELSE IF Allows(DayState, type[cur[c]]) THEN "checked" ELSE "refused"
    <3>1. call' = [call EXCEPT ![c] = verdict]
      BY <1>9 DEF Check, Answer
    <3>2. verdict \in {"refused", "disabled", "duplicate", "permanent", "checked"}
      OBVIOUS
    <3>3. /\ verdict \in Denied => cur[c] \notin recorded \/ ~paired
          /\ verdict = "checked" => cur[c] \notin recorded
      OBVIOUS
    <3> QED
      BY <3>1, <3>2, <3>3
  <2>2. UNCHANGED <<answerLost, contested, status, paired, cur, faults, recorded>>
    BY <1>9 DEF Check, settingVars, storeVars, serverVars
  <2>3. Calm' /\ stage \in Denied => cur[c] \notin answerLost
    <3> SUFFICES ASSUME Calm, stage \in Denied, cur[c] \in answerLost PROVE FALSE
      BY <2>2 DEF Calm
    <3>1. ~paired
      BY <2>1 DEF HonestInv, LostIsRecorded
    <3> QED
      BY <3>1, SMT DEF HonestInv, Costs, Calm
  <2> QED
    BY <2>1, <2>2, <2>3, ServedKeeps
<1>10. ASSUME NEW c \in Callers, Commit(c) PROVE HonestInv'
  <2>1. call[c] = "checked" /\ UNCHANGED <<answerLost, contested, status, cur, faults>>
    BY <1>10 DEF Commit, storeVars, historyVars
  <2>2. \/ /\ cur[c] \in recorded
           /\ call' = [call EXCEPT ![c] = "refused"] /\ recorded' = recorded
        \/ /\ call' = [call EXCEPT ![c] = "created"] /\ recorded' = recorded \union {cur[c]}
           /\ paired' = paired
    BY <1>10 DEF Commit, Answer, serverVars
  <2>3. Calm' => cur[c] \notin answerLost
    BY <2>1 DEF HonestInv, MadeGood, Calm
  <2>4. cur[c] \in recorded => contested # {}
    BY <2>1 DEF HonestInv, Collision
  <2> QED
    BY <2>1, <2>2, <2>3, <2>4, ServedKeeps
<1>11. ASSUME NEW c \in Callers, Refuse(c) PROVE HonestInv'
  <2>1. PICK stage \in {"refused", "permanent"} : call' = [call EXCEPT ![c] = stage]
    BY <1>11 DEF Refuse, Answer
  <2>2. /\ faults' = faults + 1
        /\ UNCHANGED <<answerLost, contested, status, cur, recorded>>
    BY <1>11 DEF Refuse, Fault, storeVars, serverVars, historyVars
  <2>3. Calm' => cur[c] \notin answerLost
    BY <2>2, SMT DEF HonestInv, Costs, Calm
  <2> QED
    BY <2>1, <2>2, <2>3, ServedKeeps
<1>12. ASSUME NEW c \in Callers, Lose(c) PROVE HonestInv'
  <2>1. /\ call' = [call EXCEPT ![c] = "network"] /\ faults' = faults + 1
        /\ answerLost' = IF Success(call[c]) THEN answerLost \union {cur[c]} ELSE answerLost
        /\ UNCHANGED <<contested, status, paired, cur, recorded>>
    BY <1>12 DEF Lose, Answer, Fault, settingVars, storeVars, serverVars
  <2> DEFINE C == {d \in {c} : Success(call[d])}
  <2>2. \A d \in Callers : call'[d] \in Denied => call'[d] = call[d] /\ cur'[d] = cur[d]
    BY <2>1 DEF IInv, Types
  <2>3. /\ C \in SUBSET Callers
        /\ \A d \in C : Success(call[d]) /\ call'[d] \notin Denied
        /\ answerLost' = answerLost \union {cur[d] : d \in C}
    BY <2>1 DEF IInv, Types
  <2> HIDE DEF C
  <2> QED
    BY <2>1, <2>2, <2>3, LosesKeeps
<1> QED
  BY <1>1, <1>2, <1>3, <1>4, <1>5, <1>6, <1>7, <1>8, <1>9, <1>10, <1>11, <1>12 DEF Next

\* Quarantine holds what the server has only after two drains posted the punch, or
\* after a lost answer and another fault or a collision of two drains (markStationOpFailed, the check for a
\* duplicate in record_station_time_punch).
THEOREM Honest == Spec => []QuarantineIsHonest
<1>1. Init => HonestInv
  BY DEF Init, HonestInv, LostIsRecorded, Costs, MadeGood, Collision
<1>2. IInv /\ HonestInv /\ [Next]_vars => HonestInv'
  BY HonestNext
<1>3. IInv /\ HonestInv => QuarantineIsHonest
  <2> SUFFICES ASSUME IInv, HonestInv, NEW o \in Ops, status[o] = "quarantined", o \in recorded,
                      o \notin contested
               PROVE  o \in answerLost /\ (faults > 1 \/ contested # {})
    BY DEF QuarantineIsHonest
  <2>1. o \in answerLost
    <3> SUFFICES ASSUME o \notin answerLost PROVE FALSE
      OBVIOUS
    <3>1. PICK c \in Callers : cur[c] = o /\ Success(call[c])
      BY DEF IInv, Answers
    <3>2. CASE c = Kiosk
      <4>1. o # None
        BY SMT DEF Ops, None
      <4> QED
        BY <3>1, <3>2, <4>1 DEF IInv, KioskDirect
    <3>3. CASE c \in Tabs
      BY <3>1, <3>3 DEF IInv, Posted
    <3> QED
      BY <3>2, <3>3 DEF Callers
  <2>2. ~Calm
    BY <2>1 DEF HonestInv, MadeGood
  <2> QED
    BY <2>1, <2>2, SMT DEF HonestInv, Costs, Calm
<1> QED
  BY <1>1, <1>2, <1>3, Invariant, PTL DEF Spec

\* A drain records a punch before an earlier one that still waits only when that one
\* has been tried, in whatever order the drains of the tabs take turns.
THEOREM Order == Spec => OvertakenWasTried
<1>1. IInv /\ [Next]_vars =>
        [\A t \in Tabs : call[t] = "checked" /\ cur[t] \in recorded' \ recorded =>
           \A o \in Pending \ recorded : o < cur[t] => attempts[o] > 0]_vars
  <2> SUFFICES ASSUME IInv, NEW t \in Tabs, cur[t] \in recorded' \ recorded,
                      call[t] = "checked",
                      NEW o \in Pending \ recorded, o < cur[t]
               PROVE  attempts[o] > 0
    OBVIOUS
  <2>1. cur[t] \in Ops /\ o \in Ops /\ status[o] = "pending"
    BY SMT DEF IInv, Types, Idle, Callers, Pending, Ops, None
  <2>2. o # cur[t] /\ ~ (cur[t] < o)
    BY <2>1, SMT DEF Ops
  <2>3. o \notin todo[t]
    BY <2>2 DEF IInv, InOrder
  <2> QED
    BY <2>1, <2>2, <2>3 DEF IInv, Tried
<1> QED
  BY <1>1, Invariant, PTL DEF Spec, OvertakenWasTried

-----------------------------------------------------------------------------
(* The day state of a set of punches *)

\* A set of numbers that holds 0 and with each the next holds them all.
LEMMA AllNumbers ==
  ASSUME NEW S, 0 \in S, \A n \in Nat : n \in S => n + 1 \in S
  PROVE  \A n \in Nat : n \in S
<1> SUFFICES ASSUME NEW k \in Nat, k \notin S PROVE FALSE
  OBVIOUS
<1> DEFINE T == Nat \ S
<1>1. \E x \in T : \A y \in T : <<y, x>> \notin OpToRel(<, Nat)
  <2>1. T \subseteq Nat /\ T # {}
    OBVIOUS
  <2> HIDE DEF T
  <2> QED
    BY <2>1, NatLessThanWellFounded, WFMin
<1>2. PICK x \in T : \A y \in T : <<y, x>> \notin OpToRel(<, Nat)
  BY <1>1
<1>3. x \in Nat /\ x # 0
  OBVIOUS
<1>4. x - 1 \in Nat /\ x - 1 < x /\ (x - 1) + 1 = x
  BY <1>3, SMT
<1>5. <<x - 1, x>> \in OpToRel(<, Nat)
  BY <1>3, <1>4 DEF OpToRel
<1> QED
  BY <1>2, <1>4, <1>5

\* The punch the state of S is taken from last.
Last(S, time) == CHOOSE o \in Latest(S, time) : TRUE

\* One turn of the recursion, given the states of smaller sets.
Turn(f, S, kind, time) ==
  IF S = {} THEN Morning ELSE After(f[S \ {Last(S, time)}], kind[Last(S, time)])

LEMMA TurnIsState ==
  ASSUME NEW f, NEW S, NEW kind, NEW time
  PROVE  Turn(f, S, kind, time) \in DayStates
BY StationAssumption DEF Turn, After, DayStates

LEMMA OpsFinite ==
  /\ IsFiniteSet(Ops)
  /\ \A S \in SUBSET Ops : IsFiniteSet(S) /\ Cardinality(S) \in Nat
<1>1. IsFiniteSet(Ops)
  BY StationAssumption, FS_Interval DEF Ops
<1> QED
  BY <1>1, FS_Subset, FS_CardinalityType

\* Punches with integer times have a last one.
LEMMA LastIsOne ==
  ASSUME NEW S \in SUBSET Ops, S # {}, NEW time \in [Ops -> Int]
  PROVE  /\ Last(S, time) \in S
         /\ \A p \in S : time[p] <= time[Last(S, time)]
<1> DEFINE Has(n) == \A T \in SUBSET Ops : T # {} /\ Cardinality(T) <= n => Latest(T, time) # {}
           Good == {n \in Nat : Has(n)}
<1>1. Has(0)
  BY OpsFinite, FS_EmptySet, SMT
<1>2. ASSUME NEW n \in Nat, Has(n) PROVE Has(n + 1)
  <2> SUFFICES ASSUME NEW T \in SUBSET Ops, T # {}, Cardinality(T) <= n + 1
               PROVE  Latest(T, time) # {}
    OBVIOUS
  <2>1. PICK o \in T : TRUE
    OBVIOUS
  <2> DEFINE R == T \ {o}
  <2>2. R \in SUBSET Ops /\ Cardinality(R) <= n
    <3>1. IsFiniteSet(T) /\ Cardinality(T) \in Nat
      BY OpsFinite
    <3>2. Cardinality(R) = Cardinality(T) - 1
      BY <2>1, <3>1, FS_RemoveElement
    <3> QED
      BY <3>1, <3>2, SMT
  <2>3. CASE R = {}
    <3>1. T = {o} /\ time[o] \in Int
      BY <2>1, <2>3
    <3>2. o \in Latest(T, time)
      BY <3>1, SMT DEF Latest
    <3> QED
      BY <3>2
  <2>4. CASE R # {}
    <3>1. PICK q \in R : \A p \in R : time[p] <= time[q]
      BY <2>2, <2>4, <1>2 DEF Latest
    <3>2. o \in T /\ q \in T /\ T \subseteq Ops
      BY <2>1, <3>1
    <3>3. \A p \in T : p = o \/ p \in R
      OBVIOUS
    <3>4. \A p \in T : time[p] \in Int
      BY <3>2
    <3> HIDE DEF R
    <3>5. CASE time[o] <= time[q]
      <4>1. q \in Latest(T, time)
        BY <3>1, <3>2, <3>3, <3>5 DEF Latest
      <4> QED
        BY <4>1
    <3>6. CASE ~ (time[o] <= time[q])
      <4>1. \A p \in T : time[p] <= time[o]
        <5> TAKE p \in T
        <5>1. p = o \/ time[p] <= time[q]
          BY <3>1, <3>3
        <5> QED
          BY <5>1, <3>2, <3>4, <3>6, SMT
      <4>2. o \in Latest(T, time)
        BY <4>1, <3>2 DEF Latest
      <4> QED
        BY <4>2
    <3> QED
      BY <3>5, <3>6
  <2> QED
    BY <2>3, <2>4
<1>3. 0 \in Good /\ \A n \in Nat : n \in Good => n + 1 \in Good
  <2> HIDE DEF Has
  <2> QED
    BY <1>1, <1>2
<1>4. \A n \in Nat : n \in Good
  <2> HIDE DEF Good
  <2> QED
    BY <1>3, AllNumbers
<1>5. Cardinality(S) \in Nat /\ Cardinality(S) <= Cardinality(S)
  BY OpsFinite, SMT
<1>6. Latest(S, time) # {}
  BY <1>4, <1>5
<1>7. Last(S, time) \in Latest(S, time)
  BY <1>6 DEF Last
<1> QED
  BY <1>7 DEF Latest

\* Without its last punch a set is smaller.
LEMMA LastLeaves ==
  ASSUME NEW S \in SUBSET Ops, S # {}, NEW time \in [Ops -> Int]
  PROVE  /\ S \ {Last(S, time)} \in SUBSET Ops
         /\ Cardinality(S \ {Last(S, time)}) = Cardinality(S) - 1
<1>1. IsFiniteSet(S)
  BY OpsFinite
<1>2. Last(S, time) \in S
  BY LastIsOne
<1> QED
  BY <1>1, <1>2, FS_RemoveElement

\* The recursion has an answer for every set of punches.
LEMMA DayAfterTurns ==
  ASSUME NEW kind, NEW time \in [Ops -> Int]
  PROVE  \A S \in SUBSET Ops :
           DayAfter(kind, time)[S] = Turn(DayAfter(kind, time), S, kind, time)
<1> DEFINE Upto(n) ==
             \E f \in [SUBSET Ops -> DayStates] : \A S \in SUBSET Ops :
               Cardinality(S) <= n => f[S] = Turn(f, S, kind, time)
           Good == {n \in Nat : Upto(n)}
<1>1. Upto(0)
  <2> DEFINE f == [S \in SUBSET Ops |-> Morning]
  <2>1. f \in [SUBSET Ops -> DayStates]
    BY StationAssumption DEF DayStates
  <2>2. ASSUME NEW S \in SUBSET Ops, Cardinality(S) <= 0 PROVE f[S] = Turn(f, S, kind, time)
    <3>1. S = {}
      BY <2>2, OpsFinite, FS_EmptySet, SMT
    <3> QED
      BY <3>1 DEF Turn
  <2> HIDE DEF f
  <2> QED
    BY <2>1, <2>2
<1>2. ASSUME NEW n \in Nat, Upto(n) PROVE Upto(n + 1)
  <2>1. PICK f \in [SUBSET Ops -> DayStates] : \A S \in SUBSET Ops :
          Cardinality(S) <= n => f[S] = Turn(f, S, kind, time)
    BY <1>2
  <2> DEFINE g == [S \in SUBSET Ops |-> Turn(f, S, kind, time)]
  <2>2. g \in [SUBSET Ops -> DayStates]
    BY TurnIsState
  <2>3. ASSUME NEW S \in SUBSET Ops, Cardinality(S) <= n + 1 PROVE g[S] = Turn(g, S, kind, time)
    <3>1. CASE S = {}
      BY <3>1 DEF Turn
    <3>2. CASE S # {}
      <4> DEFINE T == S \ {Last(S, time)}
      <4>1. T \in SUBSET Ops /\ Cardinality(T) = Cardinality(S) - 1
        BY <3>2, LastLeaves
      <4>2. Cardinality(T) <= n
        BY <4>1, <2>3, OpsFinite, SMT
      <4>3. f[T] = g[T]
        BY <4>1, <4>2, <2>1
      <4> QED
        BY <3>2, <4>3 DEF Turn
    <3> QED
      BY <3>1, <3>2
  <2> HIDE DEF g
  <2> QED
    BY <2>2, <2>3
<1>3. 0 \in Good /\ \A n \in Nat : n \in Good => n + 1 \in Good
  <2> HIDE DEF Upto
  <2> QED
    BY <1>1, <1>2
<1>4. \A n \in Nat : n \in Good
  <2> HIDE DEF Good
  <2> QED
    BY <1>3, AllNumbers
<1>5. PICK f \in [SUBSET Ops -> DayStates] : \A S \in SUBSET Ops : f[S] = Turn(f, S, kind, time)
  <2>1. Cardinality(Ops) \in Nat
    BY OpsFinite
  <2>2. \A S \in SUBSET Ops : Cardinality(S) <= Cardinality(Ops)
    BY OpsFinite, FS_Subset
  <2> QED
    BY <2>1, <2>2, <1>4
<1>6. f = [S \in SUBSET Ops |-> Turn(f, S, kind, time)]
  BY <1>5
<1>7. DayAfter(kind, time) = CHOOSE h : h = [S \in SUBSET Ops |-> Turn(h, S, kind, time)]
  BY DEF DayAfter, Turn, Last
<1>8. DayAfter(kind, time) = [S \in SUBSET Ops |-> Turn(DayAfter(kind, time), S, kind, time)]
  BY <1>6, <1>7
<1> QED
  BY <1>8

LEMMA DayAfterIsState ==
  ASSUME NEW kind, NEW time \in [Ops -> Int], NEW S \in SUBSET Ops
  PROVE  DayAfter(kind, time)[S] \in DayStates
BY DayAfterTurns, TurnIsState

\* The day state of punches depends on their types and times only.
LEMMA SamePunches ==
  ASSUME NEW kind, NEW time \in [Ops -> Int], NEW kind2, NEW time2 \in [Ops -> Int],
         NEW S \in SUBSET Ops, \A o \in S : kind[o] = kind2[o] /\ time[o] = time2[o]
  PROVE  DayAfter(kind, time)[S] = DayAfter(kind2, time2)[S]
<1> DEFINE f == DayAfter(kind, time)
           g == DayAfter(kind2, time2)
           Same(n) == \A T \in SUBSET S : Cardinality(T) <= n => f[T] = g[T]
           Good == {n \in Nat : Same(n)}
<1>1. \A T \in SUBSET S : T \in SUBSET Ops /\ Last(T, time) = Last(T, time2)
  <2> TAKE T \in SUBSET S
  <2>1. Latest(T, time) = Latest(T, time2)
    BY DEF Latest
  <2> QED
    BY <2>1 DEF Last
<1>2. \A T \in SUBSET S : f[T] = Turn(f, T, kind, time) /\ g[T] = Turn(g, T, kind2, time2)
  BY <1>1, DayAfterTurns
<1> HIDE DEF f, g
<1>3. Same(0)
  <2> SUFFICES ASSUME NEW T \in SUBSET S, Cardinality(T) <= 0 PROVE f[T] = g[T]
    OBVIOUS
  <2>1. T = {}
    BY <1>1, OpsFinite, FS_EmptySet, SMT
  <2> QED
    BY <1>2, <2>1 DEF Turn
<1>4. ASSUME NEW n \in Nat, Same(n) PROVE Same(n + 1)
  <2> SUFFICES ASSUME NEW T \in SUBSET S, Cardinality(T) <= n + 1 PROVE f[T] = g[T]
    OBVIOUS
  <2>1. CASE T = {}
    BY <1>2, <2>1 DEF Turn
  <2>2. CASE T # {}
    <3> DEFINE o == Last(T, time)
    <3>1. T \in SUBSET Ops /\ o = Last(T, time2)
      BY <1>1
    <3>2. o \in T /\ Cardinality(T \ {o}) = Cardinality(T) - 1
      BY <2>2, <3>1, LastIsOne, LastLeaves
    <3>3. Cardinality(T \ {o}) <= n
      BY <3>1, <3>2, OpsFinite, SMT
    <3> HIDE DEF o
    <3>4. f[T \ {o}] = g[T \ {o}] /\ kind[o] = kind2[o]
      BY <1>4, <3>2, <3>3
    <3>5. f[T] = After(f[T \ {o}], kind[o])
      BY <1>2, <2>2 DEF Turn, o
    <3>6. g[T] = After(g[T \ {o}], kind2[o])
      BY <1>2, <2>2, <3>1 DEF Turn
    <3> QED
      BY <3>4, <3>5, <3>6
  <2> QED
    BY <2>1, <2>2
<1>5. 0 \in Good /\ \A n \in Nat : n \in Good => n + 1 \in Good
  <2> HIDE DEF Same
  <2> QED
    BY <1>3, <1>4
<1>6. \A n \in Nat : n \in Good
  <2> HIDE DEF Good
  <2> QED
    BY <1>5, AllNumbers
<1>7. Cardinality(S) \in Nat /\ Cardinality(S) <= Cardinality(S)
  BY OpsFinite, SMT
<1>8. Same(Cardinality(S))
  BY <1>6, <1>7
<1> QED
  BY <1>7, <1>8 DEF f, g

\* A later punch takes the day on from the state before it.
LEMMA OneMorePunch ==
  ASSUME NEW kind, NEW time \in [Ops -> Int], NEW S \in SUBSET Ops, NEW o \in Ops \ S,
         \A p \in S : time[p] < time[o]
  PROVE  DayAfter(kind, time)[S \union {o}] = After(DayAfter(kind, time)[S], kind[o])
<1> DEFINE T == S \union {o}
<1>1. T \in SUBSET Ops /\ T # {} /\ T \ {o} = S
  OBVIOUS
<1>2. Last(T, time) = o
  <2>1. Last(T, time) \in T /\ \A p \in T : time[p] <= time[Last(T, time)]
    BY <1>1, LastIsOne
  <2>2. time[o] <= time[Last(T, time)] /\ time[o] \in Int
    BY <2>1
  <2>3. Last(T, time) \in S => time[Last(T, time)] < time[o] /\ time[Last(T, time)] \in Int
    OBVIOUS
  <2>4. Last(T, time) \notin S
    BY <2>2, <2>3, SMT
  <2> QED
    BY <2>1, <2>4
<1>3. DayAfter(kind, time)[T] = Turn(DayAfter(kind, time), T, kind, time)
  BY <1>1, DayAfterTurns
<1> QED
  BY <1>1, <1>2, <1>3 DEF Turn
-----------------------------------------------------------------------------
(* The types of the variables the first invariant leaves out, and the day *)

OtherTypes ==
  /\ clock \in Nat /\ skew \in Skews /\ faults \in Nat
  /\ online \in BOOLEAN /\ flag \in BOOLEAN /\ mayQueue \in BOOLEAN
  /\ view \in DayStates /\ list \in DayStates
  /\ type \in [Ops -> PunchTypes \union {"none"}] /\ touch \in [Ops -> Int]
  /\ eff \in [Callers -> Int] /\ at \in [Ops -> Int] /\ raced \in BOOLEAN

\* Touches are made in the order of their numbers, at odd times.
Touches ==
  /\ \A p \in Ops : p <= made =>
       type[p] \in PunchTypes /\ touch[p] % 2 = 1 /\ touch[p] < 2 * clock + skew
  /\ \A p, q \in Ops : p < q /\ q <= made => touch[p] < touch[q]

\* A punch is recorded with the time of its touch, or the server's, which is even.
Timed ==
  /\ \A p \in recorded : p <= made /\ (at[p] % 2 = 0 \/ at[p] = touch[p])
  /\ \A c \in Callers : call[c] = "checked" => eff[c] % 2 = 0 \/ eff[c] = touch[cur[c]]
  /\ skew < 0 =>
       /\ \A p \in recorded : at[p] < 2 * clock
       /\ \A c \in Callers : call[c] = "checked" => eff[c] < 2 * clock

\* What a call has checked still holds when it inserts, without another call.
Holds(c) ==
  /\ cur[c] \notin recorded /\ Allows(DayState, type[cur[c]])
  /\ \A p \in recorded : at[p] < eff[c]
  /\ \A d \in Callers : call[d] = "checked" => d = c

Legal ==
  \/ raced \/ skew > 0
  \/ DayState # "unknown" /\ \A c \in Callers : call[c] = "checked" => Holds(c)

DayInv == OtherTypes /\ Touches /\ Timed /\ Legal

LEMMA PostsMade ==
  ASSUME IInv
  PROVE  \A c \in Callers : call[c] # "none" => cur[c] \in Ops /\ cur[c] <= made
<1> TAKE c \in Callers
<1> SUFFICES ASSUME call[c] # "none" PROVE cur[c] \in Ops /\ cur[c] <= made
  OBVIOUS
<1>1. cur[c] \in 0..MaxPunches /\ cur[c] # None
  BY DEF IInv, Types, Idle
<1>2. cur[c] \in Ops
  BY <1>1, SMT DEF Ops, None
<1>3. made \in Nat
  BY SMT DEF IInv, Types
<1>4. CASE c = Kiosk
  <2>1. cur[c] = made
    BY <1>1, <1>4 DEF IInv, KioskDirect
  <2> QED
    BY <2>1, <1>2, <1>3, SMT
<1>5. CASE c \in Tabs
  <2>1. status[cur[c]] # "none"
    BY <1>2, <1>5 DEF IInv, TabsQueued
  <2>2. ~ (cur[c] > made)
    BY <1>2, <2>1 DEF IInv, Fresh
  <2> QED
    BY <1>2, <1>3, <2>2, SMT DEF Ops
<1> QED
  BY <1>4, <1>5 DEF Callers

LEMMA DayStateTyped ==
  ASSUME IInv, OtherTypes
  PROVE  DayState \in DayStates
BY DayAfterIsState DEF IInv, Types, OtherTypes, DayState

LEMMA InitDayInv == Init => DayInv
<1> SUFFICES ASSUME Init PROVE DayInv
  OBVIOUS
<1>1. OtherTypes
  <2>1. 1 \in Nat /\ 0 \in Nat /\ 0 \in Int
    OBVIOUS
  <2>2. Morning \in DayStates
    BY StationAssumption DEF DayStates
  <2> QED
    BY <2>1, <2>2 DEF Init, OtherTypes
<1>2. Touches
  <2>1. made = 0 /\ \A p \in Ops : p > 0 /\ p \in Int
    BY StationAssumption, SMT DEF Init, Ops
  <2>2. \A p \in Ops : ~ (p <= made)
    BY <2>1, SMT
  <2> QED
    BY <2>2 DEF Touches
<1>3. Timed
  BY DEF Init, Timed
<1>4. DayState = Morning
  <2>1. at \in [Ops -> Int] /\ recorded = {}
    BY <1>1 DEF OtherTypes, Init
  <2>2. DayState = Turn(DayAfter(type, at), {}, type, at)
    BY <2>1, DayAfterTurns DEF DayState
  <2> QED
    BY <2>2 DEF Turn
<1>5. Legal
  BY <1>4, StationAssumption DEF Init, Legal
<1> QED
  BY <1>1, <1>2, <1>3, <1>5 DEF DayInv

\* The time goes on, and calls end or begin: what has been checked still holds.
LEMMA AsideKeeps ==
  ASSUME IInv, DayInv, clock' \in Nat, clock' >= clock,
         UNCHANGED <<skew, made, type, touch, eff, recorded, at, raced>>,
         \A c \in Callers : call'[c] = "checked" => call[c] = "checked" /\ cur'[c] = cur[c]
  PROVE  Touches' /\ Timed' /\ Legal'
<1>1. clock \in Nat /\ skew \in Int /\ touch \in [Ops -> Int] /\ at \in [Ops -> Int]
      /\ eff \in [Callers -> Int] /\ recorded \subseteq Ops
  BY StationAssumption DEF DayInv, OtherTypes, IInv, Types
<1>2. Touches'
  <2>1. \A p \in Ops : touch[p] < 2 * clock + skew => touch[p] < 2 * clock' + skew
    BY <1>1, SMT
  <2> QED
    BY <2>1 DEF DayInv, Touches
<1>3. Timed'
  <2>1. \A p \in recorded : at[p] < 2 * clock => at[p] < 2 * clock'
    BY <1>1, SMT
  <2>2. \A c \in Callers : eff[c] < 2 * clock => eff[c] < 2 * clock'
    BY <1>1, SMT
  <2> QED
    BY <2>1, <2>2 DEF DayInv, Timed
<1>4. Legal'
  <2>1. DayState' = DayState
    BY DEF DayState
  <2> QED
    BY <2>1 DEF DayInv, Legal, Holds
<1> QED
  BY <1>2, <1>3, <1>4

\* A new punch is later than the others, and not yet recorded.
LEMMA NewPunchKeeps ==
  ASSUME IInv, DayInv, NEW ty \in PunchTypes, NEW st, NewPunch(ty, st),
         UNCHANGED <<skew, eff, recorded, at, raced>>,
         \A c \in Callers : call'[c] = "checked" => call[c] = "checked" /\ cur'[c] = cur[c]
  PROVE  /\ type' \in [Ops -> PunchTypes \union {"none"}] /\ touch' \in [Ops -> Int]
         /\ clock' \in Nat /\ Touches' /\ Timed' /\ Legal'
<1> DEFINE n == made + 1
<1>1. /\ clock \in Nat /\ skew \in Int /\ skew % 2 = 1 /\ touch \in [Ops -> Int]
      /\ at \in [Ops -> Int] /\ eff \in [Callers -> Int] /\ recorded \subseteq Ops
      /\ type \in [Ops -> PunchTypes \union {"none"}]
      /\ made \in Nat /\ n \in Ops
  <2>1. made \in 0..MaxPunches /\ made < MaxPunches /\ MaxPunches \in Nat
    BY StationAssumption DEF IInv, Types, NewPunch
  <2>2. made \in Nat /\ n \in Ops
    BY <2>1, SMT DEF Ops
  <2> QED
    BY <2>2, StationAssumption DEF DayInv, OtherTypes, IInv, Types
<1>2. /\ made' = n /\ clock' = clock + 1
      /\ type' = [type EXCEPT ![n] = ty] /\ touch' = [touch EXCEPT ![n] = 2 * clock + skew]
  BY DEF NewPunch
<1>3. \A p \in Ops : p # n => type'[p] = type[p] /\ touch'[p] = touch[p]
  BY <1>1, <1>2
<1>4. type'[n] = ty /\ touch'[n] = 2 * clock + skew
  BY <1>1, <1>2
<1>5. \A p \in Ops : p \in Int /\ (p <= n <=> p <= made \/ p = n) /\ ~ (n <= made)
  BY <1>1, SMT DEF Ops
<1>6. 2 * clock + skew \in Int /\ (2 * clock + skew) % 2 = 1 /\ clock' \in Nat
  BY <1>1, <1>2, SMT
<1>7. type' \in [Ops -> PunchTypes \union {"none"}] /\ touch' \in [Ops -> Int]
  BY <1>1, <1>2, <1>6
<1> HIDE DEF n
<1>8. Touches'
  <2>1. ASSUME NEW p \in Ops, p <= n
        PROVE  type'[p] \in PunchTypes /\ touch'[p] % 2 = 1 /\ touch'[p] < 2 * clock' + skew
    <3>1. CASE p = n
      <4>1. 2 * clock + skew < 2 * (clock + 1) + skew
        BY <1>1, SMT
      <4> QED
        BY <3>1, <4>1, <1>2, <1>4, <1>6
    <3>2. CASE p # n
      <4>1. type[p] \in PunchTypes /\ touch[p] % 2 = 1 /\ touch[p] < 2 * clock + skew
        BY <2>1, <3>2, <1>5 DEF DayInv, Touches
      <4>2. touch[p] \in Int
        BY <1>1
      <4>3. touch[p] < 2 * clock' + skew
        BY <4>1, <4>2, <1>1, <1>2, SMT
      <4> QED
        BY <4>1, <4>3, <1>3, <3>2
    <3> QED
      BY <3>1, <3>2
  <2>2. ASSUME NEW p \in Ops, NEW q \in Ops, p < q, q <= n PROVE touch'[p] < touch'[q]
    <3>1. p # n /\ p <= made
      BY <2>2, <1>1, <1>5, SMT DEF n
    <3>2. CASE q = n
      <4>1. touch[p] < 2 * clock + skew
        BY <3>1 DEF DayInv, Touches
      <4> QED
        BY <4>1, <3>1, <3>2, <1>3, <1>4
    <3>3. CASE q # n
      <4>1. touch[p] < touch[q]
        BY <2>2, <3>3, <1>5 DEF DayInv, Touches
      <4> QED
        BY <4>1, <3>1, <3>3, <1>3
    <3> QED
      BY <3>2, <3>3
  <2> QED
    BY <2>1, <2>2, <1>2 DEF Touches
<1>9. \A p \in recorded : p \in Ops /\ p <= made /\ p # n
  BY <1>1, <1>5 DEF DayInv, Timed
<1>10. \A c \in Callers : call[c] = "checked" => cur[c] \in Ops /\ cur[c] # n
  BY PostsMade, <1>5
<1>11. Timed'
  <2>1. \A p \in recorded : p <= n
    BY <1>5, <1>9
  <2>2. \A p \in recorded : at[p] < 2 * clock => at[p] < 2 * clock'
    BY <1>1, <1>2, SMT
  <2>3. \A c \in Callers : eff[c] < 2 * clock => eff[c] < 2 * clock'
    BY <1>1, <1>2, SMT
  <2> QED
    BY <2>1, <2>2, <2>3, <1>2, <1>3, <1>9, <1>10 DEF DayInv, Timed
<1>12. Legal'
  <2>1. DayState' = DayState
    BY <1>1, <1>3, <1>9, SamePunches DEF DayState
  <2>2. \A c \in Callers : call[c] = "checked" => type'[cur[c]] = type[cur[c]]
    BY <1>3, <1>10
  <2> QED
    BY <2>1, <2>2 DEF DayInv, Legal, Holds
<1> QED
  BY <1>6, <1>7, <1>8, <1>11, <1>12

\* A call that finds the punch allowed and later than the recorded ones.
LEMMA CheckLegal ==
  ASSUME IInv, DayInv, NEW c \in Callers, Check(c)
  PROVE  DayInv'
<1> DEFINE o == cur[c]
           time == IF Deferred(c) THEN touch[o] ELSE 2 * clock
           verdict ==
             IF ~paired THEN "refused"
             ELSE IF Deferred(c) /\ ~flag THEN "disabled"
             ELSE IF o \in recorded THEN "duplicate"
             ELSE IF Deferred(c) /\ \E p \in recorded : at[p] > time THEN "permanent"
             ELSE IF Allows(DayState, type[o]) THEN "checked" ELSE "refused"
<1>1. /\ call[c] = "sent" /\ call' = [call EXCEPT ![c] = verdict]
      /\ eff' = [eff EXCEPT ![c] = IF verdict = "checked" THEN time ELSE @]
      /\ clock' = (IF Deferred(c) THEN clock ELSE clock + 1)
      /\ raced' = (raced \/ (verdict = "checked" /\ \E d \in Callers : call[d] = "checked"))
      /\ UNCHANGED <<online, skew, flag, mayQueue, view, list, made, type, touch, cur, recorded,
                     at, faults>>
  BY DEF Check, Answer, settingVars, punchVars, serverVars
<1>2. /\ clock \in Nat /\ skew \in Int /\ skew % 2 = 1 /\ touch \in [Ops -> Int]
      /\ at \in [Ops -> Int] /\ eff \in [Callers -> Int] /\ recorded \subseteq Ops
      /\ call \in [Callers -> Stages] /\ made \in Nat
  <2>1. made \in Nat
    BY SMT DEF IInv, Types
  <2> QED
    BY <2>1, StationAssumption DEF DayInv, OtherTypes, IInv, Types
<1>3. o \in Ops /\ o <= made
  BY <1>1, PostsMade
<1>4. /\ verdict # "checked" \/ o \notin recorded
      /\ verdict # "checked" \/ Allows(DayState, type[o])
      /\ verdict # "checked" \/ ~Deferred(c) \/ \A p \in recorded : ~ (at[p] > time)
  OBVIOUS
<1>5. clock' \in Nat /\ clock' >= clock
  BY <1>1, <1>2, SMT
<1>6. time \in Int /\ (time % 2 = 0 \/ (Deferred(c) /\ time = touch[o]))
      /\ (skew < 0 => time < 2 * clock')
  <2>1. CASE Deferred(c)
    <3>1. touch[o] < 2 * clock + skew
      BY <1>3 DEF DayInv, Touches
    <3>2. touch[o] \in Int
      BY <1>2, <1>3
    <3> QED
      BY <2>1, <3>1, <3>2, <1>1, <1>2, SMT
  <2>2. CASE ~Deferred(c)
    BY <2>2, <1>1, <1>2, SMT
  <2> QED
    BY <2>1, <2>2
<1> HIDE DEF verdict, time
<1>7. \A d \in Callers : d # c => call'[d] = call[d] /\ eff'[d] = eff[d]
  BY <1>1, <1>2
<1>8. call'[c] = verdict /\ (verdict = "checked" => eff'[c] = time)
  BY <1>1, <1>2
<1>9. OtherTypes'
  BY <1>1, <1>2, <1>5, <1>6 DEF DayInv, OtherTypes
<1>10. Touches'
  <2>1. \A p \in Ops : touch[p] < 2 * clock + skew => touch[p] < 2 * clock' + skew
    BY <1>2, <1>5, SMT
  <2> QED
    BY <2>1, <1>1 DEF DayInv, Touches
<1>11. Timed'
  <2>1. \A p \in recorded : at[p] < 2 * clock => at[p] < 2 * clock'
    BY <1>2, <1>5, SMT
  <2>2. \A d \in Callers : eff[d] < 2 * clock => eff[d] < 2 * clock'
    BY <1>2, <1>5, SMT
  <2>3. ASSUME NEW d \in Callers, call'[d] = "checked"
        PROVE  /\ eff'[d] % 2 = 0 \/ eff'[d] = touch[cur[d]]
               /\ skew < 0 => eff'[d] < 2 * clock'
    <3>1. CASE d = c
      BY <2>3, <3>1, <1>6, <1>8
    <3>2. CASE d # c
      BY <2>2, <2>3, <3>2, <1>7 DEF DayInv, Timed
    <3> QED
      BY <3>1, <3>2
  <2> QED
    BY <2>1, <2>3, <1>1 DEF DayInv, Timed
<1>12. Legal'
  <2> SUFFICES ASSUME ~raced', ~ (skew > 0)
               PROVE  DayState' # "unknown"
                      /\ \A d \in Callers : call'[d] = "checked" => Holds(d)'
    BY <1>1 DEF Legal
  <2>1. DayState' = DayState /\ skew < 0
    <3>1. DayState' = DayState
      BY <1>1 DEF DayState
    <3> QED
      BY <3>1, <1>2, SMT
  <2>2. ~raced /\ DayState # "unknown"
        /\ \A d \in Callers : call[d] = "checked" => Holds(d)
    BY <1>1 DEF DayInv, Legal
  <2>3. CASE verdict = "checked"
    <3>1. \A d \in Callers : call[d] # "checked"
      BY <1>1, <2>3
    <3>2. \A d \in Callers : call'[d] = "checked" => d = c
      BY <3>1, <1>7
    <3>3. ASSUME NEW p \in recorded PROVE at[p] < time
      <4>1. p \in Ops /\ at[p] \in Int /\ at[p] < 2 * clock
            /\ (at[p] % 2 = 0 \/ at[p] = touch[p]) /\ p <= made /\ p # o
        BY <2>1, <2>3, <1>2, <1>4 DEF DayInv, Timed
      <4>2. CASE ~Deferred(c)
        BY <4>1, <4>2 DEF time
      <4>3. CASE Deferred(c)
        <5>1. time = touch[o] /\ ~ (at[p] > time)
          BY <4>3, <2>3, <1>4 DEF time
        <5>2. touch[o] % 2 = 1
          BY <1>3 DEF DayInv, Touches
        <5>3. p < o \/ o < p
          BY <4>1, <1>3, SMT DEF Ops
        <5>4. touch[p] < touch[o] \/ touch[o] < touch[p]
          BY <5>3, <4>1, <1>3 DEF DayInv, Touches
        <5>5. touch[p] \in Int /\ touch[o] \in Int
          BY <4>1, <1>2, <1>3
        <5> QED
          BY <5>1, <5>2, <5>4, <5>5, <4>1, <1>6, SMT
      <4> QED
        BY <4>2, <4>3
    <3>4. Holds(c)'
      BY <3>2, <3>3, <2>1, <2>3, <1>1, <1>4, <1>8 DEF Holds
    <3> QED
      BY <3>2, <3>4, <2>1, <2>2
  <2>4. CASE verdict # "checked"
    <3>1. \A d \in Callers : call'[d] = "checked" => d # c /\ call[d] = "checked"
      BY <2>4, <1>7, <1>8
    <3>2. ASSUME NEW d \in Callers, call'[d] = "checked" PROVE Holds(d)'
      <4>1. Holds(d) /\ eff'[d] = eff[d]
        BY <3>1, <3>2, <2>2, <1>7
      <4> QED
        BY <4>1, <3>1, <2>1, <1>1 DEF Holds
    <3> QED
      BY <3>2, <2>1, <2>2
  <2> QED
    BY <2>3, <2>4
<1> QED
  BY <1>9, <1>10, <1>11, <1>12 DEF DayInv

\* The insert of a call: the day goes on.
LEMMA CommitLegal ==
  ASSUME IInv, DayInv, NEW c \in Callers, Commit(c)
  PROVE  DayInv'
<1> DEFINE o == cur[c]
<1>1. /\ call[c] = "checked" /\ eff' = [eff EXCEPT ![c] = 0]
      /\ UNCHANGED <<clock, online, skew, flag, mayQueue, view, list, made, type, touch, cur,
                     raced, faults>>
  BY DEF Commit, settingVars, punchVars, historyVars
<1>2. /\ clock \in Nat /\ eff \in [Callers -> Int] /\ at \in [Ops -> Int]
      /\ recorded \subseteq Ops /\ call \in [Callers -> Stages]
      /\ o \in Ops /\ o <= made
  BY <1>1, PostsMade DEF DayInv, OtherTypes, IInv, Types
<1>3. PICK stage \in {"refused", "created"} : call' = [call EXCEPT ![c] = stage]
  BY DEF Commit, Answer
<1>4. \A d \in Callers : call'[d] = "checked" => d # c /\ call[d] = "checked" /\ eff'[d] = eff[d]
  BY <1>1, <1>2, <1>3
<1>5. Touches'
  BY <1>1 DEF DayInv, Touches
<1>6. CASE o \in recorded
  <2>1. recorded' = recorded /\ at' = at
    BY <1>6 DEF Commit, serverVars
  <2>2. OtherTypes'
    BY <2>1, <1>1, <1>2 DEF DayInv, OtherTypes
  <2>3. Timed'
    BY <2>1, <1>1, <1>4 DEF DayInv, Timed
  <2>4. DayState' = DayState
    BY <2>1, <1>1 DEF DayState
  <2>5. Legal'
    BY <2>1, <2>4, <1>1, <1>4 DEF DayInv, Legal, Holds
  <2> QED
    BY <2>2, <2>3, <2>5, <1>5 DEF DayInv
<1>7. CASE o \notin recorded
  <2>1. recorded' = recorded \union {o} /\ at' = [at EXCEPT ![o] = eff[c]]
    BY <1>7 DEF Commit
  <2>2. at'[o] = eff[c] /\ \A p \in recorded : at'[p] = at[p] /\ p # o
    BY <2>1, <1>2, <1>7
  <2> HIDE DEF o
  <2>3. OtherTypes'
    BY <2>1, <1>1, <1>2 DEF DayInv, OtherTypes
  <2>4. Timed'
    <3>1. eff[c] % 2 = 0 \/ eff[c] = touch[o]
      BY <1>1 DEF DayInv, Timed, o
    <3>2. skew < 0 => eff[c] < 2 * clock
      BY <1>1 DEF DayInv, Timed
    <3> QED
      BY <3>1, <3>2, <2>1, <2>2, <1>1, <1>2, <1>4 DEF DayInv, Timed
  <2>5. Legal'
    <3> SUFFICES ASSUME ~raced, ~ (skew > 0)
                 PROVE  DayState' # "unknown" /\ \A d \in Callers : call'[d] # "checked"
      BY <1>1 DEF Legal
    <3>1. Holds(c) /\ DayState # "unknown"
      BY <1>1 DEF DayInv, Legal
    <3>2. \A d \in Callers : call'[d] # "checked"
      BY <3>1, <1>4 DEF Holds
    <3>3. \A p \in recorded : at[p] < eff[c]
      BY <3>1 DEF Holds
    <3>4. at' \in [Ops -> Int] /\ o \in Ops \ recorded /\ \A p \in recorded : at'[p] < at'[o]
      BY <3>3, <2>2, <2>3, <1>2, <1>7 DEF OtherTypes
    <3>5. DayState' = After(DayAfter(type, at')[recorded], type[o])
      <4>1. recorded \in SUBSET Ops
        BY <1>2
      <4>2. DayAfter(type, at')[recorded \union {o}] = After(DayAfter(type, at')[recorded], type[o])
        BY <4>1, <3>4, OneMorePunch
      <4> QED
        BY <4>2, <2>1, <1>1 DEF DayState
    <3>6. DayAfter(type, at')[recorded] = DayState
      BY <3>4, <2>2, <1>2, SamePunches DEF DayState
    <3>7. Allows(DayState, type[o])
      BY <3>1 DEF Holds, o
    <3> QED
      BY <3>2, <3>5, <3>6, <3>7 DEF After, Allows
  <2> QED
    BY <2>3, <2>4, <2>5, <1>5 DEF DayInv
<1> QED
  BY <1>6, <1>7

\* What the page shows after a punch is a day state.
LEMMA ShownIsState ==
  ASSUME NEW o, NEW ty \in PunchTypes, ShowSuccess(o, ty)
  PROVE  view' \in DayStates
<1>1. ty \in {"in", "out", "break_start", "break_end"}
  BY StationAssumption
<1> QED
  BY <1>1 DEF ShowSuccess, DayStates

LEMMA TouchLegal ==
  ASSUME IInv, DayInv, NEW ty \in PunchTypes, TouchOnline(ty) \/ TouchOffline(ty)
  PROVE  DayInv'
<1>1. CASE TouchOnline(ty)
  <2>1. /\ NewPunch(ty, "direct") /\ call[Kiosk] = "none"
        /\ UNCHANGED <<online, skew, flag, mayQueue, view, list, eff, recorded, at, raced, faults>>
    BY <1>1 DEF TouchOnline, settingVars, serverVars, historyVars
  <2>2. call' = [call EXCEPT ![Kiosk] = "sent"] /\ cur' = [cur EXCEPT ![Kiosk] = made + 1]
    BY <1>1 DEF TouchOnline, Send
  <2>3. \A c \in Callers : call'[c] = "checked" => call[c] = "checked" /\ cur'[c] = cur[c]
    BY <2>2 DEF IInv, Types
  <2>4. /\ type' \in [Ops -> PunchTypes \union {"none"}] /\ touch' \in [Ops -> Int]
        /\ clock' \in Nat /\ Touches' /\ Timed' /\ Legal'
    BY <2>1, <2>3, NewPunchKeeps
  <2>5. OtherTypes'
    BY <2>1, <2>4 DEF DayInv, OtherTypes
  <2> QED
    BY <2>4, <2>5 DEF DayInv
<1>2. CASE TouchOffline(ty)
  <2>1. /\ NewPunch(ty, "pending") /\ ShowSuccess(made + 1, ty)
        /\ UNCHANGED <<online, skew, flag, mayQueue, list, call, cur, eff, recorded, at, raced,
                       faults>>
    BY <1>2 DEF TouchOffline, settingVars, serverVars
  <2>2. /\ type' \in [Ops -> PunchTypes \union {"none"}] /\ touch' \in [Ops -> Int]
        /\ clock' \in Nat /\ Touches' /\ Timed' /\ Legal'
    BY <2>1, NewPunchKeeps
  <2>3. OtherTypes'
    BY <2>1, <2>2, ShownIsState DEF DayInv, OtherTypes
  <2> QED
    BY <2>2, <2>3 DEF DayInv
<1> QED
  BY <1>1, <1>2

\* What the lemma about steps aside is about.
dayVars == <<clock, skew, made, type, touch, eff, recorded, at, raced>>

\* A fault costs one.
LEMMA FaultTyped ==
  ASSUME OtherTypes, Fault \/ UNCHANGED faults
  PROVE  faults' \in Nat
<1>1. faults \in Nat
  BY DEF OtherTypes
<1> QED
  BY <1>1, SMT DEF Fault

\* Steps of the page and the drains that make no punch, and answers that are lost
\* or refused.
LEMMA OtherSteps ==
  ASSUME IInv, DayInv, UNCHANGED dayVars, Fault \/ UNCHANGED faults,
         online' \in BOOLEAN, flag' \in BOOLEAN, mayQueue' \in BOOLEAN,
         view' \in DayStates, list' \in DayStates,
         \A c \in Callers : call'[c] = "checked" => call[c] = "checked" /\ cur'[c] = cur[c]
  PROVE  DayInv'
<1>1. clock \in Nat /\ clock' = clock /\ clock' >= clock
  BY SMT DEF DayInv, OtherTypes, dayVars
<1>2. Touches' /\ Timed' /\ Legal'
  BY <1>1, AsideKeeps DEF dayVars
<1>3. OtherTypes'
  BY FaultTyped DEF DayInv, OtherTypes, dayVars
<1> QED
  BY <1>2, <1>3 DEF DayInv

LEMMA PageLegal ==
  ASSUME IInv, DayInv,
         \/ NewSession \/ KioskAnswered \/ Unpair \/ Connect \/ SetFlag \/ HeartbeatFails
         \/ (\E t \in Tabs : Refresh(t)) \/ UNCHANGED vars
  PROVE  DayInv'
<1>1. /\ view \in DayStates /\ list \in DayStates /\ DayState \in DayStates
      /\ online \in BOOLEAN /\ flag \in BOOLEAN /\ mayQueue \in BOOLEAN
  BY DayStateTyped DEF DayInv, OtherTypes
<1>2. CASE NewSession \/ Connect \/ SetFlag \/ HeartbeatFails \/ Unpair \/ UNCHANGED vars
  <2>1. /\ UNCHANGED dayVars /\ UNCHANGED <<mayQueue, list, call, cur>>
        /\ view' = view \/ view' = list
        /\ flag' = flag \/ flag' = ~flag
        /\ online' = online \/ online' = ~online
    BY <1>2 DEF NewSession, Connect, SetFlag, HeartbeatFails, Unpair, vars, dayVars,
                settingVars, punchVars, serverVars, historyVars
  <2>2. Fault \/ UNCHANGED faults
    BY <1>2 DEF NewSession, Connect, SetFlag, HeartbeatFails, Unpair, vars
  <2>3. view' \in DayStates /\ list' \in DayStates
    BY <2>1, <1>1
  <2>4. online' \in BOOLEAN /\ flag' \in BOOLEAN /\ mayQueue' \in BOOLEAN
    BY <2>1, <1>1
  <2>5. \A c \in Callers : call'[c] = "checked" => call[c] = "checked" /\ cur'[c] = cur[c]
    BY <2>1
  <2> QED
    BY <2>1, <2>2, <2>3, <2>4, <2>5, OtherSteps
<1>3. CASE \E t \in Tabs : Refresh(t)
  <2>1. /\ UNCHANGED dayVars /\ UNCHANGED <<online, flag, call, cur>>
        /\ view' \in {view, DayState} /\ list' \in {list, DayState}
        /\ mayQueue' \in {mayQueue, flag}
    BY <1>3 DEF Refresh, dayVars, punchVars, serverVars, historyVars
  <2>2. Fault \/ UNCHANGED faults
    BY <1>3 DEF Refresh
  <2>3. view' \in DayStates /\ list' \in DayStates
    BY <2>1, <1>1
  <2>4. online' \in BOOLEAN /\ flag' \in BOOLEAN /\ mayQueue' \in BOOLEAN
    BY <2>1, <1>1
  <2> QED
    BY <2>1, <2>2, <2>3, <2>4, OtherSteps
<1>4. CASE KioskAnswered
  <2>1. /\ UNCHANGED dayVars /\ UNCHANGED <<online, flag, mayQueue, list, faults>>
        /\ call[Kiosk] # "none"
        /\ call' = [call EXCEPT ![Kiosk] = "none"] /\ cur' = [cur EXCEPT ![Kiosk] = None]
    BY <1>4 DEF KioskAnswered, Answered, Done, dayVars, punchVars, serverVars
  <2>2. view' \in DayStates
    <3>1. Kiosk \in Callers
      BY DEF Callers
    <3>2. type[cur[Kiosk]] \in PunchTypes
      BY <3>1, <2>1, PostsMade DEF DayInv, Touches
    <3>3. ShowSuccess(cur[Kiosk], type[cur[Kiosk]]) \/ view' = view
      BY <1>4 DEF KioskAnswered
    <3> QED
      BY <3>2, <3>3, <1>1, ShownIsState
  <2>3. \A c \in Callers : call'[c] = "checked" => call[c] = "checked" /\ cur'[c] = cur[c]
    BY <2>1 DEF IInv, Types
  <2> QED
    BY <2>1, <2>2, <2>3, <1>1, OtherSteps
<1> QED
  BY <1>2, <1>3, <1>4

LEMMA DrainLegal ==
  ASSUME IInv, DayInv, NEW t \in Tabs, Begin(t) \/ Post(t) \/ DrainAnswered(t) \/ Reload(t)
  PROVE  DayInv'
<1>1. /\ UNCHANGED dayVars /\ UNCHANGED <<online, flag, mayQueue, view, list>>
  BY DEF Begin, Post, DrainAnswered, Reload, dayVars, settingVars, punchVars, serverVars,
         historyVars
<1>2. Fault \/ UNCHANGED faults
  BY DEF Begin, Post, DrainAnswered, Reload
<1>3. \A c \in Callers : call'[c] = "checked" => call[c] = "checked" /\ cur'[c] = cur[c]
  <2>1. CASE Begin(t)
    BY <2>1 DEF Begin
  <2>2. CASE Post(t)
    <3>1. PICK o : call' = [call EXCEPT ![t] = "sent"] /\ cur' = [cur EXCEPT ![t] = o]
      BY <2>2 DEF Post, Send
    <3> QED
      BY <3>1 DEF IInv, Types
  <2>3. CASE DrainAnswered(t)
    <3>1. call' = [call EXCEPT ![t] = "none"] /\ cur' = [cur EXCEPT ![t] = None]
      BY <2>3 DEF DrainAnswered, Done
    <3> QED
      BY <3>1 DEF IInv, Types
  <2>4. CASE Reload(t)
    BY <2>4 DEF Reload
  <2> QED
    BY <2>1, <2>2, <2>3, <2>4
<1>4. /\ view \in DayStates /\ list \in DayStates
      /\ online \in BOOLEAN /\ flag \in BOOLEAN /\ mayQueue \in BOOLEAN
  BY DEF DayInv, OtherTypes
<1> QED
  BY <1>1, <1>2, <1>3, <1>4, OtherSteps

LEMMA AnswerLegal ==
  ASSUME IInv, DayInv, NEW c \in Callers, Refuse(c) \/ Lose(c)
  PROVE  DayInv'
<1>1. /\ UNCHANGED dayVars /\ UNCHANGED <<online, flag, mayQueue, view, list, cur>>
  BY DEF Refuse, Lose, dayVars, settingVars, punchVars, serverVars, historyVars
<1>2. Fault
  BY DEF Refuse, Lose
<1>3. PICK stage \in {"refused", "permanent", "network"} : call' = [call EXCEPT ![c] = stage]
  BY DEF Refuse, Lose, Answer
<1>4. \A d \in Callers : call'[d] = "checked" => call[d] = "checked" /\ cur'[d] = cur[d]
  BY <1>1, <1>3 DEF IInv, Types
<1>5. /\ view \in DayStates /\ list \in DayStates
      /\ online \in BOOLEAN /\ flag \in BOOLEAN /\ mayQueue \in BOOLEAN
  BY DEF DayInv, OtherTypes
<1> QED
  BY <1>1, <1>2, <1>4, <1>5, OtherSteps

LEMMA NextDay ==
  ASSUME IInv, DayInv, [Next]_vars
  PROVE  DayInv'
<1>1. CASE \/ NewSession \/ KioskAnswered \/ Unpair \/ Connect \/ SetFlag \/ HeartbeatFails
          \/ (\E t \in Tabs : Refresh(t)) \/ UNCHANGED vars
  BY <1>1, PageLegal
<1>2. ASSUME NEW ty \in PunchTypes, TouchOnline(ty) \/ TouchOffline(ty) PROVE DayInv'
  BY <1>2, TouchLegal
<1>3. ASSUME NEW t \in Tabs, Begin(t) \/ Post(t) \/ DrainAnswered(t) \/ Reload(t) PROVE DayInv'
  BY <1>3, DrainLegal
<1>4. ASSUME NEW c \in Callers, Check(c) PROVE DayInv'
  BY <1>4, CheckLegal
<1>5. ASSUME NEW c \in Callers, Commit(c) PROVE DayInv'
  BY <1>5, CommitLegal
<1>6. ASSUME NEW c \in Callers, Refuse(c) \/ Lose(c) PROVE DayInv'
  BY <1>6, AnswerLegal
<1> QED
  BY <1>1, <1>2, <1>3, <1>4, <1>5, <1>6 DEF Next

\* The times of the touches and of what is recorded, and the day they make.
THEOREM DayInvariant == Spec => []DayInv
<1>1. Init => DayInv
  BY InitDayInv
<1>2. IInv /\ DayInv /\ [Next]_vars => DayInv'
  BY NextDay
<1> QED
  BY <1>1, <1>2, Invariant, PTL DEF Spec

\* The credentials, and what the pages show.
PageTypes == paired \in BOOLEAN /\ page \in [Tabs -> Pages]

LEMMA PagesTyped ==
  ASSUME IInv, PageTypes, [Next]_vars
  PROVE  PageTypes'
<1>1. CASE Unpair
  BY <1>1 DEF Unpair, PageTypes, Pages
<1>2. CASE KioskAnswered
  BY <1>2 DEF KioskAnswered, PageTypes, Pages
<1>3. ASSUME NEW t \in Tabs, Refresh(t) PROVE PageTypes'
  BY <1>3 DEF Refresh, PageTypes, Pages
<1>4. ASSUME NEW t \in Tabs, Reload(t) PROVE PageTypes'
  BY <1>4 DEF Reload, PageTypes, Pages
<1>5. ASSUME NEW c \in Callers, Commit(c) \/ Refuse(c) PROVE PageTypes'
  BY <1>5 DEF Commit, Refuse, PageTypes
<1>6. CASE HeartbeatFails \/ SetFlag
  BY <1>6 DEF HeartbeatFails, SetFlag, PageTypes
<1>7. CASE NewSession \/ Connect \/ UNCHANGED vars
  BY <1>7 DEF NewSession, Connect, vars, settingVars, PageTypes
<1>8. ASSUME NEW ty \in PunchTypes, TouchOnline(ty) \/ TouchOffline(ty) PROVE PageTypes'
  BY <1>8 DEF TouchOnline, TouchOffline, settingVars, PageTypes
<1>9. ASSUME NEW t \in Tabs, Begin(t) \/ Post(t) \/ DrainAnswered(t) PROVE PageTypes'
  BY <1>9 DEF Begin, Post, DrainAnswered, settingVars, PageTypes
<1>10. ASSUME NEW c \in Callers, Check(c) \/ Lose(c) PROVE PageTypes'
  BY <1>10 DEF Check, Lose, settingVars, PageTypes
<1> QED
  BY <1>1, <1>2, <1>3, <1>4, <1>5, <1>6, <1>7, <1>8, <1>9, <1>10 DEF Next

\* Every variable has its type, the day states among them: what the page shows is
\* computed from any punches that are recorded (compute_employee_punch_day_state).
THEOREM TypeCorrect == Spec => []TypeOK
<1>1. Init => PageTypes
  BY DEF Init, PageTypes, Pages
<1>2. IInv /\ PageTypes /\ [Next]_vars => PageTypes'
  BY PagesTyped
<1>3. IInv /\ DayInv /\ PageTypes => TypeOK
  BY DEF IInv, DayInv, PageTypes, Types, OtherTypes, Statuses, TypeOK
<1> QED
  BY <1>1, <1>2, <1>3, Invariant, DayInvariant, PTL DEF Spec

\* Whatever the tabs, drains, retries and lost answers do, the recorded punches make
\* a day that goes on, as long as no two calls were between reading and inserting
\* and the kiosk's clock is not ahead (record_station_time_punch).
THEOREM LegalDay == Spec => []DayIsLegal
<1>1. DayInv => DayIsLegal
  BY DEF DayInv, Legal, DayIsLegal
<1> QED
  BY <1>1, DayInvariant, PTL
=============================================================================
