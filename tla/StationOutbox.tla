---------------------------- MODULE StationOutbox ----------------------------
(***************************************************************************)
(* Punches of one employee on one day, through an attendance station (a    *)
(* kiosk in a browser).  Online the touch is posted at once; without a     *)
(* network it is kept in IndexedDB (stationAttendanceDb.ts) and posted     *)
(* later with the time of the touch by a drain (useStationSync.ts), one    *)
(* per open tab.  The server decides in record_station_time_punch.         *)
(*                                                                         *)
(* A page knows its station after a bootstrap with the credentials in a    *)
(* cookie of all tabs.  Without one it shows the form for pairing, and its *)
(* drain does not run.                                                     *)
(*                                                                         *)
(* The server's call reads what it checks and then inserts: two steps,     *)
(* between which other calls commit.  Punches are numbered in the order of *)
(* the touches.                                                            *)
(***************************************************************************)
EXTENDS Integers, FiniteSets, FiniteSetsExt

CONSTANTS
  Tabs,        \* tabs of the browser, a drain in each
  Front,       \* the tab the employees see
  Kiosk,       \* its touches, posted beside its drain
  Morning,     \* the day state the punches before these have left
  PunchTypes,  \* of "in", "out", "break_start", "break_end"
  Skews,       \* how far off the kiosk's clock may be: odd, -1 is right
  MaxPunches,  \* bound: touches
  MaxAttempts, \* MAX_ATTEMPTS (5)
  MaxFaults    \* bound: lost calls, other errors, reloads, changes of flag and pairing

ASSUME StationAssumption ==
  /\ Front \in Tabs /\ Kiosk \notin Tabs
  /\ Morning \in {"off", "work", "break", "day"}
  /\ PunchTypes \subseteq {"in", "out", "break_start", "break_end"}
  /\ \A k \in Skews : k \in Int /\ k % 2 = 1
  /\ MaxPunches \in Nat /\ MaxAttempts \in Nat \ {0} /\ MaxFaults \in Nat

Ops == 1..MaxPunches
Callers == Tabs \union {Kiosk}
None == 0

VARIABLES
  clock, skew, \* server time is 2 * clock, the kiosk's 2 * clock + skew
  online,      \* navigator.onLine
  flag,        \* station_offline_deferred_punch, on the server
  mayQueue,    \* bootstrap.offline_deferred_punch_enabled: the kiosk's copy
  paired,      \* the cookie with the station's credentials
  page,        \* of a tab: configured and loading, and what refresh is doing
  view,        \* the day state the session displays
  list,        \* the day state in the list of employees
  made,        \* punches 1..made exist
  type, touch, \* of a punch: its type and the time of the touch
  status,      \* LocalStationPunchOp.status; "direct" before it is queued
  attempts,    \* attempts
  todo, seen,  \* what is left of a drain's snapshot, and its attempts
  call, cur,   \* the post a caller waits for, and the punch it is about
  eff,         \* p_occurred_at or now(): the time it is recorded with
  recorded, at, \* punches in data.time_punches, and their occurred_at
  confirmed,   \* history: the kiosk told the employee it was done
  answerLost,  \* history: recorded by a call whose answer never reached its row
  contested,   \* history: posted by two drains, at once or from an old snapshot
  raced,       \* history: two calls were between reading and inserting
  faults

storeVars   == <<status, attempts>>
punchVars   == <<made, type, touch>>
serverVars  == <<recorded, at>>
settingVars == <<skew, flag, paired, page>>
historyVars == <<confirmed, answerLost, contested, raced>>
vars == <<clock, online, settingVars, mayQueue, view, list, punchVars, storeVars,
          todo, seen, call, cur, eff, serverVars, historyVars, faults>>

DayStates == {"off", "work", "break", "day", "unknown"}
Pages == {"loading", "open", "updating", "pairing"}
Stages == {"none", "sent", "checked", "created", "duplicate", "permanent", "refused", "disabled",
           "network"}

TypeOK ==
  /\ clock \in Nat /\ skew \in Skews /\ faults \in Nat
  /\ online \in BOOLEAN /\ flag \in BOOLEAN /\ mayQueue \in BOOLEAN /\ paired \in BOOLEAN
  /\ page \in [Tabs -> Pages]
  /\ view \in DayStates /\ list \in DayStates
  /\ made \in 0..MaxPunches
  /\ type \in [Ops -> PunchTypes \union {"none"}] /\ touch \in [Ops -> Int]
  /\ status \in [Ops -> {"none", "direct", "pending", "synced", "quarantined", "cleared"}]
  /\ attempts \in [Ops -> 0..MaxAttempts]
  /\ todo \in [Tabs -> SUBSET Ops] /\ seen \in [Tabs -> [Ops -> 0..MaxAttempts]]
  /\ call \in [Callers -> Stages] /\ cur \in [Callers -> 0..MaxPunches]
  /\ eff \in [Callers -> Int]
  /\ recorded \subseteq Ops /\ at \in [Ops -> Int]
  /\ confirmed \subseteq Ops /\ answerLost \subseteq Ops /\ contested \subseteq Ops
  /\ raced \in BOOLEAN

NoAttempts == [o \in Ops |-> 0]

Init ==
  /\ clock = 1 /\ skew \in Skews /\ faults = 0
  /\ online = TRUE /\ flag = TRUE /\ mayQueue = TRUE /\ paired = TRUE
  /\ page = [t \in Tabs |-> "open"]
  /\ view = Morning /\ list = Morning
  /\ made = 0
  /\ type = [o \in Ops |-> "none"] /\ touch = [o \in Ops |-> 0]
  /\ status = [o \in Ops |-> "none"] /\ attempts = NoAttempts
  /\ todo = [t \in Tabs |-> {}] /\ seen = [t \in Tabs |-> NoAttempts]
  /\ call = [c \in Callers |-> "none"] /\ cur = [c \in Callers |-> None]
  /\ eff = [c \in Callers |-> 0]
  /\ recorded = {} /\ at = [o \in Ops |-> 0]
  /\ confirmed = {} /\ answerLost = {} /\ contested = {} /\ raced = FALSE

-----------------------------------------------------------------------------
(* The day of an employee *)

\* Mutant of After: an illegal punch leaves no state.
AfterNull(s, ty) ==
  CASE ty = "in" /\ s \in {"off", "day"} -> "work"
    [] ty = "out" /\ s = "work" -> "day"
    [] ty = "break_start" /\ s = "work" -> "break"
    [] ty = "break_end" /\ s = "break" -> "work"
    [] OTHER -> "none"

\* punch_day_state_after, for the types a station may record.
After(s, ty) ==
  CASE ty = "in" /\ s \in {"off", "day"} -> "work"
    [] ty = "out" /\ s = "work" -> "day"
    [] ty = "break_start" /\ s = "work" -> "break"
    [] ty = "break_end" /\ s = "break" -> "work"
    [] OTHER -> "unknown"

\* Mutant of Allows: an entry is always allowed.
AllowsEntries(s, ty) ==
  \/ ty = "in"
  \/ s = "work" /\ ty \in {"out", "break_start"}
  \/ s = "break" /\ ty = "break_end"

\* station_allows_punch_type; the buttons a session shows are the same.
Allows(s, ty) ==
  \/ s \in {"off", "day"} /\ ty = "in"
  \/ s = "work" /\ ty \in {"out", "break_start"}
  \/ s = "break" /\ ty = "break_end"

\* The punches of S with the latest time: one, as no two have the same.
Latest(S, time) == {o \in S : \A p \in S : time[p] <= time[o]}

\* compute_employee_punch_day_state: the punches of S in the order of occurred_at.
DayAfter(kind, time) ==
  LET after[S \in SUBSET Ops] ==
        IF S = {} THEN Morning
        ELSE LET last == CHOOSE o \in Latest(S, time) : TRUE
             IN After(after[S \ {last}], kind[last])
  IN after

DayState == DayAfter(type, at)[recorded]

-----------------------------------------------------------------------------
(* Helpers *)

Fault == faults < MaxFaults /\ faults' = faults + 1

\* configured: the page has read the station's device_id.
Configured(t) == page[t] \in {"open", "updating"}

Pending == {o \in Ops : status[o] = "pending"}

\* Mutant of Success: an earlier record is not accepted as this one's.
SuccessCreatedOnly(stage) == stage = "created"

\* isStationSyncSuccessStatus.
Success(stage) == stage \in {"created", "duplicate"}

Answered(c) == call[c] \notin {"none", "sent", "checked"}

\* Posts punch o: a call under way.
Send(c, o) == call' = [call EXCEPT ![c] = "sent"] /\ cur' = [cur EXCEPT ![c] = o]

\* The answer callStationApi gives the caller.
Answer(c, stage) == call' = [call EXCEPT ![c] = stage]

Done(c) == call' = [call EXCEPT ![c] = "none"] /\ cur' = [cur EXCEPT ![c] = None]

\* The kiosk creates a punch and its client_op_id, and notes the time.
NewPunch(ty, st) ==
  /\ made < MaxPunches
  /\ made' = made + 1
  /\ clock' = clock + 1
  /\ type' = [type EXCEPT ![made + 1] = ty]
  /\ touch' = [touch EXCEPT ![made + 1] = 2 * clock + skew]
  /\ status' = [status EXCEPT ![made + 1] = st]

\* applyLocalSuccess: what the session shows next; the list is left as it was.
ShowSuccess(o, ty) ==
  /\ view' = [in |-> "work", out |-> "day", break_start |-> "break", break_end |-> "work"][ty]
  /\ confirmed' = confirmed \union {o}

-----------------------------------------------------------------------------
(* The kiosk *)

\* The employee is identified again in the list: nothing is fetched.
NewSession ==
  /\ call[Kiosk] = "none" /\ view' = list
  /\ UNCHANGED <<clock, online, settingVars, mayQueue, list, punchVars, storeVars, todo,
                 seen, call, cur, eff, serverVars, historyVars, faults>>

\* refresh, when the page is loaded and after a touch posted at once: it fetches the
\* bootstrap and the list, and the session is brought in line.  A network failure
\* leaves the page as it was; without the credentials, or after any error of the
\* server it does not know, they are cleared and the form for pairing is shown.
Refresh(t) ==
  /\ page[t] \in {"loading", "updating"}
  /\ \/ /\ online /\ paired
        /\ page' = [page EXCEPT ![t] = "open"]
        /\ IF t = Front THEN view' = DayState /\ list' = DayState /\ mayQueue' = flag
                        ELSE UNCHANGED <<view, list, mayQueue>>
        /\ UNCHANGED <<paired, faults>>
     \/ /\ page' = [page EXCEPT ![t] = IF Configured(t) THEN "open" ELSE "pairing"]
        /\ IF online THEN Fault ELSE UNCHANGED faults
        /\ UNCHANGED <<view, list, mayQueue, paired>>
     \/ /\ online
        /\ page' = [page EXCEPT ![t] = "pairing"]
        /\ paired' = FALSE
        /\ IF paired THEN Fault ELSE UNCHANGED faults
        /\ UNCHANGED <<view, list, mayQueue>>
  /\ UNCHANGED <<clock, online, skew, flag, punchVars, storeVars, todo, seen, call, cur, eff,
                 serverVars, historyVars>>

\* A button of the session: posted when there is a network, queued otherwise.
TouchOnline(ty) ==
  /\ online /\ page[Front] = "open" /\ call[Kiosk] = "none" /\ Allows(view, ty)
  /\ NewPunch(ty, "direct")
  /\ Send(Kiosk, made + 1)
  /\ UNCHANGED <<online, settingVars, mayQueue, view, list, attempts, todo, seen, eff,
                 serverVars, historyVars, faults>>

TouchOffline(ty) ==
  /\ ~online /\ page[Front] = "open" /\ call[Kiosk] = "none" /\ Allows(view, ty) /\ mayQueue
  /\ NewPunch(ty, "pending")
  /\ ShowSuccess(made + 1, ty)
  /\ UNCHANGED <<online, settingVars, mayQueue, list, attempts, todo, seen, call, cur, eff,
                 serverVars, answerLost, contested, raced, faults>>

\* The answer to the online post: shown, and refresh is called; queued after all; or
\* an error.
KioskAnswered ==
  LET o == cur[Kiosk]
  IN /\ Answered(Kiosk) /\ Done(Kiosk)
     /\ \/ /\ Success(call[Kiosk])
           /\ ShowSuccess(o, type[o])
           /\ page' = [page EXCEPT ![Front] = "updating"]
           /\ UNCHANGED status
        \/ /\ call[Kiosk] = "network" /\ mayQueue
           /\ status' = [status EXCEPT ![o] = "pending"]
           /\ ShowSuccess(o, type[o])
           /\ UNCHANGED page
        \/ /\ ~Success(call[Kiosk]) /\ ~(call[Kiosk] = "network" /\ mayQueue)
           /\ UNCHANGED <<status, view, confirmed, page>>
     /\ UNCHANGED <<clock, online, skew, flag, paired, mayQueue, list, punchVars, attempts, todo,
                    seen, eff, serverVars, answerLost, contested, raced, faults>>

\* handleAdminUnpair: the outbox is cleared with the credentials.  Without a network
\* the cookie stays.
Unpair ==
  /\ page[Front] = "open" /\ call[Kiosk] = "none" /\ Fault
  /\ page' = [page EXCEPT ![Front] = "pairing"]
  /\ paired' = (paired /\ ~online)
  /\ status' = [o \in Ops |-> IF status[o] \in {"none", "direct"} THEN status[o] ELSE "cleared"]
  /\ UNCHANGED <<clock, online, skew, flag, mayQueue, view, list, punchVars, attempts, todo,
                 seen, call, cur, eff, serverVars, historyVars>>

-----------------------------------------------------------------------------
(* The drain of a tab *)

\* syncingRef.
Busy(t) == todo[t] # {} \/ call[t] # "none"

Begin(t) ==
  /\ online /\ Configured(t) /\ ~Busy(t) /\ Pending # {}
  /\ todo' = [todo EXCEPT ![t] = Pending]
  /\ seen' = [seen EXCEPT ![t] = attempts]
  /\ UNCHANGED <<clock, online, settingVars, mayQueue, view, list, punchVars, storeVars, call,
                 cur, eff, serverVars, historyVars, faults>>

\* Mutant of NextOf: the snapshot is sorted the other way.
NextOfReversed(S) == Max(S)

\* getStationPendingOps sorts by occurred_at, the order of the touches.
NextOf(S) == Min(S)

Post(t) ==
  /\ call[t] = "none" /\ todo[t] # {}
  /\ LET o == NextOf(todo[t])
     IN /\ todo' = [todo EXCEPT ![t] = @ \ {o}]
        /\ Send(t, o)
        /\ contested' = IF status[o] = "pending" /\ \A u \in Tabs \ {t} : cur[u] # o
                        THEN contested ELSE contested \union {o}
  /\ UNCHANGED <<clock, online, settingVars, mayQueue, view, list, punchVars, storeVars, seen,
                 eff, serverVars, confirmed, answerLost, raced, faults>>

\* markStationOpSynced, markStationOpFailed: whatever the row says now.
Mark(o, st, n) ==
  /\ status' = [status EXCEPT ![o] = IF @ = "cleared" THEN @ ELSE st]
  /\ attempts' = [attempts EXCEPT ![o] = IF status[o] = "cleared" THEN @ ELSE n]

\* Mutants of MarkFailed: what is refused for good counts as done; what is given
\* up is deleted; the limit is never passed.
MarkFailedAsSynced(o, tries, permanent) ==
  LET n == Min({tries + 1, MaxAttempts})
  IN Mark(o, IF permanent THEN "synced" ELSE IF n >= MaxAttempts THEN "quarantined" ELSE "pending", n)
MarkFailedDrops(o, tries, permanent) ==
  LET n == Min({tries + 1, MaxAttempts})
  IN Mark(o, IF permanent \/ n >= MaxAttempts THEN "none" ELSE "pending", n)
MarkFailedForever(o, tries, permanent) ==
  LET n == Min({tries + 1, MaxAttempts})
  IN Mark(o, IF permanent \/ n > MaxAttempts THEN "quarantined" ELSE "pending", n)

\* After an error the punch stays in the queue, or is given up.
MarkFailed(o, tries, permanent) ==
  LET n == Min({tries + 1, MaxAttempts})
  IN Mark(o, IF permanent \/ n >= MaxAttempts THEN "quarantined" ELSE "pending", n)

\* A network failure ends the drain; so does "station_offline_disabled", which
\* the expression of isStationNetworkFailure matches.
EndsDrain(stage) == stage \in {"network", "disabled"}

DrainAnswered(t) ==
  LET o == cur[t]
  IN /\ Answered(t) /\ Done(t)
     /\ \/ Success(call[t]) /\ Mark(o, "synced", attempts[o]) /\ UNCHANGED todo
        \/ /\ EndsDrain(call[t])
           /\ todo' = [todo EXCEPT ![t] = {}]
           /\ UNCHANGED storeVars
        \/ /\ ~Success(call[t]) /\ ~EndsDrain(call[t])
           /\ MarkFailed(o, seen[t][o], call[t] = "permanent")
           /\ UNCHANGED todo
     /\ seen' = IF todo'[t] = {} THEN [seen EXCEPT ![t] = NoAttempts] ELSE seen
     /\ UNCHANGED <<clock, online, settingVars, mayQueue, view, list, punchVars, eff,
                    serverVars, historyVars, faults>>

\* The calls that end with the page of a tab.
CallsOf(t) == IF t = Front THEN {t, Kiosk} ELSE {t}

\* The page is reloaded between two of its steps: refresh is called, on a page that
\* is not configured.
Reload(t) ==
  /\ \A c \in CallsOf(t) : call[c] \notin {"sent", "checked"}
  /\ Fault
  /\ page' = [page EXCEPT ![t] = "loading"]
  /\ todo' = [todo EXCEPT ![t] = {}]
  /\ seen' = [seen EXCEPT ![t] = NoAttempts]
  /\ call' = [c \in Callers |-> IF c \in CallsOf(t) THEN "none" ELSE call[c]]
  /\ cur' = [c \in Callers |-> IF c \in CallsOf(t) THEN None ELSE cur[c]]
  /\ answerLost' = answerLost \union {cur[c] : c \in {d \in CallsOf(t) : Success(call[d])}}
  /\ UNCHANGED <<clock, online, skew, flag, paired, mayQueue, view, list, punchVars, storeVars,
                 eff, serverVars, confirmed, contested, raced>>

-----------------------------------------------------------------------------
(* The server *)

Deferred(c) == c \in Tabs

\* record_station_time_punch and record_time_punch, all they read.  A touch that
\* is posted at once has the server's time and no check of it.
Check(c) ==
  LET o == cur[c]
      time == IF Deferred(c) THEN touch[o] ELSE 2 * clock
      verdict ==
        IF ~paired THEN "refused"
        ELSE IF Deferred(c) /\ ~flag THEN "disabled"
        ELSE IF o \in recorded THEN "duplicate"
        ELSE IF Deferred(c) /\ \E p \in recorded : at[p] > time THEN "permanent"
        ELSE IF Allows(DayState, type[o]) THEN "checked" ELSE "refused"
  IN /\ call[c] = "sent"
     /\ Answer(c, verdict)
     /\ eff' = [eff EXCEPT ![c] = IF verdict = "checked" THEN time ELSE @]
     /\ clock' = IF Deferred(c) THEN clock ELSE clock + 1
     /\ raced' = (raced \/ (verdict = "checked" /\ \E d \in Callers : call[d] = "checked"))
     /\ UNCHANGED <<online, settingVars, mayQueue, view, list, punchVars, storeVars, todo, seen,
                    cur, serverVars, confirmed, answerLost, contested, faults>>

\* The insert.  (tenant_id, client_op_id) is unique; its violation is an error the
\* station's API has no name for, "station_error", and the proxy then clears the cookie.
Commit(c) ==
  LET o == cur[c]
  IN /\ call[c] = "checked"
     /\ IF o \in recorded
        THEN Answer(c, "refused") /\ paired' = FALSE /\ UNCHANGED serverVars
        ELSE /\ Answer(c, "created")
             /\ recorded' = recorded \union {o}
             /\ at' = [at EXCEPT ![o] = eff[c]]
             /\ UNCHANGED paired
     /\ eff' = [eff EXCEPT ![c] = 0]
     /\ UNCHANGED <<clock, online, skew, flag, page, mayQueue, view, list, punchVars, storeVars,
                    todo, seen, cur, historyVars, faults>>

\* Refused for a reason outside this model: lockdown, a limit; an error without a
\* name, which costs the cookie; for good when the punch is too old or the employee
\* has left.
Refuse(c) ==
  /\ call[c] = "sent" /\ Fault
  /\ \/ \E verdict \in {"refused", "permanent"} : Answer(c, verdict) /\ UNCHANGED paired
     \/ Answer(c, "refused") /\ paired' = FALSE
  /\ UNCHANGED <<clock, online, skew, flag, page, mayQueue, view, list, punchVars, storeVars,
                 todo, seen, cur, eff, serverVars, historyVars>>

\* So does such an error of a heartbeat; its page goes on.
HeartbeatFails ==
  /\ online /\ paired /\ Fault
  /\ paired' = FALSE
  /\ UNCHANGED <<clock, online, skew, flag, page, mayQueue, view, list, punchVars, storeVars,
                 todo, seen, call, cur, eff, serverVars, historyVars>>

\* The request is lost, or the answer is.
Lose(c) ==
  /\ call[c] = "sent" \/ Success(call[c])
  /\ Fault
  /\ Answer(c, "network")
  /\ answerLost' = IF Success(call[c]) THEN answerLost \union {cur[c]} ELSE answerLost
  /\ UNCHANGED <<clock, online, settingVars, mayQueue, view, list, punchVars, storeVars, todo,
                 seen, cur, eff, serverVars, confirmed, contested, raced>>

-----------------------------------------------------------------------------
(* Around them *)

Connect ==
  /\ online' = ~online
  /\ UNCHANGED <<clock, settingVars, mayQueue, view, list, punchVars, storeVars, todo, seen,
                 call, cur, eff, serverVars, historyVars, faults>>

\* The tenant's override of the flag.
SetFlag ==
  /\ flag' = ~flag /\ Fault
  /\ UNCHANGED <<clock, online, skew, paired, page, mayQueue, view, list, punchVars, storeVars,
                 todo, seen, call, cur, eff, serverVars, historyVars>>

Next ==
  \/ NewSession \/ KioskAnswered \/ Unpair \/ Connect \/ SetFlag \/ HeartbeatFails
  \/ \E ty \in PunchTypes : TouchOnline(ty) \/ TouchOffline(ty)
  \/ \E t \in Tabs : Refresh(t) \/ Begin(t) \/ Post(t) \/ DrainAnswered(t) \/ Reload(t)
  \/ \E c \in Callers : Check(c) \/ Commit(c) \/ Refuse(c) \/ Lose(c)

\* A drain starts again every 30 seconds, goes on while its tab lives, and calls
\* are answered, the page's own as well.  Nobody has to touch, and the network need
\* not come back.
Fairness ==
  /\ \A t \in Tabs : WF_vars(Refresh(t)) /\ WF_vars(Begin(t))
  /\ \A t \in Tabs : WF_vars(Post(t)) /\ WF_vars(DrainAnswered(t))
  /\ \A c \in Callers : WF_vars(Check(c)) /\ WF_vars(Commit(c))

Spec == Init /\ [][Next]_vars /\ Fairness

-----------------------------------------------------------------------------
(* Properties *)

\* A punch the outbox calls synced is in time_punches: no answer, error, retry or
\* second drain marks one that the server does not have.
SyncedIsRecorded == \A o \in Ops : status[o] = "synced" => o \in recorded

\* A punch the employee was told is done is recorded, queued, kept for the
\* administrator, or cleared with the outbox when the station was unpaired: no error
\* of a drain or of the page, and no loss of the credentials, deletes its row.
ConfirmedIsKept ==
  \A o \in confirmed : o \in recorded \/ status[o] \in {"pending", "quarantined", "cleared"}

\* The recorded punches make a day the server can go on with, unless two calls for
\* the employee were between reading and inserting at once, or the kiosk's clock is
\* ahead: then a touch posted at once is earlier than one that was queued.
DayIsLegal == DayState # "unknown" \/ raced \/ skew > 0

\* A punch in quarantine is one the server does not have, unless two drains posted
\* it, at once or from an old snapshot: a lost answer alone is made good by posting
\* the punch again, and takes another error to mislead the drain: a second fault, or
\* two drains at one punch, whose collision costs the station its credentials.
QuarantineIsHonest ==
  \A o \in Ops : status[o] = "quarantined" /\ o \in recorded =>
    o \in contested \/ (o \in answerLost /\ (faults > 1 \/ contested # {}))

\* A drain records a punch while an earlier one is still queued only after an
\* attempt at the earlier one: the order of the touches is kept.
OvertakenWasTried ==
  [][\A t \in Tabs : call[t] = "checked" /\ cur[t] \in recorded' \ recorded =>
       \A o \in Pending \ recorded : o < cur[t] => attempts[o] > 0]_vars

\* No tab's page knows its station: each shows the form for pairing.
NoneConfigured == \A t \in Tabs : page[t] = "pairing"

\* While the network and the flag stay, the queue gets empty: every punch in it is
\* synced or given up, however its posts end.  The only way out is that no tab is left
\* that could post: every page was loaded without a network, or has lost the station
\* to an error of its bootstrap.
QueueDrains == <>[](online /\ flag) => []<>(Pending = {} \/ NoneConfigured)

\* What stationOutbox.test.ts calls a permanent error: with the flag off the
\* server answers station_offline_disabled, and what is queued is quarantined.
DisabledIsQuarantined == <>[](online /\ ~flag) => []<>(Pending = {} \/ NoneConfigured)
=============================================================================
