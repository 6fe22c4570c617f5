------------------------- MODULE EmailDeliveryProofs -------------------------
(***************************************************************************)
(* Theorems about EmailDelivery, for any number of workers, attempts,      *)
(* copies and faults.                                                      *)
(***************************************************************************)
EXTENDS EmailDelivery, TLAPS

Handling == {"mark", "send", "store", "sent", "fail", "requeue"}
AtProvider == {"send", "store", "sent", "fail"}
Good == {"sent"} \union Final

\* Some copy met this outcome.
Met(s) ==
  \E i \in Copies :
    fate[i] \in {s} \union (IF s = "delivered" THEN {"complained"} ELSE {})

\* Who handles the e-mail has an attempt left, and so has a queued e-mail.
AttemptsLeft ==
  /\ \A w \in Workers : pc[w] \in Handling => seen[w] < Tries
  /\ log.status = "queued" => log.attempts < Tries

\* The copies: all but the last are expired, and only they have a fate.
CopiesFit ==
  /\ accepted <= expired + 1
  /\ \A i \in Copies : i <= accepted <=> fate[i] # "none"

\* Who has an id has that of a copy.
IdsFit ==
  /\ log.pid <= accepted
  /\ \A w \in Workers : got[w] <= accepted /\ (pc[w] \in {"store", "sent"} => got[w] > 0)
  /\ sync # "none" => accepted > 0

\* What the row, a webhook or the back office says has happened to a copy.
Earned ==
  /\ log.status \in Good => accepted > 0
  /\ log.status \in Final => Met(log.status)
  /\ sync \in Final => Met(sync)
  /\ \A i \in Copies, event \in Fates : <<i, event>> \in hooks =>
       /\ i <= accepted /\ event \in Final \union {"delayed"}
       /\ event \in Final => Met(event)

\* Without faults one worker has the message, and the row and its place agree.
Alone ==
  /\ \A w, v \in Workers : w # v => pc[w] = "idle" \/ pc[v] = "idle"
  /\ message # "hidden" => \A w \in Workers : pc[w] = "idle"

PlaceOf(w) ==
  /\ pc[w] \notin {"thrown", "dlq"}
  /\ pc[w] = "mark" => log.status = "queued"
  /\ pc[w] \in AtProvider => log.status = "processing"
  /\ pc[w] \in {"send", "fail"} => accepted = 0
  /\ pc[w] = "sent" => log.pid = got[w]
  /\ pc[w] = "requeue" => log.status = "failed" /\ log.attempts = seen[w] + 1 /\ ~log.dead

Places == \A w \in Workers : PlaceOf(w)

Rows ==
  /\ log.status \in {"queued", "failed"} => accepted = 0
  /\ log.status = "processing" => \E w \in Workers : pc[w] \in AtProvider
  /\ log.status = "failed" => log.dead \/ \E w \in Workers : pc[w] = "requeue"
  /\ log.dead => log.status = "failed" /\ log.attempts = Tries
  /\ accepted <= 1
  /\ sync \notin {"queued", "failed"}
  /\ sync = "sent" => log.status \in Good

\* What counts as done is sent or a dead letter.
Settled ==
  (known \/ message = "archived" \/ \E w \in Workers : pc[w] \in {"record", "archive"}) =>
    log.status \in Good \/ log.dead

\* The outcome is on its way or has arrived.
Reach ==
  accepted = 1 /\ fate[1] \in Final /\ "processing" \notin lost =>
    <<1, fate[1]>> \in hooks \/ log.status = fate[1]

Calm == faults = 0 => Alone /\ Places /\ Rows /\ Settled /\ Reach

IInv == TypeOK /\ AttemptsLeft /\ CopiesFit /\ IdsFit /\ Earned /\ Calm

-----------------------------------------------------------------------------
(* Helpers *)

LEMMA Constants ==
  /\ Tries \in Nat /\ Tries > 0 /\ MaxAccepted \in Nat
  /\ 1 \in Copies /\ 0 \in 0..Tries /\ 0 \in 0..MaxAccepted
BY EmailAssumption, SMT DEF Copies, Tries

\* An attempt the trigger or the handler grants is one the e-mail gets, and who is
\* granted none has used up the last: the boundary, with max_retries 0 as well.
LEMMA Granted ==
  ASSUME NEW n \in Nat
  PROVE  /\ n < MaxRetries => n < Tries
         /\ n < Tries => IF n + 1 < MaxRetries THEN n + 1 < Tries ELSE n + 1 = Tries
         /\ n < Tries =>
              (IF n < MaxRetries - 1 THEN MaxRetries - 1 ELSE n) \in 0..(Tries - 1)
BY EmailAssumption, SMT DEF Tries

LEMMA InitIInv == Init => IInv
<1> SUFFICES ASSUME Init PROVE IInv
  OBVIOUS
<1> USE DEF Init
<1>1. TypeOK
  <2>1. log \in [status : Statuses, attempts : 0..Tries, dead : BOOLEAN, pid : 0..MaxAccepted]
    BY Constants DEF Statuses
  <2>2. pc \in [Workers -> Stages] /\ ct \in [Workers -> Nat]
    BY DEF Stages
  <2>3. seen \in [Workers -> 0..Tries] /\ got \in [Workers -> 0..MaxAccepted]
    BY Constants
  <2>4. fate \in [Copies -> Fates] /\ sync \in Statuses \union {"none"}
    BY DEF Fates
  <2>5. accepted \in 0..MaxAccepted /\ expired \in 0..accepted
    BY Constants, SMT
  <2> QED
    BY <2>1, <2>2, <2>3, <2>4, <2>5 DEF TypeOK
<1>2. AttemptsLeft
  BY Constants DEF AttemptsLeft, Handling
<1>3. CopiesFit
  BY Constants, SMT DEF CopiesFit, Copies
<1>4. IdsFit
  BY SMT DEF IdsFit
<1>5. Earned
  BY DEF Earned, Good, Final
<1>6. Calm
  BY SMT DEF Calm, Alone, Places, PlaceOf, Rows, Settled, Reach, AtProvider, Good, Final
<1> QED
  BY <1>1, <1>2, <1>3, <1>4, <1>5, <1>6 DEF IInv

\* The other workers are where they were.
Elsewhere(w) ==
  \A v \in Workers \ {w} : pc'[v] = pc[v] /\ ct'[v] = ct[v] /\ seen'[v] = seen[v] /\ got'[v] = got[v]

WorkersTyped ==
  /\ pc \in [Workers -> Stages] /\ ct \in [Workers -> Nat]
  /\ seen \in [Workers -> 0..Tries] /\ got \in [Workers -> 0..MaxAccepted]

LEMMA Gone ==
  ASSUME TypeOK, NEW w \in Workers, NEW s \in Stages, GoTo(w, s)
  PROVE  /\ Elsewhere(w) /\ WorkersTyped'
         /\ pc'[w] = s /\ ct'[w] = ct[w] /\ seen'[w] = seen[w] /\ got'[w] = got[w]
BY DEF TypeOK, GoTo, Elsewhere, WorkersTyped

LEMMA Left ==
  ASSUME TypeOK, NEW w \in Workers, Leave(w)
  PROVE  /\ Elsewhere(w) /\ WorkersTyped'
         /\ pc'[w] = "idle" /\ seen'[w] = 0 /\ got'[w] = 0
BY Constants DEF TypeOK, Leave, Elsewhere, WorkersTyped, Stages

\* A step without a fault.
LEMMA NoFault ==
  ASSUME TypeOK, Fault
  PROVE  faults' # 0 /\ faults' \in Nat
BY EmailAssumption, SMT DEF TypeOK, Fault

-----------------------------------------------------------------------------
(* What a worker's step changes of the invariant *)

\* A worker moves, the rest stays.
LEMMA MoveKeeps ==
  ASSUME IInv, NEW w \in Workers, Elsewhere(w), WorkersTyped',
         UNCHANGED <<log, providerVars, sync>>,
         pc'[w] \in Handling => seen'[w] < Tries,
         got'[w] = got[w] \/ got'[w] = 0,
         pc'[w] \notin {"store", "sent"}
  PROVE  AttemptsLeft' /\ CopiesFit' /\ IdsFit' /\ Earned'
<1> USE DEF providerVars
<1>1. AttemptsLeft'
  BY DEF IInv, AttemptsLeft, Elsewhere
<1>2. CopiesFit' /\ Earned'
  BY DEF IInv, CopiesFit, Earned, Met
<1>3. IdsFit'
  <2>1. \A v \in Workers : got'[v] <= accepted /\ (pc'[v] \in {"store", "sent"} => got'[v] > 0)
    <3> TAKE v \in Workers
    <3>1. CASE v = w
      BY <3>1, SMT DEF IInv, TypeOK, IdsFit
    <3>2. CASE v # w
      BY <3>2 DEF IInv, IdsFit, Elsewhere
    <3> QED
      BY <3>1, <3>2
  <2> QED
    BY <2>1 DEF IInv, IdsFit
<1> QED
  BY <1>1, <1>2, <1>3

\* Without faults the worker that takes a step is the only one.
LEMMA StaysAlone ==
  ASSUME IInv, faults = 0, NEW w \in Workers, Elsewhere(w), pc[w] # "idle",
         message' = message \/ pc'[w] = "idle"
  PROVE  Alone' /\ \A v \in Workers \ {w} : pc[v] = "idle" /\ pc'[v] = "idle"
BY DEF IInv, Calm, Alone, Elsewhere

\* ... and it and the row decide the rest.
LEMMA CalmMove ==
  ASSUME IInv, faults = 0, NEW w \in Workers, Elsewhere(w), pc[w] # "idle",
         message' = message \/ pc'[w] = "idle",
         UNCHANGED <<log, providerVars, sync, lost>>,
         pc[w] \notin AtProvider \union {"requeue"},
         pc'[w] \in {"idle", "dedup", "fetch", "mark", "record", "archive"},
         pc'[w] = "mark" => log.status = "queued",
         known' \/ message' = "archived" \/ pc'[w] \in {"record", "archive"} =>
           log.status \in Good \/ log.dead
  PROVE  Calm'
<1>1. Alone' /\ \A v \in Workers \ {w} : pc[v] = "idle" /\ pc'[v] = "idle"
  BY StaysAlone
<1> USE DEF providerVars
<1>2. Places'
  BY <1>1, Zenon DEF Places, PlaceOf, AtProvider
<1>3. Rows'
  <2>1. log.status # "processing"
    BY <1>1 DEF IInv, Calm, Rows, AtProvider
  <2>2. log.status = "failed" => log.dead
    BY <1>1 DEF IInv, Calm, Rows
  <2> QED
    BY <2>1, <2>2 DEF IInv, Calm, Rows
<1>4. Settled'
  BY <1>1 DEF Settled
<1>5. Reach'
  BY DEF IInv, Calm, Reach
<1> QED
  BY <1>1, <1>2, <1>3, <1>4, <1>5 DEF Calm

LEMMA TypeMove ==
  ASSUME TypeOK, WorkersTyped', UNCHANGED <<log, providerVars, sync, lost>>,
         message' \in {"visible", "hidden", "archived"}, readCt' \in Nat,
         known' \in BOOLEAN, buried' \in BOOLEAN,
         UNCHANGED faults \/ Fault
  PROVE  TypeOK'
<1>1. faults' \in Nat
  BY NoFault DEF TypeOK
<1> QED
  BY <1>1 DEF TypeOK, WorkersTyped, providerVars

-----------------------------------------------------------------------------
(* The queue *)

LEMMA ReadKeeps ==
  ASSUME IInv, NEW w \in Workers, Read(w)
  PROVE  IInv'
<1>1. /\ pc[w] = "idle" /\ message = "visible" /\ message' = "hidden"
      /\ readCt' = readCt + 1
      /\ pc' = [pc EXCEPT ![w] = "dedup"] /\ ct' = [ct EXCEPT ![w] = readCt + 1]
      /\ UNCHANGED <<log, known, buried, seen, got, providerVars, sync, lost, faults>>
  BY DEF Read
<1>2. /\ Elsewhere(w) /\ WorkersTyped' /\ pc'[w] = "dedup" /\ got'[w] = got[w]
      /\ readCt' \in Nat
  BY <1>1 DEF IInv, TypeOK, Elsewhere, WorkersTyped, Stages
<1>3. TypeOK'
  BY <1>1, <1>2, TypeMove DEF IInv, TypeOK
<1>4. AttemptsLeft' /\ CopiesFit' /\ IdsFit' /\ Earned'
  BY <1>1, <1>2, MoveKeeps DEF Handling
<1>5. Calm'
  <2> SUFFICES ASSUME faults = 0 PROVE Alone' /\ Places' /\ Rows' /\ Settled' /\ Reach'
    BY <1>1 DEF Calm
  <2>1. /\ \A v \in Workers : pc[v] = "idle" /\ (v # w => pc'[v] = "idle")
        /\ Places /\ Rows /\ Settled /\ Reach
    BY <1>1, <1>2 DEF IInv, Calm, Alone, Elsewhere
  <2>2. Alone'
    BY <1>1, <2>1 DEF Alone
  <2>3. Places'
    BY <1>2, <2>1, Zenon DEF Places, PlaceOf, AtProvider
  <2>4. Rows'
    BY <1>1, <2>1 DEF Rows, AtProvider, providerVars
  <2>5. Settled'
    BY <1>1, <1>2, <2>1 DEF Settled
  <2>6. Reach'
    BY <1>1, <2>1 DEF Reach, providerVars
  <2> QED
    BY <2>2, <2>3, <2>4, <2>5, <2>6
<1> QED
  BY <1>3, <1>4, <1>5 DEF IInv

LEMMA ExpireKeeps ==
  ASSUME IInv, Expire
  PROVE  IInv'
<1>1. /\ message = "hidden" /\ message' = "visible"
      /\ UNCHANGED <<log, readCt, known, buried, pc, ct, seen, got, accepted, expired, fate,
                     hooks, sync, lost>>
      /\ \/ (\A w \in Workers : pc[w] = "idle") /\ faults' = faults
         \/ Fault
  BY DEF Expire, workerVars, providerVars
<1>2. TypeOK'
  BY <1>1, TypeMove DEF IInv, TypeOK, WorkersTyped, providerVars
<1>3. AttemptsLeft' /\ CopiesFit' /\ IdsFit' /\ Earned'
  BY <1>1 DEF IInv, AttemptsLeft, CopiesFit, IdsFit, Earned, Met
<1>4. Calm'
  <2> SUFFICES ASSUME faults' = 0 PROVE Alone' /\ Places' /\ Rows' /\ Settled' /\ Reach'
    BY DEF Calm
  <2>1. faults = 0 /\ \A w \in Workers : pc[w] = "idle"
    BY <1>1, NoFault DEF IInv
  <2>2. Alone'
    BY <1>1, <2>1 DEF Alone
  <2>3. Places' /\ Rows' /\ Settled' /\ Reach'
    BY <1>1, <2>1 DEF IInv, Calm, Places, PlaceOf, Rows, Settled, Reach
  <2> QED
    BY <2>2, <2>3
<1> QED
  BY <1>2, <1>3, <1>4 DEF IInv

LEMMA DedupKeeps ==
  ASSUME IInv, NEW w \in Workers, Dedup(w)
  PROVE  IInv'
<1>1. PICK s \in {"archive", "fetch"} :
        /\ GoTo(w, s)
        /\ \/ faults' = faults /\ (s = "archive" <=> known)
           \/ Fault
  BY DEF Dedup
<1>2. pc[w] = "dedup" /\ UNCHANGED <<log, queueVars, providerVars, sync, lost>>
  BY DEF Dedup
<1>3. /\ Elsewhere(w) /\ WorkersTyped' /\ pc'[w] = s /\ got'[w] = got[w]
  BY <1>1, Gone DEF IInv, Stages
<1>4. TypeOK'
  BY <1>1, <1>2, <1>3, TypeMove DEF IInv, TypeOK, queueVars
<1>5. AttemptsLeft' /\ CopiesFit' /\ IdsFit' /\ Earned'
  BY <1>2, <1>3, MoveKeeps DEF Handling
<1>6. Calm'
  <2> SUFFICES ASSUME faults' = 0 PROVE Calm'
    BY DEF Calm
  <2>1. faults = 0 /\ (s = "archive" <=> known)
    BY <1>1, NoFault DEF IInv
  <2>2. message = "hidden"
    BY <1>2, <2>1 DEF IInv, Calm, Alone
  <2>3. known' \/ message' = "archived" \/ pc'[w] \in {"record", "archive"} =>
           log.status \in Good \/ log.dead
    BY <1>2, <1>3, <2>1, <2>2 DEF IInv, Calm, Settled, queueVars
  <2> QED
    BY <1>2, <1>3, <2>1, <2>3, CalmMove DEF AtProvider, queueVars
<1> QED
  BY <1>4, <1>5, <1>6 DEF IInv

LEMMA ThrownKeeps ==
  ASSUME IInv, NEW w \in Workers, Thrown(w)
  PROVE  IInv'
<1>1. pc[w] = "thrown" /\ UNCHANGED <<log, queueVars, providerVars, sync, lost, faults>>
  BY DEF Thrown
<1>2. /\ Elsewhere(w) /\ WorkersTyped' /\ pc'[w] \in {"dlq", "idle"}
      /\ got'[w] = got[w] \/ got'[w] = 0
  BY Gone, Left DEF IInv, Stages, Thrown
<1>3. TypeOK'
  BY <1>1, <1>2, TypeMove DEF IInv, TypeOK, queueVars
<1>4. AttemptsLeft' /\ CopiesFit' /\ IdsFit' /\ Earned'
  BY <1>1, <1>2, MoveKeeps DEF Handling
<1>5. Calm'
  BY <1>1 DEF IInv, Calm, Places, PlaceOf
<1> QED
  BY <1>3, <1>4, <1>5 DEF IInv

LEMMA MoveToDlqKeeps ==
  ASSUME IInv, NEW w \in Workers, MoveToDlq(w)
  PROVE  IInv'
<1>1. /\ pc[w] = "dlq" /\ GoTo(w, "archive")
      /\ UNCHANGED <<log, message, readCt, known, providerVars, sync, lost>>
      /\ buried' \in {buried, TRUE} /\ (faults' = faults \/ Fault)
  BY DEF MoveToDlq
<1>2. Elsewhere(w) /\ WorkersTyped' /\ pc'[w] = "archive" /\ got'[w] = got[w]
  BY <1>1, Gone DEF IInv, Stages
<1>3. TypeOK'
  BY <1>1, <1>2, TypeMove DEF IInv, TypeOK
<1>4. AttemptsLeft' /\ CopiesFit' /\ IdsFit' /\ Earned'
  BY <1>1, <1>2, MoveKeeps DEF Handling
<1>5. Calm'
  BY <1>1, NoFault DEF IInv, Calm, Places, PlaceOf
<1> QED
  BY <1>3, <1>4, <1>5 DEF IInv

LEMMA RecordKeeps ==
  ASSUME IInv, NEW w \in Workers, Record(w)
  PROVE  IInv'
<1>1. /\ pc[w] = "record" /\ GoTo(w, "archive")
      /\ UNCHANGED <<log, message, readCt, buried, providerVars, sync, lost>>
      /\ known' \in {known, TRUE} /\ (faults' = faults \/ Fault)
  BY DEF Record
<1>2. Elsewhere(w) /\ WorkersTyped' /\ pc'[w] = "archive" /\ got'[w] = got[w]
  BY <1>1, Gone DEF IInv, Stages
<1>3. TypeOK'
  BY <1>1, <1>2, TypeMove DEF IInv, TypeOK
<1>4. AttemptsLeft' /\ CopiesFit' /\ IdsFit' /\ Earned'
  BY <1>1, <1>2, MoveKeeps DEF Handling
<1>5. Calm'
  <2> SUFFICES ASSUME faults' = 0 PROVE Calm'
    BY DEF Calm
  <2>1. faults = 0
    BY <1>1, NoFault DEF IInv
  <2>2. log.status \in Good \/ log.dead
    BY <1>1, <2>1 DEF IInv, Calm, Settled
  <2> QED
    BY <1>1, <1>2, <2>1, <2>2, CalmMove DEF AtProvider
<1> QED
  BY <1>3, <1>4, <1>5 DEF IInv

LEMMA ArchiveKeeps ==
  ASSUME IInv, NEW w \in Workers, Archive(w)
  PROVE  IInv'
<1>1. /\ pc[w] = "archive" /\ Leave(w)
      /\ UNCHANGED <<log, readCt, known, buried, providerVars, sync, lost>>
      /\ message' \in {message, "archived"} /\ (faults' = faults \/ Fault)
  BY DEF Archive
<1>2. Elsewhere(w) /\ WorkersTyped' /\ pc'[w] = "idle" /\ got'[w] = 0
  BY <1>1, Left DEF IInv
<1>3. TypeOK'
  BY <1>1, <1>2, TypeMove DEF IInv, TypeOK
<1>4. AttemptsLeft' /\ CopiesFit' /\ IdsFit' /\ Earned'
  BY <1>1, <1>2, MoveKeeps DEF Handling
<1>5. Calm'
  <2> SUFFICES ASSUME faults' = 0 PROVE Calm'
    BY DEF Calm
  <2>1. faults = 0
    BY <1>1, NoFault DEF IInv
  <2>2. log.status \in Good \/ log.dead
    BY <1>1, <2>1 DEF IInv, Calm, Settled
  <2> QED
    BY <1>1, <1>2, <2>1, <2>2, CalmMove DEF AtProvider
<1> QED
  BY <1>3, <1>4, <1>5 DEF IInv

LEMMA DieKeeps ==
  ASSUME IInv, NEW w \in Workers, Die(w)
  PROVE  IInv'
<1>1. Fault /\ Leave(w) /\ UNCHANGED <<log, queueVars, providerVars, sync, lost>>
  BY DEF Die
<1>2. Elsewhere(w) /\ WorkersTyped' /\ pc'[w] = "idle" /\ got'[w] = 0
  BY <1>1, Left DEF IInv
<1>3. TypeOK'
  BY <1>1, <1>2, TypeMove DEF IInv, TypeOK, queueVars
<1>4. AttemptsLeft' /\ CopiesFit' /\ IdsFit' /\ Earned'
  BY <1>1, <1>2, MoveKeeps DEF Handling
<1>5. Calm'
  BY <1>1, NoFault DEF IInv, Calm
<1> QED
  BY <1>3, <1>4, <1>5 DEF IInv

-----------------------------------------------------------------------------
(* The handler *)

LEMMA FetchKeeps ==
  ASSUME IInv, NEW w \in Workers, Fetch(w)
  PROVE  IInv'
<1>1. pc[w] = "fetch" /\ UNCHANGED <<log, queueVars, providerVars, sync, lost>>
  BY DEF Fetch
<1>2. \/ Leave(w) /\ faults' = faults
      \/ /\ log.status = "queued"
         /\ pc' = [pc EXCEPT ![w] = "mark"] /\ seen' = [seen EXCEPT ![w] = log.attempts]
         /\ UNCHANGED <<ct, got, faults>>
      \/ log.status # "queued" /\ GoTo(w, "record") /\ faults' = faults
      \/ Fault /\ GoTo(w, "record")
  BY DEF Fetch
<1>3. /\ Elsewhere(w) /\ WorkersTyped'
      /\ got'[w] = got[w] \/ got'[w] = 0
      /\ \/ pc'[w] = "idle" /\ faults' = faults
         \/ /\ pc'[w] = "mark" /\ log.status = "queued" /\ faults' = faults
            /\ seen'[w] = log.attempts
         \/ pc'[w] = "record" /\ (Fault \/ (log.status # "queued" /\ faults' = faults))
  <2>1. CASE Leave(w) /\ faults' = faults
    BY <2>1, Left DEF IInv
  <2>2. CASE /\ log.status = "queued"
             /\ pc' = [pc EXCEPT ![w] = "mark"] /\ seen' = [seen EXCEPT ![w] = log.attempts]
             /\ UNCHANGED <<ct, got, faults>>
    <3>1. log.attempts \in 0..Tries
      BY DEF IInv, TypeOK
    <3> QED
      BY <2>2, <3>1 DEF IInv, TypeOK, Elsewhere, WorkersTyped, Stages
  <2>3. CASE GoTo(w, "record")
    BY <2>3, <1>2, Gone DEF IInv, Stages, GoTo, Leave, TypeOK
  <2> QED
    BY <1>2, <2>1, <2>2, <2>3
<1>4. TypeOK'
  BY <1>1, <1>3, TypeMove DEF IInv, TypeOK, queueVars
<1>5. pc'[w] \in Handling => seen'[w] < Tries
  BY <1>3 DEF IInv, AttemptsLeft, Handling
<1>6. AttemptsLeft' /\ CopiesFit' /\ IdsFit' /\ Earned'
  BY <1>1, <1>3, <1>5, MoveKeeps
<1>7. Calm'
  <2> SUFFICES ASSUME faults' = 0 PROVE Calm'
    BY DEF Calm
  <2>1. /\ faults = 0
        /\ pc'[w] \in {"idle", "mark", "record"}
        /\ pc'[w] = "mark" => log.status = "queued"
        /\ pc'[w] = "record" => log.status # "queued"
    BY <1>3, NoFault DEF IInv
  <2>2. message = "hidden" /\ \A v \in Workers \ {w} : pc[v] = "idle"
    BY <1>1, <2>1 DEF IInv, Calm, Alone
  <2>3. pc'[w] = "record" => log.status \in Good \/ log.dead
    BY <1>1, <2>1, <2>2 DEF IInv, TypeOK, Calm, Rows, AtProvider, Good, Statuses, Final
  <2>4. known => log.status \in Good \/ log.dead
    BY <2>1 DEF IInv, Calm, Settled
  <2> QED
    BY <1>1, <1>3, <2>1, <2>2, <2>3, <2>4, CalmMove DEF AtProvider, queueVars
<1> QED
  BY <1>4, <1>6, <1>7 DEF IInv

\* A step of worker w that writes the row.
LEMMA RowKeeps ==
  ASSUME IInv, NEW w \in Workers, Elsewhere(w), WorkersTyped',
         UNCHANGED <<queueVars, providerVars, sync, lost>>,
         UNCHANGED faults \/ Fault,
         log' \in [status : Statuses, attempts : 0..Tries, dead : BOOLEAN,
                   pid : 0..MaxAccepted],
         log'.pid <= accepted,
         log'.status \in Good => accepted > 0,
         log'.status \in Final => Met(log'.status),
         log'.status = "queued" => log'.attempts < Tries,
         pc'[w] \in Handling => seen'[w] < Tries,
         got'[w] = got[w] \/ got'[w] = 0,
         pc'[w] \in {"store", "sent"} => got'[w] > 0
  PROVE  TypeOK' /\ AttemptsLeft' /\ CopiesFit' /\ IdsFit' /\ Earned'
<1> USE DEF providerVars
<1>1. TypeOK'
  <2>1. faults' \in Nat
    BY NoFault DEF IInv, TypeOK
  <2> QED
    BY <2>1 DEF IInv, TypeOK, WorkersTyped, queueVars
<1>2. AttemptsLeft'
  BY DEF IInv, AttemptsLeft, Elsewhere
<1>3. CopiesFit'
  BY DEF IInv, CopiesFit
<1>4. Earned'
  <2>2. (log.status \in Final => Met(log.status))'
    BY DEF Met
  <2>3. sync' \in Final => Met(sync)'
    BY DEF IInv, Earned, Met
  <2>4. \A i \in Copies, event \in Fates : <<i, event>> \in hooks' =>
          /\ i <= accepted' /\ event \in Final \union {"delayed"}
          /\ event \in Final => Met(event)'
    BY DEF IInv, Earned, Met
  <2>5. log'.status \in Good => accepted' > 0
    OBVIOUS
  <2> QED
    BY <2>2, <2>3, <2>4, <2>5 DEF Earned
<1>5. IdsFit'
  <2>1. \A v \in Workers : got'[v] <= accepted /\ (pc'[v] \in {"store", "sent"} => got'[v] > 0)
    <3> TAKE v \in Workers
    <3>1. CASE v = w
      BY <3>1, SMT DEF IInv, TypeOK, IdsFit
    <3>2. CASE v # w
      BY <3>2 DEF IInv, IdsFit, Elsewhere
    <3> QED
      BY <3>1, <3>2
  <2> QED
    BY <2>1 DEF IInv, IdsFit
<1> QED
  BY <1>1, <1>2, <1>3, <1>4, <1>5

LEMMA CalmRow ==
  ASSUME IInv, faults = 0, NEW w \in Workers, Elsewhere(w), pc[w] # "idle",
         UNCHANGED queueVars, PlaceOf(w)', Rows', Reach',
         known \/ pc'[w] \in {"record", "archive"} => log'.status \in Good \/ log'.dead
  PROVE  Calm'
<1>1. Alone' /\ \A v \in Workers \ {w} : pc[v] = "idle" /\ pc'[v] = "idle"
  BY StaysAlone DEF queueVars
<1>2. Places'
  <2>1. \A v \in Workers \ {w} : PlaceOf(v)'
    BY <1>1, Zenon DEF PlaceOf, AtProvider
  <2> QED
    BY <2>1 DEF Places
<1>3. message = "hidden"
  BY DEF IInv, Calm, Alone
<1>4. Settled'
  BY <1>1, <1>3 DEF Settled, queueVars
<1> QED
  BY <1>1, <1>2, <1>4 DEF Calm

\* Before the row is sent an outcome can only be on its way.
LEMMA ReachBefore ==
  ASSUME IInv, faults = 0, log.status \notin Final, UNCHANGED <<providerVars, lost>>
  PROVE  Reach'
BY DEF IInv, Calm, Reach, providerVars

LEMMA MarkProcessingKeeps ==
  ASSUME IInv, NEW w \in Workers, MarkProcessing(w)
  PROVE  IInv'
<1> DEFINE row == [log EXCEPT !.status = "processing"]
<1>1. /\ pc[w] = "mark" /\ UNCHANGED <<queueVars, providerVars, sync, lost>>
      /\ \/ Allows("processing") /\ log' = row /\ GoTo(w, "send") /\ faults' = faults
         \/ ~Allows("processing") /\ log' = log /\ GoTo(w, "thrown") /\ faults' = faults
         \/ Fault /\ log' \in {log, row} /\ GoTo(w, "thrown")
  BY DEF MarkProcessing, Update
<1>2. /\ Elsewhere(w) /\ WorkersTyped' /\ pc'[w] \in {"send", "thrown"}
      /\ got'[w] = got[w] /\ seen'[w] = seen[w]
      /\ faults' = faults \/ Fault
      /\ faults' = faults /\ Allows("processing") => pc'[w] = "send" /\ log' = row
  BY <1>1, NoFault, Gone DEF IInv, Stages, Fault, TypeOK
<1>3. /\ row \in [status : Statuses, attempts : 0..Tries, dead : BOOLEAN, pid : 0..MaxAccepted]
      /\ row.status = "processing" /\ row.attempts = log.attempts /\ row.dead = log.dead
      /\ row.pid = log.pid
  BY DEF IInv, TypeOK, Statuses
<1>4. log' = log \/ log' = row
  BY <1>1
<1> HIDE DEF row
<1>5. TypeOK' /\ AttemptsLeft' /\ CopiesFit' /\ IdsFit' /\ Earned'
  <2>1. seen[w] < Tries
    BY <1>1 DEF IInv, AttemptsLeft, Handling
  <2>2. log' \in [status : Statuses, attempts : 0..Tries, dead : BOOLEAN, pid : 0..MaxAccepted]
    BY <1>3, <1>4 DEF IInv, TypeOK
  <2>3. /\ log'.pid <= accepted
        /\ log'.status \in Good => accepted > 0
        /\ log'.status \in Final => Met(log'.status)
        /\ log'.status = "queued" => log'.attempts < Tries
    BY <1>3, <1>4 DEF IInv, IdsFit, Earned, AttemptsLeft, Good, Final
  <2> QED
    BY <1>1, <1>2, <2>1, <2>2, <2>3, RowKeeps
<1>6. Calm'
  <2> SUFFICES ASSUME faults' = 0 PROVE Calm'
    BY DEF Calm
  <2>1. faults = 0 /\ faults' = faults
    BY <1>2, NoFault DEF IInv
  <2>2. log.status = "queued" /\ accepted = 0 /\ ~log.dead
    BY <1>1, <2>1 DEF IInv, Calm, Places, PlaceOf, Rows
  <2>3. pc'[w] = "send" /\ log' = row
    BY <1>2, <2>1, <2>2 DEF Allows
  <2>4. PlaceOf(w)'
    BY <1>1, <1>3, <2>2, <2>3 DEF PlaceOf, AtProvider, providerVars
  <2>5. Rows'
    BY <1>1, <1>3, <2>1, <2>2, <2>3 DEF IInv, IdsFit, Rows, AtProvider, Good, Final, providerVars
  <2>6. Reach'
    BY <1>1, <2>1, <2>2, ReachBefore DEF Final
  <2>7. ~known
    BY <2>1, <2>2 DEF IInv, Calm, Settled, Good, Final
  <2> QED
    BY <1>1, <1>2, <2>1, <2>3, <2>4, <2>5, <2>6, <2>7, CalmRow
<1> QED
  BY <1>5, <1>6 DEF IInv

LEMMA StoreIdKeeps ==
  ASSUME IInv, NEW w \in Workers, StoreId(w)
  PROVE  IInv'
<1> DEFINE row == [log EXCEPT !.pid = got[w]]
<1>1. /\ pc[w] = "store" /\ UNCHANGED <<queueVars, providerVars, sync, lost>>
      /\ \/ log' = row /\ GoTo(w, "sent") /\ faults' = faults
         \/ Fault /\ log' \in {log, row} /\ GoTo(w, "fail")
  BY DEF StoreId, Update
<1>2. /\ Elsewhere(w) /\ WorkersTyped' /\ pc'[w] \in {"sent", "fail"}
      /\ got'[w] = got[w] /\ seen'[w] = seen[w]
      /\ faults' = faults \/ Fault
      /\ faults' = faults => pc'[w] = "sent" /\ log' = row
  BY <1>1, NoFault, Gone DEF IInv, Stages, Fault, TypeOK
<1>3. /\ row \in [status : Statuses, attempts : 0..Tries, dead : BOOLEAN, pid : 0..MaxAccepted]
      /\ row.status = log.status /\ row.attempts = log.attempts /\ row.dead = log.dead
      /\ row.pid = got[w]
  BY DEF IInv, TypeOK
<1>4. log' = log \/ log' = row
  BY <1>1
<1>5. got[w] > 0 /\ got[w] <= accepted /\ seen[w] < Tries
  BY <1>1 DEF IInv, IdsFit, AttemptsLeft, Handling
<1> HIDE DEF row
<1>6. TypeOK' /\ AttemptsLeft' /\ CopiesFit' /\ IdsFit' /\ Earned'
  <2>2. log' \in [status : Statuses, attempts : 0..Tries, dead : BOOLEAN, pid : 0..MaxAccepted]
    BY <1>3, <1>4 DEF IInv, TypeOK
  <2>3. /\ log'.pid <= accepted
        /\ log'.status \in Good => accepted > 0
        /\ log'.status \in Final => Met(log'.status)
        /\ log'.status = "queued" => log'.attempts < Tries
    BY <1>3, <1>4, <1>5 DEF IInv, IdsFit, Earned, AttemptsLeft
  <2> QED
    BY <1>1, <1>2, <1>5, <2>2, <2>3, RowKeeps
<1>7. Calm'
  <2> SUFFICES ASSUME faults' = 0 PROVE Calm'
    BY DEF Calm
  <2>1. faults = 0 /\ pc'[w] = "sent" /\ log' = row
    BY <1>2, NoFault DEF IInv
  <2>2. log.status = "processing" /\ ~log.dead
    BY <1>1, <2>1 DEF IInv, Calm, Places, PlaceOf, Rows, AtProvider
  <2>4. PlaceOf(w)'
    BY <1>2, <1>3, <2>1, <2>2 DEF PlaceOf, AtProvider
  <2>5. Rows'
    BY <1>1, <1>3, <2>1, <2>2 DEF IInv, Calm, Rows, AtProvider, Good, providerVars
  <2>6. Reach'
    BY <1>1, <2>1, <2>2, ReachBefore DEF Final
  <2>7. ~known
    BY <2>1, <2>2 DEF IInv, Calm, Settled, Good, Final
  <2> QED
    BY <1>1, <1>2, <2>1, <2>4, <2>5, <2>6, <2>7, CalmRow
<1> QED
  BY <1>6, <1>7 DEF IInv

LEMMA MarkSentKeeps ==
  ASSUME IInv, NEW w \in Workers, MarkSent(w)
  PROVE  IInv'
<1> DEFINE row == [log EXCEPT !.status = "sent"]
<1>1. /\ pc[w] = "sent" /\ UNCHANGED <<queueVars, providerVars, sync, lost>>
      /\ \/ log.pid = got[w] /\ Allows("sent") /\ log' = row /\ GoTo(w, "record") /\ faults' = faults
         \/ /\ ~ (log.pid = got[w] /\ Allows("sent"))
            /\ log' = log /\ GoTo(w, "fail") /\ faults' = faults
         \/ Fault /\ log' \in {log, row} /\ GoTo(w, "fail")
  BY DEF MarkSent, Update
<1>2. /\ Elsewhere(w) /\ WorkersTyped' /\ pc'[w] \in {"record", "fail"}
      /\ got'[w] = got[w] /\ seen'[w] = seen[w]
      /\ faults' = faults \/ Fault
      /\ faults' = faults /\ log.pid = got[w] /\ Allows("sent") => pc'[w] = "record" /\ log' = row
  BY <1>1, NoFault, Gone DEF IInv, Stages, Fault, TypeOK
<1>3. /\ row \in [status : Statuses, attempts : 0..Tries, dead : BOOLEAN, pid : 0..MaxAccepted]
      /\ row.status = "sent" /\ row.attempts = log.attempts /\ row.dead = log.dead
      /\ row.pid = log.pid
  BY DEF IInv, TypeOK, Statuses
<1>4. log' = log \/ log' = row
  BY <1>1
<1>5. got[w] > 0 /\ got[w] <= accepted /\ seen[w] < Tries /\ accepted > 0
  BY <1>1, SMT DEF IInv, TypeOK, IdsFit, AttemptsLeft, Handling
<1> HIDE DEF row
<1>6. TypeOK' /\ AttemptsLeft' /\ CopiesFit' /\ IdsFit' /\ Earned'
  <2>2. log' \in [status : Statuses, attempts : 0..Tries, dead : BOOLEAN, pid : 0..MaxAccepted]
    BY <1>3, <1>4 DEF IInv, TypeOK
  <2>3. /\ log'.pid <= accepted
        /\ log'.status \in Good => accepted > 0
        /\ log'.status \in Final => Met(log'.status)
        /\ log'.status = "queued" => log'.attempts < Tries
    BY <1>3, <1>4, <1>5 DEF IInv, IdsFit, Earned, AttemptsLeft, Final
  <2> QED
    BY <1>1, <1>2, <1>5, <2>2, <2>3, RowKeeps
<1>7. Calm'
  <2> SUFFICES ASSUME faults' = 0 PROVE Calm'
    BY DEF Calm
  <2>1. faults = 0 /\ faults' = faults
    BY <1>2, NoFault DEF IInv
  <2>2. log.status = "processing" /\ ~log.dead /\ log.pid = got[w]
    BY <1>1, <2>1 DEF IInv, Calm, Places, PlaceOf, Rows, AtProvider
  <2>3. pc'[w] = "record" /\ log' = row
    BY <1>2, <2>1, <2>2 DEF Allows
  <2>4. PlaceOf(w)'
    BY <2>3 DEF PlaceOf, AtProvider
  <2>5. Rows'
    BY <1>1, <1>3, <2>1, <2>2, <2>3 DEF IInv, Calm, Rows, Good, providerVars
  <2>6. Reach'
    BY <1>1, <2>1, <2>2, ReachBefore DEF Final
  <2>7. log'.status \in Good
    BY <1>3, <2>3 DEF Good
  <2> QED
    BY <1>1, <1>2, <2>1, <2>4, <2>5, <2>6, <2>7, CalmRow
<1> QED
  BY <1>6, <1>7 DEF IInv

\* The provider takes a copy: a new one, or the last one again.
LEMMA AcceptFacts ==
  ASSUME IInv, NEW i \in Copies, Accept(i)
  PROVE  /\ i > 0 /\ i \in 0..MaxAccepted /\ accepted <= i /\ expired \in 0..i
         /\ accepted' = i /\ i = expired + 1
         /\ UNCHANGED <<expired, hooks>>
         /\ fate' \in [Copies -> Fates] /\ CopiesFit'
         /\ \A s \in Final : Met(s) => Met(s)'
         /\ accepted # i => fate'[i] = "accepted"
<1>1. /\ i = expired + 1 /\ accepted' = i /\ UNCHANGED <<expired, hooks>>
      /\ fate' = IF accepted = i THEN fate ELSE [fate EXCEPT ![i] = "accepted"]
  BY DEF Accept
<1>2. /\ accepted \in Nat /\ expired \in 0..accepted /\ MaxAccepted \in Nat
      /\ accepted <= expired + 1
      /\ fate \in [Copies -> Fates]
      /\ \A j \in Copies : j <= accepted <=> fate[j] # "none"
  BY Constants, SMT DEF IInv, TypeOK, CopiesFit
<1>3. /\ i > 0 /\ i \in 0..MaxAccepted /\ accepted <= i /\ expired \in 0..i
      /\ accepted # i => accepted + 1 = i
  BY <1>1, <1>2, SMT DEF Copies
<1>4. \A j \in Copies : fate'[j] = IF accepted # i /\ j = i THEN "accepted" ELSE fate[j]
  BY <1>1, <1>2
<1>5. accepted # i => fate[i] = "none"
  <2> SUFFICES ASSUME accepted # i PROVE ~ (i <= accepted)
    BY <1>2
  <2> QED
    BY <1>2, <1>3, SMT DEF Copies
<1>6. fate' \in [Copies -> Fates]
  BY <1>1, <1>2 DEF Fates
<1>7. CopiesFit'
  <2>1. accepted' <= expired' + 1
    BY <1>1, <1>2, SMT
  <2>2. \A j \in Copies : j <= accepted' <=> fate'[j] # "none"
    <3> TAKE j \in Copies
    <3>1. CASE accepted = i
      BY <3>1, <1>1, <1>2
    <3>2. CASE accepted # i
      <4>1. j <= i <=> j <= accepted \/ j = i
        BY <3>2, <1>2, <1>3, SMT DEF Copies
      <4> QED
        BY <3>2, <4>1, <1>1, <1>2, <1>4
    <3> QED
      BY <3>1, <3>2
  <2> QED
    BY <2>1, <2>2 DEF CopiesFit
<1>8. \A s \in Final : Met(s) => Met(s)'
  <2> SUFFICES ASSUME NEW s \in Final, Met(s) PROVE Met(s)'
    OBVIOUS
  <2>1. PICK j \in Copies : fate[j] \in {s} \union (IF s = "delivered" THEN {"complained"} ELSE {})
    BY DEF Met
  <2>2. fate[j] # "none"
    BY <2>1 DEF Final
  <2>3. fate'[j] = fate[j]
    BY <2>2, <1>4, <1>5
  <2> QED
    BY <2>1, <2>3 DEF Met
<1> QED
  BY <1>1, <1>3, <1>4, <1>6, <1>7, <1>8

LEMMA SendKeeps ==
  ASSUME IInv, NEW w \in Workers, Send(w)
  PROVE  IInv'
<1>1. pc[w] = "send" /\ UNCHANGED <<log, queueVars, sync, lost>>
  BY DEF Send
<1>2. seen[w] < Tries /\ seen[w] \in 0..Tries
  BY <1>1 DEF IInv, TypeOK, AttemptsLeft, Handling
<1>3. CASE \E i \in Copies : /\ Accept(i) /\ UNCHANGED <<ct, seen, faults>>
                             /\ pc' = [pc EXCEPT ![w] = "store"] /\ got' = [got EXCEPT ![w] = i]
  <2>1. PICK i \in Copies : /\ Accept(i) /\ UNCHANGED <<ct, seen, faults>>
                            /\ pc' = [pc EXCEPT ![w] = "store"] /\ got' = [got EXCEPT ![w] = i]
    BY <1>3
  <2>2. /\ i > 0 /\ i \in 0..MaxAccepted /\ accepted <= i /\ expired \in 0..i
        /\ accepted' = i /\ i = expired + 1
        /\ UNCHANGED <<expired, hooks>>
        /\ fate' \in [Copies -> Fates] /\ CopiesFit'
        /\ \A s \in Final : Met(s) => Met(s)'
        /\ accepted # i => fate'[i] = "accepted"
    BY <2>1, AcceptFacts
  <2>3. /\ Elsewhere(w) /\ WorkersTyped' /\ pc'[w] = "store" /\ got'[w] = i /\ seen'[w] = seen[w]
    BY <2>1, <2>2 DEF IInv, TypeOK, Elsewhere, WorkersTyped, Stages
  <2>4. TypeOK'
    BY <1>1, <2>1, <2>2, <2>3 DEF IInv, TypeOK, WorkersTyped, queueVars
  <2>5. AttemptsLeft'
    BY <1>1, <1>2, <2>3 DEF IInv, AttemptsLeft, Elsewhere
  <2>6. IdsFit'
    <3>1. \A v \in Workers : got'[v] <= accepted' /\ (pc'[v] \in {"store", "sent"} => got'[v] > 0)
      <4> TAKE v \in Workers
      <4>1. CASE v = w
        BY <4>1, <2>2, <2>3, SMT
      <4>2. CASE v # w
        <5>1. got[v] \in Nat /\ got[v] <= accepted /\ accepted \in Nat
              /\ (pc[v] \in {"store", "sent"} => got[v] > 0)
          BY Constants DEF IInv, TypeOK, IdsFit
        <5>2. got'[v] = got[v] /\ pc'[v] = pc[v]
          BY <4>2, <2>3 DEF Elsewhere
        <5> QED
          BY <5>1, <5>2, <2>2, SMT
      <4> QED
        BY <4>1, <4>2
    <3>2. log'.pid <= accepted'
      <4>1. log.pid \in 0..MaxAccepted /\ log.pid <= accepted /\ accepted \in 0..MaxAccepted
        BY DEF IInv, TypeOK, IdsFit
      <4> QED
        BY <4>1, <1>1, <2>2, Constants, SMT
    <3> QED
      BY <3>1, <3>2, <2>2 DEF IdsFit
  <2>7. Earned'
    <3>1. /\ log'.status \in Final => Met(log.status)'
          /\ log.status' \in Final => Met(log.status)'
          /\ sync' \in Final => Met(sync)'
      BY <1>1, <2>2 DEF IInv, Earned, Met
    <3>2. \A j \in Copies, event \in Fates : <<j, event>> \in hooks' =>
            /\ j <= accepted' /\ event \in Final \union {"delayed"}
            /\ event \in Final => Met(event)'
      <4> SUFFICES ASSUME NEW j \in Copies, NEW event \in Fates, <<j, event>> \in hooks
                   PROVE  /\ j <= accepted' /\ event \in Final \union {"delayed"}
                          /\ event \in Final => Met(event)'
        BY <2>2
      <4>1. j <= accepted /\ event \in Final \union {"delayed"} /\ (event \in Final => Met(event))
        BY DEF IInv, Earned
      <4>2. j <= i
        BY <4>1, <2>2, Constants, SMT DEF IInv, TypeOK, Copies
      <4> QED
        BY <4>1, <4>2, <2>2
    <3> QED
      BY <1>1, <2>2, <3>1, <3>2 DEF Earned
  <2>8. Calm'
    <3> SUFFICES ASSUME faults' = 0 PROVE Calm'
      BY DEF Calm
    <3>1. /\ faults = 0 /\ accepted = 0 /\ log.status = "processing" /\ ~log.dead
      BY <1>1, <2>1 DEF IInv, Calm, Places, PlaceOf, Rows, AtProvider
    <3>2. i = 1 /\ accepted' = 1
      BY <2>2, <3>1, SMT DEF IInv, TypeOK
    <3>3. PlaceOf(w)'
      BY <1>1, <2>3, <3>1 DEF PlaceOf, AtProvider
    <3>4. Rows'
      BY <1>1, <2>3, <3>1, <3>2 DEF IInv, Calm, Rows, AtProvider
    <3>5. Reach'
      BY <2>2, <3>1, <3>2 DEF Reach, Final
    <3>6. ~known
      BY <3>1 DEF IInv, Calm, Settled, Good, Final
    <3> QED
      BY <1>1, <2>3, <3>1, <3>3, <3>4, <3>5, <3>6, CalmRow
  <2> QED
    BY <2>2, <2>4, <2>5, <2>6, <2>7, <2>8 DEF IInv
<1>4. CASE \E i \in Copies : Accept(i) /\ Fault /\ GoTo(w, "fail")
  <2>1. PICK i \in Copies : Accept(i) /\ Fault /\ GoTo(w, "fail")
    BY <1>4
  <2>2. /\ i > 0 /\ i \in 0..MaxAccepted /\ accepted <= i /\ expired \in 0..i
        /\ accepted' = i /\ UNCHANGED <<expired, hooks>>
        /\ fate' \in [Copies -> Fates] /\ CopiesFit'
        /\ \A s \in Final : Met(s) => Met(s)'
    BY <2>1, AcceptFacts
  <2>3. Elsewhere(w) /\ WorkersTyped' /\ pc'[w] = "fail" /\ got'[w] = got[w] /\ seen'[w] = seen[w]
    BY <2>1, Gone DEF IInv, Stages
  <2>4. TypeOK'
    BY <1>1, <2>1, <2>2, <2>3, NoFault DEF IInv, TypeOK, WorkersTyped, queueVars
  <2>5. AttemptsLeft'
    BY <1>1, <1>2, <2>3 DEF IInv, AttemptsLeft, Elsewhere
  <2>6. IdsFit'
    <3>1. \A v \in Workers : got'[v] <= accepted' /\ (pc'[v] \in {"store", "sent"} => got'[v] > 0)
      <4> TAKE v \in Workers
      <4>1. got[v] \in Nat /\ got[v] <= accepted /\ accepted \in Nat
            /\ (pc[v] \in {"store", "sent"} => got[v] > 0)
        BY Constants DEF IInv, TypeOK, IdsFit
      <4>2. got'[v] = got[v] /\ (pc'[v] = pc[v] \/ pc'[v] = "fail")
        BY <2>3 DEF Elsewhere
      <4>3. got[v] <= i
        BY <4>1, <2>2, SMT
      <4> QED
        BY <4>1, <4>2, <4>3, <2>2
    <3>2. log'.pid <= accepted'
      <4>1. log.pid \in 0..MaxAccepted /\ log.pid <= accepted /\ accepted \in 0..MaxAccepted
        BY DEF IInv, TypeOK, IdsFit
      <4> QED
        BY <4>1, <1>1, <2>2, Constants, SMT
    <3> QED
      BY <3>1, <3>2, <2>2 DEF IdsFit
  <2>7. Earned'
    <3>1. /\ log.status' \in Final => Met(log.status)'
          /\ sync' \in Final => Met(sync)'
      BY <1>1, <2>2 DEF IInv, Earned, Met
    <3>2. \A j \in Copies, event \in Fates : <<j, event>> \in hooks' =>
            /\ j <= accepted' /\ event \in Final \union {"delayed"}
            /\ event \in Final => Met(event)'
      <4> SUFFICES ASSUME NEW j \in Copies, NEW event \in Fates, <<j, event>> \in hooks
                   PROVE  /\ j <= accepted' /\ event \in Final \union {"delayed"}
                          /\ event \in Final => Met(event)'
        BY <2>2
      <4>1. j <= accepted /\ event \in Final \union {"delayed"} /\ (event \in Final => Met(event))
        BY DEF IInv, Earned
      <4>2. j <= i
        BY <4>1, <2>2, Constants, SMT DEF IInv, TypeOK, Copies
      <4> QED
        BY <4>1, <4>2, <2>2
    <3> QED
      BY <1>1, <2>2, <3>1, <3>2 DEF Earned
  <2>8. Calm'
    BY <2>1, NoFault DEF IInv, Calm
  <2> QED
    BY <2>2, <2>4, <2>5, <2>6, <2>7, <2>8 DEF IInv
<1>5. CASE /\ UNCHANGED <<ct, got, providerVars, faults>>
           /\ pc' = [pc EXCEPT ![w] = "fail"]
           /\ \E n \in 0..(Tries - 1) : seen' = [seen EXCEPT ![w] = n]
  <2>1. PICK n \in 0..(Tries - 1) : seen' = [seen EXCEPT ![w] = n]
    BY <1>5
  <2>2. n \in 0..Tries /\ n < Tries
    BY Constants, SMT
  <2>3. /\ Elsewhere(w) /\ WorkersTyped' /\ pc'[w] = "fail" /\ got'[w] = got[w]
        /\ seen'[w] < Tries
    BY <1>5, <2>1, <2>2 DEF IInv, TypeOK, Elsewhere, WorkersTyped, Stages
  <2>4. TypeOK'
    BY <1>1, <1>5, <2>3, TypeMove DEF IInv, TypeOK, queueVars
  <2>5. AttemptsLeft' /\ CopiesFit' /\ IdsFit' /\ Earned'
    BY <1>1, <1>5, <2>3, MoveKeeps
  <2>6. Calm'
    <3> SUFFICES ASSUME faults' = 0 PROVE Calm'
      BY DEF Calm
    <3>1. /\ faults = 0 /\ accepted = 0 /\ log.status = "processing" /\ ~log.dead
      BY <1>1, <1>5 DEF IInv, Calm, Places, PlaceOf, Rows, AtProvider
    <3>3. PlaceOf(w)'
      BY <1>1, <1>5, <2>3, <3>1 DEF PlaceOf, AtProvider, providerVars
    <3>4. Rows'
      BY <1>1, <1>5, <2>3, <3>1 DEF IInv, Calm, Rows, AtProvider, providerVars
    <3>5. Reach'
      BY <1>1, <1>5, <3>1, ReachBefore DEF Final
    <3>6. ~known
      BY <3>1 DEF IInv, Calm, Settled, Good, Final
    <3> QED
      BY <1>1, <2>3, <3>1, <3>3, <3>4, <3>5, <3>6, CalmRow
  <2> QED
    BY <2>4, <2>5, <2>6 DEF IInv
<1>6. ASSUME GoTo(w, "fail") /\ UNCHANGED <<providerVars, faults>>
      PROVE  IInv'
  <2>1. seen[w] \in 0..(Tries - 1) /\ seen' = [seen EXCEPT ![w] = seen[w]]
    BY <1>2, <1>6, Constants, SMT DEF GoTo, IInv, TypeOK
  <2> QED
    BY <1>5, <1>6, <2>1 DEF GoTo
<1>7. ASSUME /\ pc' = [pc EXCEPT ![w] = "fail"]
             /\ seen' = [seen EXCEPT ![w] = IF @ < MaxRetries - 1 THEN MaxRetries - 1 ELSE @]
             /\ UNCHANGED <<ct, got, providerVars, faults>>
      PROVE  IInv'
  <2>1. (IF seen[w] < MaxRetries - 1 THEN MaxRetries - 1 ELSE seen[w]) \in 0..(Tries - 1)
    <3>1. seen[w] \in Nat
      BY <1>2, Constants, SMT
    <3> QED
      BY <1>2, <3>1, Granted
  <2> QED
    BY <1>5, <1>7, <2>1
<1> QED
  BY <1>3, <1>4, <1>6, <1>7 DEF Send

LEMMA MarkFailedKeeps ==
  ASSUME IInv, NEW w \in Workers, MarkFailed(w)
  PROVE  IInv'
<1> DEFINE row == [log EXCEPT !.status = "failed", !.attempts = seen[w] + 1]
<1>1. /\ pc[w] = "fail" /\ UNCHANGED <<queueVars, providerVars, sync, lost>>
      /\ \/ Allows("failed") /\ log' = row /\ GoTo(w, "requeue") /\ faults' = faults
         \/ ~Allows("failed") /\ log' = log /\ GoTo(w, "thrown") /\ faults' = faults
         \/ Fault /\ log' \in {log, row} /\ GoTo(w, "thrown")
  BY DEF MarkFailed, Update
<1>2. /\ Elsewhere(w) /\ WorkersTyped' /\ pc'[w] \in {"requeue", "thrown"}
      /\ got'[w] = got[w] /\ seen'[w] = seen[w]
      /\ faults' = faults \/ Fault
      /\ faults' = faults /\ Allows("failed") => pc'[w] = "requeue" /\ log' = row
  BY <1>1, NoFault, Gone DEF IInv, Stages, Fault, TypeOK
<1>3. seen[w] < Tries /\ seen[w] + 1 \in 0..Tries
  <2>1. seen[w] < Tries /\ seen[w] \in 0..Tries
    BY <1>1 DEF IInv, TypeOK, AttemptsLeft, Handling
  <2> QED
    BY <2>1, Constants, SMT
<1>4. /\ row \in [status : Statuses, attempts : 0..Tries, dead : BOOLEAN, pid : 0..MaxAccepted]
      /\ row.status = "failed" /\ row.attempts = seen[w] + 1 /\ row.dead = log.dead
      /\ row.pid = log.pid
  BY <1>3 DEF IInv, TypeOK, Statuses
<1>5. log' = log \/ log' = row
  BY <1>1
<1> HIDE DEF row
<1>6. TypeOK' /\ AttemptsLeft' /\ CopiesFit' /\ IdsFit' /\ Earned'
  <2>2. log' \in [status : Statuses, attempts : 0..Tries, dead : BOOLEAN, pid : 0..MaxAccepted]
    BY <1>4, <1>5 DEF IInv, TypeOK
  <2>3. /\ log'.pid <= accepted
        /\ log'.status \in Good => accepted > 0
        /\ log'.status \in Final => Met(log'.status)
        /\ log'.status = "queued" => log'.attempts < Tries
    BY <1>4, <1>5 DEF IInv, IdsFit, Earned, AttemptsLeft, Good, Final
  <2> QED
    BY <1>1, <1>2, <1>3, <2>2, <2>3, RowKeeps
<1>7. Calm'
  <2> SUFFICES ASSUME faults' = 0 PROVE Calm'
    BY DEF Calm
  <2>1. faults = 0 /\ faults' = faults
    BY <1>2, NoFault DEF IInv
  <2>2. log.status = "processing" /\ ~log.dead /\ accepted = 0
    BY <1>1, <2>1 DEF IInv, Calm, Places, PlaceOf, Rows, AtProvider
  <2>3. pc'[w] = "requeue" /\ log' = row
    BY <1>2, <2>1, <2>2 DEF Allows
  <2>4. PlaceOf(w)'
    BY <1>2, <1>4, <2>2, <2>3 DEF PlaceOf, AtProvider
  <2>5. Rows'
    BY <1>1, <1>4, <2>1, <2>2, <2>3 DEF IInv, IdsFit, Rows, AtProvider, Good, Final, providerVars
  <2>6. Reach'
    BY <1>1, <2>1, <2>2, ReachBefore DEF Final
  <2>7. ~known
    BY <2>1, <2>2 DEF IInv, Calm, Settled, Good, Final
  <2> QED
    BY <1>1, <1>2, <2>1, <2>3, <2>4, <2>5, <2>6, <2>7, CalmRow
<1> QED
  BY <1>6, <1>7 DEF IInv

LEMMA RequeueKeeps ==
  ASSUME IInv, NEW w \in Workers, Requeue(w)
  PROVE  IInv'
<1> DEFINE again == [log EXCEPT !.status = "queued"]
           dead == [log EXCEPT !.dead = TRUE]
<1>1. /\ pc[w] = "requeue" /\ UNCHANGED <<queueVars, providerVars, sync, lost>>
      /\ IF seen[w] + 1 < MaxRetries
         THEN /\ Leave(w)
              /\ \/ Allows("queued") /\ log' = again /\ faults' = faults
                 \/ ~Allows("queued") /\ log' = log /\ faults' = faults
                 \/ Fault /\ log' = log
         ELSE /\ GoTo(w, "record")
              /\ \/ log' = dead /\ faults' = faults
                 \/ Fault /\ log' = log
  BY DEF Requeue
<1>2. /\ Elsewhere(w) /\ WorkersTyped' /\ pc'[w] \in {"idle", "record"}
      /\ got'[w] = got[w] \/ got'[w] = 0
      /\ faults' = faults \/ Fault
      /\ pc'[w] = "idle" <=> seen[w] + 1 < MaxRetries
  <2>1. CASE seen[w] + 1 < MaxRetries
    BY <1>1, <2>1, Left DEF IInv
  <2>2. CASE ~ (seen[w] + 1 < MaxRetries)
    BY <1>1, <2>2, Gone DEF IInv, Stages
  <2> QED
    BY <2>1, <2>2
<1>3. /\ again \in [status : Statuses, attempts : 0..Tries, dead : BOOLEAN, pid : 0..MaxAccepted]
      /\ again.status = "queued" /\ again.attempts = log.attempts /\ again.dead = log.dead
      /\ again.pid = log.pid
      /\ dead \in [status : Statuses, attempts : 0..Tries, dead : BOOLEAN, pid : 0..MaxAccepted]
      /\ dead.status = log.status /\ dead.attempts = log.attempts /\ dead.dead = TRUE
      /\ dead.pid = log.pid
  BY DEF IInv, TypeOK, Statuses
<1>4. log' = log \/ log' = dead \/ (Allows("queued") /\ log' = again)
  BY <1>1
<1>5. seen[w] < Tries /\ seen[w] \in 0..Tries
  BY <1>1 DEF IInv, TypeOK, AttemptsLeft, Handling
<1>6. faults' = faults => log' = (IF seen[w] + 1 < MaxRetries
                                  THEN IF Allows("queued") THEN again ELSE log ELSE dead)
  BY <1>1, NoFault, SMT DEF IInv, Fault, TypeOK
<1> HIDE DEF again, dead
<1>7. TypeOK' /\ AttemptsLeft' /\ CopiesFit' /\ IdsFit' /\ Earned'
  <2>1. log' \in [status : Statuses, attempts : 0..Tries, dead : BOOLEAN, pid : 0..MaxAccepted]
    BY <1>3, <1>4 DEF IInv, TypeOK
  <2>2. Allows("queued") => log.attempts < Tries
    <3>1. log.attempts \in Nat
      BY Constants DEF IInv, TypeOK
    <3> QED
      BY <3>1, Granted DEF IInv, AttemptsLeft, Allows, Final
  <2>3. /\ log'.pid <= accepted
        /\ log'.status \in Good => accepted > 0
        /\ log'.status \in Final => Met(log'.status)
        /\ log'.status = "queued" => log'.attempts < Tries
    BY <1>3, <1>4, <2>2 DEF IInv, IdsFit, Earned, AttemptsLeft, Good, Final
  <2>4. pc'[w] \notin Handling
    BY <1>2 DEF Handling
  <2> QED
    BY <1>1, <1>2, <2>1, <2>3, <2>4, RowKeeps
<1>8. Calm'
  <2> SUFFICES ASSUME faults' = 0 PROVE Calm'
    BY DEF Calm
  <2>1. faults = 0 /\ faults' = faults
    BY <1>2, NoFault DEF IInv
  <2>2. log.status = "failed" /\ ~log.dead /\ accepted = 0 /\ log.attempts = seen[w] + 1
    BY <1>1, <2>1 DEF IInv, Calm, Places, PlaceOf, Rows, AtProvider
  <2>3. pc'[w] = "idle" => log' = again
    BY <1>2, <1>6, <2>1, <2>2 DEF Allows
  <2>4. pc'[w] = "record" => log' = dead /\ log.attempts = Tries
    <3>1. pc'[w] = "record" => log' = dead
      BY <1>2, <1>6, <2>1
    <3>2. pc'[w] = "record" => seen[w] + 1 = Tries
      <4>1. seen[w] \in Nat
        BY <1>5, Constants
      <4> QED
        BY <1>2, <1>5, <4>1, Granted
    <3> QED
      BY <2>2, <3>1, <3>2
  <2>5. PlaceOf(w)'
    BY <1>2 DEF PlaceOf, AtProvider
  <2>6. Rows'
    <3>1. CASE pc'[w] = "idle"
      BY <1>1, <1>3, <2>1, <2>2, <2>3, <3>1 DEF IInv, IdsFit, Rows, Good, Final, providerVars
    <3>2. CASE pc'[w] = "record"
      BY <1>1, <1>3, <2>1, <2>2, <2>4, <3>2 DEF IInv, IdsFit, Rows, Good, Final, providerVars
    <3> QED
      BY <1>2, <3>1, <3>2
  <2>7. Reach'
    BY <1>1, <2>1, <2>2, ReachBefore DEF Final
  <2>8. ~known
    BY <2>1, <2>2 DEF IInv, Calm, Settled, Good, Final
  <2> QED
    BY <1>1, <1>2, <1>3, <2>1, <2>4, <2>5, <2>6, <2>7, <2>8, CalmRow
<1> QED
  BY <1>7, <1>8 DEF IInv

-----------------------------------------------------------------------------
(* The provider and the back office *)

LEMMA HappensKeeps ==
  ASSUME IInv, NEW i \in Copies, Happens(i)
  PROVE  IInv'
<1>1. PICK event \in Fates :
        /\ \/ fate[i] \in {"accepted", "delayed"} /\ event \in Outcomes
           \/ fate[i] = "accepted" /\ event = "delayed"
           \/ fate[i] = "delivered" /\ event = "complained"
        /\ fate' = [fate EXCEPT ![i] = event]
        /\ hooks' = hooks \union {<<i, event>>}
  BY DEF Happens
<1>2. UNCHANGED <<log, queueVars, workerVars, accepted, expired, sync, lost, faults>>
  BY DEF Happens
<1>3. /\ event \in Final \union {"delayed"} /\ event # "none" /\ fate[i] # "none"
      /\ \A j \in Copies : fate'[j] = IF j = i THEN event ELSE fate[j]
      /\ i <= accepted
  BY <1>1, EmailAssumption DEF IInv, TypeOK, CopiesFit, Final
<1>4. \A s \in Final : Met(s) => Met(s)'
  <2> SUFFICES ASSUME NEW s \in Final, Met(s) PROVE Met(s)'
    OBVIOUS
  <2>1. PICK j \in Copies : fate[j] \in {s} \union (IF s = "delivered" THEN {"complained"} ELSE {})
    BY DEF Met
  <2>2. fate'[j] \in {s} \union (IF s = "delivered" THEN {"complained"} ELSE {})
    BY <1>1, <1>3, <2>1 DEF Final
  <2> QED
    BY <2>2 DEF Met
<1>5. TypeOK'
  BY <1>1, <1>2 DEF IInv, TypeOK, queueVars, workerVars
<1>6. AttemptsLeft' /\ IdsFit'
  BY <1>2 DEF IInv, AttemptsLeft, IdsFit, workerVars
<1>7. CopiesFit'
  BY <1>2, <1>3 DEF IInv, CopiesFit
<1>8. Earned'
  <2>1. Met(event)'
    BY <1>3 DEF Met
  <2>2. (log.status' \in Final => Met(log.status)') /\ (sync' \in Final => Met(sync)')
    BY <1>2, <1>4 DEF IInv, Earned, Met
  <2>3. \A j \in Copies, e \in Fates : <<j, e>> \in hooks' =>
          /\ j <= accepted' /\ e \in Final \union {"delayed"}
          /\ e \in Final => Met(e)'
    <3> SUFFICES ASSUME NEW j \in Copies, NEW e \in Fates, <<j, e>> \in hooks'
                 PROVE  /\ j <= accepted /\ e \in Final \union {"delayed"}
                        /\ e \in Final => Met(e)'
      BY <1>2
    <3>1. CASE <<j, e>> \in hooks
      BY <3>1, <1>4 DEF IInv, Earned
    <3>2. CASE <<j, e>> \notin hooks
      <4>1. j = i /\ e = event
        BY <3>2, <1>1
      <4> QED
        BY <4>1, <2>1, <1>3
    <3> QED
      BY <3>1, <3>2
  <2> QED
    BY <1>2, <2>2, <2>3 DEF IInv, Earned
<1>9. Calm'
  <2> SUFFICES ASSUME faults = 0 PROVE Alone' /\ Places' /\ Rows' /\ Settled' /\ Reach'
    BY <1>2 DEF Calm
  <2>1. Alone' /\ Places' /\ Rows' /\ Settled'
    BY <1>2 DEF IInv, Calm, Alone, Places, PlaceOf, Rows, Settled, queueVars, workerVars
  <2>2. Reach'
    <3> SUFFICES ASSUME accepted = 1, fate'[1] \in Final, "processing" \notin lost
                 PROVE  <<1, fate'[1]>> \in hooks' \/ log.status = fate'[1]
      BY <1>2 DEF Reach
    <3>1. CASE i = 1
      BY <3>1, <1>1, <1>3
    <3>2. CASE i # 1
      BY <3>2, <1>1, <1>3, Constants DEF IInv, Calm, Reach
    <3> QED
      BY <3>1, <3>2
  <2> QED
    BY <2>1, <2>2
<1> QED
  BY <1>5, <1>6, <1>7, <1>8, <1>9 DEF IInv

LEMMA ForgetKeyKeeps ==
  ASSUME IInv, ForgetKey
  PROVE  IInv'
<1>1. /\ expired' = accepted
      /\ UNCHANGED <<log, queueVars, workerVars, accepted, fate, hooks, sync, lost, faults>>
  BY DEF ForgetKey
<1>2. TypeOK'
  <2>1. expired' \in 0..accepted
    BY <1>1, SMT DEF IInv, TypeOK
  <2> QED
    BY <1>1, <2>1 DEF IInv, TypeOK, queueVars, workerVars
<1>3. CopiesFit'
  <2>1. accepted <= accepted + 1
    BY SMT DEF IInv, TypeOK
  <2> QED
    BY <1>1, <2>1 DEF IInv, CopiesFit
<1>4. AttemptsLeft' /\ IdsFit' /\ Earned'
  BY <1>1 DEF IInv, AttemptsLeft, IdsFit, Earned, Met, workerVars
<1>5. Calm'
  BY <1>1 DEF IInv, Calm, Alone, Places, PlaceOf, Rows, Settled, Reach, queueVars, workerVars
<1> QED
  BY <1>2, <1>3, <1>4, <1>5 DEF IInv

\* The provider's word is written to the row.
LEMMA WordKeeps ==
  ASSUME IInv, NEW s \in Statuses, Allows(s), log' = [log EXCEPT !.status = s],
         accepted > 0, s \in Final => Met(s),
         UNCHANGED <<queueVars, workerVars, accepted, expired, fate>>,
         UNCHANGED faults \/ Fault, hooks' \subseteq hooks,
         sync' = sync \/ sync' = "none",
         lost' \subseteq Statuses
  PROVE  /\ TypeOK' /\ AttemptsLeft' /\ CopiesFit' /\ IdsFit' /\ Earned'
         /\ log'.status = s /\ log'.dead = log.dead /\ log'.attempts = log.attempts
         /\ log'.pid = log.pid
<1>1. /\ log' \in [status : Statuses, attempts : 0..Tries, dead : BOOLEAN,
                    pid : 0..MaxAccepted]
      /\ log'.status = s /\ log'.dead = log.dead /\ log'.attempts = log.attempts
      /\ log'.pid = log.pid
  BY DEF IInv, TypeOK
<1>2. TypeOK'
  <2>1. faults' \in Nat
    BY NoFault DEF IInv, TypeOK
  <2> QED
    BY <1>1, <2>1 DEF IInv, TypeOK, queueVars, workerVars
<1>3. AttemptsLeft'
  <2>1. log.attempts \in Nat
    BY Constants DEF IInv, TypeOK
  <2> QED
    BY <1>1, <2>1, Granted DEF IInv, AttemptsLeft, Allows, Final, workerVars
<1>4. CopiesFit' /\ IdsFit'
  BY <1>1 DEF IInv, CopiesFit, IdsFit, workerVars
<1>5. Earned'
  <2>1. (log.status \in Final => Met(log.status))'
    BY <1>1 DEF Met
  <2>2. (sync \in Final => Met(sync))'
    BY DEF IInv, Earned, Met, Final
  <2>3. (\A i \in Copies, event \in Fates : <<i, event>> \in hooks =>
          /\ i <= accepted /\ event \in Final \union {"delayed"}
          /\ event \in Final => Met(event))'
    BY DEF IInv, Earned, Met
  <2> QED
    BY <2>1, <2>2, <2>3 DEF Earned
<1> QED
  BY <1>1, <1>2, <1>3, <1>4, <1>5

\* ... without faults only an outcome after "sent".
LEMMA WordCalm ==
  ASSUME IInv, faults = 0, NEW s \in Statuses, Allows(s), log' = [log EXCEPT !.status = s],
         accepted > 0, s \in Final => Met(s),
         s \notin {"queued", "failed"}, s = "sent" => log.status \in Good,
         UNCHANGED <<queueVars, workerVars, accepted, expired, fate>>,
         sync' = sync \/ sync' = "none"
  PROVE  /\ Alone' /\ Places' /\ Rows' /\ Settled'
         /\ accepted = 1 /\ log.status \in Final /\ fate[1] = log.status => s = log.status
<1>1. log'.status = s /\ log'.dead = log.dead /\ log'.attempts = log.attempts /\ log'.pid = log.pid
  BY DEF IInv, TypeOK
<1>2. log.status \in {"processing"} \union Good /\ ~log.dead /\ accepted = 1
  <2>1. log.status \notin {"queued", "failed"} /\ ~log.dead /\ accepted <= 1
    BY SMT DEF IInv, TypeOK, Calm, Rows
  <2>2. accepted = 1
    BY <2>1, Constants, SMT DEF IInv, TypeOK
  <2> QED
    BY <2>1, <2>2 DEF IInv, TypeOK, Statuses, Good, Final
<1>3. \/ s = log.status
      \/ log.status \in {"sent", "delivered"} /\ s \in Final
  BY <1>2 DEF Allows, Good, Final
<1>4. Alone'
  BY DEF IInv, Calm, Alone, queueVars, workerVars
<1>5. CASE s = log.status
  BY <1>1, <1>4, <1>5 DEF IInv, Calm, Places, PlaceOf, Rows, Settled, queueVars, workerVars
<1>6. CASE s # log.status
  <2>1. log.status \in Good /\ s \in Good /\ log.status # "processing"
    BY <1>3, <1>6 DEF Good, Final
  <2>2. \A w \in Workers : pc[w] \notin AtProvider \union {"mark", "requeue", "thrown", "dlq"}
    BY <2>1 DEF IInv, Calm, Places, PlaceOf, Good, Final
  <2>3. Places'
    BY <2>2 DEF Places, PlaceOf, AtProvider, workerVars
  <2>4. Rows'
    BY <1>1, <1>2, <2>1 DEF IInv, Calm, Rows, Good, Final
  <2>5. Settled'
    BY <1>1, <2>1 DEF Settled
  <2>6. ~ (log.status \in Final /\ fate[1] = log.status)
    <3> SUFFICES ASSUME log.status \in Final, fate[1] = log.status PROVE FALSE
      OBVIOUS
    <3>1. log.status = "delivered" /\ s = "complained"
      BY <1>3, <1>6 DEF Allows, Final
    <3>2. PICK j \in Copies : fate[j] = "complained"
      BY <3>1 DEF Met, Final
    <3>3. j <= 1
      BY <3>2, <1>2 DEF IInv, CopiesFit
    <3>4. j = 1
      BY <3>3, SMT DEF Copies
    <3> QED
      BY <3>1, <3>2, <3>4
  <2> QED
    BY <1>4, <2>3, <2>4, <2>5, <2>6
<1> QED
  BY <1>5, <1>6

LEMMA WebhookKeeps ==
  ASSUME IInv, NEW i \in Copies, NEW event \in Fates, Webhook(i, event)
  PROVE  IInv'
<1> DEFINE s == StatusOf(event)
<1>1. /\ <<i, event>> \in hooks /\ log.pid = i
      /\ UNCHANGED <<queueVars, workerVars, accepted, expired, fate, sync>>
  BY DEF Webhook
<1>2. \/ /\ Allows(s) /\ log' = [log EXCEPT !.status = s] /\ lost' = lost
         /\ \/ hooks' = hooks \ {<<i, event>>} /\ faults' = faults
            \/ Fault /\ hooks' = hooks
      \/ /\ (~Allows(s) /\ faults' = faults) \/ Fault
         /\ hooks' = hooks \ {<<i, event>>} /\ lost' = lost \union {log.status}
         /\ log' = log
  BY DEF Webhook
<1>3. /\ i <= accepted /\ event \in Final \union {"delayed"} /\ (event \in Final => Met(event))
      /\ accepted > 0
  <2>1. i <= accepted /\ event \in Final \union {"delayed"} /\ (event \in Final => Met(event))
    BY <1>1 DEF IInv, Earned
  <2> QED
    BY <2>1, Constants, SMT DEF IInv, TypeOK, Copies
<1>4. /\ s \in Statuses /\ s \notin {"queued", "failed", "sent"}
      /\ s \in Final => Met(s)
      /\ event \in Final => s = event
      /\ event \notin Final => s = "processing"
  BY <1>3 DEF StatusOf, Statuses, Final
<1>5. hooks' \subseteq hooks /\ (UNCHANGED faults \/ Fault)
  BY <1>2
<1>6. lost \subseteq Statuses /\ log.status \in Statuses
  BY DEF IInv, TypeOK
<1> HIDE DEF s
<1>7. CASE Allows(s) /\ log' = [log EXCEPT !.status = s] /\ lost' = lost
  <2>1. /\ TypeOK' /\ AttemptsLeft' /\ CopiesFit' /\ IdsFit' /\ Earned'
        /\ log'.status = s
    BY <1>1, <1>3, <1>4, <1>5, <1>6, <1>7, WordKeeps
  <2>2. Calm'
    <3> SUFFICES ASSUME faults' = 0 PROVE Alone' /\ Places' /\ Rows' /\ Settled' /\ Reach'
      BY DEF Calm
    <3>1. faults = 0
      BY <1>5, NoFault DEF IInv
    <3>2. /\ Alone' /\ Places' /\ Rows' /\ Settled'
          /\ accepted = 1 /\ log.status \in Final /\ fate[1] = log.status => s = log.status
      BY <1>1, <1>3, <1>4, <1>7, <3>1, WordCalm
    <3>3. Reach'
      <4> SUFFICES ASSUME accepted = 1, fate[1] \in Final, "processing" \notin lost
                   PROVE  <<1, fate[1]>> \in hooks' \/ s = fate[1]
        BY <1>1, <1>7, <2>1 DEF Reach
      <4>1. <<1, fate[1]>> \in hooks \/ log.status = fate[1]
        BY <3>1 DEF IInv, Calm, Reach
      <4>2. CASE <<1, fate[1]>> \in hooks /\ <<i, event>> # <<1, fate[1]>>
        BY <4>2, <1>2
      <4>3. CASE <<i, event>> = <<1, fate[1]>>
        BY <4>3, <1>4
      <4>4. CASE log.status = fate[1]
        BY <4>4, <3>2
      <4> QED
        BY <4>1, <4>2, <4>3, <4>4
    <3> QED
      BY <3>2, <3>3
  <2> QED
    BY <2>1, <2>2 DEF IInv
<1>8. CASE /\ (~Allows(s) /\ faults' = faults) \/ Fault
           /\ hooks' = hooks \ {<<i, event>>} /\ lost' = lost \union {log.status}
           /\ log' = log
  <2>1. lost' \subseteq Statuses
    BY <1>6, <1>8
  <2>2. TypeOK'
    <3>1. faults' \in Nat
      BY <1>5, NoFault DEF IInv, TypeOK
    <3> QED
      BY <1>1, <1>8, <2>1, <3>1 DEF IInv, TypeOK, queueVars, workerVars
  <2>3. AttemptsLeft' /\ CopiesFit' /\ IdsFit' /\ Earned'
    BY <1>1, <1>8 DEF IInv, AttemptsLeft, CopiesFit, IdsFit, Earned, Met, workerVars
  <2>4. Calm'
    <3> SUFFICES ASSUME faults' = 0 PROVE Alone' /\ Places' /\ Rows' /\ Settled' /\ Reach'
      BY DEF Calm
    <3>1. faults = 0 /\ ~Allows(s)
      BY <1>8, NoFault DEF IInv
    <3>2. Alone' /\ Places' /\ Rows' /\ Settled'
      BY <1>1, <1>8, <3>1 DEF IInv, Calm, Alone, Places, PlaceOf, Rows, Settled, queueVars,
                              workerVars
    <3>3. Reach'
      <4> SUFFICES ASSUME accepted = 1, fate[1] \in Final, "processing" \notin lost'
                   PROVE  <<1, fate[1]>> \in hooks' \/ log.status = fate[1]
        BY <1>1, <1>8 DEF Reach
      <4>1. log.status # "processing" /\ "processing" \notin lost
        BY <1>8
      <4>2. <<1, fate[1]>> \in hooks \/ log.status = fate[1]
        BY <3>1, <4>1 DEF IInv, Calm, Reach
      <4>3. CASE <<i, event>> # <<1, fate[1]>>
        BY <4>2, <4>3, <1>8
      <4>4. CASE <<i, event>> = <<1, fate[1]>>
        <5>1. event = fate[1] /\ s = event
          BY <4>4, <1>4
        <5>2. log.status \in Final
          BY <3>1, <4>1, <5>1 DEF IInv, TypeOK, Calm, Rows, Allows, Statuses, Final
        <5>3. PICK j \in Copies : fate[j] \in {log.status} \union
                                     (IF log.status = "delivered" THEN {"complained"} ELSE {})
          BY <5>2 DEF IInv, Earned, Met
        <5>4. j <= 1
          BY <5>2, <5>3 DEF IInv, CopiesFit, Final
        <5>5. j = 1
          BY <5>4, SMT DEF Copies
        <5> QED
          BY <3>1, <5>1, <5>3, <5>5 DEF Allows
      <4> QED
        BY <4>3, <4>4
    <3> QED
      BY <3>2, <3>3
  <2> QED
    BY <2>2, <2>3, <2>4 DEF IInv
<1> QED
  BY <1>2, <1>7, <1>8

LEMMA SyncReadKeeps ==
  ASSUME IInv, SyncRead
  PROVE  IInv'
<1>1. /\ log.pid # 0
      /\ sync' = IF log.status \in Final \union {"failed"} \/ fate[log.pid] = "accepted"
                 THEN log.status ELSE StatusOf(fate[log.pid])
      /\ UNCHANGED <<log, queueVars, workerVars, providerVars, lost, faults>>
  BY DEF SyncRead
<1>2. log.pid \in Copies /\ log.pid <= accepted /\ accepted > 0
  <2>1. log.pid \in 0..MaxAccepted /\ log.pid <= accepted /\ accepted \in 0..MaxAccepted
    BY DEF IInv, TypeOK, IdsFit
  <2> QED
    BY <1>1, <2>1, Constants, SMT DEF Copies
<1>3. fate[log.pid] \in Fates \ {"none"}
  BY <1>2 DEF IInv, TypeOK, CopiesFit
<1>4. \/ sync' = log.status
      \/ sync' = "processing"
      \/ sync' = fate[log.pid] /\ sync' \in Final
  BY <1>1, <1>3 DEF StatusOf, Fates
<1>5. TypeOK'
  <2>1. sync' \in Statuses
    BY <1>4 DEF IInv, TypeOK, Statuses, Final
  <2> QED
    BY <1>1, <2>1 DEF IInv, TypeOK, queueVars, workerVars, providerVars
<1>6. AttemptsLeft' /\ CopiesFit' /\ IdsFit'
  BY <1>1, <1>2 DEF IInv, AttemptsLeft, CopiesFit, IdsFit, workerVars, providerVars
<1>7. Earned'
  <2>1. (sync \in Final => Met(sync))'
    BY <1>1, <1>2, <1>4 DEF IInv, Earned, Met, Final, providerVars
  <2>2. (log.status \in Final => Met(log.status))'
    BY <1>1 DEF IInv, Earned, Met, providerVars
  <2>3. (\A i \in Copies, event \in Fates : <<i, event>> \in hooks =>
          /\ i <= accepted /\ event \in Final \union {"delayed"}
          /\ event \in Final => Met(event))'
    BY <1>1 DEF IInv, Earned, Met, providerVars
  <2> QED
    BY <1>1, <1>2, <2>1, <2>2, <2>3 DEF Earned, providerVars
<1>8. Calm'
  <2> SUFFICES ASSUME faults = 0 PROVE Alone' /\ Places' /\ Rows' /\ Settled' /\ Reach'
    BY <1>1 DEF Calm
  <2>1. log.status \notin {"queued", "failed"}
    <3>1. accepted # 0
      BY <1>2, SMT DEF IInv, TypeOK
    <3> QED
      BY <3>1 DEF IInv, Calm, Rows
  <2>2. Alone' /\ Places' /\ Settled' /\ Reach'
    BY <1>1 DEF IInv, Calm, Alone, Places, PlaceOf, Settled, Reach, queueVars, workerVars,
                providerVars
  <2>3. sync' \notin {"queued", "failed"} /\ (sync' = "sent" => log.status \in Good)
    BY <1>4, <2>1 DEF Good, Final
  <2>4. Rows'
    BY <1>1, <2>3 DEF IInv, Calm, Rows, workerVars, providerVars
  <2> QED
    BY <2>2, <2>4
<1> QED
  BY <1>5, <1>6, <1>7, <1>8 DEF IInv

LEMMA SyncWriteKeeps ==
  ASSUME IInv, SyncWrite
  PROVE  IInv'
<1>1. /\ sync # "none" /\ sync' = "none"
      /\ UNCHANGED <<queueVars, workerVars, accepted, expired, fate, hooks, lost, faults>>
      /\ log' = IF Allows(sync) THEN [log EXCEPT !.status = sync] ELSE log
  BY DEF SyncWrite, providerVars
<1>2. /\ sync \in Statuses /\ accepted > 0 /\ (sync \in Final => Met(sync))
      /\ lost \subseteq Statuses
  BY <1>1 DEF IInv, TypeOK, IdsFit, Earned
<1>3. CASE ~Allows(sync)
  <2>1. log' = log
    BY <1>1, <1>3
  <2>2. TypeOK' /\ AttemptsLeft' /\ CopiesFit' /\ IdsFit'
    BY <1>1, <2>1 DEF IInv, TypeOK, AttemptsLeft, CopiesFit, IdsFit, queueVars, workerVars
  <2>3. Earned'
    BY <1>1, <2>1 DEF IInv, Earned, Met, Final
  <2>4. Calm'
    BY <1>1, <2>1 DEF IInv, Calm, Alone, Places, PlaceOf, Rows, Settled, Reach, queueVars,
                      workerVars
  <2> QED
    BY <2>2, <2>3, <2>4 DEF IInv
<1>4. CASE Allows(sync)
  <2>1. /\ TypeOK' /\ AttemptsLeft' /\ CopiesFit' /\ IdsFit' /\ Earned'
        /\ log'.status = sync
    BY <1>1, <1>2, <1>4, WordKeeps
  <2>2. Calm'
    <3> SUFFICES ASSUME faults = 0 PROVE Alone' /\ Places' /\ Rows' /\ Settled' /\ Reach'
      BY <1>1 DEF Calm
    <3>1. sync \notin {"queued", "failed"} /\ (sync = "sent" => log.status \in Good)
      BY DEF IInv, Calm, Rows
    <3>2. /\ Alone' /\ Places' /\ Rows' /\ Settled'
          /\ accepted = 1 /\ log.status \in Final /\ fate[1] = log.status => sync = log.status
      BY <1>1, <1>2, <1>4, <3>1, WordCalm
    <3>3. Reach'
      BY <1>1, <2>1, <3>2 DEF IInv, Calm, Reach
    <3> QED
      BY <3>2, <3>3
  <2> QED
    BY <2>1, <2>2 DEF IInv
<1> QED
  BY <1>3, <1>4

-----------------------------------------------------------------------------
(* Theorems *)

LEMMA NextKeeps ==
  ASSUME IInv, [Next]_vars
  PROVE  IInv'
<1>1. CASE UNCHANGED vars
  <2> USE <1>1 DEF vars, queueVars, workerVars, providerVars
  <2>1. TypeOK' /\ AttemptsLeft' /\ CopiesFit' /\ IdsFit'
    BY DEF IInv, TypeOK, AttemptsLeft, CopiesFit, IdsFit
  <2>2. Earned'
    BY DEF IInv, Earned, Met
  <2>3. Calm'
    BY DEF IInv, Calm, Alone, Places, PlaceOf, Rows, Settled, Reach
  <2> QED
    BY <2>1, <2>2, <2>3 DEF IInv
<1>2. CASE Expire
  BY <1>2, ExpireKeeps
<1>3. CASE ForgetKey
  BY <1>3, ForgetKeyKeeps
<1>4. CASE SyncRead
  BY <1>4, SyncReadKeeps
<1>5. CASE SyncWrite
  BY <1>5, SyncWriteKeeps
<1>6. ASSUME NEW w \in Workers, Step(w) \/ Die(w) PROVE IInv'
  <2>1. CASE Read(w) \/ Dedup(w) \/ Thrown(w) \/ MoveToDlq(w)
    BY <2>1, ReadKeeps, DedupKeeps, ThrownKeeps, MoveToDlqKeeps
  <2>2. CASE Record(w) \/ Archive(w) \/ Die(w) \/ Fetch(w)
    BY <2>2, RecordKeeps, ArchiveKeeps, DieKeeps, FetchKeeps
  <2>3. CASE MarkProcessing(w) \/ Send(w) \/ StoreId(w)
    BY <2>3, MarkProcessingKeeps, SendKeeps, StoreIdKeeps
  <2>4. CASE MarkSent(w) \/ MarkFailed(w) \/ Requeue(w)
    BY <2>4, MarkSentKeeps, MarkFailedKeeps, RequeueKeeps
  <2> QED
    BY <1>6, <2>1, <2>2, <2>3, <2>4 DEF Step
<1>7. ASSUME NEW i \in Copies, Happens(i) PROVE IInv'
  BY <1>7, HappensKeeps
<1>8. ASSUME NEW i \in Copies, NEW event \in Fates, Webhook(i, event) PROVE IInv'
  BY <1>8, WebhookKeeps
<1> QED
  BY <1>1, <1>2, <1>3, <1>4, <1>5, <1>6, <1>7, <1>8 DEF Next

\* The inductive invariant of the row, the message, the provider and the workers.
THEOREM Invariant == Spec => []IInv
<1>1. Init => IInv
  BY InitIInv
<1>2. IInv /\ [Next]_vars => IInv'
  BY NextKeeps
<1> QED
  BY <1>1, <1>2, PTL DEF Spec

\* The row, its attempts within max_retries, the queue and the workers keep their
\* types (process-email-queue, enforce_email_status_transition).
THEOREM TypeCorrect == Spec => []TypeOK
<1>1. IInv => TypeOK
  BY DEF IInv
<1> QED
  BY <1>1, Invariant, PTL

\* The row says of the e-mail what is true of a copy, and a second copy needs a
\* forgotten key and a fault (markSent, markFailed, resend-webhook).
THEOREM Truthful == Spec => []StatusIsEarned
<1>1. IInv => StatusIsEarned
  <2> SUFFICES ASSUME IInv PROVE StatusIsEarned
    OBVIOUS
  <2>1. log.status \in {"sent"} \union Final => accepted > 0
    BY DEF IInv, Earned, Good
  <2>2. log.status \in Final => Met(log.status)
    BY DEF IInv, Earned
  <2>3. log.dead => faults > 0 \/ (log.attempts = Tries /\ accepted = 0)
    <3>1. faults = 0 \/ faults > 0
      BY SMT DEF IInv, TypeOK
    <3> QED
      BY <3>1 DEF IInv, Calm, Rows
  <2>4. accepted > 1 => expired > 0
    BY Constants, SMT DEF IInv, TypeOK, CopiesFit
  <2>5. accepted > 1 => faults > 0
    <3>1. faults = 0 => accepted <= 1
      BY DEF IInv, Calm, Rows
    <3> QED
      BY <3>1, Constants, SMT DEF IInv, TypeOK
  <2> QED
    BY <2>1, <2>2, <2>3, <2>4, <2>5 DEF StatusIsEarned, Met
<1> QED
  BY <1>1, Invariant, PTL

\* Without a fault no message leaves the queue before its e-mail is sent or a dead
\* letter (QueueRunner, the handler's early return for a row that is not queued).
THEOREM Attended == Spec => []AbandonedNeedsFault
<1>1. IInv => AbandonedNeedsFault
  <2> SUFFICES ASSUME IInv, message = "archived", log.status \in {"queued", "processing", "failed"},
                      ~log.dead
               PROVE  faults > 0
    BY DEF AbandonedNeedsFault
  <2>1. faults # 0
    BY DEF IInv, Calm, Settled, Good, Final
  <2> QED
    BY <2>1, SMT DEF IInv, TypeOK
<1> QED
  BY <1>1, Invariant, PTL

\* Without a fault the provider's last word reaches the row, unless it was refused
\* between the two calls of markSent (resend-webhook, syncResendStatus).
THEOREM Reaching == Spec => []EventsReach
<1>1. IInv => EventsReach
  <2> SUFFICES ASSUME IInv, faults = 0, hooks = {}, accepted = 1,
                      \A w \in Workers : pc[w] = "idle", "processing" \notin lost
               PROVE  log.status = (IF fate[1] \in Final THEN fate[1] ELSE "sent")
    BY DEF EventsReach
  <2>1. CASE fate[1] \in Final
    BY <2>1 DEF IInv, Calm, Reach
  <2>2. CASE fate[1] \notin Final
    <3>1. log.status \notin {"queued", "processing", "failed"}
      BY DEF IInv, Calm, Rows, AtProvider
    <3>2. log.status \notin Final
      <4> SUFFICES ASSUME log.status \in Final PROVE FALSE
        OBVIOUS
      <4>1. PICK j \in Copies : fate[j] \in {log.status} \union
                                  (IF log.status = "delivered" THEN {"complained"} ELSE {})
        BY DEF IInv, Earned, Met
      <4>2. fate[j] \in Final
        BY <4>1 DEF Final
      <4>3. j <= 1
        BY <4>2 DEF IInv, CopiesFit, Final
      <4>4. j = 1
        BY <4>3, SMT DEF Copies
      <4> QED
        BY <4>2, <4>4, <2>2
    <3> QED
      BY <3>1, <3>2, <2>2 DEF IInv, TypeOK, Statuses, Final
  <2> QED
    BY <2>1, <2>2
<1> QED
  BY <1>1, Invariant, PTL
=============================================================================
