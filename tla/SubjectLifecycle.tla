-------------------------- MODULE SubjectLifecycle --------------------------
(***************************************************************************)
(* The life of a data subject: public submissions write a subject, a       *)
(* submission and consent records in one transaction each, while the       *)
(* worker's data-subject-request pass erases subjects and withdraws        *)
(* consent in a transaction of its own.                                    *)
(*                                                                         *)
(* Every transaction runs at READ COMMITTED.  What a transaction has       *)
(* written and not committed is kept in variables of its own (row, worker) *)
(* and reaches the tables in its commit; what it has locked is explicit    *)
(* (keyHolder, rowLock, currentLock, auditLock), because the locks are     *)
(* what orders two transactions.                                           *)
(*                                                                         *)
(* One tenant, one form, one optional purpose.  A submission is named by   *)
(* the call that stores it, and a data_subjects row by the call whose      *)
(* upsert inserted it (both ids are fresh uuids in the code).              *)
(***************************************************************************)
EXTENDS Naturals, Sequences, FiniteSets

CONSTANTS
    Submits,      \* the calls of Submitter.Submit
    Idents,       \* identifying values (an email, a phone number), hashed
    Keys,         \* idempotency keys
    Calls,        \* the inputs a call may carry
    Types,        \* the request types the portal raises
    MaxRequests,  \* bound: how many requests are raised
    Batch,        \* how many requests one pass claims (20 in the code)
    MaxFails      \* bound: how often the worker's transaction fails

None   == "none"
NoKey  == "nokey"
Free   == "free"        \* hash of a row nobody inserted
Gone   == "gone"        \* hash of an erased row: sha256 of its own id
Worker == "dsr-processor"
Procs  == Submits \cup {Worker}

AutoTypes == {"erase", "withdraw", "access", "export"}

Grants == {"granted", "refused", "silent"}
CallSet == [ident : Idents, key : Keys \cup {NoKey},
            grant : Grants, sensitive : BOOLEAN]

ASSUME SubmitsAssumption ==
    IsFiniteSet(Submits) /\ None \notin Submits /\ Worker \notin Submits
ASSUME IdentsAssumption == Free \notin Idents /\ Gone \notin Idents
ASSUME KeysAssumption == NoKey \notin Keys
ASSUME CallsAssumption == Calls \subseteq CallSet
ASSUME BoundsAssumption ==
    MaxRequests \in Nat /\ Batch \in Nat \ {0} /\ MaxFails \in Nat

VARIABLES
    pc,           \* [Submits -> where the call is]
    call,         \* [Submits -> its input]
    began,        \* the calls in the order their transactions began
    row,          \* [Submits -> the subject row the transaction works on]
    hash,         \* data_subjects.identifier_hash, by row
    dek,          \* data_subjects.dek_wrapped IS NOT NULL, by row
    stored,       \* forms.submissions, the committed ones
    log,          \* consent.records in commit order
    current,      \* consent.current_consents, by subject row
    keyHolder,    \* core.idempotency_keys: who inserted the key
    rowLock,      \* who holds the row lock of a data_subjects row
    currentLock,  \* who holds the row lock of a current_consents row
    auditLock,    \* who holds the tenant's audit advisory lock
    requests,     \* consent.dsr_requests in due_at order
    worker,       \* the transaction of Processor.Tick
    fails

vars == <<pc, call, began, row, hash, dek, stored, log, current, keyHolder,
          rowLock, currentLock, auditLock, requests, worker, fails>>

tables == <<hash, dek, stored, log, current>>
locks  == <<keyHolder, rowLock, currentLock, auditLock>>

IdleWorker == [step |-> "idle", todo |-> {}, deleted |-> {}, erased |-> {},
               withdrawn |-> {}, done |-> {}]

Init ==
    /\ pc = [s \in Submits |-> "new"]
    /\ call \in [Submits -> Calls]
    /\ began = <<>>
    /\ row = [s \in Submits |-> None]
    /\ hash = [r \in Submits |-> Free]
    /\ dek = [r \in Submits |-> FALSE]
    /\ stored = {}
    /\ log = <<>>
    /\ current = [r \in Submits |-> [granted |-> FALSE, last |-> 0]]
    /\ keyHolder = [k \in Keys |-> None]
    /\ rowLock = [r \in Submits |-> None]
    /\ currentLock = [r \in Submits |-> None]
    /\ auditLock = None
    /\ requests = <<>>
    /\ worker = IdleWorker
    /\ fails = 0

\* The lock table once p has released everything it holds in it.
Released(lock, p) == [x \in DOMAIN lock |-> IF lock[x] = p THEN None ELSE lock[x]]

GoTo(s, label) == pc' = [pc EXCEPT ![s] = label]

-----------------------------------------------------------------------------
(* A call of Submitter.Submit: the transaction, statement by statement.    *)

\* BEGIN: from here now() is fixed for the transaction, so every record it
\* appends carries this moment as occurred_at.
Begin(s) ==
    /\ pc[s] = "new"
    /\ GoTo(s, "reserve")
    /\ began' = Append(began, s)
    /\ UNCHANGED <<call, row, tables, locks, requests, worker, fails>>

\* A mutant: look for the key first, insert it after.  A reservation that has
\* not committed is not seen.
ReserveCheckThenInsert(s) ==
    LET k == call[s].key
        seen == k \in Keys /\ keyHolder[k] \in Submits /\ pc[keyHolder[k]] = "done" IN
    /\ pc[s] = "reserve"
    /\ GoTo(s, IF seen THEN "duplicate" ELSE "upsert")
    /\ keyHolder' = IF k = NoKey \/ seen THEN keyHolder ELSE [keyHolder EXCEPT ![k] = s]
    /\ UNCHANGED <<call, began, row, tables, rowLock, currentLock, auditLock,
                   requests, worker, fails>>

\* INSERT ... ON CONFLICT DO NOTHING: waits while the key's inserter is in
\* flight, and finds a duplicate when that inserter has committed.
ReserveIdempotency(s) ==
    LET k == call[s].key IN
    /\ pc[s] = "reserve"
    /\ \/ /\ k = NoKey
          /\ GoTo(s, "upsert")
          /\ UNCHANGED keyHolder
       \/ /\ k \in Keys /\ keyHolder[k] = None
          /\ GoTo(s, "upsert")
          /\ keyHolder' = [keyHolder EXCEPT ![k] = s]
       \/ /\ k \in Keys /\ keyHolder[k] \in Submits /\ pc[keyHolder[k]] = "done"
          /\ GoTo(s, "duplicate")
          /\ UNCHANGED keyHolder
    /\ UNCHANGED <<call, began, row, tables, rowLock, currentLock, auditLock,
                   requests, worker, fails>>

\* What an upsert leaves alone.
UpsertFrame == UNCHANGED <<call, began, dek, stored, log, current, keyHolder,
                           currentLock, requests, worker, fails>>

\* The call goes on with row r, which it found (and nobody else has locked) ...
Finds(s, r) ==
    /\ pc[s] = "upsert" /\ GoTo(s, "record")
    /\ hash[r] = call[s].ident /\ rowLock[r] = None
    /\ row' = [row EXCEPT ![s] = r]
    /\ UNCHANGED hash

Locks(s, r) == rowLock' = [rowLock EXCEPT ![r] = s]

\* ... or with a row of its own, invisible to the others but in their way.
Inserts(s) ==
    /\ pc[s] = "upsert" /\ GoTo(s, "record")
    /\ hash' = [hash EXCEPT ![s] = call[s].ident]
    /\ row' = [row EXCEPT ![s] = s]
    /\ Locks(s, s)

\* A mutant: DO NOTHING and a plain read, which take no row lock.
UpsertUnlocked(s) ==
    /\ \/ \E r \in Submits : Finds(s, r) /\ UNCHANGED rowLock
       \/ (\A r \in Submits : hash[r] # call[s].ident) /\ Inserts(s)
    /\ UpsertFrame /\ UNCHANGED auditLock

\* A mutant: a new subject's consent row is locked ahead, in place of its own.
UpsertLocksConsent(s) ==
    /\ \/ \E r \in Submits : Finds(s, r) /\ UNCHANGED <<rowLock, currentLock>>
       \/ /\ \A r \in Submits : hash[r] # call[s].ident
          /\ pc[s] = "upsert" /\ GoTo(s, "record")
          /\ hash' = [hash EXCEPT ![s] = call[s].ident]
          /\ row' = [row EXCEPT ![s] = s]
          /\ currentLock' = [currentLock EXCEPT ![s] = s]
          /\ UNCHANGED rowLock
    /\ UNCHANGED <<call, began, dek, stored, log, current, keyHolder,
                   auditLock, requests, worker, fails>>

\* INSERT ... ON CONFLICT DO UPDATE: an existing row with this hash is locked
\* (waiting for its holder first); with none, the call inserts its own row.
UpsertSubject(s) ==
    /\ \/ \E r \in Submits : Finds(s, r) /\ Locks(s, r)
       \/ (\A r \in Submits : hash[r] # call[s].ident) /\ Inserts(s)
    /\ UpsertFrame /\ UNCHANGED auditLock

\* The subject's data key is refused once the subject is erased.
KeyRefused(s) == call[s].sensitive /\ hash[row[s]] = Gone

\* DataKey, InsertSubmission and consent.Record: the upsert of the current
\* consent takes that row's lock.  Without a grant Record writes nothing.
Record(s) ==
    /\ pc[s] = "record"
    /\ ~KeyRefused(s)
    /\ IF call[s].grant = "silent"
       THEN UNCHANGED currentLock
       ELSE /\ currentLock[row[s]] = None
            /\ currentLock' = [currentLock EXCEPT ![row[s]] = s]
    /\ GoTo(s, "audit")
    /\ UNCHANGED <<call, began, row, tables, keyHolder, rowLock, auditLock,
                   requests, worker, fails>>

\* audit.Write: the advisory lock is held until the transaction ends.
WriteAudit(s) ==
    /\ pc[s] = "audit"
    /\ auditLock = None
    /\ auditLock' = s
    /\ GoTo(s, "commit")
    /\ UNCHANGED <<call, began, row, tables, keyHolder, rowLock, currentLock,
                   requests, worker, fails>>

\* A mutant: ON CONFLICT DO NOTHING on current_consents.
RefreshedOnce(s) ==
    IF call[s].grant = "silent" \/ current[row[s]].last # 0 THEN current
    ELSE [current EXCEPT ![row[s]] =
             [granted |-> call[s].grant = "granted", last |-> Len(log) + 1]]

\* What consent.Record appended, and the current row it left.
NewRecords(s) ==
    IF call[s].grant = "silent" THEN <<>>
    ELSE <<[by |-> s, row |-> row[s], granted |-> call[s].grant = "granted"]>>

Refreshed(s) ==
    IF call[s].grant = "silent" THEN current
    ELSE [current EXCEPT ![row[s]] =
             [granted |-> call[s].grant = "granted", last |-> Len(log) + 1]]

\* The outbox row, completeIdempotency and COMMIT.
Commit(s) ==
    /\ pc[s] = "commit"
    /\ stored' = stored \cup {s}
    /\ dek' = [dek EXCEPT ![row[s]] = @ \/ call[s].sensitive]
    /\ log' = log \o NewRecords(s)
    /\ current' = Refreshed(s)
    /\ rowLock' = Released(rowLock, s)
    /\ currentLock' = Released(currentLock, s)
    /\ auditLock' = None
    /\ GoTo(s, "done")
    /\ UNCHANGED <<call, began, row, hash, keyHolder, requests, worker, fails>>

InFlight(s) == pc[s] \in {"reserve", "upsert", "record", "audit", "commit"}

\* ROLLBACK: an inserted subject row and a reserved key disappear.
Rollback(s) ==
    /\ hash' = [hash EXCEPT ![s] = IF row[s] = s THEN Free ELSE @]
    /\ keyHolder' = Released(keyHolder, s)
    /\ rowLock' = Released(rowLock, s)
    /\ currentLock' = Released(currentLock, s)
    /\ auditLock' = IF auditLock = s THEN None ELSE auditLock
    /\ row' = [row EXCEPT ![s] = None]
    /\ GoTo(s, "failed")
    /\ UNCHANGED <<call, began, dek, stored, log, current, requests, worker, fails>>

\* Any statement may fail (the client goes away, the database refuses), and
\* DataKey answers ErrSubjectErased.
Fail(s) == InFlight(s) /\ Rollback(s)

-----------------------------------------------------------------------------
(* Service.Raise: the portal of a known subject queues a request.          *)

Raise(r, type) ==
    /\ Len(requests) < MaxRequests
    /\ hash[r] # Free /\ rowLock[r] = None /\ auditLock = None
    /\ requests' = Append(requests, [type |-> type, row |-> r, status |-> "verified"])
    /\ UNCHANGED <<pc, call, began, row, tables, locks, worker, fails>>

-----------------------------------------------------------------------------
(* Processor.Tick: one transaction for the whole batch.                    *)

Pending == {q \in 1..Len(requests) : requests[q].status = "verified"}

\* The Batch oldest pending requests: ORDER BY due_at LIMIT Batch.
Oldest == {q \in Pending : Cardinality({p \in Pending : p < q}) < Batch}

ClaimPending ==
    /\ worker.step = "idle"
    /\ worker' = [IdleWorker EXCEPT !.step = "next", !.todo = Oldest]
    /\ UNCHANGED <<pc, call, began, row, tables, locks, requests, fails>>

\* The request the pass is at, of the given type.
Handling(q, step, types) ==
    /\ worker.step = step
    /\ q \in worker.todo /\ \A p \in worker.todo : q <= p
    /\ requests[q].type \in types

\* erase_subject, first statement.  DELETE sees the submissions committed when
\* it starts, and not those of a transaction still in flight.
EraseDelete(q) ==
    /\ Handling(q, "next", {"erase"})
    /\ worker' = [worker EXCEPT !.step = "erase-row",
         !.deleted = @ \cup {s \in stored : row[s] = requests[q].row}]
    /\ UNCHANGED <<pc, call, began, row, tables, locks, requests, fails>>

\* erase_subject, second statement: UPDATE waits for the subject's row lock.
EraseRow(q) ==
    LET r == requests[q].row IN
    /\ Handling(q, "erase-row", {"erase"})
    /\ rowLock[r] \in {None, Worker}
    /\ rowLock' = [rowLock EXCEPT ![r] = Worker]
    /\ worker' = [worker EXCEPT !.step = "audit", !.erased = @ \cup {r}]
    /\ UNCHANGED <<pc, call, began, row, tables, keyHolder, currentLock,
                   auditLock, requests, fails>>

\* UPDATE current_consents: only the rows committed by now, each one locked.
\* Nothing is appended to consent.records.
Withdraw(q) ==
    LET r == requests[q].row IN
    /\ Handling(q, "next", {"withdraw"})
    /\ IF current[r].last = 0
       THEN /\ worker' = [worker EXCEPT !.step = "audit"]
            /\ UNCHANGED currentLock
       ELSE /\ currentLock[r] \in {None, Worker}
            /\ currentLock' = [currentLock EXCEPT ![r] = Worker]
            /\ worker' = [worker EXCEPT !.step = "audit", !.withdrawn = @ \cup {r}]
    /\ UNCHANGED <<pc, call, began, row, tables, keyHolder, rowLock,
                   auditLock, requests, fails>>

\* Access and export requests change nothing.
Answer(q) ==
    /\ Handling(q, "next", {"access", "export"})
    /\ worker' = [worker EXCEPT !.step = "audit"]
    /\ UNCHANGED <<pc, call, began, row, tables, locks, requests, fails>>

\* A request that needs a person is left as it is.
LeaveToPerson(q) ==
    /\ Handling(q, "next", Types \ AutoTypes)
    /\ worker' = [worker EXCEPT !.todo = @ \ {q}]
    /\ UNCHANGED <<pc, call, began, row, tables, locks, requests, fails>>

\* MarkFulfilled and audit.Write: the pass keeps the audit lock from its first
\* fulfilled request to its commit.
MarkFulfilled(q) ==
    /\ Handling(q, "audit", AutoTypes)
    /\ auditLock \in {None, Worker}
    /\ auditLock' = Worker
    /\ worker' = [worker EXCEPT !.step = "next", !.todo = @ \ {q}, !.done = @ \cup {q}]
    /\ UNCHANGED <<pc, call, began, row, tables, keyHolder, rowLock,
                   currentLock, requests, fails>>

\* The end of the worker's transaction, committed or not.
ReleaseWorker ==
    /\ rowLock' = Released(rowLock, Worker)
    /\ currentLock' = Released(currentLock, Worker)
    /\ auditLock' = IF auditLock = Worker THEN None ELSE auditLock
    /\ worker' = IdleWorker
    /\ UNCHANGED <<pc, call, began, row, log, keyHolder>>

TickCommit ==
    /\ worker.step = "next" /\ worker.todo = {}
    /\ stored' = stored \ worker.deleted
    /\ hash' = [r \in Submits |-> IF r \in worker.erased THEN Gone ELSE hash[r]]
    /\ dek' = [r \in Submits |-> dek[r] /\ r \notin worker.erased]
    /\ current' = [r \in Submits |->
         IF r \in worker.withdrawn THEN [current[r] EXCEPT !.granted = FALSE]
                                   ELSE current[r]]
    /\ requests' = [q \in 1..Len(requests) |->
         IF q \in worker.done THEN [requests[q] EXCEPT !.status = "fulfilled"]
                              ELSE requests[q]]
    /\ ReleaseWorker
    /\ UNCHANGED fails

\* A mutant: the claim is committed ahead of the work, so a failure loses it.
TickFailClaimed ==
    /\ worker.step # "idle" /\ fails < MaxFails
    /\ fails' = fails + 1
    /\ ReleaseWorker
    /\ requests' = [q \in 1..Len(requests) |->
         IF q \in worker.todo THEN [requests[q] EXCEPT !.status = "in_progress"]
                              ELSE requests[q]]
    /\ UNCHANGED <<hash, dek, stored, current>>

\* A failing request, a lost connection or a stopped worker: the whole batch
\* rolls back and a later pass claims it again.
TickFail ==
    /\ worker.step # "idle" /\ fails < MaxFails
    /\ fails' = fails + 1
    /\ ReleaseWorker
    /\ UNCHANGED <<hash, dek, stored, current, requests>>

-----------------------------------------------------------------------------
(* Who waits for whom, and the database's deadlock detector.               *)

LockHolders(s) ==
    CASE pc[s] = "reserve" /\ call[s].key \in Keys -> {keyHolder[call[s].key]}
      [] pc[s] = "upsert" -> {rowLock[r] : r \in {x \in Submits : hash[x] = call[s].ident}}
      [] pc[s] = "record" /\ call[s].grant # "silent" -> {currentLock[row[s]]}
      [] pc[s] = "audit" -> {auditLock}
      [] OTHER -> {}

WorkerHolders ==
    UNION {CASE Handling(q, "erase-row", {"erase"}) -> {rowLock[requests[q].row]}
             [] Handling(q, "next", {"withdraw"}) /\ current[requests[q].row].last # 0
                  -> {currentLock[requests[q].row]}
             [] Handling(q, "audit", AutoTypes) -> {auditLock}
             [] OTHER -> {} : q \in worker.todo}

\* The transactions in flight that p has to outwait before its next statement.
WaitsFor(p) ==
    (IF p = Worker THEN WorkerHolders ELSE LockHolders(p))
        \cap (({s \in Submits : InFlight(s)} \cup {Worker}) \ {p})

\* A set of transactions that wait for each other in a circle.
Circle(C) ==
    /\ C # {}
    /\ \A p \in C : WaitsFor(p) # {} /\ WaitsFor(p) \subseteq C
    /\ \A p \in C : \E q \in C : p \in WaitsFor(q)

\* The detector aborts one transaction of a circle.
DeadlockVictim ==
    \E C \in SUBSET Procs :
        /\ Circle(C)
        /\ \/ \E s \in C \cap Submits : Rollback(s)
           \/ /\ Worker \in C
              /\ ReleaseWorker
              /\ UNCHANGED <<hash, dek, stored, current, requests, fails>>

-----------------------------------------------------------------------------
Step(s) ==
    \/ Begin(s) \/ ReserveIdempotency(s) \/ UpsertSubject(s)
    \/ Record(s) \/ WriteAudit(s) \/ Commit(s)

TickStep ==
    \/ ClaimPending
    \/ \E q \in 1..MaxRequests :
          \/ EraseDelete(q) \/ EraseRow(q) \/ Withdraw(q) \/ Answer(q)
          \/ LeaveToPerson(q) \/ MarkFulfilled(q)
    \/ TickCommit

Next ==
    \/ \E s \in Submits : Step(s) \/ Fail(s)
    \/ \E r \in Submits, type \in Types : Raise(r, type)
    \/ TickStep
    \/ TickFail
    \/ DeadlockVictim

Spec == Init /\ [][Next]_vars

\* The server runs every request to its end, the worker ticks for ever, and
\* the database resolves a deadlock.  A statement waiting for a lock is queued
\* and served when the lock is released, before a transaction that comes later:
\* that is the strong fairness of a call.  Nobody owes a call, a request or a
\* failure.
Fairness ==
    /\ \A s \in Submits : SF_vars(pc[s] # "new" /\ Step(s))
    /\ WF_vars(TickStep)
    /\ WF_vars(DeadlockVictim)

FairSpec == Spec /\ Fairness

-----------------------------------------------------------------------------
(* What should hold.                                                       *)

\* Every variable keeps its type.
TypeOK ==
    /\ pc \in [Submits -> {"new", "reserve", "upsert", "record", "audit",
                           "commit", "done", "duplicate", "failed"}]
    /\ call \in [Submits -> Calls]
    /\ began \in Seq(Submits)
    /\ row \in [Submits -> Submits \cup {None}]
    /\ hash \in [Submits -> Idents \cup {Free, Gone}]
    /\ dek \in [Submits -> BOOLEAN]
    /\ stored \subseteq Submits
    /\ log \in Seq([by : Submits, row : Submits \cup {None}, granted : BOOLEAN])
    /\ current \in [Submits -> [granted : BOOLEAN, last : Nat]]
    /\ keyHolder \in [Keys -> Submits \cup {None}]
    /\ rowLock \in [Submits -> Procs \cup {None}]
    /\ currentLock \in [Submits -> Procs \cup {None}]
    /\ auditLock \in Procs \cup {None}
    /\ requests \in Seq([type : Types, row : Submits, status : {"verified", "fulfilled"}])
    /\ worker \in [step : {"idle", "next", "erase-row", "audit"},
                   todo : SUBSET Nat, deleted : SUBSET Submits,
                   erased : SUBSET Submits, withdrawn : SUBSET Submits,
                   done : SUBSET Nat]
    /\ worker.todo \subseteq 1..Len(requests)
    /\ fails \in Nat

\* Once a subject is erased nothing brings them back: the row keeps neither
\* identifier nor data key, and no later commit stores a submission under it
\* (UpsertSubject's row lock against erase_subject's UPDATE).
ErasedStaysErased ==
    [][\A r \in Submits : hash[r] = Gone =>
          /\ hash'[r] = Gone /\ ~dek'[r]
          /\ \A s \in stored' \ stored : row[s] # r]_vars

\* A double-tapped submit button stores one submission: two committed calls
\* never carry the same key (reserveIdempotency).
OneSubmissionPerKey ==
    \A s, t \in Submits :
        pc[s] = "done" /\ pc[t] = "done" /\ call[s].key = call[t].key
            => s = t \/ call[s].key = NoKey

\* One person is one subject row, committed or about to be: otherwise an
\* erasure reaches half of what is held about them.
OneSubjectPerIdent ==
    \A r1, r2 \in Submits : hash[r1] = hash[r2] /\ hash[r1] \in Idents => r1 = r2

Withdrawn(r) ==
    \E q \in 1..Len(requests) : requests[q] =
        [type |-> "withdraw", row |-> r, status |-> "fulfilled"]

\* current_consents is the last record appended for the subject (Record writes
\* both, and the subject's row lock keeps two calls from crossing), except that
\* the worker's withdrawals take a grant back without appending a record.
CurrentFollowsLog ==
    \A r \in Submits :
        LET of == {i \in 1..Len(log) : log[i].row = r} IN
        /\ of = {} <=> current[r].last = 0
        /\ of # {} =>
             /\ current[r].last \in of
             /\ \A i \in of : i <= current[r].last
             /\ \/ current[r].granted = log[current[r].last].granted
                \/ ~current[r].granted /\ Withdrawn(r)

Stage == [reserve |-> 1, upsert |-> 2, record |-> 3, audit |-> 4, commit |-> 5]

\* Two submissions never deadlock each other: a call only ever waits for a
\* call that is further along (key, subject row, current consent, audit lock).
WaitsGoForward ==
    \A s, t \in Submits : t \in WaitsFor(s) => Stage[pc[s]] < Stage[pc[t]]

\* A queued erasure is carried out, across failed passes and deadlocks.
EraseIsDone ==
    \A q \in 1..MaxRequests :
        (q \in Pending /\ requests[q].type = "erase")
            ~> (q \in 1..Len(requests) /\ requests[q].status = "fulfilled")

\* Does not hold, see the README: an erased subject has no submission left (the
\* documentation's hard delete).
ErasureLeavesNothing == \A s \in stored : hash[row[s]] # Gone

BeganAt(s) == CHOOSE i \in 1..Len(began) : began[i] = s

\* Does not hold, see the README: current_consents is the latest state by
\* occurred_at, the order in which consent.records is indexed and read.
CurrentIsLatest ==
    \A r \in Submits : \A i \in 1..Len(log) :
        log[i].row = r => BeganAt(log[i].by) <= BeganAt(log[current[r].last].by)
=============================================================================
