----------------------- MODULE SubjectLifecycleProofs -----------------------
(***************************************************************************)
(* Proofs about SubjectLifecycle, for any number of calls, people, keys    *)
(* and requests.                                                           *)
(***************************************************************************)
EXTENDS SubjectLifecycle, SequenceTheorems, TLAPS

InTx == {"record", "audit", "commit"}

\* A call that got past the reservation owns the key it carries.
KeyOwned ==
    \A s \in Submits :
        /\ pc[s] \in {"upsert", "record", "audit", "commit", "done"}
        /\ call[s].key \in Keys
        => keyHolder[call[s].key] = s

\* A call that has not resolved its subject inserted no row; one that has
\* holds the lock of a row that is inserted and not erased.
RowHeld ==
    \A s \in Submits :
        /\ pc[s] \in {"new", "reserve", "upsert"} => row[s] = None /\ hash[s] = Free
        /\ pc[s] \in InTx =>
              /\ row[s] \in Submits
              /\ rowLock[row[s]] = s
              /\ hash[row[s]] \notin {Free, Gone}

\* The worker holds the lock of every row it is about to erase.
ErasedHeld ==
    \A r \in worker.erased : rowLock[r] = Worker /\ hash[r] # Free

\* Requests name rows that are committed.
RequestsNameRows ==
    \A q \in 1..Len(requests) :
        /\ hash[requests[q].row] # Free
        /\ \A s \in Submits : pc[s] \in InTx /\ row[s] = s => requests[q].row # s

\* An erased row has no data key.
ErasedKeyless == \A r \in Submits : hash[r] = Gone => ~dek[r]

\* A lock's holder is at the statements that follow its acquisition.
HolderStages ==
    /\ \A k \in Keys, t \in Submits :
          keyHolder[k] = t => pc[t] \in {"upsert", "record", "audit", "commit", "done"}
    /\ \A r, t \in Submits : rowLock[r] = t => pc[t] \in InTx
    /\ \A r, t \in Submits : currentLock[r] = t => pc[t] \in {"audit", "commit"}
    /\ \A t \in Submits : auditLock = t => pc[t] = "commit"

\* The inductive invariant.
IInv == TypeOK /\ OneSubjectPerIdent /\ KeyOwned /\ RowHeld /\ ErasedHeld
               /\ RequestsNameRows /\ ErasedKeyless /\ HolderStages

-----------------------------------------------------------------------------
USE SubmitsAssumption, IdentsAssumption, KeysAssumption, CallsAssumption

\* Releasing p's locks leaves a lock table of the same type.
LEMMA ReleasedType ==
    ASSUME NEW S, NEW lock \in [S -> Procs \cup {None}], NEW p
    PROVE  Released(lock, p) \in [S -> Procs \cup {None}]
BY DEF Released

\* A key released by the end of a call leaves a table of holders.
LEMMA ReleasedKeyType ==
    ASSUME NEW lock \in [Keys -> Submits \cup {None}], NEW p
    PROVE  Released(lock, p) \in [Keys -> Submits \cup {None}]
BY DEF Released

\* An update of one entry keeps a function's type.
LEMMA ExceptType ==
    ASSUME NEW A, NEW B, NEW f \in [A -> B], NEW x, NEW v \in B
    PROVE  [f EXCEPT ![x] = v] \in [A -> B]
OBVIOUS

\* Where a call may go.
Labels == {"new", "reserve", "upsert", "record", "audit", "commit", "done",
           "duplicate", "failed"}

\* A call that goes to a stage of the program keeps the type of pc.
LEMMA GoToType ==
    ASSUME pc \in [Submits -> Labels], NEW s \in Submits, NEW l \in Labels, GoTo(s, l)
    PROVE  pc' \in [Submits -> Labels]
BY DEF GoTo

Record3 == [by : Submits, row : Submits \cup {None}, granted : BOOLEAN]
RequestSet == [type : Types, row : Submits, status : {"verified", "fulfilled"}]
WorkerSet == [step : {"idle", "next", "erase-row", "audit"},
              todo : SUBSET Nat, deleted : SUBSET Submits,
              erased : SUBSET Submits, withdrawn : SUBSET Submits,
              done : SUBSET Nat]

\* The request at hand is one of the table's.
LEMMA HandledRequest ==
    ASSUME TypeOK, NEW q, NEW step, NEW types, Handling(q, step, types)
    PROVE  q \in 1..Len(requests) /\ requests[q].row \in Submits
<1>1. q \in 1..Len(requests)
  BY DEF TypeOK, Handling
<1>2. requests[q] \in RequestSet
  BY <1>1, ElementOfSeq DEF TypeOK, RequestSet
<1> QED BY <1>1, <1>2 DEF RequestSet

\* The worker's transaction keeps its type through the batch.
LEMMA TickType ==
    ASSUME TypeOK, NEW q \in 1..MaxRequests,
           \/ EraseDelete(q) \/ EraseRow(q) \/ Withdraw(q) \/ Answer(q)
           \/ LeaveToPerson(q) \/ MarkFulfilled(q)
    PROVE  TypeOK'
<1>1. ASSUME EraseDelete(q) PROVE TypeOK'
  <2>1. worker' \in WorkerSet /\ worker'.todo = worker.todo
    BY <1>1 DEF EraseDelete, TypeOK, WorkerSet
  <2> QED BY <1>1, <2>1 DEF EraseDelete, TypeOK, WorkerSet, tables, locks
<1>2. ASSUME EraseRow(q) PROVE TypeOK'
  <2>0. requests[q].row \in Submits
    BY <1>2, HandledRequest DEF EraseRow
  <2>1. worker' \in WorkerSet /\ worker'.todo = worker.todo
    BY <1>2, <2>0 DEF EraseRow, TypeOK, WorkerSet
  <2>2. rowLock' \in [Submits -> Procs \cup {None}]
    BY <1>2, ExceptType DEF EraseRow, TypeOK, Procs
  <2> QED BY <1>2, <2>1, <2>2 DEF EraseRow, TypeOK, WorkerSet, tables, locks
<1>3. ASSUME Withdraw(q) PROVE TypeOK'
  <2>0. requests[q].row \in Submits
    BY <1>3, HandledRequest DEF Withdraw
  <2>1. worker' \in WorkerSet /\ worker'.todo = worker.todo
    <3>1. \/ worker' = [worker EXCEPT !.step = "audit"]
          \/ worker' = [worker EXCEPT !.step = "audit", !.withdrawn = @ \cup {requests[q].row}]
      BY <1>3 DEF Withdraw
    <3>2. CASE worker' = [worker EXCEPT !.step = "audit"]
      BY <3>2 DEF TypeOK, WorkerSet
    <3>3. CASE worker' = [worker EXCEPT !.step = "audit", !.withdrawn = @ \cup {requests[q].row}]
      BY <2>0, <3>3 DEF TypeOK, WorkerSet
    <3> QED BY <3>1, <3>2, <3>3
  <2>2. currentLock' \in [Submits -> Procs \cup {None}]
    BY <1>3, ExceptType DEF Withdraw, TypeOK, Procs
  <2> QED BY <1>3, <2>1, <2>2 DEF Withdraw, TypeOK, WorkerSet, tables, locks
<1>4. ASSUME Answer(q) PROVE TypeOK'
  BY <1>4 DEF Answer, TypeOK, tables, locks
<1>5. ASSUME LeaveToPerson(q) PROVE TypeOK'
  BY <1>5 DEF LeaveToPerson, TypeOK, tables, locks
<1>6. ASSUME MarkFulfilled(q) PROVE TypeOK'
  <2>0. q \in Nat
    OBVIOUS
  <2>1. worker' \in WorkerSet /\ worker'.todo \subseteq worker.todo
    BY <1>6, <2>0 DEF MarkFulfilled, TypeOK, WorkerSet
  <2> QED BY <1>6, <2>1 DEF MarkFulfilled, TypeOK, WorkerSet, Procs, tables
<1> QED BY <1>1, <1>2, <1>3, <1>4, <1>5, <1>6

\* The initial state is typed.
LEMMA TypeInit == Init => TypeOK
BY DEF Init, TypeOK, IdleWorker, Procs

\* Every step of a call, the portal, the worker or the detector keeps the types.
LEMMA TypeStep == TypeOK /\ [Next]_vars => TypeOK'
<1> USE DEF Labels
<1> SUFFICES ASSUME TypeOK, [Next]_vars PROVE TypeOK'
  OBVIOUS
<1>1. ASSUME NEW s \in Submits, Begin(s) PROVE TypeOK'
  BY <1>1 DEF TypeOK, Begin, GoTo, tables, locks
<1>2. ASSUME NEW s \in Submits, ReserveIdempotency(s) PROVE TypeOK'
  <2>1. keyHolder' \in [Keys -> Submits \cup {None}]
    <3>1. keyHolder' = keyHolder \/ keyHolder' = [keyHolder EXCEPT ![call[s].key] = s]
      BY <1>2 DEF ReserveIdempotency
    <3> QED BY <3>1, ExceptType DEF TypeOK
  <2>2. pc' \in [Submits -> Labels]
    <3>1. pc' = [pc EXCEPT ![s] = "upsert"] \/ pc' = [pc EXCEPT ![s] = "duplicate"]
      BY <1>2 DEF ReserveIdempotency, GoTo
    <3> QED BY <3>1, ExceptType DEF TypeOK
  <2> QED BY <1>2, <2>1, <2>2 DEF TypeOK, ReserveIdempotency, tables
<1>3. ASSUME NEW s \in Submits, UpsertSubject(s) PROVE TypeOK'
  <2>1. call[s].ident \in Idents
    BY DEF TypeOK, CallSet
  <2>2. pc' \in [Submits -> Labels]
    BY <1>3, GoToType DEF TypeOK, UpsertSubject, Finds, Inserts
  <2>3. row' \in [Submits -> Submits \cup {None}]
    <3>1. \E r \in Submits : row' = [row EXCEPT ![s] = r]
      BY <1>3 DEF UpsertSubject, Finds, Inserts
    <3> QED BY <3>1 DEF TypeOK
  <2>4. hash' \in [Submits -> Idents \cup {Free, Gone}]
    <3>1. hash' = hash \/ hash' = [hash EXCEPT ![s] = call[s].ident]
      BY <1>3 DEF UpsertSubject, Finds, Inserts
    <3> QED BY <2>1, <3>1 DEF TypeOK
  <2>5. rowLock' \in [Submits -> Procs \cup {None}]
    <3>1. \E r \in Submits : rowLock' = [rowLock EXCEPT ![r] = s]
      BY <1>3 DEF UpsertSubject, Inserts, Locks
    <3> QED BY <3>1, ExceptType DEF TypeOK, Procs
  <2> QED BY <1>3, <2>2, <2>3, <2>4, <2>5 DEF TypeOK, UpsertSubject, UpsertFrame
<1>4. ASSUME NEW s \in Submits, Record(s) PROVE TypeOK'
  <2>1. currentLock' = currentLock \/ currentLock' = [currentLock EXCEPT ![row[s]] = s]
    BY <1>4 DEF Record
  <2>2. currentLock' \in [Submits -> Procs \cup {None}]
    BY <2>1, ExceptType DEF TypeOK, Procs
  <2>3. pc' \in [Submits -> Labels]
    BY <1>4, GoToType DEF TypeOK, Record
  <2> QED BY <1>4, <2>2, <2>3 DEF TypeOK, Record, tables
<1>5. ASSUME NEW s \in Submits, WriteAudit(s) PROVE TypeOK'
  BY <1>5 DEF TypeOK, WriteAudit, GoTo, tables, Procs
<1>6. ASSUME NEW s \in Submits, Commit(s) PROVE TypeOK'
  <2>1. pc' \in [Submits -> Labels]
    BY <1>6, GoToType DEF TypeOK, Commit
  <2>2. dek' \in [Submits -> BOOLEAN]
    BY <1>6 DEF TypeOK, Commit
  <2>3. NewRecords(s) \in Seq(Record3)
    <3>1. CASE call[s].grant = "silent"
      BY <3>1, EmptySeq DEF NewRecords
    <3>2. CASE call[s].grant # "silent"
      <4>1. [by |-> s, row |-> row[s], granted |-> call[s].grant = "granted"] \in Record3
        BY DEF TypeOK, Record3
      <4> QED BY <3>2, <4>1 DEF NewRecords
    <3> QED BY <3>1, <3>2
  <2>4. log' \in Seq(Record3)
    BY <1>6, <2>3, ConcatProperties DEF TypeOK, Record3, Commit
  <2>5. current' \in [Submits -> [granted : BOOLEAN, last : Nat]]
    <3>1. Len(log) + 1 \in Nat
      BY LenProperties DEF TypeOK
    <3>2. [granted |-> call[s].grant = "granted", last |-> Len(log) + 1]
             \in [granted : BOOLEAN, last : Nat]
      BY <3>1
    <3>3. Refreshed(s) \in [Submits -> [granted : BOOLEAN, last : Nat]]
      BY <3>2, ExceptType DEF TypeOK, Refreshed
    <3> QED BY <1>6, <3>3 DEF Commit
  <2>6. /\ rowLock' \in [Submits -> Procs \cup {None}]
        /\ currentLock' \in [Submits -> Procs \cup {None}]
    BY <1>6, ReleasedType DEF TypeOK, Commit
  <2> QED BY <1>6, <2>1, <2>2, <2>4, <2>5, <2>6 DEF TypeOK, Commit, Record3
<1>7. ASSUME NEW s \in Submits, Rollback(s) PROVE TypeOK'
  BY <1>7, ReleasedType, ReleasedKeyType DEF TypeOK, Rollback, GoTo
<1>8. ASSUME NEW r \in Submits, NEW type \in Types, Raise(r, type) PROVE TypeOK'
  <2>1. [type |-> type, row |-> r, status |-> "verified"] \in RequestSet
    BY DEF RequestSet
  <2>2. requests' \in Seq(RequestSet) /\ Len(requests') = Len(requests) + 1
          /\ Len(requests) \in Nat
    BY <1>8, <2>1, AppendProperties, LenProperties DEF TypeOK, Raise, RequestSet
  <2>3. worker.todo \subseteq 1..Len(requests')
    BY <2>2 DEF TypeOK
  <2> QED BY <1>8, <2>2, <2>3 DEF TypeOK, Raise, RequestSet, tables, locks
<1>9. ASSUME ClaimPending PROVE TypeOK'
  <2>1. Oldest \subseteq Nat
    BY DEF TypeOK, Oldest, Pending
  <2>2. worker' \in WorkerSet
    BY <1>9, <2>1 DEF ClaimPending, IdleWorker, WorkerSet
  <2>3. worker'.todo \subseteq 1..Len(requests)
    BY <1>9 DEF ClaimPending, IdleWorker, Oldest, Pending
  <2> QED BY <1>9, <2>2, <2>3 DEF TypeOK, ClaimPending, WorkerSet, tables, locks
<1>10. ASSUME ReleaseWorker PROVE
          /\ rowLock' \in [Submits -> Procs \cup {None}]
          /\ currentLock' \in [Submits -> Procs \cup {None}]
          /\ auditLock' \in Procs \cup {None}
          /\ worker' \in WorkerSet /\ worker'.todo = {}
  BY <1>10, ReleasedType DEF TypeOK, ReleaseWorker, IdleWorker, WorkerSet
<1>11. ASSUME TickCommit PROVE TypeOK'
  <2>1. requests' \in Seq(RequestSet)
    <3>1. Len(requests) \in Nat
      BY LenProperties DEF TypeOK
    <3>2. \A q \in 1..Len(requests) : requests[q] \in RequestSet
      BY ElementOfSeq DEF TypeOK, RequestSet
    <3>3. \A q \in 1..Len(requests) :
             [requests[q] EXCEPT !.status = "fulfilled"] \in RequestSet
      BY <3>2 DEF RequestSet
    <3>4. requests' \in [1..Len(requests) -> RequestSet]
      BY <1>11, <3>2, <3>3 DEF TickCommit
    <3> QED BY <3>1, <3>4, SeqDef
  <2>2. /\ hash' \in [Submits -> Idents \cup {Free, Gone}]
        /\ dek' \in [Submits -> BOOLEAN]
        /\ stored' \subseteq Submits
    BY <1>11 DEF TickCommit, TypeOK
  <2>3. current' \in [Submits -> [granted : BOOLEAN, last : Nat]]
    <3>1. \A r \in Submits : [current[r] EXCEPT !.granted = FALSE]
                               \in [granted : BOOLEAN, last : Nat]
      <4>1. \A c \in [granted : BOOLEAN, last : Nat] :
               [c EXCEPT !.granted = FALSE] \in [granted : BOOLEAN, last : Nat]
        OBVIOUS
      <4> QED BY <4>1 DEF TypeOK
    <3>2. current' = [r \in Submits |->
             IF r \in worker.withdrawn THEN [current[r] EXCEPT !.granted = FALSE]
                                       ELSE current[r]]
      BY <1>11 DEF TickCommit
    <3>3. \A r \in Submits : current[r] \in [granted : BOOLEAN, last : Nat]
      BY DEF TypeOK
    <3> QED BY <3>1, <3>2, <3>3
  <2>4. worker'.todo = {}
    BY <1>11 DEF TickCommit, ReleaseWorker, IdleWorker
  <2> QED BY <1>10, <1>11, <2>1, <2>2, <2>3, <2>4
      DEF TypeOK, TickCommit, ReleaseWorker, RequestSet, WorkerSet
<1>12. ASSUME TickFail PROVE TypeOK'
  BY <1>10, <1>12 DEF TypeOK, TickFail, ReleaseWorker, WorkerSet
<1>13. ASSUME ReleaseWorker, UNCHANGED <<hash, dek, stored, current, requests, fails>>
       PROVE TypeOK'
  BY <1>10, <1>13 DEF TypeOK, ReleaseWorker, WorkerSet
<1>14. CASE UNCHANGED vars
  BY <1>14 DEF TypeOK, vars
<1> QED
  BY <1>1, <1>2, <1>3, <1>4, <1>5, <1>6, <1>7, <1>8, <1>9, <1>11, <1>12, <1>13, <1>14, TickType
  DEF Next, Step, Fail, TickStep, DeadlockVictim

\* Every variable keeps its type, whatever the calls, the worker and the
\* deadlock detector do.
THEOREM TypeCorrect == Spec => []TypeOK
BY TypeInit, TypeStep, PTL DEF Spec

-----------------------------------------------------------------------------
\* A call that waits, and so a deadlock's victim, is in flight.
LEMMA VictimInFlight ==
    ASSUME NEW s \in Submits, WaitsFor(s) # {}
    PROVE  InFlight(s)
<1>1. LockHolders(s) # {}
  BY DEF WaitsFor
<1> QED BY <1>1 DEF LockHolders, InFlight

\* The row of a pending request is a submission's.
LEMMA RequestRow ==
    ASSUME TypeOK
    PROVE  \A q \in 1..Len(requests) : requests[q].row \in Submits
<1>1. \A q \in 1..Len(requests) : requests[q] \in RequestSet
  BY ElementOfSeq DEF TypeOK, RequestSet
<1> QED BY <1>1 DEF RequestSet

\* The parts of the invariant that the steps of a call can disturb.
LEMMA BeginInv ==
    ASSUME IInv, TypeOK', NEW s \in Submits, Begin(s)
    PROVE  IInv'
BY DEF IInv, TypeOK, OneSubjectPerIdent, KeyOwned, RowHeld, ErasedHeld,
       RequestsNameRows, ErasedKeyless, HolderStages, InTx, Begin, GoTo, tables, locks

\* Taking a key needs a key that nobody in flight or committed holds.
LEMMA ReserveInv ==
    ASSUME IInv, TypeOK', NEW s \in Submits, ReserveIdempotency(s)
    PROVE  IInv'
<1> USE DEF IInv
<1>0. /\ pc[s] = "reserve" /\ \E l \in {"upsert", "duplicate"} : pc' = [pc EXCEPT ![s] = l]
      /\ UNCHANGED <<call, row, tables, rowLock, currentLock, auditLock, requests, worker>>
  BY DEF ReserveIdempotency, GoTo
<1>1. KeyOwned'
  BY DEF TypeOK, KeyOwned, ReserveIdempotency, GoTo
<1>2. HolderStages'
  <2>1. \/ keyHolder' = keyHolder
        \/ keyHolder' = [keyHolder EXCEPT ![call[s].key] = s] /\ pc' = [pc EXCEPT ![s] = "upsert"]
    BY DEF ReserveIdempotency, GoTo
  <2>2. \A k \in Keys, u \in Submits : keyHolder'[k] = u =>
           pc'[u] \in {"upsert", "record", "audit", "commit", "done"}
    <3>1. CASE keyHolder' = keyHolder
      BY <1>0, <3>1 DEF TypeOK, HolderStages
    <3>2. CASE keyHolder' = [keyHolder EXCEPT ![call[s].key] = s] /\ pc' = [pc EXCEPT ![s] = "upsert"]
      BY <1>0, <3>2 DEF TypeOK, HolderStages
    <3> QED BY <2>1, <3>1, <3>2
  <2>3. /\ \A r, u \in Submits : rowLock[r] = u => pc'[u] \in InTx
        /\ \A r, u \in Submits : currentLock[r] = u => pc'[u] \in {"audit", "commit"}
        /\ \A u \in Submits : auditLock = u => pc'[u] = "commit"
    BY <1>0 DEF TypeOK, HolderStages, InTx
  <2> QED BY <1>0, <2>2, <2>3 DEF HolderStages
<1>3. RowHeld' /\ RequestsNameRows'
  BY <1>0 DEF TypeOK, RowHeld, RequestsNameRows, InTx, tables
<1>4. OneSubjectPerIdent' /\ ErasedHeld' /\ ErasedKeyless'
  BY <1>0 DEF OneSubjectPerIdent, ErasedHeld, ErasedKeyless, tables
<1> QED BY <1>1, <1>2, <1>3, <1>4

\* Taking the subject row, new or found, needs the row to be nobody else's.
LEMMA UpsertInv ==
    ASSUME IInv, TypeOK', NEW s \in Submits, UpsertSubject(s)
    PROVE  IInv'
<1> USE DEF IInv
<1>0. /\ pc[s] = "upsert" /\ pc' = [pc EXCEPT ![s] = "record"]
      /\ hash[s] = Free
      /\ call[s].ident \in Idents
  BY DEF UpsertSubject, Finds, Inserts, GoTo, RowHeld, TypeOK, CallSet
<1>1. CASE \E r \in Submits : Finds(s, r) /\ Locks(s, r) /\ UpsertFrame /\ UNCHANGED auditLock
  <2> PICK r \in Submits : /\ Finds(s, r) /\ Locks(s, r) /\ UpsertFrame /\ UNCHANGED auditLock
    BY <1>1
  <2>0. /\ row' = [row EXCEPT ![s] = r] /\ rowLock' = [rowLock EXCEPT ![r] = s]
        /\ rowLock[r] = None /\ hash[r] = call[s].ident /\ r # s
        /\ UNCHANGED <<hash, call, dek, keyHolder, currentLock, auditLock, requests, worker>>
    BY <1>0 DEF Finds, Locks, UpsertFrame
  <2>1. KeyOwned' /\ ErasedKeyless' /\ OneSubjectPerIdent'
    BY <1>0, <2>0 DEF TypeOK, KeyOwned, ErasedKeyless, OneSubjectPerIdent
  <2>2. RowHeld'
    BY <1>0, <2>0 DEF TypeOK, RowHeld, InTx
  <2>3. ErasedHeld'
    <3>1. Worker # None
      BY DEF Worker, None
    <3> QED BY <1>0, <2>0, <3>1 DEF TypeOK, ErasedHeld
  <2>5. RequestsNameRows'
    <3>1. \A q \in 1..Len(requests) : hash'[requests[q].row] # Free /\ requests[q].row # s
      <4>1. \A q \in 1..Len(requests) : requests[q].row \in Submits
                /\ hash[requests[q].row] # Free /\ requests[q].row # s
        BY <1>0, RequestRow DEF RequestsNameRows
      <4>2. \A r2 \in Submits : r2 # s => hash'[r2] = hash[r2]
        BY <2>0 DEF TypeOK
      <4> QED BY <4>1, <4>2
    <3>2. \A q \in 1..Len(requests), u \in Submits :
             u # s /\ pc'[u] \in InTx /\ row'[u] = u => requests[q].row # u
      BY <1>0, <2>0 DEF TypeOK, RequestsNameRows
    <3> QED BY <2>0, <3>1, <3>2 DEF RequestsNameRows
  <2>4. HolderStages'
    BY <1>0, <2>0 DEF TypeOK, HolderStages, InTx
  <2> QED BY <2>1, <2>2, <2>3, <2>4, <2>5
<1>2. CASE /\ \A r \in Submits : hash[r] # call[s].ident
           /\ Inserts(s) /\ UpsertFrame /\ UNCHANGED auditLock
  <2>0. /\ row' = [row EXCEPT ![s] = s] /\ rowLock' = [rowLock EXCEPT ![s] = s]
        /\ hash' = [hash EXCEPT ![s] = call[s].ident]
        /\ UNCHANGED <<call, dek, keyHolder, currentLock, auditLock, requests, worker>>
    BY <1>2 DEF Inserts, Locks, UpsertFrame
  <2>1. KeyOwned' /\ ErasedKeyless' /\ OneSubjectPerIdent'
    BY <1>0, <1>2, <2>0 DEF TypeOK, KeyOwned, ErasedKeyless, OneSubjectPerIdent
  <2>2. RowHeld'
    BY <1>0, <2>0 DEF TypeOK, RowHeld, InTx
  <2>3. ErasedHeld'
    BY <1>0, <2>0 DEF TypeOK, ErasedHeld
  <2>5. RequestsNameRows'
    <3>1. \A q \in 1..Len(requests) : hash'[requests[q].row] # Free /\ requests[q].row # s
      <4>1. \A q \in 1..Len(requests) : requests[q].row \in Submits
                /\ hash[requests[q].row] # Free /\ requests[q].row # s
        BY <1>0, RequestRow DEF RequestsNameRows
      <4>2. \A r2 \in Submits : r2 # s => hash'[r2] = hash[r2]
        BY <2>0 DEF TypeOK
      <4> QED BY <4>1, <4>2
    <3>2. \A q \in 1..Len(requests), u \in Submits :
             u # s /\ pc'[u] \in InTx /\ row'[u] = u => requests[q].row # u
      BY <1>0, <2>0 DEF TypeOK, RequestsNameRows
    <3> QED BY <2>0, <3>1, <3>2 DEF RequestsNameRows
  <2>4. HolderStages'
    BY <1>0, <2>0 DEF TypeOK, HolderStages, InTx
  <2> QED BY <2>1, <2>2, <2>3, <2>4, <2>5
<1> QED BY <1>1, <1>2 DEF UpsertSubject

\* Appending consent records leaves keys, rows and requests alone.
LEMMA RecordInv ==
    ASSUME IInv, TypeOK', NEW s \in Submits, Record(s)
    PROVE  IInv'
<1> USE DEF IInv
<1>0. /\ pc[s] = "record" /\ pc' = [pc EXCEPT ![s] = "audit"]
      /\ UNCHANGED <<call, row, tables, keyHolder, rowLock, auditLock, requests, worker>>
  BY DEF Record, GoTo
<1>1. KeyOwned' /\ RowHeld' /\ RequestsNameRows'
  BY <1>0 DEF TypeOK, KeyOwned, RowHeld, RequestsNameRows, InTx, tables
<1>2. OneSubjectPerIdent' /\ ErasedHeld' /\ ErasedKeyless'
  BY <1>0 DEF OneSubjectPerIdent, ErasedHeld, ErasedKeyless, tables
<1>3. HolderStages'
  <2>1. currentLock' = currentLock \/ currentLock' = [currentLock EXCEPT ![row[s]] = s]
    BY DEF Record
  <2>2. \A r, u \in Submits : currentLock'[r] = u => pc'[u] \in {"audit", "commit"}
    <3>1. CASE currentLock' = currentLock
      BY <1>0, <3>1 DEF TypeOK, HolderStages
    <3>2. CASE currentLock' = [currentLock EXCEPT ![row[s]] = s]
      BY <1>0, <3>2 DEF TypeOK, HolderStages
    <3> QED BY <2>1, <3>1, <3>2
  <2>3. /\ \A k \in Keys, u \in Submits : keyHolder[k] = u =>
              pc'[u] \in {"upsert", "record", "audit", "commit", "done"}
        /\ \A r, u \in Submits : rowLock[r] = u => pc'[u] \in InTx
        /\ \A u \in Submits : auditLock = u => pc'[u] = "commit"
    BY <1>0 DEF TypeOK, HolderStages, InTx
  <2> QED BY <1>0, <2>2, <2>3 DEF HolderStages
<1> QED BY <1>1, <1>2, <1>3

\* Taking the audit lock leaves keys, rows and requests alone.
LEMMA WriteAuditInv ==
    ASSUME IInv, TypeOK', NEW s \in Submits, WriteAudit(s)
    PROVE  IInv'
<1> USE DEF IInv
<1>0. /\ pc[s] = "audit" /\ pc' = [pc EXCEPT ![s] = "commit"] /\ auditLock' = s
      /\ UNCHANGED <<call, row, tables, keyHolder, rowLock, currentLock, requests, worker>>
  BY DEF WriteAudit, GoTo
<1>1. KeyOwned' /\ RowHeld' /\ RequestsNameRows'
  BY <1>0 DEF TypeOK, KeyOwned, RowHeld, RequestsNameRows, InTx, tables
<1>2. OneSubjectPerIdent' /\ ErasedHeld' /\ ErasedKeyless'
  BY <1>0 DEF OneSubjectPerIdent, ErasedHeld, ErasedKeyless, tables
<1>3. HolderStages'
  BY <1>0 DEF TypeOK, HolderStages, InTx
<1> QED BY <1>1, <1>2, <1>3

\* A commit stores the submission under a row that its lock kept from erasure.
LEMMA CommitInv ==
    ASSUME IInv, TypeOK', NEW s \in Submits, Commit(s)
    PROVE  IInv'
<1> USE DEF IInv
<1>0. /\ pc[s] = "commit" /\ pc' = [pc EXCEPT ![s] = "done"] /\ auditLock' = None
      /\ rowLock' = Released(rowLock, s) /\ currentLock' = Released(currentLock, s)
      /\ dek' = [dek EXCEPT ![row[s]] = dek[row[s]] \/ call[s].sensitive]
      /\ UNCHANGED <<call, row, hash, keyHolder, requests, worker>>
  BY DEF Commit, GoTo
<1>1. KeyOwned'
  BY <1>0 DEF TypeOK, KeyOwned
<1>5. RowHeld'
  BY <1>0 DEF TypeOK, RowHeld, InTx, Released
<1>6. RequestsNameRows'
  BY <1>0 DEF TypeOK, RequestsNameRows, InTx
<1>2. OneSubjectPerIdent' /\ ErasedHeld'
  BY <1>0 DEF TypeOK, OneSubjectPerIdent, ErasedHeld, Released
<1>3. ErasedKeyless'
  BY <1>0 DEF TypeOK, RowHeld, ErasedKeyless, InTx
<1>4. HolderStages'
  BY <1>0 DEF TypeOK, HolderStages, InTx, Released
<1> QED BY <1>1, <1>2, <1>3, <1>4, <1>5, <1>6

\* A rollback takes a new row and the key away with the call.
LEMMA RollbackInv ==
    ASSUME IInv, TypeOK', NEW s \in Submits, InFlight(s), Rollback(s)
    PROVE  IInv'
<1> USE DEF IInv
<1>0. /\ pc' = [pc EXCEPT ![s] = "failed"]
      /\ pc[s] \in {"reserve", "upsert", "record", "audit", "commit"}
      /\ rowLock' = Released(rowLock, s) /\ currentLock' = Released(currentLock, s)
      /\ keyHolder' = Released(keyHolder, s)
      /\ auditLock' = IF auditLock = s THEN None ELSE auditLock
      /\ row' = [row EXCEPT ![s] = None]
      /\ hash' = [hash EXCEPT ![s] = IF row[s] = s THEN Free ELSE hash[s]]
      /\ UNCHANGED <<call, dek, requests, worker>>
  BY DEF Rollback, GoTo, InFlight
<1>1. KeyOwned'
  BY <1>0 DEF TypeOK, KeyOwned, Released
<1>2. RowHeld'
  BY <1>0 DEF TypeOK, RowHeld, InTx, Released
<1>3. OneSubjectPerIdent' /\ ErasedKeyless'
  <2>1. \A r \in Submits : hash'[r] = hash[r] \/ hash'[r] = Free
    BY <1>0 DEF TypeOK
  <2>2. Free # Gone
    BY DEF Free, Gone
  <2> QED BY <1>0, <2>1, <2>2 DEF OneSubjectPerIdent, ErasedKeyless
<1>4. ErasedHeld'
  BY <1>0 DEF TypeOK, ErasedHeld, RowHeld, InTx, Released
<1>5. RequestsNameRows'
  BY <1>0 DEF TypeOK, RequestsNameRows, RowHeld, InTx
<1>6. HolderStages'
  BY <1>0 DEF TypeOK, HolderStages, InTx, Released
<1> QED BY <1>1, <1>2, <1>3, <1>4, <1>5, <1>6

-----------------------------------------------------------------------------
\* The parts of the invariant that the portal and the worker can disturb.
LEMMA RaiseInv ==
    ASSUME IInv, TypeOK', NEW r \in Submits, NEW type \in Types, Raise(r, type)
    PROVE  IInv'
<1> USE DEF IInv
<1>0. /\ UNCHANGED <<pc, call, row, tables, locks, worker>>
      /\ requests' = Append(requests, [type |-> type, row |-> r, status |-> "verified"])
      /\ hash[r] # Free /\ rowLock[r] = None
  BY DEF Raise
<1>1. OneSubjectPerIdent' /\ KeyOwned' /\ RowHeld' /\ ErasedHeld' /\ ErasedKeyless' /\ HolderStages'
  BY <1>0 DEF OneSubjectPerIdent, KeyOwned, RowHeld, ErasedHeld, ErasedKeyless, HolderStages,
              InTx, tables, locks
<1>2. RequestsNameRows'
  <2>1. requests \in Seq(RequestSet)
    BY DEF TypeOK, RequestSet
  <2>2. [type |-> type, row |-> r, status |-> "verified"] \in RequestSet
    BY DEF RequestSet
  <2>3. \A q \in 1..Len(requests') :
            \/ q \in 1..Len(requests) /\ requests'[q] = requests[q]
            \/ requests'[q].row = r
    BY <1>0, <2>1, <2>2, AppendProperties, LenProperties
  <2>4. \A s \in Submits : pc[s] \in InTx /\ row[s] = s => r # s
    BY <1>0 DEF RowHeld, TypeOK
  <2> QED BY <1>0, <2>3, <2>4 DEF RequestsNameRows, tables
<1> QED BY <1>1, <1>2

\* A step that leaves the tables the invariant speaks of as they are.
QuietStep ==
    /\ UNCHANGED <<pc, call, row, hash, dek, keyHolder, rowLock, requests>>
    /\ worker'.erased = worker.erased \/ worker'.erased = {}

\* A step that changes neither calls, rows, keys nor requests keeps the invariant.
LEMMA QuietInv ==
    ASSUME IInv, TypeOK', QuietStep,
           \A r, t \in Submits : currentLock'[r] = t => currentLock[r] = t,
           \A t \in Submits : auditLock' = t => auditLock = t
    PROVE  IInv'
<1> USE DEF IInv, QuietStep
<1>1. OneSubjectPerIdent' /\ KeyOwned' /\ ErasedKeyless' /\ ErasedHeld'
  BY DEF OneSubjectPerIdent, KeyOwned, ErasedKeyless, ErasedHeld
<1>2. RowHeld' /\ RequestsNameRows'
  BY DEF RowHeld, RequestsNameRows, InTx
<1>3. HolderStages'
  BY DEF HolderStages, InTx
<1> QED BY <1>1, <1>2, <1>3

\* Claiming a batch locks no row and changes no request.
LEMMA ClaimInv ==
    ASSUME IInv, TypeOK', ClaimPending
    PROVE  IInv'
<1>1. QuietStep /\ UNCHANGED <<currentLock, auditLock>>
  BY DEF QuietStep, ClaimPending, IdleWorker, tables, locks
<1> QED BY <1>1, QuietInv

\* A lock the worker takes is a call's lock only if it was before.
LEMMA WorkerLock ==
    ASSUME NEW lock \in [Submits -> Procs \cup {None}], NEW x
    PROVE  \A r, t \in Submits : [lock EXCEPT ![x] = Worker][r] = t => lock[r] = t
OBVIOUS

\* Blanking a subject row needs its lock, so no call in flight stands on it.
LEMMA EraseRowInv ==
    ASSUME IInv, TypeOK', NEW q \in 1..MaxRequests, EraseRow(q)
    PROVE  IInv'
<1> USE DEF IInv
<1> DEFINE r == requests[q].row
<1>0. /\ q \in 1..Len(requests) /\ r \in Submits /\ hash[r] # Free
      /\ rowLock[r] \in {None, Worker} /\ rowLock' = [rowLock EXCEPT ![r] = Worker]
      /\ worker'.erased = worker.erased \cup {r}
      /\ UNCHANGED <<pc, call, row, tables, keyHolder, currentLock, auditLock, requests>>
  BY HandledRequest DEF EraseRow, RequestsNameRows, TypeOK
<1> HIDE DEF r
<1>1. OneSubjectPerIdent' /\ KeyOwned' /\ ErasedKeyless' /\ RequestsNameRows'
  BY <1>0 DEF OneSubjectPerIdent, KeyOwned, ErasedKeyless, RequestsNameRows, InTx, tables
<1>2. RowHeld'
  BY <1>0 DEF TypeOK, RowHeld, InTx, tables
<1>3. ErasedHeld'
  BY <1>0 DEF TypeOK, ErasedHeld, tables
<1>4. HolderStages'
  <2>1. rowLock \in [Submits -> Procs \cup {None}]
    BY DEF TypeOK
  <2>2. \A x, t \in Submits : rowLock'[x] = t => rowLock[x] = t
    BY <1>0, <2>1, WorkerLock
  <2> QED BY <1>0, <2>2 DEF HolderStages, InTx
<1> QED BY <1>1, <1>2, <1>3, <1>4

\* Every step of the worker's pass keeps the invariant.
LEMMA TickInv ==
    ASSUME IInv, TypeOK', NEW q \in 1..MaxRequests,
           \/ EraseDelete(q) \/ EraseRow(q) \/ Withdraw(q) \/ Answer(q)
           \/ LeaveToPerson(q) \/ MarkFulfilled(q)
    PROVE  IInv'
<1> USE DEF IInv
<1>1. CASE EraseDelete(q)
  <2>1. QuietStep /\ UNCHANGED <<currentLock, auditLock>>
    BY <1>1 DEF TypeOK, QuietStep, EraseDelete, tables, locks
  <2> QED BY <2>1, QuietInv
<1>2. CASE EraseRow(q)
  BY <1>2, EraseRowInv
<1>3. CASE Withdraw(q)
  <2>1. QuietStep /\ UNCHANGED auditLock
    BY <1>3 DEF TypeOK, QuietStep, Withdraw, tables
  <2>2. currentLock' = currentLock \/ currentLock' = [currentLock EXCEPT ![requests[q].row] = Worker]
    BY <1>3 DEF Withdraw
  <2>3. \A r, t \in Submits : currentLock'[r] = t => currentLock[r] = t
    <3>1. currentLock \in [Submits -> Procs \cup {None}]
      BY DEF TypeOK
    <3> QED BY <2>2, <3>1, WorkerLock
  <2> QED BY <2>1, <2>3, QuietInv
<1>4. CASE Answer(q)
  <2>1. QuietStep /\ UNCHANGED <<currentLock, auditLock>>
    BY <1>4 DEF TypeOK, QuietStep, Answer, tables, locks
  <2> QED BY <2>1, QuietInv
<1>5. CASE LeaveToPerson(q)
  <2>1. QuietStep /\ UNCHANGED <<currentLock, auditLock>>
    BY <1>5 DEF TypeOK, QuietStep, LeaveToPerson, tables, locks
  <2> QED BY <2>1, QuietInv
<1>6. CASE MarkFulfilled(q)
  <2>1. QuietStep /\ UNCHANGED currentLock /\ auditLock' = Worker
    BY <1>6 DEF TypeOK, QuietStep, MarkFulfilled, tables
  <2> QED BY <2>1, QuietInv
<1> QED BY <1>1, <1>2, <1>3, <1>4, <1>5, <1>6

\* The end of the worker's transaction releases locks and nothing else.
LEMMA ReleaseInv ==
    ASSUME IInv, TypeOK', ReleaseWorker, UNCHANGED <<hash, dek, requests>>
    PROVE  IInv'
<1> USE DEF IInv
<1>0. /\ rowLock' = Released(rowLock, Worker) /\ currentLock' = Released(currentLock, Worker)
      /\ auditLock' = (IF auditLock = Worker THEN None ELSE auditLock)
      /\ worker'.erased = {}
      /\ UNCHANGED <<pc, call, row, keyHolder>>
  BY DEF ReleaseWorker, IdleWorker
<1>1. OneSubjectPerIdent' /\ KeyOwned' /\ ErasedKeyless' /\ RequestsNameRows' /\ ErasedHeld'
  BY <1>0 DEF OneSubjectPerIdent, KeyOwned, ErasedKeyless, RequestsNameRows, ErasedHeld, InTx
<1>2. RowHeld'
  BY <1>0 DEF TypeOK, RowHeld, InTx, Released
<1>3. HolderStages'
  BY <1>0 DEF TypeOK, HolderStages, InTx, Released
<1> QED BY <1>1, <1>2, <1>3

\* The commit of a pass fulfils its requests and releases its locks.
LEMMA TickCommitInv ==
    ASSUME IInv, TypeOK', TickCommit
    PROVE  IInv'
<1> USE DEF IInv
<1>0. /\ rowLock' = Released(rowLock, Worker) /\ currentLock' = Released(currentLock, Worker)
      /\ auditLock' = (IF auditLock = Worker THEN None ELSE auditLock)
      /\ worker'.erased = {}
      /\ UNCHANGED <<pc, call, row, keyHolder>>
      /\ hash' = [r \in Submits |-> IF r \in worker.erased THEN Gone ELSE hash[r]]
      /\ dek' = [r \in Submits |-> dek[r] /\ r \notin worker.erased]
  BY DEF TickCommit, ReleaseWorker, IdleWorker
<1>1. OneSubjectPerIdent' /\ KeyOwned'
  BY <1>0 DEF OneSubjectPerIdent, KeyOwned
<1>2. ErasedKeyless' /\ ErasedHeld'
  BY <1>0 DEF ErasedKeyless, ErasedHeld
<1>3. RowHeld'
  <2>1. \A s \in Submits : pc[s] \in {"new", "reserve", "upsert"} => s \notin worker.erased
    BY DEF RowHeld, ErasedHeld
  <2>2. \A s \in Submits : pc[s] \in InTx => row[s] \notin worker.erased
    BY DEF RowHeld, ErasedHeld
  <2> QED BY <1>0, <2>1, <2>2 DEF TypeOK, RowHeld, InTx, Released
<1>4. RequestsNameRows'
  <2>1. Len(requests) \in Nat /\ requests' = [q \in 1..Len(requests) |->
           IF q \in worker.done THEN [requests[q] EXCEPT !.status = "fulfilled"] ELSE requests[q]]
    BY LenProperties DEF TypeOK, TickCommit
  <2>2. Len(requests') = Len(requests)
    BY <2>1
  <2>3. \A q \in 1..Len(requests) : requests[q] \in RequestSet
    BY ElementOfSeq DEF TypeOK, RequestSet
  <2>4. \A q \in 1..Len(requests) : requests'[q].row = requests[q].row
    BY <2>1, <2>3 DEF RequestSet
  <2>5. Free # Gone
    BY DEF Free, Gone
  <2>6. \A r \in Submits : hash[r] # Free => hash'[r] # Free
    BY <1>0, <2>5
  <2> QED BY <1>0, <2>2, <2>4, <2>6, RequestRow DEF RequestsNameRows, InTx
<1>5. HolderStages'
  BY <1>0 DEF TypeOK, HolderStages, InTx, Released
<1> QED BY <1>1, <1>2, <1>3, <1>4, <1>5

-----------------------------------------------------------------------------
\* The conjunction is inductive: it holds initially and every step keeps it.
THEOREM Inductive == Spec => []IInv
<1>1. Init => IInv
  <2>1. Init => TypeOK
    BY TypeInit
  <2>2. Init => OneSubjectPerIdent /\ KeyOwned /\ RowHeld /\ ErasedHeld /\ ErasedKeyless
    BY DEF Init, OneSubjectPerIdent, KeyOwned, RowHeld, ErasedHeld, ErasedKeyless, InTx,
           IdleWorker, Free, Gone
  <2>3. Init => RequestsNameRows
    BY DEF Init, RequestsNameRows
  <2>4. Init => HolderStages
    BY DEF Init, HolderStages
  <2> QED BY <2>1, <2>2, <2>3, <2>4 DEF IInv
<1>2. IInv /\ [Next]_vars => IInv'
  <2> SUFFICES ASSUME IInv, [Next]_vars PROVE IInv'
    OBVIOUS
  <2>0. TypeOK'
    BY TypeStep DEF IInv
  <2>1. ASSUME NEW s \in Submits, Step(s) PROVE IInv'
    BY <2>0, <2>1, BeginInv, ReserveInv, UpsertInv, RecordInv, WriteAuditInv, CommitInv DEF Step
  <2>2. ASSUME NEW s \in Submits, Fail(s) PROVE IInv'
    BY <2>0, <2>2, RollbackInv DEF Fail
  <2>3. ASSUME NEW r \in Submits, NEW type \in Types, Raise(r, type) PROVE IInv'
    BY <2>0, <2>3, RaiseInv
  <2>4. ASSUME TickStep PROVE IInv'
    BY <2>0, <2>4, ClaimInv, TickInv, TickCommitInv DEF TickStep
  <2>5. ASSUME TickFail PROVE IInv'
    BY <2>0, <2>5, ReleaseInv DEF TickFail
  <2>6. ASSUME DeadlockVictim PROVE IInv'
    <3> PICK C \in SUBSET Procs :
          /\ Circle(C)
          /\ \/ \E s \in C \cap Submits : Rollback(s)
             \/ Worker \in C /\ ReleaseWorker
                  /\ UNCHANGED <<hash, dek, stored, current, requests, fails>>
      BY <2>6 DEF DeadlockVictim
    <3>1. ASSUME NEW s \in C \cap Submits, Rollback(s) PROVE IInv'
      <4>1. InFlight(s)
        BY VictimInFlight DEF Circle
      <4> QED BY <2>0, <3>1, <4>1, RollbackInv
    <3> QED BY <2>0, <3>1, ReleaseInv
  <2>7. CASE UNCHANGED vars
    <3>1. QuietStep /\ UNCHANGED <<currentLock, auditLock>>
      BY <2>7 DEF QuietStep, vars
    <3> QED BY <2>0, <3>1, QuietInv
  <2> QED BY <2>1, <2>2, <2>3, <2>4, <2>5, <2>6, <2>7 DEF Next
<1> QED BY <1>1, <1>2, PTL DEF Spec

\* One person is one subject row, for any number of calls and people.
THEOREM OneSubject == Spec => []OneSubjectPerIdent
<1>1. IInv => OneSubjectPerIdent
  BY DEF IInv
<1> QED BY <1>1, Inductive, PTL

\* Two committed calls never carry the same idempotency key.
THEOREM OnePerKey == Spec => []OneSubmissionPerKey
<1>1. IInv => OneSubmissionPerKey
  <2> SUFFICES ASSUME IInv, NEW s \in Submits, NEW t \in Submits,
                      pc[s] = "done", pc[t] = "done", call[s].key = call[t].key,
                      call[s].key # NoKey
               PROVE  s = t
    BY DEF OneSubmissionPerKey
  <2>1. call[s].key \in Keys
    BY DEF IInv, TypeOK, CallSet
  <2> QED BY <2>1 DEF IInv, KeyOwned
<1> QED BY <1>1, Inductive, PTL

\* A call only waits for a call that is further along, so submissions alone
\* never form a circle of waiting, however many there are.
THEOREM NoCircleOfCalls == Spec => []WaitsGoForward
<1>1. IInv => WaitsGoForward
  <2> SUFFICES ASSUME IInv, NEW s \in Submits, NEW t \in Submits, t \in WaitsFor(s)
               PROVE  Stage[pc[s]] < Stage[pc[t]]
    BY DEF WaitsGoForward
  <2>1. t \in LockHolders(s) /\ t # s /\ InFlight(t)
    BY DEF WaitsFor
  <2>2. CASE pc[s] = "reserve"
    BY <2>1, <2>2 DEF LockHolders, IInv, TypeOK, HolderStages, InFlight, Stage
  <2>3. CASE pc[s] = "upsert"
    BY <2>1, <2>3 DEF LockHolders, IInv, TypeOK, HolderStages, InTx, Stage
  <2>4. CASE pc[s] = "record"
    <3>1. t = currentLock[row[s]]
      BY <2>1, <2>4 DEF LockHolders
    <3>2. row[s] \in Submits
      BY <2>4 DEF IInv, RowHeld, InTx
    <3>3. pc[t] \in {"audit", "commit"}
      BY <3>1, <3>2 DEF IInv, HolderStages
    <3> QED BY <2>4, <3>3 DEF Stage
  <2>5. CASE pc[s] = "audit"
    BY <2>1, <2>5 DEF LockHolders, IInv, TypeOK, HolderStages, Stage
  <2>6. InFlight(s) /\ pc[s] # "commit"
    BY <2>1 DEF LockHolders, InFlight
  <2> QED BY <2>2, <2>3, <2>4, <2>5, <2>6 DEF InFlight
<1> QED BY <1>1, Inductive, PTL

\* Nothing brings an erased subject back: no identifier, no data key, and no
\* submission stored under it by a later commit.
THEOREM ErasedForGood == Spec => ErasedStaysErased
<1>1. IInv /\ IInv' /\ [Next]_vars =>
        [\A r \in Submits : hash[r] = Gone =>
           /\ hash'[r] = Gone /\ ~dek'[r]
           /\ \A s \in stored' \ stored : row[s] # r]_vars
  <2> SUFFICES ASSUME IInv, IInv', Next, NEW r \in Submits, hash[r] = Gone
               PROVE  /\ hash'[r] = Gone
                      /\ \A s \in stored' \ stored : row[s] # r
    BY DEF IInv, ErasedKeyless
  <2>1. ASSUME NEW s \in Submits, Step(s)
        PROVE  hash'[r] = Gone /\ \A t \in stored' \ stored : row[t] # r
    <3>1. CASE UpsertSubject(s)
      <4>1. hash[s] = Free /\ stored' = stored
        BY <3>1 DEF IInv, RowHeld, UpsertSubject, Finds, Inserts, UpsertFrame
      <4>2. hash' = hash \/ hash' = [hash EXCEPT ![s] = call[s].ident]
        BY <3>1 DEF UpsertSubject, Finds, Inserts
      <4>3. r # s
        BY <4>1 DEF Free, Gone
      <4> QED BY <4>1, <4>2, <4>3 DEF IInv, TypeOK
    <3>2. CASE Commit(s)
      BY <3>2 DEF IInv, RowHeld, InTx, Commit
    <3>3. CASE Begin(s) \/ ReserveIdempotency(s) \/ Record(s) \/ WriteAudit(s)
      BY <3>3 DEF Begin, ReserveIdempotency, Record, WriteAudit, tables
    <3> QED BY <2>1, <3>1, <3>2, <3>3 DEF Step
  <2>2. ASSUME NEW s \in Submits, InFlight(s), Rollback(s)
        PROVE  hash'[r] = Gone /\ stored' = stored
    <3>1. row[s] # r \/ r # s
      BY <2>2 DEF IInv, RowHeld, InTx, InFlight, None
    <3> QED BY <2>2, <3>1 DEF Rollback, IInv, TypeOK
  <2>3. ASSUME NEW x \in Submits, NEW type \in Types, Raise(x, type)
        PROVE  hash' = hash /\ stored' = stored
    BY <2>3 DEF Raise, tables
  <2>4. ASSUME TickStep PROVE hash'[r] = Gone /\ stored' \subseteq stored
    <3>1. CASE TickCommit
      BY <3>1 DEF TickCommit
    <3>2. CASE ~TickCommit
      BY <2>4, <3>2 DEF TickStep, ClaimPending, EraseDelete, EraseRow, Withdraw, Answer,
                        LeaveToPerson, MarkFulfilled, tables
    <3> QED BY <3>1, <3>2
  <2>5. TickFail => hash' = hash /\ stored' = stored
    BY DEF TickFail
  <2>6. ASSUME DeadlockVictim PROVE hash'[r] = Gone /\ stored' = stored
    <3> PICK C \in SUBSET Procs :
          /\ Circle(C)
          /\ \/ \E s \in C \cap Submits : Rollback(s)
             \/ Worker \in C /\ ReleaseWorker
                  /\ UNCHANGED <<hash, dek, stored, current, requests, fails>>
      BY <2>6 DEF DeadlockVictim
    <3>1. ASSUME NEW s \in C \cap Submits, Rollback(s) PROVE hash'[r] = Gone /\ stored' = stored
      <4>1. InFlight(s)
        BY VictimInFlight DEF Circle
      <4> QED BY <2>2, <3>1, <4>1
    <3> QED BY <3>1
  <2> QED BY <2>1, <2>2, <2>3, <2>4, <2>5, <2>6 DEF Next, Fail
<1> QED BY <1>1, Inductive, PTL DEF Spec, ErasedStaysErased

-----------------------------------------------------------------------------
(* The current consents.                                                   *)

\* What the pass is about to withdraw somebody has asked for, in a request that
\* it has fulfilled or is about to.
WithdrawnAsked ==
    \A r \in worker.withdrawn : \E q \in 1..Len(requests) :
        /\ requests[q].type = "withdraw" /\ requests[q].row = r
        /\ \/ q \in worker.done
           \/ worker.step = "audit" /\ q \in worker.todo /\ \A p \in worker.todo : q <= p

\* The records that speak of a subject row.
RecordsOf(records, r) == {i \in 1..Len(records) : records[i].row = r}

\* CurrentFollowsLog, of one row.
Follows(records, r, now, withdrawn) ==
    /\ RecordsOf(records, r) = {} <=> now.last = 0
    /\ RecordsOf(records, r) # {} =>
         /\ now.last \in RecordsOf(records, r)
         /\ \A i \in RecordsOf(records, r) : i <= now.last
         /\ \/ now.granted = records[now.last].granted
            \/ ~now.granted /\ withdrawn

\* A withdrawal more is a reason more.
LEMMA FollowsMore ==
    ASSUME NEW s, NEW r, NEW now, NEW w, NEW v, w => v, Follows(s, r, now, w)
    PROVE  Follows(s, r, now, v)
BY DEF Follows

\* CurrentFollowsLog says that of every row.
LEMMA FollowsIs ==
    CurrentFollowsLog <=> \A r \in Submits : Follows(log, r, current[r], Withdrawn(r))
BY DEF CurrentFollowsLog, Follows, RecordsOf

\* The same of the next state.
LEMMA FollowsIsNext ==
    CurrentFollowsLog' <=> \A r \in Submits : Follows(log', r, current'[r], Withdrawn(r)')
BY DEF CurrentFollowsLog, Follows, RecordsOf

\* A withdrawal is not taken back by a request more.
LEMMA RaiseKeeps ==
    ASSUME TypeOK, NEW x \in Submits, NEW type \in Types, Raise(x, type)
    PROVE  /\ Len(requests) \in Nat /\ Len(requests') = Len(requests) + 1
           /\ \A q \in 1..Len(requests) : requests'[q] = requests[q]
           /\ UNCHANGED <<worker, log, current>>
<1>1. requests \in Seq(RequestSet)
  BY DEF TypeOK, RequestSet
<1>2. requests' = Append(requests, [type |-> type, row |-> x, status |-> "verified"])
      /\ UNCHANGED <<worker, log, current>>
  BY DEF Raise, tables
<1> QED BY <1>1, <1>2

\* What a committed pass does to the requests: those it was through with are fulfilled.
LEMMA TickRequests ==
    ASSUME TypeOK, TickCommit
    PROVE  /\ Len(requests') = Len(requests)
           /\ \A q \in 1..Len(requests) :
                 /\ requests'[q].type = requests[q].type /\ requests'[q].row = requests[q].row
                 /\ q \in worker.done => requests'[q].status = "fulfilled"
                 /\ requests[q].status = "fulfilled" => requests'[q].status = "fulfilled"
           /\ requests' \in Seq(RequestSet)
<1>1. /\ Len(requests) \in Nat /\ requests \in Seq(RequestSet)
      /\ \A q \in 1..Len(requests) : requests[q] \in RequestSet
  BY LenProperties, ElementOfSeq DEF TypeOK, RequestSet
<1>2. requests' = [q \in 1..Len(requests) |->
         IF q \in worker.done THEN [requests[q] EXCEPT !.status = "fulfilled"] ELSE requests[q]]
  BY DEF TickCommit
<1>3. Len(requests') = Len(requests)
  BY <1>1, <1>2
<1>4. \A q \in 1..Len(requests) :
         requests'[q] = IF q \in worker.done THEN [requests[q] EXCEPT !.status = "fulfilled"]
                                             ELSE requests[q]
  BY <1>2
<1>5. requests' \in Seq(RequestSet)
  <2>1. TypeOK'
    BY TypeStep DEF Next, TickStep
  <2> QED BY <2>1 DEF TypeOK, RequestSet
<1> QED BY <1>1, <1>3, <1>4, <1>5 DEF RequestSet

\* Withdrawn, part by part.
LEMMA WithdrawnParts ==
    ASSUME NEW s \in Seq(RequestSet), NEW q \in 1..Len(s), NEW r
    PROVE  s[q] = [type |-> "withdraw", row |-> r, status |-> "fulfilled"]
               <=> s[q].type = "withdraw" /\ s[q].row = r /\ s[q].status = "fulfilled"
<1>1. s[q] \in RequestSet
  BY ElementOfSeq
<1> QED BY <1>1 DEF RequestSet

\* What a pass does to its own transaction, request by request.
LEMMA PassMoves ==
    ASSUME TypeOK, NEW q \in 1..MaxRequests,
           \/ EraseDelete(q) \/ EraseRow(q) \/ Withdraw(q) \/ Answer(q)
           \/ LeaveToPerson(q) \/ MarkFulfilled(q)
    PROVE  /\ UNCHANGED <<requests, log, current>>
           /\ \/ /\ worker.step # "audit"
                 /\ worker'.done = worker.done /\ worker'.withdrawn = worker.withdrawn
              \/ /\ Handling(q, "next", {"withdraw"}) /\ worker'.step = "audit"
                 /\ worker'.done = worker.done /\ worker'.todo = worker.todo
                 /\ worker'.withdrawn = worker.withdrawn \cup {requests[q].row}
              \/ /\ Handling(q, "audit", AutoTypes)
                 /\ worker'.done = worker.done \cup {q} /\ worker'.withdrawn = worker.withdrawn
<1>0. worker \in WorkerSet
  BY DEF TypeOK, WorkerSet
<1>1. CASE EraseDelete(q)
  BY <1>0, <1>1 DEF EraseDelete, Handling, WorkerSet, tables
<1>2. CASE EraseRow(q)
  BY <1>0, <1>2 DEF EraseRow, Handling, WorkerSet, tables
<1>3. CASE Withdraw(q)
  <2>1. /\ Handling(q, "next", {"withdraw"}) /\ UNCHANGED <<requests, log, current>>
        /\ \/ worker' = [worker EXCEPT !.step = "audit"]
           \/ worker' = [worker EXCEPT !.step = "audit", !.withdrawn = @ \cup {requests[q].row}]
    BY <1>3 DEF Withdraw, tables
  <2>2. CASE worker' = [worker EXCEPT !.step = "audit"]
    BY <1>0, <2>1, <2>2 DEF Handling, WorkerSet
  <2>3. CASE worker' = [worker EXCEPT !.step = "audit", !.withdrawn = @ \cup {requests[q].row}]
    BY <1>0, <2>1, <2>3 DEF WorkerSet
  <2> QED BY <2>1, <2>2, <2>3
<1>4. CASE Answer(q)
  BY <1>0, <1>4 DEF Answer, Handling, WorkerSet, tables
<1>5. CASE LeaveToPerson(q)
  BY <1>0, <1>5 DEF LeaveToPerson, Handling, WorkerSet, tables
<1>6. CASE MarkFulfilled(q)
  BY <1>0, <1>6 DEF MarkFulfilled, WorkerSet, tables
<1> QED BY <1>1, <1>2, <1>3, <1>4, <1>5, <1>6

\* A step of the system, by what it may do to the consents.
LEMMA ConsentMoves ==
    ASSUME [Next]_vars
    PROVE  \/ UNCHANGED <<worker, requests, log, current>>
           \/ \E s \in Submits : Commit(s)
           \/ \E r \in Submits, type \in Types : Raise(r, type)
           \/ worker'.withdrawn = {} /\ UNCHANGED <<requests, log, current>>
           \/ TickCommit
           \/ \E q \in 1..MaxRequests :
                 \/ EraseDelete(q) \/ EraseRow(q) \/ Withdraw(q) \/ Answer(q)
                 \/ LeaveToPerson(q) \/ MarkFulfilled(q)
<1>1. ASSUME NEW s \in Submits, Step(s), ~Commit(s) PROVE UNCHANGED <<worker, requests, log, current>>
  BY <1>1 DEF Step, Begin, ReserveIdempotency, UpsertSubject, UpsertFrame, Record, WriteAudit, tables
<1>2. \A s \in Submits : Rollback(s) => UNCHANGED <<worker, requests, log, current>>
  BY DEF Rollback
<1>3. ReleaseWorker => worker'.withdrawn = {} /\ log' = log
  BY DEF ReleaseWorker, IdleWorker
<1>4. ClaimPending => worker'.withdrawn = {} /\ UNCHANGED <<requests, log, current>>
  BY DEF ClaimPending, IdleWorker, tables
<1>5. TickFail => ReleaseWorker /\ UNCHANGED <<requests, current>>
  BY DEF TickFail
<1>6. DeadlockVictim => \/ \E s \in Submits : Rollback(s)
                        \/ ReleaseWorker /\ UNCHANGED <<requests, current>>
  BY DEF DeadlockVictim
<1>7. UNCHANGED vars => UNCHANGED <<worker, requests, log, current>>
  BY DEF vars
<1> QED BY <1>1, <1>2, <1>3, <1>4, <1>5, <1>6, <1>7 DEF Next, Fail, TickStep

\* Withdrawals stay asked for.
LEMMA AskedStays ==
    ASSUME TypeOK, WithdrawnAsked, [Next]_vars
    PROVE  WithdrawnAsked'
<1>1. CASE UNCHANGED <<worker, requests, log, current>>
  BY <1>1 DEF WithdrawnAsked
<1>2. ASSUME NEW s \in Submits, Commit(s) PROVE WithdrawnAsked'
  BY <1>2 DEF Commit, WithdrawnAsked
<1>3. ASSUME NEW x \in Submits, NEW type \in Types, Raise(x, type) PROVE WithdrawnAsked'
  BY <1>3, RaiseKeeps DEF WithdrawnAsked
<1>4. CASE worker'.withdrawn = {}
  BY <1>4 DEF WithdrawnAsked
<1>5. TickCommit => worker'.withdrawn = {}
  BY DEF TickCommit, ReleaseWorker, IdleWorker
<1>6. ASSUME NEW q \in 1..MaxRequests,
             \/ EraseDelete(q) \/ EraseRow(q) \/ Withdraw(q) \/ Answer(q)
             \/ LeaveToPerson(q) \/ MarkFulfilled(q)
      PROVE  WithdrawnAsked'
  <2>0. /\ UNCHANGED requests /\ worker.todo \subseteq 1..Len(requests)
        /\ Len(requests) \in Nat
    BY <1>6, PassMoves, LenProperties DEF TypeOK
  <2>1. CASE /\ worker.step # "audit"
             /\ worker'.done = worker.done /\ worker'.withdrawn = worker.withdrawn
    BY <2>0, <2>1 DEF WithdrawnAsked
  <2>2. CASE /\ Handling(q, "next", {"withdraw"}) /\ worker'.step = "audit"
             /\ worker'.done = worker.done /\ worker'.todo = worker.todo
             /\ worker'.withdrawn = worker.withdrawn \cup {requests[q].row}
    <3>1. q \in 1..Len(requests) /\ requests[q].type = "withdraw" /\ worker.step # "audit"
          /\ q \in worker.todo /\ \A p \in worker.todo : q <= p
      BY <2>0, <2>2 DEF Handling
    <3> QED BY <2>0, <2>2, <3>1 DEF WithdrawnAsked
  <2>3. CASE /\ Handling(q, "audit", AutoTypes)
             /\ worker'.done = worker.done \cup {q} /\ worker'.withdrawn = worker.withdrawn
    <3>1. \A p \in 1..Len(requests) : p \in worker.todo /\ (\A o \in worker.todo : p <= o) => p = q
      BY <2>0, <2>3 DEF Handling
    <3> QED BY <2>0, <2>3, <3>1 DEF WithdrawnAsked
  <2> QED BY <1>6, <2>1, <2>2, <2>3, PassMoves
<1> QED BY <1>1, <1>2, <1>3, <1>4, <1>5, <1>6, ConsentMoves

\* A record more is the last one of its subject, and leaves the others' theirs.
LEMMA RecordFollows ==
    ASSUME NEW s \in Seq(Record3), NEW e \in Record3, NEW r, NEW now, NEW w, Follows(s, r, now, w)
    PROVE  /\ e.row # r => Follows(s \o <<e>>, r, now, w)
           /\ e.row = r => Follows(s \o <<e>>, r, [granted |-> e.granted, last |-> Len(s) + 1], w)
<1> DEFINE t == s \o <<e>>
<1>1. /\ Len(s) \in Nat /\ Len(t) = Len(s) + 1 /\ t[Len(s) + 1] = e
      /\ \A i \in 1..Len(s) : t[i] = s[i]
  <2>1. <<e>> \in Seq(Record3) /\ Len(<<e>>) = 1 /\ <<e>>[1] = e
    OBVIOUS
  <2> QED BY <2>1, ConcatProperties, LenProperties
<1> HIDE DEF t
<1>2. ASSUME e.row # r PROVE Follows(t, r, now, w)
  <2>1. RecordsOf(t, r) = RecordsOf(s, r)
    BY <1>1, <1>2 DEF RecordsOf
  <2>2. now.last \in RecordsOf(s, r) => t[now.last] = s[now.last]
    BY <1>1 DEF RecordsOf
  <2> QED BY <2>1, <2>2 DEF Follows
<1>3. ASSUME e.row = r PROVE Follows(t, r, [granted |-> e.granted, last |-> Len(s) + 1], w)
  <2>1. Len(s) + 1 \in RecordsOf(t, r) /\ \A i \in RecordsOf(t, r) : i <= Len(s) + 1
    BY <1>1, <1>3 DEF RecordsOf
  <2> QED BY <1>1, <2>1 DEF Follows
<1> QED BY <1>2, <1>3 DEF t

\* The current consents follow the records after every step.
LEMMA FollowsStays ==
    ASSUME IInv, TypeOK', WithdrawnAsked, CurrentFollowsLog, [Next]_vars
    PROVE  CurrentFollowsLog'
<1> SUFFICES ASSUME NEW r \in Submits PROVE Follows(log', r, current'[r], Withdrawn(r)')
  BY FollowsIsNext
<1>0. /\ TypeOK /\ Follows(log, r, current[r], Withdrawn(r))
      /\ log \in Seq(Record3) /\ current \in [Submits -> [granted : BOOLEAN, last : Nat]]
      /\ requests \in Seq(RequestSet)
  BY FollowsIs DEF IInv, TypeOK, Record3, RequestSet
<1>1. CASE UNCHANGED <<requests, log, current>>
  BY <1>0, <1>1 DEF Withdrawn
<1>2. ASSUME NEW x \in Submits, NEW type \in Types, Raise(x, type)
      PROVE  Follows(log', r, current'[r], Withdrawn(r)')
  <2>0. /\ Len(requests) \in Nat /\ Len(requests') = Len(requests) + 1
        /\ \A q \in 1..Len(requests) : requests'[q] = requests[q]
        /\ UNCHANGED <<log, current>>
    BY <1>0, <1>2, RaiseKeeps
  <2>1. Withdrawn(r) => Withdrawn(r)'
    <3> SUFFICES ASSUME Withdrawn(r) PROVE Withdrawn(r)'
      OBVIOUS
    <3>1. PICK q \in 1..Len(requests) :
             requests[q] = [type |-> "withdraw", row |-> r, status |-> "fulfilled"]
      BY DEF Withdrawn
    <3>2. q \in 1..Len(requests') /\ requests'[q] = requests[q]
      BY <2>0
    <3> QED BY <3>1, <3>2 DEF Withdrawn
  <2>2. UNCHANGED <<log, current>>
    BY <2>0
  <2> QED BY <1>0, <2>1, <2>2, FollowsMore
<1>3. ASSUME NEW s \in Submits, Commit(s) PROVE Follows(log', r, current'[r], Withdrawn(r)')
  <2>1. /\ log' = log \o NewRecords(s) /\ current' = Refreshed(s) /\ requests' = requests
        /\ pc[s] = "commit"
    BY <1>3 DEF Commit
  <2>2. row[s] \in Submits
    BY <2>1 DEF IInv, RowHeld, InTx
  <2>3. Withdrawn(r) => Withdrawn(r)'
    BY <2>1 DEF Withdrawn
  <2>4. CASE call[s].grant = "silent"
    <3>1. log' = log /\ current' = current
      BY <1>0, <2>1, <2>4, ConcatEmptySeq DEF NewRecords, Refreshed
    <3> QED BY <1>0, <2>3, <3>1, FollowsMore
  <2>5. CASE call[s].grant # "silent"
    <3> DEFINE e == [by |-> s, row |-> row[s], granted |-> call[s].grant = "granted"]
               now == [granted |-> call[s].grant = "granted", last |-> Len(log) + 1]
    <3>1. log' = log \o <<e>> /\ current' = [current EXCEPT ![row[s]] = now]
      BY <2>1, <2>5 DEF NewRecords, Refreshed
    <3>2. e \in Record3 /\ e.row = row[s] /\ now = [granted |-> e.granted, last |-> Len(log) + 1]
      BY <2>2 DEF Record3
    <3> HIDE DEF e, now
    <3>3. CASE row[s] = r
      <4>1. current'[r] = now
        BY <1>0, <3>1, <3>3
      <4>2. Follows(log', r, current'[r], Withdrawn(r))
        BY <1>0, <3>1, <3>2, <3>3, <4>1, RecordFollows
      <4> QED BY <2>3, <4>2, FollowsMore
    <3>4. CASE row[s] # r
      <4>1. current'[r] = current[r]
        BY <1>0, <3>1, <3>4
      <4>2. Follows(log', r, current'[r], Withdrawn(r))
        BY <1>0, <3>1, <3>2, <3>4, <4>1, RecordFollows
      <4> QED BY <2>3, <4>2, FollowsMore
    <3> QED BY <3>3, <3>4
  <2> QED BY <2>4, <2>5
<1>4. CASE TickCommit
  <2>1. /\ log' = log /\ worker.step = "next" /\ worker.todo = {}
        /\ current' = [x \in Submits |-> IF x \in worker.withdrawn
                                         THEN [current[x] EXCEPT !.granted = FALSE] ELSE current[x]]
    BY <1>4 DEF TickCommit, ReleaseWorker
  <2>2. Withdrawn(r) => Withdrawn(r)'
    <3> SUFFICES ASSUME Withdrawn(r) PROVE Withdrawn(r)'
      OBVIOUS
    <3>1. PICK q \in 1..Len(requests) :
             requests[q] = [type |-> "withdraw", row |-> r, status |-> "fulfilled"]
      BY DEF Withdrawn
    <3>2. requests[q].type = "withdraw" /\ requests[q].row = r /\ requests[q].status = "fulfilled"
      BY <3>1
    <3>3. requests' \in Seq(RequestSet) /\ q \in 1..Len(requests')
          /\ requests'[q].type = "withdraw" /\ requests'[q].row = r
          /\ requests'[q].status = "fulfilled"
      BY <1>0, <1>4, <3>2, TickRequests
    <3>4. requests'[q] = [type |-> "withdraw", row |-> r, status |-> "fulfilled"]
      BY <3>3, WithdrawnParts
    <3> QED BY <3>3, <3>4 DEF Withdrawn
  <2>3. CASE r \in worker.withdrawn
    <3>1. PICK q \in 1..Len(requests) :
             requests[q].type = "withdraw" /\ requests[q].row = r /\ q \in worker.done
      BY <2>1, <2>3 DEF WithdrawnAsked
    <3>2. requests' \in Seq(RequestSet) /\ q \in 1..Len(requests')
          /\ requests'[q].type = "withdraw" /\ requests'[q].row = r
          /\ requests'[q].status = "fulfilled"
      BY <1>0, <1>4, <3>1, TickRequests
    <3>3. requests'[q] = [type |-> "withdraw", row |-> r, status |-> "fulfilled"]
      BY <3>2, WithdrawnParts
    <3>4. Withdrawn(r)'
      BY <3>2, <3>3 DEF Withdrawn
    <3>5. current'[r].last = current[r].last /\ ~current'[r].granted
      BY <1>0, <2>1, <2>3
    <3> QED BY <1>0, <2>1, <3>4, <3>5 DEF Follows
  <2>4. CASE r \notin worker.withdrawn
    <3>1. current'[r] = current[r]
      BY <2>1, <2>4
    <3>2. Follows(log', r, current'[r], Withdrawn(r))
      BY <1>0, <2>1, <3>1
    <3> QED BY <2>2, <3>2, FollowsMore
  <2> QED BY <2>3, <2>4
<1>5. ASSUME NEW q \in 1..MaxRequests,
             \/ EraseDelete(q) \/ EraseRow(q) \/ Withdraw(q) \/ Answer(q)
             \/ LeaveToPerson(q) \/ MarkFulfilled(q)
      PROVE  UNCHANGED <<requests, log, current>>
  BY <1>0, <1>5, PassMoves
<1> QED BY <1>1, <1>2, <1>3, <1>4, <1>5, ConsentMoves

\* The current consent of a subject is the last record appended, but for what
\* the worker's withdrawals have taken back, whatever calls and passes overlap.
THEOREM ConsentFollows == Spec => []CurrentFollowsLog
<1>1. Init => WithdrawnAsked /\ CurrentFollowsLog
  <2>1. Init => WithdrawnAsked
    BY DEF Init, WithdrawnAsked, IdleWorker
  <2>2. Init => CurrentFollowsLog
    <3>1. \A r : RecordsOf(<<>>, r) = {}
      BY DEF RecordsOf
    <3> QED BY <3>1, FollowsIs DEF Init, Follows
  <2> QED BY <2>1, <2>2
<1>2. IInv /\ IInv' /\ WithdrawnAsked /\ CurrentFollowsLog /\ [Next]_vars
         => (WithdrawnAsked /\ CurrentFollowsLog)'
  BY AskedStays, FollowsStays DEF IInv
<1> QED BY <1>1, <1>2, Inductive, PTL DEF Spec

=============================================================================
