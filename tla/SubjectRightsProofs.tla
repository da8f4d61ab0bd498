------------------------ MODULE SubjectRightsProofs ------------------------
(***************************************************************************)
(* Proofs about SubjectRights, for any number of subjects, submissions,    *)
(* corrections and export jobs: the revisions of a record replay it, a     *)
(* rectification is closed with its correction, restricted records are     *)
(* left alone, the key follows the answer, and only what is over is called *)
(* expired.                                                                *)
(***************************************************************************)
EXTENDS SubjectRights, FiniteSetTheorems, SequenceTheorems, TLAPS

RequestSet == [subject : Subjects, type : ValidTypes, status : {"verified"} \cup Closed]

\* A correction, and the fields of one that has read the identity.
CallTyped(x) ==
    /\ x.step \in {"new", "read", "locked", "done", "refused"}
    /\ x.step \in {"read", "locked"} =>
          /\ DOMAIN x = {"step", "by", "subject", "submission", "given", "identity", "before"}
          /\ x.by \in {"dsr_self_service", "dsr_operator"}
          /\ x.subject \in Subjects /\ x.submission \in Submissions
          /\ x.given \in Corrections

IsSeq(x) == x \in Seq({x[i] : i \in DOMAIN x})

PortalTyped ==
    /\ key \in [Subjects -> Idents \cup {None, Gone}]
    /\ status \in [Submissions -> {"absent", "active", "restricted", "deleted"}]
    /\ owner \in [Submissions -> Subjects \cup {None}]
    /\ lock \in [Submissions -> Calls \cup {None}]
    /\ doomed \subseteq Submissions
    /\ DOMAIN answers = Submissions
    /\ DOMAIN revisions = Submissions /\ DOMAIN changes = Submissions
    /\ \A s \in Submissions : IsSeq(revisions[s]) /\ IsSeq(changes[s])
    /\ calls \in [Calls -> {calls[c] : c \in Calls}] /\ \A c \in Calls : CallTyped(calls[c])
    /\ requests \in Seq(RequestSet)

\* A record that has not arrived has no past.
Blank == \A s \in Submissions : status[s] = "absent" => revisions[s] = <<>> /\ changes[s] = <<>>

\* A correction that holds its row has read what is in it, and nothing happens
\* to the row until it lets go.
LockHeld ==
    \A c \in Calls : calls[c].step = "locked" =>
        LET s == calls[c].submission IN
        /\ lock[s] = c /\ status[s] = "active"
        /\ owner[s] = calls[c].subject /\ answers[s] = calls[c].before

\* The identity in an answer is never the mark of one that could not be read.
AnswersRead == \A s \in Submissions : Value(answers[s]) # Unread

Fulfilled(p) == {q \in DOMAIN requests : requests[q] =
                    [subject |-> p, type |-> "rectify", status |-> "fulfilled"]}

\* The sets that ClosedByCorrection counts are finite.
Countable == \A p \in Subjects : IsFiniteSet(Fulfilled(p)) /\ IsFiniteSet(Corrected(p))

\* The inductive invariant of the portal.
PortalInv ==
    /\ PortalTyped
    /\ Blank /\ LockHeld /\ RevisionsReplay /\ AnswersRead
    /\ Countable /\ ClosedByCorrection

ExportTyped ==
    /\ job \in [Jobs -> Statuses \cup {"none"}]
    /\ kind \in [Jobs -> {"form_report", "link_report"}]
    /\ expires \subseteq Jobs /\ stopped \subseteq Jobs /\ faults \in 0 .. MaxFaults
    /\ \A j \in DOMAIN object : j \in Jobs /\ object[j] \subseteq Submissions
    /\ worker \in {Idle} \cup
          [step : {"read", "put", "complete"}, job : Jobs, rows : SUBSET Submissions]
    /\ sweeper \in Jobs \cup {0}

\* A job that a worker has is running, and produced once its artefact is put.
WorkerRuns ==
    worker # Idle =>
        /\ job[worker.job] = "running"
        /\ worker.step = "complete" => worker.job \in DOMAIN object

\* Only a job that has been ready has a lifetime that can be over.
OverWasReady == \A j \in expires : job[j] \in {"ready", "expired"}

\* An artefact goes only once its lifetime is over.
GoneIsOver ==
    /\ \A j \in Jobs : job[j] = "ready" => j \in DOMAIN object \cup expires
    /\ \A j \in Jobs : job[j] = "expired" => j \in expires
    /\ sweeper # 0 => sweeper \in expires
    /\ download.step = "found" => download.job \in DOMAIN object \cup expires

\* The inductive invariant of the exports.
ExportInv == ExportTyped /\ WorkerRuns /\ OverWasReady /\ GoneIsOver /\ ExpiredIsOver

IInv == PortalInv /\ ExportInv

-----------------------------------------------------------------------------
(* Sequences and the two sides.                                            *)

\* Appending to a sequence.
LEMMA AppendSeq ==
    ASSUME NEW x, IsSeq(x), NEW e, NEW y, y = Append(x, e)
    PROVE  /\ IsSeq(y) /\ Len(x) \in Nat /\ Len(y) = Len(x) + 1
           /\ DOMAIN x = 1 .. Len(x) /\ DOMAIN y = 1 .. Len(y)
           /\ y[Len(y)] = e /\ \A i \in 1 .. Len(x) : y[i] = x[i]
<1> DEFINE S == {x[i] : i \in DOMAIN x} \cup {e}
<1>1. x \in Seq(S)
  BY DEF IsSeq
<1>2. Append(x, e) \in Seq(S)
  BY <1>1
<1>3. /\ Len(x) \in Nat /\ Len(y) = Len(x) + 1
      /\ DOMAIN x = 1 .. Len(x) /\ DOMAIN y = 1 .. Len(y)
      /\ y[Len(y)] = e /\ \A i \in 1 .. Len(x) : y[i] = x[i]
  BY <1>1, <1>2
<1>4. IsSeq(y)
  BY <1>2, <1>3 DEF IsSeq
<1> QED BY <1>3, <1>4

\* The sequences a record starts with.
LEMMA ShortSeqs ==
    /\ IsSeq(<<>>) /\ Len(<<>>) = 0 /\ DOMAIN <<>> = {}
    /\ \A e : IsSeq(<<e>>) /\ Len(<<e>>) = 1 /\ DOMAIN <<e>> = {1} /\ <<e>>[1] = e
<1>1. IsSeq(<<>>) /\ Len(<<>>) = 0 /\ DOMAIN <<>> = {}
  BY DEF IsSeq
<1>2. ASSUME NEW e PROVE IsSeq(<<e>>) /\ Len(<<e>>) = 1 /\ DOMAIN <<e>> = {1} /\ <<e>>[1] = e
  <2>1. <<e>> \in Seq({e}) /\ Len(<<e>>) = 1 /\ DOMAIN <<e>> = {1} /\ <<e>>[1] = e
    OBVIOUS
  <2> QED BY <2>1 DEF IsSeq
<1> QED BY <1>1, <1>2

\* A sequence and its length.
LEMMA SeqLen ==
    ASSUME NEW x, IsSeq(x)
    PROVE  Len(x) \in Nat /\ DOMAIN x = 1 .. Len(x)
BY DEF IsSeq

\* The portal and the exports share no variable.
LEMMA Sides ==
    ASSUME [Next]_vars
    PROVE  [PortalNext]_portalVars /\ [ExportNext(Active)]_exportVars
BY DEF Next, vars, ExportStep

-----------------------------------------------------------------------------
(* The types of the portal.                                                *)

\* The initial state of the portal is typed.
LEMMA PortalTypeInit == PortalInit => PortalTyped
BY ShortSeqs DEF PortalInit, PortalTyped, CallTyped, NewCall

\* A correction goes on as another typed one.
LEMMA CallType ==
    ASSUME PortalTyped, NEW c \in Calls, NEW x, CallTyped(x), calls' = [calls EXCEPT ![c] = x]
    PROVE  calls' \in [Calls -> {calls'[d] : d \in Calls}] /\ \A d \in Calls : CallTyped(calls'[d])
BY DEF PortalTyped, CallTyped

\* Whatever ends a correction leaves typed corrections.
LEMMA EndCallType ==
    ASSUME PortalTyped, NEW c \in Calls, NEW how \in {"done", "refused"}, EndCall(c, how)
    PROVE  calls' \in [Calls -> {calls'[d] : d \in Calls}] /\ \A d \in Calls : CallTyped(calls'[d])
<1>1. CallTyped([step |-> how])
  BY DEF CallTyped
<1> QED BY <1>1, CallType DEF EndCall

\* Letting go of a row leaves typed locks.
LEMMA UnlockType ==
    ASSUME PortalTyped, NEW c \in Calls, Unlock(c)
    PROVE  lock' \in [Submissions -> Calls \cup {None}]
BY DEF PortalTyped, Unlock

\* A request that is raised is a typed one.
LEMMA NewRequestType ==
    ASSUME NEW p \in Subjects, NEW type \in ValidTypes
    PROVE  /\ NewRequest(p, type) \in RequestSet
           /\ [NewRequest(p, type) EXCEPT !.status = "fulfilled"] \in RequestSet
           /\ [NewRequest(p, type) EXCEPT !.status = "fulfilled"] =
                 [subject |-> p, type |-> type, status |-> "fulfilled"]
BY DEF NewRequest, RequestSet, Closed

\* A new status of requests.
LEMMA RequestsType ==
    ASSUME PortalTyped, NEW new, DOMAIN new = DOMAIN requests,
           new = [q \in DOMAIN requests |-> new[q]],
           \A q \in DOMAIN requests :
              \/ new[q] = requests[q]
              \/ \E how \in Closed : new[q] = [requests[q] EXCEPT !.status = how]
    PROVE  new \in Seq(RequestSet)
<1>1. /\ Len(requests) \in Nat /\ DOMAIN requests = 1 .. Len(requests)
      /\ \A q \in DOMAIN requests : requests[q] \in RequestSet
  BY DEF PortalTyped
<1>2. \A q \in DOMAIN requests : new[q] \in RequestSet
  BY <1>1 DEF RequestSet
<1>3. new \in [1 .. Len(requests) -> RequestSet]
  BY <1>1, <1>2
<1> QED BY <1>1, <1>3, SeqDef

\* Whatever is deleted, the columns keep their types.
LEMMA DeletedType ==
    ASSUME PortalTyped, NEW gone, Deleted(gone)
    PROVE  /\ status' \in [Submissions -> {"absent", "active", "restricted", "deleted"}]
           /\ DOMAIN answers' = Submissions /\ DOMAIN revisions' = Submissions
           /\ \A s \in Submissions : IsSeq(revisions'[s])
BY ShortSeqs DEF PortalTyped, Deleted

\* Every step of a correction keeps the types.
LEMMA CorrectionType ==
    ASSUME PortalTyped, NEW c \in Calls,
           \/ \E p \in Subjects, s \in Submissions, given \in Corrections :
                 Rectify(c, p, s, given) \/ RectifyOnBehalf(c, p, s, given)
           \/ LockRow(c) \/ CommitCorrection(c) \/ AbortCorrection(c)
    PROVE  PortalTyped'
<1>1. ASSUME NEW p \in Subjects, NEW s \in Submissions, NEW given \in Corrections, NEW identity,
             NEW by \in {"dsr_self_service", "dsr_operator"},
             ReadIdentity(c, by, p, s, given, identity)
      PROVE  PortalTyped'
  <2> DEFINE x == [step |-> "read", by |-> by, subject |-> p, submission |-> s, given |-> given,
                   identity |-> identity, before |-> <<>>]
  <2>1. CallTyped(x)
    BY DEF CallTyped
  <2>2. calls' \in [Calls -> {calls'[d] : d \in Calls}] /\ \A d \in Calls : CallTyped(calls'[d])
    BY <1>1, <2>1, CallType DEF ReadIdentity
  <2> QED BY <1>1, <2>2 DEF ReadIdentity, PortalTyped, records
<1>2. CASE LockRow(c)
  <2> DEFINE x == [calls[c] EXCEPT !.step = "locked", !.before = answers[calls[c].submission]]
  <2>1. CallTyped(calls[c]) /\ calls[c].step = "read" /\ calls \in [Calls -> {calls[d] : d \in Calls}]
    BY <1>2 DEF LockRow, PortalTyped
  <2>2. CallTyped(x)
    BY <2>1 DEF CallTyped
  <2>3. CASE calls' = [calls EXCEPT ![c].step = "locked",
                                    ![c].before = answers[calls[c].submission]]
    <3>1. calls' = [calls EXCEPT ![c] = x]
      BY <2>3, <2>1
    <3>2. calls' \in [Calls -> {calls'[d] : d \in Calls}] /\ \A d \in Calls : CallTyped(calls'[d])
      BY <2>2, <3>1, CallType
    <3>3. lock' \in [Submissions -> Calls \cup {None}]
      BY <1>2 DEF LockRow, PortalTyped
    <3> QED BY <1>2, <3>2, <3>3 DEF LockRow, PortalTyped, records
  <2>4. CASE EndCall(c, "refused") /\ UNCHANGED lock
    <3>1. calls' \in [Calls -> {calls'[d] : d \in Calls}] /\ \A d \in Calls : CallTyped(calls'[d])
      BY <2>4, EndCallType
    <3> QED BY <1>2, <2>4, <3>1 DEF LockRow, PortalTyped, records
  <2> QED BY <1>2, <2>3, <2>4 DEF LockRow
<1>3. CASE CommitCorrection(c)
  <2>1. /\ calls[c].step = "locked" /\ CallTyped(calls[c])
        /\ calls[c].submission \in Submissions /\ calls[c].subject \in Subjects
        /\ calls[c].given \in Corrections
    BY <1>3 DEF CommitCorrection, PortalTyped, CallTyped
  <2>2. calls' \in [Calls -> {calls'[d] : d \in Calls}] /\ \A d \in Calls : CallTyped(calls'[d])
    BY <1>3, EndCallType DEF CommitCorrection
  <2>3. lock' \in [Submissions -> Calls \cup {None}]
    BY <1>3, UnlockType DEF CommitCorrection
  <2>4. requests' \in Seq(RequestSet)
    <3>1. "rectify" \in ValidTypes
      BY DEF ValidTypes
    <3> DEFINE r == [NewRequest(calls[c].subject, "rectify") EXCEPT !.status = "fulfilled"]
    <3>2. r \in RequestSet
      BY <2>1, <3>1, NewRequestType
    <3>3. requests' \in {requests, Append(requests, r)}
      BY <1>3 DEF CommitCorrection, Recorded
    <3> QED BY <3>2, <3>3 DEF PortalTyped
  <2>5. key' \in [Subjects -> Idents \cup {None, Gone}]
    <3>1. Rekeys(c) => Value(calls[c].given) \in Idents
      BY <2>1, CorrectionsAssumption DEF Rekeys, RekeysForSubject, RekeysOnBehalf, Moves
    <3> QED BY <1>3, <2>1, <3>1 DEF CommitCorrection, PortalTyped
  <2>6. /\ DOMAIN revisions' = Submissions /\ DOMAIN changes' = Submissions
        /\ \A s \in Submissions : IsSeq(revisions'[s]) /\ IsSeq(changes'[s])
    <3> DEFINE s == calls[c].submission
    <3>1. IsSeq(revisions[s]) /\ IsSeq(changes[s]) /\ s \in Submissions
      BY <2>1 DEF PortalTyped
    <3>2. \A e : IsSeq(Append(revisions[s], e)) /\ IsSeq(Append(changes[s], e))
      BY <3>1, AppendSeq
    <3>3. /\ \E e : revisions' = [revisions EXCEPT ![s] = Append(@, e)]
          /\ \E e : changes' = [changes EXCEPT ![s] = Append(@, e)]
      BY <1>3 DEF CommitCorrection
    <3> QED BY <3>1, <3>2, <3>3 DEF PortalTyped
  <2>7. DOMAIN answers' = Submissions
    BY <1>3 DEF CommitCorrection, PortalTyped
  <2> QED BY <1>3, <2>2, <2>3, <2>4, <2>5, <2>6, <2>7 DEF CommitCorrection, PortalTyped
<1>4. CASE AbortCorrection(c)
  BY <1>4, EndCallType, UnlockType DEF AbortCorrection, PortalTyped, records
<1> QED BY <1>1, <1>2, <1>3, <1>4 DEF Rectify, RectifyOnBehalf

\* What steps do to the requests: one is appended, or their statuses change.
LEMMA RequestMoves ==
    ASSUME PortalTyped, NEW q \in DOMAIN requests,
           \/ Fulfil(q) \/ Reject(q)
    PROVE  /\ requests' \in Seq(RequestSet) /\ DOMAIN requests' = DOMAIN requests
           /\ \A r \in DOMAIN requests : r # q => requests'[r] = requests[r]
           /\ \E how \in Closed : requests'[q] = [requests[q] EXCEPT !.status = how]
           /\ Fulfil(q) => requests[q].type # "rectify"
           /\ Reject(q) => requests'[q].status = "rejected" /\ requests[q].status = "verified"
<1>1. /\ Len(requests) \in Nat /\ DOMAIN requests = 1 .. Len(requests)
      /\ requests[q] \in RequestSet
  BY DEF PortalTyped
<1>2. \E how \in Closed : requests' = [requests EXCEPT ![q].status = how]
  BY DEF Fulfil, Reject, Closed
<1>3. /\ DOMAIN requests' = DOMAIN requests
      /\ requests' = [r \in DOMAIN requests |-> requests'[r]]
      /\ \A r \in DOMAIN requests : r # q => requests'[r] = requests[r]
      /\ \E how \in Closed : requests'[q] = [requests[q] EXCEPT !.status = how]
  BY <1>2
<1>4. requests' \in Seq(RequestSet)
  BY <1>3, RequestsType
<1>5. Reject(q) => requests'[q].status = "rejected" /\ requests[q].status = "verified"
  BY <1>1 DEF Reject, Open, RequestSet
<1> QED BY <1>3, <1>4, <1>5 DEF Fulfil

\* A pass of the worker fulfils requests it can fulfil by itself.
LEMMA TickMoves ==
    ASSUME PortalTyped, ProcessorTick
    PROVE  /\ requests' \in Seq(RequestSet) /\ DOMAIN requests' = DOMAIN requests
           /\ \A q \in DOMAIN requests :
                 \/ requests'[q] = requests[q]
                 \/ /\ requests[q].type \in AutoFulfillable
                    /\ requests'[q] = [requests[q] EXCEPT !.status = "fulfilled"]
<1>1. /\ DOMAIN requests' = DOMAIN requests
      /\ requests' = [q \in DOMAIN requests |-> requests'[q]]
      /\ \A q \in DOMAIN requests :
            \/ requests'[q] = requests[q]
            \/ /\ requests[q].type \in AutoFulfillable
               /\ requests'[q] = [requests[q] EXCEPT !.status = "fulfilled"]
  BY DEF ProcessorTick
<1>2. "fulfilled" \in Closed
  BY DEF Closed
<1> QED BY <1>1, <1>2, RequestsType

\* What a pass of the worker deletes is held by no correction, and of a subject
\* whose key it destroys.
LEMMA TickDeletes ==
    ASSUME PortalTyped, ProcessorTick
    PROVE  \E gone : /\ Deleted(gone) /\ Unlocked(gone) /\ gone \subseteq Present
                     /\ \A s \in gone : owner[s] \in Subjects /\ key'[owner[s]] = Gone
                     /\ UNCHANGED <<owner, doomed, changes, lock, calls, pages>>
<1> DEFINE todo == {q \in DOMAIN requests : Open(q) /\ requests[q].type \in AutoFulfillable}
           erased == {requests[q].subject : q \in {r \in todo : requests[r].type = "erase"}}
           gone == UNION {Of(p) : p \in erased}
<1>1. erased \subseteq Subjects
  <2>1. \A q \in DOMAIN requests : requests[q] \in RequestSet
    BY DEF PortalTyped
  <2> QED BY <2>1 DEF RequestSet
<1>2. /\ Deleted(gone) /\ Unlocked(gone)
      /\ key' = [p \in Subjects |-> IF p \in erased THEN Gone ELSE key[p]]
      /\ UNCHANGED <<owner, doomed, changes, lock, calls, pages>>
  BY DEF ProcessorTick
<1>3. \A s \in gone : s \in Present /\ owner[s] \in erased
  BY DEF Of
<1> HIDE DEF gone, erased
<1> QED BY <1>1, <1>2, <1>3

\* Every step of a request keeps the types.
LEMMA RequestType ==
    ASSUME PortalTyped,
           \/ \E p \in Subjects, type \in Types : Raise(p, type)
           \/ \E q \in DOMAIN requests : Fulfil(q) \/ Reject(q)
           \/ ProcessorTick
    PROVE  PortalTyped'
<1>1. ASSUME NEW p \in Subjects, NEW type \in Types, Raise(p, type) PROVE PortalTyped'
  <2>1. NewRequest(p, type) \in RequestSet
    BY TypesAssumption, NewRequestType
  <2>2. requests' \in Seq(RequestSet)
    BY <1>1, <2>1 DEF Raise, PortalTyped
  <2> QED BY <1>1, <2>2 DEF Raise, PortalTyped, records
<1>2. ASSUME NEW q \in DOMAIN requests, Fulfil(q) PROVE PortalTyped'
  <2>1. requests' \in Seq(RequestSet)
    BY <1>2, RequestMoves
  <2> QED BY <1>2, <2>1 DEF Fulfil, PortalTyped
<1>3. ASSUME NEW q \in DOMAIN requests, Reject(q) PROVE PortalTyped'
  <2>1. requests' \in Seq(RequestSet)
    BY <1>3, RequestMoves
  <2> QED BY <1>3, <2>1 DEF Reject, PortalTyped, records
<1>4. CASE ProcessorTick
  <2>1. requests' \in Seq(RequestSet)
    BY <1>4, TickMoves
  <2>2. key' \in [Subjects -> Idents \cup {None, Gone}]
    BY <1>4 DEF ProcessorTick, PortalTyped
  <2>3. PICK gone : Deleted(gone) /\ UNCHANGED <<owner, doomed, changes, lock, calls, pages>>
    BY <1>4, TickDeletes
  <2> QED BY <2>1, <2>2, <2>3, DeletedType DEF PortalTyped
<1> QED BY <1>1, <1>2, <1>3, <1>4

\* Every step of the portal keeps the types.
LEMMA PortalTypeStep ==
    ASSUME PortalTyped, [PortalNext]_portalVars
    PROVE  PortalTyped'
<1>1. ASSUME NEW s \in Submissions, NEW v \in Idents, Arrive(s, v) PROVE PortalTyped'
  <2>1. \E e : changes' = [changes EXCEPT ![s] = <<e>>]
    BY <1>1 DEF Arrive
  <2>2. DOMAIN changes' = Submissions /\ \A r \in Submissions : IsSeq(changes'[r])
    BY <2>1, ShortSeqs DEF PortalTyped
  <2> QED BY <1>1, <2>2 DEF Arrive, PortalTyped
<1>2. CASE PurgeChoose
  BY <1>2 DEF PurgeChoose, PortalTyped, Active
<1>3. CASE PurgeDelete
  BY <1>3, DeletedType DEF PurgeDelete, PortalTyped
<1>4. ASSUME NEW r \in Readers, ReadRevisions(r) \/ \E s \in Submissions : ReadCurrent(r, s)
      PROVE  PortalTyped'
  BY <1>4 DEF ReadRevisions, ReadCurrent, PortalTyped, records
<1>5. CASE UNCHANGED portalVars
  BY <1>5 DEF portalVars, records, PortalTyped
<1> QED BY <1>1, <1>2, <1>3, <1>4, <1>5, CorrectionType, RequestType DEF PortalNext

-----------------------------------------------------------------------------
(* What a step does to a record, and to a correction.                      *)

\* A record arrives, is corrected, restricted or deleted; the last two wait for
\* a correction that holds it.
Arrives(s) ==
    /\ status[s] = "absent" /\ status'[s] = "active"
    /\ owner'[s] \in Subjects
    /\ \E v \in Idents : /\ answers'[s] = Only(v)
                         /\ changes'[s] = <<[answers |-> Only(v), by |-> "visitor"]>>
    /\ revisions'[s] = revisions[s]

Restricted(s) ==
    /\ lock[s] = None
    /\ status[s] = "active" /\ status'[s] = "restricted"
    /\ owner'[s] = owner[s] /\ answers'[s] = answers[s]
    /\ revisions'[s] = revisions[s] /\ changes'[s] = changes[s]

Goes(s) ==
    /\ lock[s] = None
    /\ status'[s] = "deleted" /\ owner'[s] = owner[s]
    /\ answers'[s] = <<>> /\ revisions'[s] = <<>> /\ changes'[s] = changes[s]
    /\ s \in doomed \/ (owner[s] \in Subjects /\ key'[owner[s]] = Gone)

Stays(s) ==
    /\ status'[s] = status[s] /\ owner'[s] = owner[s] /\ answers'[s] = answers[s]
    /\ revisions'[s] = revisions[s] /\ changes'[s] = changes[s]

\* Every step does one of these to a record, or leaves it as it is.
LEMMA RowMoves ==
    ASSUME PortalTyped, [PortalNext]_portalVars, NEW s \in Submissions
    PROVE  \/ Stays(s) \/ Arrives(s) \/ Restricted(s) \/ Goes(s)
           \/ \E c \in Calls : CommitCorrection(c) /\ calls[c].submission = s
<1>1. ASSUME NEW r \in Submissions, NEW v \in Idents, Arrive(r, v) PROVE Stays(s) \/ Arrives(s)
  <2>1. CASE r = s
    BY <1>1, <2>1 DEF Arrive, Arrives, PortalTyped
  <2>2. CASE r # s
    BY <1>1, <2>2 DEF Arrive, Stays, PortalTyped
  <2> QED BY <2>1, <2>2
<1>2. ASSUME UNCHANGED records PROVE Stays(s)
  BY <1>2 DEF records, Stays
<1>3. ASSUME NEW c \in Calls,
             \/ \E p \in Subjects, r \in Submissions, given \in Corrections :
                   Rectify(c, p, r, given) \/ RectifyOnBehalf(c, p, r, given)
             \/ LockRow(c) \/ AbortCorrection(c)
      PROVE  Stays(s)
  BY <1>2, <1>3 DEF Rectify, RectifyOnBehalf, ReadIdentity, LockRow, AbortCorrection
<1>4. ASSUME NEW c \in Calls, CommitCorrection(c), calls[c].submission # s PROVE Stays(s)
  <2> DEFINE r == calls[c].submission
  <2>1. /\ UNCHANGED <<status, owner>>
        /\ \E e : revisions' = [revisions EXCEPT ![r] = e]
        /\ \E e : answers' = [answers EXCEPT ![r] = e]
        /\ \E e : changes' = [changes EXCEPT ![r] = e]
    BY <1>4 DEF CommitCorrection
  <2> QED BY <1>4, <2>1 DEF Stays, PortalTyped
<1>5. ASSUME NEW q \in DOMAIN requests, Fulfil(q) PROVE Stays(s) \/ Restricted(s)
  <2>1. /\ UNCHANGED <<owner, answers, revisions, changes>>
        /\ \E rows : /\ rows \subseteq Active /\ Unlocked(rows)
                     /\ status' = [r \in Submissions |-> IF r \in rows THEN "restricted" ELSE status[r]]
    BY <1>5 DEF Fulfil
  <2> QED BY <2>1 DEF Stays, Restricted, Active, Unlocked
<1>6. ASSUME NEW gone, Deleted(gone), Unlocked(gone), UNCHANGED <<owner, changes>>,
             \A r \in gone : r \in doomed \/ (owner[r] \in Subjects /\ key'[owner[r]] = Gone)
      PROVE  Stays(s) \/ Goes(s)
  BY <1>6 DEF Deleted, Unlocked, Stays, Goes
<1>7. CASE ProcessorTick
  <2>1. PICK gone : /\ Deleted(gone) /\ Unlocked(gone)
                    /\ \A r \in gone : owner[r] \in Subjects /\ key'[owner[r]] = Gone
                    /\ UNCHANGED <<owner, doomed, changes, lock, calls, pages>>
    BY <1>7, TickDeletes
  <2> QED BY <1>6, <2>1
<1>8. CASE PurgeDelete
  BY <1>6, <1>8 DEF PurgeDelete
<1>9. CASE PurgeChoose
  BY <1>9 DEF PurgeChoose, Stays
<1>10. ASSUME \/ \E p \in Subjects, type \in Types : Raise(p, type)
              \/ \E q \in DOMAIN requests : Reject(q)
              \/ \E r \in Readers : ReadRevisions(r) \/ \E t \in Submissions : ReadCurrent(r, t)
       PROVE  Stays(s)
  BY <1>2, <1>10 DEF Raise, Reject, ReadRevisions, ReadCurrent
<1>11. CASE UNCHANGED portalVars
  BY <1>2, <1>11 DEF portalVars
<1> QED BY <1>1, <1>3, <1>4, <1>5, <1>7, <1>8, <1>9, <1>10, <1>11 DEF PortalNext

\* Who holds a row still does, or has just read it.
LEMMA CallLocks ==
    ASSUME PortalTyped, LockHeld, [PortalNext]_portalVars,
           NEW d \in Calls, calls'[d].step = "locked"
    PROVE  /\ ~CommitCorrection(d)
           /\ calls'[d].submission \in Submissions
           /\ lock'[calls'[d].submission] = d
           /\ \/ calls'[d] = calls[d]
              \/ /\ UNCHANGED records
                 /\ status[calls'[d].submission] = "active"
                 /\ owner[calls'[d].submission] = calls'[d].subject
                 /\ answers[calls'[d].submission] = calls'[d].before
<1> DEFINE s == calls'[d].submission
           Held == /\ calls'[d] = calls[d] /\ lock[s] = d
                   /\ s \in Submissions /\ ~CommitCorrection(d)
           Took == /\ UNCHANGED records
                   /\ status[s] = "active" /\ owner[s] = calls'[d].subject
                   /\ answers[s] = calls'[d].before
                   /\ s \in Submissions /\ ~CommitCorrection(d)
<1>0. /\ \A c \in Calls : CallTyped(calls[c])
      /\ calls \in [Calls -> {calls[c] : c \in Calls}]
  BY DEF PortalTyped
<1>1. ASSUME UNCHANGED <<calls, lock>> PROVE Held /\ lock'[s] = d
  BY <1>0, <1>1 DEF LockHeld, CallTyped, CommitCorrection, EndCall
<1>2. ASSUME NEW c \in Calls, NEW by, NEW p, NEW r, NEW given, NEW identity,
             ReadIdentity(c, by, p, r, given, identity)
      PROVE  Held /\ lock'[s] = d
  <2>1. c # d
    BY <1>0, <1>2 DEF ReadIdentity
  <2> QED BY <1>0, <1>2, <2>1 DEF ReadIdentity, LockHeld, CallTyped, CommitCorrection, EndCall
<1>3. ASSUME NEW c \in Calls, NEW how \in {"done", "refused"}, EndCall(c, how)
      PROVE  Held /\ c # d
  BY <1>0, <1>3 DEF EndCall, LockHeld, CallTyped, CommitCorrection
<1>4. ASSUME NEW c \in Calls, LockRow(c) PROVE (Held \/ Took) /\ lock'[s] = d
  <2> DEFINE r == calls[c].submission
  <2>1. CASE EndCall(c, "refused") /\ UNCHANGED lock
    BY <1>3, <2>1
  <2>2. CASE /\ Rectifiable(c) /\ lock[r] = None /\ lock' = [lock EXCEPT ![r] = c]
             /\ calls' = [calls EXCEPT ![c].step = "locked", ![c].before = answers[r]]
    <3>1. r \in Submissions
      BY <1>0, <1>4 DEF LockRow, CallTyped
    <3>2. CASE c = d
      <4>1. calls'[d] = [calls[d] EXCEPT !.step = "locked", !.before = answers[r]]
        BY <1>0, <2>2, <3>2
      <4>2. /\ s = r /\ calls'[d].subject = calls[d].subject /\ calls'[d].before = answers[r]
        BY <1>0, <1>4, <3>2, <4>1 DEF LockRow, CallTyped
      <4>3. ~CommitCorrection(d)
        BY <1>4, <3>2 DEF LockRow, CommitCorrection
      <4> QED BY <1>4, <2>2, <3>1, <3>2, <4>2, <4>3 DEF LockRow, Rectifiable, PortalTyped
    <3>3. CASE c # d
      <4>1. Held
        BY <1>0, <2>2, <3>3 DEF LockHeld, CallTyped, CommitCorrection, EndCall
      <4>2. lock[s] # None
        BY <4>1, CallsAssumption
      <4> QED BY <2>2, <4>1, <4>2 DEF PortalTyped
    <3> QED BY <3>2, <3>3
  <2> QED BY <1>4, <2>1, <2>2 DEF LockRow
<1>5. ASSUME NEW c \in Calls, CommitCorrection(c) \/ AbortCorrection(c) PROVE Held /\ lock'[s] = d
  <2>1. Held /\ c # d
    BY <1>3, <1>5 DEF CommitCorrection, AbortCorrection
  <2> QED BY <1>5, <2>1 DEF CommitCorrection, AbortCorrection, Unlock
<1>6. ASSUME \/ \E r \in Submissions, v \in Idents : Arrive(r, v)
             \/ \E p \in Subjects, type \in Types : Raise(p, type)
             \/ \E q \in DOMAIN requests : Fulfil(q) \/ Reject(q)
             \/ ProcessorTick \/ PurgeChoose \/ PurgeDelete
             \/ \E r \in Readers : ReadRevisions(r) \/ \E t \in Submissions : ReadCurrent(r, t)
             \/ UNCHANGED portalVars
      PROVE  UNCHANGED <<calls, lock>>
  BY <1>6 DEF Arrive, Raise, Fulfil, Reject, ProcessorTick, PurgeChoose, PurgeDelete,
              ReadRevisions, ReadCurrent, portalVars
<1>7. (Held \/ Took) /\ lock'[s] = d
  BY <1>1, <1>2, <1>4, <1>5, <1>6 DEF PortalNext, Rectify, RectifyOnBehalf
<1> QED BY <1>7

-----------------------------------------------------------------------------
(* The parts of the invariant about the records.                           *)

\* Only the correction that holds a row corrects it.
LEMMA OneHolds ==
    ASSUME PortalTyped, LockHeld, NEW c \in Calls, NEW d \in Calls, CommitCorrection(c),
           calls[d].step = "locked", calls[c].submission = calls[d].submission
    PROVE  c = d
BY DEF LockHeld, CommitCorrection

\* A row that a correction holds is as it was read.
LEMMA LockHeldStep ==
    ASSUME PortalTyped, LockHeld, [PortalNext]_portalVars
    PROVE  LockHeld'
<1> SUFFICES ASSUME NEW d \in Calls, calls'[d].step = "locked"
             PROVE  LET s == calls'[d].submission IN
                    /\ lock'[s] = d /\ status'[s] = "active"
                    /\ owner'[s] = calls'[d].subject /\ answers'[s] = calls'[d].before
  BY DEF LockHeld
<1> DEFINE s == calls'[d].submission
<1>1. /\ ~CommitCorrection(d) /\ s \in Submissions /\ lock'[s] = d
      /\ \/ calls'[d] = calls[d]
         \/ /\ UNCHANGED records
            /\ status[s] = "active" /\ owner[s] = calls'[d].subject /\ answers[s] = calls'[d].before
  BY CallLocks
<1>2. CASE calls'[d] = calls[d]
  <2>1. /\ lock[s] = d /\ status[s] = "active"
        /\ owner[s] = calls'[d].subject /\ answers[s] = calls'[d].before
    BY <1>2 DEF LockHeld
  <2>2. lock[s] # None
    BY <2>1, CallsAssumption
  <2>3. \A c \in Calls : ~(CommitCorrection(c) /\ calls[c].submission = s)
    BY <1>1, <1>2, OneHolds
  <2>4. Stays(s)
    BY <1>1, <2>1, <2>2, <2>3, RowMoves DEF Arrives, Restricted, Goes
  <2> QED BY <1>1, <2>1, <2>4 DEF Stays
<1>3. CASE UNCHANGED records
  BY <1>1, <1>2, <1>3 DEF records
<1> QED BY <1>1, <1>2, <1>3

\* No record that has not arrived gets a past.
LEMMA BlankStep ==
    ASSUME PortalTyped, LockHeld, Blank, [PortalNext]_portalVars
    PROVE  Blank'
<1> SUFFICES ASSUME NEW s \in Submissions, status'[s] = "absent"
             PROVE  revisions'[s] = <<>> /\ changes'[s] = <<>>
  BY DEF Blank
<1>1. \A c \in Calls : CommitCorrection(c) /\ calls[c].submission = s => status'[s] = "active"
  BY DEF CommitCorrection, LockHeld
<1>2. Stays(s)
  BY <1>1, RowMoves DEF Arrives, Restricted, Goes
<1> QED BY <1>2 DEF Stays, Blank

Replayed(revs, chs, current) ==
    LET n == Len(revs) IN
    /\ Len(chs) = n + 1
    /\ \A i \in 1 .. n : /\ revs[i].before = chs[i].answers
                         /\ revs[i].by = chs[i + 1].by
    /\ current = chs[n + 1].answers

Replays(s) == Replayed(revisions[s], changes[s], answers[s])

\* One revision and one change more, of the value that was current.
LEMMA ReplayAppend ==
    ASSUME NEW revs, NEW chs, IsSeq(revs), IsSeq(chs), NEW current, Replayed(revs, chs, current),
           NEW rev, NEW new, rev.before = current, rev.by = new.by
    PROVE  Replayed(Append(revs, rev), Append(chs, new), new.answers)
<1> DEFINE n == Len(revs)
           revs2 == Append(revs, rev)
           chs2 == Append(chs, new)
<1>1. /\ n \in Nat /\ Len(revs2) = n + 1
      /\ revs2[n + 1] = rev /\ \A i \in 1 .. n : revs2[i] = revs[i]
  BY AppendSeq
<1>2. /\ Len(chs2) = Len(chs) + 1 /\ chs2[Len(chs2)] = new
      /\ \A i \in 1 .. Len(chs) : chs2[i] = chs[i]
  BY AppendSeq
<1>3. /\ Len(chs) = n + 1 /\ current = chs[n + 1].answers
      /\ \A i \in 1 .. n : revs[i].before = chs[i].answers /\ revs[i].by = chs[i + 1].by
  BY DEF Replayed
<1> HIDE DEF n, revs2, chs2
<1>4. /\ Len(chs2) = n + 1 + 1 /\ chs2[n + 1 + 1] = new
      /\ \A i \in 1 .. n + 1 : chs2[i] = chs[i]
  BY <1>2, <1>3
<1>5. ASSUME NEW i \in 1 .. n + 1
      PROVE  revs2[i].before = chs2[i].answers /\ revs2[i].by = chs2[i + 1].by
  <2>1. CASE i = n + 1
    <3>1. revs2[i] = rev /\ chs2[i + 1] = new /\ chs2[i] = chs[i]
      BY <2>1, <1>1, <1>4
    <3> QED BY <3>1, <2>1, <1>3
  <2>2. CASE i \in 1 .. n
    <3>1. i + 1 \in 1 .. n + 1
      BY <2>2, <1>1
    <3>2. revs2[i] = revs[i] /\ chs2[i] = chs[i] /\ chs2[i + 1] = chs[i + 1]
      BY <2>2, <3>1, <1>1, <1>4
    <3> QED BY <2>2, <3>2, <1>3
  <2> QED BY <1>1, <2>1, <2>2
<1> QED BY <1>1, <1>4, <1>5 DEF Replayed, revs2, chs2

\* A correction keeps what was there before it.
LEMMA CommitReplays ==
    ASSUME PortalTyped, LockHeld, NEW c \in Calls, CommitCorrection(c),
           NEW s, s = calls[c].submission, Replays(s)
    PROVE  Replays(s)'
<1>1. s \in Submissions /\ answers[s] = calls[c].before
  BY DEF CommitCorrection, LockHeld, PortalTyped, CallTyped
<1>2. PICK after : /\ revisions' = [revisions EXCEPT ![s] =
                          Append(@, [before |-> calls[c].before, by |-> calls[c].by])]
                   /\ answers' = [answers EXCEPT ![s] = after]
                   /\ changes' = [changes EXCEPT ![s] =
                          Append(@, [answers |-> after, by |-> calls[c].by])]
  BY DEF CommitCorrection
<1> DEFINE rev == [before |-> calls[c].before, by |-> calls[c].by]
           new == [answers |-> after, by |-> calls[c].by]
<1>3. /\ revisions'[s] = Append(revisions[s], rev) /\ changes'[s] = Append(changes[s], new)
      /\ answers'[s] = after
  BY <1>1, <1>2 DEF PortalTyped
<1>4. IsSeq(revisions[s]) /\ IsSeq(changes[s]) /\ Replayed(revisions[s], changes[s], answers[s])
  BY <1>1 DEF PortalTyped, Replays
<1>5. rev.before = answers[s] /\ rev.by = new.by /\ new.answers = after
  BY <1>1
<1> HIDE DEF rev, new
<1>6. Replayed(Append(revisions[s], rev), Append(changes[s], new), new.answers)
  BY <1>4, <1>5, ReplayAppend
<1> QED BY <1>3, <1>5, <1>6 DEF Replays

\* The revisions go on replaying the record.
LEMMA ReplayStep ==
    ASSUME PortalTyped, Blank, LockHeld, RevisionsReplay, [PortalNext]_portalVars
    PROVE  RevisionsReplay'
<1> SUFFICES ASSUME NEW s \in Submissions, s \in Present' PROVE Replays(s)'
  BY DEF RevisionsReplay, Replays, Replayed, Present
<1>0. s \in Present => Replays(s)
  BY DEF RevisionsReplay, Replays, Replayed
<1>1. CASE Stays(s)
  BY <1>0, <1>1 DEF Stays, Replays, Present
<1>2. CASE Arrives(s)
  <2>1. revisions'[s] = <<>>
    BY <1>2 DEF Arrives, Blank
  <2>2. PICK v : answers'[s] = Only(v) /\ changes'[s] = <<[answers |-> Only(v), by |-> "visitor"]>>
    BY <1>2 DEF Arrives
  <2> QED BY <2>1, <2>2, ShortSeqs DEF Replays, Replayed
<1>3. CASE Restricted(s)
  BY <1>0, <1>3 DEF Restricted, Replays, Present
<1>4. CASE Goes(s)
  BY <1>4 DEF Goes, Present
<1>5. ASSUME NEW c \in Calls, CommitCorrection(c), calls[c].submission = s PROVE Replays(s)'
  <2>1. s \in Present
    BY <1>5 DEF CommitCorrection, LockHeld, Present
  <2> QED BY <1>0, <1>5, <2>1, CommitReplays
<1> QED BY <1>1, <1>2, <1>3, <1>4, <1>5, RowMoves

\* The answers never name the mark of an identity that could not be read.
LEMMA AnswersReadStep ==
    ASSUME PortalTyped, LockHeld, AnswersRead, [PortalNext]_portalVars
    PROVE  AnswersRead'
<1> SUFFICES ASSUME NEW s \in Submissions PROVE Value(answers'[s]) # Unread
  BY DEF AnswersRead
<1>1. CASE Stays(s) \/ Restricted(s)
  BY <1>1 DEF Stays, Restricted, AnswersRead
<1>2. CASE Arrives(s)
  BY <1>2, IdentsAssumption DEF Arrives, Value, Only
<1>3. CASE Goes(s)
  <2>1. Value(<<>>) = None
    BY ShortSeqs DEF Value
  <2> QED BY <1>3, <2>1 DEF Goes, None, Unread
<1>4. ASSUME NEW c \in Calls, CommitCorrection(c), calls[c].submission = s
      PROVE  Value(answers'[s]) # Unread
  <2>1. /\ calls[c].given \in Corrections /\ calls[c].before = answers[s]
        /\ answers'[s] \in {calls[c].given, Merged(calls[c].given, calls[c].before)}
    BY <1>4 DEF CommitCorrection, LockHeld, PortalTyped, CallTyped
  <2>2. Value(calls[c].given) # Unread
    BY <2>1, CorrectionsAssumption, IdentsAssumption DEF None, Unread
  <2>3. Value(calls[c].before) # Unread
    BY <2>1 DEF AnswersRead
  <2>4. Value(Merged(calls[c].given, calls[c].before)) # Unread
    BY <2>2, <2>3 DEF Merged, Value, None, Unread
  <2> QED BY <2>1, <2>2, <2>4
<1> QED BY <1>1, <1>2, <1>3, <1>4, RowMoves

-----------------------------------------------------------------------------
(* Requests and corrections are counted alike.                             *)

OperatorChanges(x) == {i \in DOMAIN x : x[i].by = "dsr_operator"}

CorrectedOf(p, own, chs) ==
    UNION {{s} \X OperatorChanges(chs[s]) : s \in {r \in Submissions : own[r] = p}}

\* What operators corrected of a subject, before and after a step.
LEMMA CorrectedIs ==
    ASSUME NEW p
    PROVE  /\ Corrected(p) = CorrectedOf(p, owner, changes)
           /\ Corrected(p)' = CorrectedOf(p, owner', changes')
BY DEF Corrected, CorrectedOf, OperatorChanges

\* It is the same when no record of the subject has another operator's change.
LEMMA SameCorrections ==
    ASSUME NEW p, NEW own, NEW chs, NEW own2, NEW chs2,
           \A s \in Submissions : own[s] = p \/ own2[s] = p =>
              /\ OperatorChanges(chs2[s]) = OperatorChanges(chs[s])
              /\ own2[s] = own[s] \/ OperatorChanges(chs[s]) = {}
    PROVE  CorrectedOf(p, own2, chs2) = CorrectedOf(p, own, chs)
BY DEF CorrectedOf

\* One correction of one record counts once.
LEMMA OneCorrection ==
    ASSUME NEW p, NEW own, NEW chs, NEW chs2, NEW s \in Submissions, own[s] = p,
           NEW i, i \notin OperatorChanges(chs[s]),
           OperatorChanges(chs2[s]) = OperatorChanges(chs[s]) \cup {i},
           \A r \in Submissions \ {s} : chs2[r] = chs[r]
    PROVE  /\ CorrectedOf(p, own, chs2) = CorrectedOf(p, own, chs) \cup {<<s, i>>}
           /\ <<s, i>> \notin CorrectedOf(p, own, chs)
BY DEF CorrectedOf

\* The operator's changes after one change more.
LEMMA AppendChange ==
    ASSUME NEW x, IsSeq(x), NEW e
    PROVE  /\ Len(x) + 1 \notin DOMAIN x
           /\ e.by = "dsr_operator" =>
                OperatorChanges(Append(x, e)) = OperatorChanges(x) \cup {Len(x) + 1}
           /\ e.by # "dsr_operator" => OperatorChanges(Append(x, e)) = OperatorChanges(x)
<1>1. PICK y : y = Append(x, e)
  OBVIOUS
<1>2. /\ Len(x) \in Nat /\ DOMAIN x = 1 .. Len(x) /\ DOMAIN y = 1 .. Len(x) + 1
      /\ y[Len(x) + 1] = e /\ \A i \in 1 .. Len(x) : y[i] = x[i]
  BY <1>1, AppendSeq
<1>3. DOMAIN y = DOMAIN x \cup {Len(x) + 1} /\ Len(x) + 1 \notin DOMAIN x
  BY <1>2
<1> QED BY <1>1, <1>2, <1>3 DEF OperatorChanges

ByOperator(c) == CommitCorrection(c) /\ calls[c].by = "dsr_operator"

\* No other step closes a rectification, or takes back one that is closed.
LEMMA FulfilledKept ==
    ASSUME PortalTyped, [PortalNext]_portalVars, ~\E c \in Calls : ByOperator(c), NEW p
    PROVE  Fulfilled(p)' = Fulfilled(p)
<1> DEFINE it == [subject |-> p, type |-> "rectify", status |-> "fulfilled"]
<1>0. /\ Len(requests) \in Nat /\ DOMAIN requests = 1 .. Len(requests)
      /\ \A q \in DOMAIN requests : requests[q] \in RequestSet
  BY DEF PortalTyped
<1>1. ASSUME UNCHANGED requests PROVE Fulfilled(p)' = Fulfilled(p)
  BY <1>1 DEF Fulfilled
<1>2. ASSUME NEW u \in Subjects, NEW type \in Types, Raise(u, type)
      PROVE  Fulfilled(p)' = Fulfilled(p)
  <2>1. /\ DOMAIN requests' = DOMAIN requests \cup {Len(requests) + 1}
        /\ requests'[Len(requests) + 1] = NewRequest(u, type)
        /\ \A q \in DOMAIN requests : requests'[q] = requests[q]
    BY <1>0, <1>2 DEF Raise, PortalTyped
  <2>2. NewRequest(u, type) # it
    BY DEF NewRequest
  <2> QED BY <2>1, <2>2, <1>0 DEF Fulfilled
<1>3. ASSUME DOMAIN requests' = DOMAIN requests,
             \A q \in DOMAIN requests : requests'[q] # requests[q] =>
                requests'[q] # it /\ requests[q] # it
      PROVE  Fulfilled(p)' = Fulfilled(p)
  BY <1>3 DEF Fulfilled
<1>4. ASSUME NEW q \in DOMAIN requests, Fulfil(q) \/ Reject(q)
      PROVE  Fulfilled(p)' = Fulfilled(p)
  <2>1. PICK how \in Closed : requests'[q] = [requests[q] EXCEPT !.status = how]
    BY <1>4, RequestMoves
  <2>2. requests'[q].type = requests[q].type /\ requests'[q].status = how
    BY <2>1, <1>0 DEF RequestSet
  <2>3. \/ requests[q].type # "rectify"
        \/ requests'[q].status = "rejected" /\ requests[q].status = "verified"
    BY <1>4, RequestMoves
  <2>4. requests'[q] # it /\ requests[q] # it
    BY <2>2, <2>3
  <2> QED BY <1>3, <1>4, <2>4, RequestMoves
<1>5. CASE ProcessorTick
  <2>1. ASSUME NEW q \in DOMAIN requests, requests'[q] # requests[q]
        PROVE  requests'[q] # it /\ requests[q] # it
    <3>1. /\ requests[q].type \in AutoFulfillable
          /\ requests'[q] = [requests[q] EXCEPT !.status = "fulfilled"]
      BY <1>5, <2>1, TickMoves
    <3>2. requests'[q].type = requests[q].type
      BY <3>1, <1>0 DEF RequestSet
    <3> QED BY <3>1, <3>2 DEF AutoFulfillable
  <2> QED BY <1>3, <1>5, <2>1, TickMoves
<1>6. ASSUME NEW c \in Calls, CommitCorrection(c) PROVE UNCHANGED requests
  <2>1. calls[c].by # "dsr_operator"
    BY <1>6 DEF ByOperator
  <2>2. requests' = Recorded(c)
    BY <1>6 DEF CommitCorrection
  <2> QED BY <2>1, <2>2 DEF Recorded
<1>7. ASSUME \/ \E r \in Submissions, v \in Idents : Arrive(r, v)
             \/ \E c \in Calls :
                   \/ \E u \in Subjects, r \in Submissions, given \in Corrections :
                         Rectify(c, u, r, given) \/ RectifyOnBehalf(c, u, r, given)
                   \/ LockRow(c) \/ AbortCorrection(c)
             \/ PurgeChoose \/ PurgeDelete
             \/ \E r \in Readers : ReadRevisions(r) \/ \E t \in Submissions : ReadCurrent(r, t)
             \/ UNCHANGED portalVars
      PROVE  UNCHANGED requests
  BY <1>7 DEF Arrive, Rectify, RectifyOnBehalf, ReadIdentity, LockRow, AbortCorrection,
              PurgeChoose, PurgeDelete, ReadRevisions, ReadCurrent, portalVars
<1> QED BY <1>1, <1>2, <1>4, <1>5, <1>6, <1>7 DEF PortalNext

\* No other step adds to what operators corrected, or takes from it.
LEMMA CorrectedKept ==
    ASSUME PortalTyped, Blank, LockHeld, [PortalNext]_portalVars, NEW p \in Subjects,
           \A c \in Calls : ByOperator(c) => calls[c].subject # p
    PROVE  Corrected(p)' = Corrected(p)
<1>1. ASSUME NEW s \in Submissions, owner[s] = p \/ owner'[s] = p
      PROVE  /\ OperatorChanges(changes'[s]) = OperatorChanges(changes[s])
             /\ owner'[s] = owner[s] \/ OperatorChanges(changes[s]) = {}
  <2>1. CASE Stays(s) \/ Restricted(s) \/ Goes(s)
    BY <2>1 DEF Stays, Restricted, Goes
  <2>2. CASE Arrives(s)
    <3>1. changes[s] = <<>>
      BY <2>2 DEF Arrives, Blank
    <3>2. PICK e : changes'[s] = <<e>> /\ e.by = "visitor"
      BY <2>2 DEF Arrives
    <3> QED BY <3>1, <3>2, ShortSeqs DEF OperatorChanges
  <2>3. ASSUME NEW c \in Calls, CommitCorrection(c), calls[c].submission = s
        PROVE  /\ OperatorChanges(changes'[s]) = OperatorChanges(changes[s])
               /\ owner'[s] = owner[s]
    <3>1. owner[s] = calls[c].subject /\ owner'[s] = owner[s]
      BY <2>3 DEF CommitCorrection, LockHeld
    <3>2. calls[c].by # "dsr_operator"
      BY <1>1, <2>3, <3>1 DEF ByOperator
    <3>3. PICK e : changes'[s] = Append(changes[s], e) /\ e.by = calls[c].by
      BY <2>3 DEF CommitCorrection, PortalTyped
    <3>4. IsSeq(changes[s])
      BY DEF PortalTyped
    <3> QED BY <3>1, <3>2, <3>3, <3>4, AppendChange
  <2> QED BY <2>1, <2>2, <2>3, RowMoves
<1> QED BY <1>1, SameCorrections, CorrectedIs

\* An operator's correction counts once on either side.
LEMMA OperatorCounts ==
    ASSUME PortalTyped, LockHeld, NEW c \in Calls, ByOperator(c), NEW p, p = calls[c].subject
    PROVE  \E q, z : /\ q \notin Fulfilled(p) /\ Fulfilled(p)' = Fulfilled(p) \cup {q}
                     /\ z \notin Corrected(p) /\ Corrected(p)' = Corrected(p) \cup {z}
<1> DEFINE it == [subject |-> p, type |-> "rectify", status |-> "fulfilled"]
           q == Len(requests) + 1
<1>1. PICK s : s = calls[c].submission
  OBVIOUS
<1>2. /\ s \in Submissions /\ p \in Subjects /\ owner[s] = p /\ UNCHANGED owner
  BY <1>1 DEF ByOperator, CommitCorrection, LockHeld, PortalTyped, CallTyped
<1>3. requests' = Append(requests, it)
  <2>1. "rectify" \in ValidTypes
    BY DEF ValidTypes
  <2> QED BY <1>2, <2>1, NewRequestType DEF ByOperator, CommitCorrection, Recorded
<1>4. /\ q \notin DOMAIN requests /\ DOMAIN requests' = DOMAIN requests \cup {q}
      /\ requests'[q] = it /\ \A r \in DOMAIN requests : requests'[r] = requests[r]
  BY <1>3 DEF PortalTyped
<1>5. q \notin Fulfilled(p) /\ Fulfilled(p)' = Fulfilled(p) \cup {q}
  BY <1>4 DEF Fulfilled
<1>6. PICK e : changes' = [changes EXCEPT ![s] = Append(@, e)] /\ e.by = "dsr_operator"
  <2>1. CommitCorrection(c) /\ calls[c].by = "dsr_operator"
    BY DEF ByOperator
  <2>2. PICK after : changes' = [changes EXCEPT ![s] =
                                   Append(@, [answers |-> after, by |-> calls[c].by])]
    BY <1>1, <2>1 DEF CommitCorrection
  <2>3. [answers |-> after, by |-> calls[c].by].by = "dsr_operator"
    BY <2>1
  <2> WITNESS [answers |-> after, by |-> calls[c].by]
  <2> QED BY <2>2, <2>3
<1>7. /\ IsSeq(changes[s]) /\ changes'[s] = Append(changes[s], e)
      /\ \A r \in Submissions \ {s} : changes'[r] = changes[r]
  BY <1>2, <1>6 DEF PortalTyped
<1>8. PICK i : /\ i \notin OperatorChanges(changes[s])
               /\ OperatorChanges(changes'[s]) = OperatorChanges(changes[s]) \cup {i}
  BY <1>6, <1>7, AppendChange DEF OperatorChanges
<1>9. /\ <<s, i>> \notin Corrected(p) /\ Corrected(p)' = Corrected(p) \cup {<<s, i>>}
  <2> HIDE DEF it, q
  <2>1. /\ CorrectedOf(p, owner, changes') = CorrectedOf(p, owner, changes) \cup {<<s, i>>}
        /\ <<s, i>> \notin CorrectedOf(p, owner, changes)
    <3>1. ASSUME NEW own, NEW chs, NEW chs2, own = owner, chs = changes, chs2 = changes'
          PROVE  /\ CorrectedOf(p, own, chs2) = CorrectedOf(p, own, chs) \cup {<<s, i>>}
                 /\ <<s, i>> \notin CorrectedOf(p, own, chs)
      <4>1. /\ s \in Submissions /\ own[s] = p /\ i \notin OperatorChanges(chs[s])
            /\ OperatorChanges(chs2[s]) = OperatorChanges(chs[s]) \cup {i}
            /\ \A r \in Submissions \ {s} : chs2[r] = chs[r]
        BY <1>2, <1>7, <1>8, <3>1
      <4> QED BY ONLY <4>1, OneCorrection
    <3> QED BY <3>1
  <2> QED BY <1>2, <2>1, CorrectedIs
<1> QED BY <1>5, <1>9

Balanced == Countable /\ ClosedByCorrection

\* Rectifications on file and corrections by operators stay as many.
LEMMA BalancedStep ==
    ASSUME PortalTyped, Blank, LockHeld, Balanced, [PortalNext]_portalVars
    PROVE  Balanced'
<1> SUFFICES ASSUME NEW p \in Subjects
             PROVE  /\ IsFiniteSet(Fulfilled(p)') /\ IsFiniteSet(Corrected(p)')
                    /\ Cardinality(Fulfilled(p)') = Cardinality(Corrected(p)')
  BY DEF Balanced, Countable, ClosedByCorrection, Fulfilled
<1>1. /\ IsFiniteSet(Fulfilled(p)) /\ IsFiniteSet(Corrected(p))
      /\ Cardinality(Fulfilled(p)) = Cardinality(Corrected(p))
  BY DEF Balanced, Countable, ClosedByCorrection, Fulfilled
<1>2. ASSUME NEW c \in Calls, ByOperator(c), calls[c].subject = p
      PROVE  \E q, z : /\ q \notin Fulfilled(p) /\ Fulfilled(p)' = Fulfilled(p) \cup {q}
                       /\ z \notin Corrected(p) /\ Corrected(p)' = Corrected(p) \cup {z}
  BY <1>2, OperatorCounts
<1>3. CASE \E c \in Calls : ByOperator(c) /\ calls[c].subject = p
  BY <1>1, <1>2, <1>3, FS_AddElement
<1>4. CASE \A c \in Calls : ByOperator(c) => calls[c].subject # p
  <2>1. Corrected(p)' = Corrected(p)
    BY <1>4, CorrectedKept
  <2>2. CASE ~\E c \in Calls : ByOperator(c)
    BY <1>1, <2>1, <2>2, FulfilledKept
  <2>3. ASSUME NEW c \in Calls, ByOperator(c) PROVE Fulfilled(p)' = Fulfilled(p)
    <3>1. \E r : requests' = Append(requests, r) /\ r.subject # p
      <4>1. calls[c].by = "dsr_operator" /\ requests' = Recorded(c)
        BY <2>3 DEF ByOperator, CommitCorrection
      <4>2. [NewRequest(calls[c].subject, "rectify") EXCEPT !.status = "fulfilled"].subject # p
        BY <1>4, <2>3 DEF NewRequest
      <4> QED BY <4>1, <4>2 DEF Recorded
    <3>2. /\ Len(requests) + 1 \notin DOMAIN requests
          /\ DOMAIN requests' = DOMAIN requests \cup {Len(requests) + 1}
          /\ requests'[Len(requests) + 1].subject # p
          /\ \A r \in DOMAIN requests : requests'[r] = requests[r]
      BY <3>1 DEF PortalTyped
    <3> QED BY <3>2 DEF Fulfilled
  <2> QED BY <1>1, <2>1, <2>2, <2>3
<1> QED BY <1>3, <1>4

-----------------------------------------------------------------------------
(* The exports.                                                            *)

\* A worker that has read goes on with its job.
LEMMA WorkerReads ==
    ASSUME ExportTyped, NEW active \in SUBSET Submissions, ReadRows(active) \/ ReadReport
    PROVE  /\ worker # Idle /\ worker'.job = worker.job /\ worker'.step = "put"
           /\ worker' \in [step : {"read", "put", "complete"}, job : Jobs, rows : SUBSET Submissions]
           /\ UNCHANGED <<job, object>>
<1>1. worker \in [step : {"read", "put", "complete"}, job : Jobs, rows : SUBSET Submissions]
  BY DEF ReadRows, ReadReport, ExportTyped, Idle
<1>2. /\ worker # Idle /\ UNCHANGED <<job, object>>
      /\ worker' \in {[worker EXCEPT !.step = "put", !.rows = active],
                      [worker EXCEPT !.step = "put"]}
  BY DEF ReadRows, ReadReport, Idle
<1> QED BY <1>1, <1>2

\* Every step of the exports keeps their types.
LEMMA ExportTypeStep ==
    ASSUME ExportTyped, WorkerRuns, NEW active \in SUBSET Submissions,
           [ExportNext(active)]_exportVars
    PROVE  ExportTyped'
<1>1. ASSUME NEW j \in Jobs, Request(j) \/ RequestLinkReport(j) \/ Expire(j) PROVE ExportTyped'
  BY <1>1 DEF Request, RequestLinkReport, Enqueue, Expire, Set, Statuses, ExportTyped
<1>2. CASE Claim \/ Complete
  BY <1>2 DEF Claim, Complete, Set, Statuses, ExportTyped, Idle
<1>9. CASE ReadRows(active) \/ ReadReport
  BY <1>9, WorkerReads DEF ReadRows, ReadReport, ExportTyped
<1>3. CASE Put
  BY <1>3 DEF Put, ExportTyped, Idle
<1>4. CASE ProduceFails \/ Stop
  BY <1>4, MaxFaultsAssumption DEF ProduceFails, Stop, Set, Statuses, ExportTyped, Idle
<1>5. CASE SweepObject
  BY <1>5 DEF SweepObject, Expired, Restrict, ExportTyped
<1>6. CASE SweepMark \/ SweepFails
  BY <1>6, MaxFaultsAssumption DEF SweepMark, SweepFails, Set, Statuses, ExportTyped
<1>7. CASE OpenObject \/ \E j \in Jobs : OpenJob(j)
  BY <1>7 DEF OpenObject, OpenJob, ExportTyped
<1>8. CASE UNCHANGED exportVars
  BY <1>8 DEF exportVars, ExportTyped
<1> QED BY <1>1, <1>2, <1>3, <1>4, <1>5, <1>6, <1>7, <1>8, <1>9 DEF ExportNext, Produce, Sweep

\* What a step does to the jobs, the artefacts and the lifetimes.
LEMMA JobMoves ==
    ASSUME ExportInv, NEW active \in SUBSET Submissions, [ExportNext(active)]_exportVars,
           NEW j \in Jobs
    PROVE  /\ \/ job'[j] = job[j]
              \/ job[j] = "none" /\ job'[j] = "queued"
              \/ job[j] = "queued" /\ job'[j] = "running"
              \/ job[j] = "running" /\ job'[j] = "failed" /\ worker' = Idle
              \/ job[j] = "running" /\ job'[j] = "ready" /\ worker' = Idle /\ j \in DOMAIN object'
              \/ j \in expires /\ job'[j] = "expired"
           /\ j \in DOMAIN object => j \in DOMAIN object' \cup expires
           /\ j \in expires => j \in expires'
           /\ j \in expires' => j \in expires \/ (job[j] = "ready" /\ job'[j] = "ready")
<1> DEFINE Goal ==
       /\ \/ job'[j] = job[j]
          \/ job[j] = "none" /\ job'[j] = "queued"
          \/ job[j] = "queued" /\ job'[j] = "running"
          \/ job[j] = "running" /\ job'[j] = "failed" /\ worker' = Idle
          \/ job[j] = "running" /\ job'[j] = "ready" /\ worker' = Idle /\ j \in DOMAIN object'
          \/ j \in expires /\ job'[j] = "expired"
       /\ j \in DOMAIN object => j \in DOMAIN object' \cup expires
       /\ j \in expires => j \in expires'
       /\ j \in expires' => j \in expires \/ (job[j] = "ready" /\ job'[j] = "ready")
<1> USE DEF ExportInv, ExportTyped
<1>1. ASSUME NEW k \in Jobs, Request(k) \/ RequestLinkReport(k) \/ Expire(k) PROVE Goal
  BY <1>1 DEF Request, RequestLinkReport, Enqueue, Expire, Set
<1>2. CASE Claim \/ ReadRows(active) \/ ReadReport
  BY <1>2 DEF Claim, ReadRows, ReadReport, Set
<1>3. CASE Put
  BY <1>3 DEF Put
<1>4. CASE Complete
  BY <1>4 DEF Complete, Set, WorkerRuns, Idle
<1>5. CASE ProduceFails \/ Stop
  BY <1>5 DEF ProduceFails, Stop, Set, WorkerRuns, Idle
<1>6. CASE SweepObject
  BY <1>6 DEF SweepObject, Expired, Restrict
<1>7. CASE SweepMark \/ SweepFails
  BY <1>7 DEF SweepMark, SweepFails, Set, GoneIsOver
<1>8. CASE OpenObject \/ \E k \in Jobs : OpenJob(k)
  BY <1>8 DEF OpenObject, OpenJob
<1>9. CASE UNCHANGED exportVars
  BY <1>9 DEF exportVars
<1> QED BY <1>1, <1>2, <1>3, <1>4, <1>5, <1>6, <1>7, <1>8, <1>9 DEF ExportNext, Produce, Sweep

\* A worker's job is running until the worker lets go of it.
LEMMA WorkerRunsStep ==
    ASSUME ExportInv, NEW active \in SUBSET Submissions, [ExportNext(active)]_exportVars
    PROVE  WorkerRuns'
<1> USE DEF ExportInv, ExportTyped
<1>1. ASSUME NEW k \in Jobs, Request(k) \/ RequestLinkReport(k) \/ Expire(k) PROVE WorkerRuns'
  BY <1>1 DEF Request, RequestLinkReport, Enqueue, Expire, Set, WorkerRuns, Idle
<1>2. CASE Claim
  BY <1>2 DEF Claim, Set, WorkerRuns
<1>8. CASE ReadRows(active) \/ ReadReport
  BY <1>8, WorkerReads DEF WorkerRuns
<1>3. CASE Put
  BY <1>3 DEF Put, WorkerRuns, Idle
<1>4. CASE Complete \/ ProduceFails \/ Stop
  BY <1>4 DEF Complete, ProduceFails, Stop, WorkerRuns
<1>5. CASE SweepObject
  BY <1>5 DEF SweepObject, Expired, Restrict, WorkerRuns, Idle
<1>6. CASE SweepMark \/ SweepFails
  BY <1>6 DEF SweepMark, SweepFails, Set, GoneIsOver, OverWasReady, WorkerRuns, Idle
<1>7. CASE (OpenObject \/ \E k \in Jobs : OpenJob(k)) \/ UNCHANGED exportVars
  BY <1>7 DEF OpenObject, OpenJob, exportVars, WorkerRuns
<1> QED BY <1>1, <1>2, <1>3, <1>4, <1>5, <1>6, <1>7, <1>8 DEF ExportNext, Produce, Sweep

\* What the sweeper has, and what a download has found or been told.
LEMMA SweeperMoves ==
    ASSUME ExportInv, NEW active \in SUBSET Submissions, [ExportNext(active)]_exportVars
    PROVE  /\ sweeper' # 0 => sweeper' \in expires
           /\ download'.step = "found" =>
                \/ download'.job \in Jobs /\ job[download'.job] = "ready"
                \/ download' = download
           /\ download'.step = "answered" /\ download'.what = "expired" =>
                download'.job \in expires
<1> DEFINE Kept == UNCHANGED <<sweeper, download>>
<1>1. ASSUME NEW k \in Jobs, Request(k) \/ RequestLinkReport(k) \/ Expire(k) PROVE Kept
  BY <1>1 DEF Request, RequestLinkReport, Enqueue, Expire
<1>2. ASSUME Claim \/ ReadRows(active) \/ ReadReport \/ Put PROVE Kept
  BY <1>2 DEF Claim, ReadRows, ReadReport, Put
<1>8. ASSUME Complete \/ ProduceFails \/ Stop \/ UNCHANGED exportVars PROVE Kept
  BY <1>8 DEF Complete, ProduceFails, Stop, exportVars
<1>3. CASE SweepObject
  BY <1>3 DEF SweepObject, Expired, ExportInv, ExpiredIsOver
<1>4. CASE SweepMark \/ SweepFails
  BY <1>4 DEF SweepMark, SweepFails, ExportInv, ExpiredIsOver
<1>5. CASE OpenObject
  BY <1>5 DEF OpenObject, Answer, ExportInv, GoneIsOver
<1>6. ASSUME NEW k \in Jobs, OpenJob(k) PROVE
           /\ UNCHANGED sweeper
           /\ download'.step = "found" =>
                \/ download'.job \in Jobs /\ job[download'.job] = "ready"
                \/ download' = download
           /\ download'.step = "answered" /\ download'.what = "expired" =>
                download'.job \in expires
  BY <1>6 DEF OpenJob, Answer
<1>7. CASE Kept
  BY <1>7 DEF ExportInv, GoneIsOver, ExpiredIsOver
<1> QED BY <1>1, <1>2, <1>3, <1>4, <1>5, <1>6, <1>7, <1>8
        DEF ExportNext, Produce, Sweep, ExportInv, GoneIsOver

\* Every step of the exports keeps their invariant.
LEMMA ExportStepInv ==
    ASSUME ExportInv, NEW active \in SUBSET Submissions, [ExportNext(active)]_exportVars
    PROVE  ExportInv'
<1>0. ExportTyped' /\ WorkerRuns'
  BY ExportTypeStep, WorkerRunsStep DEF ExportInv
<1>1. OverWasReady'
  BY JobMoves, <1>0 DEF ExportInv, ExportTyped, OverWasReady
<1>2. GoneIsOver'
  <2>1. \A j \in Jobs : job'[j] = "ready" => j \in DOMAIN object' \cup expires'
    BY JobMoves DEF ExportInv, GoneIsOver
  <2>2. \A j \in Jobs : job'[j] = "expired" => j \in expires'
    BY JobMoves DEF ExportInv, GoneIsOver
  <2>3. sweeper' # 0 => sweeper' \in expires'
    BY SweeperMoves, JobMoves DEF ExportInv, ExportTyped
  <2>4. download'.step = "found" => download'.job \in DOMAIN object' \cup expires'
    <3>1. download'.step = "found" => download'.job \in DOMAIN object \cup expires
      BY SweeperMoves DEF ExportInv, GoneIsOver
    <3> QED BY <3>1, JobMoves DEF ExportInv, ExportTyped
  <2> QED BY <2>1, <2>2, <2>3, <2>4 DEF GoneIsOver
<1>3. ExpiredIsOver'
  BY SweeperMoves, JobMoves DEF ExportInv, ExportTyped, ExpiredIsOver
<1> QED BY <1>0, <1>1, <1>2, <1>3 DEF ExportInv

-----------------------------------------------------------------------------
(* The theorems.                                                           *)

\* Every step of the portal keeps its invariant.
LEMMA PortalStepInv ==
    ASSUME PortalInv, [PortalNext]_portalVars
    PROVE  PortalInv'
<1>1. PortalTyped'
  BY PortalTypeStep DEF PortalInv
<1>2. Blank' /\ LockHeld' /\ RevisionsReplay' /\ AnswersRead'
  BY BlankStep, LockHeldStep, ReplayStep, AnswersReadStep DEF PortalInv
<1>3. Balanced'
  BY BalancedStep DEF PortalInv, Balanced
<1> QED BY <1>1, <1>2, <1>3 DEF PortalInv, Balanced

\* The portal starts with nothing in it.
LEMMA PortalInitInv == PortalInit => PortalInv
<1> SUFFICES ASSUME PortalInit PROVE PortalInv
  OBVIOUS
<1>1. PortalTyped
  BY PortalTypeInit
<1>2. Blank /\ LockHeld /\ RevisionsReplay
  BY DEF PortalInit, Blank, LockHeld, NewCall, RevisionsReplay, Present
<1>3. AnswersRead
  BY ShortSeqs DEF PortalInit, AnswersRead, Value, None, Unread
<1>4. ASSUME NEW p \in Subjects PROVE Fulfilled(p) = {} /\ Corrected(p) = {}
  BY ShortSeqs DEF PortalInit, Fulfilled, Corrected
<1>5. \A p \in Subjects :
        /\ IsFiniteSet(Fulfilled(p)) /\ IsFiniteSet(Corrected(p))
        /\ Cardinality(Fulfilled(p)) = Cardinality(Corrected(p))
  BY <1>4, FS_EmptySet
<1>6. Countable /\ ClosedByCorrection
  BY <1>5 DEF Countable, ClosedByCorrection, Fulfilled
<1> QED BY <1>1, <1>2, <1>3, <1>6 DEF PortalInv

\* So do the exports.
LEMMA ExportInitInv == ExportInit => ExportInv
<1>1. 0 \notin Jobs
  BY JobsAssumption
<1> QED BY <1>1, ShortSeqs, MaxFaultsAssumption
        DEF ExportInit, ExportInv, ExportTyped, WorkerRuns, OverWasReady, GoneIsOver,
            ExpiredIsOver, Idle, Statuses

\* The invariant is inductive.
THEOREM Inductive == Spec => []IInv
<1>1. Init => IInv
  BY PortalInitInv, ExportInitInv DEF Init, IInv
<1>2. IInv /\ [Next]_vars => IInv'
  <2> SUFFICES ASSUME IInv, [Next]_vars PROVE IInv'
    OBVIOUS
  <2>1. Active \in SUBSET Submissions
    BY DEF Active
  <2> QED BY <2>1, Sides, PortalStepInv, ExportStepInv DEF IInv
<1> QED BY <1>1, <1>2, PTL DEF Spec

\* Every row, correction, request, job and artefact has its type.
THEOREM TypeCorrect == Spec => []TypeOK
<1>1. IInv => TypeOK
  <2> SUFFICES ASSUME IInv PROVE TypeOK
    OBVIOUS
  <2>1. \A q \in DOMAIN requests : requests[q] \in RequestSet
    BY DEF IInv, PortalInv, PortalTyped
  <2> QED BY <2>1 DEF IInv, PortalInv, PortalTyped, ExportInv, ExportTyped, TypeOK, RequestSet
<1> QED BY <1>1, Inductive, PTL

\* No correction of two that overlap is lost: a record's revisions and its
\* answers replay every value it ever had.
THEOREM NoCorrectionIsLost == Spec => []RevisionsReplay
<1>1. IInv => RevisionsReplay
  BY DEF IInv, PortalInv
<1> QED BY <1>1, Inductive, PTL

\* As many rectifications are on file as fulfilled as operators wrote: none is
\* closed without its correction, none written without its request.
THEOREM RectificationsAreMade == Spec => []ClosedByCorrection
<1>1. IInv => ClosedByCorrection
  BY DEF IInv, PortalInv
<1> QED BY <1>1, Inductive, PTL

\* A download is told that an export is over only when it is.
THEOREM OverIsOver == Spec => []ExpiredIsOver
<1>1. IInv => ExpiredIsOver
  BY DEF IInv, ExportInv
<1> QED BY <1>1, Inductive, PTL

\* The retention pass chooses only rows that are active.
LEMMA DoomedMoves ==
    ASSUME [PortalNext]_portalVars, NEW s \in Submissions, s \in doomed'
    PROVE  s \in doomed \/ status[s] = "active"
<1>1. CASE UNCHANGED doomed
  BY <1>1
<1>2. CASE PurgeChoose \/ PurgeDelete
  BY <1>2 DEF PurgeChoose, PurgeDelete, Active
<1>3. ASSUME NEW c \in Calls, LockRow(c) \/ CommitCorrection(c) \/ AbortCorrection(c)
      PROVE  UNCHANGED doomed
  BY <1>3 DEF LockRow, CommitCorrection, AbortCorrection, records
<1>4. ASSUME \/ \E r \in Submissions, v \in Idents : Arrive(r, v)
             \/ \E c \in Calls, u \in Subjects, r \in Submissions, given \in Corrections :
                   Rectify(c, u, r, given) \/ RectifyOnBehalf(c, u, r, given)
             \/ \E p \in Subjects, type \in Types : Raise(p, type)
             \/ \E q \in DOMAIN requests : Fulfil(q) \/ Reject(q)
             \/ ProcessorTick
             \/ \E r \in Readers : ReadRevisions(r) \/ \E t \in Submissions : ReadCurrent(r, t)
             \/ UNCHANGED portalVars
      PROVE  UNCHANGED doomed
  BY <1>4 DEF Arrive, Rectify, RectifyOnBehalf, ReadIdentity, Raise, Fulfil, Reject,
              ProcessorTick, ReadRevisions, ReadCurrent, portalVars, records
<1> QED BY <1>1, <1>2, <1>3, <1>4 DEF PortalNext

\* What a restricted record contains is left alone, and the record goes only by
\* an erasure of its subject or by a retention pass that had chosen it before.
THEOREM RestrictedIsLeftAlone == Spec => RestrictedIsKept
<1>1. ASSUME IInv, [Next]_vars
      PROVE  [\A s \in Submissions : status[s] = "restricted" =>
                /\ \/ status'[s] = "restricted" /\ answers'[s] = answers[s]
                   \/ status'[s] = "deleted" /\ (key'[owner[s]] = Gone \/ s \in doomed)
                /\ s \in doomed' => s \in doomed]_portalVars
  <2> SUFFICES ASSUME NEW s \in Submissions, status[s] = "restricted"
               PROVE  /\ \/ status'[s] = "restricted" /\ answers'[s] = answers[s]
                         \/ status'[s] = "deleted" /\ (key'[owner[s]] = Gone \/ s \in doomed)
                      /\ s \in doomed' => s \in doomed
    OBVIOUS
  <2>1. PortalTyped /\ LockHeld /\ [PortalNext]_portalVars
    BY <1>1, Sides DEF IInv, PortalInv
  <2>2. \A c \in Calls : ~(CommitCorrection(c) /\ calls[c].submission = s)
    BY <2>1 DEF CommitCorrection, LockHeld
  <2>3. Stays(s) \/ Goes(s)
    BY <2>1, <2>2, RowMoves DEF Arrives, Restricted
  <2>4. s \in doomed' => s \in doomed
    BY <2>1, DoomedMoves
  <2> QED BY <2>3, <2>4 DEF Stays, Goes
<1> QED BY <1>1, Inductive, PTL DEF Spec, RestrictedIsKept

\* A correction is done when it is written.
LEMMA DoneIsWritten ==
    ASSUME PortalTyped, [PortalNext]_portalVars, NEW c \in Calls,
           calls[c].step = "locked", calls'[c].step = "done"
    PROVE  CommitCorrection(c)
<1>0. calls \in [Calls -> {calls[d] : d \in Calls}]
  BY DEF PortalTyped
<1>1. ASSUME NEW d \in Calls, CommitCorrection(d) PROVE d = c
  BY <1>0, <1>1 DEF CommitCorrection, EndCall
<1>2. ASSUME NEW d \in Calls, AbortCorrection(d) PROVE FALSE
  BY <1>0, <1>2 DEF AbortCorrection, EndCall
<1>3. ASSUME NEW d \in Calls, LockRow(d) PROVE FALSE
  <2>1. d # c
    BY <1>3 DEF LockRow
  <2> QED BY <1>0, <1>3, <2>1 DEF LockRow, EndCall
<1>4. ASSUME NEW d \in Calls, NEW by, NEW p, NEW s, NEW given, NEW identity,
             ReadIdentity(d, by, p, s, given, identity)
      PROVE  FALSE
  BY <1>0, <1>4 DEF ReadIdentity
<1>5. ASSUME \/ \E r \in Submissions, v \in Idents : Arrive(r, v)
             \/ \E p \in Subjects, type \in Types : Raise(p, type)
             \/ \E q \in DOMAIN requests : Fulfil(q) \/ Reject(q)
             \/ ProcessorTick \/ PurgeChoose \/ PurgeDelete
             \/ \E r \in Readers : ReadRevisions(r) \/ \E t \in Submissions : ReadCurrent(r, t)
             \/ UNCHANGED portalVars
      PROVE  UNCHANGED calls
  BY <1>5 DEF Arrive, Raise, Fulfil, Reject, ProcessorTick, PurgeChoose, PurgeDelete,
              ReadRevisions, ReadCurrent, portalVars
<1> QED BY <1>1, <1>2, <1>3, <1>4, <1>5 DEF PortalNext, Rectify, RectifyOnBehalf

\* The key a subject is found by moves with the identifying answer.
THEOREM KeyMovesWithAnswer == Spec => KeyFollowsAnswer
<1>1. ASSUME IInv, [Next]_vars
      PROVE  [\A s \in Present, c \in Calls :
                calls[c].step = "locked" /\ calls[c].submission = s /\ calls'[c].step = "done"
                /\ Value(answers'[s]) \notin {None, Value(answers[s])}
                /\ calls[c].identity = Value(answers[s])
                   => key'[owner[s]] = Value(answers'[s])]_portalVars
  <2> SUFFICES ASSUME NEW s \in Present, NEW c \in Calls,
                      calls[c].step = "locked", calls[c].submission = s, calls'[c].step = "done",
                      Value(answers'[s]) \notin {None, Value(answers[s])},
                      calls[c].identity = Value(answers[s])
               PROVE  key'[owner[s]] = Value(answers'[s])
    OBVIOUS
  <2>1. PortalTyped /\ LockHeld /\ AnswersRead /\ [PortalNext]_portalVars
    BY <1>1, Sides DEF IInv, PortalInv
  <2>2. CommitCorrection(c)
    BY <2>1, DoneIsWritten
  <2>3. /\ s \in Submissions /\ owner[s] = calls[c].subject /\ answers[s] = calls[c].before
        /\ calls[c].by \in {"dsr_self_service", "dsr_operator"}
        /\ calls[c].subject \in Subjects /\ key \in [Subjects -> Idents \cup {None, Gone}]
    BY <2>1 DEF LockHeld, PortalTyped, CallTyped, Present
  <2>4. calls[c].identity # Unread
    BY <2>1, <2>3 DEF AnswersRead
  <2>5. /\ answers'[s] = IF calls[c].by = "dsr_operator"
                         THEN Merged(calls[c].given, calls[c].before) ELSE calls[c].given
        /\ key' = IF Rekeys(c) THEN [key EXCEPT ![calls[c].subject] = Value(calls[c].given)]
                  ELSE key
    BY <2>1, <2>2, <2>3 DEF CommitCorrection, PortalTyped
  <2>6. Value(Merged(calls[c].given, calls[c].before)) =
            IF Contact \in DOMAIN calls[c].given THEN Value(calls[c].given)
            ELSE Value(calls[c].before)
    BY DEF Merged, Value
  <2>7. Value(answers'[s]) = Value(calls[c].given)
    BY <2>3, <2>5, <2>6
  <2>8. Rekeys(c)
    BY <2>3, <2>4, <2>7 DEF Rekeys, RekeysForSubject, RekeysOnBehalf, Moves
  <2> QED BY <2>3, <2>5, <2>7, <2>8
<1> QED BY <1>1, Inductive, PTL DEF Spec, KeyFollowsAnswer

=============================================================================
