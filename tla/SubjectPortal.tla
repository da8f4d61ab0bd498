--------------------------- MODULE SubjectPortal ---------------------------
(***************************************************************************)
(* What a data subject and the organisation's operators do to records that *)
(* are already stored: correcting answers, raising requests and resolving  *)
(* them, restriction, erasure and retention, and reading the history of a  *)
(* record.  A subject acts through a session, a signed cookie that reads   *)
(* no row and outlives an erasure; getting one is PortalAccess.  Sessions  *)
(* here are of the whole portal: a receipt's, which may see one record and *)
(* raise nothing but corrections (CanSee, Raise), is left out, for nothing *)
(* in the code calls IssueReceipt.                                         *)
(*                                                                         *)
(* The identifying answer is kept twice, as the answer itself and as the   *)
(* key (an HMAC) the portal looks a subject up by.  A correction reads the *)
(* identity in one transaction and writes in a second one, which locks the *)
(* row it corrects; both are steps of their own, and so are the two        *)
(* statements that read a history.  The other transactions (resolve, the   *)
(* worker's pass) are one step, enabled when no correction holds a row     *)
(* they write.                                                             *)
(***************************************************************************)
EXTENDS Naturals, Sequences, FiniteSets

CONSTANTS
    Subjects,      \* rows of consent.data_subjects
    Submissions,   \* rows of forms.submissions
    Idents,        \* identifying values: an email, a phone number
    Questions,     \* [question of the form -> its type]
    Contact,       \* the identifier question
    Calls,         \* corrections, by a subject or by an operator
    Corrections,   \* the answers a correction may send
    Types,         \* the request types subjects raise
    Readers,       \* operators who open the history of a record
    MaxRequests    \* bound: how many requests subjects raise

None == "none"
Gone == "gone"     \* the key of an erased subject: sha256 of its own id
Unread == "unread" \* an identity that could not be read

ValidTypes == {"access", "rectify", "erase", "restrict", "withdraw", "export", "object"}
ASSUME ContactAssumption == Contact \in DOMAIN Questions
ASSUME TypesAssumption == Types \subseteq ValidTypes
ASSUME MaxRequestsAssumption == MaxRequests \in Nat
ASSUME IdentsAssumption == Idents \cap {None, Gone, Unread} = {}
ASSUME CallsAssumption == None \notin Calls

AutoFulfillable == {"erase", "withdraw", "access", "export"}
Closed == {"fulfilled", "rejected"}

VARIABLES
    key,        \* data_subjects.identifier_hash
    status,     \* submissions.status
    owner,      \* submissions.data_subject_id
    answers,    \* submissions.answers
    revisions,  \* submission_revisions, oldest first
    doomed,     \* what the retention statement in progress has chosen
    lock,       \* who holds the row lock of a submission
    calls,      \* corrections in progress
    requests,   \* consent.dsr_requests in the order received
    pages,      \* the histories operators have open
    changes     \* history: every value a submission's answers ever had

records == <<status, owner, answers, revisions, doomed, changes>>
portalVars == <<key, records, lock, calls, requests, pages>>

NewCall == [step |-> "new"]
NewPage == [step |-> "closed"]

PortalInit ==
    /\ key = [p \in Subjects |-> None]
    /\ status = [s \in Submissions |-> "absent"]
    /\ owner = [s \in Submissions |-> None]
    /\ answers = [s \in Submissions |-> <<>>]
    /\ revisions = [s \in Submissions |-> <<>>]
    /\ doomed = {}
    /\ lock = [s \in Submissions |-> None]
    /\ calls = [c \in Calls |-> NewCall]
    /\ requests = <<>>
    /\ pages = [r \in Readers |-> NewPage]
    /\ changes = [s \in Submissions |-> <<>>]

Present == {s \in Submissions : status[s] \in {"active", "restricted"}}
Active  == {s \in Submissions : status[s] = "active"}
Of(p)   == {s \in Present : owner[s] = p}

\* Who has the key of an identifying value, however it is spelt.
KnownBy(v) == {p \in Subjects : key[p] = v}

Value(given) == IF Contact \in DOMAIN given THEN given[Contact] ELSE None

ASSUME CorrectionsAssumption == \A given \in Corrections : Value(given) \in Idents \cup {None}

-----------------------------------------------------------------------------
(* Submissions arrive.                                                     *)

Only(v) == [q \in {Contact} |-> v]

\* A public submission finds or creates the subject its contact names.
Arrive(s, v) ==
    /\ status[s] = "absent"
    /\ \E p \in Subjects :
        /\ p \in KnownBy(v) \/ (key[p] = None /\ KnownBy(v) = {})
        /\ key' = [key EXCEPT ![p] = v]
        /\ owner' = [owner EXCEPT ![s] = p]
    /\ status' = [status EXCEPT ![s] = "active"]
    /\ answers' = [answers EXCEPT ![s] = Only(v)]
    /\ changes' = [changes EXCEPT ![s] = <<[answers |-> Only(v), by |-> "visitor"]>>]
    /\ UNCHANGED <<revisions, doomed, lock, calls, requests, pages>>

-----------------------------------------------------------------------------
(* Corrections: Service.Rectify and AdminHandler.rectifyOnBehalf.          *)

\* The identity of the submission, read before the transaction begins.
IdentityOf(s) == IF s \in Present THEN Value(answers[s]) ELSE None

ReadIdentity(c, by, p, s, given, identity) ==
    /\ calls[c].step = "new"
    /\ calls' = [calls EXCEPT ![c] = [step |-> "read", by |-> by, subject |-> p,
            submission |-> s, given |-> given, identity |-> identity, before |-> <<>>]]
    /\ UNCHANGED <<key, records, lock, requests, pages>>

\* A subject corrects a record of the portal: the session is whoever once had
\* a key, CanSee is always so of a session of the portal, and the answers may
\* be none at all.
Rectify(c, p, s, given) ==
    /\ key[p] # None
    /\ ReadIdentity(c, "dsr_self_service", p, s, given, IdentityOf(s))

\* An operator corrects a record for a subject who asked: some correction must
\* be named.  An identity that cannot be read is logged and done without.
RectifyOnBehalf(c, p, s, given) ==
    /\ given # <<>>
    /\ \E identity \in {IdentityOf(s), Unread} :
          ReadIdentity(c, "dsr_operator", p, s, given, identity)

\* Only questions of the form, never a sealed one, and an attachment only as
\* it was.
SameAnswer(before, given, q) == q \in DOMAIN before /\ before[q] = given[q]

CheckRectifiable(before, given) ==
    \A q \in DOMAIN given :
        /\ q \in DOMAIN Questions
        /\ Questions[q] # "sensitive"
        /\ Questions[q] = "file" => SameAnswer(before, given, q)

Rectifiable(c) ==
    LET s == calls[c].submission IN
    /\ status[s] = "active"
    /\ owner[s] = calls[c].subject

EndCall(c, how) == calls' = [calls EXCEPT ![c] = [step |-> how]]

\* A mutant: the row is read without FOR UPDATE.
LockRowUnlocked(c) ==
    LET s == calls[c].submission IN
    /\ calls[c].step = "read"
    /\ IF Rectifiable(c) /\ CheckRectifiable(answers[s], calls[c].given)
       THEN calls' = [calls EXCEPT ![c].step = "locked", ![c].before = answers[s]]
       ELSE EndCall(c, "refused")
    /\ UNCHANGED <<key, records, lock, requests, pages>>

\* SELECT ... WHERE the subject owns it and it is active FOR UPDATE: waits for
\* another correction of the row, and reads what that one left.
LockRow(c) ==
    LET s == calls[c].submission IN
    /\ calls[c].step = "read"
    /\ Rectifiable(c) => lock[s] = None
    /\ IF Rectifiable(c) /\ CheckRectifiable(answers[s], calls[c].given)
       THEN /\ calls' = [calls EXCEPT ![c].step = "locked", ![c].before = answers[s]]
            /\ lock' = [lock EXCEPT ![s] = c]
       ELSE EndCall(c, "refused") /\ UNCHANGED lock
    /\ UNCHANGED <<key, records, requests, pages>>

\* A mutant: only the operator's correction moves the key.
RekeysForOperator(c) ==
    /\ calls[c].by = "dsr_operator"
    /\ Value(calls[c].given) \notin {None, calls[c].identity}

\* Whether the correction changes the identity the call has read.
Moves(c) == Value(calls[c].given) \notin {None, calls[c].identity}

RekeysForSubject(c) == calls[c].by = "dsr_self_service" /\ Moves(c)
RekeysOnBehalf(c)   ==
    calls[c].by = "dsr_operator" /\ calls[c].identity # Unread /\ Moves(c)

Rekeys(c) == RekeysForSubject(c) \/ RekeysOnBehalf(c)

Taken(c) == KnownBy(Value(calls[c].given)) \ {calls[c].subject} # {}

\* RekeyIdentifier: a value somebody else has is refused, and so is a subject
\* whose key has been destroyed.
RekeyAllowed(c) ==
    Rekeys(c) /\ key[calls[c].subject] # Value(calls[c].given) =>
        ~Taken(c) /\ key[calls[c].subject] # Gone

Unlock(c) == lock' = [s \in Submissions |-> IF lock[s] = c THEN None ELSE lock[s]]

\* CreateRequest: whoever raises it has been verified already.
NewRequest(p, type) == [subject |-> p, type |-> type, status |-> "verified"]

\* An operator's correction is also a request, raised and fulfilled with it.
Recorded(c) ==
    IF calls[c].by = "dsr_operator"
    THEN Append(requests, [NewRequest(calls[c].subject, "rectify") EXCEPT !.status = "fulfilled"])
    ELSE requests

Merged(given, before) ==
    [q \in DOMAIN given \cup DOMAIN before |->
        IF q \in DOMAIN given THEN given[q] ELSE before[q]]

\* The revision, the answers, the key, the request and the audit entry: one
\* COMMIT.  A subject replaces the record, an operator merges into it.
CommitCorrection(c) ==
    LET s == calls[c].submission
        after == IF calls[c].by = "dsr_operator"
                 THEN Merged(calls[c].given, calls[c].before) ELSE calls[c].given IN
    /\ calls[c].step = "locked" /\ RekeyAllowed(c)
    /\ revisions' = [revisions EXCEPT ![s] =
            Append(@, [before |-> calls[c].before, by |-> calls[c].by])]
    /\ answers' = [answers EXCEPT ![s] = after]
    /\ changes' = [changes EXCEPT ![s] = Append(@, [answers |-> after, by |-> calls[c].by])]
    /\ key' = IF Rekeys(c) THEN [key EXCEPT ![calls[c].subject] = Value(calls[c].given)]
              ELSE key
    /\ requests' = Recorded(c)
    /\ EndCall(c, "done") /\ Unlock(c)
    /\ UNCHANGED <<status, owner, doomed, pages>>

\* The value is taken, or the connection or a statement fails: ROLLBACK.
AbortCorrection(c) ==
    /\ calls[c].step = "locked"
    /\ EndCall(c, "refused") /\ Unlock(c)
    /\ UNCHANGED <<key, records, requests, pages>>

-----------------------------------------------------------------------------
(* Requests.                                                               *)

OfOperators(q) == requests[q].type = "rectify" /\ requests[q].status = "fulfilled"

\* A session, of the whole portal, and a right the law names.
MayRaise(p, type) == key[p] # None /\ type \in ValidTypes

Raise(p, type) ==
    /\ MayRaise(p, type)
    /\ Cardinality({q \in DOMAIN requests : ~OfOperators(q)}) < MaxRequests
    /\ requests' = Append(requests, NewRequest(p, type))
    /\ UNCHANGED <<key, records, lock, calls, pages>>

Open(q) == requests[q].status \notin Closed

Unlocked(rows) == \A s \in rows : lock[s] = None

\* A mutant: a rectification is closed like any other request.
FulfilUncorrected(q) ==
    LET rows == IF requests[q].type = "restrict"
                THEN Of(requests[q].subject) \cap Active ELSE {} IN
    /\ Open(q) /\ Unlocked(rows)
    /\ requests' = [requests EXCEPT ![q].status = "fulfilled"]
    /\ status' = [s \in Submissions |-> IF s \in rows THEN "restricted" ELSE status[s]]
    /\ UNCHANGED <<key, owner, answers, revisions, doomed, changes, lock, calls, pages>>

\* An operator grants a request.  A restriction is acted on at once; a
\* rectification is refused here, and everything else is only closed.
Fulfil(q) ==
    LET rows == IF requests[q].type = "restrict"
                THEN Of(requests[q].subject) \cap Active ELSE {} IN
    /\ Open(q) /\ requests[q].type # "rectify" /\ Unlocked(rows)
    /\ requests' = [requests EXCEPT ![q].status = "fulfilled"]
    /\ status' = [s \in Submissions |-> IF s \in rows THEN "restricted" ELSE status[s]]
    /\ UNCHANGED <<key, owner, answers, revisions, doomed, changes, lock, calls, pages>>

Reject(q) ==
    /\ Open(q)
    /\ requests' = [requests EXCEPT ![q].status = "rejected"]
    /\ UNCHANGED <<key, records, lock, calls, pages>>

\* The rows in gone are deleted, and their revisions with them.
Deleted(gone) ==
    /\ status' = [s \in Submissions |-> IF s \in gone THEN "deleted" ELSE status[s]]
    /\ answers' = [s \in Submissions |-> IF s \in gone THEN <<>> ELSE answers[s]]
    /\ revisions' = [s \in Submissions |-> IF s \in gone THEN <<>> ELSE revisions[s]]

\* A pass of the worker: every open request it can fulfil by itself.
ProcessorTick ==
    LET todo == {q \in DOMAIN requests : Open(q) /\ requests[q].type \in AutoFulfillable}
        erased == {requests[q].subject : q \in {r \in todo : requests[r].type = "erase"}}
        gone == UNION {Of(p) : p \in erased} IN
    /\ todo # {} /\ Unlocked(gone)
    /\ Deleted(gone)
    /\ key' = [p \in Subjects |-> IF p \in erased THEN Gone ELSE key[p]]
    /\ requests' = [q \in DOMAIN requests |->
            IF q \in todo THEN [requests[q] EXCEPT !.status = "fulfilled"] ELSE requests[q]]
    /\ UNCHANGED <<owner, doomed, changes, lock, calls, pages>>

-----------------------------------------------------------------------------
(* Retention: one DELETE, whose subquery chooses the rows before the       *)
(* statement waits for their locks.                                        *)

\* A mutant: the sweeper looks at the date alone.
PurgeChooseAny ==
    /\ doomed = {}
    /\ doomed' \in (SUBSET Present) \ {{}}
    /\ UNCHANGED <<key, status, owner, answers, revisions, changes, lock, calls,
                   requests, pages>>

\* Any active submission may be past its date.
PurgeChoose ==
    /\ doomed = {}
    /\ doomed' \in (SUBSET Active) \ {{}}
    /\ UNCHANGED <<key, status, owner, answers, revisions, changes, lock, calls,
                   requests, pages>>

PurgeDelete ==
    /\ doomed # {} /\ Unlocked(doomed)
    /\ Deleted(doomed)
    /\ doomed' = {}
    /\ UNCHANGED <<key, owner, changes, lock, calls, requests, pages>>

-----------------------------------------------------------------------------
(* The history of a record.                                                *)

\* What is shown of an answer; of one that was not given, nothing.
AnswerText(given, q) == IF q \in DOMAIN given THEN given[q] ELSE None

ChangedFields(before, after) ==
    {[field |-> q, before |-> AnswerText(before, q), after |-> AnswerText(after, q)] :
        q \in {r \in DOMAIN before \cup DOMAIN after :
                 AnswerText(before, r) # AnswerText(after, r)}}

\* What a revision led to is what the next one found, and the newest led to
\* the answers on file.
History(stored, current) ==
    [i \in DOMAIN stored |->
        [by |-> stored[i].by,
         changes |-> ChangedFields(stored[i].before,
            IF i < Len(stored) THEN stored[i + 1].before ELSE current)]]

\* The two statements of ListRevisions, in one transaction but each with its
\* own snapshot (READ COMMITTED): the answers on file first,
ReadCurrent(r, s) ==
    /\ pages[r].step = "closed" /\ s \in Present
    /\ pages' = [pages EXCEPT ![r] =
            [step |-> "current", submission |-> s, answers |-> answers[s]]]
    /\ UNCHANGED <<key, records, lock, calls, requests>>

\* and the revisions after them.
ReadRevisions(r) ==
    LET s == pages[r].submission IN
    /\ pages[r].step = "current"
    /\ pages' = [pages EXCEPT ![r] = [step |-> "shown", submission |-> s,
                    history |-> History(revisions[s], pages[r].answers)]]
    /\ UNCHANGED <<key, records, lock, calls, requests>>

PortalNext ==
    \/ \E s \in Submissions, v \in Idents : Arrive(s, v)
    \/ \E c \in Calls, p \in Subjects, s \in Submissions, given \in Corrections :
          Rectify(c, p, s, given) \/ RectifyOnBehalf(c, p, s, given)
    \/ \E c \in Calls : LockRow(c) \/ CommitCorrection(c) \/ AbortCorrection(c)
    \/ \E p \in Subjects, type \in Types : Raise(p, type)
    \/ \E q \in DOMAIN requests : Fulfil(q) \/ Reject(q)
    \/ ProcessorTick
    \/ PurgeChoose \/ PurgeDelete
    \/ \E r \in Readers : ReadRevisions(r) \/ \E s \in Submissions : ReadCurrent(r, s)

-----------------------------------------------------------------------------
(* Properties.                                                             *)

\* Every submission's revisions, followed by its present answers, replay every
\* value the answers ever had and who wrote the next one: no correction of two
\* that overlap is lost (RectifyTx: "the old values are kept, not overwritten").
RevisionsReplay ==
    \A s \in Present :
        LET n == Len(revisions[s]) IN
        /\ Len(changes[s]) = n + 1
        /\ \A i \in 1 .. n : /\ revisions[s][i].before = changes[s][i].answers
                             /\ revisions[s][i].by = changes[s][i + 1].by
        /\ answers[s] = changes[s][n + 1].answers

Corrected(p) ==
    LET ofOperator(s) == {i \in DOMAIN changes[s] : changes[s][i].by = "dsr_operator"} IN
    UNION {{s} \X ofOperator(s) : s \in {r \in Submissions : owner[r] = p}}

\* There are as many rectifications on file as fulfilled as corrections an
\* operator wrote: none is closed without its correction, and none is written
\* without its request (RectifyTx: each would be "a record that lies").
ClosedByCorrection ==
    \A p \in Subjects :
        Cardinality({q \in DOMAIN requests : requests[q] =
            [subject |-> p, type |-> "rectify", status |-> "fulfilled"]})
        = Cardinality(Corrected(p))

\* A restricted submission is left alone: its answers stay what they were, and
\* it goes only by an erasure its subject asked for, or by a retention pass that
\* had chosen it while it was still active.
RestrictedIsKept ==
    [][\A s \in Submissions : status[s] = "restricted" =>
         /\ \/ status'[s] = "restricted" /\ answers'[s] = answers[s]
            \/ status'[s] = "deleted" /\ (key'[owner[s]] = Gone \/ s \in doomed)
         /\ s \in doomed' => s \in doomed]_portalVars

\* A correction that changes the identifying answer moves the key the subject is
\* found by with it (rectifyOnBehalf: "it moves both or neither"), unless another
\* correction changed the answer after this one had read the identity, or it
\* could not be read.
KeyFollowsAnswer ==
    [][\A s \in Present, c \in Calls :
         calls[c].step = "locked" /\ calls[c].submission = s /\ calls'[c].step = "done"
         /\ Value(answers'[s]) \notin {None, Value(answers[s])}
         /\ calls[c].identity = Value(answers[s])
            => key'[owner[s]] = Value(answers'[s])]_portalVars

Made(s) ==
    UNION {ChangedFields(changes[s][i].answers, changes[s][i + 1].answers) :
             i \in 1 .. Len(changes[s]) - 1}

\* A history shows no change that never happened: somebody made each change it
\* lists (ListRevisions: the answers "come from the same transaction as the
\* revisions").
HistoryIsTrue ==
    \A r \in Readers : pages[r].step = "shown" =>
        \A i \in DOMAIN pages[r].history :
            pages[r].history[i].changes \subseteq Made(pages[r].submission)
=============================================================================
