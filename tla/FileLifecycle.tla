--------------------------- MODULE FileLifecycle ---------------------------
(***************************************************************************)
(* Attachments: an upload writes an object and then a row, a submission    *)
(* validates its files and later binds them in its transaction, and the    *)
(* worker's sweeper deletes what was never attached: object first, row     *)
(* second, each on its own.                                                *)
(*                                                                         *)
(* The object store knows no transactions.  A deleted submission takes its *)
(* files' rows along (ON DELETE CASCADE) and leaves their objects.         *)
(***************************************************************************)
EXTENDS Naturals, FiniteSets

CONSTANTS
    Files,     \* uploads
    Submits,   \* submissions with attachments
    Erases,    \* whether submissions are deleted (erasure, retention)
    MaxFails   \* bound: failed deletes and crashes of the sweeper

Unbound == "none"

ASSUME SubmitsAssumption == Unbound \notin Submits
ASSUME FilesAssumption == Files \cap {"idle", "object"} = {}
ASSUME SwitchAssumption == Erases \in BOOLEAN
ASSUME MaxFailsAssumption == MaxFails \in Nat

VARIABLES
    upload,    \* [Files -> where the upload is]
    objects,   \* the files whose bytes are in the object store
    status,    \* files.files.status, "absent" without a row
    owner,     \* files.files.submission_id
    old,       \* the files created more than OrphanAge ago
    step,      \* [Submits -> where the submission is]
    wants,     \* [Submits -> the files it names]
    sweep,     \* the sweeper: where it is and the files it listed
    raced,     \* history: files attached while the sweeper was at them, or after
    fails

vars == <<upload, objects, status, owner, old, step, wants, sweep, raced, fails>>
rows == <<status, owner>>

IdleSweep == [at |-> "idle", todo |-> {}]

Init ==
    /\ upload = [f \in Files |-> "none"]
    /\ objects = {}
    /\ status = [f \in Files |-> "absent"]
    /\ owner = [f \in Files |-> Unbound]
    /\ old = {}
    /\ step = [s \in Submits |-> "new"]
    /\ wants = [s \in Submits |-> {}]
    /\ sweep = IdleSweep
    /\ raced = {}
    /\ fails = 0

GoTo(s, label) == step' = [step EXCEPT ![s] = label]
InFlight(s) == step[s] \in {"validated", "bound"}

-----------------------------------------------------------------------------
(* Service.Upload.                                                         *)

\* The type and size checks passed and the encrypted bytes are stored.
Put(f) ==
    /\ upload[f] = "none"
    /\ upload' = [upload EXCEPT ![f] = "put"]
    /\ objects' = objects \cup {f}
    /\ UNCHANGED <<rows, old, step, wants, sweep, raced, fails>>

InsertRow(f) ==
    /\ upload[f] = "put"
    /\ upload' = [upload EXCEPT ![f] = "done"]
    /\ status' = [status EXCEPT ![f] = "pending"]
    /\ UNCHANGED <<objects, owner, old, step, wants, sweep, raced, fails>>

\* A mutant: the object stays.
InsertFailsOnly(f) ==
    /\ upload[f] = "put"
    /\ upload' = [upload EXCEPT ![f] = "failed"]
    /\ UNCHANGED <<objects, rows, old, step, wants, sweep, raced, fails>>

\* Without a row the bytes are garbage: the object is removed again.
InsertFails(f) ==
    /\ upload[f] = "put"
    /\ upload' = [upload EXCEPT ![f] = "failed"]
    /\ objects' = objects \ {f}
    /\ UNCHANGED <<rows, old, step, wants, sweep, raced, fails>>

\* The process stops in between, or that removal fails as well.
UploadCrash(f) ==
    /\ upload[f] = "put"
    /\ upload' = [upload EXCEPT ![f] = "crashed"]
    /\ UNCHANGED <<objects, rows, old, step, wants, sweep, raced, fails>>

\* A day passes.
Age(f) ==
    /\ status[f] # "absent" /\ f \notin old
    /\ old' = old \cup {f}
    /\ UNCHANGED <<upload, objects, rows, step, wants, sweep, raced, fails>>

-----------------------------------------------------------------------------
(* A submission with attachments.                                          *)

Attachable(f) == status[f] = "pending" /\ owner[f] = Unbound

\* collectAttachments, ahead of the transaction: one bad file refuses the call.
Validate(s, F) ==
    /\ step[s] = "new"
    /\ wants' = [wants EXCEPT ![s] = F]
    /\ GoTo(s, IF \A f \in F : Attachable(f) THEN "validated" ELSE "failed")
    /\ UNCHANGED <<upload, objects, rows, old, sweep, raced, fails>>

\* The rows an open transaction has bound are locked by it.
Locked(f) == \E t \in Submits : step[t] = "bound" /\ f \in wants[t]

\* A mutant: the update is not conditional on the files being unattached.
BindUnconditionally(s) ==
    /\ step[s] = "validated"
    /\ \A f \in wants[s] : ~Locked(f)
    /\ GoTo(s, IF \A f \in wants[s] : status[f] # "absent" THEN "bound" ELSE "failed")
    /\ UNCHANGED <<upload, objects, rows, old, wants, sweep, raced, fails>>

\* UPDATE ... WHERE status = 'pending': waits for the rows' locks and fails the
\* transaction unless it takes every file.
Bind(s) ==
    /\ step[s] = "validated"
    /\ \A f \in wants[s] : ~Locked(f)
    /\ GoTo(s, IF \A f \in wants[s] : Attachable(f) THEN "bound" ELSE "failed")
    /\ UNCHANGED <<upload, objects, rows, old, wants, sweep, raced, fails>>

\* What the sweeper has listed and not yet done with, or deleted the bytes of.
Swept == sweep.todo \cup {sweep.at} \cup (old \ objects)

Commit(s) ==
    /\ step[s] = "bound"
    /\ status' = [f \in Files |-> IF f \in wants[s] THEN "bound" ELSE status[f]]
    /\ owner' = [f \in Files |-> IF f \in wants[s] THEN s ELSE owner[f]]
    /\ raced' = raced \cup (wants[s] \cap Swept)
    /\ GoTo(s, "stored")
    /\ UNCHANGED <<upload, objects, old, wants, sweep, fails>>

\* Any other statement of the submission may fail.
Rollback(s) ==
    /\ InFlight(s)
    /\ GoTo(s, "failed")
    /\ UNCHANGED <<upload, objects, rows, old, wants, sweep, raced, fails>>

\* The submission is deleted: its files' rows go with it, nothing else does.
Erase(s) ==
    /\ Erases /\ step[s] = "stored"
    /\ status' = [f \in Files |-> IF owner[f] = s THEN "absent" ELSE status[f]]
    /\ owner' = [f \in Files |-> IF owner[f] = s THEN Unbound ELSE owner[f]]
    /\ GoTo(s, "erased")
    /\ UNCHANGED <<upload, objects, old, wants, sweep, raced, fails>>

-----------------------------------------------------------------------------
(* Service.SweepOrphans.                                                   *)

\* A mutant: created_at > $1.
ListYoung ==
    /\ sweep.at = "idle"
    /\ sweep' = [at |-> "object", todo |-> {f \in Files \ old : Attachable(f)}]
    /\ UNCHANGED <<upload, objects, rows, old, step, wants, raced, fails>>

\* The 500 oldest orphans at most; more than this model has files.
ListOrphans ==
    /\ sweep.at = "idle"
    /\ sweep' = [at |-> "object", todo |-> {f \in old : Attachable(f)}]
    /\ UNCHANGED <<upload, objects, rows, old, step, wants, raced, fails>>

DeleteObject(f) ==
    /\ sweep.at = "object" /\ f \in sweep.todo
    /\ objects' = objects \ {f}
    /\ sweep' = [at |-> f, todo |-> sweep.todo]
    /\ UNCHANGED <<upload, rows, old, step, wants, raced, fails>>

\* DELETE ... WHERE id = $1, whatever has become of the file; a row that an
\* open transaction has bound is waited for.
DeleteRow(f) ==
    /\ sweep.at = f /\ ~Locked(f)
    /\ status' = [status EXCEPT ![f] = "absent"]
    /\ owner' = [owner EXCEPT ![f] = Unbound]
    /\ sweep' = [at |-> "object", todo |-> sweep.todo \ {f}]
    /\ UNCHANGED <<upload, objects, old, step, wants, raced, fails>>

\* One of the two deletes fails: the sweeper goes on with the next file.
DeleteFails(f) ==
    /\ fails < MaxFails
    /\ (sweep.at = "object" /\ f \in sweep.todo) \/ sweep.at = f
    /\ sweep' = [at |-> "object", todo |-> sweep.todo \ {f}]
    /\ fails' = fails + 1
    /\ UNCHANGED <<upload, objects, rows, old, step, wants, raced>>

SweepEnds ==
    /\ sweep.at = "object" /\ sweep.todo = {}
    /\ sweep' = IdleSweep
    /\ UNCHANGED <<upload, objects, rows, old, step, wants, raced, fails>>

SweepCrash ==
    /\ sweep.at # "idle" /\ fails < MaxFails
    /\ sweep' = IdleSweep
    /\ fails' = fails + 1
    /\ UNCHANGED <<upload, objects, rows, old, step, wants, raced>>

-----------------------------------------------------------------------------
SweepStep ==
    \/ ListOrphans \/ SweepEnds
    \/ \E f \in Files : DeleteObject(f) \/ DeleteRow(f)

Next ==
    \/ \E f \in Files : Put(f) \/ InsertRow(f) \/ InsertFails(f) \/ UploadCrash(f) \/ Age(f)
    \/ \E s \in Submits :
          \/ \E F \in (SUBSET Files) \ {{}} : Validate(s, F)
          \/ Bind(s) \/ Commit(s) \/ Rollback(s) \/ Erase(s)
    \/ SweepStep
    \/ \E f \in Files : DeleteFails(f)
    \/ SweepCrash

Spec == Init /\ [][Next]_vars

\* The worker ticks for ever, and an open transaction ends.
Fairness ==
    /\ WF_vars(SweepStep)
    /\ \A s \in Submits : WF_vars(Commit(s) \/ Rollback(s))

FairSpec == Spec /\ Fairness

-----------------------------------------------------------------------------
\* Every variable keeps its type, and a row is bound exactly when it has a
\* submission (the two columns Bind sets together).
TypeOK ==
    /\ upload \in [Files -> {"none", "put", "done", "failed", "crashed"}]
    /\ objects \subseteq Files
    /\ status \in [Files -> {"absent", "pending", "bound"}]
    /\ owner \in [Files -> Submits \cup {Unbound}]
    /\ \A f \in Files : status[f] = "bound" <=> owner[f] # Unbound
    /\ old \subseteq Files
    /\ step \in [Submits -> {"new", "validated", "bound", "stored", "failed", "erased"}]
    /\ wants \in [Submits -> SUBSET Files]
    /\ sweep.at \in {"idle", "object"} \cup Files
    /\ sweep.todo \subseteq Files
    /\ raced \subseteq Files
    /\ fails \in 0..MaxFails

\* A stored submission keeps its attachments, rows and bytes: no other submission
\* takes one (Validate reads them outside the transaction, Bind's condition
\* decides), and the sweeper only deletes what was never attached.  The one
\* exception is a file attached more than a day after its upload, while the
\* sweeper that had listed it was still to delete it or had deleted its bytes.
AttachmentsStay ==
    \A s \in Submits : step[s] = "stored" =>
        \A f \in wants[s] \ raced : owner[f] = s /\ f \in objects

\* No bytes are left that no row leads to, except where the uploading process
\* stopped half-way and under a deleted submission: an insert that fails cleans
\* up, and the sweeper deletes the row last.
BytesHaveRows ==
    \A f \in objects :
        \/ status[f] # "absent" \/ upload[f] \in {"put", "crashed"}
        \/ \E s \in Submits : step[s] = "erased" /\ f \in wants[s]

\* An upload that is a day old and unattached disappears, across failed deletes
\* and crashes, unless it is attached after all.
AbandonedIsSwept ==
    \A f \in Files :
        (f \in old /\ status[f] = "pending") ~>
            (status[f] = "bound" \/ (status[f] = "absent" /\ f \notin objects))
=============================================================================
