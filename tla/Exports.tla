------------------------------ MODULE Exports ------------------------------
(***************************************************************************)
(* Export jobs: queued by a request, claimed and produced by a worker into *)
(* an object of the storage, downloadable for a day and then swept.  A     *)
(* worker that stops takes nothing back: no statement touches a running    *)
(* job but the ones of the worker that claimed it.                         *)
(*                                                                         *)
(* The submissions are another module's: what an export reads of them is a *)
(* parameter of its step.  The audit entry of a request is written after   *)
(* the job, in a transaction whose failure is only logged, and left out.   *)
(***************************************************************************)
EXTENDS Naturals, FiniteSets, Functions

CONSTANTS
    Jobs,       \* rows of core.exports, in the order of their numbers
    MaxFaults   \* bound: how often a step of the worker fails

ASSUME JobsAssumption == Jobs \subseteq Nat \ {0}
ASSUME MaxFaultsAssumption == MaxFaults \in Nat

Idle == [step |-> "idle"]

VARIABLES
    job,       \* core.exports.status, "none" before the request
    kind,      \* core.exports.kind
    expires,   \* jobs whose expires_at has passed
    object,    \* [job -> the rows of its artefact]: the storage
    worker,    \* the step of the export worker, and its job
    sweeper,   \* the job whose artefact the sweeper has deleted, or 0
    download,  \* a download of an operator
    stopped,   \* history: the jobs whose worker stopped over them
    faults

exportVars == <<job, kind, expires, object, worker, sweeper, download, stopped, faults>>

Statuses == {"queued", "running", "ready", "failed", "expired"}
Settled  == {"ready", "failed", "expired"}

ExportInit ==
    /\ job = [j \in Jobs |-> "none"]
    /\ kind = [j \in Jobs |-> "form_report"]
    /\ expires = {}
    /\ object = <<>>
    /\ worker = Idle /\ sweeper = 0 /\ download = Idle
    /\ stopped = {}
    /\ faults = 0

Set(j, to) == job' = [job EXCEPT ![j] = to]

\* Nothing holds one request back for another: two of the same form are two
\* jobs.
Enqueue(j, what) ==
    /\ job[j] = "none"
    /\ \A k \in Jobs : k < j => job[k] # "none"
    /\ Set(j, "queued")
    /\ kind' = [kind EXCEPT ![j] = what]
    /\ UNCHANGED <<expires, object, worker, sweeper, download, stopped, faults>>

\* Whoever may export asks for the submissions of a form of the organisation.
Request(j) == Enqueue(j, "form_report")

\* Whoever may read the analytics asks for the clicks of a project's links.
RequestLinkReport(j) == Enqueue(j, "link_report")

\* The oldest queued job is this worker's from here on.
Claim ==
    /\ worker = Idle
    /\ \E j \in Jobs :
        /\ job[j] = "queued"
        /\ \A k \in Jobs : job[k] = "queued" => j <= k
        /\ Set(j, "running")
        /\ worker' = [step |-> "read", job |-> j, rows |-> {}]
    /\ UNCHANGED <<kind, expires, object, sweeper, download, stopped, faults>>

\* One SELECT streams the submissions; the ones not active are counted only.
ReadRows(active) ==
    /\ worker.step = "read" /\ kind[worker.job] = "form_report"
    /\ worker' = [worker EXCEPT !.step = "put", !.rows = active]
    /\ UNCHANGED <<job, kind, expires, object, sweeper, download, stopped, faults>>

\* A link report counts clicks and holds nobody's answers.
ReadReport ==
    /\ worker.step = "read" /\ kind[worker.job] = "link_report"
    /\ worker' = [worker EXCEPT !.step = "put"]
    /\ UNCHANGED <<job, kind, expires, object, sweeper, download, stopped, faults>>

Put ==
    /\ worker.step = "put"
    /\ object' = [j \in DOMAIN object \cup {worker.job} |->
            IF j = worker.job THEN worker.rows ELSE object[j]]
    /\ worker' = [worker EXCEPT !.step = "complete"]
    /\ UNCHANGED <<job, kind, expires, sweeper, download, stopped, faults>>

Complete ==
    /\ worker.step = "complete"
    /\ Set(worker.job, "ready")
    /\ worker' = Idle
    /\ UNCHANGED <<kind, expires, object, sweeper, download, stopped, faults>>

\* A mutant: a job that cannot be produced is logged and left.
ProduceFailsSilently ==
    /\ worker.step \in {"read", "put"} /\ faults < MaxFaults
    /\ worker' = Idle
    /\ faults' = faults + 1
    /\ UNCHANGED <<job, kind, expires, object, sweeper, download, stopped>>

\* A read, the workbook or the storage fails: the job records why.
ProduceFails ==
    /\ worker.step \in {"read", "put"} /\ faults < MaxFaults
    /\ Set(worker.job, "failed")
    /\ worker' = Idle
    /\ faults' = faults + 1
    /\ UNCHANGED <<kind, expires, object, sweeper, download, stopped>>

\* The process stops, or its last statement fails: the job stays running.
Stop ==
    /\ worker # Idle /\ faults < MaxFaults
    /\ worker' = Idle
    /\ faults' = faults + 1
    /\ stopped' = stopped \cup {worker.job}
    /\ UNCHANGED <<job, kind, expires, object, sweeper, download>>

Expire(j) ==
    /\ job[j] = "ready" /\ j \notin expires
    /\ expires' = expires \cup {j}
    /\ UNCHANGED <<job, kind, object, worker, sweeper, download, stopped, faults>>

-----------------------------------------------------------------------------
(* Downloads: the job first, its artefact from the storage after it.       *)

Answer(what, j) == [step |-> "answered", what |-> what, job |-> j]

\* Whoever may export, of a job of their own organisation.
Loaded(j) == job[j] # "none"

OpenJob(j) ==
    /\ download.step # "found" /\ Loaded(j)
    /\ download' =
         IF job[j] # "ready" THEN Answer("not_ready", j)
         ELSE IF j \in expires THEN Answer("expired", j)
         ELSE [step |-> "found", job |-> j]
    /\ UNCHANGED <<job, kind, expires, object, worker, sweeper, stopped, faults>>

\* An artefact the sweeper was quicker with has expired, too.
OpenObject ==
    /\ download.step = "found"
    /\ download' = LET j == download.job IN
         IF j \in DOMAIN object THEN Answer("content", j) ELSE Answer("expired", j)
    /\ UNCHANGED <<job, kind, expires, object, worker, sweeper, stopped, faults>>

-----------------------------------------------------------------------------
(* The sweeper.                                                            *)

\* A mutant: what is ready is swept.
ExpiredAtOnce == {j \in Jobs : job[j] = "ready"}

Expired == {j \in expires : job[j] = "ready"}

\* A mutant: the row is marked first and the artefact deleted after it.
SweepMarksFirst ==
    /\ sweeper = 0
    /\ \E j \in Expired : sweeper' = j /\ Set(j, "expired")
    /\ UNCHANGED <<kind, expires, object, worker, download, stopped, faults>>

\* The sweeper deletes the artefact first; deleting what is gone succeeds.
SweepObject ==
    /\ sweeper = 0
    /\ \E j \in Expired :
        /\ object' = Restrict(object, DOMAIN object \ {j})
        /\ sweeper' = j
    /\ UNCHANGED <<job, kind, expires, worker, download, stopped, faults>>

SweepMark ==
    /\ sweeper # 0
    /\ Set(sweeper, "expired")
    /\ sweeper' = 0
    /\ UNCHANGED <<kind, expires, object, worker, download, stopped, faults>>

\* The storage or the statement fails, or the process stops, between the two:
\* the job is still ready, and the next pass finds it again.
SweepFails ==
    /\ sweeper # 0 /\ faults < MaxFaults
    /\ sweeper' = 0
    /\ faults' = faults + 1
    /\ UNCHANGED <<job, kind, expires, object, worker, download, stopped>>

Produce(active) == Claim \/ ReadRows(active) \/ ReadReport \/ Put \/ Complete

Sweep == SweepObject \/ SweepMark

ExportNext(active) ==
    \/ \E j \in Jobs : Request(j) \/ RequestLinkReport(j) \/ Expire(j)
    \/ Produce(active) \/ ProduceFails \/ Stop
    \/ Sweep \/ SweepFails
    \/ OpenObject \/ \E j \in Jobs : OpenJob(j)
=============================================================================
