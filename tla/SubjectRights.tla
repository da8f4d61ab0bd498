--------------------------- MODULE SubjectRights ---------------------------
(***************************************************************************)
(* The data subject portal and the exports beside it, over the same        *)
(* submissions.                                                            *)
(***************************************************************************)
EXTENDS SubjectPortal, Exports

vars == <<portalVars, exportVars>>

Init == PortalInit /\ ExportInit

ExportStep(A) == A /\ UNCHANGED portalVars

Next ==
    \/ PortalNext /\ UNCHANGED exportVars
    \/ ExportStep(ExportNext(Active))

\* The worker ticks for as long as the process is up, and time passes.
Fairness ==
    /\ WF_vars(ExportStep(Produce(Active)))
    /\ WF_vars(ExportStep(SweepObject)) /\ WF_vars(ExportStep(SweepMark))
    /\ WF_vars(ExportStep(\E j \in Jobs : Expire(j)))

Spec == Init /\ [][Next]_vars
FairSpec == Spec /\ Fairness

TypeOK ==
    /\ key \in [Subjects -> Idents \cup {None, Gone}]
    /\ status \in [Submissions -> {"absent", "active", "restricted", "deleted"}]
    /\ owner \in [Submissions -> Subjects \cup {None}]
    /\ lock \in [Submissions -> Calls \cup {None}]
    /\ doomed \subseteq Submissions
    /\ \A q \in DOMAIN requests :
        requests[q] \in [subject : Subjects, type : ValidTypes, status : {"verified"} \cup Closed]
    /\ job \in [Jobs -> Statuses \cup {"none"}]
    /\ kind \in [Jobs -> {"form_report", "link_report"}]
    /\ expires \subseteq Jobs /\ stopped \subseteq Jobs /\ faults \in 0 .. MaxFaults
    /\ \A j \in DOMAIN object : j \in Jobs /\ object[j] \subseteq Submissions

Rows(j) == IF j \in DOMAIN object THEN object[j] ELSE {}

\* Rows of a person who is no longer to be found in the submissions do not stay
\* in a downloadable artefact: the sweeper gets to it (ArtefactTTL).
ErasureReachesExports ==
    \A j \in Jobs, s \in Submissions :
        (job[j] = "ready" /\ s \in Rows(j) /\ status[s] = "deleted")
            ~> (s \notin Rows(j))

\* A queued export is produced or fails, unless its worker stopped over it.
QueuedIsSettled ==
    \A j \in Jobs : (job[j] = "queued")
        ~> (job[j] \in Settled \/ j \in stopped)

\* A download is told that the file has expired, and to ask for the export
\* again, only once its lifetime is over: a worker that has stopped or is still
\* writing, and a sweeper at another job, never make it say so (Service.Open).
ExpiredIsOver ==
    download.step = "answered" /\ download.what = "expired" => download.job \in expires
=============================================================================
