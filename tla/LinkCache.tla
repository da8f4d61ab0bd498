----------------------------- MODULE LinkCache -----------------------------
(***************************************************************************)
(* One short code on one host: its row in links.links, the entry for it in *)
(* Redis, the visitors that follow it and the administrators that change   *)
(* it.  Each server answers from the cache, and behind a miss makes one    *)
(* look-up at a time whose result all its waiting visitors share.          *)
(***************************************************************************)
EXTENDS FiniteSets

CONSTANTS
    Servers,  \* API processes, each with its own single-flight group
    Visitors, \* visits in progress at a time
    Admins,   \* administrators' requests in progress at a time
    None

Settable == {"active", "disabled", "legal_hold"}
Statuses == Settable \cup {"deleted"}
Rows == [status : Statuses, ends : BOOLEAN, by : Admins]
Resolutions == [status : Statuses, ends : BOOLEAN]

ASSUME NoneAssumption == None \notin Visitors \cup Admins \cup Rows

VARIABLES
    row,    \* the link with this code, or None
    over,   \* its expiry date has passed
    cache,  \* the entry in Redis, or None
    late,   \* the entry was wrong when written, or its DEL was lost
    flight, \* [Servers -> the look-up in progress]
    visit,  \* [Visitors -> the visit in progress]
    owes    \* administrators whose DEL is still to come

vars == <<row, over, cache, late, flight, visit, owes>>

\* What is cached for "no such code", and what reading that entry returns.
Negative == [status |-> "-", ends |-> FALSE]
Zero == [status |-> "", ends |-> FALSE]

\* A look-up that failed.
Failed == [status |-> "error", ends |-> FALSE]

Idle == [at |-> "idle"]
Away == [at |-> "away"]

Init ==
    /\ row = None /\ over = FALSE
    /\ cache = None /\ late = FALSE
    /\ flight = [s \in Servers |-> Idle]
    /\ visit = [v \in Visitors |-> Away]
    /\ owes = {}

\* A mutant: the expiry date is not part of what is looked up.
ViewStatusOnly(r) == IF r = None THEN Negative ELSE [status |-> r.status, ends |-> FALSE]

\* links.resolve(): what the redirect sees of the row.
View(r) == IF r = None THEN Negative ELSE [status |-> r.status, ends |-> r.ends]

\* Whether the link may be followed, now.
Check(res) ==
    IF res.status = "legal_hold" THEN "held"
    ELSE IF res.status = "active" /\ ~(res.ends /\ over) THEN "found"
    ELSE "gone"

-----------------------------------------------------------------------------
(* Visitors.                                                               *)

SetVisit(v, next) == visit' = [visit EXCEPT ![v] = next]

\* The cache answers.  Its "no such code" reads as an empty resolution.
Hit(v) ==
    /\ visit[v] = Away /\ cache # None
    /\ SetVisit(v, [at |-> "checks", res |-> IF cache = Negative THEN Zero ELSE cache])
    /\ UNCHANGED <<row, over, cache, late, flight, owes>>

\* There is no entry, or Redis does not answer.
Miss(v, s) ==
    /\ visit[v] = Away
    /\ SetVisit(v, [at |-> "missed", server |-> s])
    /\ UNCHANGED <<row, over, cache, late, flight, owes>>

\* group.Do: the first to come looks the link up, the others wait for it.
Join(v) ==
    /\ visit[v].at = "missed"
    /\ SetVisit(v, [at |-> "waits", server |-> visit[v].server])
    /\ LET s == visit[v].server IN
       flight' = IF flight[s] = Idle
                 THEN [flight EXCEPT ![s] = [at |-> "reads", lead |-> v]]
                 ELSE flight
    /\ UNCHANGED <<row, over, cache, late, owes>>

\* The look-up of s reads the row.
ReadRow(s) ==
    /\ flight[s].at = "reads"
    /\ flight' = [flight EXCEPT ![s] = [at |-> "fills", res |-> View(row)]]
    /\ UNCHANGED <<row, over, cache, late, visit, owes>>

Waiting(s) == {v \in Visitors : visit[v].at = "waits" /\ visit[v].server = s}

\* The look-up of s returns to everyone who waits for it.
Return(s, res) ==
    /\ flight' = [flight EXCEPT ![s] = Idle]
    /\ visit' = [v \in Visitors |->
          IF v \in Waiting(s) THEN [at |-> "checks", res |-> res] ELSE visit[v]]

\* The result is cached, or Redis refuses the SET and it is not.
Fill(s) ==
    /\ flight[s].at = "fills"
    /\ \/ cache' = flight[s].res /\ late' = (flight[s].res # View(row))
       \/ UNCHANGED <<cache, late>>
    /\ Return(s, flight[s].res)
    /\ UNCHANGED <<row, over, owes>>

\* The database does not answer, or the visitor whose request the look-up runs
\* in hangs up: everyone who waits fails with it.
LookupFails(s) ==
    /\ flight[s].at = "reads"
    /\ Return(s, Failed)
    /\ UNCHANGED <<row, over, cache, late, owes>>

\* The handler turns the outcome into 302, 404, 410, 451 or 503.
Answer(v) ==
    /\ visit[v].at = "checks"
    /\ SetVisit(v, [at |-> "answered",
                    answer |-> IF visit[v].res = Negative THEN "missing"
                               ELSE IF visit[v].res = Failed THEN "failed"
                               ELSE Check(visit[v].res)])
    /\ UNCHANGED <<row, over, cache, late, flight, owes>>

\* The visit is over; another one may begin.
Depart(v) ==
    /\ visit[v].at = "answered"
    /\ SetVisit(v, Away)
    /\ UNCHANGED <<row, over, cache, late, flight, owes>>

-----------------------------------------------------------------------------
(* Administrators.                                                         *)

\* Create: the unique index refuses a code that is taken, be it by a deleted
\* link; such a call changes nothing.
Create(a, ends) ==
    /\ a \notin owes /\ row = None
    /\ row' = [status |-> "active", ends |-> ends, by |-> a]
    /\ owes' = owes \cup {a}
    /\ UNCHANGED <<over, cache, late, flight, visit>>

\* A mutant: the entry is left to its TTL.
UpdateOnly(a, status) ==
    /\ a \notin owes /\ row # None
    /\ row' = [row EXCEPT !.status = status]
    /\ UNCHANGED <<over, cache, late, flight, visit, owes>>

\* SetStatus and Delete commit the new status, whatever the old one was.
Update(a, status) ==
    /\ a \notin owes /\ row # None
    /\ row' = [row EXCEPT !.status = status]
    /\ owes' = owes \cup {a}
    /\ UNCHANGED <<over, cache, late, flight, visit>>

\* Invalidate: DEL of the entry.
Invalidate(a) ==
    /\ a \in owes
    /\ owes' = owes \ {a}
    /\ cache' = None /\ late' = FALSE
    /\ UNCHANGED <<row, over, flight, visit>>

\* Redis does not answer the DEL, or the server stops before it.
InvalidateLost(a) ==
    /\ a \in owes
    /\ owes' = owes \ {a}
    /\ late' = (cache # None)
    /\ UNCHANGED <<row, over, cache, flight, visit>>

-----------------------------------------------------------------------------
(* Time.                                                                   *)

\* The expiry date passes.
RunOut ==
    /\ row # None /\ row.ends /\ ~over
    /\ over' = TRUE
    /\ UNCHANGED <<row, cache, late, flight, visit, owes>>

\* The worker's link-expiry job: marks the row, and leaves the cache alone.
ExpireStale ==
    /\ row # None /\ row.status = "active" /\ row.ends /\ over
    /\ row' = [row EXCEPT !.status = "disabled"]
    /\ UNCHANGED <<over, cache, late, flight, visit, owes>>

\* The TTL of the entry ends.  (It is cut to the link's own time when the entry
\* is written, by a clock read before the SET: the entry may outlive the link.)
Drop ==
    /\ cache # None
    /\ cache' = None /\ late' = FALSE
    /\ UNCHANGED <<row, over, flight, visit, owes>>

Next ==
    \/ \E v \in Visitors :
          Hit(v) \/ Join(v) \/ Answer(v) \/ Depart(v) \/ \E s \in Servers : Miss(v, s)
    \/ \E s \in Servers : ReadRow(s) \/ Fill(s) \/ LookupFails(s)
    \/ \E a \in Admins :
          \/ \E ends \in BOOLEAN : Create(a, ends)
          \/ \E status \in Statuses : Update(a, status)
          \/ Invalidate(a) \/ InvalidateLost(a)
    \/ RunOut \/ ExpireStale \/ Drop

Spec == Init /\ [][Next]_vars

-----------------------------------------------------------------------------
Flights ==
    {Idle} \cup [at : {"reads"}, lead : Visitors]
           \cup [at : {"fills"}, res : Resolutions \cup {Negative}]

Visits ==
    {Away} \cup [at : {"missed", "waits"}, server : Servers]
           \cup [at : {"checks"}, res : Resolutions \cup {Negative, Zero, Failed}]
           \cup [at : {"answered"}, answer : {"found", "gone", "held", "missing", "failed"}]

\* Every variable keeps its type.
TypeOK ==
    /\ row \in {None} \cup Rows
    /\ over \in BOOLEAN /\ late \in BOOLEAN /\ owes \subseteq Admins
    /\ cache \in {None, Negative} \cup Resolutions
    /\ flight \in [Servers -> Flights]
    /\ visit \in [Visitors -> Visits]

\* The entry leads visitors where the row would.
Agrees ==
    \/ cache = None
    \/ cache = Negative /\ row = None
    \/ cache # Negative /\ row # None /\ Check(cache) = Check(row)

\* The cache leads visitors elsewhere than the row only while a DEL is on its
\* way, after a DEL was lost, or when the look-up that filled it had read the
\* row before the change.  The sweeper, which drops nothing, is no such reason
\* (SetStatus, Delete and Create invalidate; ExpireStale does not).
StaleHasReason == Agrees \/ late \/ owes # {}

\* Whatever the cache holds, nobody is redirected once the expiry date has
\* passed (Check runs on every answer, the cached ones included).
ExpiredIsGone ==
    [][\A v \in Visitors :
          visit'[v] = [at |-> "answered", answer |-> "found"] /\ visit[v].at # "answered"
             => ~over]_vars
=============================================================================
