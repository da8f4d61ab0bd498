---------------------------- MODULE LinksProofs ----------------------------
(***************************************************************************)
(* Proofs about links and about the reports of their clicks.               *)
(*                                                                         *)
(* LinkCache and Links, for any number of servers, visitors,               *)
(* administrators and hosts: a stale entry has one of the named reasons,   *)
(* nobody is redirected past the expiry date, and a code keeps its host.   *)
(*                                                                         *)
(* EventPipeline and EventReports, for any number of workers and events    *)
(* and any length of the buckets, the lag and the retention: no event      *)
(* vanishes, a closed bucket counts what was stored for it, and the parts  *)
(* of the reports agree.                                                   *)
(***************************************************************************)
EXTENDS Links, EventReports, FiniteSetTheorems, SequenceTheorems, TLAPS

\* An expiry date passes only on a link that has one.
OverOfRow == over => row # None /\ row.ends

\* A copy of the row: the marker, or a resolution with the row's expiry date.
\* Only the status of a link ever changes, so a copy stays one.
Copies(res) == res \in Resolutions /\ row # None /\ res.ends = row.ends

\* What is cached, looked up or about to be answered is a copy of the row.
CarriesEnds ==
    /\ cache \in {None, Negative} \/ Copies(cache)
    /\ \A s \in Servers : flight[s].at = "fills" =>
          flight[s].res = Negative \/ Copies(flight[s].res)
    /\ \A v \in Visitors : visit[v].at = "checks" =>
          visit[v].res \in {Negative, Zero, Failed} \/ Copies(visit[v].res)

\* The inductive invariant.
IInv == TypeOK /\ OverOfRow /\ CarriesEnds /\ StaleHasReason

USE NoneAssumption

-----------------------------------------------------------------------------
(* Facts about single values.                                              *)

\* The markers are no resolutions.
LEMMA Markers == {Negative, Zero, Failed} \cap Resolutions = {}
<1>1. ASSUME NEW r \in Resolutions PROVE r.status \in Statuses
  BY <1>1 DEF Resolutions
<1>2. /\ Negative.status \notin Statuses /\ Zero.status \notin Statuses
      /\ Failed.status \notin Statuses
  BY DEF Negative, Zero, Failed, Statuses, Settable
<1> QED BY <1>1, <1>2

\* What the redirect sees of a row has the row's status and expiry date.
LEMMA ViewOf ==
    ASSUME NEW r \in Rows, r # None
    PROVE  /\ View(r) \in Resolutions
           /\ View(r).status = r.status /\ View(r).ends = r.ends
BY DEF View, Rows, Resolutions

\* What a look-up reads is a copy of the row, or the marker where none is.
LEMMA ViewCopies ==
    ASSUME TypeOK
    PROVE  View(row) = Negative \/ Copies(View(row))
<1>1. CASE row = None
  BY <1>1 DEF View
<1>2. CASE row # None
  <2>1. row \in Rows
    BY <1>2 DEF TypeOK
  <2> QED BY <1>2, <2>1, ViewOf DEF Copies
<1> QED BY <1>1, <1>2

\* A look-up in flight is idle, reads, or has a result to cache.
LEMMA FlightFields ==
    ASSUME NEW f \in Flights
    PROVE  /\ f.at \in {"idle", "reads", "fills"}
           /\ f.at = "fills" => f.res \in Resolutions \cup {Negative}
           /\ f.at = "reads" => f.lead \in Visitors
BY DEF Flights, Idle

\* A visit that waits names a server, one that checks has a result.
LEMMA VisitFields ==
    ASSUME NEW x \in Visits
    PROVE  /\ x.at \in {"away", "missed", "waits", "checks", "answered"}
           /\ x.at \in {"missed", "waits"} =>
                x.server \in Servers
           /\ x.at = "checks" => x.res \in Resolutions \cup {Negative, Zero, Failed}
BY DEF Visits, Away

\* The answer to a result.
LEMMA CheckType ==
    ASSUME NEW res
    PROVE  Check(res) \in {"held", "found", "gone"}
BY DEF Check
-----------------------------------------------------------------------------
(* The type invariant.                                                     *)

\* The initial state is typed.
LEMMA TypeInit == Init => TypeOK
BY DEF TypeOK, Init, Flights, Visits, Idle, Away

\* A change of one visit keeps the type of the visits.
LEMMA SetVisitType ==
    ASSUME TypeOK, NEW v, NEW x \in Visits, SetVisit(v, x)
    PROVE  visit' \in [Visitors -> Visits]
BY DEF TypeOK, SetVisit

\* A look-up that returns leaves typed visits and look-ups.
LEMMA ReturnType ==
    ASSUME TypeOK, NEW s \in Servers,
           NEW res \in Resolutions \cup {Negative, Failed}, Return(s, res)
    PROVE  flight' \in [Servers -> Flights] /\ visit' \in [Visitors -> Visits]
BY DEF TypeOK, Return, Flights, Visits

\* Every step of a visitor keeps the types.
LEMMA VisitorType ==
    ASSUME TypeOK, NEW v \in Visitors,
           Hit(v) \/ Join(v) \/ Answer(v) \/ Depart(v) \/ \E s \in Servers : Miss(v, s)
    PROVE  TypeOK'
<1> USE DEF TypeOK
<1>1. CASE Hit(v)
  <2> DEFINE x == [at |-> "checks", res |-> IF cache = Negative THEN Zero ELSE cache]
  <2>1. x \in Visits
    BY <1>1 DEF Hit, Visits
  <2>2. SetVisit(v, x)
    BY <1>1 DEF Hit
  <2> QED BY <1>1, <2>1, <2>2, SetVisitType DEF Hit
<1>2. CASE Join(v)
  <2>1. visit[v].server \in Servers
    BY <1>2, VisitFields DEF Join
  <2> DEFINE x == [at |-> "waits", server |-> visit[v].server]
  <2>2. x \in Visits
    BY <2>1 DEF Visits
  <2>3. visit' \in [Visitors -> Visits]
    BY <1>2, <2>2, SetVisitType DEF Join
  <2>4. [at |-> "reads", lead |-> v] \in Flights
    BY DEF Flights
  <2>5. flight' \in [Servers -> Flights]
    BY <1>2, <2>4 DEF Join
  <2> QED BY <1>2, <2>3, <2>5 DEF Join
<1>3. CASE Answer(v)
  <2> DEFINE x == [at |-> "answered",
                   answer |-> IF visit[v].res = Negative THEN "missing"
                              ELSE IF visit[v].res = Failed THEN "failed"
                              ELSE Check(visit[v].res)]
  <2>1. x \in Visits
    BY CheckType DEF Visits
  <2>2. SetVisit(v, x)
    BY <1>3 DEF Answer
  <2> QED BY <1>3, <2>1, <2>2, SetVisitType DEF Answer
<1>4. CASE Depart(v)
  <2>1. Away \in Visits
    BY DEF Visits
  <2> QED BY <1>4, <2>1, SetVisitType DEF Depart
<1>5. ASSUME NEW s \in Servers, Miss(v, s) PROVE TypeOK'
  <2>1. [at |-> "missed", server |-> s] \in Visits
    BY DEF Visits
  <2> QED BY <1>5, <2>1, SetVisitType DEF Miss
<1> QED BY <1>1, <1>2, <1>3, <1>4, <1>5

\* Every step of a look-up keeps the types.
LEMMA LookupType ==
    ASSUME TypeOK, NEW s \in Servers, ReadRow(s) \/ Fill(s) \/ LookupFails(s)
    PROVE  TypeOK'
<1> USE DEF TypeOK
<1>1. CASE ReadRow(s)
  <2>1. View(row) \in Resolutions \cup {Negative}
    BY ViewCopies DEF Copies
  <2>2. [at |-> "fills", res |-> View(row)] \in Flights
    BY <2>1 DEF Flights
  <2> QED BY <1>1, <2>2 DEF ReadRow
<1>2. CASE Fill(s)
  <2>1. flight[s].res \in Resolutions \cup {Negative}
    BY <1>2, FlightFields DEF Fill
  <2>2. flight' \in [Servers -> Flights] /\ visit' \in [Visitors -> Visits]
    BY <1>2, <2>1, ReturnType DEF Fill
  <2> QED BY <1>2, <2>1, <2>2 DEF Fill
<1>3. CASE LookupFails(s)
  <2>1. flight' \in [Servers -> Flights] /\ visit' \in [Visitors -> Visits]
    BY <1>3, ReturnType DEF LookupFails
  <2> QED BY <1>3, <2>1 DEF LookupFails
<1> QED BY <1>1, <1>2, <1>3

\* Every step of an administrator and of time keeps the types.
LEMMA OthersType ==
    ASSUME TypeOK,
           \/ \E a \in Admins : \/ \E ends \in BOOLEAN : Create(a, ends)
                                \/ \E status \in Statuses : Update(a, status)
                                \/ Invalidate(a) \/ InvalidateLost(a)
           \/ RunOut \/ ExpireStale \/ Drop
    PROVE  TypeOK'
<1> USE DEF TypeOK
<1>1. ASSUME NEW a \in Admins, NEW ends \in BOOLEAN, Create(a, ends) PROVE TypeOK'
  <2>1. row' \in Rows
    BY <1>1 DEF Create, Rows, Statuses, Settable
  <2> QED BY <1>1, <2>1 DEF Create
<1>2. ASSUME NEW a \in Admins, NEW status \in Statuses, Update(a, status) PROVE TypeOK'
  <2>1. row' \in Rows
    BY <1>2 DEF Update, Rows
  <2> QED BY <1>2, <2>1 DEF Update
<1>3. ASSUME NEW a \in Admins, Invalidate(a) \/ InvalidateLost(a) PROVE TypeOK'
  BY <1>3 DEF Invalidate, InvalidateLost
<1>4. CASE RunOut
  BY <1>4 DEF RunOut
<1>5. CASE ExpireStale
  <2>1. row' \in Rows
    BY <1>5 DEF ExpireStale, Rows, Statuses, Settable
  <2> QED BY <1>5, <2>1 DEF ExpireStale
<1>6. CASE Drop
  BY <1>6 DEF Drop
<1> QED BY <1>1, <1>2, <1>3, <1>4, <1>5, <1>6

\* Every step keeps the types.
LEMMA TypeStep == TypeOK /\ [Next]_vars => TypeOK'
<1> SUFFICES ASSUME TypeOK, [Next]_vars PROVE TypeOK'
  OBVIOUS
<1>1. CASE UNCHANGED vars
  BY <1>1 DEF vars, TypeOK
<1>2. CASE Next
  BY <1>2, VisitorType, LookupType, OthersType DEF Next
<1> QED BY <1>1, <1>2

\* Every variable keeps its type.
THEOREM TypeCorrect == Spec => []TypeOK
BY TypeInit, TypeStep, PTL DEF Spec

-----------------------------------------------------------------------------
(* Copies of the row.                                                      *)

\* Every step of a visitor keeps the invariant: what it takes from the cache was
\* a copy before.
LEMMA VisitorInv ==
    ASSUME IInv, TypeOK', NEW v \in Visitors,
           Hit(v) \/ Join(v) \/ Answer(v) \/ Depart(v) \/ \E s \in Servers : Miss(v, s)
    PROVE  IInv'
<1> USE DEF IInv
<1>0. /\ UNCHANGED <<row, over, cache, late, owes>>
      /\ \A res : Copies(res)' <=> Copies(res)
      /\ visit \in [Visitors -> Visits]
  BY DEF Hit, Join, Answer, Depart, Miss, Copies, TypeOK
<1>1. OverOfRow' /\ StaleHasReason'
  BY <1>0 DEF OverOfRow, StaleHasReason, Agrees, Check
<1>2. \A s \in Servers : flight'[s].at = "fills" => flight'[s] = flight[s]
  <2>1. flight' = flight \/ \E s \in Servers :
           flight' = [flight EXCEPT ![s] = [at |-> "reads", lead |-> v]]
    <3>1. CASE Join(v)
      <4>1. visit[v].server \in Servers
        BY <1>0, <3>1, VisitFields DEF Join
      <4> QED BY <3>1, <4>1 DEF Join
    <3> QED BY <3>1 DEF Hit, Answer, Depart, Miss
  <2>2. flight \in [Servers -> Flights]
    BY DEF TypeOK
  <2> QED BY <2>1, <2>2
<1>3. \A x \in Visitors : visit'[x].at = "checks" =>
         \/ visit'[x] = visit[x]
         \/ cache # None /\ visit'[x].res \in {Zero, cache}
  <2>1. CASE Hit(v)
    BY <1>0, <2>1 DEF Hit, SetVisit
  <2>2. CASE Join(v)
    BY <1>0, <2>2 DEF Join, SetVisit
  <2>3. CASE Answer(v)
    BY <1>0, <2>3 DEF Answer, SetVisit
  <2>4. CASE Depart(v)
    BY <1>0, <2>4 DEF Depart, SetVisit, Away
  <2>5. ASSUME NEW s \in Servers, Miss(v, s)
        PROVE  \A x \in Visitors : visit'[x].at = "checks" => visit'[x] = visit[x]
    BY <1>0, <2>5 DEF Miss, SetVisit
  <2> QED BY <2>1, <2>2, <2>3, <2>4, <2>5
<1>4. CarriesEnds'
  BY <1>0, <1>2, <1>3 DEF CarriesEnds
<1> QED BY <1>1, <1>4

\* A look-up hands out a copy of the row it read, and names an entry it made
\* out of an older one.
LEMMA LookupInv ==
    ASSUME IInv, TypeOK', NEW s \in Servers, ReadRow(s) \/ Fill(s) \/ LookupFails(s)
    PROVE  IInv'
<1> USE DEF IInv
<1>0. /\ UNCHANGED <<row, over, owes>>
      /\ \A res : Copies(res)' <=> Copies(res)
      /\ flight \in [Servers -> Flights] /\ visit \in [Visitors -> Visits]
      /\ OverOfRow'
  BY DEF ReadRow, Fill, LookupFails, Copies, TypeOK, OverOfRow
<1>1. CASE ReadRow(s)
  <2>1. View(row) = Negative \/ Copies(View(row))
    BY ViewCopies
  <2>2. CarriesEnds'
    BY <1>0, <1>1, <2>1 DEF ReadRow, CarriesEnds
  <2>3. StaleHasReason'
    BY <1>0, <1>1 DEF ReadRow, StaleHasReason, Agrees, Check
  <2> QED BY <1>0, <2>2, <2>3
<1>2. ASSUME NEW res, res = Negative \/ res = Failed \/ Copies(res), Return(s, res)
      PROVE  /\ \A t \in Servers : flight'[t].at = "fills" =>
                  flight'[t].res = Negative \/ Copies(flight'[t].res)
             /\ \A v \in Visitors : visit'[v].at = "checks" =>
                  visit'[v].res \in {Negative, Zero, Failed} \/ Copies(visit'[v].res)
  BY <1>0, <1>2 DEF CarriesEnds, Return, Idle
<1>3. CASE Fill(s)
  <2> DEFINE res == flight[s].res
  <2>1. res = Negative \/ Copies(res)
    BY <1>3 DEF Fill, CarriesEnds
  <2>2. CarriesEnds'
    <3>1. cache' \in {None, Negative} \/ Copies(cache')
      BY <1>3, <2>1 DEF Fill, CarriesEnds
    <3>2. Return(s, res)
      BY <1>3 DEF Fill
    <3> QED BY <1>0, <1>2, <2>1, <3>1, <3>2 DEF CarriesEnds
  <2>3. StaleHasReason'
    <3>1. CASE UNCHANGED <<cache, late>>
      BY <1>0, <3>1 DEF StaleHasReason, Agrees, Check
    <3>2. CASE cache' = View(row) /\ row = None
      BY <1>0, <3>2 DEF View, StaleHasReason, Agrees
    <3>3. CASE cache' = View(row) /\ row # None
      <4>1. row \in Rows
        BY <3>3 DEF TypeOK
      <4>2. /\ cache' \in Resolutions /\ cache'.status = row.status
            /\ cache'.ends = row.ends /\ over' = over /\ row' = row
        BY <1>0, <3>3, <4>1, ViewOf
      <4>3. cache' # Negative
        BY <4>2, Markers
      <4> QED BY <3>3, <4>2, <4>3 DEF StaleHasReason, Agrees, Check
    <3>4. CASE cache' = res /\ late' = (res # View(row))
      BY <3>2, <3>3, <3>4 DEF StaleHasReason
    <3> QED BY <1>3, <3>1, <3>4 DEF Fill
  <2> QED BY <1>0, <2>2, <2>3
<1>4. CASE LookupFails(s)
  <2>1. CarriesEnds'
    BY <1>0, <1>2, <1>4 DEF LookupFails, CarriesEnds
  <2>2. StaleHasReason'
    BY <1>0, <1>4 DEF LookupFails, StaleHasReason, Agrees, Check
  <2> QED BY <1>0, <2>1, <2>2
<1> QED BY <1>1, <1>3, <1>4

\* An administrator's commit leaves a DEL to come, which is the reason for any
\* entry that it makes stale.
LEMMA AdminInv ==
    ASSUME IInv, TypeOK', NEW a \in Admins,
           \/ \E ends \in BOOLEAN : Create(a, ends)
           \/ \E status \in Statuses : Update(a, status)
           \/ Invalidate(a) \/ InvalidateLost(a)
    PROVE  IInv'
<1> USE DEF IInv
<1>1. ASSUME NEW ends \in BOOLEAN, Create(a, ends) PROVE IInv'
  <2>1. /\ row = None /\ a \in owes' /\ ~over
        /\ UNCHANGED <<over, cache, flight, visit>>
    BY <1>1 DEF Create, OverOfRow, TypeOK
  <2>2. OverOfRow' /\ StaleHasReason'
    BY <2>1 DEF OverOfRow, StaleHasReason
  <2>3. CarriesEnds'
    BY <2>1 DEF CarriesEnds, Copies
  <2> QED BY <2>2, <2>3
<1>2. ASSUME NEW status \in Statuses, Update(a, status) PROVE IInv'
  <2>1. /\ row \in Rows /\ row' \in Rows /\ row'.ends = row.ends /\ a \in owes'
        /\ UNCHANGED <<over, cache, flight, visit>>
    BY <1>2 DEF Update, Rows, TypeOK
  <2>2. OverOfRow' /\ StaleHasReason'
    BY <2>1 DEF OverOfRow, StaleHasReason
  <2>3. \A res : Copies(res) => Copies(res)'
    BY <2>1 DEF Copies
  <2>4. CarriesEnds'
    BY <2>1, <2>3 DEF CarriesEnds
  <2> QED BY <2>2, <2>4
<1>3. CASE Invalidate(a) \/ InvalidateLost(a)
  <2>1. /\ UNCHANGED <<row, over, flight, visit>>
        /\ cache' = None \/ (cache' = cache /\ late' = (cache # None))
    BY <1>3 DEF Invalidate, InvalidateLost
  <2>2. OverOfRow' /\ StaleHasReason'
    BY <2>1 DEF OverOfRow, StaleHasReason, Agrees
  <2>3. CarriesEnds'
    BY <2>1 DEF CarriesEnds, Copies
  <2> QED BY <2>2, <2>3
<1> QED BY <1>1, <1>2, <1>3

\* Time changes what a row and a copy of it lead to in the same way.
LEMMA TimeInv ==
    ASSUME IInv, TypeOK', RunOut \/ ExpireStale \/ Drop
    PROVE  IInv'
<1> USE DEF IInv
<1>1. CASE RunOut
  <2>1. /\ row # None /\ row.ends /\ ~over /\ over'
        /\ UNCHANGED <<row, cache, late, flight, visit, owes>>
    BY <1>1 DEF RunOut, TypeOK
  <2>2. OverOfRow' /\ CarriesEnds'
    BY <2>1 DEF OverOfRow, CarriesEnds, Copies
  <2>3. StaleHasReason'
    <3>1. CASE Agrees /\ cache # None
      <4>1. cache # Negative /\ Check(cache) = Check(row) /\ cache.ends
        BY <2>1, <3>1 DEF Agrees, CarriesEnds, Copies
      <4>2. Check(cache)' = Check(row)'
        BY <2>1, <4>1 DEF Check
      <4> QED BY <2>1, <4>1, <4>2 DEF StaleHasReason, Agrees
    <3> QED BY <2>1, <3>1 DEF StaleHasReason, Agrees
  <2> QED BY <2>2, <2>3
<1>2. CASE ExpireStale
  <2>1. /\ row \in Rows /\ row' \in Rows /\ row'.ends = row.ends
        /\ row.status = "active" /\ row.ends /\ over /\ row'.status = "disabled"
        /\ UNCHANGED <<over, cache, late, flight, visit, owes>>
    BY <1>2 DEF ExpireStale, Rows, TypeOK, Statuses, Settable
  <2>2. \A res : Copies(res) => Copies(res)'
    BY <2>1 DEF Copies
  <2>3. OverOfRow' /\ CarriesEnds'
    BY <2>1, <2>2 DEF OverOfRow, CarriesEnds
  <2>4. Check(row)' = Check(row) /\ Check(cache)' = Check(cache)
    BY <2>1 DEF Check
  <2>5. StaleHasReason'
    BY <2>1, <2>4 DEF StaleHasReason, Agrees
  <2> QED BY <2>3, <2>5
<1>3. CASE Drop
  BY <1>3 DEF Drop, OverOfRow, CarriesEnds, Copies, StaleHasReason, Agrees
<1> QED BY <1>1, <1>2, <1>3

-----------------------------------------------------------------------------
\* The conjunction is inductive: it holds initially and every step keeps it.
THEOREM Inductive == Spec => []IInv
<1>1. Init => IInv
  BY TypeInit DEF Init, IInv, OverOfRow, CarriesEnds, StaleHasReason, Agrees, Idle, Away
<1>2. IInv /\ [Next]_vars => IInv'
  <2> SUFFICES ASSUME IInv, [Next]_vars PROVE IInv'
    OBVIOUS
  <2>0. TypeOK'
    BY TypeStep DEF IInv
  <2>1. CASE UNCHANGED vars
    BY <2>0, <2>1 DEF vars, IInv, OverOfRow, CarriesEnds, Copies, StaleHasReason, Agrees, Check
  <2>2. CASE Next
    BY <2>0, <2>2, VisitorInv, LookupInv, AdminInv, TimeInv DEF Next
  <2> QED BY <2>1, <2>2
<1> QED BY <1>1, <1>2, PTL DEF Spec

\* However many servers fill the cache and administrators change the link, an
\* entry that disagrees with the row has one of the three reasons.
THEOREM StaleReason == Spec => []StaleHasReason
BY Inductive, PTL DEF IInv

\* A visitor is redirected by an answer alone, and only before the expiry date:
\* the result at hand carries the date, wherever it came from.
LEMMA AnswerStep ==
    ASSUME IInv, [Next]_vars, NEW v \in Visitors,
           visit'[v] = [at |-> "answered", answer |-> "found"], visit[v].at # "answered"
    PROVE  ~over
<1>0. visit \in [Visitors -> Visits]
  BY DEF IInv, TypeOK
<1>1. Answer(v)
  <2>1. visit'[v] # visit[v] /\ visit'[v].at = "answered"
    OBVIOUS
  <2>2. ASSUME NEW x \in Visitors, NEW y, SetVisit(x, y), y.at # "answered" PROVE FALSE
    BY <1>0, <2>1, <2>2 DEF SetVisit
  <2>3. ASSUME NEW s, NEW res, Return(s, res) PROVE FALSE
    BY <2>1, <2>3 DEF Return
  <2>4. ASSUME NEW x \in Visitors, Answer(x) PROVE x = v
    BY <1>0, <2>1, <2>4 DEF Answer, SetVisit
  <2>5. \A x \in Visitors : ~Hit(x) /\ ~Join(x) /\ ~Depart(x)
    BY <2>2 DEF Hit, Join, Depart, Away
  <2>6. \A x \in Visitors, s \in Servers : ~Miss(x, s)
    BY <2>2 DEF Miss
  <2>7. \A s \in Servers : ~ReadRow(s) /\ ~Fill(s) /\ ~LookupFails(s)
    BY <2>1, <2>3 DEF ReadRow, Fill, LookupFails
  <2>8. \E x \in Visitors : Answer(x)
    BY <2>1, <2>5, <2>6, <2>7
       DEF Next, vars, Create, Update, Invalidate, InvalidateLost, RunOut, ExpireStale, Drop
  <2> QED BY <2>4, <2>8
<1>2. /\ visit[v].at = "checks" /\ visit[v].res # Negative /\ visit[v].res # Failed
      /\ Check(visit[v].res) = "found"
  BY <1>0, <1>1 DEF Answer, SetVisit
<1>3. visit[v].res.status = "active" /\ ~(visit[v].res.ends /\ over)
  BY <1>2 DEF Check
<1>4. visit[v].res # Zero
  <2>1. Zero.status # "active"
    BY DEF Zero
  <2> QED BY <1>3, <2>1
<1>5. Copies(visit[v].res)
  BY <1>2, <1>4 DEF IInv, CarriesEnds
<1> QED BY <1>3, <1>5 DEF IInv, OverOfRow, Copies

\* Nobody is redirected once the expiry date has passed, whatever is cached.
THEOREM NotPastExpiry == Spec => ExpiredIsGone
<1>1. IInv /\ [Next]_vars =>
        [\A v \in Visitors :
           visit'[v] = [at |-> "answered", answer |-> "found"] /\ visit[v].at # "answered"
             => ~over]_vars
  BY AnswerStep
<1> QED BY <1>1, Inductive, PTL DEF Spec, ExpiredIsGone

-----------------------------------------------------------------------------
(* The administration of the link and of its host.                         *)

\* What Links does to a link is what LinkCache says may happen to it: whatever
\* an administrator's request has read before, and whatever becomes of the hosts.
THEOREM LinksFollow == LinksSpec => Spec
<1>1. LinksInit => Init
  BY DEF LinksInit
<1>2. [LinksNext]_linksVars => [Next]_vars
  <2> SUFFICES ASSUME LinksNext PROVE [Next]_vars
    BY DEF linksVars
  <2>1. ASSUME NEW a \in Admins, NEW ends \in BOOLEAN, Insert(a, ends) PROVE Next
    BY <2>1 DEF Insert, Next
  <2>2. ASSUME NEW a \in Admins, NEW status \in Settable, Patch(a, status) PROVE Next
    BY <2>2 DEF Patch, Next, Statuses
  <2>3. ASSUME NEW a \in Admins, Delete(a) PROVE Next
    BY <2>3 DEF Delete, Next, Statuses
  <2>4. ASSUME NEW a \in Admins, ReadDefault(a) \/ Get(a) \/ GiveUp(a) PROVE UNCHANGED vars
    BY <2>4 DEF ReadDefault, Get, GiveUp
  <2>5. CASE \/ \E v \in Visitors :
                   \/ Quiet /\ (Hit(v) \/ \E s \in Servers : Miss(v, s))
                   \/ Join(v) \/ Answer(v) \/ Depart(v)
             \/ \E s \in Servers : ReadRow(s) \/ Fill(s) \/ LookupFails(s)
             \/ \E a \in Admins : Invalidate(a) \/ InvalidateLost(a)
             \/ RunOut \/ ExpireStale \/ Drop
    BY <2>5 DEF Next
  <2> QED BY <2>1, <2>2, <2>3, <2>4, <2>5 DEF LinksNext
<1> QED BY <1>1, <1>2, PTL DEF LinksSpec, Spec

\* A change of the hosts takes one away only if no link refers to it.
LEMMA HostsMove ==
    ASSUME DomainsNext(LinkCount, Referred), NEW h \in Referred, h \in Present
    PROVE  h \in Present'
<1>1. ASSUME NEW o \in Changes,
             \/ \E x \in Hosts, wanted \in BOOLEAN : AddDomain(o, x, wanted)
             \/ \E x \in Hosts : ChooseDefault(o, x) \/ AskDelete(o, x, LinkCount[x])
      PROVE  domains' = domains
  BY <1>1 DEF AddDomain, ChooseDefault, AskDelete, Begin
<1>2. ASSUME NEW o \in Changes, InsertDomain(o) PROVE Present \subseteq Present'
  BY <1>2 DEF InsertDomain, Commit, Present
<1>3. ASSUME NEW o \in Changes, SetDefaultDomain(o) PROVE Present' = Present
  BY <1>3 DEF SetDefaultDomain, Commit, Present
<1>4. ASSUME NEW o \in Changes, DeleteDomain(o, Referred) PROVE h \in Present'
  <2>1. changes[o].host # h /\ DOMAIN domains' = DOMAIN domains \ {changes[o].host}
    BY <1>4 DEF DeleteDomain, Commit, Present
  <2> QED BY <2>1 DEF Present
<1>5. ASSUME NEW o \in Changes, Abort(o) PROVE domains' = domains
  BY <1>5 DEF Abort, Commit
<1> QED BY <1>1, <1>2, <1>3, <1>4, <1>5 DEF DomainsNext, Present

\* A code that is out keeps the host it was created on, whatever was read before.
LEMMA HostStays ==
    ASSUME CodesKeepTheirHost, [LinksNext]_linksVars
    PROVE  CodesKeepTheirHost'
<1>1. CASE UNCHANGED domainVars /\ (row' # None => row # None)
  BY <1>1 DEF CodesKeepTheirHost, domainVars, Present
<1>2. ASSUME NEW a \in Admins, NEW ends \in BOOLEAN, Insert(a, ends) PROVE CodesKeepTheirHost'
  BY <1>2 DEF Insert, CodesKeepTheirHost, domainVars, Present
<1>3. ASSUME NEW a \in Admins,
             \/ ReadDefault(a) \/ Get(a) \/ Delete(a) \/ GiveUp(a)
             \/ \E status \in Settable : Patch(a, status)
      PROVE  UNCHANGED domainVars /\ (row' # None => row # None)
  BY <1>3 DEF ReadDefault, Get, Delete, GiveUp, Patch, Update, vars
<1>4. ASSUME \/ \E v \in Visitors :
                   \/ Hit(v) \/ \E s \in Servers : Miss(v, s)
                   \/ Join(v) \/ Answer(v) \/ Depart(v)
             \/ \E s \in Servers : ReadRow(s) \/ Fill(s) \/ LookupFails(s)
             \/ \E a \in Admins : Invalidate(a) \/ InvalidateLost(a)
             \/ RunOut \/ ExpireStale \/ Drop
      PROVE  row' # None => row # None
  BY <1>4 DEF Hit, Miss, Join, Answer, Depart, ReadRow, Fill, LookupFails, Invalidate,
              InvalidateLost, RunOut, ExpireStale, Drop
<1>5. ASSUME DomainsNext(LinkCount, Referred), UNCHANGED vars PROVE CodesKeepTheirHost'
  <2>1. row' = row /\ (row # None => Home \in Referred)
    BY <1>5, HomeAssumption DEF vars, Referred
  <2> QED BY <1>5, <2>1, HostsMove DEF CodesKeepTheirHost
<1>6. CASE UNCHANGED linksVars
  BY <1>1, <1>6 DEF linksVars, vars
<1> QED BY <1>1, <1>2, <1>3, <1>4, <1>5, <1>6 DEF LinksNext

\* No removal of a host takes a code's away, and no code comes out on a host
\* that was removed meanwhile.
THEOREM HostKept == LinksSpec => []CodesKeepTheirHost
<1>1. LinksInit => CodesKeepTheirHost
  BY DEF LinksInit, Init, CodesKeepTheirHost
<1>2. CodesKeepTheirHost /\ [LinksNext]_linksVars => CodesKeepTheirHost'
  BY HostStays
<1> QED BY <1>1, <1>2, PTL DEF LinksSpec

-----------------------------------------------------------------------------
(* The pipeline: its inductive invariant.                                  *)

HIDE NoneAssumption

\* What a worker reads stays pending or is stored, and it is stored before it is
\* acknowledged.
BatchHeld ==
    \A w \in Workers :
        /\ batch[w].entries \subseteq pending \cup seen
        /\ batch[w].at = "stored" => batch[w].entries \subseteq seen

\* Where an entry can be once its batch is left out of account.
Held == Unread \cup buffer \cup pending \cup trimmed \cup lost \cup seen
ReportedHeld == \A e \in Events : at[e] # NoCursor => \E x \in Held : x[1] = e

\* The stream holds no more than was reported, and gives up entries only past its
\* length.
StreamBounded == Len(stream) <= sent /\ (trimmed # {} => sent > StreamMax)

\* Only partitions past the retention have gone.
OldestPast == oldest <= Cutoff

\* The raw events since the oldest partition are all there.
RawComplete ==
    /\ stored = {x \in seen : x[2] >= oldest}
    /\ \A x \in dropped : x[2] < oldest

\* A raw event that went in time had been passed by every roller.
DroppedBehind ==
    \A x \in seen \ (stored \cup dropped) :
        cursor > x[2] /\ \A w \in Workers : mem[w] # NoCursor => mem[w] > x[2]

\* Only stored events are counted.
RolledSeen == \A b \in Buckets, e \in Events : e \in rolled[b] => <<e, b>> \in seen

\* The buckets below n are counted in full, but for the exceptions.
CountedTo(n) ==
    \A b \in Buckets, e \in Events :
        b < n /\ <<e, b>> \in seen \ (belated \cup dropped) => e \in rolled[b]

\* What a cursor has passed, on the row, in memory or about to be written, is counted.
CursorsCounted ==
    /\ CountedTo(cursor)
    /\ \A w \in Workers :
        /\ CountedTo(mem[w]) /\ CountedTo(roll[w])
        /\ roll[w] # NoCursor => mem[w] # NoCursor /\ mem[w] < roll[w]

\* The inductive invariant of the pipeline.
PipelineInv ==
    /\ PipelineTypeOK /\ IsFiniteSet(buffer)
    /\ BatchHeld /\ ReportedHeld /\ StreamBounded /\ OldestPast
    /\ RawComplete /\ DroppedBehind /\ RolledSeen /\ CursorsCounted

-----------------------------------------------------------------------------
(* Buckets and the clock.                                                  *)

\* Rounding down to a bucket.
LEMMA BucketOf ==
    ASSUME NEW n \in Nat, NEW k \in Nat
    PROVE  n \div Width \in Nat /\ (n \div Width >= k <=> n >= k * Width)
<1>1. n \div Width \in Nat
  BY ClockAssumption
<1>2. n \div Width >= k => n >= k * Width
  BY ClockAssumption
<1>3. n >= k * Width => n \div Width >= k
  BY ClockAssumption
<1> QED BY <1>1, <1>2, <1>3

\* Buckets do not go back.
LEMMA BucketGrows ==
    ASSUME NEW m \in Nat, NEW n \in Nat, m <= n
    PROVE  m \div Width <= n \div Width
<1> DEFINE k == m \div Width
<1>1. k \in Nat /\ m >= k * Width
  BY BucketOf
<1>2. k * Width \in Nat
  BY <1>1, ClockAssumption
<1>3. n >= k * Width
  BY <1>1, <1>2
<1> HIDE DEF k
<1>4. n \div Width >= k /\ n \div Width \in Nat
  BY <1>1, <1>3, BucketOf
<1> QED BY <1>1, <1>4 DEF k

\* At most one bucket past the last has closed.
LEMMA OpenAtType ==
    ASSUME NEW t \in 0..MaxClock
    PROVE  OpenAt(t) \in 0..Last + 1
<1>1. CASE t < Lag
  BY <1>1, ClockAssumption DEF OpenAt
<1>2. CASE ~(t < Lag)
  <2> DEFINE n == t - Lag
  <2>0. (Last + 1) * Width \in Nat
    BY ClockAssumption
  <2>1. n \in Nat /\ n <= (Last + 1) * Width
    BY <1>2, <2>0, ClockAssumption DEF MaxClock
  <2>2. OpenAt(t) = n \div Width
    BY <1>2 DEF OpenAt
  <2> HIDE DEF n
  <2>3. (Last + 1) * Width < (Last + 2) * Width /\ (Last + 2) * Width \in Nat
    BY ClockAssumption
  <2>4. ~(n >= (Last + 2) * Width)
    BY <2>0, <2>1, <2>3
  <2>5. n \div Width \in Nat /\ ~(n \div Width >= Last + 2)
    BY <2>1, <2>4, BucketOf, ClockAssumption
  <2> QED BY <2>2, <2>5, ClockAssumption
<1> QED BY <1>1, <1>2

\* A closed bucket stays closed.
LEMMA OpenAtGrows ==
    ASSUME NEW t \in 0..MaxClock, t + 1 \in 0..MaxClock
    PROVE  OpenAt(t) <= OpenAt(t + 1)
<1>0. MaxClock \in Nat
  BY ClockAssumption DEF MaxClock
<1>1. CASE t < Lag
  <2>1. OpenAt(t) = 0 /\ OpenAt(t + 1) \in 0..Last + 1
    BY <1>1, OpenAtType DEF OpenAt
  <2> QED BY <2>1, ClockAssumption
<1>2. CASE ~(t < Lag)
  <2>1. t - Lag \in Nat /\ t + 1 - Lag \in Nat /\ t - Lag <= t + 1 - Lag /\ ~(t + 1 < Lag)
    BY <1>0, <1>2, ClockAssumption
  <2>2. (t - Lag) \div Width <= (t + 1 - Lag) \div Width
    BY <2>1, BucketGrows
  <2>3. OpenAt(t) = (t - Lag) \div Width
    BY <1>2 DEF OpenAt
  <2>4. OpenAt(t + 1) = (t + 1 - Lag) \div Width
    BY <2>1, ClockAssumption DEF OpenAt
  <2> QED BY <2>2, <2>3, <2>4
<1> QED BY <1>1, <1>2

\* The retention reaches back to a bucket, and to no earlier one later.
LEMMA RetentionGrows ==
    ASSUME NEW m \in Nat, NEW n \in Nat, m <= n,
           NEW x, x = IF m < Retention THEN 0 ELSE (m - Retention) \div Width,
           NEW y, y = IF n < Retention THEN 0 ELSE (n - Retention) \div Width
    PROVE  x \in Nat /\ y \in Nat /\ x <= y
<1>0. Retention \in Nat
  BY ClockAssumption
<1>1. ASSUME NEW t \in Nat, ~(t < Retention)
      PROVE  t - Retention \in Nat /\ (t - Retention) \div Width \in Nat
  <2>1. t - Retention \in Nat
    BY <1>0, <1>1
  <2> QED BY <2>1, BucketOf
<1>2. CASE m < Retention
  BY <1>1, <1>2
<1>3. CASE ~(m < Retention)
  <2>1. /\ m - Retention \in Nat /\ n - Retention \in Nat
        /\ m - Retention <= n - Retention /\ ~(n < Retention)
    BY <1>0, <1>3
  <2>2. (m - Retention) \div Width <= (n - Retention) \div Width
    BY <2>1, BucketGrows
  <2>3. x = (m - Retention) \div Width
    BY <1>3
  <2>4. y = (n - Retention) \div Width
    BY <2>1
  <2> QED BY <1>1, <1>3, <2>1, <2>2, <2>3, <2>4
<1> QED BY <1>2, <1>3

\* What Maintain reaches back to is a bucket, and does not go back.
LEMMA CutoffGrows ==
    ASSUME clock \in Nat, clock' \in Nat, clock <= clock'
    PROVE  Cutoff \in Nat /\ Cutoff' \in Nat /\ Cutoff <= Cutoff'
BY RetentionGrows DEF Cutoff

\* Raw events are reported from a bucket that the retention has not reached.
LEMMA RawFromKept ==
    ASSUME clock \in 0..MaxClock
    PROVE  RawFrom \in Nat /\ RawFrom >= Cutoff
<1>0. MaxClock \in Nat /\ Width \in Nat \ {0} /\ Retention \in Nat
  BY ClockAssumption DEF MaxClock
<1>1. CASE clock < Retention
  BY <1>1 DEF RawFrom, Cutoff
<1>2. CASE ~(clock < Retention)
  <2> DEFINE n == clock - Retention
             Bucket(b) == b * Width >= n /\ (b = 0 \/ (b - 1) * Width < n)
             up == (n + Width - 1) \div Width
  <2>1. n \in Nat /\ n <= MaxClock /\ n + Width - 1 \in Nat
    BY <1>0, <1>2
  <2>2. up \in Nat /\ up * Width <= n + Width - 1 /\ ~(n + Width - 1 >= (up + 1) * Width)
    <3>1. up \in Nat
      BY <2>1, BucketOf
    <3> HIDE DEF up
    <3>2. up >= up /\ ~(up >= up + 1)
      BY <3>1
    <3>3. n + Width - 1 >= up * Width /\ ~(n + Width - 1 >= (up + 1) * Width)
      BY <2>1, <3>1, <3>2, BucketOf DEF up
    <3> QED BY <2>1, <3>1, <3>3, <1>0
  <2>3. RawFrom = CHOOSE b \in 0..MaxClock : Bucket(b)
    BY <1>2 DEF RawFrom
  <2>4. Cutoff = n \div Width
    BY <1>2 DEF Cutoff
  <2> HIDE DEF n, up
  <2>5. Bucket(up)
    BY <1>0, <2>1, <2>2
  <2>6. up <= n
    <3>1. CASE up >= n + 1
      <4>1. up * Width >= (n + 1) * Width
        BY <1>0, <2>1, <2>2, <3>1
      <4>2. (n + 1) * Width = n * Width + Width /\ n * Width >= n
        BY <1>0, <2>1
      <4> QED BY <1>0, <2>1, <2>2, <4>1, <4>2
    <3> QED BY <3>1, <2>1, <2>2
  <2>7. RawFrom \in 0..MaxClock /\ Bucket(RawFrom)
    <3>1. up \in 0..MaxClock
      BY <1>0, <2>1, <2>2, <2>6
    <3>2. \E b \in 0..MaxClock : Bucket(b)
      BY <2>5, <3>1
    <3> HIDE DEF Bucket
    <3> QED BY <2>3, <3>2
  <2>8. n \div Width \in Nat /\ n >= (n \div Width) * Width
    BY <2>1, BucketOf
  <2>9. RawFrom >= n \div Width
    <3> DEFINE c == n \div Width  r == RawFrom
    <3>1. c \in Nat /\ r \in Nat /\ r * Width >= n /\ n >= c * Width
      BY <2>7, <2>8, <1>0
    <3> HIDE DEF c, r
    <3>2. CASE r + 1 <= c
      <4>1. (r + 1) * Width <= c * Width /\ (r + 1) * Width = r * Width + Width
        BY <3>1, <3>2, <1>0
      <4> QED BY <3>1, <4>1, <1>0, <2>1
    <3> QED BY <3>1, <3>2 DEF c, r
  <2> QED BY <2>4, <2>7, <2>9, <1>0
<1> QED BY <1>1, <1>2

-----------------------------------------------------------------------------
(* The pipeline, step by step.                                             *)

\* The initial state is typed.
LEMMA PipelineTypeInit == PipelineInit => PipelineTypeOK /\ IsFiniteSet(buffer)
<1> SUFFICES ASSUME PipelineInit PROVE PipelineTypeOK /\ IsFiniteSet(buffer)
  OBVIOUS
<1>1. MaxClock \in Nat /\ 0 \in 0..MaxClock /\ OpenAt(0) \in 0..Last + 1
  <2>1. MaxClock \in Nat
    BY ClockAssumption DEF MaxClock
  <2> QED BY <2>1, OpenAtType
<1>2. IsFiniteSet(buffer) /\ Cardinality(buffer) = 0
  BY FS_EmptySet DEF PipelineInit
<1>3. /\ cursor \in 0..OpenAt(clock)
      /\ \A w \in Workers : mem[w] <= OpenAt(clock) /\ roll[w] <= OpenAt(clock)
  BY <1>1, ClockAssumption DEF PipelineInit, NoCursor
<1>4. /\ clock \in 0..MaxClock /\ sent \in Nat /\ fails \in Nat /\ sent + fails <= MaxInputs
      /\ Cardinality(buffer) <= BufSize /\ stream \in Seq(Entries)
  BY <1>1, <1>2, BoundsAssumption DEF PipelineInit
<1>5. /\ at \in [Events -> {NoCursor} \cup Buckets] /\ rolled \in [Buckets -> SUBSET Events]
      /\ mem \in [Workers -> Cursors] /\ roll \in [Workers -> Cursors]
      /\ batch \in [Workers -> [at : {"idle", "read", "stored"}, entries : SUBSET Entries]]
  BY DEF PipelineInit, Cursors, IdleBatch
<1> QED BY <1>2, <1>3, <1>4, <1>5 DEF PipelineTypeOK, PipelineInit

\* What Redis gives up of the stream is recorded, and only past its length.
LEMMA AddKeeps ==
    ASSUME stream \in Seq(Entries), trimmed \subseteq Entries, NEW x \in Entries, Add(x)
    PROVE  /\ stream' \in Seq(Entries) /\ trimmed' \subseteq Entries
           /\ Unread \cup {x} \cup trimmed \subseteq Unread' \cup trimmed'
           /\ Unread' \subseteq Unread \cup {x}
           /\ Len(stream') <= Len(stream) + 1
           /\ trimmed' # trimmed => Len(stream) + 1 > StreamMax
<1> DEFINE all == Append(stream, x)
<1>1. /\ all \in Seq(Entries) /\ Len(all) = Len(stream) + 1 /\ Len(stream) \in Nat
      /\ \A i \in 1..Len(stream) : all[i] = stream[i]
      /\ all[Len(stream) + 1] = x
  OBVIOUS
<1>2. PICK k \in 0..IF Len(all) > StreamMax THEN Len(all) - StreamMax ELSE 0 :
        /\ stream' = SubSeq(all, k + 1, Len(all))
        /\ trimmed' = trimmed \cup {all[i] : i \in 1..k}
  BY DEF Add
<1> HIDE DEF all
<1>3. k \in Nat /\ k <= Len(all) /\ (k > 0 => Len(all) > StreamMax)
  <2>1. StreamMax \in Nat /\ Len(all) \in Nat
    BY <1>1, BoundsAssumption
  <2>2. CASE Len(all) > StreamMax
    BY <1>2, <2>1, <2>2
  <2>3. CASE ~(Len(all) > StreamMax)
    BY <1>2, <2>1, <2>3
  <2> QED BY <2>2, <2>3
<1>4. \A i \in 1..Len(all) : all[i] \in Entries
  BY <1>1
<1>5. /\ stream' \in Seq(Entries) /\ Len(stream') = Len(all) - k
      /\ \A i \in 1..Len(all) - k : stream'[i] = all[i + k]
  <2>1. \A i \in k + 1..Len(all) : all[i] \in Entries
    BY <1>1, <1>3, <1>4
  <2>2. /\ SubSeq(all, k + 1, Len(all)) \in Seq(Entries)
        /\ Len(SubSeq(all, k + 1, Len(all)))
             = IF k + 1 <= Len(all) THEN Len(all) - (k + 1) + 1 ELSE 0
        /\ \A i \in 1..Len(all) - (k + 1) + 1 :
             SubSeq(all, k + 1, Len(all))[i] = all[(k + 1) + i - 1]
    BY <1>1, <1>3, <2>1, SubSeqProperties
  <2>3. \A i \in 1..Len(all) - k : (k + 1) + i - 1 = i + k /\ i \in 1..Len(all) - (k + 1) + 1
    BY <1>1, <1>3
  <2> QED BY <1>1, <1>2, <1>3, <2>2, <2>3
<1>6. {all[i] : i \in 1..Len(all)} = Unread \cup {x}
  <2>1. DOMAIN stream = 1..Len(stream)
    OBVIOUS
  <2>2. 1..Len(all) = 1..Len(stream) \cup {Len(stream) + 1}
    BY <1>1
  <2> QED BY <1>1, <2>1, <2>2 DEF Unread
<1>7. Unread' = {all[i] : i \in k + 1..Len(all)}
  <2>1. DOMAIN stream' = 1..Len(all) - k
    BY <1>5
  <2>2. Unread' = {all[i + k] : i \in 1..Len(all) - k}
    BY <1>5, <2>1 DEF Unread
  <2>3. \A i \in 1..Len(all) - k : i + k \in k + 1..Len(all)
    BY <1>1, <1>3
  <2>4. \A j \in k + 1..Len(all) : j - k \in 1..Len(all) - k /\ (j - k) + k = j
    BY <1>1, <1>3
  <2>5. ASSUME NEW j \in k + 1..Len(all) PROVE \E i \in 1..Len(all) - k : all[j] = all[i + k]
    BY <2>4
  <2> QED BY <2>2, <2>3, <2>5
<1>8. \A i \in 1..Len(all) : i \in 1..k \/ i \in k + 1..Len(all)
  BY <1>1, <1>3
<1>9. Unread \cup {x} \subseteq Unread' \cup trimmed'
  BY <1>2, <1>6, <1>7, <1>8
<1>10. Unread' \subseteq Unread \cup {x}
  <2>1. k + 1..Len(all) \subseteq 1..Len(all)
    BY <1>1, <1>3
  <2> QED BY <1>6, <1>7, <2>1
<1>11. trimmed' \subseteq Entries
  <2>1. 1..k \subseteq 1..Len(all)
    BY <1>1, <1>3
  <2> QED BY <1>2, <1>4, <2>1
<1>12. trimmed' # trimmed => k > 0
  <2>1. k = 0 => 1..k = {}
    BY <1>3
  <2> QED BY <1>2, <1>3, <2>1
<1>13. trimmed' # trimmed => Len(stream) + 1 > StreamMax
  BY <1>1, <1>3, <1>12
<1>14. Len(stream') <= Len(stream) + 1
  BY <1>1, <1>3, <1>5
<1> QED BY <1>2, <1>5, <1>9, <1>10, <1>11, <1>13, <1>14

\* Every step keeps the types.
LEMMA PipelineTypeStep ==
    ASSUME PipelineTypeOK, IsFiniteSet(buffer), [PipelineNext]_pipelineVars
    PROVE  PipelineTypeOK' /\ IsFiniteSet(buffer)'
<1> USE DEF PipelineTypeOK
<1>0. /\ MaxClock \in Nat /\ MaxInputs \in Nat /\ BufSize \in Nat
      /\ Last \in Nat
  BY ClockAssumption, BoundsAssumption DEF MaxClock
<1>1. CASE Tick
  <2>1. clock' = clock + 1 /\ clock' \in 0..MaxClock
    BY <1>0, <1>1 DEF Tick
  <2>2. OpenAt(clock) <= OpenAt(clock') /\ OpenAt(clock) \in Nat /\ OpenAt(clock') \in Nat
    BY <2>1, <1>0, OpenAtGrows, OpenAtType
  <2>3. /\ cursor \in 0..OpenAt(clock')
        /\ \A w \in Workers : mem[w] <= OpenAt(clock') /\ roll[w] <= OpenAt(clock')
    <3>1. \A c \in Cursors : c \in Int
      BY <1>0 DEF Cursors, NoCursor
    <3> QED BY <2>2, <3>1
  <2> QED BY <1>1, <2>1, <2>3 DEF Tick, reports, transit, raw, rollups
<1>2. ASSUME NEW e \in Events, NEW b \in Buckets, NEW onStream \in BOOLEAN,
             NEW answered \in BOOLEAN, Collect(e, <<e, b>>, onStream, answered)
      PROVE  PipelineTypeOK' /\ IsFiniteSet(buffer)'
  <2> DEFINE x == <<e, b>>
  <2>1. x \in Entries /\ x[2] = b
    BY DEF Entries
  <2>2. /\ IsFiniteSet(buffer \cup {x})
        /\ Cardinality(buffer) < BufSize => Cardinality(buffer \cup {x}) <= BufSize
    <3>1. /\ IsFiniteSet(buffer \cup {x}) /\ Cardinality(buffer) \in Nat
          /\ Cardinality(buffer \cup {x}) = IF x \in buffer THEN Cardinality(buffer)
                                            ELSE Cardinality(buffer) + 1
      BY FS_AddElement, FS_CardinalityType
    <3> QED BY <1>0, <3>1
  <2>3. IsFiniteSet(buffer') /\ buffer' \subseteq Entries /\ Cardinality(buffer') <= BufSize
    BY <1>2, <2>1, <2>2 DEF Collect
  <2>4. sent' \in Nat /\ fails' = fails /\ sent' + fails' <= MaxInputs
    BY <1>0, <1>2 DEF Collect
  <2>5. at' \in [Events -> {NoCursor} \cup Buckets]
    BY <1>2, <2>1 DEF Collect
  <2>6. stream' \in Seq(Entries) /\ trimmed' \subseteq Entries
    <3>1. CASE onStream
      BY <1>2, <2>1, <3>1, AddKeeps DEF Collect
    <3>2. CASE ~onStream
      BY <1>2, <3>2 DEF Collect
    <3> QED BY <3>1, <3>2
  <2>7. lost' \subseteq Entries
    BY <1>2, <2>1 DEF Collect
  <2> QED BY <1>2, <2>3, <2>4, <2>5, <2>6, <2>7 DEF Collect, raw, rollups
<1>3. CASE Flush \/ FlushRefused \/ FlushFails
  <2>1. buffer' = {} /\ IsFiniteSet(buffer') /\ Cardinality(buffer') <= BufSize
    <3>1. IsFiniteSet({}) /\ Cardinality({}) = 0
      BY FS_EmptySet
    <3>2. buffer' = {}
      BY <1>3 DEF Flush, FlushRefused, FlushFails
    <3> QED BY <1>0, <3>1, <3>2
  <2>2. CASE Flush
    BY <2>1, <2>2 DEF Flush, InsertEvents, reports, rollups
  <2>3. CASE FlushRefused \/ FlushFails
    BY <1>0, <2>1, <2>3 DEF FlushRefused, FlushFails, reports, raw, rollups
  <2> QED BY <1>3, <2>2, <2>3
<1>4. CASE Maintain
  BY <1>0, <1>4 DEF Maintain, reports, transit, rollups
<1>5. ASSUME NEW w \in Workers, DrainStep(w)
      PROVE  PipelineTypeOK' /\ IsFiniteSet(buffer)'
  <2>1. CASE Read(w)
    <3>1. Unread \subseteq Entries
      BY DEF Unread
    <3>2. <<>> \in Seq(Entries)
      OBVIOUS
    <3> QED BY <2>1, <3>1, <3>2 DEF Read, reports, raw, rollups
  <2>2. CASE Poll(w)
    BY <2>2 DEF Poll, pipelineVars, reports, transit, raw, rollups
  <2>3. CASE Store(w)
    BY <2>3 DEF Store, InsertEvents, reports, rollups
  <2>4. CASE StoreRefused(w) \/ Ack(w)
    BY <2>4 DEF StoreRefused, Ack, IdleBatch, reports, raw, rollups
  <2> QED BY <1>5, <2>1, <2>2, <2>3, <2>4 DEF DrainStep
<1>6. ASSUME NEW w \in Workers, DrainFails(w) \/ RollFails(w) \/ Crash(w)
      PROVE  PipelineTypeOK' /\ IsFiniteSet(buffer)'
  <2>1. OpenAt(clock) \in Nat /\ NoCursor \in Cursors /\ NoCursor <= OpenAt(clock)
    BY OpenAtType, <1>0 DEF NoCursor, Cursors
  <2>2. CASE DrainFails(w)
    BY <1>0, <2>2 DEF DrainFails, IdleBatch, reports, raw, rollups
  <2>3. CASE RollFails(w)
    BY <1>0, <2>1, <2>3 DEF RollFails, reports, transit, raw
  <2>4. CASE Crash(w)
    BY <1>0, <2>1, <2>4 DEF Crash, IdleBatch, reports, raw
  <2> QED BY <1>6, <2>2, <2>3, <2>4
<1>7. ASSUME NEW w \in Workers, LoadCursor(w) \/ SetCursor(w)
      PROVE  PipelineTypeOK' /\ IsFiniteSet(buffer)'
  <2>1. OpenAt(clock) \in 0..Last + 1 /\ NoCursor \in Cursors /\ NoCursor <= OpenAt(clock)
    BY OpenAtType, <1>0 DEF NoCursor, Cursors
  <2>2. cursor \in Cursors /\ cursor <= OpenAt(clock)
    BY <2>1, <1>0 DEF Cursors
  <2>3. CASE LoadCursor(w)
    BY <2>2, <2>3 DEF LoadCursor, reports, transit, raw
  <2>4. CASE SetCursor(w)
    <3>1. roll[w] \in 0..OpenAt(clock)
      BY <2>1, <2>4, <1>0 DEF SetCursor, Cursors
    <3> QED BY <2>1, <2>4, <3>1 DEF SetCursor, reports, transit, raw
  <2> QED BY <1>7, <2>3, <2>4
<1>8. ASSUME NEW w \in Workers, Recompute(w)
      PROVE  PipelineTypeOK' /\ IsFiniteSet(buffer)'
  <2>1. OpenAt(clock) \in 0..Last + 1 /\ mem[w] \in 0..Last + 1 /\ mem[w] < OpenAt(clock)
    BY <1>8, OpenAtType, <1>0 DEF Recompute, Behind, Cursors
  <2>2. RangeEnd(w) \in Cursors /\ RangeEnd(w) <= OpenAt(clock)
    BY <2>1, ClockAssumption DEF RangeEnd, Cursors
  <2>3. rolled' \in [Buckets -> SUBSET Events]
    BY <1>8 DEF Recompute
  <2>4. /\ roll' \in [Workers -> Cursors]
        /\ \A v \in Workers : roll'[v] <= OpenAt(clock)
    BY <1>8, <2>2 DEF Recompute
  <2>5. UNCHANGED <<clock, at, sent, stream, pending, batch, buffer, trimmed, lost, stored, oldest,
                    seen, belated, dropped, cursor, mem, fails>>
    BY <1>8 DEF Recompute, reports, transit, raw
  <2> QED BY <2>3, <2>4, <2>5
<1>9. CASE UNCHANGED pipelineVars
  BY <1>9 DEF pipelineVars, reports, transit, raw, rollups
<1> QED BY <1>1, <1>2, <1>3, <1>4, <1>5, <1>6, <1>7, <1>8, <1>9 DEF PipelineNext, RollStep

\* An entry that was anywhere, but in a batch, is somewhere after any step.
LEMMA HeldGrows ==
    ASSUME PipelineTypeOK, BatchHeld, [PipelineNext]_pipelineVars
    PROVE  Held \subseteq Held'
<1> USE DEF Held
<1>1. ASSUME NEW e \in Events, NEW b \in Buckets, NEW onStream \in BOOLEAN,
             NEW answered \in BOOLEAN, Collect(e, <<e, b>>, onStream, answered)
      PROVE  Held \subseteq Held'
  <2>1. /\ pending' = pending /\ seen' = seen /\ lost \subseteq lost' /\ buffer \subseteq buffer'
    BY <1>1 DEF Collect, raw
  <2>2. Unread \cup trimmed \subseteq Unread' \cup trimmed'
    <3>1. CASE onStream
      <4>1. Add(<<e, b>>) /\ <<e, b>> \in Entries
        BY <1>1, <3>1 DEF Collect, Entries
      <4> QED BY <4>1, AddKeeps DEF PipelineTypeOK
    <3>2. CASE ~onStream
      BY <1>1, <3>2 DEF Collect, Unread
    <3> QED BY <3>1, <3>2
  <2> QED BY <2>1, <2>2
<1>2. CASE Flush \/ FlushRefused \/ FlushFails
  BY <1>2 DEF Flush, FlushRefused, FlushFails, InsertEvents, raw, Unread
<1>3. ASSUME NEW w \in Workers, Read(w) PROVE Held \subseteq Held'
  BY <1>3 DEF Read, raw
<1>4. ASSUME NEW w \in Workers, Store(w) \/ StoreRefused(w) \/ Ack(w) PROVE Held \subseteq Held'
  BY <1>4 DEF Store, StoreRefused, Ack, InsertEvents, raw, BatchHeld, Unread
<1>5. ASSUME \/ Tick \/ Maintain
             \/ \E w \in Workers : \/ Poll(w) \/ DrainFails(w) \/ RollStep(w)
                                   \/ RollFails(w) \/ Crash(w)
             \/ UNCHANGED pipelineVars
      PROVE  Held \subseteq Held'
  BY <1>5 DEF Tick, Maintain, Poll, DrainFails, RollStep, LoadCursor, Recompute, SetCursor,
         RollFails, Crash, pipelineVars, transit, raw, Unread
<1> QED BY <1>1, <1>2, <1>3, <1>4, <1>5 DEF PipelineNext, DrainStep

\* An event that has been reported is somewhere.
LEMMA ReportedHeldStep ==
    ASSUME PipelineTypeOK, IsFiniteSet(buffer), BatchHeld, ReportedHeld, [PipelineNext]_pipelineVars
    PROVE  ReportedHeld'
<1>0. Held \subseteq Held'
  BY HeldGrows
<1>1. ASSUME NEW e \in Events, NEW b \in Buckets, NEW onStream \in BOOLEAN,
             NEW answered \in BOOLEAN, Collect(e, <<e, b>>, onStream, answered)
      PROVE  ReportedHeld'
  <2>1. at' = [at EXCEPT ![e] = IF @ = NoCursor THEN b ELSE @]
    BY <1>1 DEF Collect
  <2>2. \E x \in Held' : x[1] = e
    <3>1. onStream \/ ~answered
      BY <1>1 DEF Collect
    <3>2. <<e, b>> \in Unread' \cup trimmed' \cup buffer' \cup lost'
      <4>1. CASE onStream
        <5>1. Add(<<e, b>>) /\ <<e, b>> \in Entries
          BY <1>1, <4>1 DEF Collect, Entries
        <5> QED BY <5>1, AddKeeps DEF PipelineTypeOK
      <4>2. CASE ~answered /\ Cardinality(buffer) < BufSize
        BY <1>1, <4>2 DEF Collect
      <4>3. CASE ~answered /\ Cardinality(buffer) >= BufSize
        BY <1>1, <4>3 DEF Collect
      <4>4. Cardinality(buffer) \in Nat /\ BufSize \in Nat
        BY FS_CardinalityType, BoundsAssumption
      <4> QED BY <3>1, <4>1, <4>2, <4>3, <4>4
    <3> QED BY <3>2 DEF Held
  <2>3. ASSUME NEW d \in Events, at'[d] # NoCursor PROVE \E x \in Held' : x[1] = d
    <3>1. CASE d = e
      BY <2>2, <3>1
    <3>2. CASE d # e
      BY <1>0, <2>1, <2>3, <3>2 DEF ReportedHeld, PipelineTypeOK
    <3> QED BY <3>1, <3>2
  <2> QED BY <2>3 DEF ReportedHeld
<1>2. ASSUME at' = at PROVE ReportedHeld'
  BY <1>0, <1>2 DEF ReportedHeld
<1>3. ASSUME \/ Tick \/ Flush \/ FlushRefused \/ FlushFails \/ Maintain
             \/ \E w \in Workers : \/ DrainStep(w) \/ DrainFails(w) \/ RollStep(w)
                                   \/ RollFails(w) \/ Crash(w)
             \/ UNCHANGED pipelineVars
      PROVE  at' = at
  BY <1>3 DEF Tick, Flush, FlushRefused, FlushFails, Maintain, DrainStep, Read, Poll, Store,
         StoreRefused, Ack, DrainFails, RollStep, LoadCursor, Recompute, SetCursor, RollFails,
         Crash, pipelineVars, reports
<1> QED BY <1>1, <1>2, <1>3 DEF PipelineNext

\* The stream gives up nothing before more was reported than it holds.
LEMMA StreamBoundedStep ==
    ASSUME PipelineTypeOK, StreamBounded, [PipelineNext]_pipelineVars
    PROVE  StreamBounded'
<1>0. Len(stream) \in Nat /\ sent \in Nat /\ StreamMax \in Nat
  BY BoundsAssumption DEF PipelineTypeOK
<1>1. ASSUME NEW e \in Events, NEW b \in Buckets, NEW onStream \in BOOLEAN,
             NEW answered \in BOOLEAN, Collect(e, <<e, b>>, onStream, answered)
      PROVE  StreamBounded'
  <2>1. sent' = sent + 1
    BY <1>1 DEF Collect
  <2>2. CASE onStream
    <3>1. Add(<<e, b>>) /\ <<e, b>> \in Entries
      BY <1>1, <2>2 DEF Collect, Entries
    <3>2. /\ stream' \in Seq(Entries) /\ Len(stream') <= Len(stream) + 1
          /\ trimmed' # trimmed => Len(stream) + 1 > StreamMax
      BY <3>1, AddKeeps DEF PipelineTypeOK
    <3>3. Len(stream') \in Nat
      BY <3>2
    <3> QED BY <1>0, <2>1, <3>2, <3>3 DEF StreamBounded
  <2>3. CASE ~onStream
    BY <1>0, <1>1, <2>1, <2>3 DEF Collect, StreamBounded
  <2> QED BY <2>2, <2>3
<1>2. ASSUME NEW w \in Workers, Read(w) PROVE StreamBounded'
  <2>1. stream' = <<>> /\ sent' = sent /\ trimmed' = trimmed
    BY <1>2 DEF Read, reports
  <2>2. Len(stream') = 0
    BY <2>1
  <2> QED BY <1>0, <2>1, <2>2 DEF StreamBounded
<1>3. ASSUME UNCHANGED <<stream, sent, trimmed>> PROVE StreamBounded'
  BY <1>3 DEF StreamBounded
<1>4. ASSUME \/ Tick \/ Flush \/ FlushRefused \/ FlushFails \/ Maintain
             \/ \E w \in Workers : \/ Poll(w) \/ Store(w) \/ StoreRefused(w) \/ Ack(w)
                                   \/ DrainFails(w) \/ RollStep(w) \/ RollFails(w) \/ Crash(w)
             \/ UNCHANGED pipelineVars
      PROVE  UNCHANGED <<stream, sent, trimmed>>
  BY <1>4 DEF Tick, Flush, FlushRefused, FlushFails, Maintain, Poll, Store, StoreRefused, Ack,
         DrainFails, RollStep, LoadCursor, Recompute, SetCursor, RollFails, Crash,
         pipelineVars, reports, transit
<1> QED BY <1>1, <1>2, <1>3, <1>4 DEF PipelineNext, DrainStep

\* What one worker acknowledges leaves what another one holds: it is stored.
LEMMA BatchHeldStep ==
    ASSUME PipelineTypeOK, BatchHeld, [PipelineNext]_pipelineVars
    PROVE  BatchHeld'
<1> USE DEF PipelineTypeOK, BatchHeld
<1>1. ASSUME NEW w \in Workers, Read(w) PROVE BatchHeld'
  BY <1>1 DEF Read, raw
<1>2. ASSUME NEW w \in Workers, Store(w) PROVE BatchHeld'
  <2>1. /\ batch' = [batch EXCEPT ![w].at = "stored"] /\ pending' = pending
        /\ seen' = seen \cup batch[w].entries
    BY <1>2 DEF Store, InsertEvents
  <2> QED BY <2>1
<1>3. ASSUME NEW w \in Workers, Ack(w) PROVE BatchHeld'
  BY <1>3 DEF Ack, IdleBatch, raw
<1>4. ASSUME NEW w \in Workers, StoreRefused(w) \/ DrainFails(w) \/ Crash(w) PROVE BatchHeld'
  <2>1. batch' = [batch EXCEPT ![w] = IdleBatch] /\ pending' = pending /\ seen' = seen
    BY <1>4 DEF StoreRefused, DrainFails, Crash, raw
  <2> QED BY <2>1 DEF IdleBatch
<1>5. ASSUME batch' = batch, pending' = pending, seen \subseteq seen' PROVE BatchHeld'
  BY <1>5
<1>6. ASSUME \/ Tick \/ Flush \/ FlushRefused \/ FlushFails \/ Maintain
             \/ \E e \in Events, b \in Buckets, onStream, answered \in BOOLEAN :
                  Collect(e, <<e, b>>, onStream, answered)
             \/ \E w \in Workers : Poll(w) \/ RollStep(w) \/ RollFails(w)
             \/ UNCHANGED pipelineVars
      PROVE  batch' = batch /\ pending' = pending /\ seen \subseteq seen'
  BY <1>6 DEF Tick, Flush, FlushRefused, FlushFails, Maintain, Collect, InsertEvents, Poll, RollStep,
         LoadCursor, Recompute, SetCursor, RollFails, pipelineVars, transit, raw
<1> QED BY <1>1, <1>2, <1>3, <1>4, <1>5, <1>6 DEF PipelineNext, DrainStep

\* Partitions go in the order of their age.
LEMMA OldestStep ==
    ASSUME PipelineTypeOK, OldestPast, [PipelineNext]_pipelineVars
    PROVE  OldestPast'
<1>1. clock \in Nat /\ clock' \in Nat /\ clock <= clock'
  <2>1. clock \in Nat /\ (clock' = clock \/ clock' = clock + 1)
    <3>0. MaxClock \in Nat
      BY ClockAssumption DEF MaxClock
    <3>1. clock \in Nat
      BY <3>0 DEF PipelineTypeOK
    <3>2. CASE Tick
      BY <3>1, <3>2 DEF Tick
    <3>3. CASE ~Tick
      BY <3>1, <3>3 DEF PipelineNext, Collect, Flush, FlushRefused, FlushFails, Maintain, DrainStep,
             Read, Poll, Store, StoreRefused, Ack, DrainFails, RollStep, LoadCursor, Recompute,
             SetCursor, RollFails, Crash, pipelineVars
    <3> QED BY <3>1, <3>2, <3>3
  <2> QED BY <2>1
<1>2. Cutoff \in Nat /\ Cutoff' \in Nat /\ Cutoff <= Cutoff' /\ oldest \in Nat
  BY <1>1, CutoffGrows DEF PipelineTypeOK
<1>3. CASE Maintain
  <2>1. oldest' \in Int /\ oldest' <= Cutoff
    BY <1>2, <1>3 DEF Maintain
  <2> QED BY <1>2, <2>1 DEF OldestPast
<1>4. CASE oldest' = oldest
  BY <1>2, <1>4 DEF OldestPast
<1>5. ASSUME ~Maintain PROVE oldest' = oldest
  BY <1>5 DEF PipelineNext, Tick, Collect, Flush, FlushRefused, FlushFails, InsertEvents, DrainStep, Read,
         Poll, Store, StoreRefused, Ack, DrainFails, RollStep, LoadCursor, Recompute, SetCursor,
         RollFails, Crash, pipelineVars, raw
<1> QED BY <1>3, <1>4, <1>5

-----------------------------------------------------------------------------
(* Storing, dropping and counting.                                         *)

\* The steps that leave the raw events as they are.
LEMMA RawSteps ==
    ASSUME [PipelineNext]_pipelineVars
    PROVE  \/ UNCHANGED raw
           \/ \E S \in {buffer} \cup {batch[w].entries : w \in Workers} :
                 InsertEvents(S) /\ UNCHANGED rollups
           \/ Maintain
<1>1. ASSUME \/ Tick \/ FlushRefused \/ FlushFails \/ UNCHANGED pipelineVars
             \/ \E e \in Events, b \in Buckets, onStream, answered \in BOOLEAN :
                  Collect(e, <<e, b>>, onStream, answered)
             \/ \E w \in Workers : \/ Read(w) \/ Poll(w) \/ StoreRefused(w) \/ Ack(w)
                                   \/ DrainFails(w) \/ RollStep(w) \/ RollFails(w) \/ Crash(w)
      PROVE  UNCHANGED raw
  BY <1>1 DEF Tick, FlushRefused, FlushFails, Collect, Read, Poll, StoreRefused, Ack, DrainFails,
         RollStep, LoadCursor, Recompute, SetCursor, RollFails, Crash, pipelineVars
<1>2. CASE Flush
  BY <1>2 DEF Flush
<1>3. ASSUME NEW w \in Workers, Store(w)
      PROVE  InsertEvents(batch[w].entries) /\ UNCHANGED rollups
  BY <1>3 DEF Store
<1> QED BY <1>1, <1>2, <1>3 DEF PipelineNext, DrainStep

\* The steps that move the rollups.
LEMMA RollupSteps ==
    ASSUME [PipelineNext]_pipelineVars
    PROVE  \/ UNCHANGED rollups
           \/ UNCHANGED raw /\ \E w \in Workers : \/ LoadCursor(w) \/ Recompute(w) \/ SetCursor(w)
                                                  \/ RollFails(w) \/ Crash(w)
<1>1. ASSUME \/ Tick \/ Flush \/ FlushRefused \/ FlushFails \/ Maintain \/ UNCHANGED pipelineVars
             \/ \E e \in Events, b \in Buckets, onStream, answered \in BOOLEAN :
                  Collect(e, <<e, b>>, onStream, answered)
             \/ \E w \in Workers : DrainStep(w) \/ DrainFails(w)
      PROVE  UNCHANGED rollups
  BY <1>1 DEF Tick, Flush, FlushRefused, FlushFails, Maintain, Collect, DrainStep, Read, Poll,
         Store, StoreRefused, Ack, DrainFails, pipelineVars
<1>2. ASSUME NEW w \in Workers, RollStep(w) \/ RollFails(w) \/ Crash(w) PROVE UNCHANGED raw
  BY <1>2 DEF RollStep, LoadCursor, Recompute, SetCursor, RollFails, Crash
<1> QED BY <1>1, <1>2 DEF PipelineNext, RollStep

\* What an entry and the cursors are.
LEMMA CursorTypes ==
    ASSUME PipelineTypeOK
    PROVE  /\ cursor \in Nat /\ oldest \in Nat
           /\ \A w \in Workers : /\ mem[w] \in Int /\ (mem[w] # NoCursor => mem[w] \in Nat)
                                 /\ roll[w] \in Int /\ (roll[w] # NoCursor => roll[w] \in Nat)
           /\ \A b \in Buckets : b \in Nat
           /\ \A x \in Entries : x[2] \in Buckets /\ x[2] \in Nat
<1>1. cursor \in Nat
  BY OpenAtType, ClockAssumption DEF PipelineTypeOK
<1>2. \A b \in Buckets : b \in Nat
  BY ClockAssumption DEF Buckets
<1>3. \A c \in Cursors : c \in Int /\ (c # NoCursor => c \in Nat)
  BY ClockAssumption DEF Cursors, NoCursor
<1>4. \A w \in Workers : mem[w] \in Cursors /\ roll[w] \in Cursors
  BY DEF PipelineTypeOK
<1>5. \A x \in Entries : x[2] \in Buckets
  BY DEF Entries
<1>6. oldest \in Nat
  BY DEF PipelineTypeOK
<1> QED BY <1>1, <1>2, <1>3, <1>4, <1>5, <1>6

\* What is stored is what has a partition, and what went has none.
LEMMA RawCompleteStep ==
    ASSUME PipelineTypeOK, RawComplete, [PipelineNext]_pipelineVars
    PROVE  RawComplete'
<1>1. CASE UNCHANGED raw
  BY <1>1 DEF raw, RawComplete
<1>2. ASSUME NEW S, InsertEvents(S) PROVE RawComplete'
  BY <1>2 DEF InsertEvents, HavePartitions, RawComplete
<1>3. CASE Maintain
  <2>1. PICK first \in oldest + 1..Cutoff :
          /\ oldest' = first /\ stored' = {x \in stored : x[2] >= first}
          /\ dropped' = dropped \cup {x \in stored : x[2] < first /\ Ahead(x[2])}
    BY <1>3 DEF Maintain
  <2>2. seen' = seen /\ first \in Int /\ first > oldest /\ oldest \in Nat
    BY <1>3, <2>1, CursorTypes DEF Maintain
  <2>3. \A x \in seen : x[2] \in Nat
    BY CursorTypes DEF PipelineTypeOK
  <2>4. stored' = {x \in seen' : x[2] >= oldest'}
    BY <2>1, <2>2, <2>3 DEF RawComplete
  <2>5. \A x \in dropped' : x[2] < oldest'
    <3>1. dropped \subseteq seen
      BY DEF PipelineTypeOK
    <3> QED BY <2>1, <2>2, <2>3, <3>1 DEF RawComplete
  <2> QED BY <2>4, <2>5 DEF RawComplete
<1> QED BY <1>1, <1>2, <1>3, RawSteps

\* A partition that goes while a roller has not passed it leaves a record of
\* what it held.
LEMMA DroppedBehindStep ==
    ASSUME PipelineTypeOK, RawComplete, DroppedBehind, CursorsCounted, [PipelineNext]_pipelineVars
    PROVE  DroppedBehind'
<1>0. \A x \in seen : x[2] \in Nat
  BY CursorTypes DEF PipelineTypeOK
<1>1. ASSUME UNCHANGED rollups, NEW S, InsertEvents(S) PROVE DroppedBehind'
  BY <1>1 DEF InsertEvents, DroppedBehind, rollups
<1>2. CASE Maintain
  <2>1. PICK first \in oldest + 1..Cutoff :
          /\ oldest' = first /\ stored' = {x \in stored : x[2] >= first}
          /\ dropped' = dropped \cup {x \in stored : x[2] < first /\ Ahead(x[2])}
    BY <1>2 DEF Maintain
  <2>2. seen' = seen /\ UNCHANGED rollups /\ first \in Int
    BY <1>2, <2>1, CursorTypes DEF Maintain
  <2>3. ASSUME NEW x \in seen \ (stored' \cup dropped')
        PROVE  cursor > x[2] /\ \A w \in Workers : mem[w] # NoCursor => mem[w] > x[2]
    <3>1. CASE x \notin stored
      BY <2>1, <2>3, <3>1 DEF DroppedBehind
    <3>2. CASE x \in stored
      <4>1. x[2] < first
        BY <1>0, <2>1, <2>2, <2>3, <3>2
      <4>2. ~Ahead(x[2])
        BY <2>1, <2>3, <3>2, <4>1
      <4>3. cursor > x[2] /\ \A w \in Workers : mem[w] \notin 0..x[2]
        BY <1>0, <4>2, CursorTypes DEF Ahead
      <4> QED BY <1>0, <4>3, CursorTypes
    <3> QED BY <3>1, <3>2
  <2> QED BY <2>2, <2>3 DEF DroppedBehind, rollups
<1>3. ASSUME UNCHANGED raw, NEW w \in Workers, LoadCursor(w) PROVE DroppedBehind'
  BY <1>3 DEF raw, LoadCursor, DroppedBehind, PipelineTypeOK
<1>4. ASSUME UNCHANGED raw, NEW w \in Workers, SetCursor(w) PROVE DroppedBehind'
  <2>1. /\ cursor' = roll[w] /\ mem' = [mem EXCEPT ![w] = roll[w]]
        /\ mem[w] # NoCursor /\ mem[w] < roll[w]
    BY <1>4 DEF SetCursor, CursorsCounted
  <2>2. \A x \in seen \ (stored \cup dropped) : roll[w] > x[2]
    BY <1>0, <2>1, CursorTypes DEF DroppedBehind
  <2> QED BY <1>4, <2>1, <2>2 DEF raw, DroppedBehind, PipelineTypeOK
<1>5. ASSUME UNCHANGED raw, NEW w \in Workers, Crash(w) PROVE DroppedBehind'
  BY <1>5 DEF raw, Crash, DroppedBehind, PipelineTypeOK
<1>6. ASSUME UNCHANGED raw, UNCHANGED <<cursor, mem>> PROVE DroppedBehind'
  BY <1>6 DEF raw, DroppedBehind
<1>7. ASSUME NEW w \in Workers, Recompute(w) \/ RollFails(w) PROVE UNCHANGED <<cursor, mem>>
  BY <1>7 DEF Recompute, RollFails
<1> QED BY <1>1, <1>2, <1>3, <1>4, <1>5, <1>6, <1>7, RawSteps, RollupSteps DEF rollups

\* Only what is stored is counted.
LEMMA RolledSeenStep ==
    ASSUME PipelineTypeOK, RolledSeen, [PipelineNext]_pipelineVars
    PROVE  RolledSeen'
<1>1. seen \subseteq seen'
  BY RawSteps DEF raw, InsertEvents, Maintain
<1>2. ASSUME NEW w \in Workers, Recompute(w) PROVE RolledSeen'
  <2>1. ASSUME NEW b \in Buckets, NEW e \in Events, e \in rolled'[b] PROVE <<e, b>> \in seen
    <3>1. \/ rolled'[b] = {d \in Events : <<d, b>> \in stored}
          \/ rolled'[b] = rolled[b]
      BY <1>2 DEF Recompute
    <3>2. stored \subseteq seen
      BY DEF PipelineTypeOK
    <3> QED BY <2>1, <3>1, <3>2 DEF RolledSeen
  <2> QED BY <1>1, <2>1 DEF RolledSeen
<1>3. CASE rolled' = rolled
  BY <1>1, <1>3 DEF RolledSeen
<1>4. ASSUME NEW w \in Workers, LoadCursor(w) \/ SetCursor(w) \/ RollFails(w) \/ Crash(w)
      PROVE  rolled' = rolled
  BY <1>4 DEF LoadCursor, SetCursor, RollFails, Crash
<1> QED BY <1>2, <1>3, <1>4, RollupSteps DEF rollups

\* A count stays right when what comes behind it is on record as late.
LEMMA CountedStays ==
    ASSUME PipelineTypeOK, NEW S, InsertEvents(S), rolled' = rolled, NEW n \in Int, CountedTo(n),
           \A b \in Buckets : b < n => Passed(b)
    PROVE  CountedTo(n)'
<1>1. ASSUME NEW b \in Buckets, NEW e \in Events, b < n, <<e, b>> \in seen' \ (belated' \cup dropped')
      PROVE  e \in rolled[b]
  <2>1. <<e, b>> \notin belated /\ <<e, b>> \notin dropped
    BY <1>1 DEF InsertEvents
  <2>2. CASE <<e, b>> \in seen
    BY <1>1, <2>1, <2>2 DEF CountedTo
  <2>3. CASE <<e, b>> \notin seen
    <3>1. <<e, b>> \in S /\ Passed(b)
      BY <1>1, <2>3 DEF InsertEvents
    <3>2. <<e, b>>[2] = b
      OBVIOUS
    <3>3. <<e, b>> \in {x \in S \ seen : Passed(x[2])}
      BY <2>3, <3>1, <3>2
    <3>4. <<e, b>> \in belated'
      BY <3>3 DEF InsertEvents
    <3> QED BY <1>1, <3>4
  <2> QED BY <2>2, <2>3
<1> QED BY <1>1 DEF CountedTo

\* Every cursor stands behind what is counted in full, whoever moved it last.
LEMMA CursorsCountedStep ==
    ASSUME PipelineTypeOK, RawComplete, DroppedBehind, CursorsCounted, [PipelineNext]_pipelineVars
    PROVE  CursorsCounted'
<1>0. /\ OpenAt(clock) \in Nat /\ cursor \in Int
      /\ \A w \in Workers : mem[w] \in Int /\ roll[w] \in Int
      /\ \A b \in Buckets : b \in Nat
  BY OpenAtType, CursorTypes DEF PipelineTypeOK
<1>1. CountedTo(NoCursor)'
  BY <1>0 DEF CountedTo, NoCursor
<1>2. ASSUME UNCHANGED rollups, NEW S, InsertEvents(S) PROVE CursorsCounted'
  <2>0. rolled' = rolled /\ cursor' = cursor /\ mem' = mem /\ roll' = roll
    BY <1>2 DEF rollups
  <2>1. CountedTo(cursor)'
    <3>1. \A b \in Buckets : b < cursor => Passed(b)
      BY <1>0 DEF Passed
    <3> QED BY <1>0, <1>2, <2>0, <3>1, CountedStays DEF CursorsCounted, CountedTo
  <2>2. ASSUME NEW w \in Workers PROVE CountedTo(mem[w])' /\ CountedTo(roll[w])'
    <3>1. \A b \in Buckets : b < mem[w] => Passed(b)
      BY <1>0 DEF Passed
    <3>2. \A b \in Buckets : b < roll[w] => Passed(b)
      BY <1>0 DEF Passed
    <3>3. CountedTo(mem[w])'
      BY <1>0, <1>2, <2>0, <3>1, CountedStays DEF CursorsCounted, CountedTo
    <3>4. CountedTo(roll[w])'
      BY <1>0, <1>2, <2>0, <3>2, CountedStays DEF CursorsCounted, CountedTo
    <3> QED BY <3>3, <3>4
  <2> QED BY <2>0, <2>1, <2>2 DEF CursorsCounted
<1>3. CASE Maintain
  <2>1. UNCHANGED <<seen, belated, rolled, cursor, mem, roll>> /\ dropped \subseteq dropped'
    BY <1>3 DEF Maintain, rollups
  <2> QED BY <2>1 DEF CursorsCounted, CountedTo
<1>4. ASSUME UNCHANGED <<raw, rollups>> PROVE CursorsCounted'
  BY <1>4 DEF raw, rollups, CursorsCounted, CountedTo
<1>5. ASSUME UNCHANGED raw, NEW w \in Workers,
             LoadCursor(w) \/ SetCursor(w) \/ RollFails(w) \/ Crash(w)
      PROVE  CursorsCounted'
  <2>0. rolled' = rolled /\ seen' = seen /\ belated' = belated /\ dropped' = dropped
    BY <1>5 DEF LoadCursor, SetCursor, RollFails, Crash, raw
  <2>1. CASE LoadCursor(w)
    <3>1. mem' = [mem EXCEPT ![w] = cursor] /\ UNCHANGED <<roll, cursor>> /\ roll[w] = NoCursor
      BY <2>1 DEF LoadCursor, CursorsCounted
    <3> QED BY <2>0, <3>1 DEF CursorsCounted, CountedTo, PipelineTypeOK
  <2>2. CASE SetCursor(w)
    <3>1. /\ mem' = [mem EXCEPT ![w] = roll[w]] /\ roll' = [roll EXCEPT ![w] = NoCursor]
          /\ cursor' = roll[w]
      BY <2>2 DEF SetCursor
    <3> QED BY <1>1, <2>0, <3>1 DEF CursorsCounted, CountedTo, PipelineTypeOK
  <2>3. CASE RollFails(w)
    <3>1. roll' = [roll EXCEPT ![w] = NoCursor] /\ UNCHANGED <<mem, cursor>>
      BY <2>3 DEF RollFails
    <3> QED BY <1>1, <2>0, <3>1 DEF CursorsCounted, CountedTo, PipelineTypeOK
  <2>4. CASE Crash(w)
    <3>1. /\ roll' = [roll EXCEPT ![w] = NoCursor] /\ mem' = [mem EXCEPT ![w] = NoCursor]
          /\ UNCHANGED cursor
      BY <2>4 DEF Crash
    <3> QED BY <1>1, <2>0, <3>1 DEF CursorsCounted, CountedTo, PipelineTypeOK
  <2> QED BY <1>5, <2>1, <2>2, <2>3, <2>4
<1>6. ASSUME UNCHANGED raw, NEW w \in Workers, Recompute(w) PROVE CursorsCounted'
  <2>0. RangeEnd(w) \in Int /\ mem[w] < RangeEnd(w)
    BY <1>0, <1>6, ClockAssumption DEF Recompute, Behind, RangeEnd
  <2>1. PICK end \in Int : end = RangeEnd(w)
    BY <2>0
  <2>2. /\ roll' = [roll EXCEPT ![w] = end] /\ UNCHANGED <<mem, cursor, seen, belated, dropped>>
        /\ mem[w] # NoCursor /\ mem[w] < end
    BY <1>6, <2>0, <2>1 DEF Recompute, Behind, raw
  <2>4. ASSUME NEW b \in Buckets, mem[w] <= b, b < end, NEW e \in Events,
               <<e, b>> \in seen \ (belated \cup dropped)
        PROVE  e \in rolled'[b]
    <3>1. rolled'[b] = {d \in Events : <<d, b>> \in stored}
      BY <1>0, <1>6, <2>0, <2>1, <2>4 DEF Recompute
    <3>2. <<e, b>> \in stored
      <4>1. <<e, b>>[2] = b
        OBVIOUS
      <4>2. CASE <<e, b>> \notin stored
        <5>1. mem[w] > b
          BY <2>2, <2>4, <4>1, <4>2 DEF DroppedBehind
        <5> QED BY <1>0, <2>4, <5>1
      <4> QED BY <4>2
    <3> QED BY <3>1, <3>2
  <2>5. ASSUME NEW b \in Buckets, ~(mem[w] <= b /\ b < end) PROVE rolled'[b] = rolled[b]
    BY <1>0, <1>6, <2>0, <2>1, <2>5 DEF Recompute
  <2>6. ASSUME NEW n \in Int, CountedTo(n) PROVE CountedTo(n)'
    BY <2>2, <2>4, <2>5, <2>6 DEF CountedTo
  <2>7. CountedTo(end)'
    <3>1. CountedTo(mem[w])
      BY DEF CursorsCounted
    <3> QED BY <1>0, <2>2, <2>4, <2>5, <3>1 DEF CountedTo
  <2>8. CountedTo(cursor)'
    BY <1>0, <2>2, <2>6 DEF CursorsCounted, CountedTo
  <2>9. ASSUME NEW v \in Workers
        PROVE  /\ CountedTo(mem[v])' /\ CountedTo(roll[v])'
               /\ (roll[v] # NoCursor => mem[v] # NoCursor /\ mem[v] < roll[v])'
    <3>1. CountedTo(mem[v])'
      BY <1>0, <2>2, <2>6 DEF CursorsCounted, CountedTo
    <3>2. CASE v = w
      BY <2>2, <2>7, <3>1, <3>2 DEF PipelineTypeOK, CountedTo
    <3>3. CASE v # w
      <4>1. roll'[v] = roll[v] /\ CountedTo(roll[v])
        BY <2>2, <3>3 DEF PipelineTypeOK, CursorsCounted
      <4> QED BY <1>0, <2>2, <2>6, <3>1, <4>1 DEF CursorsCounted, CountedTo
    <3> QED BY <3>2, <3>3
  <2> QED BY <2>8, <2>9 DEF CursorsCounted
<1>7. CASE UNCHANGED rollups
  BY <1>2, <1>3, <1>4, <1>7, RawSteps
<1> QED BY <1>5, <1>6, <1>7, RollupSteps

-----------------------------------------------------------------------------
(* The reports over the pipeline.                                          *)

\* What the rollups say of a period is what was stored for it, but for what
\* came late or was dropped early.
LEMMA CountedIsSeen ==
    ASSUME PipelineTypeOK, CursorsCounted, RolledSeen, NEW from \in Buckets, NEW to \in 0..cursor,
           NEW x
    PROVE  /\ x \in Counted(from, to) => x \in seen /\ from <= x[2] /\ x[2] < to
           /\ x \in seen \ (belated \cup dropped) /\ from <= x[2] /\ x[2] < to
                => x \in Counted(from, to)
<1>0. cursor \in Int /\ to \in Int /\ to <= cursor /\ \A b \in Buckets : b \in Int
  BY CursorTypes
<1>1. ASSUME x \in Counted(from, to) PROVE x \in seen /\ from <= x[2] /\ x[2] < to
  <2>1. PICK b \in Buckets : from <= b /\ b < to /\ x \in rolled[b] \X {b}
    BY <1>1 DEF Counted
  <2>2. PICK e \in rolled[b] : x = <<e, b>>
    BY <2>1
  <2>3. e \in Events
    BY <2>1, <2>2 DEF PipelineTypeOK
  <2>4. <<e, b>> \in seen
    BY <2>1, <2>2, <2>3 DEF RolledSeen
  <2> QED BY <2>1, <2>2, <2>4
<1>2. ASSUME x \in seen \ (belated \cup dropped), from <= x[2], x[2] < to
      PROVE  x \in Counted(from, to)
  <2>1. PICK e \in Events, b \in Buckets : x = <<e, b>>
    BY <1>2 DEF PipelineTypeOK, Entries
  <2>2. from <= b /\ b < to /\ b < cursor
    BY <1>0, <1>2, <2>1
  <2>3. e \in rolled[b]
    BY <1>2, <2>1, <2>2 DEF CursorsCounted, CountedTo
  <2>4. x \in rolled[b] \X {b}
    BY <2>1, <2>3
  <2> QED BY <2>2, <2>4 DEF Counted
<1> QED BY <1>1, <1>2

\* The raw events since the retention are those that were ever stored, and none
\* of them was dropped.
LEMMA RawIsSeen ==
    ASSUME PipelineTypeOK, OldestPast, RawComplete, NEW from \in Buckets, NEW to \in Int
    PROVE  /\ BreakdownFrom(from) \in Nat /\ from <= BreakdownFrom(from)
           /\ Raw(BreakdownFrom(from), to)
                = {x \in seen : BreakdownFrom(from) <= x[2] /\ x[2] < to}
           /\ \A x \in Raw(BreakdownFrom(from), to) : x \notin dropped
<1>1. RawFrom \in Nat /\ RawFrom >= Cutoff /\ Cutoff \in Nat /\ oldest \in Nat /\ from \in Nat
  <2>1. clock \in Nat
    BY ClockAssumption DEF PipelineTypeOK, MaxClock
  <2>2. Cutoff \in Nat
    BY <2>1, RetentionGrows DEF Cutoff
  <2>3. RawFrom \in Nat /\ RawFrom >= Cutoff
    BY RawFromKept DEF PipelineTypeOK
  <2>4. oldest \in Nat /\ from \in Nat
    BY CursorTypes
  <2> QED BY <2>2, <2>3, <2>4
<1> DEFINE b == BreakdownFrom(from)
<1>2. b \in Nat /\ from <= b /\ oldest <= b
  BY <1>1 DEF BreakdownFrom, OldestPast
<1> HIDE DEF b
<1>3. \A x \in seen : x[2] \in Int
  BY CursorTypes DEF PipelineTypeOK
<1>4. Raw(b, to) = {x \in seen : b <= x[2] /\ x[2] < to}
  BY <1>1, <1>2, <1>3 DEF Raw, RawComplete
<1>5. \A x \in Raw(b, to) : x \notin dropped
  <2>1. \A x \in stored : x[2] >= oldest /\ x[2] \in Int
    BY <1>3 DEF RawComplete
  <2> QED BY <1>1, <2>1 DEF Raw, RawComplete
<1> QED BY <1>2, <1>4, <1>5 DEF b

\* A query with a LIMIT returns rows of the groups as they are, and all of them
\* unless there are as many as the LIMIT.
LEMMA LimitedIs ==
    ASSUME NEW groups, NEW n \in Nat, NEW answer \in Limited(groups, n)
    PROVE  /\ DOMAIN answer \subseteq DOMAIN groups
           /\ \A k \in DOMAIN answer : answer[k] = groups[k]
           /\ Cardinality(DOMAIN answer) # n => DOMAIN answer = DOMAIN groups
<1>1. CASE Cardinality(DOMAIN groups) <= n
  <2>1. answer = groups
    BY <1>1 DEF Limited
  <2> QED BY <2>1
<1>2. CASE ~(Cardinality(DOMAIN groups) <= n)
  <2>1. PICK T \in SUBSET DOMAIN groups :
          Cardinality(T) = n /\ answer = [k \in T |-> groups[k]]
    BY <1>2 DEF Limited
  <2> QED BY <2>1
<1> QED BY <1>1, <1>2

\* Every click of a breakdown is under one name, and all are unless the LIMIT
\* cuts names off.
LEMMA BreakdownAdds ==
    ASSUME NEW clicks, NEW dim, NEW rows \in Breakdown(clicks, dim)
    PROVE  /\ AddsUp(rows, clicks)
           /\ \A k \in DOMAIN rows : rows[k] = {x \in clicks : Meta[x[1]][dim] = k}
           /\ \A x \in clicks :
                 Meta[x[1]][dim] \in DOMAIN rows \/ Cardinality(DOMAIN rows) = MaxBreakdownRows
<1> DEFINE name(x) == Meta[x[1]][dim]
           groups == GroupBy(clicks, dim)
<1>0. MaxBreakdownRows \in Nat
  BY LimitsAssumption
<1>1. groups = [k \in {name(x) : x \in clicks} |-> {x \in clicks : name(x) = k}]
  BY DEF GroupBy
<1>2. /\ DOMAIN rows \subseteq DOMAIN groups
      /\ \A k \in DOMAIN rows : rows[k] = groups[k]
      /\ Cardinality(DOMAIN rows) # MaxBreakdownRows => DOMAIN rows = DOMAIN groups
  <2>1. rows \in Limited(groups, MaxBreakdownRows)
    BY DEF Breakdown
  <2> HIDE DEF groups
  <2> QED BY <1>0, <2>1, LimitedIs
<1> HIDE DEF name, groups
<1>3. \A k \in DOMAIN rows : rows[k] = {x \in clicks : name(x) = k}
  BY <1>1, <1>2
<1>4. \A x \in clicks : name(x) \in DOMAIN groups
  BY <1>1
<1>5. \A x \in clicks : name(x) \in DOMAIN rows \/ Cardinality(DOMAIN rows) = MaxBreakdownRows
  BY <1>2, <1>4
<1>6. AddsUp(rows, clicks)
  <2>1. UNION {rows[k] : k \in DOMAIN rows} \subseteq clicks
    BY <1>3
  <2>2. ASSUME Cardinality(DOMAIN rows) < MaxBreakdownRows
        PROVE  clicks \subseteq UNION {rows[k] : k \in DOMAIN rows}
    <3>1. Cardinality(DOMAIN rows) # MaxBreakdownRows
      BY <1>0, <2>2
    <3> QED BY <1>3, <1>5, <3>1
  <2> QED BY <2>1, <2>2 DEF AddsUp
<1> QED BY <1>3, <1>5, <1>6 DEF name

\* Over a period that is rolled up, the parts of a report agree.
LEMMA Agree ==
    ASSUME PipelineTypeOK, OldestPast, RawComplete, RolledSeen, CursorsCounted
    PROVE  ReportsAgree
<1> SUFFICES ASSUME NEW from \in Buckets, NEW to \in 0..cursor, Window(from, to)
             PROVE  LET r == LinkReport(from, to)
                        tops == TopLinksAnswer(TRUE, TRUE, from, to).rows IN
                    /\ \A l \in Links :
                        LET s == LinkStatsAnswer(TRUE, l, from, to).stats IN
                        /\ {x \in s.clicks : x[2] >= s.breakdownFrom} \subseteq s.breakdownClicks
                        /\ s.breakdownClicks \subseteq s.clicks \cup belated
                        /\ \A dim \in DOMAIN s.breakdowns : \A rows \in s.breakdowns[dim] :
                            AddsUp(rows, s.breakdownClicks)
                        /\ l \notin Deleted =>
                            /\ r.rows[l].clicks = s.clicks
                            /\ r.rows[l].qr \subseteq s.clicks \cup belated
                            /\ \A top \in tops :
                                /\ l \in DOMAIN top => top[l].clicks = s.clicks
                                /\ s.clicks # {} /\ l \notin DOMAIN top =>
                                    Cardinality(DOMAIN top) = MaxTopLinks
                    /\ Totals(r, "clicks") = {x \in r.byDay : Meta[x[1]].link \notin Deleted}
                    /\ \A rows \in r.sources : \A x \in Totals(r, "qr") :
                        \/ "qr" \in DOMAIN rows /\ x \in rows["qr"]
                        \/ "qr" \notin DOMAIN rows /\ Cardinality(DOMAIN rows) = MaxBreakdownRows
                    /\ \A f \in Forms :
                        LET n == FunnelAnswer(TRUE, f, from, to).funnel IN
                        \A type \in Types :
                            LET kept == {x \in seen : /\ Meta[x[1]].form = f /\ Meta[x[1]].type = type
                                                      /\ from <= x[2] /\ x[2] < to} IN
                            n[type] \subseteq kept /\ kept \ (belated \cup dropped) \subseteq n[type]
  BY DEF ReportsAgree
<1> DEFINE r == LinkReport(from, to)
           tops == TopLinksAnswer(TRUE, TRUE, from, to).rows
           first == BreakdownFrom(from)
           counted(l) == OfLink(Counted(from, to), l, "click")
           raw_(l) == OfLink(Raw(first, to), l, "click")
<1>1. ASSUME NEW x
      PROVE  /\ x \in Counted(from, to) => x \in seen /\ from <= x[2] /\ x[2] < to
             /\ x \in seen \ (belated \cup dropped) /\ from <= x[2] /\ x[2] < to
                  => x \in Counted(from, to)
  BY CountedIsSeen
<1>2. /\ first \in Nat /\ from \in Nat /\ to \in Int /\ from <= first
      /\ Raw(first, to) = {x \in seen : first <= x[2] /\ x[2] < to}
      /\ \A x \in Raw(first, to) : x \notin dropped
      /\ \A x \in seen : x[2] \in Int
  <2>1. to \in Int /\ from \in Nat
    BY CursorTypes
  <2>2. /\ first \in Nat /\ from <= first
        /\ Raw(first, to) = {x \in seen : first <= x[2] /\ x[2] < to}
        /\ \A x \in Raw(first, to) : x \notin dropped
    BY <2>1, RawIsSeen
  <2>3. \A x \in seen : x[2] \in Int
    BY CursorTypes DEF PipelineTypeOK
  <2> QED BY <2>1, <2>2, <2>3
<1> HIDE DEF first
<1>3. ASSUME NEW l \in Links
      PROVE  /\ {x \in counted(l) : x[2] >= first} \subseteq raw_(l)
             /\ raw_(l) \subseteq counted(l) \cup belated
  <2>1. ASSUME NEW x \in counted(l), x[2] >= first PROVE x \in raw_(l)
    <3>1. x \in Counted(from, to) /\ Meta[x[1]].link = l /\ Meta[x[1]].type = "click"
      BY <2>1 DEF OfLink
    <3>2. x \in Raw(first, to)
      BY <1>1, <1>2, <2>1, <3>1
    <3> QED BY <3>1, <3>2 DEF OfLink
  <2>2. ASSUME NEW x \in raw_(l), x \notin belated PROVE x \in counted(l)
    <3>1. x \in Raw(first, to) /\ Meta[x[1]].link = l /\ Meta[x[1]].type = "click"
      BY <2>2 DEF OfLink
    <3>2. x \in seen /\ x \notin dropped /\ from <= x[2] /\ x[2] < to
      BY <1>2, <3>1
    <3>3. x \in Counted(from, to)
      BY <1>1, <2>2, <3>2
    <3> QED BY <3>1, <3>3 DEF OfLink
  <2> QED BY <2>1, <2>2
<1>4. ASSUME NEW l \in Links
      PROVE  LET s == LinkStatsAnswer(TRUE, l, from, to).stats IN
             /\ s.clicks = counted(l) /\ s.breakdownFrom = first /\ s.breakdownClicks = raw_(l)
             /\ DOMAIN s.breakdowns = {"src", "referrer"}
             /\ \A dim \in DOMAIN s.breakdowns : s.breakdowns[dim] = Breakdown(raw_(l), dim)
  BY DEF LinkStatsAnswer, LinkStats, first
<1>5. ASSUME NEW l \in Links \ Deleted
      PROVE  /\ l \in DOMAIN r.rows /\ r.rows[l].clicks = counted(l)
             /\ r.rows[l].qr = {x \in raw_(l) : Meta[x[1]].src = "qr"}
  BY DEF LinkReport, first
<1>6. ASSUME NEW l \in Links \ Deleted, NEW top \in tops
      PROVE  /\ l \in DOMAIN top => top[l].clicks = counted(l)
             /\ counted(l) # {} /\ l \notin DOMAIN top => Cardinality(DOMAIN top) = MaxTopLinks
  <2> DEFINE clicked == {k \in Links \ Deleted : counted(k) # {}}
             groups == [k \in clicked |-> counted(k)]
             submits(k) == OfLink(Counted(from, to), k, "submit")
  <2>1. tops = {[k \in DOMAIN g |-> [clicks |-> g[k], submits |-> submits(k)]] :
                   g \in Limited(groups, MaxTopLinks)}
    BY DEF TopLinksAnswer, TopLinks
  <2> HIDE DEF tops, counted, submits
  <2>2. PICK g \in Limited(groups, MaxTopLinks) :
          top = [k \in DOMAIN g |-> [clicks |-> g[k], submits |-> submits(k)]]
    BY <2>1
  <2>3. MaxTopLinks \in Nat
    BY LimitsAssumption
  <2>4. DOMAIN groups = clicked /\ \A k \in clicked : groups[k] = counted(k)
    OBVIOUS
  <2> HIDE DEF groups
  <2>5. /\ DOMAIN g \subseteq DOMAIN groups /\ \A k \in DOMAIN g : g[k] = groups[k]
        /\ Cardinality(DOMAIN g) # MaxTopLinks => DOMAIN g = DOMAIN groups
    BY <2>2, <2>3, LimitedIs
  <2>6. DOMAIN top = DOMAIN g /\ \A k \in DOMAIN g : top[k].clicks = g[k]
    BY <2>2
  <2> QED BY <2>4, <2>5, <2>6
<1>7. Totals(r, "clicks") = {x \in r.byDay : Meta[x[1]].link \notin Deleted}
  <2>1. r.byDay = UNION {counted(l) : l \in Links}
    BY DEF LinkReport
  <2>2. DOMAIN r.rows = Links \ Deleted
    BY DEF LinkReport
  <2>3. Totals(r, "clicks") = UNION {counted(l) : l \in Links \ Deleted}
    BY <1>5, <2>2 DEF Totals
  <2>4. \A l \in Links : \A x \in counted(l) : Meta[x[1]].link = l
    BY DEF OfLink
  <2> HIDE DEF counted, r
  <2> QED BY <2>1, <2>3, <2>4
<1>8. ASSUME NEW rows \in r.sources, NEW x \in Totals(r, "qr")
      PROVE  \/ "qr" \in DOMAIN rows /\ x \in rows["qr"]
             \/ "qr" \notin DOMAIN rows /\ Cardinality(DOMAIN rows) = MaxBreakdownRows
  <2> DEFINE clicks == UNION {raw_(l) : l \in Links}
  <2>1. r.sources = Breakdown(clicks, "src")
    BY DEF LinkReport, ProjectBreakdown, first
  <2>2. DOMAIN r.rows = Links \ Deleted
    BY DEF LinkReport
  <2>3. PICK l \in Links \ Deleted : x \in r.rows[l].qr
    BY <2>2 DEF Totals
  <2>4. x \in raw_(l) /\ Meta[x[1]].src = "qr"
    BY <1>5, <2>3
  <2> HIDE DEF raw_
  <2>5. x \in clicks /\ Meta[x[1]]["src"] = "qr"
    BY <2>4
  <2> HIDE DEF clicks, r
  <2>6. /\ \A k \in DOMAIN rows : rows[k] = {y \in clicks : Meta[y[1]]["src"] = k}
        /\ Meta[x[1]]["src"] \in DOMAIN rows \/ Cardinality(DOMAIN rows) = MaxBreakdownRows
    BY <2>1, <2>5, BreakdownAdds
  <2> QED BY <2>5, <2>6
<1>9. ASSUME NEW f \in Forms, NEW type \in Types
      PROVE  LET n == FunnelAnswer(TRUE, f, from, to).funnel[type]
                 kept == {x \in seen : /\ Meta[x[1]].form = f /\ Meta[x[1]].type = type
                                       /\ from <= x[2] /\ x[2] < to} IN
             n \subseteq kept /\ kept \ (belated \cup dropped) \subseteq n
  <2>1. FunnelAnswer(TRUE, f, from, to).funnel[type]
          = {x \in Counted(from, to) : Meta[x[1]].form = f /\ Meta[x[1]].type = type}
    BY DEF FunnelAnswer, Funnel
  <2> QED BY <1>1, <2>1
<1> HIDE DEF r, tops, counted, raw_
<1>10. ASSUME NEW l \in Links
       PROVE  LET s == LinkStatsAnswer(TRUE, l, from, to).stats IN
              /\ {x \in s.clicks : x[2] >= s.breakdownFrom} \subseteq s.breakdownClicks
              /\ s.breakdownClicks \subseteq s.clicks \cup belated
              /\ \A dim \in DOMAIN s.breakdowns : \A rows \in s.breakdowns[dim] :
                  AddsUp(rows, s.breakdownClicks)
              /\ l \notin Deleted =>
                  /\ r.rows[l].clicks = s.clicks
                  /\ r.rows[l].qr \subseteq s.clicks \cup belated
                  /\ \A top \in tops :
                      /\ l \in DOMAIN top => top[l].clicks = s.clicks
                      /\ s.clicks # {} /\ l \notin DOMAIN top =>
                          Cardinality(DOMAIN top) = MaxTopLinks
  <2> DEFINE s == LinkStatsAnswer(TRUE, l, from, to).stats
  <2>1. /\ s.clicks = counted(l) /\ s.breakdownFrom = first /\ s.breakdownClicks = raw_(l)
        /\ \A dim \in DOMAIN s.breakdowns : s.breakdowns[dim] = Breakdown(raw_(l), dim)
    BY <1>4
  <2> HIDE DEF s
  <2>2. /\ {x \in s.clicks : x[2] >= s.breakdownFrom} \subseteq s.breakdownClicks
        /\ s.breakdownClicks \subseteq s.clicks \cup belated
    BY <1>3, <2>1
  <2>3. \A dim \in DOMAIN s.breakdowns : \A rows \in s.breakdowns[dim] :
          AddsUp(rows, s.breakdownClicks)
    BY <2>1, BreakdownAdds
  <2>4. l \notin Deleted => r.rows[l].clicks = s.clicks
                            /\ r.rows[l].qr \subseteq s.clicks \cup belated
    BY <1>3, <1>5, <2>1
  <2>5. l \notin Deleted => \A top \in tops :
            /\ l \in DOMAIN top => top[l].clicks = s.clicks
            /\ s.clicks # {} /\ l \notin DOMAIN top => Cardinality(DOMAIN top) = MaxTopLinks
    BY <1>6, <2>1
  <2> QED BY <2>2, <2>3, <2>4, <2>5 DEF s
<1> QED BY <1>7, <1>8, <1>9, <1>10 DEF r, tops

-----------------------------------------------------------------------------
(* The theorems about the pipeline.                                        *)

\* The invariant is inductive.
THEOREM PipelineInductive == PipelineSpec => []PipelineInv
<1>1. PipelineInit => PipelineInv
  <2> SUFFICES ASSUME PipelineInit PROVE PipelineInv
    OBVIOUS
  <2>1. PipelineTypeOK /\ IsFiniteSet(buffer)
    BY PipelineTypeInit
  <2>2. BatchHeld /\ ReportedHeld
    BY DEF PipelineInit, BatchHeld, ReportedHeld, IdleBatch
  <2>3. OldestPast
    <3>1. clock \in Nat
      BY DEF PipelineInit
    <3>2. Cutoff \in Nat
      BY <3>1, RetentionGrows DEF Cutoff
    <3> QED BY <3>2 DEF PipelineInit, OldestPast
  <2>4. RawComplete /\ DroppedBehind /\ RolledSeen
    BY DEF PipelineInit, RawComplete, DroppedBehind, RolledSeen
  <2>5. CursorsCounted
    BY DEF PipelineInit, CursorsCounted, CountedTo
  <2>6. StreamBounded
    <3>1. Len(stream) = 0
      BY DEF PipelineInit
    <3> QED BY <3>1 DEF PipelineInit, StreamBounded
  <2> QED BY <2>1, <2>2, <2>3, <2>4, <2>5, <2>6 DEF PipelineInv
<1>2. PipelineInv /\ [PipelineNext]_pipelineVars => PipelineInv'
  <2> SUFFICES ASSUME PipelineInv, [PipelineNext]_pipelineVars PROVE PipelineInv'
    OBVIOUS
  <2>1. (PipelineTypeOK /\ IsFiniteSet(buffer))'
    BY PipelineTypeStep DEF PipelineInv
  <2>2. BatchHeld' /\ ReportedHeld' /\ StreamBounded' /\ OldestPast'
    BY BatchHeldStep, ReportedHeldStep, StreamBoundedStep, OldestStep DEF PipelineInv
  <2>3. RawComplete' /\ DroppedBehind' /\ RolledSeen' /\ CursorsCounted'
    BY RawCompleteStep, DroppedBehindStep, RolledSeenStep, CursorsCountedStep DEF PipelineInv
  <2> QED BY <2>1, <2>2, <2>3 DEF PipelineInv
<1> QED BY <1>1, <1>2, PTL DEF PipelineSpec

\* Every variable keeps its type, and no cursor runs ahead of the closed buckets,
\* however long the lag and however many workers roll up.
THEOREM CursorsBehind == PipelineSpec => []PipelineTypeOK
<1>1. PipelineInv => PipelineTypeOK
  BY DEF PipelineInv
<1> QED BY <1>1, PipelineInductive, PTL

\* What was reported is on its way, stored, lost where the collector says so, or
\* given up by a stream past its length, whatever fails and however many workers
\* read it.
THEOREM NothingVanishes == PipelineSpec => []Accounted
<1>1. PipelineInv => Accounted
  BY DEF PipelineInv, ReportedHeld, StreamBounded, Held, Accounted, InTransit
<1> QED BY <1>1, PipelineInductive, PTL

\* The rollups of a bucket that is done count what was stored for it, except what
\* came when a roller had passed it or was dropped before one had.
THEOREM ClosedAreCounted == PipelineSpec => []ClosedIsCounted
<1>1. PipelineInv => ClosedIsCounted
  <2> SUFFICES ASSUME PipelineInv PROVE ClosedIsCounted
    OBVIOUS
  <2>1. \A b \in Buckets : rolled[b] \subseteq Events
    BY DEF PipelineInv, PipelineTypeOK
  <2>2. \A b \in Buckets : rolled[b] \subseteq {e \in Events : <<e, b>> \in seen}
    BY <2>1 DEF PipelineInv, RolledSeen
  <2>3. CountedTo(cursor)
    BY DEF PipelineInv, CursorsCounted
  <2> QED BY <2>2, <2>3 DEF CountedTo, ClosedIsCounted
<1> QED BY <1>1, PipelineInductive, PTL

\* The parts of the reports agree over any period that is rolled up, with the same
\* exceptions and up to the LIMITs of their queries.
THEOREM ReportsAddUp == PipelineSpec => []ReportsAgree
<1>1. PipelineInv => ReportsAgree
  BY Agree DEF PipelineInv
<1> QED BY <1>1, PipelineInductive, PTL

=============================================================================
