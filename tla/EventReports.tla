---------------------------- MODULE EventReports ----------------------------
(***************************************************************************)
(* What the reports make of the events: a link's statistics, the project's *)
(* leaderboard and link report, a form's funnel.  Totals come from the     *)
(* rollups, which go back for ever; sources, referrers and networks come   *)
(* from the raw events, which go back as far as their retention.           *)
(*                                                                         *)
(* A count is the cardinality of the set of events counted, so a report is *)
(* a record of sets; an event occurs at the start of its bucket.  Which of *)
(* the rows with equal counts a LIMIT keeps is open: such a query is the   *)
(* set of its possible answers.                                            *)
(***************************************************************************)
EXTENDS EventPipeline

CONSTANTS
    Links,      \* links.links of the project
    Deleted,    \* those whose status is deleted
    Forms,      \* forms.forms of the project
    Meta,       \* [Events -> what an event records of itself]
    MaxWindow,  \* the longest period a statistic may ask for, in buckets
    MaxBreakdownRows, \* LIMIT of a breakdown, 20
    MaxTopLinks       \* LIMIT of the leaderboard, 50

Unset == "none"  \* a source, referrer or network that was not recorded

ASSUME DeletedAssumption == Deleted \subseteq Links
ASSUME MetaAssumption ==
    /\ Events \subseteq DOMAIN Meta
    /\ \A e \in Events : DOMAIN Meta[e] = {"type", "link", "form", "src", "referrer", "network"}
ASSUME LimitsAssumption ==
    MaxWindow \in Nat \ {0} /\ MaxBreakdownRows \in Nat \ {0} /\ MaxTopLinks \in Nat \ {0}

Types == {"click", "view", "start", "submit"}

-----------------------------------------------------------------------------
(* What the queries read.                                                  *)

\* funnel_rollups, grouped: the events counted in [from, to), with their bucket.
Counted(from, to) ==
    UNION {rolled[b] \X {b} : b \in {c \in Buckets : from <= c /\ c < to}}

\* analytics.events in [from, to).
Raw(from, to) == {x \in stored : from <= x[2] /\ x[2] < to}

OfLink(entries, l, type) ==
    {x \in entries : Meta[x[1]].link = l /\ Meta[x[1]].type = type}

\* The first bucket that starts inside the retention of raw events.
RawFrom ==
    IF clock < Retention THEN 0
    ELSE CHOOSE b \in 0..MaxClock : /\ b * Width >= clock - Retention
                                    /\ b = 0 \/ (b - 1) * Width < clock - Retention

BreakdownFrom(from) == IF from > RawFrom THEN from ELSE RawFrom

\* GROUP BY a dimension.
GroupBy(clicks, dim) ==
    [k \in {Meta[x[1]][dim] : x \in clicks} |-> {x \in clicks : Meta[x[1]][dim] = k}]

\* ORDER BY count DESC LIMIT n: no row left out counts more than one returned.
Limited(groups, n) ==
    LET Best(T) == \A k \in T, j \in (DOMAIN groups) \ T :
                      Cardinality(groups[k]) >= Cardinality(groups[j]) IN
    IF Cardinality(DOMAIN groups) <= n THEN {groups}
    ELSE {[k \in T |-> groups[k]] :
             T \in {S \in SUBSET DOMAIN groups : Cardinality(S) = n /\ Best(S)}}

\* A mutant: clicks without the dimension are filtered out.
BreakdownFiltered(clicks, dim) ==
    Limited(GroupBy({x \in clicks : Meta[x[1]][dim] # Unset}, dim), MaxBreakdownRows)

\* A click without the dimension is grouped under a name of its own.
Breakdown(clicks, dim) == Limited(GroupBy(clicks, dim), MaxBreakdownRows)

Networks(clicks) == {Meta[x[1]].network : x \in clicks} \ {Unset}

LinkStats(l, from, to) ==
    LET first == BreakdownFrom(from)
        clicks == OfLink(Raw(first, to), l, "click") IN
    [clicks |-> OfLink(Counted(from, to), l, "click"),
     breakdownFrom |-> first,
     breakdownClicks |-> clicks,
     networks |-> Networks(clicks),
     breakdowns |-> [dim \in {"src", "referrer"} |-> Breakdown(clicks, dim)]]

\* Clicks of a project: one breakdown over all its links.
ProjectBreakdown(from, to, dim) ==
    LET left == Raw(from, to) IN
    Breakdown(UNION {OfLink(left, l, "click") : l \in Links}, dim)

\* The links with a click in the period, whatever their number of submits.
TopLinks(from, to) ==
    LET counted == Counted(from, to)
        clicks(l) == OfLink(counted, l, "click")
        clicked == {l \in Links \ Deleted : clicks(l) # {}} IN
    {[l \in DOMAIN top |->
        [clicks |-> top[l], submits |-> OfLink(counted, l, "submit")]] :
            top \in Limited([l \in clicked |-> clicks(l)], MaxTopLinks)}

\* A row for every link there is, and the days of the whole project.
LinkReport(from, to) ==
    LET first == BreakdownFrom(from)
        left == Raw(first, to)
        counted == Counted(from, to)
        rawClicks(l) == OfLink(left, l, "click") IN
    [rows |-> [l \in Links \ Deleted |->
        [clicks |-> OfLink(counted, l, "click"),
         submits |-> OfLink(counted, l, "submit"),
         qr |-> {x \in rawClicks(l) : Meta[x[1]].src = "qr"},
         networks |-> Networks(rawClicks(l))]],
     byDay |-> UNION {OfLink(counted, l, "click") : l \in Links},
     sources |-> ProjectBreakdown(first, to, "src")]

\* LinkReport.Totals, the first lines of the workbook.
Totals(r, column) == UNION {r.rows[l][column] : l \in DOMAIN r.rows}

Funnel(f, from, to) ==
    LET counted == {x \in Counted(from, to) : Meta[x[1]].form = f} IN
    [type \in Types |-> {x \in counted : Meta[x[1]].type = type}]

-----------------------------------------------------------------------------
(* The handlers.                                                           *)

Refused(code) == [code |-> code]

Window(from, to) == from < to /\ to - from <= MaxWindow

\* A link that is unknown is not found, never a report full of zeros.
LinkStatsAnswer(can, l, from, to) ==
    IF ~can THEN Refused("forbidden")
    ELSE IF l \notin Links THEN Refused("not_found")
    ELSE IF ~Window(from, to) THEN Refused("validation_failed")
    ELSE [code |-> "ok", stats |-> LinkStats(l, from, to)]

TopLinksAnswer(can, inProject, from, to) ==
    IF ~can \/ ~inProject THEN Refused("forbidden")
    ELSE IF ~Window(from, to) THEN Refused("validation_failed")
    ELSE [code |-> "ok", rows |-> TopLinks(from, to)]

\* The funnel asks neither whether the form exists nor how long the period is.
FunnelAnswer(can, f, from, to) ==
    IF ~can THEN Refused("forbidden")
    ELSE LET n == Funnel(f, from, to) IN
         [code |-> "ok", funnel |-> n,
          incomplete |-> n["view"] # {} /\ Cardinality(n["submit"]) > Cardinality(n["view"])]

-----------------------------------------------------------------------------
(* Properties.                                                             *)

\* Every row of a breakdown is part of the total, and with fewer rows than the
\* LIMIT they are all of it.
AddsUp(breakdown, total) ==
    LET rows == UNION {breakdown[k] : k \in DOMAIN breakdown} IN
    /\ rows \subseteq total
    /\ Cardinality(DOMAIN breakdown) < MaxBreakdownRows => rows = total

\* Over any period that is rolled up, the parts of a report agree.  A link's
\* total and the clicks its breakdowns are drawn from "disagree by exactly the
\* history the raw events no longer hold" (and by events that came late);
\* breakdowns add up to the latter, unless cut off by their LIMIT; the
\* leaderboard, the link report and the funnel count the same events.
ReportsAgree ==
    \A from \in Buckets, to \in 0..cursor :
        LET r == LinkReport(from, to)
            tops == TopLinksAnswer(TRUE, TRUE, from, to).rows IN
        Window(from, to) =>
            /\ \A l \in Links :
                LET s == LinkStatsAnswer(TRUE, l, from, to).stats IN
                /\ {x \in s.clicks : x[2] >= s.breakdownFrom} \subseteq s.breakdownClicks
                /\ s.breakdownClicks \subseteq s.clicks \cup belated
                /\ \A dim \in DOMAIN s.breakdowns : \A rows \in s.breakdowns[dim] :
                    AddsUp(rows, s.breakdownClicks)
                /\ l \notin Deleted =>
                    /\ r.rows[l].clicks = s.clicks
                    /\ r.rows[l].qr \subseteq s.clicks \cup belated
                    /\ \A top \in tops :
                        /\ l \in DOMAIN top => top[l].clicks = s.clicks
                        /\ s.clicks # {} /\ l \notin DOMAIN top =>
                            Cardinality(DOMAIN top) = MaxTopLinks
            /\ Totals(r, "clicks") = {x \in r.byDay : Meta[x[1]].link \notin Deleted}
            /\ \A rows \in r.sources : \A x \in Totals(r, "qr") :
                \/ "qr" \in DOMAIN rows /\ x \in rows["qr"]
                \/ "qr" \notin DOMAIN rows /\ Cardinality(DOMAIN rows) = MaxBreakdownRows
            /\ \A f \in Forms :
                LET n == FunnelAnswer(TRUE, f, from, to).funnel IN
                \A type \in Types :
                    LET kept == {x \in seen : /\ Meta[x[1]].form = f /\ Meta[x[1]].type = type
                                              /\ from <= x[2] /\ x[2] < to} IN
                    n[type] \subseteq kept /\ kept \ (belated \cup dropped) \subseteq n[type]
=============================================================================
