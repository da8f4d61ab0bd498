--------------------------- MODULE FormValidation ---------------------------
(***************************************************************************)
(* What domain.Validate refuses: the errors of a draft.  Warnings (orphan  *)
(* fields, unreachable pages, an identifier in the clear) block nothing    *)
(* and are left out, as is the error of a field without a label.           *)
(***************************************************************************)
EXTENDS FormSchema

Error(code, target) == [code |-> code, target |-> target]

\* validateFormat: a format where text is typed, bounds where they apply.
FormatFits(f) ==
    /\ f.format # None => f.type = "text" /\ f.format \in Formats /\ ~f.multiline
    /\ f.min # None \/ f.max # None => f.type = "date" \/ f.format \in Numeric
    /\ f.min # None /\ f.max # None => f.min <= f.max

\* validateField.
FieldFits(f) ==
    /\ f.type \in Types
    /\ f.type = "file" => f.maxMB >= 0
    /\ f.type \in ChoiceTypes =>
         /\ f.options # <<>> /\ ~HasOption(f, Empty)
         /\ Cardinality(ToSet(f.options)) = Len(f.options)
    /\ f.type = "rating" => f.scale \in 2..10
    /\ f.identifier => f.pii \in {"email", "phone"}
    /\ FormatFits(f)

\* validateCondition: a known operator, and only options that still exist.
ConditionFits(s, c) ==
    /\ c.op \in Operators
    /\ c.field \in DOMAIN s.fields /\ s.fields[c.field].type \in ChoiceTypes =>
         \A v \in ToSet(c.value) : HasOption(s.fields[c.field], v)

\* validateAction: a field the page of the rule lists, or a page that exists.
ActionFits(s, r, a) ==
    \/ /\ a.do \in {"show", "hide", "require", "optional"}
       /\ a.target \in DOMAIN s.fields
       /\ a.target \in Placed(s) =>
            LET home == CHOOSE i \in DOMAIN s.pages :
                          /\ a.target \in ToSet(s.pages[i].fields)
                          /\ \A j \in 1..i - 1 : a.target \notin ToSet(s.pages[j].fields)
            IN s.pages[home].id = r.on
    \/ a.do = "goto" /\ IsPage(s, a.target)
    \/ a.do = "end"

Actions(r) == ToSet(r.then) \cup ToSet(r.else)

\* Everything Validate looks at before it walks the pages.
StructureErrors(s) ==
    LET listed == FlattenSeq([i \in DOMAIN s.pages |-> s.pages[i].fields]) IN
    {Error("limit_exceeded", None) : x \in {y \in {s} :
        \/ Cardinality(DOMAIN s.fields) > EffectiveLimits(s).fields
        \/ Len(s.rules) > EffectiveLimits(s).rules}}
    \cup {Error("no_identifier", None) : x \in {y \in {s} :
        /\ DOMAIN s.purposes # {}
        /\ \A f \in DOMAIN s.fields : ~s.fields[f].identifier}}
    \cup {Error("duplicate_page", s.pages[i].id) : i \in {j \in DOMAIN s.pages :
        \E k \in 1..j - 1 : s.pages[k].id = s.pages[j].id}}
    \cup {Error("dangling_page", s.pages[i].id) : i \in {j \in DOMAIN s.pages :
        s.pages[j].next # None /\ ~IsPage(s, s.pages[j].next)}}
    \cup {Error("dangling_field", f) : f \in Placed(s) \ DOMAIN s.fields}
    \cup {Error("duplicate_field", listed[i]) : i \in {j \in DOMAIN listed :
        /\ listed[j] \in DOMAIN s.fields
        /\ \E k \in 1..j - 1 : listed[k] = listed[j]}}
    \cup {Error("invalid_field_config", f) : f \in {g \in DOMAIN s.fields :
        ~FieldFits(s.fields[g])}}
    \cup {Error("dangling_rule", s.rules[i].on) : i \in {j \in DOMAIN s.rules :
        LET r == s.rules[j] IN
        \/ ~IsPage(s, r.on)
        \/ r.when.field # None /\ r.when.field \notin DOMAIN s.fields
        \/ ~ConditionFits(s, r.when)
        \/ \E a \in Actions(r) : ~ActionFits(s, r, a)}}

-----------------------------------------------------------------------------
(* walkGraph: a depth-first search from the first page.                    *)

\* The ways on from a page, in the order the search takes them.
Edges(s, id) ==
    LET i == PageOf(s, id)
        onward == IF DefaultNext(s, id) = None THEN <<>> ELSE <<DefaultNext(s, id)>>
        jumps(r) == SelectSeq(r.then \o r.else, LAMBDA a : a.do = "goto")
        rules == SelectSeq(s.rules, LAMBDA r : r.on = id)
        all == FlattenSeq([k \in DOMAIN rules |-> jumps(rules[k])])
    IN onward \o [k \in DOMAIN all |-> all[k].target]

\* The same as a set.
Ways(s, id) ==
    LET jumps(r) == {a.target : a \in {b \in Actions(r) : b.do = "goto"}} IN
    ({DefaultNext(s, id)} \cup
        UNION {jumps(s.rules[i]) : i \in {j \in DOMAIN s.rules : s.rules[j].on = id}}) \ {None}

\* The colours after visiting a page, and the page a back edge led to.
WalkGraph(s) ==
    LET visit[id \in PageIds, colour \in [PageIds -> {"white", "grey", "black"}]] ==
          CASE colour[id] = "grey" -> [colour |-> colour, cycle |-> id]
            [] colour[id] = "black" -> [colour |-> colour, cycle |-> None]
            [] OTHER ->
                 LET on(acc, next) == IF acc.cycle # None THEN acc
                                      ELSE visit[next, acc.colour]
                     end == FoldLeft(on, [colour |-> [colour EXCEPT ![id] = "grey"],
                                          cycle |-> None], Edges(s, id))
                 IN IF end.cycle # None THEN end ELSE [end EXCEPT !.colour[id] = "black"]
    IN visit[s.pages[1].id, [id \in PageIds |-> "white"]]

EverShown(s, f) ==
    \E i \in DOMAIN s.rules : \E a \in Actions(s.rules[i]) : a.do = "show" /\ a.target = f

\* alwaysHidden: a rule that hides in `then', and in `else' unless that is empty.
AlwaysHidden(s, f) ==
    /\ ~EverShown(s, f)
    /\ \E i \in DOMAIN s.rules :
         LET hides(actions) == \E a \in ToSet(actions) : a.do = "hide" /\ a.target = f
         IN hides(s.rules[i].then) /\ (hides(s.rules[i].else) \/ s.rules[i].else = <<>>)

\* Errors found by walking the pages, and the obligations of consent.
GraphErrors(s) ==
    LET walk == WalkGraph(s)
        reached == {id \in PageIds : walk.colour[id] # "white"}
        home(f) == {id \in PageIds : IsPage(s, id) /\ f \in OnPage(s, id)}
    IN {Error("navigation_cycle", walk.cycle) : x \in {walk.cycle} \ {None}}
       \cup {Error("required_but_unreachable", f) : f \in {g \in DOMAIN s.fields \cap Placed(s) :
           /\ s.fields[g].required
           /\ \/ home(g) \cap reached = {}
              \/ s.fields[g].hidden /\ ~EverShown(s, g)
              \/ AlwaysHidden(s, g)}}
       \cup {Error("consent_block_missing", None) : x \in {y \in {s} :
           Personal(s) # {} /\ DOMAIN s.purposes = {}}}
       \cup {Error("sensitive_notice_missing", None) : x \in {y \in {s} :
           Sensitive(s) # {} /\ ~s.notice}}

\* Validate; a draft that has no error may be published.
Errors(s) ==
    IF s.pages = <<>> THEN {Error("empty_schema", None)}
    ELSE IF StructureErrors(s) # {} THEN StructureErrors(s)
    ELSE GraphErrors(s)
Valid(s) == Errors(s) = {}
=============================================================================
