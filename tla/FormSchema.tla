----------------------------- MODULE FormSchema -----------------------------
(***************************************************************************)
(* What a form schema is, what Validate refuses at publishing, and what    *)
(* one page of the form engine decides.  Pure definitions: Forms adds the  *)
(* state.                                                                  *)
(*                                                                         *)
(* A schema is a record                                                    *)
(*   pages    sequence of [id, fields: sequence of ids, next: id or None]  *)
(*   fields   function from field ids to field records                     *)
(*   rules    sequence of [on, when: [op, field, list, value], then, else] *)
(*   purposes function from purpose codes to "required" or "optional"      *)
(*   limits   [fields, rules]: at most so many, 0 for the default          *)
(*   notice   the notice about sensitive data is given                     *)
(* `value' is a sequence of values, a list or, unless `list', one value or *)
(* none; `then' and `else' are sequences of [do, target]; the options of a *)
(* field are a sequence of ids.  Wording (labels, titles, messages) is     *)
(* left out.                                                               *)
(***************************************************************************)
EXTENDS Integers, Sequences, FiniteSets, SequencesExt

CONSTANTS
    PageIds, FieldIds, \* ids a schema may use
    Values,            \* answers, and the values of rules
    Empty, Blank,      \* of Values: the empty string, a string of spaces
    Parts,             \* [Values -> SUBSET Values]: items of a list, text in a text
    Num,               \* [Values -> Int]: how ordering comparisons see a value
    Lists,             \* the values that are lists
    Matches,           \* [Formats -> SUBSET Values]: the texts a format admits
    Dates,             \* the values that are a date
    Listed,            \* a list as the text it is where one value is compared
    MaxFields, MaxRules, \* limits of a schema that sets none
    None

ASSUME BlanksAssumption == {Empty, Blank, Listed} \subseteq Values
ASSUME ComparisonAssumption ==
    /\ Parts \in [Values -> SUBSET Values] /\ Num \in [Values -> Int]
    /\ Lists \subseteq Values
ASSUME NoPageAssumption == None \notin PageIds \cup FieldIds \cup Values

ChoiceTypes == {"choice", "multi_choice", "dropdown"}
Types == ChoiceTypes \cup {"text", "rating", "date", "file"}
Operators == {"eq", "neq", "in", "not_in", "gt", "gte", "lt", "lte", "between",
              "contains", "is_empty", "is_not_empty"}
Formats == {"email", "phone_vn", "tax_code", "national_id", "url", "number", "integer"}
Numeric == {"number", "integer"}

\* Answers: what a request says of each field, None for nothing.
AnswerSets == [FieldIds -> Values \cup {None}]
NoAnswers == [f \in FieldIds |-> None]

-----------------------------------------------------------------------------
(* The schema's own questions.                                             *)

PageOf(s, id) == CHOOSE i \in DOMAIN s.pages : s.pages[i].id = id /\
                     \A j \in 1..i - 1 : s.pages[j].id # id
IsPage(s, id) == \E i \in DOMAIN s.pages : s.pages[i].id = id
OnPage(s, id) == ToSet(s.pages[PageOf(s, id)].fields)
Placed(s) == UNION {ToSet(s.pages[i].fields) : i \in DOMAIN s.pages}
Asked(s) == Placed(s) \cap DOMAIN s.fields

\* IdentifierField: the first placed field that identifies the subject, or None.
Identifier(s) ==
    LET here(i) == SelectSeq(s.pages[i].fields,
                     LAMBDA f : f \in DOMAIN s.fields /\ s.fields[f].identifier)
        with == {i \in DOMAIN s.pages : here(i) # <<>>}
    IN IF with = {} THEN None
       ELSE here(CHOOSE i \in with : \A j \in with : i <= j)[1]

Sensitive(s) == {f \in DOMAIN s.fields : s.fields[f].sensitive}
HasOption(f, v) == v \in ToSet(f.options)
Personal(s) == {f \in DOMAIN s.fields :
    s.fields[f].pii # None \/ s.fields[f].sensitive \/ s.fields[f].identifier}

\* EffectiveLimits: the schema's own, where it sets them.
EffectiveLimits(s) ==
    [fields |-> IF s.limits.fields > 0 THEN s.limits.fields ELSE MaxFields,
     rules |-> IF s.limits.rules > 0 THEN s.limits.rules ELSE MaxRules]

-----------------------------------------------------------------------------
(* The engine.                                                             *)

IsEmptyAnswer(v) == v \in {None, Empty, Blank}

AnswerTo(c, answers) == IF c.field \in FieldIds THEN answers[c.field] ELSE None

\* A comparison with a value that does not have the form its operator needs.
Malformed(c, answers) ==
    /\ ~IsEmptyAnswer(AnswerTo(c, answers))
    /\ c.op = "between" /\ (~c.list \/ Len(c.value) # 2)

\* Nothing is in a value that is not a list.
InList(v, c) == c.list /\ v \in ToSet(c.value)

\* Of a list of choices, or as the text itself.
ContainsValue(v, w) == v = w \/ w \in Parts[v]

ApplyOrder(op, m, n) ==
    \/ op = "gt" /\ m > n
    \/ op = "gte" /\ m >= n
    \/ op = "lt" /\ m < n
    \/ op = "lte" /\ m <= n

\* Nothing is before or after an empty value.
CompareOrder(op, v, w) == w # Empty /\ ApplyOrder(op, Num[v], Num[w])

\* evalCondition: nothing but the emptiness checks holds of a missing answer.
Holds(c, answers) ==
    LET v == AnswerTo(c, answers)
        w == IF c.list THEN Listed ELSE IF c.value = <<>> THEN Empty ELSE c.value[1]
    IN \/ c.op = "is_empty" /\ IsEmptyAnswer(v)
       \/ /\ ~IsEmptyAnswer(v)
          /\ \/ c.op = "is_not_empty"
             \/ c.op = "eq" /\ v = w
             \/ c.op = "neq" /\ v # w
             \/ c.op = "in" /\ InList(v, c)
             \/ c.op = "not_in" /\ ~InList(v, c)
             \/ c.op = "contains" /\ ContainsValue(v, w)
             \/ c.op \in {"gt", "gte", "lt", "lte"} /\ CompareOrder(c.op, v, w)
             \/ /\ c.op = "between" /\ c.list /\ Len(c.value) = 2
                /\ CompareOrder("gte", v, c.value[1]) /\ CompareOrder("lte", v, c.value[2])

Branch(r, answers) == IF Holds(r.when, answers) THEN r.then ELSE r.else

\* A mutant: every rule is evaluated, not only those of the page.
TakenAnywhere(s, id, answers) ==
    UNION {{<<i, j>> : j \in DOMAIN Branch(s.rules[i], answers)} : i \in DOMAIN s.rules}

\* The actions the rules of a page take, by place: later ones override.
Taken(s, id, answers) ==
    UNION {{<<i, j>> : j \in DOMAIN Branch(s.rules[i], answers)} :
           i \in {k \in DOMAIN s.rules : s.rules[k].on = id}}
Act(s, answers, x) == Branch(s.rules[x[1]], answers)[x[2]]
After(x, y) == x[1] > y[1] \/ (x[1] = y[1] /\ x[2] > y[2])

\* The last action of some kinds on some target; a set of at most one.
LastOf(s, id, answers, kinds, targets) ==
    LET of == {x \in Taken(s, id, answers) : /\ Act(s, answers, x).do \in kinds
                                             /\ Act(s, answers, x).target \in targets}
    IN {Act(s, answers, x) : x \in {y \in of : \A z \in of : z = y \/ After(y, z)}}

\* evalPage: the fields shown, those of them required, and the pages next.
Shown(s, id, answers) ==
    {f \in OnPage(s, id) :
       LET last == LastOf(s, id, answers, {"show", "hide"}, {f})
       IN IF last = {} THEN ~s.fields[f].hidden ELSE \E a \in last : a.do = "show"}

Required(s, id, answers) ==
    {f \in Shown(s, id, answers) :
       LET last == LastOf(s, id, answers, {"require", "optional"}, {f})
       IN IF last = {} THEN s.fields[f].required ELSE \E a \in last : a.do = "require"}

\* defaultNext: the page's own, or the one that follows; None is the end.
DefaultNext(s, id) ==
    LET i == PageOf(s, id)
    IN IF s.pages[i].next # None THEN s.pages[i].next
       ELSE IF i < Len(s.pages) THEN s.pages[i + 1].id ELSE None

NextPages(s, id, answers) ==
    LET last == LastOf(s, id, answers, {"goto", "end"}, PageIds \cup {None})
    IN IF last = {} THEN {DefaultNext(s, id)}
       ELSE {IF a.do = "goto" THEN a.target ELSE None : a \in last}

\* A page that lists a field nothing defines, or a rule that cannot be read.
PageFails(s, id, answers) ==
    \/ ~(OnPage(s, id) \subseteq DOMAIN s.fields)
    \/ \E i \in DOMAIN s.rules : s.rules[i].on = id /\ Malformed(s.rules[i].when, answers)
=============================================================================
