--------------------------- MODULE SubmissionGrid ---------------------------
(***************************************************************************)
(* How stored submissions are read under the versions of a form: the       *)
(* columns, one per field and type, and the state of each cell.  `vs' is   *)
(* the sequence of schemas, a version's number is its place; a submission  *)
(* is a record [version, visible, plain, sealed].                          *)
(***************************************************************************)
EXTENDS FormSchema

\* BuildColumnRegistry: the types a field was placed with, by version.
TypedIn(vs, f, t) ==
    {v \in DOMAIN vs : f \in Asked(vs[v]) /\ vs[v].fields[f].type = t}
Variants(vs, f) == {t \in Types : TypedIn(vs, f, t) # {}}
Columns(vs) == {f \in FieldIds : Variants(vs, f) # {}}
ColumnSensitive(vs, f, t) == \E v \in TypedIn(vs, f, t) : vs[v].fields[f].sensitive

\* The column of a field that is written last: columns come in order of first
\* appearance, and the cells of a row are kept by field.
Lowest(S) == CHOOSE x \in S : \A y \in S : x <= y
LastColumn(vs, f) ==
    CHOOSE t \in Variants(vs, f) :
        \A u \in Variants(vs, f) : Lowest(TypedIn(vs, f, u)) <= Lowest(TypedIn(vs, f, t))

\* CellState.
CellState(inSchema, sub, answers, f) ==
    IF ~inSchema THEN "not_asked"
    ELSE IF f \notin sub.visible THEN "hidden"
    ELSE IF answers[f] \in {None, Empty} THEN "blank" ELSE "answered"

\* A mutant: the state is decided against the answers in the clear.
CellInTheClear(vs, sub, f, t, opened) ==
    LET s == vs[sub.version]
    IN CellState(f \in DOMAIN s.fields /\ s.fields[f].type = t, sub, sub.plain, f)

\* Submissions: one cell.  The sealed answers decide only if they were opened:
\* the reader asked to reveal them, the row has a subject, and OpenSensitive
\* did not fail (as it does once the subject's key is gone).
Cell(vs, sub, f, t, opened) ==
    LET s == vs[sub.version]
        asked == /\ f \in DOMAIN s.fields
                 /\ Cardinality(Variants(vs, f)) > 1 => s.fields[f].type = t
        answers == IF asked /\ s.fields[f].sensitive /\ opened /\ sub.sealed # NoAnswers
                   THEN sub.sealed ELSE sub.plain
    IN CellState(asked, sub, answers, f)

\* A row, as the client gets it: one cell per field.
Row(vs, sub, opened) ==
    [f \in Columns(vs) |-> Cell(vs, sub, f, LastColumn(vs, f), opened)]

\* buildCells, for exports: no columns, and sealed answers count as given.
ExportCell(vs, sub, f) ==
    LET state == CellState(TRUE, sub, sub.plain, f)
    IN IF /\ vs[sub.version].fields[f].sensitive
          /\ sub.sealed # NoAnswers /\ state = "blank"
       THEN "answered" ELSE state
ExportRow(vs, sub) ==
    [f \in DOMAIN vs[sub.version].fields |-> ExportCell(vs, sub, f)]

-----------------------------------------------------------------------------
(* Diff: the changes that are breaking.                                    *)

BreakingOptions(o, n) ==
    o.type \in ChoiceTypes /\ n.type \in ChoiceTypes /\ ~(ToSet(o.options) \subseteq ToSet(n.options))

\* A mutant: a change of type is not looked at.
BreakingUntyped(old, draft) == ~(DOMAIN old.fields \subseteq DOMAIN draft.fields)

Breaking(old, draft) ==
    \/ ~(DOMAIN old.fields \subseteq DOMAIN draft.fields)
    \/ \E f \in DOMAIN old.fields \cap DOMAIN draft.fields :
         LET o == old.fields[f]  n == draft.fields[f] IN
         \/ o.type # n.type
         \/ ~o.required /\ n.required
         \/ ~o.sensitive /\ n.sensitive
         \/ BreakingOptions(o, n)
    \/ \E f \in DOMAIN draft.fields \ DOMAIN old.fields : draft.fields[f].required
    \/ Sensitive(old) = {} /\ Sensitive(draft) # {}
=============================================================================
