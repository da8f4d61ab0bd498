------------------------------ MODULE MCForms -------------------------------
(* A small instance of Forms: schemas of up to three pages around a choice. *)
EXTENDS Forms, TLC

MCValues == {"", " ", "a", "b", "a+b", "[a]", "5"}
MCParts == [v \in MCValues |-> IF v = "a+b" THEN {"a", "b"} ELSE {""}]
MCNum == [v \in MCValues |-> IF v = "5" THEN 5 ELSE 0]
MCMatches == [f \in Formats |-> IF f \in Numeric THEN {"5"} ELSE {"a", "b"}]

Text == [type |-> "text", required |-> FALSE, hidden |-> FALSE, sensitive |-> FALSE,
         identifier |-> FALSE, pii |-> None, options |-> <<>>, scale |-> 0, maxMB |-> 0,
         format |-> None, multiline |-> FALSE, min |-> None, max |-> None]
Who == [Text EXCEPT !.identifier = TRUE, !.pii = "email", !.required = TRUE, !.sensitive = TRUE]
Choice == [Text EXCEPT !.type = "choice", !.options = <<"a", "b">>]
More == [Text EXCEPT !.required = TRUE, !.hidden = TRUE]

On(f, op, v) == [field |-> f, op |-> op, list |-> Len(v) > 1, value |-> v]
Among(f, op, v) == [field |-> f, op |-> op, list |-> TRUE, value |-> v]
Do(what, target) == [do |-> what, target |-> target]
Rule(id, when, then, else) == [on |-> id, when |-> when, then |-> then, else |-> else]
Page(id, fields, next) == [id |-> id, fields |-> fields, next |-> next]

\* The identifier and a choice on the first page, a text on the second, none
\* on the third.
Form(choice, more, next1, next2, rules) ==
    [pages |-> <<Page("p1", <<"who", "pick">>, next1), Page("p2", <<"more">>, next2),
                 Page("p3", <<>>, None)>>,
     fields |-> [f \in {"who", "pick", "more"} |->
                  CASE f = "who" -> Who [] f = "pick" -> choice [] OTHER -> more],
     rules |-> rules, purposes |-> [u \in {"contact"} |-> "required"], notice |-> TRUE,
     limits |-> [fields |-> 0, rules |-> 0]]

Plain == Form(Choice, Text, None, None, <<>>)

\* Where a rule leads when "a" is picked, and what it does to the text.
Jumps == {<<Do("goto", id)>> : id \in {"p1", "p3", "p9"}} \cup {<<Do("end", None)>>, <<>>}
Shows == {<<Do(d, "more")>> : d \in {"show", "hide", "require", "optional"}} \cup {<<>>}
PickA == On("pick", "eq", <<"a">>)

Branching ==
    {Form(Choice, Text, n1, n2, <<Rule("p1", PickA, j, <<>>), Rule("p2", PickA, k, <<>>)>>) :
        n1 \in {None, "p3"}, n2 \in {None, "p1", "p9"}, j \in Jumps, k \in Jumps}
Asking ==
    {Form(Choice, m, None, None, <<Rule("p2", c, t, e)>>) :
        c \in {PickA, On("pick", "is_empty", <<>>), On("pick", "between", <<"a">>),
               On("pick", "not_in", <<"a">>), Among("pick", "not_in", <<"a">>)},
        m \in {Text, More}, t \in Shows, e \in Shows}

\* Edits of the choice: another type, sealed; one more option.
Edited == {[Plain EXCEPT !.fields.pick = x] : x \in {
    [Text EXCEPT !.sensitive = TRUE], [Choice EXCEPT !.options = <<"a", "b", "5">>]}}

\* A plain form is edited; the others are published as they are.
MCSchemas == {Plain} \cup Edited \cup Branching \cup Asking
MCSymmetry == Permutations(Editors)
MCEdits == {Plain} \cup Edited
MCReplies == {[NoAnswers EXCEPT !["who"] = "a", !["pick"] = x[1], !["more"] = x[2]] :
    x \in {<<None, None>>, <<"a", None>>, <<"b", "a">>}}

\* The search finds the cycles of all these schemas: what NoWayBack assumes.
ASSUME SearchesAreSound
=============================================================================
