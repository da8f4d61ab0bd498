---------------------------- MODULE FormsProofs ----------------------------
(***************************************************************************)
(* Proofs about Forms, for any schemas, editors and visitors: the version  *)
(* published last is the live one, what Validate accepted strands no       *)
(* visitor, and answers read as they were given under every later version  *)
(* that is not a breaking one.                                             *)
(*                                                                         *)
(* Then proofs about FileLifecycle, the attachments of submissions, for    *)
(* any number of uploads and submissions: no bytes are left that no row    *)
(* leads to, and a stored submission keeps the attachments that it did not *)
(* take from under the sweeper.                                            *)
(***************************************************************************)
EXTENDS Forms, FileLifecycle, TLAPS

\* What Validate accepted: the pages are told apart by their ids, they lead to
\* pages, every field is one the code knows, and a jump names a page.
LEMMA WhatIsValid ==
    ASSUME NEW s, Valid(s)
    PROVE  /\ s.pages # <<>>
           /\ \A i \in DOMAIN s.pages : \A k \in 1..i - 1 : s.pages[k].id # s.pages[i].id
           /\ \A i \in DOMAIN s.pages : s.pages[i].next # None => IsPage(s, s.pages[i].next)
           /\ \A f \in DOMAIN s.fields : FieldFits(s.fields[f])
           /\ \A i \in DOMAIN s.rules : \A a \in Actions(s.rules[i]) :
                ActionFits(s, s.rules[i], a)
<1>1. s.pages # <<>> /\ StructureErrors(s) = {}
  BY DEF Valid, Errors
<1>2. /\ {Error("duplicate_page", s.pages[i].id) : i \in {j \in DOMAIN s.pages :
            \E k \in 1..j - 1 : s.pages[k].id = s.pages[j].id}} = {}
      /\ {Error("dangling_page", s.pages[i].id) : i \in {j \in DOMAIN s.pages :
            s.pages[j].next # None /\ ~IsPage(s, s.pages[j].next)}} = {}
      /\ {Error("invalid_field_config", f) : f \in {g \in DOMAIN s.fields :
            ~FieldFits(s.fields[g])}} = {}
      /\ {Error("dangling_rule", s.rules[i].on) : i \in {j \in DOMAIN s.rules :
            LET r == s.rules[j] IN
            \/ ~IsPage(s, r.on)
            \/ r.when.field # None /\ r.when.field \notin DOMAIN s.fields
            \/ ~ConditionFits(s, r.when)
            \/ \E a \in Actions(r) : ~ActionFits(s, r, a)}} = {}
  BY <1>1, Zenon DEF StructureErrors
<1> QED BY <1>1, <1>2

\* A schema that forms are made of: its pages, its fields.
LEMMA SchemaType ==
    ASSUME NEW s \in Schemas
    PROVE  /\ s # None /\ DOMAIN s.fields \subseteq FieldIds
           /\ s.pages \in Seq([id : PageIds, fields : Seq(FieldIds), next : PageIds \cup {None}])
           /\ DOMAIN s.pages = 1..Len(s.pages) /\ Len(s.pages) \in Nat
           /\ \A i \in DOMAIN s.pages : s.pages[i].id \in PageIds
<1> DEFINE P == [id : PageIds, fields : Seq(FieldIds), next : PageIds \cup {None}]
<1>1. s # None /\ DOMAIN s.fields \subseteq FieldIds /\ s.pages \in Seq(P)
  BY SchemasAssumption
<1>2. \A x \in P : x.id \in PageIds
  OBVIOUS
<1> HIDE DEF P
<1>3. /\ DOMAIN s.pages = 1..Len(s.pages) /\ Len(s.pages) \in Nat
      /\ \A i \in DOMAIN s.pages : s.pages[i] \in P
  BY <1>1
<1> QED BY <1>1, <1>2, <1>3 DEF P

\* The page of an id, in a schema that was published.
LEMMA PageOfIs ==
    ASSUME NEW s \in Schemas, Valid(s), NEW id, IsPage(s, id)
    PROVE  /\ PageOf(s, id) \in DOMAIN s.pages /\ s.pages[PageOf(s, id)].id = id
           /\ id \in PageIds /\ OnPage(s, id) \subseteq Placed(s)
<1>1. PICK i \in DOMAIN s.pages : s.pages[i].id = id
  BY DEF IsPage
<1>2. \A j \in 1..i - 1 : s.pages[j].id # id
  BY <1>1, WhatIsValid
<1>3. PageOf(s, id) \in DOMAIN s.pages /\ s.pages[PageOf(s, id)].id = id
  BY <1>1, <1>2 DEF PageOf
<1>4. id \in PageIds
  BY <1>1, SchemaType
<1> QED BY <1>3, <1>4 DEF OnPage, Placed

\* The ways on that the search follows are the pages a visitor may be led to.
LEMMA NextPagesType ==
    ASSUME NEW s \in Schemas, Valid(s), NEW id, IsPage(s, id), NEW answers,
           NEW next \in NextPages(s, id, answers), next # None
    PROVE  IsPage(s, next) /\ next \in Ways(s, id)
<1> DEFINE last == LastOf(s, id, answers, {"goto", "end"}, PageIds \cup {None})
<1>1. CASE last = {}
  <2>1. next = DefaultNext(s, id)
    BY <1>1 DEF NextPages
  <2> DEFINE i == PageOf(s, id)
  <2>2. i \in DOMAIN s.pages
    BY PageOfIs
  <2> HIDE DEF i
  <2>3. CASE s.pages[i].next # None
    <3>1. next = s.pages[i].next
      BY <2>1, <2>3 DEF DefaultNext, i
    <3> QED BY <2>1, <2>2, <2>3, <3>1, WhatIsValid DEF Ways
  <2>4. CASE ~(s.pages[i].next # None)
    <3>1. i < Len(s.pages) /\ next = s.pages[i + 1].id
      BY <2>1, <2>4 DEF DefaultNext, i
    <3>2. i + 1 \in DOMAIN s.pages
      BY <2>2, <3>1, SchemaType
    <3> QED BY <2>1, <3>1, <3>2 DEF Ways, IsPage
  <2> QED BY <2>3, <2>4
<1>2. CASE last # {}
  <2>1. PICK a \in last : next = IF a.do = "goto" THEN a.target ELSE None
    BY <1>2 DEF NextPages
  <2>2. a.do = "goto" /\ next = a.target
    BY <2>1
  <2>3. PICK x \in Taken(s, id, answers) : a = Act(s, answers, x)
    BY <2>1 DEF LastOf
  <2>4. PICK i \in DOMAIN s.rules : s.rules[i].on = id /\ a \in Actions(s.rules[i])
    <3>1. PICK i \in DOMAIN s.rules : /\ s.rules[i].on = id
                                      /\ x \in {<<i, j>> : j \in DOMAIN Branch(s.rules[i], answers)}
      BY <2>3 DEF Taken
    <3>2. PICK j \in DOMAIN Branch(s.rules[i], answers) : x = <<i, j>>
      BY <3>1
    <3>3. a = Branch(s.rules[i], answers)[j]
      BY <2>3, <3>2 DEF Act
    <3>4. a \in Actions(s.rules[i])
      BY <3>2, <3>3 DEF Branch, Actions, ToSet
    <3> QED BY <3>1, <3>4
  <2>5. ActionFits(s, s.rules[i], a)
    BY <2>4, WhatIsValid
  <2> QED BY <2>2, <2>4, <2>5 DEF ActionFits, Ways
<1> QED BY <1>1, <1>2

\* A page that can be read shows fields that are placed and defined.
LEMMA ShownIsAsked ==
    ASSUME NEW s \in Schemas, Valid(s), NEW id, IsPage(s, id), NEW answers,
           ~PageFails(s, id, answers)
    PROVE  /\ Shown(s, id, answers) \subseteq Asked(s)
           /\ Required(s, id, answers) \subseteq Shown(s, id, answers)
<1>1. OnPage(s, id) \subseteq DOMAIN s.fields /\ OnPage(s, id) \subseteq Placed(s)
  BY PageOfIs DEF PageFails
<1> QED BY <1>1 DEF Shown, Required, Asked

-----------------------------------------------------------------------------
(* The inductive invariant of a form.                                      *)

Accepted == {s \in Schemas : Valid(s)}

\* What is published was accepted, is numbered without gaps, and the last is live.
Published ==
    /\ form \in [draft : Schemas \cup {None}, live : Nat]
    /\ versions \in Seq(Accepted)
    /\ form.live = Len(versions)
    /\ form.draft # None \/ versions # <<>>
    /\ retired \subseteq DOMAIN versions
    /\ doc \in Nat

Submissions ==
    [version : Nat, visible : SUBSET FieldIds,
     plain : [FieldIds -> Values \cup {None}], sealed : [FieldIds -> Values \cup {None}]]

WalkCalls ==
    [at : {"walk", "check", "store"}, version : Nat, doc : Nat, answers : Replies,
     agreed : SUBSET Purposes, page : PageIds, seen : SUBSET PageIds,
     visible : SUBSET FieldIds, required : SUBSET FieldIds]

\* A request carries a schema that was accepted, or the version it fills in and
\* what that version asks.
CallFits(vs, c) ==
    /\ c.at \in {"idle", "number", "commit", "filling", "walk", "check", "store"}
    /\ c.at \in {"number", "commit"} => c.schema \in Schemas /\ Valid(c.schema)
    /\ c.at = "filling" => c.version \in DOMAIN vs /\ c.doc \in Nat
    /\ c.at \in {"walk", "check", "store"} =>
         /\ c \in WalkCalls
         /\ c.version \in DOMAIN vs
         /\ c.required \subseteq c.visible /\ c.visible \subseteq Asked(vs[c.version])

CallsFit ==
    /\ call = [p \in Procs |-> call[p]]
    /\ \A p \in Procs : CallFits(versions, call[p])

\* A stored answer was asked, and is sealed exactly when the field is sensitive.
SubFits(vs, sub) ==
    /\ sub.version \in DOMAIN vs
    /\ sub.visible \subseteq Asked(vs[sub.version])
    /\ \A f \in FieldIds :
         /\ sub.plain[f] # None => f \in sub.visible /\ f \notin Sensitive(vs[sub.version])
         /\ sub.sealed[f] # None => f \in sub.visible /\ f \in Sensitive(vs[sub.version])

SubsFit == subs \in Seq({sub \in Submissions : SubFits(versions, sub)})

FormsInv == Published /\ CallsFit /\ SubsFit

-----------------------------------------------------------------------------
(* Each part of the invariant, step by step.                               *)

\* Every version was accepted.
LEMMA VersionsAccepted ==
    ASSUME Published
    PROVE  \A v \in DOMAIN versions : versions[v] \in Schemas /\ Valid(versions[v])
<1>1. versions \in Seq(Accepted)
  BY DEF Published
<1>2. \A v \in DOMAIN versions : versions[v] \in Accepted
  BY <1>1
<1> QED BY <1>2 DEF Accepted

\* A version that is published stays as it is.
LEMMA VersionsGrow ==
    ASSUME Published, CallsFit, [FormsNext]_formsVars
    PROVE  /\ versions' \in Seq(Accepted)
           /\ DOMAIN versions \subseteq DOMAIN versions'
           /\ \A v \in DOMAIN versions : versions'[v] = versions[v] /\ versions[v] \in Schemas
                                         /\ Valid(versions[v])
<1>1. versions \in Seq(Accepted)
  BY DEF Published
<1>2. \A s \in Accepted : s \in Schemas /\ Valid(s)
  BY DEF Accepted
<1>3. ASSUME NEW p \in Editors, PublishCommit(p)
      PROVE  versions' = versions \/ \E s \in Accepted : versions' = Append(versions, s)
  <2>1. CallFits(versions, call[p]) /\ call[p].at = "commit"
    BY <1>3 DEF CallsFit, Procs, PublishCommit
  <2>2. call[p].schema \in Accepted
    BY <2>1 DEF CallFits, Accepted
  <2> QED BY <1>3, <2>2 DEF PublishCommit
<1>4. versions' = versions \/ \E s \in Accepted : versions' = Append(versions, s)
  BY <1>3 DEF FormsNext, SaveDraft, PublishRead, PublishNumber, Retire, NewDocument, Open, Leave,
     Send, WalkFails, Walk, Check, Store, formsVars
<1>5. CASE versions' = versions
  BY <1>1, <1>2, <1>5
<1>6. ASSUME NEW s \in Accepted, versions' = Append(versions, s)
      PROVE  /\ versions' \in Seq(Accepted) /\ DOMAIN versions \subseteq DOMAIN versions'
             /\ \A v \in DOMAIN versions : versions'[v] = versions[v]
  BY <1>1, <1>6
<1> QED BY <1>1, <1>2, <1>4, <1>5, <1>6

\* The last version to be published is the live one, after every step.
LEMMA PublishedStep ==
    ASSUME Published, CallsFit, [FormsNext]_formsVars
    PROVE  Published'
<1>0. versions' \in Seq(Accepted)
  BY VersionsGrow
<1>1. ASSUME NEW s \in Edits, SaveDraft(s) PROVE Published'
  <2>1. s \in Schemas /\ s # None
    BY EditsAssumption, SchemasAssumption
  <2> QED BY <1>1, <2>1 DEF SaveDraft, Published
<1>2. ASSUME NEW p \in Editors, PublishCommit(p) PROVE Published'
  <2>1. CASE call[p].no = Len(versions) + 1
    <3>1. /\ versions' = Append(versions, call[p].schema)
          /\ form' = [draft |-> None, live |-> Len(versions) + 1]
      BY <1>2, <2>1 DEF PublishCommit
    <3>2. Len(versions) \in Nat /\ Len(versions') = Len(versions) + 1 /\ versions' # <<>>
          /\ DOMAIN versions \subseteq DOMAIN versions'
      BY <3>1, VersionsGrow DEF Published
    <3> QED BY <1>0, <1>2, <3>1, <3>2 DEF PublishCommit, Published
  <2>2. CASE call[p].no # Len(versions) + 1
    BY <1>2, <2>2 DEF PublishCommit, Published
  <2> QED BY <2>1, <2>2
<1>3. CASE Retire
  <2>1. form.live \in DOMAIN versions
    BY <1>3 DEF Retire, Published
  <2> QED BY <1>3, <2>1 DEF Retire, Published
<1>4. CASE NewDocument
  BY <1>4 DEF NewDocument, Published
<1>5. ASSUME UNCHANGED <<form, versions, retired, doc>> PROVE Published'
  BY <1>5 DEF Published
<1>6. ASSUME \/ \E p \in Editors : PublishRead(p) \/ PublishNumber(p)
             \/ \E p \in Visitors :
                  \/ Open(p) \/ Leave(p)
                  \/ \E answers \in Replies, agreed \in SUBSET Purposes, named \in BOOLEAN :
                        Send(p, answers, agreed, named)
                  \/ WalkFails(p) \/ Walk(p) \/ Check(p) \/ Store(p)
             \/ UNCHANGED formsVars
      PROVE  UNCHANGED <<form, versions, retired, doc>>
  BY <1>6 DEF PublishRead, PublishNumber, Open, Leave, Send, WalkFails, Walk, Check, Store,
     formsVars
<1> QED BY <1>1, <1>2, <1>3, <1>4, <1>5, <1>6 DEF FormsNext

\* A request that no step is about stays what it was.
LEMMA CallStays ==
    ASSUME Published, CallsFit, [FormsNext]_formsVars, NEW p \in Procs, call'[p] = call[p]
    PROVE  CallFits(versions', call'[p])
<1>1. CallFits(versions, call[p])
  BY DEF CallsFit
<1> QED BY <1>1, VersionsGrow DEF CallFits

\* One request moves on, and fits.
LEMMA GotoFits ==
    ASSUME Published, CallsFit, [FormsNext]_formsVars, NEW p \in Procs, NEW c,
           Goto(p, c), CallFits(versions', c)
    PROVE  CallsFit'
<1>1. call = [q \in Procs |-> call[q]]
  BY DEF CallsFit
<1>2. call' = [call EXCEPT ![p] = c]
  BY DEF Goto
<1>3. call'[p] = c /\ \A q \in Procs \ {p} : call'[q] = call[q]
  BY <1>1, <1>2
<1>4. ASSUME NEW q \in Procs PROVE CallFits(versions', call'[q])
  <2>1. CASE q = p
    BY <1>3, <2>1 DEF CallFits
  <2>2. CASE q # p
    BY <1>3, <2>2, CallStays
  <2> QED BY <2>1, <2>2
<1>5. call' = [q \in Procs |-> call'[q]]
  BY <1>1, <1>2
<1> QED BY <1>4, <1>5 DEF CallsFit

\* What a visit asks for is in the schema of its version, which was accepted.
LEMMA WalkFields ==
    ASSUME Published, CallsFit, NEW p \in Visitors, call[p].at \in {"walk", "check", "store"}
    PROVE  /\ call[p] \in WalkCalls /\ call[p].version \in DOMAIN versions
           /\ Schema(p) \in Schemas /\ Valid(Schema(p))
           /\ call[p].required \subseteq call[p].visible
           /\ call[p].visible \subseteq Asked(Schema(p))
<1>1. p \in Procs
  BY DEF Procs
<1>2. CallFits(versions, call[p])
  BY <1>1 DEF CallsFit
<1>3. \A v \in DOMAIN versions : versions[v] \in Schemas /\ Valid(versions[v])
  BY VersionsAccepted
<1> QED BY <1>2, <1>3 DEF CallFits, Schema

\* Walking a page leaves a visit of the same version with more that is shown.
LEMMA WalkFits ==
    ASSUME Published, CallsFit, [FormsNext]_formsVars, NEW p \in Visitors, Walk(p)
    PROVE  CallsFit'
<1> DEFINE s == Schema(p)
           c == call[p]
<1>1. PICK next \in NextPages(s, c.page, c.answers) :
        Goto(p, [c EXCEPT
             !.at = IF next = None THEN "check" ELSE "walk",
             !.page = IF next = None THEN @ ELSE next,
             !.seen = @ \cup {c.page},
             !.visible = @ \cup Shown(s, c.page, c.answers),
             !.required = @ \cup Required(s, c.page, c.answers)])
  BY DEF Walk
<1>2. /\ c \in WalkCalls /\ c.version \in DOMAIN versions /\ s \in Schemas /\ Valid(s)
      /\ c.required \subseteq c.visible /\ c.visible \subseteq Asked(s)
  BY WalkFields DEF Walk
<1>3. IsPage(s, c.page) /\ ~PageFails(s, c.page, c.answers)
  BY DEF Walk, NavigationFails
<1>4. PICK d : d = [c EXCEPT
             !.at = IF next = None THEN "check" ELSE "walk",
             !.page = IF next = None THEN @ ELSE next,
             !.seen = @ \cup {c.page},
             !.visible = @ \cup Shown(s, c.page, c.answers),
             !.required = @ \cup Required(s, c.page, c.answers)]
  OBVIOUS
<1>5. /\ Shown(s, c.page, c.answers) \subseteq Asked(s)
      /\ Required(s, c.page, c.answers) \subseteq Shown(s, c.page, c.answers)
      /\ Asked(s) \subseteq FieldIds
  BY <1>2, <1>3, ShownIsAsked, SchemaType DEF Asked
<1>6. next # None => next \in PageIds
  BY <1>1, <1>2, <1>3, NextPagesType, PageOfIs
<1>7. s = versions[c.version]
  BY DEF Schema
<1> HIDE DEF s, c
<1>8. /\ d.at \in {"walk", "check"} /\ d.version = c.version
      /\ d.required = c.required \cup Required(s, c.page, c.answers)
      /\ d.visible = c.visible \cup Shown(s, c.page, c.answers)
  BY <1>2, <1>4 DEF WalkCalls
<1>9. d \in WalkCalls
  BY <1>2, <1>4, <1>5, <1>6 DEF WalkCalls
<1>10. /\ c.version \in DOMAIN versions' /\ versions'[c.version] = s
  BY <1>2, <1>7, VersionsGrow
<1>11. CallFits(versions', d)
  BY <1>2, <1>5, <1>8, <1>9, <1>10 DEF CallFits
<1>12. p \in Procs /\ Goto(p, d)
  BY <1>1, <1>4 DEF Procs, c
<1> QED BY <1>11, <1>12, GotoFits

\* Every request fits, after every step.
LEMMA CallsFitStep ==
    ASSUME Published, CallsFit, [FormsNext]_formsVars
    PROVE  CallsFit'
<1>1. CallFits(versions', Idle)
  BY DEF CallFits, Idle
<1>2. ASSUME NEW p \in Procs, Goto(p, Idle) PROVE CallsFit'
  BY <1>1, <1>2, GotoFits
<1>3. ASSUME NEW p \in Editors, PublishRead(p) PROVE CallsFit'
  <2>1. CASE Goto(p, Idle)
    BY <1>2, <2>1 DEF Procs
  <2>2. CASE Valid(form.draft) /\ Goto(p, [at |-> "number", schema |-> form.draft])
    <3>1. form.draft \in Schemas
      BY <1>3 DEF PublishRead, HasDraft, Published
    <3>2. PICK c : c = [at |-> "number", schema |-> form.draft]
      OBVIOUS
    <3>3. CallFits(versions', c)
      BY <2>2, <3>1, <3>2 DEF CallFits
    <3> QED BY <2>2, <3>2, <3>3, GotoFits DEF Procs
  <2> QED BY <1>3, <2>1, <2>2 DEF PublishRead
<1>4. ASSUME NEW p \in Editors, PublishNumber(p) PROVE CallsFit'
  <2>1. CallFits(versions, call[p]) /\ p \in Procs
    BY DEF CallsFit, Procs
  <2>2. PICK c : c = [at |-> "commit", schema |-> call[p].schema, no |-> Len(versions) + 1]
    OBVIOUS
  <2>3. CallFits(versions', c)
    BY <1>4, <2>1, <2>2 DEF CallFits, PublishNumber
  <2> QED BY <1>4, <2>1, <2>2, <2>3, GotoFits DEF PublishNumber
<1>5. ASSUME NEW p \in Visitors, Open(p) PROVE CallsFit'
  <2>1. Live \in DOMAIN versions /\ Live \in DOMAIN versions'
    BY <1>5, VersionsGrow DEF Open, Live, Published
  <2>2. PICK c : c = [at |-> "filling", version |-> Live,
                      doc |-> IF DOMAIN versions[Live].purposes # {} THEN doc ELSE 0]
    OBVIOUS
  <2>3. CallFits(versions', c)
    BY <2>1, <2>2 DEF CallFits, Published
  <2> QED BY <1>5, <2>2, <2>3, GotoFits DEF Open, Procs
<1>6. ASSUME NEW p \in Visitors, NEW answers \in Replies, NEW agreed \in SUBSET Purposes,
             NEW named \in BOOLEAN, Send(p, answers, agreed, named)
      PROVE  CallsFit'
  <2>0. p \in Procs /\ CallFits(versions, call[p])
    BY DEF CallsFit, Procs
  <2>1. CASE Goto(p, Idle)
    BY <1>2, <2>0, <2>1
  <2> DEFINE d == [at |-> "walk", version |-> Live, doc |-> call[p].doc,
                   answers |-> answers, agreed |-> agreed,
                   page |-> versions[Live].pages[1].id,
                   seen |-> {}, visible |-> {}, required |-> {}]
  <2>2. CASE Live # 0 /\ Goto(p, d)
    <3>1. Live \in DOMAIN versions /\ Live \in Nat /\ call[p].doc \in Nat
      BY <1>6, <2>0, <2>2 DEF Send, Live, CallFits, Published
    <3>2. versions[Live].pages[1].id \in PageIds /\ Live \in DOMAIN versions'
      <4>1. versions[Live] \in Schemas /\ Valid(versions[Live]) /\ Live \in DOMAIN versions'
        BY <3>1, VersionsGrow
      <4>2. versions[Live].pages # <<>> /\ 1 \in DOMAIN versions[Live].pages
        BY <4>1, WhatIsValid, SchemaType
      <4> QED BY <4>1, <4>2, SchemaType
    <3>3. PICK c : c = d
      OBVIOUS
    <3>4. c \in WalkCalls
      BY <3>1, <3>2, <3>3 DEF WalkCalls
    <3>5. CallFits(versions', c)
      BY <3>2, <3>3, <3>4 DEF CallFits
    <3> QED BY <2>0, <2>2, <3>3, <3>5, GotoFits
  <2> QED BY <1>6, <2>1, <2>2 DEF Send
<1>7. ASSUME NEW p \in Visitors, Check(p) PROVE CallsFit'
  <2>1. CASE Goto(p, Idle)
    BY <1>2, <2>1 DEF Procs
  <2>2. CASE Goto(p, [call[p] EXCEPT !.at = "store"])
    <3>1. PICK c : c = [call[p] EXCEPT !.at = "store"]
      OBVIOUS
    <3>2. CallFits(versions, call[p]) /\ call[p].at = "check"
      BY <1>7 DEF CallsFit, Procs, Check
    <3>3. c \in WalkCalls /\ c.at = "store" /\ c.version = call[p].version
          /\ c.required = call[p].required /\ c.visible = call[p].visible
      BY <3>1, <3>2 DEF CallFits, WalkCalls
    <3>4. CallFits(versions', c)
      BY <3>2, <3>3, VersionsGrow DEF CallFits
    <3> QED BY <2>2, <3>1, <3>4, GotoFits DEF Procs
  <2> QED BY <1>7, <2>1, <2>2 DEF Check
<1>8. ASSUME NEW p \in Procs, PublishCommit(p) \/ Leave(p) \/ WalkFails(p) \/ Store(p)
      PROVE  CallsFit'
  BY <1>2, <1>8 DEF PublishCommit, Leave, WalkFails, Store
<1>9. ASSUME call' = call PROVE CallsFit'
  BY <1>9, CallStays DEF CallsFit
<1>10. ASSUME (\E s \in Edits : SaveDraft(s)) \/ Retire \/ NewDocument \/ UNCHANGED formsVars
       PROVE  call' = call
  BY <1>10 DEF SaveDraft, Retire, NewDocument, formsVars
<1> QED BY <1>3, <1>4, <1>5, <1>6, <1>7, <1>8, <1>9, <1>10, WalkFits DEF FormsNext, Procs

\* What is stored of a visit was asked, and what is sensitive is sealed.
LEMMA SubmissionFits ==
    ASSUME Published, CallsFit, NEW p \in Visitors, call[p].at = "store"
    PROVE  /\ Submission(Schema(p), call[p]) \in Submissions
           /\ SubFits(versions, Submission(Schema(p), call[p]))
<1> DEFINE s == Schema(p)
           c == call[p]
           sub == Submission(s, c)
<1>1. /\ c \in WalkCalls /\ c.version \in DOMAIN versions /\ c.visible \subseteq Asked(s)
      /\ s = versions[c.version]
  BY WalkFields DEF Schema
<1>2. /\ c.answers \in [FieldIds -> Values \cup {None}]
      /\ c.visible \subseteq FieldIds /\ c.version \in Nat
  BY <1>1, RepliesAssumption DEF WalkCalls, AnswerSets
<1> HIDE DEF s, c
<1>3. /\ sub.version = c.version /\ sub.visible = c.visible
      /\ sub.plain = Split(s, Kept(c), FALSE) /\ sub.sealed = Split(s, Kept(c), TRUE)
      /\ sub = [version |-> sub.version, visible |-> sub.visible,
                plain |-> sub.plain, sealed |-> sub.sealed]
  BY DEF Submission
<1>4. /\ Kept(c) \in [FieldIds -> Values \cup {None}]
      /\ \A f \in FieldIds : Kept(c)[f] # None => f \in c.visible
  BY <1>2 DEF Kept
<1> HIDE DEF sub
<1>5. ASSUME NEW f \in FieldIds
      PROVE  /\ sub.plain[f] = IF f \in Sensitive(s) THEN None ELSE Kept(c)[f]
             /\ sub.sealed[f] = IF f \in Sensitive(s) THEN Kept(c)[f] ELSE None
  BY <1>3 DEF Split
<1>6. /\ sub.plain \in [FieldIds -> Values \cup {None}]
      /\ sub.sealed \in [FieldIds -> Values \cup {None}]
  <2>1. /\ sub.plain = [f \in FieldIds |-> sub.plain[f]]
        /\ sub.sealed = [f \in FieldIds |-> sub.sealed[f]]
    BY <1>3 DEF Split
  <2>2. \A f \in FieldIds : /\ sub.plain[f] \in Values \cup {None}
                            /\ sub.sealed[f] \in Values \cup {None}
    BY <1>4, <1>5
  <2> QED BY <2>1, <2>2
<1>7. sub \in Submissions
  BY <1>2, <1>3, <1>6 DEF Submissions
<1>8. SubFits(versions, sub)
  BY <1>1, <1>3, <1>4, <1>5 DEF SubFits
<1> QED BY <1>7, <1>8 DEF sub, s, c

\* What is stored stays, and stays what its version asked.
LEMMA SubsFitStep ==
    ASSUME Published, CallsFit, SubsFit, [FormsNext]_formsVars
    PROVE  SubsFit'
<1> DEFINE A == {sub \in Submissions : SubFits(versions, sub)}
           B == {sub \in Submissions : SubFits(versions', sub)}
<1>1. subs \in Seq(A) /\ A \subseteq B
  <2>1. \A sub \in A : SubFits(versions', sub)
    BY VersionsGrow DEF SubFits
  <2> QED BY <2>1 DEF SubsFit
<1>2. ASSUME NEW p \in Visitors, Store(p) PROVE \E sub \in A : subs' = Append(subs, sub)
  BY <1>2, SubmissionFits DEF Store
<1>3. subs' = subs \/ \E sub \in A : subs' = Append(subs, sub)
  BY <1>2 DEF FormsNext, SaveDraft, PublishRead, PublishNumber, PublishCommit, Retire, NewDocument,
     Open, Leave, Send, WalkFails, Walk, Check, formsVars
<1> HIDE DEF A, B
<1>4. subs' \in Seq(B)
  BY <1>1, <1>3
<1> QED BY <1>4 DEF SubsFit, B

-----------------------------------------------------------------------------
(* What a reader of the rows sees.                                         *)

\* A field that was asked has a type the code knows.
LEMMA AskedHasType ==
    ASSUME NEW s \in Schemas, Valid(s), NEW f \in Asked(s)
    PROVE  s.fields[f].type \in Types /\ f \in FieldIds /\ f \in DOMAIN s.fields
BY WhatIsValid, SchemaType DEF FieldFits, Asked

\* An answer that was given reads as given.
LEMMA ReadsAsGiven ==
    ASSUME Published, SubsFit, NEW i \in DOMAIN subs, NEW f \in FieldIds,
           {subs[i].plain[f], subs[i].sealed[f]} \ {None, Empty} # {}
    PROVE  /\ f \in subs[i].visible
           /\ Cardinality(Variants(versions, f)) = 1 =>
                \A opened \in BOOLEAN :
                  Row(versions, subs[i], opened)[f] =
                    IF subs[i].plain[f] \in {None, Empty} /\ ~opened THEN "blank" ELSE "answered"
           /\ ExportRow(versions, subs[i])[f] = "answered"
<1> DEFINE sub == subs[i]
           s == versions[sub.version]
<1>1. sub \in Submissions /\ SubFits(versions, sub)
  <2> DEFINE A == {x \in Submissions : SubFits(versions, x)}
  <2>1. subs \in Seq(A)
    BY DEF SubsFit
  <2>2. \A x \in A : x \in Submissions /\ SubFits(versions, x)
    OBVIOUS
  <2> HIDE DEF A
  <2> QED BY <2>1, <2>2
<1>2. s \in Schemas /\ Valid(s) /\ sub.version \in DOMAIN versions
  BY <1>1, VersionsAccepted DEF SubFits
<1>3. {sub.plain[f], sub.sealed[f]} \ {None, Empty} # {}
  OBVIOUS
<1> HIDE DEF sub
<1>4. f \in sub.visible /\ f \in Asked(s)
  BY <1>1, <1>3 DEF SubFits
<1>5. /\ f \in Sensitive(s) => sub.plain[f] = None /\ sub.sealed[f] \notin {None, Empty}
      /\ f \notin Sensitive(s) => sub.sealed[f] = None /\ sub.plain[f] \notin {None, Empty}
  BY <1>1, <1>3 DEF SubFits
<1> HIDE DEF s
<1>6. f \in DOMAIN s.fields /\ s.fields[f].type \in Types
  BY <1>2, <1>4, AskedHasType
<1>7. f \in Sensitive(s) <=> s.fields[f].sensitive
  BY <1>6 DEF Sensitive
<1>8. f \in Sensitive(s) => sub.sealed # NoAnswers
  BY <1>5 DEF NoAnswers
<1>9. f \in Columns(versions)
  <2>1. sub.version \in TypedIn(versions, f, s.fields[f].type)
    BY <1>2, <1>4 DEF TypedIn, s
  <2> QED BY <1>6, <2>1 DEF Variants, Columns
<1>10. ASSUME NEW t, Cardinality(Variants(versions, f)) = 1, NEW opened \in BOOLEAN
       PROVE  Cell(versions, sub, f, t, opened) =
                IF sub.plain[f] \in {None, Empty} /\ ~opened THEN "blank" ELSE "answered"
  <2>1. ~(Cardinality(Variants(versions, f)) > 1)
    BY <1>10
  <2>2. CASE f \in Sensitive(s)
    BY <1>4, <1>5, <1>6, <1>7, <1>8, <2>1, <2>2 DEF Cell, CellState, s
  <2>3. CASE f \notin Sensitive(s)
    BY <1>4, <1>5, <1>6, <1>7, <2>1, <2>3 DEF Cell, CellState, s
  <2> QED BY <2>2, <2>3
<1>11. ExportCell(versions, sub, f) = "answered"
  <2>1. CASE f \in Sensitive(s)
    BY <1>4, <1>5, <1>7, <1>8, <2>1 DEF ExportCell, CellState, s
  <2>2. CASE f \notin Sensitive(s)
    BY <1>4, <1>5, <1>7, <2>2 DEF ExportCell, CellState, s
  <2> QED BY <2>1, <2>2
<1>12. ExportRow(versions, sub)[f] = "answered"
  BY <1>6, <1>11 DEF ExportRow, s
<1>13. Cardinality(Variants(versions, f)) = 1 =>
         \A opened \in BOOLEAN :
           Row(versions, sub, opened)[f] =
             IF sub.plain[f] \in {None, Empty} /\ ~opened THEN "blank" ELSE "answered"
  BY <1>9, <1>10 DEF Row
<1> QED BY <1>4, <1>12, <1>13 DEF sub

\* The version that is added last has the highest number.
LEMMA LowestStays ==
    ASSUME NEW S \in SUBSET Int, S # {}, NEW k \in Int, \A x \in S : x < k
    PROVE  Lowest(S \cup {k}) = Lowest(S)
<1>1. \A x : (x \in S \cup {k} /\ \A y \in S \cup {k} : x <= y) <=> (x \in S /\ \A y \in S : x <= y)
  <2>1. PICK z \in S : z < k
    OBVIOUS
  <2>2. ASSUME NEW x \in S \cup {k}, \A y \in S \cup {k} : x <= y PROVE x \in S
    <3>1. x <= z
      BY <2>1, <2>2
    <3> QED BY <2>1, <2>2, <3>1
  <2>3. ASSUME NEW x \in S, \A y \in S : x <= y PROVE \A y \in S \cup {k} : x <= y
    BY <2>3
  <2> QED BY <2>2, <2>3
<1> QED BY <1>1 DEF Lowest

\* The column of a field that the old version asks is read as it was, when the
\* new version keeps its type.
LEMMA ColumnStays ==
    ASSUME NEW vs \in Seq(Accepted), vs # <<>>,
           NEW n \in Accepted, ~Breaking(vs[Len(vs)], n), NEW f \in Asked(vs[Len(vs)])
    PROVE  /\ Variants(Append(vs, n), f) = Variants(vs, f)
           /\ LastColumn(Append(vs, n), f) = LastColumn(vs, f)
           /\ f \in Columns(vs) /\ f \in Columns(Append(vs, n))
           /\ \A v \in DOMAIN vs : Append(vs, n)[v] = vs[v]
<1> DEFINE ws == Append(vs, n)
           top == Len(vs)
           was == vs[top]
           t == was.fields[f].type
<1>1. was \in Accepted /\ top \in DOMAIN vs
  OBVIOUS
<1>2. t \in Types /\ f \in FieldIds /\ f \in DOMAIN was.fields
  BY <1>1, AskedHasType DEF Accepted
<1>3. /\ \A v \in DOMAIN vs : ws[v] = vs[v] /\ v \in Int /\ v < top + 1
      /\ DOMAIN ws = DOMAIN vs \cup {top + 1} /\ ws[top + 1] = n /\ top + 1 \in Int
  OBVIOUS
<1>4. f \in DOMAIN n.fields => n.fields[f].type = t
  BY <1>2 DEF Breaking
<1> HIDE DEF t, was, top, ws
<1>5. ASSUME NEW u, u # t PROVE TypedIn(ws, f, u) = TypedIn(vs, f, u)
  <2>1. top + 1 \notin TypedIn(ws, f, u)
    BY <1>3, <1>4, <1>5 DEF TypedIn, Asked
  <2> QED BY <1>3, <2>1 DEF TypedIn
<1>6. top \in TypedIn(vs, f, t)
  BY <1>1, <1>2 DEF TypedIn, was, top, t
<1>7. TypedIn(ws, f, t) \in {TypedIn(vs, f, t), TypedIn(vs, f, t) \cup {top + 1}}
  BY <1>3 DEF TypedIn
<1>8. ASSUME NEW u PROVE Lowest(TypedIn(ws, f, u)) = Lowest(TypedIn(vs, f, u))
  <2>1. CASE TypedIn(ws, f, u) = TypedIn(vs, f, u)
    BY <2>1
  <2>2. CASE TypedIn(ws, f, u) # TypedIn(vs, f, u)
    <3>1. u = t /\ TypedIn(ws, f, u) = TypedIn(vs, f, u) \cup {top + 1}
      BY <1>5, <1>7, <2>2
    <3>2. TypedIn(vs, f, u) \in SUBSET Int /\ \A x \in TypedIn(vs, f, u) : x < top + 1
      BY <1>3 DEF TypedIn
    <3> QED BY <1>3, <1>6, <3>1, <3>2, LowestStays
  <2> QED BY <2>1, <2>2
<1>9. Variants(ws, f) = Variants(vs, f)
  <2>1. \A u : TypedIn(ws, f, u) = {} <=> TypedIn(vs, f, u) = {}
    BY <1>5, <1>6, <1>7
  <2> QED BY <2>1 DEF Variants
<1>10. LastColumn(ws, f) = LastColumn(vs, f)
  <2>1. \A x : /\ x \in Variants(ws, f)
               /\ \A u \in Variants(ws, f) : Lowest(TypedIn(ws, f, u)) <= Lowest(TypedIn(ws, f, x))
          <=>  /\ x \in Variants(vs, f)
               /\ \A u \in Variants(vs, f) : Lowest(TypedIn(vs, f, u)) <= Lowest(TypedIn(vs, f, x))
    BY <1>8, <1>9
  <2> QED BY <2>1 DEF LastColumn
<1>11. f \in Columns(vs) /\ f \in Columns(ws)
  <2>1. t \in Variants(vs, f)
    BY <1>2, <1>6 DEF Variants
  <2> QED BY <1>2, <1>9, <2>1 DEF Columns
<1>12. \A v \in DOMAIN vs : ws[v] = vs[v]
  BY <1>3
<1> QED BY <1>9, <1>10, <1>11, <1>12 DEF ws

\* So are the cells of that column.
LEMMA RowStays ==
    ASSUME NEW vs \in Seq(Accepted), vs # <<>>,
           NEW n \in Accepted, ~Breaking(vs[Len(vs)], n), NEW f \in Asked(vs[Len(vs)]),
           NEW sub, sub.version \in DOMAIN vs, NEW opened
    PROVE  Row(Append(vs, n), sub, opened)[f] = Row(vs, sub, opened)[f]
<1> DEFINE ws == Append(vs, n)
<1>1. /\ Variants(ws, f) = Variants(vs, f) /\ LastColumn(ws, f) = LastColumn(vs, f)
      /\ f \in Columns(vs) /\ f \in Columns(ws) /\ \A v \in DOMAIN vs : ws[v] = vs[v]
  BY ColumnStays
<1> HIDE DEF ws
<1>2. PICK v : v = sub.version
  OBVIOUS
<1>3. ws[sub.version] = vs[sub.version]
  BY <1>1, <1>2
<1>4. Cell(ws, sub, f, LastColumn(ws, f), opened) = Cell(vs, sub, f, LastColumn(vs, f), opened)
  BY <1>1, <1>3 DEF Cell
<1> QED BY <1>1, <1>4 DEF Row, ws

\* A publication that Diff does not call breaking keeps the rows.
LEMMA RowsKept ==
    ASSUME Published, CallsFit, SubsFit, [FormsNext]_formsVars,
           Len(versions') > Len(versions),
           ~Breaking(versions[form.live], versions'[Len(versions')]),
           NEW i \in DOMAIN subs, NEW f \in Asked(versions[form.live]) \cap Columns(versions),
           NEW opened \in BOOLEAN
    PROVE  Row(versions', subs[i], opened)[f] = Row(versions, subs[i], opened)[f]
<1>1. subs[i].version \in DOMAIN versions
  <2> DEFINE A == {x \in Submissions : SubFits(versions, x)}
  <2>1. subs \in Seq(A) /\ \A x \in A : x.version \in DOMAIN versions
    BY DEF SubsFit, SubFits
  <2> HIDE DEF A
  <2> QED BY <2>1
<1>2. versions \in Seq(Accepted) /\ versions # <<>> /\ form.live = Len(versions)
  BY <1>1 DEF Published
<1>3. Len(versions) \in Nat
  BY <1>2
<1>4. PICK p \in Editors : PublishCommit(p) /\ versions' # versions
  <2>1. versions' # versions
    BY <1>3
  <2> QED BY <2>1 DEF FormsNext, SaveDraft, PublishRead, PublishNumber, Retire, NewDocument,
          Open, Leave, Send, WalkFails, Walk, Check, Store, formsVars
<1>5. versions' = Append(versions, call[p].schema)
  BY <1>4 DEF PublishCommit
<1>6. PICK n : n = call[p].schema
  OBVIOUS
<1>7. n \in Accepted
  <2>1. CallFits(versions, call[p]) /\ call[p].at = "commit"
    BY <1>4 DEF CallsFit, Procs, PublishCommit
  <2> QED BY <1>6, <2>1 DEF CallFits, Accepted
<1>8. versions' = Append(versions, n) /\ Append(versions, n)[Len(Append(versions, n))] = n
  BY <1>2, <1>5, <1>6, <1>7
<1>9. ~Breaking(versions[Len(versions)], n) /\ f \in Asked(versions[Len(versions)])
  BY <1>2, <1>8
<1>10. Row(Append(versions, n), subs[i], opened)[f] = Row(versions, subs[i], opened)[f]
  BY <1>1, <1>2, <1>7, <1>9, RowStays
<1> QED BY <1>8, <1>10

-----------------------------------------------------------------------------
(* The theorems.                                                           *)

\* FormsInv is inductive: it holds of a form with its first draft, and every
\* step of an editor or of a visitor preserves it.
THEOREM FormsInductive == FormsSpec => []FormsInv
<1>1. FormsInit => FormsInv
  <2> SUFFICES ASSUME FormsInit PROVE FormsInv
    OBVIOUS
  <2>1. Published
    BY SchemasAssumption DEF FormsInit, Published
  <2>2. CallsFit
    <3>1. \A p \in Procs : call[p] = Idle
      BY DEF FormsInit
    <3> QED BY <3>1 DEF FormsInit, CallsFit, CallFits, Idle
  <2>3. SubsFit
    BY DEF FormsInit, SubsFit
  <2> QED BY <2>1, <2>2, <2>3 DEF FormsInv
<1>2. FormsInv /\ [FormsNext]_formsVars => FormsInv'
  BY PublishedStep, CallsFitStep, SubsFitStep DEF FormsInv
<1> QED BY <1>1, <1>2, PTL DEF FormsSpec

\* The state has its type: there is always a draft or a version, what is
\* published passed Validate, and a visit fills in a version that exists.
THEOREM FormsTypeCorrect == FormsSpec => []FormsTypeOK
<1>1. FormsInv => FormsTypeOK
  <2> SUFFICES ASSUME Published, CallsFit PROVE FormsTypeOK
    BY DEF FormsInv
  <2>1. /\ form.draft # None \/ versions # <<>>
        /\ form.live \in 0..Len(versions)
        /\ retired \subseteq DOMAIN versions
    BY DEF Published
  <2>2. \A v \in DOMAIN versions : Valid(versions[v])
    BY VersionsAccepted
  <2>3. ASSUME NEW p \in Walking
        PROVE  /\ call[p].version \in DOMAIN versions /\ call[p].answers \in Replies
               /\ call[p].seen \subseteq PageIds /\ call[p].required \subseteq call[p].visible
    BY WalkFields DEF Walking, WalkCalls
  <2> QED BY <2>1, <2>2, <2>3 DEF FormsTypeOK
<1> QED BY <1>1, FormsInductive, PTL

\* Whoever publishes last is live, however publications and drafts interleave:
\* the number read before the commit is the next one or the commit is refused.
THEOREM NewestIsLive == FormsSpec => []LiveIsNewest
<1>1. FormsInv => LiveIsNewest
  BY DEF FormsInv, Published, LiveIsNewest
<1> QED BY <1>1, FormsInductive, PTL

\* A stored answer was asked and reads as given in an export and, unless it is
\* sealed and was not opened, in the grid, whatever was published since.
THEOREM AnswersReadAsGiven == FormsSpec => []GivenReadsAsGiven
<1>1. FormsInv => GivenReadsAsGiven
  BY ReadsAsGiven DEF FormsInv, GivenReadsAsGiven
<1> QED BY <1>1, FormsInductive, PTL

\* A publication that Diff does not call breaking leaves every cell in a column
\* of the live version as it was.
THEOREM RowsAreKept == FormsSpec => NonBreakingKeepsRows
<1>1. FormsInv /\ [FormsNext]_formsVars =>
        [\A i \in DOMAIN subs :
           /\ Len(versions') > Len(versions)
           /\ ~Breaking(versions[form.live], versions'[Len(versions')])
           => \A f \in Asked(versions[form.live]) \cap Columns(versions), opened \in BOOLEAN :
                Row(versions', subs[i], opened)[f] = Row(versions, subs[i], opened)[f]]_formsVars
  BY RowsKept DEF FormsInv
<1> QED BY <1>1, FormsInductive, PTL DEF FormsSpec, NonBreakingKeepsRows

-----------------------------------------------------------------------------
(* The walk of a visit, given that the search is sound.                    *)

\* Where a walk is, and how it came there: every page it has seen leads on to
\* another, or to the page it is at.
OnTheWay(s, c) ==
    LET reached == {id \in PageIds : WalkGraph(s).colour[id] # "white"} IN
    /\ IsPage(s, c.page) /\ c.page \notin c.seen
    /\ c.seen \cup {c.page} \subseteq reached
    /\ \A id \in c.seen : Ways(s, id) \cap (c.seen \cup {c.page}) # {}

WalksFit == \A p \in Visitors : call[p].at = "walk" => OnTheWay(versions[call[p].version], call[p])

\* A walk sets out from the first page.
LEMMA FirstStep ==
    ASSUME NEW s \in Schemas, Valid(s), SearchIsSound(s), NEW c,
           c.page = s.pages[1].id, c.seen = {}
    PROVE  OnTheWay(s, c)
<1>1. 1 \in DOMAIN s.pages
  BY WhatIsValid, SchemaType
<1>2. IsPage(s, c.page)
  BY <1>1 DEF IsPage
<1> QED BY <1>2 DEF SearchIsSound, OnTheWay

\* It goes on to a page it has not seen: otherwise the pages it saw would lead
\* around.
LEMMA NextStep ==
    ASSUME NEW s \in Schemas, Valid(s), SearchIsSound(s), NEW c, OnTheWay(s, c),
           NEW answers, NEW next \in NextPages(s, c.page, answers), next # None,
           NEW d, d.page = next, d.seen = c.seen \cup {c.page}
    PROVE  OnTheWay(s, d)
<1> DEFINE reached == {id \in PageIds : WalkGraph(s).colour[id] # "white"}
<1>1. /\ \A id \in reached : Ways(s, id) \subseteq reached
      /\ \A C \in (SUBSET reached) \ {{}} : \E id \in C : Ways(s, id) \cap C = {}
  BY DEF SearchIsSound
<1>2. /\ IsPage(s, c.page) /\ c.seen \cup {c.page} \subseteq reached
      /\ \A id \in c.seen : Ways(s, id) \cap (c.seen \cup {c.page}) # {}
  BY DEF OnTheWay
<1> HIDE DEF reached
<1>3. IsPage(s, next) /\ next \in Ways(s, c.page)
  BY <1>2, NextPagesType
<1>4. next \in reached
  BY <1>1, <1>2, <1>3
<1>5. \A id \in d.seen : Ways(s, id) \cap (d.seen \cup {next}) # {}
  BY <1>2, <1>3
<1>6. next \notin d.seen
  <2> SUFFICES ASSUME next \in d.seen PROVE FALSE
    OBVIOUS
  <2>1. d.seen \in (SUBSET reached) \ {{}} /\ d.seen \cup {next} = d.seen
    BY <1>2
  <2> QED BY <1>1, <1>5, <2>1
<1>7. /\ IsPage(s, d.page) /\ d.page \notin d.seen /\ d.seen \cup {d.page} \subseteq reached
      /\ \A id \in d.seen : Ways(s, id) \cap (d.seen \cup {d.page}) # {}
  BY <1>2, <1>3, <1>4, <1>5, <1>6
<1> QED BY <1>7 DEF OnTheWay, reached

\* Every request that walks is on its way, after every step.
LEMMA WalksFitStep ==
    ASSUME SearchesAreSound, FormsInv, WalksFit, [FormsNext]_formsVars
    PROVE  WalksFit'
<1> SUFFICES ASSUME NEW p \in Visitors, call'[p].at = "walk"
             PROVE  OnTheWay(versions'[call'[p].version], call'[p])
  BY DEF WalksFit
<1>0. /\ p \in Procs /\ call = [q \in Procs |-> call[q]]
      /\ CallFits(versions, call[p]) /\ Published /\ CallsFit
  BY DEF FormsInv, CallsFit, Procs
<1>1. CASE call'[p] = call[p]
  <2>1. call[p].version \in DOMAIN versions
    BY <1>0, <1>1 DEF CallFits
  <2>2. versions'[call[p].version] = versions[call[p].version]
    BY <1>0, <2>1, VersionsGrow
  <2> QED BY <1>1, <2>2 DEF WalksFit
<1>2. ASSUME NEW answers \in Replies, NEW agreed \in SUBSET Purposes,
             NEW named \in BOOLEAN, Send(p, answers, agreed, named)
      PROVE  OnTheWay(versions'[call'[p].version], call'[p])
  <2>1. \/ call'[p] = Idle
        \/ /\ Live # 0 /\ call'[p].version = Live
           /\ call'[p].page = versions[Live].pages[1].id /\ call'[p].seen = {}
    BY <1>0, <1>2 DEF Send, Goto
  <2>2. CASE call'[p] = Idle
    BY <2>2 DEF Idle
  <2>3. CASE /\ Live # 0 /\ call'[p].version = Live
             /\ call'[p].page = versions[Live].pages[1].id /\ call'[p].seen = {}
    <3>1. Live \in DOMAIN versions
      BY <1>0, <2>3 DEF Live, Published
    <3>2. versions[Live] \in Schemas /\ Valid(versions[Live]) /\ versions' = versions
      BY <1>0, <1>2, <3>1, VersionsAccepted DEF Send
    <3>3. PICK s \in Schemas : s = versions[Live]
      BY <3>2
    <3>4. OnTheWay(s, call'[p])
      BY <2>3, <3>2, <3>3, FirstStep DEF SearchesAreSound
    <3> QED BY <2>3, <3>2, <3>3, <3>4
  <2> QED BY <2>1, <2>2, <2>3
<1>3. CASE Walk(p)
  <2>1. PICK next \in NextPages(Schema(p), call[p].page, call[p].answers) :
          Goto(p, [call[p] EXCEPT
             !.at = IF next = None THEN "check" ELSE "walk",
             !.page = IF next = None THEN @ ELSE next,
             !.seen = @ \cup {call[p].page},
             !.visible = @ \cup Shown(Schema(p), call[p].page, call[p].answers),
             !.required = @ \cup Required(Schema(p), call[p].page, call[p].answers)])
    BY <1>3 DEF Walk
  <2>2. /\ call[p].at = "walk" /\ call[p] \in WalkCalls /\ Schema(p) \in Schemas
        /\ Valid(Schema(p)) /\ versions' = versions
    BY <1>0, <1>3, WalkFields DEF Walk
  <2>3. /\ next # None /\ call'[p].page = next /\ call'[p].version = call[p].version
        /\ call'[p].seen = call[p].seen \cup {call[p].page}
    BY <1>0, <2>1, <2>2 DEF Goto, WalkCalls
  <2>4. OnTheWay(Schema(p), call[p]) /\ SearchIsSound(Schema(p))
    BY <2>2 DEF WalksFit, Schema, SearchesAreSound
  <2>5. OnTheWay(Schema(p), call'[p])
    BY <2>2, <2>3, <2>4, NextStep
  <2> QED BY <2>2, <2>3, <2>5 DEF Schema
<1>4. ASSUME call'[p] # call[p]
      PROVE  \/ \E answers \in Replies, agreed \in SUBSET Purposes, named \in BOOLEAN :
                  Send(p, answers, agreed, named)
             \/ Walk(p)
  <2>1. ASSUME NEW q \in Procs, NEW c, Goto(q, c), c.at # "walk" PROVE FALSE
    BY <1>0, <1>4, <2>1 DEF Goto
  <2>2. ASSUME NEW q \in Procs, NEW c, q # p, Goto(q, c) PROVE FALSE
    BY <1>0, <1>4, <2>2 DEF Goto
  <2>3. ~\E q \in Editors : PublishRead(q) \/ PublishNumber(q) \/ PublishCommit(q)
    BY <2>1 DEF PublishRead, PublishNumber, PublishCommit, Procs, Idle
  <2>4. ~\E q \in Visitors : Open(q) \/ Leave(q) \/ WalkFails(q) \/ Store(q)
    BY <2>1 DEF Open, Leave, WalkFails, Store, Procs, Idle
  <2>5. ASSUME NEW q \in Visitors, Check(q) PROVE FALSE
    <3>1. CallFits(versions, call[q]) /\ call[q].at = "check"
      BY <1>0, <2>5 DEF CallsFit, Procs, Check
    <3>2. [call[q] EXCEPT !.at = "store"].at = "store"
      BY <3>1 DEF CallFits, WalkCalls
    <3> QED BY <2>1, <2>5, <3>2 DEF Check, Procs, Idle
  <2>6. ~((\E s \in Edits : SaveDraft(s)) \/ Retire \/ NewDocument \/ UNCHANGED formsVars)
    BY <1>4 DEF SaveDraft, Retire, NewDocument, formsVars
  <2>7. ASSUME NEW q \in Visitors, q # p PROVE ~Walk(q)
    BY <2>2, <2>7 DEF Walk, Procs
  <2>8. ASSUME NEW q \in Visitors, q # p, NEW answers \in Replies,
               NEW agreed \in SUBSET Purposes, NEW named \in BOOLEAN
        PROVE  ~Send(q, answers, agreed, named)
    BY <2>2, <2>8 DEF Send, Procs
  <2> QED BY <2>3, <2>4, <2>5, <2>6, <2>7, <2>8 DEF FormsNext
<1> QED BY <1>1, <1>2, <1>3, <1>4

\* NoWayBack: what Validate accepted the engine can run, whatever the answers:
\* no page that does not exist, none a second time.  Assumed is that the search
\* of Validate is sound for the schemas there are (a recursion over the pages).
THEOREM NoWayBack == ASSUME SearchesAreSound PROVE FormsSpec => []NavigationHolds
<1>1. FormsInit => WalksFit
  <2> SUFFICES ASSUME FormsInit PROVE WalksFit
    OBVIOUS
  <2>1. \A p \in Visitors : call[p].at = "idle"
    BY DEF FormsInit, Procs, Idle
  <2> QED BY <2>1 DEF WalksFit
<1>2. FormsInv /\ WalksFit /\ [FormsNext]_formsVars => WalksFit'
  BY WalksFitStep
<1>3. WalksFit => NavigationHolds
  BY DEF WalksFit, OnTheWay, NavigationHolds, NavigationFails, Schema
<1> QED BY <1>1, <1>2, <1>3, FormsInductive, PTL DEF FormsSpec

-----------------------------------------------------------------------------
(* The files that submissions attach.                                      *)

\* A row is written once its upload is done, and only a row grows old.
RowsAreDone == \A f \in Files : status[f] # "absent" \/ f \in old => upload[f] = "done"

\* The bytes are there before the row, and for as long as the row is young.
BytesFirst ==
    \A f \in Files : upload[f] = "put" \/ (status[f] # "absent" /\ f \notin old) => f \in objects

\* The submission a file is bound to is stored and names it.
OwnerStored ==
    \A f \in Files : owner[f] # Unbound => f \in wants[owner[f]] /\ step[owner[f]] = "stored"

\* What an open transaction has bound was free, and is free for no other one.
BoundHold ==
    \A s \in Submits : step[s] = "bound" =>
        /\ \A f \in wants[s] : Attachable(f)
        /\ \A t \in Submits \ {s} : step[t] = "bound" => wants[s] \cap wants[t] = {}

\* The sweeper deletes old files only, the object before the row.
SweptOld == sweep.todo \cup ({sweep.at} \cap Files) \subseteq old \ ({sweep.at} \cap objects)

\* What the sweeper has listed and is not done with nobody has bound since,
\* except where the history says so.
NotListed ==
    \A f \in Files : owner[f] # Unbound /\ f \notin raced => f \notin sweep.todo /\ f # sweep.at

\* The inductive invariant.
IInv ==
    /\ TypeOK /\ RowsAreDone /\ BytesFirst /\ OwnerStored /\ BoundHold /\ SweptOld
    /\ BytesHaveRows /\ NotListed /\ AttachmentsStay

-----------------------------------------------------------------------------
(* Each part of the invariant, step by step.                               *)

\* Every step keeps the types.
LEMMA TypeStep ==
    ASSUME TypeOK, RowsAreDone, [Next]_vars
    PROVE  TypeOK'
<1>1. ASSUME NEW f \in Files, Put(f) \/ InsertRow(f) PROVE TypeOK'
  BY <1>1 DEF Put, InsertRow, rows, TypeOK, RowsAreDone
<1>2. ASSUME NEW f \in Files, InsertFails(f) \/ UploadCrash(f) \/ Age(f) PROVE TypeOK'
  BY <1>2 DEF InsertFails, UploadCrash, Age, rows, TypeOK
<1>3. ASSUME NEW s \in Submits, NEW F \in SUBSET Files, Validate(s, F) PROVE TypeOK'
  BY <1>3 DEF Validate, rows, GoTo, TypeOK
<1>4. ASSUME NEW s \in Submits, Bind(s) \/ Rollback(s) PROVE TypeOK'
  BY <1>4 DEF Bind, Rollback, rows, GoTo, InFlight, TypeOK
<1>5. ASSUME NEW s \in Submits, Commit(s) PROVE TypeOK'
  BY <1>5, SubmitsAssumption DEF Commit, GoTo, TypeOK
<1>6. ASSUME NEW s \in Submits, Erase(s) PROVE TypeOK'
  BY <1>6 DEF Erase, GoTo, TypeOK
<1>7. ASSUME NEW f \in Files, DeleteObject(f) \/ DeleteRow(f) \/ DeleteFails(f) PROVE TypeOK'
  BY <1>7, FilesAssumption, MaxFailsAssumption DEF DeleteObject, DeleteRow, DeleteFails, rows,
         TypeOK
<1>8. CASE ListOrphans \/ SweepEnds \/ SweepCrash
  BY <1>8, MaxFailsAssumption DEF ListOrphans, SweepEnds, SweepCrash, rows, IdleSweep,
         Attachable, TypeOK
<1>9. ASSUME \/ UNCHANGED vars
      PROVE  TypeOK'
  BY <1>9 DEF vars, rows, TypeOK
<1> QED BY <1>1, <1>2, <1>3, <1>4, <1>5, <1>6, <1>7, <1>8, <1>9 DEF Next, SweepStep

\* No row is there before its upload is done.
LEMMA RowsAreDoneStep ==
    ASSUME TypeOK, RowsAreDone, BoundHold, [Next]_vars
    PROVE  RowsAreDone'
<1>1. ASSUME NEW f \in Files, Put(f) \/ InsertRow(f) \/ InsertFails(f) \/ UploadCrash(f) \/ Age(f)
      PROVE  RowsAreDone'
  BY <1>1 DEF Put, InsertRow, InsertFails, UploadCrash, Age, rows, TypeOK, RowsAreDone
<1>2. ASSUME NEW s \in Submits, Commit(s) PROVE RowsAreDone'
  BY <1>2 DEF Commit, TypeOK, BoundHold, Attachable, RowsAreDone
<1>3. ASSUME NEW s \in Submits, Erase(s) PROVE RowsAreDone'
  BY <1>3 DEF Erase, rows, TypeOK, RowsAreDone
<1>4. ASSUME NEW f \in Files, DeleteRow(f) PROVE RowsAreDone'
  BY <1>4 DEF DeleteRow, rows, TypeOK, RowsAreDone
<1>5. ASSUME \/ \E f \in Files : DeleteObject(f) \/ DeleteFails(f)
             \/ \E s \in Submits, F \in SUBSET Files : Validate(s, F)
             \/ \E s \in Submits : Bind(s) \/ Rollback(s)
             \/ ListOrphans \/ SweepEnds \/ SweepCrash \/ UNCHANGED vars
      PROVE  RowsAreDone'
  BY <1>5 DEF DeleteObject, DeleteFails, Validate, Bind, Rollback, ListOrphans, SweepEnds,
         SweepCrash, vars, rows, RowsAreDone
<1> QED BY <1>1, <1>2, <1>3, <1>4, <1>5 DEF Next, SweepStep

\* The bytes come before the row and outlast its youth.
LEMMA BytesFirstStep ==
    ASSUME TypeOK, RowsAreDone, BytesFirst, BoundHold, SweptOld, [Next]_vars
    PROVE  BytesFirst'
<1>1. ASSUME NEW f \in Files, Put(f) \/ InsertRow(f) \/ InsertFails(f) \/ UploadCrash(f) \/ Age(f)
      PROVE  BytesFirst'
  BY <1>1 DEF Put, InsertRow, InsertFails, UploadCrash, Age, rows, TypeOK, RowsAreDone,
         BytesFirst
<1>2. ASSUME NEW s \in Submits, Commit(s) PROVE BytesFirst'
  BY <1>2 DEF Commit, TypeOK, BoundHold, Attachable, BytesFirst
<1>3. ASSUME NEW s \in Submits, Erase(s) PROVE BytesFirst'
  BY <1>3 DEF Erase, rows, TypeOK, RowsAreDone, BytesFirst
<1>4. ASSUME NEW f \in Files, DeleteObject(f) \/ DeleteRow(f) PROVE BytesFirst'
  BY <1>4 DEF DeleteObject, DeleteRow, rows, TypeOK, RowsAreDone, SweptOld, BytesFirst
<1>5. ASSUME \/ \E f \in Files : DeleteFails(f)
             \/ \E s \in Submits, F \in SUBSET Files : Validate(s, F)
             \/ \E s \in Submits : Bind(s) \/ Rollback(s)
             \/ ListOrphans \/ SweepEnds \/ SweepCrash \/ UNCHANGED vars
      PROVE  BytesFirst'
  BY <1>5 DEF DeleteFails, Validate, Bind, Rollback, ListOrphans, SweepEnds, SweepCrash, vars,
         rows, BytesFirst
<1> QED BY <1>1, <1>2, <1>3, <1>4, <1>5 DEF Next, SweepStep

\* A bound file stays with the stored submission that names it.
LEMMA OwnerStoredStep ==
    ASSUME TypeOK, OwnerStored, [Next]_vars
    PROVE  OwnerStored'
<1>1. ASSUME NEW s \in Submits, NEW F \in SUBSET Files, Validate(s, F) PROVE OwnerStored'
  BY <1>1 DEF Validate, rows, GoTo, TypeOK, OwnerStored
<1>2. ASSUME NEW s \in Submits, Bind(s) PROVE OwnerStored'
  BY <1>2 DEF Bind, rows, GoTo, TypeOK, OwnerStored
<1>3. ASSUME NEW s \in Submits, Rollback(s) PROVE OwnerStored'
  BY <1>3 DEF Rollback, rows, GoTo, InFlight, TypeOK, OwnerStored
<1>4. ASSUME NEW s \in Submits, Commit(s) PROVE OwnerStored'
  BY <1>4 DEF Commit, rows, GoTo, TypeOK, OwnerStored
<1>5. ASSUME NEW s \in Submits, Erase(s) PROVE OwnerStored'
  BY <1>5 DEF Erase, rows, GoTo, TypeOK, OwnerStored
<1>6. ASSUME NEW f \in Files, DeleteRow(f) PROVE OwnerStored'
  BY <1>6, SubmitsAssumption DEF DeleteRow, rows, GoTo, TypeOK, OwnerStored
<1>7. ASSUME \/ \E f \in Files : Put(f) \/ InsertRow(f) \/ InsertFails(f) \/ UploadCrash(f) \/ Age(f) \/ DeleteObject(f) \/ DeleteFails(f)
             \/ ListOrphans \/ SweepEnds \/ SweepCrash \/ UNCHANGED vars
      PROVE  OwnerStored'
  BY <1>7 DEF Put, InsertRow, InsertFails, UploadCrash, Age, DeleteObject, DeleteFails,
         ListOrphans, SweepEnds, SweepCrash, vars, rows, OwnerStored
<1> QED BY <1>1, <1>2, <1>3, <1>4, <1>5, <1>6, <1>7 DEF Next, SweepStep

\* What a transaction has bound nobody else takes.
LEMMA BoundHoldStep ==
    ASSUME TypeOK, RowsAreDone, BoundHold, [Next]_vars
    PROVE  BoundHold'
<1>1. ASSUME NEW f \in Files, InsertRow(f) PROVE BoundHold'
  BY <1>1 DEF InsertRow, rows, TypeOK, RowsAreDone, Attachable, BoundHold
<1>2. ASSUME NEW s \in Submits, NEW F \in SUBSET Files, Validate(s, F) PROVE BoundHold'
  BY <1>2 DEF Validate, rows, GoTo, TypeOK, Attachable, BoundHold
<1>3. ASSUME NEW s \in Submits, Bind(s) PROVE BoundHold'
  BY <1>3 DEF Bind, rows, GoTo, Locked, TypeOK, Attachable, BoundHold
<1>4. ASSUME NEW s \in Submits, Rollback(s) PROVE BoundHold'
  BY <1>4 DEF Rollback, rows, GoTo, InFlight, TypeOK, Attachable, BoundHold
<1>5. ASSUME NEW s \in Submits, Commit(s) PROVE BoundHold'
  BY <1>5 DEF Commit, rows, GoTo, TypeOK, Attachable, BoundHold
<1>6. ASSUME NEW s \in Submits, Erase(s) PROVE BoundHold'
  BY <1>6, SubmitsAssumption DEF Erase, rows, GoTo, TypeOK, Attachable, BoundHold
<1>7. ASSUME NEW f \in Files, DeleteRow(f) PROVE BoundHold'
  BY <1>7 DEF DeleteRow, Locked, TypeOK, Attachable, BoundHold
<1>8. ASSUME \/ \E f \in Files : Put(f) \/ InsertFails(f) \/ UploadCrash(f) \/ Age(f) \/ DeleteObject(f) \/ DeleteFails(f)
             \/ ListOrphans \/ SweepEnds \/ SweepCrash \/ UNCHANGED vars
      PROVE  BoundHold'
  BY <1>8 DEF Put, InsertFails, UploadCrash, Age, DeleteObject, DeleteFails, ListOrphans,
         SweepEnds, SweepCrash, vars, rows, Attachable, BoundHold
<1> QED BY <1>1, <1>2, <1>3, <1>4, <1>5, <1>6, <1>7, <1>8 DEF Next, SweepStep

\* The sweeper goes on deleting old files, objects first.
LEMMA SweptOldStep ==
    ASSUME TypeOK, RowsAreDone, SweptOld, [Next]_vars
    PROVE  SweptOld'
<1>1. ASSUME NEW f \in Files, Put(f) \/ InsertFails(f) \/ Age(f) PROVE SweptOld'
  BY <1>1 DEF Put, InsertFails, Age, rows, TypeOK, RowsAreDone, SweptOld
<1>2. ASSUME NEW f \in Files, DeleteObject(f) \/ DeleteRow(f) \/ DeleteFails(f) PROVE SweptOld'
  BY <1>2, FilesAssumption DEF DeleteObject, DeleteRow, DeleteFails, TypeOK, SweptOld
<1>3. CASE ListOrphans
  BY <1>3, FilesAssumption DEF ListOrphans, TypeOK, SweptOld
<1>4. CASE SweepEnds \/ SweepCrash
  BY <1>4, FilesAssumption DEF SweepEnds, SweepCrash, IdleSweep, SweptOld
<1>5. ASSUME \/ \E f \in Files : InsertRow(f) \/ UploadCrash(f)
             \/ \E s \in Submits, F \in SUBSET Files : Validate(s, F)
             \/ \E s \in Submits : Bind(s) \/ Commit(s) \/ Rollback(s) \/ Erase(s)
             \/ UNCHANGED vars
      PROVE  SweptOld'
  BY <1>5 DEF InsertRow, UploadCrash, Validate, Bind, Commit, Rollback, Erase, vars, SweptOld
<1> QED BY <1>1, <1>2, <1>3, <1>4, <1>5 DEF Next, SweepStep

\* Bytes keep a row, or a reason to have none.
LEMMA BytesHaveRowsStep ==
    ASSUME TypeOK, RowsAreDone, OwnerStored, SweptOld, BytesHaveRows, [Next]_vars
    PROVE  BytesHaveRows'
<1>1. ASSUME NEW f \in Files, Put(f) \/ InsertRow(f) \/ InsertFails(f) \/ UploadCrash(f)
      PROVE  BytesHaveRows'
  BY <1>1 DEF Put, InsertRow, InsertFails, UploadCrash, rows, TypeOK, RowsAreDone, BytesHaveRows
<1>2. ASSUME NEW s \in Submits, NEW F \in SUBSET Files, Validate(s, F) PROVE BytesHaveRows'
  BY <1>2 DEF Validate, rows, GoTo, TypeOK, BytesHaveRows
<1>3. ASSUME NEW s \in Submits, Bind(s) \/ Rollback(s) PROVE BytesHaveRows'
  BY <1>3 DEF Bind, Rollback, rows, GoTo, InFlight, TypeOK, BytesHaveRows
<1>4. ASSUME NEW s \in Submits, Commit(s) PROVE BytesHaveRows'
  BY <1>4 DEF Commit, GoTo, TypeOK, BytesHaveRows
<1>5. ASSUME NEW s \in Submits, Erase(s) PROVE BytesHaveRows'
  BY <1>5, SubmitsAssumption DEF Erase, GoTo, TypeOK, OwnerStored, BytesHaveRows
<1>6. ASSUME NEW f \in Files, DeleteObject(f) \/ DeleteRow(f) PROVE BytesHaveRows'
  BY <1>6 DEF DeleteObject, DeleteRow, rows, SweptOld, TypeOK, BytesHaveRows
<1>7. ASSUME \/ \E f \in Files : Age(f) \/ DeleteFails(f)
             \/ ListOrphans \/ SweepEnds \/ SweepCrash \/ UNCHANGED vars
      PROVE  BytesHaveRows'
  BY <1>7 DEF Age, DeleteFails, ListOrphans, SweepEnds, SweepCrash, vars, rows, BytesHaveRows
<1> QED BY <1>1, <1>2, <1>3, <1>4, <1>5, <1>6, <1>7 DEF Next, SweepStep

\* A file that is bound is not listed, or the history says so.
LEMMA NotListedStep ==
    ASSUME TypeOK, NotListed, [Next]_vars
    PROVE  NotListed'
<1>1. ASSUME NEW s \in Submits, Bind(s) \/ Rollback(s) PROVE NotListed'
  BY <1>1 DEF Bind, Rollback, rows, NotListed
<1>2. ASSUME NEW s \in Submits, Commit(s) PROVE NotListed'
  BY <1>2 DEF Commit, Swept, TypeOK, NotListed
<1>3. ASSUME NEW s \in Submits, Erase(s) PROVE NotListed'
  BY <1>3 DEF Erase, TypeOK, NotListed
<1>4. ASSUME NEW f \in Files, DeleteObject(f) \/ DeleteFails(f) PROVE NotListed'
  BY <1>4, FilesAssumption DEF DeleteObject, DeleteFails, rows, TypeOK, NotListed
<1>5. ASSUME NEW f \in Files, DeleteRow(f) PROVE NotListed'
  BY <1>5, FilesAssumption DEF DeleteRow, TypeOK, NotListed
<1>6. CASE ListOrphans
  BY <1>6, FilesAssumption DEF ListOrphans, rows, TypeOK, Attachable, NotListed
<1>7. CASE SweepEnds \/ SweepCrash
  BY <1>7, FilesAssumption DEF SweepEnds, SweepCrash, rows, IdleSweep, TypeOK, NotListed
<1>8. ASSUME \/ \E f \in Files : Put(f) \/ InsertRow(f) \/ InsertFails(f) \/ UploadCrash(f)
                               \/ Age(f)
             \/ \E s \in Submits, F \in SUBSET Files : Validate(s, F)
             \/ UNCHANGED vars
      PROVE  NotListed'
  BY <1>8 DEF Put, InsertRow, InsertFails, UploadCrash, Age, Validate, vars, rows, NotListed
<1> QED BY <1>1, <1>2, <1>3, <1>4, <1>5, <1>6, <1>7, <1>8 DEF Next, SweepStep

\* A stored submission keeps its attachments.
LEMMA AttachmentsStep ==
    ASSUME TypeOK, RowsAreDone, BytesFirst, BoundHold, NotListed,
           AttachmentsStay, [Next]_vars
    PROVE  AttachmentsStay'
<1>1. ASSUME NEW f \in Files, Put(f) PROVE AttachmentsStay'
  BY <1>1 DEF Put, rows, TypeOK, AttachmentsStay
<1>2. ASSUME NEW f \in Files, InsertFails(f) PROVE AttachmentsStay'
  BY <1>2, SubmitsAssumption DEF InsertFails, rows, TypeOK, RowsAreDone, AttachmentsStay
<1>3. ASSUME NEW s \in Submits, NEW F \in SUBSET Files, Validate(s, F) PROVE AttachmentsStay'
  BY <1>3 DEF Validate, rows, GoTo, TypeOK, AttachmentsStay
<1>4. ASSUME NEW s \in Submits, Bind(s) \/ Rollback(s) PROVE AttachmentsStay'
  BY <1>4 DEF Bind, Rollback, rows, GoTo, InFlight, TypeOK, AttachmentsStay
<1>5. ASSUME NEW s \in Submits, Commit(s) PROVE AttachmentsStay'
  BY <1>5, SubmitsAssumption DEF Commit, GoTo, Swept, TypeOK, BytesFirst, BoundHold,
         Attachable, AttachmentsStay
<1>6. ASSUME NEW s \in Submits, Erase(s) PROVE AttachmentsStay'
  BY <1>6 DEF Erase, rows, GoTo, TypeOK, AttachmentsStay
<1>7. ASSUME NEW f \in Files, DeleteObject(f) \/ DeleteRow(f) PROVE AttachmentsStay'
  BY <1>7, SubmitsAssumption DEF DeleteObject, DeleteRow, rows, TypeOK, NotListed,
         AttachmentsStay
<1>8. ASSUME \/ \E f \in Files : InsertRow(f) \/ UploadCrash(f) \/ Age(f) \/ DeleteFails(f)
             \/ ListOrphans \/ SweepEnds \/ SweepCrash \/ UNCHANGED vars
      PROVE  AttachmentsStay'
  BY <1>8 DEF InsertRow, UploadCrash, Age, DeleteFails, ListOrphans, SweepEnds, SweepCrash,
         vars, rows, AttachmentsStay
<1> QED BY <1>1, <1>2, <1>3, <1>4, <1>5, <1>6, <1>7, <1>8 DEF Next, SweepStep

-----------------------------------------------------------------------------
(* The theorems.                                                           *)

\* The invariant is inductive.
THEOREM Inductive == Spec => []IInv
<1>1. Init => IInv
  <2> SUFFICES ASSUME Init PROVE IInv
    OBVIOUS
  <2>1. TypeOK
    BY MaxFailsAssumption DEF Init, TypeOK, IdleSweep
  <2>2. RowsAreDone /\ BytesFirst /\ OwnerStored /\ BoundHold /\ BytesHaveRows
    BY DEF Init, RowsAreDone, BytesFirst, OwnerStored, BoundHold, BytesHaveRows
  <2>3. SweptOld
    BY FilesAssumption DEF Init, SweptOld, IdleSweep
  <2>4. NotListed /\ AttachmentsStay
    BY DEF Init, NotListed, AttachmentsStay
  <2> QED BY <2>1, <2>2, <2>3, <2>4 DEF IInv
<1>2. IInv /\ [Next]_vars => IInv'
  <2> SUFFICES ASSUME IInv, [Next]_vars PROVE IInv'
    OBVIOUS
  <2>1. TypeOK' /\ RowsAreDone' /\ BytesFirst'
    BY TypeStep, RowsAreDoneStep, BytesFirstStep DEF IInv
  <2>2. OwnerStored' /\ BoundHold' /\ SweptOld'
    BY OwnerStoredStep, BoundHoldStep, SweptOldStep DEF IInv
  <2>3. BytesHaveRows'
    BY BytesHaveRowsStep DEF IInv
  <2>4. NotListed' /\ AttachmentsStay'
    BY NotListedStep, AttachmentsStep DEF IInv
  <2> QED BY <2>1, <2>2, <2>3, <2>4 DEF IInv
<1> QED BY <1>1, <1>2, PTL DEF Spec

\* Every variable keeps its type, and a row is bound exactly when it has a
\* submission.
THEOREM TypeCorrect == Spec => []TypeOK
<1>1. IInv => TypeOK
  BY DEF IInv
<1> QED BY <1>1, Inductive, PTL

\* No bytes are left that no row leads to, but where the uploading process
\* stopped half-way and under a deleted submission, whatever fails or stops.
THEOREM NoBytesWithoutRow == Spec => []BytesHaveRows
<1>1. IInv => BytesHaveRows
  BY DEF IInv
<1> QED BY <1>1, Inductive, PTL

\* A stored submission keeps its attachments, for any submissions and sweeps
\* that overlap, but for the files that were attached while the sweeper was at
\* them or after it had deleted their bytes.
THEOREM AttachmentsAreKept == Spec => []AttachmentsStay
<1>1. IInv => AttachmentsStay
  BY DEF IInv
<1> QED BY <1>1, Inductive, PTL
=============================================================================
