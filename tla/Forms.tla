------------------------------- MODULE Forms --------------------------------
(***************************************************************************)
(* One form: editors save its draft and publish it, visitors open the live *)
(* version, fill it in and send answers, and the answers are stored under  *)
(* the version they were asked by.  Publishing and sending are split where *)
(* the code leaves the database or another transaction may commit.         *)
(*                                                                         *)
(* What else the transaction of a submission writes (subject, consent,     *)
(* idempotency key, audit, outbox) is SubjectLifecycle's; the files a      *)
(* submission attaches are FileLifecycle's.                                *)
(***************************************************************************)
EXTENDS FormValidation, SubmissionGrid

CONSTANTS
    Schemas,     \* what a form may start as
    Edits,       \* of Schemas: those that are edited, and what into
    Replies,     \* answers visitors may send, of AnswerSets
    Purposes,    \* purpose codes
    Editors, Visitors,
    MaxVersions, MaxSubs, MaxDocs \* bounds of the instance

ASSUME RepliesAssumption == Replies \subseteq AnswerSets
ASSUME EditsAssumption == Edits \subseteq Schemas
ASSUME SchemasAssumption ==
    \A s \in Schemas :
        /\ s # None
        /\ s.pages \in Seq([id : PageIds, fields : Seq(FieldIds), next : PageIds \cup {None}])
        /\ DOMAIN s.fields \subseteq FieldIds

Procs == Editors \cup Visitors

VARIABLES
    form,     \* forms.forms: [draft: schema or None, live: version number or 0]
    versions, \* forms.form_versions: sequence of schemas, by version_no
    retired,  \* numbers of the versions with a retired_at
    subs,     \* forms.submissions, in the order they commit
    doc,      \* the active consent document, numbered
    call      \* [Procs -> the request in progress]

formsVars == <<form, versions, retired, subs, doc, call>>

Idle == [at |-> "idle"]
Goto(p, next) == call' = [call EXCEPT ![p] = next]

\* Create: the form with its first draft.
FormsInit ==
    /\ \E s \in Schemas : form = [draft |-> s, live |-> 0]
    /\ versions = <<>> /\ retired = {} /\ subs = <<>>
    /\ doc = 1
    /\ call = [p \in Procs |-> Idle]

-----------------------------------------------------------------------------
(* Editors.                                                                *)

HasDraft == form.draft # None

\* What an editor starts from: the draft, or what was published last.
Base == IF HasDraft THEN form.draft ELSE versions[Len(versions)]

\* SaveDraft overwrites whatever is there, valid or not.
SaveDraft(s) ==
    /\ Base \in Edits
    /\ form' = [form EXCEPT !.draft = s]
    /\ UNCHANGED <<versions, retired, subs, doc, call>>

\* Publish: GetDraft, and Validate of what was read.
PublishRead(p) ==
    /\ call[p] = Idle /\ HasDraft /\ Len(versions) < MaxVersions
    /\ IF Valid(form.draft)
       THEN Goto(p, [at |-> "number", schema |-> form.draft])
       ELSE Goto(p, Idle)
    /\ UNCHANGED <<form, versions, retired, subs, doc>>

\* The next number, read in the transaction.
PublishNumber(p) ==
    /\ call[p].at = "number" /\ Len(versions) < MaxVersions
    /\ Goto(p, [at |-> "commit", schema |-> call[p].schema, no |-> Len(versions) + 1])
    /\ UNCHANGED <<form, versions, retired, subs, doc>>

\* A mutant: no unique constraint, a version takes the number of another.
PublishCommitOver(p) ==
    /\ call[p].at = "commit"
    /\ versions' = IF call[p].no \in DOMAIN versions
                   THEN [versions EXCEPT ![call[p].no] = call[p].schema]
                   ELSE Append(versions, call[p].schema)
    /\ form' = [draft |-> None, live |-> call[p].no]
    /\ Goto(p, Idle)
    /\ UNCHANGED <<retired, subs, doc>>

\* The version, the live pointer and the cleared draft commit together, unless
\* another call has taken the number.
PublishCommit(p) ==
    /\ call[p].at = "commit"
    /\ IF call[p].no = Len(versions) + 1
       THEN /\ versions' = Append(versions, call[p].schema)
            /\ form' = [draft |-> None, live |-> call[p].no]
       ELSE UNCHANGED <<versions, form>>
    /\ Goto(p, Idle)
    /\ UNCHANGED <<retired, subs, doc>>

\* An operator withdraws the live version by hand (no other is answered); a
\* new consent document is published.
Retire ==
    /\ form.live \notin retired \cup {0}
    /\ retired' = retired \cup {form.live}
    /\ UNCHANGED <<form, versions, subs, doc, call>>

NewDocument ==
    /\ doc < MaxDocs
    /\ doc' = doc + 1
    /\ UNCHANGED <<form, versions, retired, subs, call>>

-----------------------------------------------------------------------------
(* Visitors.                                                               *)

\* ResolvePublic: a version is live, and has not been withdrawn.
Live == IF form.live \in retired THEN 0 ELSE form.live

\* Public: the version to fill in, and the text to agree to if there is one.
Open(p) ==
    /\ call[p] = Idle /\ Live # 0 /\ Len(subs) < MaxSubs
    /\ Goto(p, [at |-> "filling", version |-> Live,
                doc |-> IF DOMAIN versions[Live].purposes # {} THEN doc ELSE 0])
    /\ UNCHANGED <<form, versions, retired, subs, doc>>

Leave(p) ==
    /\ call[p].at = "filling"
    /\ Goto(p, Idle)
    /\ UNCHANGED <<form, versions, retired, subs, doc>>

\* Submit resolves the form again: only the version that is live is accepted,
\* and a request that names none is taken to be about that one.
Send(p, answers, agreed, named) ==
    /\ call[p].at = "filling"
    /\ IF Live # 0 /\ (named => call[p].version = Live)
       THEN Goto(p, [at |-> "walk", version |-> Live, doc |-> call[p].doc,
                     answers |-> answers, agreed |-> agreed,
                     page |-> versions[Live].pages[1].id,
                     seen |-> {}, visible |-> {}, required |-> {}])
       ELSE Goto(p, Idle)
    /\ UNCHANGED <<form, versions, retired, subs, doc>>

Schema(p) == versions[call[p].version]

\* Evaluate fails: no such page, a page seen before, or a page that fails.
NavigationFails(s, c) == ~IsPage(s, c.page) \/ c.page \in c.seen
WalkFails(p) ==
    /\ call[p].at = "walk"
    /\ \/ NavigationFails(Schema(p), call[p])
       \/ PageFails(Schema(p), call[p].page, call[p].answers)
    /\ Goto(p, Idle)
    /\ UNCHANGED <<form, versions, retired, subs, doc>>

\* Evaluate, one page.
Walk(p) ==
    LET s == Schema(p)  c == call[p] IN
    /\ c.at = "walk"
    /\ ~NavigationFails(s, c) /\ ~PageFails(s, c.page, c.answers)
    /\ \E next \in NextPages(s, c.page, c.answers) :
         Goto(p, [c EXCEPT
             !.at = IF next = None THEN "check" ELSE "walk",
             !.page = IF next = None THEN @ ELSE next,
             !.seen = @ \cup {c.page},
             !.visible = @ \cup Shown(s, c.page, c.answers),
             !.required = @ \cup Required(s, c.page, c.answers)])
    /\ UNCHANGED <<form, versions, retired, subs, doc>>

\* isBlankValue: not given, or given as nothing.
IsBlankValue(v) == v \in {None, Empty}

InBounds(f, v) ==
    /\ f.min # None => Num[v] >= f.min
    /\ f.max # None => Num[v] <= f.max

\* CheckFormat: blank passes, and the bounds are those of a numeric format or
\* of a date.
CheckFormat(f, v) ==
    v \notin {Empty, Blank} =>
        IF f.format # None THEN v \in Matches[f.format] /\ (f.format \in Numeric => InBounds(f, v))
        ELSE f.type = "date" => InBounds(f, v)

\* validateValue.
ValueFits(f, v) ==
    CASE f.type \in {"choice", "dropdown"} -> v = Empty \/ HasOption(f, v)
      [] f.type = "multi_choice" -> v \in Lists /\ \A w \in Parts[v] : HasOption(f, w)
      [] f.type = "rating" -> v \notin Lists /\ Num[v] \in 1..f.scale
      [] f.type = "text" -> v \notin Lists /\ CheckFormat(f, v)
      [] f.type = "date" -> v = Empty \/ (v \in Dates /\ CheckFormat(f, v))
      [] OTHER -> TRUE

\* The answers to what was shown, and whether all of them are acceptable.
Kept(c) == [f \in FieldIds |-> IF f \in c.visible THEN c.answers[f] ELSE None]

AnswersFit(s, c) ==
    /\ \A f \in c.required : ~IsBlankValue(Kept(c)[f])
    /\ \A f \in c.visible : Kept(c)[f] # None => ValueFits(s.fields[f], Kept(c)[f])

\* checkRequiredPurposes.
RequiredPurposes(s) == {u \in DOMAIN s.purposes : s.purposes[u] = "required"}

\* The rest of Submit before its transaction; a file may turn out to be invalid.
Acceptable(s, c) ==
    /\ AnswersFit(s, c)
    /\ c.doc = doc
    /\ RequiredPurposes(s) \subseteq c.agreed
    /\ Identifier(s) # None /\ ~IsBlankValue(Kept(c)[Identifier(s)])

HasFile(s, c) ==
    \E f \in c.visible : s.fields[f].type = "file" /\ c.answers[f] # None

Check(p) ==
    LET s == Schema(p)  c == call[p] IN
    /\ c.at = "check"
    /\ \/ Acceptable(s, c) /\ Goto(p, [c EXCEPT !.at = "store"])
       \/ (~Acceptable(s, c) \/ HasFile(s, c)) /\ Goto(p, Idle)
    /\ UNCHANGED <<form, versions, retired, subs, doc>>

\* splitSensitive.
Split(s, answers, sealed) ==
    [f \in FieldIds |-> IF (f \in Sensitive(s)) <=> sealed THEN answers[f] ELSE None]

\* The row: the version pinned, the sensitive answers sealed.
Submission(s, c) ==
    [version |-> c.version, visible |-> c.visible,
     plain |-> Split(s, Kept(c), FALSE), sealed |-> Split(s, Kept(c), TRUE)]

Store(p) ==
    /\ call[p].at = "store"
    /\ subs' = Append(subs, Submission(Schema(p), call[p]))
    /\ Goto(p, Idle)
    /\ UNCHANGED <<form, versions, retired, doc>>

FormsNext ==
    \/ \E s \in Edits : SaveDraft(s)
    \/ \E p \in Editors : PublishRead(p) \/ PublishNumber(p) \/ PublishCommit(p)
    \/ Retire \/ NewDocument
    \/ \E p \in Visitors :
         \/ Open(p) \/ Leave(p)
         \/ \E answers \in Replies, agreed \in SUBSET Purposes, named \in BOOLEAN :
              Send(p, answers, agreed, named)
         \/ WalkFails(p) \/ Walk(p) \/ Check(p) \/ Store(p)

FormsSpec == FormsInit /\ [][FormsNext]_formsVars

-----------------------------------------------------------------------------
(* Properties.                                                             *)

Walking == {p \in Visitors : call[p].at \in {"walk", "check", "store"}}

\* The state has its type: there is always a draft or a version, every version
\* passed Validate, and a call in progress is about one that exists.
FormsTypeOK ==
    /\ form.draft # None \/ versions # <<>>
    /\ form.live \in 0..Len(versions)
    /\ \A v \in DOMAIN versions : Valid(versions[v])
    /\ retired \subseteq DOMAIN versions
    /\ \A p \in Walking :
         /\ call[p].version \in DOMAIN versions
         /\ call[p].answers \in Replies
         /\ call[p].seen \subseteq PageIds
         /\ call[p].required \subseteq call[p].visible

\* Whoever publishes last is live: two editors who publish at once, or a draft
\* saved in between, never leave an older version open to visitors.
LiveIsNewest == form.live = Len(versions)

\* What Validate accepted, the engine can run: no answers of a visitor lead
\* to a page that does not exist or that was shown before.
NavigationHolds ==
    \A p \in Visitors :
        call[p].at = "walk" => ~NavigationFails(Schema(p), call[p])

\* What the search of walkGraph is for: when it finds no cycle, every page that
\* it reached leads only to pages it reached, and no set of them leads around.
SearchIsSound(s) ==
    LET reached == {id \in PageIds : WalkGraph(s).colour[id] # "white"} IN
    /\ s.pages[1].id \in reached
    /\ \A id \in reached : Ways(s, id) \subseteq reached
    /\ \A C \in (SUBSET reached) \ {{}} : \E id \in C : Ways(s, id) \cap C = {}

SearchesAreSound == \A s \in Schemas : Valid(s) => SearchIsSound(s)

\* An answer that was given was asked, and reads as given in an export, sealed
\* or not, and in the grid, where no type change split the column.  In the grid
\* a sealed answer that is not opened reads as blank, against the comments of
\* Submissions that call it masked: whoever may see it, and only when the row's
\* sealed answers can be opened, sees that it was given.
GivenReadsAsGiven ==
    \A i \in DOMAIN subs : \A f \in FieldIds :
        LET sub == subs[i]
            given == {sub.plain[f], sub.sealed[f]} \ {None, Empty} # {}
        IN given =>
             /\ f \in sub.visible
             /\ Cardinality(Variants(versions, f)) = 1 =>
                  \A opened \in BOOLEAN :
                    Row(versions, sub, opened)[f] =
                      IF sub.plain[f] \in {None, Empty} /\ ~opened THEN "blank" ELSE "answered"
             /\ ExportRow(versions, sub)[f] = "answered"

\* A change that Diff does not call breaking leaves the rows collected before
\* it as they were, in every column of the live version.  In the column of a
\* field that an earlier version asked and the live one does not, it may not:
\* the field comes back with another type as one that is added.
NonBreakingKeepsRows ==
    [][\A i \in DOMAIN subs :
         /\ Len(versions') > Len(versions)
         /\ ~Breaking(versions[form.live], versions'[Len(versions')])
         => \A f \in Asked(versions[form.live]) \cap Columns(versions), opened \in BOOLEAN :
              Row(versions', subs[i], opened)[f] = Row(versions, subs[i], opened)[f]]_formsVars
=============================================================================
