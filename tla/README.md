# Collectr: a verification project

Collectr collects form submissions under recorded consent: a public API server
(`src/cmd/collectr`), a worker (`src/cmd/collectr-worker`) that runs periodic
jobs, Postgres for everything that must last, Redis for caches, rate limits and
the event stream, and an object store for files and exports. This directory holds
TLA+ models of the parts where several transactions, processes or stores meet,
TLC configurations that check them on small instances, and TLAPS proofs of the
results that should hold for instances of any size.

Paths below are relative to `src/internal/modules/` unless they start with
`src/`. `PROJECT.json` maps every definition that models code to its lines.

To check a run: `tlc -config <run>.cfg MC<module>.tla`. To check the proofs: `tlapm`
on each of `SubjectLifecycleProofs`, `AuditChainProofs`, `LinksProofs`,
`CredentialsProofs`, `SubjectRightsProofs`, `FormsProofs`, `SignInProofs` and
`WebhookDeliveryProofs`.

## 1. The system

### Processes and what they share

* The **API server** runs one goroutine per request. Nearly all of its state is in
  Postgres; in its memory it keeps the single-flight group of the link redirect
  and the analytics fallback buffer. Several servers may run.
* The **worker** runs one goroutine per job, each a loop that runs at once and
  then at an interval, for ever, and logs a failed pass
  (`src/cmd/collectr-worker/main.go:111-230`, loop at 267-291). Jobs: event
  ingestion, funnel rollup, partition maintenance, the request processor and its
  overdue report, the retention sweeper, the token purge, export runner and
  sweeper, webhook relay, delivery and history purge, orphan-file sweeper,
  credential purge, link expiry. Nothing stops two workers from running.
* **Postgres** is used at READ COMMITTED (`src/internal/platform/postgres/postgres.go:57-89`):
  each statement sees what was committed when it began, an UPDATE waits for the
  row locks of others and re-reads, a unique index makes a second inserter wait
  for the first to end. These rules are in the models; they are where most of the
  hard behaviour comes from.
* **Redis** and the **object store** take part in no transaction. What a
  handler does to them happens before or after the commit, and may fail alone.

### Components

| Component | State it keeps | Operations | What makes it correct | Module |
| --- | --- | --- | --- | --- |
| Submission and consent recording (`forms/app/submit.go`, `consent/store`) | subjects, submissions, consent records and current consents, idempotency keys | one transaction: reserve the key, upsert the subject, data key, submission, records, audit entry | a key stores once; a person is one subject; the current consent is the last record; nothing is written under an erased subject | `SubjectLifecycle` |
| Request processor (`dsr/app/processor.go`) | requests of data subjects and their status | claim 20, erase, withdraw, answer, leave to a person, one transaction for the pass | an erased subject stays erased and leaves nothing; every erasure is carried out | `SubjectLifecycle` |
| Audit chain (`audit/chain.go`) | `audit.entries`, a hash chain for each tenant | append in the caller's transaction, verify | the chain never forks, holds exactly the committed work, and shows an edit | `AuditLog`, `AuditChain` |
| Files (`files/`) | objects, rows with a status and a submission | upload, validate, bind, sweep | no upload is attached twice, attachments stay, abandoned bytes go | `FileLifecycle` |
| Webhooks (`webhooks/`) | outbox, deliveries, endpoints with a failure streak | relay, claim, send, record, replay, delete, purge | one delivery per event and endpoint, bounded sends, disabling by a streak, everything settles | `WebhookDelivery` |
| Analytics (`analytics/app`) | Redis stream, buffer, events, rollups, cursor | collect, flush, ingest, roll up | no event vanishes unless the collector or the trimmed stream drops it, closed buckets agree with the events | `EventPipeline` |
| Identity and access (`iam/`) | accounts, memberships, project roles, invitations, sessions, cached capabilities | invite, accept, revoke, remove, grant, sign in, resolve | the last owner goes in no way but the two that the code leaves open, the removed are refused, caches follow | `OrgMembership` |
| Links (`links/`) | links, hosts of a tenant, the cached resolution of a code | redirect, create, change, delete, expire; add a host, make it the default, remove it | the cache leads nobody astray without a reason, expired links are not followed, a code keeps its host, one host is the default | `LinkCache`, `LinkDomains`, `Links` |
| Credentials (`iam/`) | password, second factor, recovery codes, reset links, sessions | set up, sign in, reset, change, enrol, confirm, disable | one set-up succeeds, links and codes work once, the factor asked for is proven, an old password opens nothing that stays open | `Credentials` |
| Subject portal (`dsr/app/service.go`, `dsr/api`) | keys of subjects, answers and revisions, requests | raise, correct, resolve, restrict, purge by age, show a history | no answer is lost from the revisions, a correction and its request come together, the restricted are left alone, the key moves with the answer | `SubjectPortal` |
| Portal access (`dsr/app/service.go`, `dsr/store`) | links to the portal, attempts counted by address and window | ask, count, issue, mail, exchange, purge | what an address asks for in a window opens the portal no more often than the limit | `PortalAccess` |
| Exports (`exports/`) | jobs, objects | request, claim, produce, open, sweep | every job ends, the erased leave the artefacts, nothing is called expired that is not | `Exports`, composed in `SubjectRights` |
| Forms and publishing (`forms/app/service.go`, `forms/store`) | drafts, versions, the live version, submissions | save, publish, open, send; the grid and the rows of an export | the newest version is live, stored answers read as they were given | `Forms`, `SubmissionGrid` |
| Form engine and validation (`forms/engine`, `forms/domain`) | none | evaluate pages and rules, validate, compare versions | what is accepted never strands a visitor | `FormSchema`, `FormValidation` |
| Reports (`analytics/store/links.go`, `links/api/stats.go`) | none | statistics of a link, most used links, link report, funnel | the parts of a report agree, up to the `LIMIT`s of the breakdowns (20 rows) and of the most used links (50) | `EventReports` |
| Workbooks, web interface, platform libraries, rate limiter | none or one counter | formatting, cryptography, plumbing | - | not modelled, see 7 |

### How they interact

* Submit, the request processor and every administrative change call the audit
  writer inside their own transaction, so they all meet at the tenant's advisory
  lock, the last lock a submission takes and, for a pass with several requests,
  one of the first the processor does.
* Submit binds files in its transaction and writes an outbox row in it; the worker
  relays outbox rows to webhook deliveries. Deleting a submission (erasure,
  retention) cascades to file rows, not to objects.
* The public page sends funnel events to the collector, which writes to Redis;
  the worker drains Redis into Postgres.
* iam and links commit to Postgres and then delete a Redis key.
* An export reads the submissions while they are corrected, restricted and erased;
  its artefact outlives them by a day at most.
* A submission is walked, checked and stored under the version that was live when
  it was sent; the grid and the exports read it under every version since.

### What is hard

Transactions that read before they lock, and commit in an order nobody chose;
values read outside the transaction that uses them (attachments, memberships, link
rows, due deliveries); Redis and the object store beside a transaction that may
still roll back; a worker that stops between two statements; jobs that run in two
workers at once; fixed batches in which old rows crowd out new ones. Section 6 and
the `hazards` of `PROJECT.json` list them at their lines.

## 2. The plan

Order, the most important behaviour first; 1 to 11 are done.

1. `SubjectLifecycle`: submissions against the request processor.
2. `AuditLog`, the abstract log, and `AuditChain`, which implements it.
3. `FileLifecycle`, `WebhookDelivery`, `EventPipeline`: the asynchronous parts.
4. `OrgMembership`: membership, sessions and the capability cache.
5. `LinkCache`: redirects against the cache; `LinkDomains` and `Links` around it.
6. Proofs: `SubjectLifecycleProofs`, `AuditChainProofs`, `LinksProofs`.
7. `SubjectPortal` and `Exports`, composed in `SubjectRights`.
8. `FormSchema`, `FormValidation`, `SubmissionGrid`, composed in `Forms`.
9. `EventReports` over `EventPipeline`; `Credentials`; `PortalAccess`, composed with
   `OrgMembership` in `SignIn`.
10. Proofs about the other components: `CredentialsProofs`, `SubjectRightsProofs`,
    `SignInProofs`, `WebhookDeliveryProofs`, and the files in `FormsProofs`.
11. Proofs about `EventPipeline` and `EventReports`, which are in `LinksProofs` because the
    reports are those of links, and about `Forms`, in `FormsProofs`.
12. Still worth doing: API keys; the soundness of the search for cycles, which `FormsProofs`
    assumes.

`AuditChain` is not composed with `SubjectLifecycle` as a whole: of the chain the
latter needs the lock alone, which it has (`auditLock`), and `AuditChain` shows
what the lock is for. A composed model would multiply the two state spaces and
say nothing more. `FileLifecycle` takes a submission as the open transaction it is
to files; `WebhookDelivery` takes it as the commit of an outbox row (`Announce`).

## 3. The modules

### SubjectLifecycle

A call of `Submitter.Submit` is a process that goes through the statements of its
transaction (`pc`): `Begin`, `ReserveIdempotency`, `UpsertSubject`,
`Record`, `WriteAudit`, `Commit`, or `Rollback` at any of them. What it has
written and not committed stays with the process (`row`) and reaches the tables
`hash`, `dek`, `stored`, `log` and `current` at the commit. A lock that orders two
transactions is a variable: the idempotency key's inserter (`keyHolder`), the row
locks of the subject and of its current consents, the audit advisory lock.

The processor's pass is one transaction, `ClaimPending` to `TickCommit` with, for
each request, `EraseDelete` and `EraseRow` (the two statements of
`erase_subject`), `Withdraw`, `Answer` or `LeaveToPerson`, and `MarkFulfilled`
with its audit entry. `TickFail` rolls the pass back. `DeadlockVictim` is
Postgres' detector: when a call and the pass wait for each other, one is rolled
back.

Left out: rule evaluation, validation and the document-hash check ahead of the
transaction (they change nothing), the encryption itself (a data key is there or
it is not), several purposes and forms (the consent of one purpose is told apart,
the others go through the same statements).

### AuditLog and AuditChain

`AuditLog` is the promise: when a transaction commits, its entries appear in
one piece at the end of the tenant's log; otherwise nothing happens; and nothing
else changes the log, except an edit behind the application, which is confined to
one tenant. `AuditChain` is the code: lock, read the head, insert with the
next sequence number and the hash of the predecessor, a primary key that makes a
second inserter wait and fail, several entries in a transaction, commit and
rollback. A hash is the sequence of what was hashed into it, so it is
equal for equal inputs and for no others. `Verified` is what `Verify` answers.
`IsAuditLog` states that `AuditChain` implements `AuditLog`: a chain is mapped to
the authors of its entries, a writer to the outcome of its transaction.

### FileLifecycle

`Put` and `InsertRow` are the two halves of an upload, `InsertFails` its clean-up,
`UploadCrash` the upload that stops in between. `Validate` runs outside the
submission's transaction, `Bind` inside it with a condition on the rows, which are
`Locked` until `Commit` or `Rollback`. The sweeper lists, and then deletes the
object and the row of one file after the other. `Erase` is the cascade. A form may be
submitted more than a day (`OrphanAge`) after its uploads: the history variable `raced`
marks the files that were attached while the sweeper which had listed them was at them or
still to come to them.

### WebhookDelivery

`RelayOpen`, `Fanout` and `RelayCommit` are the relay's transaction with its
`FOR UPDATE SKIP LOCKED`; `ClaimDue` is the claim, whose locks end with it, `Send` the
request and its answer, `Settle` the transaction that records it by the attempt
the claim had read. `UnwrapFails` is the endpoint's secret that cannot be unwrapped: the
delivery stays as it is and is claimed by the next pass. Every worker relays and delivers;
since a claim's locks end with it, two workers may hold one delivery, and a claim notes
whether another one held it (`again`), so that the history `doubled` counts what was sent
for that reason. Time is whether a delivery is due. Replay, the deletion of an
endpoint, and the purge by age come at any moment.

### EventPipeline

`Collect` has all outcomes of an XADD with a 5 ms limit: on the stream or not, told
so or not. The stream has a length, `MAXLEN ~ StreamMax`, past which Redis drops its oldest
entries when it sees fit, whether they were read or not; `Add` moves those that no consumer
had read to `trimmed`. `Read`, `Store`, `Ack` are the ingest loop, `Recompute`, `SetCursor` the
roller with its cursor in memory (`mem`) and in the database (`cursor`). Buckets
close `Lag` after their end. `Skewed` events come from a reporter whose clock is
implausible: each of their reports is stamped with the time it arrives. Events come as
late as they like, and partitions are dropped whoever still needs them: the history
variables `seen` (whatever was ever stored), `belated` (stored after a roller had passed the
bucket) and `dropped` (gone before every roller had) tell the properties which.

### OrgMembership

Each request is a process in `call`. Transactions are a step that reads and locks
and a step that writes and commits. `Resolve`, `ReadCaps`, `FillCache`, `Confirm`
are the four things a request does before it is granted: find its session, read or
fill the cached capabilities, read the membership once more. `late` marks an entry
that was out of date when it was written or whose DEL Redis refused, `was`
whether the user has been a member since the request began, and `counted` the owners that
a removal of an owner has counted: history that the properties need and no guard reads.

### LinkCache

One code on one host. `Miss`, `Join`, `ReadRow`, `Fill` are the redirect behind a
cache miss, with one look-up in flight for each server (`flight`) and the visitors
that share it; `LookupFails` ends it for all of them, because the look-up runs in
the context of the first visitor's request. Administrators commit a row and then
delete the entry, or fail to. `ExpireStale` is the worker's job. `late` is a history
variable as above.

### LinkDomains and Links

`LinkDomains` has the hosts of a tenant and which is the default. A change is what
its first statement sees (`AddDomain`, `ChooseDefault`, `AskDelete`) and what its
writes then do (`InsertDomain`, `SetDefaultDomain`, `DeleteDomain`) to the rows that
were in its snapshot. `Links`
composes it with `LinkCache`: an administrator creates the code on the host that
`ReadDefault` gave (`Insert`) and changes it after `Get` has loaded it (`Patch`,
`Delete`). While nobody follows the code, hosts change, and the other way round
(`Nobody`, `Quiet`): the two have no state in common beside the link's row, so that
leaves no case out that a property tells apart.

### SubjectPortal, Exports and SubjectRights

`SubjectPortal` starts where a submission is stored. A correction is `Rectify` (the
subject) or `RectifyOnBehalf` (an operator), which read the identity in a
transaction of their own, `LockRow` (`FOR UPDATE`), and `CommitCorrection` with the
revision, the answers, the key and the operator's request, or `AbortCorrection`.
`Fulfil` and `Reject` resolve a request, `ProcessorTick` is the worker's pass as one
step (`SubjectLifecycle` has its statements), `PurgeChoose` and `PurgeDelete` are the
two halves of the retention statement, which chooses rows before it waits for their
locks. `ReadCurrent` and `ReadRevisions` are the two statements that read a history.
`changes` is a history variable: every value the answers ever had.

`Exports` is the queue: `Request`, `Claim`, `ReadRows` or `ReadReport`, `Put`,
`Complete`, or `ProduceFails`, or `Stop` for a worker that goes away; `Expire` passes
the day, `SweepObject` and `SweepMark` are the sweeper's two deletes, `OpenJob` and
`OpenObject` the two looks a download takes. `SubjectRights` puts both over the same
submissions.

### FormSchema, FormValidation, SubmissionGrid, Forms

A schema is a record of pages, fields, rules, purposes and its own limits, if it sets any
(`EffectiveLimits`); an answer is a value of
`Values`, whose parts, numbers, formats and dates are constants. The value of a rule may be a
list; where one value is asked for, a list is `Listed`, the text it turns into. `FormSchema` is the engine:
`Holds` a condition, `Branch` and `NextPages` the navigation of a page, `Shown` and
`Required` its fields. `FormValidation` is `Validate`: structure (`StructureErrors`)
and the graph of the pages (`WalkGraph`, `EverShown`, `AlwaysHidden`). `SubmissionGrid`
has the columns of a form over its versions, the state of a cell in the grid (by whether the
row's sealed answers were asked for and could be opened, `opened`) and in an
export, and `Breaking`, what `Diff` warns of. `Forms` runs them: editors save and
publish (`PublishRead` outside the transaction, `PublishNumber` and `PublishCommit` in
it), a visitor opens a form, sends answers, is walked page by page (`Walk`), checked
(`Check`) and stored (`Store`). The messages of errors, translations and layout are
left out. `Ways` is `Edges` as a set: it has no part in a step, and is what `SearchIsSound`
and the proofs say of the search in `WalkGraph`.

### EventReports

Reports as functions of the state of `EventPipeline`: what is counted in the rollups
(`Counted`) and what raw events are left (`Raw`). A count is the set of the events
counted, so that two counts that agree by accident do not pass. A query with an ORDER BY and a
LIMIT keeps the rows that count most, and which of equals is open: it is the set of its
possible answers (`Limited`), with `MaxBreakdownRows` and `MaxTopLinks` for 20 and 50. The handlers'
refusals and windows are in `Window` and the operators named `...Answer`.

### Credentials

Each statement of a request is a step: `SignIn`, `VerifyTOTP` or `ConsumeRecoveryCode`,
`CreateSession`, `UpdatePasswordHash`; `ReplaceLinks` and `CreateResetToken`;
`FindResetToken`, the second factor and `ConsumeResetToken`; `BeginMFA`,
`VerifyEnrolment`, `SetMFA`, `DeleteOldCodes`, `StoreRecoveryCodes`,
`RevokeUserSessions`; `AskDisable`, `ClearMFA`, `DeleteRecoveryCodes`. `HasAnyUser`,
`InsertHost` and `CommitSetup` are the set-up, which comes first. A session carries the
password it was opened with and whether the password moved away from it while its
sign-in was in flight (`apart`).

### PortalAccess and SignIn

`FindSubject`, `RegisterAttempt`, `IssueToken` and `Send` are the goroutine that
`identify` starts, a transaction each, and `Stop` its end at any point. `ConsumeToken`
is the exchange of a link; a session is an event, counted for the address and window
that its link was asked for in (`opened`), because no row stands for it. `Rekey` stands
for what `SubjectPortal` does to a subject's key. `PurgeTokens` and `PurgeAttempts` are
the two statements of the hourly purge. `SignIn` puts it beside `OrgMembership`; the two
have no row in common, so one moves only while the other has not begun.

## 4. The runs

| Run | Instance | Shows |
| --- | --- | --- |
| `subject` | 2 calls, 2 people, 1 key, 2 requests (erase, withdraw, access, rectify), 1 failed pass | a key stores once, the current consent is the last record, calls wait only for calls that are further along, the erased stay erased, every erasure is carried out |
| `audit` | 3 transactions, 2 tenants, 2 entries each, edits | no fork, edits show, the chain is the abstract log |
| `files` | 2 uploads, 2 submissions that may be erased, 2 failures | attachments stay unless the sweeper was at them when they were attached, no bytes without a row, abandoned uploads go |
| `webhooks` | 2 workers that relay and deliver, 1 event, 1 endpoint, 2 attempts, disabled after 2, 1 replay, 1 failure | one delivery per event, everyone is told, sends are bounded, a streak disables, all is settled |
| `events` | 2 workers (1 of them is given entries to store), 2 events (one skewed) of 2 links and 1 form, 2 buckets, 2 reports and failures all together, a stream and a buffer of 1, raw events kept for 2 ticks, 1 row in a breakdown and 1 link among the most used | nothing vanishes that was not trimmed or dropped, closed buckets agree with the events, stored events are counted, the parts of every report agree up to its limits |
| `org` | 2 people, 2 invitations to be owner or member, 2 administrators and 1 client of which 2 at a time; apart from them 2 subjects, 1 address, 2 requests for a link, 2 links, a limit of 2, 2 windows | the last owner goes only by overlapping removals or by accepting a lesser role, the removed are refused, no operation forgets the cache; an address gets into the portal no more often than the limit |
| `links` | 2 servers, 2 visitors, 1 administrator, 2 hosts, 2 changes of hosts at a time | stale entries have a reason, expired links are not followed, a code keeps its host |
| `forms` | 2 editors, 1 visitor, 2 versions; 3 pages with 2 rules that jump, end, show, hide, require or are malformed; edits of type, options and sealing | the newest version is live, an accepted form is navigable, answers read as given, edits that are not breaking leave rows as they were |
| `portal` | 2 subjects, 2 submissions, 2 identifying values, 2 corrections, 1 request | revisions replay the answers, rectifications and corrections match, the restricted are kept, the key follows the answer |
| `exports` | 1 subject and submission, 2 jobs, 1 request, 1 failure, 1 reader | the erased leave every artefact, queued jobs end, "expired" is true |
| `credentials` | 2 set-ups, 2 calls, 2 passwords, 2 secrets, 2 links, 2 sessions, 1 set of codes | one set-up succeeds, links and codes work once, the factor is proven, no session outlives its password |
| `portal_history` (violation) | 1 submission, 2 corrections, 1 reader | a history shows a change nobody made |

Deadlock is checked but in `audit`, `forms`, `portal`, `portal_history`, `exports`,
`credentials` and `org`: there every writer, version, submission, correction, job or link of
the instance can have been used up, and an organisation whose last member has gone, with
every invitation over, does nothing more.

### Bounds, and why they are enough

* **Calls and requests.** The properties of `SubjectLifecycle` relate two calls,
  or a call and an erasure. Two requests make
  a pass that holds the audit lock of the first while it works on the second,
  which is how it deadlocks with a call. The batch of 20 is 2, as many as there are
  requests; 6 says what a full batch does. The proofs remove these bounds for all of
  the run's properties but the liveness.
* **Audit.** Two writers of one tenant and one of another, or three of one; two
  entries each, for the second append on an uncommitted first. Proved for any number.
* **Files.** Two files and two submissions can share one, both or none. Two
  failures: an object deleted whose row's delete fails, and again.
* **Webhooks.** `MaxAttempts` 8 and `DisableAfterFailures` 20 are 2 and 2: first,
  last and a streak that a replay's success interrupts. Two workers hold one delivery at
  once, which multiplies the states, so there is one event; the proofs have any number. Limits
  of 100 and 20 rows exceed the rows there are. `Announce` and sends are unbounded
  otherwise than by `MaxReplays` and `MaxFails`.
* **Events.** Two buckets and `MaxCatchUp` 1 let a roller be behind by more than
  one pass; two inputs (`MaxInputs`: reports and failures together) are a retry of one event,
  one report of each, or a report and a failure. A stream of 1 is past its length with
  the second report. The retention
  of 2 ticks drops the partition of the first bucket while a roller may still be at it.
  Both rollers run; entries to store come to one worker (`Readers`), the other one polls. Two
  links and two sources exceed the limits of 1.
* **Organisation.** Two people suffice for "the last owner and another one": an
  invitation makes the second owner, so both can be removed at once, and a second invitation
  offers a lesser role. Every such race has two requests in it (`TwoAtATime`). `FirstFirst`
  has the first invitation be `i1`, which is one of two equals. The
  view `Essence` leaves out what an invitation that is over and in nobody's hands says,
  who chose a password, and which of two administrators, or of two goroutines of the portal,
  is at what: no step depends on it and no property tells it apart. The portal's
  limit of 3 is 2: two requests race for the last attempt, and one after another; the
  second subject is who comes to be known by the address of the first.
* **Links.** Two visitors share a look-up or use two servers' look-ups, so that a
  stale fill can follow a fresh one. The entry's TTL is any length. Two hosts are the
  default and another one, two changes are enough to overlap.
* **Forms.** Three pages are the least on which a jump can skip a page, go back or
  leave the form; all combinations of two page rules from `Jumps`, and of one rule's
  two branches from `Shows`, are there, but only plain forms are edited. Two versions
  are an old and a new one; two editors race for a number.
* **Portal.** Two subjects and two values are one who takes the value of the other;
  two corrections overlap on one record or meet at one key. One request: what two do
  to each other in a pass is `SubjectLifecycle`'s.
* **Exports.** Two jobs, so that the sweeper can be at another one, and one
  submission, which is in an artefact or is not.
* **Credentials.** Two calls are what races; one set of codes suffices to be spent
  twice; a new secret and a proven one.
* `MaxFails` and `MaxFaults` bound failures in the guards of the failing actions: after
  the last one the system runs undisturbed, which is what the liveness properties are
  about.
* `portal`, `credentials`, `links` and `forms` use symmetry, which is sound there: they
  check no liveness, and the permuted values are interchangeable (a subject's and a
  record's values are permuted together with everything that names them).

### Fairness, and why the code justifies it

* A submission (`SF`): the server runs a request to its end; the lock it waits for
  is queued for in Postgres and granted in order, so a lock that is free again and
  again is granted. Weak fairness would let a waiter be overtaken for ever.
* The worker (`WF TickStep`, `WF SweepStep`, relay, deliver, roll, produce,
  sweep): the job loop runs for ever, `src/cmd/collectr-worker/main.go:267-291`.
* `DeadlockVictim` (`WF`): Postgres looks for a deadlock after `deadlock_timeout`.
* Open transactions in `FileLifecycle` end (`WF`), because requests do.
* `BecomeDue`, `Tick`, `Expire` of an export (`WF`): time passes.
* `StoredIsCounted` asks nothing of the ingest loops or the server's flushes: what is stored
  is counted by the rollers alone.
* Nobody owes a submission, a request, an invitation, a visit, a download, a failure
  or a success: none of these actions is fair. `OrgMembership`, `Links`, `Forms`,
  `SubjectPortal` alone and `Credentials` state safety only.

## 5. What is proved

The theorems hold for every value of the constants that satisfies the named
assumptions of the modules: sets of any size, finite or not, but for `Submits` of
`SubjectLifecycle` and `Users` of `OrgMembership`, which are finite because a table is.
The assumptions otherwise keep apart values that stand for nothing (`None`, `Gone`)
from those that stand for something, and say that a bound is a number. Where a theorem
needs more, it is a hypothesis of the theorem, and named below.

Each component has one inductive invariant, which TLC checked on the run's
instance (that of `Forms` on one with one editor and fewer schemas) before it was
proved, a lemma for each action or group of actions, and a theorem for each property.

**`SubjectLifecycleProofs`.** The properties are not inductive: what keeps two calls
from inserting the same subject is that the first one's row is taken from the
moment of the insert, what keeps an erased row empty is that its eraser
holds a lock which every call that stands on the row would need. The inductive
invariant `IInv` says so:

* `KeyOwned`: a key's holder is a call that carries it and is in flight or done;
* `RowHeld`: a call past its upsert holds the lock of its row, which is neither
  free nor erased;
* `ErasedHeld`: the pass holds the lock of each row it is about to erase;
* `RequestsNameRows`: a request names a committed row, so an insert that rolls back
  takes no request's subject away;
* `ErasedKeyless` and `HolderStages`: an erased row has no data key, and who
  holds a lock is at the statements that follow it.

`Inductive` has a lemma for each action. From it: `TypeCorrect`, `OneSubject`
(`OneSubjectPerIdent`), `OnePerKey` (`OneSubmissionPerKey`), `NoCircleOfCalls`
(`WaitsGoForward`: calls alone never deadlock, however many) and the action property
`ErasedForGood` (`ErasedStaysErased`).

`ConsentFollows` (`CurrentFollowsLog`) needs one part more, because the property excepts
rows whose subject asked to withdraw and the pass withdraws before it closes the
request: `WithdrawnAsked` says that whatever the pass is about to withdraw is asked for by a
request that it has closed or is at. A commit appends its records and sets the consents
from them in one step, so the rest follows from how the log grows.

**`AuditChainProofs`.** `IInv` says that whoever has read a head or inserted an
entry holds its tenant's lock (`LockHeld`), that uncommitted entries are the
writer's own and few enough (`PendingOwn`), and that the chain a transaction sees, its own
entries included, verifies and ends at the head it read (`SeenSound`). Lemmas about
chains (`AppendSound`, `VerifiedPrefix`) carry it through an append, a commit and a
rollback; `AlterInv` and `RemoveInv` show that an edited chain fails at a position which
no append can repair. Theorems: `TypeCorrect`, `NeverForks`, `NeverRefused`,
`EditsShow`, and `ImplementsLog`, the refinement of `AuditLog`, edits included.

**`LinksProofs`, links.** Neither property of the cache is inductive: the expiry of a link and
of its cached copy must pass together. `IInv` adds that a date passes only on a link
that has one (`OverOfRow`) and that whatever is cached, looked up or about to be
answered is a marker or carries the row's expiry date (`CarriesEnds`), which holds
because nothing changes the date of a link once it is created. Theorems: `TypeCorrect`,
`StaleReason` (`StaleHasReason`) and the action property `NotPastExpiry`
(`ExpiredIsGone`): only the answer step redirects, and its result carries the date. They
are about the specification of `LinkCache`, which says little of administrators;
`LinksFollow` proves that `Links`, where a change is what a request has read before,
implements it, step by step. `HostKept` (`CodesKeepTheirHost`) is about `Links` itself: a
row that refers to a host keeps it from being deleted, and a code is inserted only on a
host that is still there.

**`LinksProofs`, events and reports.** `EventPipeline` has an inductive invariant of its
own, `PipelineInv`, and no theorem about it has a hypothesis. That no event vanishes needs
`BatchHeld`: what a worker has read is pending or stored, and stored before it is
acknowledged; with it `ReportedHeld` finds every reported event without looking into a batch.
`StreamBounded` says that the stream gives entries up only when more was reported than its
length. `NothingVanishes` (`Accounted`) follows for any workers, failures and lag. What is
counted needs more. `CursorsCounted`
says that the buckets are counted up to the cursor of the row, up to the cursor that each
worker has in memory, which may be ahead of it or behind, and up to the one that it is about
to write, all but the `belated` and the `dropped`. A recompute keeps this only if it does not
take back what was counted before: the raw events since `oldest` are all there (`RawComplete`),
and one that went without being `dropped` is behind every cursor, so that nobody recomputes
its bucket (`DroppedBehind`). So `ClosedAreCounted` (`ClosedIsCounted`), which needs
`RolledSeen` for its first half, and `ReportsAddUp` (`ReportsAgree`), which needs `OldestPast`
for the day from which a breakdown is drawn. `CursorsBehind` is the types, with no cursor
ahead of the closed buckets: `oldest`, the first bucket whose partition is left, is a number and
no bucket, because a partition past the last bucket may go. The lemmas on the reports
(`Agree` and those above it) are about their definitions: `LimitedIs` says that a LIMIT
leaves whole groups out and none if there are few enough, so that breakdowns are parts of what
they are drawn from, and all of it when their LIMIT does not cut them off.

**`CredentialsProofs`.** What keeps two set-ups apart is the unique host that one of them
inserted (`OneInserts`); `OneSetup` follows from it. `UsesCounted` ties the uses of a link
or code to its row, and needs `HeldUnspent`: the links that a new request replaces
are locked by it and not consumed meanwhile. A secret that is being enabled was
proven by the request that enables it (`CallIsProven`). `SetupFirst` says that nobody is
signed in before a set-up has been answered, so that the password it writes leaves no
session behind. Theorems: `TypeCorrect`, `OneSetupOnly` (`OneSetup`), `SpentOnceOnly`
(`SpentOnce`), `NobodyLockedOut` (`EnabledIsProven`), `SessionsFollow`
(`SessionHasPassword`, whose exception for sign-ins in flight is needed, see 6).

**`SubjectRightsProofs`.** A correction that holds the row lock read what is still there:
`LockHeld` says that the record is active, is the subject's, and contains what the call
has read, which is why the revision it writes joins the ones before
(`RevisionsReplay`). `Blank` says that a record not stored yet has neither revisions nor
history. `ClosedByCorrection` compares two cardinalities; `Countable` says that the
sets are finite, since requests are a sequence. `AnswersRead` keeps
the mark of an identity that could not be read apart from answers. For exports,
`WorkerRuns`, `OverWasReady` and `GoneIsOver` say that an object goes missing only once
its lifetime is over, so that a download which finds a ready row without an object may say
so. Theorems: `TypeCorrect`, `NoCorrectionIsLost` (`RevisionsReplay`),
`RectificationsAreMade` (`ClosedByCorrection`), `OverIsOver` (`ExpiredIsOver`), and the
action properties `RestrictedIsLeftAlone` (`RestrictedIsKept`) and `KeyMovesWithAnswer`
(`KeyFollowsAnswer`). `CorrectionsAssumption` says that the identifying value of a
correction is an identifying value or none.

**`FormsProofs`, forms.** `FormsInv` has three parts. `Published`: every version was
accepted by `Validate`, the live one is the last, and there is a draft or a version.
`CallsFit`: a publication in progress carries a schema that was accepted, and a visit
a version that exists, whose schema asks whatever it has shown. `SubsFit`: a stored answer
was asked, and is sealed exactly when its field is sensitive. A version is only ever appended,
if its number is the next one, so what a call or a submission refers to stays
(`VersionsGrow`). From this:

* `FormsTypeCorrect`, `NewestIsLive` (`LiveIsNewest`): the number that `PublishNumber` read is
  the next one at the commit, or the unique constraint refuses it.
* `AnswersReadAsGiven` (`GivenReadsAsGiven`): the type of an accepted field is one of `Types`
  (`AskedHasType`), so the field has a column, and where it is the only one the cell is
  looked up in the answers the field was stored under. A sealed answer that is not opened
  reads as blank in the grid, which the property says as it is (6).
* `RowsAreKept` (the action property `NonBreakingKeepsRows`). A version that does not
  break the live one has all of its fields, with their types; so the columns of a field that
  the live version asks stay, and the column that is written last stays the last
  (`ColumnStays`), because the new version has the highest number (`LowestStays`). For a field
  that the live version does not ask, this is false (6).
* `NoWayBack` (`NavigationHolds`). `NextPagesType` shows that a page leads only to pages
  that exist and that the search of `Validate` follows too: rules, fall-through and `next`.
  That no page comes twice has the hypothesis `SearchesAreSound`: when the depth-first search
  finds no cycle, it has reached everything that can be reached, and no set of pages
  leads around. The walk keeps that every page it has seen leads on to another one or to the page
  it is at (`OnTheWay`), so that a page that comes again would close such a set. The
  hypothesis is about a recursion over the pages of a schema, an induction that
  the backends cannot do; `MCForms` assumes it, so that TLC evaluates it for
  all schemas of the run.

`SchemasAssumption` says that a schema's pages are a sequence of pages and that its fields are
among `FieldIds`, which is what the JSON decoder of a draft gives.

**`FormsProofs`, files.** `BytesHaveRows` is kept by the order in which bytes and rows are
written and deleted: bytes before the row (`BytesFirst`), an object before its row and of
an old file only (`SweptOld`). Two submissions may have found the same file free;
`BoundHold` says that of those which have bound it, one has, and the others wait.
Theorems: `NoBytesWithoutRow`, and `AttachmentsAreKept` (`AttachmentsStay`), which
needs `NotListed`: what the sweeper has listed and is not done with nobody has bound since,
unless it is in `raced`. Neither has a hypothesis.

**`SignInProofs`.** The two parts of `SignIn` are proved of their own specifications,
`Spec` of `OrgMembership` and `AccessSpec` of `PortalAccess`, which let either
move at any time; `TwoWays` proves that `SignInSpec`, which is model-checked, implements
both.

* Members. `RemovedAreRefused` (`RemovedIsRefused`) and `StaleForAReason`
  (`StaleHasReason`) hold for any users, invitations and requests, with what an
  acceptance and an invitation in progress have read (`CallsMade`, `InvsMade`).
  `AnOwnerRemains` (`OwnerRemains`) has no hypothesis: any number of administrators
  and any offers. `RemovalCounts` says that a removal which is about to take an
  owner's row has counted another owner: its lock on the row keeps an acceptance from making
  an owner of a member whose removal counted nobody. Each step is then
  looked at for what it does to the owners (`OwnersMove`, `LastOwnerStep`); the property names
  the two ways in which the last one goes (6).
* Subjects. `DoorIsCounted` (`SessionsWithinLimit`): `TicketsCounted` counts, for an
  address and a window, the sessions opened, the goroutines that were allowed a link and
  the links that may still be used. While the window lasts they are no more than the
  attempts counted, and never more than the limit: what is purged afterwards
  lets nobody in, because an attempt is only ever allowed in the window that is current.
  Cardinalities are those of sets of any size that are shown to stay finite.

**`WebhookDeliveryProofs`.** A relay's rows are its own (`RelayLocks`, from
`FOR UPDATE SKIP LOCKED`), it has a delivery ready for every endpoint of the rows it is
through with (`FannedOut`), and of what is not inserted nothing has happened (`NotYet`).
With them there is one delivery of an event that was relayed for each endpoint that is on
(`RelayedOnce`, of `QueuedOnce`). `StreaksDisable` (`DisabledByStreak`): the row of the endpoint
orders the outcomes. `RequestsAddUp` (`DeliveriesAddUp`) bounds what a receiver is sent by
`MaxAttempts` for the event and for each replay, one for each outcome lost, and those that a
dispatcher sent of a delivery which it claimed while another one held it (`doubled`). Of the
workers that hold a delivery all but one have claimed it later (`OneFirst`); `SendsCounted`
splits the budget of the first one's requests into the attempts recorded, those of
earlier replays, the outcomes lost and the request that is not recorded yet (`Room`), and
compares the attempt that it read with the one in the row, which the other dispatcher may
have moved on. All theorems hold for any number of relays and dispatchers.

**Only model-checked:**

* all liveness (`EraseIsDone`, `AbandonedIsSwept`, `EventIsSettled`, `StoredIsCounted`,
  `ErasureReachesExports`, `QueuedIsSettled`), which the prover does not do;
* `SearchesAreSound`, the hypothesis of `NoWayBack`, on the schemas of `forms`.

Every safety property of the passing runs has a theorem.

## 6. Where code and documents differ

Shown by a run (`findings` of `PROJECT.json`):

* `portal_history`: the answers on file and the revisions are read by two statements
  with a snapshot each (`forms/store/store.go:460`), although the comment above them
  says that this cannot straddle a correction; two corrections in between make the
  history list the reverse of a change.

Met while modelling. Some are excepted by name in a property of a passing run, so that the
run reaches them and shows that nothing else goes wrong; some are seen by changing an instance
as described; the rest are read from the code.

People and consent:

* `erase_subject` deletes the submissions it sees and then waits for the subject row of
  a submission in flight, whose answers survive it
  (`src/internal/migrations/0005_dsr.sql:68`; `src/docs/06-deep-dives.md:246` promises a
  hard delete): the invariant `ErasureLeavesNothing` of `SubjectLifecycle` fails with
  `subject.cfg`.
* `ClaimPending` takes the 20 oldest requests, those left to a person included
  (`dsr/store/store.go:206`; the comment at `dsr/app/processor.go:19-20` expects
  otherwise): once they fill a batch, no erasure is reached, and `EraseIsDone` fails
  with `Batch = 1`.
* A withdrawal carried out by the processor changes `current_consents` and appends
  no record (`dsr/app/processor.go:81`; `src/docs/06-deep-dives.md:213` describes an append-only
  log as the source). `CurrentFollowsLog` excepts it.
* `current_consents` takes the order of commits, `consent.records` is read by
  `occurred_at`, the start of the transaction (`consent/store/store.go:347`): the invariant
  `CurrentIsLatest` of `SubjectLifecycle` fails for two calls.
* A submission without any consent answer stores no record
  (`src/docs/06-deep-dives.md:203`; `Record` returns at once without grants).

Files, webhooks, events:

* The sweeper deletes by id what it listed before (`files/app/service.go:246`): a file that
  was bound more than a day after its upload, and since the sweeper listed it, is deleted
  under its submission. `AttachmentsStay` excepts it (`raced`).
* Nothing calls `ShredForSubject` (`files/store/store.go:243-245`), so objects of erased
  submissions stay; `BytesHaveRows` excepts them.
* Two workers that deliver, as `src/docs/07-operations.md:188` advises, send the same row
  and record over each other (`webhooks/store/store.go:182`): the receiver gets a request
  more for each (`doubled` in `DeliveriesAddUp`), and a delivery that one recorded as
  delivered is set back by the other.
* A delivery whose endpoint's secret cannot be unwrapped stays pending with no attempt
  counted (`webhooks/app/dispatcher.go:144-149`), for as long as that lasts: it is claimed by
  every pass and never dead. `EventIsSettled` supposes that it does not last (`MaxFails`).
* A delivery is sent 8 times in all (`webhooks/domain/webhook.go:39`), 7 of them
  retries; `src/docs/10-public-api.md:198` can be read as 8 retries.
* No code clears `disabled_at`, although `webhooks/domain/webhook.go:41-44` says the
  owner can enable an endpoint again; `EventIsSettled` excepts disabled endpoints.
* An event stored after its bucket was rolled up is never counted
  (`analytics/app/rollup.go:15-17`, while `analytics/api/handler.go:93` accepts events of the
  last 24 hours): `ClosedIsCounted`, `StoredIsCounted` and `ReportsAgree` except it
  (`belated`).
* XADD trims the stream to its length, entries that nobody has read included, and tells
  nobody (`analytics/app/collector.go:72-77`): an ingest loop that stops long enough loses
  events which no counter shows. `Accounted` excepts them (`trimmed`).
* Entries left pending by a failed insert are never read again: the loop asks for
  new ones only (`analytics/app/ingest.go:78`; the comment at 123-124 expects a
  retry). `Accounted` counts them as not lost, and no more.
* An event of a skewed reporter that is reported twice is stored in two buckets
  (`src/docs/06-deep-dives.md:392` promises one).
* Nothing asks the rollup cursor before raw partitions are dropped
  (`analytics/store/store.go:160`): a roller that is behind by more than the retention
  counts a bucket as empty. The properties except what went that way (`dropped`).
* Breakdowns end after 20 rows and the most used links after 50
  (`analytics/store/links.go:19`, `links/api/stats.go:134`), and no answer says that more were
  left out: with more rows the parts of a report do not add up to its totals. `ReportsAgree`
  asks it of those that were not cut off.
* The funnel's handler checks neither that the form exists nor the length or order of
  the period; the days of a link report count the clicks of deleted links while its rows
  and totals leave them out; the statements of a report have a snapshot each.

Organisation and accounts:

* Two administrators who remove the two owners at once each count the other, and no owner
  is left (`iam/store/invitations.go:286-312`, whose comment says that the last owner cannot
  be removed). Nor does the acceptance of an invitation to a lesser role look for another
  owner: the last one is demoted by accepting one that was sent before they became owner, one
  of two that are open for an address (`iam/store/invitations.go:35-36`), or one superseded
  while it was accepted. Both are in `org`; `OwnerRemains` names them and lets nothing
  else through. With two administrators a
  project role can be granted to somebody whose removal commits in between
  (`iam/store/projects.go:186-188`).
* A capability or link entry filled from a row read before the change stays until
  its TTL ends (`iam/app/service.go:261-263`, `links/app/service.go:91-104, 327-329`):
  a link on legal hold can redirect that long. `src/docs/06-deep-dives.md:28` reasons that a DEL
  cannot lose against a concurrent fill, and keeps the TTL for forgotten paths only.
  `StaleHasReason` names it as a reason (`late`).
* That two set-ups do not both succeed rests on the unique host of the link domain
  alone: both can find no user. `OneSetup` fails without it.
* Two reset requests at once leave two links that work (`iam/store/recovery.go:33-37`
  says that there is one), and two requests for new recovery codes two sets.
  `ConsumeResetToken` does not ask for the expiry again.
* A sign-in that had checked the password before a reset opens its session after the
  reset has closed them all, or writes the old hash back when it renews the hash
  (`iam/app/service.go:175-195`): `SessionHasPassword` excepts it (`apart`).
* `BeginMFA` on an account that has a second factor switches it off until the new one is
  confirmed. A server that stops between `SetMFA` and the recovery codes leaves a factor
  without codes. Whether a factor may be disabled is decided by the role in the
  organisation signed in to, whether one is needed by all of them.

Links:

* An unknown code is answered 404 the first time, and 410 from the cached marker
  (`links/app/service.go:121`).
* `SetStatus` revives a deleted link, and `Delete` ends a legal hold without an audit
  entry for it; a change names its audit action by a status read before. The retention
  sweeper (`dsr/store/store.go:514-529`) does not look at the legal hold that the
  comment at `links/api/handler.go:611-612` wants respected.
* A deleted link still keeps its host from being removed (its row refers to it), which is
  answered as an internal error. Changes of hosts that overlap can leave two defaults or
  none (`links/store/domains.go:71`), until one is chosen again; a new link goes to a default
  host if there is any, else to the oldest.

Forms:

* The comment at `forms/app/submit.go:124-126` accepts answers to an older version; the
  condition below it refuses them.
* A field whose type changed has a column for each type, and the cells of a row are kept
  by field, so that the last column's cell stands for all of them
  (`forms/app/service.go:392`, `forms/domain/diff.go:59`). `GivenReadsAsGiven` speaks of
  fields with one column in the grid.
* A field that one version drops and a later one asks again with another type is
  "field_added", which is not breaking (`forms/domain/diff.go:79-88`), because only the live
  version is compared. Its new column then takes the place of the old one in the rows, and an
  answer that was given turns into "not asked"; `forms/domain/diff.go:10` says that old
  submissions render exactly as before. With `MaxVersions = 3` the rows of such a field
  change; `NonBreakingKeepsRows` speaks of the columns of the live version.
* The grid calls a sealed answer blank unless it was opened: when it was not asked for, when
  the submission has no subject, and when opening it fails
  (`forms/app/service.go:345-354`). The comments at 350-353 and 374-379 say that it is shown
  as masked. `GivenReadsAsGiven` says what the code does.
* Only the live version and
  the draft are compared, and the grid and the export read versions and submissions in
  separate transactions.
* `alwaysHidden` refuses a required field that is hidden on a condition. `between` with
  fewer than two values is accepted and fails every submission that meets it. A form
  without an identifier can be published and never answered. A required answer of blanks
  passes. `Evaluate` goes by answers to fields that are not visible.
* A draft saved between the read of `Publish` and its transaction is cleared unseen.
  Nothing sets `retired_at`.

Rights and exports:

* A rectification that a subject raises can only be rejected: an operator's correction
  is recorded as a request of its own (`dsr/api/admin.go:226`). An operator who fulfils an
  erasure before the worker closes it with nothing erased (`dsr/api/admin.go:166-229`).
* An operator's correction whose read of the identity failed changes the answer and
  leaves the key (`dsr/api/rectify.go:130`); of two corrections that overlap the later one
  compares with an identity that has changed since, and notifies an address that is no
  longer the old one. `KeyFollowsAnswer` excepts both.
* Nothing calls `IssueReceipt` (`dsr/app/service.go:334`): the receipt a submission is
  answered with (`forms/app/submit.go:192`, `src/docs/06-deep-dives.md:285`) is in no
  table and opens nothing, and every session covers all of a subject. Links are limited
  by address, not by network too (`src/docs/06-deep-dives.md:280`).
* A link that was asked for before a correction moved the subject to another address,
  or before an erasure, still opens the portal: `IssueToken` and `ConsumeToken` do not
  look at the subject again.
* The retention statement deletes a row that was restricted while it waited for its lock;
  restricted rows are never purged, later submissions of the subject are not restricted,
  and `ListSubmissions` (`forms/store/store.go:378`) shows restricted rows.
* A running export whose worker stops stays `running`: nothing claims it again, its
  object has no row that leads the sweeper to it, and `src/docs/09-reporting-export.md:24`
  describes a time limit and three attempts. `QueuedIsSettled` excepts it (`stopped`).
  The audit entry of a request is written afterwards, in a transaction whose failure is
  only logged. A link report is requested with one capability and downloaded with
  another.

## 7. What is not modelled, and why

* API keys, whose check is one read of one row. The counters that limit sign-ins and
  resets, which are those of `PortalAccess` over other tables, and the limiter in Redis,
  which serves what it cannot count.
* Projects and organisations as such: rows that are created and renamed.
* Audit reading and the lists of forms, submissions, documents, endpoints: queries that
  change nothing.
* Workbooks, web pages, QR codes: presentation.
* Cryptography, password hashing, TOTP, signatures, SQL drivers, HTTP plumbing,
  configuration, metrics, e-mail: stateless, or libraries.
* The other HTTP handlers: they decode and check authorisation; the state changes they call
  are those of the components above.
* Partition maintenance and the purge jobs that delete by age alone, but for the
  webhook history, which is an action of `WebhookDelivery` because it can meet a
  replay.
* Timing: durations are never compared; a timeout, a TTL or an age is an event that
  comes at any moment.
