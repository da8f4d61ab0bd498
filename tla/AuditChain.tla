----------------------------- MODULE AuditChain -----------------------------
(***************************************************************************)
(* The audit hash chain: transactions append entries to their tenant's     *)
(* chain, each entry carrying the next sequence number and the hash of its *)
(* predecessor, and Verify walks the chain.                                *)
(*                                                                         *)
(* Writer.Write runs inside its caller's transaction: take the tenant's    *)
(* advisory lock, read the head, insert.  A caller may write several       *)
(* entries before it commits (the request processor does).  A hash is the  *)
(* sequence of what was hashed into it: equal only for equal inputs.       *)
(***************************************************************************)
EXTENDS Naturals, Sequences, FiniteSets

CONSTANTS
    Writers,    \* transactions that write audit entries, one each
    Tenants,
    MaxWrites,  \* bound: how many entries one transaction writes
    Tampering   \* whether someone edits the table behind the application

None == "none"
Genesis == <<>>

ASSUME WritersAssumption == None \notin Writers
ASSUME MaxWritesAssumption == MaxWrites \in Nat \ {0}
ASSUME TamperingAssumption == Tampering \in BOOLEAN

VARIABLES
    entries,    \* audit.entries, committed, by tenant in seq order
    lock,       \* who holds the tenant's advisory lock
    step,       \* [Writers -> where the transaction is]
    tenant,     \* [Writers -> its tenant]
    head,       \* [Writers -> the head it read last]
    pending,    \* [Writers -> the entries it inserted and has not committed]
    tampered    \* the tenants whose entries were edited

vars == <<entries, lock, step, tenant, head, pending, tampered>>

GenesisHead == [seq |-> 0, hash |-> Genesis]

Init ==
    /\ entries = [t \in Tenants |-> <<>>]
    /\ lock = [t \in Tenants |-> None]
    /\ step = [w \in Writers |-> "new"]
    /\ tenant \in [Writers -> Tenants]
    /\ head = [w \in Writers |-> GenesisHead]
    /\ pending = [w \in Writers |-> <<>>]
    /\ tampered = {}

\* A mutant: the content is left out of the hash.
ChainHashOfPosition(prev, seq, content) == Append(prev, <<seq>>)

\* An entry's hash covers its predecessor's hash and its own content.
ChainHash(prev, seq, content) == Append(prev, <<seq, content>>)

Hashes == Seq(Nat \X Writers)
EntrySet == [seq : Nat, prev : Hashes, by : Writers, hash : Hashes]

GoTo(w, s) == step' = [step EXCEPT ![w] = s]

\* The chain as w sees it: what is committed and what it wrote itself.
Seen(w) == entries[tenant[w]] \o pending[w]

Begin(w) ==
    /\ step[w] = "new"
    /\ GoTo(w, "open")
    /\ UNCHANGED <<entries, lock, tenant, head, pending, tampered>>

\* pg_advisory_xact_lock: waits, and is held until the transaction ends.
Lock(w) ==
    /\ step[w] = "open" /\ Len(pending[w]) < MaxWrites
    /\ lock[tenant[w]] \in {None, w}
    /\ lock' = [lock EXCEPT ![tenant[w]] = w]
    /\ GoTo(w, "locked")
    /\ UNCHANGED <<entries, tenant, head, pending, tampered>>

\* A mutant: ORDER BY seq DESC LIMIT 1 without the tenant in the WHERE clause.
HeadOfAll(w, chain) ==
    LET rows == UNION {{entries[t][i] : i \in 1..Len(entries[t])} : t \in Tenants}
                  \cup {chain[i] : i \in 1..Len(chain)}
    IN IF rows = {} THEN GenesisHead
       ELSE LET e == CHOOSE x \in rows : \A y \in rows : y.seq <= x.seq
            IN [seq |-> e.seq, hash |-> e.hash]

\* ORDER BY seq DESC LIMIT 1, the genesis hash for an empty chain.
HeadOf(w, chain) ==
    IF chain = <<>> THEN GenesisHead
    ELSE [seq |-> chain[Len(chain)].seq, hash |-> chain[Len(chain)].hash]

ReadHead(w) ==
    /\ step[w] = "locked"
    /\ head' = [head EXCEPT ![w] = HeadOf(w, Seen(w))]
    /\ GoTo(w, "read")
    /\ UNCHANGED <<entries, lock, tenant, pending, tampered>>

\* The next sequence number, linked to the head.
NewEntry(w) ==
    LET n == head[w].seq + 1 IN
    [seq |-> n, prev |-> head[w].hash, by |-> w, hash |-> ChainHash(head[w].hash, n, w)]

\* The primary key (tenant_id, seq) is taken by a committed entry ...
Taken(w) == \E i \in 1..Len(entries[tenant[w]]) : entries[tenant[w]][i].seq = head[w].seq + 1

\* ... or by one that waits for its own commit.
InTheWay(w) ==
    \E v \in Writers \ {w} :
        /\ tenant[v] = tenant[w]
        /\ \E i \in 1..Len(pending[v]) : pending[v][i].seq = head[w].seq + 1

\* A unique violation fails the statement, and with it the transaction.
Insert(w) ==
    /\ step[w] = "read" /\ ~InTheWay(w)
    /\ IF Taken(w)
       THEN GoTo(w, "refused") /\ UNCHANGED pending
       ELSE /\ pending' = [pending EXCEPT ![w] = Append(@, NewEntry(w))]
            /\ GoTo(w, "open")
    /\ UNCHANGED <<entries, lock, tenant, head, tampered>>

ReleaseLock(w) ==
    lock' = [t \in Tenants |-> IF lock[t] = w THEN None ELSE lock[t]]

Commit(w) ==
    /\ step[w] = "open" /\ pending[w] # <<>>
    /\ entries' = [entries EXCEPT ![tenant[w]] = @ \o pending[w]]
    /\ pending' = [pending EXCEPT ![w] = <<>>]
    /\ ReleaseLock(w)
    /\ GoTo(w, "committed")
    /\ UNCHANGED <<tenant, head, tampered>>

Open(w) == step[w] \in {"open", "locked", "read", "refused"}

\* A mutant: the entry is written on a connection of its own.
RollbackKeeping(w) ==
    /\ Open(w)
    /\ entries' = [entries EXCEPT ![tenant[w]] = @ \o pending[w]]
    /\ pending' = [pending EXCEPT ![w] = <<>>]
    /\ ReleaseLock(w)
    /\ GoTo(w, "aborted")
    /\ UNCHANGED <<tenant, head, tampered>>

\* The work or the append failed: the entries go with the work.
Rollback(w) ==
    /\ Open(w)
    /\ pending' = [pending EXCEPT ![w] = <<>>]
    /\ ReleaseLock(w)
    /\ GoTo(w, "aborted")
    /\ UNCHANGED <<entries, tenant, head, tampered>>

\* Someone with the table owner's rights edits an entry's content, or removes
\* one that has a successor.  Bound: one edit per chain (a second one could put
\* the first one right).
Alter(t, i, w) ==
    /\ Tampering /\ t \notin tampered /\ entries[t][i].by # w
    /\ entries' = [entries EXCEPT ![t][i].by = w]
    /\ tampered' = tampered \cup {t}
    /\ UNCHANGED <<lock, step, tenant, head, pending>>

Remove(t, i) ==
    /\ Tampering /\ t \notin tampered /\ i < Len(entries[t])
    /\ entries' = [entries EXCEPT ![t] = SubSeq(@, 1, i - 1) \o SubSeq(@, i + 1, Len(@))]
    /\ tampered' = tampered \cup {t}
    /\ UNCHANGED <<lock, step, tenant, head, pending>>

Next ==
    \/ \E w \in Writers :
          \/ Begin(w) \/ Lock(w) \/ ReadHead(w) \/ Insert(w)
          \/ Commit(w) \/ Rollback(w)
    \/ \E t \in Tenants : \E i \in 1..Len(entries[t]) :
          Remove(t, i) \/ \E w \in Writers : Alter(t, i, w)

Spec == Init /\ [][Next]_vars

-----------------------------------------------------------------------------
\* What Verify checks of the entry at position i of a chain: the sequence has
\* no gap, the link is the predecessor's hash, the hash is the content's.
Sound(chain, i) ==
    LET e == chain[i] IN
    /\ e.seq = i
    /\ e.prev = IF i = 1 THEN Genesis ELSE chain[i - 1].hash
    /\ e.hash = ChainHash(e.prev, e.seq, e.by)

\* Verify answers valid.
Verified(chain) == \A i \in 1..Len(chain) : Sound(chain, i)

\* Every variable keeps its type.
TypeOK ==
    /\ entries \in [Tenants -> Seq(EntrySet)]
    /\ lock \in [Tenants -> Writers \cup {None}]
    /\ step \in [Writers -> {"new", "open", "locked", "read", "refused",
                             "committed", "aborted"}]
    /\ tenant \in [Writers -> Tenants]
    /\ head \in [Writers -> [seq : Nat, hash : Hashes]]
    /\ pending \in [Writers -> Seq(EntrySet)]
    /\ tampered \subseteq Tenants

\* Concurrent transactions never leave a chain that Verify calls broken
\* (Writer.Write under the tenant's lock).
ChainNeverForks ==
    \A t \in Tenants : t \notin tampered => Verified(entries[t])

\* A transaction is never refused because another one took the sequence number
\* it read: the lock outlives the commit of its holder.
AppendNeverRefused == \A w \in Writers : step[w] # "refused" \/ tenant[w] \in tampered

\* An edited chain never verifies, whatever is appended afterwards.
TamperingShows == \A t \in tampered : ~Verified(entries[t])

\* Who wrote the entries of a chain.
Authors(chain) == [i \in 1..Len(chain) |-> chain[i].by]

\* The chain is an append-only log of committed work.
AsLog == INSTANCE AuditLog WITH
    edited <- tampered,
    log <- [t \in Tenants |-> Authors(entries[t])],
    outcome <- [w \in Writers |->
        IF step[w] \in {"committed", "aborted"} THEN step[w] ELSE "open"]

\* Each commit appends its own entries in one piece and nothing else does, but
\* for an edit behind the application, which touches its own chain only.
IsAuditLog == AsLog!Spec
=============================================================================
