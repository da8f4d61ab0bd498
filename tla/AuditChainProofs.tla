-------------------------- MODULE AuditChainProofs --------------------------
(***************************************************************************)
(* Proofs about AuditChain, for any number of transactions, tenants and    *)
(* entries: untampered chains verify, appends are never refused, and the   *)
(* chain implements the append-only log.                                   *)
(***************************************************************************)
EXTENDS AuditChain, SequenceTheorems, TLAPS

\* Whoever reads the head or has uncommitted entries holds the lock.
LockHeld ==
    \A w \in Writers :
        step[w] \in {"locked", "read"} \/ pending[w] # <<>> => lock[tenant[w]] = w

\* A transaction's own entries name it, and it has room for the one it is at.
PendingOwn ==
    \A w \in Writers :
        /\ \A i \in 1..Len(pending[w]) : pending[w][i].by = w
        /\ Len(pending[w]) <= MaxWrites
        /\ step[w] \in {"locked", "read"} => Len(pending[w]) < MaxWrites
        /\ step[w] \in {"new", "committed", "aborted"} => pending[w] = <<>>

\* The chain a transaction sees verifies, and the head it read is its last.
SeenSound ==
    \A w \in Writers : tenant[w] \notin tampered =>
        /\ Verified(Seen(w))
        /\ step[w] # "refused"
        /\ step[w] = "read" => head[w] = HeadOf(w, Seen(w))

\* The inductive invariant.
IInv ==
    /\ TypeOK /\ LockHeld /\ PendingOwn /\ SeenSound
    /\ ChainNeverForks /\ TamperingShows

USE WritersAssumption, MaxWritesAssumption, TamperingAssumption

-----------------------------------------------------------------------------
(* Facts about chains.                                                     *)

\* The head of a verified chain counts its entries.
LEMMA HeadCounts ==
    ASSUME NEW chain \in Seq(EntrySet), Verified(chain), NEW w
    PROVE  /\ HeadOf(w, chain).seq = Len(chain)
           /\ HeadOf(w, chain).hash = IF chain = <<>> THEN Genesis ELSE chain[Len(chain)].hash
<1>1. CASE chain = <<>>
  BY <1>1, EmptySeq DEF HeadOf, GenesisHead
<1>2. CASE chain # <<>>
  <2>1. Len(chain) \in 1..Len(chain)
    BY <1>2, EmptySeq
  <2>2. chain[Len(chain)].seq = Len(chain)
    BY <2>1 DEF Verified, Sound
  <2> QED BY <1>2, <2>2 DEF HeadOf
<1> QED BY <1>1, <1>2

\* The head of a chain is a head.
LEMMA HeadType ==
    ASSUME NEW chain \in Seq(EntrySet), NEW w
    PROVE  HeadOf(w, chain) \in [seq : Nat, hash : Hashes]
<1>1. CASE chain = <<>>
  BY <1>1 DEF HeadOf, GenesisHead, Genesis, Hashes
<1>2. CASE chain # <<>>
  <2>1. Len(chain) \in 1..Len(chain)
    BY <1>2, EmptySeq
  <2>2. chain[Len(chain)] \in EntrySet
    BY <2>1, ElementOfSeq
  <2> QED BY <1>2, <2>2 DEF HeadOf, EntrySet
<1> QED BY <1>1, <1>2

\* An entry built on the head of a verified chain keeps it verified.
LEMMA AppendSound ==
    ASSUME NEW chain \in Seq(EntrySet), Verified(chain), NEW e \in EntrySet,
           e.seq = Len(chain) + 1,
           e.prev = IF chain = <<>> THEN Genesis ELSE chain[Len(chain)].hash,
           e.hash = ChainHash(e.prev, e.seq, e.by)
    PROVE  Verified(Append(chain, e))
<1> DEFINE longer == Append(chain, e)
<1>1. /\ Len(longer) = Len(chain) + 1 /\ Len(chain) \in Nat
      /\ \A i \in 1..Len(chain) : longer[i] = chain[i]
      /\ longer[Len(chain) + 1] = e
  BY AppendProperties, LenProperties
<1>2. chain = <<>> <=> Len(chain) = 0
  BY EmptySeq
<1> HIDE DEF longer
<1>3. ASSUME NEW i \in 1..Len(longer) PROVE Sound(longer, i)
  <2>1. CASE i \in 1..Len(chain)
    <3>1. Sound(chain, i)
      BY <2>1 DEF Verified
    <3>2. i # 1 => i - 1 \in 1..Len(chain)
      BY <1>1, <2>1
    <3> QED BY <1>1, <2>1, <3>1, <3>2 DEF Sound
  <2>2. CASE i = Len(chain) + 1
    <3>1. CASE Len(chain) = 0
      BY <1>1, <1>2, <2>2, <3>1 DEF Sound
    <3>2. CASE Len(chain) # 0
      <4>1. longer[i - 1] = chain[Len(chain)]
        BY <1>1, <2>2, <3>2
      <4> QED BY <1>1, <1>2, <2>2, <3>2, <4>1 DEF Sound
    <3> QED BY <3>1, <3>2
  <2> QED BY <1>1, <1>3, <2>1, <2>2
<1> QED BY <1>3 DEF Verified, longer

\* The entry built on a head is an entry.
LEMMA NewEntryType ==
    ASSUME TypeOK, NEW w \in Writers
    PROVE  NewEntry(w) \in EntrySet
<1>1. head[w].seq \in Nat /\ head[w].hash \in Hashes
  BY DEF TypeOK
<1>2. <<head[w].seq + 1, w>> \in Nat \X Writers
  BY <1>1
<1>3. ChainHash(head[w].hash, head[w].seq + 1, w) \in Hashes
  BY <1>1, <1>2, AppendProperties DEF ChainHash, Hashes
<1> QED BY <1>1, <1>3 DEF NewEntry, EntrySet

\* A part of a verified chain that starts at its start is verified.
LEMMA VerifiedPrefix ==
    ASSUME NEW a \in Seq(EntrySet), NEW b \in Seq(EntrySet), Verified(a \o b)
    PROVE  Verified(a)
<1>1. /\ Len(a \o b) = Len(a) + Len(b) /\ Len(a) \in Nat /\ Len(b) \in Nat
      /\ \A i \in 1..Len(a) : (a \o b)[i] = a[i]
  BY ConcatProperties, LenProperties
<1>2. ASSUME NEW i \in 1..Len(a) PROVE Sound(a, i)
  <2>1. i \in 1..Len(a \o b) /\ (i # 1 => i - 1 \in 1..Len(a))
    BY <1>1
  <2>2. Sound(a \o b, i)
    BY <2>1 DEF Verified
  <2> QED BY <1>1, <2>1, <2>2 DEF Sound
<1> QED BY <1>2 DEF Verified

\* An entry at the end of the second of two chains is at the end of the whole.
LEMMA ConcatAppend ==
    ASSUME NEW S, NEW a \in Seq(S), NEW b \in Seq(S), NEW e \in S
    PROVE  a \o Append(b, e) = Append(a \o b, e)
<1>1. <<e>> \in Seq(S) /\ a \o b \in Seq(S)
  BY ConcatProperties
<1>2. Append(b, e) = b \o <<e>> /\ Append(a \o b, e) = (a \o b) \o <<e>>
  BY <1>1, AppendIsConcat
<1> QED BY <1>1, <1>2, ConcatAssociative

\* What a transaction sees is a chain; with no entries of its own, the
\* committed one.
LEMMA SeenType ==
    ASSUME TypeOK, NEW w \in Writers
    PROVE  /\ tenant[w] \in Tenants
           /\ entries[tenant[w]] \in Seq(EntrySet) /\ pending[w] \in Seq(EntrySet)
           /\ Seen(w) \in Seq(EntrySet)
           /\ pending[w] = <<>> => Seen(w) = entries[tenant[w]]
<1>1. /\ tenant[w] \in Tenants
      /\ entries[tenant[w]] \in Seq(EntrySet) /\ pending[w] \in Seq(EntrySet)
  BY DEF TypeOK
<1> QED BY <1>1, ConcatProperties, ConcatEmptySeq DEF Seen

-----------------------------------------------------------------------------
(* Each action preserves the invariant.                                    *)

\* A new transaction sees the committed chain.
LEMMA BeginInv ==
    ASSUME IInv, NEW w \in Writers, Begin(w)
    PROVE  IInv'
<1>1. TypeOK'
  BY DEF IInv, TypeOK, Begin, GoTo
<1>2. LockHeld'
  BY DEF IInv, TypeOK, LockHeld, Begin, GoTo
<1>3. PendingOwn'
  BY DEF IInv, TypeOK, PendingOwn, Begin, GoTo
<1>4. SeenSound'
  BY DEF IInv, TypeOK, SeenSound, Begin, GoTo, Seen
<1>5. ChainNeverForks' /\ TamperingShows'
  BY DEF IInv, ChainNeverForks, TamperingShows, Begin
<1> QED BY <1>1, <1>2, <1>3, <1>4, <1>5 DEF IInv

\* The lock was free or its holder's own.
LEMMA LockInv ==
    ASSUME IInv, NEW w \in Writers, Lock(w)
    PROVE  IInv'
<1>1. TypeOK'
  BY DEF IInv, TypeOK, Lock, GoTo
<1>2. LockHeld'
  BY DEF IInv, TypeOK, LockHeld, Lock, GoTo, None
<1>3. PendingOwn'
  BY DEF IInv, TypeOK, PendingOwn, Lock, GoTo
<1>4. SeenSound'
  BY DEF IInv, TypeOK, SeenSound, Lock, GoTo, Seen
<1>5. ChainNeverForks' /\ TamperingShows'
  BY DEF IInv, ChainNeverForks, TamperingShows, Lock
<1> QED BY <1>1, <1>2, <1>3, <1>4, <1>5 DEF IInv

\* The head is the last of what the holder of the lock sees.
LEMMA ReadHeadInv ==
    ASSUME IInv, NEW w \in Writers, ReadHead(w)
    PROVE  IInv'
<1>0. HeadOf(w, Seen(w)) \in [seq : Nat, hash : Hashes]
  BY SeenType, HeadType DEF IInv
<1>1. TypeOK'
  BY <1>0 DEF IInv, TypeOK, ReadHead, GoTo
<1>2. LockHeld'
  BY DEF IInv, TypeOK, LockHeld, ReadHead, GoTo
<1>3. PendingOwn'
  BY DEF IInv, TypeOK, PendingOwn, ReadHead, GoTo
<1>4. \A v \in Writers : Seen(v)' = Seen(v)
  BY DEF ReadHead, Seen
<1>5. \A v \in Writers : HeadOf(v, Seen(v))' = HeadOf(v, Seen(v))
  BY <1>4 DEF HeadOf
<1>6. SeenSound'
  BY <1>4, <1>5 DEF IInv, TypeOK, SeenSound, ReadHead, GoTo
<1>7. ChainNeverForks' /\ TamperingShows'
  BY DEF IInv, ChainNeverForks, TamperingShows, ReadHead
<1> QED BY <1>1, <1>2, <1>3, <1>6, <1>7 DEF IInv

\* In an untampered chain the next sequence number is free, and the new entry
\* continues what the transaction sees.
LEMMA InsertSound ==
    ASSUME IInv, NEW w \in Writers, step[w] = "read", tenant[w] \notin tampered
    PROVE  ~Taken(w) /\ Verified(Append(Seen(w), NewEntry(w)))
<1>1. /\ Seen(w) \in Seq(EntrySet) /\ Verified(Seen(w))
      /\ head[w] = HeadOf(w, Seen(w))
  BY SeenType DEF IInv, SeenSound
<1>2. /\ head[w].seq = Len(Seen(w))
      /\ head[w].hash = IF Seen(w) = <<>> THEN Genesis ELSE Seen(w)[Len(Seen(w))].hash
  BY <1>1, HeadCounts
<1>3. Verified(Append(Seen(w), NewEntry(w)))
  <2>1. NewEntry(w) \in EntrySet
    BY NewEntryType DEF IInv
  <2>2. /\ NewEntry(w).seq = Len(Seen(w)) + 1
        /\ NewEntry(w).prev = head[w].hash
        /\ NewEntry(w).hash =
              ChainHash(NewEntry(w).prev, NewEntry(w).seq, NewEntry(w).by)
    BY <1>2 DEF NewEntry
  <2> QED BY <1>1, <1>2, <2>1, <2>2, AppendSound
<1>4. ~Taken(w)
  <2>1. /\ entries[tenant[w]] \in Seq(EntrySet) /\ pending[w] \in Seq(EntrySet)
    BY SeenType DEF IInv
  <2>2. /\ Len(Seen(w)) = Len(entries[tenant[w]]) + Len(pending[w])
        /\ Len(entries[tenant[w]]) \in Nat /\ Len(pending[w]) \in Nat
    BY <2>1, ConcatProperties, LenProperties DEF Seen
  <2>3. Verified(entries[tenant[w]])
    BY <1>1, <2>1, VerifiedPrefix DEF Seen
  <2>4. \A i \in 1..Len(entries[tenant[w]]) : entries[tenant[w]][i].seq = i
    BY <2>3 DEF Verified, Sound
  <2>5. ASSUME Taken(w) PROVE FALSE
    <3>1. PICK i \in 1..Len(entries[tenant[w]]) :
             entries[tenant[w]][i].seq = head[w].seq + 1
      BY <2>5 DEF Taken
    <3>2. i = Len(Seen(w)) + 1
      BY <1>2, <2>4, <3>1
    <3>3. Len(entries[tenant[w]]) <= Len(Seen(w)) /\ Len(Seen(w)) \in Nat
      <4>1. ASSUME NEW m \in Nat, NEW n \in Nat PROVE m <= m + n /\ m + n \in Nat
        OBVIOUS
      <4>2. Len(entries[tenant[w]]) \in Nat /\ Len(pending[w]) \in Nat
        BY <2>2
      <4>3. Len(Seen(w)) = Len(entries[tenant[w]]) + Len(pending[w])
        BY <2>2
      <4> QED BY ONLY <4>1, <4>2, <4>3
    <3>4. i <= Len(entries[tenant[w]]) /\ i \in Nat
      BY <2>2, <3>1
    <3>5. \A m, n \in Nat : m <= n => ~(n + 1 <= m)
      OBVIOUS
    <3>6. Len(entries[tenant[w]]) \in Nat
      BY <2>2
    <3> QED BY ONLY <3>2, <3>3, <3>4, <3>5, <3>6
  <2> QED BY <2>5
<1> QED BY <1>3, <1>4

\* An insert extends what its own transaction sees and nothing else.
LEMMA InsertInv ==
    ASSUME IInv, NEW w \in Writers, Insert(w)
    PROVE  IInv'
<1>0. /\ NewEntry(w) \in EntrySet /\ NewEntry(w).by = w
      /\ pending[w] \in Seq(EntrySet) /\ entries[tenant[w]] \in Seq(EntrySet)
  BY NewEntryType, SeenType DEF IInv, NewEntry
<1>1. CASE Taken(w)
  <2>0. /\ step' = [step EXCEPT ![w] = "refused"] /\ step[w] = "read"
        /\ UNCHANGED <<pending, entries, lock, tenant, head, tampered>>
    BY <1>1 DEF Insert, GoTo
  <2>1. TypeOK'
    BY <2>0 DEF IInv, TypeOK
  <2>2. LockHeld'
    BY <2>0 DEF IInv, TypeOK, LockHeld
  <2>3. PendingOwn'
    BY <2>0 DEF IInv, TypeOK, PendingOwn
  <2>4. tenant[w] \in tampered
    BY <1>1, <2>0, InsertSound
  <2>5. \A v \in Writers : Seen(v)' = Seen(v)
    BY <2>0 DEF Seen
  <2>6. \A v \in Writers : HeadOf(v, Seen(v))' = HeadOf(v, Seen(v))
    BY <2>5 DEF HeadOf
  <2>7. SeenSound'
    BY <2>0, <2>4, <2>5, <2>6 DEF IInv, TypeOK, SeenSound
  <2>8. ChainNeverForks' /\ TamperingShows'
    BY <2>0 DEF IInv, ChainNeverForks, TamperingShows
  <2> QED BY <2>1, <2>2, <2>3, <2>7, <2>8 DEF IInv
<1>2. CASE ~Taken(w)
  <2>0. /\ step' = [step EXCEPT ![w] = "open"] /\ step[w] = "read"
        /\ pending' = [pending EXCEPT ![w] = Append(pending[w], NewEntry(w))]
        /\ UNCHANGED <<entries, lock, tenant, head, tampered>>
    BY <1>2 DEF Insert, GoTo
  <2>00. Append(pending[w], NewEntry(w)) \in Seq(EntrySet)
    BY <1>0, AppendProperties
  <2>1. TypeOK'
    BY <2>0, <2>00 DEF IInv, TypeOK
  <2>2. LockHeld'
    BY <2>0 DEF IInv, TypeOK, LockHeld
  <2>3. PendingOwn'
    <3>1. /\ Len(pending[w]) \in Nat /\ Len(pending[w]) < MaxWrites
          /\ \A i \in 1..Len(pending[w]) : pending[w][i].by = w
      BY <1>0, <2>0, LenProperties DEF IInv, PendingOwn
    <3>2. /\ Len(Append(pending[w], NewEntry(w))) = Len(pending[w]) + 1
          /\ \A i \in 1..Len(pending[w]) :
                Append(pending[w], NewEntry(w))[i] = pending[w][i]
          /\ Append(pending[w], NewEntry(w))[Len(pending[w]) + 1] = NewEntry(w)
      BY <1>0, AppendProperties
    <3>3. pending'[w] = Append(pending[w], NewEntry(w)) /\ step'[w] = "open"
      BY <2>0 DEF IInv, TypeOK
    <3>4. \A v \in Writers \ {w} : pending'[v] = pending[v] /\ step'[v] = step[v]
      BY <2>0 DEF IInv, TypeOK
    <3>5. /\ \A i \in 1..Len(pending'[w]) : pending'[w][i].by = w
          /\ Len(pending'[w]) <= MaxWrites
      BY <1>0, <3>1, <3>2, <3>3
    <3> QED BY <3>3, <3>4, <3>5 DEF IInv, PendingOwn
  <2>4. SeenSound'
    <3>1. Seen(w)' = Append(Seen(w), NewEntry(w))
      <4>1. Seen(w)' = entries[tenant[w]] \o Append(pending[w], NewEntry(w))
        BY <2>0 DEF Seen, IInv, TypeOK
      <4>2. \A a \in Seq(EntrySet), b \in Seq(EntrySet), e \in EntrySet :
               a \o Append(b, e) = Append(a \o b, e)
        BY ConcatAppend
      <4>3. entries[tenant[w]] \o Append(pending[w], NewEntry(w))
               = Append(entries[tenant[w]] \o pending[w], NewEntry(w))
        BY ONLY <1>0, <4>2
      <4> QED BY <4>1, <4>3 DEF Seen
    <3>2. \A v \in Writers \ {w} : Seen(v)' = Seen(v) /\ step'[v] = step[v]
      BY <2>0 DEF Seen, IInv, TypeOK
    <3>3. step'[w] = "open"
      BY <2>0 DEF IInv, TypeOK
    <3>4. tenant[w] \notin tampered => Verified(Seen(w)')
      BY <2>0, <3>1, InsertSound
    <3>5. \A v \in Writers \ {w} : HeadOf(v, Seen(v))' = HeadOf(v, Seen(v))
      BY <3>2 DEF HeadOf
    <3>6. Verified(Seen(w))' <=> Verified(Seen(w)')
      BY DEF Verified, Sound
    <3>7. \A v \in Writers \ {w} : Verified(Seen(v))' <=> Verified(Seen(v))
      BY <3>2 DEF Verified, Sound
    <3> QED BY <2>0, <3>2, <3>3, <3>4, <3>5, <3>6, <3>7 DEF IInv, SeenSound
  <2>5. ChainNeverForks' /\ TamperingShows'
    BY <2>0 DEF IInv, ChainNeverForks, TamperingShows
  <2> QED BY <2>1, <2>2, <2>3, <2>4, <2>5 DEF IInv
<1> QED BY <1>1, <1>2

\* A commit publishes what its transaction saw, and nobody else of the tenant
\* is between reading a head and committing.
LEMMA CommitInv ==
    ASSUME IInv, NEW w \in Writers, Commit(w)
    PROVE  IInv'
<1> DEFINE t == tenant[w]
<1>0. /\ t \in Tenants /\ lock[t] = w /\ step[w] = "open"
      /\ entries[t] \in Seq(EntrySet) /\ pending[w] \in Seq(EntrySet)
      /\ Seen(w) \in Seq(EntrySet)
  BY SeenType DEF IInv, LockHeld, Commit
<1>1. /\ step' = [step EXCEPT ![w] = "committed"]
      /\ entries' = [entries EXCEPT ![t] = Seen(w)]
      /\ pending' = [pending EXCEPT ![w] = <<>>]
      /\ lock' = [u \in Tenants |-> IF lock[u] = w THEN None ELSE lock[u]]
      /\ UNCHANGED <<tenant, head, tampered>>
  BY <1>0 DEF Commit, GoTo, ReleaseLock, Seen
<1>2. TypeOK'
  BY <1>0, <1>1 DEF IInv, TypeOK
<1>3. LockHeld'
  <2>1. \A v \in Writers \ {w} : step'[v] = step[v] /\ pending'[v] = pending[v]
    BY <1>1 DEF IInv, TypeOK
  <2>2. step'[w] = "committed" /\ pending'[w] = <<>>
    BY <1>1 DEF IInv, TypeOK
  <2>3. \A v \in Writers \ {w} : lock[tenant[v]] = v => lock'[tenant[v]] = v
    BY <1>1 DEF IInv, TypeOK
  <2> QED BY <1>1, <2>1, <2>2, <2>3 DEF IInv, LockHeld
<1>4. PendingOwn'
  BY <1>1 DEF IInv, TypeOK, PendingOwn
<1>5. ASSUME NEW v \in Writers, v # w, tenant[v] = t
      PROVE  pending[v] = <<>> /\ step[v] \notin {"locked", "read"}
  BY <1>0, <1>5 DEF IInv, LockHeld
<1>6. ASSUME NEW v \in Writers, tenant[v] = t
      PROVE  Seen(v)' = Seen(w)
  <2>1. pending'[v] = <<>> /\ entries'[t] = Seen(w) /\ tenant'[v] = t
    BY <1>0, <1>1, <1>5, <1>6 DEF IInv, TypeOK
  <2> QED BY <1>0, <2>1, ConcatEmptySeq DEF Seen
<1>7. ASSUME NEW v \in Writers, tenant[v] # t
      PROVE  Seen(v)' = Seen(v) /\ step'[v] = step[v]
  BY <1>0, <1>1, <1>7 DEF Seen, IInv, TypeOK
<1>8. \A v \in Writers : (Verified(Seen(v))' <=> Verified(Seen(v)'))
                         /\ HeadOf(v, Seen(v))' = HeadOf(v, Seen(v)')
  BY DEF Verified, Sound, HeadOf
<1>9. SeenSound'
  <2> SUFFICES ASSUME NEW v \in Writers, tenant[v] \notin tampered
               PROVE  /\ Verified(Seen(v)')
                      /\ step'[v] # "refused"
                      /\ step'[v] = "read" => head[v] = HeadOf(v, Seen(v)')
    BY <1>1, <1>8 DEF SeenSound
  <2>1. CASE tenant[v] = t
    <3>1. Verified(Seen(w)) /\ step[v] # "refused"
      BY <2>1 DEF IInv, SeenSound
    <3>2. step'[v] = IF v = w THEN "committed" ELSE step[v]
      BY <1>1 DEF IInv, TypeOK
    <3> QED BY <1>5, <1>6, <2>1, <3>1, <3>2
  <2>2. CASE tenant[v] # t
    BY <1>7, <2>2 DEF IInv, SeenSound
  <2> QED BY <2>1, <2>2
<1>10. ChainNeverForks' /\ TamperingShows'
  <2>1. \A u \in Tenants : entries'[u] = IF u = t THEN Seen(w) ELSE entries[u]
    BY <1>0, <1>1 DEF IInv, TypeOK
  <2>2. t \notin tampered => Verified(Seen(w))
    BY DEF IInv, SeenSound
  <2>3. t \in tampered => ~Verified(Seen(w))
    BY <1>0, VerifiedPrefix DEF IInv, TamperingShows, Seen
  <2>4. tampered \subseteq Tenants
    BY DEF IInv, TypeOK
  <2>5. \A u \in Tenants : Verified(entries[u])' <=> Verified(entries'[u])
    BY DEF Verified, Sound
  <2> QED BY <1>1, <2>1, <2>2, <2>3, <2>4, <2>5 DEF IInv, ChainNeverForks, TamperingShows
<1> QED BY <1>2, <1>3, <1>4, <1>9, <1>10 DEF IInv

\* A rollback takes the transaction's own entries away.
LEMMA RollbackInv ==
    ASSUME IInv, NEW w \in Writers, Rollback(w)
    PROVE  IInv'
<1>0. /\ entries[tenant[w]] \in Seq(EntrySet) /\ pending[w] \in Seq(EntrySet)
  BY SeenType DEF IInv
<1>1. /\ step' = [step EXCEPT ![w] = "aborted"]
      /\ pending' = [pending EXCEPT ![w] = <<>>]
      /\ lock' = [u \in Tenants |-> IF lock[u] = w THEN None ELSE lock[u]]
      /\ UNCHANGED <<entries, tenant, head, tampered>>
  BY DEF Rollback, GoTo, ReleaseLock
<1>2. TypeOK'
  BY <1>0, <1>1 DEF IInv, TypeOK
<1>3. LockHeld'
  <2>1. \A v \in Writers \ {w} : step'[v] = step[v] /\ pending'[v] = pending[v]
    BY <1>1 DEF IInv, TypeOK
  <2>2. step'[w] = "aborted" /\ pending'[w] = <<>>
    BY <1>1 DEF IInv, TypeOK
  <2>3. \A v \in Writers \ {w} : lock[tenant[v]] = v => lock'[tenant[v]] = v
    BY <1>1 DEF IInv, TypeOK
  <2> QED BY <1>1, <2>1, <2>2, <2>3 DEF IInv, LockHeld
<1>4. PendingOwn'
  BY <1>1 DEF IInv, TypeOK, PendingOwn
<1>5. SeenSound'
  <2>1. /\ Seen(w)' = entries[tenant[w]]
        /\ tenant[w] \notin tampered => Verified(entries[tenant[w]])
    <3>1. Seen(w)' = entries[tenant[w]] \o <<>>
      BY <1>1 DEF Seen, IInv, TypeOK
    <3> QED BY <1>0, <3>1, ConcatEmptySeq DEF IInv, ChainNeverForks, TypeOK
  <2>2. step'[w] = "aborted"
    BY <1>1 DEF IInv, TypeOK
  <2>3. \A v \in Writers \ {w} : Seen(v)' = Seen(v) /\ step'[v] = step[v]
    BY <1>1 DEF Seen, IInv, TypeOK
  <2>4. \A v \in Writers : (Verified(Seen(v))' <=> Verified(Seen(v)'))
                           /\ HeadOf(v, Seen(v))' = HeadOf(v, Seen(v)')
    BY DEF Verified, Sound, HeadOf
  <2> QED BY <1>1, <2>1, <2>2, <2>3, <2>4 DEF IInv, SeenSound
<1>6. ChainNeverForks' /\ TamperingShows'
  BY <1>1 DEF IInv, ChainNeverForks, TamperingShows
<1> QED BY <1>2, <1>3, <1>4, <1>5, <1>6 DEF IInv

\* An edit that breaks its chain leaves the invariant of the others alone.
LEMMA EditInv ==
    ASSUME IInv, NEW t \in Tenants, NEW chain \in Seq(EntrySet), ~Verified(chain),
           entries' = [entries EXCEPT ![t] = chain], tampered' = tampered \cup {t},
           UNCHANGED <<lock, step, tenant, head, pending>>
    PROVE  IInv'
<1>1. TypeOK'
  BY DEF IInv, TypeOK
<1>2. LockHeld' /\ PendingOwn'
  BY DEF IInv, LockHeld, PendingOwn
<1>3. SeenSound'
  <2>1. \A v \in Writers : tenant[v] # t => Seen(v)' = Seen(v)
    BY DEF Seen, IInv, TypeOK
  <2>2. \A v \in Writers : (Verified(Seen(v))' <=> Verified(Seen(v)'))
                           /\ HeadOf(v, Seen(v))' = HeadOf(v, Seen(v)')
    BY DEF Verified, Sound, HeadOf
  <2> QED BY <2>1, <2>2 DEF IInv, SeenSound
<1>4. ChainNeverForks' /\ TamperingShows'
  <2>1. \A u \in Tenants : entries'[u] = IF u = t THEN chain ELSE entries[u]
    BY DEF IInv, TypeOK
  <2>2. \A u \in Tenants : Verified(entries[u])' <=> Verified(entries'[u])
    BY DEF Verified, Sound
  <2>3. tampered \subseteq Tenants
    BY DEF IInv, TypeOK
  <2> QED BY <2>1, <2>2, <2>3 DEF IInv, ChainNeverForks, TamperingShows
<1> QED BY <1>1, <1>2, <1>3, <1>4 DEF IInv

\* An altered entry no longer has the hash of its content.
LEMMA AlterInv ==
    ASSUME IInv, NEW t \in Tenants, NEW i \in 1..Len(entries[t]), NEW w \in Writers,
           Alter(t, i, w)
    PROVE  IInv'
<1> DEFINE e == entries[t][i]
           altered == [entries[t] EXCEPT ![i].by = w]
<1>1. /\ entries[t] \in Seq(EntrySet) /\ Verified(entries[t]) /\ e.by # w
      /\ t \notin tampered
  BY DEF IInv, TypeOK, ChainNeverForks, Alter
<1>2. e \in EntrySet
  BY <1>1, ElementOfSeq
<1>3. [e EXCEPT !.by = w] \in EntrySet
  BY <1>2 DEF EntrySet
<1>4. altered = [entries[t] EXCEPT ![i] = [e EXCEPT !.by = w]]
  OBVIOUS
<1>5. /\ altered \in Seq(EntrySet) /\ Len(altered) = Len(entries[t])
      /\ altered[i] = [e EXCEPT !.by = w]
  BY <1>1, <1>3, <1>4, ExceptSeq
<1>6. ~Verified(altered)
  <2>1. ASSUME Verified(altered) PROVE FALSE
    <3>1. Sound(entries[t], i) /\ Sound(altered, i)
      BY <1>1, <1>5, <2>1 DEF Verified
    <3>2. /\ e.hash = ChainHash(e.prev, e.seq, e.by)
          /\ e.hash = ChainHash(e.prev, e.seq, w)
      BY <1>2, <1>5, <3>1 DEF Sound, EntrySet
    <3>3. e.prev \in Hashes /\ <<e.seq, e.by>> \in Nat \X Writers
          /\ <<e.seq, w>> \in Nat \X Writers
      BY <1>2 DEF EntrySet
    <3>4. <<e.seq, e.by>> = <<e.seq, w>>
      BY <3>2, <3>3, AppendInjective DEF ChainHash, Hashes
    <3> QED BY <1>1, <3>4
  <2> QED BY <2>1
<1>7. /\ entries' = [entries EXCEPT ![t] = altered] /\ tampered' = tampered \cup {t}
      /\ UNCHANGED <<lock, step, tenant, head, pending>>
  BY DEF Alter
<1> HIDE DEF altered
<1> QED BY <1>5, <1>6, <1>7, EditInv

\* Where an entry was removed the next one has the wrong sequence number.
LEMMA RemoveInv ==
    ASSUME IInv, NEW t \in Tenants, NEW i \in 1..Len(entries[t]), Remove(t, i)
    PROVE  IInv'
<1> DEFINE c == entries[t]
           before == SubSeq(c, 1, i - 1)
           after == SubSeq(c, i + 1, Len(c))
           shorter == before \o after
<1>1. c \in Seq(EntrySet) /\ Verified(c) /\ i < Len(c) /\ Len(c) \in Nat
  BY LenProperties DEF IInv, TypeOK, ChainNeverForks, Remove
<1>2. \A j \in 1..Len(c) : c[j] \in EntrySet
  BY <1>1, ElementOfSeq
<1> HIDE DEF c
<1>3. /\ before \in Seq(EntrySet) /\ Len(before) = i - 1
      /\ after \in Seq(EntrySet) /\ Len(after) = Len(c) - i
      /\ after[1] = c[i + 1]
  <2>1. before \in Seq(EntrySet) /\ Len(before) = IF 1 <= i - 1 THEN i - 1 - 1 + 1 ELSE 0
    BY <1>1, <1>2, SubSeqProperties DEF c
  <2>2. /\ after \in Seq(EntrySet)
        /\ Len(after) = IF i + 1 <= Len(c) THEN Len(c) - (i + 1) + 1 ELSE 0
        /\ \A j \in 1..(Len(c) - (i + 1) + 1) : after[j] = c[i + 1 + j - 1]
    <3>1. i + 1 \in Int /\ Len(c) \in Int /\ \A j \in (i + 1)..Len(c) : c[j] \in EntrySet
      BY <1>1, <1>2 DEF c
    <3> QED BY ONLY <3>1, SubSeqProperties
  <2> QED BY <1>1, <2>1, <2>2 DEF c
<1>4. /\ shorter \in Seq(EntrySet) /\ Len(shorter) = Len(c) - 1 /\ shorter[i] = c[i + 1]
  <2> HIDE DEF before, after
  <2>1. /\ shorter \in Seq(EntrySet) /\ Len(shorter) = Len(before) + Len(after)
        /\ \A j \in 1..(Len(before) + Len(after)) :
              shorter[j] = IF j <= Len(before) THEN before[j] ELSE after[j - Len(before)]
    BY <1>3, ConcatProperties
  <2>2. i \in 1..Len(c)
    BY DEF c
  <2> QED BY <1>1, <1>3, <2>1, <2>2
<1>5. ~Verified(shorter)
  <2> HIDE DEF shorter
  <2>1. i \in 1..Len(c) /\ i + 1 \in 1..Len(c) /\ i \in 1..Len(shorter)
    BY <1>1, <1>4 DEF c
  <2>2. c[i + 1].seq = i + 1
    BY <1>1, <2>1 DEF Verified, Sound
  <2> QED BY <1>4, <2>1, <2>2 DEF Verified, Sound
<1>6. /\ entries' = [entries EXCEPT ![t] = shorter] /\ tampered' = tampered \cup {t}
      /\ UNCHANGED <<lock, step, tenant, head, pending>>
  BY DEF Remove, c
<1> HIDE DEF shorter
<1> QED BY <1>4, <1>5, <1>6, EditInv

\* The invariant holds in every state.
LEMMA Inductive == Spec => []IInv
<1>1. Init => IInv
  <2> SUFFICES ASSUME Init PROVE IInv
    OBVIOUS
  <2>1. TypeOK
    BY EmptySeq DEF Init, TypeOK, GenesisHead, Genesis, Hashes
  <2>2. \A w \in Writers : pending[w] = <<>> /\ step[w] = "new" /\ entries[tenant[w]] = <<>>
    BY DEF Init
  <2>3. \A w \in Writers : Seen(w) = <<>>
    BY <2>1, <2>2, SeenType
  <2>4. Verified(<<>>) /\ Len(<<>>) = 0
    BY EmptySeq DEF Verified
  <2>5. LockHeld /\ PendingOwn
    BY <2>2, <2>4 DEF LockHeld, PendingOwn
  <2>6. SeenSound
    BY <2>2, <2>3, <2>4 DEF SeenSound
  <2>7. ChainNeverForks /\ TamperingShows
    BY <2>4 DEF Init, ChainNeverForks, TamperingShows
  <2> QED BY <2>1, <2>5, <2>6, <2>7 DEF IInv
<1>2. IInv /\ [Next]_vars => IInv'
  <2> SUFFICES ASSUME IInv, [Next]_vars PROVE IInv'
    OBVIOUS
  <2>1. CASE UNCHANGED vars
    <3>1. TypeOK' /\ LockHeld' /\ PendingOwn'
      BY <2>1 DEF vars, IInv, TypeOK, LockHeld, PendingOwn
    <3>2. \A v \in Writers : Seen(v)' = Seen(v)
      BY <2>1 DEF vars, Seen
    <3>3. \A v \in Writers : HeadOf(v, Seen(v))' = HeadOf(v, Seen(v))
      BY <3>2 DEF HeadOf
    <3>4. SeenSound'
      BY <2>1, <3>2, <3>3 DEF vars, IInv, SeenSound
    <3>5. ChainNeverForks' /\ TamperingShows'
      BY <2>1 DEF vars, IInv, ChainNeverForks, TamperingShows
    <3> QED BY <3>1, <3>4, <3>5 DEF IInv
  <2>2. ASSUME NEW w \in Writers, Begin(w) PROVE IInv'
    BY <2>2, BeginInv
  <2>3. ASSUME NEW w \in Writers, Lock(w) PROVE IInv'
    BY <2>3, LockInv
  <2>4. ASSUME NEW w \in Writers, ReadHead(w) PROVE IInv'
    BY <2>4, ReadHeadInv
  <2>5. ASSUME NEW w \in Writers, Insert(w) PROVE IInv'
    BY <2>5, InsertInv
  <2>6. ASSUME NEW w \in Writers, Commit(w) PROVE IInv'
    BY <2>6, CommitInv
  <2>7. ASSUME NEW w \in Writers, Rollback(w) PROVE IInv'
    BY <2>7, RollbackInv
  <2>8. ASSUME NEW t \in Tenants, NEW i \in 1..Len(entries[t]), NEW w \in Writers,
               Alter(t, i, w)
        PROVE  IInv'
    BY <2>8, AlterInv
  <2>9. ASSUME NEW t \in Tenants, NEW i \in 1..Len(entries[t]), Remove(t, i) PROVE IInv'
    BY <2>9, RemoveInv
  <2> QED BY <2>1, <2>2, <2>3, <2>4, <2>5, <2>6, <2>7, <2>8, <2>9 DEF Next
<1> QED BY <1>1, <1>2, PTL DEF Spec

-----------------------------------------------------------------------------
(* The theorems.                                                           *)

\* Every variable keeps its type.
THEOREM TypeCorrect == Spec => []TypeOK
BY Inductive, PTL DEF IInv

\* Whatever transactions run side by side, an unedited chain verifies.
THEOREM NeverForks == Spec => []ChainNeverForks
BY Inductive, PTL DEF IInv

\* No transaction fails because another one took its sequence number.
THEOREM NeverRefused == Spec => []AppendNeverRefused
<1>1. IInv => AppendNeverRefused
  BY DEF IInv, SeenSound, AppendNeverRefused
<1> QED BY <1>1, Inductive, PTL

\* An edit inside a chain is found however many entries follow it.
THEOREM EditsShow == Spec => []TamperingShows
BY Inductive, PTL DEF IInv

-----------------------------------------------------------------------------
(* The chain implements the append-only log.                               *)

\* The authors of a chain's entries are a sequence of writers.
LEMMA AuthorsType ==
    ASSUME NEW c \in Seq(EntrySet)
    PROVE  /\ Authors(c) \in Seq(Writers) /\ Len(Authors(c)) = Len(c)
           /\ \A i \in 1..Len(c) : Authors(c)[i] = c[i].by
<1>1. Len(c) \in Nat /\ \A i \in 1..Len(c) : c[i] \in EntrySet
  BY ElementOfSeq, LenProperties
<1>2. \A i \in 1..Len(c) : c[i].by \in Writers
  BY <1>1 DEF EntrySet
<1>3. Authors(c) \in [1..Len(c) -> Writers]
  BY <1>2 DEF Authors
<1>4. Authors(c) \in Seq(Writers)
  BY <1>1, <1>3, SeqDef
<1>5. Len(Authors(c)) = Len(c)
  BY <1>1, <1>3, <1>4, LenProperties
<1> QED BY <1>4, <1>5 DEF Authors

\* The authors of two chains in a row are the authors of each in a row.
LEMMA AuthorsConcat ==
    ASSUME NEW a \in Seq(EntrySet), NEW b \in Seq(EntrySet)
    PROVE  Authors(a \o b) = Authors(a) \o Authors(b)
<1> DEFINE whole == Authors(a \o b)
           parts == Authors(a) \o Authors(b)
<1>1. /\ a \o b \in Seq(EntrySet) /\ Len(a \o b) = Len(a) + Len(b)
      /\ \A i \in 1..(Len(a) + Len(b)) :
            (a \o b)[i] = IF i <= Len(a) THEN a[i] ELSE b[i - Len(a)]
  BY ConcatProperties
<1>2. /\ whole \in Seq(Writers) /\ Len(whole) = Len(a) + Len(b)
      /\ \A i \in 1..(Len(a) + Len(b)) : whole[i] = (a \o b)[i].by
  BY <1>1, AuthorsType
<1>3. /\ Authors(a) \in Seq(Writers) /\ Len(Authors(a)) = Len(a)
      /\ \A i \in 1..Len(a) : Authors(a)[i] = a[i].by
      /\ Authors(b) \in Seq(Writers) /\ Len(Authors(b)) = Len(b)
      /\ \A i \in 1..Len(b) : Authors(b)[i] = b[i].by
      /\ Len(a) \in Nat /\ Len(b) \in Nat
  BY AuthorsType, LenProperties
<1>4. /\ parts \in Seq(Writers) /\ Len(parts) = Len(a) + Len(b)
      /\ \A i \in 1..(Len(a) + Len(b)) :
            parts[i] = IF i <= Len(a) THEN Authors(a)[i] ELSE Authors(b)[i - Len(a)]
  <2>1. /\ parts \in Seq(Writers)
        /\ Len(parts) = Len(Authors(a)) + Len(Authors(b))
        /\ \A i \in 1..(Len(Authors(a)) + Len(Authors(b))) :
              parts[i] = IF i <= Len(Authors(a)) THEN Authors(a)[i]
                         ELSE Authors(b)[i - Len(Authors(a))]
    BY <1>3, ConcatProperties
  <2> HIDE DEF parts
  <2> QED BY <1>3, <2>1
<1> HIDE DEF whole, parts
<1>5. ASSUME NEW i \in 1..(Len(a) + Len(b)) PROVE whole[i] = parts[i]
  <2>1. CASE i <= Len(a)
    BY <1>1, <1>2, <1>3, <1>4, <2>1
  <2>2. CASE ~(i <= Len(a))
    <3>1. i - Len(a) \in 1..Len(b)
      BY <1>3, <2>2
    <3> QED BY <1>1, <1>2, <1>3, <1>4, <2>2, <3>1
  <2> QED BY <2>1, <2>2
<1>6. whole = parts
  BY <1>2, <1>4, <1>5, SeqEqual
<1> QED BY <1>6 DEF whole, parts

\* A commit appends a block of its own entries, a rollback gives up, and
\* nothing else touches the log, unless someone edits the table.
THEOREM ImplementsLog == Spec => IsAuditLog
<1> DEFINE log == [t \in Tenants |-> Authors(entries[t])]
           outcome == [w \in Writers |->
               IF step[w] \in {"committed", "aborted"} THEN step[w] ELSE "open"]
<1>1. Init => AsLog!Init
  <2> SUFFICES ASSUME Init PROVE AsLog!Init
    OBVIOUS
  <2>1. Authors(<<>>) = <<>>
    BY EmptySeq, AuthorsType
  <2> QED BY <2>1 DEF Init, AsLog!Init
<1>2. IInv /\ [Next]_vars => [AsLog!Next]_<<log, outcome, tampered>>
  <2> SUFFICES ASSUME IInv, [Next]_vars PROVE [AsLog!Next]_<<log, outcome, tampered>>
    OBVIOUS
  <2> USE DEF IInv, TypeOK
  <2>1. ASSUME entries' = entries,
               \/ UNCHANGED step
               \/ \E w \in Writers, s \in {"open", "locked", "read", "refused"} :
                     /\ step[w] \notin {"committed", "aborted"}
                     /\ step' = [step EXCEPT ![w] = s]
        PROVE  UNCHANGED <<log, outcome>>
    BY <2>1
  <2>2. CASE UNCHANGED vars
    BY <2>1, <2>2 DEF vars
  <2>3. ASSUME NEW w \in Writers, Begin(w) \/ Lock(w) \/ ReadHead(w) \/ Insert(w)
        PROVE  UNCHANGED <<log, outcome, tampered>>
    BY <2>1, <2>3 DEF Begin, Lock, ReadHead, Insert, GoTo
  <2>4. ASSUME NEW w \in Writers, NEW t \in Tenants, t = tenant[w], Commit(w)
        PROVE  AsLog!AppendBlock(w, t)
    <3> DEFINE block == Authors(pending[w])
    <3>1. /\ t \in Tenants /\ entries[t] \in Seq(EntrySet)
          /\ pending[w] \in Seq(EntrySet) /\ pending[w] # <<>>
          /\ \A i \in 1..Len(pending[w]) : pending[w][i].by = w
          /\ Len(pending[w]) <= MaxWrites
      BY <2>4 DEF PendingOwn, Commit
    <3>2. Len(pending[w]) \in 1..MaxWrites
      BY <3>1, EmptySeq, LenProperties
    <3>3. block \in AsLog!Blocks(w)
      <4>1. block \in [1..Len(pending[w]) -> {w}]
        BY <3>1 DEF Authors
      <4> QED BY <3>2, <4>1 DEF AsLog!Blocks
    <3>4. entries' = [entries EXCEPT ![t] = entries[t] \o pending[w]]
      BY <2>4 DEF Commit
    <3>5. Authors(entries[t] \o pending[w]) = Authors(entries[t]) \o block
      BY <3>1, AuthorsConcat
    <3>6. log' = [log EXCEPT ![t] = log[t] \o block]
      <4>1. \A u \in Tenants : entries'[u] = IF u = t THEN entries[t] \o pending[w] ELSE entries[u]
        BY <3>1, <3>4
      <4>2. log' = [u \in Tenants |-> Authors(entries'[u])]
        BY DEF Authors
      <4> HIDE DEF block
      <4> QED BY <3>1, <3>5, <4>1, <4>2
    <3>7. outcome[w] = "open" /\ outcome' = [outcome EXCEPT ![w] = "committed"]
      BY <2>4 DEF Commit, GoTo
    <3>8. UNCHANGED tampered
      BY <2>4 DEF Commit
    <3> QED BY <3>3, <3>6, <3>7, <3>8 DEF AsLog!AppendBlock
  <2>5. ASSUME NEW w \in Writers, Rollback(w)
        PROVE  AsLog!GiveUp(w)
    <3>1. outcome[w] = "open" /\ outcome' = [outcome EXCEPT ![w] = "aborted"]
      BY <2>5 DEF Rollback, Open, GoTo
    <3>2. UNCHANGED <<log, tampered>>
      BY <2>5 DEF Rollback
    <3> QED BY <3>1, <3>2 DEF AsLog!GiveUp
  <2>6. ASSUME NEW t \in Tenants, NEW i, Remove(t, i) \/ \E w \in Writers : Alter(t, i, w)
        PROVE  AsLog!Edit(t)
    <3>1. /\ t \notin tampered /\ tampered' = tampered \cup {t} /\ UNCHANGED outcome
          /\ \A u \in Tenants \ {t} : entries'[u] = entries[u]
      BY <2>6 DEF Remove, Alter
    <3>2. \A u \in Tenants \ {t} : log'[u] = log[u]
      BY <3>1 DEF Authors
    <3>3. log' = [log EXCEPT ![t] = log'[t]]
      BY <3>2
    <3> QED BY <3>1, <3>3 DEF AsLog!Edit
  <2>7. CASE Next
    <3>1. CASE \E w \in Writers : Begin(w) \/ Lock(w) \/ ReadHead(w) \/ Insert(w)
      BY <2>3, <3>1
    <3>2. CASE \E w \in Writers : Commit(w)
      <4>1. PICK w \in Writers : Commit(w)
        BY <3>2
      <4>2. PICK t \in Tenants : t = tenant[w]
        OBVIOUS
      <4>3. AsLog!AppendBlock(w, t)
        BY <2>4, <4>1, <4>2
      <4> QED BY <4>1, <4>2, <4>3 DEF AsLog!Next
    <3>3. CASE \E w \in Writers : Rollback(w)
      BY <2>5, <3>3 DEF AsLog!Next
    <3>4. CASE \E t \in Tenants : \E i \in 1..Len(entries[t]) :
                  Remove(t, i) \/ \E w \in Writers : Alter(t, i, w)
      BY <2>6, <3>4 DEF AsLog!Next
    <3> QED BY <2>7, <3>1, <3>2, <3>3, <3>4 DEF Next
  <2> QED BY <2>2, <2>7
<1> HIDE DEF log, outcome
<1>3. AsLog!Spec <=> AsLog!Init /\ [][AsLog!Next]_<<log, outcome, tampered>>
  BY DEF AsLog!Spec, log, outcome
<1> QED BY <1>1, <1>2, <1>3, Inductive, PTL DEF Spec, IsAuditLog
=============================================================================
