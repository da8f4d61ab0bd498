--------------------------- MODULE OrgMembership ---------------------------
(***************************************************************************)
(* One organisation with one project: who belongs to it, who holds a role  *)
(* in the project, who is signed in, and the cache of capabilities that    *)
(* Resolve answers from.  Administrators invite, revoke, remove and grant; *)
(* clients accept invitations, sign in and send requests.                  *)
(*                                                                         *)
(* Transactions are READ COMMITTED: each is a step that reads and a step   *)
(* that writes and commits, with the row locks it holds in between.        *)
(***************************************************************************)
EXTENDS Integers, FiniteSets

CONSTANTS
    Users,    \* addresses: people who have or may get an account
    Founders, \* the owners at the start
    Invs,     \* invitation ids
    Offers,   \* the roles invitations offer
    Admins,   \* requests of administrators in progress at a time
    Clients,  \* requests of others in progress at a time
    None

Procs == Admins \cup Clients
Roles == {"owner", "member"}

ASSUME FoundersAssumption == Founders \subseteq Users /\ Founders # {}
ASSUME OffersAssumption == Offers \subseteq Roles
ASSUME UsersAssumption == IsFiniteSet(Users)
ASSUME NoneAssumption == None \notin Users \cup Invs \cup Procs \cup Roles

VARIABLES
    account, \* iam.users: [Users -> who chose the password, None if no account]
    member,  \* iam.org_members: [Users -> role, None for others]
    worker,  \* iam.project_members: users with a role in the project
    inv,     \* iam.invitations: [Invs -> status and offer]
    session, \* users with a live row in iam.sessions
    cache,   \* the cached capabilities in Redis: [Users -> entry or None]
    call     \* [Procs -> the request in progress]

vars == <<account, member, worker, inv, session, cache, call>>

Idle == [at |-> "idle"]
Unused == [status |-> "none", user |-> None, role |-> None, works |-> FALSE]

Init ==
    /\ account = [u \in Users |-> IF u \in Founders THEN u ELSE None]
    /\ member = [u \in Users |-> IF u \in Founders THEN "owner" ELSE None]
    /\ worker = {} /\ session = {}
    /\ inv = [i \in Invs |-> Unused]
    /\ cache = [u \in Users |-> None]
    /\ call = [p \in Procs |-> Idle]

Goto(p, next) == call' = [call EXCEPT ![p] = next]

Owners == {u \in Users : member[u] = "owner"}

\* Capabilities: an owner's reach everything, a member's only the project.
Caps(u) ==
    IF member[u] = "owner" THEN {"manage", "work"}
    ELSE IF member[u] # None /\ u \in worker THEN {"work"}
    ELSE {}

\* SELECT ... FOR UPDATE of RemoveMember holds the member's row.
MemberLocked(u) == \E p \in Procs : call[p].at = "remove" /\ call[p].user = u

\* The DELETE of CreateInvitation holds the invitations it supersedes.
InvLocked(i) == \E p \in Procs : call[p].at = "invite" /\ i \in call[p].drop

OpenFor(u) == {i \in Invs : inv[i].status = "open" /\ inv[i].user = u}

\* An id nobody has used yet.
Free(i) ==
    /\ inv[i] = Unused
    /\ \A p \in Procs : ~(call[p].at = "invite" /\ call[p].inv = i)

-----------------------------------------------------------------------------
(* Invitations.                                                            *)

\* CreateInvitation: no member yet; earlier ones for the address are deleted.
Invite(p, i, u, role, works) ==
    /\ call[p] = Idle /\ member[u] = None /\ Free(i)
    /\ \A j \in OpenFor(u) : ~InvLocked(j)
    /\ Goto(p, [at |-> "invite", inv |-> i, user |-> u, role |-> role,
                works |-> works, drop |-> OpenFor(u)])
    /\ UNCHANGED <<account, member, worker, inv, session, cache>>

InviteCommit(p, i) ==
    /\ call[p].at = "invite" /\ i = call[p].inv
    /\ inv' = [j \in Invs |->
         IF j = i THEN [status |-> "open", user |-> call[p].user,
                        role |-> call[p].role, works |-> call[p].works]
         ELSE IF j \in call[p].drop THEN [inv[j] EXCEPT !.status = "gone"]
         ELSE inv[j]]
    /\ Goto(p, Idle)
    /\ UNCHANGED <<account, member, worker, session, cache>>

\* RevokeInvitation; an invitation that has expired ends the same way.
Revoke(p, i) ==
    /\ call[p] = Idle /\ inv[i].status = "open" /\ ~InvLocked(i)
    /\ inv' = [inv EXCEPT ![i].status = "gone"]
    /\ UNCHANGED <<account, member, worker, session, cache, call>>

\* FindInvitation, FindUserByEmail and the hash of the password.
Accept(p, i) ==
    /\ call[p] = Idle /\ inv[i].status = "open"
    /\ Goto(p, [at |-> "accept", inv |-> i])
    /\ UNCHANGED <<account, member, worker, inv, session, cache>>

\* The reads of Store.AcceptInvitation: is it open still, is there an account?
AcceptCheck(p) ==
    /\ call[p].at = "accept"
    /\ LET i == call[p].inv IN
       IF inv[i].status = "open"
       THEN Goto(p, [at |-> "join", inv |-> i, new |-> account[inv[i].user] = None])
       ELSE Goto(p, Idle)
    /\ UNCHANGED <<account, member, worker, inv, session, cache>>

\* The invitation the call holds, and its writes but for the account.
Joining(p, i, u) ==
    /\ call[p].at = "join" /\ i = call[p].inv /\ u = inv[i].user
    /\ ~MemberLocked(u) /\ ~InvLocked(i)

Admit(p, i, u) ==
    /\ member' = [member EXCEPT ![u] = inv[i].role]
    /\ worker' = IF inv[i].works THEN worker \cup {u} ELSE worker
    /\ inv' = IF inv[i].status = "gone" THEN inv ELSE [inv EXCEPT ![i].status = "accepted"]
    /\ Goto(p, [at |-> "invalidate", user |-> u])
    /\ UNCHANGED <<session, cache>>

\* The account is created, or the one that exists keeps its password.
Join(p, i, u) ==
    /\ Joining(p, i, u)
    /\ call[p].new => account[u] = None
    /\ account' = IF call[p].new THEN [account EXCEPT ![u] = p] ELSE account
    /\ Admit(p, i, u)

\* Another call has created the account since: the unique address refuses.
JoinRefused(p, i, u) ==
    /\ Joining(p, i, u)
    /\ call[p].new /\ account[u] # None
    /\ Goto(p, Idle)
    /\ UNCHANGED <<account, member, worker, inv, session, cache>>

\* Accounts are shared: another organisation's invitation creates one.
JoinElsewhere(u) ==
    /\ account[u] = None
    /\ account' = [account EXCEPT ![u] = u]
    /\ UNCHANGED <<member, worker, inv, session, cache, call>>

-----------------------------------------------------------------------------
(* Members and project roles.                                              *)

\* The owners that a removal has counted: none when it takes another's row.
Counted(u) == IF member[u] = "owner" THEN Owners ELSE {}

\* A mutant: owners are removed like everybody else.
RemoveAnyone(p, u) ==
    /\ call[p] = Idle /\ member[u] # None /\ ~MemberLocked(u)
    /\ Goto(p, [at |-> "remove", user |-> u, counted |-> Counted(u)])
    /\ UNCHANGED <<account, member, worker, inv, session, cache>>

\* The row is locked, the owners are counted.
Remove(p, u) ==
    /\ call[p] = Idle /\ member[u] # None /\ ~MemberLocked(u)
    /\ member[u] = "owner" => Cardinality(Owners) > 1
    /\ Goto(p, [at |-> "remove", user |-> u, counted |-> Counted(u)])
    /\ UNCHANGED <<account, member, worker, inv, session, cache>>

RemoveCommit(p, u) ==
    /\ call[p].at = "remove" /\ u = call[p].user
    /\ worker' = worker \ {u}
    /\ member' = [member EXCEPT ![u] = None]
    /\ session' = session \ {u}
    /\ Goto(p, [at |-> "invalidate", user |-> u])
    /\ UNCHANGED <<account, inv, cache>>

\* GrantProjectRole asks for membership first.
Grant(p, u) ==
    /\ call[p] = Idle /\ member[u] # None
    /\ Goto(p, [at |-> "grant", user |-> u])
    /\ UNCHANGED <<account, member, worker, inv, session, cache>>

GrantCommit(p, u) ==
    /\ call[p].at = "grant" /\ u = call[p].user
    /\ worker' = worker \cup {u}
    /\ Goto(p, [at |-> "invalidate", user |-> u])
    /\ UNCHANGED <<account, member, inv, session, cache>>

\* A mutant: the cached answer is left to its TTL.
RevokeRoleOnly(p, u) ==
    /\ call[p] = Idle /\ u \in worker
    /\ worker' = worker \ {u}
    /\ UNCHANGED <<account, member, inv, session, cache, call>>

RevokeRole(p, u) ==
    /\ call[p] = Idle /\ u \in worker
    /\ worker' = worker \ {u}
    /\ Goto(p, [at |-> "invalidate", user |-> u])
    /\ UNCHANGED <<account, member, inv, session, cache>>

\* InvalidateCapabilities, which only logs that Redis did not answer.
Invalidate(p, u, answered) ==
    /\ call[p].at = "invalidate" /\ u = call[p].user
    /\ cache' = [cache EXCEPT ![u] =
         IF answered \/ @ = None THEN None ELSE [@ EXCEPT !.late = TRUE]]
    /\ Goto(p, Idle)
    /\ UNCHANGED <<account, member, worker, inv, session>>

-----------------------------------------------------------------------------
(* Sign-in and requests.                                                   *)

\* The reads of Login: an account and at least one membership.
Login(p, u) ==
    /\ call[p] = Idle /\ account[u] # None /\ member[u] # None
    /\ Goto(p, [at |-> "login", user |-> u])
    /\ UNCHANGED <<account, member, worker, inv, session, cache>>

CreateSession(p, u) ==
    /\ call[p].at = "login" /\ u = call[p].user
    /\ session' = session \cup {u}
    /\ Goto(p, Idle)
    /\ UNCHANGED <<account, member, worker, inv, cache>>

Logout(p, u) ==
    /\ call[p] = Idle /\ u \in session
    /\ session' = session \ {u}
    /\ UNCHANGED <<account, member, worker, inv, cache, call>>

\* ResolveSession finds a live session.  was: the user was a member then.
Resolve(p, u) ==
    /\ call[p] = Idle /\ u \in session
    /\ Goto(p, [at |-> "caps", user |-> u, was |-> member[u] # None])
    /\ UNCHANGED <<account, member, worker, inv, session, cache>>

\* capabilities: the cached entry, or a read of the membership.
ReadCaps(p, u) ==
    /\ call[p].at = "caps" /\ u = call[p].user
    /\ IF cache[u] # None
       THEN Goto(p, [at |-> "confirm", user |-> u, was |-> call[p].was])
       ELSE IF member[u] = None THEN Goto(p, Idle)
       ELSE Goto(p, [at |-> "fill", user |-> u, was |-> call[p].was, caps |-> Caps(u)])
    /\ UNCHANGED <<account, member, worker, inv, session, cache>>

\* late: the entry was out of date when it was written.
FillCache(p, u) ==
    /\ call[p].at = "fill" /\ u = call[p].user
    /\ cache' = [cache EXCEPT ![u] =
         [caps |-> call[p].caps, late |-> call[p].caps # Caps(u)]]
    /\ Goto(p, [at |-> "confirm", user |-> u, was |-> call[p].was])
    /\ UNCHANGED <<account, member, worker, inv, session>>

\* A mutant: the membership is not read once more.
ConfirmCached(p, u) ==
    /\ call[p].at = "confirm" /\ u = call[p].user
    /\ Goto(p, [at |-> "granted", user |-> u, was |-> call[p].was \/ member[u] # None])
    /\ UNCHANGED <<account, member, worker, inv, session, cache>>

\* The second read of the membership, for the scope.
Confirm(p, u) ==
    /\ call[p].at = "confirm" /\ u = call[p].user
    /\ IF member[u] = None THEN Goto(p, Idle)
       ELSE Goto(p, [at |-> "granted", user |-> u,
                     was |-> call[p].was \/ member[u] # None])
    /\ UNCHANGED <<account, member, worker, inv, session, cache>>

Respond(p) ==
    /\ call[p].at = "granted"
    /\ Goto(p, Idle)
    /\ UNCHANGED <<account, member, worker, inv, session, cache>>

\* The sixty seconds of an entry are over.
Expire(u) ==
    /\ cache[u] # None
    /\ cache' = [cache EXCEPT ![u] = None]
    /\ UNCHANGED <<account, member, worker, inv, session, call>>

-----------------------------------------------------------------------------
AdminStep(p) ==
    \/ \E i \in Invs, u \in Users, role \in Offers, works \in BOOLEAN :
          Invite(p, i, u, role, works)
    \/ \E i \in Invs : InviteCommit(p, i) \/ Revoke(p, i)
    \/ \E u \in Users :
          \/ Remove(p, u) \/ RemoveCommit(p, u)
          \/ Grant(p, u) \/ GrantCommit(p, u) \/ RevokeRole(p, u)

ClientStep(p) ==
    \/ \E i \in Invs : Accept(p, i)
    \/ AcceptCheck(p)
    \/ \E i \in Invs, u \in Users : Join(p, i, u) \/ JoinRefused(p, i, u)
    \/ \E u \in Users :
          \/ Login(p, u) \/ CreateSession(p, u) \/ Logout(p, u)
          \/ Resolve(p, u) \/ ReadCaps(p, u) \/ FillCache(p, u) \/ Confirm(p, u)
    \/ Respond(p)

Next ==
    \/ \E p \in Admins : AdminStep(p)
    \/ \E p \in Clients : ClientStep(p)
    \/ \E p \in Procs, u \in Users, answered \in BOOLEAN : Invalidate(p, u, answered)
    \/ \E u \in Users : JoinElsewhere(u) \/ Expire(u)

Spec == Init /\ [][Next]_vars

-----------------------------------------------------------------------------
Entry == [caps : SUBSET {"manage", "work"}, late : BOOLEAN]

Call ==
    {Idle}
    \cup [at : {"invite"}, inv : Invs, user : Users, role : Roles, works : BOOLEAN,
          drop : SUBSET Invs]
    \cup [at : {"accept"}, inv : Invs]
    \cup [at : {"join"}, inv : Invs, new : BOOLEAN]
    \cup [at : {"remove"}, user : Users, counted : SUBSET Users]
    \cup [at : {"grant", "invalidate", "login"}, user : Users]
    \cup [at : {"caps", "confirm", "granted"}, user : Users, was : BOOLEAN]
    \cup [at : {"fill"}, user : Users, was : BOOLEAN, caps : SUBSET {"manage", "work"}]

\* Every variable keeps its type, and nobody has access without an account.
TypeOK ==
    /\ account \in [Users -> Users \cup Procs \cup {None}]
    /\ member \in [Users -> Roles \cup {None}]
    /\ worker \subseteq Users /\ session \subseteq Users
    /\ inv \in [Invs -> [status : {"none", "open", "accepted", "gone"},
                         user : Users \cup {None}, role : Roles \cup {None},
                         works : BOOLEAN]]
    /\ cache \in [Users -> Entry \cup {None}]
    /\ call \in [Procs -> Call]
    /\ \A u \in Users : member[u] # None => account[u] # None

\* "The last owner cannot be removed" (RemoveMember): whatever invitations,
\* acceptances and removals interleave, the last one goes only by a removal that
\* had counted an owner who has left since, as two that overlap do, or by
\* accepting, as the owner, an invitation to a lesser role.
OwnerRemains ==
    [][Owners # {} /\ Owners' = {} =>
         \/ \E p \in Admins, u \in Users :
               RemoveCommit(p, u) /\ ~(call[p].counted \subseteq Owners)
         \/ \E p \in Clients, i \in Invs, u \in Owners :
               Join(p, i, u) /\ inv[i].role # "owner"]_vars

\* A request of somebody removed before it began is refused, whatever sessions
\* and cache entries the removal left or a sign-in in progress created after it.
RemovedIsRefused == \A p \in Procs : call[p].at = "granted" => call[p].was

\* A cached answer is out of date only while the change it misses is about to
\* drop it, or if it was written too late, or if Redis did not answer: no
\* operation that changes an answer forgets the cache.
StaleHasReason ==
    \A u \in Users :
        (cache[u] # None /\ cache[u].caps # Caps(u) /\ ~cache[u].late) =>
        \E p \in Procs : call[p].at = "invalidate" /\ call[p].user = u
=============================================================================
