---------------------------- MODULE SignInProofs ----------------------------
(***************************************************************************)
(* Proofs about the two ways in, for any number of users, invitations,     *)
(* requests, goroutines and links.  Members: who has been removed is       *)
(* refused, a stale capability has a reason, and the last owner goes only  *)
(* in two ways.  Data subjects: what an address asks for in a window opens *)
(* the portal identifyLimit times at most.                                 *)
(*                                                                         *)
(* Each way is proved of its own specification, Spec and AccessSpec, which *)
(* have no bound on when the other moves; SignInSpec implements both.      *)
(***************************************************************************)
EXTENDS SignIn, FiniteSetTheorems, TLAPS

-----------------------------------------------------------------------------
(* Members.                                                                *)

\* An invitation that has been made is for somebody and offers a role on offer.
Proper(x) == x.status # "none" /\ x.user \in Users /\ x.role \in Offers
Made(i) == Proper(inv[i])
InvsMade == \A i \in Invs : inv[i] = Unused \/ Made(i)

\* An invitation in the making has an id of its own, and what it will replace
\* has been made; what is being accepted has been made.
CallsMade ==
    \A p \in Procs :
        /\ call[p].at = "invite" =>
              /\ inv[call[p].inv] = Unused /\ call[p].role \in Offers
              /\ \A q \in Procs \ {p} : call[q].at = "invite" => call[q].inv # call[p].inv
              /\ \A j \in call[p].drop : Made(j)
        /\ call[p].at \in {"accept", "join"} => Made(call[p].inv)
        /\ call[p].at = "join" /\ ~call[p].new => account[inv[call[p].inv].user] # None

MembersInv == TypeOK /\ InvsMade /\ CallsMade /\ StaleHasReason /\ RemovedIsRefused

\* A removal that is about to take an owner's row has counted another owner.
RemovalCounts ==
    \A p \in Procs :
        call[p].at = "remove" /\ member[call[p].user] = "owner" =>
            \E v \in call[p].counted : v # call[p].user

OwnersInv == MembersInv /\ RemovalCounts

-----------------------------------------------------------------------------
(* Data subjects.                                                          *)

Ask ==
    {Waiting}
    \cup [at : {"found"}, ident : Idents, subject : People]
    \cup [at : {"allowed"}, ident : Idents, subject : People, window : 1 .. Windows]
    \cup [at : {"issued"}, link : Links]

Token ==
    {NoLink}
    \cup [at : {"issued", "mailed", "used", "over"}, ident : Idents, subject : People,
          window : 1 .. Windows]

AccessTyped ==
    /\ window \in 1 .. Windows
    /\ attempts \in [Rows -> Nat] /\ opened \in [Rows -> Nat]
    /\ asks \in [Asks -> Ask]
    /\ tokens \in [Links -> Token]

\* What may still open the portal for an address and a window.
Allowed(row) == {k \in Asks : asks[k].at = "allowed" /\ <<asks[k].ident, asks[k].window>> = row}
Spendable(row) ==
    {l \in Links : tokens[l].at \in {"issued", "mailed"}
                   /\ <<tokens[l].ident, tokens[l].window>> = row}

Tickets(row) == opened[row] + Cardinality(Allowed(row)) + Cardinality(Spendable(row))

\* Whatever has opened the portal or still may was counted, while its window
\* lasts, and never more than the limit.
TicketsCounted ==
    \A row \in Rows :
        /\ IsFiniteSet(Allowed(row)) /\ IsFiniteSet(Spendable(row))
        /\ Tickets(row) <= Limit
        /\ row[2] = window => Tickets(row) <= attempts[row]
        /\ row[2] > window => Tickets(row) = 0

AccessInv == AccessTyped /\ TicketsCounted

IInv == OwnersInv /\ AccessInv

-----------------------------------------------------------------------------
(* Members: the requests in progress.                                      *)

\* The fields of a request in progress.
LEMMA CallFields ==
    ASSUME NEW x \in Call
    PROVE  /\ x.at = "invite" =>
                 /\ x.inv \in Invs /\ x.user \in Users /\ x.role \in Roles
                 /\ x.works \in BOOLEAN /\ x.drop \subseteq Invs
           /\ x.at \in {"accept", "join"} => x.inv \in Invs
           /\ x.at = "join" => x.new \in BOOLEAN
           /\ x.at \in {"remove", "grant", "invalidate", "login", "caps", "confirm", "granted", "fill"}
                 => x.user \in Users
           /\ x.at \in {"caps", "confirm", "granted", "fill"} => x.was \in BOOLEAN
           /\ x.at = "fill" => x.caps \subseteq {"manage", "work"}
           /\ x.at = "remove" => x.counted \subseteq Users
<1>1. CASE x = Idle
  BY <1>1 DEF Idle
<1>2. CASE x \in [at : {"invite"}, inv : Invs, user : Users, role : Roles, works : BOOLEAN,
                  drop : SUBSET Invs]
  BY <1>2
<1>3. CASE x \in [at : {"accept"}, inv : Invs] \cup [at : {"join"}, inv : Invs, new : BOOLEAN]
  BY <1>3
<1>4. CASE x \in [at : {"grant", "invalidate", "login"}, user : Users]
  BY <1>4
<1>7. CASE x \in [at : {"remove"}, user : Users, counted : SUBSET Users]
  BY <1>7
<1>5. CASE x \in [at : {"caps", "confirm", "granted"}, user : Users, was : BOOLEAN]
  BY <1>5
<1>6. CASE x \in [at : {"fill"}, user : Users, was : BOOLEAN, caps : SUBSET {"manage", "work"}]
  BY <1>6
<1> QED BY <1>1, <1>2, <1>3, <1>4, <1>5, <1>6, <1>7 DEF Call

\* A request goes on as a typed one, and the others stay where they are.
LEMMA GotoMoves ==
    ASSUME TypeOK, NEW p \in Procs, NEW x, Goto(p, x)
    PROVE  /\ call'[p] = x /\ \A q \in Procs \ {p} : call'[q] = call[q]
           /\ x \in Call => call' \in [Procs -> Call]
BY DEF TypeOK, Goto

\* Capabilities are among the two there are.
LEMMA CapsType == \A u : Caps(u) \subseteq {"manage", "work"}
BY DEF Caps

\* The requests that go on as one of these are typed.
LEMMA Typed ==
    /\ Idle \in Call
    /\ \A i \in Invs : [at |-> "accept", inv |-> i] \in Call
    /\ \A i \in Invs, new \in BOOLEAN : [at |-> "join", inv |-> i, new |-> new] \in Call
    /\ \A at \in {"grant", "invalidate", "login"}, u \in Users :
          [at |-> at, user |-> u] \in Call
    /\ \A u \in Users, counted \in SUBSET Users :
          [at |-> "remove", user |-> u, counted |-> counted] \in Call
    /\ \A at \in {"caps", "confirm", "granted"}, u \in Users, was \in BOOLEAN :
          [at |-> at, user |-> u, was |-> was] \in Call
BY DEF Call

\* What an administrator's step does to the requests.
LEMMA AdminCalls ==
    ASSUME TypeOK, NEW p \in Admins, AdminStep(p)
    PROVE  call' \in [Procs -> Call]
<1>0. p \in Procs /\ call \in [Procs -> Call] /\ call[p] \in Call
  BY DEF Procs, TypeOK
<1>1. ASSUME NEW i \in Invs, NEW u \in Users, NEW role \in Offers, NEW works \in BOOLEAN,
             Invite(p, i, u, role, works)
      PROVE  call' \in [Procs -> Call]
  <2> DEFINE x == [at |-> "invite", inv |-> i, user |-> u, role |-> role,
                   works |-> works, drop |-> OpenFor(u)]
  <2>1. x \in Call
    BY OffersAssumption DEF Call, OpenFor
  <2> QED BY <1>0, <1>1, <2>1, GotoMoves DEF Invite
<1>2. ASSUME NEW i \in Invs, InviteCommit(p, i) PROVE call' \in [Procs -> Call]
  BY <1>0, <1>2, GotoMoves, Typed DEF InviteCommit
<1>3. ASSUME NEW u \in Users, Remove(p, u) \/ Grant(p, u) PROVE call' \in [Procs -> Call]
  <2>1. Counted(u) \in SUBSET Users
    BY DEF Counted, Owners
  <2> QED BY <1>0, <1>3, <2>1, GotoMoves, Typed DEF Remove, Grant
<1>4. ASSUME NEW u \in Users, RemoveCommit(p, u) \/ GrantCommit(p, u) \/ RevokeRole(p, u)
      PROVE  call' \in [Procs -> Call]
  BY <1>0, <1>4, GotoMoves, Typed DEF RemoveCommit, GrantCommit, RevokeRole
<1>5. ASSUME NEW i \in Invs, Revoke(p, i) PROVE call' \in [Procs -> Call]
  BY <1>0, <1>5 DEF Revoke
<1> QED BY <1>1, <1>2, <1>3, <1>4, <1>5 DEF AdminStep

\* What a client's step does to the requests.
LEMMA ClientCalls ==
    ASSUME TypeOK, NEW p \in Clients, ClientStep(p)
    PROVE  call' \in [Procs -> Call]
<1>0. p \in Procs /\ call \in [Procs -> Call] /\ call[p] \in Call
  BY DEF Procs, TypeOK
<1>1. ASSUME NEW i \in Invs, Accept(p, i) PROVE call' \in [Procs -> Call]
  BY <1>0, <1>1, GotoMoves, Typed DEF Accept
<1>2. CASE AcceptCheck(p)
  <2>1. call[p].inv \in Invs
    BY <1>0, <1>2, CallFields DEF AcceptCheck
  <2> DEFINE new == account[inv[call[p].inv].user] = None
  <2>2. new \in BOOLEAN
    OBVIOUS
  <2>3. Goto(p, Idle) \/ Goto(p, [at |-> "join", inv |-> call[p].inv, new |-> new])
    BY <1>2 DEF AcceptCheck
  <2> HIDE DEF new
  <2>4. [at |-> "join", inv |-> call[p].inv, new |-> new] \in Call
    BY <2>1, <2>2, Typed
  <2> QED BY <1>0, <2>3, <2>4, GotoMoves, Typed
<1>3. ASSUME NEW i \in Invs, NEW u \in Users, Join(p, i, u) \/ JoinRefused(p, i, u)
      PROVE  call' \in [Procs -> Call]
  BY <1>0, <1>3, GotoMoves, Typed DEF Join, JoinRefused, Admit
<1>4. ASSUME NEW u \in Users, Login(p, u) \/ CreateSession(p, u) PROVE call' \in [Procs -> Call]
  BY <1>0, <1>4, GotoMoves, Typed DEF Login, CreateSession
<1>5. ASSUME NEW u \in Users, Logout(p, u) PROVE call' \in [Procs -> Call]
  BY <1>0, <1>5 DEF Logout
<1>6. ASSUME NEW u \in Users, Resolve(p, u) PROVE call' \in [Procs -> Call]
  BY <1>0, <1>6, GotoMoves, Typed DEF Resolve
<1>7. ASSUME NEW u \in Users, ReadCaps(p, u) PROVE call' \in [Procs -> Call]
  <2>1. call[p].was \in BOOLEAN
    BY <1>0, <1>7, CallFields DEF ReadCaps
  <2>2. [at |-> "fill", user |-> u, was |-> call[p].was, caps |-> Caps(u)] \in Call
    BY <2>1, CapsType DEF Call
  <2> QED BY <1>0, <1>7, <2>1, <2>2, GotoMoves, Typed DEF ReadCaps
<1>8. ASSUME NEW u \in Users, FillCache(p, u) PROVE call' \in [Procs -> Call]
  <2>1. call[p].was \in BOOLEAN
    BY <1>0, <1>8, CallFields DEF FillCache
  <2> QED BY <1>0, <1>8, <2>1, GotoMoves, Typed DEF FillCache
<1>10. ASSUME NEW u \in Users, Confirm(p, u) PROVE call' \in [Procs -> Call]
  <2> DEFINE was == call[p].was \/ member[u] # None
  <2>1. was \in BOOLEAN
    OBVIOUS
  <2>2. Goto(p, Idle) \/ Goto(p, [at |-> "granted", user |-> u, was |-> was])
    BY <1>10 DEF Confirm
  <2> HIDE DEF was
  <2>3. [at |-> "granted", user |-> u, was |-> was] \in Call
    BY <2>1, Typed
  <2> QED BY <1>0, <2>2, <2>3, GotoMoves, Typed
<1>9. CASE Respond(p)
  BY <1>0, <1>9, GotoMoves, Typed DEF Respond
<1> QED BY <1>1, <1>2, <1>3, <1>4, <1>5, <1>6, <1>7, <1>8, <1>9, <1>10 DEF ClientStep

\* Every step leaves typed requests.
LEMMA CallsType ==
    ASSUME TypeOK, [Next]_vars
    PROVE  call' \in [Procs -> Call]
<1>1. ASSUME NEW p \in Procs, NEW u \in Users, NEW answered \in BOOLEAN, Invalidate(p, u, answered)
      PROVE  call' \in [Procs -> Call]
  BY <1>1, GotoMoves, Typed DEF Invalidate
<1>2. ASSUME (\E u \in Users : JoinElsewhere(u) \/ Expire(u)) \/ UNCHANGED vars
      PROVE  call' \in [Procs -> Call]
  BY <1>2 DEF JoinElsewhere, Expire, vars, TypeOK
<1> QED BY <1>1, <1>2, AdminCalls, ClientCalls DEF Next

-----------------------------------------------------------------------------
(* Members: the invitations and what is done with them.                    *)

\* The invitations have their writers too.
LEMMA InvWriters ==
    ASSUME [Next]_vars
    PROVE  \/ UNCHANGED inv
           \/ \E p \in Clients, i \in Invs, u \in Users : Join(p, i, u)
           \/ \E p \in Admins, i \in Invs : InviteCommit(p, i) \/ Revoke(p, i)
<1>1. ASSUME NEW p \in Admins,
             \/ \E j \in Invs, u \in Users, role \in Offers, works \in BOOLEAN :
                   Invite(p, j, u, role, works)
             \/ \E u \in Users : \/ Remove(p, u) \/ RemoveCommit(p, u)
                                 \/ Grant(p, u) \/ GrantCommit(p, u) \/ RevokeRole(p, u)
      PROVE  UNCHANGED inv
  BY <1>1 DEF Invite, Remove, RemoveCommit, Grant, GrantCommit, RevokeRole
<1>2. ASSUME NEW p \in Clients,
             \/ \E j \in Invs : Accept(p, j)
             \/ AcceptCheck(p)
             \/ \E j \in Invs, u \in Users : JoinRefused(p, j, u)
             \/ \E u \in Users :
                   \/ Login(p, u) \/ CreateSession(p, u) \/ Logout(p, u)
                   \/ Resolve(p, u) \/ ReadCaps(p, u) \/ FillCache(p, u) \/ Confirm(p, u)
             \/ Respond(p)
      PROVE  UNCHANGED inv
  BY <1>2 DEF Accept, AcceptCheck, JoinRefused, Login, CreateSession, Logout, Resolve, ReadCaps,
              FillCache, Confirm, Respond
<1>3. ASSUME \/ \E p \in Procs, u \in Users, answered \in BOOLEAN : Invalidate(p, u, answered)
             \/ \E u \in Users : JoinElsewhere(u) \/ Expire(u)
             \/ UNCHANGED vars
      PROVE  UNCHANGED inv
  BY <1>3 DEF Invalidate, JoinElsewhere, Expire, vars
<1> QED BY <1>1, <1>2, <1>3 DEF Next, AdminStep, ClientStep

\* What an administrator's step and a client's do to the invitations.
LEMMA InvMoves ==
    ASSUME MembersInv, [Next]_vars, NEW i \in Invs
    PROVE  \/ inv'[i] = inv[i]
           \/ Made(i) /\ Made(i)' /\ inv'[i].user = inv[i].user
           \/ \E p \in Procs : InviteCommit(p, i) /\ Made(i)'
<1>0. /\ call \in [Procs -> Call] /\ inv \in [Invs -> [status : {"none", "open", "accepted", "gone"},
             user : Users \cup {None}, role : Roles \cup {None}, works : BOOLEAN]]
  BY DEF MembersInv, TypeOK
<1>1. ASSUME NEW p \in Procs, NEW j \in Invs, InviteCommit(p, j)
      PROVE  \/ inv'[i] = inv[i]
             \/ Made(i) /\ Made(i)' /\ inv'[i].user = inv[i].user
             \/ InviteCommit(p, i) /\ Made(i)'
  <2>1. call[p].at = "invite" /\ j = call[p].inv /\ call[p].user \in Users /\ call[p].role \in Offers
    BY <1>0, <1>1, CallFields DEF InviteCommit, MembersInv, CallsMade
  <2>2. CASE i = j
    <3>1. inv'[i] = [status |-> "open", user |-> call[p].user, role |-> call[p].role,
                     works |-> call[p].works]
      BY <1>1, <2>1, <2>2 DEF InviteCommit
    <3> QED BY <1>1, <2>1, <2>2, <3>1 DEF Made, Proper
  <2>3. CASE i # j /\ i \in call[p].drop
    <3>1. Made(i)
      BY <2>1, <2>3 DEF MembersInv, CallsMade
    <3>2. inv'[i] = [inv[i] EXCEPT !.status = "gone"]
      BY <1>1, <2>1, <2>3 DEF InviteCommit
    <3> QED BY <1>0, <3>1, <3>2 DEF Made, Proper
  <2>4. CASE i # j /\ i \notin call[p].drop
    BY <1>1, <2>4 DEF InviteCommit
  <2> QED BY <2>2, <2>3, <2>4
<1>2. ASSUME NEW p \in Procs, NEW j \in Invs, Revoke(p, j)
      PROVE  inv'[i] = inv[i] \/ (Made(i) /\ Made(i)' /\ inv'[i].user = inv[i].user)
  <2>1. inv' = [inv EXCEPT ![j].status = "gone"] /\ inv[j].status = "open"
    BY <1>2 DEF Revoke
  <2>2. Made(j)
    BY <2>1 DEF MembersInv, InvsMade, Unused
  <2> QED BY <1>0, <2>1, <2>2 DEF Made, Proper
<1>3. ASSUME NEW p \in Procs, NEW j \in Invs, NEW u \in Users, Join(p, j, u)
      PROVE  inv'[i] = inv[i] \/ (Made(i) /\ Made(i)' /\ inv'[i].user = inv[i].user)
  <2>1. Made(j)
    BY <1>3 DEF Join, Joining, MembersInv, CallsMade
  <2>2. inv' = inv \/ inv' = [inv EXCEPT ![j].status = "accepted"]
    BY <1>3 DEF Join, Admit
  <2> QED BY <1>0, <2>1, <2>2 DEF Made, Proper
<1>4. Admins \subseteq Procs /\ Clients \subseteq Procs
  BY DEF Procs
<1> QED BY <1>1, <1>2, <1>3, <1>4, InvWriters

\* What is made stays made, for the same address.
LEMMA MadeStays ==
    ASSUME MembersInv, [Next]_vars, NEW i \in Invs, Made(i)
    PROVE  Made(i)' /\ inv'[i].user = inv[i].user
<1>1. \A p \in Procs : ~InviteCommit(p, i)
  BY DEF InviteCommit, MembersInv, CallsMade, Made, Proper, Unused
<1>2. inv'[i] = inv[i] => Made(i)'
  BY DEF Made, Proper
<1> QED BY <1>1, <1>2, InvMoves

\* A request is left where it is, ends what concerns invitations and removals,
\* or begins it.
LEMMA CallMoves ==
    ASSUME TypeOK, [Next]_vars, NEW p \in Procs
    PROVE  \/ call'[p] = call[p]
           \/ call'[p].at \notin {"invite", "accept", "join", "remove"}
           \/ \E i \in Invs, u \in Users, role \in Offers, works \in BOOLEAN :
                 Invite(p, i, u, role, works)
           \/ p \in Admins /\ \E u \in Users : Remove(p, u)
           \/ \E i \in Invs : Accept(p, i)
           \/ AcceptCheck(p)
<1> DEFINE Goal == \/ call'[p] = call[p]
                   \/ call'[p].at \notin {"invite", "accept", "join", "remove"}
<1>0. call \in [Procs -> Call] /\ Admins \subseteq Procs /\ Clients \subseteq Procs
  BY DEF TypeOK, Procs
<1>1. ASSUME NEW q \in Procs \ {p}, NEW x, Goto(q, x) PROVE call'[p] = call[p]
  BY <1>0, <1>1 DEF Goto
<1>2. ASSUME NEW x, Goto(p, x), x.at \notin {"invite", "accept", "join", "remove"} PROVE Goal
  BY <1>0, <1>2 DEF Goto
<1>3. ASSUME NEW q \in Admins, AdminStep(q)
      PROVE  \/ Goal
             \/ \E i \in Invs, u \in Users, role \in Offers, works \in BOOLEAN :
                   Invite(p, i, u, role, works)
             \/ p \in Admins /\ \E u \in Users : Remove(p, u)
  <2>1. ASSUME NEW i \in Invs, InviteCommit(q, i) \/ Revoke(q, i) PROVE Goal
    <3>1. CASE q = p
      BY <1>2, <2>1, <3>1 DEF InviteCommit, Revoke, Idle
    <3> QED BY <1>0, <1>1, <2>1, <3>1 DEF InviteCommit, Revoke
  <2>2. ASSUME NEW u \in Users, RemoveCommit(q, u) \/ Grant(q, u) \/ GrantCommit(q, u) \/ RevokeRole(q, u)
        PROVE  Goal
    <3>1. CASE q = p
      BY <1>2, <2>2, <3>1 DEF RemoveCommit, Grant, GrantCommit, RevokeRole
    <3> QED BY <1>0, <1>1, <2>2, <3>1 DEF RemoveCommit, Grant, GrantCommit, RevokeRole
  <2>3. ASSUME NEW u \in Users, Remove(q, u), q # p PROVE Goal
    BY <1>0, <1>1, <2>3 DEF Remove
  <2>4. ASSUME NEW i \in Invs, NEW u \in Users, NEW role \in Offers, NEW works \in BOOLEAN,
               Invite(q, i, u, role, works), q # p
        PROVE  Goal
    BY <1>0, <1>1, <2>4 DEF Invite
  <2> QED BY <1>3, <2>1, <2>2, <2>3, <2>4 DEF AdminStep
<1>4. ASSUME NEW q \in Clients, ClientStep(q)
      PROVE  Goal \/ (\E i \in Invs : Accept(p, i)) \/ AcceptCheck(p)
  <2>1. ASSUME NEW i \in Invs, Accept(q, i), q # p PROVE Goal
    BY <1>0, <1>1, <2>1 DEF Accept
  <2>2. ASSUME AcceptCheck(q), q # p PROVE Goal
    BY <1>0, <1>1, <2>2 DEF AcceptCheck
  <2>3. ASSUME NEW i \in Invs, NEW u \in Users, Join(q, i, u) \/ JoinRefused(q, i, u) PROVE Goal
    <3>1. CASE q = p
      BY <1>2, <2>3, <3>1 DEF Join, JoinRefused, Admit, Idle
    <3> QED BY <1>0, <1>1, <2>3, <3>1 DEF Join, JoinRefused, Admit
  <2>4. ASSUME NEW u \in Users,
               \/ Login(q, u) \/ CreateSession(q, u) \/ Logout(q, u) \/ Resolve(q, u)
               \/ ReadCaps(q, u) \/ FillCache(q, u) \/ Confirm(q, u)
        PROVE  Goal
    <3>1. CASE q = p
      BY <1>2, <2>4, <3>1 DEF Login, CreateSession, Logout, Resolve, ReadCaps, FillCache, Confirm, Idle
    <3> QED BY <1>0, <1>1, <2>4, <3>1 DEF Login, CreateSession, Logout, Resolve, ReadCaps, FillCache, Confirm
  <2>5. ASSUME Respond(q) PROVE Goal
    <3>1. CASE q = p
      BY <1>2, <2>5, <3>1 DEF Respond, Idle
    <3> QED BY <1>0, <1>1, <2>5, <3>1 DEF Respond
  <2> QED BY <1>4, <2>1, <2>2, <2>3, <2>4, <2>5 DEF ClientStep
<1>5. ASSUME NEW q \in Procs, NEW u \in Users, NEW answered \in BOOLEAN, Invalidate(q, u, answered)
      PROVE  Goal
  <2>1. CASE q = p
    BY <1>2, <1>5, <2>1 DEF Invalidate, Idle
  <2> QED BY <1>1, <1>5, <2>1 DEF Invalidate
<1>6. ASSUME (\E u \in Users : JoinElsewhere(u) \/ Expire(u)) \/ UNCHANGED vars PROVE Goal
  BY <1>6 DEF JoinElsewhere, Expire, vars
<1> QED BY <1>3, <1>4, <1>5, <1>6 DEF Next

\* An account, once there is one, stays.
LEMMA AccountStays ==
    ASSUME TypeOK, [Next]_vars, NEW u \in Users, account[u] # None
    PROVE  account'[u] # None
<1>0. account \in [Users -> Users \cup Procs \cup {None}] /\ None \notin Users \cup Procs
  BY NoneAssumption DEF TypeOK
<1>1. ASSUME NEW p \in Clients, NEW i \in Invs, NEW v \in Users, Join(p, i, v)
      PROVE  account'[u] # None
  BY <1>0, <1>1 DEF Join, Procs
<1>2. ASSUME NEW v \in Users, JoinElsewhere(v) PROVE account'[u] # None
  BY <1>0, <1>2 DEF JoinElsewhere
<1>3. ASSUME NEW p \in Admins, AdminStep(p) PROVE UNCHANGED account
  BY <1>3 DEF AdminStep, Invite, InviteCommit, Revoke, Remove, RemoveCommit, Grant, GrantCommit,
              RevokeRole
<1>4. ASSUME NEW p \in Clients,
             \/ \E j \in Invs : Accept(p, j)
             \/ AcceptCheck(p)
             \/ \E j \in Invs, v \in Users : JoinRefused(p, j, v)
             \/ \E v \in Users :
                   \/ Login(p, v) \/ CreateSession(p, v) \/ Logout(p, v)
                   \/ Resolve(p, v) \/ ReadCaps(p, v) \/ FillCache(p, v) \/ Confirm(p, v)
             \/ Respond(p)
      PROVE  UNCHANGED account
  BY <1>4 DEF Accept, AcceptCheck, JoinRefused, Login, CreateSession, Logout, Resolve, ReadCaps,
              FillCache, Confirm, Respond
<1>5. ASSUME \/ \E p \in Procs, v \in Users, answered \in BOOLEAN : Invalidate(p, v, answered)
             \/ \E v \in Users : Expire(v)
             \/ UNCHANGED vars
      PROVE  UNCHANGED account
  BY <1>5 DEF Invalidate, Expire, vars
<1> QED BY <1>1, <1>2, <1>3, <1>4, <1>5 DEF Next, ClientStep

\* Invitations stay made, and are made one by one.
LEMMA MadeStep ==
    ASSUME MembersInv, [Next]_vars
    PROVE  InvsMade' /\ CallsMade'
<1>0. TypeOK /\ InvsMade /\ CallsMade /\ call \in [Procs -> Call]
  BY DEF MembersInv, TypeOK
<1>1. InvsMade'
  <2>1. ASSUME NEW i \in Invs PROVE inv'[i] = Unused \/ Made(i)'
    BY <1>0, InvMoves DEF InvsMade, Made, Proper
  <2> QED BY <2>1 DEF InvsMade, Made, Proper
<1>2. ASSUME NEW p \in Procs PROVE
        /\ call'[p].at = "invite" =>
              /\ inv'[call'[p].inv] = Unused /\ call'[p].role \in Offers
              /\ \A q \in Procs \ {p} : call'[q].at = "invite" => call'[q].inv # call'[p].inv
              /\ \A j \in call'[p].drop : Made(j)'
        /\ call'[p].at \in {"accept", "join"} => Proper(inv'[call'[p].inv])
        /\ call'[p].at = "join" /\ ~call'[p].new => account'[inv'[call'[p].inv].user] # None
  <2>1. CASE call'[p] = call[p] /\ call[p].at = "invite"
    <3> DEFINE i == call[p].inv
    <3>1. /\ i \in Invs /\ call[p].drop \subseteq Invs /\ inv[i] = Unused
          /\ call[p].role \in Offers /\ \A j \in call[p].drop : Made(j)
      BY <1>0, <2>1, CallFields DEF CallsMade
    <3>2. \A q \in Procs : ~InviteCommit(q, i)
      <4>1. ASSUME NEW q \in Procs, InviteCommit(q, i) PROVE q = p
        BY <1>0, <2>1, <4>1 DEF InviteCommit, CallsMade
      <4>2. ~InviteCommit(p, i)
        BY <1>0, <2>1 DEF InviteCommit, Goto, Idle
      <4> QED BY <4>1, <4>2
    <3>3. inv'[i] = Unused
      BY <3>1, <3>2, InvMoves DEF Made, Proper, Unused
    <3>4. ASSUME NEW q \in Procs \ {p}, call'[q].at = "invite" PROVE call'[q].inv # i
      <4>1. CASE call'[q] = call[q]
        BY <1>0, <2>1, <3>4, <4>1 DEF CallsMade
      <4>2. ASSUME NEW j \in Invs, NEW u \in Users, NEW role, NEW works, Invite(q, j, u, role, works)
            PROVE  call'[q].inv # i
        <5>1. j # i
          BY <2>1, <4>2 DEF Invite, Free
        <5>2. call'[q].inv = j
          BY <1>0, <4>2 DEF Invite, Goto
        <5> QED BY <5>1, <5>2
      <4>3. call'[q].at = "invite" => ~(\E u \in Users : Remove(q, u)) /\ ~AcceptCheck(q)
                                      /\ ~(\E j \in Invs : Accept(q, j))
        BY <1>0 DEF Remove, Accept, AcceptCheck, Goto, Idle
      <4> QED BY <1>0, <3>4, <4>1, <4>2, <4>3, CallMoves
    <3> QED BY <2>1, <3>1, <3>3, <3>4, MadeStays
  <2>2. CASE call'[p] = call[p] /\ call[p].at \in {"accept", "join"}
    <3>1. call[p].inv \in Invs /\ Made(call[p].inv) /\ inv[call[p].inv].user \in Users
      BY <1>0, <2>2, CallFields DEF CallsMade, Made, Proper
    <3>2. Made(call[p].inv)' /\ inv'[call[p].inv].user = inv[call[p].inv].user
      BY <2>2, <3>1, MadeStays
    <3>3. call[p].at = "join" /\ ~call[p].new => account'[inv[call[p].inv].user] # None
      BY <1>0, <3>1, AccountStays DEF CallsMade
    <3> QED BY <2>2, <3>2, <3>3 DEF Made
  <2>3. ASSUME NEW i \in Invs, NEW u \in Users, NEW role \in Offers, NEW works \in BOOLEAN,
               Invite(p, i, u, role, works)
        PROVE  /\ call'[p].at = "invite" /\ inv'[call'[p].inv] = Unused /\ call'[p].role \in Offers
               /\ \A q \in Procs \ {p} : call'[q].at = "invite" => call'[q].inv # call'[p].inv
               /\ \A j \in call'[p].drop : Made(j)'
    <3>1. /\ UNCHANGED inv /\ inv[i] = Unused
          /\ call'[p].at = "invite" /\ call'[p].inv = i /\ call'[p].role = role
          /\ call'[p].drop = OpenFor(u)
          /\ \A q \in Procs \ {p} : call'[q] = call[q]
      BY <1>0, <2>3 DEF Invite, Free, Goto
    <3>2. \A q \in Procs : call[q].at = "invite" => call[q].inv # i
      BY <2>3 DEF Invite, Free
    <3>3. \A j \in OpenFor(u) : Made(j)
      BY <1>0 DEF OpenFor, InvsMade, Unused
    <3> QED BY <3>1, <3>2, <3>3 DEF Made, Proper
  <2>4. ASSUME NEW i \in Invs, Accept(p, i)
        PROVE  call'[p].at = "accept" /\ Proper(inv'[call'[p].inv])
    <3>1. UNCHANGED inv /\ call'[p].at = "accept" /\ call'[p].inv = i /\ Made(i)
      BY <1>0, <2>4 DEF Accept, Goto, InvsMade, Unused
    <3> QED BY <3>1 DEF Made, Proper
  <2>5. ASSUME AcceptCheck(p), call'[p].at # "idle"
        PROVE  /\ call'[p].at = "join" /\ Proper(inv'[call'[p].inv])
               /\ ~call'[p].new => account'[inv'[call'[p].inv].user] # None
    <3>1. /\ UNCHANGED <<account, inv>> /\ Made(call[p].inv)
          /\ call'[p] = [at |-> "join", inv |-> call[p].inv,
                         new |-> account[inv[call[p].inv].user] = None]
      BY <1>0, <2>5 DEF AcceptCheck, Goto, CallsMade, Idle
    <3>2. call'[p].at = "join" /\ call'[p].inv = call[p].inv
      BY <3>1
    <3>3. call'[p].new = (account[inv[call[p].inv].user] = None)
      BY <3>1
    <3>4. ~call'[p].new => account[inv[call[p].inv].user] # None
      BY <3>3
    <3> QED BY <3>1, <3>2, <3>4 DEF Made
  <2>6. ASSUME NEW u \in Users, Remove(p, u) PROVE call'[p].at = "remove"
    BY <1>0, <2>6 DEF Remove, Goto
  <2> QED BY <1>0, <2>1, <2>2, <2>3, <2>4, <2>5, <2>6, CallMoves
<1> QED BY <1>1, <1>2 DEF CallsMade, Made, Proper

-----------------------------------------------------------------------------
(* Members: who changes what.                                              *)

\* Each variable has its few writers.
LEMMA Writers ==
    ASSUME [Next]_vars
    PROVE  /\ \/ UNCHANGED account
              \/ \E p \in Clients, i \in Invs, u \in Users : Join(p, i, u)
              \/ \E u \in Users : JoinElsewhere(u)
           /\ \/ UNCHANGED member
              \/ \E p \in Clients, i \in Invs, u \in Users : Join(p, i, u)
              \/ \E p \in Admins, u \in Users : RemoveCommit(p, u)
           /\ \/ UNCHANGED worker
              \/ \E p \in Clients, i \in Invs, u \in Users : Join(p, i, u)
              \/ \E p \in Admins, u \in Users :
                    RemoveCommit(p, u) \/ GrantCommit(p, u) \/ RevokeRole(p, u)
           /\ \/ UNCHANGED session
              \/ \E p \in Admins, u \in Users : RemoveCommit(p, u)
              \/ \E p \in Clients, u \in Users : CreateSession(p, u) \/ Logout(p, u)
           /\ \/ UNCHANGED cache
              \/ \E p \in Clients, u \in Users : FillCache(p, u)
              \/ \E p \in Procs, u \in Users, answered \in BOOLEAN : Invalidate(p, u, answered)
              \/ \E u \in Users : Expire(u)
<1>1. ASSUME NEW p \in Admins,
             \/ \E j \in Invs, u \in Users, role \in Offers, works \in BOOLEAN :
                   Invite(p, j, u, role, works)
             \/ \E i \in Invs : InviteCommit(p, i) \/ Revoke(p, i)
             \/ \E u \in Users : Remove(p, u) \/ Grant(p, u)
      PROVE  UNCHANGED <<account, member, worker, session, cache>>
  BY <1>1 DEF Invite, InviteCommit, Revoke, Remove, Grant
<1>2. ASSUME NEW p \in Admins, NEW u \in Users, GrantCommit(p, u) \/ RevokeRole(p, u)
      PROVE  UNCHANGED <<account, member, session, cache>>
  BY <1>2 DEF GrantCommit, RevokeRole
<1>3. ASSUME NEW p \in Admins, NEW u \in Users, RemoveCommit(p, u)
      PROVE  UNCHANGED <<account, cache>>
  BY <1>3 DEF RemoveCommit
<1>4. ASSUME NEW p \in Clients,
             \/ \E j \in Invs : Accept(p, j)
             \/ AcceptCheck(p)
             \/ \E j \in Invs, v \in Users : JoinRefused(p, j, v)
             \/ \E v \in Users : Login(p, v) \/ Resolve(p, v) \/ ReadCaps(p, v) \/ Confirm(p, v)
             \/ Respond(p)
      PROVE  UNCHANGED <<account, member, worker, session, cache>>
  BY <1>4 DEF Accept, AcceptCheck, JoinRefused, Login, Resolve, ReadCaps, Confirm, Respond
<1>5. ASSUME NEW p \in Clients, NEW u \in Users, CreateSession(p, u) \/ Logout(p, u)
      PROVE  UNCHANGED <<account, member, worker, cache>>
  BY <1>5 DEF CreateSession, Logout
<1>6. ASSUME NEW p \in Clients, NEW u \in Users, FillCache(p, u)
      PROVE  UNCHANGED <<account, member, worker, session>>
  BY <1>6 DEF FillCache
<1>7. ASSUME NEW p \in Clients, NEW i \in Invs, NEW u \in Users, Join(p, i, u)
      PROVE  UNCHANGED <<session, cache>>
  BY <1>7 DEF Join, Admit
<1>8. ASSUME NEW p \in Procs, NEW u \in Users, NEW answered \in BOOLEAN, Invalidate(p, u, answered)
      PROVE  UNCHANGED <<account, member, worker, session>>
  BY <1>8 DEF Invalidate
<1>9. ASSUME NEW u \in Users, JoinElsewhere(u)
      PROVE  UNCHANGED <<member, worker, session, cache>>
  BY <1>9 DEF JoinElsewhere
<1>10. ASSUME NEW u \in Users, Expire(u)
       PROVE  UNCHANGED <<account, member, worker, session>>
  BY <1>10 DEF Expire
<1>11. CASE UNCHANGED vars
  BY <1>11 DEF vars
<1>12. CASE \E p \in Admins : AdminStep(p)
  BY <1>12, <1>1, <1>2, <1>3 DEF AdminStep
<1>13. CASE \E p \in Clients : ClientStep(p)
  BY <1>13, <1>4, <1>5, <1>6, <1>7 DEF ClientStep
<1> QED BY <1>8, <1>9, <1>10, <1>11, <1>12, <1>13 DEF Next

\* A request only moves by a step of its own.
LEMMA OwnStep ==
    ASSUME TypeOK, [Next]_vars, NEW p \in Procs, call'[p] # call[p]
    PROVE  \/ p \in Admins /\ AdminStep(p)
           \/ p \in Clients /\ ClientStep(p)
           \/ \E u \in Users, answered \in BOOLEAN : Invalidate(p, u, answered)
<1>0. call \in [Procs -> Call] /\ Admins \subseteq Procs /\ Clients \subseteq Procs
  BY DEF TypeOK, Procs
<1>1. \A q \in Procs \ {p} : \A x : ~Goto(q, x)
  BY <1>0 DEF Goto
<1>2. call' # call
  OBVIOUS
<1>3. ASSUME NEW q \in Admins, AdminStep(q) PROVE q = p
  BY <1>0, <1>1, <1>2, <1>3 DEF AdminStep, Invite, InviteCommit, Revoke, Remove, RemoveCommit,
              Grant, GrantCommit, RevokeRole
<1>4. ASSUME NEW q \in Clients, ClientStep(q) PROVE q = p
  <2>1. ASSUME NEW i \in Invs, NEW u \in Users, Join(q, i, u) \/ JoinRefused(q, i, u) PROVE q = p
    BY <1>0, <1>1, <2>1 DEF Join, JoinRefused, Admit
  <2>2. ASSUME (\E i \in Invs : Accept(q, i)) \/ AcceptCheck(q) \/ Respond(q) PROVE q = p
    BY <1>0, <1>1, <2>2 DEF Accept, AcceptCheck, Respond
  <2>3. ASSUME NEW u \in Users,
               \/ Login(q, u) \/ CreateSession(q, u) \/ Logout(q, u) \/ Resolve(q, u)
               \/ ReadCaps(q, u) \/ FillCache(q, u) \/ Confirm(q, u)
        PROVE  q = p
    BY <1>0, <1>1, <1>2, <2>3 DEF Login, CreateSession, Logout, Resolve, ReadCaps, FillCache, Confirm
  <2> QED BY <1>4, <2>1, <2>2, <2>3 DEF ClientStep
<1>5. ASSUME NEW q \in Procs, NEW u \in Users, NEW answered \in BOOLEAN, Invalidate(q, u, answered)
      PROVE  q = p
  BY <1>0, <1>1, <1>5 DEF Invalidate
<1>6. ASSUME (\E u \in Users : JoinElsewhere(u) \/ Expire(u)) \/ UNCHANGED vars PROVE FALSE
  BY <1>2, <1>6 DEF JoinElsewhere, Expire, vars
<1> QED BY <1>3, <1>4, <1>5, <1>6 DEF Next

\* What is about to drop a cached answer goes on to do so.
LEMMA InvalidateStays ==
    ASSUME TypeOK, [Next]_vars, NEW p \in Procs, call[p].at = "invalidate", call'[p] # call[p]
    PROVE  \E answered \in BOOLEAN : Invalidate(p, call[p].user, answered)
<1>0. call[p] # Idle
  BY DEF Idle
<1>1. ~AdminStep(p)
  <2>1. \A i, u, role, works : ~Invite(p, i, u, role, works)
    BY <1>0 DEF Invite
  <2>2. \A i : ~InviteCommit(p, i) /\ ~Revoke(p, i)
    BY <1>0 DEF InviteCommit, Revoke
  <2>3. \A u : ~Remove(p, u) /\ ~RemoveCommit(p, u) /\ ~Grant(p, u) /\ ~GrantCommit(p, u)
               /\ ~RevokeRole(p, u)
    BY <1>0 DEF Remove, RemoveCommit, Grant, GrantCommit, RevokeRole
  <2> QED BY <2>1, <2>2, <2>3 DEF AdminStep
<1>2. ~ClientStep(p)
  <2>1. ~AcceptCheck(p) /\ ~Respond(p) /\ \A i : ~Accept(p, i)
    BY <1>0 DEF Accept, AcceptCheck, Respond
  <2>2. \A i, u : ~Join(p, i, u) /\ ~JoinRefused(p, i, u)
    BY DEF Join, JoinRefused, Joining
  <2>3. \A u : ~Login(p, u) /\ ~CreateSession(p, u) /\ ~Logout(p, u) /\ ~Resolve(p, u)
    BY <1>0 DEF Login, CreateSession, Logout, Resolve
  <2>4. \A u : ~ReadCaps(p, u) /\ ~FillCache(p, u) /\ ~Confirm(p, u)
    BY DEF ReadCaps, FillCache, Confirm
  <2> QED BY <2>1, <2>2, <2>3, <2>4 DEF ClientStep
<1> QED BY <1>1, <1>2, OwnStep DEF Invalidate

-----------------------------------------------------------------------------
(* Members: types, refusal and the cache.                                  *)

\* What a caller has been told it may use stays typed, and so does the rest.
LEMMA TypeStep ==
    ASSUME MembersInv, [Next]_vars
    PROVE  TypeOK'
<1>0. TypeOK /\ CallsMade /\ call' \in [Procs -> Call] /\ Clients \subseteq Procs /\ Admins \subseteq Procs
  BY CallsType DEF MembersInv, Procs
<1>1. ASSUME NEW p \in Clients, NEW i \in Invs, NEW u \in Users, Join(p, i, u)
      PROVE  inv[i].role \in Roles /\ (call[p].new \/ account[u] # None)
  BY <1>0, <1>1, OffersAssumption DEF Join, Joining, CallsMade, Made, Proper
<1>2. account' \in [Users -> Users \cup Procs \cup {None}]
  <2>1. account \in [Users -> Users \cup Procs \cup {None}]
    BY <1>0 DEF TypeOK
  <2>2. ASSUME NEW p \in Clients, NEW i \in Invs, NEW u \in Users, Join(p, i, u)
        PROVE  account' = [account EXCEPT ![u] = p] \/ account' = account
    BY <2>2 DEF Join
  <2>3. ASSUME NEW u \in Users, JoinElsewhere(u) PROVE account' = [account EXCEPT ![u] = u]
    BY <2>3 DEF JoinElsewhere
  <2> QED BY <1>0, <2>1, <2>2, <2>3, Writers
<1>3. member' \in [Users -> Roles \cup {None}]
  <2>1. member \in [Users -> Roles \cup {None}]
    BY <1>0 DEF TypeOK
  <2>2. ASSUME NEW p \in Clients, NEW i \in Invs, NEW u \in Users, Join(p, i, u)
        PROVE  member' = [member EXCEPT ![u] = inv[i].role]
    BY <2>2 DEF Join, Admit
  <2>3. ASSUME NEW p \in Admins, NEW u \in Users, RemoveCommit(p, u)
        PROVE  member' = [member EXCEPT ![u] = None]
    BY <2>3 DEF RemoveCommit
  <2> QED BY <1>1, <2>1, <2>2, <2>3, Writers
<1>4. worker' \subseteq Users
  <2>1. worker \subseteq Users
    BY <1>0 DEF TypeOK
  <2>2. ASSUME NEW p \in Clients, NEW i \in Invs, NEW u \in Users, Join(p, i, u)
        PROVE  worker' \subseteq Users
    <3>1. worker' = worker \cup {u} \/ worker' = worker
      BY <2>2 DEF Join, Admit
    <3> QED BY <2>1, <3>1
  <2>3. ASSUME NEW p \in Admins, NEW u \in Users,
               RemoveCommit(p, u) \/ GrantCommit(p, u) \/ RevokeRole(p, u)
        PROVE  worker' \subseteq Users
    <3>1. worker' = worker \cup {u} \/ worker' = worker \ {u}
      BY <2>3 DEF RemoveCommit, GrantCommit, RevokeRole
    <3> QED BY <2>1, <3>1
  <2> QED BY <2>1, <2>2, <2>3, Writers
<1>5. session' \subseteq Users
  BY <1>0, Writers DEF TypeOK, RemoveCommit, CreateSession, Logout
<1>6. inv' \in [Invs -> [status : {"none", "open", "accepted", "gone"},
                         user : Users \cup {None}, role : Roles \cup {None}, works : BOOLEAN]]
  <2> DEFINE Row == [status : {"none", "open", "accepted", "gone"},
                     user : Users \cup {None}, role : Roles \cup {None}, works : BOOLEAN]
  <2>1. ASSUME NEW p \in Admins, NEW i \in Invs, InviteCommit(p, i) PROVE inv' \in [Invs -> Row]
    <3>1. call[p].user \in Users /\ call[p].role \in Roles /\ call[p].works \in BOOLEAN
      BY <1>0, <2>1, CallFields DEF InviteCommit, TypeOK
    <3>2. [status |-> "open", user |-> call[p].user, role |-> call[p].role,
           works |-> call[p].works] \in Row
      BY <3>1
    <3>3. \A j \in Invs : inv[j] \in Row /\ [inv[j] EXCEPT !.status = "gone"] \in Row
      BY <1>0 DEF TypeOK
    <3> HIDE DEF Row
    <3> QED BY <2>1, <3>2, <3>3 DEF InviteCommit
  <2>2. ASSUME NEW p \in Admins, NEW i \in Invs, Revoke(p, i) PROVE inv' \in [Invs -> Row]
    BY <1>0, <2>2 DEF Revoke, TypeOK
  <2>3. ASSUME NEW p \in Clients, NEW i \in Invs, NEW u \in Users, Join(p, i, u)
        PROVE  inv' \in [Invs -> Row]
    BY <1>0, <2>3 DEF Join, Admit, TypeOK
  <2>4. UNCHANGED inv => inv' \in [Invs -> Row]
    BY <1>0 DEF TypeOK
  <2> QED BY <2>1, <2>2, <2>3, <2>4, InvWriters
<1>7. cache' \in [Users -> Entry \cup {None}]
  <2>1. ASSUME NEW p \in Clients, NEW u \in Users, FillCache(p, u)
        PROVE  cache' \in [Users -> Entry \cup {None}]
    <3> DEFINE late == call[p].caps # Caps(u)
    <3>1. late \in BOOLEAN /\ call[p].caps \subseteq {"manage", "work"}
      BY <1>0, <2>1, CallFields DEF FillCache, TypeOK
    <3>2. cache' = [cache EXCEPT ![u] = [caps |-> call[p].caps, late |-> late]]
      BY <2>1 DEF FillCache
    <3> HIDE DEF late
    <3>3. [caps |-> call[p].caps, late |-> late] \in Entry
      BY <3>1 DEF Entry
    <3> QED BY <1>0, <3>2, <3>3 DEF TypeOK
  <2>2. ASSUME NEW p \in Procs, NEW u \in Users, NEW answered \in BOOLEAN, Invalidate(p, u, answered)
        PROVE  cache' \in [Users -> Entry \cup {None}]
    <3>1. cache[u] \in Entry => [cache[u] EXCEPT !.late = TRUE] \in Entry
      BY DEF Entry
    <3> QED BY <1>0, <2>2, <3>1 DEF TypeOK, Invalidate
  <2>3. ASSUME NEW u \in Users, Expire(u) PROVE cache' \in [Users -> Entry \cup {None}]
    BY <1>0, <2>3 DEF TypeOK, Expire
  <2> QED BY <1>0, <2>1, <2>2, <2>3, Writers DEF TypeOK
<1>8. ASSUME NEW u \in Users, member'[u] # None PROVE account'[u] # None
  <2>1. CASE member[u] # None
    BY <1>0, <2>1, AccountStays DEF TypeOK
  <2>2. CASE member[u] = None
    <3>1. \A p \in Admins, v \in Users : ~RemoveCommit(p, v)
      BY <1>0, <1>8, <2>2 DEF TypeOK, RemoveCommit
    <3>2. PICK p \in Clients, i \in Invs, v \in Users : Join(p, i, v)
      BY <1>8, <2>2, <3>1, Writers
    <3>3. v = u
      BY <1>0, <1>8, <2>2, <3>2 DEF TypeOK, Join, Admit
    <3>4. CASE call[p].new
      BY <1>0, <3>2, <3>3, <3>4, NoneAssumption DEF TypeOK, Join
    <3> QED BY <1>0, <1>1, <3>2, <3>3, <3>4, AccountStays
  <2> QED BY <2>1, <2>2
<1> QED BY <1>0, <1>2, <1>3, <1>4, <1>5, <1>6, <1>7, <1>8 DEF TypeOK

\* Who is told yes was a member when asked or has become one since.
LEMMA RefusalStep ==
    ASSUME TypeOK, RemovedIsRefused, [Next]_vars
    PROVE  RemovedIsRefused'
<1> SUFFICES ASSUME NEW p \in Procs, call'[p].at = "granted" PROVE call'[p].was
  BY DEF RemovedIsRefused
<1>0. call \in [Procs -> Call]
  BY DEF TypeOK
<1>1. CASE call'[p] = call[p]
  BY <1>1 DEF RemovedIsRefused
<1>2. CASE call'[p] # call[p]
  <2>1. \A u, answered : ~Invalidate(p, u, answered)
    BY <1>0 DEF Invalidate, Goto, Idle
  <2>2. ~AdminStep(p)
    <3>1. \A i, u, role, works : ~Invite(p, i, u, role, works)
      BY <1>0 DEF Invite, Goto
    <3>2. \A i : ~InviteCommit(p, i) /\ ~Revoke(p, i)
      BY <1>0, <1>2 DEF InviteCommit, Revoke, Goto, Idle
    <3>3. \A u : ~Remove(p, u) /\ ~RemoveCommit(p, u) /\ ~Grant(p, u) /\ ~GrantCommit(p, u)
                 /\ ~RevokeRole(p, u)
      BY <1>0 DEF Remove, RemoveCommit, Grant, GrantCommit, RevokeRole, Goto
    <3> QED BY <3>1, <3>2, <3>3 DEF AdminStep
  <2>3. ~AcceptCheck(p) /\ ~Respond(p) /\ \A i : ~Accept(p, i)
    BY <1>0 DEF Accept, AcceptCheck, Respond, Goto, Idle
  <2>4. \A i, u : ~Join(p, i, u) /\ ~JoinRefused(p, i, u)
    BY <1>0 DEF Join, JoinRefused, Admit, Goto, Idle
  <2>5. \A u : ~Login(p, u) /\ ~CreateSession(p, u) /\ ~Logout(p, u) /\ ~Resolve(p, u)
    BY <1>0, <1>2 DEF Login, CreateSession, Logout, Resolve, Goto, Idle
  <2>6. \A u : ~ReadCaps(p, u) /\ ~FillCache(p, u)
    BY <1>0 DEF ReadCaps, FillCache, Goto, Idle
  <2>7. PICK u \in Users : Confirm(p, u)
    BY <1>2, <2>1, <2>2, <2>3, <2>4, <2>5, <2>6, OwnStep DEF ClientStep
  <2> DEFINE was == call[p].was \/ member[u] # None
  <2>8. member[u] # None /\ call'[p] = [at |-> "granted", user |-> u, was |-> was]
    BY <1>0, <2>7 DEF Confirm, Goto, Idle
  <2>9. was
    BY <2>8
  <2> HIDE DEF was
  <2> QED BY <2>8, <2>9
<1> QED BY <1>1, <1>2

\* Whoever changes what a user may do goes on to drop the cached answer.
LEMMA CapsMoves ==
    ASSUME TypeOK, [Next]_vars, NEW u \in Users, Caps(u)' # Caps(u)
    PROVE  \E p \in Procs : call'[p].at = "invalidate" /\ call'[p].user = u
<1>0. /\ member \in [Users -> Roles \cup {None}] /\ call \in [Procs -> Call]
      /\ Admins \subseteq Procs /\ Clients \subseteq Procs
  BY DEF TypeOK, Procs
<1>1. ASSUME NEW p \in Procs, NEW v \in Users, Goto(p, [at |-> "invalidate", user |-> v])
      PROVE  call'[p].at = "invalidate" /\ call'[p].user = v
  BY <1>0, <1>1 DEF Goto
<1>2. ASSUME NEW p \in Clients, NEW i \in Invs, NEW v \in Users, Join(p, i, v)
      PROVE  v = u /\ Goto(p, [at |-> "invalidate", user |-> v])
  <2>1. CASE v # u
    <3>1. member'[u] = member[u]
      BY <1>0, <1>2, <2>1 DEF Join, Admit
    <3>2. u \in worker' <=> u \in worker
      BY <1>2, <2>1 DEF Join, Admit
    <3> QED BY <3>1, <3>2 DEF Caps
  <2> QED BY <1>2, <2>1 DEF Join, Admit
<1>3. ASSUME NEW p \in Admins, NEW v \in Users,
             RemoveCommit(p, v) \/ GrantCommit(p, v) \/ RevokeRole(p, v)
      PROVE  v = u /\ Goto(p, [at |-> "invalidate", user |-> v])
  <2>1. CASE v # u
    <3>1. member'[u] = member[u]
      BY <1>0, <1>3, <2>1 DEF RemoveCommit, GrantCommit, RevokeRole
    <3>2. u \in worker' <=> u \in worker
      BY <1>3, <2>1 DEF RemoveCommit, GrantCommit, RevokeRole
    <3> QED BY <3>1, <3>2 DEF Caps
  <2> QED BY <1>3, <2>1 DEF RemoveCommit, GrantCommit, RevokeRole
<1>4. ~(UNCHANGED member /\ UNCHANGED worker)
  BY DEF Caps
<1> QED BY <1>0, <1>1, <1>2, <1>3, <1>4, Writers

\* A cached answer that counts as timely is the one there was, or is up to date.
LEMMA CacheMoves ==
    ASSUME TypeOK, [Next]_vars, NEW u \in Users, cache'[u] # None, ~cache'[u].late
    PROVE  cache'[u] = cache[u] \/ cache'[u].caps = Caps(u)'
<1>0. cache \in [Users -> Entry \cup {None}]
  BY DEF TypeOK
<1>1. ASSUME NEW p \in Clients, NEW v \in Users, FillCache(p, v)
      PROVE  cache'[u] = cache[u] \/ cache'[u].caps = Caps(u)'
  <2> DEFINE late == call[p].caps # Caps(v)
  <2>1. cache' = [cache EXCEPT ![v] = [caps |-> call[p].caps, late |-> late]]
    BY <1>1 DEF FillCache
  <2>2. Caps(u)' = Caps(u)
    BY <1>1 DEF FillCache, Caps
  <2>3. late <=> call[p].caps # Caps(v)
    OBVIOUS
  <2> HIDE DEF late
  <2>4. v = u => cache'[u].late = late /\ cache'[u].caps = call[p].caps
    BY <1>0, <2>1
  <2> QED BY <1>0, <2>1, <2>2, <2>3, <2>4
<1>2. ASSUME NEW p \in Procs, NEW v \in Users, NEW answered \in BOOLEAN, Invalidate(p, v, answered)
      PROVE  cache'[u] = cache[u]
  <2>1. v = u => cache'[u] = [cache[u] EXCEPT !.late = TRUE] /\ cache[u] # None
    BY <1>0, <1>2 DEF Invalidate
  <2>2. cache[u] # None => [cache[u] EXCEPT !.late = TRUE].late
    BY <1>0 DEF Entry
  <2>3. v # u => cache'[u] = cache[u]
    BY <1>0, <1>2 DEF Invalidate
  <2> QED BY <2>1, <2>2, <2>3
<1>3. ASSUME NEW v \in Users, Expire(v) PROVE cache'[u] = cache[u]
  BY <1>0, <1>3 DEF Expire
<1> QED BY <1>1, <1>2, <1>3, Writers

\* A cached answer that is out of date keeps its reason, or finds one.
LEMMA StaleStep ==
    ASSUME TypeOK, StaleHasReason, [Next]_vars
    PROVE  StaleHasReason'
<1> SUFFICES ASSUME NEW u \in Users, cache'[u] # None, cache'[u].caps # Caps(u)', ~cache'[u].late
             PROVE  \E p \in Procs : call'[p].at = "invalidate" /\ call'[p].user = u
  BY DEF StaleHasReason
<1>1. cache'[u] = cache[u]
  BY CacheMoves
<1>2. CASE Caps(u)' # Caps(u)
  BY <1>2, CapsMoves
<1>3. CASE Caps(u)' = Caps(u)
  <2>1. PICK p \in Procs : call[p].at = "invalidate" /\ call[p].user = u
    BY <1>1, <1>3 DEF StaleHasReason
  <2>2. CASE call'[p] = call[p]
    BY <2>1, <2>2
  <2>3. CASE call'[p] # call[p]
    <3>1. PICK answered \in BOOLEAN : Invalidate(p, u, answered)
      BY <2>1, <2>3, InvalidateStays
    <3>2. cache[u] # None /\ cache[u] \in Entry /\ cache'[u] = [cache[u] EXCEPT !.late = TRUE]
      BY <1>1, <3>1 DEF TypeOK, Invalidate
    <3>3. cache'[u].late
      BY <3>2 DEF Entry
    <3> QED BY <3>3
  <2> QED BY <2>2, <2>3
<1> QED BY <1>2, <1>3

-----------------------------------------------------------------------------
(* Members: the owners.                                                    *)

\* The owners can be counted, and of more than one another is left.
LEMMA AnotherOwner ==
    ASSUME NEW u, Cardinality(Owners) > 1
    PROVE  \E v \in Owners : v # u
<1> SUFFICES ASSUME Owners \subseteq {u} PROVE FALSE
  OBVIOUS
<1>1. Owners = {} \/ Owners = {u}
  OBVIOUS
<1>2. Cardinality({}) = 0
  BY FS_EmptySet
<1>3. Cardinality({u}) = 1
  BY FS_Singleton
<1> QED BY <1>1, <1>2, <1>3

\* While an owner's removal holds the row, nobody makes it another's: what it
\* has counted stays what it has counted.
LEMMA RemovalStep ==
    ASSUME OwnersInv, [Next]_vars
    PROVE  RemovalCounts'
<1>0. /\ TypeOK /\ member \in [Users -> Roles \cup {None}] /\ None # "owner"
      /\ call \in [Procs -> Call] /\ Admins \subseteq Procs
  BY NoneAssumption DEF OwnersInv, MembersInv, TypeOK, Roles, Procs
<1> SUFFICES ASSUME NEW p \in Procs, call'[p].at = "remove", member'[call'[p].user] = "owner"
             PROVE  \E v \in call'[p].counted : v # call'[p].user
  BY DEF RemovalCounts
<1>1. CASE call'[p] = call[p]
  <2> DEFINE u == call[p].user
  <2>1. u \in Users /\ MemberLocked(u)
    BY <1>0, <1>1, CallFields DEF MemberLocked
  <2>2. ASSUME NEW q \in Clients, NEW i \in Invs, NEW w \in Users, Join(q, i, w)
        PROVE  member'[u] = member[u]
    BY <1>0, <2>1, <2>2 DEF Join, Joining, Admit
  <2>3. ASSUME NEW q \in Admins, NEW w \in Users, RemoveCommit(q, w)
        PROVE  member'[u] \in {member[u], None}
    BY <1>0, <2>1, <2>3 DEF RemoveCommit
  <2>4. member[u] = "owner"
    BY <1>0, <1>1, <2>2, <2>3, Writers
  <2> QED BY <1>1, <2>4 DEF OwnersInv, RemovalCounts
<1>2. ASSUME NEW u \in Users, Remove(p, u)
      PROVE  \E v \in call'[p].counted : v # call'[p].user
  <2>1. call'[p] = [at |-> "remove", user |-> u, counted |-> Counted(u)] /\ member' = member
    BY <1>0, <1>2 DEF Remove, Goto
  <2>2. member[u] = "owner"
    BY <2>1
  <2>3. PICK v \in Owners : v # u
    BY <1>2, <2>2, AnotherOwner DEF Remove
  <2> QED BY <2>1, <2>2, <2>3 DEF Counted
<1>3. /\ \A i, u, role, works : ~Invite(p, i, u, role, works)
      /\ \A i : ~Accept(p, i)
      /\ ~AcceptCheck(p)
  BY <1>0 DEF Invite, Accept, AcceptCheck, Goto, Idle
<1> QED BY <1>0, <1>1, <1>2, <1>3, CallMoves

\* Whoever is an owner stays one but by a removal or by joining once more.
LEMMA OwnersMove ==
    ASSUME OwnersInv, [Next]_vars, NEW w \in Owners, w \notin Owners'
    PROVE  \/ \E p \in Admins : RemoveCommit(p, w)
           \/ \E p \in Clients, i \in Invs : Join(p, i, w) /\ inv[i].role # "owner"
<1>0. member \in [Users -> Roles \cup {None}] /\ None # "owner" /\ w \in Users
  BY NoneAssumption DEF OwnersInv, MembersInv, TypeOK, Roles, Owners
<1>1. ASSUME NEW p \in Admins, NEW v \in Users, RemoveCommit(p, v) PROVE v = w
  BY <1>0, <1>1 DEF RemoveCommit, Owners
<1>2. ASSUME NEW p \in Clients, NEW i \in Invs, NEW v \in Users, Join(p, i, v)
      PROVE  v = w /\ inv[i].role # "owner"
  BY <1>0, <1>2 DEF Join, Admit, Owners
<1>3. member' # member
  BY DEF Owners
<1> QED BY <1>1, <1>2, <1>3, Writers

\* The last owner goes only in the two ways that the property names.
LEMMA LastOwnerStep ==
    ASSUME OwnersInv, [Next]_vars, Owners # {}, Owners' = {}
    PROVE  \/ \E p \in Admins, u \in Users : RemoveCommit(p, u) /\ ~(call[p].counted \subseteq Owners)
           \/ \E p \in Clients, i \in Invs, u \in Owners : Join(p, i, u) /\ inv[i].role # "owner"
<1>1. PICK w \in Owners : TRUE
  OBVIOUS
<1>2. w \notin Owners' /\ w \in Users
  BY DEF Owners
<1>3. ASSUME NEW p \in Admins, RemoveCommit(p, w) PROVE ~(call[p].counted \subseteq Owners)
  <2>1. p \in Procs /\ call[p].at = "remove" /\ call[p].user = w /\ member[w] = "owner"
    BY <1>3 DEF Procs, RemoveCommit, Owners
  <2>2. PICK v \in call[p].counted : v # w
    BY <2>1 DEF OwnersInv, RemovalCounts
  <2>3. member \in [Users -> Roles \cup {None}]
    BY DEF OwnersInv, MembersInv, TypeOK
  <2>4. v \notin Owners
    BY <1>3, <2>2, <2>3 DEF RemoveCommit, Owners
  <2> QED BY <2>2, <2>4
<1> QED BY <1>1, <1>2, <1>3, OwnersMove

-----------------------------------------------------------------------------
(* Members: what holds.                                                    *)

\* Nothing has happened yet.
LEMMA MembersInit ==
    ASSUME Init
    PROVE  OwnersInv
<1>0. \A p \in Procs : call[p] = Idle /\ call[p].at = "idle"
  BY DEF Init, Idle
<1>1. TypeOK
  BY FoundersAssumption, NoneAssumption DEF Init, TypeOK, Call, Roles, Unused
<1>2. InvsMade /\ CallsMade /\ RemovedIsRefused /\ RemovalCounts
  BY <1>0 DEF Init, InvsMade, CallsMade, RemovedIsRefused, RemovalCounts
<1>3. StaleHasReason
  BY DEF Init, StaleHasReason
<1> QED BY <1>1, <1>2, <1>3 DEF OwnersInv, MembersInv

\* The inductive invariant of the members holds, whatever is invited by whom.
THEOREM MembersInductive == Spec => []MembersInv
<1>1. Init => MembersInv
  BY MembersInit DEF OwnersInv
<1>2. MembersInv /\ [Next]_vars => MembersInv'
  BY TypeStep, MadeStep, RefusalStep, StaleStep DEF MembersInv
<1> QED BY <1>1, <1>2, PTL DEF Spec

\* Every variable keeps its type, and nobody is a member without an account
\* (Store.AcceptInvitation creates the one before the other).
THEOREM TypeCorrect == Spec => []TypeOK
<1>1. MembersInv => TypeOK
  BY DEF MembersInv
<1> QED BY <1>1, MembersInductive, PTL

\* A request of somebody removed before it began is refused (Service.Resolve
\* reads the membership again whatever the cache says).
THEOREM RemovedAreRefused == Spec => []RemovedIsRefused
<1>1. MembersInv => RemovedIsRefused
  BY DEF MembersInv
<1> QED BY <1>1, MembersInductive, PTL

\* A cached capability is out of date for a reason, or for as long as the change
\* takes to drop it (every change of a role calls InvalidateCapabilities).
THEOREM StaleForAReason == Spec => []StaleHasReason
<1>1. MembersInv => StaleHasReason
  BY DEF MembersInv
<1> QED BY <1>1, MembersInductive, PTL

\* Whatever invitations, acceptances and removals interleave, by any number of
\* administrators, the last owner goes only by a removal that had counted an
\* owner who has left since, or by accepting an invitation to a lesser role
\* (RemoveMember counts the owners while it holds the row of one).
THEOREM AnOwnerRemains == Spec => OwnerRemains
<1>1. Init => OwnersInv
  BY MembersInit
<1>2. OwnersInv /\ [Next]_vars => OwnersInv'
  BY TypeStep, MadeStep, RefusalStep, StaleStep, RemovalStep DEF OwnersInv, MembersInv
<1>3. ASSUME OwnersInv, [Next]_vars
      PROVE  [Owners # {} /\ Owners' = {} =>
                \/ \E p \in Admins, u \in Users :
                      RemoveCommit(p, u) /\ ~(call[p].counted \subseteq Owners)
                \/ \E p \in Clients, i \in Invs, u \in Owners :
                      Join(p, i, u) /\ inv[i].role # "owner"]_vars
  BY <1>3, LastOwnerStep
<1> QED BY <1>1, <1>2, <1>3, PTL DEF Spec, OwnerRemains

-----------------------------------------------------------------------------
(* Data subjects: types.                                                   *)

\* The fields of what a goroutine has read, and of a link.
LEMMA AskFields ==
    ASSUME NEW x \in Ask
    PROVE  /\ x.at \in {"found", "allowed"} => x.ident \in Idents /\ x.subject \in People
           /\ x.at = "allowed" => x.window \in 1 .. Windows /\ <<x.ident, x.window>> \in Rows
                                  /\ [x EXCEPT !.at = "issued"] \in Token
                                  /\ [x EXCEPT !.at = "issued"].at = "issued"
                                  /\ [x EXCEPT !.at = "issued"].ident = x.ident
                                  /\ [x EXCEPT !.at = "issued"].window = x.window
           /\ x.at = "issued" => x.link \in Links
<1>1. CASE x = Waiting
  BY <1>1 DEF Waiting
<1>2. CASE x \in [at : {"found"}, ident : Idents, subject : People]
  BY <1>2
<1>3. CASE x \in [at : {"allowed"}, ident : Idents, subject : People, window : 1 .. Windows]
  BY <1>3 DEF Token, Rows
<1>4. CASE x \in [at : {"issued"}, link : Links]
  BY <1>4
<1> QED BY <1>1, <1>2, <1>3, <1>4 DEF Ask

\* A link that was issued keeps its fields whatever becomes of it.
LEMMA TokenFields ==
    ASSUME NEW x \in Token
    PROVE  /\ x.at \in {"issued", "mailed", "used", "over"} =>
                 x.ident \in Idents /\ x.window \in 1 .. Windows /\ <<x.ident, x.window>> \in Rows
           /\ x # NoLink => \A at \in {"issued", "mailed", "used", "over"} :
                 LET y == [x EXCEPT !.at = at] IN
                 y \in Token /\ y.at = at /\ y.ident = x.ident /\ y.window = x.window
           /\ x = NoLink <=> x.at = "none"
<1>1. CASE x = NoLink
  BY <1>1 DEF NoLink
<1>2. CASE x \in [at : {"issued", "mailed", "used", "over"}, ident : Idents, subject : People,
                  window : 1 .. Windows]
  BY <1>2 DEF Token, NoLink, Rows
<1> QED BY <1>1, <1>2 DEF Token

\* A goroutine goes on as a typed one, and the others stay.
LEMMA AskGoes ==
    ASSUME AccessTyped, NEW k \in Asks, NEW x, Goes(k, x)
    PROVE  /\ asks'[k] = x /\ \A j \in Asks \ {k} : asks'[j] = asks[j]
           /\ x \in Ask => asks' \in [Asks -> Ask]
BY DEF AccessTyped, Goes

-----------------------------------------------------------------------------
(* Data subjects: what may still open the portal.                          *)

\* One more ticket is one more of them.
LEMMA OneIn ==
    ASSUME NEW S, NEW x, IsFiniteSet(S), x \notin S
    PROVE  IsFiniteSet(S \cup {x}) /\ Cardinality(S \cup {x}) = Cardinality(S) + 1
BY FS_AddElement

\* One ticket fewer is one fewer of them.
LEMMA OneOut ==
    ASSUME NEW S, NEW x, IsFiniteSet(S), x \in S
    PROVE  IsFiniteSet(S \ {x}) /\ Cardinality(S \ {x}) = Cardinality(S) - 1
BY FS_RemoveElement

\* What a step may do to an address and a window: it counts an attempt and lets
\* one more open the portal, or it lets no more.
NoMore(row) ==
    /\ IsFiniteSet(Allowed(row)') /\ IsFiniteSet(Spendable(row)')
    /\ Tickets(row)' <= Tickets(row)
    /\ window' \in Nat /\ window' >= window
    /\ row[2] < window \/ attempts'[row] >= attempts[row]

OneMore(row) ==
    /\ IsFiniteSet(Allowed(row)') /\ IsFiniteSet(Spendable(row)')
    /\ Tickets(row)' = Tickets(row) + 1
    /\ window' = window /\ row[2] = window
    /\ attempts'[row] = attempts[row] + 1 /\ attempts'[row] <= Limit

\* Tickets are counted in natural numbers.
LEMMA TicketsNat ==
    ASSUME AccessInv, NEW row \in Rows
    PROVE  /\ opened[row] \in Nat /\ Cardinality(Allowed(row)) \in Nat
           /\ Cardinality(Spendable(row)) \in Nat /\ Tickets(row) \in Nat
           /\ attempts[row] \in Nat /\ row[2] \in 1 .. Windows /\ window \in Nat
           /\ IsFiniteSet(Allowed(row)) /\ IsFiniteSet(Spendable(row))
<1>1. IsFiniteSet(Allowed(row)) /\ IsFiniteSet(Spendable(row))
  BY DEF AccessInv, TicketsCounted
<1>2. Cardinality(Allowed(row)) \in Nat /\ Cardinality(Spendable(row)) \in Nat
  BY <1>1, FS_CardinalityType
<1> QED BY <1>1, <1>2, WindowsAssumption DEF AccessInv, AccessTyped, Tickets, Rows

\* A step that touches neither an allowance, nor a link that may be spent, nor
\* a count.
LEMMA Untouched ==
    ASSUME AccessInv, NEW row \in Rows, Allowed(row)' = Allowed(row),
           Spendable(row)' = Spendable(row), opened'[row] = opened[row],
           window' \in Nat, window' >= window, row[2] < window \/ attempts'[row] >= attempts[row]
    PROVE  NoMore(row)
BY TicketsNat DEF NoMore, Tickets

\* FindSubject: nothing is allowed yet.
LEMMA FindSubjectStep ==
    ASSUME AccessInv, NEW k \in Asks, NEW i \in Idents, NEW p \in People, FindSubject(k, i, p)
    PROVE  AccessTyped' /\ \A row \in Rows : NoMore(row)
<1> DEFINE x == [at |-> "found", ident |-> i, subject |-> p]
<1>0. AccessTyped /\ Goes(k, x) /\ UNCHANGED <<window, attempts, tokens, opened>> /\ asks[k] = Waiting
  BY DEF AccessInv, FindSubject
<1>1. x \in Ask /\ x.at = "found"
  BY DEF Ask
<1> HIDE DEF x
<1>2. AccessTyped'
  BY <1>0, <1>1, AskGoes DEF AccessTyped
<1>3. ASSUME NEW row \in Rows PROVE NoMore(row)
  <2>1. Allowed(row)' = Allowed(row)
    BY <1>0, <1>1, AskGoes DEF Allowed, Waiting
  <2>2. Spendable(row)' = Spendable(row)
    BY <1>0 DEF Spendable
  <2> QED BY <1>0, <2>1, <2>2, TicketsNat, Untouched
<1> QED BY <1>2, <1>3

\* RegisterAttempt: the attempt is counted, and allowed if the count is within
\* the limit.
LEMMA RegisterStep ==
    ASSUME AccessInv, NEW k \in Asks, RegisterAttempt(k)
    PROVE  AccessTyped' /\ \A row \in Rows : NoMore(row) \/ OneMore(row)
<1> DEFINE it == <<asks[k].ident, window>>
           x == [at |-> "allowed", ident |-> asks[k].ident, subject |-> asks[k].subject,
                 window |-> window]
<1>0. /\ AccessTyped /\ asks[k] \in Ask /\ asks[k].at = "found" /\ window \in 1 .. Windows
      /\ attempts' = [attempts EXCEPT ![it] = attempts[it] + 1]
      /\ UNCHANGED <<window, tokens, opened>>
      /\ \/ Goes(k, x) /\ attempts'[it] <= Limit
         \/ Goes(k, Waiting)
  BY DEF AccessInv, AccessTyped, RegisterAttempt
<1>1. it \in Rows /\ x \in Ask /\ Waiting \in Ask
  BY <1>0, AskFields DEF Rows, Ask
<1>2. x.at = "allowed" /\ x.ident = it[1] /\ x.window = it[2] /\ it[2] = window
      /\ Waiting.at = "none" /\ it = <<x.ident, x.window>>
  BY DEF Waiting
<1> HIDE DEF it, x
<1>3. attempts' \in [Rows -> Nat]
  BY <1>0, <1>1 DEF AccessTyped
<1>4. AccessTyped'
  BY <1>0, <1>1, <1>3, AskGoes DEF AccessTyped
<1>5. ASSUME NEW row \in Rows PROVE NoMore(row) \/ OneMore(row)
  <2>1. Spendable(row)' = Spendable(row)
    BY <1>0 DEF Spendable
  <2>2. attempts'[row] = IF row = it THEN attempts[row] + 1 ELSE attempts[row]
    BY <1>0, <1>1 DEF AccessTyped
  <2>3. k \notin Allowed(row)
    BY <1>0 DEF Allowed
  <2>4. CASE row = it /\ Goes(k, x) /\ attempts'[it] <= Limit
    <3>1. Allowed(row)' = Allowed(row) \cup {k}
      BY <1>0, <1>2, <2>4, AskGoes DEF Allowed
    <3>2. /\ IsFiniteSet(Allowed(row)')
          /\ Cardinality(Allowed(row)') = Cardinality(Allowed(row)) + 1
      BY <2>3, <3>1, OneIn, TicketsNat
    <3>3. Tickets(row)' = Tickets(row) + 1
      BY <1>0, <2>1, <3>2, TicketsNat DEF Tickets
    <3> QED BY <1>0, <1>2, <2>1, <2>2, <2>4, <3>2, <3>3, TicketsNat DEF OneMore
  <2>5. CASE ~(row = it /\ Goes(k, x) /\ attempts'[it] <= Limit)
    <3>1. Allowed(row)' = Allowed(row)
      BY <1>0, <1>2, <2>5, AskGoes DEF Allowed
    <3> QED BY <1>0, <2>1, <2>2, <3>1, TicketsNat, Untouched
  <2> QED BY <2>4, <2>5
<1> QED BY <1>4, <1>5

\* IssueToken: the allowance becomes a link.
LEMMA IssueStep ==
    ASSUME AccessInv, NEW k \in Asks, NEW l \in Links, IssueToken(k, l)
    PROVE  AccessTyped' /\ \A row \in Rows : NoMore(row)
<1> DEFINE x == [at |-> "issued", link |-> l]
           y == [asks[k] EXCEPT !.at = "issued"]
           it == <<asks[k].ident, asks[k].window>>
<1>0. /\ AccessTyped /\ asks[k] \in Ask /\ asks[k].at = "allowed" /\ tokens[l] = NoLink
      /\ tokens' = [tokens EXCEPT ![l] = y]
      /\ Goes(k, x) /\ UNCHANGED <<window, attempts, opened>>
  BY DEF AccessInv, AccessTyped, IssueToken
<1>1. x \in Ask /\ x.at = "issued"
  BY DEF Ask
<1>2. y \in Token /\ y.at = "issued" /\ <<y.ident, y.window>> = it /\ NoLink.at = "none"
  BY <1>0, AskFields DEF NoLink
<1> HIDE DEF x, y
<1>3. AccessTyped'
  BY <1>0, <1>1, <1>2, AskGoes DEF AccessTyped
<1>4. /\ asks'[k] = x /\ \A j \in Asks \ {k} : asks'[j] = asks[j]
      /\ tokens'[l] = y /\ \A m \in Links \ {l} : tokens'[m] = tokens[m]
  BY <1>0, AskGoes DEF AccessTyped
<1>5. ASSUME NEW row \in Rows PROVE NoMore(row)
  <2>1. CASE row = it
    <3>1. Allowed(row)' = Allowed(row) \ {k} /\ k \in Allowed(row)
      BY <1>0, <1>1, <1>4, <2>1 DEF Allowed
    <3>2. Spendable(row)' = Spendable(row) \cup {l} /\ l \notin Spendable(row)
      BY <1>0, <1>2, <1>4, <2>1 DEF Spendable
    <3>3. /\ IsFiniteSet(Allowed(row)') /\ IsFiniteSet(Spendable(row)')
          /\ Cardinality(Allowed(row)') = Cardinality(Allowed(row)) - 1
          /\ Cardinality(Spendable(row)') = Cardinality(Spendable(row)) + 1
      BY <3>1, <3>2, OneIn, OneOut, TicketsNat
    <3>4. Tickets(row)' = Tickets(row)
      BY <1>0, <3>3, TicketsNat DEF Tickets
    <3> QED BY <1>0, <3>3, <3>4, TicketsNat DEF NoMore
  <2>2. CASE row # it
    <3>1. Allowed(row)' = Allowed(row)
      BY <1>0, <1>1, <1>4, <2>2 DEF Allowed
    <3>2. Spendable(row)' = Spendable(row)
      BY <1>0, <1>2, <1>4, <2>2 DEF Spendable
    <3> QED BY <1>0, <3>1, <3>2, TicketsNat, Untouched
  <2> QED BY <2>1, <2>2
<1> QED BY <1>3, <1>5

\* Stop: an allowance is lost, or nothing.
LEMMA StopStep ==
    ASSUME AccessInv, NEW k \in Asks, Stop(k)
    PROVE  AccessTyped' /\ \A row \in Rows : NoMore(row)
<1>0. /\ AccessTyped /\ Goes(k, Waiting) /\ UNCHANGED <<window, attempts, tokens, opened>>
      /\ Waiting \in Ask /\ Waiting.at = "none"
  BY DEF AccessInv, Stop, Ask, Waiting
<1>1. AccessTyped'
  BY <1>0, AskGoes DEF AccessTyped
<1>2. ASSUME NEW row \in Rows PROVE NoMore(row)
  <2>1. Spendable(row)' = Spendable(row)
    BY <1>0 DEF Spendable
  <2>2. Allowed(row)' = Allowed(row) \ {k}
    BY <1>0, AskGoes DEF Allowed
  <2>3. CASE k \in Allowed(row)
    <3>1. /\ IsFiniteSet(Allowed(row)')
          /\ Cardinality(Allowed(row)') = Cardinality(Allowed(row)) - 1
      BY <2>2, <2>3, OneOut, TicketsNat
    <3> QED BY <1>0, <2>1, <3>1, TicketsNat DEF NoMore, Tickets
  <2>4. CASE k \notin Allowed(row)
    BY <1>0, <2>1, <2>2, <2>4, TicketsNat, Untouched
  <2> QED BY <2>3, <2>4
<1> QED BY <1>1, <1>2

\* Send: an issued link is mailed, and may be spent as before.
LEMMA SendStep ==
    ASSUME AccessInv, NEW k \in Asks, Send(k)
    PROVE  AccessTyped' /\ \A row \in Rows : NoMore(row)
<1> DEFINE l == asks[k].link
<1>0. /\ AccessTyped /\ Goes(k, Waiting) /\ UNCHANGED <<window, attempts, opened>>
      /\ Waiting \in Ask /\ Waiting.at = "none" /\ asks[k] \in Ask /\ asks[k].at = "issued"
  BY DEF AccessInv, AccessTyped, Send, Ask, Waiting
<1>1. l \in Links /\ tokens[l] \in Token
  BY <1>0, AskFields DEF AccessTyped
<1>2. tokens' = [tokens EXCEPT ![l] = [tokens[l] EXCEPT !.at =
                    IF tokens[l].at = "issued" THEN "mailed" ELSE tokens[l].at]]
  BY DEF Send
<1> HIDE DEF l
<1>3. tokens' = tokens \/ /\ tokens[l].at = "issued" /\ tokens[l] # NoLink
                          /\ tokens' = [tokens EXCEPT ![l] = [tokens[l] EXCEPT !.at = "mailed"]]
  <2>1. CASE tokens[l].at = "issued"
    BY <1>1, <1>2, <2>1, TokenFields
  <2>2. CASE tokens[l].at # "issued"
    <3>1. [tokens[l] EXCEPT !.at = tokens[l].at] = tokens[l]
      BY <1>1 DEF Token, NoLink
    <3> QED BY <1>0, <1>2, <2>2, <3>1 DEF AccessTyped
  <2> QED BY <2>1, <2>2
<1>4. ASSUME NEW y, y = [tokens[l] EXCEPT !.at = "mailed"], tokens[l].at = "issued"
      PROVE  y \in Token /\ y.at = "mailed" /\ y.ident = tokens[l].ident /\ y.window = tokens[l].window
  BY <1>1, <1>4, TokenFields
<1>5. AccessTyped'
  <2>1. tokens' \in [Links -> Token]
    BY <1>0, <1>1, <1>3, <1>4 DEF AccessTyped
  <2> QED BY <1>0, <2>1, AskGoes DEF AccessTyped
<1>6. ASSUME NEW row \in Rows PROVE NoMore(row)
  <2>1. Allowed(row)' = Allowed(row)
    BY <1>0, AskGoes DEF Allowed
  <2>2. Spendable(row)' = Spendable(row)
    <3>1. CASE tokens' = tokens
      BY <3>1 DEF Spendable
    <3>2. CASE tokens' # tokens
      <4> DEFINE y == [tokens[l] EXCEPT !.at = "mailed"]
      <4>1. y.at = "mailed" /\ y.ident = tokens[l].ident /\ y.window = tokens[l].window
            /\ tokens[l].at = "issued" /\ tokens' = [tokens EXCEPT ![l] = y]
        BY <1>3, <1>4, <3>2
      <4> HIDE DEF y
      <4>2. tokens'[l] = y /\ \A m \in Links \ {l} : tokens'[m] = tokens[m]
        BY <1>0, <1>1, <4>1 DEF AccessTyped
      <4> QED BY <1>1, <4>1, <4>2 DEF Spendable
    <3> QED BY <3>1, <3>2
  <2> QED BY <1>0, <2>1, <2>2, TicketsNat, Untouched
<1> QED BY <1>5, <1>6

\* ConsumeToken: the link is spent.
LEMMA ConsumeStep ==
    ASSUME AccessInv, NEW l \in Links, ConsumeToken(l)
    PROVE  AccessTyped' /\ \A row \in Rows : NoMore(row)
<1> DEFINE it == <<tokens[l].ident, tokens[l].window>>
           y == [tokens[l] EXCEPT !.at = "used"]
<1>0. /\ AccessTyped /\ tokens[l] \in Token /\ tokens[l].at = "mailed"
      /\ tokens' = [tokens EXCEPT ![l] = y] /\ opened' = [opened EXCEPT ![it] = opened[it] + 1]
      /\ UNCHANGED <<window, attempts, asks>>
  BY DEF AccessInv, AccessTyped, ConsumeToken, Opens
<1>1. it \in Rows /\ y \in Token /\ y.at = "used"
  BY <1>0, TokenFields DEF NoLink
<1> HIDE DEF y
<1>2. /\ tokens'[l] = y /\ \A m \in Links \ {l} : tokens'[m] = tokens[m]
      /\ tokens' \in [Links -> Token] /\ opened' \in [Rows -> Nat]
      /\ opened'[it] = opened[it] + 1 /\ \A row \in Rows \ {it} : opened'[row] = opened[row]
  BY <1>0, <1>1 DEF AccessTyped
<1>3. AccessTyped'
  BY <1>0, <1>2 DEF AccessTyped
<1>4. ASSUME NEW row \in Rows PROVE NoMore(row)
  <2>1. Allowed(row)' = Allowed(row)
    BY <1>0 DEF Allowed
  <2>2. CASE row = it
    <3>1. Spendable(row)' = Spendable(row) \ {l} /\ l \in Spendable(row)
      BY <1>0, <1>1, <1>2, <2>2 DEF Spendable
    <3>2. /\ IsFiniteSet(Spendable(row)')
          /\ Cardinality(Spendable(row)') = Cardinality(Spendable(row)) - 1
      BY <3>1, OneOut, TicketsNat
    <3>3. Tickets(row)' = Tickets(row)
      BY <1>2, <2>1, <2>2, <3>2, TicketsNat DEF Tickets
    <3> QED BY <1>0, <2>1, <3>2, <3>3, TicketsNat DEF NoMore
  <2>3. CASE row # it
    <3>1. Spendable(row)' = Spendable(row)
      BY <1>0, <1>1, <1>2, <2>3 DEF Spendable
    <3> QED BY <1>0, <1>2, <2>1, <2>3, <3>1, TicketsNat, Untouched
  <2> QED BY <2>2, <2>3
<1> QED BY <1>3, <1>4

\* ExpireToken: a link that might have been spent is over.
LEMMA ExpireStep ==
    ASSUME AccessInv, NEW l \in Links, ExpireToken(l)
    PROVE  AccessTyped' /\ \A row \in Rows : NoMore(row)
<1> DEFINE it == <<tokens[l].ident, tokens[l].window>>
           y == [tokens[l] EXCEPT !.at = "over"]
<1>0. /\ AccessTyped /\ tokens[l] \in Token /\ tokens[l].at \in {"issued", "mailed"}
      /\ tokens' = [tokens EXCEPT ![l] = y]
      /\ UNCHANGED <<window, attempts, asks, opened>>
  BY DEF AccessInv, AccessTyped, ExpireToken
<1>1. it \in Rows /\ y \in Token /\ y.at = "over"
  BY <1>0, TokenFields DEF NoLink
<1> HIDE DEF y
<1>2. /\ tokens'[l] = y /\ \A m \in Links \ {l} : tokens'[m] = tokens[m]
      /\ tokens' \in [Links -> Token]
  BY <1>0, <1>1 DEF AccessTyped
<1>3. AccessTyped'
  BY <1>0, <1>2 DEF AccessTyped
<1>4. ASSUME NEW row \in Rows PROVE NoMore(row)
  <2>1. Allowed(row)' = Allowed(row)
    BY <1>0 DEF Allowed
  <2>2. CASE row = it
    <3>1. Spendable(row)' = Spendable(row) \ {l} /\ l \in Spendable(row)
      BY <1>0, <1>1, <1>2, <2>2 DEF Spendable
    <3>2. /\ IsFiniteSet(Spendable(row)')
          /\ Cardinality(Spendable(row)') = Cardinality(Spendable(row)) - 1
      BY <3>1, OneOut, TicketsNat
    <3>3. Tickets(row)' <= Tickets(row)
      BY <1>0, <2>1, <3>2, TicketsNat DEF Tickets
    <3> QED BY <1>0, <2>1, <3>2, <3>3, TicketsNat DEF NoMore
  <2>3. CASE row # it
    <3>1. Spendable(row)' = Spendable(row)
      BY <1>0, <1>1, <1>2, <2>3 DEF Spendable
    <3> QED BY <1>0, <2>1, <3>1, TicketsNat, Untouched
  <2> QED BY <2>2, <2>3
<1> QED BY <1>3, <1>4

\* The purges take what can open nothing and counts of windows that are over;
\* time and the subjects' keys touch neither links nor counts.
LEMMA WorkerStep ==
    ASSUME AccessInv,
           \/ PurgeTokens \/ PurgeAttempts \/ NextWindow
           \/ \E p \in People, i \in Idents \cup {NoIdent} : Rekey(p, i)
           \/ UNCHANGED accessVars
    PROVE  AccessTyped' /\ \A row \in Rows : NoMore(row)
<1>0. AccessTyped /\ window \in Nat
  BY WindowsAssumption DEF AccessInv, AccessTyped
<1>1. CASE PurgeTokens
  <2>1. ASSUME NEW l \in Links
        PROVE  /\ tokens'[l] \in Token
               /\ tokens'[l] = tokens[l] \/ (tokens'[l].at = "none" /\ tokens[l].at \in {"used", "over"})
    BY <1>0, <1>1 DEF AccessTyped, PurgeTokens, Token, NoLink
  <2>2. UNCHANGED <<window, attempts, asks, opened>> /\ tokens' \in [Links -> Token]
    BY <1>1, <2>1 DEF PurgeTokens
  <2>3. ASSUME NEW row \in Rows PROVE NoMore(row)
    <3>1. Spendable(row)' = Spendable(row)
      BY <2>1 DEF Spendable
    <3>2. Allowed(row)' = Allowed(row)
      BY <2>2 DEF Allowed
    <3> QED BY <2>2, <3>1, <3>2, TicketsNat, Untouched
  <2> QED BY <1>0, <2>2, <2>3 DEF AccessTyped
<1>2. CASE PurgeAttempts
  <2>1. /\ UNCHANGED <<window, asks, tokens, opened>> /\ attempts' \in [Rows -> Nat]
        /\ \A row \in Rows : row[2] < window \/ attempts'[row] = attempts[row]
    BY <1>0, <1>2 DEF AccessTyped, PurgeAttempts
  <2>2. ASSUME NEW row \in Rows PROVE NoMore(row)
    <3>1. Allowed(row)' = Allowed(row) /\ Spendable(row)' = Spendable(row)
      BY <2>1 DEF Allowed, Spendable
    <3> QED BY <2>1, <3>1, TicketsNat, Untouched
  <2> QED BY <1>0, <2>1, <2>2 DEF AccessTyped
<1>3. CASE UNCHANGED <<attempts, asks, tokens, opened>> /\ window' \in 1 .. Windows /\ window' >= window
  <2>1. ASSUME NEW row \in Rows PROVE NoMore(row)
    <3>1. Allowed(row)' = Allowed(row) /\ Spendable(row)' = Spendable(row)
      BY <1>3 DEF Allowed, Spendable
    <3> QED BY <1>3, <3>1, TicketsNat, Untouched, WindowsAssumption
  <2> QED BY <1>0, <1>3, <2>1 DEF AccessTyped
<1>4. NextWindow => UNCHANGED <<attempts, asks, tokens, opened>> /\ window' \in 1 .. Windows /\ window' >= window
  BY <1>0, WindowsAssumption DEF NextWindow
<1>5. ASSUME (\E p \in People, i \in Idents \cup {NoIdent} : Rekey(p, i)) \/ UNCHANGED accessVars
      PROVE  UNCHANGED <<attempts, asks, tokens, opened>> /\ window' \in 1 .. Windows /\ window' >= window
  BY <1>0, <1>5, WindowsAssumption DEF AccessTyped, Rekey, accessVars
<1> QED BY <1>1, <1>2, <1>3, <1>4, <1>5

-----------------------------------------------------------------------------
(* Data subjects: what holds.                                              *)

\* Every step counts what it lets open the portal.
LEMMA AccessStep ==
    ASSUME AccessInv, [AccessNext]_accessVars
    PROVE  AccessInv'
<1>1. AccessTyped' /\ \A row \in Rows : NoMore(row) \/ OneMore(row)
  <2>1. ASSUME NEW k \in Asks, NEW i \in Idents, NEW p \in People, FindSubject(k, i, p)
        PROVE  AccessTyped' /\ \A row \in Rows : NoMore(row) \/ OneMore(row)
    BY <2>1, FindSubjectStep
  <2>2. ASSUME NEW k \in Asks, RegisterAttempt(k) \/ Send(k) \/ Stop(k)
        PROVE  AccessTyped' /\ \A row \in Rows : NoMore(row) \/ OneMore(row)
    BY <2>2, RegisterStep, SendStep, StopStep
  <2>3. ASSUME NEW k \in Asks, NEW l \in Links, IssueToken(k, l)
        PROVE  AccessTyped' /\ \A row \in Rows : NoMore(row) \/ OneMore(row)
    BY <2>3, IssueStep
  <2>4. ASSUME NEW l \in Links, ConsumeToken(l) \/ ExpireToken(l)
        PROVE  AccessTyped' /\ \A row \in Rows : NoMore(row) \/ OneMore(row)
    BY <2>4, ConsumeStep, ExpireStep
  <2> QED BY <2>1, <2>2, <2>3, <2>4, WorkerStep DEF AccessNext
<1>2. ASSUME NEW row \in Rows
      PROVE  /\ IsFiniteSet(Allowed(row)') /\ IsFiniteSet(Spendable(row)')
             /\ Tickets(row)' <= Limit
             /\ row[2] = window' => Tickets(row)' <= attempts'[row]
             /\ row[2] > window' => Tickets(row)' = 0
  <2>0. /\ Tickets(row) \in Nat /\ attempts[row] \in Nat /\ row[2] \in Nat /\ window \in Nat
        /\ Tickets(row) <= Limit /\ Limit \in Nat
        /\ row[2] = window => Tickets(row) <= attempts[row]
        /\ row[2] > window => Tickets(row) = 0
    BY TicketsNat, LimitAssumption, WindowsAssumption DEF AccessInv, TicketsCounted
  <2>1. IsFiniteSet(Allowed(row)') /\ IsFiniteSet(Spendable(row)')
    BY <1>1 DEF NoMore, OneMore
  <2>2. Tickets(row)' \in Nat /\ attempts'[row] \in Nat
    <3>1. Cardinality(Allowed(row)') \in Nat /\ Cardinality(Spendable(row)') \in Nat
      BY <2>1, FS_CardinalityType
    <3> QED BY <1>1, <3>1 DEF Tickets, AccessTyped
  <2>3. CASE NoMore(row)
    <3>1. /\ Tickets(row)' <= Tickets(row) /\ window' \in Nat /\ window' >= window
          /\ row[2] < window \/ attempts'[row] >= attempts[row]
      BY <2>3 DEF NoMore
    <3> QED BY <2>0, <2>1, <2>2, <3>1
  <2>4. CASE OneMore(row)
    <3>1. /\ Tickets(row)' = Tickets(row) + 1 /\ window' = window /\ row[2] = window
          /\ attempts'[row] = attempts[row] + 1 /\ attempts'[row] <= Limit
      BY <2>4 DEF OneMore
    <3> QED BY <2>0, <2>1, <2>2, <3>1
  <2> QED BY <1>1, <2>3, <2>4
<1> QED BY <1>1, <1>2 DEF AccessInv, TicketsCounted

\* Nothing has been asked for yet.
LEMMA AccessBegins == AccessInit => AccessInv
<1> SUFFICES ASSUME AccessInit PROVE AccessInv
  OBVIOUS
<1>1. AccessTyped
  BY WindowsAssumption DEF AccessInit, AccessTyped, Ask, Token
<1>2. ASSUME NEW row \in Rows
      PROVE  /\ Allowed(row) = {} /\ Spendable(row) = {} /\ opened[row] = 0 /\ attempts[row] = 0
  BY <1>2 DEF AccessInit, Allowed, Spendable, Waiting, NoLink
<1>3. IsFiniteSet({}) /\ Cardinality({}) = 0
  BY FS_EmptySet
<1>4. ASSUME NEW row \in Rows PROVE Tickets(row) = 0
  BY <1>2, <1>3 DEF Tickets
<1> QED BY <1>1, <1>2, <1>3, <1>4, LimitAssumption DEF AccessInv, TicketsCounted

\* The inductive invariant of the portal's door holds.
THEOREM AccessInductive == AccessSpec => []AccessInv
BY AccessBegins, AccessStep, PTL DEF AccessSpec

\* What an address asks for in one window opens the portal identifyLimit times
\* at most, whatever the requests, the clicks, the purges and the changes of who
\* is known by it do in between (Store.RegisterAttempt, Store.ConsumeToken).
THEOREM DoorIsCounted == AccessSpec => []SessionsWithinLimit
<1>1. AccessInv => SessionsWithinLimit
  <2> SUFFICES ASSUME AccessInv, NEW row \in Rows PROVE opened[row] <= Limit
    BY DEF SessionsWithinLimit
  <2>1. Tickets(row) <= Limit
    BY DEF AccessInv, TicketsCounted
  <2> QED BY <2>1, TicketsNat, LimitAssumption DEF Tickets
<1> QED BY <1>1, AccessInductive, PTL

-----------------------------------------------------------------------------
\* Both ways together, as they are model-checked, implement each of them.
THEOREM TwoWays == SignInSpec => Spec /\ AccessSpec
<1>1. SignInInit => Init /\ AccessInit
  BY DEF SignInInit
<1>2. [SignInNext]_signInVars => [Next]_vars /\ [AccessNext]_accessVars
  BY DEF SignInNext, signInVars
<1> QED BY <1>1, <1>2, PTL DEF SignInSpec, Spec, AccessSpec

=============================================================================
