-------------------------- MODULE MCOrgMembership --------------------------
(* A small instance of OrgMembership and PortalAccess for TLC.             *)
EXTENDS SignIn
CONSTANTS u1, u2, i1, i2, a1, a2, c1, A, B, a, g1, g2, m1, m2

\* Bound: two of the three requests at a time.
TwoAtATime == Cardinality({p \in Procs : call[p] # Idle}) <= 2

\* Invitations differ in nothing but their use: i1 is sent first.
Sent(i) == inv[i] # Unused \/ \E p \in Admins : call[p].at = "invite" /\ call[p].inv = i
FirstFirst == Sent(i2) => Sent(i1)

Held(i) == \E p \in Procs : call[p].at \in {"accept", "join"} /\ call[p].inv = i

\* The view: an invitation that is over is read only by a call that holds it; of
\* an account only whether there is one is; and which of the two administrators,
\* or of the two goroutines of the portal, is at what makes no difference.  States
\* that differ in nothing else have the same steps, and no property tells them
\* apart.
Essence ==
    <<[u \in Users |-> account[u] # None],
      [i \in Invs |-> IF inv[i].status \in {"gone", "accepted"} /\ ~Held(i)
                      THEN "over" ELSE inv[i]],
      member, worker, session, cache, {call[p] : p \in Admins}, call[c1],
      known, window, attempts, {asks[k] : k \in Asks}, tokens, opened>>
=============================================================================
