------------------------------ MODULE AuditLog ------------------------------
(***************************************************************************)
(* What the audit trail promises: the entries of a transaction appear      *)
(* together, in one piece at the end of the tenant's log, exactly when the *)
(* transaction commits, and an entry once there never changes, unless      *)
(* someone edits that tenant's table behind the application.               *)
(***************************************************************************)
EXTENDS Naturals, Sequences

CONSTANTS Writers, Tenants, MaxWrites

VARIABLES
    log,      \* [Tenants -> the authors of the entries, in order]
    outcome,  \* [Writers -> how the writer's transaction ended, or "open"]
    edited    \* the tenants whose log was edited

Init ==
    /\ log = [t \in Tenants |-> <<>>]
    /\ outcome = [w \in Writers |-> "open"]
    /\ edited = {}

\* The entries a transaction of w appends.
Blocks(w) == UNION {[1..n -> {w}] : n \in 1..MaxWrites}

AppendBlock(w, t) ==
    /\ outcome[w] = "open"
    /\ \E block \in Blocks(w) : log' = [log EXCEPT ![t] = @ \o block]
    /\ outcome' = [outcome EXCEPT ![w] = "committed"]
    /\ UNCHANGED edited

GiveUp(w) ==
    /\ outcome[w] = "open"
    /\ outcome' = [outcome EXCEPT ![w] = "aborted"]
    /\ UNCHANGED <<log, edited>>

\* The log of t becomes anything; nobody else's changes.
Edit(t) ==
    /\ t \notin edited
    /\ edited' = edited \cup {t}
    /\ log' = [log EXCEPT ![t] = log'[t]]
    /\ UNCHANGED outcome

Next ==
    \/ \E w \in Writers : GiveUp(w) \/ \E t \in Tenants : AppendBlock(w, t)
    \/ \E t \in Tenants : Edit(t)

Spec == Init /\ [][Next]_<<log, outcome, edited>>
=============================================================================
