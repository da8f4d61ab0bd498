---------------------------- MODULE LinkDomains ----------------------------
(***************************************************************************)
(* The hosts a tenant issues short codes on, and which of them new links   *)
(* get.  A change is one transaction under READ COMMITTED, in two steps:   *)
(* what its first statement sees of the table, and the statements that     *)
(* write, which wait for the row locks of others and act on the rows their *)
(* snapshot had.                                                           *)
(***************************************************************************)
EXTENDS FiniteSets, TLC

CONSTANTS
    Hosts,   \* host names, as ValidateHost leaves them
    Changes  \* changes in progress at a time

VARIABLES
    domains,  \* links.domains: [host -> is_default] of the ones there are
    changes   \* the changes in progress

domainVars == <<domains, changes>>

Ready == [op |-> "none"]

DomainsInit ==
    /\ \E h \in Hosts : domains = [x \in {h} |-> TRUE]
    /\ changes = [o \in Changes |-> Ready]

Present == DOMAIN domains

\* DefaultDomain: a default one if there is any, else the oldest (whichever it is).
DefaultDomain ==
    LET default == {h \in Present : domains[h]} IN
    IF default # {} THEN default ELSE Present

-----------------------------------------------------------------------------
\* The change begins with what it has seen.
Begin(o, seen) ==
    /\ changes[o] = Ready
    /\ changes' = [changes EXCEPT ![o] = seen]
    /\ UNCHANGED domains

Commit(o, after) ==
    /\ domains' = after
    /\ changes' = [changes EXCEPT ![o] = Ready]

\* A host that another tenant has, or that is there, is refused by its unique
\* index; the rest of Abort.
AddDomain(o, h, wanted) ==
    Begin(o, [op |-> "add", host |-> h, default |-> wanted \/ Present = {},
              rows |-> Present])

\* The other rows of the snapshot lose the mark if this one is to have it.
InsertDomain(o) ==
    LET c == changes[o] IN
    /\ c.op = "add" /\ c.host \notin Present
    /\ Commit(o, [h \in Present \cup {c.host} |->
            IF h = c.host THEN c.default
            ELSE domains[h] /\ ~(c.default /\ h \in c.rows)])

ChooseDefault(o, h) == Begin(o, [op |-> "default", host |-> h, rows |-> Present])

\* Every row of the snapshot is rewritten; the change is rolled back if its own
\* is not there.
SetDefaultDomain(o) ==
    LET c == changes[o] IN
    /\ c.op = "default" /\ c.host \in Present
    /\ Commit(o, [h \in Present |-> IF h \in c.rows THEN h = c.host ELSE domains[h]])

\* The mark and the number of links are read; one that has links is refused.
AskDelete(o, h, links) ==
    /\ h \in Present /\ links = 0
    /\ Begin(o, [op |-> "delete", host |-> h, default |-> domains[h]])

\* A mutant: the number of links that was read is all that keeps the host.
DeleteDomainCounted(o, referred) ==
    LET c == changes[o] IN
    /\ c.op = "delete"
    /\ \E heir \in Present \cup {c.host} :
          Commit(o, [h \in Present \ {c.host} |-> domains[h] \/ (c.default /\ h = heir)])

\* A row that is referred to, by a deleted link too, is kept by its foreign key.
\* If it was the default, the oldest of the others is promoted.
DeleteDomain(o, referred) ==
    LET c == changes[o]
        rest == Present \ {c.host} IN
    /\ c.op = "delete" /\ c.host \notin referred
    /\ \E heir \in rest \cup {c.host} :
          /\ heir \in rest \/ rest = {}
          /\ Commit(o, [h \in rest |-> domains[h] \/ (c.default /\ h = heir)])

\* A statement fails or is refused, deadlocked or not: ROLLBACK.
Abort(o) == changes[o] # Ready /\ Commit(o, domains)

DomainsNext(links, referred) ==
    \E o \in Changes :
        \/ \E h \in Hosts, wanted \in BOOLEAN : AddDomain(o, h, wanted)
        \/ \E h \in Hosts : ChooseDefault(o, h) \/ AskDelete(o, h, links[h])
        \/ InsertDomain(o) \/ SetDefaultDomain(o) \/ DeleteDomain(o, referred) \/ Abort(o)
=============================================================================
