------------------------------- MODULE Links -------------------------------
(***************************************************************************)
(* The administration of links: a code is created on the host that is the  *)
(* tenant's default at that moment, and changed through handlers that load *)
(* it first; its host is added, made the default and removed beside it.    *)
(***************************************************************************)
EXTENDS LinkCache, LinkDomains, Naturals

CONSTANT Home  \* the host of the code that LinkCache is about

ASSUME HomeAssumption == Home \in Hosts

VARIABLE asks  \* [Admins -> what the administrator's request has read so far]

linksVars == <<vars, domainVars, asks>>

LinksInit == Init /\ DomainsInit /\ asks = [a \in Admins |-> "nothing"]

Asks(a, what) == asks' = [asks EXCEPT ![a] = what]

\* Create reads the default domain ...
ReadDefault(a) ==
    /\ asks[a] = "nothing" /\ row = None /\ Home \in DefaultDomain
    /\ Asks(a, "host")
    /\ UNCHANGED <<vars, domainVars>>

\* ... and inserts the link on it, if it is still there.
Insert(a, ends) ==
    /\ asks[a] = "host" /\ Home \in Present
    /\ Create(a, ends) /\ Asks(a, "nothing")
    /\ UNCHANGED domainVars

\* Get: patch and delete load the link, for its project and its status.
Get(a) ==
    /\ asks[a] = "nothing" /\ row # None
    /\ Asks(a, "link")
    /\ UNCHANGED <<vars, domainVars>>

\* A status may be set whatever the present one is.
Patch(a, status) ==
    /\ asks[a] = "link" /\ status \in Settable
    /\ Update(a, status) /\ Asks(a, "nothing")
    /\ UNCHANGED domainVars

Delete(a) ==
    /\ asks[a] = "link"
    /\ Update(a, "deleted") /\ Asks(a, "nothing")
    /\ UNCHANGED domainVars

\* The request is refused, or fails.
GiveUp(a) ==
    /\ asks[a] # "nothing" /\ Asks(a, "nothing")
    /\ UNCHANGED <<vars, domainVars>>

\* The links a host has that are not deleted, and the hosts that links refer to.
LinkCount == [h \in Hosts |-> IF h = Home /\ row # None /\ row.status # "deleted" THEN 1 ELSE 0]
Referred == {h \in Hosts : h = Home /\ row # None}

\* Bound: nobody visits while a host is changed; the two share the row alone.
Quiet == changes = [o \in Changes |-> Ready]
Nobody == \A v \in Visitors : visit[v] = Away

LinksNext ==
    \/ /\ UNCHANGED <<domainVars, asks>>
       /\ \/ \E v \in Visitors :
                \/ Quiet /\ (Hit(v) \/ \E s \in Servers : Miss(v, s))
                \/ Join(v) \/ Answer(v) \/ Depart(v)
          \/ \E s \in Servers : ReadRow(s) \/ Fill(s) \/ LookupFails(s)
          \/ \E a \in Admins : Invalidate(a) \/ InvalidateLost(a)
          \/ RunOut \/ ExpireStale \/ Drop
    \/ \E a \in Admins :
          \/ ReadDefault(a) \/ Get(a) \/ Delete(a) \/ GiveUp(a)
          \/ \E ends \in BOOLEAN : Insert(a, ends)
          \/ \E status \in Settable : Patch(a, status)
    \/ Nobody /\ DomainsNext(LinkCount, Referred) /\ UNCHANGED <<vars, asks>>

LinksSpec == LinksInit /\ [][LinksNext]_linksVars

\* A code that is out keeps the host it was created on, though the number of
\* links was read before the host was removed and the host before the link was
\* inserted (DeleteDomain: "A domain carrying links is refused").
CodesKeepTheirHost == row # None => Home \in Present
=============================================================================
