---------------------------- MODULE PortalAccess ----------------------------
(***************************************************************************)
(* How a data subject gets into the portal: a link is asked for with an    *)
(* email or a phone number, mailed there if a subject is known by it, and  *)
(* exchanged for a session.  The request is answered at once; what it asks *)
(* for is done by a goroutine of its own, a transaction at a time, while   *)
(* corrections and erasures change who is known by what.                   *)
(*                                                                         *)
(* A session is a signed cookie that no row stands for, so it is an event  *)
(* here; what it may do is in SubjectPortal.                               *)
(***************************************************************************)
EXTENDS Naturals

CONSTANTS
    People,   \* rows of consent.data_subjects
    Idents,   \* emails and phone numbers, as normalised for the key
    Asks,     \* goroutines of identify
    Links,    \* rows of consent.dsr_tokens
    Limit,    \* identifyLimit
    Windows   \* bound: how many windows pass

ASSUME LimitAssumption == Limit \in Nat
ASSUME WindowsAssumption == Windows \in Nat \ {0}

NoIdent == "no ident"  \* of somebody not stored yet, or erased
NoLink == [at |-> "none"]
Waiting == [at |-> "none"]

ASSUME IdentAssumption == NoIdent \notin Idents

\* The key of a counter: an address and a window.
Rows == Idents \X (1 .. Windows)

VARIABLES
    known,     \* data_subjects.identifier_hash
    window,    \* the window there is now
    attempts,  \* consent.dsr_attempts, by address and window; no row is 0
    asks,      \* what each goroutine has read so far
    tokens,    \* consent.dsr_tokens
    opened     \* history: sessions opened by what an address asked for in a window

accessVars == <<known, window, attempts, asks, tokens, opened>>

AccessInit ==
    /\ known = [p \in People |-> NoIdent]
    /\ window = 1
    /\ attempts = [row \in Rows |-> 0]
    /\ asks = [k \in Asks |-> Waiting]
    /\ tokens = [l \in Links |-> NoLink]
    /\ opened = [row \in Rows |-> 0]

Goes(k, ask) == asks' = [asks EXCEPT ![k] = ask]

-----------------------------------------------------------------------------
(* Service.Identify.                                                       *)

\* An address nobody is known by, an erased subject's too, ends it here.
FindSubject(k, i, p) ==
    /\ asks[k] = Waiting /\ known[p] = i
    /\ Goes(k, [at |-> "found", ident |-> i, subject |-> p])
    /\ UNCHANGED <<known, window, attempts, tokens, opened>>

\* One statement counts the attempt in the window there is, and answers the
\* count.  Bound: attempts beyond the first one too many are not counted.
RegisterAttempt(k) ==
    LET row == <<asks[k].ident, window>> IN
    /\ asks[k].at = "found" /\ attempts[row] <= Limit
    /\ attempts' = [attempts EXCEPT ![row] = @ + 1]
    /\ Goes(k, IF attempts'[row] <= Limit
               THEN [at |-> "allowed", ident |-> asks[k].ident,
                     subject |-> asks[k].subject, window |-> window]
               ELSE Waiting)
    /\ UNCHANGED <<known, window, tokens, opened>>

\* The token is stored, whatever has become of the subject since.
IssueToken(k, l) ==
    /\ asks[k].at = "allowed" /\ tokens[l] = NoLink
    /\ tokens' = [tokens EXCEPT ![l] = [asks[k] EXCEPT !.at = "issued"]]
    /\ Goes(k, [at |-> "issued", link |-> l])
    /\ UNCHANGED <<known, window, attempts, opened>>

Send(k) ==
    /\ asks[k].at = "issued"
    /\ tokens' = [tokens EXCEPT ![asks[k].link].at =
            IF @ = "issued" THEN "mailed" ELSE @]
    /\ Goes(k, Waiting)
    /\ UNCHANGED <<known, window, attempts, opened>>

\* An error, the fifteen seconds or the end of the process, before the statement
\* in progress or after it: the goroutine stops, and nothing takes it up again.
Stop(k) ==
    /\ asks[k] # Waiting /\ Goes(k, Waiting)
    /\ UNCHANGED <<known, window, attempts, tokens, opened>>

-----------------------------------------------------------------------------
(* Service.Exchange.                                                       *)

Opens(l) ==
    LET row == <<tokens[l].ident, tokens[l].window>> IN
    opened' = [opened EXCEPT ![row] = @ + 1]

\* A mutant: that the link was used is not asked.
ConsumeUsedToken(l) ==
    /\ tokens[l].at \in {"mailed", "used"}
    /\ tokens' = [tokens EXCEPT ![l].at = "used"]
    /\ Opens(l)
    /\ UNCHANGED <<known, window, attempts, asks>>

\* One conditional UPDATE: a second click waits for the first and finds the link
\* used.  Only who reads the message has it.
ConsumeToken(l) ==
    /\ tokens[l].at = "mailed"
    /\ tokens' = [tokens EXCEPT ![l].at = "used"]
    /\ Opens(l)
    /\ UNCHANGED <<known, window, attempts, asks>>

\* TokenTTL passes.
ExpireToken(l) ==
    /\ tokens[l].at \in {"issued", "mailed"}
    /\ tokens' = [tokens EXCEPT ![l].at = "over"]
    /\ UNCHANGED <<known, window, attempts, asks, opened>>

-----------------------------------------------------------------------------
(* The worker, and what goes on beside.                                    *)

\* PurgeExpired: links used or expired a day ago, in one statement,
PurgeTokens ==
    /\ \E l \in Links : tokens[l].at \in {"used", "over"} /\ tokens[l].window < window
    /\ tokens' = [l \in Links |->
            IF tokens[l].at \in {"used", "over"} /\ tokens[l].window < window
            THEN NoLink ELSE tokens[l]]
    /\ UNCHANGED <<known, window, attempts, asks, opened>>

\* ... and the counters of a day ago, in another.
PurgeAttempts ==
    /\ \E row \in Rows : row[2] < window /\ attempts[row] > 0
    /\ attempts' = [row \in Rows |-> IF row[2] < window THEN 0 ELSE attempts[row]]
    /\ UNCHANGED <<known, window, asks, tokens, opened>>

NextWindow ==
    /\ window < Windows /\ window' = window + 1
    /\ UNCHANGED <<known, attempts, asks, tokens, opened>>

\* A submission, a correction or an erasure changes what a subject is known by,
\* which is unique: SubjectPortal's key.
Rekey(p, i) ==
    /\ known[p] # i /\ (i # NoIdent => \A q \in People : known[q] # i)
    /\ known' = [known EXCEPT ![p] = i]
    /\ UNCHANGED <<window, attempts, asks, tokens, opened>>

AccessNext ==
    \/ \E k \in Asks :
          \/ \E i \in Idents, p \in People : FindSubject(k, i, p)
          \/ RegisterAttempt(k) \/ Send(k) \/ Stop(k)
          \/ \E l \in Links : IssueToken(k, l)
    \/ \E l \in Links : ConsumeToken(l) \/ ExpireToken(l)
    \/ PurgeTokens \/ PurgeAttempts \/ NextWindow
    \/ \E p \in People, i \in Idents \cup {NoIdent} : Rekey(p, i)

AccessSpec == AccessInit /\ [][AccessNext]_accessVars

-----------------------------------------------------------------------------
\* What an address asks for in one window opens the portal identifyLimit times
\* at most: requests that race are counted one by one, a link opens it once
\* whoever clicks with whom, and neither the purge nor a subject that comes to be
\* known by the address starts a second count (RegisterAttempt, ConsumeToken:
\* "two clicks on the same link ... cannot both succeed").
SessionsWithinLimit == \A row \in Rows : opened[row] <= Limit
=============================================================================
