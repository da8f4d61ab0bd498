---------------------------- MODULE Credentials ----------------------------
(***************************************************************************)
(* The first set-up of a deployment, and what the account it creates is    *)
(* reached by: its password, second factor and recovery codes, the links   *)
(* that reset the password, and its sessions.                              *)
(*                                                                         *)
(* Every statement or transaction of a request is a step of its own.  A    *)
(* request that is refused before it writes anything is left out, and so   *)
(* are the counters that refuse it (RegisterLoginAttempt and the like).    *)
(***************************************************************************)
EXTENDS Naturals, FiniteSets

CONSTANTS
    Setups,    \* set-up requests
    Calls,     \* requests in progress at a time
    Passwords,
    Secrets,   \* TOTP secrets; a fresh one for every enrolment
    Codes,     \* recovery codes; one stands for a set
    Resets,    \* links that reset the password
    Sessions   \* rows of iam.sessions

None == "none"

ASSUME NoneAssumption == None \notin Passwords \cup Secrets \cup Resets \cup Sessions
ASSUME KindsAssumption == Codes \cap Resets = {}

VARIABLES
    setup,     \* where each set-up is
    password,  \* what users.password_hash is the hash of
    mfa,       \* users.mfa_secret_enc and users.mfa_enabled
    secrets,   \* whether a secret was shown, and proven by a code
    codes,     \* iam.mfa_recovery_codes
    links,     \* iam.password_reset_tokens
    sessions,  \* live sessions: the password they were opened with, and whether the
               \* password has moved away from it in a way that leaves them open
    calls,     \* requests in progress
    uses       \* history: how often a link or code let somebody pass

factor == <<mfa, secrets>>
vars == <<setup, password, factor, codes, links, sessions, calls, uses>>

Idle == [op |-> "none"]
NoSession == [pw |-> None, apart |-> FALSE]

Init ==
    /\ setup = [c \in Setups |-> "new"]
    /\ password = None
    /\ mfa = [secret |-> None, on |-> FALSE]
    /\ secrets = [x \in Secrets |-> "new"]
    /\ codes = [k \in Codes |-> "none"]
    /\ links = [l \in Resets |-> "new"]
    /\ sessions = [s \in Sessions |-> NoSession]
    /\ calls = [c \in Calls |-> Idle]
    /\ uses = [x \in Codes \cup Resets |-> 0]

Live == {s \in Sessions : sessions[s] # NoSession}

Go(c, call) == calls' = [calls EXCEPT ![c] = call]
Step(c, at) == Go(c, [calls[c] EXCEPT !.at = at])
Used(x) == uses' = [uses EXCEPT ![x] = @ + 1]

-----------------------------------------------------------------------------
(* Bootstrap.                                                              *)

\* There is a row in iam.users: a set-up has committed.
AnyUser == \E c \in Setups : setup[c] = "done"

\* Bound: the account is used once every set-up has been answered.
SetupsOver == \A c \in Setups : setup[c] \in {"done", "refused"} /\ AnyUser

SetupGoes(c, from, to) ==
    /\ setup[c] = from /\ setup' = [setup EXCEPT ![c] = to]
    /\ UNCHANGED <<password, factor, codes, links, sessions, calls, uses>>

\* HasAnyUser, before the transaction and again inside it.
HasAnyUser(c) ==
    \/ SetupGoes(c, "new", IF AnyUser THEN "refused" ELSE "checked")
    \/ SetupGoes(c, "checked", IF AnyUser THEN "refused" ELSE "inserts")

\* A mutant: the link domain is left to the operator.
InsertNoHost(c) == SetupGoes(c, "inserts", "inserted")

\* The inserts, the last of them the link domain, whose host is unique: it
\* waits for another set-up that has inserted it, and fails if that commits.
InsertHost(c) ==
    /\ \A d \in Setups : setup[d] # "inserted"
    /\ SetupGoes(c, "inserts", IF AnyUser THEN "refused" ELSE "inserted")

\* COMMIT: there is an account.
CommitSetup(c, p) ==
    /\ setup[c] = "inserted"
    /\ setup' = [setup EXCEPT ![c] = "done"]
    /\ password' = p
    /\ UNCHANGED <<factor, codes, links, sessions, calls, uses>>

AbortSetup(c) == \E from \in {"inserts", "inserted"} : SetupGoes(c, from, "refused")

-----------------------------------------------------------------------------
(* Signing in.                                                             *)

\* A password is verified against the hash there is.
Verifies(p) == p = password

\* verifySecondFactor: nothing more is asked of an account without one.
SecondFactor == IF mfa.on THEN "factor" ELSE "ready"

\* The account is read and the password verified; everything below goes by
\* what was read here.
SignIn(c, p) ==
    /\ calls[c] = Idle /\ SetupsOver /\ Verifies(p)
    /\ Go(c, [op |-> "login", at |-> SecondFactor, pw |-> p])
    /\ UNCHANGED <<setup, password, factor, codes, links, sessions, uses>>

\* verifySecondFactor: a code of the authenticator app.
VerifyTOTP(c) ==
    /\ calls[c] # Idle /\ calls[c].at = "factor"
    /\ Step(c, "ready")
    /\ UNCHANGED <<setup, password, factor, codes, links, sessions, uses>>

\* A transaction that deletes or marks rows keeps others from them.
Held(x) == \E c \in Calls : calls[c] # Idle /\ calls[c].at = "replaces" /\ x \in calls[c].holds

\* verifySecondFactor: a recovery code, spent by one conditional UPDATE.
ConsumeRecoveryCode(c, k) ==
    /\ calls[c] # Idle /\ calls[c].at = "factor"
    /\ codes[k] = "unused" /\ ~Held(k)
    /\ codes' = [codes EXCEPT ![k] = "used"] /\ Used(k)
    /\ Step(c, "ready")
    /\ UNCHANGED <<setup, password, factor, links, sessions>>

\* A change of the password in progress asks for this session to be kept.
Referred(s) == \E c \in Calls : calls[c] # Idle /\ calls[c].op = "change" /\ calls[c].session = s

\* The session.  If the hash was made with the parameters of an earlier release,
\* it is renewed after that.
CreateSession(c, s) ==
    /\ calls[c] # Idle /\ calls[c].op = "login" /\ calls[c].at = "ready"
    /\ s \notin Live /\ ~Referred(s)
    /\ sessions' = [sessions EXCEPT ![s] =
            [pw |-> calls[c].pw, apart |-> calls[c].pw # password]]
    /\ Step(c, "rehash") \/ Go(c, Idle)
    /\ UNCHANGED <<setup, password, factor, codes, links, uses>>

\* The hash of the password this sign-in was given replaces the one there is.
UpdatePasswordHash(c) ==
    /\ calls[c] # Idle /\ calls[c].at = "rehash"
    /\ password' = calls[c].pw
    /\ sessions' = IF calls[c].pw = password THEN sessions ELSE [s \in Sessions |->
            IF s \in Live THEN [sessions[s] EXCEPT !.apart = TRUE] ELSE NoSession]
    /\ Go(c, Idle)
    /\ UNCHANGED <<setup, factor, codes, links, uses>>

\* Signing out, or the end of SessionTTL.
RevokeSession(s) ==
    /\ s \in Live
    /\ sessions' = [sessions EXCEPT ![s] = NoSession]
    /\ UNCHANGED <<setup, password, factor, codes, links, calls, uses>>

NoSessions == [s \in Sessions |-> NoSession]

-----------------------------------------------------------------------------
(* Links that are used once.                                                *)

\* CreateResetToken marks the links that are out: waits for their row locks.
ReplaceLinks(c) ==
    LET out == {l \in Resets : links[l] \in {"live", "over"}} IN
    /\ calls[c] = Idle /\ SetupsOver
    /\ \A l \in out : ~Held(l)
    /\ Go(c, [op |-> "request", at |-> "replaces", holds |-> out])
    /\ UNCHANGED <<setup, password, factor, codes, links, sessions, uses>>

\* ... and issues the new one: COMMIT.
CreateResetToken(c, l) ==
    /\ calls[c] # Idle /\ calls[c].op = "request" /\ links[l] = "new"
    /\ links' = [x \in Resets |-> IF x = l THEN "live"
                                 ELSE IF x \in calls[c].holds THEN "replaced" ELSE links[x]]
    /\ Go(c, Idle)
    /\ UNCHANGED <<setup, password, factor, codes, sessions, uses>>

\* CompletePasswordReset reads the link and the account.
FindResetToken(c, l) ==
    /\ calls[c] = Idle /\ links[l] = "live"
    /\ Go(c, [op |-> "reset", at |-> SecondFactor, link |-> l])
    /\ UNCHANGED <<setup, password, factor, codes, links, sessions, uses>>

\* A mutant: the link is marked, whether it was used or not.
ConsumeResetAgain(c, p) ==
    /\ calls[c] # Idle /\ calls[c].op = "reset" /\ calls[c].at = "ready"
    /\ ~Held(calls[c].link)
    /\ links' = [links EXCEPT ![calls[c].link] = "spent"] /\ Used(calls[c].link)
    /\ password' = p /\ sessions' = NoSessions
    /\ Go(c, Idle)
    /\ UNCHANGED <<setup, factor, codes>>

\* A mutant: the sessions are left open.
ConsumeResetOnly(c, p) ==
    LET l == calls[c].link
        valid == links[l] \in {"live", "over"} IN
    /\ calls[c] # Idle /\ calls[c].op = "reset" /\ calls[c].at = "ready" /\ ~Held(l)
    /\ IF valid
       THEN /\ links' = [links EXCEPT ![l] = "spent"] /\ Used(l)
            /\ password' = p
       ELSE UNCHANGED <<links, uses, password>>
    /\ Go(c, Idle)
    /\ UNCHANGED <<setup, factor, codes, sessions>>

\* The link, the password and the sessions in one transaction, if the link is
\* still unused (how old it is was looked at before).
ConsumeResetToken(c, p) ==
    LET l == calls[c].link
        valid == links[l] \in {"live", "over"} IN
    /\ calls[c] # Idle /\ calls[c].op = "reset" /\ calls[c].at = "ready" /\ ~Held(l)
    /\ IF valid
       THEN /\ links' = [links EXCEPT ![l] = "spent"] /\ Used(l)
            /\ password' = p /\ sessions' = NoSessions
       ELSE UNCHANGED <<links, uses, password, sessions>>
    /\ Go(c, Idle)
    /\ UNCHANGED <<setup, factor, codes>>

\* ResetTTL passes.
Expire(l) ==
    /\ links[l] = "live" /\ links' = [links EXCEPT ![l] = "over"]
    /\ UNCHANGED <<setup, password, factor, codes, sessions, calls, uses>>

-----------------------------------------------------------------------------
(* What a signed-in user changes.                                          *)

\* The present password is verified, from what is read here.
ProvePassword(c, s, p) ==
    /\ calls[c] = Idle /\ s \in Live /\ Verifies(p)
    /\ Go(c, [op |-> "change", at |-> "ready", session |-> s])
    /\ UNCHANGED <<setup, password, factor, codes, links, sessions, uses>>

\* The password, and every session but the one that asks.
ChangePassword(c, p) ==
    /\ calls[c] # Idle /\ calls[c].op = "change"
    /\ password' = p
    /\ sessions' = [s \in Sessions |->
            IF s = calls[c].session /\ s \in Live THEN [sessions[s] EXCEPT !.apart = TRUE]
            ELSE NoSession]
    /\ Go(c, Idle)
    /\ UNCHANGED <<setup, factor, codes, links, uses>>

\* BeginMFA: a fresh secret, not yet asked for at sign-in.
BeginMFA(x) ==
    /\ Live # {} /\ secrets[x] = "new"
    /\ secrets' = [secrets EXCEPT ![x] = "shown"]
    /\ mfa' = [secret |-> x, on |-> FALSE]
    /\ UNCHANGED <<setup, password, codes, links, sessions, calls, uses>>

\* ConfirmMFA reads the secret and checks a code made with it.
VerifyEnrolment(c) ==
    /\ calls[c] = Idle /\ Live # {} /\ mfa.secret # None
    /\ secrets' = [secrets EXCEPT ![mfa.secret] = "proven"]
    /\ Go(c, [op |-> "confirm", at |-> "enable", secret |-> mfa.secret])
    /\ UNCHANGED <<setup, password, mfa, codes, links, sessions, uses>>

\* A mutant: only the flag is written.
SetMFAFlag(c) ==
    /\ calls[c] # Idle /\ calls[c].at = "enable"
    /\ mfa' = [mfa EXCEPT !.on = TRUE]
    /\ Go(c, [op |-> "confirm", at |-> "codes"])
    /\ UNCHANGED <<setup, password, secrets, codes, links, sessions, uses>>

\* SetMFA writes the secret that was read, with the flag.
SetMFA(c) ==
    /\ calls[c] # Idle /\ calls[c].at = "enable"
    /\ mfa' = [secret |-> calls[c].secret, on |-> TRUE]
    /\ Go(c, [op |-> "confirm", at |-> "codes"])
    /\ UNCHANGED <<setup, password, secrets, codes, links, sessions, uses>>

\* A new set of recovery codes is asked for by itself.
Regenerate(c) ==
    /\ calls[c] = Idle /\ Live # {}
    /\ Go(c, [op |-> "regenerate", at |-> "codes"])
    /\ UNCHANGED <<setup, password, factor, codes, links, sessions, uses>>

Stored == {k \in Codes : codes[k] \in {"unused", "used"}}

\* StoreRecoveryCodes deletes the codes it finds: waits for their row locks.
DeleteOldCodes(c) ==
    /\ calls[c] # Idle /\ calls[c].at = "codes"
    /\ \A k \in Stored : ~Held(k)
    /\ Go(c, [op |-> calls[c].op, at |-> "replaces", holds |-> Stored])
    /\ UNCHANGED <<setup, password, factor, codes, links, sessions, uses>>

\* ... and stores the new ones: COMMIT.
StoreRecoveryCodes(c, k) ==
    /\ calls[c] # Idle /\ calls[c].op \in {"confirm", "regenerate"}
    /\ calls[c].at = "replaces" /\ codes[k] = "none"
    /\ codes' = [x \in Codes |-> IF x = k THEN "unused"
                                 ELSE IF x \in calls[c].holds THEN "none" ELSE codes[x]]
    /\ uses' = [uses EXCEPT ![k] = 0]
    /\ Go(c, IF calls[c].op = "confirm" THEN [op |-> "confirm", at |-> "revoke"] ELSE Idle)
    /\ UNCHANGED <<setup, password, factor, links, sessions>>

\* DisableMFA reads the account and checks the password; the factor follows.
\* (The role in the organisation signed in to must not require one.)
AskDisable(c, p) ==
    /\ calls[c] = Idle /\ Live # {} /\ mfa.on /\ Verifies(p)
    /\ Go(c, [op |-> "disable", at |-> "factor"])
    /\ UNCHANGED <<setup, password, factor, codes, links, sessions, uses>>

ClearMFA(c) ==
    /\ calls[c] # Idle /\ calls[c].op = "disable" /\ calls[c].at = "ready"
    /\ mfa' = [secret |-> None, on |-> FALSE]
    /\ Step(c, "forget")
    /\ UNCHANGED <<setup, password, secrets, codes, links, sessions, uses>>

DeleteRecoveryCodes(c) ==
    /\ calls[c] # Idle /\ calls[c].at = "forget"
    /\ \A k \in Stored : ~Held(k)
    /\ codes' = [k \in Codes |-> IF k \in Stored THEN "none" ELSE codes[k]]
    /\ Step(c, "revoke")
    /\ UNCHANGED <<setup, password, factor, links, sessions, uses>>

\* RevokeAll, once the factor is enabled or disabled.
RevokeUserSessions(c) ==
    /\ calls[c] # Idle /\ calls[c].at = "revoke"
    /\ sessions' = NoSessions
    /\ Go(c, Idle)
    /\ UNCHANGED <<setup, password, factor, codes, links, uses>>

\* The request is refused, a statement fails or the server stops.
Drop(c) ==
    /\ calls[c] # Idle /\ Go(c, Idle)
    /\ UNCHANGED <<setup, password, factor, codes, links, sessions, uses>>

Next ==
    \/ \E c \in Setups :
          HasAnyUser(c) \/ InsertHost(c) \/ AbortSetup(c) \/ \E p \in Passwords : CommitSetup(c, p)
    \/ \E c \in Calls :
          \/ \E p \in Passwords :
                \/ SignIn(c, p) \/ ConsumeResetToken(c, p) \/ ChangePassword(c, p)
                \/ AskDisable(c, p) \/ \E s \in Sessions : ProvePassword(c, s, p)
          \/ \E s \in Sessions : CreateSession(c, s)
          \/ VerifyTOTP(c) \/ UpdatePasswordHash(c) \/ ReplaceLinks(c)
          \/ \E l \in Resets : CreateResetToken(c, l) \/ FindResetToken(c, l)
          \/ \E k \in Codes : ConsumeRecoveryCode(c, k) \/ StoreRecoveryCodes(c, k)
          \/ VerifyEnrolment(c) \/ SetMFA(c) \/ Regenerate(c) \/ DeleteOldCodes(c)
          \/ ClearMFA(c) \/ DeleteRecoveryCodes(c) \/ RevokeUserSessions(c) \/ Drop(c)
    \/ \E s \in Sessions : RevokeSession(s)
    \/ \E x \in Secrets : BeginMFA(x)
    \/ \E l \in Resets : Expire(l)

Spec == Init /\ [][Next]_vars

-----------------------------------------------------------------------------
(* Properties.                                                             *)

CallTypes ==
    [op : {"login"}, at : {"factor", "ready", "rehash"}, pw : Passwords]
    \cup [op : {"request"}, at : {"replaces"}, holds : SUBSET Resets]
    \cup [op : {"reset"}, at : {"factor", "ready"}, link : Resets]
    \cup [op : {"change"}, at : {"ready"}, session : Sessions]
    \cup [op : {"confirm"}, at : {"enable"}, secret : Secrets]
    \cup [op : {"confirm"}, at : {"codes", "revoke"}]
    \cup [op : {"regenerate"}, at : {"codes"}]
    \cup [op : {"confirm", "regenerate"}, at : {"replaces"}, holds : SUBSET Codes]
    \cup [op : {"disable"}, at : {"factor", "ready", "forget", "revoke"}]

\* Every variable keeps its type.
TypeOK ==
    /\ setup \in [Setups -> {"new", "checked", "inserts", "inserted", "done", "refused"}]
    /\ password \in Passwords \cup {None}
    /\ mfa \in [secret : Secrets \cup {None}, on : BOOLEAN]
    /\ secrets \in [Secrets -> {"new", "shown", "proven"}]
    /\ codes \in [Codes -> {"none", "unused", "used"}]
    /\ links \in [Resets -> {"new", "live", "over", "spent", "replaced"}]
    /\ sessions \in [Sessions -> {NoSession} \cup [pw : Passwords, apart : BOOLEAN]]
    /\ calls \in [Calls -> {Idle} \cup CallTypes]
    /\ uses \in [Codes \cup Resets -> Nat]

\* Two set-ups at once do not both succeed (Store.Bootstrap: "must not both
\* succeed and leave two owners nobody expected").
OneSetup == \A c, d \in Setups : setup[c] = "done" /\ setup[d] = "done" => c = d

\* A reset link and a recovery code let somebody pass once at
\* most, whatever requests present it at the same time, and a link that was
\* replaced by a newer one was not used before (ConsumeResetToken,
\* ConsumeRecoveryCode).
SpentOnce ==
    /\ \A x \in Codes \cup Resets : uses[x] <= 1
    /\ \A l \in Resets : uses[l] = 1 <=> links[l] = "spent"

\* The second factor is only ever asked for with a secret the user has shown a
\* code of: nobody is locked out by an enrolment that was begun again while it
\* was being confirmed (BeginMFA, ConfirmMFA).
EnabledIsProven == mfa.on => mfa.secret # None /\ secrets[mfa.secret] = "proven"

\* A live session was opened with the password the account has now, unless it is
\* the one that changed it, its sign-in had been verified before the change, or a
\* sign-in's rehash put the earlier password back (CompletePasswordReset: "Every
\* session is closed").
SessionHasPassword == \A s \in Live : sessions[s].pw = password \/ sessions[s].apart
=============================================================================
