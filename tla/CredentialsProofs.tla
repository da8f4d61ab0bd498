-------------------------- MODULE CredentialsProofs --------------------------
(***************************************************************************)
(* Proofs about Credentials, for any number of set-ups, requests, links,   *)
(* codes and sessions: one set-up succeeds, what is to be used once is, a  *)
(* second factor that is asked for was proven, and a live session goes     *)
(* with the password.                                                      *)
(***************************************************************************)
EXTENDS Credentials, TLAPS

\* At most one set-up has inserted the unique host.
OneInserts ==
    \A c, d \in Setups :
        setup[c] \in {"inserted", "done"} /\ setup[d] \in {"inserted", "done"} => c = d

\* Nobody is signed in or asks for anything before the set-ups are answered.
SetupFirst ==
    \/ SetupsOver
    \/ /\ \A c \in Calls : calls[c] = Idle
       /\ Live = {}
       /\ \A l \in Resets : links[l] = "new"

\* A link that a request is about to replace is not used meanwhile: its row is
\* locked.
HeldUnspent ==
    \A c \in Calls : calls[c] # Idle /\ calls[c].op = "request" =>
        \A l \in calls[c].holds : links[l] # "spent"

\* What has not been used has let nobody pass.
UsesCounted ==
    /\ \A k \in Codes : uses[k] <= 1 /\ (codes[k] = "unused" => uses[k] = 0)
    /\ \A l \in Resets : uses[l] = IF links[l] = "spent" THEN 1 ELSE 0

\* The secret a confirmation is about to enable was proven.
CallIsProven ==
    \A c \in Calls : calls[c] # Idle /\ calls[c].at = "enable" =>
        secrets[calls[c].secret] = "proven"

\* The inductive invariant.
IInv ==
    /\ TypeOK
    /\ OneInserts /\ SetupFirst
    /\ HeldUnspent /\ UsesCounted
    /\ CallIsProven /\ EnabledIsProven
    /\ SessionHasPassword

USE NoneAssumption, KindsAssumption

-----------------------------------------------------------------------------
(* Facts about requests.                                                   *)

\* What the fields of a request in progress are, by where it is.
LEMMA CallFields ==
    ASSUME NEW x \in CallTypes
    PROVE  /\ x # Idle
           /\ x.op = "login" => /\ x \in [op : {"login"}, at : {"factor", "ready", "rehash"}, pw : Passwords]
           /\ x.op = "request" => x \in [op : {"request"}, at : {"replaces"}, holds : SUBSET Resets]
           /\ x.op = "reset" => x \in [op : {"reset"}, at : {"factor", "ready"}, link : Resets]
           /\ x.op = "change" => x \in [op : {"change"}, at : {"ready"}, session : Sessions]
           /\ x.op = "disable" => x \in [op : {"disable"}, at : {"factor", "ready", "forget", "revoke"}]
           /\ x.at = "rehash" => x.op = "login"
           /\ x.at = "enable" => x.op = "confirm" /\ x.secret \in Secrets
           /\ x.at = "codes" => x.op \in {"confirm", "regenerate"}
           /\ x.at = "factor" => x.op \in {"login", "reset", "disable"}
           /\ x.at = "forget" => x.op = "disable"
           /\ x.at = "replaces" => x.op \in {"request", "confirm", "regenerate"}
           /\ x.at = "replaces" /\ x.op # "request" => x.holds \subseteq Codes
BY DEF CallTypes, Idle

\* A request that is not idle is one of the call types.
LEMMA InProgress ==
    ASSUME TypeOK, NEW c \in Calls, calls[c] # Idle
    PROVE  calls[c] \in CallTypes
BY DEF TypeOK

\* What a request may go on as keeps the type of the requests.
LEMMA GoType ==
    ASSUME TypeOK, NEW c, NEW x \in {Idle} \cup CallTypes, Go(c, x)
    PROVE  calls' \in [Calls -> {Idle} \cup CallTypes]
BY DEF TypeOK, Go

-----------------------------------------------------------------------------
(* The type invariant.                                                     *)

\* The initial state is typed.
LEMMA TypeInit == Init => TypeOK
BY DEF Init, TypeOK, Idle, NoSession

\* Every step of a set-up keeps the types.
LEMMA SetupType ==
    ASSUME TypeOK, NEW c \in Setups,
           \/ HasAnyUser(c) \/ InsertHost(c) \/ AbortSetup(c)
           \/ \E p \in Passwords : CommitSetup(c, p)
    PROVE  TypeOK'
BY DEF TypeOK, HasAnyUser, InsertHost, AbortSetup, CommitSetup, SetupGoes, factor

\* Every step of signing in keeps the types.
LEMMA SignInType ==
    ASSUME TypeOK, NEW c \in Calls,
           \/ \E p \in Passwords : SignIn(c, p)
           \/ VerifyTOTP(c) \/ \E k \in Codes : ConsumeRecoveryCode(c, k)
           \/ \E s \in Sessions : CreateSession(c, s)
           \/ UpdatePasswordHash(c)
    PROVE  TypeOK'
<1>1. ASSUME NEW p \in Passwords, SignIn(c, p) PROVE TypeOK'
  <2>1. [op |-> "login", at |-> SecondFactor, pw |-> p] \in CallTypes
    BY DEF CallTypes, SecondFactor
  <2> QED BY <1>1, <2>1, GoType DEF SignIn, TypeOK, factor
<1>2. CASE VerifyTOTP(c)
  <2>1. calls[c] \in CallTypes /\ calls[c].at = "factor"
    BY <1>2, InProgress DEF VerifyTOTP
  <2>2. [calls[c] EXCEPT !.at = "ready"] \in CallTypes
    BY <2>1 DEF CallTypes
  <2> QED BY <1>2, <2>2, GoType DEF VerifyTOTP, Step, TypeOK, factor
<1>3. ASSUME NEW k \in Codes, ConsumeRecoveryCode(c, k) PROVE TypeOK'
  <2>1. calls[c] \in CallTypes /\ calls[c].at = "factor"
    BY <1>3, InProgress DEF ConsumeRecoveryCode
  <2>2. [calls[c] EXCEPT !.at = "ready"] \in CallTypes
    BY <2>1 DEF CallTypes
  <2> QED BY <1>3, <2>2, GoType DEF ConsumeRecoveryCode, Step, Used, TypeOK, factor
<1>4. ASSUME NEW s \in Sessions, CreateSession(c, s) PROVE TypeOK'
  <2>1. calls[c] \in CallTypes /\ calls[c].op = "login"
    BY <1>4, InProgress DEF CreateSession
  <2>2. calls[c].pw \in Passwords /\ [calls[c] EXCEPT !.at = "rehash"] \in CallTypes
    BY <2>1 DEF CallTypes
  <2>3. calls' \in [Calls -> {Idle} \cup CallTypes]
    BY <1>4, <2>2, GoType DEF CreateSession, Step
  <2> QED BY <1>4, <2>2, <2>3 DEF CreateSession, TypeOK, factor
<1>5. CASE UpdatePasswordHash(c)
  <2>1. calls[c].pw \in Passwords
    BY <1>5, InProgress, CallFields DEF UpdatePasswordHash
  <2>2. calls' \in [Calls -> {Idle} \cup CallTypes]
    BY <1>5, GoType DEF UpdatePasswordHash
  <2> QED BY <1>5, <2>1, <2>2 DEF UpdatePasswordHash, TypeOK, factor, Live, NoSession
<1> QED BY <1>1, <1>2, <1>3, <1>4, <1>5

\* Every step of a reset or of a change of the password keeps the types.
LEMMA PasswordType ==
    ASSUME TypeOK, NEW c \in Calls,
           \/ ReplaceLinks(c) \/ \E l \in Resets : CreateResetToken(c, l) \/ FindResetToken(c, l)
           \/ \E p \in Passwords :
                 \/ ConsumeResetToken(c, p) \/ ChangePassword(c, p)
                 \/ \E s \in Sessions : ProvePassword(c, s, p)
    PROVE  TypeOK'
<1>1. CASE ReplaceLinks(c)
  <2>1. ASSUME NEW out \in SUBSET Resets
        PROVE  [op |-> "request", at |-> "replaces", holds |-> out] \in CallTypes
    BY DEF CallTypes
  <2> QED BY <1>1, <2>1, GoType DEF ReplaceLinks, TypeOK, factor
<1>2. ASSUME NEW l \in Resets, CreateResetToken(c, l) PROVE TypeOK'
  BY <1>2, GoType DEF CreateResetToken, TypeOK, factor
<1>3. ASSUME NEW l \in Resets, FindResetToken(c, l) PROVE TypeOK'
  <2>1. [op |-> "reset", at |-> SecondFactor, link |-> l] \in CallTypes
    BY DEF CallTypes, SecondFactor
  <2> QED BY <1>3, <2>1, GoType DEF FindResetToken, TypeOK, factor
<1>4. ASSUME NEW p \in Passwords, ConsumeResetToken(c, p) PROVE TypeOK'
  <2>1. calls[c].link \in Resets
    BY <1>4, InProgress, CallFields DEF ConsumeResetToken
  <2>2. calls' \in [Calls -> {Idle} \cup CallTypes]
    BY <1>4, GoType DEF ConsumeResetToken
  <2> QED BY <1>4, <2>1, <2>2 DEF ConsumeResetToken, Used, TypeOK, factor, NoSessions
<1>5. ASSUME NEW p \in Passwords, ChangePassword(c, p) PROVE TypeOK'
  <2>1. calls' \in [Calls -> {Idle} \cup CallTypes]
    BY <1>5, GoType DEF ChangePassword
  <2> QED BY <1>5, <2>1 DEF ChangePassword, TypeOK, factor, Live, NoSession
<1>6. ASSUME NEW p \in Passwords, NEW s \in Sessions, ProvePassword(c, s, p) PROVE TypeOK'
  <2>1. [op |-> "change", at |-> "ready", session |-> s] \in CallTypes
    BY DEF CallTypes
  <2> QED BY <1>6, <2>1, GoType DEF ProvePassword, TypeOK, factor
<1> QED BY <1>1, <1>2, <1>3, <1>4, <1>5, <1>6

\* Every step of enrolling and of new recovery codes keeps the types.
LEMMA EnrolType ==
    ASSUME TypeOK, NEW c \in Calls,
           \/ VerifyEnrolment(c) \/ SetMFA(c) \/ Regenerate(c) \/ DeleteOldCodes(c)
           \/ \E k \in Codes : StoreRecoveryCodes(c, k)
    PROVE  TypeOK'
<1>1. CASE VerifyEnrolment(c)
  <2>1. mfa.secret \in Secrets
    BY <1>1 DEF VerifyEnrolment, TypeOK
  <2>2. [op |-> "confirm", at |-> "enable", secret |-> mfa.secret] \in CallTypes
    BY <2>1 DEF CallTypes
  <2> QED BY <1>1, <2>2, GoType DEF VerifyEnrolment, TypeOK
<1>2. CASE SetMFA(c)
  <2>1. calls[c].secret \in Secrets
    BY <1>2, InProgress, CallFields DEF SetMFA
  <2>2. [op |-> "confirm", at |-> "codes"] \in CallTypes
    BY DEF CallTypes
  <2> QED BY <1>2, <2>1, <2>2, GoType DEF SetMFA, TypeOK
<1>3. CASE Regenerate(c)
  <2>1. [op |-> "regenerate", at |-> "codes"] \in CallTypes
    BY DEF CallTypes
  <2> QED BY <1>3, <2>1, GoType DEF Regenerate, TypeOK, factor
<1>4. CASE DeleteOldCodes(c)
  <2>1. calls[c].op \in {"confirm", "regenerate"}
    BY <1>4, InProgress, CallFields DEF DeleteOldCodes
  <2>2. [op |-> calls[c].op, at |-> "replaces", holds |-> Stored] \in CallTypes
    BY <2>1 DEF CallTypes, Stored
  <2> QED BY <1>4, <2>2, GoType DEF DeleteOldCodes, TypeOK, factor
<1>5. ASSUME NEW k \in Codes, StoreRecoveryCodes(c, k) PROVE TypeOK'
  <2>1. [op |-> "confirm", at |-> "revoke"] \in CallTypes
    BY DEF CallTypes
  <2>2. calls' \in [Calls -> {Idle} \cup CallTypes]
    BY <1>5, <2>1, GoType DEF StoreRecoveryCodes
  <2> QED BY <1>5, <2>2 DEF StoreRecoveryCodes, TypeOK, factor
<1> QED BY <1>1, <1>2, <1>3, <1>4, <1>5

\* Every step of disabling the second factor keeps the types.
LEMMA DisableType ==
    ASSUME TypeOK, NEW c \in Calls,
           \/ \E p \in Passwords : AskDisable(c, p)
           \/ ClearMFA(c) \/ DeleteRecoveryCodes(c) \/ RevokeUserSessions(c)
    PROVE  TypeOK'
<1>1. ASSUME NEW p \in Passwords, AskDisable(c, p) PROVE TypeOK'
  <2>1. [op |-> "disable", at |-> "factor"] \in CallTypes
    BY DEF CallTypes
  <2> QED BY <1>1, <2>1, GoType DEF AskDisable, TypeOK, factor
<1>2. CASE ClearMFA(c)
  <2>1. calls[c] \in CallTypes /\ calls[c].op = "disable"
    BY <1>2, InProgress DEF ClearMFA
  <2>2. [calls[c] EXCEPT !.at = "forget"] \in CallTypes
    BY <2>1 DEF CallTypes
  <2> QED BY <1>2, <2>2, GoType DEF ClearMFA, Step, TypeOK
<1>3. CASE DeleteRecoveryCodes(c)
  <2>1. calls[c] \in CallTypes /\ calls[c].at = "forget"
    BY <1>3, InProgress DEF DeleteRecoveryCodes
  <2>2. [calls[c] EXCEPT !.at = "revoke"] \in CallTypes
    BY <2>1 DEF CallTypes
  <2> QED BY <1>3, <2>2, GoType DEF DeleteRecoveryCodes, Step, TypeOK, factor
<1>4. CASE RevokeUserSessions(c)
  BY <1>4, GoType DEF RevokeUserSessions, TypeOK, factor, NoSessions
<1> QED BY <1>1, <1>2, <1>3, <1>4

\* Every step keeps the types.
LEMMA TypeStep ==
    ASSUME TypeOK, [Next]_vars
    PROVE  TypeOK'
<1>1. CASE UNCHANGED vars
  BY <1>1 DEF vars, factor, TypeOK
<1>2. ASSUME NEW s \in Sessions, RevokeSession(s) PROVE TypeOK'
  BY <1>2 DEF RevokeSession, TypeOK, factor
<1>3. ASSUME NEW x \in Secrets, BeginMFA(x) PROVE TypeOK'
  BY <1>3 DEF BeginMFA, TypeOK
<1>4. ASSUME NEW l \in Resets, Expire(l) PROVE TypeOK'
  BY <1>4 DEF Expire, TypeOK, factor
<1>5. ASSUME NEW c \in Calls, Drop(c) PROVE TypeOK'
  BY <1>5, GoType DEF Drop, TypeOK, factor
<1> QED BY <1>1, <1>2, <1>3, <1>4, <1>5, SetupType, SignInType, PasswordType, EnrolType,
           DisableType DEF Next

-----------------------------------------------------------------------------
(* What steps do to single variables.                                      *)

\* Only the steps of a set-up move it.
LEMMA SetupMoves ==
    ASSUME [Next]_vars
    PROVE  UNCHANGED setup \/ \E c \in Setups :
              /\ \/ HasAnyUser(c) \/ InsertHost(c) \/ AbortSetup(c)
                 \/ \E p \in Passwords : CommitSetup(c, p)
              /\ UNCHANGED <<calls, sessions, links, secrets, mfa, codes, uses>>
BY ZenonT(60) DEF Next, vars, factor, HasAnyUser, InsertHost, AbortSetup, CommitSetup, SetupGoes, SignIn,
       ConsumeResetToken, ChangePassword, AskDisable, ProvePassword, CreateSession, VerifyTOTP,
       UpdatePasswordHash, ReplaceLinks, CreateResetToken, FindResetToken, ConsumeRecoveryCode,
       StoreRecoveryCodes, VerifyEnrolment, SetMFA, Regenerate, DeleteOldCodes, ClearMFA,
       DeleteRecoveryCodes, RevokeUserSessions, Drop, RevokeSession, BeginMFA, Expire

\* The statuses of links change when one is issued, used or gets too old.
LEMMA LinkMoves ==
    ASSUME [Next]_vars
    PROVE  \/ UNCHANGED links
           \/ \E c \in Calls, l \in Resets : CreateResetToken(c, l)
           \/ \E c \in Calls, p \in Passwords : ConsumeResetToken(c, p)
           \/ \E l \in Resets : Expire(l)
BY ZenonT(60) DEF Next, vars, factor, HasAnyUser, InsertHost, AbortSetup, CommitSetup, SetupGoes, SignIn,
       ChangePassword, AskDisable, ProvePassword, CreateSession, VerifyTOTP,
       UpdatePasswordHash, ReplaceLinks, FindResetToken, ConsumeRecoveryCode,
       StoreRecoveryCodes, VerifyEnrolment, SetMFA, Regenerate, DeleteOldCodes, ClearMFA,
       DeleteRecoveryCodes, RevokeUserSessions, Drop, RevokeSession, BeginMFA

\* The codes change when they are used, replaced or deleted.
LEMMA CodeMoves ==
    ASSUME [Next]_vars
    PROVE  \/ UNCHANGED codes
           \/ \E c \in Calls, k \in Codes : ConsumeRecoveryCode(c, k) \/ StoreRecoveryCodes(c, k)
           \/ \E c \in Calls : DeleteRecoveryCodes(c)
BY ZenonT(60) DEF Next, vars, factor, HasAnyUser, InsertHost, AbortSetup, CommitSetup, SetupGoes, SignIn,
       ConsumeResetToken, ChangePassword, AskDisable, ProvePassword, CreateSession, VerifyTOTP,
       UpdatePasswordHash, ReplaceLinks, CreateResetToken, FindResetToken, VerifyEnrolment,
       SetMFA, Regenerate, DeleteOldCodes, ClearMFA, RevokeUserSessions, Drop, RevokeSession,
       BeginMFA, Expire

\* Only what is used once, and a new code, moves a count.
LEMMA UseMoves ==
    ASSUME [Next]_vars
    PROVE  \/ UNCHANGED uses
           \/ \E c \in Calls, k \in Codes : ConsumeRecoveryCode(c, k) \/ StoreRecoveryCodes(c, k)
           \/ \E c \in Calls, p \in Passwords : ConsumeResetToken(c, p)
BY ZenonT(60) DEF Next, vars, factor, HasAnyUser, InsertHost, AbortSetup, CommitSetup, SetupGoes, SignIn,
       ChangePassword, AskDisable, ProvePassword, CreateSession, VerifyTOTP,
       UpdatePasswordHash, ReplaceLinks, CreateResetToken, FindResetToken, VerifyEnrolment,
       SetMFA, Regenerate, DeleteOldCodes, ClearMFA, DeleteRecoveryCodes, RevokeUserSessions,
       Drop, RevokeSession, BeginMFA, Expire

\* The second factor.
LEMMA FactorMoves ==
    ASSUME [Next]_vars
    PROVE  \/ UNCHANGED factor
           \/ \E c \in Calls : VerifyEnrolment(c) \/ SetMFA(c) \/ ClearMFA(c)
           \/ \E x \in Secrets : BeginMFA(x)
BY ZenonT(60) DEF Next, vars, HasAnyUser, InsertHost, AbortSetup, CommitSetup, SetupGoes, SignIn,
       ConsumeResetToken, ChangePassword, AskDisable, ProvePassword, CreateSession, VerifyTOTP,
       UpdatePasswordHash, ReplaceLinks, CreateResetToken, FindResetToken, ConsumeRecoveryCode,
       StoreRecoveryCodes, Regenerate, DeleteOldCodes, DeleteRecoveryCodes, RevokeUserSessions,
       Drop, RevokeSession, Expire

\* The password, and the sessions opened with it.
LEMMA SessionMoves ==
    ASSUME [Next]_vars
    PROVE  \/ UNCHANGED <<password, sessions>>
           \/ \E c \in Setups, p \in Passwords : CommitSetup(c, p)
           \/ \E c \in Calls, p \in Passwords : ConsumeResetToken(c, p) \/ ChangePassword(c, p)
           \/ \E c \in Calls, s \in Sessions : CreateSession(c, s)
           \/ \E c \in Calls : UpdatePasswordHash(c) \/ RevokeUserSessions(c)
           \/ \E s \in Sessions : RevokeSession(s)
BY ZenonT(60) DEF Next, vars, factor, HasAnyUser, InsertHost, AbortSetup, SetupGoes, SignIn, AskDisable,
       ProvePassword, VerifyTOTP, ReplaceLinks, CreateResetToken, FindResetToken,
       ConsumeRecoveryCode, StoreRecoveryCodes, VerifyEnrolment, SetMFA, Regenerate,
       DeleteOldCodes, ClearMFA, DeleteRecoveryCodes, Drop, BeginMFA, Expire

\* What a request becomes: only one that is about to replace links holds them,
\* and only one that has verified a code is about to enable the factor.
LEMMA CallMoves ==
    ASSUME TypeOK, [Next]_vars, NEW d \in Calls
    PROVE  \/ calls'[d] = calls[d] \/ calls'[d] = Idle
           \/ calls'[d].op # "request" /\ calls'[d].at # "enable"
           \/ ReplaceLinks(d) \/ VerifyEnrolment(d)
<1> DEFINE Goal == \/ calls'[d] = calls[d] \/ calls'[d] = Idle
                   \/ calls'[d].op # "request" /\ calls'[d].at # "enable"
                   \/ ReplaceLinks(d) \/ VerifyEnrolment(d)
<1>0. calls \in [Calls -> {Idle} \cup CallTypes]
  BY DEF TypeOK
<1>1. CASE UNCHANGED calls
  BY <1>1
<1>2. ASSUME NEW c \in Calls, NEW x, Go(c, x),
             x = Idle \/ (x.op # "request" /\ x.at # "enable")
      PROVE  Goal
  BY <1>0, <1>2 DEF Go
<1>3. ASSUME NEW c \in Calls, NEW at \in {"ready", "rehash", "forget", "revoke"}, Step(c, at),
             calls[c] \in CallTypes, calls[c].op # "request"
      PROVE  Goal
  <2>1. [calls[c] EXCEPT !.at = at].op # "request" /\ [calls[c] EXCEPT !.at = at].at # "enable"
    BY <1>3 DEF CallTypes
  <2> QED BY <1>2, <1>3, <2>1 DEF Step
<1>4. ASSUME NEW c \in Setups,
             \/ HasAnyUser(c) \/ InsertHost(c) \/ AbortSetup(c)
             \/ \E p \in Passwords : CommitSetup(c, p)
      PROVE  UNCHANGED calls
  BY <1>4 DEF HasAnyUser, InsertHost, AbortSetup, CommitSetup, SetupGoes
<1>5. ASSUME NEW c \in Calls, NEW p \in Passwords,
             \/ SignIn(c, p) \/ ConsumeResetToken(c, p) \/ ChangePassword(c, p)
             \/ AskDisable(c, p) \/ \E s \in Sessions : ProvePassword(c, s, p)
      PROVE  Goal
  <2>1. SecondFactor # "enable"
    BY DEF SecondFactor
  <2> QED BY <1>2, <1>5, <2>1
             DEF SignIn, ConsumeResetToken, ChangePassword, AskDisable, ProvePassword
<1>6. ASSUME NEW c \in Calls, NEW s \in Sessions, CreateSession(c, s) PROVE Goal
  <2>1. calls[c] \in CallTypes /\ calls[c].op # "request"
    BY <1>6, InProgress DEF CreateSession
  <2> QED BY <1>2, <1>3, <1>6, <2>1 DEF CreateSession
<1>7. ASSUME NEW c \in Calls,
             \/ VerifyTOTP(c) \/ \E k \in Codes : ConsumeRecoveryCode(c, k)
             \/ ClearMFA(c) \/ DeleteRecoveryCodes(c)
      PROVE  Goal
  <2>1. calls[c] # Idle /\ (calls[c].at \in {"factor", "forget"} \/ calls[c].op = "disable")
    BY <1>7 DEF VerifyTOTP, ConsumeRecoveryCode, ClearMFA, DeleteRecoveryCodes
  <2>2. calls[c] \in CallTypes /\ calls[c].op # "request"
    BY <2>1, InProgress, CallFields
  <2> QED BY <1>3, <1>7, <2>2
             DEF VerifyTOTP, ConsumeRecoveryCode, ClearMFA, DeleteRecoveryCodes
<1>8. ASSUME NEW c \in Calls,
             \/ UpdatePasswordHash(c) \/ \E l \in Resets : CreateResetToken(c, l)
             \/ \E l \in Resets : FindResetToken(c, l)
             \/ \E k \in Codes : StoreRecoveryCodes(c, k)
             \/ SetMFA(c) \/ Regenerate(c) \/ RevokeUserSessions(c) \/ Drop(c)
      PROVE  Goal
  <2>1. SecondFactor # "enable"
    BY DEF SecondFactor
  <2> QED BY <1>2, <1>8, <2>1
             DEF UpdatePasswordHash, CreateResetToken, FindResetToken, StoreRecoveryCodes,
                 SetMFA, Regenerate, RevokeUserSessions, Drop
<1>9. ASSUME NEW c \in Calls, DeleteOldCodes(c) PROVE Goal
  <2>1. calls[c].op \in {"confirm", "regenerate"}
    BY <1>9, InProgress, CallFields DEF DeleteOldCodes
  <2> QED BY <1>2, <1>9, <2>1 DEF DeleteOldCodes
<1>10. ASSUME NEW c \in Calls, ReplaceLinks(c) \/ VerifyEnrolment(c) PROVE Goal
  BY <1>0, <1>10 DEF ReplaceLinks, VerifyEnrolment, Go
<1>11. ASSUME NEW s \in Sessions, RevokeSession(s) PROVE Goal
  BY <1>1, <1>11 DEF RevokeSession
<1>12. ASSUME NEW x \in Secrets, BeginMFA(x) PROVE Goal
  BY <1>1, <1>12 DEF BeginMFA
<1>13. ASSUME NEW l \in Resets, Expire(l) PROVE Goal
  BY <1>1, <1>13 DEF Expire
<1>14. CASE UNCHANGED vars
  BY <1>1, <1>14 DEF vars
<1> QED BY <1>1, <1>4, <1>5, <1>6, <1>7, <1>8, <1>9, <1>10, <1>11, <1>12, <1>13, <1>14
           DEF Next, vars

-----------------------------------------------------------------------------
(* The parts of the invariant.                                             *)

\* The last insert of a set-up waits for another set-up that has made it, and
\* fails if that commits.
LEMMA OneInsertsStep ==
    ASSUME TypeOK, OneInserts, [Next]_vars
    PROVE  OneInserts'
<1>1. CASE UNCHANGED setup
  BY <1>1 DEF OneInserts
<1>2. ASSUME NEW c \in Setups, NEW to, setup' = [setup EXCEPT ![c] = to],
             to \notin {"inserted", "done"} \/ setup[c] \in {"inserted", "done"}
      PROVE  OneInserts'
  BY <1>2 DEF OneInserts, TypeOK
<1>3. ASSUME NEW c \in Setups,
             HasAnyUser(c) \/ AbortSetup(c) \/ \E p \in Passwords : CommitSetup(c, p)
      PROVE  OneInserts'
  BY <1>2, <1>3 DEF HasAnyUser, AbortSetup, CommitSetup, SetupGoes
<1>4. ASSUME NEW c \in Setups, InsertHost(c) PROVE OneInserts'
  <2>1. CASE AnyUser
    BY <1>2, <1>4, <2>1 DEF InsertHost, SetupGoes
  <2>2. CASE ~AnyUser
    BY <1>4, <2>2 DEF InsertHost, SetupGoes, AnyUser, OneInserts, TypeOK
  <2> QED BY <2>1, <2>2
<1> QED BY <1>1, <1>3, <1>4, SetupMoves

\* Once the set-ups are answered none of them moves.
LEMMA OverStays ==
    ASSUME SetupsOver, [Next]_vars
    PROVE  SetupsOver' /\ UNCHANGED setup
<1>1. ASSUME NEW c \in Setups,
             \/ HasAnyUser(c) \/ InsertHost(c) \/ AbortSetup(c)
             \/ \E p \in Passwords : CommitSetup(c, p)
      PROVE  FALSE
  BY <1>1 DEF SetupsOver, HasAnyUser, InsertHost, AbortSetup, CommitSetup, SetupGoes
<1>2. UNCHANGED setup
  BY <1>1, SetupMoves
<1> QED BY <1>2 DEF SetupsOver, AnyUser

\* Until the set-ups are answered only they move.
LEMMA SetupAlone ==
    ASSUME SetupFirst, [Next]_vars, ~SetupsOver
    PROVE  UNCHANGED <<calls, sessions, links, mfa, codes, uses>>
<1>1. (\A c \in Calls : calls[c] = Idle) /\ Live = {} /\ \A l \in Resets : links[l] = "new"
  BY DEF SetupFirst

<1>2. ASSUME NEW c \in Calls,
             \/ \E p \in Passwords :
                \/ SignIn(c, p) \/ ConsumeResetToken(c, p) \/ ChangePassword(c, p)
                \/ AskDisable(c, p) \/ \E s \in Sessions : ProvePassword(c, s, p)
             \/ \E s \in Sessions : CreateSession(c, s)
             \/ VerifyTOTP(c) \/ UpdatePasswordHash(c) \/ ReplaceLinks(c)
             \/ \E l \in Resets : CreateResetToken(c, l) \/ FindResetToken(c, l)
             \/ \E k \in Codes : ConsumeRecoveryCode(c, k) \/ StoreRecoveryCodes(c, k)
             \/ VerifyEnrolment(c) \/ SetMFA(c) \/ Regenerate(c) \/ DeleteOldCodes(c)
             \/ ClearMFA(c) \/ DeleteRecoveryCodes(c) \/ RevokeUserSessions(c) \/ Drop(c)
      PROVE  FALSE
  BY <1>1, <1>2
     DEF SignIn, ConsumeResetToken, ChangePassword, AskDisable, ProvePassword, CreateSession,
         VerifyTOTP, UpdatePasswordHash, ReplaceLinks, CreateResetToken, FindResetToken,
         ConsumeRecoveryCode, StoreRecoveryCodes, VerifyEnrolment, SetMFA, Regenerate,
         DeleteOldCodes, ClearMFA, DeleteRecoveryCodes, RevokeUserSessions, Drop
<1>3. ASSUME NEW s \in Sessions, RevokeSession(s) PROVE FALSE
  BY <1>1, <1>3 DEF RevokeSession
<1>4. ASSUME NEW x \in Secrets, BeginMFA(x) PROVE FALSE
  BY <1>1, <1>4 DEF BeginMFA
<1>5. ASSUME NEW l \in Resets, Expire(l) PROVE FALSE
  BY <1>1, <1>5 DEF Expire
<1>6. ASSUME NEW c \in Setups,
             \/ HasAnyUser(c) \/ InsertHost(c) \/ AbortSetup(c)
             \/ \E p \in Passwords : CommitSetup(c, p)
      PROVE  UNCHANGED <<calls, sessions, links, mfa, codes, uses>>
  BY <1>6 DEF HasAnyUser, InsertHost, AbortSetup, CommitSetup, SetupGoes, factor
<1> QED BY <1>2, <1>3, <1>4, <1>5, <1>6 DEF Next, vars, factor

\* A set-up is answered before anybody signs in.
LEMMA SetupFirstStep ==
    ASSUME SetupFirst, [Next]_vars
    PROVE  SetupFirst'
<1>1. CASE SetupsOver
  BY <1>1, OverStays DEF SetupFirst
<1>2. CASE ~SetupsOver
  BY <1>2, SetupAlone DEF SetupFirst, Live
<1> QED BY <1>1, <1>2

\* A link that is held is not used: whoever uses it waits for its row.
LEMMA HeldStep ==
    ASSUME TypeOK, HeldUnspent, [Next]_vars
    PROVE  HeldUnspent'
<1> SUFFICES ASSUME NEW d \in Calls, calls'[d] # Idle, calls'[d].op = "request",
                    NEW l \in calls'[d].holds
             PROVE  links'[l] # "spent"
  BY DEF HeldUnspent
<1>1. /\ l \in Resets /\ links[l] # "spent"
      /\ calls'[d] = calls[d] \/ UNCHANGED links
  <2>1. CASE calls'[d] = calls[d]
    BY <2>1, InProgress, CallFields DEF HeldUnspent
  <2>2. CASE ReplaceLinks(d)
    BY <2>2 DEF ReplaceLinks, Go, TypeOK
  <2>3. ~VerifyEnrolment(d)
    BY DEF VerifyEnrolment, Go, TypeOK
  <2> QED BY <2>1, <2>2, <2>3, CallMoves
<1>2. ASSUME NEW c \in Calls, NEW m \in Resets, CreateResetToken(c, m)
      PROVE  links'[l] # "spent"
  BY <1>1, <1>2 DEF CreateResetToken
<1>3. ASSUME NEW c \in Calls, NEW p \in Passwords, ConsumeResetToken(c, p)
      PROVE  links'[l] # "spent"
  <2>1. CASE calls'[d] = calls[d]
    <3>1. calls[d].at = "replaces"
      BY <2>1, InProgress, CallFields
    <3>2. Held(l)
      BY <2>1, <3>1 DEF Held
    <3> QED BY <1>1, <1>3, <3>2 DEF ConsumeResetToken, TypeOK
  <2> QED BY <1>1, <2>1
<1>4. ASSUME NEW m \in Resets, Expire(m) PROVE links'[l] # "spent"
  BY <1>1, <1>4 DEF Expire, TypeOK
<1> QED BY <1>1, <1>2, <1>3, <1>4, LinkMoves

\* A link or a code lets somebody pass when it is marked as used, once.
LEMMA UsesStep ==
    ASSUME TypeOK, HeldUnspent, UsesCounted, [Next]_vars
    PROVE  UsesCounted'
<1>1. ASSUME NEW c \in Calls, NEW l \in Resets, CreateResetToken(c, l) PROVE UsesCounted'
  <2>1. calls[c].holds \subseteq Resets /\ \A m \in calls[c].holds : links[m] # "spent"
    BY <1>1, InProgress, CallFields DEF CreateResetToken, HeldUnspent
  <2>2. \A m \in Resets : links'[m] = "spent" <=> links[m] = "spent"
    BY <1>1, <2>1 DEF CreateResetToken, TypeOK
  <2> QED BY <1>1, <2>2 DEF CreateResetToken, UsesCounted
<1>2. ASSUME NEW c \in Calls, NEW p \in Passwords, ConsumeResetToken(c, p) PROVE UsesCounted'
  <2>1. calls[c].link \in Resets
    BY <1>2, InProgress, CallFields DEF ConsumeResetToken
  <2> QED BY <1>2, <2>1 DEF ConsumeResetToken, Used, UsesCounted, TypeOK
<1>3. ASSUME NEW l \in Resets, Expire(l) PROVE UsesCounted'
  BY <1>3, CodeMoves, UseMoves DEF Expire, UsesCounted, TypeOK
<1>4. ASSUME NEW c \in Calls, NEW k \in Codes, ConsumeRecoveryCode(c, k) PROVE UsesCounted'
  BY <1>4 DEF ConsumeRecoveryCode, Used, UsesCounted, TypeOK
<1>5. ASSUME NEW c \in Calls, NEW k \in Codes, StoreRecoveryCodes(c, k) PROVE UsesCounted'
  BY <1>5 DEF StoreRecoveryCodes, UsesCounted, TypeOK
<1>6. ASSUME NEW c \in Calls, DeleteRecoveryCodes(c) PROVE UsesCounted'
  BY <1>6 DEF DeleteRecoveryCodes, UsesCounted, TypeOK
<1>7. CASE UNCHANGED <<links, codes, uses>>
  BY <1>7 DEF UsesCounted
<1> QED BY <1>1, <1>2, <1>3, <1>4, <1>5, <1>6, <1>7, LinkMoves, CodeMoves, UseMoves

\* A secret that was proven stays so.
LEMMA ProvenStays ==
    ASSUME TypeOK, [Next]_vars, NEW x \in Secrets, secrets[x] = "proven"
    PROVE  secrets'[x] = "proven"
<1>1. ASSUME NEW c \in Calls, VerifyEnrolment(c) \/ SetMFA(c) \/ ClearMFA(c)
      PROVE  secrets'[x] = "proven"
  BY <1>1 DEF VerifyEnrolment, SetMFA, ClearMFA, TypeOK
<1>2. ASSUME NEW y \in Secrets, BeginMFA(y) PROVE secrets'[x] = "proven"
  BY <1>2 DEF BeginMFA, TypeOK
<1> QED BY <1>1, <1>2, FactorMoves DEF factor

\* What is written with the flag is the secret the code was made with.
LEMMA ProvenStep ==
    ASSUME TypeOK, CallIsProven, EnabledIsProven, [Next]_vars
    PROVE  CallIsProven' /\ EnabledIsProven'
<1>1. CallIsProven'
  <2> SUFFICES ASSUME NEW d \in Calls, calls'[d] # Idle, calls'[d].at = "enable"
               PROVE  secrets'[calls'[d].secret] = "proven"
    BY DEF CallIsProven
  <2>1. CASE calls'[d] = calls[d]
    BY <2>1, InProgress, CallFields, ProvenStays DEF CallIsProven
  <2>2. CASE ReplaceLinks(d)
    BY <2>2 DEF ReplaceLinks, Go, TypeOK
  <2>3. CASE VerifyEnrolment(d)
    BY <2>3 DEF VerifyEnrolment, Go, TypeOK
  <2> QED BY <2>1, <2>2, <2>3, CallMoves
<1>2. EnabledIsProven'
  <2>1. CASE UNCHANGED factor
    BY <2>1 DEF factor, EnabledIsProven
  <2>2. ASSUME NEW c \in Calls, VerifyEnrolment(c) PROVE EnabledIsProven'
    BY <2>2 DEF VerifyEnrolment, EnabledIsProven, TypeOK
  <2>3. ASSUME NEW c \in Calls, SetMFA(c) PROVE EnabledIsProven'
    BY <2>3, InProgress, CallFields DEF SetMFA, EnabledIsProven, CallIsProven
  <2>4. ASSUME NEW c \in Calls, ClearMFA(c) PROVE EnabledIsProven'
    BY <2>4 DEF ClearMFA, EnabledIsProven
  <2>5. ASSUME NEW x \in Secrets, BeginMFA(x) PROVE EnabledIsProven'
    BY <2>5 DEF BeginMFA, EnabledIsProven
  <2> QED BY <2>1, <2>2, <2>3, <2>4, <2>5, FactorMoves
<1> QED BY <1>1, <1>2

\* A session goes with the password, or is marked when they part.
LEMMA SessionStep ==
    ASSUME TypeOK, SetupFirst, SessionHasPassword, [Next]_vars
    PROVE  SessionHasPassword'
<1> USE DEF SessionHasPassword, Live
<1>1. CASE UNCHANGED <<password, sessions>>
  BY <1>1
<1>2. ASSUME NEW c \in Setups, NEW p \in Passwords, CommitSetup(c, p) PROVE SessionHasPassword'
  BY <1>2 DEF CommitSetup, SetupFirst, SetupsOver
<1>3. ASSUME NEW c \in Calls, NEW p \in Passwords, ConsumeResetToken(c, p)
      PROVE  SessionHasPassword'
  BY <1>3 DEF ConsumeResetToken, NoSessions
<1>4. ASSUME NEW c \in Calls, NEW p \in Passwords, ChangePassword(c, p) PROVE SessionHasPassword'
  BY <1>4 DEF ChangePassword, TypeOK
<1>5. ASSUME NEW c \in Calls, NEW s \in Sessions, CreateSession(c, s) PROVE SessionHasPassword'
  BY <1>5 DEF CreateSession, TypeOK
<1>6. ASSUME NEW c \in Calls, UpdatePasswordHash(c) PROVE SessionHasPassword'
  BY <1>6 DEF UpdatePasswordHash, TypeOK
<1>7. ASSUME NEW c \in Calls, RevokeUserSessions(c) PROVE SessionHasPassword'
  BY <1>7 DEF RevokeUserSessions, NoSessions
<1>8. ASSUME NEW s \in Sessions, RevokeSession(s) PROVE SessionHasPassword'
  BY <1>8 DEF RevokeSession, TypeOK
<1> QED BY <1>1, <1>2, <1>3, <1>4, <1>5, <1>6, <1>7, <1>8, SessionMoves

-----------------------------------------------------------------------------
\* The conjunction is inductive: it holds initially and every step keeps it.
THEOREM Inductive == Spec => []IInv
<1>1. Init => IInv
  BY TypeInit DEF Init, IInv, OneInserts, SetupFirst, HeldUnspent, UsesCounted, CallIsProven,
                  EnabledIsProven, SessionHasPassword, Live
<1>2. IInv /\ [Next]_vars => IInv'
  BY TypeStep, OneInsertsStep, SetupFirstStep, HeldStep, UsesStep, ProvenStep, SessionStep
     DEF IInv
<1> QED BY <1>1, <1>2, PTL DEF Spec

\* Every variable keeps its type.
THEOREM TypeCorrect == Spec => []TypeOK
BY Inductive, PTL DEF IInv

\* However many set-ups race, one succeeds.
THEOREM OneSetupOnly == Spec => []OneSetup
<1>1. IInv => OneSetup
  BY DEF IInv, OneInserts, OneSetup
<1> QED BY <1>1, Inductive, PTL

\* However many requests present a link or a code, it lets one of them pass.
THEOREM SpentOnceOnly == Spec => []SpentOnce
<1>1. IInv => SpentOnce
  BY DEF IInv, TypeOK, UsesCounted, SpentOnce
<1> QED BY <1>1, Inductive, PTL

\* A second factor is asked for only with a secret that was proven, however
\* enrolments, confirmations and the end of the factor interleave.
THEOREM NobodyLockedOut == Spec => []EnabledIsProven
BY Inductive, PTL DEF IInv

\* However sign-ins, resets and changes interleave, a live session goes with the
\* password or is one of the exceptions.
THEOREM SessionsFollow == Spec => []SessionHasPassword
BY Inductive, PTL DEF IInv

=============================================================================
