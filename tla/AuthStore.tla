------------------------------ MODULE AuthStore ------------------------------
(***************************************************************************)
(* What the processes of the authentication flow share: the row of table   *)
(* auth_tokens for service "schwab" (services/database.h and its two       *)
(* implementations under services/db), and the refresh tokens the provider *)
(* honours.                                                                *)
(*                                                                         *)
(* An absent row and a row of empty columns look the same to every reader, *)
(* so there is no separate "no row".  Tokens and notices are unguessable:  *)
(* a new one is any that nobody remembers.  One tick of the clock is the   *)
(* notification cooling period.                                            *)
(***************************************************************************)
EXTENDS Integers, FiniteSets

CONSTANTS
    Tokens,     \* refresh tokens
    NoToken,    \* the empty refresh_token
    Notices,    \* notice tokens: the `state` of a login link
    NoNotice,   \* a NULL notice_token
    NoticeTTL   \* NOTICE_TTL of oauth_http_service.cc, in ticks

ASSUME StoreAssumption ==
    /\ NoToken \notin Tokens
    /\ NoNotice \notin Notices
    /\ NoticeTTL \in Nat \ {0}

VARIABLES
    refresh,  \* refresh_token, decrypted
    notice,   \* notice_token
    age,      \* ticks since last_notified_at, or Never
    valid,    \* the refresh tokens the provider honours
    flaky     \* calls may still fail, and tokens may still be revoked

storeVars == <<refresh, notice, age, valid, flaky>>

\* Ages above NoticeTTL are all alike; NULL compares like the oldest one.
Never == NoticeTTL + 1

StoreTypeOK ==
    /\ refresh \in Tokens \cup {NoToken}
    /\ notice \in Notices \cup {NoNotice}
    /\ age \in 0..Never
    /\ valid \in SUBSET Tokens
    /\ flaky \in BOOLEAN

\* What a process reads of a token that is stored encrypted: the store decrypts
\* it, or the call fails and the reader goes on without one.  An empty token
\* is stored, and read, as it is.
Decrypted(t) == IF flaky THEN {t, NoToken} ELSE {t}

\* The upsert clears the notice with the same statement.
SaveRefreshTokenOnly(t) == refresh' = t /\ UNCHANGED <<notice, age>>
SaveRefreshToken(t) ==
    /\ refresh' = t
    /\ notice' = NoNotice
    /\ UNCHANGED age

\* The upsert stamps last_notified_at with the same statement.
SaveNoticeToken(n) ==
    /\ notice' = n
    /\ age' = 0
    /\ UNCHANGED refresh

rowUnchanged == UNCHANGED <<refresh, notice, age>>

-----------------------------------------------------------------------------
(* The provider.                                                           *)

\* Which token is issued does not matter, as long as nobody knows it yet.
CanIssue(known) == Tokens \ known # {}
NewToken(known) == CHOOSE t \in Tokens : t \notin known

\* The provider issues a token and stops honouring those in `spent`; valid
\* tokens that nobody knows any more drop out of the model.
Issue(known, spent) == valid' = ((valid \cap known) \ spent) \cup {NewToken(known)}

\* A login may or may not revoke the tokens of earlier logins.
IssueAtLogin(known) == Issue(known, {}) \/ Issue(known, valid)

StoreInit ==
    /\ \/ refresh = NoToken /\ valid = {}
       \/ CanIssue({}) /\ refresh = NewToken({}) /\ valid \in SUBSET {refresh}
    /\ notice = NoNotice
    /\ age = Never
    /\ flaky = TRUE

-----------------------------------------------------------------------------
(* The world around the flow.                                              *)

\* A refresh token is revoked or reaches its end of life.
Revoke(t) ==
    /\ flaky
    /\ t \in valid
    /\ valid' = valid \ {t}
    /\ rowUnchanged /\ UNCHANGED flaky

\* From now on every call succeeds and no token is revoked.
CalmDown ==
    /\ flaky
    /\ flaky' = FALSE
    /\ rowUnchanged /\ UNCHANGED valid

=============================================================================
