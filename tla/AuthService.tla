----------------------------- MODULE AuthService -----------------------------
(***************************************************************************)
(* The OAuth server: auth_service::RequestLogin (services/oauth/           *)
(* auth_service.cc), run by gRPC's threads, and the login callback of      *)
(* services/oauth/oauth_http_service.cc, run by the one HTTP thread.  They *)
(* meet in the auth_tokens row, which each reads once and writes once with *)
(* a slow call to the outside in between.                                  *)
(***************************************************************************)
EXTENDS AuthStore

CONSTANTS
    Handlers,  \* RequestLogin calls that may be in progress at once
    Cooling    \* NOTIFICATION_COOLING_PERIOD, in ticks

ASSUME ServiceAssumption == Cooling \in 0..NoticeTTL - 1

VARIABLES
    gpc,      \* where each RequestLogin handler is
    drafted,  \* the notice each handler has generated
    hpc,      \* where the HTTP thread is
    opened,   \* the link whose callback it is serving
    code,     \* the refresh token the exchange returned
    links,    \* links the user was sent and still has
    spent     \* the ones among them that led to a stored token

serviceVars == <<gpc, drafted, hpc, opened, code, links, spent>>

ServiceTypeOK ==
    /\ gpc \in [Handlers -> {"idle", "sending", "saving"}]
    /\ drafted \in [Handlers -> Notices \cup {NoNotice}]
    /\ hpc \in {"idle", "exchanging", "saving"}
    /\ opened \in Notices \cup {NoNotice}
    /\ code \in Tokens \cup {NoToken}
    /\ links \in SUBSET Notices
    /\ spent \in SUBSET links

ServiceInit ==
    /\ gpc = [h \in Handlers |-> "idle"]
    /\ drafted = [h \in Handlers |-> NoNotice]
    /\ hpc = "idle"
    /\ opened = NoNotice
    /\ code = NoToken
    /\ links = {}
    /\ spent = {}

-----------------------------------------------------------------------------
(* RequestLogin.                                                           *)

\* should_notify_again on the row just read, or no last_notified_at in it.
MayNotify == age > Cooling

\* Notices that are in use; generate_notice_token draws another one.
UsedNotices == {notice, opened} \cup links \cup {drafted[h] : h \in Handlers}

\* generate_notice_token.
Draft(h) == drafted' = [drafted EXCEPT ![h] = CHOOSE n \in Notices : n \notin UsedNotices]

\* The row is read and a notice drafted; the message goes out next.
FirstStepSaves == "saving"
FirstStep == "sending"

\* A request in the cooling period, for another service or without its flags
\* returns here and changes nothing.
RequestLogin(h) ==
    /\ gpc[h] = "idle"
    /\ MayNotify
    /\ Notices \ UsedNotices # {}
    /\ Draft(h)
    /\ gpc' = [gpc EXCEPT ![h] = FirstStep]
    /\ UNCHANGED <<storeVars, hpc, opened, code, links, spent>>

\* send_notification returns.
NotificationSent(h) ==
    /\ gpc[h] = "sending"
    /\ links' = links \cup {drafted[h]}
    /\ gpc' = [gpc EXCEPT ![h] = "saving"]
    /\ UNCHANGED <<storeVars, drafted, hpc, opened, code, spent>>

HandlerDone(h) ==
    /\ gpc' = [gpc EXCEPT ![h] = "idle"]
    /\ drafted' = [drafted EXCEPT ![h] = NoNotice]

NoticeSaved(h) ==
    /\ gpc[h] = "saving"
    /\ SaveNoticeToken(drafted[h])
    /\ HandlerDone(h)
    /\ UNCHANGED <<valid, flaky, hpc, opened, code, links, spent>>

\* send_notification throws, or the row is not saved and the link is dead.
RequestLoginFails(h) ==
    /\ flaky
    /\ gpc[h] # "idle"
    /\ HandlerDone(h)
    /\ UNCHANGED <<storeVars, hpc, opened, code, links, spent>>

-----------------------------------------------------------------------------
(* GET /schwab/oauth-callback?state=n&code=...                             *)

\* The state matches the row's notice and that notice has not expired.
StateMatches(n) == notice = n /\ age <= NoticeTTL

\* A request with another state, or without a code, is refused and changes
\* nothing.  The user follows a link he has, any number of times.
Callback(n) ==
    /\ hpc = "idle"
    /\ n \in links
    /\ StateMatches(n)
    /\ opened' = n
    /\ hpc' = "exchanging"
    /\ UNCHANGED <<storeVars, gpc, drafted, code, links, spent>>

\* exchange_code_for_tokens returns new tokens.
ExchangeReturns(known) ==
    /\ hpc = "exchanging"
    /\ CanIssue(known)
    /\ IssueAtLogin(known)
    /\ code' = NewToken(known)
    /\ hpc' = "saving"
    /\ rowUnchanged
    /\ UNCHANGED <<flaky, gpc, drafted, opened, links, spent>>

HttpDone ==
    /\ hpc' = "idle"
    /\ opened' = NoNotice
    /\ code' = NoToken

\* "Authentication successful. You may now close this window."
LoginStored ==
    /\ hpc = "saving"
    /\ SaveRefreshToken(code)
    /\ spent' = spent \cup ({opened} \cap links)
    /\ HttpDone
    /\ UNCHANGED <<valid, flaky, gpc, drafted, links>>

\* The exchange or the save throws: 500, and the link stays usable.
CallbackFails ==
    /\ flaky
    /\ hpc # "idle"
    /\ HttpDone
    /\ UNCHANGED <<storeVars, gpc, drafted, links, spent>>

-----------------------------------------------------------------------------
(* The user and the clock.                                                 *)

\* The user deletes a message whose link no longer works.
DeleteLink(n) ==
    /\ n \in links
    /\ n \notin {notice, opened} \cup {drafted[h] : h \in Handlers}
    /\ links' = links \ {n}
    /\ spent' = spent \ {n}
    /\ UNCHANGED <<storeVars, gpc, drafted, hpc, opened, code>>

TimePasses ==
    /\ age < Never
    /\ age' = age + 1
    /\ UNCHANGED <<refresh, notice, valid, flaky, gpc, drafted, hpc, opened, code, links, spent>>

ServiceStep ==
    \/ \E h \in Handlers : NotificationSent(h) \/ NoticeSaved(h) \/ RequestLoginFails(h)
    \/ LoginStored
    \/ CallbackFails
    \/ \E n \in Notices : DeleteLink(n)

=============================================================================
