------------------------------ MODULE AuthFlow ------------------------------
(***************************************************************************)
(* The authentication flow from end to end: the pumps of TokenManager, the *)
(* OAuth server of AuthService, and the user who follows the links it      *)
(* sends, over one auth_tokens row.                                        *)
(*                                                                         *)
(* Two couplings exist only here.  A pump's RequestLogin is a call with a  *)
(* deadline, so the pump may go on while the handler still runs.  And the  *)
(* server's status page calls get_bearer_token on the HTTP thread: while   *)
(* it waits for a token, the login that would provide one cannot be served.*)
(***************************************************************************)
EXTENDS AuthService, TokenManager

CONSTANT StatusPage  \* the HTTP thread, as a caller of get_bearer_token

\* The page takes whatever token is cached.  Other callers, and the end of a
\* job's manager, are TokenManager's concern.
ASSUME FlowAssumption == StatusPage \in Callers \ Forcing

flowVars == <<storeVars, managerVars, serviceVars>>

AllKnown == Known \cup {code}

FlowInit == StoreInit /\ ManagerInit /\ ServiceInit

-----------------------------------------------------------------------------

\* RequestLogin reaches a handler, finds the cooling period running, or is
\* lost; the pump goes on when it has the answer or has waited long enough.
CallRequestLogin(m) ==
    /\ LoginRequested(m)
    /\ \/ \E h \in Handlers : RequestLogin(h)
       \/ (flaky \/ ~MayNotify) /\ UNCHANGED serviceVars

\* _get_schwab_status, when the HTTP thread is free.
OpenStatusPage ==
    /\ hpc = "idle"
    /\ GetBearerToken(StatusPage)
    /\ UNCHANGED serviceVars

\* The HTTP thread's wait ends at the latest with schwab_auth_timeout.
StatusPageNeverTimesOut == FALSE
StatusPageTimesOut == CallerTimesOut(StatusPage)

\* The callback of a login waits until the HTTP thread is free.
FollowLink(n) ==
    /\ cpc[StatusPage] = "out"
    /\ Callback(n)
    /\ UNCHANGED managerVars

\* A login that works is waiting for the user.
LinkWaiting == notice # NoNotice /\ age <= NoticeTTL

\* No pump has yet to pick up a good token from the row.
PumpsSettled == refresh \in valid => \A m \in Managers : fresh[m]

\* A tick is many pump periods, and in a calm world the user follows a working
\* link before the next one.
FlowTimePasses ==
    /\ flaky \/ (PumpsSettled /\ ~LinkWaiting)
    /\ TimePasses
    /\ UNCHANGED managerVars

ServerStep ==
    /\ ServiceStep \/ ExchangeReturns(AllKnown)
    /\ UNCHANGED managerVars

ServicePumpStep(m) == PumpStep(m, AllKnown) /\ UNCHANGED serviceVars

FlowNext ==
    \/ \E m \in Managers :
         \/ ServicePumpStep(m)
         \/ CallRequestLogin(m)
         \/ Expire(m) /\ UNCHANGED serviceVars
    \/ OpenStatusPage
    \/ CallerWakes(StatusPage) /\ UNCHANGED serviceVars
    \/ StatusPageTimesOut /\ UNCHANGED serviceVars
    \/ \E n \in Notices : FollowLink(n)
    \/ ServerStep
    \/ FlowTimePasses
    \/ (\E t \in Tokens : Revoke(t)) /\ UNCHANGED <<managerVars, serviceVars>>
    \/ CalmDown /\ UNCHANGED <<managerVars, serviceVars>>

FlowSpec == FlowInit /\ [][FlowNext]_flowVars

\* Every thread that can run does, deadlines come, time passes, and the user
\* follows a link again and again while it works, and tidies up the others.
\* The HTTP thread serves the requests that wait for it in turn, hence SF.
FlowFairness ==
    /\ \A m \in Managers : WF_flowVars(ServicePumpStep(m)) /\ WF_flowVars(CallRequestLogin(m))
    /\ WF_flowVars(StatusPageTimesOut /\ UNCHANGED serviceVars)
    /\ \A n \in Notices : SF_flowVars(FollowLink(n))
    /\ WF_flowVars(ServerStep)
    /\ WF_flowVars(FlowTimePasses)

FairFlow == FlowSpec /\ FlowFairness

-----------------------------------------------------------------------------

\* Every variable has its type.
FlowTypeOK == StoreTypeOK /\ ManagerTypeOK /\ ServiceTypeOK

\* The row never holds a notice the user was not sent: whatever handlers
\* overlap, pumps overwrite and calls fail, the link that works is one the
\* user can open.
StoredNoticeWasSent ==
    /\ FlowTypeOK
    /\ notice # NoNotice => notice \in links

\* A link works once: while the HTTP thread exchanges a code for a link, that
\* link has not led to a stored token before, although other handlers and the
\* pumps write the same row in between.
LinkIsOneShot == hpc # "idle" => opened \notin spent

\* The promise of the whole flow: once calls succeed again, every pump keeps
\* coming back to an access token, whatever was revoked, lost, overwritten or
\* left half done, through the cooling period, links that died unopened and
\* a status page that blocks the HTTP thread.
FlowRecovers == \A m \in Managers : <>[]~flaky => []<>cached[m]

=============================================================================
