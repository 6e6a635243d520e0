---------------------------- MODULE TokenManager ----------------------------
(***************************************************************************)
(* token_manager (services/authenticate.cc): a pump thread that keeps an   *)
(* access token cached, and the threads that ask for it.  Several          *)
(* processes run one (the executor, the OAuth server's status page, the    *)
(* auth_refresh job) over one auth_tokens row.                             *)
(*                                                                         *)
(* Durations are abstracted: `fresh` says that now is not yet past         *)
(* _cache_expiration, Expire ends that, and a caller's deadline may come   *)
(* at any moment.                                                          *)
(*                                                                         *)
(* The auth_refresh job destroys its manager after one get_bearer_token.   *)
(* The destructor clears a flag, destroys the members declared after the   *)
(* thread, and joins the thread, which may still be anywhere in _pump.     *)
(***************************************************************************)
EXTENDS AuthStore

CONSTANTS
    Managers,     \* processes with a token_manager
    Callers,      \* threads calling get_bearer_token
    Home,         \* the manager each caller uses
    Deployments,  \* the sets of callers that a deployment may consist of
    Forcing,      \* the callers that pass clear_cache = true
    Jobs,         \* the managers of auth_refresh jobs
    MaxFailures,  \* the literal 10 of _pump
    Logins        \* whether the user of the OAuth server ever logs in

ASSUME ManagerAssumption ==
    /\ Home \in [Callers -> Managers]
    /\ Deployments \subseteq SUBSET Callers
    /\ Forcing \subseteq Callers
    /\ Jobs \subseteq Managers
    /\ MaxFailures \in Nat
    /\ Logins \in BOOLEAN

VARIABLES
    mpc,            \* where each pump is
    cached,         \* _cached_token is not empty
    cachedRefresh,  \* _cached_refresh_token
    fresh,          \* system_clock::now() <= _cache_expiration
    failures,       \* _pump_failure_count
    inHand,         \* the pump's local token: presented, then received
    cpc,            \* where each caller is
    stopping,       \* the destructor has begun: ~_continue_pumping
    forced          \* a forcing caller emptied a cache that had not expired

pumpVars == <<mpc, cached, cachedRefresh, fresh, failures, inHand>>
managerVars == <<pumpVars, cpc, stopping, forced>>

CallerPlaces == {"absent", "out", "asleep", "awake", "done"}

ManagerTypeOK ==
    /\ mpc \in [Managers -> {"idle", "due", "refreshing", "saving", "login", "off", "dead"}]
    /\ cached \in [Managers -> BOOLEAN]
    /\ cachedRefresh \in [Managers -> Tokens \cup {NoToken}]
    /\ fresh \in [Managers -> BOOLEAN]
    /\ failures \in [Managers -> 0..MaxFailures + 1]
    /\ inHand \in [Managers -> Tokens \cup {NoToken}]
    /\ cpc \in [Callers -> CallerPlaces]
    /\ {stopping, forced} \subseteq [Managers -> BOOLEAN]

ManagerInit ==
    /\ mpc = [m \in Managers |-> IF m \in Jobs THEN "off" ELSE "idle"]
    /\ cached = [m \in Managers |-> FALSE]
    /\ cachedRefresh = [m \in Managers |-> NoToken]
    /\ fresh = [m \in Managers |-> FALSE]
    /\ failures = [m \in Managers |-> 0]
    /\ inHand = [m \in Managers |-> NoToken]
    /\ \E present \in Deployments :
         cpc = [c \in Callers |-> IF c \in present THEN "out" ELSE "absent"]
    /\ stopping = [m \in Managers |-> FALSE]
    /\ forced = stopping

JobCallers == {c \in Callers : Home[c] \in Jobs}

\* The process of m runs.
Alive(m) == mpc[m] \notin {"off", "dead"}

Goto(m, place) == mpc' = [mpc EXCEPT ![m] = place]

\* Tokens the row or some pump still remembers: a new one is none of them.
Known ==
    {refresh}
    \cup {cachedRefresh[m] : m \in Managers}
    \cup {inHand[m] : m \in Managers}

-----------------------------------------------------------------------------
(* The pump thread.                                                        *)

\* check_cache(true): what a rejection, or a forcing caller, forgets.
ForgetAccessOnly(m) ==
    /\ cached' = [cached EXCEPT ![m] = FALSE]
    /\ UNCHANGED cachedRefresh
Forget(m) ==
    /\ cached' = [cached EXCEPT ![m] = FALSE]
    /\ cachedRefresh' = [cachedRefresh EXCEPT ![m] = NoToken]

\* The token _pump works with: the cached one, else the row's, else none (a
\* failing query, or a row that cannot be decrypted).
PumpToken(m, t) ==
    IF cachedRefresh[m] # NoToken THEN t = cachedRefresh[m]
    ELSE t \in Decrypted(refresh)

\* The pump has failed too often to try again.
GivesUp(m) == failures[m] > MaxFailures

\* The loop around _pump has tested _continue_pumping and goes on.
LoopForever(m) == FALSE
LoopEnds(m) == stopping[m]
Pumps(m) == ~fresh[m] /\ (mpc[m] = "due" \/ (mpc[m] = "idle" /\ ~LoopEnds(m)))

\* The start of _pump, up to the call of the refresher.
PumpRefresh(m) ==
    /\ Pumps(m)
    /\ ~GivesUp(m)
    /\ \E t \in Tokens :
         /\ PumpToken(m, t)
         /\ cachedRefresh' = [cachedRefresh EXCEPT ![m] = t]
         /\ inHand' = [inHand EXCEPT ![m] = t]
    /\ Goto(m, "refreshing")
    /\ UNCHANGED <<storeVars, cached, fresh, failures, cpc, stopping, forced>>

\* The start of _pump when there is no token, or after too many failures; or
\* when the cached token is a destroyed string and the provider, which refuses
\* what is left of it, has the same effect.
PumpGivesUp(m) ==
    /\ Pumps(m)
    /\ PumpToken(m, NoToken) \/ GivesUp(m) \/ stopping[m]
    /\ failures' = [failures EXCEPT ![m] = 0]
    /\ Forget(m)
    /\ Goto(m, "login")
    /\ UNCHANGED <<storeVars, fresh, inHand, cpc, stopping, forced>>

\* The new access token is cached and every waiting caller is notified.
NotifyCallersMissing(m) == UNCHANGED cpc
NotifyCallers(m) ==
    cpc' = [c \in Callers |-> IF Home[c] = m /\ cpc[c] = "asleep" THEN "awake" ELSE cpc[c]]

CacheAccessToken(m) ==
    /\ cached' = [cached EXCEPT ![m] = TRUE]
    /\ fresh' = [fresh EXCEPT ![m] = TRUE]
    /\ failures' = [failures EXCEPT ![m] = 0]
    /\ inHand' = [inHand EXCEPT ![m] = NoToken]
    /\ forced' = [forced EXCEPT ![m] = FALSE]
    /\ NotifyCallers(m)
    /\ Goto(m, "idle")
    /\ UNCHANGED <<cachedRefresh, stopping>>

\* The provider answers with the same refresh token.  A 200 answer is taken to
\* hold both tokens; the code caches, and saves, an empty one as well.
RefreshKeepsToken(m) ==
    /\ mpc[m] = "refreshing"
    /\ inHand[m] \in valid
    /\ CacheAccessToken(m)
    /\ UNCHANGED storeVars

\* The provider answers with another one, and the old one is spent.
RefreshRotates(m, known) ==
    /\ mpc[m] = "refreshing"
    /\ inHand[m] \in valid
    /\ CanIssue(known)
    /\ Issue(known, {inHand[m]})
    /\ inHand' = [inHand EXCEPT ![m] = NewToken(known)]
    /\ Goto(m, "saving")
    /\ rowUnchanged
    /\ UNCHANGED <<flaky, cached, cachedRefresh, fresh, failures, cpc, stopping, forced>>

\* save_refresh_token, then the cache: _cached_refresh_token is not updated.
SaveRotated(m) ==
    /\ mpc[m] = "saving"
    /\ SaveRefreshToken(inHand[m])
    /\ CacheAccessToken(m)
    /\ UNCHANGED <<valid, flaky>>

\* 400 or 401: auth_rejected_error.
RefreshRejected(m) ==
    /\ mpc[m] = "refreshing"
    /\ inHand[m] \notin valid
    /\ inHand' = [inHand EXCEPT ![m] = NoToken]
    /\ failures' = [failures EXCEPT ![m] = 0]
    /\ Forget(m)
    /\ Goto(m, "login")
    /\ UNCHANGED <<storeVars, fresh, cpc, stopping, forced>>

\* Any other exception: no answer, a bad answer, or the row was not saved.
\* The provider may have rotated the token before the answer was lost.
PumpFails(m) ==
    /\ flaky
    /\ mpc[m] \in {"refreshing", "saving"}
    /\ \/ UNCHANGED valid
       \/ mpc[m] = "refreshing" /\ valid' = valid \ {inHand[m]}
    /\ failures' = [failures EXCEPT ![m] = @ + 1]
    /\ inHand' = [inHand EXCEPT ![m] = NoToken]
    /\ Goto(m, "idle")
    /\ rowUnchanged
    /\ UNCHANGED <<flaky, cached, cachedRefresh, fresh, cpc, stopping, forced>>

\* _request_login_notification returns: the answer, an error or the deadline.
LoginRequested(m) ==
    /\ mpc[m] = "login"
    /\ Goto(m, "idle")
    /\ UNCHANGED <<storeVars, cached, cachedRefresh, fresh, failures, inHand, cpc, stopping, forced>>

\* The time of _cache_expiration passes.  A job waits five minutes for a token
\* that lives for twenty, and is then gone.
Expire(m) ==
    /\ fresh[m] /\ m \notin Jobs
    /\ fresh' = [fresh EXCEPT ![m] = FALSE]
    /\ UNCHANGED <<storeVars, mpc, cached, cachedRefresh, failures, inHand, cpc, stopping, forced>>

-----------------------------------------------------------------------------
(* get_bearer_token.                                                       *)

\* get_bearer_token returns or throws; a job does not call it again.
Back(c) == IF c \in JobCallers THEN "done" ELSE "out"

\* check_cache, then the predicate of wait_for: the caller returns at once
\* with a token that is not expired, or blocks.
GetBearerToken(c) ==
    LET m == Home[c] IN
    /\ cpc[c] = "out" /\ Alive(m)
    /\ IF c \in Forcing
       THEN Forget(m) /\ forced' = [forced EXCEPT ![m] = fresh[m]]
       ELSE /\ cached' = [cached EXCEPT ![m] = @ /\ fresh[m]]
            /\ UNCHANGED <<cachedRefresh, forced>>
    /\ cpc' = [cpc EXCEPT ![c] = IF cached'[m] THEN Back(c) ELSE "asleep"]
    /\ UNCHANGED <<storeVars, mpc, fresh, failures, inHand, stopping>>

\* A notified caller gets the mutex back; another may have cleared the token.
CallerWakes(c) ==
    /\ cpc[c] = "awake"
    /\ cpc' = [cpc EXCEPT ![c] = IF cached[Home[c]] THEN Back(c) ELSE "asleep"]
    /\ UNCHANGED <<storeVars, pumpVars, stopping, forced>>

\* The deadline passes: get_bearer_token returns what is cached or throws.
CallerTimesOut(c) ==
    /\ cpc[c] \in {"asleep", "awake"}
    /\ cpc' = [cpc EXCEPT ![c] = Back(c)]
    /\ UNCHANGED <<storeVars, pumpVars, stopping, forced>>

-----------------------------------------------------------------------------
(* The life of a process.                                                  *)

\* A process starts and constructs its token_manager, which starts the pump.
\* A job of the deployment runs once: none is started once the world is calm.
StartProcess(m) ==
    /\ ~Alive(m)
    /\ m \in Jobs => flaky /\ \E c \in Callers : Home[c] = m /\ cpc[c] = "out"
    /\ Goto(m, "idle")
    /\ UNCHANGED <<storeVars, cached, cachedRefresh, fresh, failures, inHand, cpc, stopping, forced>>

\* A process is gone, with all it had in memory.
EndProcess(m, place) ==
    /\ Goto(m, place)
    /\ cached' = [cached EXCEPT ![m] = FALSE]
    /\ cachedRefresh' = [cachedRefresh EXCEPT ![m] = NoToken]
    /\ fresh' = [fresh EXCEPT ![m] = FALSE]
    /\ failures' = [failures EXCEPT ![m] = 0]
    /\ inHand' = [inHand EXCEPT ![m] = NoToken]
    /\ cpc' = [c \in Callers |->
                 IF Home[c] = m /\ cpc[c] # "absent" THEN "out" ELSE cpc[c]]
    /\ stopping' = [stopping EXCEPT ![m] = FALSE]
    /\ forced' = [forced EXCEPT ![m] = FALSE]

\* A process is killed, wherever it is.
Killed(m) ==
    /\ flaky
    /\ Alive(m)
    /\ EndProcess(m, "dead")
    /\ UNCHANGED storeVars

\* A job's get_bearer_token is over and ~implementation begins.  The pump may
\* be past its test of the flag.
Destroy(m) ==
    /\ m \in Jobs /\ Alive(m) /\ ~stopping[m]
    /\ \A c \in Callers : Home[c] = m => cpc[c] = "done"
    /\ stopping' = [stopping EXCEPT ![m] = TRUE]
    /\ \/ mpc[m] = "idle" /\ ~fresh[m] /\ Goto(m, "due")
       \/ UNCHANGED mpc
    /\ UNCHANGED <<storeVars, cached, cachedRefresh, fresh, failures, inHand, cpc, forced>>

\* The jthread is joined when the pump's loop has ended; then the job exits.
Detached(m) == Alive(m)
Joined(m) == mpc[m] = "idle"
PumpExits(m) ==
    /\ LoopEnds(m)
    /\ Joined(m)
    /\ EndProcess(m, "off")
    /\ UNCHANGED storeVars

\* The pump touches a member that is destroyed, and the job crashes: at the
\* start of _pump, in check_cache, or when it caches the answer, which is
\* after a rotated token was saved.
TouchesDestroyed(m) ==
    /\ stopping[m]
    /\ \/ mpc[m] \in {"due", "refreshing"} /\ rowUnchanged
       \/ mpc[m] = "saving" /\ SaveRefreshToken(inHand[m])
    /\ EndProcess(m, "off")
    /\ UNCHANGED <<valid, flaky>>

-----------------------------------------------------------------------------

PumpStep(m, known) ==
    \/ PumpRefresh(m)
    \/ PumpGivesUp(m)
    \/ RefreshKeepsToken(m)
    \/ RefreshRotates(m, known)
    \/ SaveRotated(m)
    \/ RefreshRejected(m)
    \/ PumpFails(m)
    \/ PumpExits(m)
    \/ TouchesDestroyed(m)

CallerStep(c) == GetBearerToken(c) \/ CallerWakes(c) \/ CallerTimesOut(c)

-----------------------------------------------------------------------------
(* The managers by themselves: the OAuth server is a user who may log in   *)
(* at any time, in a calm world only when the stored token is no good.     *)

UserLogsIn ==
    /\ Logins
    /\ flaky \/ refresh \notin valid
    /\ CanIssue(Known)
    /\ IssueAtLogin(Known)
    /\ SaveRefreshToken(NewToken(Known))
    /\ UNCHANGED <<flaky, managerVars>>

Init == StoreInit /\ ManagerInit

Next ==
    \/ \E m \in Managers :
         \/ PumpStep(m, Known)
         \/ LoginRequested(m)
         \/ Expire(m)
         \/ StartProcess(m)
         \/ Destroy(m)
         \/ Killed(m)
    \/ \E c \in Callers : CallerStep(c)
    \/ \E t \in Tokens : Revoke(t) /\ UNCHANGED managerVars
    \/ CalmDown /\ UNCHANGED managerVars
    \/ UserLogsIn

vars == <<storeVars, managerVars>>

Spec == Init /\ [][Next]_vars

\* The pump thread runs until its job destroys it, the cache expires, a
\* notified caller runs (the cache lives for minutes, so not always too late),
\* services are restarted, a job calls get_bearer_token, waits no longer than
\* its deadline and destroys its manager, and the user logs in again when the
\* stored token is no good.  Nothing makes another caller call, or give up,
\* or calms the world down.
FairSpec ==
    /\ Spec
    /\ \A m \in Managers : WF_vars(PumpStep(m, Known)) /\ WF_vars(LoginRequested(m))
    /\ \A m \in Managers \ Jobs : WF_vars(StartProcess(m)) /\ WF_vars(Expire(m))
    /\ \A m \in Jobs : WF_vars(Destroy(m))
    /\ \A c \in JobCallers : WF_vars(GetBearerToken(c)) /\ WF_vars(CallerTimesOut(c))
    /\ \A c \in Callers \ JobCallers : SF_vars(cached[Home[c]] /\ CallerWakes(c))
    /\ WF_vars(refresh \notin valid /\ UserLogsIn)

-----------------------------------------------------------------------------
(* Properties.                                                             *)

\* A caller sleeps in wait_for only while there is no token, and the pump is
\* due unless a forced refresh emptied a cache that has yet to expire: the
\* wakeup a caller waits for is neither lost nor, otherwise, a whole cache
\* lifetime away.
SleeperHasAPump ==
    \A c \in Callers : cpc[c] = "asleep" =>
        LET m == Home[c] IN Alive(m) /\ ~cached[m] /\ (fresh[m] => forced[m])

\* Once calls succeed again and tokens stop being revoked, each service has an
\* access token again and again, whatever was cached, lost or overwritten and
\* whatever processes were killed, by itself or by a job that runs beside it.
Recovers == \A m \in Managers \ Jobs : <>[]~flaky => []<>cached[m]

\* Once calls succeed again a service's caller does not sleep for ever, even if
\* its deadline never comes and other threads of the service keep clearing the
\* token it waits for.
CallersServed ==
    \A c \in Callers \ JobCallers : <>[]~flaky => []<>(cpc[c] \notin {"asleep", "awake"})

\* A token the provider has rotated leaves the pump's hands only for the row
\* or with a failure that is counted, although a job may destroy its manager
\* and exit meanwhile; only a killed process loses it.
RotatedTokenKept ==
    [][\A m \in Managers : mpc[m] = "saving" /\ mpc'[m] # "saving" =>
         refresh' = inHand[m] \/ failures'[m] > failures[m] \/ mpc'[m] = "dead"]_vars

\* A job that destroys its manager ends, wherever the pump was: none is being
\* destroyed for ever, and only the end of the process ends that.
JobEnds == \A m \in Jobs : []<>~stopping[m]

=============================================================================
