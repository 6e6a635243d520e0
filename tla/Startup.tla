------------------------------ MODULE Startup ------------------------------
(***************************************************************************)
(* A deployment from its containers to its running applications: the       *)
(* secret store, which is waited for with a back-off (bao_client), the     *)
(* services an application builds on first use (services/registry), its    *)
(* connections, the schema upgrade it depends on (SchemaUpgrade), and the  *)
(* account it trades in (SchwabAccounts).  The applications are executors; *)
(* the other services start the same way and need no account.              *)
(*                                                                         *)
(* An upgrader's own start-up is the same as an application's and changes  *)
(* nothing, so it is one step, into the upgrade or to the end.             *)
(* Time passes only in the sleeps between two looks at the store.          *)
(***************************************************************************)
EXTENDS SchemaUpgrade, SchwabAccounts

CONSTANTS
    FirstDelay,  \* the first delay of wait_for_ready
    MaxDelay,    \* MAX_DELAY
    Timeout      \* --bao_startup_timeout

ASSUME StartupAssumption ==
    /\ {FirstDelay, MaxDelay} \subseteq Nat \ {0}
    /\ FirstDelay <= MaxDelay
    /\ Timeout \in Nat

VARIABLES
    bao,     \* the secret store: down, healthy but empty, or with its secrets
    filled,  \* bao_init has completed
    waited,  \* now - start_time of an application in wait_for_ready
    delay,   \* its next delay
    open,    \* the accounts that are open
    numbers, \* the first answer to get_accounts
    account  \* the account an application trades in

storeVars == <<bao, filled>>
baoVars == <<storeVars, waited, delay>>
accountVars == <<open, numbers, account>>
startupVars == <<vars, baoVars, accountVars>>

NoAccount == [number |-> "none", cash |-> 0]

\* The store keeps what it holds in memory (server -dev).
StoreStates == {"down", "empty", "ready"}

-----------------------------------------------------------------------------
(* The secret store.                                                       *)

BaoStarts ==
    /\ bao = "down"
    /\ bao' = "empty"
    /\ UNCHANGED <<vars, filled, waited, delay, accountVars>>

\* bao_init writes the secrets, once by itself and again if the operator runs
\* it.
BaoInit ==
    /\ bao = "empty"
    /\ bao' = "ready"
    /\ filled' = TRUE
    /\ UNCHANGED <<vars, waited, delay, accountVars>>

\* The store's container dies with its memory and is restarted, but bao_init,
\* which has completed, is not; at work, it completes all the same (|| true).
BaoDies ==
    /\ bao # "down" /\ deaths < MaxDeaths
    /\ bao' = "down"
    /\ filled' \in {filled, TRUE}
    /\ deaths' = deaths + 1
    /\ UNCHANGED <<schemaVars, pc, waited, delay, accountVars>>

-----------------------------------------------------------------------------
(* The start of an application.                                            *)

\* A container is started once a schema upgrade has completed, and again when
\* its process failed.  The first get_service builds the bao_client.
StartApp(a) ==
    /\ pc[a] \in {"idle", "failed"}
    /\ dialect = "postgres" => \E u \in Upgraders : pc[u] = "done"
    /\ Goto(a, "waiting")
    /\ waited' = [waited EXCEPT ![a] = 0]
    /\ delay' = [delay EXCEPT ![a] = FirstDelay]
    /\ Unchanged /\ UNCHANGED <<script, storeVars, accountVars>>

\* BACKOFF_EXP is 1.2.
GrownDelay(d) == (6 * d) \div 5
NextDelay(d) == IF GrownDelay(d) < MaxDelay THEN GrownDelay(d) ELSE MaxDelay

\* A look at /v1/sys/health, which an empty store answers as well.
Healthy == bao # "down"

StopsWaiting(a, label) ==
    /\ pc[a] = "waiting"
    /\ Goto(a, label)
    /\ waited' = [waited EXCEPT ![a] = 0]
    /\ delay' = [delay EXCEPT ![a] = FirstDelay]
    /\ Unchanged /\ UNCHANGED <<script, storeVars, accountVars>>

FindsStore(a) == Healthy /\ StopsWaiting(a, "secrets")

\* The deadline is looked at only after the store.
SleepWouldPassIt(a) == waited[a] + delay[a] >= Timeout
TimedOut(a) == waited[a] >= Timeout

\* The exception leaves the factory: no bao_client is cached, the process ends.
GivesUp(a) == ~Healthy /\ TimedOut(a) /\ StopsWaiting(a, "failed")

Sleeps(a) ==
    /\ pc[a] = "waiting" /\ ~Healthy /\ ~TimedOut(a)
    /\ waited' = [waited EXCEPT ![a] = @ + delay[a]]
    /\ delay' = [delay EXCEPT ![a] = NextDelay(@)]
    /\ UNCHANGED <<vars, storeVars, accountVars>>

\* get_secret throws unless the store answers with the secret; then the
\* service that needs it is not built, and the process ends.
HasSecrets == bao = "ready"

GoesOn(a, from, to, condition) ==
    /\ pc[a] = from
    /\ Goto(a, IF condition THEN to ELSE "failed")
    /\ Unchanged /\ UNCHANGED <<script, baoVars, accountVars>>

\* The provider's API key; an application asks for it before its database.
GetSecrets(a) == GoesOn(a, "secrets", "credentials", HasSecrets)

\* The user and password of a Postgres database, which is then connected to.
GetCredentials(a) ==
    GoesOn(a, "credentials", "exists", dialect = "postgres" => HasSecrets)

\* The server's certificate, or the authority's for its clients.
Certifies == bao = "ready"
GetCertificate(a) == GoesOn(a, "certificate", "numbers", Certifies)

-----------------------------------------------------------------------------
(* The executor's account.                                                 *)

\* The first request of get_accounts.
GetNumbers(a) ==
    /\ pc[a] = "numbers"
    /\ numbers' \in {[numbers EXCEPT ![a] = l] : l \in Listings(open)}
    /\ Goto(a, "details")
    /\ Unchanged /\ UNCHANGED <<script, baoVars, open, account>>

\* The second, and get_account; a mismatch or an unknown name throws.
GetAccount(a) ==
    /\ pc[a] = "details"
    /\ \E details \in Details(open) :
         LET accounts == Joined(numbers[a], details)
             found == Matches(numbers[a], details) /\ Named(accounts) # {} IN
         /\ Goto(a, IF found THEN "positions" ELSE "failed")
         /\ account' = [account EXCEPT ![a] = IF found THEN accounts[First(Named(accounts))] ELSE NoAccount]
    /\ numbers' = [numbers EXCEPT ![a] = << >>]
    /\ Unchanged /\ UNCHANGED <<script, baoVars, open>>

\* The positions are loaded and the threads are started.
LoadPositions(a) == GoesOn(a, "positions", "running", TRUE)

\* An account is opened or closed.
ChangeAccounts(n) ==
    /\ deaths < MaxDeaths
    /\ deaths' = deaths + 1
    /\ open' = IF n \in open THEN open \ {n} ELSE open \cup {n}
    /\ UNCHANGED <<schemaVars, pc, baoVars, numbers, account>>

-----------------------------------------------------------------------------
(* The deployment.                                                         *)

\* The pool of a running application opens another connection, with the check
\* of the first one; when it fails, the thread that wanted it ends the process.
PoolCannotGrow(a) == ~Accepts /\ GoesOn(a, "running", "running", FALSE)

\* The next release upgrades the schema under the applications of this one.
LaterRelease ==
    /\ rows = <<Latest>>
    /\ rows' = <<Latest + 1>>
    /\ UNCHANGED <<dialect, objects, names, granted, script, pc, deaths, baoVars, accountVars>>

\* An upgrader starts once bao_init has completed, and again if the operator
\* runs it: it is not restarted.  Without secrets it fails.
BringUp(u) == bao = "ready" /\ StartUpgrade(u) /\ UNCHANGED <<baoVars, accountVars>>
FailsToStart(u) ==
    /\ filled /\ ~HasSecrets
    /\ GoesOn(u, "idle", "idle", FALSE)

-----------------------------------------------------------------------------

\* At first the accounts of the name are open; others may follow.
Init ==
    /\ SchemaInit
    /\ bao = "down"
    /\ filled = FALSE
    /\ waited = [a \in Apps |-> 0]
    /\ delay = [a \in Apps |-> FirstDelay]
    /\ open = {n \in Numbers : Name[n] = Flag}
    /\ numbers = [a \in Apps |-> << >>]
    /\ account = [a \in Apps |-> NoAccount]

AppStep(a) ==
    \/ FindsStore(a)
    \/ GivesUp(a)
    \/ Sleeps(a)
    \/ GetSecrets(a)
    \/ GetCredentials(a)
    \/ GetCertificate(a)
    \/ ConnectStep(a) /\ UNCHANGED <<baoVars, accountVars>>
    \/ GetNumbers(a)
    \/ GetAccount(a)
    \/ LoadPositions(a)

Next ==
    \/ \E u \in Upgraders : BringUp(u) \/ FailsToStart(u) \/ (UpgraderStep(u) /\ UNCHANGED <<baoVars, accountVars>>)
    \/ \E a \in Apps : StartApp(a) \/ AppStep(a) \/ PoolCannotGrow(a)
    \/ \E p \in Upgraders \cup Apps : Dies(p) /\ UNCHANGED <<baoVars, accountVars>>
    \/ BaoStarts \/ BaoInit \/ BaoDies
    \/ LaterRelease
    \/ \E n \in Numbers : ChangeAccounts(n)

Spec == Init /\ [][Next]_startupVars

\* A process that runs goes on, and the store and the applications are started
\* again when they ended (restart: unless-stopped).  bao_init and the upgraders
\* (restart: no) are started once; nothing makes the operator run them again.
FairSpec ==
    /\ Spec
    /\ WF_startupVars(BaoStarts) /\ WF_startupVars(~filled /\ BaoInit)
    /\ \A u \in Upgraders :
         /\ WF_startupVars(UpgraderStep(u) /\ UNCHANGED <<baoVars, accountVars>>)
         /\ WF_startupVars(pc[u] = "idle" /\ (BringUp(u) \/ FailsToStart(u)))
    /\ \A a \in Apps : WF_startupVars(AppStep(a)) /\ SF_startupVars(StartApp(a))

-----------------------------------------------------------------------------
(* Properties.                                                             *)

\* Every variable of this module has its type.
StartupTypeOK ==
    /\ bao \in StoreStates /\ filled \in BOOLEAN
    /\ waited \in [Apps -> 0..Timeout + MaxDelay]
    /\ delay \in [Apps -> FirstDelay..MaxDelay]
    /\ open \subseteq Numbers
    /\ numbers \in [Apps -> UNION {[1..n -> Numbers] : n \in 0..Cardinality(Numbers)}]
    /\ account \in [Apps -> [number : Numbers, cash : Nat] \cup {NoAccount}]

\* An application that runs finds the whole schema, and with Postgres also the
\* enums' names and the privileges on every object, whatever upgraders did
\* between its queries and whenever the next release came.
AppFindsEverything ==
    /\ StartupTypeOK
    /\ \A a \in Apps : pc[a] = "running" =>
         /\ objects = AllObjects
         /\ dialect = "postgres" => names = EnumTables /\ granted = AllObjects

\* The version never goes back, although upgraders that read different
\* versions run their scripts side by side, and beside the next release:
\* creating statements exclude them.
VersionMonotone ==
    [][\A i \in DOMAIN rows : i \in DOMAIN rows' /\ rows'[i] >= rows[i]]_startupVars

\* An application that waits for the secret store gives up only when it looked
\* at or after the deadline and found it down, and less than MAX_DELAY late,
\* however the sleeps fall.
WaitIsPatient ==
    [][\A a \in Apps : pc[a] = "waiting" /\ pc'[a] = "failed" /\ deaths' = deaths =>
         ~Healthy /\ waited[a] \in Timeout..Timeout + MaxDelay - 1]_startupVars

\* An executor trades in an account of its flag's name, and believes it has the
\* cash of that account, although the two answers list accounts in different
\* orders and accounts open and close between them.
AccountIsItsOwn ==
    \A a \in Apps : pc[a] = "running" =>
        Name[account[a].number] = Flag /\ account[a].cash = Balance[account[a].number]

\* Something died, and of what is not started again by itself the store's
\* secrets are gone or no upgrader got through.
NeedsOperator ==
    /\ deaths > 0
    /\ (filled /\ bao # "ready") \/ \A u \in Upgraders : pc[u] = "failed"

\* Again and again every application runs: whatever died, the deployment comes
\* back by itself, and if nothing died comes up at all, unless and until it
\* takes the operator to run bao_init or schema_upgrade again; after that it
\* comes up by itself once more.  Only a torn update file, a later release and
\* the loss of the account are not mended so.
DeploymentComesUp ==
    []<>(\/ \A a \in Apps : pc[a] = "running"
         \/ NeedsOperator
         \/ Torn
         \/ rows = <<Latest + 1>>
         \/ Flag \notin {Name[n] : n \in open})

=============================================================================
