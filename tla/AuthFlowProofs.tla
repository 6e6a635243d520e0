--------------------------- MODULE AuthFlowProofs ---------------------------
(***************************************************************************)
(* Theorems about the authentication flow: of the managers by themselves,  *)
(* with any callers, forced refreshes, jobs and deaths, and of the whole   *)
(* flow, with any number of pumps and RequestLogin handlers.               *)
(***************************************************************************)
EXTENDS AuthFlow, TLAPS

-----------------------------------------------------------------------------
(* The row and the provider.                                               *)

\* The provider issues a token nobody remembers.
LEMMA NewTokenIs ==
    ASSUME NEW known, CanIssue(known)
    PROVE  NewToken(known) \in Tokens /\ NewToken(known) \notin known
<1>1. \E t \in Tokens : t \notin known
  BY DEF CanIssue
<1>2. QED
  BY <1>1 DEF NewToken

\* It honours refresh tokens and nothing else.
LEMMA IssueKeepsTypes ==
    ASSUME NEW known, NEW gone, CanIssue(known), valid \in SUBSET Tokens, Issue(known, gone)
    PROVE  valid' \in SUBSET Tokens
BY NewTokenIs DEF Issue

\* The row's columns have their types from the start.
LEMMA StoreStarts == ASSUME StoreInit PROVE StoreTypeOK
<1>1. refresh \in Tokens \cup {NoToken} /\ valid \in SUBSET Tokens
  <2>1. CASE refresh = NoToken /\ valid = {}
    BY <2>1
  <2>2. CASE CanIssue({}) /\ refresh = NewToken({}) /\ valid \in SUBSET {refresh}
    <3>1. refresh \in Tokens
      BY <2>2, NewTokenIs
    <3>2. QED
      BY <2>2, <3>1
  <2>3. QED
    BY <2>1, <2>2 DEF StoreInit
<1>2. age \in 0..Never
  BY StoreAssumption DEF StoreInit, Never
<1>3. QED
  BY <1>1, <1>2 DEF StoreInit, StoreTypeOK

-----------------------------------------------------------------------------
(* The managers.                                                           *)

\* A pump refreshes only what is past its expiry, with a token in its hands,
\* and only until it has failed too often; a cache that is empty before its
\* time was emptied by force.
PumpOK(m) ==
    /\ mpc[m] \in {"due", "refreshing", "saving"} => ~fresh[m]
    /\ mpc[m] \in {"refreshing", "saving"} => inHand[m] \in Tokens /\ failures[m] <= MaxFailures
    /\ fresh[m] /\ ~cached[m] => forced[m]

\* Who waits, waits in a process that runs, and for a token that is missing.
CallerOK(c) ==
    /\ cpc[c] \in {"asleep", "awake"} => Alive(Home[c])
    /\ cpc[c] = "asleep" => ~cached[Home[c]]

\* The inductive invariant of the managers.
ManagerInv ==
    /\ StoreTypeOK
    /\ ManagerTypeOK
    /\ \A m \in Managers : PumpOK(m)
    /\ \A c \in Callers : CallerOK(c)

\* It says what is checked of sleeping callers.
LEMMA SleepersArePumped == ASSUME ManagerInv PROVE SleeperHasAPump
<1>1. ASSUME NEW c \in Callers, cpc[c] = "asleep"
      PROVE  Alive(Home[c]) /\ ~cached[Home[c]] /\ (fresh[Home[c]] => forced[Home[c]])
  <2>1. Home[c] \in Managers
    BY ManagerAssumption
  <2>2. QED
    BY <2>1, <1>1 DEF ManagerInv, PumpOK, CallerOK
<1>2. QED
  BY <1>1 DEF SleeperHasAPump

\* Every process starts with nothing in memory.
LEMMA ManagersStart == ASSUME StoreInit, ManagerInit PROVE ManagerInv
<1>1. ManagerTypeOK
  <2>1. cpc \in [Callers -> CallerPlaces]
    BY DEF ManagerInit, CallerPlaces
  <2>2. QED
    BY <2>1, ManagerAssumption DEF ManagerInit, ManagerTypeOK
<1>2. (\A m \in Managers : PumpOK(m)) /\ (\A c \in Callers : CallerOK(c))
  BY DEF ManagerInit, PumpOK, CallerOK
<1>3. QED
  BY <1>1, <1>2, StoreStarts DEF ManagerInv

\* Whatever happens to the row leaves the managers' memory alone.
LEMMA RowChanges ==
    ASSUME ManagerInv, StoreTypeOK', UNCHANGED managerVars
    PROVE  ManagerInv'
BY DEF ManagerInv, ManagerTypeOK, PumpOK, CallerOK, Alive, managerVars, pumpVars

\* The pump takes a token in hand, past the expiry and below the failure limit.
LEMMA PumpRefreshKeeps ==
    ASSUME ManagerInv, NEW m \in Managers, PumpRefresh(m)
    PROVE  ManagerInv'
<1>1. PICK t \in Tokens :
        /\ cachedRefresh' = [cachedRefresh EXCEPT ![m] = t]
        /\ inHand' = [inHand EXCEPT ![m] = t]
  BY DEF PumpRefresh
<1>2. StoreTypeOK'
  BY DEF ManagerInv, StoreTypeOK, PumpRefresh, storeVars, Never
<1>3. ManagerTypeOK'
  BY <1>1 DEF ManagerInv, ManagerTypeOK, PumpRefresh, Goto
<1>4. failures[m] <= MaxFailures
  BY ManagerAssumption DEF PumpRefresh, GivesUp, ManagerInv, ManagerTypeOK
<1>5. \A k \in Managers : PumpOK(k)'
  BY <1>1, <1>4 DEF ManagerInv, ManagerTypeOK, PumpOK, PumpRefresh, Goto, Pumps
<1>6. \A c \in Callers : CallerOK(c)'
  BY DEF ManagerInv, ManagerTypeOK, CallerOK, Alive, PumpRefresh, Goto, Pumps
<1>7. QED
  BY <1>2, <1>3, <1>5, <1>6 DEF ManagerInv

\* Giving up, the pump forgets its tokens; the cache was past its expiry.
LEMMA PumpGivesUpKeeps ==
    ASSUME ManagerInv, NEW m \in Managers, PumpGivesUp(m)
    PROVE  ManagerInv'
<1>1. StoreTypeOK'
  BY DEF ManagerInv, StoreTypeOK, PumpGivesUp, storeVars, Never
<1>2. ManagerTypeOK'
  BY ManagerAssumption DEF ManagerInv, ManagerTypeOK, PumpGivesUp, Goto, Forget
<1>3. \A k \in Managers : PumpOK(k)'
  BY DEF ManagerInv, ManagerTypeOK, PumpOK, PumpGivesUp, Goto, Forget, Pumps
<1>4. \A c \in Callers : CallerOK(c)'
  BY DEF ManagerInv, ManagerTypeOK, CallerOK, Alive, PumpGivesUp, Goto, Forget, Pumps
<1>5. QED
  BY <1>1, <1>2, <1>3, <1>4 DEF ManagerInv

\* A new access token is fresh and cached, and nobody is left asleep beside it.
LEMMA CacheKeeps ==
    ASSUME ManagerInv, NEW m \in Managers, mpc[m] \in {"refreshing", "saving"},
           CacheAccessToken(m), StoreTypeOK'
    PROVE  ManagerInv'
<1>1. ManagerTypeOK'
  <2>1. cpc' \in [Callers -> CallerPlaces]
    BY DEF ManagerInv, ManagerTypeOK, CallerPlaces, CacheAccessToken, NotifyCallers
  <2>2. QED
    BY <2>1, ManagerAssumption DEF ManagerInv, ManagerTypeOK, CacheAccessToken, Goto
<1>2. \A k \in Managers : PumpOK(k)'
  BY DEF ManagerInv, ManagerTypeOK, PumpOK, CacheAccessToken, Goto
<1>3. \A c \in Callers : CallerOK(c)'
  BY ManagerAssumption DEF ManagerInv, ManagerTypeOK, CallerOK, Alive, CacheAccessToken, Goto, NotifyCallers
<1>4. QED
  BY <1>1, <1>2, <1>3 DEF ManagerInv

\* A rotated token is in the pump's hands until it is saved.
LEMMA RefreshRotatesKeeps ==
    ASSUME ManagerInv, NEW m \in Managers, NEW known, RefreshRotates(m, known)
    PROVE  ManagerInv'
<1>1. NewToken(known) \in Tokens
  BY NewTokenIs DEF RefreshRotates
<1>2. StoreTypeOK'
  BY IssueKeepsTypes DEF ManagerInv, StoreTypeOK, RefreshRotates, rowUnchanged, Never
<1>3. ManagerTypeOK'
  BY <1>1 DEF ManagerInv, ManagerTypeOK, RefreshRotates, Goto
<1>4. \A k \in Managers : PumpOK(k)'
  BY <1>1 DEF ManagerInv, ManagerTypeOK, PumpOK, RefreshRotates, Goto
<1>5. \A c \in Callers : CallerOK(c)'
  BY DEF ManagerInv, ManagerTypeOK, CallerOK, Alive, RefreshRotates, Goto
<1>6. QED
  BY <1>2, <1>3, <1>4, <1>5 DEF ManagerInv

\* A rejected refresh forgets the tokens; the cache was past its expiry.
LEMMA RefreshRejectedKeeps ==
    ASSUME ManagerInv, NEW m \in Managers, RefreshRejected(m)
    PROVE  ManagerInv'
<1>1. StoreTypeOK'
  BY DEF ManagerInv, StoreTypeOK, RefreshRejected, storeVars, Never
<1>2. ManagerTypeOK'
  BY ManagerAssumption DEF ManagerInv, ManagerTypeOK, RefreshRejected, Goto, Forget
<1>3. \A k \in Managers : PumpOK(k)'
  BY DEF ManagerInv, ManagerTypeOK, PumpOK, RefreshRejected, Goto, Forget
<1>4. \A c \in Callers : CallerOK(c)'
  BY DEF ManagerInv, ManagerTypeOK, CallerOK, Alive, RefreshRejected, Goto, Forget
<1>5. QED
  BY <1>1, <1>2, <1>3, <1>4 DEF ManagerInv

\* A failure is counted once, so the count stays at most one above the limit.
LEMMA PumpFailsKeeps ==
    ASSUME ManagerInv, NEW m \in Managers, PumpFails(m)
    PROVE  ManagerInv'
<1>1. StoreTypeOK'
  BY DEF ManagerInv, StoreTypeOK, PumpFails, rowUnchanged, Never
<1>2. failures[m] + 1 \in 0..MaxFailures + 1
  BY ManagerAssumption DEF ManagerInv, ManagerTypeOK, PumpOK, PumpFails
<1>3. ManagerTypeOK'
  BY <1>2 DEF ManagerInv, ManagerTypeOK, PumpFails, Goto
<1>4. \A k \in Managers : PumpOK(k)'
  BY DEF ManagerInv, ManagerTypeOK, PumpOK, PumpFails, Goto
<1>5. \A c \in Callers : CallerOK(c)'
  BY DEF ManagerInv, ManagerTypeOK, CallerOK, Alive, PumpFails, Goto
<1>6. QED
  BY <1>1, <1>3, <1>4, <1>5 DEF ManagerInv

\* A process that ends takes its callers with it.
LEMMA EndProcessKeeps ==
    ASSUME ManagerInv, NEW m \in Managers, NEW place \in {"off", "dead"},
           EndProcess(m, place), StoreTypeOK'
    PROVE  ManagerInv'
<1>1. ManagerTypeOK'
  <2>1. cpc' \in [Callers -> CallerPlaces]
    BY DEF ManagerInv, ManagerTypeOK, CallerPlaces, EndProcess
  <2>2. QED
    BY <2>1, ManagerAssumption DEF ManagerInv, ManagerTypeOK, EndProcess, Goto
<1>2. \A k \in Managers : PumpOK(k)'
  BY DEF ManagerInv, ManagerTypeOK, PumpOK, EndProcess, Goto
<1>3. \A c \in Callers : CallerOK(c)'
  BY ManagerAssumption DEF ManagerInv, ManagerTypeOK, CallerOK, Alive, EndProcess, Goto
<1>4. QED
  BY <1>1, <1>2, <1>3 DEF ManagerInv

\* Every step of a pump keeps the invariant, whatever token is issued.
LEMMA PumpStepKeeps ==
    ASSUME ManagerInv, NEW m \in Managers, NEW known, PumpStep(m, known)
    PROVE  ManagerInv'
<1>1. CASE PumpRefresh(m)
  BY <1>1, PumpRefreshKeeps
<1>2. CASE PumpGivesUp(m)
  BY <1>2, PumpGivesUpKeeps
<1>3. CASE RefreshKeepsToken(m)
  <2>1. StoreTypeOK'
    BY <1>3 DEF RefreshKeepsToken, ManagerInv, StoreTypeOK, storeVars, Never
  <2>2. QED
    BY <1>3, <2>1, CacheKeeps DEF RefreshKeepsToken
<1>4. CASE RefreshRotates(m, known)
  BY <1>4, RefreshRotatesKeeps
<1>5. CASE SaveRotated(m)
  <2>1. StoreTypeOK'
    BY <1>5 DEF SaveRotated, SaveRefreshToken, ManagerInv, ManagerTypeOK, StoreTypeOK, Never
  <2>2. QED
    BY <1>5, <2>1, CacheKeeps DEF SaveRotated
<1>6. CASE RefreshRejected(m)
  BY <1>6, RefreshRejectedKeeps
<1>7. CASE PumpFails(m)
  BY <1>7, PumpFailsKeeps
<1>8. CASE PumpExits(m)
  <2>1. StoreTypeOK'
    BY <1>8 DEF PumpExits, ManagerInv, StoreTypeOK, storeVars, Never
  <2>2. QED
    BY <1>8, <2>1, EndProcessKeeps DEF PumpExits
<1>9. CASE TouchesDestroyed(m)
  <2>1. StoreTypeOK'
    BY <1>9 DEF TouchesDestroyed, SaveRefreshToken, rowUnchanged, ManagerInv, ManagerTypeOK, StoreTypeOK, Never
  <2>2. QED
    BY <1>9, <2>1, EndProcessKeeps DEF TouchesDestroyed
<1>10. QED
  BY <1>1, <1>2, <1>3, <1>4, <1>5, <1>6, <1>7, <1>8, <1>9 DEF PumpStep

\* After the request for a login the pump is where it was before.
LEMMA LoginRequestedKeeps ==
    ASSUME ManagerInv, NEW m \in Managers, LoginRequested(m)
    PROVE  ManagerInv'
<1>1. StoreTypeOK'
  BY DEF ManagerInv, StoreTypeOK, LoginRequested, storeVars, Never
<1>2. ManagerTypeOK'
  BY DEF ManagerInv, ManagerTypeOK, LoginRequested, Goto
<1>3. \A k \in Managers : PumpOK(k)'
  BY DEF ManagerInv, ManagerTypeOK, PumpOK, LoginRequested, Goto
<1>4. \A c \in Callers : CallerOK(c)'
  BY DEF ManagerInv, ManagerTypeOK, CallerOK, Alive, LoginRequested, Goto
<1>5. QED
  BY <1>1, <1>2, <1>3, <1>4 DEF ManagerInv

\* The expiry passes.
LEMMA ExpireKeeps ==
    ASSUME ManagerInv, NEW m \in Managers, Expire(m)
    PROVE  ManagerInv'
<1>1. StoreTypeOK'
  BY DEF ManagerInv, StoreTypeOK, Expire, storeVars, Never
<1>2. ManagerTypeOK'
  BY DEF ManagerInv, ManagerTypeOK, Expire
<1>3. \A k \in Managers : PumpOK(k)'
  BY DEF ManagerInv, ManagerTypeOK, PumpOK, Expire
<1>4. \A c \in Callers : CallerOK(c)'
  BY DEF ManagerInv, ManagerTypeOK, CallerOK, Alive, Expire
<1>5. QED
  BY <1>1, <1>2, <1>3, <1>4 DEF ManagerInv

\* A caller that finds an expired token clears it, one that forces clears any,
\* and both sleep only when nothing is cached.
LEMMA CallerStepKeeps ==
    ASSUME ManagerInv, NEW c \in Callers, CallerStep(c)
    PROVE  ManagerInv'
<1> DEFINE m == Home[c]
<1>1. m \in Managers /\ Back(c) \in {"out", "done"}
  BY ManagerAssumption DEF Back
<1>2. StoreTypeOK'
  BY DEF ManagerInv, StoreTypeOK, CallerStep, GetBearerToken, CallerWakes, CallerTimesOut, storeVars, Never
<1>3. CASE GetBearerToken(c)
  <2>1. /\ cached' \in [Managers -> BOOLEAN] /\ forced' \in [Managers -> BOOLEAN]
        /\ cachedRefresh' \in [Managers -> Tokens \cup {NoToken}]
    <3>1. /\ cached \in [Managers -> BOOLEAN] /\ fresh \in [Managers -> BOOLEAN] /\ forced \in [Managers -> BOOLEAN]
          /\ cachedRefresh \in [Managers -> Tokens \cup {NoToken}]
      BY DEF ManagerInv, ManagerTypeOK
    <3>2. CASE c \in Forcing
      BY <3>1, <3>2, <1>1, <1>3 DEF GetBearerToken, Forget
    <3>3. CASE c \notin Forcing
      BY <3>1, <3>3, <1>1, <1>3 DEF GetBearerToken
    <3>4. QED
      BY <3>2, <3>3
  <2>2. cpc' \in [Callers -> CallerPlaces]
    BY <1>1, <1>3 DEF ManagerInv, ManagerTypeOK, CallerPlaces, GetBearerToken
  <2>3. ManagerTypeOK'
    BY <2>1, <2>2, <1>3 DEF ManagerInv, ManagerTypeOK, GetBearerToken
  <2>4. \A k \in Managers : PumpOK(k)'
    BY <1>1, <1>3 DEF ManagerInv, ManagerTypeOK, PumpOK, GetBearerToken, Forget
  <2>5. \A k \in Managers : cached'[k] => cached[k]
    BY <1>1, <1>3 DEF ManagerInv, ManagerTypeOK, GetBearerToken, Forget
  <2>6. \A d \in Callers : CallerOK(d)'
    <3>1. ASSUME NEW d \in Callers, d # c PROVE CallerOK(d)'
      <4>1. cpc'[d] = cpc[d] /\ mpc' = mpc /\ Home[d] \in Managers
        BY <3>1, <1>3, ManagerAssumption DEF ManagerInv, ManagerTypeOK, GetBearerToken
      <4>2. QED
        BY <4>1, <2>5 DEF ManagerInv, CallerOK, Alive
    <3>2. CallerOK(c)'
      <4>1. cpc'[c] = IF cached'[m] THEN Back(c) ELSE "asleep"
        BY <1>3 DEF ManagerInv, ManagerTypeOK, GetBearerToken
      <4>2. mpc' = mpc /\ Alive(m)
        BY <1>3 DEF GetBearerToken
      <4>3. QED
        BY <4>1, <4>2, <1>1 DEF CallerOK, Alive
    <3>3. QED
      BY <3>1, <3>2
  <2>7. QED
    BY <1>2, <2>3, <2>4, <2>6 DEF ManagerInv
<1>4. CASE CallerWakes(c) \/ CallerTimesOut(c)
  <2>1. ManagerTypeOK'
    BY <1>1, <1>4 DEF ManagerInv, ManagerTypeOK, CallerPlaces, CallerWakes, CallerTimesOut, pumpVars
  <2>2. \A k \in Managers : PumpOK(k)'
    BY <1>4 DEF ManagerInv, PumpOK, CallerWakes, CallerTimesOut, pumpVars
  <2>3. \A d \in Callers : CallerOK(d)'
    BY <1>1, <1>4 DEF ManagerInv, ManagerTypeOK, CallerOK, Alive, CallerWakes, CallerTimesOut, pumpVars
  <2>4. QED
    BY <1>2, <2>1, <2>2, <2>3 DEF ManagerInv
<1>5. QED
  BY <1>3, <1>4 DEF CallerStep

\* A process starts.
LEMMA StartProcessKeeps ==
    ASSUME ManagerInv, NEW m \in Managers, StartProcess(m)
    PROVE  ManagerInv'
<1>1. StoreTypeOK'
  BY DEF ManagerInv, StoreTypeOK, StartProcess, storeVars, Never
<1>2. ManagerTypeOK'
  BY DEF ManagerInv, ManagerTypeOK, StartProcess, Goto
<1>3. \A k \in Managers : PumpOK(k)'
  BY DEF ManagerInv, ManagerTypeOK, PumpOK, StartProcess, Goto
<1>4. \A c \in Callers : CallerOK(c)'
  BY DEF ManagerInv, ManagerTypeOK, CallerOK, Alive, StartProcess, Goto
<1>5. QED
  BY <1>1, <1>2, <1>3, <1>4 DEF ManagerInv

\* A job's manager begins to be destroyed; a pump past its test of the flag is due.
LEMMA DestroyKeeps ==
    ASSUME ManagerInv, NEW m \in Managers, Destroy(m)
    PROVE  ManagerInv'
<1>1. StoreTypeOK'
  BY DEF ManagerInv, StoreTypeOK, Destroy, storeVars, Never
<1>2. ManagerTypeOK'
  BY DEF ManagerInv, ManagerTypeOK, Destroy, Goto
<1>3. \A k \in Managers : PumpOK(k)'
  BY DEF ManagerInv, ManagerTypeOK, PumpOK, Destroy, Goto
<1>4. \A c \in Callers : CallerOK(c)'
  <2>1. \A k \in Managers : Alive(k) => Alive(k)'
    BY DEF ManagerInv, ManagerTypeOK, Alive, Destroy, Goto
  <2>2. UNCHANGED <<cpc, cached>>
    BY DEF Destroy
  <2>3. \A c \in Callers : Home[c] \in Managers
    BY ManagerAssumption
  <2>4. QED
    BY <2>1, <2>2, <2>3 DEF ManagerInv, CallerOK
<1>5. QED
  BY <1>1, <1>2, <1>3, <1>4 DEF ManagerInv

\* Revocations, the calm and logins change the row and what is honoured.
LEMMA WorldKeepsTypes ==
    ASSUME StoreTypeOK,
           \/ \E t \in Tokens : Revoke(t)
           \/ CalmDown
           \/ UserLogsIn
    PROVE  StoreTypeOK'
<1>1. CASE (\E t \in Tokens : Revoke(t)) \/ CalmDown
  BY <1>1 DEF StoreTypeOK, Revoke, CalmDown, rowUnchanged, Never
<1>2. CASE UserLogsIn
  <2>1. NewToken(Known) \in Tokens /\ valid' \in SUBSET Tokens
    BY <1>2, NewTokenIs, IssueKeepsTypes DEF UserLogsIn, IssueAtLogin, StoreTypeOK
  <2>2. QED
    BY <1>2, <2>1 DEF UserLogsIn, StoreTypeOK, SaveRefreshToken, Never
<1>3. QED
  BY <1>1, <1>2

\* Every step of the managers by themselves keeps the invariant.
LEMMA ManagerStepKeeps == ASSUME ManagerInv, Next PROVE ManagerInv'
<1>1. ASSUME NEW m \in Managers,
             \/ PumpStep(m, Known)
             \/ LoginRequested(m)
             \/ Expire(m)
             \/ StartProcess(m)
             \/ Destroy(m)
      PROVE  ManagerInv'
  BY <1>1, PumpStepKeeps, LoginRequestedKeeps, ExpireKeeps, StartProcessKeeps, DestroyKeeps
<1>2. ASSUME NEW m \in Managers, Killed(m) PROVE ManagerInv'
  <2>1. StoreTypeOK'
    BY <1>2 DEF Killed, ManagerInv, StoreTypeOK, storeVars, Never
  <2>2. QED
    BY <1>2, <2>1, EndProcessKeeps DEF Killed
<1>3. ASSUME NEW c \in Callers, CallerStep(c) PROVE ManagerInv'
  BY <1>3, CallerStepKeeps
<1>4. CASE (\E t \in Tokens : Revoke(t) /\ UNCHANGED managerVars) \/ (CalmDown /\ UNCHANGED managerVars) \/ UserLogsIn
  <2>1. StoreTypeOK'
    BY <1>4, WorldKeepsTypes DEF ManagerInv
  <2>2. UNCHANGED managerVars
    BY <1>4 DEF UserLogsIn
  <2>3. QED
    BY <2>1, <2>2, RowChanges
<1>5. QED
  BY <1>1, <1>2, <1>3, <1>4 DEF Next

\* The inductive invariant of the managers.
THEOREM ManagerInvariant == Spec => []ManagerInv
<1>1. Init => ManagerInv
  BY ManagersStart DEF Init
<1>2. ManagerInv /\ UNCHANGED vars => ManagerInv'
  BY RowChanges DEF vars, storeVars, ManagerInv, StoreTypeOK, Never
<1>3. ManagerInv /\ [Next]_vars => ManagerInv'
  BY <1>2, ManagerStepKeeps
<1>4. QED
  BY <1>1, <1>3, PTL DEF Spec

\* get_bearer_token never sleeps on a token that is there, or beside a pump
\* that has nothing to do, unless a forced refresh emptied the cache: for any
\* callers, forced refreshes, jobs that destroy their managers, and deaths.
THEOREM ManagerWakesItsSleepers == Spec => []SleeperHasAPump
<1>1. QED
  BY ManagerInvariant, SleepersArePumped, PTL

\* Only a failure that is counted, the row or a death takes a rotated token
\* out of a pump's hands.
LEMMA RotatedStep ==
    ASSUME ManagerInv, [Next]_vars, NEW m \in Managers, mpc[m] = "saving", mpc'[m] # "saving"
    PROVE  refresh' = inHand[m] \/ failures'[m] > failures[m] \/ mpc'[m] = "dead"
<1>1. /\ mpc \in [Managers -> {"idle", "due", "refreshing", "saving", "login", "off", "dead"}]
      /\ failures \in [Managers -> 0..MaxFailures + 1]
  BY DEF ManagerInv, ManagerTypeOK
<1>2. mpc' # mpc
  OBVIOUS
<1>3. Next
  BY <1>2 DEF vars, managerVars, pumpVars
<1>4. PICK k \in Managers :
        PumpStep(k, Known) \/ LoginRequested(k) \/ StartProcess(k) \/ Destroy(k) \/ Killed(k)
  BY <1>2, <1>3 DEF Next, Expire, CallerStep, GetBearerToken, CallerWakes, CallerTimesOut, pumpVars,
                    managerVars, UserLogsIn
<1>5. k = m
  BY <1>1, <1>4 DEF PumpStep, PumpRefresh, PumpGivesUp, RefreshKeepsToken, RefreshRotates, SaveRotated,
                    RefreshRejected, PumpFails, PumpExits, TouchesDestroyed, EndProcess, CacheAccessToken,
                    LoginRequested, StartProcess, Destroy, Killed, Goto
<1>6. SaveRotated(m) \/ PumpFails(m) \/ TouchesDestroyed(m) \/ Killed(m)
  BY <1>1, <1>4, <1>5 DEF PumpStep, PumpRefresh, PumpGivesUp, Pumps, RefreshKeepsToken, RefreshRotates,
                    RefreshRejected, PumpExits, Joined, LoginRequested, StartProcess, Alive, Destroy, Goto
<1>7. CASE SaveRotated(m)
  BY <1>7 DEF SaveRotated, SaveRefreshToken
<1>8. CASE PumpFails(m)
  <2>1. failures[m] \in Nat /\ failures'[m] = failures[m] + 1
    BY <1>1, <1>8, ManagerAssumption DEF PumpFails
  <2>2. QED
    BY <2>1
<1>9. CASE TouchesDestroyed(m)
  BY <1>9 DEF TouchesDestroyed, SaveRefreshToken
<1>10. CASE Killed(m)
  BY <1>1, <1>10 DEF Killed, EndProcess, Goto
<1>11. QED
  BY <1>6, <1>7, <1>8, <1>9, <1>10

\* A refresh token that the provider rotated is stored, or its loss counted,
\* whatever the job that destroys the manager does meanwhile.
THEOREM RotationReachesTheRow == Spec => RotatedTokenKept
<1> DEFINE Kept ==
      \A m \in Managers : mpc[m] = "saving" /\ mpc'[m] # "saving" =>
         refresh' = inHand[m] \/ failures'[m] > failures[m] \/ mpc'[m] = "dead"
<1>1. ManagerInv /\ [Next]_vars => [Kept]_vars
  BY RotatedStep
<1>2. QED
  BY <1>1, ManagerInvariant, PTL DEF Spec, RotatedTokenKept

-----------------------------------------------------------------------------
(* Login links.                                                            *)

\* A handler at work has a notice of its own: no other handler's, not the
\* stored one, not the one being served and none that was used.  Before it
\* is stored, it was sent.
DraftOK(h) ==
    IF gpc[h] = "idle" THEN drafted[h] = NoNotice
    ELSE /\ drafted[h] \in Notices
         /\ drafted[h] # notice /\ drafted[h] # opened /\ drafted[h] \notin spent
         /\ \A k \in Handlers : k # h => drafted[k] # drafted[h]
         /\ gpc[h] = "saving" => drafted[h] \in links

\* A stored notice was sent and is unused, and so is the link being served.
LinksOK ==
    /\ notice # NoNotice => notice \in links /\ notice \notin spent
    /\ hpc # "idle" => opened \notin spent
    /\ \A h \in Handlers : DraftOK(h)

\* What holds of links, with the types it needs.
LinkInv == StoreTypeOK /\ ServiceTypeOK /\ LinksOK

\* The inductive invariant of the flow.
FlowInv == ManagerInv /\ LinkInv

\* A pump may clear the notice, whatever the server is doing.
LEMMA PumpsKeepLinks ==
    ASSUME LinkInv, StoreTypeOK', notice' \in {notice, NoNotice}, UNCHANGED serviceVars
    PROVE  LinkInv'
<1>1. ServiceTypeOK'
  BY DEF LinkInv, ServiceTypeOK, serviceVars
<1>2. NoNotice \notin Notices
  BY StoreAssumption
<1>3. \A h \in Handlers : DraftOK(h)'
  BY <1>2 DEF LinkInv, LinksOK, DraftOK, serviceVars
<1>4. LinksOK'
  BY <1>3 DEF LinkInv, LinksOK, serviceVars
<1>5. QED
  BY <1>1, <1>4 DEF LinkInv

\* A notice is drafted that nothing else holds.
LEMMA RequestLoginKeeps ==
    ASSUME LinkInv, NEW h \in Handlers, RequestLogin(h)
    PROVE  LinkInv'
<1> DEFINE n == CHOOSE n \in Notices : n \notin UsedNotices
<1>1. n \in Notices /\ n \notin UsedNotices
  <2>1. \E k \in Notices : k \notin UsedNotices
    BY DEF RequestLogin
  <2>2. QED
    BY <2>1
<1>2. /\ gpc[h] = "idle"
      /\ drafted' = [drafted EXCEPT ![h] = n]
      /\ gpc' = [gpc EXCEPT ![h] = "sending"]
      /\ UNCHANGED <<refresh, notice, age, valid, flaky, hpc, opened, code, links, spent>>
  BY DEF RequestLogin, Draft, FirstStep, storeVars
<1> HIDE DEF n
<1>3. /\ n # notice /\ n # opened /\ n \notin links /\ n \notin spent
      /\ \A k \in Handlers : n # drafted[k]
  BY <1>1 DEF UsedNotices, LinkInv, ServiceTypeOK
<1>4. n # NoNotice
  BY <1>1, StoreAssumption
<1>5. /\ gpc \in [Handlers -> {"idle", "sending", "saving"}]
      /\ drafted \in [Handlers -> Notices \cup {NoNotice}]
  BY DEF LinkInv, ServiceTypeOK
<1>6. StoreTypeOK' /\ ServiceTypeOK'
  BY <1>1, <1>2 DEF LinkInv, StoreTypeOK, ServiceTypeOK, Never
<1>7. DraftOK(h)'
  BY <1>1, <1>2, <1>3, <1>5 DEF DraftOK
<1>8. ASSUME NEW k \in Handlers, k # h PROVE DraftOK(k)'
  <2>1. gpc'[k] = gpc[k] /\ drafted'[k] = drafted[k] /\ drafted'[h] = n
    BY <1>2, <1>5, <1>8
  <2>2. \A j \in Handlers : j # h => drafted'[j] = drafted[j]
    BY <1>2, <1>5
  <2>3. DraftOK(k)
    BY DEF LinkInv, LinksOK
  <2>4. QED
    BY <1>2, <1>3, <2>1, <2>2, <2>3 DEF DraftOK
<1>9. LinksOK'
  BY <1>2, <1>7, <1>8 DEF LinkInv, LinksOK
<1>10. QED
  BY <1>6, <1>9 DEF LinkInv

\* The link is out before its notice may be stored.
LEMMA NotificationSentKeeps ==
    ASSUME LinkInv, NEW h \in Handlers, NotificationSent(h)
    PROVE  LinkInv'
<1>1. /\ gpc \in [Handlers -> {"idle", "sending", "saving"}]
      /\ drafted \in [Handlers -> Notices \cup {NoNotice}]
      /\ \A k \in Handlers : DraftOK(k)
  BY DEF LinkInv, LinksOK, ServiceTypeOK
<1>2. /\ gpc[h] = "sending" /\ gpc' = [gpc EXCEPT ![h] = "saving"]
      /\ links' = links \cup {drafted[h]}
      /\ UNCHANGED <<refresh, notice, age, valid, flaky, drafted, hpc, opened, code, spent>>
  BY DEF NotificationSent, storeVars
<1>3. drafted[h] \in Notices
  BY <1>1, <1>2 DEF DraftOK
<1>4. StoreTypeOK' /\ ServiceTypeOK'
  BY <1>2, <1>3 DEF LinkInv, StoreTypeOK, ServiceTypeOK, Never
<1>5. \A k \in Handlers : DraftOK(k)'
  BY <1>1, <1>2 DEF DraftOK
<1>6. LinksOK'
  BY <1>2, <1>5 DEF LinkInv, LinksOK
<1>7. QED
  BY <1>4, <1>6 DEF LinkInv

\* A handler that is done holds no notice; the others keep theirs.
LEMMA HandlerDoneKeeps ==
    ASSUME LinkInv, NEW h \in Handlers, gpc[h] # "idle", HandlerDone(h), StoreTypeOK',
           \/ notice' = notice
           \/ notice' = drafted[h] /\ gpc[h] = "saving",
           UNCHANGED <<hpc, opened, code, links, spent>>
    PROVE  LinkInv'
<1>1. /\ gpc \in [Handlers -> {"idle", "sending", "saving"}]
      /\ drafted \in [Handlers -> Notices \cup {NoNotice}]
      /\ \A k \in Handlers : DraftOK(k)
  BY DEF LinkInv, LinksOK, ServiceTypeOK
<1>2. gpc' = [gpc EXCEPT ![h] = "idle"] /\ drafted' = [drafted EXCEPT ![h] = NoNotice]
  BY DEF HandlerDone
<1>3. ServiceTypeOK'
  BY <1>2 DEF LinkInv, ServiceTypeOK
<1>4. notice' # NoNotice => notice' \in links /\ notice' \notin spent
  BY <1>1 DEF LinkInv, LinksOK, DraftOK
<1>5. DraftOK(h)'
  BY <1>1, <1>2 DEF DraftOK
<1>6. ASSUME NEW k \in Handlers, k # h PROVE DraftOK(k)'
  <2>1. gpc'[k] = gpc[k] /\ drafted'[k] = drafted[k]
    BY <1>1, <1>2, <1>6
  <2>2. \A j \in Handlers : drafted'[j] = drafted[j] \/ drafted'[j] = NoNotice
    BY <1>1, <1>2
  <2>3. DraftOK(k) /\ NoNotice \notin Notices
    BY <1>1, StoreAssumption
  <2>4. drafted[k] \in Notices => drafted[k] # drafted[h] \/ gpc[k] = "idle"
    BY <2>3, <1>6 DEF DraftOK
  <2>5. QED
    BY <2>1, <2>2, <2>3, <2>4 DEF DraftOK
<1>7. LinksOK'
  BY <1>4, <1>5, <1>6 DEF LinkInv, LinksOK
<1>8. QED
  BY <1>3, <1>7 DEF LinkInv

\* The callback is for the stored notice, which is unused.
LEMMA CallbackKeeps ==
    ASSUME LinkInv, NEW n \in Notices, Callback(n)
    PROVE  LinkInv'
<1>1. /\ n = notice /\ n \in links /\ opened' = n /\ hpc' = "exchanging"
      /\ UNCHANGED <<refresh, notice, age, valid, flaky, gpc, drafted, code, links, spent>>
  BY DEF Callback, StateMatches, storeVars
<1>2. StoreTypeOK' /\ ServiceTypeOK'
  BY <1>1 DEF LinkInv, StoreTypeOK, ServiceTypeOK, Never
<1>3. n \notin spent
  BY <1>1, StoreAssumption DEF LinkInv, LinksOK
<1>4. \A h \in Handlers : DraftOK(h)'
  BY <1>1 DEF LinkInv, LinksOK, DraftOK
<1>5. LinksOK'
  BY <1>1, <1>3, <1>4 DEF LinkInv, LinksOK
<1>6. QED
  BY <1>2, <1>5 DEF LinkInv

\* The HTTP thread comes back; if the login was stored, its link is used.
LEMMA HttpDoneKeeps ==
    ASSUME LinkInv, hpc # "idle", HttpDone, StoreTypeOK', UNCHANGED <<gpc, drafted, links>>,
           \/ UNCHANGED <<notice, spent>>
           \/ notice' = NoNotice /\ spent' = spent \cup ({opened} \cap links)
    PROVE  LinkInv'
<1>1. hpc' = "idle" /\ opened' = NoNotice /\ code' = NoToken /\ NoNotice \notin Notices
  BY StoreAssumption DEF HttpDone
<1>2. ServiceTypeOK'
  BY <1>1 DEF LinkInv, ServiceTypeOK
<1>3. \A h \in Handlers : DraftOK(h)'
  BY <1>1 DEF LinkInv, LinksOK, DraftOK
<1>4. LinksOK'
  BY <1>1, <1>3 DEF LinkInv, LinksOK
<1>5. QED
  BY <1>2, <1>4 DEF LinkInv

\* Only messages whose link is out of use are deleted.
LEMMA DeleteLinkKeeps ==
    ASSUME LinkInv, NEW n \in Notices, DeleteLink(n)
    PROVE  LinkInv'
<1>1. /\ n # notice /\ n # opened /\ \A h \in Handlers : n # drafted[h]
      /\ links' = links \ {n} /\ spent' = spent \ {n}
      /\ UNCHANGED <<refresh, notice, age, valid, flaky, gpc, drafted, hpc, opened, code>>
  BY DEF DeleteLink, storeVars
<1>2. StoreTypeOK' /\ ServiceTypeOK'
  BY <1>1 DEF LinkInv, StoreTypeOK, ServiceTypeOK, Never
<1>3. \A h \in Handlers : DraftOK(h)'
  BY <1>1 DEF LinkInv, LinksOK, DraftOK
<1>4. LinksOK'
  BY <1>1, <1>3 DEF LinkInv, LinksOK
<1>5. QED
  BY <1>2, <1>4 DEF LinkInv

\* Every step of the server keeps the links in order.
LEMMA ServerKeepsLinks ==
    ASSUME LinkInv, ServerStep
    PROVE  LinkInv'
<1>1. ASSUME NEW h \in Handlers, NotificationSent(h) PROVE LinkInv'
  BY <1>1, NotificationSentKeeps
<1>2. ASSUME NEW h \in Handlers, NoticeSaved(h) PROVE LinkInv'
  <2>1. StoreTypeOK'
    <3>1. drafted[h] \in Notices \cup {NoNotice} /\ 0 \in 0..Never
      BY StoreAssumption DEF LinkInv, ServiceTypeOK, Never
    <3>2. QED
      BY <3>1, <1>2 DEF NoticeSaved, SaveNoticeToken, LinkInv, StoreTypeOK, Never
  <2>2. QED
    BY <1>2, <2>1, HandlerDoneKeeps DEF NoticeSaved, SaveNoticeToken
<1>3. ASSUME NEW h \in Handlers, RequestLoginFails(h) PROVE LinkInv'
  <2>1. StoreTypeOK' /\ notice' = notice
    BY <1>3 DEF RequestLoginFails, LinkInv, StoreTypeOK, storeVars, Never
  <2>2. QED
    BY <1>3, <2>1, HandlerDoneKeeps DEF RequestLoginFails
<1>4. CASE LoginStored
  <2>1. StoreTypeOK'
    BY <1>4 DEF LoginStored, SaveRefreshToken, LinkInv, StoreTypeOK, ServiceTypeOK, Never
  <2>2. QED
    BY <1>4, <2>1, HttpDoneKeeps DEF LoginStored, SaveRefreshToken
<1>5. CASE CallbackFails
  <2>1. StoreTypeOK' /\ notice' = notice
    BY <1>5 DEF CallbackFails, LinkInv, StoreTypeOK, storeVars, Never
  <2>2. QED
    BY <1>5, <2>1, HttpDoneKeeps DEF CallbackFails
<1>6. ASSUME NEW n \in Notices, DeleteLink(n) PROVE LinkInv'
  BY <1>6, DeleteLinkKeeps
<1>7. CASE ExchangeReturns(AllKnown)
  <2>1. NewToken(AllKnown) \in Tokens /\ valid' \in SUBSET Tokens
    BY <1>7, NewTokenIs, IssueKeepsTypes DEF ExchangeReturns, IssueAtLogin, LinkInv, StoreTypeOK
  <2>2. StoreTypeOK' /\ ServiceTypeOK'
    BY <1>7, <2>1 DEF ExchangeReturns, LinkInv, StoreTypeOK, ServiceTypeOK, rowUnchanged, Never
  <2>3. \A h \in Handlers : DraftOK(h)'
    BY <1>7 DEF ExchangeReturns, LinkInv, LinksOK, DraftOK, rowUnchanged
  <2>4. LinksOK'
    BY <1>7, <2>3 DEF ExchangeReturns, LinkInv, LinksOK, rowUnchanged
  <2>5. QED
    BY <2>2, <2>4 DEF LinkInv
<1>8. QED
  BY <1>1, <1>2, <1>3, <1>4, <1>5, <1>6, <1>7 DEF ServerStep, ServiceStep

-----------------------------------------------------------------------------
(* The whole flow.                                                         *)

\* A pump changes the row by saving a rotated token, which clears the notice.
LEMMA PumpsAndNotices ==
    ASSUME NEW m \in Managers, NEW known, PumpStep(m, known)
    PROVE  notice' \in {notice, NoNotice}
BY DEF PumpStep, PumpRefresh, PumpGivesUp, RefreshKeepsToken, RefreshRotates, SaveRotated, RefreshRejected,
       PumpFails, PumpExits, TouchesDestroyed, SaveRefreshToken, rowUnchanged, storeVars

\* Every step of pumps, server, status page, user and world keeps the
\* invariant.
LEMMA FlowStepKeeps == ASSUME FlowInv, FlowNext PROVE FlowInv'
<1>1. ManagerInv /\ LinkInv
  BY DEF FlowInv
<1>2. StatusPage \in Callers
  BY FlowAssumption
<1>3. ASSUME NEW m \in Managers, ServicePumpStep(m) PROVE FlowInv'
  <2>1. ManagerInv'
    BY <1>1, <1>3, PumpStepKeeps DEF ServicePumpStep
  <2>2. LinkInv'
    BY <1>1, <1>3, <2>1, PumpsAndNotices, PumpsKeepLinks DEF ServicePumpStep, ManagerInv
  <2>3. QED
    BY <2>1, <2>2 DEF FlowInv
<1>4. ASSUME NEW m \in Managers, CallRequestLogin(m) PROVE FlowInv'
  <2>1. ManagerInv'
    BY <1>1, <1>4, LoginRequestedKeeps DEF CallRequestLogin
  <2>2. CASE UNCHANGED serviceVars
    <3>1. notice' = notice
      BY <1>4 DEF CallRequestLogin, LoginRequested, storeVars
    <3>2. QED
      BY <1>1, <2>1, <2>2, <3>1, PumpsKeepLinks DEF FlowInv, ManagerInv
  <2>3. CASE \E h \in Handlers : RequestLogin(h)
    BY <1>1, <2>1, <2>3, RequestLoginKeeps DEF FlowInv
  <2>4. QED
    BY <1>4, <2>2, <2>3 DEF CallRequestLogin
<1>5. CASE \/ \E m \in Managers : Expire(m) /\ UNCHANGED serviceVars
           \/ OpenStatusPage
           \/ CallerWakes(StatusPage) /\ UNCHANGED serviceVars
           \/ StatusPageTimesOut /\ UNCHANGED serviceVars
  <2>1. ManagerInv'
    BY <1>1, <1>2, <1>5, ExpireKeeps, CallerStepKeeps DEF OpenStatusPage, StatusPageTimesOut, CallerStep
  <2>2. notice' = notice /\ UNCHANGED serviceVars
    BY <1>5 DEF Expire, OpenStatusPage, StatusPageTimesOut, GetBearerToken, CallerWakes, CallerTimesOut, storeVars
  <2>3. QED
    BY <1>1, <2>1, <2>2, PumpsKeepLinks DEF FlowInv, ManagerInv
<1>6. ASSUME NEW n \in Notices, FollowLink(n) PROVE FlowInv'
  <2>1. LinkInv'
    BY <1>1, <1>6, CallbackKeeps DEF FollowLink
  <2>2. QED
    BY <1>1, <1>6, <2>1, RowChanges DEF FollowLink, FlowInv, LinkInv
<1>7. CASE ServerStep
  <2>1. LinkInv'
    BY <1>1, <1>7, ServerKeepsLinks
  <2>2. QED
    BY <1>1, <1>7, <2>1, RowChanges DEF ServerStep, FlowInv, LinkInv
<1>8. CASE FlowTimePasses
  <2>1. StoreTypeOK'
    <3>1. age + 1 \in 0..Never
      BY <1>8, StoreAssumption DEF FlowTimePasses, TimePasses, LinkInv, StoreTypeOK, Never, FlowInv
    <3>2. QED
      BY <1>8, <3>1 DEF FlowTimePasses, TimePasses, FlowInv, LinkInv, StoreTypeOK, Never
  <2>2. notice' = notice /\ UNCHANGED serviceVars /\ UNCHANGED managerVars
    BY <1>8 DEF FlowTimePasses, TimePasses, serviceVars
  <2>3. QED
    BY <1>1, <2>1, <2>2, RowChanges, PumpsKeepLinks DEF FlowInv
<1>9. CASE \/ (\E t \in Tokens : Revoke(t)) /\ UNCHANGED <<managerVars, serviceVars>>
           \/ CalmDown /\ UNCHANGED <<managerVars, serviceVars>>
  <2>1. StoreTypeOK'
    BY <1>1, <1>9, WorldKeepsTypes DEF LinkInv
  <2>2. notice' = notice /\ UNCHANGED serviceVars /\ UNCHANGED managerVars
    BY <1>9 DEF Revoke, CalmDown, rowUnchanged
  <2>3. QED
    BY <1>1, <2>1, <2>2, RowChanges, PumpsKeepLinks DEF FlowInv
<1>10. QED
  BY <1>3, <1>4, <1>5, <1>6, <1>7, <1>8, <1>9 DEF FlowNext

\* The flow starts with no links and no handlers at work.
LEMMA FlowStarts == ASSUME FlowInit PROVE FlowInv
<1>1. ManagerInv /\ StoreTypeOK
  BY ManagersStart, StoreStarts DEF FlowInit
<1>2. ServiceTypeOK
  BY DEF FlowInit, ServiceInit, ServiceTypeOK
<1>3. LinksOK
  BY DEF FlowInit, ServiceInit, StoreInit, LinksOK, DraftOK
<1>4. QED
  BY <1>1, <1>2, <1>3 DEF FlowInv, LinkInv

\* The inductive invariant of the flow.
THEOREM FlowInvariant == FlowSpec => []FlowInv
<1>1. FlowInit => FlowInv
  BY FlowStarts
<1>2. FlowInv /\ UNCHANGED flowVars => FlowInv'
  BY RowChanges, PumpsKeepLinks DEF flowVars, storeVars, FlowInv, LinkInv, StoreTypeOK, Never
<1>3. FlowInv /\ [FlowNext]_flowVars => FlowInv'
  BY <1>2, FlowStepKeeps
<1>4. QED
  BY <1>1, <1>3, PTL DEF FlowSpec

\* The row never holds a notice the user was not sent, for any number of
\* pumps and of overlapping RequestLogin calls.
THEOREM NoticeIsOpenable == FlowSpec => []StoredNoticeWasSent
<1>1. FlowInv => StoredNoticeWasSent
  BY DEF FlowInv, ManagerInv, LinkInv, LinksOK, StoredNoticeWasSent, FlowTypeOK
<1>2. QED
  BY <1>1, FlowInvariant, PTL

\* No link is exchanged again after it led to a stored token.
THEOREM LinksWorkOnce == FlowSpec => []LinkIsOneShot
<1>1. FlowInv => LinkIsOneShot
  BY DEF FlowInv, LinkInv, LinksOK, LinkIsOneShot
<1>2. QED
  BY <1>1, FlowInvariant, PTL

\* In the flow too, the status page sleeps only beside a pump that is due.
THEOREM FlowWakesItsSleepers == FlowSpec => []SleeperHasAPump
<1>1. FlowInv => SleeperHasAPump
  BY SleepersArePumped DEF FlowInv
<1>2. QED
  BY <1>1, FlowInvariant, PTL

=============================================================================
