# A TLA+ model of the howling trader

This directory models the parts of the trader in which something can go wrong
that a unit test would hardly reach: threads that meet in a pool, a stream, a
websocket or a database row; programs that die half-way; and long sequences of
legal calls. The modules are written from the C++ and SQL under `src/`.
`PROJECT.json` maps every definition to the lines it stands for. TLC checks
small instances of every module, and TLAPS proves every invariant the runs check,
and every refinement and step property, for all values of the constants.

Contents: [the system](#the-system), [the modules](#the-modules),
[runs and bounds](#runs-and-bounds), [fairness](#fairness), [proofs](#proofs),
[what the code does that its reader may not expect](#observations),
[what is not modelled](#not-modelled), [plan](#plan).

To repeat a run: `tlc -config MCResourcePool.cfg ResourcePool` (the run table
names the module and the configuration). To repeat a proof:
`tlapm ResourcePoolProofs.tla`.

## The system

The repository builds five programs. `execute` trades: it authenticates, keeps
a websocket to the broker, aggregates the candles it gets, asks an analyzer
what to do, and books trades. `evaluate` plays stored candles through the same
analyzers. `visualize` draws a history, `fetch` downloads one.
`services/oauth/server` is the OAuth server that gets the user to log in; and
`schema_upgrade` and `auth_refresh` are jobs beside it. All share a database
(Postgres or SQLite).

| Component | State it keeps | Operations | Meets others through | Hard behaviour |
|---|---|---|---|---|
| resource pool `containers/resource_pool` | idle deque, `_total_allocated`, closed | acquire, release, close | mutex, condition variable, a factory that runs without the lock | lost wakeups, double counting, closing under waiters |
| circular buffer, buffered stream `containers/` | ring, absolute insert count, reader count | push_back, stream, destructor | one mutex per call, a reader-local mutex with a shared condition variable | being lapped between two calls, notification without the lock, destruction under readers |
| token manager `services/authenticate` | cached token and its expiry, cached refresh token, failure count | get_bearer_token, pump thread, destructor | `auth_tokens` row, provider, OAuth server | token rotation, forced refreshes, several processes, retries, a job that destroys its manager under the pump |
| OAuth server `services/oauth` | nothing of its own: the row | RequestLogin, login callback, status page | `auth_tokens` row, notification, provider | read, slow call, write; one HTTP thread that waits for what only it can provide |
| trading `trading/`, `execute` | lots, funds, quotes, metrics | market, buy, sell | quote map written by another thread, `trades` table | limits over sequences of orders, prices of zero, lost saves |
| market feed `schwab::stream`, `market_watch` | connection, callbacks, `_running`, `_stopping` | start, add_symbol, stop, destructor | websocket and flags used by two threads without a lock | two threads in one socket, refused subscriptions, errors that end the process |
| schema `services/db/schema*` | version row, tables | upgrade_schema, check_schema_version | database | scripts without transactions, concurrent upgraders, death between statements |
| database connection `services/db/*_database` | prepared query objects with their last result | read_*, save_*, find_*, get_auth_token | resource pool, other connections | dropped coroutines, failing statements, results that outlive their query |
| analysis `data/aggregate`, `data/analyzers` | moving windows, zig-zag extremes, decision buffers | add_next_minute, analyze, find_zig_zag | trading state | window off-by-ones at the start of a history, alternation of points |
| back test `howling_tools/evaluate` | day being gathered, account, months | run | generator over the database, howling analyzer | day and month boundaries, metrics that must add up |
| start-up: secret store client `services/security`, registry `services/registry`, `register_*`, account lookup in `execute` | services built so far, back-off | wait_for_ready, get_secret, create_certificate, get_accounts, get_account | secret store, database, broker; containers that restart | waiting that ends too early or too late, a store that forgets, two answers that must be joined |
| rest of Schwab REST, Alpaca, conversions, printing | little or none | requests and pure functions | | see [not modelled](#not-modelled) |

What makes each correct, in a sentence:

- **pool**: the count is exact, at most `max_size` resources are checked out,
  nobody who could go on is left asleep, and a closed pool lets everybody go;
- **stream**: a reader gets items in order and misses only what the ring has
  dropped; a push wakes the sleepers; the destructor leaves no reader behind,
  and returns;
- **authentication**: whatever was lost, revoked or overwritten, access comes
  back; a login link works once, and the link that works was sent to the user;
- **trading**: the ledger explains the account and the limits hold over any
  sequence of orders;
- **feed**: until it is stopped messages are delivered in order and none is lost,
  and shutting down ends;
- **schema**: the version never claims what is not there, and an application
  that starts finds everything;
- **start-up**: waiting for the store is as patient as its flag says, an
  executor trades in the account it was told to, and a deployment whose
  processes stop dying comes up;
- **connection**: a read yields its own rows, and what was reported saved is;
- **analysis**: no minute counts twice in an average, windows that are compared
  are neighbours, and the points are round trips that gain;
- **back test**: no candle is lost, and the report adds up to the account.

The list of single hazards, each at its line and with the property that would
notice it, is `PROJECT.json` under `hazards`.

## The modules

```
LeasePool        <- ResourcePool                <- ResourcePoolProofs
LossyLog         <- BufferedStream              <- BufferedStreamProofs
                    (extends CircularBuffer)
AuthStore        -> TokenManager, AuthService -> AuthFlow
                                                <- AuthFlowProofs
Account          -> Trading                     <- AccountProofs
Account          -> HowlingAnalyzer -> Evaluation
                                                <- AccountProofs
SchemaUpgrade, SchwabAccounts -> Startup        <- StartupProofs
MarketFeed                                      <- MarketFeedProofs
Aggregate, ZigZag -> Analysis                   <- AnalysisProofs
PreparedQueries                                 <- PreparedQueriesProofs
```

**ResourcePool** (`containers/resource_pool.{h,cc}`). A client is a thread that
calls `acquire()` and later drops its handle; `pc` says where it is: out,
waiting on the condition variable, building (inside `factory()`, without the
lock), holding, or releasing (between the health check, which is done without
the lock, and the locked part). One pass of `acquire()`'s loop under the mutex
is one action (`AcquireLoop`): pruning, taking the newest healthy entry,
discarding the unhealthy ones above it, building or waiting. `notified` is the
set of waiters that a `notify_one` or `notify_all` has reached and that have
not run yet; `Resume`, `SpuriousWake` and `Timeout` end a wait. Resources break
at any time. `LeasePool` is what is promised to clients, with the deque, the
health and the waiting gone: a lease is a unit that `_total_allocated` counts
for a client.

**CircularBuffer, BufferedStream** (`containers/circular_buffer.h`,
`buffered_stream.h`). Each member of the ring is an action, since each takes
the mutex. `stream()` of the coroutine is split where it gives up a lock: the
test, the dereference, the increment, the registration, the predicate of the
wait, and the wait itself. `push_back` is a push and a separate notification.
The n-th element pushed is represented by n, so a slot shows what it really
holds. `LossyLog` is the abstract promise: publish in order, drop the oldest
beyond `Window`, deliver to each reader the oldest retained item it has not
seen.

**AuthStore, TokenManager, AuthService, AuthFlow**. `AuthStore` is the
`auth_tokens` row with its two writers as single statements, the decryption of
what a reader finds there, and the refresh tokens the provider honours.
`TokenManager` is the pump of `authenticate.cc`, step by step between its calls
to the database and to the provider, the callers of `get_bearer_token`, of which
some force a refresh, and the life of the process: a service is killed and
restarted, while an `auth_refresh` job asks for one token and destroys its
manager. The destructor sets a flag (`Destroy`), destroys the members declared
after the thread, and joins it (`PumpExits`); a pump that was past its test of
the flag goes on in between and may get through, find an empty cached token, or
crash on what is gone (`TouchesDestroyed`). `AuthService` is `RequestLogin` and the
login callback, each a read of the row, a call to the outside and a write.
`AuthFlow` extends both over one row, and adds the user who follows links and the
status page that blocks the one HTTP thread; it assumes of its constants only
that the status page is a caller that does not force a refresh
(`FlowAssumption`). `flaky`
stands for everything that may still fail; `CalmDown` ends it.

**Account, Trading** (`trading/`, `howling_tools/execute.cc`). Quotes come at
any time (the market thread), the analyzer decides anything, and the executor
sizes orders from the cached quote. A trade is first made, then handed to
`save_trade`, whose future nobody looks at: if it fails, the trade is one of
`lost`, which only the model knows. Lots are 64 bits wide and do not overflow
here, but an order is sized, and a sale summed, in `int`: a quotient no `int`
holds becomes any of what the platforms yield (`BuyQuantities`), and the sum of
a sale wraps (`ToInt`), below zero if need be, while all lots go. A session may
begin with lots the account already has (`Holdings`). Sums over lots and stocks
are recursive functions (`SumSeq`), over the stocks in some fixed order
(`Stocks`), as the maps of the code have one.

**SchemaUpgrade** (`services/db`). The SQL scripts are sequences of statements
that each commit alone. Processes interleave by statement and may die between
any two. Both dialects are in the model: only Postgres fills the enum tables
and grants privileges. The module has no `Next` of its own: it is a component.

**SchwabAccounts, Startup** (`services/security/bao_client.cc`,
`services/registry`, `services/db/register.cc`, `howling_tools/execute.cc`,
`infrastructure/docker-compose.yml`). `Startup` extends `SchemaUpgrade` with the
containers around it. The secret store is down, empty or ready; it keeps its
secrets in memory and is restarted without them. An executor waits for it with a
back-off, asks for its secrets in the order in which its services are built,
opens a connection and checks the schema, gets a certificate, and looks up its
account; whatever throws on the way ends the process, and its container is
started again. `bao_init` and the upgraders are not (`restart: no`): `filled` says
that `bao_init` has completed, with or without effect, and an upgrader that finds
no secrets then fails before it starts. `waited` and `delay` are the only clock. `SchwabAccounts` is the
join of the two answers `get_accounts` asks for: they list the same accounts in
any order and at different times. A later release may upgrade the schema while
executors run: then their pools cannot grow.

**MarketFeed** (`api/schwab.cc`, `services/market_watch.cc`). Two threads use
one websocket and unguarded flags: the watcher in `start()` and the main thread
in `stop()`. The server answers commands in order; a connection may break at
any time. The websocket is not thread-safe: where both threads are in it, reading
or writing, one message or command of the behaviour may be lost, one message may
be read by both (`Damages`), and a read may throw. An exception out of a thread function or a destructor, or the use of
a connection the other thread has destroyed, ends the process (`terminated`).

**Aggregate, ZigZag, Analysis** (`data/`). A window carries the minutes it
spans and, instead of its exponential averages, how often each minute went into
them: all minutes of a window that has nothing to continue, which starts from
their mean, and only the last, whose close it takes, of one that continues the
window a whole length back. So between the closes minutes are left out, as in the
code; `CountedOnce` says exactly which count.
`ZigZag` is the pass of `find_zig_zag` a candle at a time. `Analysis` runs both
over one growing history.

**HowlingAnalyzer, Evaluation** (`data/analyzers/howling.cc`,
`howling_tools/evaluate.cc`). The analyzer's priorities, times of day and
warm-up are exact; what MACD and Bollinger compute is the choice of a signal
they may give. `Evaluation` is the day generator, the candle loop and the
sums of metrics. Its account is called `held` and `cash`, and its specification
`BackTestSpec`, so that one module can reason about it and about `Trading`. A day
is a UTC date, by the first minute of its candles, and the analyzer sees the clock
of New York at their end (`MarketTime`, four or five hours `Behind`), so that a
day begins in the evening before. The clocks are changed between days, on nights
without candles.

**PreparedQueries** (`services/db/*_database.cc`). The query objects of a
connection keep their result and cursor between calls. A caller reads through
a coroutine that it may drop at any row, other connections save meanwhile, and
statements may fail. One statement stands for those that read and one for
those that save, and a behaviour is about one kind of `records`: candles, quotes
and tokens are upserted under their key and read in ascending order of it, trades
are inserted, so that one time may have several, and read in descending order.
`table` therefore holds the set of versions of each key. An answer (`Answers`)
lists the rows of a symbol in that order, rows of one time in any; SQLite's step
yields one of those that come next (`StepLive`). The rest of what tells the
statements apart, their columns and limits, is left out.

## Runs and bounds

Every passing run checks its module's type invariant as a conjunct of one of its
invariants (`ResourcePool`: of `ExclusiveOwnership`; the auth flow:
`FlowTypeOK` in `StoredNoticeWasSent`; `Startup`: in `AppFindsEverything`; and
so on).

| Run | Checks | Distinct states |
|---|---|---|
| `pool` | `Accounting`, `NoLostWakeup`, `ExclusiveOwnership`, `PruneExact`, `ImplementsLease`, `WaitersLeave` | 179 thousand |
| `stream` | `WindowIntact`, `NoReaderAfterDestruction`, `ImplementsLossyLog`, `SleepersAreWoken` | 25 thousand |
| `stream_stop` | `DestructorTerminates`, which the code violates | |
| `stream_tail` | `FinalItemSeen`, which the code violates | |
| `tokens` | `SleeperHasAPump`, `Recovers`, `CallersServed`, `RotatedTokenKept`, `JobEnds` | 256 thousand |
| `flow` | `StoredNoticeWasSent`, `LinkIsOneShot`, `FlowRecovers` | 491 thousand |
| `trading` | `LedgerReplays`, `OutlayCapped`, `GainsAreReported` | 872 thousand |
| `startup` | `VersionMeansObjects`, `AppFindsEverything`, `AccountIsItsOwn`, `VersionMonotone`, `WaitIsPatient`, `DeploymentComesUp` | 742 thousand |
| `feed` | `InOrderUntilStop`, `SubscribesOrEnds`, `ShutdownEnds` | 1.52 million |
| `analysis` | `CountedOnce`, `MacdComparesNeighbours`, `PointsAlternate`, `RoundTripsGain` | 111 thousand |
| `evaluation` | `DaysAreWhole`, `ReportExplainsFunds`, `FlatOvernight` | 769 thousand |
| `queries` | `ReadsItsSnapshot`, `SavedIsStored`, `ClearedOnce` | 4.68 million |

Why the bounds suffice:

- **pool**: four clients over two resources: two can wait while two hold or
  build, so that a notification picks one of several waiters, and one waiter
  can wake by itself while the other's signal is in flight. `min_size` 0,
  `max_size` 2, an idle timeout of one tick and a clock (`MaxClock`) of one, so
  that of two idle entries one can be expired and the other fresh. The theorems
  below cover all other sizes and timeouts.
- **stream**: a ring of two and four pushes: each slot is overwritten once,
  and a reader can be lapped by exactly one, by two, and between any two of its
  steps. Two readers, so that one is woken or leaves while the other registers.
  `stream_stop` needs only one reader.
- **tokens**: two deployments, one of which each behaviour has (`Deployments`).
  In one, a thread of a service forces refreshes while another of its threads
  waits for the token that is cleared: the caller and the other caller of
  `CallersServed`. In the other, the forcing thread's service has an
  `auth_refresh` job beside it with a caller of its own, over one row: the
  smallest world in which one process's rotation, its destruction or its death
  spoils what the other cached. Both callers and the job at once are 700 thousand
  states, too many for the liveness properties. Three refresh tokens (one presented, one received, and a new one)
  suffice because valid tokens that nobody remembers leave the model. A failure
  limit of 0 instead of 10: the limit only decides when the pump asks for a
  login, and both sides of it are reached.
- **flow**: one pump, two `RequestLogin` handlers at once and the status page on
  the HTTP thread, three tokens and two notices: two links can be out at the
  same time, and the login that the pump waits for can be queued behind the
  status page that waits for the pump. A link lives for one tick
  (`NoticeTTL` 1) and the cooling period is over with the first one
  (`Cooling` 0, its only value below that life), so that a link can be
  replaced while it works and expire before it is used.
- **trading**: two stocks, prices 0, 1 and 3 (`Price` adds 0), three trades:
  buy, sell at a loss or gain, and buy again, with the other stock in between,
  or buy twice and sell both lots. Funds of 20, 25 and 20 percent leave both
  limits reachable. The largest `int` is 3 (`MaxInt`): two orders for free shares
  wrap the sum of their sale, whose quantity is then negative and takes money,
  and so does one such order beside the lots a session began with. The proofs are
  for every width. Sessions end with
  the last trade, so deadlock is not an error. Stocks are interchangeable and
  the run uses that symmetry; it has no liveness property.
- **startup**: two upgraders and one application, two deaths (of processes, of
  the store, or changes of the accounts) and every version, the next release's
  included. A third upgrader would see only what one of the two sees; two deaths
  allow the second upgrader to die in the repair, or the store to die twice. Two
  of the three accounts share their last digits. The back-off starts at 5 and
  grows by 1.2 to at most 6 in a timeout of 27: the delays grow, reach their
  maximum, and the deadline falls inside a sleep.
- **feed**: two stocks, so that one can be refused after the other succeeded,
  and two data messages, so that order and a gap can be told. One message is
  damaged at most (`damaged`): nothing is claimed of the data after it.
- **analysis**: five candles at four prices with a threshold of 1: up, down, up
  again and one candle that does both; windows of 1, 2 and 3 minutes, so that
  each has two full windows or is short of one. The theorems cover the rest.
- **evaluation**: three days (UTC), two in one month, the third in summer time,
  and five times that are in New York the evening before, before ten, in the
  session, in the exit hour and in the last half hour (in summer time the last two
  are the half hour and after the close), five candles.
- **queries**: two stocks with two times each, four saves, one failure, so that
  a time has several trades or a candle is replaced while it is read.

The deadlock check is on for the pool, the streams, the authentication and the
start-up: in every state of those somebody can go on. `CHECK_DEADLOCK FALSE` is set where a finite bound or the program's own end
stops the model: trading, feed, analysis, evaluation and queries.

Every property is known to depend on the code: for each, `PROJECT.json` names
a change of a modelled definition of the kind a bug would make (a notification
left out, an off-by-one, a reset forgotten, an order swapped) under which TLC
finds the property violated.

### The findings

`stream_stop` shows that the destructor of a buffered stream may never return.
A reader tests its predicate under its own mutex; the destructor and
`push_back` notify without that mutex (`containers/buffered_stream.h:27`). The
notification can fall between a reader's test and its wait. The next push would
repair a lost push, but nothing follows the destructor: it spins on the
reader's registration for ever. The test waits for the reader to sleep before
it destroys the stream, and so does not see it. That a *push* is noticed by a
reader that really sleeps does hold (`SleepersAreWoken`).

`stream_tail` shows that a reader may end without the last items. After its last
look it tests only `_running` (`buffered_stream.h:88`) and leaves, so an item
that is pushed between the two, just before the destructor, is never delivered,
although the condition of the outer loop would have gone on to it. The test of
slow readers says that one "will see the final `buffer.size()` items"
(`buffered_stream_test.cc:140`); it passes because its reader is in the middle
of the buffer when the destructor runs.

## Fairness

Liveness is only claimed under what the code's scheduling gives.

- **pool**: a thread that was notified, that runs the factory or that is
  inside `release()` goes on (`WF`). Calls of `acquire()`, drops of handles,
  breakage, spurious wakeups and timeouts are not fair: `WaitersLeave` says that
  a waiter whose deadline never comes is still served if others leave. Nothing
  is promised to a waiter that others keep overtaking: the code is not FIFO.
- **stream**: the writer finishes what it began and each reader takes its
  steps, but a sleeping reader needs a notification and nobody has to push,
  destroy or leave.
- **tokens**: the pump thread runs, the cache expires, a killed service is
  restarted (its container says so), a job asks for its token, gets it or reaches
  its deadline, and destroys its manager, and the user logs in when the stored
  token is no good. A service's caller has no deadline in `CallersServed`; its
  one assumption (`SF`) is that a caller that has been notified, again and again
  while a token is cached, runs in time once: the cache lives for 20 minutes.
  Nothing makes a service's caller call, and nobody is killed once `flaky` ends.
- **flow**: each pump, handler and HTTP step goes on, deadlines come, time
  passes. The strong fairness is that the HTTP thread, which is free again and
  again, in time serves the user's link: requests queue there in order. That
  calls stop failing is an assumption of the property (`<>[]~flaky`), not of the
  fairness. `FlowRecovers` also needs a user who follows working links.
- **startup**: the store is restarted, `bao_init` and each upgrader are started
  once, an upgrader takes its next statement, an application that ended is started
  again (`SF`, as what it waits for may come and go). Nothing makes the operator
  run `bao_init` or `schema_upgrade` again, although he may: where only that
  helps, `NeedsOperator` holds and `DeploymentComesUp` asks for no more. Deaths,
  account changes and releases are not fair.
- **feed**: the watcher, the stopping thread and the server's answers, as long
  as the process lives. Messages and the loss of a connection are not fair.

## Proofs

TLAPS checks 45 theorems a reader should know, in eight modules. They cover every
invariant of the run table, both refinements and every property of steps, for
all values of the constants that satisfy the named `ASSUME`s of the modules. The
shape is the same everywhere: an inductive invariant, a lemma that the initial
states satisfy it, one lemma per action (or group of actions) that keeps it, a
theorem that it always holds, and a theorem per property that follows.

| Module | Theorems | Inductive invariant |
|---|---|---|
| `ResourcePoolProofs` | `PoolInvariant`, `PoolTypeOK`, `PoolAccounting`, `PoolNoLostWakeup`, `PoolExclusiveOwnership`, `PoolPrunesExactly`, `PoolImplementsLease` | `IInv`; `ExclusiveOwnership`; `OldestFirst` |
| `BufferedStreamProofs` | `StreamInvariant`, `RingStaysIntact`, `BufferOutlivesReaders`, `StreamImplementsLog`, `NothingMissedAtTheEnd`, `NotificationsReachSleepers` | `StreamInv` |
| `AuthFlowProofs` | `ManagerInvariant`, `ManagerWakesItsSleepers`, `RotationReachesTheRow`, `FlowInvariant`, `NoticeIsOpenable`, `LinksWorkOnce`, `FlowWakesItsSleepers` | `ManagerInv`, `FlowInv` |
| `AccountProofs` | `TradingInvariant`, `LedgerExplainsAccount`, `OutlayStaysCapped`, `NoGainUnreported`; `BackTestInvariant`, `BackTestDaysAreWhole`, `BackTestReportExplainsFunds`, `BackTestFlatOvernight` | `TradingInv`; `BackTestInv` |
| `StartupProofs` | `StartupInvariant`, `VersionNeverAhead`, `RunningFindsEverything`, `ExecutorHasItsAccount`, `VersionNeverGoesBack`, `WaitsLongEnough` | `StartupInv` |
| `MarketFeedProofs` | `FeedInOrderUntilStop`, `FeedForgetsNoRequest` | `FeedInv`, `Tracked` |
| `AnalysisProofs` | `AnalysisCountedOnce`, `AnalysisMacdComparesNeighbours`, `AnalysisPointsAlternate`, `AnalysisRoundTripsGain` | `ListsInv`, `ZigZagInv` |
| `PreparedQueriesProofs` | `QueriesSavedIsStored`, `QueriesClearedOnce`, `ReadInvariant`, `QueriesReadTheirSnapshot`, `QueriesReadInOrder` | `SavedInv`, `ClearedInv`, `ReadInv` |

The assumptions are what the code gives: sizes, durations and windows are numbers
in the range their types or flags allow; upgraders and applications are different
processes; symbols, keys and account numbers are finite sets; a session's
loaded lots are lots. None bounds a history, a number of processes or a price.

**ResourcePoolProofs**, for any set of clients and resources, sizes and timeouts.
`IInv` adds to the checked properties that only waiters are notified
and that who owns a resource has one. Accounting and wakeups hold each other
up. A signal is owed for exactly the units that `total` says are free, and
discarding entries in `acquire()` without a notification is harmless only
because it turns idle units into free ones (their sum is unchanged) and the
discarding client takes one of them itself. The proof has a lemma for a pass of
`acquire()`'s loop (`AcquireLoopEffect`: what it may do to count, deque and
client), one for a pass that keeps the invariant, one for a unit that is given
back, and then a step per action. The refinement maps each step to a grant, a
return, the shutting of the abstract pool, or nothing. `PoolExclusiveOwnership`
says that every live resource is in the deque once or with one client: a pass of
`acquire()` cuts the deque into the pruned front, what stays, the entry it takes
and what it discards, and these share no resource because no two entries do.
`PoolPrunesExactly` is about the loop that stops at the first entry that is not
expired: it leaves no expired entry behind only because the deque is sorted by
`last_used` (`OldestFirst`), which holds because entries are appended when they
are given back, the clock does not go back, and all that `acquire()` removes is
removed at the ends.

**BufferedStreamProofs**, for any capacity, readers and number of pushes. The ring
holds, at the slot its index is addressed by, every item it has not overwritten
(`RingHolds`), because two indices less than the capacity apart have different
slots. `ReaderOK` is what each place of `stream()` may rely on: in front of a
dereference, moving the iterator to the front, if the writer has lapped it,
gives the same item as moving the next unseen index there. That is why a
reader may be lapped between any two of its steps and still be given what the
abstract log gives it; `StreamImplementsLog` is the refinement of `LossyLog`.
`BufferOutlivesReaders` needs that a reader is registered exactly while it is
inside `stream()`. That the *end* of a reader loses items (`stream_tail`) does
not contradict this: an abstract reader may stop at any time. Two theorems say how
far the findings go. `NothingMissedAtTheEnd`: at every look at the end of the
buffer a reader has been given the last item, so that what is lost was pushed after
its last look. `NotificationsReachSleepers`: every reader that sleeps when a
push or the destructor notifies is woken, so that what is lost is lost between
the test and the sleep.

**AuthFlowProofs** is about the token manager alone, with jobs and forced
refreshes (`Spec`), and about the flow (`FlowSpec`). `ManagerInv` says that a
cache which is empty before its time was emptied by force and that who sleeps
waits for a missing token of a running process; a sleeper can then not have
missed its wakeup. `RotationReachesTheRow` is a property of steps: a
rotated token leaves the hands of a pump that lives on only for the row, or with
a failure that is counted.
`FlowInv` adds the links: a handler's draft is its own, was sent before it is
stored, and is none that was used (`DraftOK`), whatever other handlers store and
the pumps' saves clear in between.

**AccountProofs** has the sums that both account models need, proved from the
recursive definition of `SumSeq` (what appending, removing and changing an
element does, and that a sum of small terms is small). In `Trading` the cap on the
outlay is inductive as it stands, since an order is sized by what is left of it
and a sale gives back, or takes what `TakenBy` counts; the ledger (`InLedger`) is
with the fact that at most one trade is on its way to its record. That a wrapped
sale leaves the shares explained up to the range of the `int` is arithmetic of
remainders (`MultipleOf`, `MultiplesAdd`, `ToIntIs`), with no bound on the width.
In `Evaluation` the proof
needs to know how the generator and the loop stand to each other: the day at hand comes
before the one being gathered, whose last candle is the last row read
(`GeneratorInv`); months exist while a day runs, and outside of one the last month
has the funds at hand (`PhaseInv`). `BackTestFlatOvernight` is about the
analyzer: in the last minute before ejection and from then on the advice to sell
has an urgency that no mean of the other advice can overrule, for any signals
and thresholds; and from then on the clock of New York runs along until the UTC day
ends (`MarketClock`).

**StartupProofs**. `SchemaInv` says where every upgrader is in its script: the
version has reached the file before its own, inside a file it has not moved, and
what the executed commands create is there (`ScriptInStep`). Two upgraders cannot
be inside a file together (`OneInside`), because its first command
creates an object and fails if that exists. From this follows that the version
never claims what is missing, for any number of processes that die anywhere.
`AccountInStep` says that the first answer lists a set of accounts, each once,
so that joining by number cannot give an executor another account's
cash. `WaitInStep` bounds the back-off: nobody begins to sleep after the
deadline.

**MarketFeedProofs**, for any stocks and any number of messages. `FeedInv` says
where the server's messages are until `_stopping` is set: those on their way are
in order (`Sorted`), and the next one is the one after those that were delivered
or are in the watcher's hand (`NoGap`). This holds because until then
the main thread leaves the socket alone and nobody has sent LOGOUT, whose answer
throws away what is on its way (`Untouched`), which in turn needs that `stop()`
does not get past a missing connection. Nothing is claimed of what is delivered
once both threads are in the websocket. `FeedForgetsNoRequest` is the safety half of
`SubscribesOrEnds`: until the feed is stopped or the watcher leaves, every stock is
to be asked for, subscribed, or on its way as a command or an answer (`Tracked`).

**AnalysisProofs**, for windows of any lengths, any prices, any threshold and
histories of any length. `ListsInv` says that a list is determined by its
length: the i-th window spans the right minutes and has counted those of the
first window of its chain and the closes of the full windows since, each once;
without it the window a whole length back, whose averages are continued, might be
any. The remainders that say where a chain began need a lemma of their own
(`LengthLater`). `ZigZagInv` relates the extremes to the points: on the way up the
low that was bought is behind the high by more than the threshold, and the next
sale will be at that high.

**PreparedQueriesProofs**, for any symbols, keys and bounds and for both dialects.
`QueriesSavedIsStored` needs the bound that no row is from a save still to come,
`QueriesClearedOnce` that until a statement fails every query object's pointer
is null or valid, which binding, executing and stepping keep. A read is about
three things at once: the rows there were when the generator began, what it has
yielded of them, and, with Postgres, the query object, which lists those rows in
order and must stand at the one that was yielded last (`CursorOK`). SQLite steps
through the table itself; there `ReadsItsSnapshot` holds because an open statement
locks the table against other connections, so that what remains is what it began
with less what it yielded, and the next is none too early. `QueriesReadInOrder`
spells the orders out for the two kinds of records.

Induction over data is done without the library's induction theorems, which take
an operator and which the provers cannot instantiate: `EveryNat` in
`AccountProofs` states induction for a *set* of naturals, derived from
the well-foundedness of `<` (`LeastNat`), and a lemma defines the set of numbers
for which its formula holds.

Only model-checked, and why: the liveness properties (`WaitersLeave`,
`SleepersAreWoken`, `Recovers`, `CallersServed`, `JobEnds`, `FlowRecovers`,
`DeploymentComesUp`, `SubscribesOrEnds`, `ShutdownEnds`). TLAPS has no proofs under
fairness, and none with `ENABLED`. The two findings are counterexamples and need
no proof.

No module uses a `RECURSIVE` operator.

## Observations

While the code was translated these came up. They are in the models as the
code has them unless they say otherwise; the findings apart, no document, comment
or test promises the opposite, or the promise is too vague to be checked.

Containers:
- `resource_pool::size()` and `in_use()` are 0 after `close()` although
  resources are still out; `Accounting` says so.
- `pop_front()` and `clear()` of the circular buffer shift what live iterators
  see. Only tests call them.

Authentication:
- After a rotation the manager keeps the old `_cached_refresh_token`
  (`authenticate.cc:183`). Its next refresh presents a spent token, fails, and
  recovers through the row.
- Two managers that rotate tokens can spoil each other's, and a pump may write
  its token over a login's newer one. Two that run for ever can do so in lock
  step with the logins, and `Recovers` would fail; with one service and a job
  that runs once per deployment it holds.
- A forced refresh (`clear_cache`) empties the cache but not its expiry
  (`authenticate.cc:139`): the pump refreshes only when that has passed, so the
  caller, and every caller after it, sleeps until then. A token lives for 20
  minutes and callers wait for 5 by default, so they run into their deadline.
  `SleeperHasAPump` excepts exactly this (`forced`); `CallersServed` says that
  they are served if they can wait.
- A 200 answer without an `access_token` is cached as an empty token, and one without
  a `refresh_token` is saved as an empty row (`authenticate.cc:182-189`). The models
  take an answer to hold both (`RefreshKeepsToken`). An empty access token leaves
  what a forced refresh leaves, an empty cache that has not expired, which the
  models do have; an empty row they do not.
- The destructor of the manager destroys the members declared after
  `_pump_thread` before that is joined (`authenticate.cc:103`). A pump that is
  under way reads and writes them: the job may crash on exit, or ask the user to
  log in because its cached token is gone. A rotated token is saved before
  that, which is why `RotatedTokenKept` holds.
- Two overlapping `RequestLogin` calls both notify; only the later link works.

Database:
- An upgrade that dies between a creating statement and its version cannot be
  run again (`postgres_database.cc:494`): `Torn` in `SchemaUpgrade` is exactly
  that state, and `DeploymentComesUp` excepts it.
- `updater_id` and `update_started_at` are never used.
- A failed statement leaves `_res` pointing to a cleared result on a connection
  that still says it is healthy (`postgres_database.cc:173`). The next bind
  clears it again; `ClearedOnce` is claimed only until then.
- Prepared names are never deallocated, so a second upgrade or check on the
  same Postgres connection fails. Each connection is used for one.
- The OAuth server's gRPC and HTTP threads share one database object.

Start-up:
- The secret store runs with `-dev`: when its container restarts it is healthy
  and empty, `wait_for_ready` is content, and every service that starts then
  fails on its first secret until somebody runs `bao_init` again
  (`NeedsOperator`). `bao_init` itself completes whatever its commands said
  (`|| true`), so a store that dies under it is not noticed either.
- After a later release has upgraded the schema, a running executor whose pool
  opens another connection ends: `check_schema_version` throws in the thread
  that wanted it. `DeploymentComesUp` excepts a later release.
- `get_account` takes the first account whose number ends with the flag's
  digits. If there are two, which one depends on the order of the provider's
  answer; `AccountIsItsOwn` only says that the name fits and the cash is its own.
- An account that is opened or closed between the two requests of `get_accounts`
  ends the process, which is then started again.

Trading and back test:
- `save_trade`'s future is dropped (`execute.cc:235`), so a failed save is
  silent; `LedgerReplays` shows that the account and the stored trades then differ
  by exactly the lost ones.
- An ask of 0 makes the quantity an infinite double converted to `int`, which
  saturates on ARM. Two such lots wrap the `int` of their sale
  (`executor.cc:103`): the shares are gone, the recorded sale is of a negative
  quantity, and the funds fall by its price. `OutlayCapped` and the shares of
  `LedgerReplays` are stated up to that. A bid of 0 sells at 0.
- The help text of `max_fund_use` (`executor.cc:16`) speaks of the "initial funds
  to use at any one point", but the code caps the net outlay, the initial less the
  available funds. After a gain more than the flag's share may be in stocks at one
  point, and positions that were loaded do not count at all. `OutlayCapped` claims
  the net outlay only. Lots of quantity zero count as sales.
- The quote map and `state.time_now` are shared by threads without a lock.
- The back test tests the low of a candle and pays its close, so it can
  overdraw its funds by the difference.
- The confidence of MACD's "building momentum" HOLD has no upper limit
  (`macd.cc:70`), unlike that of its crossings; decisions are therefore typed with
  any natural confidence.
- It compares month numbers only, and never sets the last month's
  `assets_value`. In the branch that reads files an empty day reads the front
  of an empty vector.
- Its days are UTC dates (`evaluate.cc:81-84`): candles of the evening, which are
  fetched with the extended hours, are part of the next day's report.
- The howling analyzer may sell and buy again between 14:46 and 15:29.
  `_macd1_decisions` is never read, and both decision buffers are shared by all
  stocks.
- The candle thread throws on a candle that is not a minute long
  (`execute.cc:210`); nothing catches that, so the process ends.

Feed:
- While the feed shuts down both threads read one beast websocket without a lock
  (`schwab.cc:623`, `market_watch.cc:56`), and one may write while the other
  reads. A message may be lost or read by both, and if the answer to LOGOUT is
  lost both threads wait until the network ends the connection: `ShutdownEnds`
  excepts a damaged connection that stays up for ever, and holds otherwise.
- Both threads may push to a single-writer buffer while the feed shuts down; a callback erases itself
  from `_command_cbs` while it runs.
- A broken connection ends the process: `close()` throws out of the thread.
  Nothing reconnects.

## Not modelled

- **The other Schwab requests, Alpaca, network plumbing**: request and answer
  without state; callers see an answer or an exception, and the models choose
  which.
- **Login notification, fetch, visualize's output**: one request or a straight
  line of printing.
- **What the registry caches**: a service that is built is kept for good, so
  that each factory is one step of `Startup`; only one thread builds them.
- **Values of averages, bands and confidences**: real arithmetic. The models
  keep which minutes and which windows go into them.
- **Data races themselves**: torn reads of the quote map, the shared database
  object and the unguarded flags are atomic reads and writes in the models. The
  outcomes of interleaving are all there; those of tearing are not.
- **The deferred start of the token manager's pump**, which only tests use.
- **One database object under several threads** of the OAuth server, and **one
  decision buffer under several stocks** of an executor: libpq gives no promise
  for the first, and the second is about confidences, whose values are not
  modelled. Both are listed as hazards without a property.
- **The history files' branch of the back test**, printing, logging, flags,
  text and time conversions, the gateway, dashboards and recorded candles.

## Plan

The order was by the weight of what can go wrong. Done: 1. the pool, with its
abstract specification and proofs; 2. the stream and its finding; 3. the
authentication flow and its composition; 4. trading; 5. schema; 6. the feed;
7. analysis with its proofs; 8. the back test; 9. the database connection with
its proofs; 10. the token manager's destruction and the job that needs it;
11. the start-up of a deployment, with the account lookup; 12. exclusive ownership
in the pool, proved; 13. the order of the feed, proved; 14. the stream, proved to
implement its log; 15. schema and start-up, 16. trading, 17. the token manager and
the login links, 18. what a read yields, 19. exact pruning, 20. the back test and
21. the subscriptions of the feed, all proved.

Next, proofs: every invariant is proved, so what is left is to strengthen what is
stated.
- `MarketFeed`: which exceptions may end the process once `stop()` has begun;
- `PreparedQueries`: that a reported save is read by the next generator, on this
  connection or another;
- `AuthFlow`: which tokens the row, the pumps and the provider may hold, the
  safety half of `FlowRecovers`.

Then, models:
- a composition of `MarketFeed` with `BufferedStream`, where the feed's two
  pushers meet the stream's single writer;
- the pool with `PreparedQueries`: connections that are given back while a
  generator is open.
