---------------------------- MODULE ResourcePool ----------------------------
(***************************************************************************)
(* base_resource_pool (containers/resource_pool.{h,cc}): a bounded pool    *)
(* shared by threads through one mutex and one condition variable.         *)
(*                                                                         *)
(* A client is one checkout in progress: a call of acquire(), then the     *)
(* scoped_resource it returned, then the release() that handle runs.  An   *)
(* action is one critical section of the mutex, or one step taken outside  *)
(* it (factory(), the health check of release()).                          *)
(***************************************************************************)
EXTENDS Integers, Sequences, FiniteSets

CONSTANTS
    Clients,      \* concurrent checkouts
    Resources,    \* identities of the objects the factory may build
    NoResource,   \* held[c] while c has no resource
    MinSize,      \* options.min_size
    MaxSize,      \* options.max_size
    IdleTimeout,  \* options.idle_timeout in clock ticks; 0 disables pruning
    HasTimeout,   \* options.acquire_timeout > 0
    MaxClock      \* bound: the steady clock stops ticking here

ASSUME PoolAssumption ==
    /\ IsFiniteSet(Clients)
    /\ NoResource \notin Resources
    /\ MinSize \in Nat
    /\ MaxSize \in Nat \ {0}
    /\ MinSize <= MaxSize
    /\ IdleTimeout \in Nat
    /\ HasTimeout \in BOOLEAN
    /\ MaxClock \in Nat

VARIABLES
    closed,     \* _closed
    available,  \* _available: a deque of idle entries, front first
    total,      \* _total_allocated
    pc,         \* where each client is
    held,       \* the resource each client owns
    sound,      \* the verdict of release()'s health check and reset()
    notified,   \* waiters that notify_one or notify_all has signalled
    live,       \* resources built and not yet destroyed
    healthy,    \* live resources whose is_healthy() is true
    clock       \* steady_clock::now()

vars == <<closed, available, total, pc, held, sound, notified, live, healthy, clock>>

IdleEntry == [res : Resources, last_used : Nat]

Where == {"out", "waiting", "building", "holding", "releasing"}

In(place) == {c \in Clients : pc[c] = place}

\* Clients that occupy a unit of capacity that is not idle in the deque.
Users == {c \in Clients : pc[c] \in {"building", "holding", "releasing"}}

\* Clients that own a resource.
Owners == {c \in Clients : pc[c] \in {"holding", "releasing"}}

\* Waiters that nothing has signalled yet.
Asleep == In("waiting") \ notified

-----------------------------------------------------------------------------
(* Helpers of the critical sections.                                       *)

\* _decrement_total_allocated, applied k times.
Decremented(n, k) == IF n >= k THEN n - k ELSE 0

\* _can_acquire_locked, the predicate of both waits.
CanAcquire == closed \/ available # << >> \/ total < MaxSize

ExpiredLate(entry) == clock - entry.last_used > IdleTimeout
Expired(entry) == clock - entry.last_used >= IdleTimeout

\* The number k of front entries _prune_idle_locked drops: it never goes
\* below MinSize entries and stops at the first entry that is still fresh.
PruneCount(k) ==
    IF IdleTimeout = 0 \/ Len(available) <= MinSize
    THEN k = 0
    ELSE /\ k <= Len(available) - MinSize
         /\ \A i \in 1..k : Expired(available[i])
         /\ k < Len(available) - MinSize => ~Expired(available[k + 1])

\* The newest healthy entry among those left once k were pruned: acquire()
\* pops from the back and throws unhealthy entries away until it finds it.
Newest(k, h) ==
    /\ h \in (k + 1)..Len(available)
    /\ available[h].res \in healthy
    /\ \A i \in (h + 1)..Len(available) : available[i].res \notin healthy

\* No entry left once k were pruned is healthy.
NoneHealthy(k) ==
    \A i \in (k + 1)..Len(available) : available[i].res \notin healthy

ResourcesAt(I) == {available[i].res : i \in I}

\* notify_one wakes any one waiter that is still asleep, if there is one.
NotifyNobody == UNCHANGED notified
NotifyOne ==
    IF Asleep = {} THEN UNCHANGED notified
    ELSE \E w \in Asleep : notified' = notified \cup {w}

-----------------------------------------------------------------------------
(* acquire().                                                              *)

\* What stays idle when the entry at h is taken and k were pruned.
RemainingOffByOne(k, h) == SubSeq(available, k + 1, h)
Remaining(k, h) == SubSeq(available, k + 1, h - 1)

\* acquire() hands out the newest healthy idle entry, at index h, having
\* pruned k entries at the front and discarded the ones behind h.
TakeIdle(c, k, h) ==
    /\ Newest(k, h)
    /\ available' = Remaining(k, h)
    /\ total' = Decremented(total, k + (Len(available) - h))
    /\ held' = [held EXCEPT ![c] = available[h].res]
    /\ pc' = [pc EXCEPT ![c] = "holding"]
    /\ LET dropped == ResourcesAt((1..k) \cup ((h + 1)..Len(available))) IN
         /\ live' = live \ dropped
         /\ healthy' = healthy \ dropped

\* Every idle entry is pruned or discarded; what total is then decides
\* between building a resource and waiting for one.
DropAllIdle ==
    /\ available' = << >>
    /\ live' = live \ ResourcesAt(1..Len(available))
    /\ healthy' = healthy \ ResourcesAt(1..Len(available))
    /\ UNCHANGED held

TotalWithoutIdle == Decremented(total, Len(available))

MayBuildOffByOne == TotalWithoutIdle <= MaxSize
MayBuild == TotalWithoutIdle < MaxSize

StartBuilding(c, k) ==
    /\ NoneHealthy(k)
    /\ MayBuild
    /\ DropAllIdle
    /\ total' = TotalWithoutIdle + 1
    /\ pc' = [pc EXCEPT ![c] = "building"]

\* The wait's own predicate is tested first: it is false here, because the
\* deque is empty and total is at MaxSize.
StartWaiting(c, k) ==
    /\ NoneHealthy(k)
    /\ ~MayBuild
    /\ DropAllIdle
    /\ total' = TotalWithoutIdle
    /\ pc' = [pc EXCEPT ![c] = "waiting"]

ThrowClosed(c) ==
    /\ closed
    /\ pc' = [pc EXCEPT ![c] = "out"]
    /\ UNCHANGED <<available, total, held, live, healthy>>

\* One pass of acquire()'s loop, under the lock.
AcquireLoop(c) ==
    \/ ThrowClosed(c)
    \/ /\ ~closed
       /\ \E k \in 0..Len(available) :
            /\ PruneCount(k)
            /\ \/ \E h \in 1..Len(available) : TakeIdle(c, k, h)
               \/ StartBuilding(c, k)
               \/ StartWaiting(c, k)

Acquire(c) ==
    /\ pc[c] = "out"
    /\ AcquireLoop(c)
    /\ UNCHANGED <<closed, sound, notified, clock>>

\* A signalled waiter gets the mutex back.  If another client was faster its
\* predicate is false and it sleeps again, its signal spent.
Resume(c) ==
    /\ c \in notified
    /\ notified' = notified \ {c}
    /\ \/ CanAcquire /\ AcquireLoop(c)
       \/ ~CanAcquire /\ UNCHANGED <<available, total, pc, held, live, healthy>>
    /\ UNCHANGED <<closed, sound, clock>>

\* wait() may return without a signal; it matters only if the predicate holds.
SpuriousWake(c) ==
    /\ c \in Asleep
    /\ CanAcquire
    /\ AcquireLoop(c)
    /\ UNCHANGED <<closed, sound, notified, clock>>

\* wait_until() reaches the deadline: it returns the predicate, and false
\* makes acquire() throw.
Timeout(c) ==
    /\ HasTimeout
    /\ pc[c] = "waiting"
    /\ notified' = notified \ {c}
    /\ \/ CanAcquire /\ AcquireLoop(c)
       \/ /\ ~CanAcquire
          /\ pc' = [pc EXCEPT ![c] = "out"]
          /\ UNCHANGED <<available, total, held, live, healthy>>
    /\ UNCHANGED <<closed, sound, clock>>

\* factory() returns a healthy resource; acquire() returns it without taking
\* the lock again, even if the pool was closed meanwhile.
FactorySucceeds(c) ==
    /\ pc[c] = "building"
    /\ \E r \in Resources \ live :
         /\ held' = [held EXCEPT ![c] = r]
         /\ live' = live \cup {r}
         /\ healthy' = healthy \cup {r}
    /\ pc' = [pc EXCEPT ![c] = "holding"]
    /\ UNCHANGED <<closed, available, total, sound, notified, clock>>

\* factory() throws, returns null or builds an unhealthy resource.
FactoryFails(c) ==
    /\ pc[c] = "building"
    /\ total' = Decremented(total, 1)
    /\ NotifyOne
    /\ pc' = [pc EXCEPT ![c] = "out"]
    /\ UNCHANGED <<closed, available, held, sound, live, healthy, clock>>

-----------------------------------------------------------------------------
(* release(), run by the scoped_resource's destructor.                     *)

\* The health check and reset() run outside the lock; reset() may throw.
ReleaseCheck(c) ==
    /\ pc[c] = "holding"
    /\ pc' = [pc EXCEPT ![c] = "releasing"]
    /\ \E resetOk \in BOOLEAN :
         sound' = [sound EXCEPT ![c] = held[c] \in healthy /\ resetOk]
    /\ UNCHANGED <<closed, available, total, held, notified, live, healthy, clock>>

PushIdle(c) ==
    /\ available' = Append(available, [res |-> held[c], last_used |-> clock])
    /\ UNCHANGED <<total, live, healthy>>

DestroyHeldUncounted(c) ==
    /\ live' = live \ {held[c]}
    /\ healthy' = healthy \ {held[c]}
    /\ UNCHANGED <<available, total>>
DestroyHeld(c) ==
    /\ total' = Decremented(total, 1)
    /\ live' = live \ {held[c]}
    /\ healthy' = healthy \ {held[c]}
    /\ UNCHANGED available

Reject(c) == closed \/ ~sound[c] \/ total > MaxSize

\* Under the lock: the resource goes back to the deque or is destroyed.
ReleaseReturn(c) ==
    /\ pc[c] = "releasing"
    /\ IF Reject(c) THEN DestroyHeld(c) ELSE PushIdle(c)
    /\ held' = [held EXCEPT ![c] = NoResource]
    /\ pc' = [pc EXCEPT ![c] = "out"]
    /\ NotifyOne
    /\ UNCHANGED <<closed, sound, clock>>

-----------------------------------------------------------------------------
(* close(), and the world outside the pool.                                *)

NotifyAll == notified' = In("waiting")

\* A second close() changes nothing, so only the first is a step.
Close ==
    /\ ~closed
    /\ closed' = TRUE
    /\ available' = << >>
    /\ live' = live \ ResourcesAt(1..Len(available))
    /\ healthy' = healthy \ ResourcesAt(1..Len(available))
    /\ total' = 0
    /\ NotifyAll
    /\ UNCHANGED <<pc, held, sound, clock>>

\* A resource breaks, idle or in use: is_healthy() is false from now on.
Break(r) ==
    /\ r \in healthy
    /\ healthy' = healthy \ {r}
    /\ UNCHANGED <<closed, available, total, pc, held, sound, notified, live, clock>>

Tick ==
    /\ clock < MaxClock
    /\ clock' = clock + 1
    /\ UNCHANGED <<closed, available, total, pc, held, sound, notified, live, healthy>>

\* The constructor keeps only the healthy results of its MinSize factory calls.
Init ==
    /\ closed = FALSE
    /\ \E n \in 0..MinSize : \E f \in [1..n -> Resources] :
         /\ \A i, j \in 1..n : f[i] = f[j] => i = j
         /\ available = [i \in 1..n |-> [res |-> f[i], last_used |-> 0]]
         /\ total = n
         /\ live = {f[i] : i \in 1..n}
    /\ healthy = live
    /\ pc = [c \in Clients |-> "out"]
    /\ held = [c \in Clients |-> NoResource]
    /\ sound = [c \in Clients |-> FALSE]
    /\ notified = {}
    /\ clock = 0

ClientStep(c) ==
    \/ Acquire(c)
    \/ Resume(c)
    \/ SpuriousWake(c)
    \/ Timeout(c)
    \/ FactorySucceeds(c)
    \/ FactoryFails(c)
    \/ ReleaseCheck(c)
    \/ ReleaseReturn(c)

Next ==
    \/ \E c \in Clients : ClientStep(c)
    \/ Close
    \/ \E r \in Resources : Break(r)
    \/ Tick

Spec == Init /\ [][Next]_vars

\* Threads that can run do run, factory() returns, and a client that owns a
\* resource eventually lets its handle go.  Nothing makes a client call
\* acquire(), closes the pool or keeps barging clients away from the mutex.
Fairness ==
    \A c \in Clients :
        /\ WF_vars(Resume(c))
        /\ WF_vars(FactorySucceeds(c) \/ FactoryFails(c))
        /\ WF_vars(ReleaseCheck(c))
        /\ WF_vars(ReleaseReturn(c))

FairSpec == Spec /\ Fairness

-----------------------------------------------------------------------------
(* Properties.                                                             *)

\* Every variable has its type.
TypeOK ==
    /\ closed \in BOOLEAN
    /\ available \in Seq(IdleEntry)
    /\ total \in Nat
    /\ pc \in [Clients -> Where]
    /\ held \in [Clients -> Resources \cup {NoResource}]
    /\ sound \in [Clients -> BOOLEAN]
    /\ notified \in SUBSET Clients
    /\ live \in SUBSET Resources
    /\ healthy \in SUBSET live
    /\ clock \in 0..MaxClock

\* _total_allocated counts, in an open pool, exactly the idle resources, the
\* ones checked out and the ones under construction outside the lock, and it
\* never exceeds max_size; in a closed pool it is 0 and nothing is idle.
Accounting ==
    IF closed THEN total = 0 /\ available = << >>
    ELSE /\ total = Len(available) + Cardinality(Users)
         /\ total <= MaxSize

\* No lost wakeup: while a waiter sleeps unsignalled, the pool is open and
\* every unit of capacity it could take is matched by a signal still in
\* flight, so notify_one in release() and in the factory's error path is
\* enough, although acquire() discards resources without notifying anyone.
NoLostWakeup ==
    Asleep # {} => /\ ~closed
                   /\ Len(available) + (MaxSize - total) <= Cardinality(notified)

\* A resource has one owner: it is idle once, or held by one client, and a
\* live resource is never lost (each one is idle or held).
ExclusiveOwnership ==
    /\ TypeOK
    /\ \A i, j \in 1..Len(available) : available[i].res = available[j].res => i = j
    /\ \A c, d \in Owners : held[c] = held[d] => c = d
    /\ \A c \in Owners : held[c] \notin ResourcesAt(1..Len(available))
    /\ live = ResourcesAt(1..Len(available)) \cup {held[c] : c \in Owners}

\* A signal is only ever pending for a client that waits for it.
NotifiedWait == notified \subseteq In("waiting")

\* A client that owns a resource has one to give back.
OwnersHold == \A c \in Owners : held[c] \in Resources

\* The inductive invariant: accounting and wakeups hold each other up, since
\* a signal is owed for exactly the units that total says are free.
IInv == TypeOK /\ NotifiedWait /\ OwnersHold /\ Accounting /\ NoLostWakeup

\* What the pool promises, with the deque, the health checks and the waiting
\* abstracted away: a checkout is a lease from the moment total counts it.
Lease == INSTANCE LeasePool WITH leased <- Users, open <- ~closed, Limit <- MaxSize

\* The pool implements the abstract lease pool: at most max_size checkouts,
\* none begun after close().
ImplementsLease == Lease!Spec

\* Pruning from the front until the first fresh entry is exact: a step that
\* ends a call of acquire() leaves no expired entry beyond the first MinSize.
PruneExact ==
    [][\A c \in Clients :
          pc[c] \in {"out", "waiting"} /\ pc'[c] \in {"holding", "building"} /\ IdleTimeout # 0
          => \A i \in 1..Len(available') :
               clock' - available'[i].last_used >= IdleTimeout => Len(available') <= MinSize]_vars

\* A client left alone with the pool does not wait for ever: once the others
\* have stopped calling, a waiter gets a resource or an exception.
LoneWaiterProceeds ==
    \A c \in Clients :
        <>[](\A d \in Clients \ {c} : pc[d] = "out") => []<>(pc[c] # "waiting")

\* close() gets every waiter out of acquire().
CloseDrainsWaiters ==
    \A c \in Clients : (closed /\ pc[c] = "waiting") ~> pc[c] = "out"

\* No waiter is left behind in acquire(), even if its deadline never comes:
\* neither by the clients that leave the pool to it nor by close().
WaitersLeave == LoneWaiterProceeds /\ CloseDrainsWaiters

=============================================================================
