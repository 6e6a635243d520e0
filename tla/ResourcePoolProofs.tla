------------------------- MODULE ResourcePoolProofs -------------------------
(***************************************************************************)
(* The pool's accounting, the absence of lost wakeups and the refinement   *)
(* of the abstract lease pool, proved for every number of clients, every   *)
(* capacity and every timeout.                                             *)
(***************************************************************************)
EXTENDS ResourcePool, FiniteSetTheorems, TLAPS

\* Sets of clients are finite, so their cardinalities are numbers.
LEMMA ClientSetsFinite ==
    ASSUME NEW S \in SUBSET Clients
    PROVE  IsFiniteSet(S) /\ Cardinality(S) \in Nat
BY PoolAssumption, FS_Subset, FS_CardinalityType

\* A client that starts to occupy a unit makes one more user.
LEMMA OneMoreUser ==
    ASSUME TypeOK, NEW c \in Clients, pc[c] \in {"out", "waiting"},
           NEW place \in {"building", "holding"},
           pc' = [pc EXCEPT ![c] = place]
    PROVE  /\ Users' = Users \cup {c}
           /\ c \notin Users
           /\ Cardinality(Users') = Cardinality(Users) + 1
<1>1. Users' = Users \cup {c} /\ c \notin Users
  BY DEF TypeOK, Users, Where
<1>2. IsFiniteSet(Users)
  BY ClientSetsFinite DEF Users
<1>3. QED
  BY <1>1, <1>2, FS_AddElement

\* A client that gives its unit back makes one user less.
LEMMA OneUserLess ==
    ASSUME TypeOK, NEW c \in Clients, pc[c] \in {"building", "releasing"},
           pc' = [pc EXCEPT ![c] = "out"]
    PROVE  /\ Users' = Users \ {c}
           /\ c \in Users
           /\ Cardinality(Users') = Cardinality(Users) - 1
           /\ Cardinality(Users) \in Nat \ {0}
<1>1. Users' = Users \ {c} /\ c \in Users
  BY DEF TypeOK, Users, Where
<1>2. IsFiniteSet(Users) /\ Cardinality(Users) \in Nat /\ Cardinality(Users \ {c}) \in Nat
  BY ClientSetsFinite DEF Users
<1>3. Cardinality(Users \ {c}) = Cardinality(Users) - 1
  BY <1>1, <1>2, FS_RemoveElement
<1>4. QED
  BY <1>1, <1>2, <1>3

\* The three ways one pass of acquire()'s loop can end, seen through the two
\* numbers the invariant is about: how many entries are idle and how many
\* resources total counts.
Granted(c) ==
    /\ ~closed
    /\ \E place \in {"building", "holding"} : pc' = [pc EXCEPT ![c] = place]
    /\ total' - Len(available') = total - Len(available) + 1
    /\ total' <= MaxSize
PutToSleep(c) ==
    /\ ~closed
    /\ pc' = [pc EXCEPT ![c] = "waiting"]
    /\ available' = << >>
    /\ total' = MaxSize
    /\ total' = total - Len(available)
ThrownOut(c) ==
    /\ closed
    /\ pc' = [pc EXCEPT ![c] = "out"]
    /\ UNCHANGED <<available, total, held, live, healthy>>

\* What a pass of acquire()'s loop does to the count and to its client.
LEMMA AcquireLoopEffect ==
    ASSUME IInv, NEW c \in Clients, AcquireLoop(c)
    PROVE  /\ available' \in Seq(IdleEntry) /\ total' \in Nat
           /\ held' \in [Clients -> Resources \cup {NoResource}]
           /\ \A d \in Clients : d # c => held'[d] = held[d]
           /\ pc'[c] = "holding" => held'[c] \in Resources
           /\ live' \in SUBSET Resources /\ healthy' \in SUBSET live'
           /\ Granted(c) \/ PutToSleep(c) \/ ThrownOut(c)
<1> USE PoolAssumption
<1>1. /\ available \in Seq(IdleEntry) /\ Len(available) \in Nat /\ total \in Nat
      /\ held \in [Clients -> Resources \cup {NoResource}]
      /\ pc \in [Clients -> Where]
      /\ live \in SUBSET Resources /\ healthy \in SUBSET live
  BY DEF IInv, TypeOK
<1>2. ~closed => total >= Len(available) /\ total <= MaxSize
  <2>1. Cardinality(Users) \in Nat
    BY ClientSetsFinite DEF Users
  <2>2. QED
    BY <1>1, <2>1 DEF IInv, Accounting
<1>3. CASE ThrowClosed(c)
  BY <1>1, <1>3 DEF ThrowClosed, ThrownOut
<1>4. CASE /\ ~closed
           /\ \E k \in 0..Len(available) : \E h \in 1..Len(available) : TakeIdle(c, k, h)
  <2>1. PICK k \in 0..Len(available), h \in 1..Len(available) : TakeIdle(c, k, h)
    BY <1>4
  <2>2. h > k /\ k \in Nat /\ h \in Nat
    BY <2>1, <1>1 DEF TakeIdle, Newest
  <2>3. /\ available' = SubSeq(available, k + 1, h - 1)
        /\ Len(available') = h - 1 - k
        /\ available' \in Seq(IdleEntry)
    BY <1>1, <2>1, <2>2 DEF TakeIdle, Remaining
  <2>4. available[h].res \in Resources
    <3>1. available[h] \in IdleEntry
      BY <1>1
    <3>2. QED
      BY <3>1 DEF IdleEntry
  <2>5. total' = total - (k + (Len(available) - h))
    BY <1>1, <1>2, <1>4, <2>1, <2>2 DEF TakeIdle, Decremented
  <2>6. Granted(c)
    BY <1>1, <1>2, <1>4, <2>1, <2>2, <2>3, <2>5 DEF TakeIdle, Granted
  <2>7. QED
    BY <1>1, <1>2, <1>4, <2>1, <2>2, <2>3, <2>4, <2>5, <2>6 DEF TakeIdle
<1>5. CASE ~closed /\ \E k \in 0..Len(available) : StartBuilding(c, k)
  <2>1. /\ TotalWithoutIdle = total - Len(available)
        /\ available' = << >> /\ Len(available') = 0 /\ available' \in Seq(IdleEntry)
    BY <1>1, <1>2, <1>5 DEF StartBuilding, DropAllIdle, TotalWithoutIdle, Decremented
  <2>2. Granted(c)
    BY <1>1, <1>2, <1>5, <2>1 DEF StartBuilding, MayBuild, Granted
  <2>3. pc'[c] # "holding"
    BY <1>1, <1>5 DEF StartBuilding
  <2>4. QED
    BY <1>1, <1>2, <1>5, <2>1, <2>2, <2>3 DEF StartBuilding, DropAllIdle
<1>6. CASE ~closed /\ \E k \in 0..Len(available) : StartWaiting(c, k)
  <2>1. /\ TotalWithoutIdle = total - Len(available)
        /\ available' = << >> /\ Len(available') = 0 /\ available' \in Seq(IdleEntry)
    BY <1>1, <1>2, <1>6 DEF StartWaiting, DropAllIdle, TotalWithoutIdle, Decremented
  <2>2. PutToSleep(c)
    BY <1>1, <1>2, <1>6, <2>1 DEF StartWaiting, MayBuild, PutToSleep
  <2>3. pc'[c] # "holding"
    BY <1>1, <1>6 DEF StartWaiting
  <2>4. QED
    BY <1>1, <1>2, <1>6, <2>1, <2>2, <2>3 DEF StartWaiting, DropAllIdle
<1>7. QED
  BY <1>3, <1>4, <1>5, <1>6 DEF AcquireLoop

\* A pass of the loop keeps the invariant, for a caller that just arrived or
\* that was waiting; a waiter spends its signal, if it has one.
LEMMA AcquireLoopKeepsIInv ==
    ASSUME IInv, NEW c \in Clients, pc[c] \in {"out", "waiting"}, AcquireLoop(c),
           notified' = notified \ {c}, UNCHANGED <<closed, sound, clock>>
    PROVE  IInv'
<1> USE PoolAssumption
<1>1. /\ TypeOK /\ pc \in [Clients -> Where] /\ total \in Nat
      /\ Len(available) \in Nat /\ notified \subseteq In("waiting") /\ In("waiting") \subseteq Clients
  BY DEF IInv, TypeOK, NotifiedWait, In
<1>2. /\ available' \in Seq(IdleEntry) /\ Len(available') \in Nat /\ total' \in Nat
      /\ held' \in [Clients -> Resources \cup {NoResource}]
      /\ \A d \in Clients : d # c => held'[d] = held[d]
      /\ pc'[c] = "holding" => held'[c] \in Resources
      /\ live' \in SUBSET Resources /\ healthy' \in SUBSET live'
      /\ Granted(c) \/ PutToSleep(c) \/ ThrownOut(c)
  BY AcquireLoopEffect
<1>3. /\ Cardinality(Users) \in Nat /\ Cardinality(notified) \in Nat /\ IsFiniteSet(notified)
      /\ Cardinality(notified') \in Nat
  BY <1>1, ClientSetsFinite DEF Users
<1>4. Cardinality(notified') >= Cardinality(notified) - 1
  <2>1. Cardinality(notified \ {c}) = IF c \in notified THEN Cardinality(notified) - 1
                                      ELSE Cardinality(notified)
    BY <1>3, FS_RemoveElement
  <2>2. QED
    BY <1>3, <2>1
<1>5. TypeOK'
  BY <1>1, <1>2 DEF TypeOK, Granted, PutToSleep, ThrownOut, Where
<1>6. NotifiedWait'
  BY <1>1, <1>2 DEF NotifiedWait, In, Granted, PutToSleep, ThrownOut
<1>7. OwnersHold'
  BY <1>1, <1>2 DEF IInv, OwnersHold, Owners, Granted, PutToSleep, ThrownOut
<1>8. CASE Granted(c)
  <2>1. Cardinality(Users') = Cardinality(Users) + 1
    BY <1>1, <1>8, OneMoreUser DEF Granted
  <2>2. Accounting'
    BY <1>1, <1>2, <1>3, <1>8, <2>1 DEF IInv, Accounting, Granted
  <2>3. Asleep' \subseteq Asleep
    BY <1>1, <1>8 DEF Asleep, In, Granted
  <2>4. NoLostWakeup'
    BY <1>1, <1>2, <1>3, <1>4, <1>8, <2>3 DEF IInv, NoLostWakeup, Granted
  <2>5. QED
    BY <1>5, <1>6, <1>7, <2>2, <2>4 DEF IInv
<1>9. CASE PutToSleep(c)
  <2>1. Users' = Users
    BY <1>1, <1>9 DEF Users, PutToSleep
  <2>2. Len(available') = 0
    BY <1>9 DEF PutToSleep
  <2>3. Accounting'
    BY <1>1, <1>2, <1>3, <1>9, <2>1, <2>2 DEF IInv, Accounting, PutToSleep
  <2>4. NoLostWakeup'
    BY <1>2, <1>3, <1>9, <2>2 DEF NoLostWakeup, PutToSleep
  <2>5. QED
    BY <1>5, <1>6, <1>7, <2>3, <2>4 DEF IInv
<1>10. CASE ThrownOut(c)
  <2>1. Accounting'
    BY <1>10 DEF IInv, Accounting, ThrownOut
  <2>2. NoLostWakeup'
    BY <1>1, <1>10 DEF IInv, NoLostWakeup, Asleep, In, ThrownOut
  <2>3. QED
    BY <1>5, <1>6, <1>7, <2>1, <2>2 DEF IInv
<1>11. QED
  BY <1>2, <1>8, <1>9, <1>10

\* A client gives its unit back, whether the resource returns to the deque
\* or is destroyed, and one waiter is notified.
GivenBack(c) ==
    /\ pc[c] \in {"building", "releasing"}
    /\ pc' = [pc EXCEPT ![c] = "out"]
    /\ NotifyOne
    /\ UNCHANGED <<closed, sound, clock>>
    /\ available' \in Seq(IdleEntry) /\ Len(available') \in Nat /\ total' \in Nat
    /\ held' \in [Clients -> Resources \cup {NoResource}]
    /\ \A d \in Clients : d # c => held'[d] = held[d]
    /\ live' \in SUBSET Resources /\ healthy' \in SUBSET live'
    /\ closed => total' = 0 /\ available' = << >>
    /\ ~closed => /\ total' - Len(available') = total - Len(available) - 1
                  /\ total' <= total

\* A unit given back together with notify_one() keeps the invariant.
LEMMA GiveBackKeepsIInv ==
    ASSUME IInv, NEW c \in Clients, GivenBack(c)
    PROVE  IInv'
<1> USE PoolAssumption DEF GivenBack
<1>1. /\ TypeOK /\ pc \in [Clients -> Where] /\ total \in Nat
      /\ Len(available) \in Nat /\ notified \subseteq In("waiting") /\ In("waiting") \subseteq Clients
  BY DEF IInv, TypeOK, NotifiedWait, In
<1>2. /\ IsFiniteSet(notified) /\ Cardinality(notified) \in Nat
      /\ Cardinality(Users) \in Nat \ {0}
      /\ Cardinality(Users') = Cardinality(Users) - 1
  BY <1>1, ClientSetsFinite, OneUserLess
<1>3. In("waiting")' = In("waiting")
  BY <1>1 DEF In
<1>4. \/ Asleep' = {}
      \/ Asleep # {} /\ Cardinality(notified') = Cardinality(notified) + 1
  <2>1. CASE Asleep = {}
    BY <1>3, <2>1 DEF NotifyOne, Asleep
  <2>2. CASE Asleep # {}
    <3>1. PICK w \in Asleep : notified' = notified \cup {w}
      BY <2>2 DEF NotifyOne
    <3>2. w \notin notified
      BY DEF Asleep
    <3>3. QED
      BY <1>2, <2>2, <3>1, <3>2, FS_AddElement
  <2>3. QED
    BY <2>1, <2>2
<1>5. NotifiedWait'
  BY <1>1, <1>3 DEF NotifyOne, NotifiedWait, Asleep
<1>6. TypeOK'
  BY <1>1, <1>5 DEF TypeOK, Where, NotifiedWait, In
<1>7. OwnersHold'
  BY <1>1 DEF IInv, OwnersHold, Owners
<1>8. Accounting'
  BY <1>1, <1>2 DEF IInv, Accounting
<1>9. NoLostWakeup'
  BY <1>1, <1>2, <1>3, <1>4 DEF IInv, NoLostWakeup
<1>10. QED
  BY <1>5, <1>6, <1>7, <1>8, <1>9 DEF IInv

\* The invariant holds of the pool as constructed.
LEMMA InitIInv == Init => IInv
<1> SUFFICES ASSUME Init PROVE IInv
  OBVIOUS
<1> USE PoolAssumption
<1>a. PICK n \in 0..MinSize : \E f \in [1..n -> Resources] :
        /\ available = [i \in 1..n |-> [res |-> f[i], last_used |-> 0]]
        /\ total = n
        /\ live = {f[i] : i \in 1..n}
  BY DEF Init
<1>1. PICK f \in [1..n -> Resources] :
        /\ available = [i \in 1..n |-> [res |-> f[i], last_used |-> 0]]
        /\ total = n
        /\ live = {f[i] : i \in 1..n}
  BY <1>a
<1>2. available \in Seq(IdleEntry) /\ Len(available) = n
  BY <1>1 DEF IdleEntry
<1>3. Users = {} /\ Owners = {} /\ Asleep = {}
  BY DEF Init, Users, Owners, Asleep, In
<1>4. Cardinality(Users) = 0
  BY <1>3, FS_EmptySet
<1>5. TypeOK
  <2>1. live \in SUBSET Resources /\ total \in Nat
    BY <1>1
  <2>2. /\ closed = FALSE /\ healthy = live /\ notified = {} /\ clock = 0
        /\ pc = [c \in Clients |-> "out"]
        /\ held = [c \in Clients |-> NoResource]
        /\ sound = [c \in Clients |-> FALSE]
    BY DEF Init
  <2>3. sound \in [Clients -> BOOLEAN]
    BY <2>2, Zenon
  <2>4. pc \in [Clients -> Where] /\ held \in [Clients -> Resources \cup {NoResource}]
    BY <2>2 DEF Where
  <2>5. closed \in BOOLEAN
    BY <2>2, Zenon
  <2>6. clock \in 0..MaxClock
    BY <2>2
  <2>7. QED
    BY <1>2, <2>1, <2>2, <2>3, <2>4, <2>5, <2>6 DEF TypeOK
<1>6. Accounting
  BY <1>1, <1>2, <1>4 DEF Init, Accounting
<1>7. QED
  BY <1>3, <1>5, <1>6 DEF Init, IInv, NotifiedWait, OwnersHold, NoLostWakeup

\* Every step of the pool keeps the inductive invariant.
LEMMA NextIInv == IInv /\ [Next]_vars => IInv'
<1> SUFFICES ASSUME IInv, [Next]_vars PROVE IInv'
  OBVIOUS
<1> USE PoolAssumption
<1>1. /\ TypeOK /\ pc \in [Clients -> Where] /\ total \in Nat
      /\ available \in Seq(IdleEntry) /\ Len(available) \in Nat
      /\ notified \subseteq In("waiting") /\ In("waiting") \subseteq Clients
  BY DEF IInv, TypeOK, NotifiedWait, In
<1>2. Cardinality(Users) \in Nat /\ Cardinality(notified) \in Nat
  BY <1>1, ClientSetsFinite DEF Users
<1>3. ASSUME NEW c \in Clients, Acquire(c) PROVE IInv'
  <2>1. notified' = notified \ {c} /\ pc[c] = "out"
    BY <1>1, <1>3 DEF Acquire, In
  <2>2. QED
    BY <1>3, <2>1, AcquireLoopKeepsIInv DEF Acquire
<1>4. ASSUME NEW c \in Clients, Resume(c) PROVE IInv'
  <2>1. pc[c] = "waiting"
    BY <1>1, <1>4 DEF Resume, In
  <2>2. CASE CanAcquire
    BY <1>4, <2>1, <2>2, AcquireLoopKeepsIInv DEF Resume
  <2>3. CASE ~CanAcquire
    <3>1. /\ notified' = notified \ {c}
          /\ UNCHANGED <<closed, available, total, pc, held, sound, live, healthy, clock>>
      BY <1>4, <2>3 DEF Resume
    <3>2. Len(available) = 0 /\ total >= MaxSize /\ ~closed
      BY <1>1, <2>3 DEF CanAcquire
    <3>3. total = MaxSize
      BY <1>1, <3>2 DEF IInv, Accounting
    <3>4. Cardinality(notified') \in Nat
      BY <1>1, <3>1, ClientSetsFinite
    <3>5. NoLostWakeup'
      BY <3>1, <3>2, <3>3, <3>4 DEF NoLostWakeup
    <3>6. TypeOK' /\ NotifiedWait' /\ OwnersHold' /\ Accounting'
      BY <3>1 DEF IInv, TypeOK, NotifiedWait, In, OwnersHold, Owners, Accounting, Users
    <3>7. QED
      BY <3>5, <3>6 DEF IInv
  <2>4. QED
    BY <2>2, <2>3
<1>5. ASSUME NEW c \in Clients, SpuriousWake(c) PROVE IInv'
  <2>1. notified' = notified \ {c} /\ pc[c] = "waiting"
    BY <1>5 DEF SpuriousWake, Asleep, In
  <2>2. QED
    BY <1>5, <2>1, AcquireLoopKeepsIInv DEF SpuriousWake
<1>6. ASSUME NEW c \in Clients, Timeout(c) PROVE IInv'
  <2>1. CASE CanAcquire
    BY <1>6, <2>1, AcquireLoopKeepsIInv DEF Timeout
  <2>2. CASE ~CanAcquire
    <3>1. /\ notified' = notified \ {c} /\ pc' = [pc EXCEPT ![c] = "out"] /\ pc[c] = "waiting"
          /\ UNCHANGED <<closed, available, total, held, sound, live, healthy, clock>>
      BY <1>6, <2>2 DEF Timeout
    <3>2. Len(available) = 0 /\ total >= MaxSize /\ ~closed
      BY <1>1, <2>2 DEF CanAcquire
    <3>3. total = MaxSize
      BY <1>1, <3>2 DEF IInv, Accounting
    <3>4. Cardinality(notified') \in Nat
      BY <1>1, <3>1, ClientSetsFinite
    <3>5. NoLostWakeup'
      BY <3>1, <3>2, <3>3, <3>4 DEF NoLostWakeup
    <3>6. Users' = Users /\ Owners' = Owners
      BY <1>1, <3>1 DEF Users, Owners
    <3>7. Accounting' /\ OwnersHold'
      BY <3>1, <3>6 DEF IInv, Accounting, OwnersHold
    <3>8. TypeOK' /\ NotifiedWait'
      BY <1>1, <3>1 DEF IInv, TypeOK, NotifiedWait, In, Where
    <3>9. QED
      BY <3>5, <3>7, <3>8 DEF IInv
  <2>3. QED
    BY <2>1, <2>2
<1>7. ASSUME NEW c \in Clients, FactorySucceeds(c) PROVE IInv'
  <2>1. Users' = Users /\ Asleep' = Asleep /\ In("waiting")' = In("waiting")
    BY <1>1, <1>7 DEF FactorySucceeds, Users, Asleep, In
  <2>2. TypeOK'
    BY <1>1, <1>7 DEF FactorySucceeds, TypeOK, Where
  <2>3. OwnersHold'
    BY <1>1, <1>7 DEF IInv, FactorySucceeds, OwnersHold, Owners, TypeOK
  <2>4. QED
    BY <1>7, <2>1, <2>2, <2>3
       DEF FactorySucceeds, IInv, Accounting, NoLostWakeup, NotifiedWait
<1>8. ASSUME NEW c \in Clients, FactoryFails(c) PROVE IInv'
  <2>1. Cardinality(Users) \in Nat \ {0}
    BY <1>1, <1>8, OneUserLess DEF FactoryFails
  <2>2. /\ total' \in Nat
        /\ closed => total' = 0
        /\ ~closed => total' = total - 1
    BY <1>1, <1>8, <2>1 DEF FactoryFails, Decremented, IInv, Accounting
  <2>3. /\ held' \in [Clients -> Resources \cup {NoResource}] /\ held' = held
        /\ live' \in SUBSET Resources /\ healthy' \in SUBSET live'
        /\ available' = available
        /\ closed => available = << >>
    BY <1>1, <1>8 DEF FactoryFails, TypeOK, IInv, Accounting
  <2>4. GivenBack(c)
    <3>1. UNCHANGED <<closed, sound, clock>> /\ NotifyOne
      BY <1>8 DEF FactoryFails
    <3>2. pc[c] = "building" /\ pc' = [pc EXCEPT ![c] = "out"]
      BY <1>8 DEF FactoryFails
    <3>3. QED
      BY <1>1, <2>2, <2>3, <3>1, <3>2 DEF GivenBack
  <2>5. QED
    BY <2>4, GiveBackKeepsIInv
<1>9. ASSUME NEW c \in Clients, ReleaseCheck(c) PROVE IInv'
  <2>1. Users' = Users /\ Asleep' = Asleep /\ In("waiting")' = In("waiting") /\ Owners' = Owners
    BY <1>1, <1>9 DEF ReleaseCheck, Users, Asleep, In, Owners
  <2>2. TypeOK'
    BY <1>1, <1>9 DEF ReleaseCheck, TypeOK, Where
  <2>3. QED
    BY <1>9, <2>1, <2>2
       DEF ReleaseCheck, IInv, Accounting, NoLostWakeup, NotifiedWait, OwnersHold
<1>10. ASSUME NEW c \in Clients, ReleaseReturn(c) PROVE IInv'
  <2>1. Cardinality(Users) \in Nat \ {0}
    BY <1>1, <1>10, OneUserLess DEF ReleaseReturn
  <2>2. held[c] \in Resources
    BY <1>10 DEF ReleaseReturn, IInv, OwnersHold, Owners
  <2>3. /\ held' \in [Clients -> Resources \cup {NoResource}]
        /\ \A d \in Clients : d # c => held'[d] = held[d]
    BY <1>1, <1>10 DEF ReleaseReturn, TypeOK
  <2>4. ASSUME Reject(c) PROVE GivenBack(c)
    <3>1. /\ total' \in Nat
          /\ closed => total' = 0
          /\ ~closed => total' = total - 1
      BY <1>1, <1>10, <2>1, <2>4 DEF ReleaseReturn, DestroyHeld, Decremented, IInv, Accounting
    <3>2. /\ live' \in SUBSET Resources /\ healthy' \in SUBSET live'
          /\ available' = available
      BY <1>1, <1>10, <2>4 DEF ReleaseReturn, DestroyHeld, TypeOK
    <3>3. QED
      BY <1>1, <1>10, <2>3, <3>1, <3>2 DEF ReleaseReturn, GivenBack, IInv, Accounting
  <2>5. ASSUME ~Reject(c) PROVE GivenBack(c)
    <3>1. [res |-> held[c], last_used |-> clock] \in IdleEntry
      BY <1>1, <2>2 DEF TypeOK, IdleEntry
    <3>2. /\ available' \in Seq(IdleEntry) /\ Len(available') = Len(available) + 1
      BY <1>1, <1>10, <2>5, <3>1 DEF ReleaseReturn, PushIdle
    <3>3. /\ total' = total /\ ~closed
          /\ live' \in SUBSET Resources /\ healthy' \in SUBSET live'
      BY <1>1, <1>10, <2>5 DEF ReleaseReturn, PushIdle, Reject, TypeOK
    <3>4. QED
      BY <1>1, <1>10, <2>3, <3>2, <3>3 DEF ReleaseReturn, GivenBack
  <2>6. QED
    BY <2>4, <2>5, GiveBackKeepsIInv
<1>11. CASE Close
  <2>1. Asleep' = {} /\ Owners' = Owners /\ NotifiedWait'
    BY <1>11 DEF Close, NotifyAll, Asleep, In, Owners, NotifiedWait
  <2>2. TypeOK'
    BY <1>1, <1>11 DEF Close, NotifyAll, TypeOK, ResourcesAt
  <2>3. QED
    BY <1>11, <2>1, <2>2 DEF Close, IInv, Accounting, NoLostWakeup, OwnersHold
<1>12. ASSUME NEW r \in Resources, Break(r) PROVE IInv'
  BY <1>1, <1>12 DEF Break, IInv, TypeOK, NotifiedWait, In, OwnersHold, Owners,
                     Accounting, Users, NoLostWakeup, Asleep
<1>13. CASE Tick
  BY <1>1, <1>13 DEF Tick, IInv, TypeOK, NotifiedWait, In, OwnersHold, Owners,
                     Accounting, Users, NoLostWakeup, Asleep
<1>14. CASE UNCHANGED vars
  BY <1>1, <1>14 DEF vars, IInv, TypeOK, NotifiedWait, In, OwnersHold, Owners,
                     Accounting, Users, NoLostWakeup, Asleep
<1>15. QED
  BY <1>3, <1>4, <1>5, <1>6, <1>7, <1>8, <1>9, <1>10, <1>11, <1>12, <1>13, <1>14
     DEF Next, ClientStep

\* The inductive invariant holds in every reachable state of the pool.
THEOREM PoolInvariant == Spec => []IInv
<1>1. Init => IInv
  BY InitIInv
<1>2. IInv /\ [Next]_vars => IInv'
  BY NextIInv
<1>3. QED
  BY <1>1, <1>2, PTL DEF Spec

\* Every variable of the pool keeps its type; total never underflows.
THEOREM PoolTypeOK == Spec => []TypeOK
<1>1. IInv => TypeOK
  BY DEF IInv
<1>2. QED
  BY <1>1, PoolInvariant, PTL

\* _total_allocated is exact and bounded by max_size until close(), whatever
\* the interleaving of acquire(), factory(), release() and close().
THEOREM PoolAccounting == Spec => []Accounting
<1>1. IInv => Accounting
  BY DEF IInv
<1>2. QED
  BY <1>1, PoolInvariant, PTL

\* No interleaving of notify_one, barging, timeouts, discarded resources and
\* failing factories leaves free capacity to a waiter nobody will wake.
THEOREM PoolNoLostWakeup == Spec => []NoLostWakeup
<1>1. IInv => NoLostWakeup
  BY DEF IInv
<1>2. QED
  BY <1>1, PoolInvariant, PTL

\* A pass of acquire()'s loop is a grant of the abstract pool, or nothing.
LEMMA AcquireLoopIsLease ==
    ASSUME IInv, NEW c \in Clients, pc[c] \in {"out", "waiting"}, AcquireLoop(c),
           closed' = closed
    PROVE  Lease!Grant(c) \/ UNCHANGED <<Users, closed>>
<1> USE PoolAssumption
<1>1. /\ TypeOK /\ Len(available) \in Nat /\ total \in Nat
      /\ Len(available') \in Nat /\ total' \in Nat
      /\ Granted(c) \/ PutToSleep(c) \/ ThrownOut(c)
  BY AcquireLoopEffect DEF IInv, TypeOK
<1>2. CASE Granted(c)
  <2>1. /\ Users' = Users \cup {c} /\ c \notin Users
    BY <1>1, <1>2, OneMoreUser DEF Granted
  <2>2. Cardinality(Users) \in Nat
    BY ClientSetsFinite DEF Users
  <2>3. Cardinality(Users) < MaxSize
    BY <1>1, <1>2, <2>2 DEF IInv, Accounting, Granted
  <2>4. ~closed /\ (~closed)' = ~closed
    BY <1>2, Zenon DEF Granted
  <2>5. Lease!Cardinality(Users) = Cardinality(Users)
    BY DEF Lease!Cardinality, Cardinality
  <2>6. Lease!Grant(c)
    BY <2>1, <2>3, <2>4, <2>5, Zenon DEF Lease!Grant
  <2>7. QED
    BY <2>6
<1>3. CASE PutToSleep(c) \/ ThrownOut(c)
  <2>1. pc \in [Clients -> Where]
    BY <1>1 DEF TypeOK
  <2>2. Users' = Users
    BY <1>3, <2>1 DEF PutToSleep, ThrownOut, Users
  <2>3. QED
    BY <2>2
<1>4. QED
  BY <1>1, <1>2, <1>3

\* The pool implements the abstract lease pool: clients never hold more than
\* max_size leases and none starts after close().
THEOREM PoolImplementsLease == Spec => ImplementsLease
<1>1. Init => Lease!Init
  BY DEF Init, Lease!Init, Users
<1>2. IInv /\ [Next]_vars => [Lease!Next]_(Lease!leaseVars)
  <2> SUFFICES ASSUME IInv, [Next]_vars PROVE Lease!Next \/ UNCHANGED <<Users, closed>>
    BY DEF Lease!leaseVars
  <2>1. TypeOK /\ pc \in [Clients -> Where] /\ notified \subseteq In("waiting")
    BY DEF IInv, TypeOK, NotifiedWait
  <2>2. ASSUME NEW c \in Clients, ClientStep(c)
        PROVE  Lease!Grant(c) \/ Lease!Return(c) \/ UNCHANGED <<Users, closed>>
    <3>1. CASE Acquire(c)
      BY <3>1, AcquireLoopIsLease DEF Acquire
    <3>2. CASE Resume(c)
      <4>1. pc[c] = "waiting"
        BY <2>1, <3>2 DEF Resume, In
      <4>2. CASE AcquireLoop(c)
        BY <3>2, <4>1, <4>2, AcquireLoopIsLease DEF Resume
      <4>3. CASE UNCHANGED pc
        BY <3>2, <4>3 DEF Resume, Users
      <4>4. QED
        BY <3>2, <4>2, <4>3 DEF Resume
    <3>3. CASE SpuriousWake(c)
      BY <3>3, AcquireLoopIsLease DEF SpuriousWake, Asleep, In
    <3>4. CASE Timeout(c)
      <4>1. CASE AcquireLoop(c)
        BY <3>4, <4>1, AcquireLoopIsLease DEF Timeout
      <4>2. CASE pc' = [pc EXCEPT ![c] = "out"]
        BY <2>1, <3>4, <4>2 DEF Timeout, Users
      <4>3. QED
        BY <3>4, <4>1, <4>2 DEF Timeout
    <3>5. CASE FactorySucceeds(c) \/ ReleaseCheck(c)
      BY <2>1, <3>5 DEF FactorySucceeds, ReleaseCheck, Users
    <3>6. CASE FactoryFails(c) \/ ReleaseReturn(c)
      <4>1. Users' = Users \ {c} /\ c \in Users
        BY <2>1, <3>6, OneUserLess DEF FactoryFails, ReleaseReturn
      <4>2. QED
        BY <3>6, <4>1 DEF FactoryFails, ReleaseReturn, Lease!Return
    <3>7. QED
      BY <2>2, <3>1, <3>2, <3>3, <3>4, <3>5, <3>6 DEF ClientStep
  <2>3. CASE Close
    BY <2>3 DEF Close, Users, Lease!Next, Lease!Shut
  <2>4. CASE (\E r \in Resources : Break(r)) \/ Tick \/ UNCHANGED vars
    BY <2>4 DEF Break, Tick, vars, Users
  <2>5. QED
    BY <2>2, <2>3, <2>4 DEF Next, Lease!Next
<1>3. QED
  BY <1>1, <1>2, PoolInvariant, PTL DEF Spec, ImplementsLease, Lease!Spec

\* A pass of acquire()'s loop hands its client an idle resource that nobody
\* else owns, or leaves every owner what it has.
LEMMA AcquireLoopKeepsOwnership ==
    ASSUME IInv, TypeOK', ExclusiveOwnership, NEW c \in Clients,
           pc[c] \in {"out", "waiting"}, AcquireLoop(c)
    PROVE  ExclusiveOwnership'
<1> USE PoolAssumption
<1>1. /\ available \in Seq(IdleEntry) /\ Len(available) \in Nat
      /\ pc \in [Clients -> Where]
      /\ held \in [Clients -> Resources \cup {NoResource}]
  BY DEF IInv, TypeOK
<1>2. c \notin Owners
  BY <1>1 DEF Owners, Where
<1>3. CASE ThrowClosed(c)
  <2>1. Owners' = Owners /\ available' = available /\ held' = held /\ live' = live
    BY <1>1, <1>2, <1>3 DEF ThrowClosed, Owners
  <2>2. QED
    BY <2>1 DEF ExclusiveOwnership, ResourcesAt
<1>4. ASSUME NEW k \in 0..Len(available), NEW h \in 1..Len(available), TakeIdle(c, k, h)
      PROVE  ExclusiveOwnership'
  <2>1. /\ h > k /\ k \in Nat /\ h \in Nat /\ h <= Len(available)
        /\ available' = SubSeq(available, k + 1, h - 1)
        /\ held' = [held EXCEPT ![c] = available[h].res]
        /\ pc' = [pc EXCEPT ![c] = "holding"]
        /\ live' = live \ ResourcesAt((1..k) \cup ((h + 1)..Len(available)))
    BY <1>1, <1>4 DEF TakeIdle, Newest, Remaining
  <2>2. /\ Len(available') = h - 1 - k
        /\ \A i \in 1..Len(available') : available'[i] = available[k + i]
    <3>1. Len(available') = h - 1 - k
      BY <1>1, <2>1
    <3>2. ASSUME NEW i \in 1..Len(available') PROVE available'[i] = available[k + i]
      <4>1. i \in 1..((h - 1) - (k + 1) + 1)
        BY <2>1, <3>1
      <4>2. available'[i] = available[(k + 1) + i - 1]
        BY <2>1, <4>1
      <4>3. (k + 1) + i - 1 = k + i
        BY <2>1
      <4>4. QED
        BY <4>2, <4>3
    <3>3. QED
      BY <3>1, <3>2
  <2>3. /\ Owners' = Owners \cup {c}
        /\ held'[c] = available[h].res
        /\ \A d \in Owners : held'[d] = held[d]
    BY <1>1, <1>2, <2>1 DEF Owners
  <2>4. \A i \in 1..Len(available') : k + i \in (k + 1)..(h - 1) /\ k + i \in 1..Len(available)
    BY <2>1, <2>2
  <2>5. \A i, j \in 1..Len(available') : available'[i].res = available'[j].res => i = j
    <3> SUFFICES ASSUME NEW i \in 1..Len(available'), NEW j \in 1..Len(available'),
                        available'[i].res = available'[j].res
                 PROVE  i = j
      OBVIOUS
    <3>1. k + i = k + j
      BY <2>2, <2>4 DEF ExclusiveOwnership
    <3>2. i \in Int /\ j \in Int
      OBVIOUS
    <3>3. QED
      BY <2>1, <3>1, <3>2
  <2>6. ResourcesAt(1..Len(available))' = ResourcesAt((k + 1)..(h - 1))
    <3>1. ASSUME NEW i \in (k + 1)..(h - 1)
          PROVE  i - k \in 1..Len(available') /\ available'[i - k] = available[i]
      BY <2>1, <2>2
    <3>2. ResourcesAt(1..Len(available))' = {available'[i].res : i \in 1..Len(available')}
      BY DEF ResourcesAt
    <3>3. ResourcesAt(1..Len(available))' \subseteq ResourcesAt((k + 1)..(h - 1))
      BY <2>2, <2>4, <3>2 DEF ResourcesAt
    <3>4. ResourcesAt((k + 1)..(h - 1)) \subseteq ResourcesAt(1..Len(available))'
      BY <3>1, <3>2 DEF ResourcesAt
    <3>5. QED
      BY <3>3, <3>4
  <2>7. available[h].res \notin ResourcesAt((k + 1)..(h - 1))
    <3>1. \A i \in (k + 1)..(h - 1) : i \in 1..Len(available) /\ i # h
      BY <1>1, <2>1
    <3>2. QED
      BY <3>1 DEF ExclusiveOwnership, ResourcesAt
  <2>8. ResourcesAt((k + 1)..(h - 1)) \subseteq ResourcesAt(1..Len(available))
    BY <2>1 DEF ResourcesAt
  <2>9. \A d \in Owners : held[d] # available[h].res
    BY DEF ExclusiveOwnership, ResourcesAt
  <2>10. \A d, e \in Owners' : held'[d] = held'[e] => d = e
    BY <2>3, <2>9 DEF ExclusiveOwnership
  <2>11. \A d \in Owners' : held'[d] \notin ResourcesAt(1..Len(available))'
    BY <2>3, <2>6, <2>7, <2>8 DEF ExclusiveOwnership
  <2>12. live' = ResourcesAt(1..Len(available))' \cup {held'[d] : d \in Owners'}
    <3>1. ResourcesAt(1..Len(available)) =
            ResourcesAt((k + 1)..(h - 1)) \cup {available[h].res}
              \cup ResourcesAt((1..k) \cup ((h + 1)..Len(available)))
      BY <1>1, <2>1 DEF ResourcesAt
    <3>2. ASSUME NEW i \in (1..k) \cup ((h + 1)..Len(available))
          PROVE  /\ available[i].res # available[h].res
                 /\ available[i].res \notin ResourcesAt((k + 1)..(h - 1))
      <4>1. i \in 1..Len(available) /\ i # h
        BY <1>1, <2>1
      <4>2. \A j \in (k + 1)..(h - 1) : j \in 1..Len(available) /\ i # j
        BY <1>1, <2>1
      <4>3. QED
        BY <4>1, <4>2 DEF ExclusiveOwnership, ResourcesAt
    <3>3. /\ available[h].res \notin ResourcesAt((1..k) \cup ((h + 1)..Len(available)))
          /\ ResourcesAt((k + 1)..(h - 1)) \cap ResourcesAt((1..k) \cup ((h + 1)..Len(available))) = {}
      BY <3>2 DEF ResourcesAt
    <3>4. \A d \in Owners : held[d] \notin ResourcesAt((1..k) \cup ((h + 1)..Len(available)))
      <4>1. ResourcesAt((1..k) \cup ((h + 1)..Len(available))) \subseteq ResourcesAt(1..Len(available))
        BY <3>1
      <4>2. QED
        BY <4>1 DEF ExclusiveOwnership
    <3>5. {held'[d] : d \in Owners'} = {held[d] : d \in Owners} \cup {available[h].res}
      BY <2>3
    <3>6. live = ResourcesAt(1..Len(available)) \cup {held[d] : d \in Owners}
      BY DEF ExclusiveOwnership
    <3>7. ASSUME NEW D, NEW K, NEW O, NEW t, t \notin D, K \cap D = {}, \A o \in O : o \notin D
          PROVE  ((K \cup {t} \cup D) \cup O) \ D = K \cup (O \cup {t})
      BY <3>7
    <3>8. \A o \in {held[d] : d \in Owners} : o \notin ResourcesAt((1..k) \cup ((h + 1)..Len(available)))
      BY <3>4
    <3>9. live' = ResourcesAt((k + 1)..(h - 1)) \cup ({held[d] : d \in Owners} \cup {available[h].res})
      BY <2>1, <3>1, <3>3, <3>6, <3>7, <3>8, Zenon
    <3>10. QED
      BY <2>6, <3>5, <3>9, Zenon
  <2>13. QED
    BY <2>5, <2>10, <2>11, <2>12 DEF ExclusiveOwnership
<1>5. ASSUME NEW k \in 0..Len(available), StartBuilding(c, k) \/ StartWaiting(c, k)
      PROVE  ExclusiveOwnership'
  <2>1. /\ Owners' = Owners /\ held' = held /\ available' = << >>
        /\ live' = live \ ResourcesAt(1..Len(available))
    BY <1>1, <1>2, <1>5 DEF StartBuilding, StartWaiting, DropAllIdle, Owners
  <2>2. ResourcesAt(1..Len(available))' = {}
    BY <2>1 DEF ResourcesAt
  <2>3. live' = {held[d] : d \in Owners}
    BY <2>1 DEF ExclusiveOwnership
  <2>4. QED
    BY <2>1, <2>2, <2>3 DEF ExclusiveOwnership
<1>6. QED
  BY <1>3, <1>4, <1>5 DEF AcquireLoop

\* Every step of the pool leaves each resource with its one owner.
LEMMA NextOwnership == IInv /\ ExclusiveOwnership /\ IInv' /\ [Next]_vars => ExclusiveOwnership'
<1> SUFFICES ASSUME IInv, ExclusiveOwnership, IInv', [Next]_vars PROVE ExclusiveOwnership'
  OBVIOUS
<1>1. /\ available \in Seq(IdleEntry) /\ Len(available) \in Nat
      /\ pc \in [Clients -> Where]
      /\ held \in [Clients -> Resources \cup {NoResource}]
      /\ TypeOK'
  BY DEF IInv, TypeOK
<1>2. ASSUME UNCHANGED <<available, held, live, Owners>> PROVE ExclusiveOwnership'
  BY <1>1, <1>2 DEF ExclusiveOwnership, ResourcesAt
<1>3. ASSUME NEW c \in Clients, ClientStep(c) PROVE ExclusiveOwnership'
  <2>1. CASE Acquire(c)
    BY <1>1, <2>1, AcquireLoopKeepsOwnership DEF Acquire
  <2>2. CASE Resume(c)
    <3>1. pc[c] = "waiting"
      BY <2>2 DEF Resume, IInv, NotifiedWait, In
    <3>2. CASE AcquireLoop(c)
      BY <1>1, <3>1, <3>2, AcquireLoopKeepsOwnership
    <3>3. CASE UNCHANGED <<available, total, pc, held, live, healthy>>
      BY <1>2, <3>3 DEF Owners
    <3>4. QED
      BY <2>2, <3>2, <3>3 DEF Resume
  <2>3. CASE SpuriousWake(c)
    BY <1>1, <2>3, AcquireLoopKeepsOwnership DEF SpuriousWake, Asleep, In
  <2>4. CASE Timeout(c)
    <3>1. CASE AcquireLoop(c)
      BY <1>1, <2>4, <3>1, AcquireLoopKeepsOwnership DEF Timeout
    <3>2. CASE ~AcquireLoop(c)
      <4>1. /\ pc' = [pc EXCEPT ![c] = "out"] /\ pc[c] = "waiting"
            /\ UNCHANGED <<available, held, live>>
        BY <2>4, <3>2 DEF Timeout
      <4>2. Owners' = Owners
        BY <1>1, <4>1 DEF Owners
      <4>3. QED
        BY <1>2, <4>1, <4>2
    <3>3. QED
      BY <3>1, <3>2
  <2>5. CASE FactorySucceeds(c)
    <3>1. PICK r \in Resources \ live :
            held' = [held EXCEPT ![c] = r] /\ live' = live \cup {r}
      BY <2>5 DEF FactorySucceeds
    <3>2. /\ c \notin Owners /\ Owners' = Owners \cup {c} /\ available' = available
          /\ held'[c] = r /\ \A d \in Owners : held'[d] = held[d]
      BY <1>1, <2>5, <3>1 DEF FactorySucceeds, Owners
    <3>3. r \notin ResourcesAt(1..Len(available)) /\ \A d \in Owners : held[d] # r
      BY <3>1 DEF ExclusiveOwnership
    <3>4. ResourcesAt(1..Len(available))' = ResourcesAt(1..Len(available))
      BY <3>2 DEF ResourcesAt
    <3>5. {held'[d] : d \in Owners'} = {held[d] : d \in Owners} \cup {r}
      BY <3>2
    <3>6. QED
      BY <1>1, <3>1, <3>2, <3>3, <3>4, <3>5 DEF ExclusiveOwnership
  <2>6. CASE FactoryFails(c)
    <3>1. Owners' = Owners /\ UNCHANGED <<available, held, live>>
      BY <1>1, <2>6 DEF FactoryFails, Owners
    <3>2. QED
      BY <1>2, <3>1
  <2>7. CASE ReleaseCheck(c)
    <3>1. Owners' = Owners /\ UNCHANGED <<available, held, live>>
      BY <1>1, <2>7 DEF ReleaseCheck, Owners
    <3>2. QED
      BY <1>2, <3>1
  <2>8. CASE ReleaseReturn(c)
    <3>1. /\ c \in Owners /\ Owners' = Owners \ {c}
          /\ \A d \in Owners' : held'[d] = held[d]
      BY <1>1, <2>8 DEF ReleaseReturn, Owners
    <3>2. \A d, e \in Owners' : held'[d] = held'[e] => d = e
      BY <3>1 DEF ExclusiveOwnership
    <3>3. {held'[d] : d \in Owners'} = {held[d] : d \in Owners} \ {held[c]}
      BY <3>1 DEF ExclusiveOwnership
    <3>4. held[c] \notin ResourcesAt(1..Len(available))
      BY <3>1 DEF ExclusiveOwnership
    <3>5. CASE Reject(c)
      <4>1. available' = available /\ live' = live \ {held[c]}
        BY <2>8, <3>5 DEF ReleaseReturn, DestroyHeld
      <4>2. ResourcesAt(1..Len(available))' = ResourcesAt(1..Len(available))
        BY <4>1 DEF ResourcesAt
      <4>3. QED
        BY <1>1, <3>1, <3>2, <3>3, <3>4, <4>1, <4>2 DEF ExclusiveOwnership
    <3>6. CASE ~Reject(c)
      <4>1. /\ available' = Append(available, [res |-> held[c], last_used |-> clock])
            /\ live' = live
        BY <2>8, <3>6 DEF ReleaseReturn, PushIdle
      <4>2. /\ Len(available') = Len(available) + 1
            /\ \A i \in 1..Len(available) : available'[i] = available[i]
            /\ available'[Len(available) + 1].res = held[c]
        BY <1>1, <4>1
      <4>3. ResourcesAt(1..Len(available))' = ResourcesAt(1..Len(available)) \cup {held[c]}
        <5>1. ResourcesAt(1..Len(available))' = {available'[i].res : i \in 1..Len(available')}
          BY DEF ResourcesAt
        <5>2. 1..Len(available') = (1..Len(available)) \cup {Len(available) + 1}
          BY <1>1, <4>2
        <5>3. QED
          BY <4>2, <5>1, <5>2 DEF ResourcesAt
      <4>4. \A i, j \in 1..Len(available') : available'[i].res = available'[j].res => i = j
        <5>1. \A i \in 1..Len(available) : available[i].res # held[c]
          BY <3>4 DEF ResourcesAt
        <5>2. \A i \in 1..Len(available') : i \in 1..Len(available) \/ i = Len(available) + 1
          BY <1>1, <4>2
        <5>3. QED
          BY <4>2, <5>1, <5>2 DEF ExclusiveOwnership
      <4>5. \A d \in Owners' : held'[d] \notin ResourcesAt(1..Len(available))'
        BY <3>1, <4>3 DEF ExclusiveOwnership
      <4>6. live' = ResourcesAt(1..Len(available))' \cup {held'[d] : d \in Owners'}
        BY <3>1, <3>3, <4>1, <4>3 DEF ExclusiveOwnership
      <4>7. QED
        BY <1>1, <3>2, <4>4, <4>5, <4>6 DEF ExclusiveOwnership
    <3>7. QED
      BY <3>5, <3>6
  <2>9. QED
    BY <1>3, <2>1, <2>2, <2>3, <2>4, <2>5, <2>6, <2>7, <2>8 DEF ClientStep
<1>4. CASE Close
  <2>1. /\ Owners' = Owners /\ held' = held /\ available' = << >>
        /\ live' = live \ ResourcesAt(1..Len(available))
    BY <1>4 DEF Close, Owners
  <2>2. ResourcesAt(1..Len(available))' = {}
    BY <2>1 DEF ResourcesAt
  <2>3. live' = {held[d] : d \in Owners}
    BY <2>1 DEF ExclusiveOwnership
  <2>4. QED
    BY <1>1, <2>1, <2>2, <2>3 DEF ExclusiveOwnership
<1>5. CASE (\E r \in Resources : Break(r)) \/ Tick \/ UNCHANGED vars
  <2>1. UNCHANGED <<available, held, live, Owners>>
    BY <1>5 DEF Break, Tick, vars, Owners
  <2>2. QED
    BY <1>2, <2>1
<1>6. QED
  BY <1>3, <1>4, <1>5 DEF Next

\* A connection has one owner at a time and none is leaked: not when a factory
\* runs outside the lock, a handle outlives close() or entries are discarded.
THEOREM PoolExclusiveOwnership == Spec => []ExclusiveOwnership
<1>1. Init => ExclusiveOwnership
  <2> SUFFICES ASSUME Init PROVE ExclusiveOwnership
    OBVIOUS
  <2>1. TypeOK
    BY InitIInv DEF IInv
  <2>2. Owners = {}
    BY DEF Init, Owners
  <2>3. PICK n \in 0..MinSize : \E f \in [1..n -> Resources] :
          /\ \A i, j \in 1..n : f[i] = f[j] => i = j
          /\ available = [i \in 1..n |-> [res |-> f[i], last_used |-> 0]]
          /\ live = {f[i] : i \in 1..n}
    BY DEF Init
  <2>4. PICK f \in [1..n -> Resources] :
          /\ \A i, j \in 1..n : f[i] = f[j] => i = j
          /\ available = [i \in 1..n |-> [res |-> f[i], last_used |-> 0]]
          /\ live = {f[i] : i \in 1..n}
    BY <2>3
  <2>5. n \in Nat
    BY PoolAssumption
  <2>6. Len(available) = n /\ \A i \in 1..n : available[i].res = f[i]
    BY <2>4, <2>5
  <2>7. ResourcesAt(1..Len(available)) = live
    BY <2>4, <2>6 DEF ResourcesAt
  <2>8. QED
    BY <2>1, <2>2, <2>4, <2>6, <2>7 DEF ExclusiveOwnership
<1>2. IInv /\ ExclusiveOwnership /\ IInv' /\ [Next]_vars => ExclusiveOwnership'
  BY NextOwnership
<1>3. QED
  BY <1>1, <1>2, PoolInvariant, PTL DEF Spec

-----------------------------------------------------------------------------
(* Pruning.                                                                *)

\* Entries are idle in the order in which they were given back, and none since
\* later than now.  Pruning, which stops at the first fresh entry, is exact
\* because of that.
OldestFirst ==
    /\ \A i \in 1..Len(available) : available[i].last_used <= clock
    /\ \A i, j \in 1..Len(available) : i < j => available[i].last_used <= available[j].last_used

\* The times are numbers.
LEMMA TimesAre ==
    ASSUME TypeOK
    PROVE  /\ Len(available) \in Nat /\ clock \in Nat
           /\ \A i \in 1..Len(available) : available[i].last_used \in Nat
<1>1. available \in Seq(IdleEntry) /\ clock \in Nat
  BY PoolAssumption DEF TypeOK
<1>2. \A i \in 1..Len(available) : available[i] \in IdleEntry
  BY <1>1
<1>3. QED
  BY <1>1, <1>2 DEF IdleEntry

\* What acquire() leaves in the deque is a piece from its middle, or nothing.
LEMMA AcquireLoopCuts ==
    ASSUME TypeOK, NEW c \in Clients, AcquireLoop(c)
    PROVE  \/ available' = available /\ pc' = [pc EXCEPT ![c] = "out"]
           \/ available' = << >>
           \/ \E k \in 0..Len(available), h \in 1..Len(available) :
                /\ PruneCount(k) /\ k < h
                /\ available' = SubSeq(available, k + 1, h - 1)
<1>1. CASE ThrowClosed(c)
  BY <1>1 DEF ThrowClosed
<1>2. ASSUME NEW k \in 0..Len(available), PruneCount(k),
             \/ \E h \in 1..Len(available) : TakeIdle(c, k, h)
             \/ StartBuilding(c, k)
             \/ StartWaiting(c, k)
      PROVE  \/ available' = << >>
             \/ \E h \in 1..Len(available) : k < h /\ available' = SubSeq(available, k + 1, h - 1)
  <2>1. CASE StartBuilding(c, k) \/ StartWaiting(c, k)
    BY <2>1 DEF StartBuilding, StartWaiting, DropAllIdle
  <2>2. ASSUME NEW h \in 1..Len(available), TakeIdle(c, k, h)
        PROVE  k < h /\ available' = SubSeq(available, k + 1, h - 1)
    BY <2>2, TimesAre DEF TakeIdle, Newest, Remaining
  <2>3. QED
    BY <1>2, <2>1, <2>2
<1>3. QED
  BY <1>1, <1>2 DEF AcquireLoop

\* The entries of such a piece.
LEMMA PieceIs ==
    ASSUME TypeOK, NEW k \in 0..Len(available), NEW h \in 1..Len(available), k < h,
           available' = SubSeq(available, k + 1, h - 1)
    PROVE  /\ Len(available') = h - 1 - k
           /\ \A i \in 1..Len(available') : k + i \in 1..Len(available) /\ available'[i] = available[k + i]
<1>1. available \in Seq(IdleEntry) /\ Len(available) \in Nat
  BY DEF TypeOK
<1>2. Len(available') = h - 1 - k
  BY <1>1
<1>3. ASSUME NEW i \in 1..Len(available')
      PROVE  k + i \in 1..Len(available) /\ available'[i] = available[k + i]
  <2>1. i \in 1..(h - 1 - k) /\ k + i \in 1..Len(available) /\ (k + 1) + i - 1 = k + i
    BY <1>1, <1>2
  <2>2. available'[i] = available[(k + 1) + i - 1]
    BY <1>1, <2>1
  <2>3. QED
    BY <2>1, <2>2
<1>4. QED
  BY <1>2, <1>3

\* A pass of acquire()'s loop keeps the order.
LEMMA AcquireLoopKeepsOrder ==
    ASSUME TypeOK, OldestFirst, NEW c \in Clients, AcquireLoop(c), clock' = clock
    PROVE  OldestFirst'
<1>1. CASE available' = available
  BY <1>1 DEF OldestFirst
<1>2. CASE available' = << >>
  BY <1>2 DEF OldestFirst
<1>3. ASSUME NEW k \in 0..Len(available), NEW h \in 1..Len(available), k < h,
             available' = SubSeq(available, k + 1, h - 1)
      PROVE  OldestFirst'
  <2>1. \A i \in 1..Len(available') : k + i \in 1..Len(available) /\ available'[i] = available[k + i]
    BY <1>3, PieceIs
  <2>2. \A i, j \in 1..Len(available') : i < j => k + i < k + j
    <3>1. Len(available') \in Nat
      BY <1>3, TimesAre, PieceIs
    <3>2. QED
      BY <3>1
  <2>3. QED
    BY <2>1, <2>2 DEF OldestFirst
<1>4. QED
  BY <1>1, <1>2, <1>3, AcquireLoopCuts

\* Every step does: a resource is given back at the back, stamped with now.
LEMMA NextOrder == TypeOK /\ OldestFirst /\ [Next]_vars => OldestFirst'
<1> SUFFICES ASSUME TypeOK, OldestFirst, [Next]_vars PROVE OldestFirst'
  OBVIOUS
<1>1. CASE UNCHANGED <<available, clock>>
  BY <1>1 DEF OldestFirst
<1>2. ASSUME NEW c \in Clients, AcquireLoop(c), clock' = clock PROVE OldestFirst'
  BY <1>2, AcquireLoopKeepsOrder
<1>3. ASSUME NEW c \in Clients, ClientStep(c) PROVE OldestFirst'
  <2>1. CASE Acquire(c) \/ Resume(c) \/ SpuriousWake(c) \/ Timeout(c)
    BY <1>1, <1>2, <2>1 DEF Acquire, Resume, SpuriousWake, Timeout
  <2>2. CASE FactorySucceeds(c) \/ FactoryFails(c) \/ ReleaseCheck(c)
    BY <1>1, <2>2 DEF FactorySucceeds, FactoryFails, ReleaseCheck
  <2>3. CASE ReleaseReturn(c)
    <3>1. CASE PushIdle(c) /\ clock' = clock
      <4> DEFINE e == [res |-> held[c], last_used |-> clock]
                 n == Len(available)
      <4>1. available \in Seq(IdleEntry) /\ n \in Nat /\ clock \in Nat
        BY TimesAre DEF TypeOK
      <4>2. available' = Append(available, e) /\ e.last_used = clock
        BY <3>1 DEF PushIdle
      <4> HIDE DEF e
      <4>3. /\ Len(available') = n + 1 /\ available'[n + 1] = e
            /\ \A i \in 1..n : available'[i] = available[i]
        BY <4>1, <4>2
      <4>4. \A i \in 1..(n + 1) : i \in 1..n \/ i = n + 1
        BY <4>1
      <4>5. \A i \in 1..Len(available') : available'[i].last_used <= clock
        BY <4>1, <4>2, <4>3, <4>4 DEF OldestFirst
      <4>6. ASSUME NEW i \in 1..(n + 1), NEW j \in 1..(n + 1), i < j
            PROVE  available'[i].last_used <= available'[j].last_used
        <5>1. i \in 1..n
          BY <4>1, <4>6
        <5>2. CASE j = n + 1
          BY <4>2, <4>3, <5>1, <5>2 DEF OldestFirst
        <5>3. CASE j \in 1..n
          BY <4>3, <4>6, <5>1, <5>3 DEF OldestFirst
        <5>4. QED
          BY <4>4, <5>2, <5>3
      <4>7. QED
        BY <3>1, <4>3, <4>5, <4>6 DEF OldestFirst
    <3>2. QED
      BY <1>1, <2>3, <3>1 DEF ReleaseReturn, DestroyHeld
  <2>4. QED
    BY <1>3, <2>1, <2>2, <2>3 DEF ClientStep
<1>4. CASE Close
  BY <1>4 DEF Close, OldestFirst
<1>5. CASE \E r \in Resources : Break(r)
  BY <1>1, <1>5 DEF Break
<1>6. CASE Tick
  <2>1. available' = available /\ clock' = clock + 1
    BY <1>6 DEF Tick
  <2>2. \A i \in 1..Len(available) : available[i].last_used <= clock + 1
    BY TimesAre DEF OldestFirst
  <2>3. QED
    BY <2>1, <2>2 DEF OldestFirst
<1>7. QED
  BY <1>1, <1>3, <1>4, <1>5, <1>6 DEF Next, vars

\* In an ordered deque, if anything expired is left, the pruning went down to
\* MinSize entries.
LEMMA PruneIsExact ==
    ASSUME TypeOK, OldestFirst, NEW c \in Clients, AcquireLoop(c), clock' = clock,
           pc[c] \in {"out", "waiting"}, pc'[c] \in {"holding", "building"}, IdleTimeout # 0,
           NEW i \in 1..Len(available'), clock' - available'[i].last_used >= IdleTimeout
    PROVE  Len(available') <= MinSize
<1>1. MinSize \in Nat /\ IdleTimeout \in Nat /\ pc \in [Clients -> Where]
  BY PoolAssumption DEF TypeOK
<1>2. CASE available' = << >>
  BY <1>1, <1>2
<1>3. pc' # [pc EXCEPT ![c] = "out"]
  BY <1>1
<1>4. ASSUME NEW k \in 0..Len(available), NEW h \in 1..Len(available), PruneCount(k), k < h,
             available' = SubSeq(available, k + 1, h - 1)
      PROVE  Len(available') <= MinSize
  <2> DEFINE n == Len(available)
  <2>1. n \in Nat /\ clock \in Nat /\ \A j \in 1..n : available[j].last_used \in Nat
    BY TimesAre
  <2>2. Len(available') = h - 1 - k /\ k + i \in 1..n /\ available'[i] = available[k + i]
    BY <1>4, PieceIs
  <2>3. CASE n <= MinSize
    BY <1>1, <2>1, <2>2, <2>3
  <2>4. CASE ~ n <= MinSize
    <3>1. k <= n - MinSize /\ (k < n - MinSize => ~Expired(available[k + 1]))
      BY <1>4, <2>4 DEF PruneCount
    <3>2. k + 1 \in 1..n /\ i \in Nat /\ 1 <= i
      <4>1. k \in Nat /\ h \in Nat /\ h <= n /\ k < h /\ k <= n /\ n \in Nat
        BY <1>4, <2>1
      <4>2. h - 1 - k \in Nat
        BY <4>1
      <4>3. i \in 1..(h - 1 - k)
        BY <2>2
      <4> HIDE DEF n
      <4>4. QED
        BY <4>1, <4>2, <4>3
    <3>3. available[k + 1].last_used <= available[k + i].last_used
      <4>1. CASE i = 1
        BY <2>1, <3>2, <4>1
      <4>2. CASE i # 1
        <5>1. k + 1 < k + i
          BY <3>2, <4>2, <2>1
        <5>2. QED
          BY <2>2, <3>2, <5>1 DEF OldestFirst
      <4>3. QED
        BY <4>1, <4>2
    <3>4. clock - available[k + i].last_used >= IdleTimeout
      BY <2>2
    <3>5. clock - available[k + 1].last_used >= IdleTimeout
      <4> DEFINE a == available[k + 1].last_used
                 b == available[k + i].last_used
      <4>1. a \in Nat /\ b \in Nat /\ a <= b /\ clock - b >= IdleTimeout
        BY <2>1, <2>2, <3>2, <3>3, <3>4
      <4> HIDE DEF a, b
      <4>2. clock - a >= IdleTimeout
        BY <1>1, <2>1, <4>1
      <4>3. QED
        BY <4>2 DEF a
    <3>6. ~ k < n - MinSize
      BY <3>1, <3>5 DEF Expired
    <3>7. QED
      BY <1>1, <2>1, <2>2, <3>1, <3>6
  <2>5. QED
    BY <2>3, <2>4
<1>5. QED
  BY <1>2, <1>3, <1>4, AcquireLoopCuts

\* What a client gets, it gets from a pass of the loop.
LEMMA OnlyTheLoopGrants ==
    ASSUME TypeOK, [Next]_vars, NEW c \in Clients,
           pc[c] \in {"out", "waiting"}, pc'[c] \in {"holding", "building"}
    PROVE  AcquireLoop(c) /\ clock' = clock
<1>1. pc \in [Clients -> Where] /\ pc' # pc
  BY DEF TypeOK
<1>2. PICK d \in Clients : ClientStep(d)
  BY <1>1 DEF Next, Close, Break, Tick, vars
<1>3. CASE FactorySucceeds(d) \/ FactoryFails(d) \/ ReleaseCheck(d) \/ ReleaseReturn(d)
  BY <1>1, <1>3 DEF FactorySucceeds, FactoryFails, ReleaseCheck, ReleaseReturn
<1>4. CASE Acquire(d) \/ Resume(d) \/ SpuriousWake(d) \/ Timeout(d)
  <2>1. clock' = clock
    BY <1>4 DEF Acquire, Resume, SpuriousWake, Timeout
  <2>2. AcquireLoop(d) \/ pc' = [pc EXCEPT ![d] = "out"]
    BY <1>1, <1>4 DEF Acquire, Resume, SpuriousWake, Timeout
  <2>3. \E place \in {"out", "waiting", "holding", "building"} : pc' = [pc EXCEPT ![d] = place]
    BY <2>2 DEF AcquireLoop, ThrowClosed, TakeIdle, StartBuilding, StartWaiting
  <2>4. d = c
    BY <1>1, <2>3
  <2>5. pc' # [pc EXCEPT ![d] = "out"]
    BY <1>1, <2>4
  <2>6. QED
    BY <2>1, <2>2, <2>4, <2>5
<1>5. QED
  BY <1>2, <1>3, <1>4 DEF ClientStep

\* acquire() never leaves an expired entry that it may drop, although it looks
\* no further than the first fresh one: for any timeout, sizes and clients.
THEOREM PoolPrunesExactly == Spec => PruneExact
<1> DEFINE Exact ==
      \A c \in Clients :
          pc[c] \in {"out", "waiting"} /\ pc'[c] \in {"holding", "building"} /\ IdleTimeout # 0
          => \A i \in 1..Len(available') :
               clock' - available'[i].last_used >= IdleTimeout => Len(available') <= MinSize
<1>1. Init => OldestFirst
  <2> SUFFICES ASSUME Init PROVE OldestFirst
    OBVIOUS
  <2>1. TypeOK
    BY InitIInv DEF IInv
  <2>2. PICK n \in 0..MinSize : \E f \in [1..n -> Resources] :
          available = [i \in 1..n |-> [res |-> f[i], last_used |-> 0]]
    BY DEF Init
  <2>3. PICK f \in [1..n -> Resources] : available = [i \in 1..n |-> [res |-> f[i], last_used |-> 0]]
    BY <2>2
  <2>4. n \in Nat
    BY PoolAssumption
  <2>5. Len(available) = n /\ \A i \in 1..n : available[i].last_used = 0
    BY <2>3, <2>4
  <2>6. clock = 0
    BY DEF Init
  <2>7. QED
    BY <2>5, <2>6 DEF OldestFirst
<1>2. TypeOK /\ OldestFirst /\ [Next]_vars => OldestFirst'
  BY NextOrder
<1>3. TypeOK /\ OldestFirst /\ [Next]_vars => [Exact]_vars
  BY OnlyTheLoopGrants, PruneIsExact
<1>4. QED
  BY <1>1, <1>2, <1>3, PoolTypeOK, PTL DEF Spec, PruneExact

=============================================================================
