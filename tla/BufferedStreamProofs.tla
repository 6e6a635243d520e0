------------------------ MODULE BufferedStreamProofs ------------------------
(***************************************************************************)
(* The buffered stream, for any number of readers and pushes and a ring of *)
(* any capacity: the ring always holds the last items where the readers    *)
(* look for them, no reader outlives the buffer, and what the readers are  *)
(* given is a behaviour of LossyLog.                                       *)
(***************************************************************************)
EXTENDS BufferedStream, TLAPS

-----------------------------------------------------------------------------
(* The inductive invariant.                                                *)

\* The vector grows with the ring, and the ring with the pushes until it is
\* full.
RingGrows ==
    /\ Len(slots) = size
    /\ size = IF insert_count < Capacity THEN insert_count ELSE Capacity

\* Every item the ring has not overwritten is at its slot.
RingHolds ==
    \A n \in 0..insert_count - 1 : Front <= n => slots[Circularize(n)] = n

\* The item a reader has not seen and would be given next.
Unseen(r) == JumpToFront(last[r] + 1)

\* Where a reader has an iterator of its own, and where it is not inside stream().
IteratingPlaces == {"outer", "inner", "yield", "drained", "check", "block", "asleep"}
OutsidePlaces == {"new", "done", "abandoned"}

\* A reader is never ahead of the ring.  In front of a dereference its
\* iterator stands for the item it has not seen, however far the writer has
\* lapped both; once it has yielded, for the item it was given.  It is listed
\* exactly while it is inside stream().
ReaderOK(r) ==
    /\ itr[r] <= insert_count /\ last[r] < insert_count
    /\ pc[r] \in {"new", "begin"} => last[r] = -1
    /\ pc[r] \in IteratingPlaces => JumpToFront(itr[r]) = Unseen(r)
    /\ pc[r] = "yield" => itr[r] < insert_count
    /\ pc[r] = "suspended" => itr[r] = last[r]
    /\ r \in registered <=> pc[r] \notin OutsidePlaces

\* The buffer is only gone when the list is empty.
GoneWhenEmpty == wpc = "destroyed" => registered = {}

\* The whole invariant.
StreamInv ==
    /\ TypeOK
    /\ RingGrows /\ RingHolds
    /\ \A r \in Readers : ReaderOK(r)
    /\ GoneWhenEmpty

-----------------------------------------------------------------------------
(* Lemmas.                                                                 *)

\* Two indices less than the capacity apart are at different slots.
LEMMA SlotsDiffer ==
    ASSUME NEW a \in Nat, NEW b \in Nat, a < b, b - a < Capacity
    PROVE  Circularize(a) # Circularize(b)
<1> DEFINE p == a \div Capacity
           q == b \div Capacity
<1>1. Capacity \in Nat \ {0}
  BY RingAssumption
<1>2. p \in Int /\ q \in Int
  BY <1>1, SMT
<1>3. a = Capacity * p + (a % Capacity) /\ a % Capacity \in 0..Capacity - 1
  BY <1>1, SMT
<1>4. b = Capacity * q + (b % Capacity) /\ b % Capacity \in 0..Capacity - 1
  BY <1>1, SMT
<1> HIDE DEF p, q
<1>5. SUFFICES ASSUME a % Capacity = b % Capacity
               PROVE  FALSE
  BY <1>3, <1>4, SMT DEF Circularize
<1> DEFINE m == a % Capacity
           cp == Capacity * p
           cq == Capacity * q
<1>6. cp \in Int /\ cq \in Int /\ a = cp + m /\ b = cq + m /\ m \in Int
  BY <1>1, <1>2, <1>3, <1>4, <1>5, SMT
<1>7. cp < cq /\ cq < cp + Capacity
  <2> HIDE DEF cp, cq, m
  <2>1. QED
    BY <1>1, <1>6, SMT
<1>8. p + 1 <= q
  BY <1>1, <1>2, <1>7, SMT
<1>9. cp + Capacity <= cq
  BY <1>1, <1>2, <1>8, SMT
<1>10. QED
  <2> HIDE DEF cp, cq, m
  <2>1. QED
    BY <1>1, <1>6, <1>7, <1>9, SMT

\* A slot is one of the ring's, and the slot of an index that has not gone
\* round yet is the index itself.
LEMMA SlotOf ==
    ASSUME NEW n \in Nat
    PROVE  Circularize(n) \in 1..Capacity /\ (n < Capacity => Circularize(n) = n + 1)
<1>1. Capacity \in Nat \ {0}
  BY RingAssumption
<1>2. n % Capacity \in 0..Capacity - 1
  BY <1>1, SMT
<1>3. n < Capacity => n % Capacity = n
  BY <1>1, SMT
<1>4. QED
  BY <1>1, <1>2, <1>3, SMT DEF Circularize

\* The numbers of the ring are natural and its front is what was dropped.
LEMMA RingNumbers ==
    ASSUME RingTypeOK, RingGrows
    PROVE  /\ Capacity \in Nat \ {0} /\ MaxPushes \in Nat
           /\ insert_count \in Nat /\ size \in Nat /\ Front \in Nat
           /\ size <= Capacity /\ insert_count = Front + size
           /\ Front > 0 => size = Capacity
           /\ insert_count > 0 => Front < insert_count
           /\ Len(slots) = size
BY RingAssumption DEF RingTypeOK, RingGrows, Front

\* The element an iterator's dereference returns, within the pushed items.
LEMMA ElementRead ==
    ASSUME RingTypeOK, RingGrows, RingHolds, NEW i \in Nat, i < insert_count
    PROVE  /\ ElementAt(i) = JumpToFront(i)
           /\ JumpToFront(i) \in Nat /\ JumpToFront(i) < insert_count
<1>1. JumpToFront(i) \in Nat /\ Front <= JumpToFront(i) /\ JumpToFront(i) < insert_count
  BY RingNumbers DEF JumpToFront
<1>2. JumpToFront(i) \in 0..insert_count - 1
  BY <1>1, RingNumbers
<1>3. slots[Circularize(JumpToFront(i))] = JumpToFront(i)
  BY <1>1, <1>2 DEF RingHolds
<1>4. QED
  BY <1>1, <1>3 DEF ElementAt


-----------------------------------------------------------------------------
(* The ring.                                                               *)

\* A new buffer, before anyone reads or pushes.
LEMMA InitInv == Init => StreamInv
<1> SUFFICES ASSUME Init
             PROVE  StreamInv
  OBVIOUS
<1> USE DEF Init, RingInit
<1>1. TypeOK
  BY RingAssumption DEF TypeOK, RingTypeOK, WriterPlaces, ReaderPlaces
<1>2. RingGrows /\ RingHolds
  BY RingAssumption DEF RingGrows, RingHolds
<1>3. ASSUME NEW r \in Readers
      PROVE  ReaderOK(r)
  <2>1. itr[r] = 0 /\ last[r] = -1 /\ insert_count = 0 /\ pc[r] = "new" /\ registered = {}
    OBVIOUS
  <2>2. QED
    BY <2>1 DEF ReaderOK, IteratingPlaces, OutsidePlaces
<1>4. GoneWhenEmpty
  BY DEF GoneWhenEmpty
<1>5. QED
  BY <1>1, <1>2, <1>3, <1>4 DEF StreamInv

\* A push keeps the ring: it appends until the vector is full and then
\* overwrites the slot of the item it drops.
LEMMA PushKeepsRing ==
    ASSUME RingTypeOK, RingGrows, RingHolds, PushBack, UNCHANGED itr
    PROVE  RingTypeOK' /\ RingGrows' /\ RingHolds' /\ Front <= Front' /\ Front' \in Nat
<1> USE RingNumbers
<1>1. slots \in Seq(0..MaxPushes) /\ insert_count < MaxPushes /\ insert_count' = insert_count + 1
  BY DEF RingTypeOK, PushBack
<1>2. size' = IF insert_count' < Capacity THEN insert_count' ELSE Capacity
  BY <1>1 DEF PushBack, Grown, RingGrows
<1>3. Front' = IF insert_count' > size' THEN insert_count' - size' ELSE 0
  BY DEF Front
<1>4. Front <= Front' /\ Front' \in Nat
  BY <1>1, <1>2, <1>3 DEF RingGrows, Front
<1>5. itr' \in [Readers -> Nat]
  BY DEF RingTypeOK
<1>6. CASE size < Capacity
  <2>1. insert_count = size /\ size' = size + 1 /\ Front' = 0 /\ Front = 0
    BY <1>1, <1>2, <1>3, <1>6 DEF RingGrows
  <2>2. slots' = Append(slots, insert_count)
    BY <1>6 DEF PushBack
  <2>3. slots' \in Seq(0..MaxPushes) /\ Len(slots') = size'
    BY <1>1, <2>1, <2>2
  <2>4. ASSUME NEW n \in 0..insert_count' - 1
        PROVE  slots'[Circularize(n)] = n
    <3>1. Circularize(n) = n + 1
      BY <1>1, <1>6, <2>1, SlotOf
    <3>2. CASE n = insert_count
      BY <1>1, <2>1, <2>2, <3>1, <3>2
    <3>3. CASE n < insert_count
      <4>1. slots'[n + 1] = slots[n + 1]
        BY <1>1, <2>1, <2>2, <3>3
      <4>2. slots[Circularize(n)] = n
        BY <2>1, <3>3 DEF RingHolds
      <4>3. QED
        BY <3>1, <4>1, <4>2
    <3>4. QED
      BY <1>1, <3>2, <3>3
  <2>5. QED
    BY <1>1, <1>2, <1>4, <1>5, <1>6, <2>1, <2>3, <2>4 DEF RingTypeOK, RingGrows, RingHolds, Circularize
<1>7. CASE ~(size < Capacity)
  <2>1. size = Capacity /\ size' = Capacity /\ Front' = Front + 1
    BY <1>1, <1>2, <1>3, <1>7 DEF RingGrows
  <2>2. slots' = [slots EXCEPT ![Circularize(insert_count)] = insert_count]
    BY <1>7 DEF PushBack
  <2>3. Circularize(insert_count) \in 1..Len(slots)
    BY <2>1, SlotOf
  <2>4. slots' \in Seq(0..MaxPushes) /\ Len(slots') = size'
    BY <1>1, <2>1, <2>2, <2>3
  <2>5. ASSUME NEW n \in 0..insert_count' - 1, Front' <= n
        PROVE  slots'[Circularize(n)] = n
    <3>1. CASE n = insert_count
      BY <1>1, <2>2, <2>3, <3>1
    <3>2. CASE n < insert_count
      <4>1. insert_count - n < Capacity /\ n \in Nat
        BY <2>1, <2>5, <3>2
      <4>2. Circularize(n) # Circularize(insert_count)
        BY <3>2, <4>1, SlotsDiffer
      <4>3. slots[Circularize(n)] = n
        BY <2>1, <2>5, <3>2 DEF RingHolds
      <4>4. Circularize(n) \in 1..Len(slots)
        BY <2>1, <4>1, SlotOf
      <4>5. QED
        BY <1>1, <2>2, <4>2, <4>3, <4>4
    <3>3. QED
      BY <1>1, <3>1, <3>2
  <2>6. QED
    BY <1>1, <1>2, <1>4, <1>5, <1>7, <2>1, <2>4, <2>5 DEF RingTypeOK, RingGrows, RingHolds, Circularize
<1>8. QED
  BY <1>6, <1>7

\* A reader that moves its iterator to an index of the ring leaves the ring
\* as it is.
LEMMA ReaderKeepsRing ==
    ASSUME RingTypeOK, RingGrows, RingHolds, itr' \in [Readers -> Nat],
           UNCHANGED <<slots, size, insert_count>>
    PROVE  RingTypeOK' /\ RingGrows' /\ RingHolds' /\ Front' = Front
BY DEF RingTypeOK, RingGrows, RingHolds, Front, Circularize

-----------------------------------------------------------------------------
(* The readers.                                                            *)

\* A push leaves every reader in step: the front moves forward only, and an
\* iterator that is lapped is lapped together with the item it stands for.
LEMMA PushInv ==
    ASSUME StreamInv, Push
    PROVE  StreamInv'
<1> USE DEF StreamInv
<1>1. RingTypeOK /\ RingGrows /\ RingHolds /\ PushBack /\ UNCHANGED itr
  BY DEF TypeOK, Push
<1>2. RingTypeOK' /\ RingGrows' /\ RingHolds' /\ Front <= Front' /\ Front' \in Nat
  BY <1>1, PushKeepsRing
<1>3. insert_count' = insert_count + 1 /\ insert_count \in Nat /\ insert_count' \in 0..MaxPushes
  BY <1>1, <1>2, RingNumbers DEF PushBack, RingTypeOK
<1>4. TypeOK'
  BY <1>2 DEF TypeOK, Push, WriterPlaces
<1>5. Front \in Nat /\ Front' \in Nat
  BY <1>1, <1>2, RingNumbers
<1>6. ASSUME NEW r \in Readers
      PROVE  ReaderOK(r)'
  <2>1. itr[r] \in Nat /\ last[r] \in Int
    BY RingNumbers, RingAssumption, <1>1 DEF TypeOK, RingTypeOK
  <2>2. ReaderOK(r)
    OBVIOUS
  <2>3. JumpToFront(itr[r]) = Unseen(r) => JumpToFront(itr[r])' = Unseen(r)'
    BY <1>1, <1>2, <1>5, <2>1 DEF Unseen, JumpToFront, Push
  <2>4. QED
    BY <1>3, <2>1, <2>2, <2>3 DEF ReaderOK, Push
<1>7. QED
  BY <1>2, <1>4, <1>6 DEF Push, GoneWhenEmpty

\* Waking readers moves them from one iterating place to another.
LEMMA WakeInv ==
    ASSUME StreamInv, WakeReaders, UNCHANGED <<slots, size, insert_count, itr, registered, last>>,
           wpc' \in WriterPlaces \ {"destroyed"}, running' \in BOOLEAN
    PROVE  StreamInv'
<1> USE DEF StreamInv
<1>1. TypeOK' /\ RingGrows' /\ RingHolds' /\ Front' = Front
  BY ReaderKeepsRing DEF TypeOK, RingTypeOK, WakeReaders, ReaderPlaces
<1>2. ASSUME NEW r \in Readers
      PROVE  ReaderOK(r)'
  <2>1. pc'[r] = pc[r] \/ (pc[r] = "asleep" /\ pc'[r] = "check")
    BY DEF WakeReaders
  <2>2. ReaderOK(r)
    OBVIOUS
  <2>3. Unseen(r)' = Unseen(r) /\ JumpToFront(itr[r])' = JumpToFront(itr[r])
    BY <1>1 DEF Unseen, JumpToFront
  <2>4. QED
    BY <2>1, <2>2, <2>3 DEF ReaderOK, IteratingPlaces, OutsidePlaces
<1>3. QED
  BY <1>1, <1>2 DEF GoneWhenEmpty

\* A writer's step that touches neither ring nor readers; only the one that
\* finds the list empty may be the last.
LEMMA WriterInv ==
    ASSUME StreamInv, UNCHANGED <<slots, size, insert_count, itr, registered, pc, last>>,
           running' \in BOOLEAN, wpc' \in WriterPlaces, wpc' = "destroyed" => registered = {}
    PROVE  StreamInv'
<1> USE DEF StreamInv
<1>1. TypeOK' /\ RingGrows' /\ RingHolds' /\ Front' = Front
  BY ReaderKeepsRing DEF TypeOK, RingTypeOK
<1>2. ASSUME NEW r \in Readers
      PROVE  ReaderOK(r)'
  <2>1. ReaderOK(r)
    OBVIOUS
  <2>2. Unseen(r)' = Unseen(r) /\ JumpToFront(itr[r])' = JumpToFront(itr[r])
    BY <1>1 DEF Unseen, JumpToFront
  <2>3. QED
    BY <2>1, <2>2 DEF ReaderOK
<1>3. QED
  BY <1>1, <1>2 DEF GoneWhenEmpty

\* One reader's step: the others, the ring and the writer are left alone.
LEMMA OneReaderInv ==
    ASSUME StreamInv, NEW r \in Readers, TypeOK', ReaderOK(r)', GoneWhenEmpty',
           UNCHANGED <<slots, size, insert_count>>,
           \A q \in Readers \ {r} :
               /\ itr'[q] = itr[q] /\ last'[q] = last[q] /\ pc'[q] = pc[q]
               /\ q \in registered' <=> q \in registered
    PROVE  StreamInv'
<1>1. RingGrows' /\ RingHolds' /\ Front' = Front
  BY ReaderKeepsRing DEF StreamInv, TypeOK, RingTypeOK
<1>2. ASSUME NEW q \in Readers, q # r
      PROVE  ReaderOK(q)'
  <2>1. ReaderOK(q)
    BY DEF StreamInv
  <2>2. Unseen(q)' = Unseen(q) /\ JumpToFront(itr[q])' = JumpToFront(itr[q])
    BY <1>1, <1>2 DEF Unseen, JumpToFront
  <2>3. itr'[q] = itr[q] /\ last'[q] = last[q] /\ pc'[q] = pc[q]
        /\ (q \in registered' <=> q \in registered) /\ insert_count' = insert_count
    BY <1>2
  <2>4. QED
    BY <2>1, <2>2, <2>3 DEF ReaderOK
<1>3. QED
  BY <1>1, <1>2 DEF StreamInv

\* A test moves a reader between places that ask the same of it, unless it
\* is the inner loop's, which lets through only what the ring holds.
LEMMA BranchInv ==
    ASSUME StreamInv, NEW r \in Readers,
           NEW from \in IteratingPlaces \ {"yield"}, NEW test \in BOOLEAN,
           NEW yes \in IteratingPlaces \cup {"exit"}, NEW no \in IteratingPlaces \cup {"exit"},
           (IF test THEN yes ELSE no) = "yield" => itr[r] < insert_count,
           Branch(r, from, test, yes, no)
    PROVE  StreamInv'
<1> DEFINE place == IF test THEN yes ELSE no
<1>1. place \in IteratingPlaces \cup {"exit"} /\ pc[r] = from
  BY DEF Branch
<1>2. pc' = [pc EXCEPT ![r] = place]
  BY DEF Branch, Goto
<1>3. UNCHANGED <<slots, size, insert_count, itr, running, registered, wpc, last>>
  BY DEF Branch, ringUnchanged, writerUnchanged
<1> HIDE DEF place
<1>4. pc \in [Readers -> ReaderPlaces] /\ place \in ReaderPlaces
  BY <1>1 DEF StreamInv, TypeOK, IteratingPlaces, ReaderPlaces
<1>5. pc'[r] = place /\ \A q \in Readers \ {r} : pc'[q] = pc[q]
  BY <1>2, <1>4
<1>6. TypeOK'
  BY <1>2, <1>3, <1>4 DEF StreamInv, TypeOK, RingTypeOK
<1>7. ReaderOK(r)
  BY DEF StreamInv
<1>8. Unseen(r)' = Unseen(r) /\ JumpToFront(itr[r])' = JumpToFront(itr[r])
  BY <1>3 DEF Unseen, JumpToFront, Front
<1>9. ReaderOK(r)'
  BY <1>1, <1>3, <1>5, <1>7, <1>8 DEF ReaderOK, IteratingPlaces, OutsidePlaces, place
<1>10. QED
  BY <1>3, <1>5, <1>6, <1>9, OneReaderInv DEF StreamInv, GoneWhenEmpty

\* A dereference: the item is the oldest the ring holds and the reader has
\* not seen.
LEMMA YieldReads ==
    ASSUME StreamInv, NEW r \in Readers, Yield(r)
    PROVE  /\ last' = [last EXCEPT ![r] = Unseen(r)]
           /\ itr' = [itr EXCEPT ![r] = Unseen(r)]
           /\ Unseen(r) \in Nat /\ Unseen(r) < insert_count
           /\ pc[r] = "yield" /\ pc' = [pc EXCEPT ![r] = "suspended"]
           /\ UNCHANGED <<slots, size, insert_count, running, registered, wpc>>
<1>1. ReaderOK(r) /\ pc[r] = "yield"
  BY DEF StreamInv, Yield
<1>2. JumpToFront(itr[r]) = Unseen(r) /\ itr[r] < insert_count
  BY <1>1 DEF ReaderOK, IteratingPlaces
<1>3. itr[r] \in Nat
  BY DEF StreamInv, TypeOK, RingTypeOK
<1>4. ElementAt(itr[r]) = Unseen(r) /\ Unseen(r) \in Nat /\ Unseen(r) < insert_count
  BY <1>2, <1>3, ElementRead DEF StreamInv, TypeOK
<1>5. QED
  BY <1>1, <1>2, <1>4 DEF Yield, Deref, Goto, writerUnchanged

\* A reader that is given an item has now seen it.
LEMMA YieldInv ==
    ASSUME StreamInv, NEW r \in Readers, Yield(r)
    PROVE  StreamInv'
<1>1. /\ last' = [last EXCEPT ![r] = Unseen(r)] /\ itr' = [itr EXCEPT ![r] = Unseen(r)]
      /\ Unseen(r) \in Nat /\ Unseen(r) < insert_count
      /\ pc[r] = "yield" /\ pc' = [pc EXCEPT ![r] = "suspended"]
      /\ UNCHANGED <<slots, size, insert_count, running, registered, wpc>>
  BY YieldReads
<1>2. TypeOK /\ ReaderOK(r) /\ insert_count \in 0..MaxPushes /\ MaxPushes \in Nat
  BY RingAssumption DEF StreamInv, TypeOK, RingTypeOK
<1>3. TypeOK'
  BY <1>1, <1>2 DEF TypeOK, RingTypeOK, ReaderPlaces
<1>4. itr'[r] = Unseen(r) /\ last'[r] = Unseen(r) /\ pc'[r] = "suspended"
  BY <1>1, <1>2 DEF TypeOK, RingTypeOK
<1>5. ReaderOK(r)'
  BY <1>1, <1>2, <1>4 DEF ReaderOK, IteratingPlaces, OutsidePlaces
<1>6. \A q \in Readers \ {r} : itr'[q] = itr[q] /\ last'[q] = last[q] /\ pc'[q] = pc[q]
  BY <1>1, <1>2 DEF TypeOK, RingTypeOK
<1>7. QED
  BY <1>1, <1>3, <1>5, <1>6, OneReaderInv DEF StreamInv, GoneWhenEmpty

\* The increment goes from the item given to the one not seen.
LEMMA ResumeInv ==
    ASSUME StreamInv, NEW r \in Readers, ResumeYield(r)
    PROVE  StreamInv'
<1>1. /\ itr' = [itr EXCEPT ![r] = JumpToFront(itr[r] + 1)]
      /\ pc[r] = "suspended" /\ pc' = [pc EXCEPT ![r] = "inner"]
      /\ UNCHANGED <<slots, size, insert_count, running, registered, wpc, last>>
  BY DEF ResumeYield, Advance, Goto, writerUnchanged
<1>2. TypeOK /\ ReaderOK(r) /\ itr[r] \in Nat /\ insert_count \in Nat
  BY DEF StreamInv, TypeOK, RingTypeOK
<1>3. Front \in Nat /\ Front <= insert_count
  BY RingNumbers DEF StreamInv, TypeOK
<1>4. itr[r] = last[r] /\ itr[r] < insert_count
  BY <1>1, <1>2 DEF ReaderOK
<1>5. JumpToFront(itr[r] + 1) \in Nat /\ JumpToFront(itr[r] + 1) <= insert_count
  BY <1>2, <1>3, <1>4 DEF JumpToFront
<1>6. TypeOK'
  BY <1>1, <1>2, <1>5 DEF TypeOK, RingTypeOK, ReaderPlaces
<1>7. itr'[r] = Unseen(r) /\ pc'[r] = "inner" /\ last'[r] = last[r]
  BY <1>1, <1>2, <1>4 DEF TypeOK, RingTypeOK, Unseen
<1>8. Unseen(r)' = Unseen(r) /\ JumpToFront(itr[r])' = JumpToFront(Unseen(r))
  BY <1>1, <1>7 DEF Unseen, JumpToFront, Front
<1>9. JumpToFront(Unseen(r)) = Unseen(r)
  BY <1>2, <1>3, <1>4 DEF Unseen, JumpToFront
<1>10. ReaderOK(r)'
  BY <1>1, <1>2, <1>4, <1>5, <1>7, <1>8, <1>9 DEF ReaderOK, IteratingPlaces, OutsidePlaces, Unseen
<1>11. \A q \in Readers \ {r} : itr'[q] = itr[q] /\ pc'[q] = pc[q] /\ last'[q] = last[q]
  BY <1>1, <1>2 DEF TypeOK, RingTypeOK
<1>12. QED
  BY <1>1, <1>6, <1>10, <1>11, OneReaderInv DEF StreamInv, GoneWhenEmpty

\* A reader enters stream() and is listed,
LEMMA RegisterInv ==
    ASSUME StreamInv, NEW r \in Readers, Register(r)
    PROVE  StreamInv'
<1>1. /\ pc[r] = "new" /\ pc' = [pc EXCEPT ![r] = "begin"]
      /\ registered' = registered \cup {r} /\ wpc # "destroyed"
      /\ UNCHANGED <<slots, size, insert_count, itr, running, wpc, last>>
  BY DEF Register, Goto, ringUnchanged, writerUnchanged
<1>2. TypeOK /\ ReaderOK(r)
  BY DEF StreamInv
<1>3. TypeOK'
  BY <1>1, <1>2 DEF TypeOK, RingTypeOK, ReaderPlaces
<1>4. pc'[r] = "begin" /\ \A q \in Readers \ {r} : pc'[q] = pc[q]
  BY <1>1, <1>2 DEF TypeOK
<1>5. ReaderOK(r)'
  BY <1>1, <1>2, <1>4 DEF ReaderOK, IteratingPlaces, OutsidePlaces
<1>6. QED
  BY <1>1, <1>3, <1>4, <1>5, OneReaderInv DEF GoneWhenEmpty

\* starts at the front, which is what it has not seen,
LEMMA StartInv ==
    ASSUME StreamInv, NEW r \in Readers, StartIterating(r)
    PROVE  StreamInv'
<1>1. /\ itr' = [itr EXCEPT ![r] = Front]
      /\ pc[r] = "begin" /\ pc' = [pc EXCEPT ![r] = "outer"]
      /\ UNCHANGED <<slots, size, insert_count, running, registered, wpc, last>>
  BY DEF StartIterating, Begin, Goto, writerUnchanged
<1>2. TypeOK /\ ReaderOK(r) /\ Front \in Nat /\ Front <= insert_count
  BY RingNumbers DEF StreamInv, TypeOK
<1>3. TypeOK'
  BY <1>1, <1>2 DEF TypeOK, RingTypeOK, ReaderPlaces
<1>4. itr'[r] = Front /\ pc'[r] = "outer" /\ last'[r] = last[r] /\ last[r] = -1
  BY <1>1, <1>2 DEF TypeOK, RingTypeOK, ReaderOK
<1>5. Front' = Front
  BY <1>1 DEF Front
<1>6. JumpToFront(itr[r])' = Front /\ Unseen(r)' = Front
  BY <1>2, <1>4, <1>5 DEF JumpToFront, Unseen
<1>7. ReaderOK(r)'
  BY <1>1, <1>2, <1>4, <1>6 DEF ReaderOK, IteratingPlaces, OutsidePlaces
<1>8. \A q \in Readers \ {r} : itr'[q] = itr[q] /\ pc'[q] = pc[q] /\ last'[q] = last[q]
  BY <1>1, <1>2 DEF TypeOK, RingTypeOK
<1>9. QED
  BY <1>1, <1>3, <1>7, <1>8, OneReaderInv DEF StreamInv, GoneWhenEmpty

\* and is taken off the list when it ends or is dropped.
LEMMA LeaveInv ==
    ASSUME StreamInv, NEW r \in Readers, Finish(r) \/ Abandon(r)
    PROVE  StreamInv'
<1>1. PICK place \in {"done", "abandoned"} : pc' = [pc EXCEPT ![r] = place]
  BY DEF Finish, Abandon, Goto
<1>2. /\ registered' = registered \ {r}
      /\ UNCHANGED <<slots, size, insert_count, itr, running, wpc, last>>
  BY DEF Finish, Abandon, Deregister, ringUnchanged, writerUnchanged
<1>3. TypeOK /\ ReaderOK(r)
  BY DEF StreamInv
<1>4. TypeOK'
  BY <1>1, <1>2, <1>3 DEF TypeOK, RingTypeOK, ReaderPlaces
<1>5. pc'[r] = place /\ \A q \in Readers \ {r} : pc'[q] = pc[q]
  BY <1>1, <1>3 DEF TypeOK
<1>6. ReaderOK(r)'
  BY <1>1, <1>2, <1>3, <1>5 DEF ReaderOK, IteratingPlaces, OutsidePlaces
<1>7. GoneWhenEmpty'
  BY <1>2 DEF StreamInv, GoneWhenEmpty
<1>8. QED
  BY <1>2, <1>4, <1>5, <1>6, <1>7, OneReaderInv

\* The tests, one by one.
LEMMA TestInv ==
    ASSUME StreamInv, NEW r \in Readers,
           \/ OuterTest(r) \/ InnerTest(r) \/ RunningTest(r)
           \/ CheckPredicate(r) \/ Block(r) \/ SpuriousWake(r)
    PROVE  StreamInv'
<1> USE DEF IteratingPlaces
<1>1. IsEnd(itr[r]) \in BOOLEAN /\ running \in BOOLEAN /\ (~IsEnd(itr[r]) => itr[r] < insert_count)
  BY DEF IsEnd, StreamInv, TypeOK, RingTypeOK
<1>2. CASE OuterTest(r)
  BY <1>1, <1>2, BranchInv DEF OuterTest
<1>3. CASE InnerTest(r)
  BY <1>1, <1>3, BranchInv DEF InnerTest
<1>4. CASE RunningTest(r)
  BY <1>1, <1>4, BranchInv DEF RunningTest
<1>5. CASE CheckPredicate(r)
  BY <1>1, <1>5, BranchInv DEF CheckPredicate, Predicate
<1>6. CASE Block(r)
  BY <1>6, BranchInv DEF Block
<1>7. CASE SpuriousWake(r)
  BY <1>7, BranchInv DEF SpuriousWake
<1>8. QED
  BY <1>2, <1>3, <1>4, <1>5, <1>6, <1>7

\* The writer's own steps.
LEMMA WriterStepInv ==
    ASSUME StreamInv, WriterStep
    PROVE  StreamInv'
<1> USE DEF ringUnchanged, WriterPlaces
<1>1. CASE Push
  BY <1>1, PushInv
<1>2. CASE NotifyReaders \/ StopNotify
  BY <1>2, WakeInv DEF NotifyReaders, StopNotify, StreamInv, TypeOK
<1>3. CASE Stop
  BY <1>3, WriterInv DEF Stop
<1>4. CASE Destroyed
  BY <1>4, WriterInv DEF Destroyed, NoReaderLeft, StreamInv, TypeOK
<1>5. QED
  BY <1>1, <1>2, <1>3, <1>4 DEF WriterStep

\* Steps outside the buffer.
LEMMA StutterInv ==
    ASSUME StreamInv, UNCHANGED streamVars
    PROVE  StreamInv'
<1>1. UNCHANGED <<slots, size, insert_count, itr, registered, pc, last>> /\ running' = running /\ wpc' = wpc
  BY DEF streamVars
<1>2. QED
  BY <1>1, WriterInv DEF StreamInv, TypeOK, GoneWhenEmpty

\* Every step of the writer, the readers and the destructor keeps the invariant.
LEMMA NextInv == StreamInv /\ [Next]_streamVars => StreamInv'
<1> SUFFICES ASSUME StreamInv, [Next]_streamVars
             PROVE  StreamInv'
  OBVIOUS
<1>1. CASE WriterStep
  BY <1>1, WriterStepInv
<1>2. ASSUME NEW r \in Readers, ReaderStep(r)
      PROVE  StreamInv'
  BY <1>2, RegisterInv, StartInv, YieldInv, ResumeInv, LeaveInv, TestInv
  DEF ReaderStep, Progress
<1>3. CASE Terminated \/ UNCHANGED streamVars
  BY <1>3, StutterInv DEF Terminated
<1>4. QED
  BY <1>1, <1>2, <1>3 DEF Next

\* The inductive invariant, for every set of readers and every capacity.
THEOREM StreamInvariant == Spec => []StreamInv
<1>1. QED
  BY InitInv, NextInv, PTL DEF Spec

-----------------------------------------------------------------------------
(* What the runs check.                                                    *)

\* circular_buffer.h, push_back against the iterators: the ring holds the
\* last items at the slots they are looked for, through growth and every
\* rollover.
THEOREM RingStaysIntact == Spec => []WindowIntact
<1>1. StreamInv => WindowIntact
  <2> SUFFICES ASSUME StreamInv
               PROVE  WindowIntact
    OBVIOUS
  <2>1. RingTypeOK /\ RingGrows /\ RingHolds
    BY DEF StreamInv, TypeOK
  <2>2. /\ insert_count \in Nat /\ size \in Nat /\ Front \in Nat
        /\ insert_count = Front + size /\ Len(slots) = size /\ size <= Capacity
        /\ Front > 0 => size = Capacity
        /\ slots \in Seq(0..MaxPushes) /\ Capacity \in Nat
    BY <2>1, RingNumbers DEF RingTypeOK
  <2>3. ASSUME NEW i \in 0..size - 1
        PROVE  Circularize(Front + i) \in DOMAIN slots /\ slots[Circularize(Front + i)] = Front + i
    <3>1. Front + i \in 0..insert_count - 1 /\ Front <= Front + i /\ Front + i \in Nat
      BY <2>2
    <3>2. Circularize(Front + i) \in 1..Len(slots)
      <4>1. CASE size = Capacity
        BY <2>2, <3>1, <4>1, SlotOf
      <4>2. CASE size < Capacity
        <5>1. Front + i < Capacity /\ Front + i < size
          BY <2>2, <4>2
        <5>2. Circularize(Front + i) = Front + i + 1
          BY <3>1, <5>1, SlotOf
        <5>3. QED
          BY <2>2, <3>1, <5>1, <5>2
      <4>3. QED
        BY <2>2, <4>1, <4>2
    <3>3. QED
      BY <2>1, <2>2, <3>1, <3>2 DEF RingHolds
  <2>4. QED
    BY <2>2, <2>3 DEF WindowIntact
<1>2. QED
  BY <1>1, StreamInvariant, PTL

\* buffered_stream.h, ~buffered_stream against the readers' clean_on_destroy:
\* when the destructor returns no coroutine is inside stream().
THEOREM BufferOutlivesReaders == Spec => []NoReaderAfterDestruction
<1>1. StreamInv => NoReaderAfterDestruction
  BY DEF StreamInv, ReaderOK, GoneWhenEmpty, OutsidePlaces, NoReaderAfterDestruction
<1>2. QED
  BY <1>1, StreamInvariant, PTL

-----------------------------------------------------------------------------
(* The refinement: a push publishes, a yield delivers, nothing else is     *)
(* seen.                                                                   *)

\* push_back publishes an item; the oldest may be lost by it.
LEMMA PushPublishes ==
    ASSUME StreamInv, Push
    PROVE  Log!Publish
<1>1. RingTypeOK /\ RingGrows /\ RingHolds /\ PushBack /\ UNCHANGED itr
  BY DEF StreamInv, TypeOK, Push
<1>2. RingTypeOK' /\ RingGrows' /\ Front <= Front' /\ Front' \in Nat
  BY <1>1, PushKeepsRing
<1>3. insert_count' = insert_count + 1 /\ last' = last
  BY DEF Push, PushBack
<1>4. Front \in Nat /\ size \in Nat /\ insert_count = Front + size /\ Capacity \in Nat \ {0}
      /\ size <= Capacity /\ (Front > 0 => size = Capacity)
  BY <1>1, RingNumbers
<1>5. size' = Grown /\ Front' = IF insert_count' > size' THEN insert_count' - size' ELSE 0
  BY <1>1 DEF PushBack, Front
<1>6. /\ Front' <= insert_count' /\ insert_count' - Front' <= Capacity
      /\ Front' > Front => insert_count' - Front' = Capacity
  BY <1>3, <1>4, <1>5 DEF Grown
<1>7. Front' \in Front..insert_count'
  BY <1>2, <1>3, <1>4, <1>6
<1>8. QED
  BY <1>3, <1>6, <1>7 DEF Log!Publish

\* A yield delivers the oldest item the reader has not seen and the ring still holds.
LEMMA YieldDelivers ==
    ASSUME StreamInv, NEW r \in Readers, Yield(r)
    PROVE  Log!Deliver(r)
<1>1. /\ last' = [last EXCEPT ![r] = Unseen(r)] /\ Unseen(r) < insert_count
      /\ UNCHANGED <<slots, size, insert_count>>
  BY YieldReads
<1>2. Unseen(r) = IF last[r] + 1 < Front THEN Front ELSE last[r] + 1
  BY DEF Unseen, JumpToFront
<1>3. Front' = Front
  BY <1>1 DEF Front
<1>4. QED
  BY <1>1, <1>2, <1>3 DEF Log!Deliver

\* buffered_stream.h, stream(): what the readers are given is a behaviour of
\* the lossy log, whatever the capacity, however many readers there are and
\* wherever a push falls between a reader's test, dereference and increment.
THEOREM StreamImplementsLog == Spec => ImplementsLossyLog
<1>1. Init => Log!Init
  BY RingAssumption DEF Init, RingInit, Log!Init, Front
<1>2. ASSUME StreamInv, [Next]_streamVars
      PROVE  [Log!Next]_Log!logVars
  <2> USE DEF Log!logVars
  <2>1. CASE Push
    BY <2>1, PushPublishes, <1>2 DEF Log!Next
  <2>2. ASSUME NEW r \in Readers, Yield(r)
        PROVE  [Log!Next]_Log!logVars
    BY <2>2, YieldDelivers, <1>2 DEF Log!Next
  <2>3. CASE UNCHANGED <<size, insert_count, last>>
    BY <2>3 DEF Front
  <2>4. CASE WriterStep
    BY <2>1, <2>3, <2>4
    DEF WriterStep, NotifyReaders, Stop, StopNotify, Destroyed, ringUnchanged
  <2>5. ASSUME NEW r \in Readers, ReaderStep(r)
        PROVE  [Log!Next]_Log!logVars
    BY <2>2, <2>3, <2>5
    DEF ReaderStep, Progress, Register, StartIterating, Begin, OuterTest, InnerTest, Branch,
        ResumeYield, Advance, RunningTest, CheckPredicate, Block, SpuriousWake, Finish, Abandon,
        ringUnchanged
  <2>6. CASE Terminated \/ UNCHANGED streamVars
    BY <2>3, <2>6 DEF Terminated, streamVars
  <2>7. QED
    BY <1>2, <2>4, <2>5, <2>6 DEF Next
<1>3. QED
  BY <1>1, <1>2, StreamInvariant, PTL DEF Spec, ImplementsLossyLog, Log!Spec

-----------------------------------------------------------------------------
(* What holds of the two promises the code breaks.  The last item may be   *)
(* missed, and the destructor's notification too, but only in the gap      *)
(* between a reader's test and what it does next.                          *)

\* A reader's step leaves the others where they are.
LEMMA OthersStay ==
    ASSUME StreamInv, NEW k \in Readers, ReaderStep(k)
    PROVE  \A r \in Readers \ {k} : pc'[r] = pc[r]
<1>1. pc \in [Readers -> ReaderPlaces]
  BY DEF StreamInv, TypeOK
<1>2. \E place : Goto(k, place)
  BY DEF ReaderStep, Progress, Register, StartIterating, OuterTest, InnerTest, Yield, ResumeYield,
         RunningTest, CheckPredicate, Block, Finish, SpuriousWake, Abandon, Branch
<1>3. QED
  BY <1>1, <1>2 DEF Goto

\* At the end of the ring there is nothing a reader has not been given.
LEMMA AtTheEnd ==
    ASSUME StreamInv, NEW r \in Readers, pc[r] \in {"inner", "outer"}, IsEnd(itr[r])
    PROVE  last[r] = insert_count - 1
<1>1. /\ itr[r] <= insert_count /\ last[r] < insert_count
      /\ JumpToFront(itr[r]) = JumpToFront(last[r] + 1)
  BY DEF StreamInv, ReaderOK, IteratingPlaces, Unseen
<1>2. /\ itr[r] \in Nat /\ last[r] \in Int /\ insert_count \in Nat /\ Front \in Nat
      /\ insert_count > 0 => Front < insert_count
      /\ Front <= insert_count /\ last[r] >= -1
  BY RingNumbers DEF StreamInv, TypeOK, RingTypeOK
<1>3. itr[r] = insert_count
  BY <1>1, <1>2 DEF IsEnd
<1>4. QED
  BY <1>1, <1>2, <1>3 DEF JumpToFront

\* When a reader finds itself at the end of the buffer, or leaves the outer
\* loop, it has been given the last item pushed.
LastLookSeesAll ==
    [][\A r \in Readers :
         \/ pc[r] = "inner" /\ pc'[r] = "drained"
         \/ pc[r] = "outer" /\ pc'[r] = "exit"
         => last[r] = insert_count - 1]_streamVars

\* buffered_stream.h, the loops of stream(): whatever laps a reader, all that
\* stream() fails to deliver to a reader that stays was pushed after its last
\* look at the end of the buffer.
THEOREM NothingMissedAtTheEnd == Spec => LastLookSeesAll
<1> DEFINE Look(r) == \/ pc[r] = "inner" /\ pc'[r] = "drained"
                      \/ pc[r] = "outer" /\ pc'[r] = "exit"
           Seen == \A r \in Readers : Look(r) => last[r] = insert_count - 1
<1>1. ASSUME StreamInv, Next
      PROVE  Seen
  <2> SUFFICES ASSUME NEW r \in Readers, Look(r)
               PROVE  last[r] = insert_count - 1
    OBVIOUS
  <2>1. pc \in [Readers -> ReaderPlaces]
    BY <1>1 DEF StreamInv, TypeOK
  <2>2. ~ UNCHANGED pc
    OBVIOUS
  <2>3. ~WakeReaders
    BY <2>1 DEF WakeReaders
  <2>4. ~WriterStep /\ ~Terminated
    BY <2>2, <2>3 DEF WriterStep, Push, NotifyReaders, Stop, StopNotify, Destroyed, Terminated, streamVars
  <2>5. PICK k \in Readers : ReaderStep(k)
    BY <1>1, <2>4 DEF Next
  <2>6. k = r
    BY <1>1, <2>5, OthersStay
  <2>7. InnerTest(r) \/ OuterTest(r)
    BY <2>1, <2>5, <2>6
    DEF ReaderStep, Progress, Register, StartIterating, OuterTest, InnerTest, Yield, ResumeYield,
        RunningTest, CheckPredicate, Block, Finish, SpuriousWake, Abandon, Branch, Goto
  <2>8. IsEnd(itr[r])
    BY <2>1, <2>7 DEF InnerTest, OuterTest, Branch, Goto
  <2>9. QED
    BY <1>1, <2>8, AtTheEnd
<1>2. StreamInv /\ [Next]_streamVars => [Seen]_streamVars
  BY <1>1
<1>3. QED
  BY <1>2, StreamInvariant, PTL DEF Spec, LastLookSeesAll

\* No notification passes a reader that really sleeps: push_back's and the
\* destructor's reach every one of them.
SleepersAreReached ==
    [][\A r \in Readers :
         pc[r] = "asleep" /\ wpc \in {"pushed", "stopping"} /\ wpc' # wpc => pc'[r] = "check"]_streamVars

\* buffered_stream.h, push_back and ~buffered_stream against wait: who sleeps
\* is listed, and so is notified, however many readers come and go meanwhile.
THEOREM NotificationsReachSleepers == Spec => SleepersAreReached
<1> DEFINE Reached == \A r \in Readers :
             pc[r] = "asleep" /\ wpc \in {"pushed", "stopping"} /\ wpc' # wpc => pc'[r] = "check"
<1>1. ASSUME StreamInv, Next
      PROVE  Reached
  <2> SUFFICES ASSUME NEW r \in Readers,
                      pc[r] = "asleep", wpc \in {"pushed", "stopping"}, wpc' # wpc
               PROVE  pc'[r] = "check"
    OBVIOUS
  <2>1. r \in registered
    BY <1>1 DEF StreamInv, ReaderOK, OutsidePlaces
  <2>2. \A k \in Readers : ~ReaderStep(k)
    BY DEF ReaderStep, Progress, Register, StartIterating, OuterTest, InnerTest, Yield, ResumeYield,
           RunningTest, CheckPredicate, Block, Finish, SpuriousWake, Abandon, Branch, writerUnchanged
  <2>3. WakeReaders
    BY <1>1, <2>2 DEF Next, WriterStep, Push, NotifyReaders, Stop, StopNotify, Destroyed, Terminated, streamVars
  <2>4. QED
    BY <2>1, <2>3 DEF WakeReaders
<1>2. StreamInv /\ [Next]_streamVars => [Reached]_streamVars
  BY <1>1
<1>3. QED
  BY <1>2, StreamInvariant, PTL DEF Spec, SleepersAreReached

=============================================================================
