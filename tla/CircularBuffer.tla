--------------------------- MODULE CircularBuffer ---------------------------
(***************************************************************************)
(* circular_buffer<T> (containers/circular_buffer.h): a ring of Capacity   *)
(* slots addressed by absolute insertion index, and iterators that hold    *)
(* such an index and jump to the front when the ring has lapped them.      *)
(*                                                                         *)
(* Every member function runs under the buffer's mutex, so each is one     *)
(* action.  pop_front and clear, which only tests call, are left out.  The *)
(* element pushed as the n-th is represented by n itself (counting from    *)
(* 0): a slot shows which element it really holds, and WindowIntact        *)
(* compares that with the element it should hold.                          *)
(***************************************************************************)
EXTENDS Integers, Sequences

CONSTANTS
    Readers,    \* one iterator each
    Capacity,   \* _capacity
    MaxPushes   \* bound on _insert_count

ASSUME RingAssumption ==
    /\ Capacity \in Nat \ {0}
    /\ MaxPushes \in Nat

VARIABLES
    slots,         \* _buffer, the vector behind the ring
    size,          \* _size
    insert_count,  \* _insert_count
    itr            \* _index of each reader's iterator

-----------------------------------------------------------------------------

FrontOffByOne == IF insert_count > size THEN insert_count - size + 1 ELSE 0
\* _front_index_locked
Front == IF insert_count > size THEN insert_count - size ELSE 0

\* _circularize, as an index of a TLA+ sequence
Circularize(i) == (i % Capacity) + 1

\* _is_end_locked; end() itself is never advanced, so END is not represented.
IsEnd(i) == i >= insert_count

\* _jump_to_front_locked
NoJump(i) == i
JumpToFront(i) == IF i < Front THEN Front ELSE i

\* The size after a push: a full ring does not grow.
Grown == IF size < Capacity THEN size + 1 ELSE size

PushBack ==
    /\ insert_count < MaxPushes
    /\ slots' = IF Len(slots) < Capacity
                THEN Append(slots, insert_count)
                ELSE [slots EXCEPT ![Circularize(insert_count)] = insert_count]
    /\ insert_count' = insert_count + 1
    /\ size' = Grown

\* r's iterator is set to begin().
Begin(r) ==
    /\ itr' = [itr EXCEPT ![r] = Front]
    /\ UNCHANGED <<slots, size, insert_count>>

\* operator++ on r's iterator.
Advance(r) ==
    /\ itr' = [itr EXCEPT ![r] = JumpToFront(itr[r] + 1)]
    /\ UNCHANGED <<slots, size, insert_count>>

\* operator*: the iterator jumps, then its slot is read.
Deref(r) ==
    /\ itr' = [itr EXCEPT ![r] = JumpToFront(itr[r])]
    /\ UNCHANGED <<slots, size, insert_count>>

\* The element operator* returns, for an index whose slot exists.
ElementAt(i) == slots[Circularize(JumpToFront(i))]

RingInit ==
    /\ slots = << >>
    /\ size = 0
    /\ insert_count = 0
    /\ itr = [r \in Readers |-> 0]

-----------------------------------------------------------------------------

\* Every variable has its type and stays within its capacity.
RingTypeOK ==
    /\ slots \in Seq(0..MaxPushes) /\ Len(slots) <= Capacity
    /\ size \in 0..Capacity
    /\ insert_count \in 0..MaxPushes
    /\ itr \in [Readers -> Nat]

\* The ring holds exactly the last `size` elements, each at the slot front(),
\* back(), at() and the iterators look for it, while the vector grows and
\* through every rollover, however a push falls between a reader's steps.
WindowIntact ==
    /\ size <= insert_count
    /\ \A i \in 0..size - 1 :
         /\ Circularize(Front + i) \in DOMAIN slots
         /\ slots[Circularize(Front + i)] = Front + i

=============================================================================
