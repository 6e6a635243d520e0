--------------------------- MODULE BufferedStream ---------------------------
(***************************************************************************)
(* buffered_stream<T> (containers/buffered_stream.h): one writer pushes    *)
(* into a circular buffer and wakes the readers; each reader is a          *)
(* std::generator that yields what it has not seen and then waits on a     *)
(* condition variable of its own; the destructor stops them.               *)
(*                                                                         *)
(* push_back() and the destructor notify while holding the list's mutex    *)
(* but not the reader's, so a reader's test of its predicate and its going *)
(* to sleep are two steps that a notification can fall between.            *)
(***************************************************************************)
EXTENDS CircularBuffer

VARIABLES
    running,     \* _running
    registered,  \* _readers
    wpc,         \* the owner: pushing, then destroying
    pc,          \* where each reader's coroutine is
    last         \* the last item each reader was given, -1 if none

streamVars == <<slots, size, insert_count, itr, running, registered, wpc, pc, last>>

ReaderPlaces == {"new", "begin", "outer", "inner", "yield", "suspended", "drained",
                 "check", "block", "asleep", "exit", "done", "abandoned"}
WriterPlaces == {"ready", "pushed", "stopping", "draining", "destroyed"}

Goto(r, place) == pc' = [pc EXCEPT ![r] = place]

ringUnchanged == UNCHANGED <<slots, size, insert_count, itr>>
writerUnchanged == UNCHANGED <<running, wpc>>

-----------------------------------------------------------------------------
(* The writer.                                                             *)

\* notify_one / notify_all on every listed reader: each has its own
\* condition variable, so one waiter at most, awake if it is asleep yet.
WakeReaders ==
    pc' = [r \in Readers |-> IF r \in registered /\ pc[r] = "asleep" THEN "check" ELSE pc[r]]

Push ==
    /\ wpc = "ready"
    /\ PushBack
    /\ wpc' = "pushed"
    /\ UNCHANGED <<itr, running, registered, pc, last>>

NotifyReaders ==
    /\ wpc = "pushed"
    /\ WakeReaders
    /\ wpc' = "ready"
    /\ ringUnchanged
    /\ UNCHANGED <<running, registered, last>>

\* ~buffered_stream, in three steps: the flag, the notification, the spin.
Stop ==
    /\ wpc = "ready"
    /\ running' = FALSE
    /\ wpc' = "stopping"
    /\ ringUnchanged
    /\ UNCHANGED <<registered, pc, last>>

StopNotify ==
    /\ wpc = "stopping"
    /\ WakeReaders
    /\ wpc' = "draining"
    /\ ringUnchanged
    /\ UNCHANGED <<running, registered, last>>

ReadersIgnored == TRUE
NoReaderLeft == registered = {}
Destroyed ==
    /\ wpc = "draining"
    /\ NoReaderLeft
    /\ wpc' = "destroyed"
    /\ ringUnchanged
    /\ UNCHANGED <<running, registered, pc, last>>

-----------------------------------------------------------------------------
(* A reader: one call of stream(), resumed until it ends or is dropped.    *)

\* Nobody may enter stream() once the object is gone.
Register(r) ==
    /\ pc[r] = "new"
    /\ wpc # "destroyed"
    /\ registered' = registered \cup {r}
    /\ Goto(r, "begin")
    /\ ringUnchanged /\ writerUnchanged
    /\ UNCHANGED last

StartIterating(r) ==
    /\ pc[r] = "begin"
    /\ Begin(r)
    /\ Goto(r, "outer")
    /\ writerUnchanged
    /\ UNCHANGED <<registered, last>>

\* The test of a loop or an if: no more than a change of place.
Branch(r, from, test, yes, no) ==
    /\ pc[r] = from
    /\ Goto(r, IF test THEN yes ELSE no)
    /\ ringUnchanged /\ writerUnchanged
    /\ UNCHANGED <<registered, last>>

OuterTest(r) == Branch(r, "outer", running \/ ~IsEnd(itr[r]), "inner", "exit")
InnerTest(r) == Branch(r, "inner", ~IsEnd(itr[r]), "yield", "drained")

\* co_yield *itr: the reader's loop body runs with the coroutine suspended.
Yield(r) ==
    /\ pc[r] = "yield"
    /\ Deref(r)
    /\ last' = [last EXCEPT ![r] = ElementAt(itr[r])]
    /\ Goto(r, "suspended")
    /\ writerUnchanged
    /\ UNCHANGED registered

\* ++itr when the consumer asks for the next item.
ResumeYield(r) ==
    /\ pc[r] = "suspended"
    /\ Advance(r)
    /\ Goto(r, "inner")
    /\ writerUnchanged
    /\ UNCHANGED <<registered, last>>

\* if (!_running) break;
RunningTest(r) == Branch(r, "drained", running, "check", "exit")

\* The predicate of signal.wait(), then the wait itself.
PredicateIgnoringStop(r) == ~IsEnd(itr[r])
Predicate(r) == ~IsEnd(itr[r]) \/ ~running
CheckPredicate(r) == Branch(r, "check", Predicate(r), "outer", "block")
Block(r) == Branch(r, "block", TRUE, "asleep", "asleep")
SpuriousWake(r) == Branch(r, "asleep", TRUE, "check", "check")

\* clean_on_destroy takes the reader off the list.
Deregister(r) == registered' = registered \ {r}

Finish(r) ==
    /\ pc[r] = "exit"
    /\ Deregister(r)
    /\ Goto(r, "done")
    /\ ringUnchanged /\ writerUnchanged
    /\ UNCHANGED last

\* The consumer drops the generator in the middle of its loop.
Abandon(r) ==
    /\ pc[r] = "suspended"
    /\ Deregister(r)
    /\ Goto(r, "abandoned")
    /\ ringUnchanged /\ writerUnchanged
    /\ UNCHANGED last

-----------------------------------------------------------------------------

Init ==
    /\ RingInit
    /\ running = TRUE
    /\ registered = {}
    /\ wpc = "ready"
    /\ pc = [r \in Readers |-> "new"]
    /\ last = [r \in Readers |-> -1]

WriterStep == Push \/ NotifyReaders \/ Stop \/ StopNotify \/ Destroyed

\* What a running reader thread does next, whatever it is.
Progress(r) ==
    \/ StartIterating(r)
    \/ OuterTest(r)
    \/ InnerTest(r)
    \/ Yield(r)
    \/ ResumeYield(r)
    \/ RunningTest(r)
    \/ CheckPredicate(r)
    \/ Block(r)
    \/ Finish(r)

ReaderStep(r) == Register(r) \/ Progress(r) \/ SpuriousWake(r) \/ Abandon(r)

Terminated ==
    /\ wpc = "destroyed"
    /\ \A r \in Readers : pc[r] \in {"new", "done", "abandoned"}
    /\ UNCHANGED streamVars

Next == WriterStep \/ (\E r \in Readers : ReaderStep(r)) \/ Terminated

Spec == Init /\ [][Next]_streamVars

\* Threads run: a writer finishes the call it is in, a started destructor
\* goes on, and a reader that is not asleep keeps asking for items.
FairSpec ==
    /\ Spec
    /\ WF_streamVars(NotifyReaders \/ StopNotify \/ Destroyed)
    /\ \A r \in Readers : WF_streamVars(Progress(r))

-----------------------------------------------------------------------------

\* Every variable has its type.
TypeOK ==
    /\ RingTypeOK
    /\ running \in BOOLEAN
    /\ registered \in SUBSET Readers
    /\ wpc \in WriterPlaces
    /\ pc \in [Readers -> ReaderPlaces]
    /\ last \in [Readers -> -1..MaxPushes]

Log == INSTANCE LossyLog WITH Window <- Capacity, published <- insert_count, oldest <- Front

\* The stream implements the lossy log: however the writer laps a reader
\* between its test, its dereference and its increment, each item it is given
\* is the oldest one the buffer still holds and the reader has not seen.
ImplementsLossyLog == Log!Spec

\* The destructor returns only when no reader is inside stream(): no
\* coroutine can touch the buffer after it is gone.
NoReaderAfterDestruction ==
    /\ TypeOK
    /\ wpc = "destroyed" => \A r \in Readers : pc[r] \in {"new", "done", "abandoned"}

\* A push that finds a reader asleep reaches it: the reader is given that
\* item or, if it was lapped meanwhile, a later one, unless it leaves first.
SleeperGetsThePush ==
    \A r \in Readers, n \in 1..MaxPushes :
        pc[r] = "asleep" /\ wpc = "pushed" /\ insert_count = n
        ~> last[r] >= n - 1 \/ pc[r] = "abandoned"

\* A destructor that finds a reader asleep gets it out of stream().
SleeperSeesStop ==
    \A r \in Readers :
        pc[r] = "asleep" /\ wpc = "stopping" ~> pc[r] \in {"done", "abandoned"}

\* No notification passes a reader that is really asleep, whatever the other
\* readers and the writer's next pushes do before it runs.
SleepersAreWoken == SleeperGetsThePush /\ SleeperSeesStop

\* buffered_stream_test.cc, SlowReaderLosesData: a reader that is too slow
\* loses items, but not the final ones: when stream() ends by itself the last
\* item pushed has been delivered.
FinalItemSeen == \A r \in Readers : pc[r] = "done" => last[r] = insert_count - 1

\* buffered_stream_test.cc, EmptyReadTerminatesCleanly: once the buffer is
\* being destroyed every reader finishes and the destructor returns.
DestructorTerminates == ~running ~> wpc = "destroyed"

=============================================================================
