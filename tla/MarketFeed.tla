----------------------------- MODULE MarketFeed -----------------------------
(***************************************************************************)
(* The market feed of the executor: schwab::stream (api/schwab.cc) inside  *)
(* market_watch, used by two threads of howling_tools/execute.cc without a *)
(* lock.  The watcher runs start(): log in, subscribe, then deliver        *)
(* messages.  The main thread destroys the market_watch after the market   *)
(* closes, which calls stop(): log out, then read messages itself.         *)
(*                                                                         *)
(* The websocket is not thread-safe.  While one thread uses it and the     *)
(* other comes to, a message may be lost, garbled or read by both, once in *)
(* a behaviour.                                                            *)
(*                                                                         *)
(* An exception that leaves the watcher's thread function or a destructor  *)
(* ends the process, and so does a thread that uses the websocket after    *)
(* the other has destroyed it; that one may also see an error instead.     *)
(***************************************************************************)
EXTENDS Naturals, Sequences, SequencesExt

CONSTANTS
    Watcher, Main,  \* the two threads
    Symbols,        \* stocks to subscribe to
    MaxData         \* bound on the data messages the server sends

ASSUME FeedAssumption ==
    /\ Watcher # Main
    /\ Symbols \cap {"LOGIN", "LOGOUT", "none"} = {}
    /\ MaxData \in Nat

Threads == {Watcher, Main}

VARIABLES
    pc,          \* where each thread is
    item,        \* data a thread is about to push, 0 if none
    conn,        \* stream::_conn: "none", "open", or "broken" by the network
    running,     \* stream::_running
    stopping,    \* stream::_stopping
    again,       \* stop() runs a second time, out of ~stream
    login,       \* login_response: "none", "ok" or "failed"
    toAdd,       \* stocks add_symbol has still to be called for
    subscribed,  \* stocks whose subscription was acknowledged
    asked,       \* commands the server has not answered yet
    inbox,       \* messages sent by the server and not read yet
    sent,        \* data messages sent so far, for MaxData
    delivered,   \* data pushed to market_watch's buffers
    damaged,     \* the two threads' uses of the websocket have met and damaged a message
    fresh,       \* the executor has caught up with the time of day
    terminated   \* the process has ended abnormally

vars == <<pc, item, conn, running, stopping, again, login, toAdd, subscribed,
          asked, inbox, sent, delivered, damaged, fresh, terminated>>
flags == <<running, stopping, again, login, damaged, fresh>>

Response(command, ok) == [command |-> command, ok |-> ok, data |-> 0]
Data(n) == [command |-> "none", ok |-> TRUE, data |-> n]
Commands == {"LOGIN", "LOGOUT"} \cup Symbols
Messages == {Response(c, ok) : c \in Commands, ok \in BOOLEAN} \cup {Data(n) : n \in 1..MaxData}

Goto(t, label) == pc' = [pc EXCEPT ![t] = label]

Terminate ==
    /\ terminated' = TRUE
    /\ UNCHANGED <<pc, item, conn, flags, toAdd, subscribed, asked, inbox, sent, delivered>>

-----------------------------------------------------------------------------
(* _send_command.  Writing to a broken connection throws.                  *)

SendNothing(command) == asked' = asked
Send(command) == asked' = Append(asked, command)

\* Where a thread is inside the websocket, or may be.
Reading(t) == pc[t] \in {"read", "login_read"}
Writing(t) == pc[t] \in {"logout", "subscribe"}

\* The two threads meet there, and what one of them does is damaged.
Damages ==
    /\ \A t \in Threads : Reading(t) \/ Writing(t)
    /\ ~damaged
    /\ damaged' = TRUE

\* A command is sent, unless its write or its callback is.
Command(command) ==
    \/ Send(command) /\ UNCHANGED damaged
    \/ Damages /\ UNCHANGED asked

-----------------------------------------------------------------------------
(* _process_message, run by either thread.                                 *)

\* Where a thread goes on after a message: the test of the loop it is in.
LoopOf(t) == IF t = Main THEN "drain" ELSE IF pc[t] = "login_read" THEN "login" ELSE "loop"

\* The websocket's errors end the loop of either thread, but not the login.
Throws(t) ==
    IF pc[t] = "login_read" THEN Terminate
    ELSE /\ Goto(t, IF t = Main THEN "stopped" ELSE "end")
         /\ UNCHANGED <<item, conn, flags, toAdd, subscribed, asked, inbox, sent, delivered, terminated>>

SwallowsRefusal(message) == FALSE
IsRefusal(message) == message.command \in Symbols /\ ~message.ok

\* A response whose callback throws: a refused subscription.  Only the watcher
\* catches that, in start()'s loop.
ReadRefusal(t) ==
    /\ Reading(t) /\ conn # "none" /\ inbox # << >>
    /\ IsRefusal(Head(inbox))
    /\ IF t = Main \/ pc[t] = "login_read" THEN Terminate
       ELSE /\ Goto(t, "end")
            /\ inbox' = Tail(inbox)
            /\ UNCHANGED <<item, conn, flags, toAdd, subscribed, asked, sent, delivered, terminated>>

\* Any other message.  The LOGOUT callback closes the connection and lets go
\* of it, whatever the other thread is doing with it.
ReadMessage(t) ==
    LET message == Head(inbox) IN
    /\ Reading(t) /\ conn # "none" /\ inbox # << >>
    /\ ~IsRefusal(message)
    /\ item' = [item EXCEPT ![t] = message.data]
    /\ Goto(t, IF message.data > 0 THEN "push" ELSE LoopOf(t))
    /\ login' = IF message.command # "LOGIN" THEN login ELSE IF message.ok THEN "ok" ELSE "failed"
    /\ subscribed' = IF message.ok THEN subscribed \cup ({message.command} \cap Symbols) ELSE subscribed
    /\ IF message.command = "LOGOUT"
       THEN conn' = "none" /\ inbox' = << >>
       ELSE inbox' = Tail(inbox) /\ UNCHANGED conn
    /\ UNCHANGED <<running, stopping, again, fresh, damaged, toAdd, asked, sent, delivered, terminated>>

\* The read fails: the network broke, the other thread destroyed the
\* connection, or both threads were reading it at once.
ReadFails(t) ==
    /\ Reading(t)
    /\ conn # "open" \/ (\A u \in Threads : Reading(u))
    /\ Throws(t) \/ (conn = "none" /\ Terminate)

\* Nobody gets a message, or both threads do.
ReadsMeet ==
    /\ conn # "none" /\ inbox # << >>
    /\ Damages
    /\ inbox' \in {Tail(inbox), <<Head(inbox)>> \o inbox}
    /\ UNCHANGED <<pc, item, conn, running, stopping, again, login, fresh, toAdd, subscribed, asked, sent, delivered, terminated>>

\* The data callback: push_back on the candle or market buffer.
Push(t) ==
    /\ pc[t] = "push"
    /\ delivered' = Append(delivered, item[t])
    /\ fresh' = TRUE
    /\ item' = [item EXCEPT ![t] = 0]
    /\ Goto(t, IF t = Main THEN "drain" ELSE "loop")
    /\ UNCHANGED <<conn, running, stopping, again, login, damaged, toAdd, subscribed, asked, inbox, sent, terminated>>

-----------------------------------------------------------------------------
(* The watcher: start().                                                   *)

\* _login connects and sends LOGIN, or throws.
Connect ==
    /\ pc[Watcher] = "begin"
    /\ \/ Terminate
       \/ /\ conn' = "open"
          /\ stopping' = FALSE
          /\ Send("LOGIN")
          /\ Goto(Watcher, "login")
          /\ UNCHANGED <<item, running, again, login, fresh, damaged, toAdd, subscribed, inbox, sent, delivered, terminated>>

\* It reads until the login is answered, and throws if it was refused.
Login ==
    /\ pc[Watcher] = "login"
    /\ IF login = "failed" THEN Terminate
       ELSE /\ running' = (login = "ok")
            /\ Goto(Watcher, IF login = "ok" THEN "subscribe" ELSE "login_read")
            /\ UNCHANGED <<item, conn, stopping, again, login, fresh, damaged, toAdd, subscribed, asked, inbox, sent, delivered, terminated>>

\* The callback passed to start(), outside of its try block.
AddSymbol ==
    /\ pc[Watcher] = "subscribe" /\ toAdd # {}
    /\ IF conn # "open" THEN Terminate
       ELSE \E s \in toAdd :
              /\ Command(s)
              /\ toAdd' = toAdd \ {s}
              /\ UNCHANGED <<pc, item, conn, running, stopping, again, login, fresh, subscribed, inbox, sent, delivered, terminated>>

Subscribed ==
    /\ pc[Watcher] = "subscribe" /\ toAdd = {}
    /\ Goto(Watcher, "loop")
    /\ UNCHANGED <<item, conn, flags, toAdd, subscribed, asked, inbox, sent, delivered, terminated>>

\* while (!_stopping).
Loop ==
    /\ pc[Watcher] = "loop"
    /\ Goto(Watcher, IF stopping THEN "end" ELSE "read")
    /\ UNCHANGED <<item, conn, flags, toAdd, subscribed, asked, inbox, sent, delivered, terminated>>

\* if (!_stopping) after the loop.
End ==
    /\ pc[Watcher] = "end"
    /\ Goto(Watcher, IF stopping THEN "returned" ELSE "close")
    /\ running' = (running /\ ~stopping)
    /\ UNCHANGED <<item, conn, stopping, again, login, fresh, damaged, toAdd, subscribed, asked, inbox, sent, delivered, terminated>>

\* Closing a connection that is broken, or gone by now, throws out of start().
Close ==
    /\ pc[Watcher] = "close"
    /\ IF conn # "open" THEN Terminate
       ELSE /\ conn' = "none"
            /\ running' = FALSE
            /\ Goto(Watcher, "returned")
            /\ UNCHANGED <<item, stopping, again, login, fresh, damaged, toAdd, subscribed, asked, inbox, sent, delivered, terminated>>

-----------------------------------------------------------------------------
(* The main thread: ~market_watch, stop().                                 *)

\* Once the executor has caught up with the day, the market closes at any
\* time.  Without a connection stop() throws out of the destructor.
LeaveRunning == stopping
SetStopping == TRUE
Stop ==
    /\ pc[Main] = "trading" /\ fresh
    /\ IF conn = "none" THEN Terminate
       ELSE /\ stopping' = SetStopping
            /\ Goto(Main, "logout")
            /\ UNCHANGED <<item, conn, running, again, login, fresh, damaged, toAdd, subscribed, asked, inbox, sent, delivered, terminated>>

Logout ==
    /\ pc[Main] = "logout"
    /\ IF conn # "open" THEN Terminate
       ELSE /\ Command("LOGOUT")
            /\ Goto(Main, "drain")
            /\ UNCHANGED <<item, conn, running, stopping, again, login, fresh, toAdd, subscribed, inbox, sent, delivered, terminated>>

\* while (_conn).
Drain ==
    /\ pc[Main] = "drain"
    /\ Goto(Main, IF conn = "none" THEN "stopped" ELSE "read")
    /\ UNCHANGED <<item, conn, flags, toAdd, subscribed, asked, inbox, sent, delivered, terminated>>

\* ~stream, the first member to go, stops again if the connection is still
\* there and the watcher has not noticed that it ended.
DestroyStream ==
    /\ pc[Main] = "stopped"
    /\ IF conn # "none" /\ running /\ ~again
       THEN again' = TRUE /\ Goto(Main, "logout")
       ELSE Goto(Main, "destroyed") /\ UNCHANGED again
    /\ UNCHANGED <<item, conn, running, stopping, login, fresh, damaged, toAdd, subscribed, asked, inbox, sent, delivered, terminated>>

\* The watcher touches members that are gone; it may get away with it.
UseAfterDestruction ==
    /\ pc[Main] = "destroyed" /\ pc[Watcher] # "returned"
    /\ Terminate

-----------------------------------------------------------------------------
(* The server and the network (external).                                  *)

Answer ==
    /\ asked # << >> /\ conn = "open"
    /\ \E ok \in BOOLEAN : inbox' = Append(inbox, Response(Head(asked), ok))
    /\ asked' = Tail(asked)
    /\ UNCHANGED <<pc, item, conn, flags, toAdd, subscribed, sent, delivered, terminated>>

SendData ==
    /\ sent < MaxData /\ conn = "open"
    /\ Symbols \ toAdd # {}
    /\ sent' = sent + 1
    /\ inbox' = Append(inbox, Data(sent'))
    /\ UNCHANGED <<pc, item, conn, flags, toAdd, subscribed, asked, delivered, terminated>>

Break ==
    /\ conn = "open"
    /\ conn' = "broken"
    /\ UNCHANGED <<pc, item, flags, toAdd, subscribed, asked, inbox, sent, delivered, terminated>>

-----------------------------------------------------------------------------

\* A prefetched history may have brought the executor up to date already.
Init ==
    /\ pc = [t \in Threads |-> IF t = Watcher THEN "begin" ELSE "trading"]
    /\ item = [t \in Threads |-> 0]
    /\ conn = "none"
    /\ running = FALSE
    /\ stopping = FALSE
    /\ again = FALSE
    /\ login = "none"
    /\ toAdd = Symbols
    /\ subscribed = {}
    /\ asked = << >>
    /\ inbox = << >>
    /\ sent = 0
    /\ delivered = << >>
    /\ damaged = FALSE
    /\ fresh \in BOOLEAN
    /\ terminated = FALSE

ProcessMessage(t) == ReadMessage(t) \/ ReadRefusal(t) \/ ReadFails(t) \/ Push(t)

WatcherStep ==
    \/ Connect
    \/ Login
    \/ AddSymbol
    \/ Subscribed
    \/ Loop
    \/ End
    \/ Close
    \/ ProcessMessage(Watcher)

StopStep == Logout \/ Drain \/ ProcessMessage(Main) \/ DestroyStream

Next ==
    /\ ~terminated
    /\ \/ WatcherStep
       \/ Stop
       \/ StopStep
       \/ ReadsMeet
       \/ UseAfterDestruction
       \/ Answer
       \/ SendData
       \/ Break

Spec == Init /\ [][Next]_vars

\* Threads run, and the server answers what it is asked.
FairSpec ==
    /\ Spec
    /\ WF_vars(~terminated /\ WatcherStep)
    /\ WF_vars(~terminated /\ StopStep)
    /\ WF_vars(~terminated /\ Answer)

-----------------------------------------------------------------------------
(* Properties.                                                             *)

\* Every variable has its type.
TypeOK ==
    /\ pc[Watcher] \in {"begin", "login", "login_read", "subscribe", "loop", "read", "push", "end", "close", "returned"}
    /\ pc[Main] \in {"trading", "logout", "drain", "read", "push", "stopped", "destroyed"}
    /\ item \in [Threads -> 0..MaxData]
    /\ conn \in {"none", "open", "broken"}
    /\ login \in {"none", "ok", "failed"}
    /\ {running, stopping, again, damaged, fresh, terminated} \subseteq BOOLEAN
    /\ toAdd \subseteq Symbols /\ subscribed \subseteq Symbols \ toAdd
    /\ asked \in Seq(Commands) /\ inbox \in Seq(Messages)
    /\ sent \in 0..MaxData
    /\ delivered \in Seq(1..MaxData)

\* The last message that was delivered or is in the watcher's hand.
Reached == Len(delivered) + (IF item[Watcher] > 0 THEN 1 ELSE 0)

\* Until stop() is called messages are delivered in the order the server sent
\* them, without a gap, and none is lost: what the watcher has not reached is
\* still on its way, whatever answers come between.
InOrderUntilStop ==
    /\ TypeOK
    /\ ~stopping =>
         /\ delivered = [i \in 1..Len(delivered) |-> i]
         /\ \A n \in (Reached + 1)..sent : \E i \in 1..Len(inbox) : inbox[i].data = n

\* A stock that was asked for is acknowledged, or the feed does not go on as if
\* it had been: it ends, is stopped, takes the process down or loses its
\* connection.
SubscribesOrEnds ==
    pc[Watcher] = "subscribe"
        ~> subscribed = Symbols \/ pc[Watcher] = "returned" \/ stopping \/ terminated \/ conn = "broken"

\* Shutting down ends: once stop() has been called both threads come to their
\* end, or the process does, whoever reads the answer to LOGOUT and whenever
\* the network breaks.  Only where the threads' uses of the websocket damaged a
\* message may they wait on a connection that stays up for ever.
ShutdownEnds ==
    pc[Main] = "logout" ~>
        \/ terminated
        \/ pc[Main] = "destroyed" /\ pc[Watcher] = "returned"
        \/ [](damaged /\ conn = "open")

=============================================================================
