-------------------------- MODULE MarketFeedProofs --------------------------
(***************************************************************************)
(* The order of the market feed, for any stocks and any number of          *)
(* messages: what is delivered until the threads share the websocket.       *)
(***************************************************************************)
EXTENDS MarketFeed, TLAPS

-----------------------------------------------------------------------------
(* The inductive invariant.                                                *)

\* Where both threads are.
PcDefined == DOMAIN pc = Threads

\* A thread has data in hand exactly between its read and its push: none
\* elsewhere,
InHand == \A t \in Threads : pc[t] # "push" => item[t] = 0

\* and some there.
InPush == \A t \in Threads : pc[t] = "push" => item[t] > 0

\* A command on its way to the server or back is not one still to be sent.
WasAsked ==
    /\ \A i \in 1..Len(asked) : asked[i] \notin toAdd
    /\ \A i \in 1..Len(inbox) : inbox[i].command \notin toAdd

\* There is no data that the server has not sent.
WasSent ==
    /\ \A i \in 1..Len(delivered) : delivered[i] <= sent
    /\ \A t \in Threads : item[t] <= sent
    /\ \A i \in 1..Len(inbox) : inbox[i].data <= sent

\* The server's messages are on their way in the order it sent them, until the
\* threads meet in the websocket.
Sorted ==
    ~stopping => \A i, j \in 1..Len(inbox) :
        i < j /\ inbox[i].data > 0 /\ inbox[j].data > 0 => inbox[i].data < inbox[j].data

\* Until the main thread stops the feed it leaves it alone, and nobody has
\* asked the server to log out.
Untouched ==
    /\ pc[Watcher] = "begin" => ~stopping /\ conn = "none"
    /\ ~stopping =>
         /\ pc[Main] = "trading"
         /\ \A i \in 1..Len(asked) : asked[i] # "LOGOUT"
         /\ \A i \in 1..Len(inbox) : inbox[i].command # "LOGOUT"

\* Until then every message up to Reached is delivered or in the watcher's
\* hand, and every later one is on its way.
NoGap ==
    ~stopping =>
        /\ \A i \in 1..Len(delivered) : delivered[i] = i
        /\ item[Watcher] > 0 => item[Watcher] = Len(delivered) + 1
        /\ \A i \in 1..Len(inbox) : inbox[i].data > 0 => inbox[i].data > Reached
        /\ \A n \in (Reached + 1)..sent : \E i \in 1..Len(inbox) : inbox[i].data = n

FeedInv == TypeOK /\ PcDefined /\ InHand /\ InPush /\ WasAsked /\ WasSent /\ Sorted /\ Untouched /\ NoGap

-----------------------------------------------------------------------------
(* Lemmas.                                                                 *)

\* What the parts of a message can be: data comes without a command.
LEMMA MessageParts ==
    ASSUME NEW m \in Messages
    PROVE  /\ m.data \in 0..MaxData /\ m.ok \in BOOLEAN
           /\ m.command \in Commands \cup {"none"}
           /\ m.data > 0 => m.command = "none"
<1>1. CASE \E c \in Commands, ok \in BOOLEAN : m = Response(c, ok)
  <2>1. PICK c \in Commands, ok \in BOOLEAN : m = Response(c, ok)
    BY <1>1
  <2>2. m.command = c /\ m.ok = ok /\ m.data = 0
    BY <2>1 DEF Response
  <2>3. QED
    BY <2>2, FeedAssumption
<1>2. CASE \E n \in 1..MaxData : m = Data(n)
  <2>1. PICK n \in 1..MaxData : m = Data(n)
    BY <1>2
  <2>2. m.command = "none" /\ m.ok = TRUE /\ m.data = n
    BY <2>1 DEF Data
  <2>3. m.data \in 0..MaxData
    BY <2>2, FeedAssumption
  <2>4. m.ok \in BOOLEAN
    BY <2>2, Zenon
  <2>5. QED
    BY <2>2, <2>3, <2>4, Zenon
<1>3. QED
  BY <1>1, <1>2 DEF Messages

\* A sequence over a set holds its elements.
LEMMA ElementOfSeq ==
    ASSUME NEW S, NEW s \in Seq(S), NEW i \in 1..Len(s)
    PROVE  s[i] \in S
OBVIOUS

\* What the invariant says of the types in use below.
LEMMA Types ==
    ASSUME TypeOK
    PROVE  /\ inbox \in Seq(Messages) /\ asked \in Seq(Commands) /\ delivered \in Seq(1..MaxData)
           /\ Len(inbox) \in Nat /\ Len(asked) \in Nat /\ Len(delivered) \in Nat
           /\ sent \in Nat /\ MaxData \in Nat
           /\ \A t \in Threads : item[t] \in Nat
           /\ \A i \in 1..Len(inbox) : inbox[i] \in Messages /\ inbox[i].data \in Nat
           /\ \A i \in 1..Len(delivered) : delivered[i] \in Nat /\ delivered[i] > 0
           /\ Watcher \in Threads /\ Main \in Threads /\ Watcher # Main
<1>1. /\ inbox \in Seq(Messages) /\ asked \in Seq(Commands) /\ delivered \in Seq(1..MaxData)
      /\ item \in [Threads -> 0..MaxData] /\ sent \in 0..MaxData
  BY DEF TypeOK
<1>2. MaxData \in Nat /\ Watcher # Main
  BY FeedAssumption
<1>3. \A i \in 1..Len(inbox) : inbox[i] \in Messages
  BY <1>1
<1>4. \A i \in 1..Len(inbox) : inbox[i].data \in Nat
  BY <1>2, <1>3, MessageParts
<1>5. \A i \in 1..Len(delivered) : delivered[i] \in 1..MaxData
  BY <1>1, ElementOfSeq
<1>6. QED
  BY <1>1, <1>2, <1>3, <1>4, <1>5 DEF Threads

\* A response that the server appends changes nothing about the data.
LEMMA AnswerKeepsFeedInv ==
    ASSUME FeedInv, Answer
    PROVE  FeedInv'
<1>1. PICK ok \in BOOLEAN : inbox' = Append(inbox, Response(Head(asked), ok))
  BY DEF Answer
<1>2. /\ inbox \in Seq(Messages) /\ asked \in Seq(Commands) /\ Len(inbox) \in Nat /\ Len(asked) \in Nat
      /\ asked # << >>
  BY Types DEF FeedInv, Answer
<1>3. Head(asked) \in Commands /\ Head(asked) = asked[1] /\ 1 \in 1..Len(asked)
  BY <1>2
<1>4. Response(Head(asked), ok) \in Messages
  BY <1>3 DEF Messages
<1>5. /\ inbox' \in Seq(Messages) /\ Len(inbox') = Len(inbox) + 1
      /\ \A i \in 1..Len(inbox) : inbox'[i] = inbox[i]
      /\ inbox'[Len(inbox) + 1].data = 0 /\ inbox'[Len(inbox) + 1].command = asked[1]
  BY <1>1, <1>2, <1>3, <1>4 DEF Response
<1>6. \A i \in 1..Len(inbox') : i \in 1..Len(inbox) \/ i = Len(inbox) + 1
  BY <1>2, <1>5
<1>7. /\ asked' \in Seq(Commands)
      /\ \A i \in 1..Len(asked') : i + 1 \in 1..Len(asked) /\ asked'[i] = asked[i + 1]
  BY <1>2 DEF Answer
<1>8. UNCHANGED <<pc, item, conn, flags, toAdd, subscribed, sent, delivered, terminated>>
  BY DEF Answer
<1>9. TypeOK'
  BY <1>5, <1>7, <1>8 DEF FeedInv, TypeOK, flags
<1>10. PcDefined' /\ InHand' /\ InPush' /\ Untouched' /\ WasAsked'
  BY <1>3, <1>5, <1>6, <1>7, <1>8 DEF FeedInv, PcDefined, InHand, InPush, WasAsked, Untouched, flags
<1>11. WasSent' /\ Sorted'
  <2>1. UNCHANGED <<item, delivered, sent, stopping>> /\ WasSent /\ Sorted /\ sent \in Nat
    BY <1>8, Types DEF FeedInv, flags
  <2>2. \A i \in 1..Len(inbox') : inbox'[i].data = 0 \/ (i \in 1..Len(inbox) /\ inbox'[i] = inbox[i])
    BY <1>5, <1>6
  <2>3. WasSent'
    BY <2>1, <2>2 DEF WasSent
  <2>4. Sorted'
    BY <2>1, <2>2 DEF Sorted
  <2>5. QED
    BY <2>3, <2>4
<1>12. NoGap'
  <2>1. Reached' = Reached /\ stopping' = stopping /\ sent' = sent /\ delivered' = delivered /\ item' = item
    BY <1>8 DEF Reached, flags
  <2>2. ASSUME ~stopping, NEW i \in 1..Len(inbox'), inbox'[i].data > 0
        PROVE  inbox'[i].data > Reached
    <3>1. i \in 1..Len(inbox) /\ inbox'[i] = inbox[i]
      BY <1>5, <1>6, <2>2
    <3>2. QED
      BY <2>2, <3>1 DEF FeedInv, NoGap
  <2>3. ASSUME ~stopping, NEW n \in (Reached + 1)..sent
        PROVE  \E i \in 1..Len(inbox') : inbox'[i].data = n
    <3>1. PICK i \in 1..Len(inbox) : inbox[i].data = n
      BY <2>3 DEF FeedInv, NoGap
    <3>2. i \in 1..Len(inbox') /\ inbox'[i].data = n
      BY <1>2, <1>5, <3>1
    <3>3. QED
      BY <3>2
  <2>4. QED
    BY <2>1, <2>2, <2>3 DEF FeedInv, NoGap
<1>13. QED
  BY <1>9, <1>10, <1>11, <1>12 DEF FeedInv

\* A new message of the server is later than all before it.
LEMMA SendDataKeepsFeedInv ==
    ASSUME FeedInv, SendData
    PROVE  FeedInv'
<1>1. /\ inbox' = Append(inbox, Data(sent + 1)) /\ sent' = sent + 1
      /\ sent + 1 \in 1..MaxData
  BY Types, FeedAssumption DEF FeedInv, SendData, TypeOK
<1>2. /\ inbox \in Seq(Messages) /\ Len(inbox) \in Nat /\ sent \in Nat /\ Len(delivered) \in Nat
      /\ \A t \in Threads : item[t] \in Nat
      /\ \A i \in 1..Len(inbox) : inbox[i].data \in Nat
      /\ \A i \in 1..Len(delivered) : delivered[i] \in Nat
      /\ Watcher \in Threads
  BY Types DEF FeedInv
<1>3. Data(sent + 1) \in Messages
  BY <1>1 DEF Messages
<1>4. /\ inbox' \in Seq(Messages) /\ Len(inbox') = Len(inbox) + 1
      /\ \A i \in 1..Len(inbox) : inbox'[i] = inbox[i]
      /\ inbox'[Len(inbox) + 1].data = sent + 1 /\ inbox'[Len(inbox) + 1].command = "none"
  BY <1>1, <1>2, <1>3 DEF Data
<1>5. \A i \in 1..Len(inbox') : i \in 1..Len(inbox) \/ i = Len(inbox) + 1
  BY <1>2, <1>4
<1>6. UNCHANGED <<pc, item, conn, flags, toAdd, subscribed, asked, delivered, terminated>>
  BY DEF SendData
<1>7. TypeOK'
  BY <1>1, <1>4, <1>6 DEF FeedInv, TypeOK, flags
<1>8. "none" \notin toAdd
  BY FeedAssumption DEF FeedInv, TypeOK
<1>9. PcDefined' /\ InHand' /\ InPush' /\ Untouched' /\ WasAsked'
  BY <1>4, <1>5, <1>6, <1>8 DEF FeedInv, PcDefined, InHand, InPush, WasAsked, Untouched, flags
<1>10. WasSent'
  <2>1. /\ \A i \in 1..Len(delivered) : delivered[i] <= sent + 1
        /\ \A t \in Threads : item[t] <= sent + 1
    BY <1>2 DEF FeedInv, WasSent
  <2>2. \A i \in 1..Len(inbox) : inbox[i].data <= sent + 1
    BY <1>2 DEF FeedInv, WasSent
  <2>3. ASSUME NEW i \in 1..Len(inbox') PROVE inbox'[i].data <= sent + 1
    <3>1. CASE i \in 1..Len(inbox)
      <4>1. inbox'[i] = inbox[i]
        BY <1>4, <3>1
      <4>2. inbox[i].data <= sent + 1
        BY <2>2, <3>1
      <4>3. QED
        BY <4>1, <4>2
    <3>2. CASE i = Len(inbox) + 1
      <4>1. inbox'[i].data = sent + 1
        BY <1>4, <3>2
      <4>2. QED
        BY <1>2, <4>1
    <3>3. QED
      BY <1>5, <3>1, <3>2
  <2>4. QED
    BY <1>1, <1>6, <2>1, <2>3 DEF WasSent
<1>11. Sorted'
  BY <1>1, <1>2, <1>4, <1>5, <1>6 DEF FeedInv, WasSent, Sorted, flags
<1>12. NoGap'
  <2> SUFFICES ASSUME ~stopping PROVE NoGap'
    BY <1>6 DEF NoGap, flags
  <2>1. Reached' = Reached /\ Reached \in Nat
    BY <1>2, <1>6 DEF Reached
  <2>2. Reached <= sent
    <3>1. CASE item[Watcher] > 0
      BY <1>2, <3>1 DEF FeedInv, WasSent, NoGap, Reached
    <3>2. CASE item[Watcher] = 0
      <4>1. CASE Len(delivered) = 0
        BY <1>2, <3>2, <4>1 DEF Reached
      <4>2. CASE Len(delivered) > 0
        <5>1. Len(delivered) \in 1..Len(delivered)
          BY <1>2, <4>2
        <5>2. delivered[Len(delivered)] = Len(delivered) /\ delivered[Len(delivered)] <= sent
          BY <5>1 DEF FeedInv, WasSent, NoGap
        <5>3. QED
          BY <3>2, <5>2 DEF Reached
      <4>3. QED
        BY <1>2, <4>1, <4>2
    <3>3. QED
      BY <1>2, <3>1, <3>2
  <2>3. \A i \in 1..Len(inbox') : inbox'[i].data > 0 => inbox'[i].data > Reached'
    BY <1>2, <1>4, <1>5, <2>1, <2>2 DEF FeedInv, NoGap
  <2>4. \A n \in (Reached' + 1)..sent' : \E i \in 1..Len(inbox') : inbox'[i].data = n
    <3> SUFFICES ASSUME NEW n \in (Reached + 1)..(sent + 1)
                 PROVE  \E i \in 1..Len(inbox') : inbox'[i].data = n
      BY <1>1, <2>1
    <3>1. CASE n = sent + 1
      BY <1>2, <1>4, <3>1
    <3>2. CASE n # sent + 1
      <4>1. n \in (Reached + 1)..sent
        BY <1>2, <2>1, <3>2
      <4>2. PICK i \in 1..Len(inbox) : inbox[i].data = n
        BY <4>1 DEF FeedInv, NoGap
      <4>3. i \in 1..Len(inbox') /\ inbox'[i].data = n
        BY <1>2, <1>4, <4>2
      <4>4. QED
        BY <4>3
    <3>3. QED
      BY <3>1, <3>2
  <2>5. QED
    BY <1>6, <2>3, <2>4 DEF FeedInv, NoGap
<1>13. QED
  BY <1>7, <1>9, <1>10, <1>11, <1>12 DEF FeedInv

\* A thread takes the oldest message: it may get a response, or data, which is
\* then the one after those that were reached.
LEMMA ReadMessageKeepsFeedInv ==
    ASSUME FeedInv, NEW t \in Threads, ReadMessage(t)
    PROVE  FeedInv'
<1> DEFINE message == Head(inbox)
<1>1. /\ inbox \in Seq(Messages) /\ Len(inbox) \in Nat /\ sent \in Nat /\ Len(delivered) \in Nat
      /\ MaxData \in Nat
      /\ \A u \in Threads : item[u] \in Nat
      /\ \A i \in 1..Len(inbox) : inbox[i].data \in Nat
      /\ \A i \in 1..Len(delivered) : delivered[i] \in Nat /\ delivered[i] > 0
      /\ Watcher \in Threads /\ Main \in Threads /\ Watcher # Main /\ Threads = {Watcher, Main}
  BY Types DEF FeedInv, Threads
<1>2. /\ Len(inbox) > 0 /\ 1 \in 1..Len(inbox) /\ message = inbox[1] /\ message \in Messages
  BY <1>1 DEF ReadMessage
<1>3. /\ message.data \in 0..MaxData /\ message.ok \in BOOLEAN
      /\ message.command \in Commands \cup {"none"}
      /\ message.data > 0 => message.command = "none"
  BY <1>2, MessageParts
<1>4. /\ item' = [item EXCEPT ![t] = message.data]
      /\ pc' = [pc EXCEPT ![t] = IF message.data > 0 THEN "push" ELSE LoopOf(t)]
      /\ subscribed' = IF message.ok THEN subscribed \cup ({message.command} \cap Symbols) ELSE subscribed
      /\ IF message.command = "LOGOUT" THEN conn' = "none" /\ inbox' = << >>
         ELSE inbox' = Tail(inbox) /\ conn' = conn
      /\ login' \in {login, "ok", "failed"}
      /\ UNCHANGED <<running, stopping, again, fresh, damaged, toAdd, asked, sent, delivered, terminated>>
  BY DEF ReadMessage, Goto
<1>5. /\ pc[t] \in {"read", "login_read"} /\ item[t] = 0
  BY DEF ReadMessage, Reading, FeedInv, InHand
<1>6. /\ item' \in [Threads -> 0..MaxData]
      /\ item'[t] = message.data /\ \A u \in Threads : u # t => item'[u] = item[u]
  BY <1>3, <1>4 DEF FeedInv, TypeOK
<1>7. /\ inbox' \in Seq(Messages) /\ Len(inbox') \in Nat
      /\ \A i \in 1..Len(inbox') : i + 1 \in 2..Len(inbox) /\ inbox'[i] = inbox[i + 1]
  <2>1. CASE message.command = "LOGOUT"
    BY <1>4, <2>1
  <2>2. CASE message.command # "LOGOUT"
    <3>1. inbox' = Tail(inbox) /\ Len(inbox') = Len(inbox) - 1
      BY <1>1, <1>2, <1>4, <2>2
    <3>2. QED
      BY <1>1, <1>2, <3>1
  <2>3. QED
    BY <2>1, <2>2
<1>8. TypeOK'
  <2>1. /\ pc'[Watcher] \in {"begin", "login", "login_read", "subscribe", "loop", "read", "push", "end", "close", "returned"}
        /\ pc'[Main] \in {"trading", "logout", "drain", "read", "push", "stopped", "destroyed"}
    <3>1. CASE t = Watcher
      BY <1>1, <1>4, <3>1 DEF FeedInv, TypeOK, LoopOf
    <3>2. CASE t = Main
      BY <1>1, <1>4, <3>2 DEF FeedInv, TypeOK, LoopOf
    <3>3. QED
      BY <1>1, <3>1, <3>2
  <2>2. subscribed' \subseteq Symbols \ toAdd'
    BY <1>2, <1>4 DEF FeedInv, TypeOK, WasAsked
  <2>3. conn' \in {"none", "open", "broken"} /\ login' \in {"none", "ok", "failed"}
    BY <1>4 DEF FeedInv, TypeOK
  <2>4. QED
    BY <1>4, <1>6, <1>7, <2>1, <2>2, <2>3 DEF FeedInv, TypeOK
<1>9. /\ DOMAIN pc' = DOMAIN pc
      /\ \A u \in Threads : u # t => pc'[u] = pc[u]
  BY <1>4
<1>10. InHand' /\ InPush'
  <2>1. ASSUME NEW u \in Threads, pc'[u] # "push" PROVE item'[u] = 0
    <3>1. CASE u # t
      BY <1>6, <1>9, <2>1, <3>1 DEF FeedInv, InHand
    <3>2. CASE u = t
      <4>1. t \in DOMAIN pc => message.data = 0
        BY <1>3, <1>4, <2>1, <3>2
      <4>2. t \in DOMAIN pc
        BY <1>5, <3>2 DEF FeedInv, PcDefined
      <4>3. QED
        BY <1>6, <3>2, <4>1, <4>2
    <3>3. QED
      BY <3>1, <3>2
  <2>2. ASSUME NEW u \in Threads, pc'[u] = "push" PROVE item'[u] > 0
    <3>1. CASE u # t
      BY <1>6, <1>9, <2>2, <3>1 DEF FeedInv, InPush
    <3>2. CASE u = t
      <4>1. pc'[t] = IF message.data > 0 THEN "push" ELSE LoopOf(t)
        BY <1>4 DEF FeedInv, PcDefined
      <4>2. LoopOf(t) # "push"
        BY DEF LoopOf
      <4>3. QED
        BY <1>6, <2>2, <3>2, <4>1, <4>2
    <3>3. QED
      BY <3>1, <3>2
  <2>3. QED
    BY <2>1, <2>2 DEF InHand, InPush
<1>11. WasAsked'
  <2>1. \A i \in 1..Len(inbox') : i + 1 \in 1..Len(inbox) /\ inbox'[i] = inbox[i + 1]
    BY <1>1, <1>7
  <2>2. toAdd' = toAdd /\ asked' = asked
    BY <1>4
  <2>3. QED
    BY <2>1, <2>2 DEF FeedInv, WasAsked
<1>12. ASSUME ~stopping, NEW i \in 2..Len(inbox)
       PROVE  i \in 1..Len(inbox) /\ (inbox[i].data > 0 /\ message.data > 0 => inbox[1].data < inbox[i].data)
  BY <1>1, <1>2, <1>12 DEF FeedInv, Sorted
<1>13. Sorted'
  <2> SUFFICES ASSUME ~stopping, NEW i \in 1..Len(inbox'), NEW j \in 1..Len(inbox'),
                      i < j, inbox'[i].data > 0, inbox'[j].data > 0
               PROVE  inbox'[i].data < inbox'[j].data
    BY <1>4 DEF Sorted
  <2>1. /\ i + 1 \in 1..Len(inbox) /\ j + 1 \in 1..Len(inbox) /\ i + 1 < j + 1
        /\ inbox'[i] = inbox[i + 1] /\ inbox'[j] = inbox[j + 1]
    BY <1>1, <1>7
  <2>2. QED
    BY <2>1 DEF FeedInv, Sorted
<1>14. WasSent'
  <2>1. \A u \in Threads : item'[u] <= sent
    BY <1>2, <1>6 DEF FeedInv, WasSent
  <2>2. ASSUME NEW i \in 1..Len(inbox')
        PROVE  inbox'[i].data <= sent
    <3>1. i + 1 \in 1..Len(inbox) /\ inbox'[i] = inbox[i + 1]
      BY <1>1, <1>7
    <3>2. QED
      BY <3>1 DEF FeedInv, WasSent
  <2>3. QED
    BY <1>4, <2>1, <2>2 DEF FeedInv, WasSent
<1>15. Untouched'
  <2>1. pc'[Watcher] # "begin"
    <3>1. pc'[t] # "begin" /\ pc[t] # "begin"
      BY <1>4, <1>5, <1>9 DEF LoopOf, FeedInv, PcDefined
    <3>2. pc[Watcher] = "begin" => conn = "none"
      BY DEF FeedInv, Untouched
    <3>3. QED
      BY <1>1, <1>9, <3>1, <3>2 DEF ReadMessage
  <2>2. ASSUME ~stopping PROVE pc'[Main] = "trading"
    <3>1. pc[Main] = "trading"
      BY <2>2 DEF FeedInv, Untouched
    <3>2. t # Main
      BY <1>5, <3>1
    <3>3. QED
      BY <1>1, <1>9, <3>1, <3>2
  <2>3. ASSUME ~stopping, NEW i \in 1..Len(inbox') PROVE inbox'[i].command # "LOGOUT"
    <3>1. i + 1 \in 1..Len(inbox) /\ inbox'[i] = inbox[i + 1]
      BY <1>1, <1>7
    <3>2. QED
      BY <2>3, <3>1 DEF FeedInv, Untouched
  <2>4. QED
    BY <1>4, <2>1, <2>2, <2>3 DEF FeedInv, Untouched
<1>16. NoGap'
  <2> SUFFICES ASSUME ~stopping PROVE NoGap'
    BY <1>4 DEF NoGap
  <2>1. t = Watcher /\ item[Watcher] = 0 /\ message.command # "LOGOUT"
    BY <1>1, <1>2, <1>5 DEF FeedInv, Untouched
  <2>2. inbox' = Tail(inbox) /\ Len(inbox') = Len(inbox) - 1
    BY <1>1, <1>2, <1>4, <2>1
  <2>3. /\ Reached = Len(delivered)
        /\ Reached' = Len(delivered) + (IF message.data > 0 THEN 1 ELSE 0)
    BY <1>4, <1>6, <2>1 DEF Reached
  <2>4. message.data > 0 => message.data = Len(delivered) + 1
    <3> SUFFICES ASSUME message.data > 0 PROVE message.data = Len(delivered) + 1
      OBVIOUS
    <3>1. message.data > Len(delivered) /\ message.data <= sent
      BY <1>2, <2>3 DEF FeedInv, NoGap, WasSent
    <3>2. Len(delivered) + 1 \in (Reached + 1)..sent
      BY <1>1, <1>3, <2>3, <3>1
    <3>3. PICK i \in 1..Len(inbox) : inbox[i].data = Len(delivered) + 1
      BY <3>2 DEF FeedInv, NoGap
    <3>4. i = 1 \/ i \in 2..Len(inbox)
      BY <1>1
    <3>5. CASE i = 1
      BY <1>2, <3>3, <3>5
    <3>6. CASE i \in 2..Len(inbox)
      BY <1>1, <1>2, <1>3, <1>12, <3>1, <3>3, <3>6
    <3>7. QED
      BY <3>4, <3>5, <3>6
  <2>5. item'[Watcher] > 0 => item'[Watcher] = Len(delivered') + 1
    BY <1>4, <1>6, <2>1, <2>4
  <2>6. \A i \in 1..Len(inbox') : inbox'[i].data > 0 => inbox'[i].data > Reached'
    <3> SUFFICES ASSUME NEW i \in 1..Len(inbox'), inbox'[i].data > 0 PROVE inbox'[i].data > Reached'
      OBVIOUS
    <3>1. i + 1 \in 2..Len(inbox) /\ i + 1 \in 1..Len(inbox) /\ inbox'[i] = inbox[i + 1]
      BY <1>1, <1>7
    <3>2. inbox[i + 1].data > Len(delivered) /\ inbox[i + 1].data \in Nat
      BY <1>1, <2>3, <3>1 DEF FeedInv, NoGap
    <3>3. message.data > 0 => inbox[i + 1].data > message.data
      BY <1>1, <1>2, <1>12, <3>1
    <3>4. QED
      BY <1>1, <1>3, <2>3, <2>4, <3>1, <3>2, <3>3
  <2>7. \A n \in (Reached' + 1)..sent' : \E i \in 1..Len(inbox') : inbox'[i].data = n
    <3> SUFFICES ASSUME NEW n \in (Reached' + 1)..sent
                 PROVE  \E i \in 1..Len(inbox') : inbox'[i].data = n
      BY <1>4
    <3>1. n \in (Reached + 1)..sent /\ n \in Nat /\ n > 0 /\ (message.data > 0 => n > message.data)
      BY <1>1, <1>3, <2>3, <2>4
    <3>2. PICK i \in 1..Len(inbox) : inbox[i].data = n
      BY <3>1 DEF FeedInv, NoGap
    <3>3. i # 1
      BY <1>1, <1>2, <1>3, <3>1, <3>2
    <3>4. i - 1 \in 1..Len(inbox') /\ inbox'[i - 1] = inbox[i]
      BY <1>1, <1>7, <2>2, <3>3
    <3>5. QED
      BY <3>2, <3>4
  <2>8. QED
    BY <1>4, <2>5, <2>6, <2>7 DEF FeedInv, NoGap
<1>17. QED
  BY <1>8, <1>9, <1>10, <1>11, <1>13, <1>14, <1>15, <1>16 DEF FeedInv, PcDefined

\* The end of the process touches nothing the invariant is about.
LEMMA TerminateKeepsFeedInv ==
    ASSUME FeedInv, Terminate
    PROVE  FeedInv'
<1>1. terminated' = TRUE
      /\ UNCHANGED <<pc, item, conn, flags, toAdd, subscribed, asked, inbox, sent, delivered>>
  BY DEF Terminate
<1>2. terminated' \in BOOLEAN
  BY <1>1, Zenon
<1>3. TypeOK'
  BY <1>1, <1>2 DEF FeedInv, TypeOK, flags
<1>4. QED
  BY <1>1, <1>3 DEF FeedInv, PcDefined, InHand, InPush, WasAsked, WasSent, Sorted, Untouched, NoGap, Reached, flags

\* What a thread pushes is the message after the last one that was delivered,
\* unless the feed is being stopped.
LEMMA PushKeepsFeedInv ==
    ASSUME FeedInv, NEW t \in Threads, Push(t)
    PROVE  FeedInv'
<1>1. /\ Len(inbox) \in Nat /\ sent \in Nat /\ Len(delivered) \in Nat /\ delivered \in Seq(1..MaxData)
      /\ MaxData \in Nat
      /\ \A u \in Threads : item[u] \in Nat
      /\ \A i \in 1..Len(inbox) : inbox[i].data \in Nat
      /\ \A i \in 1..Len(delivered) : delivered[i] \in Nat /\ delivered[i] > 0
      /\ Watcher \in Threads /\ Main \in Threads /\ Watcher # Main /\ Threads = {Watcher, Main}
      /\ item \in [Threads -> 0..MaxData]
  BY Types DEF FeedInv, Threads, TypeOK
<1>2. /\ pc[t] = "push"
      /\ delivered' = Append(delivered, item[t])
      /\ item' = [item EXCEPT ![t] = 0]
      /\ pc' = [pc EXCEPT ![t] = IF t = Main THEN "drain" ELSE "loop"]
      /\ fresh' = TRUE
      /\ UNCHANGED <<conn, running, stopping, again, login, damaged, toAdd, subscribed, asked, inbox, sent, terminated>>
  BY DEF Push, Goto
<1>3. /\ item' \in [Threads -> 0..MaxData] /\ item'[t] = 0
      /\ \A u \in Threads : u # t => item'[u] = item[u] /\ pc'[u] = pc[u]
      /\ pc'[t] = (IF t = Main THEN "drain" ELSE "loop") /\ DOMAIN pc' = DOMAIN pc
  BY <1>1, <1>2 DEF FeedInv, PcDefined
<1>4. item[t] > 0
  BY <1>2 DEF FeedInv, InPush
<1>5. /\ item[t] \in 1..MaxData
      /\ delivered' \in Seq(1..MaxData) /\ Len(delivered') = Len(delivered) + 1
      /\ \A i \in 1..Len(delivered) : delivered'[i] = delivered[i]
      /\ delivered'[Len(delivered) + 1] = item[t]
  BY <1>1, <1>2, <1>4
<1>6. \A i \in 1..Len(delivered') : i \in 1..Len(delivered) \/ i = Len(delivered) + 1
  BY <1>1, <1>5
<1>7. TypeOK'
  <2>1. /\ pc'[Watcher] \in {"begin", "login", "login_read", "subscribe", "loop", "read", "push", "end", "close", "returned"}
        /\ pc'[Main] \in {"trading", "logout", "drain", "read", "push", "stopped", "destroyed"}
    BY <1>1, <1>3 DEF FeedInv, TypeOK
  <2>2. {running', stopping', again', damaged', fresh', terminated'} \subseteq BOOLEAN
    <3>1. fresh' \in BOOLEAN
      BY <1>2, Zenon
    <3>2. {running', stopping', again', damaged', terminated'} \subseteq BOOLEAN
      BY <1>2 DEF FeedInv, TypeOK
    <3>3. QED
      BY <3>1, <3>2
  <2>3. QED
    BY <1>2, <1>3, <1>5, <2>1, <2>2 DEF FeedInv, TypeOK
<1>8. PcDefined' /\ InHand' /\ InPush' /\ WasAsked' /\ Sorted'
  BY <1>1, <1>2, <1>3 DEF FeedInv, PcDefined, InHand, InPush, WasAsked, Sorted
<1>9. WasSent'
  <2>1. \A i \in 1..Len(delivered') : delivered'[i] <= sent
    BY <1>1, <1>5, <1>6 DEF FeedInv, WasSent
  <2>2. \A u \in Threads : item'[u] <= sent
    BY <1>1, <1>3 DEF FeedInv, WasSent
  <2>3. QED
    BY <1>2, <2>1, <2>2 DEF FeedInv, WasSent
<1>10. Untouched'
  BY <1>1, <1>2, <1>3 DEF FeedInv, Untouched
<1>11. NoGap'
  <2> SUFFICES ASSUME ~stopping PROVE NoGap'
    BY <1>2 DEF NoGap
  <2>1. t = Watcher
    BY <1>1, <1>2 DEF FeedInv, Untouched
  <2>2. Reached = Len(delivered) + 1 /\ Reached' = Len(delivered) + 1
    BY <1>1, <1>3, <1>4, <1>5, <2>1 DEF Reached
  <2>3. item[t] = Len(delivered) + 1
    BY <1>4, <2>1 DEF FeedInv, NoGap
  <2>4. \A i \in 1..Len(delivered') : delivered'[i] = i
    BY <1>5, <1>6, <2>3 DEF FeedInv, NoGap
  <2>5. QED
    BY <1>2, <1>3, <2>1, <2>2, <2>4 DEF FeedInv, NoGap
<1>12. QED
  BY <1>7, <1>8, <1>9, <1>10, <1>11 DEF FeedInv

\* A refused subscription that is taken from the connection leaves no gap: it
\* holds no data.
LEMMA ReadRefusalKeepsFeedInv ==
    ASSUME FeedInv, NEW t \in Threads, ReadRefusal(t)
    PROVE  FeedInv'
<1>1. CASE Terminate
  BY <1>1, TerminateKeepsFeedInv
<1>2. CASE ~Terminate
  <2>1. /\ t = Watcher /\ inbox # << >> /\ pc[t] = "read" /\ IsRefusal(Head(inbox))
        /\ pc' = [pc EXCEPT ![t] = "end"]
        /\ inbox' = Tail(inbox)
        /\ UNCHANGED <<item, conn, flags, toAdd, subscribed, asked, sent, delivered, terminated>>
    BY <1>2 DEF ReadRefusal, Goto, Threads, Reading
  <2>2. /\ inbox \in Seq(Messages) /\ Len(inbox) \in Nat /\ sent \in Nat /\ Len(delivered) \in Nat
        /\ \A i \in 1..Len(inbox) : inbox[i].data \in Nat
        /\ Watcher \in Threads /\ Main \in Threads /\ Watcher # Main
        /\ item[Watcher] \in Nat
    BY Types DEF FeedInv
  <2>3. /\ Len(inbox) > 0 /\ Head(inbox) = inbox[1] /\ inbox[1] \in Messages
        /\ inbox' \in Seq(Messages) /\ Len(inbox') = Len(inbox) - 1
        /\ \A i \in 1..Len(inbox') : i + 1 \in 1..Len(inbox) /\ inbox'[i] = inbox[i + 1]
    BY <2>1, <2>2
  <2>4. ~(inbox[1].data > 0)
    <3>1. inbox[1].command \in Symbols
      BY <2>1, <2>3 DEF IsRefusal
    <3>2. QED
      BY <2>3, <3>1, MessageParts, FeedAssumption
  <2>5. /\ DOMAIN pc' = DOMAIN pc /\ pc'[Watcher] = "end" /\ pc'[Main] = pc[Main]
        /\ \A u \in Threads : u # t => pc'[u] = pc[u]
    BY <2>1, <2>2 DEF FeedInv, PcDefined
  <2>6. TypeOK'
    BY <2>1, <2>3, <2>5 DEF FeedInv, TypeOK, flags
  <2>7. InHand' /\ InPush' /\ PcDefined'
    BY <2>1, <2>5 DEF FeedInv, InHand, InPush, PcDefined, Threads
  <2>8. WasAsked' /\ WasSent' /\ Untouched'
    <3>1. /\ UNCHANGED <<conn, stopping, item, toAdd, asked, sent, delivered>>
          /\ pc[Watcher] = "read"
      BY <2>1 DEF flags
    <3>2. WasAsked'
      BY <2>3, <3>1 DEF FeedInv, WasAsked
    <3>3. WasSent'
      BY <2>3, <3>1 DEF FeedInv, WasSent
    <3>4. Untouched'
      BY <2>3, <2>5, <3>1 DEF FeedInv, Untouched
    <3>5. QED
      BY <3>2, <3>3, <3>4
  <2>9. Sorted'
    <3> SUFFICES ASSUME ~stopping, NEW i \in 1..Len(inbox'), NEW j \in 1..Len(inbox'),
                        i < j, inbox'[i].data > 0, inbox'[j].data > 0
                 PROVE  inbox'[i].data < inbox'[j].data
      BY <2>1 DEF Sorted, flags
    <3>1. /\ i + 1 \in 1..Len(inbox) /\ j + 1 \in 1..Len(inbox) /\ i + 1 < j + 1
          /\ inbox'[i] = inbox[i + 1] /\ inbox'[j] = inbox[j + 1]
      BY <2>2, <2>3
    <3>2. QED
      BY <3>1 DEF FeedInv, Sorted
  <2>10. NoGap'
    <3>1. Reached' = Reached /\ Reached \in Nat /\ stopping' = stopping /\ sent' = sent
      BY <2>1, <2>2 DEF Reached, flags
    <3>2. ASSUME ~stopping, NEW n \in (Reached + 1)..sent
          PROVE  \E i \in 1..Len(inbox') : inbox'[i].data = n
      <4>1. PICK i \in 1..Len(inbox) : inbox[i].data = n
        BY <3>2 DEF FeedInv, NoGap
      <4>2. n > 0
        BY <2>2, <3>1
      <4>3. i # 1
        BY <2>4, <4>1, <4>2
      <4>4. i - 1 \in 1..Len(inbox') /\ inbox'[i - 1] = inbox[i]
        BY <2>2, <2>3, <4>3
      <4>5. QED
        BY <4>1, <4>4
    <3>3. ASSUME ~stopping, NEW i \in 1..Len(inbox'), inbox'[i].data > 0
          PROVE  inbox'[i].data > Reached
      BY <2>3, <3>3 DEF FeedInv, NoGap
    <3>4. QED
      BY <2>1, <3>1, <3>2, <3>3 DEF FeedInv, NoGap
  <2>11. QED
    BY <2>6, <2>7, <2>8, <2>9, <2>10 DEF FeedInv
<1>3. QED
  BY <1>1, <1>2

\* A step that neither reads, pushes nor sends data keeps what the invariant
\* says of data.
LEMMA QuietStepKeepsFeedInv ==
    ASSUME FeedInv, TypeOK', PcDefined', WasAsked', Untouched',
           stopping => stopping',
           UNCHANGED <<item, inbox, sent, delivered>>,
           \A t \in Threads : pc'[t] = "push" <=> pc[t] = "push"
    PROVE  FeedInv'
<1>1. InHand' /\ InPush'
  BY DEF FeedInv, InHand, InPush
<1>2. WasSent' /\ Sorted'
  BY DEF FeedInv, WasSent, Sorted
<1>3. NoGap'
  BY DEF FeedInv, NoGap, Reached
<1>4. QED
  BY <1>1, <1>2, <1>3 DEF FeedInv

\* Where the threads are after one of them went on.
LEMMA GotoParts ==
    ASSUME PcDefined, NEW t \in Threads, NEW label, Goto(t, label)
    PROVE  /\ PcDefined'
           /\ pc'[t] = label
           /\ \A u \in Threads : u # t => pc'[u] = pc[u]
BY DEF PcDefined, Goto

\* A command is on its way to the server, or lost.
LEMMA CommandParts ==
    ASSUME TypeOK, NEW c \in Commands, Command(c)
    PROVE  /\ damaged' \in BOOLEAN /\ asked' \in Seq(Commands)
           /\ \A i \in 1..Len(asked') : asked'[i] = c \/ (i \in 1..Len(asked) /\ asked'[i] = asked[i])
<1>1. asked \in Seq(Commands) /\ damaged \in BOOLEAN
  BY DEF TypeOK
<1>2. CASE Send(c) /\ UNCHANGED damaged
  BY <1>1, <1>2 DEF Send
<1>3. CASE Damages /\ UNCHANGED asked
  <2>1. damaged' = TRUE /\ asked' = asked
    BY <1>3 DEF Damages
  <2>2. damaged' \in BOOLEAN
    BY <2>1, Zenon
  <2>3. QED
    BY <1>1, <2>1, <2>2
<1>4. QED
  BY <1>2, <1>3 DEF Command

\* The threads meet only once the feed is being stopped; a message more or less
\* is still one of the server's.
LEMMA MeetingKeepsFeedInv ==
    ASSUME FeedInv, ReadsMeet
    PROVE  FeedInv' /\ stopping'
<1>1. /\ inbox \in Seq(Messages) /\ inbox # << >>
      /\ inbox' \in {Tail(inbox), <<Head(inbox)>> \o inbox}
      /\ UNCHANGED <<pc, item, conn, running, stopping, again, login, fresh, toAdd, subscribed, asked, sent, delivered, terminated>>
      /\ damaged' = TRUE
  BY Types DEF FeedInv, ReadsMeet, Damages
<1>2. stopping
  BY DEF FeedInv, ReadsMeet, Damages, Untouched, Reading, Writing, Threads
<1>3. inbox' \in Seq(Messages) /\ \A i \in 1..Len(inbox') : \E j \in 1..Len(inbox) : inbox'[i] = inbox[j]
  <2>1. Len(inbox) \in Nat \ {0} /\ Head(inbox) = inbox[1] /\ inbox[1] \in Messages
    BY <1>1
  <2>2. CASE inbox' = Tail(inbox)
    <3>1. inbox' \in Seq(Messages) /\ Len(inbox') = Len(inbox) - 1
      BY <1>1, <2>1, <2>2
    <3>2. \A i \in 1..Len(inbox') : i + 1 \in 1..Len(inbox) /\ inbox'[i] = inbox[i + 1]
      BY <1>1, <2>1, <2>2, <3>1
    <3>3. QED
      BY <3>1, <3>2
  <2>3. CASE inbox' = <<Head(inbox)>> \o inbox
    <3>1. inbox' \in Seq(Messages) /\ Len(inbox') = Len(inbox) + 1
      BY <1>1, <2>1, <2>3
    <3>2. ASSUME NEW i \in 1..Len(inbox')
          PROVE  \E j \in 1..Len(inbox) : inbox'[i] = inbox[j]
      <4>1. CASE i = 1
        BY <1>1, <2>1, <2>3, <4>1
      <4>2. CASE i # 1
        <5>1. i - 1 \in 1..Len(inbox) /\ inbox'[i] = inbox[i - 1]
          BY <1>1, <2>1, <2>3, <3>1, <4>2
        <5>2. QED
          BY <5>1
      <4>3. QED
        BY <4>1, <4>2
    <3>3. QED
      BY <3>1, <3>2
  <2>4. QED
    BY <1>1, <2>2, <2>3
<1>4. TypeOK'
  <2>1. damaged' \in BOOLEAN
    BY <1>1, Zenon
  <2>2. QED
    BY <1>1, <1>3, <2>1 DEF FeedInv, TypeOK
<1>5. WasAsked' /\ WasSent'
  BY <1>1, <1>3 DEF FeedInv, WasAsked, WasSent
<1>6. PcDefined' /\ InHand' /\ InPush' /\ Untouched' /\ Sorted' /\ NoGap'
  BY <1>1, <1>2 DEF FeedInv, PcDefined, InHand, InPush, Untouched, Sorted, NoGap
<1>7. QED
  BY <1>1, <1>2, <1>4, <1>5, <1>6 DEF FeedInv

\* The watcher's own steps: it asks for the login and the subscriptions, and
\* never for the logout.
LEMMA WatcherKeepsFeedInv ==
    ASSUME FeedInv, Connect \/ Login \/ AddSymbol \/ Subscribed \/ Loop \/ End \/ Close
    PROVE  FeedInv'
<1> SUFFICES ASSUME ~Terminate PROVE FeedInv'
  BY TerminateKeepsFeedInv
<1>1. /\ Watcher \in Threads /\ Main \in Threads /\ Watcher # Main /\ Threads = {Watcher, Main}
      /\ asked \in Seq(Commands) /\ Len(asked) \in Nat
      /\ FeedInv /\ TypeOK /\ PcDefined /\ WasAsked /\ Untouched
  BY Types DEF FeedInv, Threads
<1>2. CASE Connect
  <2>1. /\ pc[Watcher] = "begin" /\ Goto(Watcher, "login") /\ conn' = "open" /\ stopping' = FALSE
        /\ asked' = Append(asked, "LOGIN")
        /\ UNCHANGED <<item, running, again, login, fresh, damaged, toAdd, subscribed, inbox, sent, delivered, terminated>>
    BY <1>2 DEF Connect, Send
  <2>2. PcDefined' /\ pc'[Watcher] = "login" /\ pc'[Main] = pc[Main]
    BY <1>1, <2>1, GotoParts
  <2>3. ~stopping
    BY <1>1, <2>1 DEF Untouched
  <2>4. /\ "LOGIN" \in Commands /\ "LOGIN" \notin toAdd
        /\ asked' \in Seq(Commands) /\ Len(asked') = Len(asked) + 1
        /\ \A i \in 1..Len(asked') : asked'[i] = "LOGIN" \/ (i \in 1..Len(asked) /\ asked'[i] = asked[i])
    BY <1>1, <2>1, FeedAssumption DEF Commands, TypeOK
  <2>5. TypeOK'
    <3>1. stopping' \in BOOLEAN
      BY <2>1, Zenon
    <3>2. QED
      BY <1>1, <2>1, <2>2, <2>4, <3>1 DEF TypeOK
  <2>6. WasAsked'
    BY <1>1, <2>1, <2>4 DEF WasAsked
  <2>7. Untouched'
    BY <1>1, <2>1, <2>2, <2>3, <2>4 DEF Untouched
  <2>8. QED
    BY <1>1, <2>1, <2>2, <2>3, <2>5, <2>6, <2>7, QuietStepKeepsFeedInv
<1>3. CASE Login
  <2>1. PICK label \in {"subscribe", "login_read"} : pc[Watcher] = "login" /\ Goto(Watcher, label)
    BY <1>3 DEF Login
  <2>2. /\ running' = (login = "ok")
        /\ UNCHANGED <<item, conn, stopping, again, login, fresh, damaged, toAdd, subscribed, asked, inbox, sent, delivered, terminated>>
    BY <1>3 DEF Login
  <2>3. PcDefined' /\ pc'[Watcher] = label /\ pc'[Main] = pc[Main]
    BY <1>1, <2>1, GotoParts
  <2>4. TypeOK'
    <3>1. running' \in BOOLEAN
      BY <2>2, Zenon
    <3>2. QED
      BY <1>1, <2>2, <2>3, <3>1 DEF TypeOK
  <2>5. WasAsked' /\ Untouched'
    BY <1>1, <2>1, <2>2, <2>3 DEF WasAsked, Untouched
  <2>6. QED
    BY <1>1, <2>1, <2>2, <2>3, <2>4, <2>5, QuietStepKeepsFeedInv
<1>4. CASE AddSymbol
  <2>1. PICK s \in toAdd : Command(s) /\ toAdd' = toAdd \ {s}
    BY <1>4 DEF AddSymbol
  <2>2. UNCHANGED <<pc, item, conn, running, stopping, again, login, fresh, subscribed, inbox, sent, delivered, terminated>>
    BY <1>4 DEF AddSymbol
  <2>3. s \in Commands /\ s # "LOGOUT"
    BY <1>1, <2>1, FeedAssumption DEF Commands, TypeOK
  <2>4. /\ damaged' \in BOOLEAN /\ asked' \in Seq(Commands)
        /\ \A i \in 1..Len(asked') : asked'[i] = s \/ (i \in 1..Len(asked) /\ asked'[i] = asked[i])
    BY <1>1, <2>1, <2>3, CommandParts
  <2>5. TypeOK' /\ PcDefined'
    BY <1>1, <2>1, <2>2, <2>4 DEF TypeOK, PcDefined
  <2>6. WasAsked' /\ Untouched'
    BY <1>1, <2>1, <2>2, <2>3, <2>4 DEF WasAsked, Untouched
  <2>7. QED
    BY <1>1, <2>2, <2>5, <2>6, QuietStepKeepsFeedInv
<1>5. CASE Subscribed \/ Loop
  <2>1. PICK label \in {"loop", "end", "read"} : Goto(Watcher, label)
    BY <1>5 DEF Subscribed, Loop
  <2>2. /\ pc[Watcher] \in {"subscribe", "loop"}
        /\ UNCHANGED <<item, conn, flags, toAdd, subscribed, asked, inbox, sent, delivered, terminated>>
    BY <1>5 DEF Subscribed, Loop
  <2>3. PcDefined' /\ pc'[Watcher] = label /\ pc'[Main] = pc[Main]
    BY <1>1, <2>1, GotoParts
  <2>4. TypeOK' /\ WasAsked' /\ Untouched'
    BY <1>1, <2>2, <2>3 DEF TypeOK, WasAsked, Untouched, flags
  <2>5. QED
    BY <1>1, <2>2, <2>3, <2>4, QuietStepKeepsFeedInv DEF flags
<1>6. CASE End \/ Close
  <2>1. PICK label \in {"close", "returned"} : Goto(Watcher, label)
    BY <1>6 DEF End, Close
  <2>2. /\ pc[Watcher] \in {"end", "close"} /\ conn' \in {conn, "none"}
        /\ running' \in BOOLEAN
        /\ UNCHANGED <<item, stopping, again, login, fresh, damaged, toAdd, subscribed, asked, inbox, sent, delivered, terminated>>
    <3>1. CASE End
      <4>1. running' \in BOOLEAN
        BY <3>1, Zenon DEF End
      <4>2. QED
        BY <3>1, <4>1 DEF End
    <3>2. CASE Close
      <4>1. running' \in BOOLEAN
        BY <3>2, Zenon DEF Close
      <4>2. QED
        BY <3>2, <4>1 DEF Close
    <3>3. QED
      BY <1>6, <3>1, <3>2
  <2>3. PcDefined' /\ pc'[Watcher] = label /\ pc'[Main] = pc[Main]
    BY <1>1, <2>1, GotoParts
  <2>4. TypeOK' /\ WasAsked' /\ Untouched'
    BY <1>1, <2>2, <2>3 DEF TypeOK, WasAsked, Untouched
  <2>5. QED
    BY <1>1, <2>2, <2>3, <2>4, QuietStepKeepsFeedInv
<1>7. QED
  BY <1>2, <1>3, <1>4, <1>5, <1>6

\* The main thread's own steps: it asks for the logout only once it has set
\* _stopping, and sets that only while there is a connection.
LEMMA MainKeepsFeedInv ==
    ASSUME FeedInv, Stop \/ Logout \/ Drain \/ DestroyStream \/ UseAfterDestruction
    PROVE  FeedInv'
<1> SUFFICES ASSUME ~Terminate PROVE FeedInv'
  BY TerminateKeepsFeedInv
<1>1. /\ Watcher \in Threads /\ Main \in Threads /\ Watcher # Main /\ Threads = {Watcher, Main}
      /\ asked \in Seq(Commands) /\ Len(asked) \in Nat
      /\ FeedInv /\ TypeOK /\ PcDefined /\ WasAsked /\ Untouched
  BY Types DEF FeedInv, Threads
<1>2. CASE Stop
  <2>1. /\ pc[Main] = "trading" /\ Goto(Main, "logout") /\ conn # "none" /\ stopping' = TRUE
        /\ UNCHANGED <<item, conn, running, again, login, fresh, damaged, toAdd, subscribed, asked, inbox, sent, delivered, terminated>>
    BY <1>2 DEF Stop, SetStopping
  <2>2. PcDefined' /\ pc'[Main] = "logout" /\ pc'[Watcher] = pc[Watcher]
    BY <1>1, <2>1, GotoParts
  <2>3. TypeOK'
    <3>1. stopping' \in BOOLEAN
      BY <2>1, Zenon
    <3>2. QED
      BY <1>1, <2>1, <2>2, <3>1 DEF TypeOK
  <2>4. WasAsked' /\ Untouched'
    BY <1>1, <2>1, <2>2 DEF WasAsked, Untouched
  <2>5. QED
    BY <1>1, <2>1, <2>2, <2>3, <2>4, QuietStepKeepsFeedInv
<1>3. CASE Logout
  <2>1. /\ pc[Main] = "logout" /\ Goto(Main, "drain") /\ Command("LOGOUT")
        /\ UNCHANGED <<item, conn, running, stopping, again, login, fresh, toAdd, subscribed, inbox, sent, delivered, terminated>>
    BY <1>3 DEF Logout
  <2>2. PcDefined' /\ pc'[Main] = "drain" /\ pc'[Watcher] = pc[Watcher]
    BY <1>1, <2>1, GotoParts
  <2>3. /\ "LOGOUT" \in Commands /\ "LOGOUT" \notin toAdd
        /\ damaged' \in BOOLEAN /\ asked' \in Seq(Commands)
        /\ \A i \in 1..Len(asked') : asked'[i] = "LOGOUT" \/ (i \in 1..Len(asked) /\ asked'[i] = asked[i])
    <3>1. "LOGOUT" \in Commands /\ "LOGOUT" \notin toAdd
      BY <1>1, FeedAssumption DEF Commands, TypeOK
    <3>2. QED
      BY <1>1, <2>1, <3>1, CommandParts
  <2>4. stopping
    BY <1>1, <2>1 DEF Untouched
  <2>5. TypeOK'
    BY <1>1, <2>1, <2>2, <2>3 DEF TypeOK
  <2>6. WasAsked'
    BY <1>1, <2>1, <2>3 DEF WasAsked
  <2>7. Untouched'
    BY <1>1, <2>1, <2>2, <2>4 DEF Untouched
  <2>8. QED
    BY <1>1, <2>1, <2>2, <2>5, <2>6, <2>7, QuietStepKeepsFeedInv
<1>4. CASE Drain \/ DestroyStream
  <2>1. PICK label \in {"stopped", "read", "logout", "destroyed"} : Goto(Main, label)
    BY <1>4 DEF Drain, DestroyStream
  <2>2. /\ pc[Main] \in {"drain", "stopped"} /\ again' \in BOOLEAN
        /\ UNCHANGED <<item, conn, running, stopping, login, fresh, damaged, toAdd, subscribed, asked, inbox, sent, delivered, terminated>>
    <3>1. again \in BOOLEAN
      BY <1>1 DEF TypeOK
    <3>2. CASE Drain
      BY <3>1, <3>2 DEF Drain, flags
    <3>3. CASE DestroyStream
      <4>1. again' = TRUE \/ again' = again
        BY <3>3 DEF DestroyStream
      <4>2. again' \in BOOLEAN
        BY <3>1, <4>1, Zenon
      <4>3. QED
        BY <3>3, <4>2 DEF DestroyStream
    <3>4. QED
      BY <1>4, <3>2, <3>3
  <2>3. PcDefined' /\ pc'[Main] = label /\ pc'[Watcher] = pc[Watcher]
    BY <1>1, <2>1, GotoParts
  <2>4. stopping
    BY <1>1, <2>2 DEF Untouched
  <2>5. TypeOK' /\ WasAsked' /\ Untouched'
    BY <1>1, <2>2, <2>3, <2>4 DEF TypeOK, WasAsked, Untouched
  <2>6. QED
    BY <1>1, <2>2, <2>3, <2>5, QuietStepKeepsFeedInv
<1>5. CASE UseAfterDestruction
  BY <1>5 DEF UseAfterDestruction
<1>6. QED
  BY <1>2, <1>3, <1>4, <1>5

\* A read that fails, or a connection that breaks, delivers nothing.
LEMMA FailureKeepsFeedInv ==
    ASSUME FeedInv, Break \/ \E t \in Threads : ReadFails(t)
    PROVE  FeedInv'
<1> SUFFICES ASSUME ~Terminate PROVE FeedInv'
  BY TerminateKeepsFeedInv
<1>1. /\ Watcher \in Threads /\ Main \in Threads /\ Watcher # Main /\ Threads = {Watcher, Main}
      /\ FeedInv /\ TypeOK /\ PcDefined /\ WasAsked /\ Untouched
  BY Types DEF FeedInv, Threads
<1>2. CASE Break
  <2>1. /\ conn = "open" /\ conn' = "broken"
        /\ UNCHANGED <<pc, item, flags, toAdd, subscribed, asked, inbox, sent, delivered, terminated>>
    BY <1>2 DEF Break
  <2>2. TypeOK' /\ PcDefined' /\ WasAsked' /\ Untouched'
    BY <1>1, <2>1 DEF TypeOK, PcDefined, WasAsked, Untouched, flags
  <2>3. QED
    BY <1>1, <2>1, <2>2, QuietStepKeepsFeedInv DEF flags
<1>3. ASSUME NEW t \in Threads, ReadFails(t)
      PROVE  FeedInv'
  <2>1. /\ pc[t] \in {"read", "login_read"} /\ Goto(t, IF t = Main THEN "stopped" ELSE "end")
        /\ UNCHANGED <<item, conn, flags, toAdd, subscribed, asked, inbox, sent, delivered, terminated>>
    BY <1>3 DEF ReadFails, Throws, Reading
  <2>2. /\ PcDefined' /\ pc'[t] = (IF t = Main THEN "stopped" ELSE "end")
        /\ \A u \in Threads : u # t => pc'[u] = pc[u]
    BY <1>1, <2>1, GotoParts
  <2>3. TypeOK'
    BY <1>1, <2>1, <2>2 DEF TypeOK, flags
  <2>4. WasAsked' /\ Untouched'
    BY <1>1, <2>1, <2>2 DEF WasAsked, Untouched, flags
  <2>5. \A u \in Threads : pc'[u] = "push" <=> pc[u] = "push"
    BY <2>1, <2>2
  <2>6. QED
    BY <1>1, <2>1, <2>2, <2>3, <2>4, <2>5, QuietStepKeepsFeedInv DEF flags
<1>4. QED
  BY <1>2, <1>3

-----------------------------------------------------------------------------
(* The theorem.                                                            *)

\* The invariant holds before the watcher has connected.
LEMMA InitFeedInv ==
    ASSUME Init
    PROVE  FeedInv
<1>1. /\ pc[Watcher] = "begin" /\ pc[Main] = "trading" /\ item \in [Threads -> 0..MaxData]
      /\ \A t \in Threads : item[t] = 0
      /\ Watcher \in Threads /\ Main \in Threads
  BY FeedAssumption DEF Init, Threads
<1>2. /\ inbox = << >> /\ asked = << >> /\ delivered = << >> /\ sent = 0
      /\ Len(inbox) = 0 /\ Len(asked) = 0 /\ Len(delivered) = 0
      /\ inbox \in Seq(Messages) /\ asked \in Seq(Commands) /\ delivered \in Seq(1..MaxData)
  BY DEF Init
<1>3. TypeOK
  <2>1. {running, stopping, again, damaged, fresh, terminated} \subseteq BOOLEAN
    BY DEF Init
  <2>2. QED
    BY <1>1, <1>2, <2>1, FeedAssumption DEF Init, TypeOK
<1>4. PcDefined /\ InHand /\ InPush
  BY <1>1 DEF Init, PcDefined, InHand, InPush, Threads
<1>5. WasAsked /\ WasSent /\ Sorted /\ Untouched
  BY <1>1, <1>2 DEF Init, WasAsked, WasSent, Sorted, Untouched
<1>6. NoGap
  BY <1>1, <1>2 DEF NoGap, Reached
<1>7. QED
  BY <1>3, <1>4, <1>5, <1>6 DEF FeedInv

\* Every step keeps it.
LEMMA NextFeedInv ==
    ASSUME FeedInv, [Next]_vars
    PROVE  FeedInv'
<1>1. Watcher \in Threads /\ Main \in Threads
  BY DEF Threads
<1>2. ASSUME NEW t \in Threads, ProcessMessage(t)
      PROVE  FeedInv'
  BY <1>2, ReadMessageKeepsFeedInv, ReadRefusalKeepsFeedInv, FailureKeepsFeedInv, PushKeepsFeedInv
     DEF ProcessMessage
<1>3. CASE WatcherStep
  BY <1>1, <1>2, <1>3, WatcherKeepsFeedInv DEF WatcherStep
<1>4. CASE Stop \/ StopStep \/ UseAfterDestruction
  BY <1>1, <1>2, <1>4, MainKeepsFeedInv DEF StopStep
<1>5. CASE Answer \/ SendData \/ Break \/ ReadsMeet
  BY <1>5, AnswerKeepsFeedInv, SendDataKeepsFeedInv, FailureKeepsFeedInv, MeetingKeepsFeedInv
<1>6. CASE UNCHANGED vars
  BY <1>6 DEF vars, FeedInv, TypeOK, PcDefined, InHand, InPush, WasAsked, WasSent, Sorted, Untouched,
              NoGap, Reached
<1>7. QED
  BY <1>3, <1>4, <1>5, <1>6 DEF Next

\* Until stop() is called data reaches market_watch in the order the server
\* sent it, without a gap and without loss, however many stocks and messages
\* there are and wherever the answers come between.
THEOREM FeedInOrderUntilStop == Spec => []InOrderUntilStop
<1>1. Init => FeedInv
  BY InitFeedInv
<1>2. FeedInv /\ [Next]_vars => FeedInv'
  BY NextFeedInv
<1>3. ASSUME FeedInv PROVE InOrderUntilStop
  <2>1. delivered \in Seq(1..MaxData)
    BY <1>3, Types DEF FeedInv
  <2>2. ~stopping => delivered = [i \in 1..Len(delivered) |-> i]
    BY <1>3, <2>1 DEF FeedInv, NoGap
  <2>3. QED
    BY <1>3, <2>2 DEF FeedInv, NoGap, InOrderUntilStop
<1>4. QED
  BY <1>1, <1>2, <1>3, PTL DEF Spec

-----------------------------------------------------------------------------
(* Subscriptions.                                                          *)

\* What a command that was sent and not dealt with yet is: not answered, or
\* its answer is not read.
OnTheWay == {asked[i] : i \in 1..Len(asked)} \cup {inbox[i].command : i \in 1..Len(inbox)}

Leaving == {"end", "close", "returned"}

\* Unless the feed is stopped or ends by itself, every stock is still to be
\* asked for, subscribed, or on its way between.
Tracked ==
    ~stopping /\ pc[Watcher] \notin Leaving => Symbols \subseteq toAdd \cup subscribed \cup OnTheWay

\* The watcher asks for all stocks after the login and before it goes on, and
\* the server sends no data before it is asked.
Subscribing ==
    /\ pc[Watcher] \in {"begin", "login", "login_read"} => toAdd = Symbols /\ sent = 0
    /\ pc[Watcher] \in {"loop", "read", "push"} => toAdd = {}

\* No subscription is forgotten: a feed that delivers has for each stock the
\* acknowledgement, or has still to see the answer.
NoRequestForgotten ==
    ~stopping /\ pc[Watcher] \in {"loop", "read", "push"} => Symbols \subseteq subscribed \cup OnTheWay

\* What a read takes off is what was first.
LEMMA HeadLeaves ==
    ASSUME FeedInv, inbox # << >>, inbox' = Tail(inbox), asked' = asked
    PROVE  OnTheWay \subseteq OnTheWay' \cup {Head(inbox).command}
<1>1. /\ inbox \in Seq(Messages) /\ Len(inbox) \in Nat /\ Len(inbox) >= 1
      /\ Len(inbox') = Len(inbox) - 1 /\ \A i \in 1..Len(inbox') : inbox'[i] = inbox[i + 1]
      /\ Head(inbox) = inbox[1]
  BY Types DEF FeedInv
<1>2. ASSUME NEW i \in 1..Len(inbox)
      PROVE  inbox[i].command \in OnTheWay' \cup {Head(inbox).command}
  <2>1. CASE i = 1
    BY <1>1, <2>1
  <2>2. CASE i # 1
    <3>1. i - 1 \in 1..Len(inbox') /\ inbox'[i - 1] = inbox[i]
      BY <1>1, <2>2
    <3>2. QED
      BY <3>1 DEF OnTheWay
  <2>3. QED
    BY <2>1, <2>2
<1>3. QED
  BY <1>2 DEF OnTheWay

\* The server's answer takes the place of the command.
LEMMA AnswerReplaces ==
    ASSUME FeedInv, Answer
    PROVE  OnTheWay \subseteq OnTheWay'
<1>1. PICK ok \in BOOLEAN : inbox' = Append(inbox, Response(Head(asked), ok))
  BY DEF Answer
<1>2. /\ inbox \in Seq(Messages) /\ asked \in Seq(Commands) /\ Len(inbox) \in Nat /\ Len(asked) \in Nat
      /\ asked # << >> /\ asked' = Tail(asked)
  BY Types DEF FeedInv, Answer
<1>3. /\ Len(asked') = Len(asked) - 1 /\ \A i \in 1..Len(asked') : asked'[i] = asked[i + 1]
      /\ Head(asked) = asked[1]
  BY <1>2
<1>4. /\ Len(inbox') = Len(inbox) + 1 /\ \A i \in 1..Len(inbox) : inbox'[i] = inbox[i]
      /\ inbox'[Len(inbox) + 1] = Response(asked[1], ok)
  BY <1>1, <1>2, <1>3
<1>5. asked[1] \in OnTheWay'
  <2>1. Len(inbox) + 1 \in 1..Len(inbox') /\ inbox'[Len(inbox) + 1].command = asked[1]
    BY <1>2, <1>4 DEF Response
  <2>2. QED
    BY <2>1 DEF OnTheWay
<1>6. ASSUME NEW i \in 1..Len(asked)
      PROVE  asked[i] \in OnTheWay'
  <2>1. CASE i = 1
    BY <1>5, <2>1
  <2>2. CASE i # 1
    <3>1. i - 1 \in 1..Len(asked') /\ asked'[i - 1] = asked[i]
      BY <1>2, <1>3, <2>2
    <3>2. QED
      BY <3>1 DEF OnTheWay
  <2>3. QED
    BY <2>1, <2>2
<1>7. ASSUME NEW i \in 1..Len(inbox)
      PROVE  inbox[i].command \in OnTheWay'
  <2>1. i \in 1..Len(inbox') /\ inbox'[i] = inbox[i]
    BY <1>2, <1>4
  <2>2. QED
    BY <2>1 DEF OnTheWay
<1>8. QED
  BY <1>6, <1>7 DEF OnTheWay

\* What is appended is on its way, and so is all that was.
LEMMA AppendedIsOnTheWay ==
    ASSUME FeedInv, NEW x,
           \/ asked' = Append(asked, x) /\ x \in Commands /\ inbox' = inbox
           \/ inbox' = Append(inbox, x) /\ x \in Messages /\ asked' = asked
    PROVE  OnTheWay \subseteq OnTheWay' /\ (asked' = Append(asked, x) => x \in OnTheWay')
<1>1. /\ inbox \in Seq(Messages) /\ asked \in Seq(Commands) /\ Len(inbox) \in Nat /\ Len(asked) \in Nat
  BY Types DEF FeedInv
<1>2. CASE asked' = Append(asked, x) /\ x \in Commands /\ inbox' = inbox
  <2>1. /\ Len(asked') = Len(asked) + 1 /\ asked'[Len(asked) + 1] = x
        /\ \A i \in 1..Len(asked) : asked'[i] = asked[i]
    BY <1>1, <1>2
  <2>2. /\ Len(asked) + 1 \in 1..Len(asked')
        /\ \A i \in 1..Len(asked) : i \in 1..Len(asked')
    BY <1>1, <2>1
  <2>3. x \in OnTheWay' /\ \A i \in 1..Len(asked) : asked[i] \in OnTheWay'
    BY <2>1, <2>2 DEF OnTheWay
  <2>4. \A i \in 1..Len(inbox) : inbox[i].command \in OnTheWay'
    BY <1>2 DEF OnTheWay
  <2>5. QED
    BY <2>3, <2>4 DEF OnTheWay
<1>3. CASE inbox' = Append(inbox, x) /\ x \in Messages /\ asked' = asked
  <2>1. /\ Len(inbox') = Len(inbox) + 1
        /\ \A i \in 1..Len(inbox) : inbox'[i] = inbox[i]
    BY <1>1, <1>3
  <2>2. \A i \in 1..Len(inbox) : i \in 1..Len(inbox')
    BY <1>1, <2>1
  <2>3. \A i \in 1..Len(inbox) : inbox[i].command \in OnTheWay'
    BY <2>1, <2>2 DEF OnTheWay
  <2>4. asked' # Append(asked, x)
    <3>1. Append(asked, x) # asked
      <4>1. Len(Append(asked, x)) = Len(asked) + 1
        OBVIOUS
      <4>2. QED
        BY <1>1, <4>1
    <3>2. QED
      BY <1>3, <3>1
  <2>5. QED
    BY <1>3, <2>3, <2>4 DEF OnTheWay
<1>4. QED
  BY <1>2, <1>3

\* A step that loses no stock between its places keeps track of them.
LEMMA TrackedStays ==
    ASSUME Tracked, stopping => stopping', pc[Watcher] \in Leaving => pc'[Watcher] \in Leaving,
           \A s \in Symbols : s \in toAdd \cup subscribed \cup OnTheWay
                                => s \in toAdd' \cup subscribed' \cup OnTheWay'
    PROVE  Tracked'
BY DEF Tracked

\* Reading a message keeps track of the stock it is about.
LEMMA ReadMessageTracks ==
    ASSUME FeedInv, Tracked, Subscribing, NEW t \in Threads, ReadMessage(t)
    PROVE  Tracked' /\ Subscribing'
<1> DEFINE message == Head(inbox)
<1>1. /\ FeedInv /\ TypeOK /\ PcDefined /\ Untouched /\ WasSent
      /\ Watcher \in Threads /\ Main \in Threads /\ Watcher # Main /\ Threads = {Watcher, Main}
  BY Types DEF FeedInv, Threads
<1>2. /\ inbox \in Seq(Messages) /\ Len(inbox) \in Nat /\ inbox # << >> /\ 1 \in 1..Len(inbox)
      /\ message = inbox[1] /\ message \in Messages /\ sent \in Nat
  BY <1>1, Types DEF ReadMessage
<1>3. /\ pc[t] \in {"read", "login_read"} /\ ~IsRefusal(message)
      /\ Goto(t, IF message.data > 0 THEN "push" ELSE LoopOf(t))
      /\ subscribed' = IF message.ok THEN subscribed \cup ({message.command} \cap Symbols) ELSE subscribed
      /\ message.command # "LOGOUT" => inbox' = Tail(inbox)
      /\ UNCHANGED <<stopping, toAdd, asked, sent>>
  BY DEF ReadMessage, Reading
<1>4. /\ pc'[t] = (IF message.data > 0 THEN "push" ELSE LoopOf(t))
      /\ \A u \in Threads : u # t => pc'[u] = pc[u]
  BY <1>1, <1>3, GotoParts
<1>5. CASE t = Main
  <2>1. stopping /\ stopping'
    BY <1>1, <1>3, <1>5 DEF Untouched
  <2>2. pc'[Watcher] = pc[Watcher]
    BY <1>1, <1>4, <1>5
  <2>3. QED
    BY <1>3, <2>1, <2>2 DEF Tracked, Subscribing
<1>6. CASE t = Watcher
  <2>1. Tracked'
    <3> SUFFICES ASSUME ~stopping'
                 PROVE  Tracked'
      BY DEF Tracked
    <3>1. message.command # "LOGOUT"
      BY <1>1, <1>2, <1>3 DEF Untouched
    <3>2. OnTheWay \subseteq OnTheWay' \cup {message.command}
      BY <1>1, <1>2, <1>3, <3>1, HeadLeaves
    <3>3. message.command \in Symbols => message.command \in subscribed'
      BY <1>3 DEF IsRefusal
    <3>4. subscribed \subseteq subscribed' /\ toAdd' = toAdd
      BY <1>3
    <3>5. pc[Watcher] \notin Leaving
      BY <1>3, <1>6 DEF Leaving
    <3>6. QED
      BY <1>3, <3>2, <3>3, <3>4, <3>5, TrackedStays
  <2>2. Subscribing'
    <3>1. CASE pc[t] = "read"
      BY <1>1, <1>3, <1>4, <1>6, <3>1 DEF LoopOf, Subscribing
    <3>2. CASE pc[t] = "login_read"
      <4>1. toAdd = Symbols /\ sent = 0
        BY <1>6, <3>2 DEF Subscribing
      <4>2. ~(message.data > 0)
        <5>1. message.data \in Nat
          BY <1>2, Types DEF FeedInv
        <5>2. message.data > 0 => message.data <= sent
          BY <1>1, <1>2 DEF WasSent
        <5>3. QED
          BY <4>1, <5>1, <5>2
      <4>3. pc'[Watcher] = "login"
        BY <1>1, <1>4, <1>6, <3>2, <4>2 DEF LoopOf
      <4>4. QED
        BY <1>3, <4>1, <4>3 DEF Subscribing
    <3>3. QED
      BY <1>3, <3>1, <3>2
  <2>3. QED
    BY <2>1, <2>2
<1>7. QED
  BY <1>1, <1>5, <1>6

\* Every step keeps track of the stocks.
LEMMA NextTracks ==
    ASSUME FeedInv, Tracked, Subscribing, [Next]_vars
    PROVE  Tracked' /\ Subscribing'
<1>1. /\ FeedInv /\ TypeOK /\ PcDefined /\ Untouched
      /\ Watcher \in Threads /\ Main \in Threads /\ Watcher # Main /\ Threads = {Watcher, Main}
  BY Types DEF FeedInv, Threads
<1>2. CASE Terminate \/ Break \/ UNCHANGED vars
  <2>1. UNCHANGED <<pc, stopping, toAdd, subscribed, asked, inbox, sent>>
    BY <1>2 DEF Terminate, Break, vars, flags
  <2>2. QED
    BY <2>1 DEF Tracked, Subscribing, OnTheWay
<1> SUFFICES ASSUME ~Terminate, Next
             PROVE  Tracked' /\ Subscribing'
  BY <1>2
<1>3. ASSUME NEW t \in Threads, ReadRefusal(t) \/ ReadFails(t) \/ Push(t)
      PROVE  Tracked' /\ Subscribing'
  <2>1. /\ pc[t] \in {"read", "login_read", "push"}
        /\ Goto(t, IF pc[t] = "push" THEN IF t = Main THEN "drain" ELSE "loop"
                   ELSE IF t = Main THEN "stopped" ELSE "end")
        /\ UNCHANGED <<stopping, toAdd, subscribed, asked, sent>>
        /\ inbox' = inbox \/ pc[t] # "push"
    BY <1>3 DEF ReadRefusal, ReadFails, Throws, Reading, Push, flags
  <2>2. /\ pc'[t] = (IF pc[t] = "push" THEN IF t = Main THEN "drain" ELSE "loop"
                     ELSE IF t = Main THEN "stopped" ELSE "end")
        /\ \A u \in Threads : u # t => pc'[u] = pc[u]
    BY <1>1, <2>1, GotoParts
  <2>3. CASE t = Main
    <3>1. stopping' /\ pc'[Watcher] = pc[Watcher]
      BY <1>1, <2>1, <2>2, <2>3 DEF Untouched
    <3>2. QED
      BY <2>1, <3>1 DEF Tracked, Subscribing
  <2>4. CASE t = Watcher /\ pc[t] = "push"
    <3>1. pc'[Watcher] = "loop"
      BY <1>1, <2>2, <2>4
    <3>2. inbox' = inbox
      BY <2>1, <2>4
    <3>3. QED
      BY <2>1, <2>4, <3>1, <3>2 DEF Tracked, Subscribing, OnTheWay, Leaving
  <2>5. CASE t = Watcher /\ pc[t] # "push"
    <3>1. pc'[Watcher] = "end"
      BY <1>1, <2>2, <2>5
    <3>2. QED
      BY <3>1 DEF Tracked, Subscribing, Leaving
  <2>6. QED
    BY <1>1, <2>3, <2>4, <2>5
<1>4. CASE Connect \/ Login
  <2>1. /\ \E label \in {"login", "subscribe", "login_read"} : Goto(Watcher, label)
        /\ pc[Watcher] \in {"begin", "login"}
        /\ UNCHANGED <<toAdd, subscribed, sent, inbox>>
        /\ asked' = asked \/ (asked' = Append(asked, "LOGIN") /\ "LOGIN" \in Commands)
    BY <1>4 DEF Connect, Login, Send, Commands
  <2>2. stopping => stopping'
    BY <1>1, <1>4 DEF Connect, Login, Untouched
  <2>3. pc'[Watcher] \in {"login", "subscribe", "login_read"}
    BY <1>1, <2>1, GotoParts
  <2>4. OnTheWay \subseteq OnTheWay'
    <3>1. CASE asked' = asked
      BY <2>1, <3>1 DEF OnTheWay
    <3>2. CASE asked' = Append(asked, "LOGIN") /\ "LOGIN" \in Commands
      BY <1>1, <2>1, <3>2, AppendedIsOnTheWay
    <3>3. QED
      BY <2>1, <3>1, <3>2
  <2>5. Tracked'
    BY <2>1, <2>2, <2>4, TrackedStays DEF Leaving
  <2>6. Subscribing'
    BY <2>1, <2>3 DEF Subscribing
  <2>7. QED
    BY <2>5, <2>6
<1>5. CASE AddSymbol
  <2>1. PICK s \in toAdd : Command(s) /\ toAdd' = toAdd \ {s}
    BY <1>5 DEF AddSymbol
  <2>2. pc[Watcher] = "subscribe" /\ UNCHANGED <<pc, stopping, subscribed, inbox, sent>>
    BY <1>5 DEF AddSymbol
  <2>3. s \in Commands
    BY <1>1, <2>1 DEF TypeOK, Commands
  <2>4. ASSUME ~stopping
        PROVE  OnTheWay \subseteq OnTheWay' /\ s \in OnTheWay'
    <3>1. ~Damages
      BY <1>1, <2>4 DEF Damages, Untouched, Reading, Writing
    <3>2. asked' = Append(asked, s)
      BY <2>1, <3>1 DEF Command, Send
    <3>3. QED
      BY <1>1, <2>2, <2>3, <3>2, AppendedIsOnTheWay
  <2>5. Tracked'
    <3>1. CASE stopping
      BY <2>2, <3>1 DEF Tracked
    <3>2. CASE ~stopping
      BY <2>1, <2>2, <2>4, <3>2, TrackedStays
    <3>3. QED
      BY <3>1, <3>2
  <2>6. Subscribing'
    BY <2>2 DEF Subscribing
  <2>7. QED
    BY <2>5, <2>6
<1>6. CASE Subscribed \/ Loop \/ End \/ Close
  <2>1. /\ UNCHANGED <<stopping, toAdd, subscribed, asked, inbox, sent>>
        /\ \/ pc[Watcher] = "subscribe" /\ toAdd = {} /\ Goto(Watcher, "loop")
           \/ pc[Watcher] = "loop" /\ Goto(Watcher, "read")
           \/ \E label \in Leaving : Goto(Watcher, label)
    BY <1>6 DEF Subscribed, Loop, End, Close, flags, Leaving
  <2>2. \/ pc[Watcher] = "subscribe" /\ toAdd = {} /\ pc'[Watcher] = "loop"
        \/ pc[Watcher] = "loop" /\ pc'[Watcher] = "read"
        \/ pc'[Watcher] \in Leaving
    BY <1>1, <2>1, GotoParts
  <2>3. OnTheWay' = OnTheWay
    BY <2>1 DEF OnTheWay
  <2>4. Tracked'
    BY <2>1, <2>2, <2>3 DEF Tracked, Leaving
  <2>5. Subscribing'
    BY <2>1, <2>2 DEF Subscribing, Leaving
  <2>6. QED
    BY <2>4, <2>5
<1>7. CASE Stop \/ Logout \/ Drain \/ DestroyStream
  <2>1. /\ \E label : Goto(Main, label)
        /\ UNCHANGED <<toAdd, sent>>
        /\ stopping'
    BY <1>1, <1>7 DEF Stop, SetStopping, Logout, Drain, DestroyStream, Untouched, flags
  <2>2. pc'[Watcher] = pc[Watcher]
    BY <1>1, <2>1, GotoParts
  <2>3. QED
    BY <2>1, <2>2 DEF Tracked, Subscribing
<1>8. CASE Answer
  <2>1. UNCHANGED <<pc, stopping, toAdd, subscribed, sent>>
    BY <1>8 DEF Answer, flags
  <2>2. OnTheWay \subseteq OnTheWay'
    BY <1>1, <1>8, AnswerReplaces
  <2>3. Tracked'
    BY <2>1, <2>2, TrackedStays
  <2>4. QED
    BY <2>1, <2>3 DEF Subscribing
<1>9. CASE SendData
  <2>1. /\ UNCHANGED <<pc, stopping, toAdd, subscribed, asked>>
        /\ Symbols \ toAdd # {} /\ inbox' = Append(inbox, Data(sent'))
        /\ sent' = sent + 1 /\ sent < MaxData
    BY <1>9 DEF SendData, flags
  <2>2. sent' \in 1..MaxData
    BY <1>1, <2>1, Types
  <2>3. Data(sent') \in Messages
    BY <2>2 DEF Messages
  <2>4. OnTheWay \subseteq OnTheWay'
    BY <1>1, <2>1, <2>3, AppendedIsOnTheWay
  <2>5. Tracked'
    BY <2>1, <2>4, TrackedStays
  <2>6. pc[Watcher] \notin {"begin", "login", "login_read"}
    BY <2>1 DEF Subscribing
  <2>7. QED
    BY <2>1, <2>5, <2>6 DEF Subscribing
<1>10. ASSUME NEW t \in Threads, ProcessMessage(t)
       PROVE  Tracked' /\ Subscribing'
  BY <1>3, <1>10, ReadMessageTracks DEF ProcessMessage
<1>11. CASE ReadsMeet
  <2>1. stopping' /\ UNCHANGED <<pc, toAdd, sent>>
    BY <1>1, <1>11, MeetingKeepsFeedInv DEF ReadsMeet
  <2>2. QED
    BY <2>1 DEF Tracked, Subscribing
<1>12. QED
  BY <1>1, <1>2, <1>4, <1>5, <1>6, <1>7, <1>8, <1>9, <1>10, <1>11
     DEF Next, WatcherStep, StopStep, UseAfterDestruction

\* schwab.cc, add_symbol and the loop of start(): none of the stocks whose
\* subscription was asked for falls between the command, its answer and the
\* callback, for any number of stocks and however data comes in between.  A
\* refusal that is read makes the watcher leave.
THEOREM FeedForgetsNoRequest == Spec => []NoRequestForgotten
<1> DEFINE Inv == FeedInv /\ Tracked /\ Subscribing
<1>1. Init => Inv
  <2> SUFFICES ASSUME Init PROVE Inv
    OBVIOUS
  <2>1. toAdd = Symbols /\ sent = 0 /\ pc[Watcher] = "begin"
    BY DEF Init, Threads
  <2>2. QED
    BY <2>1, InitFeedInv DEF Tracked, Subscribing
<1>2. Inv /\ [Next]_vars => Inv'
  BY NextFeedInv, NextTracks
<1>3. Inv => NoRequestForgotten
  BY DEF Tracked, Subscribing, NoRequestForgotten, Leaving
<1>4. QED
  BY <1>1, <1>2, <1>3, PTL DEF Spec

=============================================================================
