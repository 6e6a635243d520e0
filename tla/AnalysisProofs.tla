--------------------------- MODULE AnalysisProofs ---------------------------
(***************************************************************************)
(* Theorems about the analysis of a history: for windows of any lengths,   *)
(* any prices, any threshold and a history of any number of candles.       *)
(***************************************************************************)
EXTENDS Analysis, SequenceTheorems, TLAPS

-----------------------------------------------------------------------------
(* The moving aggregations.                                                *)

\* The i-th window of a list, as it must be.
OnceAlongChain(span, i) ==
    [m \in 1..i |-> IF m <= Seed(i, span) \/ (i - m) % span = 0 THEN 1 ELSE 0]
Expected(span, i) ==
    [from |-> LastFrom(i, span), to |-> i, counted |-> OnceAlongChain(span, i)]
AllExpected(span) == {Expected(span, i) : i \in Nat}

\* The inductive invariant: a list is determined by its length, so that the
\* window a whole length back is there and has counted what it should have.
ListsInv ==
    /\ lists = [span \in Spans |-> lists[span]]
    /\ \A span \in Spans :
         /\ lists[span] \in Seq(AllExpected(span))
         /\ \A i \in 1..Len(lists[span]) : lists[span][i] = Expected(span, i)

\* A whole length more leaves the remainder, and less than a length is its own.
LEMMA LengthLater ==
    ASSUME NEW span \in Nat \ {0}, NEW a \in Nat
    PROVE  (a + span) % span = a % span
<1> DEFINE b == a + span
           d == a \div span
           e == b \div span
           p == a % span
           q == b % span
<1>1. b \in Nat
  OBVIOUS
<1>2. d \in Int /\ p \in Int /\ a = span * d + p /\ 0 <= p /\ p < span
  OBVIOUS
<1>3. e \in Int /\ q \in Int /\ b = span * e + q /\ 0 <= q /\ q < span
  <2> HIDE DEF b
  <2>1. QED
    BY <1>1
<1> HIDE DEF d, e, p, q
<1> DEFINE k == (d + 1) - e
<1>4. k \in Int /\ q - p = k * span
  BY <1>2, <1>3
<1> HIDE DEF k
<1>5. ~ (k >= 1)
  <2>1. SUFFICES ASSUME k >= 1 PROVE FALSE
    OBVIOUS
  <2>2. (k - 1) \in Nat /\ (k - 1) * span \in Nat /\ k * span = (k - 1) * span + span
    BY <1>4, <2>1
  <2>3. QED
    BY <1>2, <1>3, <1>4, <2>2
<1>6. ~ (k <= -1)
  <2>1. SUFFICES ASSUME k <= -1 PROVE FALSE
    OBVIOUS
  <2> DEFINE l == (-1) - k
  <2>2. l \in Nat /\ l * span \in Nat /\ k * span = (-(l * span)) - span
    BY <1>4, <2>1
  <2> HIDE DEF l
  <2>3. QED
    BY <1>2, <1>3, <1>4, <2>2
<1>7. k = 0
  BY <1>4, <1>5, <1>6
<1>8. p = q
  BY <1>2, <1>3, <1>4, <1>7
<1>9. QED
  BY <1>8 DEF p, q

LEMMA WithinLength ==
    ASSUME NEW span \in Nat \ {0}, NEW a \in Nat
    PROVE  a % span \in 0..(span - 1) /\ a % span <= a /\ (a < span => a % span = a)
BY SMT

\* The windows of a chain share its first window, which ends by each of them.
LEMMA SameSeed ==
    ASSUME NEW span \in Nat \ {0}, NEW i \in Nat \ {0}
    PROVE  /\ Seed(i + span, span) = Seed(i, span)
           /\ Seed(i, span) \in 1..i
           /\ i <= span => Seed(i, span) = i
<1> DEFINE a == i - 1
<1>1. a \in Nat /\ i = a + 1 /\ (i + span) - 1 = a + span
  OBVIOUS
<1>2. /\ Seed(i, span) = (a % span) + 1
      /\ Seed(i + span, span) = ((a + span) % span) + 1
  BY <1>1 DEF Seed
<1>3. (a + span) % span = a % span
  BY <1>1, LengthLater
<1>4. a % span \in 0..(span - 1) /\ a % span <= a /\ (a < span => a % span = a)
  BY <1>1, WithinLength
<1> HIDE DEF a
<1>5. QED
  BY <1>1, <1>2, <1>3, <1>4

\* A window starts from its minutes' mean, or adds its close to the averages
\* of the window a length back, so that it has counted what it should have.
LEMMA NextWindow ==
    ASSUME NEW span \in Spans, NEW list,
           list \in Seq(AllExpected(span)),
           \A i \in 1..Len(list) : list[i] = Expected(span, i)
    PROVE  Window(list, span) = Expected(span, Len(list) + 1)
<1> DEFINE n == Len(list) + 1
           from == LastFrom(n, span)
           previous == n - Offset(span)
           continued(m) == IF m <= previous THEN list[previous].counted[m] ELSE 0
           close(m) == IF m = n THEN 1 ELSE 0
           mean(m) == IF m \in from..n THEN 1 ELSE 0
           C(m) == IF previous >= 1 THEN continued(m) + close(m) ELSE mean(m)
           E(m) == IF m <= Seed(n, span) \/ (n - m) % span = 0 THEN 1 ELSE 0
<1>1. span \in Nat \ {0} /\ n \in Nat \ {0} /\ Len(list) \in Nat
  BY SpansAssumption, LenProperties
<1>2. ASSUME NEW m \in 1..n PROVE C(m) = E(m)
  <2>1. CASE n <= span
    <3>1. Seed(n, span) = n
      BY <1>1, <2>1, SameSeed
    <3>2. ~(previous >= 1) /\ from = 1
      BY <1>1, <2>1 DEF Offset, LastFrom
    <3>3. QED
      BY <3>1, <3>2, <1>1
  <2>2. CASE n > span
    <3>1. previous \in 1..Len(list) /\ n = previous + span /\ previous \in Nat \ {0}
      BY <1>1, <2>2 DEF Offset
    <3>2. Seed(n, span) = Seed(previous, span) /\ Seed(previous, span) \in 1..previous
      BY <3>1, <1>1, SameSeed
    <3>3. list[previous].counted = OnceAlongChain(span, previous)
      <4>1. list[previous] = Expected(span, previous)
        BY <3>1
      <4>2. QED
        BY <4>1 DEF Expected
    <3>4. CASE m <= previous
      <4>1. m \in 1..previous /\ m # n
        BY <3>1, <3>4, <1>1
      <4>2. C(m) = list[previous].counted[m] + 0
        BY <4>1, <3>1, <3>4
      <4>3. list[previous].counted[m] = IF m <= Seed(previous, span) \/ (previous - m) % span = 0 THEN 1 ELSE 0
        BY <4>1, <3>3 DEF OnceAlongChain
      <4>4. n - m = (previous - m) + span /\ previous - m \in Nat
        <5> HIDE DEF n, previous
        <5>1. QED
          BY <4>1, <3>1, <1>1
      <4>5. (n - m) % span = (previous - m) % span
        BY <4>4, <1>1, LengthLater
      <4>6. list[previous].counted[m] = E(m)
        BY <4>3, <4>5, <3>2
      <4>7. E(m) \in {0, 1}
        OBVIOUS
      <4>8. QED
        BY <4>2, <4>6, <4>7
    <3>5. CASE m > previous
      <4>1. C(m) = close(m)
        BY <3>1, <3>5
      <4>2. ~(m <= Seed(n, span))
        BY <3>1, <3>2, <3>5
      <4>3. n - m \in Nat /\ n - m < span /\ (m = n <=> n - m = 0)
        BY <3>1, <3>5, <1>1
      <4>4. (n - m) % span = n - m
        BY <4>3, <1>1, WithinLength
      <4>5. QED
        BY <4>1, <4>2, <4>3, <4>4
    <3>6. QED
      BY <3>4, <3>5, <3>1, <1>1
  <2>3. QED
    BY <2>1, <2>2, <1>1
<1>3. [m \in 1..n |-> C(m)] = [m \in 1..n |-> E(m)]
  BY <1>2
<1>4. Window(list, span) = [from |-> from, to |-> n, counted |-> [m \in 1..n |-> C(m)]]
  BY DEF Window
<1>5. QED
  BY <1>3, <1>4 DEF Expected, OnceAlongChain

\* The lists are as expected before aggregate()'s loop has run.
LEMMA ListsInit == AggregateInit => ListsInv
BY EmptySeq DEF AggregateInit, ListsInv

\* A turn of aggregate()'s loop keeps every list as expected.
LEMMA ListsStep == ListsInv /\ AddNextMinute => ListsInv'
<1> SUFFICES ASSUME ListsInv, AddNextMinute PROVE ListsInv'
  OBVIOUS
<1>1. lists' = [span \in Spans |-> lists'[span]]
  BY DEF AddNextMinute
<1>2. ASSUME NEW span \in Spans
      PROVE  /\ lists'[span] \in Seq(AllExpected(span))
             /\ \A i \in 1..Len(lists'[span]) : lists'[span][i] = Expected(span, i)
  <2> DEFINE list == lists[span]
             next == Expected(span, Len(list) + 1)
  <2>1. list \in Seq(AllExpected(span)) /\ \A i \in 1..Len(list) : list[i] = Expected(span, i)
    BY DEF ListsInv
  <2>2. lists'[span] = Append(list, next)
    BY <2>1, NextWindow DEF AddNextMinute
  <2>3. Len(list) + 1 \in Nat /\ Len(list) \in Nat
    BY <2>1, LenProperties
  <2>4. next \in AllExpected(span)
    BY <2>3 DEF AllExpected
  <2> HIDE DEF next
  <2>5. /\ Append(list, next) \in Seq(AllExpected(span))
        /\ Len(Append(list, next)) = Len(list) + 1
        /\ \A i \in 1..Len(list) : Append(list, next)[i] = list[i]
        /\ Append(list, next)[Len(list) + 1] = next
    BY <2>1, <2>4, AppendProperties
  <2>6. ASSUME NEW i \in 1..(Len(list) + 1)
        PROVE  Append(list, next)[i] = Expected(span, i)
    <3>1. CASE i \in 1..Len(list)
      BY <3>1, <2>1, <2>5
    <3>2. CASE i = Len(list) + 1
      BY <3>2, <2>5 DEF next
    <3>3. QED
      BY <3>1, <3>2, <2>3
  <2>7. QED
    BY <2>2, <2>5, <2>6
<1>3. QED
  BY <1>1, <1>2 DEF ListsInv

\* Every behaviour of the analysis keeps its lists as expected.
THEOREM ListsInvariant == Spec => []ListsInv
<1>1. Init => ListsInv
  BY ListsInit DEF Init
<1>2. ListsInv /\ [Next]_vars => ListsInv'
  <2>1. CASE Next
    BY <2>1, ListsStep DEF Next
  <2>2. CASE UNCHANGED vars
    BY <2>2 DEF vars, ListsInv
  <2>3. QED
    BY <2>1, <2>2
<1>3. QED
  BY <1>1, <1>2, PTL DEF Spec

\* No minute is counted twice, and after its first window a chain counts each
\* full window once, by its close, whatever the lengths of the windows.
THEOREM AnalysisCountedOnce == Spec => []CountedOnce
<1>1. ListsInv => CountedOnce
  <2> SUFFICES ASSUME ListsInv, NEW span \in Spans, NEW i \in DOMAIN lists[span]
               PROVE  lists[span][i].counted = OnceAlongChain(span, i)
    BY DEF CountedOnce, OnceAlongChain
  <2>1. i \in 1..Len(lists[span])
    BY LenProperties DEF ListsInv
  <2>2. lists[span][i] = Expected(span, i)
    BY <2>1 DEF ListsInv
  <2>3. QED
    BY <2>2 DEF Expected
<1>2. QED
  BY <1>1, ListsInvariant, PTL

\* The MACD analyzer never compares overlapping, partial or distant windows,
\* whatever their lengths.
THEOREM AnalysisMacdComparesNeighbours == Spec => []MacdComparesNeighbours
<1>1. ListsInv => MacdComparesNeighbours
  <2> SUFFICES ASSUME ListsInv, NEW span \in Spans,
                      lists[span] # << >>, ~MacdWaits(lists[span])
               PROVE  /\ MacdPrevious(lists[span]).to = lists[span][Len(lists[span])].from - 1
                      /\ Count(MacdPrevious(lists[span])) = span
                      /\ Count(lists[span][Len(lists[span])]) = span
    BY DEF MacdComparesNeighbours
  <2> DEFINE list == lists[span]
             n == Len(list)
  <2>1. list \in Seq(AllExpected(span)) /\ \A i \in 1..n : list[i] = Expected(span, i)
    BY DEF ListsInv
  <2>2. span \in Nat /\ span >= 1 /\ n \in Nat /\ n >= 1
    BY <2>1, SpansAssumption, EmptySeq, LenProperties
  <2>3. list[n] = Expected(span, n)
    BY <2>1, <2>2
  <2>4. list[n].from = LastFrom(n, span) /\ Count(list[n]) = n - LastFrom(n, span) + 1
    BY <2>3 DEF Count, Expected
  <2>5. ~(n < 2 * Count(list[n]))
    BY DEF MacdWaits
  <2>6. span < n /\ Count(list[n]) = span /\ list[n].from = n - span + 1 /\ n >= 2 * span
    <3>1. CASE span >= n
      <4>1. LastFrom(n, span) = 1
        BY <3>1 DEF LastFrom
      <4>2. Count(list[n]) = n
        BY <4>1, <2>4, <2>2
      <4>3. QED
        BY <4>2, <2>5, <2>2
    <3>2. CASE span < n
      <4>1. LastFrom(n, span) = n - span + 1
        BY <2>2, <3>2 DEF LastFrom
      <4>2. Count(list[n]) = span
        BY <4>1, <2>4, <2>2
      <4>3. QED
        BY <4>1, <4>2, <2>4, <2>5, <2>2, <3>2
    <3>3. QED
      BY <3>1, <3>2, <2>2
  <2>7. MacdPrevious(list) = Expected(span, n - span)
    BY <2>1, <2>2, <2>6 DEF MacdPrevious
  <2>8. QED
    BY <2>2, <2>6, <2>7 DEF Count, Expected, LastFrom
<1>2. QED
  BY <1>1, ListsInvariant, PTL

-----------------------------------------------------------------------------
(* The zig-zag points.                                                     *)

\* Where the extremes are.
Extremes ==
    IF candles = << >> THEN high = 0 /\ low = 0
    ELSE high \in 1..Len(candles) /\ low \in 1..Len(candles)

\* Without a trend there is no point yet, and the extremes are in order.
NoneInv ==
    trend = "NONE" =>
        /\ buys = << >> /\ sells = << >>
        /\ candles # << >> => LastLow <= LastHigh

\* On the way up the last purchase already has a sale to offer: the extreme.
UpInv ==
    trend = "UP" =>
        /\ candles # << >>
        /\ Len(buys) = Len(sells) + 1
        /\ buys[Len(buys)] < high
        /\ LastHigh > candles[buys[Len(buys)]].low + Threshold

\* On the way down the next purchase is later than the last sale.
DownInv ==
    trend = "DOWN" =>
        /\ candles # << >>
        /\ Len(buys) = Len(sells)
        /\ sells # << >> => sells[Len(sells)] < low

\* The inductive invariant.
ZigZagInv ==
    ZigZagTypeOK /\ Extremes /\ NoneInv /\ UpInv /\ DownInv /\ PointsAlternate /\ RoundTripsGain

\* The state find_zig_zag() starts from is good.
LEMMA ZigZagInitial == ZigZagInit => ZigZagInv
<1> SUFFICES ASSUME ZigZagInit PROVE ZigZagInv
  OBVIOUS
<1>1. ZigZagTypeOK /\ Len(buys) = 0 /\ Len(sells) = 0
  BY EmptySeq DEF ZigZagInit, ZigZagTypeOK
<1>2. DOMAIN sells = {}
  BY DEF ZigZagInit
<1>3. QED
  BY <1>1, <1>2 DEF ZigZagInit, ZigZagInv, Extremes, NoneInv, UpInv, DownInv, PointsAlternate, RoundTripsGain

\* What a new candle changes whatever the trend: the candles there were keep
\* their places, and points stay within the history.
LEMMA Longer ==
    ASSUME ZigZagTypeOK, NEW c \in Candles, candles' = Append(candles, c)
    PROVE  /\ Len(candles) \in Nat /\ Here = Len(candles) + 1
           /\ candles' \in Seq(Candles) /\ candles' # << >>
           /\ Len(candles') = Len(candles) + 1
           /\ \A i \in 1..Len(candles) : candles'[i] = candles[i] /\ candles[i] \in Candles
           /\ candles'[Here] = c
           /\ buys \in Seq(1..Len(candles')) /\ sells \in Seq(1..Len(candles'))
<1>1. candles \in Seq(Candles) /\ Len(candles) \in Nat
  BY LenProperties DEF ZigZagTypeOK
<1>2. /\ candles' \in Seq(Candles)
      /\ Len(candles') = Len(candles) + 1
      /\ \A i \in 1..Len(candles) : candles'[i] = candles[i]
      /\ candles'[Len(candles) + 1] = c
  BY <1>1, AppendProperties
<1>3. \A i \in 1..Len(candles) : candles[i] \in Candles
  BY <1>1, ElementOfSeq
<1>4. 1..Len(candles) \subseteq 1..Len(candles')
  BY <1>1, <1>2
<1>5. buys \in Seq(1..Len(candles')) /\ sells \in Seq(1..Len(candles'))
  BY <1>4, SeqMonotonic DEF ZigZagTypeOK
<1>6. candles' # << >>
  BY <1>1, <1>2, EmptySeq
<1>7. QED
  BY <1>1, <1>2, <1>3, <1>5, <1>6 DEF Here

\* A turn that adds neither a purchase nor a sale keeps the points good.
LEMMA SamePoints ==
    ASSUME ZigZagInv, NEW c \in Candles, candles' = Append(candles, c),
           UNCHANGED <<buys, sells>>
    PROVE  RoundTripsGain'
<1>1. \A i \in 1..Len(candles) : candles'[i] = candles[i]
  BY Longer DEF ZigZagInv
<1>2. \A k \in DOMAIN sells : sells[k] \in 1..Len(candles) /\ buys[k] \in 1..Len(candles)
  <2> SUFFICES ASSUME NEW k \in DOMAIN sells
               PROVE  sells[k] \in 1..Len(candles) /\ buys[k] \in 1..Len(candles)
    OBVIOUS
  <2>1. k \in 1..Len(sells) /\ Len(sells) \in Nat /\ Len(buys) \in Nat
    BY LenProperties DEF ZigZagInv, ZigZagTypeOK
  <2>2. k \in 1..Len(buys)
    BY <2>1 DEF ZigZagInv, PointsAlternate
  <2>3. QED
    BY <2>1, <2>2, ElementOfSeq DEF ZigZagInv, ZigZagTypeOK
<1>3. QED
  BY <1>1, <1>2 DEF ZigZagInv, RoundTripsGain

\* A purchase at the extreme low begins the way up.
LEMMA Purchase ==
    ASSUME ZigZagInv, NEW c \in Candles, candles' = Append(candles, c),
           candles # << >>, trend # "UP", trend' = "UP",
           buys' = Append(buys, low), high' = Here, UNCHANGED sells,
           low' \in {low, Here},
           Len(buys) = Len(sells), sells # << >> => sells[Len(sells)] < low,
           c.high > LastLow + Threshold
    PROVE  ZigZagInv'
<1> DEFINE S == 1..Len(candles)  T == 1..Len(candles')
<1>1. /\ Len(candles) \in Nat /\ Here = Len(candles) + 1 /\ Len(candles') = Len(candles) + 1
      /\ candles' \in Seq(Candles) /\ candles' # << >> /\ candles'[Here] = c
      /\ \A i \in S : candles'[i] = candles[i] /\ candles[i] \in Candles
      /\ buys \in Seq(T) /\ sells \in Seq(T)
  BY Longer DEF ZigZagInv
<1>2. low \in S /\ high \in S
  BY DEF ZigZagInv, Extremes
<1>3. low \in T /\ Here \in T
  BY <1>1, <1>2
<1>4. /\ Len(buys) \in Nat /\ Len(sells) \in Nat
      /\ DOMAIN sells = 1..Len(sells) /\ DOMAIN buys = 1..Len(buys)
      /\ \A k \in 1..Len(sells) : sells[k] \in S
      /\ \A k \in 1..Len(buys) : buys[k] \in S
  BY LenProperties, ElementOfSeq DEF ZigZagInv, ZigZagTypeOK
<1>5. /\ buys' \in Seq(T) /\ Len(buys') = Len(buys) + 1
      /\ \A k \in 1..Len(buys) : buys'[k] = buys[k]
      /\ buys'[Len(buys) + 1] = low
      /\ DOMAIN buys' = 1..(Len(buys) + 1)
  BY <1>1, <1>3, AppendProperties, LenProperties
<1>6. ZigZagTypeOK'
  BY <1>1, <1>2, <1>3, <1>5 DEF ZigZagTypeOK
<1>7. Extremes' /\ NoneInv' /\ DownInv'
  BY <1>1, <1>2, <1>3 DEF Extremes, NoneInv, DownInv
<1>8. UpInv'
  <2>1. candles'[low].low = LastLow /\ LastHigh' = c.high
    BY <1>1, <1>2 DEF LastLow, LastHigh
  <2>2. buys'[Len(buys')] = low /\ low < high'
    BY <1>1, <1>2, <1>4, <1>5
  <2>3. QED
    BY <1>1, <1>4, <1>5, <2>1, <2>2 DEF UpInv
<1>9. PointsAlternate'
  <2>1. Len(buys') = Len(sells') + 1
    BY <1>4, <1>5
  <2>2. ASSUME NEW k \in 1..Len(sells)
        PROVE  buys'[k] < sells[k] /\ (k + 1 \in DOMAIN buys' => sells[k] < buys'[k + 1])
    <3>1. buys[k] < sells[k] /\ (k + 1 \in DOMAIN buys => sells[k] < buys[k + 1])
      BY <1>4 DEF ZigZagInv, PointsAlternate
    <3>2. buys'[k] = buys[k]
      BY <1>4, <1>5
    <3>3. CASE k = Len(sells)
      <4>1. sells # << >>
        BY <1>4
      <4>2. QED
        BY <4>1, <3>1, <3>2, <3>3, <1>4, <1>5
    <3>4. CASE k # Len(sells)
      <4>1. Len(sells) \in Nat /\ Len(buys) = Len(sells)
        BY <1>4
      <4>2. k + 1 \in 1..Len(buys)
        BY <3>4, <4>1
      <4>3. QED
        BY <4>2, <3>1, <3>2, <1>4, <1>5
    <3>5. QED
      BY <3>3, <3>4
  <2>3. QED
    BY <2>1, <2>2, <1>4, <1>6 DEF PointsAlternate
<1>10. RoundTripsGain'
  <2>1. ASSUME NEW k \in 1..Len(sells)
        PROVE  candles'[sells[k]].high > candles'[buys'[k]].low + Threshold
    <3>1. candles[sells[k]].high > candles[buys[k]].low + Threshold
      BY <1>4 DEF ZigZagInv, RoundTripsGain
    <3>2. buys'[k] = buys[k] /\ sells[k] \in S /\ buys[k] \in S
      BY <1>4, <1>5
    <3>3. QED
      BY <3>1, <3>2, <1>1
  <2>2. QED
    BY <2>1, <1>4 DEF RoundTripsGain
<1>11. QED
  BY <1>6, <1>7, <1>8, <1>9, <1>10 DEF ZigZagInv

\* A sale at the extreme high begins the way down.
LEMMA Sale ==
    ASSUME ZigZagInv, NEW c \in Candles, candles' = Append(candles, c),
           trend = "UP", trend' = "DOWN",
           sells' = Append(sells, high), low' = Here, UNCHANGED <<high, buys>>
    PROVE  ZigZagInv'
<1> DEFINE S == 1..Len(candles)  T == 1..Len(candles')
<1>1. /\ Len(candles) \in Nat /\ Here = Len(candles) + 1 /\ Len(candles') = Len(candles) + 1
      /\ candles' \in Seq(Candles) /\ candles' # << >>
      /\ \A i \in S : candles'[i] = candles[i]
      /\ buys \in Seq(T) /\ sells \in Seq(T)
  BY Longer DEF ZigZagInv
<1>2. /\ high \in S /\ Len(buys) = Len(sells) + 1 /\ buys[Len(buys)] < high
      /\ LastHigh > candles[buys[Len(buys)]].low + Threshold
  BY DEF ZigZagInv, Extremes, UpInv
<1>3. high \in T /\ Here \in T
  BY <1>1, <1>2
<1>4. /\ Len(buys) \in Nat /\ Len(sells) \in Nat
      /\ DOMAIN sells = 1..Len(sells) /\ DOMAIN buys = 1..Len(buys)
      /\ \A k \in 1..Len(sells) : sells[k] \in S
      /\ \A k \in 1..Len(buys) : buys[k] \in S
  BY LenProperties, ElementOfSeq DEF ZigZagInv, ZigZagTypeOK
<1>5. /\ sells' \in Seq(T) /\ Len(sells') = Len(sells) + 1
      /\ \A k \in 1..Len(sells) : sells'[k] = sells[k]
      /\ sells'[Len(sells) + 1] = high
      /\ DOMAIN sells' = 1..(Len(sells) + 1)
  BY <1>1, <1>3, AppendProperties, LenProperties
<1>6. ZigZagTypeOK'
  BY <1>1, <1>2, <1>3, <1>5 DEF ZigZagTypeOK
<1>7. Extremes' /\ NoneInv' /\ UpInv'
  BY <1>1, <1>2, <1>3 DEF Extremes, NoneInv, UpInv
<1>8. DownInv'
  <2>1. sells'[Len(sells')] = high /\ high < low'
    BY <1>1, <1>2, <1>5
  <2>2. QED
    BY <1>1, <1>2, <1>5, <2>1 DEF DownInv
<1>9. ASSUME NEW k \in 1..(Len(sells) + 1)
      PROVE  /\ buys[k] < sells'[k]
             /\ k + 1 \in DOMAIN buys => sells'[k] < buys[k + 1]
             /\ candles'[sells'[k]].high > candles'[buys[k]].low + Threshold
  <2>1. CASE k \in 1..Len(sells)
    <3>1. /\ buys[k] < sells[k] /\ (k + 1 \in DOMAIN buys => sells[k] < buys[k + 1])
          /\ candles[sells[k]].high > candles[buys[k]].low + Threshold
      BY <2>1, <1>4 DEF ZigZagInv, PointsAlternate, RoundTripsGain
    <3>2. sells'[k] = sells[k] /\ sells[k] \in S /\ buys[k] \in S
      BY <2>1, <1>2, <1>4, <1>5
    <3>3. QED
      BY <3>1, <3>2, <1>1
  <2>2. CASE k = Len(sells) + 1
    <3>1. sells'[k] = high /\ k = Len(buys) /\ k + 1 \notin DOMAIN buys /\ buys[k] \in S
      BY <2>2, <1>2, <1>4, <1>5
    <3>2. candles'[high].high = LastHigh /\ candles'[buys[k]] = candles[buys[k]]
      BY <3>1, <1>1, <1>2 DEF LastHigh
    <3>3. QED
      BY <3>1, <3>2, <1>2
  <2>3. Len(sells) \in Nat
    BY <1>4
  <2>4. k \in 1..Len(sells) \/ k = Len(sells) + 1
    BY <2>3
  <2>5. QED
    BY <2>1, <2>2, <2>4
<1>10. PointsAlternate'
  <2>1. Len(buys) = Len(sells')
    BY <1>2, <1>5
  <2>2. \A k \in DOMAIN sells' : /\ buys[k] < sells'[k]
                                 /\ k + 1 \in DOMAIN buys => sells'[k] < buys[k + 1]
    BY <1>5, <1>9
  <2>3. Len(sells') \in Nat
    BY <1>4, <1>5
  <2>4. QED
    BY <2>1, <2>2, <2>3, <1>6 DEF PointsAlternate
<1>11. RoundTripsGain'
  BY <1>5, <1>9 DEF RoundTripsGain
<1>12. QED
  BY <1>6, <1>7, <1>8, <1>10, <1>11 DEF ZigZagInv

\* What every other turn leaves good.
LEMMA NoPoint ==
    ASSUME ZigZagInv, NEW c \in Candles, candles' = Append(candles, c),
           UNCHANGED <<buys, sells>>,
           trend' \in {"NONE", "UP", "DOWN"}, (trend' = "UP") <=> (trend = "UP"),
           IF candles = << >> THEN high' = Here /\ low' = Here
           ELSE high' \in {high, Here} /\ low' \in {low, Here}
    PROVE  ZigZagTypeOK' /\ Extremes' /\ PointsAlternate' /\ RoundTripsGain'
<1>1. /\ Len(candles) \in Nat /\ Here = Len(candles) + 1 /\ Len(candles') = Len(candles) + 1
      /\ candles' \in Seq(Candles) /\ candles' # << >>
      /\ buys \in Seq(1..Len(candles')) /\ sells \in Seq(1..Len(candles'))
  BY Longer DEF ZigZagInv
<1>2. high' \in 1..Len(candles') /\ low' \in 1..Len(candles')
  BY <1>1 DEF ZigZagInv, Extremes
<1>3. ZigZagTypeOK' /\ Extremes'
  BY <1>1, <1>2 DEF ZigZagTypeOK, Extremes
<1>4. PointsAlternate'
  BY <1>3 DEF ZigZagInv, PointsAlternate
<1>5. QED
  BY <1>3, <1>4, SamePoints

\* A turn of find_zig_zag()'s loop keeps the points good: a purchase, a sale
\* or no point.
LEMMA ZigZagStep ==
    ASSUME ZigZagInv, NEW c \in Candles, NextCandle(c)
    PROVE  ZigZagInv'
<1> USE DEF NextCandle
<1>1. candles' = Append(candles, c) /\ (FirstCandle(c) \/ (candles # << >> /\ Moves(c)))
  OBVIOUS
<1>2. /\ Len(candles) \in Nat /\ Here = Len(candles) + 1 /\ candles' # << >> /\ candles'[Here] = c
      /\ \A i \in 1..Len(candles) : candles'[i] = candles[i] /\ candles[i] \in Candles
  BY <1>1, Longer DEF ZigZagInv
<1>3. /\ \A d \in Candles : d.high \in Int /\ d.low \in Int /\ d.low <= d.high
      /\ Threshold \in Nat
  BY ZigZagAssumption DEF Candles
<1>4. candles # << >> => /\ high \in 1..Len(candles) /\ low \in 1..Len(candles)
                         /\ LastHigh = candles'[high].high /\ LastLow = candles'[low].low
                         /\ LastHigh \in Int /\ LastLow \in Int
  BY <1>2, <1>3 DEF ZigZagInv, Extremes, LastHigh, LastLow
<1>5. /\ LastHigh' = candles'[high'].high /\ LastLow' = candles'[low'].low
  BY DEF LastHigh, LastLow
<1>6. trend = "NONE" => Len(buys) = 0 /\ Len(sells) = 0 /\ sells = << >> /\ buys = << >>
  BY EmptySeq DEF ZigZagInv, NoneInv
<1>7. CASE FirstCandle(c)
  <2>1. trend = "NONE" /\ Len(candles) = 0
    BY <1>7, EmptySeq DEF FirstCandle, ZigZagInv, UpInv, DownInv, ZigZagTypeOK
  <2>2. ZigZagTypeOK' /\ Extremes' /\ PointsAlternate' /\ RoundTripsGain'
    BY <1>1, <1>2, <1>7, <2>1, NoPoint DEF FirstCandle
  <2>3. NoneInv' /\ UpInv' /\ DownInv'
    BY <1>2, <1>3, <1>5, <1>6, <1>7, <2>1 DEF FirstCandle, NoneInv, UpInv, DownInv
  <2>4. QED
    BY <2>2, <2>3 DEF ZigZagInv
<1>8. ASSUME candles # << >>, Moves(c) PROVE ZigZagInv'
  <2>1. CASE RisesFromNone(c)
    <3>1. c.high > LastLow + Threshold
      BY <1>3, <1>4, <1>8, <2>1 DEF RisesFromNone, ZigZagInv, NoneInv
    <3>2. QED
      BY <1>1, <1>6, <1>8, <2>1, <3>1, Purchase DEF RisesFromNone
  <2>2. CASE FallsFromNone(c)
    <3>1. UNCHANGED sells
      BY <1>6, <2>2 DEF FallsFromNone
    <3>2. ZigZagTypeOK' /\ Extremes' /\ PointsAlternate' /\ RoundTripsGain'
      BY <1>1, <1>8, <2>2, <3>1, NoPoint DEF FallsFromNone
    <3>3. NoneInv' /\ UpInv' /\ DownInv'
      BY <1>2, <1>6, <2>2, <3>1 DEF FallsFromNone, NoneInv, UpInv, DownInv
    <3>4. QED
      BY <3>2, <3>3 DEF ZigZagInv
  <2>3. CASE StaysNone(c)
    <3>1. ZigZagTypeOK' /\ Extremes' /\ PointsAlternate' /\ RoundTripsGain'
      BY <1>1, <1>8, <2>3, NoPoint DEF StaysNone
    <3>2. LastLow <= LastHigh
      BY <1>8, <2>3 DEF StaysNone, ZigZagInv, NoneInv
    <3>3. LastLow' <= LastHigh'
      BY <1>2, <1>3, <1>4, <1>5, <1>8, <2>3, <3>2 DEF StaysNone
    <3>4. NoneInv' /\ UpInv' /\ DownInv'
      BY <1>6, <2>3, <3>3 DEF StaysNone, NoneInv, UpInv, DownInv
    <3>5. QED
      BY <3>1, <3>4 DEF ZigZagInv
  <2>4. CASE trend = "UP" /\ UNCHANGED <<trend, low, buys, sells>> /\ high' \in {high, Here}
             /\ (high' = Here => c.high >= LastHigh)
    <3>1. ZigZagTypeOK' /\ Extremes' /\ PointsAlternate' /\ RoundTripsGain'
      BY <1>1, <1>8, <2>4, NoPoint
    <3>2. high <= high' /\ LastHigh' >= LastHigh /\ LastHigh' \in Int /\ high' \in Int
      BY <1>2, <1>3, <1>4, <1>5, <1>8, <2>4
    <3>3. /\ Len(buys) = Len(sells) + 1 /\ buys[Len(buys)] < high
          /\ LastHigh > candles[buys[Len(buys)]].low + Threshold
      BY <2>4 DEF ZigZagInv, UpInv
    <3>4. buys[Len(buys)] \in 1..Len(candles)
      <4>1. buys \in Seq(1..Len(candles)) /\ Len(buys) \in Nat /\ Len(sells) \in Nat
        BY LenProperties DEF ZigZagInv, ZigZagTypeOK
      <4>2. Len(buys) \in 1..Len(buys)
        BY <4>1, <3>3
      <4>3. QED
        BY <4>1, <4>2, ElementOfSeq
    <3>5. candles'[buys[Len(buys)]] = candles[buys[Len(buys)]] /\ candles[buys[Len(buys)]].low \in Int
      BY <1>2, <1>3, <3>4
    <3>6. /\ buys[Len(buys)] < high'
          /\ LastHigh' > candles'[buys[Len(buys)]].low + Threshold
      BY <3>2, <3>3, <3>4, <3>5, <1>3, <1>4, <1>8
    <3>7. NoneInv' /\ UpInv' /\ DownInv'
      BY <1>2, <2>4, <3>3, <3>6 DEF NoneInv, UpInv, DownInv
    <3>8. QED
      BY <3>1, <3>7 DEF ZigZagInv
  <2>5. CASE Reverses(c)
    BY <1>1, <2>5, Sale DEF Reverses, SellsAt
  <2>6. CASE trend = "DOWN" /\ UNCHANGED <<trend, high, buys, sells>> /\ low' \in {low, Here}
    <3>1. ZigZagTypeOK' /\ Extremes' /\ PointsAlternate' /\ RoundTripsGain'
      BY <1>1, <1>8, <2>6, NoPoint
    <3>2. sells # << >> => sells[Len(sells)] \in Int
      <4>1. sells \in Seq(1..Len(candles)) /\ Len(sells) \in Nat
        BY LenProperties DEF ZigZagInv, ZigZagTypeOK
      <4>2. sells # << >> => Len(sells) \in 1..Len(sells)
        BY <4>1, EmptySeq
      <4>3. QED
        BY <4>1, <4>2, ElementOfSeq
    <3>3. low <= low' /\ low \in Int /\ low' \in Int
      BY <1>2, <1>4, <1>8, <2>6
    <3>4. NoneInv' /\ UpInv' /\ DownInv'
      BY <1>2, <2>6, <3>2, <3>3 DEF ZigZagInv, NoneInv, UpInv, DownInv
    <3>5. QED
      BY <3>1, <3>4 DEF ZigZagInv
  <2>7. CASE Recovers(c)
    <3>1. Len(buys) = Len(sells) /\ (sells # << >> => sells[Len(sells)] < low)
      BY <2>7 DEF Recovers, ZigZagInv, DownInv
    <3>2. QED
      BY <1>1, <1>8, <2>7, <3>1, Purchase DEF Recovers, Rises
  <2>8. QED
    <3>1. CASE KeepsRising(c)
      BY <2>4, <3>1, <1>3, <1>4, <1>8 DEF KeepsRising
    <3>2. CASE KeepsFalling(c)
      BY <2>6, <3>2 DEF KeepsFalling
    <3>3. CASE Continues(c)
      BY <2>4, <2>6, <3>3, <1>2, <1>4, <1>8 DEF Continues
    <3>4. QED
      BY <1>8, <2>1, <2>2, <2>3, <2>5, <2>7, <3>1, <3>2, <3>3 DEF Moves
<1>9. QED
  BY <1>1, <1>7, <1>8

\* Every behaviour of the analysis keeps the invariant.
THEOREM ZigZagInvariant == Spec => []ZigZagInv
<1>1. Init => ZigZagInv
  BY ZigZagInitial DEF Init
<1>2. ZigZagInv /\ [Next]_vars => ZigZagInv'
  <2> SUFFICES ASSUME ZigZagInv, [Next]_vars PROVE ZigZagInv'
    OBVIOUS
  <2>1. CASE Next
    BY <2>1, ZigZagStep DEF Next
  <2>2. CASE UNCHANGED vars
    BY <2>2 DEF vars, zigZagVars, ZigZagInv, ZigZagTypeOK, Extremes, NoneInv, UpInv, DownInv,
                PointsAlternate, RoundTripsGain, LastHigh, LastLow
  <2>3. QED
    BY <2>1, <2>2
<1>3. QED
  BY <1>1, <1>2, PTL DEF Spec

\* The points are a sequence of round trips in time, for any history.
THEOREM AnalysisPointsAlternate == Spec => []PointsAlternate
<1>1. ZigZagInv => PointsAlternate
  BY DEF ZigZagInv
<1>2. QED
  BY <1>1, ZigZagInvariant, PTL

\* Every round trip gains more than the threshold, for any history.
THEOREM AnalysisRoundTripsGain == Spec => []RoundTripsGain
<1>1. ZigZagInv => RoundTripsGain
  BY DEF ZigZagInv
<1>2. QED
  BY <1>1, ZigZagInvariant, PTL

=============================================================================
