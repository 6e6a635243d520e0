----------------------------- MODULE Aggregate -----------------------------
(***************************************************************************)
(* The moving aggregations of one stock (data/aggregate.cc): each minute   *)
(* appends to every list a window over the last minutes, and the window's  *)
(* moving averages continue those of an earlier window of the same list.   *)
(*                                                                         *)
(* The minutes are numbered.  Instead of the values of the exponential     *)
(* averages a window records how often each minute went into them: a       *)
(* window with nothing to continue starts from the mean of its minutes,    *)
(* and a later one adds its close, that of its last minute, alone.         *)
(***************************************************************************)
EXTENDS Integers, Sequences

CONSTANT Spans  \* the lengths of the windows: 1, 5 and 20 minutes

ASSUME SpansAssumption == Spans \subseteq Nat \ {0}

VARIABLE lists  \* one_minute, five_minute and twenty_minute, by length

\* vector::last_n on a list of n elements: the first index of the subspan.
LastFrom(n, span) == IF span >= n THEN 1 ELSE n - span + 1

\* maybe_get_previous's offset.
OneBack(span) == 1
Offset(span) == span

\* A window's minutes and how often its averages have counted each minute.
Window(list, span) ==
    LET n == Len(list) + 1
        from == LastFrom(n, span)
        previous == n - Offset(span)
        continued(m) == IF m <= previous THEN list[previous].counted[m] ELSE 0
        close(m) == IF m = n THEN 1 ELSE 0
        mean(m) == IF m \in from..n THEN 1 ELSE 0 IN
    [from |-> from,
     to |-> n,
     counted |-> [m \in 1..n |-> IF previous >= 1 THEN continued(m) + close(m) ELSE mean(m)]]

AddNextMinute ==
    lists' = [span \in Spans |-> Append(lists[span], Window(lists[span], span))]

AggregateInit == lists = [span \in Spans |-> << >>]

-----------------------------------------------------------------------------
(* The windows that macd_crossover_analyzer compares.                      *)

Count(window) == window.to - window.from + 1

\* It waits until the list has two windows' worth of entries.
MacdWaits(list) == Len(list) < 2 * Count(list[Len(list)])
MacdOverlaps(list) == list[Len(list) - Count(list[Len(list)]) + 1]
MacdPrevious(list) == list[Len(list) - Count(list[Len(list)])]

-----------------------------------------------------------------------------
(* Properties.                                                             *)

\* The length of the first window of a window's chain, one length apart.
Seed(i, span) == ((i - 1) % span) + 1

\* aggregate.cc (168-172) promises that the EMA state "is updated only once per
\* full window of data", so that no minute is counted several times.  Along the
\* chain of windows that ends in the i-th, the minutes of the first, shorter or
\* just full, are counted once each, and after it the close of every full
\* window is counted once, and nothing else is.
CountedOnce ==
    \A span \in Spans : \A i \in DOMAIN lists[span] :
        lists[span][i].counted =
            [m \in 1..i |-> IF m <= Seed(i, span) \/ (i - m) % span = 0 THEN 1 ELSE 0]

\* The MACD analyzer never compares overlapping, partial or distant windows.
MacdComparesNeighbours ==
    \A span \in Spans :
        LET list == lists[span] IN
        list # << >> /\ ~MacdWaits(list) =>
            /\ MacdPrevious(list).to = list[Len(list)].from - 1
            /\ Count(MacdPrevious(list)) = span /\ Count(list[Len(list)]) = span

=============================================================================
