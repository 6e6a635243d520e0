------------------------------ MODULE Analysis ------------------------------
(***************************************************************************)
(* What howling_tools/visualize.cc computes from a history: the moving     *)
(* aggregations of its candles, a minute at a time, and the zig-zag        *)
(* analysis of the same candles.                                           *)
(***************************************************************************)
EXTENDS Aggregate, ZigZag

CONSTANT MaxCandles  \* bound on the history's length

vars == <<lists, zigZagVars>>

Init == AggregateInit /\ ZigZagInit

Next ==
    /\ Len(candles) < MaxCandles
    /\ AddNextMinute
    /\ \E c \in Candles : NextCandle(c)

Spec == Init /\ [][Next]_vars

=============================================================================
