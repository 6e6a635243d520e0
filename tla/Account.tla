------------------------------ MODULE Account -------------------------------
(***************************************************************************)
(* What the executor and the back test share: the lots held in a stock     *)
(* (trading/trading_state.h) and the metrics of their sales                *)
(* (trading/metrics.h).  Money is an integer.                              *)
(***************************************************************************)
EXTENDS Integers, Sequences, SequencesExt

CONSTANT InitialFunds  \* trading_state::initial_funds

ASSUME FundsAssumption == InitialFunds \in Nat

Lot == [price : Nat, quantity : Nat]

\* The sum of a sequence of integers.
SumSeq(s) ==
    LET sum[i \in 0..Len(s)] == IF i = 0 THEN 0 ELSE sum[i - 1] + s[i]
    IN  sum[Len(s)]

\* position::cost, summed.
Cost(lots) == SumSeq([i \in DOMAIN lots |-> lots[i].price * lots[i].quantity])
Quantity(lots) == SumSeq([i \in DOMAIN lots |-> lots[i].quantity])

\* The number of lots that a sale at this price sells for a profit.
ProfitableFromTheSecondLot(price, lots) ==
    Cardinality({i \in DOMAIN lots \ {1} : price > lots[i].price})
ProfitableAt(price, lots) == Cardinality({i \in DOMAIN lots : price > lots[i].price})

=============================================================================
