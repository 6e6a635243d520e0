------------------------------- MODULE ZigZag -------------------------------
(***************************************************************************)
(* zig_zag_analyzer (data/analyzers/zig_zag.cc): one pass over a history   *)
(* finds the points to buy and to sell at, with hindsight.  It is the      *)
(* optimum that other analyzers are compared with.                         *)
(***************************************************************************)
EXTENDS Integers, Sequences

CONSTANTS
    Prices,     \* a candle's high and low
    Threshold   \* options::threshold, the smallest move worth a trade

ASSUME ZigZagAssumption == Prices \subseteq Int /\ Threshold \in Nat

VARIABLES
    candles,  \* the candles seen so far
    trend,    \* "NONE", "UP" or "DOWN"
    high,     \* last_high_idx; last_high is that candle's high
    low,      \* last_low_idx; last_low is that candle's low
    buys,     \* _buy_points, as indexes
    sells     \* _sell_points, as indexes

zigZagVars == <<candles, trend, high, low, buys, sells>>

Candles == {c \in [high : Prices, low : Prices] : c.low <= c.high}

LastHigh == candles[high].high
LastLow == candles[low].low
Here == Len(candles) + 1

FirstCandle(c) ==
    /\ candles = << >>
    /\ high' = 1 /\ low' = 1
    /\ UNCHANGED <<trend, buys, sells>>

\* No trend yet: a move beyond the threshold starts one, and the extremes move
\* on as far as the candle is beyond them.
RisesFromNone(c) ==
    /\ trend = "NONE"
    /\ c.high > LastHigh + Threshold
    /\ trend' = "UP"
    /\ buys' = Append(buys, low)
    /\ high' = Here
    /\ low' = IF c.low < LastLow THEN Here ELSE low
    /\ UNCHANGED sells

FallsFromNone(c) ==
    /\ trend = "NONE"
    /\ c.high <= LastHigh + Threshold /\ c.low < LastLow - Threshold
    /\ trend' = "DOWN"
    /\ sells' = IF Len(buys) > Len(sells) THEN Append(sells, high) ELSE sells
    /\ low' = Here
    /\ high' = IF c.high > LastHigh THEN Here ELSE high
    /\ UNCHANGED buys

StaysNone(c) ==
    /\ trend = "NONE"
    /\ c.high <= LastHigh + Threshold /\ c.low >= LastLow - Threshold
    /\ low' = IF c.low < LastLow THEN Here ELSE low
    /\ high' = IF c.low >= LastLow /\ c.high > LastHigh THEN Here ELSE high
    /\ UNCHANGED <<trend, buys, sells>>

\* Going up: watch for the reversal to sell at the highest candle.
KeepsRising(c) ==
    /\ trend = "UP" /\ c.high > LastHigh
    /\ high' = Here
    /\ UNCHANGED <<trend, low, buys, sells>>

SellsHere == Here
SellsAt == high
Reverses(c) ==
    /\ trend = "UP" /\ c.high <= LastHigh /\ c.low < LastHigh - Threshold
    /\ trend' = "DOWN"
    /\ sells' = Append(sells, SellsAt)
    /\ low' = Here
    /\ UNCHANGED <<high, buys>>

\* Going down: watch for the reversal to buy at the lowest candle.
KeepsFalling(c) ==
    /\ trend = "DOWN" /\ c.low < LastLow
    /\ low' = Here
    /\ UNCHANGED <<trend, high, buys, sells>>

AnyRise(c) == TRUE
Rises(c) == c.high > LastLow + Threshold
Recovers(c) ==
    /\ trend = "DOWN" /\ c.low >= LastLow /\ Rises(c)
    /\ trend' = "UP"
    /\ buys' = Append(buys, low)
    /\ high' = Here
    /\ UNCHANGED <<low, sells>>

\* A candle that neither extends the trend nor reverses it.
Continues(c) ==
    /\ \/ trend = "UP" /\ c.high <= LastHigh /\ c.low >= LastHigh - Threshold
       \/ trend = "DOWN" /\ c.low >= LastLow /\ ~Rises(c)
    /\ UNCHANGED <<trend, high, low, buys, sells>>

Moves(c) ==
    \/ RisesFromNone(c)
    \/ FallsFromNone(c)
    \/ StaysNone(c)
    \/ KeepsRising(c)
    \/ Reverses(c)
    \/ KeepsFalling(c)
    \/ Recovers(c)
    \/ Continues(c)

\* One turn of the constructor's loop.
NextCandle(c) ==
    /\ candles' = Append(candles, c)
    /\ FirstCandle(c) \/ (candles # << >> /\ Moves(c))

ZigZagInit ==
    /\ candles = << >>
    /\ trend = "NONE"
    /\ high = 0 /\ low = 0
    /\ buys = << >> /\ sells = << >>

-----------------------------------------------------------------------------
(* Properties.                                                             *)

\* Every variable has its type.
ZigZagTypeOK ==
    /\ candles \in Seq(Candles)
    /\ trend \in {"NONE", "UP", "DOWN"}
    /\ high \in 0..Len(candles) /\ low \in 0..Len(candles)
    /\ buys \in Seq(1..Len(candles)) /\ sells \in Seq(1..Len(candles))

\* The points are a sequence of round trips in time: a buy comes first, every
\* sale is later than its buy, and the next buy is later than the sale.
PointsAlternate ==
    /\ ZigZagTypeOK
    /\ Len(buys) = Len(sells) + (IF trend = "UP" THEN 1 ELSE 0)
    /\ \A k \in DOMAIN sells :
         /\ buys[k] < sells[k]
         /\ k + 1 \in DOMAIN buys => sells[k] < buys[k + 1]

\* Every round trip gains more than the threshold.
RoundTripsGain ==
    \A k \in DOMAIN sells : candles[sells[k]].high > candles[buys[k]].low + Threshold

=============================================================================
