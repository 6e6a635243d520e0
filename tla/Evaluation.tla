----------------------------- MODULE Evaluation -----------------------------
(***************************************************************************)
(* The back test (howling_tools/evaluate.cc): a generator splits the       *)
(* stored candles of one stock into days, each candle is shown to the      *)
(* howling analyzer, one share is bought or all are sold at its close, and *)
(* the days' metrics add up to months and a total.                         *)
(*                                                                         *)
(* Days are UTC dates, the analyzer goes by the clock of New York.  Both   *)
(* meet in a candle: its date is that of its first minute, and it is shown *)
(* to the analyzer at the end of it.                                       *)
(***************************************************************************)
EXTENDS HowlingAnalyzer

CONSTANTS
    Days,          \* the days (UTC) of the history, numbered
    MonthOf,       \* the calendar month of a day
    Behind,        \* minutes that New York is behind on a day
    Times,         \* minutes of the day (UTC) at which a candle may begin
    BarPrices,     \* what a candle's low and close may be
    MaxCandles     \* bound on the candles stored

ASSUME EvaluationAssumption ==
    /\ Days \subseteq Nat /\ Times \subseteq 0..(24 * 60 - 1)
    /\ MonthOf \in [Days -> Nat]
    /\ Behind \in [Days -> {4 * 60, 5 * 60}]
    /\ BarPrices \subseteq Nat
    /\ MaxCandles \in Nat

VARIABLES
    pc,         \* run(): "reading" a day, "trading" it or "done"
    read,       \* number of rows read
    last,       \* the last row read
    gathered,   \* get_days' day_candles
    ended,      \* the rows are used up
    day,        \* the candles of the day that was yielded
    at,         \* how many of them were evaluated
    evaluated,  \* candles evaluated so far: what state.market holds
    held,       \* trading_state::positions
    cash,       \* trading_state::available_funds
    today,      \* day_metrics
    months      \* the months' metrics

backTestVars == <<fiveMinute, pc, read, last, gathered, ended, day, at, evaluated, held, cash, today, months>>

Candles == {c \in [day : Days, time : Times, low : BarPrices, close : BarPrices] : c.low <= c.close}
NoCandle == [day |-> -1, time |-> 0, low |-> 0, close |-> 0]

\* The rows are sorted by time, and no two candles begin together.
Before(a, b) == a.day < b.day \/ (a.day = b.day /\ a.time < b.time)

\* market_hour() and market_minute() when the candle has ended.
MarketTime(c) ==
    LET t == c.time + 1 - Behind[c.day] IN IF t < 0 THEN t + 24 * 60 ELSE t

NewMetrics(initial) == [initial |-> initial, available |-> 0, sales |-> 0, profitable |-> 0, delta |-> 0]

\* add_metrics.
AddMetricsDroppingDeltas(a, b) ==
    [a EXCEPT !.available = b.available, !.sales = @ + b.sales, !.profitable = @ + b.profitable]
AddMetrics(a, b) ==
    [a EXCEPT !.available = b.available, !.sales = @ + b.sales,
              !.profitable = @ + b.profitable, !.delta = @ + b.delta]

-----------------------------------------------------------------------------

\* A day begins: it may open a month, which begins with the funds at hand.
CarryOver == cash
StartDay(candles) ==
    /\ pc' = "trading"
    /\ day' = candles /\ at' = 0
    /\ today' = NewMetrics(cash)
    /\ months' =
        IF months = << >> THEN <<NewMetrics(InitialFunds)>>
        ELSE IF MonthOf[Head(candles).day] # MonthOf[Head(day).day]
        THEN Append(months, NewMetrics(CarryOver))
        ELSE months
    /\ UNCHANGED <<fiveMinute, evaluated, held, cash>>

\* get_days reads a row: it belongs to the gathered day, or that is yielded.
GatherAgain(c) == Append(gathered, c)
GatherAnew(c) == <<c>>
ReadCandle(c) ==
    /\ pc = "reading" /\ ~ended
    /\ read < MaxCandles
    /\ Before(last, c)
    /\ read' = read + 1 /\ last' = c
    /\ IF gathered # << >> /\ last.day # c.day
       THEN StartDay(gathered) /\ gathered' = GatherAnew(c)
       ELSE /\ gathered' = Append(gathered, c)
            /\ UNCHANGED <<fiveMinute, pc, day, at, evaluated, held, cash, today, months>>
    /\ UNCHANGED ended

\* After the last row the last day is yielded, if there was any.
LastDay ==
    /\ pc = "reading" /\ ~ended
    /\ ended' = TRUE /\ gathered' = << >>
    /\ IF gathered # << >> THEN StartDay(gathered)
       ELSE /\ pc' = "done"
            /\ UNCHANGED <<fiveMinute, day, at, evaluated, held, cash, today, months>>
    /\ UNCHANGED <<read, last>>

BuyShare(c) ==
    /\ held' = Append(held, [price |-> c.close, quantity |-> 1])
    /\ cash' = cash - c.close
    /\ UNCHANGED today

SellShares(c) ==
    /\ today' = [today EXCEPT
          !.sales = @ + Len(held),
          !.profitable = @ + ProfitableAt(c.close, held),
          !.delta = @ + SumSeq([i \in DOMAIN held |-> c.close - held[i].price])]
    /\ cash' = cash + c.close * Quantity(held)
    /\ held' = << >>

\* One candle: it joins the market, the analyzer decides and the back test
\* acts on it.
Minute ==
    LET c == day[at + 1] IN
    /\ pc = "trading" /\ at < Len(day)
    /\ at' = at + 1
    /\ evaluated' = evaluated + 1
    /\ \E act \in {"NO_ACTION", "HOLD", "BUY", "SELL"} :
         /\ Analyze(MarketTime(c), evaluated', c.close, held, c.low < cash, act)
         /\ \/ act = "BUY" /\ BuyShare(c)
            \/ act = "SELL" /\ held # << >> /\ SellShares(c)
            \/ act = "SELL" /\ held = << >> /\ UNCHANGED <<held, cash, today>>
            \/ act \in {"NO_ACTION", "HOLD"} /\ UNCHANGED <<held, cash, today>>
    /\ UNCHANGED <<pc, read, last, gathered, ended, day, months>>

\* The day's metrics are printed and added to the month's.
EndDay ==
    /\ pc = "trading" /\ at = Len(day)
    /\ LET closed == [today EXCEPT !.available = cash] IN
         /\ today' = closed
         /\ months' = [months EXCEPT ![Len(months)] = AddMetrics(@, closed)]
    /\ pc' = IF ended THEN "done" ELSE "reading"
    /\ UNCHANGED <<fiveMinute, read, last, gathered, ended, day, at, evaluated, held, cash>>

BackTestInit ==
    /\ fiveMinute = << >>
    /\ pc = "reading"
    /\ read = 0 /\ last = NoCandle
    /\ gathered = << >> /\ ended = FALSE
    /\ day = << >> /\ at = 0 /\ evaluated = 0
    /\ held = << >> /\ cash = InitialFunds
    /\ today = NewMetrics(InitialFunds)
    /\ months = << >>

BackTestNext ==
    \/ \E c \in Candles : ReadCandle(c)
    \/ LastDay
    \/ Minute
    \/ EndDay

BackTestSpec == BackTestInit /\ [][BackTestNext]_backTestVars

-----------------------------------------------------------------------------
(* Properties.                                                             *)

DayMetrics == [initial : Int, available : Int, sales : Nat, profitable : Nat, delta : Int]

\* Every variable has its type.
BackTestTypeOK ==
    /\ fiveMinute \in Seq([act : {"NO_ACTION", "HOLD", "BUY", "SELL"}, confidence : Nat])
    /\ Len(fiveMinute) <= DecisionWindow
    /\ pc \in {"reading", "trading", "done"}
    /\ read \in 0..MaxCandles /\ evaluated \in 0..read
    /\ last \in Candles \cup {NoCandle}
    /\ {gathered, day} \subseteq Seq(Candles)
    /\ at \in 0..Len(day)
    /\ ended \in BOOLEAN
    /\ held \in Seq(Lot) /\ cash \in Int
    /\ today \in DayMetrics /\ months \in Seq(DayMetrics)

\* The generator neither loses, repeats nor mixes candles: every row read is
\* evaluated or waits in the day at hand or the one being gathered, those are
\* each of one date and in order, and nothing is left over at the end.
DaysAreWhole ==
    /\ BackTestTypeOK
    /\ read = evaluated + (Len(day) - at) + Len(gathered)
    /\ LET ahead == SubSeq(day, at + 1, Len(day)) \o gathered IN
       \A i \in 1..(Len(ahead) - 1) : Before(ahead[i], ahead[i + 1])
    /\ \A s \in {day, gathered} : \A i, j \in DOMAIN s : s[i].day = s[j].day
    /\ pc = "done" => evaluated = read

\* The report explains the account: the initial funds plus every reported
\* delta are the funds left plus what the open lots cost, each month begins
\* with the funds the one before ended with, and the last month of a finished
\* report has what is left.
ReportExplainsFunds ==
    /\ LET reported == SumSeq([i \in DOMAIN months |-> months[i].delta])
                         + (IF pc = "trading" THEN today.delta ELSE 0) IN
       cash + Cost(held) = InitialFunds + reported
    /\ \A m \in 2..Len(months) : months[m].initial = months[m - 1].available
    /\ pc = "done" /\ months # << >> => Last(months).available = cash

\* Nothing is held overnight: once a candle of the last half hour has been
\* evaluated, nothing is held for the rest of that day, which ends when the
\* market has been closed for hours.
FlatOvernight ==
    \A i \in 1..at : MarketTime(day[i]) \in (Eject - 1)..(16 * 60 - 1) => held = << >>

-----------------------------------------------------------------------------
(* The inductive invariant behind them: besides the properties, how far    *)
(* run() and the generator are in each other's work.                       *)

InOrder(candles) == \A i, j \in DOMAIN candles : i < j => Before(candles[i], candles[j])

GeneratorInv ==
    /\ InOrder(day) /\ InOrder(gathered)
    /\ \A i \in DOMAIN day, j \in DOMAIN gathered : Before(day[i], gathered[j])
    /\ gathered # << >> => last = Last(gathered)
    /\ ~ended /\ gathered = << >> => day = << >>

PhaseInv ==
    /\ pc = "trading" => day # << >> /\ months # << >>
    /\ pc # "trading" => at = Len(day) /\ (months # << >> => Last(months).available = cash)
    /\ pc = "reading" => ~ended
    /\ ended => gathered = << >>

SharesOfOne == \A i \in DOMAIN held : held[i].quantity = 1

BackTestInv ==
    /\ DaysAreWhole /\ ReportExplainsFunds /\ FlatOvernight
    /\ GeneratorInv /\ PhaseInv /\ SharesOfOne

=============================================================================
