--------------------------- MODULE HowlingAnalyzer --------------------------
(***************************************************************************)
(* howling_analyzer (data/analyzers/howling.cc) and the analyzers it       *)
(* combines, for one stock: from the time of day, the account and the      *)
(* signals of the market it decides to buy, to sell or to do nothing.      *)
(*                                                                         *)
(* Times are minutes of the market's day and confidences are percentages.  *)
(* The lines and bands that MACD and Bollinger compute are abstracted to   *)
(* the signals they may give.                                              *)
(***************************************************************************)
EXTENDS Account

CONSTANTS
    Confidences,     \* confidences a MACD signal may have
    ProfitMinimum,   \* --profit_minimum
    TrendSpan,       \* minutes of a five-minute window
    BandSpan,        \* minutes the Bollinger bands need
    DecisionWindow   \* capacity of _macd5_decisions

ASSUME AnalyzerAssumption ==
    /\ Confidences \subseteq Nat
    /\ {ProfitMinimum, TrendSpan, BandSpan} \subseteq Nat \ {0}
    /\ DecisionWindow \in 1..5

VARIABLE fiveMinute  \* _macd5_decisions, the last ones

Decision(act, confidence) == [act |-> act, confidence |-> confidence]
NoAction == Decision("NO_ACTION", 0)

Least(a, b) == IF a < b THEN a ELSE b

Exit == 14 * 60         \* --market_hours_exit
Eject == 15 * 60 + 30   \* EJECT_TIME

\* market_hours_analyzer: hold before ten and when the market is closed, and
\* sell with growing urgency at the end of the day.
OpensAt == 10 * 60
MarketHours(time, canSell) ==
    IF time < OpensAt \/ time >= 16 * 60
    THEN Decision("HOLD", 100)
    ELSE IF time < Exit THEN NoAction
    ELSE Decision(IF canSell THEN "SELL" ELSE "HOLD",
                  Least(100, (100 * (time - Exit)) \div (Eject - Exit)))

\* macd_crossover_analyzer: it wants two windows, and speaks only at the end
\* of one.  A crossing it cannot trade on becomes a HOLD.
MacdSignals(span, minutes, time, canBuy, canSell) ==
    IF minutes < 2 * span \/ (time % 60) % span # 0 THEN {NoAction}
    ELSE {NoAction} \cup
         {Decision(act, c) : act \in {"HOLD"} \cup (IF canBuy THEN {"BUY"} ELSE {})
                                              \cup (IF canSell THEN {"SELL"} ELSE {}),
                             c \in Confidences}

\* bollinger_analyzer.
BollingerSignals(minutes, canBuy, canSell) ==
    {NoAction} \cup
    IF minutes < BandSpan THEN {}
    ELSE (IF canSell THEN {Decision("SELL", 100)} ELSE {})
           \cup (IF canBuy THEN {Decision("BUY", 100)} ELSE {})

\* profit_analyzer: the gain of the cheapest lot at the current price.
Profit(lots, price) ==
    IF \A i \in DOMAIN lots : lots[i].price + ProfitMinimum > price
    THEN NoAction
    ELSE LET i == CHOOSE i \in DOMAIN lots : \A j \in DOMAIN lots : lots[i].price <= lots[j].price
             gain == price - lots[i].price - ProfitMinimum
         IN Decision("SELL", Least(100, (100 * gain) \div ProfitMinimum + 1))

\* get_top_decision over the buffered decisions: an action's mean confidence,
\* in 60ths as at most five are averaged, and whether it beats the others'.
Mean(decisions, act) ==
    LET mine == SelectSeq(decisions, LAMBDA d : d.act = act) IN
    IF mine = << >> THEN 0 ELSE (60 * SumSeq([i \in DOMAIN mine |-> mine[i].confidence])) \div Len(mine)
TopIs(decisions, act) ==
    \A other \in {"BUY", "SELL", "HOLD"} \ {act} : Mean(decisions, act) > Mean(decisions, other)

\* The advice of the analyzers, most important first.
Advice(hours, macd, boll, profit, canBuy, canSell) ==
    << [given |-> canSell /\ hours.act = "SELL" /\ hours.confidence > 50, act |-> "SELL"],
       [given |-> canSell /\ profit.act = "SELL" /\ profit.confidence > 80, act |-> "SELL"],
       [given |-> canSell /\ macd.act = "SELL" /\ macd.confidence > 10, act |-> "SELL"],
       [given |-> canSell /\ boll.act = "SELL" /\ macd.act \in {"SELL", "HOLD"}, act |-> "SELL"],
       [given |-> canBuy /\ boll.act = "BUY" /\ macd.confidence > 5, act |-> "BUY"],
       [given |-> canBuy /\ macd.act = "BUY" /\ macd.confidence > 10
                    /\ ~TopIs(fiveMinute', "SELL") /\ boll.act # "SELL", act |-> "BUY"] >>

Heeded(advice) ==
    LET given == SelectSeq(advice, LAMBDA a : a.given) IN
    IF Len(fiveMinute') < DecisionWindow \/ given = << >> THEN "NO_ACTION" ELSE Head(given).act

\* _macd5_decisions.push_back.
Remember(decision) ==
    IF Len(fiveMinute) < DecisionWindow THEN Append(fiveMinute, decision)
    ELSE Append(Tail(fiveMinute), decision)

\* The market's hours overrule everything when they are sure enough.
NeverOverrules(hours) == FALSE
Overrules(hours) == hours.confidence >= 98

\* analyze(), which buffers the five-minute decision and yields an action.
Analyze(time, minutes, price, lots, canBuy, act) ==
    LET canSell == lots # << >>
        hours == MarketHours(time, canSell) IN
    IF Overrules(hours)
    THEN act = hours.act /\ UNCHANGED fiveMinute
    ELSE \E trend \in MacdSignals(TrendSpan, minutes, time, canBuy, canSell),
            macd \in MacdSignals(1, minutes, time, canBuy, canSell),
            boll \in BollingerSignals(minutes, canBuy, canSell) :
         /\ fiveMinute' = Remember(trend)
         /\ act = Heeded(Advice(hours, macd, boll, Profit(lots, price), canBuy, canSell))

=============================================================================
