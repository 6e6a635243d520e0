SPECIFICATION BackTestSpec
CONSTANTS
    Confidences = {8, 20}
    ProfitMinimum = 1
    TrendSpan = 2
    BandSpan = 2
    DecisionWindow = 2
    Days = {1, 2, 3}
    MonthOf <- CalendarOf
    Behind <- BehindOf
    Times = {30, 830, 909, 1194, 1239}
    BarPrices = {1, 3}
    InitialFunds = 4
    MaxCandles = 5
INVARIANTS DaysAreWhole ReportExplainsFunds FlatOvernight
CHECK_DEADLOCK FALSE
