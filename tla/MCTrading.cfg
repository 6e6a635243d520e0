SPECIFICATION Spec
CONSTANTS
    Symbols = {s1, s2}
    Prices = {1, 3}
    InitialFunds = 20
    UsePct = 25
    BuyPct = 20
    Holdings <- MCHoldings
    MaxInt = 3
    MaxTrades = 3
SYMMETRY Symmetry
INVARIANTS LedgerReplays OutlayCapped GainsAreReported
CHECK_DEADLOCK FALSE
