------------------------------ MODULE Trading ------------------------------
(***************************************************************************)
(* The account of a trading session (trading/trading_state.h) in the hands *)
(* of the executor (trading/executor.cc), which sizes orders from a cached *)
(* quote, and of howling_tools/execute.cc, which stores a record of each   *)
(* trade while another thread updates the quotes.                          *)
(*                                                                         *)
(* Money is an integer, and the flags are percentages, so a comparison is  *)
(* scaled by 100 instead of rounded.  Lots are int64 and do not overflow;  *)
(* the executor sizes and sums orders in int, which does.  The analyzer    *)
(* decides anything.                                                       *)
(***************************************************************************)
EXTENDS Account, FiniteSetsExt

CONSTANTS
    Symbols,       \* --stocks
    Prices,        \* prices a share may have
    UsePct,        \* --max_fund_use, in percent
    BuyPct,        \* --max_individual_buy_size, in percent
    Holdings,      \* the lots an account may have in a stock before a session
    MaxInt,        \* the largest int
    MaxTrades      \* bound on the trades of a session: it ends with the last one

ASSUME TradingAssumption ==
    /\ IsFiniteSet(Symbols)
    /\ Prices \subseteq Nat \ {0}
    /\ UsePct \in 0..100
    /\ BuyPct \in 0..100
    /\ Holdings \subseteq Seq(Lot)
    /\ MaxInt \in Nat
    /\ MaxTrades \in Nat

VARIABLES
    loaded,     \* the lots the account had when the session began
    market,     \* executor::_market, the cached quotes
    positions,  \* trading_state::positions, lots in the order bought
    funds,      \* trading_state::available_funds
    pending,    \* trades made and not yet handed to save_trade
    trades,     \* the rows of table trades
    lost,       \* the trades whose save_trade failed, unseen in its future
    metrics,    \* the session's metrics
    traded      \* trades so far, for MaxTrades

vars == <<loaded, market, positions, funds, pending, trades, lost, metrics, traded>>

NoQuote == [bid |-> -1, ask |-> -1]
Price == Prices \cup {0}
Quote == [bid : Price, ask : Price]
Trade == [symbol : Symbols, action : {"BUY", "SELL"}, price : Price, quantity : Int]
Metrics == [sales : Nat, profitable : Nat]

\* total_positions_cost, over a map that has its stocks in some order.
Stocks == SetToSeq(Symbols)
TotalCost(holdings) == SumSeq([i \in DOMAIN Stocks |-> Cost(holdings[Stocks[i]])])

-----------------------------------------------------------------------------
(* The executor.                                                           *)

\* get_buy_quantity's limit on the cost of an order, times 100.
TargetFromBalance ==
    Min({funds * BuyPct, InitialFunds * UsePct})
PurchaseTarget ==
    LET utilized == Max({0, InitialFunds - funds}) IN
    Min({funds * BuyPct, InitialFunds * UsePct - 100 * utilized})

\* The quantities an order at a price may have: what the target pays for.  A
\* quotient that no int holds, as that of price 0, is converted to one all the
\* same, which is undefined: x86 yields the smallest int, so that nothing is
\* bought, and ARM the largest.
BuyQuantities(price) ==
    IF PurchaseTarget <= 0 THEN {0}
    ELSE IF price = 0 \/ PurchaseTarget \div (100 * price) > MaxInt THEN {0, MaxInt}
    ELSE {PurchaseTarget \div (100 * price)}

\* The lookup in the market cache that buy and sell begin with.
HasQuote(s) == market[s] # NoQuote

MayTrade == pending = << >> /\ traded < MaxTrades

Record(s, action, price, quantity) ==
    /\ pending' = <<[symbol |-> s, action |-> action, price |-> price, quantity |-> quantity]>>
    /\ traded' = traded + 1

\* executor::buy, with the cached ask.
Buy(s) ==
    /\ MayTrade
    /\ HasQuote(s)
    /\ \E n \in BuyQuantities(market[s].ask) :
         /\ n # 0
         /\ positions' = [positions EXCEPT ![s] = Append(@, [price |-> market[s].ask, quantity |-> n])]
         /\ funds' = funds - market[s].ask * n
         /\ Record(s, "BUY", market[s].ask, n)
    /\ UNCHANGED <<loaded, market, trades, lost, metrics>>

\* What is left of a symbol's lots once they are sold.
KeepLots(lots) == lots
NoLots(lots) == << >>

\* sell_quantity is an int to which int64 quantities are added: it wraps.
IntRange == 2 * (MaxInt + 1)
ToInt(n) == ((n + MaxInt + 1) % IntRange) - (MaxInt + 1)

\* executor::sell, with the cached bid.  The sale of each lot is counted even
\* if their sum is 0 and nothing is sold; if it wrapped, all lots go all the
\* same, and a negative sale takes money.
Sell(s) ==
    LET lots == positions[s]
        bid == market[s].bid
        n == ToInt(Quantity(lots)) IN
    /\ MayTrade
    /\ HasQuote(s) /\ lots # << >>
    /\ metrics' = [metrics EXCEPT !.sales = @ + Len(lots),
                                  !.profitable = @ + ProfitableAt(bid, lots)]
    /\ IF n = 0
       THEN /\ traded' = traded + 1
            /\ UNCHANGED <<positions, funds, pending>>
       ELSE /\ positions' = [positions EXCEPT ![s] = NoLots(@)]
            /\ funds' = funds + bid * n
            /\ Record(s, "SELL", bid, n)
    /\ UNCHANGED <<loaded, market, trades, lost>>

\* save_trade on a pooled connection; a failure stays in its future.
SaveTrade ==
    /\ pending # << >>
    /\ \/ trades' = trades \o pending /\ UNCHANGED lost
       \/ lost' = lost \o pending /\ UNCHANGED trades
    /\ pending' = << >>
    /\ UNCHANGED <<loaded, market, positions, funds, metrics, traded>>

\* update_market, run by the market thread at any time.  A message carries a
\* side of the quote if it has lots for it; a price it leaves out reads as 0,
\* and so does a side that no message has carried yet.
UpdateMarket(s) ==
    /\ traded < MaxTrades
    /\ \E bid, ask \in Price :
         market' = [market EXCEPT ![s] = [bid |-> bid, ask |-> ask]]
    /\ UNCHANGED <<loaded, positions, funds, pending, trades, lost, metrics, traded>>

-----------------------------------------------------------------------------

\* get_account_positions: lots the account already has, whatever they cost.
Loaded == [Symbols -> Holdings]

Init ==
    /\ market = [s \in Symbols |-> NoQuote]
    /\ loaded \in Loaded
    /\ positions = loaded
    /\ funds = InitialFunds
    /\ pending = << >>
    /\ trades = << >>
    /\ lost = << >>
    /\ metrics = [sales |-> 0, profitable |-> 0]
    /\ traded = 0

Next ==
    \/ \E s \in Symbols :
         \/ Buy(s)
         \/ Sell(s)
         \/ UpdateMarket(s)
    \/ SaveTrade

Spec == Init /\ [][Next]_vars

-----------------------------------------------------------------------------
(* Properties.                                                             *)

\* Every variable has its type.
TypeOK ==
    /\ market \in [Symbols -> Quote \cup {NoQuote}]
    /\ {loaded, positions} \subseteq [Symbols -> Seq(Lot)]
    /\ funds \in Int
    /\ pending \in Seq(Trade)
    /\ trades \in Seq(Trade)
    /\ lost \in Seq(Trade)
    /\ metrics \in Metrics
    /\ traded \in 0..MaxTrades

\* The cash a trade moves, the shares of a stock it moves, and the cash that
\* it takes although it is a sale.
Cash(t) == IF t.action = "SELL" THEN t.price * t.quantity ELSE - t.price * t.quantity
Shares(t, s) ==
    IF t.symbol # s THEN 0 ELSE IF t.action = "BUY" THEN t.quantity ELSE - t.quantity
Taken(t) == IF t.action = "SELL" /\ t.quantity < 0 THEN - t.price * t.quantity ELSE 0

CashOf(ledger) == SumSeq([i \in DOMAIN ledger |-> Cash(ledger[i])])
SharesOf(ledger, s) == SumSeq([i \in DOMAIN ledger |-> Shares(ledger[i], s)])
TakenBy(ledger) == SumSeq([i \in DOMAIN ledger |-> Taken(ledger[i])])

\* The trades table, with the trade on its way to it, explains the account but
\* for exactly those trades whose saves failed, each counted once: replayed on
\* the initial funds they give the funds, to the cent and whatever sell's int
\* did, and on the loaded lots the shares held, up to what that int can hide,
\* a multiple of its range.
LedgerReplays ==
    /\ TypeOK
    /\ funds = InitialFunds + (CashOf(trades) + CashOf(lost) + CashOf(pending))
    /\ \A s \in Symbols :
         LET moved == SharesOf(trades, s) + SharesOf(lost, s) + SharesOf(pending, s) IN
         (Quantity(positions[s]) - Quantity(loaded[s]) - moved) % IntRange = 0

\* Over any sequence of buys and sells at any quotes, the money a session has
\* out stays within max_fund_use of the initial funds, but for what sales whose
\* quantity wrapped below zero took; without such a sale the account is never
\* overdrawn.  Money out is net: gains may be used on top of the flag, whose
\* help text (executor.cc:16) says "at any one point".
OutlayCapped ==
    100 * (InitialFunds - funds - (TakenBy(trades) + TakenBy(lost) + TakenBy(pending)))
        <= UsePct * InitialFunds

\* No gain goes unreported: if funds and lots at cost are worth more than at
\* the start of the session, a profitable sale was counted.
GainsAreReported ==
    funds + TotalCost(positions) > InitialFunds + TotalCost(loaded)
        => metrics.profitable > 0

=============================================================================
