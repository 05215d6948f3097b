------------------------------ MODULE Backtest ------------------------------
(***************************************************************************)
(* What a backtest computes: the accounts of the simulated executor        *)
(* (internal/executor/simulated.go), the sizes its sizer gives it after    *)
(* the trades so far, and the summary the report makes of the fills        *)
(* (internal/backtest/report.go).  SimTrading has the goroutines around    *)
(* the executor and leaves the size open; here signals come one by one,    *)
(* those the risk manager admits.                                          *)
(*                                                                         *)
(* Prices are in parts, One of them one USDC.                              *)
(***************************************************************************)
EXTENDS Sizing, Sequences, FiniteSets, Functions

CONSTANTS Strategies, Markets,
          StartingBalance,
          One, Prices,
          FeePercent,  \* fee_rate_bps
          MaxFills     \* bound: fills of a backtest

ASSUME BacktestConfig ==
    /\ IsFiniteSet(Strategies)
    /\ IsFiniteSet(Markets)
    /\ StartingBalance \in Nat
    /\ One \in Nat \ {0}
    /\ Prices \subseteq 1 .. One - 1
    /\ FeePercent \in Nat
    /\ MaxFills \in Nat

VARIABLES balance,
          positions, \* key -> the open position, or Flat
          history,   \* strategy -> what the sizer knows of its trades
          fills      \* the fills so far

backtestVars == <<balance, positions, history, fills>>

Keys == Strategies \X Markets
Strategy(k) == k[1]
Flat == [size |-> 0]
IsOpen(k) == positions[k] # Flat
FeeOf(size) == (size * FeePercent) \div 100

BacktestInit ==
    /\ balance = StartingBalance
    /\ positions = [k \in Keys |-> Flat]
    /\ history = [s \in Strategies |-> NoTrades]
    /\ fills = <<>>

(* handleSignal and simulateEntry.  A fill's price is the price of the     *)
(* token bought.                                                           *)
Enter(k, side, price) ==
    LET size == Size(history[Strategy(k)], balance)
        fee == FeeOf(size)
    IN  /\ Len(fills) < MaxFills
        /\ ~IsOpen(k)
        /\ balance' = balance - size - fee
        /\ positions' = [positions EXCEPT ![k] =
                            [side |-> side, price |-> price, size |-> size, fee |-> fee]]
        /\ fills' = Append(fills, [key |-> k, price |-> price, size |-> size, fee |-> fee,
                                   pnl |-> 0])
        /\ UNCHANGED history

(* simulateClose: contracts bought, at the close price of their side.  The *)
(* fill's price is that of the YES token.                                  *)
Close(k, price) ==
    LET pos == positions[k]
        worth == IF pos.side = "BuyYes" THEN price ELSE One - price
        proceeds == (pos.size * worth) \div pos.price
        fee == FeeOf(pos.size)
        pnl == proceeds - pos.size - pos.fee - fee
    IN  /\ Len(fills) < MaxFills
        /\ IsOpen(k)
        /\ balance' = balance + proceeds - fee
        /\ positions' = [positions EXCEPT ![k] = Flat]
        /\ history' = [history EXCEPT ![Strategy(k)] = RecordTrade(@, pnl)]
        /\ fills' = Append(fills, [key |-> k, price |-> price, size |-> pos.size, fee |-> fee,
                                   pnl |-> pnl])

BacktestNext == \E k \in Keys, price \in Prices :
                    \/ \E side \in {"BuyYes", "BuyNo"} : Enter(k, side, price)
                    \/ Close(k, price)

BacktestSpec == BacktestInit /\ [][BacktestNext]_backtestVars
----------------------------------------------------------------------------
(* computeSummary.  A round trip, from its entry and its close.            *)
Trade(entry, f) ==
    LET fees == entry.fee + f.fee
    IN  [strategy |-> Strategy(f.key), fees |-> fees,
         pnl |-> ((f.price - entry.price) * entry.size) \div One - fees]

(* Mutant: the entry stays open after its close.                           *)
PairWithoutDelete(pairs, f) ==
    IF pairs.open[f.key] = Flat
    THEN [pairs EXCEPT !.open[f.key] = f]
    ELSE [pairs EXCEPT !.trades = Append(@, Trade(pairs.open[f.key], f))]

(* Every two fills of a key are one round trip.                            *)
PairFill(pairs, f) ==
    IF pairs.open[f.key] = Flat
    THEN [pairs EXCEPT !.open[f.key] = f]
    ELSE [pairs EXCEPT !.open[f.key] = Flat,
                       !.trades = Append(@, Trade(pairs.open[f.key], f))]

NoPairs == [open |-> [k \in Keys |-> Flat], trades |-> <<>>]

Pairing(fs) ==
    LET after[n \in 0 .. Len(fs)] ==
            IF n = 0 THEN NoPairs ELSE PairFill(after[n - 1], fs[n])
    IN  after[Len(fs)]

Trades(fs) == Pairing(fs).trades

Larger(x, y) == IF x > y THEN x ELSE y

(* Mutant: the peak starts at zero.                                        *)
StartAtZero == [balance |-> StartingBalance, peak |-> 0, deepest |-> 0]

(* The running balance, its peak, and the deepest fall from a peak: before *)
(* the first trade, after one trade more, and in the end.                  *)
Start == [balance |-> StartingBalance, peak |-> StartingBalance, deepest |-> 0]

Follow(acc, t) ==
    LET now == acc.balance + t.pnl
        peak == Larger(acc.peak, now)
    IN  [balance |-> now, peak |-> peak, deepest |-> Larger(acc.deepest, peak - now)]

MaxDrawdown(trades) ==
    LET after[n \in 0 .. Len(trades)] ==
            IF n = 0 THEN Start ELSE Follow(after[n - 1], trades[n])
    IN  after[Len(trades)].deepest

(* terms[1] + ... + terms[n].                                              *)
RunningTotal(terms, n) ==
    LET total[i \in 0 .. n] == IF i = 0 THEN 0 ELSE total[i - 1] + terms[i]
    IN  total[n]

TotalOf(terms) == RunningTotal(terms, Len(terms))
PnLs(seq) == [i \in 1 .. Len(seq) |-> seq[i].pnl]
Wins(trades) == {i \in DOMAIN trades : trades[i].pnl > 0}
TradesOf(trades, s) == {i \in DOMAIN trades : trades[i].strategy = s}

(* The summary of a backtest that ends now.                                *)
ComputeSummary ==
    LET trades == Trades(fills)
    IN  [totalTrades |-> Len(trades),
         wins |-> Cardinality(Wins(trades)),
         grossPnL |-> TotalOf(PnLs(trades)),
         totalFees |-> TotalOf([i \in 1 .. Len(trades) |-> trades[i].fees]),
         netPnL |-> balance - StartingBalance,
         maxDrawdown |-> MaxDrawdown(trades),
         perStrategy |-> [s \in Strategies |-> Cardinality(TradesOf(trades, s))]]
----------------------------------------------------------------------------
Profit(s) ==
    RunningTotal([i \in DOMAIN fills |->
                     IF Strategy(fills[i].key) = s THEN fills[i].pnl ELSE 0], Len(fills))

(* Once a strategy has its sample of trades and a win among them, it bets  *)
(* more than the minimum only while its trades, fees included, have made   *)
(* money in all, and never more than kelly_fraction of the balance.        *)
BetsFollowTheEdge ==
    \A s \in Strategies :
        LET bet == Size(history[s], balance)
        IN  ~UsesFixed(history[s]) /\ bet > MinOrder =>
                Profit(s) > 0 /\ bet * 100 <= KellyPercent * balance

Open == {k \in Keys : IsOpen(k)}
OpenOf(s) == {k \in Open : Strategy(k) = s}
FillsOf(s) == {i \in DOMAIN fills : Strategy(fills[i].key) = s}

OpenFees == [k \in Open |-> positions[k].fee]
OpenCosts == [k \in Open |-> positions[k].size + positions[k].fee]
FeesOfOpen == SumFunctionOnSet(OpenFees, Open)
CostOfOpen == SumFunctionOnSet(OpenCosts, Open)

(* The summary describes the fills.  The positions still open aside, it    *)
(* has a trade for every close, of the strategy that closed, all fees, and *)
(* a net P&L that is the sum of what the strategies were told.             *)
SummaryAddsUp ==
    LET s == ComputeSummary
    IN  /\ s.totalTrades = (Len(fills) - Cardinality(Open)) \div 2
        /\ \A strategy \in Strategies :
              2 * s.perStrategy[strategy] =
                  Cardinality(FillsOf(strategy)) - Cardinality(OpenOf(strategy))
        /\ s.totalFees = TotalOf([i \in 1 .. Len(fills) |-> fills[i].fee]) - FeesOfOpen
        /\ s.netPnL = TotalOf(PnLs(fills)) - CostOfOpen

(* The maximal drawdown is the largest fall of the running balance between *)
(* any two moments, the start included.                                    *)
DrawdownIsLargestFall ==
    LET trades == Trades(fills)
        after == [n \in 0 .. Len(trades) |-> StartingBalance + RunningTotal(PnLs(trades), n)]
        falls == {after[p[1]] - after[p[2]] :
                     p \in {q \in (0 .. Len(trades)) \X (0 .. Len(trades)) : q[1] <= q[2]}}
    IN  /\ MaxDrawdown(trades) \in falls
        /\ \A fall \in falls : fall <= MaxDrawdown(trades)

(* Not checked, and not true: the trades the report calls wins are the     *)
(* closes with a profit.                                                   *)
WinsAreProfits ==
    ComputeSummary.wins = Cardinality({i \in DOMAIN fills : fills[i].pnl > 0})
=============================================================================
