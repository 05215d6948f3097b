--------------------------- MODULE BacktestProofs ---------------------------
(***************************************************************************)
(* The bets and the summary of a backtest, for every size configuration, number of         *)
(* strategies and markets, and history of prices.                          *)
(***************************************************************************)
EXTENDS Backtest, Sums

USE SizingConfig, BacktestConfig DEF SizingConfig, BacktestConfig
----------------------------------------------------------------------------
(* Running totals.                                                         *)
Totals(total, terms, n) ==
    total = [i \in 0 .. n |-> IF i = 0 THEN 0 ELSE total[i - 1] + terms[i]]

LEMMA NoLeast ==
    ASSUME NEW N \in SUBSET Nat, \A n \in N : \E m \in N : m < n
    PROVE  N = {}
<1>1. SUFFICES ASSUME N # {} PROVE FALSE
  OBVIOUS
<1>2. PICK m \in N : \A k \in N : <<k, m>> \notin OpToRel(<, Nat)
  BY <1>1, WFMin, NatLessThanWellFounded, Zenon
<1> QED
  BY <1>2, Zenon DEF OpToRel

LEMMA TotalsAgree ==
    ASSUME NEW n \in Nat, NEW m \in 0 .. n, NEW f, NEW g, NEW e, NEW h,
           Totals(f, e, n), Totals(g, h, m), \A i \in 1 .. m : e[i] = h[i]
    PROVE  f[m] = g[m]
<1> DEFINE Differ == {i \in 0 .. m : f[i] # g[i]}
<1>1. ASSUME NEW i \in Differ PROVE \E j \in Differ : j < i
  <2>1. i # 0
    BY DEF Totals
  <2>2. f[i] = f[i - 1] + e[i] /\ g[i] = g[i - 1] + h[i] /\ i - 1 \in 0 .. m
    BY <2>1 DEF Totals
  <2>3. f[i - 1] # g[i - 1]
    BY <2>1, <2>2
  <2> QED
    BY <2>2, <2>3
<1>2. Differ \in SUBSET Nat
  OBVIOUS
<1>3. Differ = {}
  <2> HIDE DEF Differ
  <2> QED
    BY <1>1, <1>2, NoLeast
<1> QED
  BY <1>3

LEMMA TotalsExist ==
    ASSUME NEW terms, NEW n \in Nat
    PROVE  \E total : Totals(total, terms, n)
<1> DEFINE Without == {m \in Nat : ~ \E total : Totals(total, terms, m)}
<1>1. ASSUME NEW m \in Without PROVE \E j \in Without : j < m
  <2>1. m # 0
    <3>1. Totals([i \in 0 .. 0 |-> 0], terms, 0)
      BY DEF Totals
    <3> QED
      BY <3>1
  <2>2. SUFFICES ASSUME NEW g, Totals(g, terms, m - 1) PROVE FALSE
    BY <2>1
  <2> DEFINE h == [i \in 0 .. m |-> IF i = m THEN g[m - 1] + terms[m] ELSE g[i]]
  <2>3. \A i \in 0 .. m : h[i] = IF i = 0 THEN 0 ELSE h[i - 1] + terms[i]
    <3> TAKE i \in 0 .. m
    <3>1. CASE i = m
      BY <2>1, <3>1
    <3>2. CASE i # m
      <4>1. i \in 0 .. m - 1 /\ h[i] = g[i] /\ (i # 0 => h[i - 1] = g[i - 1])
        BY <2>1, <3>2
      <4>2. g[i] = IF i = 0 THEN 0 ELSE g[i - 1] + terms[i]
        BY <2>2, <4>1 DEF Totals
      <4> QED
        BY <4>1, <4>2
    <3> QED
      BY <3>1, <3>2
  <2>4. h = [i \in 0 .. m |-> h[i]]
    OBVIOUS
  <2>5. Totals(h, terms, m)
    <3> HIDE DEF h
    <3> QED
      BY <2>3, <2>4 DEF Totals
  <2> QED
    BY <2>5
<1>2. Without \in SUBSET Nat
  OBVIOUS
<1>3. Without = {}
  <2> HIDE DEF Without
  <2> QED
    BY <1>1, <1>2, NoLeast
<1> QED
  BY <1>3

LEMMA TotalIsTotal ==
    ASSUME NEW terms, NEW n \in Nat
    PROVE  \E total : Totals(total, terms, n) /\ RunningTotal(terms, n) = total[n]
<1> DEFINE total == CHOOSE t : Totals(t, terms, n)
<1>1. Totals(total, terms, n)
  BY TotalsExist
<1>2. RunningTotal(terms, n) = total[n]
  BY DEF RunningTotal, Totals
<1> QED
  BY <1>1, <1>2

(* The total of nothing, and of one term more.                             *)
LEMMA TotalOfNone == ASSUME NEW terms PROVE RunningTotal(terms, 0) = 0
BY TotalIsTotal DEF Totals

LEMMA TotalOfMore ==
    ASSUME NEW n \in Nat, NEW terms, NEW more, \A i \in 1 .. n : more[i] = terms[i]
    PROVE  RunningTotal(more, n + 1) = RunningTotal(terms, n) + more[n + 1]
<1>1. PICK f : Totals(f, more, n + 1) /\ RunningTotal(more, n + 1) = f[n + 1]
  BY TotalIsTotal
<1>2. PICK g : Totals(g, terms, n) /\ RunningTotal(terms, n) = g[n]
  BY TotalIsTotal
<1>3. f[n] = g[n]
  BY <1>1, <1>2, TotalsAgree
<1>4. f[n + 1] = f[n] + more[n + 1]
  BY <1>1 DEF Totals
<1> QED
  BY <1>1, <1>2, <1>3, <1>4
----------------------------------------------------------------------------
(* The sizers.                                                             *)
LEMMA Quotients ==
    ASSUME NEW a \in Int, NEW b \in Nat \ {0}
    PROVE  a \div b \in Int /\ (a \div b) * b <= a
OBVIOUS

LEMMA Products ==
    ASSUME NEW a \in Nat \ {0}, NEW b \in Nat \ {0}
    PROVE  a * b \in Nat \ {0}
OBVIOUS

LEMMA NatProducts ==
    ASSUME NEW a \in Nat, NEW b \in Nat
    PROVE  a * b \in Nat
OBVIOUS

LEMMA OddsArePositive ==
    ASSUME NEW h \in History, ~UsesFixed(h)
    PROVE  /\ h.wins \in Nat \ {0} /\ h.won \in Nat \ {0} /\ h.losses \in Nat /\ h.lost \in Nat
           /\ Odds(h).n \in Nat \ {0} /\ Odds(h).d \in Nat \ {0}
<1>1. h.wins \in Nat \ {0} /\ h.won \in Nat \ {0} /\ h.losses \in Nat /\ h.lost \in Nat
  BY DEF UsesFixed, History
<1>2. CASE h.losses > 0 /\ h.lost > 0
  <2>1. h.won * h.losses \in Nat \ {0} /\ h.wins * h.lost \in Nat \ {0}
    BY <1>1, <1>2, Products
  <2> QED
    BY <1>1, <1>2, <2>1 DEF Odds
<1>3. CASE ~(h.losses > 0 /\ h.lost > 0)
  <2>1. h.wins * Unit \in Nat \ {0}
    BY <1>1, Products
  <2> QED
    BY <1>1, <1>3, <2>1 DEF Odds
<1> QED
  BY <1>1, <1>2, <1>3

LEMMA KellyTypes ==
    ASSUME NEW h \in History, ~UsesFixed(h)
    PROVE  /\ Kelly(h).n \in Int /\ Kelly(h).d \in Nat \ {0}
           /\ Kelly(h).n <= Kelly(h).d
<1>1. /\ h.wins \in Nat \ {0} /\ h.losses \in Nat
      /\ Odds(h).n \in Nat \ {0} /\ Odds(h).d \in Nat \ {0}
  BY OddsArePositive
<1> DEFINE a == Odds(h).n
           b == Odds(h).d
<1>2. /\ Kelly(h).n = h.wins * a - h.losses * b
      /\ Kelly(h).d = (h.wins + h.losses) * a
  BY DEF Kelly
<1> HIDE DEF a, b
<1>3. a \in Nat \ {0} /\ b \in Nat \ {0}
  BY <1>1 DEF a, b
<1>4. h.wins * a \in Nat /\ h.losses * b \in Nat /\ h.losses * a \in Nat
  BY <1>1, <1>3, NatProducts
<1>5. h.wins + h.losses \in Nat \ {0}
  BY <1>1
<1>6. (h.wins + h.losses) * a \in Nat \ {0}
  BY <1>3, <1>5, Products
<1>7. (h.wins + h.losses) * a = h.wins * a + h.losses * a
  BY <1>1, <1>3
<1> QED
  BY <1>2, <1>4, <1>6, <1>7

(* A size lies between the smallest and the largest order.                 *)
LEMMA SizeBounds ==
    ASSUME NEW h \in History, NEW b \in Int
    PROVE  Size(h, b) \in MinOrder .. MaxOrder
<1>1. ASSUME NEW x \in Int PROVE Clamp(x) \in MinOrder .. MaxOrder
  BY DEF Clamp
<1>2. CASE UsesFixed(h)
  <2>1. b * FixedPercent \in Int
    OBVIOUS
  <2>2. (b * FixedPercent) \div 100 \in Int
    BY <2>1, Quotients
  <2> QED
    BY <1>1, <1>2, <2>2 DEF Size, FixedSize
<1>3. CASE ~UsesFixed(h) /\ Kelly(h).n <= 0
  BY <1>3 DEF Size
<1>4. CASE ~UsesFixed(h) /\ ~(Kelly(h).n <= 0)
  <2>1. Kelly(h).n \in Int /\ Kelly(h).d \in Nat \ {0}
    BY <1>4, KellyTypes
  <2>2. b * Kelly(h).n * KellyPercent \in Int /\ Kelly(h).d * 100 \in Nat \ {0}
    BY <2>1
  <2>3. (b * Kelly(h).n * KellyPercent) \div (Kelly(h).d * 100) \in Int
    BY <2>2, Quotients
  <2> QED
    BY <1>1, <1>4, <2>3 DEF Size
<1> QED
  BY <1>2, <1>3, <1>4

(* A product with a factor that is at most 0 is no larger than 0, and a    *)
(* common factor can be taken out of a comparison.                         *)
LEMMA Cancel ==
    ASSUME NEW a \in Int, NEW b \in Int, NEW c \in Nat \ {0}
    PROVE  /\ a * c <= b * c => a <= b
           /\ a * c < b * c => a < b
OBVIOUS

(* Strategies that have lost more than they won bet the minimum.           *)
LEMMA EdgeIsProfit ==
    ASSUME NEW h \in History, ~UsesFixed(h), Kelly(h).n > 0, h.losses = 0 => h.lost = 0
    PROVE  h.won > h.lost
<1>1. /\ h.wins \in Nat \ {0} /\ h.won \in Nat \ {0} /\ h.losses \in Nat /\ h.lost \in Nat
  BY OddsArePositive
<1>2. CASE h.losses > 0 /\ h.lost > 0
  <2>1. Kelly(h).n = h.wins * (h.won * h.losses) - h.losses * (h.wins * h.lost)
    BY <1>2 DEF Kelly, Odds
  <2> DEFINE c == h.wins * h.losses
  <2>2. c \in Nat \ {0}
    BY <1>1, <1>2, Products
  <2>3. h.wins * (h.won * h.losses) = h.won * c /\ h.losses * (h.wins * h.lost) = h.lost * c
    BY <1>1
  <2>4. h.won * c \in Nat /\ h.lost * c \in Nat
    BY <1>1, <2>2, NatProducts
  <2> HIDE DEF c
  <2>5. h.lost * c < h.won * c
    BY <2>1, <2>3, <2>4
  <2> QED
    BY <1>1, <2>2, <2>5, Cancel
<1>3. CASE ~(h.losses > 0 /\ h.lost > 0)
  BY <1>1, <1>3
<1> QED
  BY <1>2, <1>3

(* A bet above the minimum is at most the Kelly fraction of the balance.   *)
LEMMA BetIsFraction ==
    ASSUME NEW h \in History, NEW b \in Int, ~UsesFixed(h), Size(h, b) > MinOrder
    PROVE  Kelly(h).n > 0 /\ Size(h, b) * 100 <= KellyPercent * b
<1> DEFINE n == Kelly(h).n
           d == Kelly(h).d
           bet == Size(h, b)
           x == (b * n * KellyPercent) \div (d * 100)
<1>1. n \in Int /\ d \in Nat \ {0} /\ n <= d
  BY KellyTypes
<1>2. n > 0
  BY <1>1 DEF Size
<1>3. bet = Clamp(x)
  BY <1>1, <1>2 DEF Size
<1> HIDE DEF n, d
<1>4. /\ b * n * KellyPercent \in Int
      /\ d * 100 \in Nat \ {0}
  BY <1>1
<1>5. x \in Int /\ x * (d * 100) <= b * n * KellyPercent
  BY <1>4, Quotients
<1>6. bet \in Nat /\ bet > MinOrder
  BY SizeBounds
<1> HIDE DEF x, bet
<1>7. bet <= x
  BY <1>3, <1>5, <1>6 DEF Clamp
<1>8. b > 0
  <2>1. SUFFICES ASSUME b <= 0 PROVE FALSE
    OBVIOUS
  <2>2. n * KellyPercent \in Nat
    BY <1>1, <1>2, NatProducts
  <2>3. b * (n * KellyPercent) <= 0
    BY <2>1, <2>2
  <2>4. b * n * KellyPercent = b * (n * KellyPercent)
    BY <1>1
  <2>5. x * (d * 100) \in Nat \ {0}
    <3>1. x \in Nat \ {0}
      BY <1>5, <1>6, <1>7
    <3> QED
      BY <1>4, <3>1, Products
  <2> DEFINE p == x * (d * 100)
             q == b * n * KellyPercent
  <2>6. p \in Nat \ {0} /\ q \in Int /\ p <= q /\ q <= 0
    BY <1>4, <1>5, <2>3, <2>4, <2>5
  <2> HIDE DEF p, q
  <2> QED
    BY <2>6
<1>9. b * n * KellyPercent <= (b * KellyPercent) * d
  <2> DEFINE c == b * KellyPercent
  <2>1. c \in Nat
    BY <1>8, NatProducts
  <2>2. b * n * KellyPercent = c * n
    BY <1>1
  <2> HIDE DEF c
  <2>3. c * n <= c * d
    BY <1>1, <2>1
  <2> QED
    BY <2>2, <2>3 DEF c
<1>10. (bet * 100) * d <= (KellyPercent * b) * d
  <2>1. (bet * 100) * d = bet * (d * 100)
    BY <1>1, <1>6
  <2>2. bet * (d * 100) <= x * (d * 100)
    BY <1>4, <1>5, <1>6, <1>7
  <2>3. bet * (d * 100) \in Int /\ x * (d * 100) \in Int /\ (b * KellyPercent) * d \in Int
    BY <1>1, <1>4, <1>5, <1>6
  <2>4. (b * KellyPercent) * d = (KellyPercent * b) * d
    BY <1>1
  <2> QED
    BY <1>4, <1>5, <1>9, <2>1, <2>2, <2>3, <2>4
<1>11. bet * 100 <= KellyPercent * b
  BY <1>1, <1>6, <1>10, Cancel
<1> QED
  BY <1>2, <1>11 DEF n, bet
----------------------------------------------------------------------------
(* Positions, fills and histories have their types; and what the sizer has *)
(* noted of a strategy is what its fills say.                              *)
Stake == [side : {"BuyYes", "BuyNo"}, price : Nat \ {0}, size : Nat \ {0}, fee : Int]
Fill == [key : Keys, price : Int, size : Nat \ {0}, fee : Int, pnl : Int]

PnLOf(s) == [i \in DOMAIN fills |-> IF Strategy(fills[i].key) = s THEN fills[i].pnl ELSE 0]

Noted(s) ==
    /\ history[s].losses = 0 => history[s].lost = 0
    /\ history[s].won - history[s].lost = Profit(s)

BetInv ==
    /\ balance \in Int
    /\ positions \in [Keys -> {Flat} \cup Stake]
    /\ history \in [Strategies -> History]
    /\ fills \in Seq(Fill)
    /\ \A s \in Strategies : Noted(s)

LEMMA KeyOf == ASSUME NEW k \in Keys PROVE Strategy(k) \in Strategies
BY DEF Keys, Strategy

LEMMA FeesAreInt == ASSUME NEW size \in Int PROVE FeeOf(size) \in Int
<1>1. size * FeePercent \in Int
  OBVIOUS
<1> QED
  BY <1>1, Quotients DEF FeeOf

(* A trade moves the history by its profit.                                *)
LEMMA RecordTradeAdds ==
    ASSUME NEW h \in History, NEW pnl \in Int
    PROVE  LET new == RecordTrade(h, pnl)
           IN  /\ new \in History
               /\ new.won - new.lost = h.won - h.lost + pnl
               /\ (h.losses = 0 => h.lost = 0) => (new.losses = 0 => new.lost = 0)
<1>1. /\ h.wins \in Nat /\ h.losses \in Nat /\ h.won \in Nat /\ h.lost \in Nat
  BY DEF History
<1>2. CASE pnl > 0
  <2>0. Abs(pnl) = pnl
    BY <1>2 DEF Abs
  <2>1. RecordTrade(h, pnl) = [h EXCEPT !.wins = h.wins + 1, !.won = h.won + pnl]
    BY <1>2, <2>0 DEF RecordTrade
  <2>2. h.wins + 1 \in Nat /\ h.won + pnl \in Nat
    BY <1>1, <1>2
  <2>3. /\ RecordTrade(h, pnl) \in History
        /\ RecordTrade(h, pnl).won = h.won + pnl /\ RecordTrade(h, pnl).lost = h.lost
        /\ RecordTrade(h, pnl).losses = h.losses
    BY <2>1, <2>2 DEF History
  <2> QED
    BY <1>1, <2>3
<1>3. CASE ~(pnl > 0)
  <2>1. RecordTrade(h, pnl) = [h EXCEPT !.losses = h.losses + 1, !.lost = h.lost + Abs(pnl)]
    BY <1>3 DEF RecordTrade
  <2>2. h.losses + 1 \in Nat /\ h.lost + Abs(pnl) \in Nat /\ Abs(pnl) = -pnl
    BY <1>1, <1>3 DEF Abs
  <2>3. /\ RecordTrade(h, pnl) \in History
        /\ RecordTrade(h, pnl).won = h.won /\ RecordTrade(h, pnl).lost = h.lost + Abs(pnl)
        /\ RecordTrade(h, pnl).losses = h.losses + 1
    BY <2>1, <2>2 DEF History
  <2> QED
    BY <1>1, <2>2, <2>3
<1> QED
  BY <1>2, <1>3

(* A fill moves the profit of its strategy.                                *)
LEMMA FillAdds ==
    ASSUME fills \in Seq(Fill), NEW f \in Fill, fills' = Append(fills, f), NEW s \in Strategies
    PROVE  /\ fills' \in Seq(Fill)
           /\ Profit(s)' = Profit(s) + (IF Strategy(f.key) = s THEN f.pnl ELSE 0)
<1>1. /\ fills' \in Seq(Fill) /\ Len(fills') = Len(fills) + 1 /\ Len(fills) \in Nat
      /\ DOMAIN fills = 1 .. Len(fills) /\ DOMAIN fills' = 1 .. Len(fills) + 1
      /\ \A i \in 1 .. Len(fills) : fills'[i] = fills[i]
      /\ fills'[Len(fills) + 1] = f
  OBVIOUS
<1>2. Profit(s) = RunningTotal(PnLOf(s), Len(fills))
  BY DEF Profit, PnLOf
<1> DEFINE more == [i \in DOMAIN fills' |->
                       IF Strategy(fills'[i].key) = s THEN fills'[i].pnl ELSE 0]
<1>3. Profit(s)' = RunningTotal(more, Len(fills) + 1)
  BY <1>1 DEF Profit
<1>4. \A i \in 1 .. Len(fills) : more[i] = PnLOf(s)[i]
  BY <1>1 DEF PnLOf
<1>5. more[Len(fills) + 1] = IF Strategy(f.key) = s THEN f.pnl ELSE 0
  BY <1>1
<1> HIDE DEF more
<1>6. RunningTotal(more, Len(fills) + 1) = RunningTotal(PnLOf(s), Len(fills)) + more[Len(fills) + 1]
  BY <1>1, <1>4, TotalOfMore
<1> QED
  BY <1>1, <1>2, <1>3, <1>5, <1>6

(* What an entry and a close do to the accounts.                           *)
LEMMA EnterEffect ==
    ASSUME BetInv, NEW k \in Keys, NEW side \in {"BuyYes", "BuyNo"}, NEW price \in Prices,
           Enter(k, side, price)
    PROVE  \E f \in Fill, stake \in Stake :
              /\ f.key = k /\ f.pnl = 0 /\ f.fee = stake.fee
              /\ ~IsOpen(k) /\ positions' = [positions EXCEPT ![k] = stake]
              /\ balance' = balance - stake.size - stake.fee
              /\ fills' = Append(fills, f) /\ history' = history
<1> DEFINE size == Size(history[Strategy(k)], balance)
           fee == FeeOf(size)
           f == [key |-> k, price |-> price, size |-> size, fee |-> fee, pnl |-> 0]
           stake == [side |-> side, price |-> price, size |-> size, fee |-> fee]
<1>1. size \in Nat \ {0}
  <2>1. history[Strategy(k)] \in History
    BY KeyOf DEF BetInv
  <2>2. size \in MinOrder .. MaxOrder
    BY <2>1, SizeBounds DEF BetInv
  <2> HIDE DEF size
  <2> QED
    BY <2>2
<1>2. fee \in Int
  BY <1>1, FeesAreInt
<1>3. /\ ~IsOpen(k) /\ positions' = [positions EXCEPT ![k] = stake]
      /\ balance' = balance - size - fee
      /\ fills' = Append(fills, f) /\ history' = history
  BY DEF Enter
<1> HIDE DEF size, fee
<1>4. f \in Fill /\ f.key = k /\ f.pnl = 0 /\ f.fee = fee
  BY <1>1, <1>2 DEF Fill
<1>5. stake \in Stake /\ stake.size = size /\ stake.fee = fee
  BY <1>1, <1>2 DEF Stake
<1> HIDE DEF f, stake
<1> QED
  BY <1>3, <1>4, <1>5

LEMMA CloseEffect ==
    ASSUME BetInv, NEW k \in Keys, NEW price \in Prices, Close(k, price)
    PROVE  \E f \in Fill :
              /\ f.key = k /\ f.pnl \in Int
              /\ positions[k] \in Stake /\ positions' = [positions EXCEPT ![k] = Flat]
              /\ balance' = balance + positions[k].size + positions[k].fee + f.pnl
              /\ fills' = Append(fills, f)
              /\ history' = [history EXCEPT ![Strategy(k)] =
                                RecordTrade(history[Strategy(k)], f.pnl)]
<1> DEFINE pos == positions[k]
           worth == IF pos.side = "BuyYes" THEN price ELSE One - price
           proceeds == (pos.size * worth) \div pos.price
           fee == FeeOf(pos.size)
           pnl == proceeds - pos.size - pos.fee - fee
           f == [key |-> k, price |-> price, size |-> pos.size, fee |-> fee, pnl |-> pnl]
           s == Strategy(k)
<1>1. pos \in Stake
  BY DEF Close, IsOpen, BetInv
<1>2. /\ pos.size \in Nat \ {0} /\ pos.size \in Int /\ pos.fee \in Int
      /\ pos.price \in Nat \ {0} /\ price \in Int
  BY <1>1 DEF Stake
<1>3. /\ balance' = balance + proceeds - fee
      /\ positions' = [positions EXCEPT ![k] = Flat]
      /\ history' = [history EXCEPT ![s] = RecordTrade(history[s], pnl)]
      /\ fills' = Append(fills, f)
  BY DEF Close
<1> HIDE DEF pos
<1>4. worth \in Int
  BY <1>2
<1>5. proceeds \in Int
  <2> HIDE DEF worth
  <2>1. pos.size * worth \in Int
    BY <1>2, <1>4
  <2> QED
    BY <1>2, <2>1, Quotients
<1>6. fee \in Int
  BY <1>2, FeesAreInt
<1> HIDE DEF proceeds, fee
<1>7. pnl \in Int
  BY <1>2, <1>5, <1>6
<1>8. balance' = balance + pos.size + pos.fee + pnl
  BY <1>2, <1>3, <1>5, <1>6 DEF BetInv
<1> HIDE DEF pnl
<1>9. f \in Fill /\ f.key = k /\ f.pnl = pnl
  BY <1>2, <1>6, <1>7 DEF Fill
<1> HIDE DEF f
<1> QED
  BY <1>1, <1>3, <1>7, <1>8, <1>9 DEF pos

LEMMA EnterKeeps ==
    ASSUME BetInv, NEW k \in Keys, NEW side \in {"BuyYes", "BuyNo"}, NEW price \in Prices,
           Enter(k, side, price)
    PROVE  BetInv'
<1>1. PICK f \in Fill, stake \in Stake :
              /\ f.key = k /\ f.pnl = 0 /\ f.fee = stake.fee
              /\ ~IsOpen(k) /\ positions' = [positions EXCEPT ![k] = stake]
              /\ balance' = balance - stake.size - stake.fee
              /\ fills' = Append(fills, f) /\ history' = history
  BY EnterEffect
<1>2. /\ balance' \in Int /\ positions' \in [Keys -> {Flat} \cup Stake]
      /\ fills' \in Seq(Fill)
  BY <1>1 DEF BetInv, Stake
<1>3. ASSUME NEW s \in Strategies PROVE Noted(s)'
  <2>1. history[s].won \in Nat /\ history[s].lost \in Nat
    BY DEF BetInv, History
  <2>2. Profit(s) \in Int
    BY <2>1 DEF BetInv, Noted
  <2>3. Profit(s)' = Profit(s) + (IF Strategy(f.key) = s THEN f.pnl ELSE 0)
    BY <1>1, FillAdds DEF BetInv
  <2>4. Profit(s)' = Profit(s)
    BY <1>1, <2>2, <2>3
  <2> QED
    BY <1>1, <2>4 DEF BetInv, Noted
<1> QED
  BY <1>1, <1>2, <1>3 DEF BetInv

LEMMA CloseKeeps ==
    ASSUME BetInv, NEW k \in Keys, NEW price \in Prices, Close(k, price)
    PROVE  BetInv'
<1> DEFINE s == Strategy(k)
<1>1. PICK f \in Fill :
              /\ f.key = k /\ f.pnl \in Int
              /\ positions[k] \in Stake /\ positions' = [positions EXCEPT ![k] = Flat]
              /\ balance' = balance + positions[k].size + positions[k].fee + f.pnl
              /\ fills' = Append(fills, f)
              /\ history' = [history EXCEPT ![s] = RecordTrade(history[s], f.pnl)]
  BY CloseEffect
<1>2. /\ balance' \in Int /\ positions' \in [Keys -> {Flat} \cup Stake]
      /\ fills' \in Seq(Fill)
  BY <1>1 DEF BetInv, Stake
<1>3. s \in Strategies /\ history \in [Strategies -> History] /\ history[s] \in History
  BY KeyOf DEF BetInv
<1>4. history' \in [Strategies -> History]
  BY <1>1, <1>3, RecordTradeAdds
<1>5. ASSUME NEW t \in Strategies PROVE Noted(t)'
  <2>1. history[t].won \in Nat /\ history[t].lost \in Nat
    BY <1>3 DEF History
  <2>2. Profit(t) \in Int
    BY <2>1 DEF BetInv, Noted
  <2>3. Profit(t)' = Profit(t) + (IF s = t THEN f.pnl ELSE 0)
    BY <1>1, FillAdds DEF BetInv
  <2>4. CASE t = s
    <3> DEFINE new == RecordTrade(history[s], f.pnl)
    <3>1. history'[t] = new
      BY <1>1, <1>3, <2>4
    <3>2. /\ new.won - new.lost = history[s].won - history[s].lost + f.pnl
          /\ (history[s].losses = 0 => history[s].lost = 0) => (new.losses = 0 => new.lost = 0)
      BY <1>1, <1>3, RecordTradeAdds
    <3> HIDE DEF new
    <3> QED
      BY <2>2, <2>3, <2>4, <3>1, <3>2 DEF BetInv, Noted
  <2>5. CASE t # s
    <3>1. history'[t] = history[t]
      BY <1>1, <1>3, <2>5
    <3>2. Profit(t)' = Profit(t)
      BY <2>2, <2>3, <2>5
    <3> QED
      BY <3>1, <3>2 DEF BetInv, Noted
  <2> QED
    BY <2>4, <2>5
<1> QED
  BY <1>2, <1>4, <1>5 DEF BetInv

LEMMA BetInvHolds == BacktestSpec => []BetInv
<1>1. BacktestInit => BetInv
  <2> SUFFICES ASSUME BacktestInit PROVE BetInv
    OBVIOUS
  <2>1. /\ history = [s \in Strategies |-> NoTrades] /\ fills = <<>> /\ balance \in Int
        /\ positions = [k \in Keys |-> Flat]
    BY DEF BacktestInit
  <2>2. NoTrades \in History
    BY DEF NoTrades, History
  <2>3. \A s \in Strategies : Profit(s) = 0
    BY <2>1, TotalOfNone DEF Profit
  <2>4. \A s \in Strategies : Noted(s)
    BY <2>1, <2>3 DEF Noted, NoTrades
  <2> QED
    BY <2>1, <2>2, <2>4 DEF BetInv
<1>2. BetInv /\ [BacktestNext]_backtestVars => BetInv'
  <2> SUFFICES ASSUME BetInv, [BacktestNext]_backtestVars PROVE BetInv'
    OBVIOUS
  <2>1. CASE UNCHANGED backtestVars
    BY <2>1 DEF backtestVars, BetInv, Noted, Profit
  <2> QED
    BY <2>1, EnterKeeps, CloseKeeps DEF BacktestNext
<1> QED
  BY <1>1, <1>2, PTL DEF BacktestSpec

(* A strategy whose trades have lost money bets the minimum once the       *)
(* sizer knows its trades (KellySizer.Size, RecordTrade), and no bet above *)
(* the minimum exceeds kelly_fraction of the balance: for any prices,      *)
(* limits, fees and number of trades.                                      *)
THEOREM BetsFollow == BacktestSpec => []BetsFollowTheEdge
<1>1. BetInv => BetsFollowTheEdge
  <2> SUFFICES ASSUME BetInv, NEW s \in Strategies, ~UsesFixed(history[s]),
                      Size(history[s], balance) > MinOrder
               PROVE  /\ Profit(s) > 0
                      /\ Size(history[s], balance) * 100 <= KellyPercent * balance
    BY DEF BetsFollowTheEdge
  <2>1. history[s] \in History /\ balance \in Int /\ Noted(s)
    BY DEF BetInv
  <2>2. /\ Kelly(history[s]).n > 0
        /\ Size(history[s], balance) * 100 <= KellyPercent * balance
    BY <2>1, BetIsFraction
  <2>3. history[s].won > history[s].lost
    BY <2>1, <2>2, EdgeIsProfit DEF Noted
  <2>4. history[s].won \in Nat /\ history[s].lost \in Nat
    BY <2>1 DEF History
  <2> QED
    BY <2>1, <2>2, <2>3, <2>4 DEF Noted
<1> QED
  BY <1>1, BetInvHolds, PTL
----------------------------------------------------------------------------
(* A function on 0 .. n that is given step by step.                        *)
Recurs(g, start, step, n) ==
    g = [i \in 0 .. n |-> IF i = 0 THEN start ELSE step[<<i, g[i - 1]>>]]

LEMMA RecursionExists ==
    ASSUME NEW n \in Nat, NEW S, NEW start \in S, NEW step \in [(1 .. n) \X S -> S]
    PROVE  \E g \in [0 .. n -> S] : Recurs(g, start, step, n)
<1> DEFINE Without == {m \in 0 .. n : ~ \E g \in [0 .. m -> S] : Recurs(g, start, step, m)}
<1>1. ASSUME NEW m \in Without PROVE \E j \in Without : j < m
  <2>1. m # 0
    <3>1. /\ [i \in 0 .. 0 |-> start] \in [0 .. 0 -> S]
          /\ Recurs([i \in 0 .. 0 |-> start], start, step, 0)
      BY DEF Recurs
    <3> QED
      BY <3>1
  <2>2. SUFFICES ASSUME NEW g \in [0 .. m - 1 -> S], Recurs(g, start, step, m - 1)
                 PROVE  FALSE
    BY <2>1
  <2> DEFINE last == step[<<m, g[m - 1]>>]
             h == [i \in 0 .. m |-> IF i = m THEN last ELSE g[i]]
  <2>3. last \in S
    BY <2>1
  <2>4. h \in [0 .. m -> S]
    BY <2>1, <2>3
  <2>5. \A i \in 0 .. m : h[i] = IF i = 0 THEN start ELSE step[<<i, h[i - 1]>>]
    <3> TAKE i \in 0 .. m
    <3>1. CASE i = m
      <4>1. h[m] = last /\ h[m - 1] = g[m - 1]
        BY <2>1
      <4> HIDE DEF h
      <4> QED
        BY <2>1, <3>1, <4>1
    <3>2. CASE i # m
      <4>1. i \in 0 .. m - 1 /\ h[i] = g[i] /\ (i # 0 => h[i - 1] = g[i - 1])
        BY <2>1, <3>2
      <4>2. g[i] = IF i = 0 THEN start ELSE step[<<i, g[i - 1]>>]
        BY <2>2, <4>1 DEF Recurs
      <4> QED
        BY <4>1, <4>2
    <3> QED
      BY <3>1, <3>2
  <2>6. Recurs(h, start, step, m)
    <3>1. h = [i \in 0 .. m |-> h[i]]
      OBVIOUS
    <3> HIDE DEF h
    <3> QED
      BY <2>5, <3>1 DEF Recurs
  <2> QED
    BY <2>4, <2>6
<1>2. Without \in SUBSET Nat
  OBVIOUS
<1>3. Without = {}
  <2> HIDE DEF Without
  <2> QED
    BY <1>1, <1>2, NoLeast
<1> QED
  BY <1>3
----------------------------------------------------------------------------
(* The pairs of a sequence of fills.                                       *)
RoundTrip == [strategy : Strategies, fees : Int, pnl : Int]
Pairs == [open : [Keys -> {Flat} \cup Fill], trades : Seq(RoundTrip)]

PairSteps(g, fs, n) ==
    g = [i \in 0 .. n |-> IF i = 0 THEN NoPairs ELSE PairFill(g[i - 1], fs[i])]

LEMMA FillIsNotFlat == ASSUME NEW f \in Fill PROVE f # Flat
BY DEF Fill, Flat

LEMMA TradeIsRoundTrip ==
    ASSUME NEW entry \in Fill, NEW f \in Fill
    PROVE  /\ Trade(entry, f) \in RoundTrip
           /\ Trade(entry, f).strategy = Strategy(f.key)
           /\ Trade(entry, f).fees = entry.fee + f.fee
<1> DEFINE fees == entry.fee + f.fee
           gain == (f.price - entry.price) * entry.size
<1>1. fees \in Int /\ f.key \in Keys /\ f.price - entry.price \in Int /\ entry.size \in Int
  BY DEF Fill
<1>2. gain \in Int
  BY <1>1
<1>3. Trade(entry, f) = [strategy |-> Strategy(f.key), fees |-> fees, pnl |-> gain \div One - fees]
  BY DEF Trade
<1> HIDE DEF fees, gain
<1>4. gain \div One - fees \in Int
  BY <1>1, <1>2, Quotients
<1> QED
  BY <1>1, <1>3, <1>4, KeyOf DEF RoundTrip, fees

LEMMA PairFillTyped ==
    ASSUME NEW pairs \in Pairs, NEW f \in Fill
    PROVE  PairFill(pairs, f) \in Pairs
<1>1. /\ pairs.open \in [Keys -> {Flat} \cup Fill] /\ pairs.trades \in Seq(RoundTrip)
      /\ f.key \in Keys
  BY DEF Pairs, Fill
<1>2. CASE pairs.open[f.key] = Flat
  BY <1>1, <1>2 DEF PairFill, Pairs
<1>3. CASE pairs.open[f.key] # Flat
  <2> DEFINE trade == Trade(pairs.open[f.key], f)
  <2>1. trade \in RoundTrip
    BY <1>1, <1>3, TradeIsRoundTrip
  <2>2. PairFill(pairs, f) = [pairs EXCEPT !.open = [pairs.open EXCEPT ![f.key] = Flat],
                                           !.trades = Append(pairs.trades, trade)]
    BY <1>3 DEF PairFill
  <2> HIDE DEF trade
  <2>3. Append(pairs.trades, trade) \in Seq(RoundTrip)
    BY <1>1, <2>1
  <2>4. [pairs.open EXCEPT ![f.key] = Flat] \in [Keys -> {Flat} \cup Fill]
    BY <1>1
  <2> QED
    BY <2>2, <2>3, <2>4 DEF Pairs
<1> QED
  BY <1>2, <1>3

LEMMA NoPairsTyped == NoPairs \in Pairs
BY DEF NoPairs, Pairs

LEMMA PairsExist ==
    ASSUME NEW fs \in Seq(Fill)
    PROVE  \E g \in [0 .. Len(fs) -> Pairs] : PairSteps(g, fs, Len(fs))
<1> DEFINE n == Len(fs)
           step == [p \in (1 .. n) \X Pairs |-> PairFill(p[2], fs[p[1]])]
<1>1. n \in Nat /\ \A i \in 1 .. n : fs[i] \in Fill
  OBVIOUS
<1>2. step \in [(1 .. n) \X Pairs -> Pairs]
  BY <1>1, PairFillTyped
<1>3. \A i \in 1 .. n : \A pairs \in Pairs : step[<<i, pairs>>] = PairFill(pairs, fs[i])
  OBVIOUS
<1> HIDE DEF n, step
<1>4. PICK g \in [0 .. n -> Pairs] : Recurs(g, NoPairs, step, n)
  BY <1>1, <1>2, NoPairsTyped, RecursionExists
<1>5. \A i \in 0 .. n : g[i] = IF i = 0 THEN NoPairs ELSE PairFill(g[i - 1], fs[i])
  <2> TAKE i \in 0 .. n
  <2>1. g[i] = IF i = 0 THEN NoPairs ELSE step[<<i, g[i - 1]>>]
    BY <1>4 DEF Recurs
  <2>2. i # 0 => i \in 1 .. n /\ g[i - 1] \in Pairs
    BY <1>1
  <2> QED
    BY <1>3, <2>1, <2>2
<1>6. PairSteps(g, fs, n)
  BY <1>5 DEF PairSteps
<1> QED
  BY <1>6 DEF n

LEMMA PairsAgree ==
    ASSUME NEW n \in Nat, NEW m \in 0 .. n, NEW f, NEW g, NEW e, NEW h,
           PairSteps(f, e, n), PairSteps(g, h, m), \A i \in 1 .. m : e[i] = h[i]
    PROVE  f[m] = g[m]
<1> DEFINE Differ == {i \in 0 .. m : f[i] # g[i]}
<1>1. ASSUME NEW i \in Differ PROVE \E j \in Differ : j < i
  <2>1. i # 0
    BY DEF PairSteps
  <2>2. /\ f[i] = PairFill(f[i - 1], e[i]) /\ g[i] = PairFill(g[i - 1], h[i])
        /\ i - 1 \in 0 .. m /\ e[i] = h[i]
    BY <2>1 DEF PairSteps
  <2>3. f[i - 1] # g[i - 1]
    BY <2>1, <2>2
  <2> QED
    BY <2>2, <2>3
<1>2. Differ \in SUBSET Nat
  OBVIOUS
<1>3. Differ = {}
  <2> HIDE DEF Differ
  <2> QED
    BY <1>1, <1>2, NoLeast
<1> QED
  BY <1>3

LEMMA PairingIs ==
    ASSUME NEW fs \in Seq(Fill)
    PROVE  \E g \in [0 .. Len(fs) -> Pairs] :
              PairSteps(g, fs, Len(fs)) /\ Pairing(fs) = g[Len(fs)]
<1>1. PICK g \in [0 .. Len(fs) -> Pairs] : PairSteps(g, fs, Len(fs))
  BY PairsExist
<1> DEFINE after == CHOOSE a : PairSteps(a, fs, Len(fs))
<1>2. PairSteps(after, fs, Len(fs))
  BY <1>1
<1>3. Pairing(fs) = after[Len(fs)]
  BY DEF Pairing, PairSteps
<1> HIDE DEF after
<1>4. Len(fs) \in Nat /\ Len(fs) \in 0 .. Len(fs)
  OBVIOUS
<1>5. after[Len(fs)] = g[Len(fs)]
  BY <1>1, <1>2, <1>4, PairsAgree
<1> QED
  BY <1>1, <1>3, <1>5

LEMMA PairingTyped == ASSUME NEW fs \in Seq(Fill) PROVE Pairing(fs) \in Pairs
<1>1. PICK g \in [0 .. Len(fs) -> Pairs] : Pairing(fs) = g[Len(fs)]
  BY PairingIs
<1>2. Len(fs) \in 0 .. Len(fs)
  OBVIOUS
<1> QED
  BY <1>1, <1>2

LEMMA TradesTyped == ASSUME BetInv PROVE Trades(fills) \in Seq(RoundTrip)
<1>1. Pairing(fills) \in Pairs
  BY PairingTyped DEF BetInv
<1> QED
  BY <1>1 DEF Trades, Pairs

(* The pairs of no fills, and of one fill more.                            *)
LEMMA PairingOfNone == Pairing(<<>>) = NoPairs
<1>1. <<>> \in Seq(Fill) /\ Len(<<>>) = 0
  OBVIOUS
<1>2. PICK g : PairSteps(g, <<>>, 0) /\ Pairing(<<>>) = g[0]
  BY <1>1, PairingIs
<1> QED
  BY <1>2 DEF PairSteps

LEMMA PairingOfMore ==
    ASSUME NEW fs \in Seq(Fill), NEW f \in Fill
    PROVE  /\ Pairing(fs) \in Pairs
           /\ Pairing(Append(fs, f)) = PairFill(Pairing(fs), f)
<1> DEFINE n == Len(fs)
           more == Append(fs, f)
<1>1. /\ n \in Nat /\ more \in Seq(Fill) /\ Len(more) = n + 1 /\ more[n + 1] = f
      /\ \A i \in 1 .. n : more[i] = fs[i]
  OBVIOUS
<1> HIDE DEF more
<1>2. PICK g \in [0 .. n -> Pairs] : PairSteps(g, fs, n) /\ Pairing(fs) = g[n]
  BY PairingIs
<1>3. PICK h : PairSteps(h, more, n + 1) /\ Pairing(more) = h[n + 1]
  BY <1>1, PairingIs
<1> HIDE DEF n
<1>4. h[n] = g[n]
  BY <1>1, <1>2, <1>3, PairsAgree
<1>5. h[n + 1] = PairFill(h[n], more[n + 1])
  BY <1>1, <1>3 DEF PairSteps
<1> QED
  BY <1>1, <1>2, <1>3, <1>4, <1>5 DEF more
----------------------------------------------------------------------------
(* The running balance of a sequence of trades.                            *)
LEMMA TotalIsInt ==
    ASSUME NEW n \in Nat, NEW terms, \A i \in 1 .. n : terms[i] \in Int
    PROVE  \A m \in 0 .. n : RunningTotal(terms, m) \in Int
<1> DEFINE Wrong == {m \in 0 .. n : RunningTotal(terms, m) \notin Int}
<1>1. ASSUME NEW m \in Wrong PROVE \E j \in Wrong : j < m
  <2>1. m # 0
    BY TotalOfNone
  <2>2. m - 1 \in Nat /\ m - 1 \in 0 .. n /\ (m - 1) + 1 = m /\ terms[m] \in Int
    BY <2>1
  <2>3. RunningTotal(terms, m) = RunningTotal(terms, m - 1) + terms[m]
    BY <2>2, TotalOfMore
  <2>4. RunningTotal(terms, m - 1) \notin Int
    BY <2>2, <2>3
  <2> QED
    BY <2>2, <2>4
<1>2. Wrong \in SUBSET Nat
  OBVIOUS
<1>3. Wrong = {}
  <2> HIDE DEF Wrong
  <2> QED
    BY <1>1, <1>2, NoLeast
<1> QED
  BY <1>3

(* After the trades in sight: the balance, the highest one, the largest    *)
(* fall.                                                                   *)
Tracks(acc, bal, n) ==
    /\ acc.balance = bal[n]
    /\ \A i \in 0 .. n : bal[i] <= acc.peak
    /\ \E i \in 0 .. n : acc.peak = bal[i]
    /\ \A i, j \in 0 .. n : i <= j => bal[i] - bal[j] <= acc.deepest
    /\ \E i, j \in 0 .. n : i <= j /\ acc.deepest = bal[i] - bal[j]

LEMMA FollowTracks ==
    ASSUME NEW n \in Nat, NEW bal, \A i \in 0 .. n + 1 : bal[i] \in Int,
           NEW acc, Tracks(acc, bal, n), NEW t, t.pnl \in Int, bal[n + 1] = bal[n] + t.pnl
    PROVE  Tracks(Follow(acc, t), bal, n + 1)
<1> DEFINE now == bal[n + 1]
           peak == Larger(acc.peak, now)
           deepest == Larger(acc.deepest, peak - now)
<1>1. Follow(acc, t) = [balance |-> now, peak |-> peak, deepest |-> deepest]
  BY DEF Follow, Tracks
<1>2. \A i \in 0 .. n + 1 : i \in 0 .. n \/ i = n + 1
  OBVIOUS
<1>3. /\ now \in Int /\ acc.peak \in Int /\ acc.deepest \in Int
  <2>1. PICK i \in 0 .. n, j \in 0 .. n : acc.deepest = bal[i] - bal[j]
    BY DEF Tracks
  <2>2. PICK k \in 0 .. n : acc.peak = bal[k]
    BY DEF Tracks
  <2> QED
    BY <2>1, <2>2
<1>4. /\ peak \in Int /\ acc.peak <= peak /\ now <= peak /\ peak \in {acc.peak, now}
  BY <1>3 DEF Larger
<1>5. /\ deepest \in Int /\ acc.deepest <= deepest /\ peak - now <= deepest
      /\ deepest \in {acc.deepest, peak - now}
  <2> HIDE DEF now, peak
  <2> QED
    BY <1>3, <1>4 DEF Larger
<1> HIDE DEF peak, deepest
<1>6. \A i \in 0 .. n + 1 : bal[i] <= peak
  <2> TAKE i \in 0 .. n + 1
  <2>1. CASE i \in 0 .. n
    <3>1. bal[i] \in Int /\ bal[i] <= acc.peak
      BY <2>1 DEF Tracks
    <3> QED
      BY <1>3, <1>4, <3>1
  <2> QED
    BY <1>2, <1>4, <2>1
<1>7. \E i \in 0 .. n + 1 : peak = bal[i]
  <2>1. CASE peak = now
    BY <2>1
  <2>2. CASE peak = acc.peak
    BY <2>2 DEF Tracks
  <2> QED
    BY <1>4, <2>1, <2>2
<1>8. \A i, j \in 0 .. n + 1 : i <= j => bal[i] - bal[j] <= deepest
  <2> SUFFICES ASSUME NEW i \in 0 .. n + 1, NEW j \in 0 .. n + 1, i <= j
               PROVE  bal[i] - bal[j] <= deepest
    OBVIOUS
  <2>1. CASE j = n + 1
    <3>1. bal[i] <= peak /\ bal[i] \in Int /\ bal[j] = now
      BY <1>6, <2>1
    <3> QED
      BY <1>3, <1>4, <1>5, <3>1
  <2>2. CASE j # n + 1
    <3>1. i \in 0 .. n /\ j \in 0 .. n
      BY <2>2
    <3>2. bal[i] - bal[j] <= acc.deepest /\ bal[i] - bal[j] \in Int
      BY <3>1 DEF Tracks
    <3> QED
      BY <1>3, <1>5, <3>2
  <2> QED
    BY <2>1, <2>2
<1>9. \E i, j \in 0 .. n + 1 : i <= j /\ deepest = bal[i] - bal[j]
  <2>1. CASE deepest = acc.deepest
    <3>1. PICK i \in 0 .. n, j \in 0 .. n : i <= j /\ acc.deepest = bal[i] - bal[j]
      BY DEF Tracks
    <3> QED
      BY <2>1, <3>1
  <2>2. CASE deepest = peak - now
    <3>1. PICK i \in 0 .. n + 1 : peak = bal[i]
      BY <1>7
    <3>2. i <= n + 1 /\ n + 1 \in 0 .. n + 1
      OBVIOUS
    <3> QED
      BY <2>2, <3>1, <3>2
  <2> QED
    BY <1>5, <2>1, <2>2
<1> QED
  BY <1>1, <1>6, <1>7, <1>8, <1>9 DEF Tracks

BalanceAfter(trades) ==
    [n \in 0 .. Len(trades) |-> StartingBalance + RunningTotal(PnLs(trades), n)]

Follows(g, trades, n) ==
    g = [i \in 0 .. n |-> IF i = 0 THEN Start ELSE Follow(g[i - 1], trades[i])]

LEMMA FollowsExist ==
    ASSUME NEW trades \in Seq(RoundTrip)
    PROVE  \E g : Follows(g, trades, Len(trades))
<1> DEFINE n == Len(trades)
           S == [balance : Int, peak : Int, deepest : Int]
           step == [p \in (1 .. n) \X S |-> Follow(p[2], trades[p[1]])]
<1>0. n \in Nat /\ \A i \in 1 .. n : trades[i] \in RoundTrip
  OBVIOUS
<1>1. n \in Nat /\ \A i \in 1 .. n : trades[i].pnl \in Int
  BY <1>0 DEF RoundTrip
<1>2. ASSUME NEW i \in 1 .. n, NEW acc \in S PROVE Follow(acc, trades[i]) \in S
  <2>1. /\ acc.balance \in Int /\ acc.peak \in Int /\ acc.deepest \in Int
        /\ trades[i].pnl \in Int
    BY <1>1
  <2> QED
    BY <2>1 DEF Follow, Larger
<1>3. step \in [(1 .. n) \X S -> S]
  BY <1>2
<1>4. \A i \in 1 .. n : \A acc \in S : step[<<i, acc>>] = Follow(acc, trades[i])
  OBVIOUS
<1>5. Start \in S
  BY DEF Start
<1> HIDE DEF n, step, S
<1>6. PICK g \in [0 .. n -> S] : Recurs(g, Start, step, n)
  BY <1>1, <1>3, <1>5, RecursionExists
<1>7. \A i \in 0 .. n : g[i] = IF i = 0 THEN Start ELSE Follow(g[i - 1], trades[i])
  <2> TAKE i \in 0 .. n
  <2>1. g[i] = IF i = 0 THEN Start ELSE step[<<i, g[i - 1]>>]
    BY <1>6 DEF Recurs
  <2>2. i # 0 => i \in 1 .. n /\ g[i - 1] \in S
    BY <1>1
  <2> QED
    BY <1>4, <2>1, <2>2
<1> QED
  BY <1>7 DEF n, Follows

LEMMA DrawdownTracks ==
    ASSUME NEW trades \in Seq(RoundTrip)
    PROVE  \E acc : /\ MaxDrawdown(trades) = acc.deepest
                    /\ Tracks(acc, BalanceAfter(trades), Len(trades))
<1> DEFINE n == Len(trades)
           bal == BalanceAfter(trades)
           g == CHOOSE a : Follows(a, trades, n)
<1>0. n \in Nat /\ \A i \in 1 .. n : trades[i] \in RoundTrip
  OBVIOUS
<1>1. n \in Nat /\ \A i \in 1 .. n : trades[i].pnl \in Int /\ PnLs(trades)[i] = trades[i].pnl
  BY <1>0 DEF RoundTrip, PnLs
<1>2. MaxDrawdown(trades) = g[n].deepest
  BY DEF MaxDrawdown, Follows
<1>3. Follows(g, trades, n)
  BY FollowsExist
<1> HIDE DEF g
<1>4. /\ \A i \in 0 .. n : bal[i] = StartingBalance + RunningTotal(PnLs(trades), i)
      /\ \A i \in 0 .. n : bal[i] \in Int
  <2>1. \A i \in 0 .. n : RunningTotal(PnLs(trades), i) \in Int
    <3> HIDE DEF n, bal
    <3>1. \A i \in 1 .. n : PnLs(trades)[i] \in Int
      BY <1>1
    <3> QED
      BY <1>1, <3>1, TotalIsInt
  <2>2. \A i \in 0 .. n : bal[i] = StartingBalance + RunningTotal(PnLs(trades), i)
    BY DEF BalanceAfter
  <2> HIDE DEF n, bal
  <2> QED
    BY <2>1, <2>2
<1> HIDE DEF bal, n
<1> DEFINE Astray == {m \in 0 .. n : ~Tracks(g[m], bal, m)}
<1>5. ASSUME NEW m \in Astray PROVE \E j \in Astray : j < m
  <2>1. m # 0
    <3>1. g[0] = Start
      BY <1>1, <1>3 DEF Follows
    <3>2. bal[0] = StartingBalance /\ bal[0] \in Int /\ \A i \in 0 .. 0 : i = 0
      BY <1>1, <1>4, TotalOfNone
    <3>3. Tracks(Start, bal, 0)
      BY <3>2 DEF Tracks, Start
    <3> QED
      BY <3>1, <3>3
  <2>2. /\ m - 1 \in Nat /\ m - 1 \in 0 .. n /\ (m - 1) + 1 = m /\ m \in 1 .. n
    BY <1>1, <2>1
  <2>3. g[m] = Follow(g[m - 1], trades[m])
    BY <1>3, <2>1 DEF Follows
  <2>4. RunningTotal(PnLs(trades), m) = RunningTotal(PnLs(trades), m - 1) + PnLs(trades)[m]
    BY <2>2, TotalOfMore
  <2>5. RunningTotal(PnLs(trades), m - 1) \in Int
    BY <1>1, <2>2, TotalIsInt
  <2>6. bal[(m - 1) + 1] = bal[m - 1] + trades[m].pnl /\ trades[m].pnl \in Int
    BY <1>1, <1>4, <2>2, <2>4, <2>5
  <2>7. \A i \in 0 .. (m - 1) + 1 : bal[i] \in Int
    BY <1>1, <1>4
  <2>8. SUFFICES ASSUME Tracks(g[m - 1], bal, m - 1) PROVE FALSE
    BY <2>2
  <2>9. Tracks(Follow(g[m - 1], trades[m]), bal, (m - 1) + 1)
    BY <2>2, <2>6, <2>7, <2>8, FollowTracks
  <2> QED
    BY <2>2, <2>3, <2>9
<1>6. Astray \in SUBSET Nat
  BY <1>1
<1>7. Astray = {}
  <2> HIDE DEF Astray
  <2> QED
    BY <1>5, <1>6, NoLeast
<1>8. Tracks(g[n], bal, n)
  BY <1>1, <1>7
<1> QED
  BY <1>2, <1>8 DEF n, bal

(* The drawdown a report states (computeSummary) is the largest fall of    *)
(* the running balance between any two moments, for any fills.             *)
THEOREM DrawdownCorrect == BacktestSpec => []DrawdownIsLargestFall
<1>1. BetInv => DrawdownIsLargestFall
  <2> SUFFICES ASSUME BetInv PROVE DrawdownIsLargestFall
    OBVIOUS
  <2> DEFINE trades == Trades(fills)
             n == Len(trades)
             bal == BalanceAfter(trades)
  <2>1. trades \in Seq(RoundTrip)
    BY TradesTyped
  <2> HIDE DEF trades
  <2>2. PICK acc : MaxDrawdown(trades) = acc.deepest /\ Tracks(acc, bal, n)
    BY <2>1, DrawdownTracks
  <2> DEFINE falls == {bal[p[1]] - bal[p[2]] : p \in {q \in (0 .. n) \X (0 .. n) : q[1] <= q[2]}}
  <2>3. DrawdownIsLargestFall <=> /\ MaxDrawdown(trades) \in falls
                                  /\ \A fall \in falls : fall <= MaxDrawdown(trades)
    BY DEF DrawdownIsLargestFall, BalanceAfter, trades
  <2> HIDE DEF n, bal
  <2>4. MaxDrawdown(trades) \in falls
    <3>1. PICK i \in 0 .. n, j \in 0 .. n : i <= j /\ acc.deepest = bal[i] - bal[j]
      BY <2>2 DEF Tracks
    <3>2. <<i, j>> \in {q \in (0 .. n) \X (0 .. n) : q[1] <= q[2]}
      BY <3>1
    <3> QED
      BY <2>2, <3>1, <3>2
  <2>5. \A fall \in falls : fall <= MaxDrawdown(trades)
    BY <2>2 DEF Tracks
  <2> QED
    BY <2>3, <2>4, <2>5
<1> QED
  BY <1>1, BetInvHolds, PTL
----------------------------------------------------------------------------
(* Counts and totals of a sequence that grows by one.                      *)
HIDE BacktestConfig
HIDE SizingConfig
HIDE DEF SizingConfig, BacktestConfig

LEMMA GrowsByOne ==
    ASSUME NEW S, NEW seq \in Seq(S), NEW x \in S
    PROVE  /\ Append(seq, x) \in Seq(S) /\ Len(seq) \in Nat
           /\ Len(Append(seq, x)) = Len(seq) + 1
           /\ Append(seq, x)[Len(seq) + 1] = x
           /\ \A i \in 1 .. Len(seq) : Append(seq, x)[i] = seq[i] /\ seq[i] \in S
           /\ DOMAIN seq = 1 .. Len(seq) /\ DOMAIN Append(seq, x) = 1 .. Len(seq) + 1
OBVIOUS

LEMMA TotalGrows ==
    ASSUME NEW before \in Seq(Int), NEW after \in Seq(Int), Len(after) = Len(before) + 1,
           \A i \in 1 .. Len(before) : after[i] = before[i]
    PROVE  /\ TotalOf(before) \in Int
           /\ TotalOf(after) = TotalOf(before) + after[Len(before) + 1]
<1> DEFINE n == Len(before)
<1>1. n \in Nat /\ n \in 0 .. n /\ \A i \in 1 .. n : before[i] \in Int
  OBVIOUS
<1> HIDE DEF n
<1>2. RunningTotal(after, n + 1) = RunningTotal(before, n) + after[n + 1]
  BY <1>1, TotalOfMore DEF n
<1>3. RunningTotal(before, n) \in Int
  BY <1>1, TotalIsInt
<1> QED
  BY <1>1, <1>2, <1>3 DEF TotalOf, n

LEMMA CountGrows ==
    ASSUME NEW n \in Nat, NEW P, P \subseteq 1 .. n, NEW Q,
           Q = P \/ Q = P \cup {n + 1}
    PROVE  /\ IsFiniteSet(P) /\ Cardinality(P) \in Nat
           /\ Cardinality(Q) = Cardinality(P) + (IF n + 1 \in Q THEN 1 ELSE 0)
<1>1. IsFiniteSet(P) /\ n + 1 \notin P
  <2>1. IsFiniteSet(1 .. n)
    BY FS_Interval
  <2>2. IsFiniteSet(P)
    BY <2>1, FS_Subset
  <2>3. n + 1 \notin P
    OBVIOUS
  <2> QED
    BY <2>2, <2>3
<1>2. Cardinality(P) \in Nat
  BY <1>1, FS_CardinalityType
<1>3. Cardinality(P \cup {n + 1}) = Cardinality(P) + 1
  BY <1>1, FS_AddElement
<1> QED
  BY <1>1, <1>2, <1>3
----------------------------------------------------------------------------
(* What the report says of the fills so far, and the open positions, add   *)
(* up to the fills and the balance.                                        *)
FillFees == [i \in 1 .. Len(fills) |-> fills[i].fee]
TradeFees(trades) == [i \in 1 .. Len(trades) |-> trades[i].fees]

OpenIsPaired ==
    \A k \in Keys :
       /\ IsOpen(k) <=> Pairing(fills).open[k] # Flat
       /\ IsOpen(k) => Pairing(fills).open[k].fee = positions[k].fee

CountsAgree ==
    /\ 2 * Len(Trades(fills)) + Cardinality(Open) = Len(fills)
    /\ \A s \in Strategies :
          2 * Cardinality(TradesOf(Trades(fills), s)) + Cardinality(OpenOf(s))
             = Cardinality(FillsOf(s))

MoneyAgrees ==
    /\ TotalOf(TradeFees(Trades(fills))) + FeesOfOpen = TotalOf(FillFees)
    /\ balance - StartingBalance + CostOfOpen = TotalOf(PnLs(fills))

SumInv == OpenIsPaired /\ CountsAgree /\ MoneyAgrees

LEMMA OpenIsFinite ==
    /\ IsFiniteSet(Keys)
    /\ IsFiniteSet(Open) /\ Cardinality(Open) \in Nat /\ Open \subseteq Keys
    /\ \A s : IsFiniteSet(OpenOf(s)) /\ Cardinality(OpenOf(s)) \in Nat
<1>1. IsFiniteSet(Keys)
  BY BacktestConfig, FS_Product DEF BacktestConfig, Keys
<1>2. Open \subseteq Keys /\ \A s : OpenOf(s) \subseteq Keys
  BY DEF Open, OpenOf
<1> QED
  BY <1>1, <1>2, FS_Subset, FS_CardinalityType

LEMMA OpenSize == ASSUME NEW s PROVE Cardinality(OpenOf(s)) \in Int
BY OpenIsFinite

LEMMA OpenIsStake == ASSUME BetInv, NEW k \in Open PROVE positions[k] \in Stake
BY DEF BetInv, Open, IsOpen

LEMMA StakeIsInt ==
    ASSUME NEW p \in Stake
    PROVE  p.fee \in Int /\ p.size + p.fee \in Int /\ p # Flat
BY DEF Stake, Flat

LEMMA SumsAreInt ==
    ASSUME BetInv
    PROVE  /\ FeesOfOpen \in Int /\ CostOfOpen \in Int
           /\ \A k \in Open : /\ positions[k].fee \in Int
                              /\ positions[k].size + positions[k].fee \in Int
<1>1. \A k \in Open : positions[k].fee \in Int /\ positions[k].size + positions[k].fee \in Int
  BY OpenIsStake, StakeIsInt
<1> QED
  BY <1>1, OpenIsFinite, SumIsInt DEF FeesOfOpen, CostOfOpen, OpenFees, OpenCosts

(* A fill adds to its strategy's fills and to the totals.                  *)
LEMMA FillsGrow ==
    ASSUME fills \in Seq(Fill), NEW f \in Fill, fills' = Append(fills, f)
    PROVE  /\ Len(fills') = Len(fills) + 1 /\ Len(fills) \in Nat
           /\ TotalOf(FillFees) \in Int /\ TotalOf(FillFees)' = TotalOf(FillFees) + f.fee
           /\ TotalOf(PnLs(fills)) \in Int
           /\ TotalOf(PnLs(fills))' = TotalOf(PnLs(fills)) + f.pnl
           /\ \A s : /\ Cardinality(FillsOf(s)) \in Nat
                     /\ Cardinality(FillsOf(s))' =
                           Cardinality(FillsOf(s)) + (IF Strategy(f.key) = s THEN 1 ELSE 0)
<1> DEFINE n == Len(fills)
<1>1. /\ fills' \in Seq(Fill) /\ n \in Nat /\ Len(fills') = n + 1 /\ fills'[n + 1] = f
      /\ \A i \in 1 .. n : fills'[i] = fills[i] /\ fills[i] \in Fill
      /\ DOMAIN fills = 1 .. n /\ DOMAIN fills' = 1 .. n + 1
  BY GrowsByOne
<1>2. \A i \in 1 .. n : fills[i].fee \in Int /\ fills[i].pnl \in Int
  BY <1>1 DEF Fill
<1> HIDE DEF n
<1>3. TotalOf(FillFees) \in Int /\ TotalOf(FillFees)' = TotalOf(FillFees) + f.fee
  <2>1. /\ FillFees = [i \in 1 .. n |-> fills[i].fee]
        /\ FillFees' = [i \in 1 .. n + 1 |-> fills'[i].fee]
    BY <1>1 DEF FillFees, n
  <2>2. TotalOf(FillFees)' = TotalOf(FillFees')
    BY DEF TotalOf, RunningTotal
  <2>3. \A i \in 1 .. n + 1 : fills'[i].fee \in Int
    BY <1>1 DEF Fill
  <2>4. /\ FillFees \in Seq(Int) /\ FillFees' \in Seq(Int)
        /\ Len(FillFees) = n /\ Len(FillFees') = n + 1
        /\ FillFees'[n + 1] = f.fee /\ \A i \in 1 .. n : FillFees'[i] = FillFees[i]
    BY <1>1, <1>2, <2>1, <2>3
  <2> QED
    BY <1>1, <2>2, <2>4, TotalGrows
<1>4. /\ TotalOf(PnLs(fills)) \in Int
      /\ TotalOf(PnLs(fills))' = TotalOf(PnLs(fills)) + f.pnl
  <2>1. /\ PnLs(fills) = [i \in 1 .. n |-> fills[i].pnl]
        /\ PnLs(fills)' = [i \in 1 .. n + 1 |-> fills'[i].pnl]
    BY <1>1 DEF PnLs, n
  <2>2. TotalOf(PnLs(fills))' = TotalOf(PnLs(fills)')
    BY DEF TotalOf, RunningTotal
  <2>3. \A i \in 1 .. n + 1 : fills'[i].pnl \in Int
    BY <1>1 DEF Fill
  <2>4. /\ PnLs(fills) \in Seq(Int) /\ PnLs(fills)' \in Seq(Int)
        /\ Len(PnLs(fills)) = n /\ Len(PnLs(fills)') = n + 1
        /\ PnLs(fills)'[n + 1] = f.pnl /\ \A i \in 1 .. n : PnLs(fills)'[i] = PnLs(fills)[i]
    BY <1>1, <1>2, <2>1, <2>3
  <2> QED
    BY <1>1, <2>2, <2>4, TotalGrows
<1>5. ASSUME NEW s
      PROVE  /\ Cardinality(FillsOf(s)) \in Nat
             /\ Cardinality(FillsOf(s))' =
                   Cardinality(FillsOf(s)) + (IF Strategy(f.key) = s THEN 1 ELSE 0)
  <2>1. FillsOf(s) = {i \in 1 .. n : Strategy(fills[i].key) = s}
    BY <1>1 DEF FillsOf
  <2>2. FillsOf(s)' = {i \in 1 .. n + 1 : Strategy(fills'[i].key) = s}
    BY <1>1 DEF FillsOf
  <2>3. \A i \in 1 .. n + 1 : i \in 1 .. n \/ i = n + 1
    BY <1>1
  <2>4. FillsOf(s)' = IF Strategy(f.key) = s THEN FillsOf(s) \cup {n + 1} ELSE FillsOf(s)
    BY <1>1, <2>1, <2>2, <2>3
  <2>5. n + 1 \in FillsOf(s)' <=> Strategy(f.key) = s
    BY <1>1, <2>2
  <2>6. FillsOf(s) \subseteq 1 .. n
    BY <2>1
  <2>7. FillsOf(s)' = FillsOf(s) \/ FillsOf(s)' = FillsOf(s) \cup {n + 1}
    BY <2>4
  <2> DEFINE P == FillsOf(s)
             Q == FillsOf(s)'
  <2>8. /\ Cardinality(P) \in Nat
        /\ Cardinality(Q) = Cardinality(P) + (IF n + 1 \in Q THEN 1 ELSE 0)
    <3>1. P \subseteq 1 .. n /\ (Q = P \/ Q = P \cup {n + 1})
      BY <2>6, <2>7
    <3> HIDE DEF P, Q
    <3> QED
      BY <1>1, <3>1, CountGrows
  <2> QED
    BY <2>5, <2>8
<1> QED
  BY <1>1, <1>3, <1>4, <1>5 DEF n

(* A trade adds to its strategy's trades and to the fees.                  *)
LEMMA TradesGrow ==
    ASSUME NEW trades \in Seq(RoundTrip), NEW t \in RoundTrip
    PROVE  LET more == Append(trades, t)
           IN  /\ Len(more) = Len(trades) + 1 /\ Len(trades) \in Nat
               /\ TotalOf(TradeFees(trades)) \in Int
               /\ TotalOf(TradeFees(more)) = TotalOf(TradeFees(trades)) + t.fees
               /\ \A s : /\ Cardinality(TradesOf(trades, s)) \in Nat
                         /\ Cardinality(TradesOf(more, s)) =
                               Cardinality(TradesOf(trades, s)) + (IF t.strategy = s THEN 1 ELSE 0)
<1> DEFINE n == Len(trades)
           more == Append(trades, t)
<1>1. /\ more \in Seq(RoundTrip) /\ n \in Nat /\ Len(more) = n + 1 /\ more[n + 1] = t
      /\ \A i \in 1 .. n : more[i] = trades[i] /\ trades[i] \in RoundTrip
      /\ DOMAIN trades = 1 .. n /\ DOMAIN more = 1 .. n + 1
  BY GrowsByOne
<1>2. \A i \in 1 .. n : trades[i].fees \in Int
  BY <1>1 DEF RoundTrip
<1> HIDE DEF n, more
<1>3. /\ TotalOf(TradeFees(trades)) \in Int
      /\ TotalOf(TradeFees(more)) = TotalOf(TradeFees(trades)) + t.fees
  <2>1. /\ TradeFees(trades) = [i \in 1 .. n |-> trades[i].fees]
        /\ TradeFees(more) = [i \in 1 .. n + 1 |-> more[i].fees]
    BY <1>1 DEF TradeFees, n
  <2>2. \A i \in 1 .. n + 1 : more[i].fees \in Int
    BY <1>1 DEF RoundTrip
  <2>3. /\ TradeFees(trades) \in Seq(Int) /\ TradeFees(more) \in Seq(Int)
        /\ Len(TradeFees(trades)) = n /\ Len(TradeFees(more)) = n + 1
        /\ TradeFees(more)[n + 1] = t.fees
        /\ \A i \in 1 .. n : TradeFees(more)[i] = TradeFees(trades)[i]
    BY <1>1, <1>2, <2>1, <2>2
  <2> QED
    BY <1>1, <2>3, TotalGrows
<1>4. ASSUME NEW s
      PROVE  /\ Cardinality(TradesOf(trades, s)) \in Nat
             /\ Cardinality(TradesOf(more, s)) =
                   Cardinality(TradesOf(trades, s)) + (IF t.strategy = s THEN 1 ELSE 0)
  <2>1. \A i \in 1 .. n + 1 : i \in 1 .. n \/ i = n + 1
    BY <1>1
  <2>2. /\ TradesOf(trades, s) = {i \in 1 .. n : trades[i].strategy = s}
        /\ TradesOf(more, s) = {i \in 1 .. n + 1 : more[i].strategy = s}
    BY <1>1 DEF TradesOf
  <2>3. TradesOf(more, s) = IF t.strategy = s THEN TradesOf(trades, s) \cup {n + 1}
                            ELSE TradesOf(trades, s)
    BY <1>1, <2>1, <2>2
  <2>4. n + 1 \in TradesOf(more, s) <=> t.strategy = s
    BY <1>1, <2>2
  <2>5. TradesOf(trades, s) \subseteq 1 .. n
    BY <2>2
  <2> QED
    BY <1>1, <2>3, <2>4, <2>5, CountGrows
<1> QED
  BY <1>1, <1>3, <1>4 DEF n, more

LEMMA TradesAreInt ==
    ASSUME NEW trades \in Seq(RoundTrip)
    PROVE  /\ TotalOf(TradeFees(trades)) \in Int
           /\ \A s : Cardinality(TradesOf(trades, s)) \in Nat
<1> DEFINE n == Len(trades)
<1>1. /\ n \in Nat /\ n \in 0 .. n /\ DOMAIN trades = 1 .. n
      /\ \A i \in 1 .. n : trades[i] \in RoundTrip
  OBVIOUS
<1>2. Len(TradeFees(trades)) = n /\ \A i \in 1 .. n : TradeFees(trades)[i] \in Int
  BY <1>1 DEF TradeFees, RoundTrip
<1> HIDE DEF n
<1>3. TotalOf(TradeFees(trades)) \in Int
  BY <1>1, <1>2, TotalIsInt DEF TotalOf
<1>4. ASSUME NEW s PROVE Cardinality(TradesOf(trades, s)) \in Nat
  <2>1. TradesOf(trades, s) \subseteq 1 .. n
    BY <1>1 DEF TradesOf
  <2>2. TradesOf(trades, s) = TradesOf(trades, s) \/ TradesOf(trades, s) = {}
    OBVIOUS
  <2> QED
    BY <1>1, <2>1, CountGrows
<1> QED
  BY <1>3, <1>4

LEMMA EnterAddsUp ==
    ASSUME BetInv, SumInv, NEW k \in Keys, NEW side \in {"BuyYes", "BuyNo"},
           NEW price \in Prices, Enter(k, side, price)
    PROVE  SumInv'
<1> DEFINE pairs == Pairing(fills)
<1>1. PICK f \in Fill, stake \in Stake :
              /\ f.key = k /\ f.pnl = 0 /\ f.fee = stake.fee
              /\ ~IsOpen(k) /\ positions' = [positions EXCEPT ![k] = stake]
              /\ balance' = balance - stake.size - stake.fee
              /\ fills' = Append(fills, f) /\ history' = history
  BY EnterEffect
<1>2. /\ positions \in [Keys -> {Flat} \cup Stake] /\ fills \in Seq(Fill) /\ balance \in Int
      /\ stake # Flat /\ stake.fee \in Int /\ stake.size \in Int /\ f # Flat
  BY StakeIsInt, FillIsNotFlat DEF BetInv, Stake
<1>3. /\ pairs \in Pairs /\ Pairing(fills') = PairFill(pairs, f)
  BY <1>1, <1>2, PairingOfMore
<1>4. pairs.open[k] = Flat /\ pairs.open \in [Keys -> {Flat} \cup Fill]
  BY <1>1, <1>3 DEF SumInv, OpenIsPaired, Pairs
<1>5. /\ Pairing(fills').open = [pairs.open EXCEPT ![k] = f]
      /\ Pairing(fills').trades = pairs.trades
  <2>1. Pairing(fills') = [pairs EXCEPT !.open = [pairs.open EXCEPT ![k] = f]]
    BY <1>1, <1>3, <1>4 DEF PairFill
  <2> HIDE DEF pairs
  <2> QED
    BY <1>3, <2>1 DEF Pairs
<1>6. Trades(fills)' = Trades(fills)
  <2>1. Trades(fills)' = Pairing(fills').trades
    BY DEF Trades, Pairing
  <2> QED
    BY <1>5, <2>1 DEF Trades
<1>7. OpenIsPaired'
  <2>1. Pairing(fills)' = Pairing(fills')
    BY DEF Pairing
  <2> HIDE DEF pairs
  <2> QED
    BY <1>1, <1>2, <1>4, <1>5, <2>1 DEF SumInv, OpenIsPaired, IsOpen, pairs
<1>8. /\ Open' = Open \cup {k} /\ k \notin Open
      /\ \A s : OpenOf(s)' = IF Strategy(k) = s THEN OpenOf(s) \cup {k} ELSE OpenOf(s)
      /\ \A s : k \notin OpenOf(s)
  BY <1>1, <1>2 DEF Open, OpenOf, IsOpen
<1>9. /\ Cardinality(Open') = Cardinality(Open) + 1
      /\ \A s : Cardinality(OpenOf(s)') =
                   Cardinality(OpenOf(s)) + (IF Strategy(k) = s THEN 1 ELSE 0)
  <2>1. Cardinality(Open \cup {k}) = Cardinality(Open) + 1
    BY <1>8, OpenIsFinite, FS_AddElement
  <2>2. ASSUME NEW s PROVE Cardinality(OpenOf(s) \cup {k}) = Cardinality(OpenOf(s)) + 1
    BY <1>8, OpenIsFinite, FS_AddElement
  <2>3. ASSUME NEW s
        PROVE  Cardinality(OpenOf(s)') =
                  Cardinality(OpenOf(s)) + (IF Strategy(k) = s THEN 1 ELSE 0)
    BY <1>8, <2>2, OpenIsFinite
  <2> QED
    BY <1>8, <2>1, <2>3
<1>10. /\ FeesOfOpen' = FeesOfOpen + stake.fee
       /\ CostOfOpen' = CostOfOpen + (stake.size + stake.fee)
  <2>1. /\ FeesOfOpen = SumFunctionOnSet(OpenFees, Open)
        /\ CostOfOpen = SumFunctionOnSet(OpenCosts, Open)
        /\ FeesOfOpen' = SumFunctionOnSet(OpenFees', Open')
        /\ CostOfOpen' = SumFunctionOnSet(OpenCosts', Open')
    BY DEF FeesOfOpen, CostOfOpen
  <2>2. \A x \in Open : positions'[x] = positions[x] /\ x \in Open'
    BY <1>1, <1>8 DEF Open
  <2>3. positions'[k] = stake /\ k \in Open'
    BY <1>1, <1>2, <1>8
  <2>4. /\ \A x \in Open : OpenFees[x] = OpenFees'[x] /\ OpenFees'[x] \in Int
        /\ \A x \in Open : OpenCosts[x] = OpenCosts'[x] /\ OpenCosts'[x] \in Int
        /\ OpenFees'[k] = stake.fee /\ OpenCosts'[k] = stake.size + stake.fee
    BY <1>2, <2>2, <2>3, SumsAreInt DEF OpenFees, OpenCosts
  <2> DEFINE fees == OpenFees
             newFees == OpenFees'
             costs == OpenCosts
             newCosts == OpenCosts'
             all == Open \cup {k}
  <2>5. SumFunctionOnSet(newFees, all) = newFees[k] + SumFunctionOnSet(fees, Open)
    <3>1. \A x \in all : newFees[x] \in Int
      BY <1>2, <2>4
    <3>2. \A x \in all \ {k} : fees[x] = newFees[x]
      BY <2>4
    <3>3. IsFiniteSet(all) /\ IsFiniteSet(all \ {k}) /\ k \in all
      BY OpenIsFinite, FS_AddElement, FS_RemoveElement
    <3>4. all \ {k} = Open
      BY <1>8
    <3> HIDE DEF all, fees, newFees, costs, newCosts
    <3>5. SumFunctionOnSet(newFees, all) = newFees[k] + SumFunctionOnSet(newFees, all \ {k})
      BY <3>1, <3>3, SumWithout
    <3>6. SumFunctionOnSet(fees, all \ {k}) = SumFunctionOnSet(newFees, all \ {k})
      BY <3>2, <3>3, SumOfEqual
    <3> QED
      BY <3>4, <3>5, <3>6
  <2>6. SumFunctionOnSet(newCosts, all) = newCosts[k] + SumFunctionOnSet(costs, Open)
    <3>1. \A x \in all : newCosts[x] \in Int
      BY <1>2, <2>4
    <3>2. \A x \in all \ {k} : costs[x] = newCosts[x]
      BY <2>4
    <3>3. IsFiniteSet(all) /\ IsFiniteSet(all \ {k}) /\ k \in all
      BY OpenIsFinite, FS_AddElement, FS_RemoveElement
    <3>4. all \ {k} = Open
      BY <1>8
    <3> HIDE DEF all, fees, newFees, costs, newCosts
    <3>5. SumFunctionOnSet(newCosts, all) = newCosts[k] + SumFunctionOnSet(newCosts, all \ {k})
      BY <3>1, <3>3, SumWithout
    <3>6. SumFunctionOnSet(costs, all \ {k}) = SumFunctionOnSet(newCosts, all \ {k})
      BY <3>2, <3>3, SumOfEqual
    <3> QED
      BY <3>4, <3>5, <3>6
  <2> QED
    BY <1>2, <1>8, <2>1, <2>4, <2>5, <2>6, SumsAreInt
<1>11. CountsAgree'
  <2>1. /\ Len(fills') = Len(fills) + 1 /\ Len(fills) \in Nat
        /\ \A s : /\ Cardinality(FillsOf(s)) \in Nat
                  /\ Cardinality(FillsOf(s))' =
                        Cardinality(FillsOf(s)) + (IF Strategy(k) = s THEN 1 ELSE 0)
    BY <1>1, <1>2, FillsGrow
  <2>2. \A s : TradesOf(Trades(fills), s)' = TradesOf(Trades(fills), s)
    BY <1>6 DEF TradesOf
  <2>3. 2 * Len(Trades(fills))' + Cardinality(Open)' = Len(fills)'
    <3>1. Len(Trades(fills)) \in Nat
      BY <1>3 DEF Trades, Pairs
    <3> QED
      BY <1>6, <1>9, <2>1, <3>1, OpenIsFinite DEF SumInv, CountsAgree
  <2>4. ASSUME NEW s \in Strategies
        PROVE  2 * Cardinality(TradesOf(Trades(fills), s))' + Cardinality(OpenOf(s))'
                  = Cardinality(FillsOf(s))'
    <3> DEFINE c == Cardinality(TradesOf(Trades(fills), s))
    <3>1. c \in Nat
      BY <1>3, TradesAreInt DEF Trades, Pairs
    <3>2. c' = c
      BY <2>2
    <3>3. 2 * c + Cardinality(OpenOf(s)) = Cardinality(FillsOf(s))
      BY DEF SumInv, CountsAgree
    <3> HIDE DEF c
    <3>4. 2 * c' + Cardinality(OpenOf(s))' = Cardinality(FillsOf(s))'
      BY <1>9, <2>1, <3>1, <3>2, <3>3, OpenIsFinite
    <3> QED
      BY <3>4 DEF c
  <2> QED
    BY <2>3, <2>4 DEF CountsAgree
<1>12. MoneyAgrees'
  <2>1. /\ TotalOf(FillFees) \in Int /\ TotalOf(FillFees)' = TotalOf(FillFees) + f.fee
        /\ TotalOf(PnLs(fills)) \in Int
        /\ TotalOf(PnLs(fills))' = TotalOf(PnLs(fills)) + f.pnl
    BY <1>1, <1>2, FillsGrow
  <2>2. TotalOf(TradeFees(Trades(fills)))' = TotalOf(TradeFees(Trades(fills)))
    BY <1>6 DEF TradeFees, TotalOf, RunningTotal
  <2>3. TotalOf(TradeFees(Trades(fills))) \in Int
    BY <1>3, TradesAreInt DEF Trades, Pairs
  <2>4. /\ TotalOf(TradeFees(Trades(fills)))' + FeesOfOpen' = TotalOf(FillFees)'
    BY <1>1, <1>2, <1>10, <2>1, <2>2, <2>3, SumsAreInt DEF SumInv, MoneyAgrees
  <2>5. balance' - StartingBalance + CostOfOpen' = TotalOf(PnLs(fills))'
    <3>1. /\ balance' = balance - stake.size - stake.fee
          /\ CostOfOpen' = CostOfOpen + (stake.size + stake.fee)
          /\ TotalOf(PnLs(fills))' = TotalOf(PnLs(fills)) + 0
          /\ balance - StartingBalance + CostOfOpen = TotalOf(PnLs(fills))
      BY <1>1, <1>10, <2>1 DEF SumInv, MoneyAgrees
    <3>2. /\ balance \in Int /\ CostOfOpen \in Int /\ TotalOf(PnLs(fills)) \in Int
          /\ stake.size \in Int /\ stake.fee \in Int /\ StartingBalance \in Int
      BY <1>2, <2>1, SumsAreInt, BacktestConfig DEF BacktestConfig
    <3> QED
      BY <3>1, <3>2
  <2> QED
    BY <2>4, <2>5 DEF MoneyAgrees
<1> QED
  BY <1>7, <1>11, <1>12 DEF SumInv

LEMMA CloseAddsUp ==
    ASSUME BetInv, SumInv, NEW k \in Keys, NEW price \in Prices, Close(k, price)
    PROVE  SumInv'
<1> DEFINE pairs == Pairing(fills)
           stake == positions[k]
           trade == Trade(pairs.open[k], fills'[Len(fills) + 1])
<1>1. PICK f \in Fill :
              /\ f.key = k /\ f.pnl \in Int
              /\ positions[k] \in Stake /\ positions' = [positions EXCEPT ![k] = Flat]
              /\ balance' = balance + positions[k].size + positions[k].fee + f.pnl
              /\ fills' = Append(fills, f)
              /\ history' = [history EXCEPT ![Strategy(k)] =
                                RecordTrade(history[Strategy(k)], f.pnl)]
  BY CloseEffect
<1>2. /\ positions \in [Keys -> {Flat} \cup Stake] /\ fills \in Seq(Fill) /\ balance \in Int
      /\ IsOpen(k) /\ stake.fee \in Int /\ stake.size \in Int /\ f.fee \in Int
      /\ Strategy(k) \in Strategies /\ fills'[Len(fills) + 1] = f
  BY <1>1, StakeIsInt, KeyOf, GrowsByOne DEF BetInv, Stake, Fill, IsOpen
<1> HIDE DEF pairs
<1>3. /\ pairs \in Pairs /\ Pairing(fills') = PairFill(pairs, f)
  BY <1>1, <1>2, PairingOfMore DEF pairs
<1>4. /\ pairs.open[k] # Flat /\ pairs.open[k].fee = stake.fee
      /\ pairs.open \in [Keys -> {Flat} \cup Fill] /\ pairs.open[k] \in Fill
      /\ pairs.trades \in Seq(RoundTrip)
  <2>1. pairs.open[k] # Flat /\ pairs.open[k].fee = stake.fee
    BY <1>2 DEF SumInv, OpenIsPaired, pairs
  <2>2. pairs.open \in [Keys -> {Flat} \cup Fill] /\ pairs.trades \in Seq(RoundTrip)
    BY <1>3 DEF Pairs
  <2> QED
    BY <2>1, <2>2
<1>5. trade \in RoundTrip /\ trade.strategy = Strategy(k) /\ trade.fees = stake.fee + f.fee
  BY <1>1, <1>2, <1>4, TradeIsRoundTrip
<1>6. /\ Pairing(fills').open = [pairs.open EXCEPT ![k] = Flat]
      /\ Pairing(fills').trades = Append(pairs.trades, trade)
  <2>1. Pairing(fills') = [pairs EXCEPT !.open = [pairs.open EXCEPT ![k] = Flat],
                                        !.trades = Append(pairs.trades, trade)]
    BY <1>1, <1>2, <1>3, <1>4 DEF PairFill
  <2> HIDE DEF trade
  <2> QED
    BY <1>3, <2>1 DEF Pairs
<1> HIDE DEF trade
<1>7. Trades(fills) = pairs.trades /\ Trades(fills)' = Append(pairs.trades, trade)
  <2>1. Trades(fills)' = Pairing(fills').trades
    BY DEF Trades, Pairing
  <2> QED
    BY <1>6, <2>1 DEF Trades, pairs
<1>8. OpenIsPaired'
  <2>1. Pairing(fills)' = Pairing(fills')
    BY DEF Pairing
  <2> QED
    BY <1>1, <1>2, <1>4, <1>6, <2>1 DEF SumInv, OpenIsPaired, IsOpen, pairs
<1>9. /\ Open' = Open \ {k} /\ k \in Open
      /\ \A s : OpenOf(s)' = OpenOf(s) \ {k}
      /\ \A s : k \in OpenOf(s) <=> Strategy(k) = s
  BY <1>1, <1>2 DEF Open, OpenOf, IsOpen
<1>10. /\ Cardinality(Open') = Cardinality(Open) - 1
       /\ \A s : Cardinality(OpenOf(s)') =
                    Cardinality(OpenOf(s)) - (IF Strategy(k) = s THEN 1 ELSE 0)
  <2>1. Cardinality(Open \ {k}) = Cardinality(Open) - 1
    BY <1>9, OpenIsFinite, FS_RemoveElement
  <2>2. ASSUME NEW s
        PROVE  Cardinality(OpenOf(s)') =
                  Cardinality(OpenOf(s)) - (IF Strategy(k) = s THEN 1 ELSE 0)
    <3>1. CASE k \in OpenOf(s)
      <4>1. Cardinality(OpenOf(s) \ {k}) = Cardinality(OpenOf(s)) - 1
        BY <3>1, OpenIsFinite, FS_RemoveElement
      <4> QED
        BY <1>9, <3>1, <4>1
    <3>2. CASE k \notin OpenOf(s)
      <4>1. OpenOf(s)' = OpenOf(s) /\ Strategy(k) # s
        BY <1>9, <3>2
      <4> QED
        BY <4>1, OpenSize
    <3> QED
      BY <3>1, <3>2
  <2> QED
    BY <1>9, <2>1, <2>2
<1>11. /\ FeesOfOpen' = FeesOfOpen - stake.fee
       /\ CostOfOpen' = CostOfOpen - (stake.size + stake.fee)
  <2>1. /\ FeesOfOpen = SumFunctionOnSet(OpenFees, Open)
        /\ CostOfOpen = SumFunctionOnSet(OpenCosts, Open)
        /\ FeesOfOpen' = SumFunctionOnSet(OpenFees', Open')
        /\ CostOfOpen' = SumFunctionOnSet(OpenCosts', Open')
    BY DEF FeesOfOpen, CostOfOpen
  <2>2. \A x \in Open \ {k} : positions'[x] = positions[x] /\ x \in Open'
    BY <1>1, <1>9 DEF Open
  <2>3. /\ \A x \in Open \ {k} : OpenFees[x] = OpenFees'[x]
        /\ \A x \in Open \ {k} : OpenCosts[x] = OpenCosts'[x]
    BY <2>2 DEF OpenFees, OpenCosts
  <2>4. /\ OpenFees[k] = stake.fee /\ OpenCosts[k] = stake.size + stake.fee
        /\ \A x \in Open : OpenFees[x] \in Int /\ OpenCosts[x] \in Int
    BY <1>9, SumsAreInt DEF OpenFees, OpenCosts
  <2>5. IsFiniteSet(Open) /\ IsFiniteSet(Open \ {k})
    BY OpenIsFinite, FS_RemoveElement
  <2> DEFINE fees == OpenFees
             newFees == OpenFees'
             costs == OpenCosts
             newCosts == OpenCosts'
             rest == Open \ {k}
  <2>6. SumFunctionOnSet(newFees, rest) = SumFunctionOnSet(fees, Open) - fees[k]
    <3>1. /\ \A x \in Open : fees[x] \in Int
          /\ \A x \in rest : fees[x] = newFees[x]
      BY <2>3, <2>4
    <3>2. IsFiniteSet(Open) /\ IsFiniteSet(rest) /\ k \in Open
      BY <1>9, <2>5
    <3> HIDE DEF fees, newFees, costs, newCosts
    <3>3. SumFunctionOnSet(fees, Open \ {k}) = SumFunctionOnSet(fees, Open) - fees[k]
      BY <3>1, <3>2, SumFewer
    <3> HIDE DEF rest
    <3>4. SumFunctionOnSet(fees, rest) = SumFunctionOnSet(newFees, rest)
      BY <3>1, <3>2, SumOfEqual
    <3> QED
      BY <3>3, <3>4 DEF rest
  <2>7. SumFunctionOnSet(newCosts, rest) = SumFunctionOnSet(costs, Open) - costs[k]
    <3>1. /\ \A x \in Open : costs[x] \in Int
          /\ \A x \in rest : costs[x] = newCosts[x]
      BY <2>3, <2>4
    <3>2. IsFiniteSet(Open) /\ IsFiniteSet(rest) /\ k \in Open
      BY <1>9, <2>5
    <3> HIDE DEF fees, newFees, costs, newCosts
    <3>3. SumFunctionOnSet(costs, Open \ {k}) = SumFunctionOnSet(costs, Open) - costs[k]
      BY <3>1, <3>2, SumFewer
    <3> HIDE DEF rest
    <3>4. SumFunctionOnSet(costs, rest) = SumFunctionOnSet(newCosts, rest)
      BY <3>1, <3>2, SumOfEqual
    <3> QED
      BY <3>3, <3>4 DEF rest
  <2> QED
    BY <1>9, <2>1, <2>4, <2>6, <2>7
<1>12. /\ Len(fills') = Len(fills) + 1 /\ Len(fills) \in Nat
       /\ TotalOf(FillFees) \in Int /\ TotalOf(FillFees)' = TotalOf(FillFees) + f.fee
       /\ TotalOf(PnLs(fills)) \in Int
       /\ TotalOf(PnLs(fills))' = TotalOf(PnLs(fills)) + f.pnl
       /\ \A s : /\ Cardinality(FillsOf(s)) \in Nat
                 /\ Cardinality(FillsOf(s))' =
                       Cardinality(FillsOf(s)) + (IF Strategy(k) = s THEN 1 ELSE 0)
  BY <1>1, <1>2, FillsGrow
<1>13. /\ Len(Trades(fills)') = Len(Trades(fills)) + 1 /\ Len(Trades(fills)) \in Nat
       /\ TotalOf(TradeFees(Trades(fills))) \in Int
       /\ TotalOf(TradeFees(Trades(fills)'))
             = TotalOf(TradeFees(Trades(fills))) + (stake.fee + f.fee)
       /\ \A s : /\ Cardinality(TradesOf(Trades(fills), s)) \in Nat
                 /\ Cardinality(TradesOf(Trades(fills)', s)) =
                       Cardinality(TradesOf(Trades(fills), s))
                          + (IF Strategy(k) = s THEN 1 ELSE 0)
  BY <1>4, <1>5, <1>7, TradesGrow
<1>14. CountsAgree'
  <2>1. 2 * Len(Trades(fills)') + Cardinality(Open') = Len(fills')
    BY <1>10, <1>12, <1>13, OpenIsFinite DEF SumInv, CountsAgree
  <2>2. ASSUME NEW s \in Strategies
        PROVE  2 * Cardinality(TradesOf(Trades(fills)', s)) + Cardinality(OpenOf(s)')
                  = Cardinality(FillsOf(s)')
    <3>1. 2 * Cardinality(TradesOf(Trades(fills), s)) + Cardinality(OpenOf(s))
                  = Cardinality(FillsOf(s))
      BY DEF SumInv, CountsAgree
    <3>2. /\ Cardinality(TradesOf(Trades(fills), s)) \in Nat /\ Cardinality(OpenOf(s)) \in Nat
          /\ Cardinality(FillsOf(s)) \in Nat
      BY <1>12, <1>13, OpenIsFinite
    <3> QED
      BY <1>10, <1>12, <1>13, <3>1, <3>2
  <2>3. \A s : TradesOf(Trades(fills), s)' = TradesOf(Trades(fills)', s)
    BY DEF TradesOf
  <2> QED
    BY <2>1, <2>2, <2>3 DEF CountsAgree
<1>15. MoneyAgrees'
  <2>1. TotalOf(TradeFees(Trades(fills)))' = TotalOf(TradeFees(Trades(fills)'))
    BY DEF TradeFees, TotalOf, RunningTotal
  <2>2. TotalOf(TradeFees(Trades(fills)))' + FeesOfOpen' = TotalOf(FillFees)'
    <3>1. TotalOf(TradeFees(Trades(fills))) + FeesOfOpen = TotalOf(FillFees)
      BY DEF SumInv, MoneyAgrees
    <3>2. /\ FeesOfOpen \in Int /\ TotalOf(TradeFees(Trades(fills))) \in Int
          /\ TotalOf(FillFees) \in Int /\ stake.fee \in Int /\ f.fee \in Int
      BY <1>2, <1>12, <1>13, SumsAreInt
    <3>3. /\ TotalOf(TradeFees(Trades(fills)))'
                = TotalOf(TradeFees(Trades(fills))) + (stake.fee + f.fee)
          /\ FeesOfOpen' = FeesOfOpen - stake.fee
          /\ TotalOf(FillFees)' = TotalOf(FillFees) + f.fee
      BY <1>11, <1>12, <1>13, <2>1
    <3> HIDE DEF stake
    <3> QED
      BY <3>1, <3>2, <3>3
  <2>3. balance' - StartingBalance + CostOfOpen' = TotalOf(PnLs(fills))'
    <3>1. /\ balance' = balance + stake.size + stake.fee + f.pnl
          /\ CostOfOpen' = CostOfOpen - (stake.size + stake.fee)
          /\ TotalOf(PnLs(fills))' = TotalOf(PnLs(fills)) + f.pnl
          /\ balance - StartingBalance + CostOfOpen = TotalOf(PnLs(fills))
      BY <1>1, <1>11, <1>12 DEF SumInv, MoneyAgrees
    <3>2. /\ balance \in Int /\ CostOfOpen \in Int /\ TotalOf(PnLs(fills)) \in Int
          /\ stake.size \in Int /\ stake.fee \in Int /\ f.pnl \in Int /\ StartingBalance \in Int
      BY <1>1, <1>2, <1>12, SumsAreInt, BacktestConfig DEF BacktestConfig
    <3> HIDE DEF stake
    <3> QED
      BY <3>1, <3>2
  <2> QED
    BY <2>2, <2>3 DEF MoneyAgrees
<1> QED
  BY <1>8, <1>14, <1>15 DEF SumInv

LEMMA SumInvHolds == BacktestSpec => []SumInv
<1>1. BacktestInit => SumInv
  <2> SUFFICES ASSUME BacktestInit PROVE SumInv
    OBVIOUS
  <2>1. /\ fills = <<>> /\ Len(fills) = 0 /\ balance = StartingBalance
        /\ Pairing(fills) = NoPairs /\ \A k \in Keys : positions[k] = Flat
    BY PairingOfNone DEF BacktestInit
  <2>2. /\ Trades(fills) = <<>> /\ Len(Trades(fills)) = 0
        /\ Open = {} /\ \A s : OpenOf(s) = {}
    BY <2>1 DEF Trades, NoPairs, Open, OpenOf, IsOpen
  <2>3. OpenIsPaired
    BY <2>1 DEF OpenIsPaired, NoPairs, IsOpen
  <2>4. CountsAgree
    <3>1. \A s : TradesOf(Trades(fills), s) = {} /\ FillsOf(s) = {}
      BY <2>1, <2>2 DEF TradesOf, FillsOf
    <3>2. Cardinality({}) = 0
      BY FS_EmptySet
    <3>3. /\ Len(Trades(fills)) = 0 /\ Len(fills) = 0 /\ Cardinality(Open) = 0
          /\ \A s \in Strategies : /\ Cardinality(TradesOf(Trades(fills), s)) = 0
                                   /\ Cardinality(OpenOf(s)) = 0 /\ Cardinality(FillsOf(s)) = 0
      BY <2>1, <2>2, <3>1, <3>2
    <3> QED
      BY <3>3 DEF CountsAgree
  <2>5. MoneyAgrees
    <3>1. /\ TotalOf(TradeFees(Trades(fills))) = 0 /\ TotalOf(FillFees) = 0
          /\ TotalOf(PnLs(fills)) = 0
      <4>1. /\ Len(TradeFees(Trades(fills))) = 0 /\ Len(FillFees) = 0 /\ Len(PnLs(fills)) = 0
        BY <2>1, <2>2 DEF TradeFees, FillFees, PnLs
      <4> QED
        BY <4>1, TotalOfNone DEF TotalOf
    <3>2. FeesOfOpen = 0 /\ CostOfOpen = 0
      BY <2>2, SumEmpty DEF FeesOfOpen, CostOfOpen
    <3> QED
      BY <2>1, <3>1, <3>2, BacktestConfig DEF BacktestConfig, MoneyAgrees
  <2> QED
    BY <2>3, <2>4, <2>5 DEF SumInv
<1>2. BetInv /\ SumInv /\ [BacktestNext]_backtestVars => SumInv'
  <2> SUFFICES ASSUME BetInv, SumInv, [BacktestNext]_backtestVars PROVE SumInv'
    OBVIOUS
  <2>1. CASE UNCHANGED backtestVars
    <3>1. Pairing(fills)' = Pairing(fills) /\ Open' = Open
      BY <2>1 DEF backtestVars, Pairing, Open, IsOpen
    <3>2. OpenIsPaired'
      BY <2>1, <3>1 DEF backtestVars, SumInv, OpenIsPaired, IsOpen
    <3>3. Trades(fills)' = Trades(fills)
      BY <2>1 DEF backtestVars, Trades, Pairing
    <3>4. CountsAgree'
      BY <2>1, <3>1, <3>3
      DEF backtestVars, SumInv, CountsAgree, TradesOf, FillsOf, OpenOf
    <3>5. MoneyAgrees'
      <4>1. FeesOfOpen' = FeesOfOpen /\ CostOfOpen' = CostOfOpen
        <5>1. OpenFees' = OpenFees /\ OpenCosts' = OpenCosts
          BY <2>1, <3>1 DEF backtestVars, OpenFees, OpenCosts
        <5> QED
          BY <3>1, <5>1 DEF FeesOfOpen, CostOfOpen
      <4>2. /\ TotalOf(TradeFees(Trades(fills)))' = TotalOf(TradeFees(Trades(fills)))
            /\ TotalOf(FillFees)' = TotalOf(FillFees)
            /\ TotalOf(PnLs(fills))' = TotalOf(PnLs(fills))
        BY <2>1, <3>3 DEF backtestVars, TradeFees, FillFees, PnLs, TotalOf, RunningTotal
      <4> QED
        BY <2>1, <4>1, <4>2 DEF backtestVars, SumInv, MoneyAgrees
    <3> QED
      BY <3>2, <3>4, <3>5 DEF SumInv
  <2> QED
    BY <2>1, EnterAddsUp, CloseAddsUp DEF BacktestNext
<1> QED
  BY <1>1, <1>2, BetInvHolds, PTL DEF BacktestSpec

(* The open positions aside, the summary (computeSummary) has a trade for  *)
(* every close, of the strategy that closed, all the fees, and as net P&L  *)
(* the sum of what the strategies were told: for any prices and fills.     *)
THEOREM SummaryCorrect == BacktestSpec => []SummaryAddsUp
<1>1. BetInv /\ SumInv => SummaryAddsUp
  <2> SUFFICES ASSUME BetInv, SumInv PROVE SummaryAddsUp
    OBVIOUS
  <2> DEFINE trades == Trades(fills)
  <2>1. trades \in Seq(RoundTrip) /\ fills \in Seq(Fill) /\ balance \in Int
    BY TradesTyped DEF BetInv
  <2>2. /\ Len(trades) \in Nat /\ Len(fills) \in Nat
        /\ TotalOf(TradeFees(trades)) \in Int
        /\ \A s : Cardinality(TradesOf(trades, s)) \in Nat
    BY <2>1, TradesAreInt
  <2>3. SummaryAddsUp <=>
           /\ Len(trades) = (Len(fills) - Cardinality(Open)) \div 2
           /\ \A s \in Strategies : 2 * Cardinality(TradesOf(trades, s))
                                       = Cardinality(FillsOf(s)) - Cardinality(OpenOf(s))
           /\ TotalOf(TradeFees(trades)) = TotalOf(FillFees) - FeesOfOpen
           /\ balance - StartingBalance = TotalOf(PnLs(fills)) - CostOfOpen
    BY DEF SummaryAddsUp, ComputeSummary, TradeFees, FillFees
  <2>4. Len(trades) = (Len(fills) - Cardinality(Open)) \div 2
    <3>1. Len(fills) - Cardinality(Open) = 2 * Len(trades)
      BY <2>2, OpenIsFinite DEF SumInv, CountsAgree
    <3> QED
      BY <2>2, <3>1
  <2>5. ASSUME NEW s \in Strategies
        PROVE  2 * Cardinality(TradesOf(trades, s))
                  = Cardinality(FillsOf(s)) - Cardinality(OpenOf(s))
    <3>1. 2 * Cardinality(TradesOf(trades, s)) + Cardinality(OpenOf(s))
             = Cardinality(FillsOf(s))
      BY DEF SumInv, CountsAgree
    <3>2. Cardinality(OpenOf(s)) \in Nat /\ Cardinality(TradesOf(trades, s)) \in Nat
      BY <2>2, OpenIsFinite
    <3> HIDE DEF trades
    <3> QED
      BY <3>1, <3>2
  <2>6. /\ TotalOf(TradeFees(trades)) = TotalOf(FillFees) - FeesOfOpen
        /\ balance - StartingBalance = TotalOf(PnLs(fills)) - CostOfOpen
    <3>1. /\ TotalOf(TradeFees(trades)) + FeesOfOpen = TotalOf(FillFees)
          /\ balance - StartingBalance + CostOfOpen = TotalOf(PnLs(fills))
      BY DEF SumInv, MoneyAgrees
    <3> HIDE DEF trades
    <3> QED
      BY <2>1, <2>2, <3>1, SumsAreInt, BacktestConfig DEF BacktestConfig
  <2> QED
    BY <2>3, <2>4, <2>5, <2>6
<1> QED
  BY <1>1, BetInvHolds, SumInvHolds, PTL
=============================================================================
