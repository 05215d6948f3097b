----------------------------- MODULE MCBacktest -----------------------------
(* Two strategies on two markets, three prices; Kelly needs two trades.    *)
EXTENDS Backtest, TLC

CONSTANTS s1, s2, m1, m2

TwoStrategies == {s1, s2}
TwoMarkets == {m1, m2}
Alike == Permutations(TwoStrategies) \cup Permutations(TwoMarkets)
=============================================================================
