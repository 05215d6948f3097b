------------------------------- MODULE MCLive -------------------------------
(* One or two strategies on one market.                                    *)
EXTENDS LiveExecutor, TLC

CONSTANTS s1, s2, m1

OneStrategy == {s1}
TwoStrategies == {s1, s2}
OneMarket == {m1}
OneKey == {<<s1, m1>>}
TwoKeys == {<<s1, m1>>, <<s2, m1>>}
PositionLimits == [s \in Strategies |-> 10]
LossLimit == -1
AnyPnL == -100 .. 100
AnyPeak == 0 .. 100
NoFaults == {}
Interchangeable == Permutations({s1, s2})
ContractSums == {0, 3, 6, 9, 12}
Profits == -12 .. 8
=============================================================================
