-------------------------------- MODULE MCSim --------------------------------
(* One strategy on one market.                                             *)
EXTENDS SimTrading

CONSTANTS s1, m1

OneStrategy == {s1}
OneMarket == {m1}
OneKey == {<<s1, m1>>}
AnyKind == [s \in Strategies |-> KindsOfStrategy]
OnlySma == [s \in Strategies |-> {"sma"}]
PositionLimits == [s \in Strategies |-> 200]
LossLimit == -40
CloseAmounts == {120}
Profits == {proceeds - 126 : proceeds \in {80, 96, 100, 120, 144, 150, 180}}
AnyPnL == -1000 .. 1000
AnyPeak == 0 .. 5000
=============================================================================
