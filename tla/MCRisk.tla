------------------------------- MODULE MCRisk -------------------------------
(* Two strategies with different position limits on two markets.           *)
EXTENDS RiskHistory, TLC

CONSTANTS s1, s2, m1, m2

MCStrategies == {s1, s2}
MCMarkets == {m1, m2}
MCMaxPositionSize == (s1 :> 1) @@ (s2 :> 2)
MCPnLs == {-2, 0, 3}
MCPnLRange == -3 .. 3
MCPeakRange == 0 .. 13
MCSessionLossLimit == -2
MCLowLossLimit == -100
=============================================================================
