------------------------------- MODULE MCOrch -------------------------------
(* Two or three markets.                                                   *)
EXTENDS Orchestrator, TLC

CONSTANTS m1, m2, m3

TwoMarkets == {m1, m2}
Interchangeable == Permutations({m1, m2})
ThreeMarkets == {m1, m2, m3}
=============================================================================
