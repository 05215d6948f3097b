------------------------------- MODULE MCFeed -------------------------------
(* Two markets; small channels.                                            *)
EXTENDS SharedFeed

CONSTANTS m1, m2

TwoMarkets == {m1, m2}
=============================================================================
