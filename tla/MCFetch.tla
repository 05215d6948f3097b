------------------------------ MODULE MCFetch -------------------------------
(* Two lists, which may share events; an event with two markets and two    *)
(* with one; a series of windows three ticks long of which the poll sees   *)
(* four at a time.                                                         *)
EXTENDS GammaFetch, TLC

CONSTANTS crypto, politics, e1, e2, e3, m1, m2, m3, m4

TwoTags == {crypto, politics}
ThreeEvents == {e1, e2, e3}
FourMarkets == {m1, m2, m3, m4}
TheirMarkets == (e1 :> {m1, m2}) @@ (e2 :> {m3}) @@ (e3 :> {m4})
Windows == {3, 6, 9, 12}

(* The lists, the two markets of e1, and the events with one market (each   *)
(* with its market) can be exchanged.                                      *)
ListPermutations == Permutations(TwoTags)
PairPermutations == Permutations({m1, m2})
EventPermutations ==
    {[e \in {e2, e3} |-> e] @@ [m \in {m3, m4} |-> m],
     (e2 :> e3) @@ (e3 :> e2) @@ (m3 :> m4) @@ (m4 :> m3)}
Alike == {p @@ q @@ r : p \in ListPermutations, q \in PairPermutations, r \in EventPermutations}
=============================================================================
