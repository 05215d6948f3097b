------------------------------- MODULE Sizing -------------------------------
(***************************************************************************)
(* The sizers of internal/sizing.  Money is counted in units; a division   *)
(* whose result is money is cut to a unit.  The Kelly fraction itself is   *)
(* kept as a quotient of two integers, and percentages as integers.        *)
(***************************************************************************)
EXTENDS Integers

CONSTANTS MinOrder, MaxOrder, \* min_order_size, max_order_size
          FixedPercent,       \* fixed_fraction_fallback
          KellyPercent,       \* kelly_fraction
          MinSample,          \* kelly_min_sample_size
          Unit                \* one USDC

\* What Config.validate requires.
ASSUME SizingConfig ==
    /\ MinOrder \in Nat \ {0}
    /\ MaxOrder \in Nat
    /\ MinOrder <= MaxOrder
    /\ FixedPercent \in 0 .. 100
    /\ KellyPercent \in 1 .. 100
    /\ MinSample \in Nat
    /\ Unit \in Nat \ {0}

(* tradeHistory: trades won and lost, and the sums won and lost.           *)
History == [wins : Nat, losses : Nat, won : Nat, lost : Nat]
NoTrades == [wins |-> 0, losses |-> 0, won |-> 0, lost |-> 0]

Abs(x) == IF x < 0 THEN -x ELSE x

RecordTrade(h, pnl) ==
    IF pnl > 0 THEN [h EXCEPT !.wins = @ + 1, !.won = @ + Abs(pnl)]
               ELSE [h EXCEPT !.losses = @ + 1, !.lost = @ + Abs(pnl)]

Clamp(size) == IF size < MinOrder THEN MinOrder
               ELSE IF size > MaxOrder THEN MaxOrder ELSE size

(* FixedSizer.Size.                                                        *)
FixedSize(balance) == Clamp((balance * FixedPercent) \div 100)

(* Too few trades for the formula, or none that won anything.              *)
UsesFixed(h) == h.wins + h.losses < MinSample \/ h.wins = 0 \/ h.won = 0

(* b, the average win over the average loss, as Odds(h).n / Odds(h).d; the *)
(* average loss of a strategy that has lost nothing is taken to be 1.      *)
Odds(h) == IF h.losses > 0 /\ h.lost > 0
           THEN [n |-> h.won * h.losses, d |-> h.wins * h.lost]
           ELSE [n |-> h.won, d |-> h.wins * Unit]

(* Mutant: f = p * b - q, which is not divided by the odds.                *)
KellyTimesOdds(h) ==
    [n |-> h.wins * Odds(h).n - h.losses * Odds(h).d,
     d |-> (h.wins + h.losses) * Odds(h).d]

(* f = (p * b - q) / b with p = wins / total and q = losses / total.       *)
Kelly(h) ==
    [n |-> h.wins * Odds(h).n - h.losses * Odds(h).d,
     d |-> (h.wins + h.losses) * Odds(h).n]

(* KellySizer.Size.                                                        *)
Size(h, balance) ==
    IF UsesFixed(h) THEN FixedSize(balance)
    ELSE IF Kelly(h).n <= 0 THEN MinOrder
    ELSE Clamp((balance * Kelly(h).n * KellyPercent) \div (Kelly(h).d * 100))
=============================================================================
