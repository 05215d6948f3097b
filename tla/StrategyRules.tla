---------------------------- MODULE StrategyRules ----------------------------
(***************************************************************************)
(* What the strategies of internal/strategy do with a snapshot of a market *)
(* and with a position update, as functions on the state they keep for     *)
(* that market.  A rule maps a state and a snapshot to the next state and  *)
(* the signals to send; Sent is what a strategy notes once the channel has *)
(* taken a signal.                                                         *)
(*                                                                         *)
(* Kinds: sma (SMAReversion) waits for the executor to confirm an entry;   *)
(* momentum, spread and decay take a signal that was sent for a position.  *)
(* Prices are cents, One the payout of a contract.                         *)
(***************************************************************************)
EXTENDS Integers, SequencesExt, FiniteSetsExt

CONSTANTS One,       \* cents
          Mids,      \* mid prices of the snapshots
          SmaPeriod, \* sma_period
          MinMid,    \* min_price
          MaxMid,    \* max_price
          StopLoss,  \* stop_loss_cents
          Ticks      \* consecutive_ticks

ASSUME RulesConfig ==
    /\ One \in Nat \ {0, 1}
    /\ Mids \subseteq 1 .. One - 1
    /\ SmaPeriod \in Nat \ {0, 1}
    /\ MinMid \in Nat /\ MaxMid \in Nat
    /\ StopLoss \in Nat
    /\ Ticks \in Nat \ {0}

KindsOfStrategy == {"sma", "momentum", "spread", "decay"}
Statuses == {"open", "closed"}
Sides == {"BuyYes", "BuyNo"}

(* A signal; price 0 when the strategy leaves it to the executor.          *)
Signal(dir, price) == [dir |-> dir, price |-> price]
Signals == [dir : Sides \cup {"Close"}, price : 0 .. One]

Quiet(st) == [state |-> st, signals |-> <<>>]
Sends(st, dir, price) == [state |-> st, signals |-> <<Signal(dir, price)>>]
----------------------------------------------------------------------------
(* SMAReversion.                                                           *)
SmaStart == [hasPos |-> FALSE, pendingEntry |-> FALSE, pendingClose |-> FALSE,
             prices |-> <<>>, above |-> "unknown", dir |-> "BuyYes", entryMid |-> 0]

SmaStates == [hasPos : BOOLEAN, pendingEntry : BOOLEAN, pendingClose : BOOLEAN,
              prices : BoundedSeq(Mids, SmaPeriod), above : {"unknown", "yes", "no"},
              dir : Sides, entryMid : Mids \cup {0}]

SmaSnapshots == [mid : Mids, nearClose : BOOLEAN]

(* Mutant: a closed position does not clear pendingClose.                  *)
SmaToldKeepingClose(st, status) ==
    IF status = "closed"
    THEN [st EXCEPT !.hasPos = FALSE, !.pendingEntry = FALSE, !.prices = <<>>,
                    !.above = "unknown"]
    ELSE [st EXCEPT !.hasPos = TRUE, !.pendingEntry = FALSE]

(* feedbackCh.  Open while a close is pending: it could not be placed.     *)
(* None: the entry was rejected.                                           *)
SmaTold(st, status) ==
    CASE status = "open" /\ st.pendingClose ->
            [st EXCEPT !.pendingClose = FALSE, !.hasPos = TRUE]
      [] status = "open" /\ ~st.pendingClose ->
            [st EXCEPT !.hasPos = TRUE, !.pendingEntry = FALSE]
      [] status = "none" ->
            [st EXCEPT !.pendingEntry = FALSE]
      [] status = "closed" ->
            [st EXCEPT !.hasPos = FALSE, !.pendingEntry = FALSE, !.pendingClose = FALSE,
                       !.prices = <<>>, !.above = "unknown"]

Resolving(mid) == mid <= 3 \/ mid >= One - 3

(* A position is given up near the market's end, even if a close is        *)
(* pending; such a snapshot does not enter the window.                     *)
SmaGivesUp(st, snap) == st.hasPos /\ (snap.nearClose \/ Resolving(snap.mid))

SmaWindow(st, mid) ==
    LET all == Append(st.prices, mid)
    IN  IF Len(all) > SmaPeriod THEN Tail(all) ELSE all

(* mid > SMA, cross-multiplied.                                            *)
IsAbove(window, mid) ==
    IF mid * Len(window) > FoldSeq(+, 0, window) THEN "yes" ELSE "no"

HitsStop(st, mid) ==
    \/ st.dir = "BuyYes" /\ st.entryMid - mid > StopLoss
    \/ st.dir = "BuyNo" /\ mid - st.entryMid > StopLoss

CrossedBack(st, above) ==
    \/ st.dir = "BuyYes" /\ above = "no"
    \/ st.dir = "BuyNo" /\ above = "yes"

(* Only a fresh crossover, inside the price band and not near the end.     *)
SmaEnters(st, snap, above) ==
    /\ st.above \notin {"unknown", above}
    /\ ~snap.nearClose
    /\ snap.mid \in MinMid .. MaxMid

SmaWaits(st, window) == Len(window) < SmaPeriod \/ st.pendingEntry \/ st.pendingClose

SmaRule(st, snap) ==
    LET window == SmaWindow(st, snap.mid)
        above  == IsAbove(window, snap.mid)
        seen   == [st EXCEPT !.prices = window, !.above = above]
    IN  CASE SmaGivesUp(st, snap) ->
                Sends(st, "Close", snap.mid)
          [] ~SmaGivesUp(st, snap) /\ SmaWaits(st, window) ->
                Quiet([st EXCEPT !.prices = window])
          [] ~SmaGivesUp(st, snap) /\ ~SmaWaits(st, window) /\ st.hasPos ->
                IF HitsStop(st, snap.mid) \/ CrossedBack(st, above)
                THEN Sends(seen, "Close", snap.mid) ELSE Quiet(seen)
          [] OTHER ->
                IF ~SmaEnters(st, snap, above) THEN Quiet(seen)
                ELSE IF above = "yes" THEN Sends(seen, "BuyYes", snap.mid)
                     ELSE Sends(seen, "BuyNo", One - snap.mid)

(* Mutant: an entry that was sent is not pending.                          *)
SmaSentOnly(st, sig) ==
    IF sig.dir = "Close" THEN [st EXCEPT !.pendingClose = TRUE]
    ELSE [st EXCEPT !.dir = sig.dir, !.entryMid = sig.price]

SmaSent(st, sig) ==
    IF sig.dir = "Close" THEN [st EXCEPT !.pendingClose = TRUE]
    ELSE [st EXCEPT !.pendingEntry = TRUE, !.dir = sig.dir,
                    !.entryMid = IF sig.dir = "BuyYes" THEN sig.price ELSE One - sig.price]
----------------------------------------------------------------------------
(* Momentum: a run of moves in one direction enters, a run against the     *)
(* position or the end of the hold duration leaves it.                     *)
MomentumStart == [hasPos |-> FALSE, dir |-> "BuyYes", up |-> 0, down |-> 0, primed |-> FALSE]

MomentumStates == [hasPos : BOOLEAN, dir : Sides, up : 0 .. Ticks, down : 0 .. Ticks,
                   primed : BOOLEAN]

MomentumSnapshots == [expired : BOOLEAN, move : {"up", "down", "flat"}]

(* Consecutive moves; only "at least Ticks" is ever asked of a counter.    *)
Counted(st, move) ==
    [st EXCEPT !.up   = IF move = "up" THEN Min({@ + 1, Ticks}) ELSE 0,
               !.down = IF move = "down" THEN Min({@ + 1, Ticks}) ELSE 0]

Reversed(st) ==
    \/ st.dir = "BuyYes" /\ st.down = Ticks
    \/ st.dir = "BuyNo" /\ st.up = Ticks

(* A reversal may close and enter on one tick: two signals.                *)
MomentumRule(st, snap) ==
    LET seen  == Counted(st, snap.move)
        exit  == IF st.hasPos /\ Reversed(seen) THEN <<Signal("Close", 0)>> ELSE <<>>
        entry == CASE st.hasPos /\ exit = <<>> -> <<>>
                   [] ~(st.hasPos /\ exit = <<>>) /\ seen.up = Ticks -> <<Signal("BuyYes", 0)>>
                   [] ~(st.hasPos /\ exit = <<>>) /\ seen.down = Ticks -> <<Signal("BuyNo", 0)>>
                   [] OTHER -> <<>>
    IN  IF st.hasPos /\ snap.expired
        THEN Sends([st EXCEPT !.up = 0, !.down = 0, !.primed = TRUE], "Close", 0)
        ELSE IF ~st.primed THEN Quiet([st EXCEPT !.primed = TRUE])
        ELSE [state |-> seen, signals |-> exit \o entry]

MomentumSent(st, sig) ==
    IF sig.dir = "Close" THEN [st EXCEPT !.hasPos = FALSE]
    ELSE [st EXCEPT !.hasPos = TRUE, !.dir = sig.dir, !.up = 0, !.down = 0]
----------------------------------------------------------------------------
(* SpreadThreshold and TimeDecay keep only whether they hold a position.   *)
(* The side bought is a choice of the snapshot (TimeDecay) or of the       *)
(* configuration (SpreadThreshold).                                        *)
HolderStart == [hasPos |-> FALSE]
HolderStates == [hasPos : BOOLEAN]

SpreadSnapshots == [spread : {"wide", "between", "narrow"}, side : Sides]

SpreadRule(st, snap) ==
    CASE st.hasPos /\ snap.spread = "narrow" -> Sends(st, "Close", 0)
      [] ~st.hasPos /\ snap.spread = "wide"  -> Sends(st, snap.side, 0)
      [] OTHER -> Quiet(st)

(* Inside the final window and with a mid beyond the skew threshold.       *)
DecaySnapshots == [triggered : BOOLEAN, side : Sides, price : Mids]

DecayRule(st, snap) ==
    IF snap.triggered /\ ~st.hasPos THEN Sends(st, snap.side, snap.price) ELSE Quiet(st)

HolderSent(st, sig) == [st EXCEPT !.hasPos = (sig.dir # "Close")]

(* momentum, spread and decay: only a lost position is news.               *)
HolderTold(st, status) ==
    IF status \in {"closed", "none"} THEN [st EXCEPT !.hasPos = FALSE] ELSE st
----------------------------------------------------------------------------
(* By kind.                                                                *)
Start(kind) == CASE kind = "sma" -> SmaStart
                 [] kind = "momentum" -> MomentumStart
                 [] OTHER -> HolderStart

States(kind) == CASE kind = "sma" -> SmaStates
                  [] kind = "momentum" -> MomentumStates
                  [] OTHER -> HolderStates

Snapshots(kind) == CASE kind = "sma" -> SmaSnapshots
                     [] kind = "momentum" -> MomentumSnapshots
                     [] kind = "spread" -> SpreadSnapshots
                     [] kind = "decay" -> DecaySnapshots

Rule(kind, st, snap) == CASE kind = "sma" -> SmaRule(st, snap)
                          [] kind = "momentum" -> MomentumRule(st, snap)
                          [] kind = "spread" -> SpreadRule(st, snap)
                          [] kind = "decay" -> DecayRule(st, snap)

Sent(kind, st, sig) == CASE kind = "sma" -> SmaSent(st, sig)
                         [] kind = "momentum" -> MomentumSent(st, sig)
                         [] OTHER -> HolderSent(st, sig)

Told(kind, st, status) == IF kind = "sma" THEN SmaTold(st, status) ELSE HolderTold(st, status)
=============================================================================
