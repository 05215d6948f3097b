------------------------------- MODULE Ledger -------------------------------
(***************************************************************************)
(* The position ledger of internal/executor/ledger.go, as operators on its *)
(* map from (strategy, market) keys to positions.  Every method holds the  *)
(* ledger's mutex for its whole body, so each is one atomic step of the    *)
(* goroutine that calls it.  The order map has no reader in the program    *)
(* and is left out.                                                        *)
(***************************************************************************)
CONSTANTS Keys,       \* positionKey: <<strategy, market>>
          NoPosition, \* GetPosition's nil
          NoOrder     \* the empty OpenOrderID

PositionOf(price, size, order) ==
    [status |-> "open", entryPrice |-> price, size |-> size, order |-> order]

HasOpenPosition(ps, k) == ps[k] # NoPosition /\ ps[k].status = "open"

OpenPositions(ps) == {k \in Keys : HasOpenPosition(ps, k)}

(* Refused when the key already has an open position.                      *)
OpenPosition(ps, k, pos) ==
    IF HasOpenPosition(ps, k) THEN ps ELSE [ps EXCEPT ![k] = pos]

(* A closed position stays in the map, with the size it had.               *)
ClosePosition(ps, k) ==
    IF ps[k] = NoPosition THEN ps
    ELSE [ps EXCEPT ![k].status = "closed", ![k].order = NoOrder]

(* Applies to closed positions too.                                        *)
UpdatePositionSize(ps, k, size) ==
    IF ps[k] = NoPosition THEN ps ELSE [ps EXCEPT ![k].size = size]
=============================================================================
