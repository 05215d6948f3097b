------------------------------ MODULE RiskGate ------------------------------
(***************************************************************************)
(* What the risk manager promises to whoever drives it the way the         *)
(* executors do: one executor goroutine asks Check, leaves the lock, talks *)
(* to the exchange for an arbitrary time, and only then calls RecordOpen;  *)
(* meanwhile monitor goroutines call RecordClose, the dashboard calls      *)
(* Resume, halt callbacks start and midnight passes.                       *)
(*                                                                         *)
(* LiveExecutor implements this specification; RiskHistory adds history    *)
(* variables to it.                                                        *)
(***************************************************************************)
EXTENDS RiskManager

CONSTANTS Sizes,         \* sizes the sizer returns
          CloseSizes,    \* sizes RecordClose is called with
          PnLs,          \* profits RecordClose is called with
          NoEntry,       \* no entry between Check and RecordOpen
          PnLRange,      \* bound: session P&L values explored
          PeakRange,     \* bound: peak balances explored
          CallbackBound, \* bound: halt callbacks waiting when trading resumes
          LastDay        \* bound: days

ASSUME GateConfig ==
    /\ Sizes \subseteq Nat
    /\ CloseSizes \subseteq Nat
    /\ PnLs \subseteq Int
    /\ NoEntry \notin [strategy : Strategies, market : Markets, size : Sizes]

VARIABLE inflight  \* the entry that passed Check and is not recorded yet

gateVars == <<riskVars, inflight>>

Entries == [strategy : Strategies, market : Markets, size : Sizes]

GateInit == RiskInit /\ inflight = NoEntry
----------------------------------------------------------------------------
(* handleSignal: the entry passes Check; the order is about to be placed.  *)
Admit(e) ==
    /\ inflight = NoEntry
    /\ CheckPasses(e.strategy, e.market, e.size)
    /\ inflight' = e

Refuse(e) ==
    /\ inflight = NoEntry
    /\ CheckRejects(e.strategy, e.market, e.size)
    /\ UNCHANGED inflight

(* placeEntryOrder returned an error: nothing was recorded.                *)
Abandon ==
    /\ inflight # NoEntry
    /\ inflight' = NoEntry
    /\ UNCHANGED riskVars

(* placeEntryOrder reached RecordOpen.                                     *)
Open ==
    /\ inflight # NoEntry
    /\ RecordOpen(inflight.market, inflight.size)
    /\ inflight' = NoEntry

(* A monitor goroutine, or a close that could not be placed, calls         *)
(* RecordClose, at any moment.                                             *)
Close(m, size, pnl) ==
    /\ RecordClose(m, size, pnl)
    /\ sessionPnL' \in PnLRange
    /\ peakBalance' \in PeakRange
    /\ UNCHANGED inflight

ResumeTrading ==
    /\ haltCallbacks < CallbackBound
    /\ Resume
    /\ UNCHANGED inflight

StartHaltCallback ==
    /\ HaltCallbackStarts
    /\ UNCHANGED inflight

Midnight ==
    /\ today < LastDay
    /\ NextDay
    /\ UNCHANGED inflight

GateNext ==
    \/ \E e \in Entries : Admit(e) \/ Refuse(e)
    \/ Abandon
    \/ Open
    \/ \E m \in Markets, size \in CloseSizes, pnl \in PnLs : Close(m, size, pnl)
    \/ ResumeTrading
    \/ StartHaltCallback
    \/ Midnight

GateSpec == GateInit /\ [][GateNext]_gateVars
----------------------------------------------------------------------------
(* Types of the manager's counters and of the entry in flight.             *)
GateTypeOK == RiskTypeOK /\ inflight \in Entries \cup {NoEntry}

(* Check and RecordOpen are two critical sections with a network call      *)
(* between them.  The limits Check tested still hold when RecordOpen has   *)
(* run: recorded exposure, per market and in total, the strategies counted *)
(* on a market and the day's trades never pass their limits.               *)
LimitsHold ==
    /\ totalExposure <= MaxTotalExposure
    /\ \A m \in Markets :
          /\ marketExposure[m] <= MaxExposure
          /\ MaxStrategiesActive > 0 => marketActive[m] <= MaxStrategiesActive
    /\ MaxDailyTrades > 0 => dailyTrades <= MaxDailyTrades
=============================================================================
