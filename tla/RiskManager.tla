---------------------------- MODULE RiskManager ----------------------------
(***************************************************************************)
(* The risk manager of internal/risk/manager.go: exposure, activity, trade *)
(* and P&L counters behind one mutex.  Every operator below is one method, *)
(* so one atomic step; the modules that extend this one decide which       *)
(* goroutine calls which method and what happens between two calls.        *)
(*                                                                         *)
(* Money is an integer number of cents-like units (shopspring/decimal is   *)
(* exact for the additions and comparisons used here).                     *)
(***************************************************************************)
EXTENDS Integers

CONSTANTS Strategies,          \* strategy identifiers
          Markets,             \* condition identifiers
          MaxTotalExposure,    \* risk.global.max_total_exposure
          MaxDailyTrades,      \* risk.global.max_daily_trades, 0: no limit
          SessionLossLimit,    \* risk.global.session_loss_limit
          MaxDrawdownPct,      \* risk.global.max_drawdown_pct, 0: no limit
          MaxExposure,         \* risk.per_market.default.max_exposure
          MaxStrategiesActive, \* risk.per_market.default, 0: no limit
          MaxPositionSize,     \* strategy -> its max_position_size
          StartingBalance,     \* balance given to NewManager
          OnHalt               \* a halt callback is set (onHalt # nil)

ASSUME RiskConfig ==
    /\ MaxTotalExposure \in Nat
    /\ MaxDailyTrades \in Nat
    /\ SessionLossLimit \in Int
    /\ MaxDrawdownPct \in Nat
    /\ MaxExposure \in Nat
    /\ MaxStrategiesActive \in Nat
    /\ MaxPositionSize \in [Strategies -> Nat]
    /\ StartingBalance \in Nat
    /\ OnHalt \in BOOLEAN

VARIABLES halted,          \* trading is halted
          haltCallbacks,   \* onHalt goroutines spawned and not yet running
          sessionPnL,
          peakBalance,
          dailyTrades,
          lastTradeDate,
          totalExposure,
          marketExposure,  \* market -> exposure
          marketActive,    \* market -> strategies counted as active
          today            \* the wall clock's day (environment)

exposureVars == <<totalExposure, marketExposure, marketActive>>
pnlVars      == <<sessionPnL, peakBalance>>
haltVars     == <<halted, haltCallbacks>>
dayVars      == <<dailyTrades, lastTradeDate>>
riskVars     == <<halted, haltCallbacks, sessionPnL, peakBalance, dailyTrades,
                  lastTradeDate, totalExposure, marketExposure, marketActive,
                  today>>

(* NewManager; a halt callback is installed before the first signal.       *)
RiskInit ==
    /\ halted = FALSE
    /\ haltCallbacks = 0
    /\ sessionPnL = 0
    /\ peakBalance = StartingBalance
    /\ dailyTrades = 0
    /\ today = 0
    /\ lastTradeDate = today
    /\ totalExposure = 0
    /\ marketExposure = [m \in Markets |-> 0]
    /\ marketActive = [m \in Markets |-> 0]

CountersOK ==
    /\ haltCallbacks \in Nat
    /\ sessionPnL \in Int
    /\ peakBalance \in Nat
    /\ dailyTrades \in Nat
    /\ today \in Nat
    /\ lastTradeDate \in Nat
    /\ totalExposure \in Nat
    /\ marketExposure \in [Markets -> Nat]
    /\ marketActive \in [Markets -> Nat]

RiskTypeOK == halted \in BOOLEAN /\ CountersOK
----------------------------------------------------------------------------
(* check: the daily counter as check() sees it after its own reset.        *)
TradesToday == IF lastTradeDate # today THEN 0 ELSE dailyTrades

(* Mutant: the counter is reset, the date is not.                          *)
ResetCounterOnly ==
    /\ dailyTrades' = TradesToday
    /\ lastTradeDate' = lastTradeDate

ResetDay ==
    /\ dailyTrades' = TradesToday
    /\ lastTradeDate' = today

(* Mutant: the signal's size is left out of the exposure tests.            *)
WithinLimitsIgnoringSize(s, m, size) ==
    /\ MaxDailyTrades > 0 => TradesToday < MaxDailyTrades
    /\ totalExposure <= MaxTotalExposure
    /\ marketExposure[m] <= MaxExposure
    /\ MaxStrategiesActive > 0 => marketActive[m] < MaxStrategiesActive
    /\ size <= MaxPositionSize[s]

(* The global, per-market and per-strategy limits of check(), in its order *)
(* (the order only selects the error text).                                *)
WithinLimits(s, m, size) ==
    /\ MaxDailyTrades > 0 => TradesToday < MaxDailyTrades
    /\ totalExposure + size <= MaxTotalExposure
    /\ marketExposure[m] + size <= MaxExposure
    /\ MaxStrategiesActive > 0 => marketActive[m] < MaxStrategiesActive
    /\ size <= MaxPositionSize[s]

(* Mutant: check() does not look at the halt flag.                         *)
CheckPassesHalted(s, m, size) ==
    /\ WithinLimits(s, m, size)
    /\ ResetDay
    /\ UNCHANGED <<exposureVars, pnlVars, haltVars, today>>

(* Check returns nil for an entry signal.                                  *)
CheckPasses(s, m, size) ==
    /\ ~halted
    /\ WithinLimits(s, m, size)
    /\ ResetDay
    /\ UNCHANGED <<exposureVars, pnlVars, haltVars, today>>

(* Check returns an error: before the day reset when halted, after it when *)
(* a limit is hit.                                                         *)
CheckRejects(s, m, size) ==
    /\ \/ halted /\ UNCHANGED dayVars
       \/ ~halted /\ ~WithinLimits(s, m, size) /\ ResetDay
    /\ UNCHANGED <<exposureVars, pnlVars, haltVars, today>>

RecordOpen(m, size) ==
    /\ totalExposure' = totalExposure + size
    /\ marketExposure' = [marketExposure EXCEPT ![m] = @ + size]
    /\ marketActive' = [marketActive EXCEPT ![m] = @ + 1]
    /\ dailyTrades' = dailyTrades + 1
    /\ UNCHANGED <<pnlVars, haltVars, lastTradeDate, today>>

(* Mutant: the IsNegative branches are missing.                            *)
LessUnclamped(a, b) == a - b

(* Subtraction that stops at zero, as RecordClose's IsNegative branches.   *)
Less(a, b) == IF a > b THEN a - b ELSE 0

Larger(a, b) == IF b > a THEN b ELSE a

(* Mutant: any fall below the peak counts as the maximal drawdown.         *)
DrawdownReachedAtOnce(peak, balance) ==
    MaxDrawdownPct > 0 /\ peak > 0 /\ balance <= peak

(* The drawdown test of RecordClose, cross-multiplied.                     *)
DrawdownReached(peak, balance) ==
    MaxDrawdownPct > 0 /\ peak > 0 /\ (peak - balance) * 100 >= MaxDrawdownPct * peak

(* triggerHalt is a no-op when already halted; otherwise it also spawns    *)
(* the onHalt goroutine, when there is one.                                *)
TriggerHalt(breached) ==
    IF breached /\ ~halted
    THEN /\ halted' = TRUE
         /\ haltCallbacks' = IF OnHalt THEN haltCallbacks + 1 ELSE haltCallbacks
    ELSE UNCHANGED haltVars

RecordClose(m, size, pnl) ==
    /\ totalExposure' = Less(totalExposure, size)
    /\ marketExposure' = [marketExposure EXCEPT ![m] = Less(@, size)]
    /\ marketActive' = [marketActive EXCEPT ![m] = Less(@, 1)]
    /\ sessionPnL' = sessionPnL + pnl
    /\ LET balance == peakBalance + sessionPnL'
       IN  /\ peakBalance' = Larger(peakBalance, balance)
           /\ TriggerHalt(\/ sessionPnL' < SessionLossLimit
                          \/ DrawdownReached(peakBalance', balance))
    /\ UNCHANGED <<dayVars, today>>

(* Resume: manual override from the dashboard.                             *)
Resume ==
    /\ halted
    /\ halted' = FALSE
    /\ UNCHANGED <<exposureVars, pnlVars, dayVars, haltCallbacks, today>>

(* The goroutine started by triggerHalt begins to run.                     *)
HaltCallbackStarts ==
    /\ haltCallbacks > 0
    /\ haltCallbacks' = haltCallbacks - 1
    /\ UNCHANGED <<exposureVars, pnlVars, dayVars, halted, today>>

(* Midnight.                                                               *)
NextDay ==
    /\ today' = today + 1
    /\ UNCHANGED <<exposureVars, pnlVars, dayVars, haltVars>>
=============================================================================
