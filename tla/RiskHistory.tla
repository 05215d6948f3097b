---------------------------- MODULE RiskHistory ----------------------------
(***************************************************************************)
(* RiskGate with history variables, for the properties that relate the     *)
(* manager's state to what happened before.  The histories never restrict  *)
(* a step: every behaviour of RiskGate has one here.                       *)
(***************************************************************************)
EXTENDS RiskGate

VARIABLES opensWhileHalted, \* RecordOpen calls in the current halt
          opensToday,       \* RecordOpen calls since midnight
          bestBalance       \* highest starting balance + session P&L so far

historyVars == <<opensWhileHalted, opensToday, bestBalance>>
allVars == <<gateVars, historyVars>>

HistoryInit ==
    /\ GateInit
    /\ opensWhileHalted = 0
    /\ opensToday = 0
    /\ bestBalance = StartingBalance

NoteOpen ==
    /\ Open
    /\ opensWhileHalted' = opensWhileHalted + (IF halted THEN 1 ELSE 0)
    /\ opensToday' = opensToday + 1
    /\ UNCHANGED bestBalance

NoteClose(m, size, pnl) ==
    /\ Close(m, size, pnl)
    /\ opensWhileHalted' = IF halted' /\ ~halted THEN 0 ELSE opensWhileHalted
    /\ bestBalance' = Larger(bestBalance, StartingBalance + sessionPnL')
    /\ UNCHANGED opensToday

NoteMidnight ==
    /\ Midnight
    /\ opensToday' = 0
    /\ UNCHANGED <<opensWhileHalted, bestBalance>>

Unnoted ==
    /\ \/ \E e \in Entries : Admit(e) \/ Refuse(e)
       \/ Abandon
       \/ ResumeTrading
       \/ StartHaltCallback
    /\ UNCHANGED historyVars

HistoryNext ==
    \/ NoteOpen
    \/ \E m \in Markets, size \in CloseSizes, pnl \in PnLs : NoteClose(m, size, pnl)
    \/ NoteMidnight
    \/ Unnoted

HistorySpec == HistoryInit /\ [][HistoryNext]_allVars
----------------------------------------------------------------------------
(* Types of the gate's variables and of the histories.                     *)
HistoryTypeOK ==
    /\ GateTypeOK
    /\ opensWhileHalted \in Nat
    /\ opensToday \in Nat
    /\ bestBalance \in Nat

(* The real drawdown, cross-multiplied: best balance against the balance   *)
(* the session's recorded profits give.                                    *)
RealDrawdown == (bestBalance - (StartingBalance + sessionPnL)) * 100

(* A halt can fire while an entry is between Check and RecordOpen, so that *)
(* entry is still opened; no second one is until trading is resumed.       *)
AtMostOneOpenAfterHalt == halted => opensWhileHalted <= 1

(* The drawdown test never halts a session whose balance is less than      *)
(* MaxDrawdownPct below the best balance it had: a halt has one of the two *)
(* documented causes.                                                      *)
HaltsAreJustified ==
    [][halted' /\ ~halted => \/ sessionPnL' < SessionLossLimit
                            \/ RealDrawdown' >= MaxDrawdownPct * bestBalance']_allVars

(* Documented (POLYSNIPE_SPEC.md, global limits): once the balance is more *)
(* than max_drawdown below its peak, all trading is halted.                *)
DrawdownHalts ==
    [][/\ sessionPnL' # sessionPnL
       /\ RealDrawdown' > MaxDrawdownPct * bestBalance'
       => halted']_allVars

(* The day's counter is reset lazily, by the next check, so an entry that  *)
(* is in flight at midnight is counted for the day before and recorded in  *)
(* the new one.  However midnights, checks and records interleave, that    *)
(* costs one entry a day: never more than max_daily_trades + 1.            *)
DayExceedsCapByOneAtMost == MaxDailyTrades > 0 => opensToday <= MaxDailyTrades + 1
=============================================================================
