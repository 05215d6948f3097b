----------------------------- MODULE RiskProofs -----------------------------
(***************************************************************************)
(* Proofs about RiskGate, and then about the histories of RiskHistory, for *)
(* every configuration of the limits and every set of strategies, markets, *)
(* sizes and profits.                                                      *)
(***************************************************************************)
EXTENDS RiskHistory, TLAPS


(* Subtraction stopped at zero stays a natural and never grows; the larger *)
(* of a natural and an integer is a natural that bounds both.              *)
LEMMA LessBounds ==
    ASSUME NEW a \in Nat, NEW b \in Nat
    PROVE  Less(a, b) \in Nat /\ Less(a, b) <= a
  BY DEF Less

LEMMA LargerBounds ==
    ASSUME NEW a \in Nat, NEW b \in Int
    PROVE  Larger(a, b) \in Nat /\ a <= Larger(a, b) /\ b <= Larger(a, b)
  BY DEF Larger

(* The counters RecordClose leaves, and its two halt conditions.           *)
LEMMA RecordCloseEffect ==
    ASSUME GateTypeOK,
           NEW m \in Markets, NEW size \in CloseSizes, NEW pnl \in PnLs,
           RecordClose(m, size, pnl)
    PROVE  /\ RiskTypeOK'
           /\ totalExposure' <= totalExposure
           /\ \A k \in Markets : /\ marketExposure'[k] <= marketExposure[k]
                                 /\ marketActive'[k] <= marketActive[k]
           /\ UNCHANGED <<dayVars, today>>
           /\ halted => halted'
  <1>. USE GateConfig, RiskConfig DEF GateConfig, RiskConfig, GateTypeOK, RiskTypeOK, CountersOK
  <1>1. /\ totalExposure' \in Nat
        /\ totalExposure' <= totalExposure
    BY LessBounds DEF RecordClose
  <1>2. /\ marketExposure' \in [Markets -> Nat]
        /\ marketActive' \in [Markets -> Nat]
        /\ \A k \in Markets : /\ marketExposure'[k] <= marketExposure[k]
                              /\ marketActive'[k] <= marketActive[k]
    <2>1. /\ marketExposure' = [marketExposure EXCEPT ![m] = Less(marketExposure[m], size)]
          /\ marketActive' = [marketActive EXCEPT ![m] = Less(marketActive[m], 1)]
      BY DEF RecordClose
    <2>2. /\ Less(marketExposure[m], size) \in Nat
          /\ Less(marketExposure[m], size) <= marketExposure[m]
          /\ Less(marketActive[m], 1) \in Nat
          /\ Less(marketActive[m], 1) <= marketActive[m]
      BY LessBounds
    <2>. QED  BY <2>1, <2>2
  <1>3. /\ sessionPnL' \in Int
        /\ peakBalance' \in Nat
    <2>1. sessionPnL' = sessionPnL + pnl
      BY DEF RecordClose
    <2>2. peakBalance' = Larger(peakBalance, peakBalance + sessionPnL')
      BY DEF RecordClose
    <2>. QED  BY <2>1, <2>2, LargerBounds
  <1>4. /\ UNCHANGED <<dayVars, today>>
        /\ dailyTrades' \in Nat /\ lastTradeDate' \in Nat /\ today' \in Nat
    BY DEF RecordClose, dayVars
  <1>5. /\ halted' \in BOOLEAN
        /\ halted => halted'
    BY Zenon DEF RecordClose, TriggerHalt, haltVars
  <1>6. haltCallbacks' \in Nat
    <2>1. \/ haltCallbacks' = haltCallbacks + 1
          \/ haltCallbacks' = haltCallbacks
      BY Zenon DEF RecordClose, TriggerHalt, haltVars
    <2>. QED  BY <2>1
  <1>. QED  BY <1>1, <1>2, <1>3, <1>4, <1>5, <1>6
----------------------------------------------------------------------------
LEMMA GateInitTyped ==
    ASSUME GateInit
    PROVE  GateTypeOK
  <1>. USE RiskConfig DEF RiskConfig
  <1>1. halted \in BOOLEAN
    BY DEF GateInit, RiskInit
  <1>2. CountersOK
    BY DEF GateInit, RiskInit, CountersOK
  <1>3. inflight \in Entries \cup {NoEntry}
    BY DEF GateInit
  <1>. QED  BY <1>1, <1>2, <1>3 DEF GateTypeOK, RiskTypeOK

(* The counters and the entry in flight keep their types.                  *)
THEOREM TypeCorrect == GateSpec => []GateTypeOK
  <1>. USE GateConfig, RiskConfig DEF GateConfig, RiskConfig
  <1>1. GateInit => GateTypeOK
    BY GateInitTyped
  <1>2. GateTypeOK /\ [GateNext]_gateVars => GateTypeOK'
    <2>. SUFFICES ASSUME GateTypeOK, [GateNext]_gateVars
                  PROVE  GateTypeOK'
      OBVIOUS
    <2>1. ASSUME NEW e \in Entries, Admit(e)
          PROVE  GateTypeOK'
      BY <2>1 DEF Admit, CheckPasses, ResetDay, TradesToday, GateTypeOK, RiskTypeOK, CountersOK,
                  exposureVars, pnlVars, haltVars
    <2>2. ASSUME NEW e \in Entries, Refuse(e)
          PROVE  GateTypeOK'
      BY <2>2 DEF Refuse, CheckRejects, ResetDay, TradesToday, GateTypeOK, RiskTypeOK, CountersOK,
                  exposureVars, pnlVars, haltVars, dayVars
    <2>3. CASE Abandon
      BY <2>3 DEF Abandon, GateTypeOK, RiskTypeOK, CountersOK, riskVars
    <2>4. CASE Open
      <3>1. inflight.size \in Nat /\ inflight.market \in Markets
        BY <2>4 DEF Open, GateTypeOK, Entries
      <3>2. RiskTypeOK'
        BY <2>4, <3>1 DEF Open, RecordOpen, GateTypeOK, RiskTypeOK, CountersOK,
                          pnlVars, haltVars
      <3>. QED  BY <2>4, <3>2 DEF Open, GateTypeOK
    <2>5. ASSUME NEW m \in Markets, NEW size \in CloseSizes, NEW pnl \in PnLs,
                 Close(m, size, pnl)
          PROVE  GateTypeOK'
      BY <2>5, RecordCloseEffect DEF Close, GateTypeOK
    <2>6. CASE ResumeTrading
      BY <2>6 DEF ResumeTrading, Resume, GateTypeOK, RiskTypeOK, CountersOK,
                  exposureVars, pnlVars, dayVars
    <2>7. CASE StartHaltCallback
      BY <2>7 DEF StartHaltCallback, HaltCallbackStarts, GateTypeOK, RiskTypeOK, CountersOK,
                  exposureVars, pnlVars, dayVars
    <2>8. CASE Midnight
      BY <2>8 DEF Midnight, NextDay, GateTypeOK, RiskTypeOK, CountersOK,
                  exposureVars, pnlVars, dayVars, haltVars
    <2>9. CASE UNCHANGED gateVars
      BY <2>9 DEF gateVars, riskVars, GateTypeOK, RiskTypeOK, CountersOK
    <2>. QED
      BY <2>1, <2>2, <2>3, <2>4, <2>5, <2>6, <2>7, <2>8, <2>9 DEF GateNext
  <1>. QED  BY <1>1, <1>2, PTL DEF GateSpec
----------------------------------------------------------------------------
(* While an entry is in flight there is room for it under every limit:     *)
(* nothing but RecordOpen raises a counter, and only the goroutine that    *)
(* holds the entry calls it.                                               *)
RoomForEntry ==
    inflight # NoEntry =>
        /\ totalExposure + inflight.size <= MaxTotalExposure
        /\ marketExposure[inflight.market] + inflight.size <= MaxExposure
        /\ MaxStrategiesActive > 0 => marketActive[inflight.market] < MaxStrategiesActive
        /\ MaxDailyTrades > 0 => dailyTrades < MaxDailyTrades

(* LimitsHold is not inductive: Open needs the room that Check left.       *)
LimitsInv == LimitsHold /\ RoomForEntry

LEMMA LimitsInductive ==
    ASSUME GateTypeOK, GateTypeOK', LimitsInv, [GateNext]_gateVars
    PROVE  LimitsInv'
  <1>. USE GateConfig, RiskConfig DEF GateConfig, RiskConfig
  <1>1. ASSUME NEW e \in Entries, Admit(e)
        PROVE  LimitsInv'
    <2>1. UNCHANGED <<totalExposure, marketExposure, marketActive>>
      BY <1>1 DEF Admit, CheckPasses, exposureVars
    <2>2. dailyTrades' = TradesToday /\ inflight' = e
      BY <1>1 DEF Admit, CheckPasses, ResetDay
    <2>3. WithinLimits(e.strategy, e.market, e.size)
      BY <1>1 DEF Admit, CheckPasses
    <2>4. e.market \in Markets
      BY DEF Entries
    <2>5. LimitsHold'
      BY <2>1, <2>2, <2>3 DEF LimitsInv, LimitsHold, TradesToday
    <2>6. RoomForEntry'
      BY <2>1, <2>2, <2>3, <2>4 DEF RoomForEntry, WithinLimits
    <2>. QED  BY <2>5, <2>6 DEF LimitsInv
  <1>2. ASSUME NEW e \in Entries, Refuse(e)
        PROVE  LimitsInv'
    BY <1>2 DEF Refuse, CheckRejects, ResetDay, TradesToday, LimitsInv, LimitsHold,
                RoomForEntry, GateTypeOK, RiskTypeOK, CountersOK, exposureVars, dayVars
  <1>3. CASE Abandon
    BY <1>3 DEF Abandon, riskVars, LimitsInv, LimitsHold, RoomForEntry
  <1>4. CASE Open
    <2>1. inflight.size \in Nat /\ inflight.market \in Markets /\ inflight' = NoEntry
      BY <1>4 DEF Open, GateTypeOK, Entries
    <2>2. /\ totalExposure' = totalExposure + inflight.size
          /\ marketExposure' = [marketExposure EXCEPT
                ![inflight.market] = marketExposure[inflight.market] + inflight.size]
          /\ marketActive' = [marketActive EXCEPT
                ![inflight.market] = marketActive[inflight.market] + 1]
          /\ dailyTrades' = dailyTrades + 1
      BY <1>4 DEF Open, RecordOpen
    <2>3. RoomForEntry /\ inflight # NoEntry
      BY <1>4 DEF Open, LimitsInv
    <2>4. LimitsHold'
      BY <2>1, <2>2, <2>3 DEF LimitsInv, LimitsHold, RoomForEntry, GateTypeOK, RiskTypeOK,
         CountersOK
    <2>. QED  BY <2>1, <2>4 DEF LimitsInv, RoomForEntry
  <1>5. ASSUME NEW m \in Markets, NEW size \in CloseSizes, NEW pnl \in PnLs,
               Close(m, size, pnl)
        PROVE  LimitsInv'
    <2>1. /\ totalExposure' <= totalExposure
          /\ \A k \in Markets : /\ marketExposure'[k] <= marketExposure[k]
                                /\ marketActive'[k] <= marketActive[k]
          /\ dailyTrades' = dailyTrades
          /\ inflight' = inflight
      BY <1>5, RecordCloseEffect DEF Close, dayVars
    <2>2. LimitsHold'
      BY <2>1 DEF LimitsInv, LimitsHold, GateTypeOK, RiskTypeOK, CountersOK
    <2>3. RoomForEntry'
      <3>1. CASE inflight = NoEntry
        BY <3>1, <2>1 DEF RoomForEntry
      <3>2. CASE inflight # NoEntry
        <4>1. inflight.market \in Markets /\ inflight.size \in Nat
          BY <3>2 DEF GateTypeOK, Entries
        <4>. QED  BY <3>2, <4>1, <2>1 DEF RoomForEntry, LimitsInv, GateTypeOK, RiskTypeOK, CountersOK
      <3>. QED  BY <3>1, <3>2
    <2>. QED  BY <2>2, <2>3 DEF LimitsInv
  <1>6. CASE ResumeTrading
    BY <1>6 DEF ResumeTrading, Resume, exposureVars, dayVars, LimitsInv, LimitsHold,
                RoomForEntry
  <1>7. CASE StartHaltCallback
    BY <1>7 DEF StartHaltCallback, HaltCallbackStarts, exposureVars, dayVars, LimitsInv,
                LimitsHold, RoomForEntry
  <1>8. CASE Midnight
    BY <1>8 DEF Midnight, NextDay, exposureVars, dayVars, LimitsInv, LimitsHold,
                RoomForEntry
  <1>9. CASE UNCHANGED gateVars
    BY <1>9 DEF gateVars, riskVars, LimitsInv, LimitsHold, RoomForEntry
  <1>. QED
    BY <1>1, <1>2, <1>3, <1>4, <1>5, <1>6, <1>7, <1>8, <1>9 DEF GateNext

(* Recorded exposure, active strategies and daily trades never pass their  *)
(* limits, whatever happens between Check and RecordOpen.                  *)
THEOREM LimitsSafe == GateSpec => []LimitsHold
  <1>1. GateInit => LimitsInv
    BY RiskConfig DEF RiskConfig, GateInit, RiskInit, LimitsInv, LimitsHold, RoomForEntry
  <1>2. GateTypeOK /\ GateTypeOK' /\ LimitsInv /\ [GateNext]_gateVars => LimitsInv'
    BY LimitsInductive
  <1>3. LimitsInv => LimitsHold
    BY DEF LimitsInv
  <1>. QED  BY <1>1, <1>2, <1>3, TypeCorrect, PTL DEF GateSpec
----------------------------------------------------------------------------
(* What the risk manager did before.                                       *)
(* A step with histories is a step of the gate, or leaves it alone.        *)
LEMMA StepImplementsGate ==
    ASSUME [HistoryNext]_allVars
    PROVE  [GateNext]_gateVars
  BY DEF HistoryNext, NoteOpen, NoteClose, NoteMidnight, Unnoted, GateNext, allVars

(* HistorySpec allows no step of the gate's variables that GateSpec does   *)
(* not, so what is proved of RiskGate holds here.                          *)
THEOREM HistoryImplementsGate == HistorySpec => GateSpec
  <1>1. HistoryInit => GateInit
    BY DEF HistoryInit
  <1>2. [HistoryNext]_allVars => [GateNext]_gateVars
    BY StepImplementsGate
  <1>. QED  BY <1>1, <1>2, PTL DEF HistorySpec, GateSpec

(* The histories keep their types; the best balance stays a natural.       *)
THEOREM HistoryTypeCorrect == HistorySpec => []HistoryTypeOK
  <1>. USE GateConfig, RiskConfig DEF GateConfig, RiskConfig
  <1>1. HistoryInit => HistoryTypeOK
    <2>1. HistoryInit => bestBalance \in Nat /\ opensWhileHalted \in Nat /\ opensToday \in Nat
      BY DEF HistoryInit
    <2>2. HistoryInit => GateTypeOK
      BY GateInitTyped DEF HistoryInit
    <2>. QED  BY <2>1, <2>2 DEF HistoryTypeOK
  <1>2. ASSUME HistoryTypeOK, GateTypeOK', [HistoryNext]_allVars
        PROVE  HistoryTypeOK'
    <2>1. CASE NoteOpen
      BY <1>2, <2>1 DEF NoteOpen, HistoryTypeOK
    <2>2. ASSUME NEW m \in Markets, NEW size \in CloseSizes, NEW pnl \in PnLs,
                 NoteClose(m, size, pnl)
          PROVE  HistoryTypeOK'
      <3>1. bestBalance \in Nat /\ StartingBalance + sessionPnL' \in Int
        BY <1>2 DEF HistoryTypeOK, GateTypeOK, RiskTypeOK, CountersOK
      <3>2. bestBalance' = Larger(bestBalance, StartingBalance + sessionPnL')
        BY <2>2 DEF NoteClose
      <3>3. bestBalance' \in Nat
        BY <3>1, <3>2, LargerBounds
      <3>. QED  BY <1>2, <2>2, <3>3 DEF NoteClose, HistoryTypeOK
    <2>3. CASE NoteMidnight
      BY <1>2, <2>3 DEF NoteMidnight, HistoryTypeOK
    <2>4. CASE Unnoted
      BY <1>2, <2>4 DEF Unnoted, historyVars, HistoryTypeOK
    <2>5. CASE UNCHANGED allVars
      BY <1>2, <2>5 DEF allVars, historyVars, HistoryTypeOK
    <2>. QED  BY <1>2, <2>1, <2>2, <2>3, <2>4, <2>5 DEF HistoryNext
  <1>3. HistoryTypeOK /\ GateTypeOK' /\ [HistoryNext]_allVars => HistoryTypeOK'
    BY <1>2
  <1>. QED
    BY <1>1, <1>3, HistoryImplementsGate, TypeCorrect, PTL DEF HistorySpec
----------------------------------------------------------------------------
(* A halted manager has recorded no open in this halt, or one that was in  *)
(* flight when the halt fired and is not in flight any more.               *)
HaltInv ==
    halted => /\ opensWhileHalted <= 1
              /\ inflight # NoEntry => opensWhileHalted = 0

LEMMA HaltInductive ==
    ASSUME HistoryTypeOK, HaltInv, [HistoryNext]_allVars
    PROVE  HaltInv'
  <1>1. CASE NoteOpen
    <2>1. inflight' = NoEntry /\ halted' = halted /\ inflight # NoEntry
      BY <1>1 DEF NoteOpen, Open, RecordOpen, haltVars
    <2>2. halted => opensWhileHalted' = opensWhileHalted + 1
      BY <1>1 DEF NoteOpen
    <2>. QED  BY <2>1, <2>2 DEF HaltInv
  <1>2. ASSUME NEW m \in Markets, NEW size \in CloseSizes, NEW pnl \in PnLs,
               NoteClose(m, size, pnl)
        PROVE  HaltInv'
    <2>1. inflight' = inflight
      BY <1>2 DEF NoteClose, Close
    <2>2. CASE halted' /\ ~halted
      <3>1. opensWhileHalted' = 0
        BY <1>2, <2>2 DEF NoteClose
      <3>. QED  BY <3>1 DEF HaltInv
    <2>3. CASE ~(halted' /\ ~halted)
      <3>1. opensWhileHalted' = opensWhileHalted
        BY <1>2, <2>3 DEF NoteClose
      <3>. QED  BY <2>1, <2>3, <3>1 DEF HaltInv
    <2>. QED  BY <2>2, <2>3
  <1>3. CASE NoteMidnight
    BY <1>3 DEF NoteMidnight, Midnight, NextDay, haltVars, HaltInv
  <1>4. ASSUME NEW e \in Entries, Admit(e), UNCHANGED historyVars
        PROVE  HaltInv'
    BY <1>4 DEF Admit, CheckPasses, haltVars, HaltInv
  <1>5. ASSUME NEW e \in Entries, Refuse(e), UNCHANGED historyVars
        PROVE  HaltInv'
    BY <1>5 DEF Refuse, CheckRejects, haltVars, historyVars, HaltInv
  <1>6. CASE Abandon /\ UNCHANGED historyVars
    BY <1>6 DEF Abandon, riskVars, historyVars, HaltInv
  <1>7. CASE ResumeTrading /\ UNCHANGED historyVars
    BY <1>7 DEF ResumeTrading, Resume, HaltInv
  <1>8. CASE StartHaltCallback /\ UNCHANGED historyVars
    BY <1>8 DEF StartHaltCallback, HaltCallbackStarts, historyVars, HaltInv
  <1>9. CASE UNCHANGED allVars
    BY <1>9 DEF allVars, gateVars, riskVars, historyVars, HaltInv
  <1>. QED
    BY <1>1, <1>2, <1>3, <1>4, <1>5, <1>6, <1>7, <1>8, <1>9 DEF HistoryNext, Unnoted

(* At most one open is recorded between a halt and the next Resume.        *)
THEOREM HaltStopsEntries == HistorySpec => []AtMostOneOpenAfterHalt
  <1>1. HistoryInit => HaltInv
    BY DEF HistoryInit, GateInit, RiskInit, HaltInv
  <1>2. HistoryTypeOK /\ HaltInv /\ [HistoryNext]_allVars => HaltInv'
    BY HaltInductive
  <1>3. HaltInv => AtMostOneOpenAfterHalt
    BY DEF HaltInv, AtMostOneOpenAfterHalt
  <1>. QED  BY <1>1, <1>2, <1>3, HistoryTypeCorrect, PTL DEF HistorySpec
----------------------------------------------------------------------------
(* The peak the manager keeps is never below the best balance the session  *)
(* really had, which is never below the starting balance.                  *)
PeakInv ==
    /\ StartingBalance <= bestBalance
    /\ bestBalance <= peakBalance

LEMMA MulMonotone ==
    ASSUME NEW a \in Nat, NEW b \in Nat, NEW c \in Nat, a <= b
    PROVE  c * a <= c * b
  OBVIOUS

(* The arithmetic of one RecordClose: the new best balance, the new peak,  *)
(* and the drawdown the manager computes, which is at most the real one.   *)
LEMMA DrawdownArithmetic ==
    ASSUME NEW start \in Nat, NEW best \in Nat, NEW peak \in Nat, NEW pnl \in Int,
           NEW pct \in Nat,
           start <= best, best <= peak
    PROVE  /\ start <= Larger(best, start + pnl)
           /\ Larger(best, start + pnl) <= Larger(peak, peak + pnl)
           /\ (/\ pct > 0
               /\ Larger(peak, peak + pnl) > 0
               /\ (Larger(peak, peak + pnl) - (peak + pnl)) * 100
                     >= pct * Larger(peak, peak + pnl))
              => (Larger(best, start + pnl) - (start + pnl)) * 100
                    >= pct * Larger(best, start + pnl)
  <1>. DEFINE best2 == Larger(best, start + pnl)
              peak2 == Larger(peak, peak + pnl)
  <1>1. /\ best2 \in Nat /\ peak2 \in Nat
        /\ start <= best2 /\ best2 <= peak2
        /\ pnl > 0 => peak2 = peak + pnl
        /\ pnl <= 0 => peak2 = peak /\ best2 >= start
    BY DEF Larger
  <1>. HIDE DEF best2, peak2
  <1>2. ASSUME pct > 0, peak2 > 0, (peak2 - (peak + pnl)) * 100 >= pct * peak2
        PROVE  (best2 - (start + pnl)) * 100 >= pct * best2
    <2>1. pct * best2 <= pct * peak2
      BY <1>1, MulMonotone
    <2>2. pct * best2 \in Nat /\ pct * peak2 \in Nat
      BY <1>1
    <2>3. pct * peak2 > 0
      BY <1>1, <1>2
    <2>4. pnl <= 0
      BY <1>1, <1>2, <2>2, <2>3
    <2>. QED  BY <1>1, <1>2, <2>1, <2>2, <2>4
  <1>. QED  BY <1>1, <1>2 DEF best2, peak2

LEMMA CloseKeepsPeak ==
    ASSUME HistoryTypeOK, HistoryTypeOK', PeakInv,
           NEW m \in Markets, NEW size \in CloseSizes, NEW pnl \in PnLs,
           NoteClose(m, size, pnl)
    PROVE  /\ PeakInv'
           /\ halted' /\ ~halted =>
                 \/ sessionPnL' < SessionLossLimit
                 \/ RealDrawdown' >= MaxDrawdownPct * bestBalance'
  <1>. USE GateConfig, RiskConfig DEF GateConfig, RiskConfig
  <1>1. /\ StartingBalance \in Nat /\ MaxDrawdownPct \in Nat
        /\ bestBalance \in Nat /\ bestBalance' \in Nat
        /\ peakBalance \in Nat /\ peakBalance' \in Nat
        /\ sessionPnL' \in Int
    BY DEF HistoryTypeOK, GateTypeOK, RiskTypeOK, CountersOK
  <1>2. /\ bestBalance' = Larger(bestBalance, StartingBalance + sessionPnL')
        /\ peakBalance' = Larger(peakBalance, peakBalance + sessionPnL')
    BY DEF NoteClose, Close, RecordClose
  <1>3. halted' /\ ~halted =>
           \/ sessionPnL' < SessionLossLimit
           \/ DrawdownReached(peakBalance', peakBalance + sessionPnL')
    BY Zenon DEF NoteClose, Close, RecordClose, TriggerHalt, haltVars
  <1>4. /\ PeakInv'
        /\ DrawdownReached(peakBalance', peakBalance + sessionPnL')
              => RealDrawdown' >= MaxDrawdownPct * bestBalance'
    <2>1. StartingBalance <= bestBalance /\ bestBalance <= peakBalance
      BY DEF PeakInv
    <2>2. /\ StartingBalance <= bestBalance'
          /\ bestBalance' <= peakBalance'
          /\ (/\ MaxDrawdownPct > 0
              /\ peakBalance' > 0
              /\ (peakBalance' - (peakBalance + sessionPnL')) * 100
                    >= MaxDrawdownPct * peakBalance')
             => (bestBalance' - (StartingBalance + sessionPnL')) * 100
                   >= MaxDrawdownPct * bestBalance'
      BY <1>1, <1>2, <2>1, DrawdownArithmetic
    <2>. QED  BY <2>2, Zenon DEF PeakInv, DrawdownReached, RealDrawdown
  <1>. QED  BY <1>3, <1>4

(* Every halt has a documented cause: the session loss limit, or a real    *)
(* drawdown of at least max_drawdown from the best balance reached.        *)
THEOREM HaltsJustified == HistorySpec => HaltsAreJustified
  <1>. DEFINE Justified ==
         halted' /\ ~halted => \/ sessionPnL' < SessionLossLimit
                               \/ RealDrawdown' >= MaxDrawdownPct * bestBalance'
  <1>1. HistoryInit => PeakInv
    BY RiskConfig DEF RiskConfig, HistoryInit, GateInit, RiskInit, PeakInv
  <1>2. ASSUME HistoryTypeOK, HistoryTypeOK', PeakInv, [HistoryNext]_allVars
        PROVE  PeakInv' /\ Justified
    <2>1. ASSUME NEW m \in Markets, NEW size \in CloseSizes, NEW pnl \in PnLs,
                 NoteClose(m, size, pnl)
          PROVE  PeakInv' /\ Justified
      BY <1>2, <2>1, CloseKeepsPeak, Zenon
    <2>2. ASSUME UNCHANGED <<bestBalance, peakBalance>>, halted' => halted
          PROVE  PeakInv' /\ Justified
      BY <1>2, <2>2 DEF PeakInv
    <2>3. ASSUME NEW e \in Entries, Admit(e) \/ Refuse(e), UNCHANGED historyVars
          PROVE  UNCHANGED <<bestBalance, peakBalance>> /\ (halted' => halted)
      BY <2>3 DEF Admit, Refuse, CheckPasses, CheckRejects, pnlVars, haltVars, historyVars
    <2>4. ASSUME \/ (Abandon \/ ResumeTrading \/ StartHaltCallback) /\ UNCHANGED historyVars
                 \/ NoteOpen
                 \/ NoteMidnight
                 \/ UNCHANGED allVars
          PROVE  UNCHANGED <<bestBalance, peakBalance>> /\ (halted' => halted)
      BY <2>4 DEF Abandon, NoteOpen, Open, RecordOpen, ResumeTrading, Resume,
                  StartHaltCallback, HaltCallbackStarts, NoteMidnight, Midnight, NextDay,
                  allVars, gateVars, riskVars, pnlVars, haltVars, historyVars
    <2>. QED  BY <1>2, <2>1, <2>2, <2>3, <2>4 DEF HistoryNext, Unnoted
  <1>3. HistoryTypeOK /\ HistoryTypeOK' /\ PeakInv /\ [HistoryNext]_allVars => PeakInv'
    BY <1>2
  <1>4. HistoryTypeOK /\ HistoryTypeOK' /\ PeakInv /\ [HistoryNext]_allVars
          => [Justified]_allVars
    BY <1>2
  <1>. QED
    BY <1>1, <1>3, <1>4, HistoryTypeCorrect, PTL DEF HistorySpec, HaltsAreJustified
----------------------------------------------------------------------------
(* While no check has run today, at most the entry that was in flight at   *)
(* midnight has been recorded; afterwards the counter misses at most that  *)
(* one.                                                                    *)
DayInv ==
    /\ lastTradeDate <= today
    /\ lastTradeDate = today => opensToday <= dailyTrades + 1
    /\ lastTradeDate # today => /\ opensToday <= 1
                                /\ inflight # NoEntry => opensToday = 0

LEMMA DayInductive ==
    ASSUME HistoryTypeOK, DayInv, [HistoryNext]_allVars
    PROVE  DayInv'
  <1>0. dailyTrades \in Nat /\ lastTradeDate \in Nat /\ today \in Nat /\ opensToday \in Nat
    BY DEF HistoryTypeOK, GateTypeOK, RiskTypeOK, CountersOK
  <1>1. CASE NoteOpen
    <2>1. /\ inflight # NoEntry /\ inflight' = NoEntry
          /\ dailyTrades' = dailyTrades + 1
          /\ UNCHANGED <<lastTradeDate, today>>
          /\ opensToday' = opensToday + 1
      BY <1>1 DEF NoteOpen, Open, RecordOpen
    <2>. QED  BY <1>0, <2>1 DEF DayInv
  <1>2. ASSUME UNCHANGED <<dailyTrades, lastTradeDate, today, inflight, opensToday>>
        PROVE  DayInv'
    BY <1>2 DEF DayInv
  <1>3. ASSUME NEW m \in Markets, NEW size \in CloseSizes, NEW pnl \in PnLs,
               NoteClose(m, size, pnl)
        PROVE  DayInv'
    BY <1>2, <1>3 DEF NoteClose, Close, RecordClose, dayVars
  <1>4. CASE NoteMidnight
    <2>1. today' = today + 1 /\ opensToday' = 0 /\ lastTradeDate' = lastTradeDate
      BY <1>4 DEF NoteMidnight, Midnight, NextDay, dayVars
    <2>. QED  BY <1>0, <2>1 DEF DayInv
  <1>5. ASSUME ResetDay, inflight = NoEntry, today' = today, opensToday' = opensToday
        PROVE  DayInv'
    <2>0. today' = today /\ opensToday' = opensToday
      BY <1>5
    <2>1. lastTradeDate' = today /\ dailyTrades' \in Nat
      BY <1>0, <1>5 DEF ResetDay, TradesToday
    <2>2. CASE lastTradeDate = today
      BY <1>0, <1>5, <2>1, <2>2 DEF ResetDay, TradesToday, DayInv
    <2>3. CASE lastTradeDate # today
      <3>1. opensToday <= 1
        BY <2>3 DEF DayInv
      <3>2. lastTradeDate' = today'
        BY <2>0, <2>1
      <3>3. today' \in Nat
        BY <1>0, <2>0
      <3>4. opensToday' <= dailyTrades' + 1
        <4>1. opensToday' \in Nat /\ opensToday' <= 1
          BY <1>0, <2>0, <3>1
        <4>2. dailyTrades' \in Nat
          BY <2>1
        <4>3. \A x, y \in Nat : x <= 1 => x <= y + 1
          OBVIOUS
        <4>. QED  BY <4>1, <4>2, <4>3, Zenon
      <3>. QED  BY <3>2, <3>3, <3>4 DEF DayInv
    <2>. QED  BY <2>2, <2>3
  <1>6. ASSUME NEW e \in Entries, Admit(e), UNCHANGED historyVars
        PROVE  DayInv'
    BY <1>5, <1>6 DEF Admit, CheckPasses, historyVars
  <1>7. ASSUME NEW e \in Entries, Refuse(e), UNCHANGED historyVars
        PROVE  DayInv'
    <2>1. CASE UNCHANGED dayVars
      BY <1>2, <1>7, <2>1 DEF Refuse, CheckRejects, dayVars, historyVars
    <2>2. CASE ResetDay
      BY <1>5, <1>7, <2>2 DEF Refuse, CheckRejects, historyVars
    <2>. QED  BY <1>7, <2>1, <2>2 DEF Refuse, CheckRejects
  <1>8. CASE Abandon /\ UNCHANGED historyVars
    BY <1>8 DEF Abandon, riskVars, historyVars, DayInv
  <1>9. CASE (ResumeTrading \/ StartHaltCallback) /\ UNCHANGED historyVars
    BY <1>2, <1>9 DEF ResumeTrading, Resume, StartHaltCallback, HaltCallbackStarts,
                      dayVars, historyVars
  <1>10. CASE UNCHANGED allVars
    BY <1>2, <1>10 DEF allVars, gateVars, riskVars, historyVars
  <1>. QED
    BY <1>1, <1>3, <1>4, <1>6, <1>7, <1>8, <1>9, <1>10 DEF HistoryNext, Unnoted

(* No interleaving of midnights, checks and records gives a day more than  *)
(* max_daily_trades + 1 entries.                                           *)
THEOREM DayCapNearlyHolds == HistorySpec => []DayExceedsCapByOneAtMost
  <1>1. HistoryInit => DayInv
    BY RiskConfig DEF RiskConfig, HistoryInit, GateInit, RiskInit, DayInv
  <1>2. HistoryTypeOK /\ DayInv /\ [HistoryNext]_allVars => DayInv'
    BY DayInductive
  <1>3. HistoryTypeOK /\ DayInv /\ LimitsHold => DayExceedsCapByOneAtMost
    BY RiskConfig DEF RiskConfig, DayInv, LimitsHold, DayExceedsCapByOneAtMost,
                      HistoryTypeOK, GateTypeOK, RiskTypeOK, CountersOK
  <1>4. HistorySpec => []LimitsHold
    BY HistoryImplementsGate, LimitsSafe, PTL
  <1>. QED  BY <1>1, <1>2, <1>3, <1>4, HistoryTypeCorrect, PTL DEF HistorySpec
=============================================================================
