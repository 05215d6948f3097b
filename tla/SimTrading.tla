----------------------------- MODULE SimTrading -----------------------------
(***************************************************************************)
(* Simulated trading: the strategies' loops, the signal and feedback       *)
(* channels, and the simulated executor of internal/executor/simulated.go, *)
(* as the backtest (internal/backtest/runner.go) and a dry run wire them.  *)
(*                                                                         *)
(*   strategies  one loop each, which waits while the signal channel is    *)
(*               full and then does not read its feedback;                 *)
(*   Run         the executor's loop: one signal at a time;                *)
(*   Closers     goroutines in CloseAll or CloseMarketAtPrice: the end of  *)
(*               a backtest, a market's teardown, the shutdown.            *)
(*                                                                         *)
(* Money is counted in units; sizes are such that contracts * price / One  *)
(* has no remainder.  Kelly sizes depend on the trades before: the sizer   *)
(* returns any of Sizes.                                                   *)
(***************************************************************************)
EXTENDS RiskManager, Ledger, StrategyRules

CONSTANTS Kinds,       \* strategy -> its kinds, one of which it is
          Sizes,       \* sizes the sizer returns
          FeeBPS,      \* fee_rate_bps
          SignalCap,   \* capacity of signalCh
          FeedbackCap, \* capacity of a feedback channel
          Run,         \* the executor's loop, as a goroutine that closes
          Closers,     \* goroutines that close positions, once each
          ClosePrices, \* prices closers use, 0: none
          NoEntry,
          CloseSizes, PnLs, PnLRange, PeakRange, CallbackBound, LastDay
              \* RiskGate's, for ImplementsRiskGate

ASSUME SimConfig ==
    /\ Keys \subseteq Strategies \X Markets
    /\ IsFiniteSet(Keys)
    /\ Sizes \subseteq Nat \ {0}
    /\ FeeBPS \in Nat
    /\ SignalCap \in Nat \ {0}
    /\ FeedbackCap \in Nat \ {0}
    /\ Run \notin Closers
    /\ IsFiniteSet(Closers)
    /\ ClosePrices \subseteq 0 .. One
    /\ ~OnHalt
    /\ NoPosition \notin [status : {"open", "closed"}, entryPrice : Nat, size : Nat,
                          order : {NoOrder}, side : Sides, fee : Int]
    /\ NoEntry \notin [strategy : Strategies, market : Markets, size : Sizes]

VARIABLES kind,      \* strategy -> its kind
          view,      \* key -> what the strategy believes of the market
          outbox,    \* strategy -> signals it is about to send
          signals,   \* signalCh
          feedback,  \* strategy -> its feedback channel
          positions, \* the ledger
          balance,
          job,       \* goroutine -> the signal or close it is working on
          todo,      \* closer -> positions it has still to close
          report,    \* key -> the fill computeSummary has not paired yet
          mispaired, \* a pair of fills was not an entry and its close
          overlap    \* a position was closed while something else was done to it

strategyVars == <<kind, view, outbox, signals, feedback>>
executorVars == <<positions, balance, job, todo, report, mispaired, overlap>>
simVars == <<riskVars, strategyVars, executorVars>>

Actors == {Run} \cup Closers
Strategy(k) == k[1]
Market(k) == k[2]
Waiting == [pc |-> "idle"]

SimInit ==
    /\ RiskInit
    /\ kind \in {f \in [Strategies -> KindsOfStrategy] : \A s \in Strategies : f[s] \in Kinds[s]}
    /\ view = [k \in Keys |-> Start(kind[Strategy(k)])]
    /\ outbox = [s \in Strategies |-> <<>>]
    /\ signals = <<>>
    /\ feedback = [s \in Strategies |-> <<>>]
    /\ positions = [k \in Keys |-> NoPosition]
    /\ balance = StartingBalance
    /\ job = [a \in Actors |-> Waiting]
    /\ todo = [c \in Closers |-> [listed |-> FALSE, left |-> {}]]
    /\ report = [k \in Keys |-> "none"]
    /\ mispaired = FALSE
    /\ overlap = FALSE
----------------------------------------------------------------------------
(* A strategy's loop.  One case of its select at a time.                   *)
OnSnapshot(k, snap) ==
    LET s == Strategy(k)
        done == Rule(kind[s], view[k], snap)
    IN  /\ outbox[s] = <<>>
        /\ view' = [view EXCEPT ![k] = done.state]
        /\ outbox' = [outbox EXCEPT ![s] =
                         [i \in DOMAIN done.signals |-> [key |-> k, sig |-> done.signals[i]]]]
        /\ UNCHANGED <<riskVars, kind, signals, feedback, executorVars>>

(* The send waits for room; the strategy notes what it has sent.           *)
SendSignal(s) ==
    /\ outbox[s] # <<>>
    /\ Len(signals) < SignalCap
    /\ LET next == Head(outbox[s])
       IN  /\ signals' = Append(signals, next)
           /\ view' = [view EXCEPT ![next.key] = Sent(kind[s], @, next.sig)]
    /\ outbox' = [outbox EXCEPT ![s] = Tail(@)]
    /\ UNCHANGED <<riskVars, kind, feedback, executorVars>>

OnFeedback(s) ==
    /\ outbox[s] = <<>>
    /\ feedback[s] # <<>>
    /\ LET update == Head(feedback[s])
       IN  view' = [view EXCEPT ![update.key] = Told(kind[s], @, update.status)]
    /\ feedback' = [feedback EXCEPT ![s] = Tail(@)]
    /\ UNCHANGED <<riskVars, kind, outbox, signals, executorVars>>
----------------------------------------------------------------------------
(* simulateFillPrice: half a dollar when the signal names no price.        *)
FillPrice(price) == IF price > 0 THEN price ELSE One \div 2

FeeOf(size) == (size * FeeBPS) \div 10000

(* Contracts bought for pos.size, at the close price of their side.        *)
Proceeds(pos, price) ==
    (pos.size * (IF pos.side = "BuyYes" THEN price ELSE One - price)) \div pos.entryPrice

(* computeSummary: every two fills of a key are one round trip.            *)
GoodFills == {<<"none", "entry">>, <<"none", "close">>, <<"entry", "close">>}

Fill(k, what) ==
    /\ report' = [report EXCEPT ![k] = IF @ = "none" THEN what ELSE "none"]
    /\ mispaired' = (mispaired \/ <<report[k], what>> \notin GoodFills)

(* Mutant: an update that finds the channel full is dropped.               *)
TellIfRoom(k, status) ==
    LET s == Strategy(k)
        update == [key |-> k, status |-> status]
    IN  feedback' = [feedback EXCEPT ![s] =
            IF Len(@) < FeedbackCap THEN Append(@, update) ELSE @]

(* sendFeedback: the oldest update makes room.  Its selects are one step   *)
(* here; what two senders between them can lose is in DropOldest.          *)
Tell(k, status) ==
    LET s == Strategy(k)
        update == [key |-> k, status |-> status]
    IN  feedback' = [feedback EXCEPT ![s] =
            Append(IF Len(@) < FeedbackCap THEN @ ELSE Tail(@), update)]

(* Somebody else is at work on key k.                                      *)
Contended(a, k) == \E b \in Actors \ {a} : job[b].pc # "idle" /\ job[b].key = k

GoTo(a, pc) == job' = [job EXCEPT ![a].pc = pc]
EndJob(a) == job' = [job EXCEPT ![a] = Waiting]
----------------------------------------------------------------------------
(* The Run loop, handleSignal: entries.                                    *)
NextSignal(dirs) ==
    /\ job[Run] = Waiting
    /\ signals # <<>>
    /\ Head(signals).sig.dir \in dirs
    /\ signals' = Tail(signals)

(* Mutant: the risk manager is not asked.                                  *)
AdmitEntryUnchecked(size) ==
    /\ NextSignal(Sides)
    /\ LET k == Head(signals).key
       IN  /\ ~HasOpenPosition(positions, k)
           /\ UNCHANGED riskVars
           /\ job' = [job EXCEPT ![Run] = [pc |-> "pay", key |-> k, size |-> size,
                                           sig |-> Head(signals).sig]]
           /\ overlap' = (overlap \/ Contended(Run, k))
    /\ UNCHANGED <<kind, view, outbox, feedback, positions, balance, todo, report, mispaired>>

AdmitEntry(size) ==
    /\ NextSignal(Sides)
    /\ LET k == Head(signals).key
       IN  /\ ~HasOpenPosition(positions, k)
           /\ CheckPasses(Strategy(k), Market(k), size)
           /\ job' = [job EXCEPT ![Run] = [pc |-> "pay", key |-> k, size |-> size,
                                           sig |-> Head(signals).sig]]
           /\ overlap' = (overlap \/ Contended(Run, k))
    /\ UNCHANGED <<kind, view, outbox, feedback, positions, balance, todo, report, mispaired>>

(* recordRejection: noted for the report; the strategy is told nothing.    *)
RejectEntry(size) ==
    /\ NextSignal(Sides)
    /\ LET k == Head(signals).key
       IN  \/ HasOpenPosition(positions, k) /\ UNCHANGED riskVars
           \/ /\ ~HasOpenPosition(positions, k)
              /\ CheckRejects(Strategy(k), Market(k), size)
    /\ UNCHANGED <<kind, view, outbox, feedback, executorVars>>

(* simulateEntry: the money leaves the balance, then the ledger has it.    *)
PayEntry ==
    /\ job[Run].pc = "pay"
    /\ balance' = balance - job[Run].size - FeeOf(job[Run].size)
    /\ GoTo(Run, "enter")
    /\ UNCHANGED <<riskVars, strategyVars, positions, todo, report, mispaired, overlap>>

EnterPosition ==
    LET j == job[Run]
        pos == [status |-> "open", entryPrice |-> FillPrice(j.sig.price), size |-> j.size,
                order |-> NoOrder, side |-> j.sig.dir, fee |-> FeeOf(j.size)]
    IN  /\ j.pc = "enter"
        /\ positions' = OpenPosition(positions, j.key, pos)
        /\ IF HasOpenPosition(positions, j.key) THEN EndJob(Run) ELSE GoTo(Run, "count")
        /\ UNCHANGED <<riskVars, strategyVars, balance, todo, report, mispaired, overlap>>

CountEntry ==
    /\ job[Run].pc = "count"
    /\ RecordOpen(Market(job[Run].key), job[Run].size)
    /\ GoTo(Run, "entered")
    /\ UNCHANGED <<strategyVars, positions, balance, todo, report, mispaired, overlap>>

FillEntry ==
    /\ job[Run].pc = "entered"
    /\ Fill(job[Run].key, "entry")
    /\ GoTo(Run, "tell open")
    /\ UNCHANGED <<riskVars, strategyVars, positions, balance, todo, overlap>>

TellOpen ==
    /\ job[Run].pc = "tell open"
    /\ Tell(job[Run].key, "open")
    /\ EndJob(Run)
    /\ UNCHANGED <<riskVars, kind, view, outbox, signals, positions, balance, todo, report,
                   mispaired, overlap>>
----------------------------------------------------------------------------
(* simulateClose, by the Run loop or a closer.  GetPosition also returns a *)
(* position that is closed already.                                        *)
StartClose(a, k, price) ==
    /\ job' = [job EXCEPT ![a] = [pc |-> "pay out", key |-> k, pos |-> positions[k],
                                  price |-> FillPrice(price)]]
    /\ overlap' = (overlap \/ Contended(a, k) \/ ~HasOpenPosition(positions, k))
    /\ UNCHANGED <<positions, balance, report, mispaired>>

AdmitClose ==
    /\ NextSignal({"Close"})
    /\ HasOpenPosition(positions, Head(signals).key)
    /\ StartClose(Run, Head(signals).key, Head(signals).sig.price)
    /\ UNCHANGED <<riskVars, kind, view, outbox, feedback, todo>>

(* ValidateClose fails; again the strategy is told nothing.                *)
RejectClose ==
    /\ NextSignal({"Close"})
    /\ ~HasOpenPosition(positions, Head(signals).key)
    /\ UNCHANGED <<riskVars, kind, view, outbox, feedback, executorVars>>

(* CloseAll, CloseMarketAtPrice: a list of open positions, then one by one.*)
ListPositions(c, ms) ==
    /\ ~todo[c].listed
    /\ todo' = [todo EXCEPT ![c] = [listed |-> TRUE,
                    left |-> {k \in OpenPositions(positions) : Market(k) \in ms}]]
    /\ UNCHANGED <<riskVars, strategyVars, positions, balance, job, report, mispaired, overlap>>

CloseNext(c, k, price) ==
    /\ job[c] = Waiting
    /\ k \in todo[c].left
    /\ todo' = [todo EXCEPT ![c].left = @ \ {k}]
    /\ StartClose(c, k, price)
    /\ UNCHANGED <<riskVars, strategyVars>>

(* Mutant: the entry fee is paid a second time.                            *)
PayOutWithEntryFee(a) ==
    LET j == job[a]
    IN  /\ j.pc = "pay out"
        /\ balance' = balance + Proceeds(j.pos, j.price) - FeeOf(j.pos.size) - j.pos.fee
        /\ GoTo(a, "settle")
        /\ UNCHANGED <<riskVars, strategyVars, positions, todo, report, mispaired, overlap>>

(* The proceeds reach the balance, then the risk manager.                  *)
PayOut(a) ==
    LET j == job[a]
    IN  /\ j.pc = "pay out"
        /\ balance' = balance + Proceeds(j.pos, j.price) - FeeOf(j.pos.size)
        /\ GoTo(a, "settle")
        /\ UNCHANGED <<riskVars, strategyVars, positions, todo, report, mispaired, overlap>>

PnL(j) == Proceeds(j.pos, j.price) - j.pos.size - j.pos.fee - FeeOf(j.pos.size)

(* Mutant: the exposure is released by what the position is worth now.     *)
SettleAtWorth(a) ==
    LET j == job[a]
    IN  /\ j.pc = "settle"
        /\ RecordClose(Market(j.key), Proceeds(j.pos, j.price), PnL(j))
        /\ GoTo(a, "settled")
        /\ UNCHANGED <<strategyVars, positions, balance, todo, report, mispaired, overlap>>

Settle(a) ==
    LET j == job[a]
    IN  /\ j.pc = "settle"
        /\ RecordClose(Market(j.key), j.pos.size, PnL(j))
        /\ GoTo(a, "settled")
        /\ UNCHANGED <<strategyVars, positions, balance, todo, report, mispaired, overlap>>

FillClose(a) ==
    /\ job[a].pc = "settled"
    /\ Fill(job[a].key, "close")
    /\ GoTo(a, "filled")
    /\ UNCHANGED <<riskVars, strategyVars, positions, balance, todo, overlap>>

(* Mutant: the ledger keeps the position open.                             *)
FinishKeeping(a) ==
    /\ job[a].pc = "filled"
    /\ GoTo(a, "tell closed")
    /\ UNCHANGED <<riskVars, strategyVars, positions, balance, todo, report, mispaired, overlap>>

FinishClose(a) ==
    /\ job[a].pc = "filled"
    /\ positions' = ClosePosition(positions, job[a].key)
    /\ GoTo(a, "tell closed")
    /\ UNCHANGED <<riskVars, strategyVars, balance, todo, report, mispaired, overlap>>

TellClosed(a) ==
    /\ job[a].pc = "tell closed"
    /\ Tell(job[a].key, "closed")
    /\ EndJob(a)
    /\ UNCHANGED <<riskVars, kind, view, outbox, signals, positions, balance, todo, report,
                   mispaired, overlap>>
----------------------------------------------------------------------------
StrategyStep(s) ==
    \/ \E k \in Keys : /\ Strategy(k) = s
                       /\ \E snap \in Snapshots(kind[s]) : OnSnapshot(k, snap)
    \/ SendSignal(s)
    \/ OnFeedback(s)

Close(a) == PayOut(a) \/ Settle(a) \/ FillClose(a) \/ FinishClose(a) \/ TellClosed(a)

RunStep ==
    \/ \E size \in Sizes : AdmitEntry(size) \/ RejectEntry(size)
    \/ PayEntry \/ EnterPosition \/ CountEntry \/ FillEntry \/ TellOpen
    \/ AdmitClose \/ RejectClose
    \/ Close(Run)

CloserStep(c) ==
    \/ \E ms \in {Markets} \cup {{m} : m \in Markets} : ListPositions(c, ms)
    \/ \E k \in Keys, price \in ClosePrices : CloseNext(c, k, price)
    \/ Close(c)

SimNext ==
    \/ \E s \in Strategies : StrategyStep(s)
    \/ RunStep
    \/ \E c \in Closers : CloserStep(c)

SimSpec == SimInit /\ [][SimNext]_simVars

(* No goroutine blocks but a sender, and the executor empties the channel. *)
(* Select picks among the ready cases at random, so a strategy that is     *)
(* offered an update again and again reads it.  Snapshots are not owed,    *)
(* nor is the start of a closer.                                           *)
FairSimSpec ==
    /\ SimSpec
    /\ WF_simVars(RunStep)
    /\ \A c \in Closers : WF_simVars(Close(c) \/ \E k \in Keys, p \in ClosePrices : CloseNext(c, k, p))
    /\ \A s \in Strategies : WF_simVars(SendSignal(s)) /\ SF_simVars(OnFeedback(s))
----------------------------------------------------------------------------
SimTypeOK ==
    /\ RiskTypeOK
    /\ \A k \in Keys : view[k] \in States(kind[Strategy(k)])
    /\ Len(signals) <= SignalCap
    /\ \A s \in Strategies : Len(feedback[s]) <= FeedbackCap
    /\ balance \in Int
    /\ report \in [Keys -> {"none", "entry", "close"}]

(* Positions whose close has reached the risk manager.                     *)
Settled == {k \in Keys : \E a \in Actors : /\ job[a].pc \in {"settled", "filled"}
                                           /\ job[a].key = k}
Uncounted == {k \in Keys : job[Run].pc = "count" /\ job[Run].key = k}

Held == OpenPositions(positions) \ Settled
SizeOf == [k \in OpenPositions(positions) |-> positions[k].size]
CostOf == [k \in OpenPositions(positions) |-> positions[k].size + positions[k].fee]

(* What a job has moved in the balance and not recorded elsewhere yet.     *)
Unrecorded(j) ==
    IF j.pc = "enter" THEN -(j.size + FeeOf(j.size))
    ELSE IF j.pc = "settle" THEN Proceeds(j.pos, j.price) - FeeOf(j.pos.size)
    ELSE 0
Moved == [a \in Actors |-> Unrecorded(job[a])]

(* Unless a position is closed while it is being opened or closed by       *)
(* another goroutine, the balance is what was there at the start plus the  *)
(* P&L the risk manager was told minus what the open positions cost, but   *)
(* for the money on its way, in the middle of every entry and close.       *)
BalanceIsAccounted ==
    ~overlap => balance = StartingBalance + sessionPnL - SumFunctionOnSet(CostOf, Held)
                          + SumFunctionOnSet(Moved, Actors)

(* With the same proviso the risk manager's exposure, in total and per     *)
(* market, is the size of the open positions it was told of.               *)
ExposureMatchesLedger ==
    ~overlap =>
        /\ totalExposure = SumFunctionOnSet(SizeOf, Held \ Uncounted)
        /\ \A m \in Markets : marketExposure[m] =
              SumFunctionOnSet(SizeOf, {k \in Held \ Uncounted : Market(k) = m})

(* With the same proviso, what computeSummary takes for a round trip is an *)
(* entry and the close that follows it.                                    *)
FillsPair == ~overlap => ~mispaired

(* Nothing about key k is on its way between strategy and executor.        *)
Settling(k) ==
    \/ outbox[Strategy(k)] # <<>>
    \/ feedback[Strategy(k)] # <<>>
    \/ \E i \in DOMAIN signals : signals[i].key = k
    \/ \E a \in Actors : job[a].pc # "idle" /\ job[a].key = k

(* With the same proviso, an SMA strategy that has nothing in flight knows *)
(* whether it has a position, whoever closed it.                           *)
KnowsItsPosition ==
    \A k \in Keys : ~overlap /\ kind[Strategy(k)] = "sma" /\ ~Settling(k) =>
        view[k].hasPos = HasOpenPosition(positions, k)

EntriesUnderWay(k) ==
    Cardinality({i \in DOMAIN signals : signals[i].key = k /\ signals[i].sig.dir # "Close"})
    + Cardinality({x \in {k} : job[Run].pc \in {"pay", "enter"} /\ job[Run].key = k})
    + Cardinality(OpenPositions(positions) \cap {k})

(* With the same proviso an SMA strategy never has two entries under way,  *)
(* or one and a position.                                                  *)
OneEntryAtATime ==
    \A k \in Keys : ~overlap /\ kind[Strategy(k)] = "sma" => EntriesUnderWay(k) <= 1

ClosePending(k) == kind[Strategy(k)] = "sma" /\ view[k].pendingClose

(* With the same proviso, a close an SMA strategy has sent is answered,    *)
(* also one that is rejected without a word, because whoever closed the    *)
(* position tells.                                                         *)
ClosesAreAnswered ==
    \A k \in Keys : ClosePending(k) /\ ~overlap ~> ~ClosePending(k) \/ overlap

EntryPending(k) == kind[Strategy(k)] = "sma" /\ view[k].pendingEntry

(* Documented (sma_reversion.go, StatusNone): an entry that was rejected   *)
(* is reported, so that the strategy can retry.                            *)
EntriesAreAnswered == \A k \in Keys : EntryPending(k) ~> ~EntryPending(k)

Inflight ==
    IF job[Run].pc \in {"pay", "enter", "count"}
    THEN [strategy |-> Strategy(job[Run].key), market |-> Market(job[Run].key),
          size |-> job[Run].size]
    ELSE NoEntry

Gate == INSTANCE RiskGate WITH inflight <- Inflight

(* The executor and its closers drive the risk manager as RiskGate allows. *)
ImplementsRiskGate == Gate!GateSpec
=============================================================================
