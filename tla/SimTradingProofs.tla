-------------------------- MODULE SimTradingProofs --------------------------
(***************************************************************************)
(* Simulated trading, for every configuration, mix of strategies, channel  *)
(* capacity and set of closers: it implements RiskGate (whose own bounds   *)
(* on profits and peaks are taken away first: Unbounded); the money adds   *)
(* up in the middle of every entry and close (MoneyInv); the talk between  *)
(* strategies and executor keeps its types (TalkInv); a strategy enters    *)
(* once at a time and knows its position (OneInv, KnowsInv).               *)
(***************************************************************************)
EXTENDS SimTrading, Sums

Unbounded ==
    /\ CloseSizes = Nat /\ PnLs = Int
    /\ PnLRange = Int /\ PeakRange = Nat

Order == [dir : Sides \cup {"Close"}, price : Nat]
Message == [key : Keys, sig : Order]

Position == [status : {"open", "closed"}, entryPrice : Nat \ {0}, size : Nat,
             order : {NoOrder}, side : Sides, fee : Int]

EntryJob == [pc : {"pay", "enter", "count", "entered", "tell open"}, key : Keys, size : Sizes,
             sig : [dir : Sides, price : Nat]]
CloseJob == [pc : {"pay out", "settle", "settled", "filled", "tell closed"}, key : Keys,
             pos : Position, price : Nat]
JobState == {Waiting} \cup EntryJob \cup CloseJob

Ledgers == [Keys -> {NoPosition} \cup Position]

PnLType == sessionPnL \in Int /\ peakBalance \in Nat
KindType == kind \in [Strategies -> KindsOfStrategy]
MessagesType == outbox \in [Strategies -> Seq(Message)] /\ signals \in Seq(Message)
LedgerType == positions \in Ledgers
JobType == job \in [Actors -> JobState]
TodoType == todo \in [Closers -> [listed : BOOLEAN, left : SUBSET Keys]]

(* What a closer has listed was in the ledger, and stays there.            *)
ClosersKnow == \A c \in Closers : \A k \in todo[c].left : positions[k] \in Position

SimInv ==
    /\ PnLType /\ KindType /\ MessagesType /\ LedgerType /\ JobType /\ TodoType
    /\ ClosersKnow
----------------------------------------------------------------------------
(* The strategies send signals with a direction and a price.               *)
LEMMA OneSignal ==
    ASSUME NEW dir \in Sides \cup {"Close"}, NEW price \in Nat
    PROVE  Signal(dir, price) \in Order /\ <<Signal(dir, price)>> \in Seq(Order)
BY DEF Signal, Order

LEMMA MidIsPrice ==
    ASSUME NEW mid \in Mids PROVE mid \in Nat /\ One - mid \in Nat
<1>1. One \in Nat /\ mid \in 1 .. One - 1
  BY RulesConfig DEF RulesConfig
<1> QED
  BY <1>1

LEMMA SmaSends ==
    ASSUME NEW st, NEW snap \in SmaSnapshots
    PROVE  SmaRule(st, snap).signals \in Seq(Order)
<1>1. snap.mid \in Nat /\ One - snap.mid \in Nat
  BY MidIsPrice DEF SmaSnapshots
<1>2. /\ <<>> \in Seq(Order)
      /\ <<Signal("Close", snap.mid)>> \in Seq(Order)
      /\ <<Signal("BuyYes", snap.mid)>> \in Seq(Order)
      /\ <<Signal("BuyNo", One - snap.mid)>> \in Seq(Order)
  BY <1>1, OneSignal DEF Sides
<1> DEFINE window == SmaWindow(st, snap.mid)
           above == IsAbove(window, snap.mid)
           seen == [st EXCEPT !.prices = window, !.above = above]
           quit == Sends(st, "Close", snap.mid)
           wait == Quiet([st EXCEPT !.prices = window])
           exit == Sends(seen, "Close", snap.mid)
           none == Quiet(seen)
           yes == Sends(seen, "BuyYes", snap.mid)
           no == Sends(seen, "BuyNo", One - snap.mid)
<1>3. /\ quit.signals \in Seq(Order) /\ wait.signals \in Seq(Order)
      /\ exit.signals \in Seq(Order) /\ none.signals \in Seq(Order)
      /\ yes.signals \in Seq(Order) /\ no.signals \in Seq(Order)
  BY <1>2 DEF Sends, Quiet
<1>4. SmaRule(st, snap) \in {quit, wait, exit, none, yes, no}
  <2> HIDE DEF quit, wait, exit, none, yes, no
  <2> QED
    BY DEF SmaRule, quit, wait, exit, none, yes, no, seen, above, window
<1> QED
  BY <1>3, <1>4

LEMMA MomentumSends ==
    ASSUME NEW st, NEW snap \in MomentumSnapshots
    PROVE  MomentumRule(st, snap).signals \in Seq(Order)
<1>1. /\ <<Signal("Close", 0)>> \in Seq(Order) /\ <<>> \in Seq(Order)
      /\ <<Signal("BuyYes", 0)>> \in Seq(Order) /\ <<Signal("BuyNo", 0)>> \in Seq(Order)
  BY OneSignal DEF Sides
<1> QED
  BY <1>1 DEF MomentumRule, Sends, Quiet

LEMMA HoldersSend ==
    ASSUME NEW st
    PROVE  /\ \A snap \in SpreadSnapshots : SpreadRule(st, snap).signals \in Seq(Order)
           /\ \A snap \in DecaySnapshots : DecayRule(st, snap).signals \in Seq(Order)
<1>1. ASSUME NEW snap \in SpreadSnapshots PROVE SpreadRule(st, snap).signals \in Seq(Order)
  <2>1. <<Signal("Close", 0)>> \in Seq(Order) /\ <<Signal(snap.side, 0)>> \in Seq(Order)
    BY OneSignal DEF SpreadSnapshots
  <2> QED
    BY <2>1 DEF SpreadRule, Sends, Quiet
<1>2. ASSUME NEW snap \in DecaySnapshots PROVE DecayRule(st, snap).signals \in Seq(Order)
  <2>1. snap.side \in Sides \cup {"Close"} /\ snap.price \in Nat
    BY MidIsPrice DEF DecaySnapshots
  <2>2. <<Signal(snap.side, snap.price)>> \in Seq(Order)
    BY <2>1, OneSignal
  <2> QED
    BY <2>2 DEF DecayRule, Sends, Quiet
<1> QED
  BY <1>1, <1>2

LEMMA RulesSend ==
    ASSUME NEW one \in KindsOfStrategy, NEW st, NEW snap \in Snapshots(one)
    PROVE  Rule(one, st, snap).signals \in Seq(Order)
<1>1. /\ one = "sma" => Rule(one, st, snap) = SmaRule(st, snap) /\ snap \in SmaSnapshots
      /\ one = "momentum" =>
            Rule(one, st, snap) = MomentumRule(st, snap) /\ snap \in MomentumSnapshots
      /\ one = "spread" => Rule(one, st, snap) = SpreadRule(st, snap) /\ snap \in SpreadSnapshots
      /\ one = "decay" => Rule(one, st, snap) = DecayRule(st, snap) /\ snap \in DecaySnapshots
  BY DEF Rule, Snapshots
<1> QED
  BY <1>1, SmaSends, MomentumSends, HoldersSend DEF KindsOfStrategy
----------------------------------------------------------------------------
(* What the methods and the steps of a job return.                         *)
LEMMA FillPriceIsPositive ==
    ASSUME NEW price \in Nat PROVE FillPrice(price) \in Nat \ {0}
<1>1. One \in Nat /\ One >= 2
  BY RulesConfig DEF RulesConfig
<1>2. One \div 2 \in Nat \ {0}
  BY <1>1
<1> QED
  BY <1>2 DEF FillPrice

LEMMA FeeIsInt ==
    ASSUME NEW size \in Nat PROVE FeeOf(size) \in Int
<1>1. FeeBPS \in Nat
  BY SimConfig DEF SimConfig
<1>2. size * FeeBPS \in Int
  BY <1>1
<1> QED
  BY <1>2 DEF FeeOf

LEMMA ProceedsAreInt ==
    ASSUME NEW pos \in Position, NEW price \in Nat PROVE Proceeds(pos, price) \in Int
<1>1. pos.size \in Nat /\ pos.entryPrice \in Nat /\ pos.entryPrice > 0 /\ One \in Nat
  BY RulesConfig DEF RulesConfig, Position
<1> DEFINE worth == IF pos.side = "BuyYes" THEN price ELSE One - price
<1>2. worth \in Int
  BY <1>1
<1>3. pos.size * worth \in Int
  BY <1>1, <1>2
<1> HIDE DEF worth
<1>4. (pos.size * worth) \div pos.entryPrice \in Int
  BY <1>1, <1>3
<1> QED
  BY <1>4 DEF Proceeds, worth

LEMMA KeyTypes ==
    ASSUME NEW k \in Keys PROVE Strategy(k) \in Strategies /\ Market(k) \in Markets
BY SimConfig DEF SimConfig, Strategy, Market

LEMMA ClosePositionTypes ==
    ASSUME LedgerType, NEW k \in Keys
    PROVE  /\ ClosePosition(positions, k) \in Ledgers
           /\ \A j \in Keys : positions[j] \in Position =>
                 ClosePosition(positions, k)[j] \in Position
<1> DEFINE closed == [positions[k] EXCEPT !.status = "closed", !.order = NoOrder]
<1>1. positions \in [Keys -> {NoPosition} \cup Position]
  BY DEF LedgerType, Ledgers
<1>2. positions[k] \in Position => closed \in Position
  BY DEF Position
<1>3. ClosePosition(positions, k) =
         IF positions[k] = NoPosition THEN positions ELSE [positions EXCEPT ![k] = closed]
  BY DEF ClosePosition
<1> HIDE DEF closed
<1> QED
  BY <1>1, <1>2, <1>3 DEF Ledgers

LEMMA OpenPositionTypes ==
    ASSUME LedgerType, NEW k \in Keys, NEW pos \in Position
    PROVE  /\ OpenPosition(positions, k, pos) \in Ledgers
           /\ \A j \in Keys : positions[j] \in Position =>
                 OpenPosition(positions, k, pos)[j] \in Position
BY DEF OpenPosition, LedgerType, Ledgers

LEMMA JobTypes ==
    ASSUME JobType, NEW a \in Actors
    PROVE  /\ job[a] \in JobState
           /\ job[a].pc \in {"pay", "enter", "count", "entered", "tell open"} => job[a] \in EntryJob
           /\ job[a].pc \in {"pay out", "settle", "settled", "filled", "tell closed"} =>
                 job[a] \in CloseJob
<1>1. job[a] \in JobState
  BY DEF JobType
<1>2. CASE job[a] = Waiting
  BY <1>1, <1>2 DEF Waiting
<1>3. CASE job[a] \in EntryJob
  <2>1. job[a].pc \in {"pay", "enter", "count", "entered", "tell open"}
    BY <1>3 DEF EntryJob
  <2> QED
    BY <1>1, <1>3, <2>1
<1>4. CASE job[a] \in CloseJob
  <2>1. job[a].pc \in {"pay out", "settle", "settled", "filled", "tell closed"}
    BY <1>4 DEF CloseJob
  <2> QED
    BY <1>1, <1>4, <2>1
<1> QED
  BY <1>1, <1>2, <1>3, <1>4 DEF JobState

(* A job goes on within its kind, or ends.                                 *)
LEMMA EntryGoesOn ==
    ASSUME JobType, NEW a \in Actors, job[a] \in EntryJob,
           NEW pc \in {"pay", "enter", "count", "entered", "tell open"}, GoTo(a, pc)
    PROVE  /\ JobType'
           /\ job'[a] \in EntryJob
           /\ job'[a].pc = pc /\ job'[a].key = job[a].key /\ job'[a].size = job[a].size
           /\ \A b \in Actors \ {a} : job'[b] = job[b]
<1> DEFINE next == [job[a] EXCEPT !.pc = pc]
<1>1. /\ next \in EntryJob /\ next.pc = pc /\ next.key = job[a].key
      /\ next.size = job[a].size
  BY DEF EntryJob
<1>2. job \in [Actors -> JobState] /\ job' = [job EXCEPT ![a] = next]
  BY DEF JobType, GoTo
<1> HIDE DEF next
<1>3. /\ job'[a] = next /\ next \in JobState
      /\ \A b \in Actors \ {a} : job'[b] = job[b]
      /\ job' \in [Actors -> JobState]
  BY <1>1, <1>2 DEF JobState
<1> QED
  BY <1>1, <1>3 DEF JobType

LEMMA CloseGoesOn ==
    ASSUME JobType, NEW a \in Actors, job[a] \in CloseJob,
           NEW pc \in {"pay out", "settle", "settled", "filled", "tell closed"}, GoTo(a, pc)
    PROVE  /\ JobType'
           /\ job'[a] \in CloseJob
           /\ job'[a].pc = pc /\ job'[a].key = job[a].key /\ job'[a].pos = job[a].pos
           /\ job'[a].price = job[a].price
           /\ \A b \in Actors \ {a} : job'[b] = job[b]
<1> DEFINE next == [job[a] EXCEPT !.pc = pc]
<1>1. /\ next \in CloseJob /\ next.pc = pc /\ next.key = job[a].key
      /\ next.pos = job[a].pos /\ next.price = job[a].price
  BY DEF CloseJob
<1>2. job \in [Actors -> JobState] /\ job' = [job EXCEPT ![a] = next]
  BY DEF JobType, GoTo
<1> HIDE DEF next
<1>3. /\ job'[a] = next /\ next \in JobState
      /\ \A b \in Actors \ {a} : job'[b] = job[b]
      /\ job' \in [Actors -> JobState]
  BY <1>1, <1>2 DEF JobState
<1> QED
  BY <1>1, <1>3 DEF JobType

LEMMA WaitingIsIdle == Waiting.pc = "idle"
BY DEF Waiting

LEMMA NewJob ==
    ASSUME JobType, NEW a \in Actors, NEW next \in JobState, job' = [job EXCEPT ![a] = next]
    PROVE  JobType' /\ job'[a] = next /\ \A b \in Actors \ {a} : job'[b] = job[b]
BY DEF JobType

(* Fields of a job, by its kind.                                           *)
LEMMA JobFields ==
    ASSUME NEW j
    PROVE  /\ j \in EntryJob => j.key \in Keys /\ j.size \in Sizes /\ j.sig.dir \in Sides
                                /\ j.sig.price \in Nat
           /\ j \in CloseJob => j.key \in Keys /\ j.pos \in Position /\ j.price \in Nat
BY DEF EntryJob, CloseJob

LEMMA HeadIsMessage ==
    ASSUME MessagesType, signals # <<>>
    PROVE  /\ Head(signals) \in Message /\ Head(signals).key \in Keys
           /\ Head(signals).sig \in Order /\ Head(signals).sig.price \in Nat
           /\ Tail(signals) \in Seq(Message)
<1>1. Head(signals) \in Message /\ Tail(signals) \in Seq(Message)
  BY DEF MessagesType
<1> QED
  BY <1>1 DEF Message, Order
----------------------------------------------------------------------------
(* The channels carry messages of their type.                              *)
LEMMA SnapshotMessages ==
    ASSUME SimInv, NEW k \in Keys, NEW snap \in Snapshots(kind[Strategy(k)]),
           OnSnapshot(k, snap)
    PROVE  MessagesType'
<1> DEFINE sent == Rule(kind[Strategy(k)], view[k], snap).signals
           out == [i \in DOMAIN sent |-> [key |-> k, sig |-> sent[i]]]
<1>1. kind[Strategy(k)] \in KindsOfStrategy
  BY KeyTypes DEF SimInv, KindType
<1>2. sent \in Seq(Order)
  BY <1>1, RulesSend
<1>3. outbox' = [outbox EXCEPT ![Strategy(k)] = out] /\ signals' = signals
  BY DEF OnSnapshot
<1> HIDE DEF sent
<1>4. out \in Seq(Message)
  <2>1. /\ Len(sent) \in Nat /\ DOMAIN sent = 1 .. Len(sent)
        /\ \A i \in 1 .. Len(sent) : sent[i] \in Order
    BY <1>2
  <2>2. \A i \in 1 .. Len(sent) : [key |-> k, sig |-> sent[i]] \in Message
    BY <2>1 DEF Message
  <2>3. out \in [1 .. Len(sent) -> Message]
    BY <2>1, <2>2
  <2> QED
    BY <2>1, <2>3
<1> HIDE DEF out
<1> QED
  BY <1>3, <1>4 DEF SimInv, MessagesType

LEMMA SendMessages ==
    ASSUME SimInv, NEW s \in Strategies, SendSignal(s)
    PROVE  MessagesType'
<1>1. outbox[s] \in Seq(Message) /\ outbox[s] # <<>> /\ signals \in Seq(Message)
  BY DEF SimInv, MessagesType, SendSignal
<1>2. Head(outbox[s]) \in Message /\ Tail(outbox[s]) \in Seq(Message)
  BY <1>1
<1>3. signals' = Append(signals, Head(outbox[s]))
      /\ outbox' = [outbox EXCEPT ![s] = Tail(outbox[s])]
  BY DEF SendSignal
<1>4. signals' \in Seq(Message)
  BY <1>1, <1>2, <1>3
<1> QED
  BY <1>2, <1>3, <1>4 DEF SimInv, MessagesType

LEMMA MessagesStep ==
    ASSUME SimInv, [SimNext]_simVars
    PROVE  MessagesType' /\ KindType'
<1>1. UNCHANGED kind
  BY Zenon DEF SimNext, simVars, strategyVars, executorVars, StrategyStep, OnSnapshot, SendSignal,
     OnFeedback, RunStep, AdmitEntry, RejectEntry, PayEntry, EnterPosition, CountEntry,
     FillEntry, TellOpen,
     AdmitClose, RejectClose, Close, PayOut, Settle, FillClose, FinishClose, TellClosed, CloserStep,
     ListPositions, CloseNext
<1>2. \/ \E k \in Keys : \E snap \in Snapshots(kind[Strategy(k)]) : OnSnapshot(k, snap)
      \/ \E s \in Strategies : SendSignal(s)
      \/ signals # <<>> /\ signals' = Tail(signals) /\ UNCHANGED outbox
      \/ UNCHANGED <<signals, outbox>>
  <2>1. ASSUME NEW s \in Strategies, StrategyStep(s)
        PROVE  \/ \E k \in Keys : \E snap \in Snapshots(kind[Strategy(k)]) : OnSnapshot(k, snap)
               \/ SendSignal(s)
               \/ UNCHANGED <<signals, outbox>>
    BY <2>1, Zenon DEF StrategyStep, OnFeedback
  <2>2. ASSUME RunStep
        PROVE  \/ signals # <<>> /\ signals' = Tail(signals) /\ UNCHANGED outbox
               \/ UNCHANGED <<signals, outbox>>
    BY <2>2, Zenon DEF RunStep, NextSignal, AdmitEntry, RejectEntry, PayEntry, EnterPosition,
       CountEntry,
       FillEntry, TellOpen, AdmitClose, RejectClose, Close, PayOut, Settle, FillClose, FinishClose,
       TellClosed, strategyVars
  <2>3. ASSUME NEW c \in Closers, CloserStep(c) PROVE UNCHANGED <<signals, outbox>>
    BY <2>3, Zenon DEF CloserStep, ListPositions, CloseNext, Close, PayOut, Settle, FillClose,
       FinishClose, TellClosed, strategyVars
  <2>4. ASSUME UNCHANGED simVars PROVE UNCHANGED <<signals, outbox>>
    BY <2>4 DEF simVars, strategyVars
  <2> QED
    BY <2>1, <2>2, <2>3, <2>4, Zenon DEF SimNext
<1>3. ASSUME signals # <<>>, signals' = Tail(signals), UNCHANGED outbox PROVE MessagesType'
  BY <1>3 DEF SimInv, MessagesType
<1>4. ASSUME UNCHANGED <<signals, outbox>> PROVE MessagesType'
  BY <1>4 DEF SimInv, MessagesType
<1>5. KindType'
  BY <1>1 DEF SimInv, KindType
<1> QED
  BY <1>2, <1>3, <1>4, <1>5, SnapshotMessages, SendMessages
----------------------------------------------------------------------------
(* The ledger.                                                             *)
Forgetless == \A k \in Keys : positions[k] \in Position => positions'[k] \in Position

LEMMA LedgerStep ==
    ASSUME SimInv, [SimNext]_simVars
    PROVE  LedgerType' /\ Forgetless
<1>1. LedgerType /\ JobType /\ Sizes \subseteq Nat
  BY SimConfig DEF SimInv, SimConfig
<1>2. ASSUME EnterPosition PROVE LedgerType' /\ Forgetless
  <2> DEFINE j == job[Run]
             pos == [status |-> "open", entryPrice |-> FillPrice(j.sig.price), size |-> j.size,
                     order |-> NoOrder, side |-> j.sig.dir, fee |-> FeeOf(j.size)]
  <2>1. j.key \in Keys /\ j.size \in Nat /\ j.sig.dir \in Sides /\ j.sig.price \in Nat
    BY <1>1, <1>2, JobTypes, JobFields DEF EnterPosition, Actors
  <2>2. FillPrice(j.sig.price) \in Nat \ {0} /\ FeeOf(j.size) \in Int
    BY <2>1, FillPriceIsPositive, FeeIsInt
  <2>3. pos \in Position
    BY <2>1, <2>2 DEF Position
  <2>4. positions' = OpenPosition(positions, j.key, pos)
    BY <1>2 DEF EnterPosition
  <2> HIDE DEF j, pos
  <2> QED
    BY <1>1, <2>1, <2>3, <2>4, OpenPositionTypes DEF LedgerType, Forgetless
<1>3. ASSUME NEW a \in Actors, FinishClose(a) PROVE LedgerType' /\ Forgetless
  <2>1. job[a].key \in Keys
    BY <1>1, <1>3, JobTypes, JobFields DEF FinishClose
  <2>2. positions' = ClosePosition(positions, job[a].key)
    BY <1>3 DEF FinishClose
  <2> QED
    BY <1>1, <2>1, <2>2, ClosePositionTypes DEF LedgerType, Forgetless
<1>4. ASSUME UNCHANGED positions PROVE LedgerType' /\ Forgetless
  BY <1>1, <1>4 DEF LedgerType, Forgetless
<1> QED
  BY <1>2, <1>3, <1>4, Zenon
     DEF SimNext, simVars, strategyVars, executorVars, Actors, StrategyStep, OnSnapshot,
         SendSignal, OnFeedback, RunStep, AdmitEntry, RejectEntry, PayEntry, CountEntry, FillEntry,
         TellOpen, AdmitClose, RejectClose, StartClose, Close, PayOut, Settle, FillClose,
         TellClosed,
         CloserStep, ListPositions, CloseNext
----------------------------------------------------------------------------
(* The jobs.  Aside: a step that changes no job between Check and          *)
(* RecordOpen, and brings none there.                                      *)
Uncertain(j) == j.pc \in {"pay", "enter", "count"}
Aside == \A a \in Actors :
            \/ job'[a] = job[a]
            \/ ~Uncertain(job[a]) /\ ~Uncertain(job'[a])

LEMMA AsideAt ==
    ASSUME NEW a \in Actors, \A b \in Actors \ {a} : job'[b] = job[b],
           job[a].pc \notin {"pay", "enter", "count"}, job'[a].pc \notin {"pay", "enter", "count"}
    PROVE  Aside
<1> SUFFICES ASSUME NEW b \in Actors
             PROVE  job'[b] = job[b] \/ (~Uncertain(job[b]) /\ ~Uncertain(job'[b]))
  BY DEF Aside
<1>1. CASE b = a
  BY <1>1 DEF Uncertain
<1>2. CASE b # a
  BY <1>2
<1> QED
  BY <1>1, <1>2

LEMMA EndsAside ==
    ASSUME JobType, NEW a \in Actors, EndJob(a)
    PROVE  JobType' /\ job'[a] = Waiting /\ (~Uncertain(job[a]) => Aside)
<1>1. Waiting \in JobState /\ job' = [job EXCEPT ![a] = Waiting]
  BY DEF EndJob, JobState
<1>2. JobType' /\ job'[a] = Waiting /\ \A b \in Actors \ {a} : job'[b] = job[b]
  BY <1>1, NewJob
<1> QED
  BY <1>2, AsideAt DEF Uncertain, Waiting

LEMMA CloseJobStep ==
    ASSUME SimInv, NEW a \in Actors, Close(a)
    PROVE  JobType' /\ Aside
<1>1. JobType
  BY DEF SimInv
<1>2. job[a].pc \in {"pay out", "settle", "settled", "filled", "tell closed"}
  BY DEF Close, PayOut, Settle, FillClose, FinishClose, TellClosed
<1>3. job[a] \in CloseJob /\ ~Uncertain(job[a])
  BY <1>1, <1>2, JobTypes DEF Uncertain
<1>4. ASSUME NEW pc \in {"settle", "settled", "filled", "tell closed"}, GoTo(a, pc)
      PROVE  JobType' /\ Aside
  BY <1>1, <1>3, <1>4, CloseGoesOn, AsideAt DEF Uncertain
<1> QED
  BY <1>1, <1>3, <1>4, EndsAside, Zenon DEF Close, PayOut, Settle, FillClose, FinishClose,
     TellClosed

LEMMA StartCloseStep ==
    ASSUME SimInv, NEW a \in Actors, NEW k \in Keys, NEW price \in Nat,
           positions[k] \in Position, job[a] = Waiting, StartClose(a, k, price)
    PROVE  JobType' /\ Aside
<1> DEFINE next == [pc |-> "pay out", key |-> k, pos |-> positions[k],
                    price |-> FillPrice(price)]
<1>1. next \in CloseJob
  BY FillPriceIsPositive DEF CloseJob
<1>2. job' = [job EXCEPT ![a] = next] /\ next.pc = "pay out"
  BY DEF StartClose
<1> HIDE DEF next
<1>3. JobType' /\ job'[a] = next /\ \A b \in Actors \ {a} : job'[b] = job[b]
  BY <1>1, <1>2, NewJob DEF SimInv, JobState
<1>4. job[a].pc = "idle" /\ job'[a].pc = "pay out"
  BY <1>2, <1>3, WaitingIsIdle
<1> QED
  BY <1>3, <1>4, AsideAt

LEMMA AdmitCloseStep ==
    ASSUME SimInv, AdmitClose
    PROVE  JobType' /\ Aside
<1> DEFINE k == Head(signals).key
           price == Head(signals).sig.price
<1>1. /\ job[Run] = Waiting /\ signals # <<>> /\ HasOpenPosition(positions, k)
      /\ StartClose(Run, k, price)
  BY DEF AdmitClose, NextSignal
<1>2. k \in Keys /\ price \in Nat
  BY <1>1, HeadIsMessage DEF SimInv
<1>3. positions[k] \in Position
  BY <1>1, <1>2 DEF SimInv, LedgerType, Ledgers, HasOpenPosition
<1> HIDE DEF k, price
<1> QED
  BY <1>1, <1>2, <1>3, StartCloseStep DEF Actors

LEMMA CloseNextStep ==
    ASSUME SimInv, NEW c \in Closers, NEW k \in Keys, NEW price \in ClosePrices,
           CloseNext(c, k, price)
    PROVE  JobType' /\ Aside
<1>1. price \in Nat
  BY SimConfig, RulesConfig DEF SimConfig, RulesConfig
<1>2. positions[k] \in Position
  BY DEF SimInv, ClosersKnow, CloseNext
<1> QED
  BY <1>1, <1>2, StartCloseStep DEF CloseNext, Actors

(* An entry: admitted, entered, counted and told.                          *)
LEMMA AdmitStep ==
    ASSUME SimInv, NEW size \in Sizes, AdmitEntry(size)
    PROVE  /\ JobType' /\ job[Run] = Waiting /\ Head(signals).key \in Keys
           /\ job'[Run].pc = "pay" /\ job'[Run].key = Head(signals).key
           /\ job'[Run].size = size
<1> DEFINE next == [pc |-> "pay", key |-> Head(signals).key, size |-> size,
                    sig |-> Head(signals).sig]
<1>1. job[Run] = Waiting /\ signals # <<>> /\ Head(signals).sig.dir \in Sides
  BY DEF AdmitEntry, NextSignal
<1>2. Head(signals).key \in Keys /\ Head(signals).sig \in [dir : Sides, price : Nat]
  BY <1>1, HeadIsMessage DEF SimInv, Order
<1>3. next \in EntryJob
  BY <1>2 DEF EntryJob
<1>4. job' = [job EXCEPT ![Run] = next] /\ Run \in Actors
  BY DEF AdmitEntry, Actors
<1> HIDE DEF next
<1>5. JobType' /\ job'[Run] = next
  BY <1>3, <1>4, NewJob DEF SimInv, JobState
<1> QED
  BY <1>1, <1>2, <1>5 DEF next

LEMMA EntryStep ==
    ASSUME SimInv, PayEntry \/ EnterPosition \/ CountEntry \/ FillEntry \/ TellOpen
    PROVE  /\ JobType' /\ job[Run] \in EntryJob
           /\ PayEntry =>
                 /\ job[Run].pc = "pay" /\ job'[Run].pc = "enter"
                 /\ job'[Run].key = job[Run].key /\ job'[Run].size = job[Run].size
           /\ EnterPosition =>
                 /\ job[Run].pc = "enter"
                 /\ \/ job'[Run] = Waiting
                    \/ /\ job'[Run].pc = "count" /\ job'[Run].key = job[Run].key
                       /\ job'[Run].size = job[Run].size
           /\ CountEntry => job[Run].pc = "count" /\ job'[Run].pc = "entered"
           /\ FillEntry \/ TellOpen => Aside
<1>1. JobType /\ Run \in Actors
  BY DEF SimInv, Actors
<1>2. job[Run].pc \in {"pay", "enter", "count", "entered", "tell open"}
  BY DEF PayEntry, EnterPosition, CountEntry, FillEntry, TellOpen
<1>3. job[Run] \in EntryJob
  BY <1>1, <1>2, JobTypes
<1>4. ASSUME EnterPosition
      PROVE  /\ JobType' /\ job[Run].pc = "enter"
             /\ \/ job'[Run] = Waiting
                \/ /\ job'[Run].pc = "count" /\ job'[Run].key = job[Run].key
                   /\ job'[Run].size = job[Run].size
  <2>1. job[Run].pc = "enter" /\ (EndJob(Run) \/ GoTo(Run, "count"))
    BY <1>4, Zenon DEF EnterPosition
  <2>2. ASSUME GoTo(Run, "count")
        PROVE  /\ JobType' /\ job'[Run].pc = "count" /\ job'[Run].key = job[Run].key
               /\ job'[Run].size = job[Run].size
    BY <1>1, <1>3, <2>2, EntryGoesOn
  <2> QED
    BY <1>1, <2>1, <2>2, EndsAside
<1>5. ASSUME CountEntry PROVE JobType' /\ job[Run].pc = "count" /\ job'[Run].pc = "entered"
  <2>1. job[Run].pc = "count" /\ GoTo(Run, "entered")
    BY <1>5 DEF CountEntry
  <2> QED
    BY <1>1, <1>3, <2>1, EntryGoesOn
<1>6. ASSUME FillEntry PROVE JobType' /\ Aside
  <2>1. job[Run].pc = "entered" /\ GoTo(Run, "tell open")
    BY <1>6 DEF FillEntry
  <2>2. /\ JobType' /\ job'[Run].pc = "tell open"
        /\ \A b \in Actors \ {Run} : job'[b] = job[b]
    BY <1>1, <1>3, <2>1, EntryGoesOn
  <2> QED
    BY <1>1, <2>1, <2>2, AsideAt
<1>7. ASSUME TellOpen PROVE JobType' /\ Aside
  <2>1. job[Run].pc = "tell open" /\ EndJob(Run)
    BY <1>7 DEF TellOpen
  <2> QED
    BY <1>1, <2>1, EndsAside DEF Uncertain
<1>8. EnterPosition => /\ job[Run].pc = "enter"
                       /\ \/ job'[Run] = Waiting
                          \/ /\ job'[Run].pc = "count" /\ job'[Run].key = job[Run].key
                             /\ job'[Run].size = job[Run].size
  BY <1>4, Zenon
<1>9. ASSUME PayEntry
      PROVE  /\ JobType' /\ job[Run].pc = "pay" /\ job'[Run].pc = "enter"
             /\ job'[Run].key = job[Run].key /\ job'[Run].size = job[Run].size
  <2>1. job[Run].pc = "pay" /\ GoTo(Run, "enter")
    BY <1>9 DEF PayEntry
  <2> QED
    BY <1>1, <1>3, <2>1, EntryGoesOn
<1>10. JobType'
  BY <1>4, <1>5, <1>6, <1>7, <1>9, Zenon
<1> QED
  BY <1>3, <1>5, <1>6, <1>7, <1>8, <1>9, <1>10, Zenon

(* What a step does to the jobs and the risk manager.                      *)
LEMMA StepKinds ==
    ASSUME [SimNext]_simVars
    PROVE  \/ \E size \in Sizes : AdmitEntry(size) \/ RejectEntry(size)
           \/ PayEntry \/ EnterPosition \/ CountEntry
           \/ \E a \in Actors : Settle(a) /\ Close(a)
           \/ /\ UNCHANGED riskVars
              /\ \/ FillEntry \/ TellOpen \/ AdmitClose
                 \/ \E a \in Actors : Close(a)
                 \/ \E c \in Closers, k \in Keys, price \in ClosePrices : CloseNext(c, k, price)
                 \/ UNCHANGED job
<1>1. ASSUME NEW a \in Actors, Close(a) PROVE Settle(a) \/ UNCHANGED riskVars
  BY <1>1, Zenon DEF Close, PayOut, FillClose, FinishClose, TellClosed
<1>2. ASSUME NEW s \in Strategies, StrategyStep(s) PROVE UNCHANGED riskVars /\ UNCHANGED job
  BY <1>2, Zenon DEF StrategyStep, OnSnapshot, SendSignal, OnFeedback, executorVars
<1>3. FillEntry \/ TellOpen \/ AdmitClose => UNCHANGED riskVars
  BY Zenon DEF FillEntry, TellOpen, AdmitClose
<1>4. RejectClose => UNCHANGED riskVars /\ UNCHANGED job
  BY DEF RejectClose, executorVars
<1>5. ASSUME NEW c \in Closers, NEW ms, ListPositions(c, ms)
      PROVE  UNCHANGED riskVars /\ UNCHANGED job
  BY <1>5 DEF ListPositions
<1>6. ASSUME NEW c \in Closers, NEW k \in Keys, NEW price \in ClosePrices, CloseNext(c, k, price)
      PROVE  UNCHANGED riskVars
  BY <1>6 DEF CloseNext
<1>7. UNCHANGED simVars => UNCHANGED riskVars /\ UNCHANGED job
  BY DEF simVars, executorVars
<1>8. Run \in Actors /\ \A c \in Closers : c \in Actors
  BY DEF Actors
<1> QED
  BY <1>1, <1>2, <1>3, <1>4, <1>5, <1>6, <1>7, <1>8, Zenon DEF SimNext, RunStep, CloserStep

LEMMA JobStep ==
    ASSUME SimInv, [SimNext]_simVars
    PROVE  JobType'
<1>1. ASSUME UNCHANGED job PROVE JobType'
  BY <1>1 DEF SimInv, JobType
<1>2. ASSUME NEW size \in Sizes, AdmitEntry(size) \/ RejectEntry(size) PROVE JobType'
  BY <1>1, <1>2, AdmitStep DEF RejectEntry, executorVars
<1> QED
  BY <1>1, <1>2, EntryStep, AdmitCloseStep, CloseJobStep, CloseNextStep, StepKinds
----------------------------------------------------------------------------
(* The closers' lists, and the P&L.                                        *)
LEMMA ListsStep ==
    ASSUME SimInv, [SimNext]_simVars
    PROVE  TodoType' /\ ClosersKnow'
<1>1. /\ TodoType /\ Forgetless /\ positions \in [Keys -> {NoPosition} \cup Position]
      /\ \A c \in Closers : \A k \in todo[c].left : positions[k] \in Position
  BY LedgerStep DEF SimInv, LedgerType, Ledgers, ClosersKnow
<1>2. ASSUME UNCHANGED todo PROVE TodoType' /\ ClosersKnow'
  BY <1>1, <1>2 DEF TodoType, ClosersKnow, Forgetless
<1>3. ASSUME NEW c \in Closers, NEW next \in [listed : BOOLEAN, left : SUBSET Keys],
             todo' = [todo EXCEPT ![c] = next],
             \A k \in next.left : positions[k] \in Position
      PROVE  TodoType' /\ ClosersKnow'
  <2>1. TodoType' /\ todo'[c] = next /\ \A b \in Closers \ {c} : todo'[b] = todo[b]
    BY <1>1, <1>3 DEF TodoType
  <2>2. \A b \in Closers : \A k \in todo'[b].left : k \in Keys /\ positions[k] \in Position
    BY <1>1, <1>3, <2>1 DEF TodoType
  <2> QED
    BY <1>1, <2>1, <2>2 DEF ClosersKnow, Forgetless
<1>4. ASSUME NEW c \in Closers, NEW ms, ListPositions(c, ms) PROVE TodoType' /\ ClosersKnow'
  <2> DEFINE open == {k \in OpenPositions(positions) : Market(k) \in ms}
             next == [listed |-> TRUE, left |-> open]
  <2>1. \A k \in open : k \in Keys /\ positions[k] \in Position
    BY <1>1 DEF OpenPositions, HasOpenPosition
  <2>2. todo' = [todo EXCEPT ![c] = next]
    BY <1>4 DEF ListPositions
  <2> HIDE DEF open
  <2>3. next \in [listed : BOOLEAN, left : SUBSET Keys] /\ next.left = open
    BY <2>1
  <2> HIDE DEF next
  <2> QED
    BY <1>3, <2>1, <2>2, <2>3
<1>5. ASSUME NEW c \in Closers, NEW k \in Keys, NEW price, CloseNext(c, k, price)
      PROVE  TodoType' /\ ClosersKnow'
  <2> DEFINE next == [todo[c] EXCEPT !.left = todo[c].left \ {k}]
  <2>1. next \in [listed : BOOLEAN, left : SUBSET Keys] /\ next.left \subseteq todo[c].left
    BY <1>1 DEF TodoType
  <2>2. todo' = [todo EXCEPT ![c] = next]
    BY <1>5 DEF CloseNext
  <2> HIDE DEF next
  <2> QED
    BY <1>1, <1>3, <2>1, <2>2
<1> QED
  BY <1>2, <1>4, <1>5, Zenon
     DEF SimNext, simVars, executorVars, StrategyStep, OnSnapshot, SendSignal, OnFeedback,
         RunStep, AdmitEntry, RejectEntry, PayEntry, EnterPosition, CountEntry, FillEntry, TellOpen,
         AdmitClose, RejectClose, Close, PayOut, Settle, FillClose, FinishClose, TellClosed,
         CloserStep

LEMMA SettleArguments ==
    ASSUME SimInv, NEW a \in Actors, Settle(a)
    PROVE  /\ job[a].key \in Keys /\ job[a].pos.size \in Nat
           /\ \E pnl \in Int : RecordClose(Market(job[a].key), job[a].pos.size, pnl)
<1> DEFINE pos == job[a].pos
           pnl == PnL(job[a])
<1>1. job[a].key \in Keys /\ pos \in Position /\ job[a].price \in Nat
  BY JobTypes, JobFields DEF SimInv, Settle
<1>2. pos.size \in Nat /\ pos.fee \in Int
  BY <1>1 DEF Position
<1>3. pnl \in Int
  <2>1. Proceeds(pos, job[a].price) \in Int /\ FeeOf(pos.size) \in Int
    BY <1>1, <1>2, ProceedsAreInt, FeeIsInt
  <2> QED
    BY <1>2, <2>1 DEF PnL
<1>4. RecordClose(Market(job[a].key), pos.size, pnl)
  BY Zenon DEF Settle
<1> HIDE DEF pnl
<1> QED
  BY <1>1, <1>2, <1>3, <1>4

LEMMA PnLStep ==
    ASSUME SimInv, [SimNext]_simVars
    PROVE  PnLType'
<1>1. sessionPnL \in Int /\ peakBalance \in Nat
  BY DEF SimInv, PnLType
<1>2. ASSUME NEW m, NEW size, NEW pnl \in Int, RecordClose(m, size, pnl) PROVE PnLType'
  <2>1. /\ sessionPnL' = sessionPnL + pnl
        /\ peakBalance' = Larger(peakBalance, peakBalance + sessionPnL')
    BY <1>2, Zenon DEF RecordClose
  <2> QED
    BY <1>1, <2>1 DEF Larger, PnLType
<1>3. ASSUME NEW a \in Actors, Settle(a) PROVE PnLType'
  BY <1>2, <1>3, SettleArguments
<1>4. ASSUME UNCHANGED pnlVars PROVE PnLType'
  BY <1>1, <1>4 DEF pnlVars, PnLType
<1>5. \/ \E a \in Actors : Settle(a)
      \/ UNCHANGED pnlVars
  <2>1. UNCHANGED riskVars => UNCHANGED pnlVars
    BY DEF riskVars, pnlVars
  <2> QED
    BY <2>1, StepKinds, Zenon
       DEF AdmitEntry, RejectEntry, CheckPasses, CheckRejects, PayEntry, EnterPosition, CountEntry,
           RecordOpen
<1> QED
  BY <1>3, <1>4, <1>5

LEMMA InitInv == SimInit => SimInv
<1> SUFFICES ASSUME SimInit PROVE SimInv
  OBVIOUS
<1>1. PnLType
  BY RiskConfig DEF SimInit, RiskInit, PnLType, RiskConfig
<1>2. KindType /\ MessagesType
  BY DEF SimInit, KindType, MessagesType
<1>3. LedgerType /\ JobType
  BY DEF SimInit, LedgerType, Ledgers, JobType, JobState
<1>4. TodoType /\ ClosersKnow
  BY DEF SimInit, TodoType, ClosersKnow
<1> QED
  BY <1>1, <1>2, <1>3, <1>4 DEF SimInv

LEMMA InvHolds == SimSpec => []SimInv
<1>1. SimInv /\ [SimNext]_simVars => SimInv'
  BY PnLStep, MessagesStep, LedgerStep, JobStep, ListsStep DEF SimInv
<1> QED
  BY <1>1, InitInv, PTL DEF SimSpec
----------------------------------------------------------------------------
(* The refinement.  RiskGate's operators on the same variables are those   *)
(* of the executor.                                                        *)
LEMMA SameCheck ==
    ASSUME NEW s, NEW m, NEW size
    PROVE  /\ CheckPasses(s, m, size) => Gate!CheckPasses(s, m, size)
           /\ CheckRejects(s, m, size) => Gate!CheckRejects(s, m, size)
BY DEF CheckPasses, CheckRejects, WithinLimits, ResetDay, TradesToday, exposureVars, pnlVars,
       haltVars, dayVars, Gate!CheckPasses, Gate!CheckRejects, Gate!WithinLimits, Gate!ResetDay,
       Gate!TradesToday, Gate!exposureVars, Gate!pnlVars, Gate!haltVars, Gate!dayVars

LEMMA SameRecords ==
    ASSUME NEW m, NEW size, NEW pnl
    PROVE  /\ RecordOpen(m, size) => Gate!RecordOpen(m, size)
           /\ RecordClose(m, size, pnl) => Gate!RecordClose(m, size, pnl)
BY Zenon DEF RecordOpen, RecordClose, Less, Larger, TriggerHalt, DrawdownReached, pnlVars,
       haltVars, dayVars, Gate!RecordOpen, Gate!RecordClose, Gate!Less, Gate!Larger,
       Gate!TriggerHalt, Gate!DrawdownReached, Gate!pnlVars, Gate!haltVars, Gate!dayVars

LEMMA InitIsInit == SimInit => Gate!GateInit
<1> SUFFICES ASSUME SimInit PROVE Gate!GateInit
  OBVIOUS
<1>1. Inflight = NoEntry
  BY DEF SimInit, Waiting, Actors, Inflight
<1> QED
  BY <1>1 DEF SimInit, RiskInit, Gate!GateInit, Gate!RiskInit

EntryOf(k, size) == [strategy |-> Strategy(k), market |-> Market(k), size |-> size]

LEMMA EntryIsEntry ==
    ASSUME NEW k \in Keys, NEW size \in Sizes
    PROVE  EntryOf(k, size) \in Gate!Entries /\ EntryOf(k, size) # NoEntry
<1>1. NoEntry \notin [strategy : Strategies, market : Markets, size : Sizes]
  BY SimConfig DEF SimConfig
<1>2. EntryOf(k, size) \in [strategy : Strategies, market : Markets, size : Sizes]
  BY KeyTypes DEF EntryOf
<1> QED
  BY <1>1, <1>2 DEF Gate!Entries

LEMMA AsideInflight ==
    ASSUME Aside \/ UNCHANGED job PROVE Inflight' = Inflight
<1>1. \/ job'[Run] = job[Run]
      \/ job[Run].pc \notin {"pay", "enter", "count"} /\ job'[Run].pc \notin {"pay", "enter", "count"}
  BY DEF Aside, Uncertain, Actors
<1> QED
  BY <1>1 DEF Inflight

LEMMA StepIsStep ==
    ASSUME Unbounded, SimInv, SimInv', [SimNext]_simVars
    PROVE  [Gate!GateNext]_(Gate!gateVars)
<1>1. ASSUME UNCHANGED riskVars, Inflight' = Inflight PROVE UNCHANGED Gate!gateVars
  BY <1>1 DEF Gate!gateVars, Gate!riskVars, riskVars
<1>2. ASSUME NEW size \in Sizes, AdmitEntry(size) PROVE Gate!GateNext
  <2> DEFINE k == Head(signals).key
  <2>1. k \in Keys /\ Inflight = NoEntry /\ Inflight' = EntryOf(k, size)
    BY <1>2, AdmitStep DEF Inflight, EntryOf, Waiting
  <2>2. CheckPasses(Strategy(k), Market(k), size)
    BY <1>2, Zenon DEF AdmitEntry
  <2>3. Gate!CheckPasses(EntryOf(k, size).strategy, EntryOf(k, size).market,
                         EntryOf(k, size).size)
    BY <2>2, SameCheck DEF EntryOf
  <2>4. Gate!Admit(EntryOf(k, size))
    BY <2>1, <2>3 DEF Gate!Admit
  <2> QED
    BY <2>1, <2>4, EntryIsEntry DEF Gate!GateNext
<1>3. ASSUME NEW size \in Sizes, RejectEntry(size) PROVE Gate!GateNext \/ UNCHANGED Gate!gateVars
  <2> DEFINE k == Head(signals).key
  <2>1. k \in Keys /\ job[Run] = Waiting /\ UNCHANGED job
    BY <1>3, HeadIsMessage DEF SimInv, RejectEntry, NextSignal, executorVars
  <2>2. Inflight = NoEntry /\ Inflight' = Inflight
    BY <2>1, AsideInflight DEF Inflight, Waiting
  <2>3. UNCHANGED riskVars \/ CheckRejects(Strategy(k), Market(k), size)
    BY <1>3, Zenon DEF RejectEntry
  <2>4. ASSUME CheckRejects(Strategy(k), Market(k), size) PROVE Gate!GateNext
    <3>1. Gate!CheckRejects(EntryOf(k, size).strategy, EntryOf(k, size).market,
                            EntryOf(k, size).size)
      BY <2>4, SameCheck DEF EntryOf
    <3>2. Gate!Refuse(EntryOf(k, size))
      BY <2>2, <3>1 DEF Gate!Refuse
    <3> QED
      BY <2>1, <3>2, EntryIsEntry DEF Gate!GateNext
  <2> QED
    BY <1>1, <2>2, <2>3, <2>4
<1>4. ASSUME PayEntry \/ EnterPosition PROVE Gate!GateNext \/ UNCHANGED Gate!gateVars
  <2>1. /\ job[Run] \in EntryJob /\ job[Run].pc \in {"pay", "enter"} /\ UNCHANGED riskVars
        /\ \/ job'[Run] = Waiting
           \/ /\ job'[Run].pc \in {"enter", "count"} /\ job'[Run].key = job[Run].key
              /\ job'[Run].size = job[Run].size
    <3>1. UNCHANGED riskVars
      BY <1>4, Zenon DEF PayEntry, EnterPosition
    <3> QED
      BY <1>4, <3>1, EntryStep
  <2>2. Inflight = EntryOf(job[Run].key, job[Run].size) /\ Inflight # NoEntry
    BY <2>1, JobFields, EntryIsEntry DEF Inflight, EntryOf
  <2>3. CASE job'[Run] = Waiting
    <3>1. Inflight' = NoEntry
      BY <2>3 DEF Inflight, Waiting
    <3>2. Gate!Abandon
      BY <2>1, <2>2, <3>1 DEF Gate!Abandon, riskVars, Gate!riskVars
    <3> QED
      BY <3>2 DEF Gate!GateNext
  <2>4. CASE job'[Run].pc \in {"enter", "count"} /\ job'[Run].key = job[Run].key
             /\ job'[Run].size = job[Run].size
    <3>1. Inflight' = Inflight
      BY <2>1, <2>4 DEF Inflight
    <3> QED
      BY <1>1, <2>1, <3>1
  <2> QED
    BY <2>1, <2>3, <2>4
<1>5. ASSUME CountEntry PROVE Gate!GateNext
  <2>1. /\ job[Run] \in EntryJob /\ job[Run].pc = "count" /\ job'[Run].pc = "entered"
        /\ RecordOpen(Market(job[Run].key), job[Run].size)
    BY <1>5, EntryStep, Zenon DEF CountEntry
  <2>2. Inflight = EntryOf(job[Run].key, job[Run].size) /\ Inflight # NoEntry
    BY <2>1, JobFields, EntryIsEntry DEF Inflight, EntryOf
  <2>3. Inflight' = NoEntry
    BY <2>1 DEF Inflight
  <2>4. Inflight.market = Market(job[Run].key) /\ Inflight.size = job[Run].size
    BY <2>2 DEF EntryOf
  <2>5. Gate!RecordOpen(Inflight.market, Inflight.size)
    BY <2>1, <2>4, SameRecords
  <2>6. Gate!Open
    BY <2>2, <2>3, <2>5 DEF Gate!Open
  <2> QED
    BY <2>6 DEF Gate!GateNext
<1>6. ASSUME NEW a \in Actors, Settle(a), Close(a) PROVE Gate!GateNext
  <2>1. PICK pnl \in Int : RecordClose(Market(job[a].key), job[a].pos.size, pnl)
    BY <1>6, SettleArguments
  <2>2. Market(job[a].key) \in Markets /\ job[a].pos.size \in Nat
    BY <1>6, SettleArguments, KeyTypes
  <2>3. Gate!RecordClose(Market(job[a].key), job[a].pos.size, pnl)
    BY <2>1, SameRecords
  <2>4. Inflight' = Inflight
    BY <1>6, CloseJobStep, AsideInflight
  <2>5. sessionPnL' \in Int /\ peakBalance' \in Nat
    BY DEF SimInv, PnLType
  <2>6. Gate!Close(Market(job[a].key), job[a].pos.size, pnl)
    BY <2>3, <2>4, <2>5 DEF Unbounded, Gate!Close
  <2> QED
    BY <2>1, <2>2, <2>6 DEF Unbounded, Gate!GateNext
<1>7. ASSUME UNCHANGED riskVars,
             \/ FillEntry \/ TellOpen \/ AdmitClose
             \/ \E a \in Actors : Close(a)
             \/ \E c \in Closers, k \in Keys, price \in ClosePrices : CloseNext(c, k, price)
             \/ UNCHANGED job
      PROVE  UNCHANGED Gate!gateVars
  <2>1. Aside \/ UNCHANGED job
    BY <1>7, EntryStep, AdmitCloseStep, CloseJobStep, CloseNextStep
  <2> QED
    BY <1>1, <1>7, <2>1, AsideInflight
<1> QED
  BY <1>2, <1>3, <1>4, <1>5, <1>6, <1>7, StepKinds

(* The simulated executor, its closers and any mix of strategies drive the *)
(* risk manager as RiskGate describes: whatever signals the strategies     *)
(* send and whoever closes a position meanwhile, at most one entry is      *)
(* between Check and RecordOpen.                                           *)
THEOREM SimImplementsGate ==
    ASSUME Unbounded PROVE SimSpec => ImplementsRiskGate
<1>1. SimInv /\ SimInv' /\ [SimNext]_simVars => [Gate!GateNext]_(Gate!gateVars)
  BY StepIsStep
<1> QED
  BY <1>1, InvHolds, InitIsInit, PTL DEF SimSpec, ImplementsRiskGate, Gate!GateSpec
----------------------------------------------------------------------------
(* What is proved of RiskGate carries over (its histories play no part).   *)
RGP == INSTANCE RiskProofs WITH inflight <- Inflight,
           opensWhileHalted <- 0, opensToday <- 0, bestBalance <- 0

LEMMA SameGate ==
    /\ Gate!GateInit => RGP!GateInit
    /\ [Gate!GateNext]_(Gate!gateVars) => [RGP!GateNext]_(RGP!gateVars)
<1>1. Gate!GateInit => RGP!GateInit
  BY Zenon DEF Gate!GateInit, RGP!GateInit, Gate!RiskInit, RGP!RiskInit, Inflight
<1>2. Gate!GateNext => RGP!GateNext
  BY Zenon
     DEF Inflight, Gate!GateNext, RGP!GateNext, Gate!Entries, RGP!Entries,
         Gate!Admit, RGP!Admit, Gate!CheckPasses, RGP!CheckPasses,
         Gate!Refuse, RGP!Refuse, Gate!CheckRejects, RGP!CheckRejects,
         Gate!WithinLimits, RGP!WithinLimits, Gate!ResetDay, RGP!ResetDay,
         Gate!TradesToday, RGP!TradesToday, Gate!Abandon, RGP!Abandon,
         Gate!Open, RGP!Open, Gate!RecordOpen, RGP!RecordOpen,
         Gate!Close, RGP!Close, Gate!RecordClose, RGP!RecordClose, Gate!Less, RGP!Less,
         Gate!Larger, RGP!Larger, Gate!TriggerHalt, RGP!TriggerHalt,
         Gate!DrawdownReached, RGP!DrawdownReached,
         Gate!ResumeTrading, RGP!ResumeTrading, Gate!Resume, RGP!Resume,
         Gate!StartHaltCallback, RGP!StartHaltCallback,
         Gate!HaltCallbackStarts, RGP!HaltCallbackStarts,
         Gate!Midnight, RGP!Midnight, Gate!NextDay, RGP!NextDay,
         Gate!exposureVars, RGP!exposureVars, Gate!pnlVars, RGP!pnlVars,
         Gate!haltVars, RGP!haltVars, Gate!dayVars, RGP!dayVars, Gate!riskVars, RGP!riskVars
<1>3. UNCHANGED Gate!gateVars => UNCHANGED RGP!gateVars
  BY DEF Gate!gateVars, RGP!gateVars, Gate!riskVars, RGP!riskVars, Inflight
<1> QED
  BY <1>1, <1>2, <1>3

(* Simulated trading keeps the limits: recorded exposure in total and per  *)
(* market, active strategies and the day's trades, through every           *)
(* interleaving of signals, entries and closers.                           *)
THEOREM SimLimitsHold ==
    ASSUME Unbounded PROVE SimSpec => []RGP!LimitsHold
<1>1. /\ CloseSizes \subseteq Nat /\ PnLs \subseteq Int /\ Sizes \subseteq Nat
      /\ NoEntry \notin [strategy : Strategies, market : Markets, size : Sizes]
  BY SimConfig DEF Unbounded, SimConfig
<1>2. RGP!GateSpec => []RGP!LimitsHold
  BY <1>1, RGP!LimitsSafe, RiskConfig DEF RiskConfig
<1>3. SimInv /\ SimInv' /\ [SimNext]_simVars => [RGP!GateNext]_(RGP!gateVars)
  BY StepIsStep, SameGate
<1>4. SimInit => RGP!GateInit
  BY InitIsInit, SameGate
<1>5. SimSpec => RGP!GateSpec
  BY <1>3, <1>4, InvHolds, PTL DEF SimSpec, RGP!GateSpec
<1> QED
  BY <1>2, <1>5, PTL
----------------------------------------------------------------------------
(* While no two goroutines have worked on one position, each works on a    *)
(* key of its own, and what it remembers of the position is so.            *)
Fits(a) ==
    /\ job[a].pc \in {"pay", "enter"} => ~HasOpenPosition(positions, job[a].key)
    /\ job[a].pc \in {"count", "entered", "tell open"} =>
          /\ HasOpenPosition(positions, job[a].key)
          /\ positions[job[a].key].size = job[a].size
    /\ job[a].pc \in {"pay out", "settle", "settled", "filled"} =>
          HasOpenPosition(positions, job[a].key) /\ positions[job[a].key] = job[a].pos
    /\ job[a].pc = "tell closed" => ~HasOpenPosition(positions, job[a].key)

OthersOff(a, k) == \A b \in Actors \ {a} : job[b].pc # "idle" => job[b].key # k
Undisturbed(a) == job[a].pc # "idle" => OthersOff(a, job[a].key)

Apart == \A a \in Actors : Fits(a) /\ Undisturbed(a)

LEMMA BusyKeys ==
    ASSUME SimInv, NEW a \in Actors, job[a].pc # "idle"
    PROVE  job[a].key \in Keys
BY JobFields DEF SimInv, JobType, JobState, Waiting

(* Goroutine a works on key k, nobody else does.                           *)
Works(a, k) ==
    /\ OthersOff(a, k)
    /\ \A b \in Actors \ {a} : job'[b] = job[b]
    /\ \A i \in Keys \ {k} : positions'[i] = positions[i]
    /\ job'[a] = Waiting \/ (job'[a].key = k /\ Fits(a)')

LEMMA WorkKeepsApart ==
    ASSUME SimInv, Apart, NEW a \in Actors, NEW k, Works(a, k)
    PROVE  Apart'
<1>1. Fits(a)'
  <2>1. job'[a] = Waiting \/ Fits(a)'
    BY DEF Works
  <2>2. CASE job'[a] = Waiting
    BY <2>2 DEF Fits, Waiting
  <2> QED
    BY <2>1, <2>2
<1>2. Undisturbed(a)'
  BY DEF Works, Undisturbed, OthersOff, Waiting
<1>3. ASSUME NEW b \in Actors \ {a} PROVE Fits(b)'
  <2>1. job'[b] = job[b] /\ Fits(b)
    BY <1>3 DEF Works, Apart
  <2>2. job[b].pc # "idle" => job[b].key \in Keys \ {k}
    BY <1>3, BusyKeys DEF Works, OthersOff
  <2>3. job[b].pc # "idle" => positions'[job[b].key] = positions[job[b].key]
    BY <2>2 DEF Works
  <2> QED
    BY <2>1, <2>3 DEF Fits, HasOpenPosition
<1>4. ASSUME NEW b \in Actors \ {a} PROVE Undisturbed(b)'
  <2>1. job'[b] = job[b] /\ Undisturbed(b) /\ (job[b].pc # "idle" => job[b].key # k)
    BY <1>4 DEF Works, Apart, OthersOff
  <2>2. ASSUME NEW c \in Actors \ {b}, job[b].pc # "idle", job'[c].pc # "idle"
        PROVE  job'[c].key # job[b].key
    <3>1. CASE c = a
      BY <2>1, <2>2, <3>1 DEF Works, Waiting
    <3>2. CASE c # a
      BY <2>1, <2>2, <3>2 DEF Works, Undisturbed, OthersOff
    <3> QED
      BY <3>1, <3>2
  <2> QED
    BY <2>1, <2>2 DEF Undisturbed, OthersOff
<1> QED
  BY <1>1, <1>2, <1>3, <1>4 DEF Apart

(* What each step does with the key it works on.                           *)
LEMMA EnterEffect ==
    ASSUME SimInv, Apart, EnterPosition
    PROVE  \E k \in Keys, pos \in Position :
              /\ Works(Run, k) /\ k = job[Run].key /\ job[Run].pc = "enter"
              /\ ~HasOpenPosition(positions, k)
              /\ positions' = [positions EXCEPT ![k] = pos] /\ pos.status = "open"
              /\ job'[Run].pc = "count" /\ job'[Run].key = k
              /\ pos.size = job[Run].size /\ pos.fee = FeeOf(job[Run].size)
              /\ balance' = balance
<1>1. Run \in Actors /\ JobType /\ Sizes \subseteq Nat /\ positions \in Ledgers
  BY SimConfig DEF SimInv, Actors, SimConfig, LedgerType
<1>2. job[Run] \in EntryJob /\ job[Run].pc = "enter" /\ JobType'
  BY EntryStep
<1> DEFINE k == job[Run].key
           pos == [status |-> "open", entryPrice |-> FillPrice(job[Run].sig.price),
                   size |-> job[Run].size, order |-> NoOrder, side |-> job[Run].sig.dir,
                   fee |-> FeeOf(job[Run].size)]
<1>3. pos \in Position /\ k \in Keys
  <2>1. k \in Keys /\ job[Run].size \in Nat /\ job[Run].sig.dir \in Sides
        /\ job[Run].sig.price \in Nat
    BY <1>1, <1>2, JobFields
  <2>2. FillPrice(job[Run].sig.price) \in Nat \ {0} /\ FeeOf(job[Run].size) \in Int
    BY <2>1, FillPriceIsPositive, FeeIsInt
  <2> QED
    BY <2>1, <2>2 DEF Position
<1>4. ~HasOpenPosition(positions, k) /\ OthersOff(Run, k)
  BY <1>1, <1>2 DEF Apart, Fits, Undisturbed
<1>5. positions' = [positions EXCEPT ![k] = pos] /\ balance' = balance
      /\ GoTo(Run, "count")
  BY <1>4, Zenon DEF EnterPosition, OpenPosition
<1>6. /\ job'[Run].pc = "count" /\ job'[Run].key = k /\ job'[Run].size = pos.size
      /\ \A b \in Actors \ {Run} : job'[b] = job[b]
  BY <1>1, <1>2, <1>5, EntryGoesOn
<1>7. /\ pos.status = "open" /\ NoPosition # pos
      /\ pos.size = job[Run].size /\ pos.fee = FeeOf(job[Run].size)
  <2>1. /\ pos.status = "open"
        /\ pos.size = job[Run].size /\ pos.fee = FeeOf(job[Run].size)
    OBVIOUS
  <2> HIDE DEF pos
  <2> QED
    BY <1>3, <2>1, SimConfig DEF SimConfig, Position
<1> HIDE DEF pos, k
<1>8. positions'[k] = pos /\ \A i \in Keys \ {k} : positions'[i] = positions[i]
  BY <1>1, <1>3, <1>5 DEF Ledgers
<1>9. Works(Run, k)
  BY <1>4, <1>6, <1>7, <1>8 DEF Works, Fits, HasOpenPosition
<1> QED
  BY <1>2, <1>3, <1>4, <1>5, <1>6, <1>7, <1>9 DEF k

LEMMA PayEffect ==
    ASSUME SimInv, Apart, PayEntry
    PROVE  \E k \in Keys :
              /\ Works(Run, k) /\ k = job[Run].key /\ ~HasOpenPosition(positions, k)
              /\ job[Run].pc = "pay" /\ job'[Run].pc = "enter" /\ job'[Run].key = k
              /\ job'[Run].size = job[Run].size /\ job[Run].size \in Nat
              /\ positions' = positions /\ overlap' = overlap
<1> DEFINE k == job[Run].key
<1>1. Run \in Actors /\ JobType
  BY DEF SimInv, Actors
<1>2. job[Run].pc = "pay" /\ GoTo(Run, "enter") /\ positions' = positions /\ overlap' = overlap
  BY DEF PayEntry
<1>3. job[Run] \in EntryJob /\ k \in Keys /\ job[Run].size \in Nat
  BY EntryStep, JobFields, SimConfig DEF SimConfig
<1>4. OthersOff(Run, k) /\ ~HasOpenPosition(positions, k)
  BY <1>1, <1>2 DEF Apart, Fits, Undisturbed
<1>5. /\ job'[Run].pc = "enter" /\ job'[Run].key = k /\ job'[Run].size = job[Run].size
      /\ \A b \in Actors \ {Run} : job'[b] = job[b]
  BY <1>1, <1>2, <1>3, EntryGoesOn
<1>6. Fits(Run)'
  BY <1>2, <1>4, <1>5 DEF Fits, HasOpenPosition
<1>7. Works(Run, k)
  BY <1>2, <1>4, <1>5, <1>6 DEF Works
<1> QED
  BY <1>2, <1>3, <1>4, <1>5, <1>7 DEF k

LEMMA EntryEffects ==
    ASSUME SimInv, Apart, CountEntry \/ FillEntry \/ TellOpen
    PROVE  \E k \in Keys :
              /\ Works(Run, k) /\ k = job[Run].key /\ HasOpenPosition(positions, k)
              /\ job[Run].pc \in {"count", "entered", "tell open"}
              /\ positions' = positions /\ balance' = balance /\ overlap' = overlap
              /\ CountEntry => /\ job[Run].pc = "count" /\ job'[Run].pc = "entered"
                               /\ job'[Run].key = k
                               /\ positions[k].size = job[Run].size
              /\ FillEntry => /\ job[Run].pc = "entered" /\ job'[Run].pc = "tell open"
                              /\ job'[Run].key = k
              /\ TellOpen => job[Run].pc = "tell open" /\ job'[Run].pc = "idle"
<1> DEFINE k == job[Run].key
<1>1. Run \in Actors /\ JobType
  BY DEF SimInv, Actors
<1>2. job[Run] \in EntryJob /\ k \in Keys
  BY EntryStep, JobFields
<1>3. job[Run].pc \in {"count", "entered", "tell open"}
  BY DEF CountEntry, FillEntry, TellOpen
<1>4. /\ OthersOff(Run, k) /\ HasOpenPosition(positions, k)
      /\ positions[k].size = job[Run].size
  BY <1>1, <1>3 DEF Apart, Fits, Undisturbed
<1>5. positions' = positions /\ balance' = balance /\ overlap' = overlap
  BY DEF CountEntry, FillEntry, TellOpen
<1>6. ASSUME NEW pc \in {"entered", "tell open"}, GoTo(Run, pc)
      PROVE  job'[Run].pc = pc /\ job'[Run].key = k /\ Works(Run, k)
  <2>1. /\ job'[Run].pc = pc /\ job'[Run].key = k /\ job'[Run].size = job[Run].size
        /\ \A b \in Actors \ {Run} : job'[b] = job[b]
    BY <1>1, <1>2, <1>6, EntryGoesOn
  <2>2. Fits(Run)'
    BY <1>4, <1>5, <2>1 DEF Fits, HasOpenPosition
  <2> QED
    BY <1>4, <1>5, <2>1, <2>2 DEF Works
<1>7. ASSUME EndJob(Run) PROVE job'[Run].pc = "idle" /\ Works(Run, k)
  <2>1. job'[Run] = Waiting /\ \A b \in Actors \ {Run} : job'[b] = job[b]
    BY <1>1, <1>7 DEF EndJob, JobType
  <2>2. job'[Run].pc = "idle"
    BY <2>1 DEF Waiting
  <2> QED
    BY <1>4, <1>5, <2>1, <2>2 DEF Works
<1>8. /\ CountEntry => job[Run].pc = "count" /\ GoTo(Run, "entered")
      /\ FillEntry => job[Run].pc = "entered" /\ GoTo(Run, "tell open")
      /\ TellOpen => job[Run].pc = "tell open" /\ EndJob(Run)
  BY DEF CountEntry, FillEntry, TellOpen
<1> HIDE DEF k
<1>9. /\ CountEntry => job'[Run].pc = "entered" /\ job'[Run].key = k /\ Works(Run, k)
      /\ FillEntry => job'[Run].pc = "tell open" /\ job'[Run].key = k /\ Works(Run, k)
      /\ TellOpen => job'[Run].pc = "idle" /\ Works(Run, k)
  BY <1>6, <1>7, <1>8
<1> QED
  BY <1>2, <1>3, <1>4, <1>5, <1>8, <1>9 DEF k

LEMMA CloseEffects ==
    ASSUME SimInv, Apart, NEW a \in Actors, Close(a)
    PROVE  \E k \in Keys :
              /\ Works(a, k) /\ k = job[a].key /\ overlap' = overlap
              /\ PayOut(a) => /\ HasOpenPosition(positions, k)
                              /\ job[a].pc = "pay out" /\ job'[a].pc = "settle"
                              /\ job'[a].pos = job[a].pos /\ job'[a].price = job[a].price
                              /\ job'[a].key = k /\ positions' = positions
              /\ Settle(a) => /\ HasOpenPosition(positions, k) /\ positions[k] = job[a].pos
                              /\ job[a].pc = "settle" /\ job'[a].pc = "settled"
                              /\ job'[a].key = k /\ positions' = positions
              /\ FillClose(a) => /\ HasOpenPosition(positions, k)
                                 /\ job[a].pc = "settled" /\ job'[a].pc = "filled"
                                 /\ job'[a].key = k /\ positions' = positions
              /\ FinishClose(a) => /\ job[a].pc = "filled" /\ job'[a].pc = "tell closed"
                                   /\ ~HasOpenPosition(positions', k)
              /\ TellClosed(a) => /\ job[a].pc = "tell closed" /\ job'[a].pc = "idle"
                                  /\ ~HasOpenPosition(positions, k)
                                  /\ positions' = positions
<1> DEFINE k == job[a].key
<1>1. JobType /\ LedgerType
  BY DEF SimInv
<1>2. job[a].pc \in {"pay out", "settle", "settled", "filled", "tell closed"}
  BY DEF Close, PayOut, Settle, FillClose, FinishClose, TellClosed
<1>3. job[a] \in CloseJob /\ k \in Keys
  BY <1>1, <1>2, JobTypes, JobFields
<1>4. /\ OthersOff(a, k)
      /\ job[a].pc # "tell closed" =>
            HasOpenPosition(positions, k) /\ positions[k] = job[a].pos
      /\ job[a].pc = "tell closed" => ~HasOpenPosition(positions, k)
  BY <1>2 DEF Apart, Fits, Undisturbed
<1>5. ASSUME NEW pc \in {"settle", "settled", "filled", "tell closed"}, GoTo(a, pc)
      PROVE  /\ job'[a].pc = pc /\ job'[a].key = k /\ job'[a].pos = job[a].pos
             /\ job'[a].price = job[a].price
             /\ \A b \in Actors \ {a} : job'[b] = job[b]
  BY <1>1, <1>3, <1>5, CloseGoesOn
<1>6. ASSUME NEW pc \in {"settle", "settled", "filled"}, GoTo(a, pc), positions' = positions,
             job[a].pc # "tell closed"
      PROVE  Works(a, k)
  <2>1. Fits(a)'
    BY <1>4, <1>5, <1>6 DEF Fits, HasOpenPosition
  <2> QED
    BY <1>4, <1>5, <1>6, <2>1 DEF Works
<1>7. overlap' = overlap
  BY DEF Close, PayOut, Settle, FillClose, FinishClose, TellClosed
<1>0. ASSUME PayOut(a)
      PROVE  /\ Works(a, k) /\ job[a].pc = "pay out" /\ job'[a].pc = "settle"
             /\ job'[a].pos = job[a].pos /\ job'[a].price = job[a].price
             /\ job'[a].key = k /\ positions' = positions
  <2>1. job[a].pc = "pay out" /\ GoTo(a, "settle") /\ positions' = positions
    BY <1>0 DEF PayOut
  <2> QED
    BY <1>5, <1>6, <2>1
<1>8. ASSUME Settle(a)
      PROVE  /\ Works(a, k) /\ job[a].pc = "settle" /\ job'[a].pc = "settled"
             /\ job'[a].key = k /\ positions' = positions
  <2>1. job[a].pc = "settle" /\ GoTo(a, "settled") /\ positions' = positions
    BY <1>8, Zenon DEF Settle
  <2> QED
    BY <1>5, <1>6, <2>1
<1>9. ASSUME FillClose(a)
      PROVE  /\ Works(a, k) /\ job[a].pc = "settled" /\ job'[a].pc = "filled"
             /\ job'[a].key = k /\ positions' = positions
  <2>1. job[a].pc = "settled" /\ GoTo(a, "filled") /\ positions' = positions
    BY <1>9 DEF FillClose
  <2> QED
    BY <1>5, <1>6, <2>1
<1>10. ASSUME FinishClose(a)
       PROVE  /\ Works(a, k) /\ job[a].pc = "filled" /\ job'[a].pc = "tell closed"
              /\ ~HasOpenPosition(positions', k)
  <2>1. /\ job[a].pc = "filled" /\ GoTo(a, "tell closed")
        /\ positions' = ClosePosition(positions, k)
    BY <1>10 DEF FinishClose
  <2>2. positions[k] # NoPosition /\ positions \in [Keys -> {NoPosition} \cup Position]
    BY <1>1, <1>4, <2>1 DEF HasOpenPosition, LedgerType, Ledgers
  <2> DEFINE closed == [positions[k] EXCEPT !.status = "closed", !.order = NoOrder]
  <2>3. positions' = [positions EXCEPT ![k] = closed]
    BY <2>1, <2>2 DEF ClosePosition
  <2>4. closed.status = "closed"
    BY <1>3, <2>2 DEF Position
  <2> HIDE DEF closed, k
  <2>5. positions'[k] = closed /\ \A i \in Keys \ {k} : positions'[i] = positions[i]
    BY <1>3, <2>2, <2>3
  <2>6. /\ job'[a].pc = "tell closed" /\ job'[a].key = k
        /\ \A b \in Actors \ {a} : job'[b] = job[b]
    BY <1>5, <2>1
  <2>7. Fits(a)'
    BY <2>4, <2>5, <2>6 DEF Fits, HasOpenPosition
  <2>8. Works(a, k)
    BY <1>4, <2>5, <2>6, <2>7 DEF Works
  <2> QED
    BY <2>1, <2>4, <2>5, <2>6, <2>8 DEF HasOpenPosition
<1>11. ASSUME TellClosed(a)
       PROVE  /\ Works(a, k) /\ job[a].pc = "tell closed" /\ job'[a].pc = "idle"
              /\ ~HasOpenPosition(positions, k) /\ positions' = positions
  <2>1. job[a].pc = "tell closed" /\ EndJob(a) /\ positions' = positions
    BY <1>11 DEF TellClosed
  <2>2. job'[a] = Waiting /\ \A b \in Actors \ {a} : job'[b] = job[b]
    BY <1>1, <2>1 DEF EndJob, JobType
  <2>3. job'[a].pc = "idle"
    BY <2>2 DEF Waiting
  <2> QED
    BY <1>4, <2>1, <2>2, <2>3 DEF Works
<1>12. Works(a, k)
  BY <1>0, <1>8, <1>9, <1>10, <1>11 DEF Close
<1> HIDE DEF k
<1>13. /\ PayOut(a) => /\ HasOpenPosition(positions, k)
                       /\ job[a].pc = "pay out" /\ job'[a].pc = "settle"
                       /\ job'[a].pos = job[a].pos /\ job'[a].price = job[a].price
                       /\ job'[a].key = k /\ positions' = positions
       /\ Settle(a) => /\ HasOpenPosition(positions, k) /\ positions[k] = job[a].pos
                       /\ job[a].pc = "settle" /\ job'[a].pc = "settled"
                       /\ job'[a].key = k /\ positions' = positions
       /\ FillClose(a) => /\ HasOpenPosition(positions, k)
                          /\ job[a].pc = "settled" /\ job'[a].pc = "filled"
                          /\ job'[a].key = k /\ positions' = positions
       /\ FinishClose(a) => /\ job[a].pc = "filled" /\ job'[a].pc = "tell closed"
                            /\ ~HasOpenPosition(positions', k)
       /\ TellClosed(a) => /\ job[a].pc = "tell closed" /\ job'[a].pc = "idle"
                           /\ ~HasOpenPosition(positions, k) /\ positions' = positions
  BY <1>0, <1>4, <1>8, <1>9, <1>10, <1>11
<1> QED
  BY <1>3, <1>7, <1>12, <1>13 DEF k

(* Goroutine a starts to work on key k.                                    *)
Starts(a, k, pc) ==
    /\ Works(a, k) /\ job[a] = Waiting
    /\ job'[a].pc = pc /\ job'[a].key = k
    /\ positions' = positions /\ balance' = balance
    /\ report' = report /\ mispaired' = mispaired

LEMMA StartCloseEffect ==
    ASSUME SimInv, Apart, ~overlap', NEW a \in Actors, NEW k \in Keys, NEW price \in Nat,
           job[a] = Waiting, StartClose(a, k, price)
    PROVE  ~overlap /\ Starts(a, k, "pay out") /\ HasOpenPosition(positions, k)
<1> DEFINE next == [pc |-> "pay out", key |-> k, pos |-> positions[k],
                    price |-> FillPrice(price)]
<1>1. /\ job' = [job EXCEPT ![a] = next] /\ job \in [Actors -> JobState]
      /\ positions' = positions /\ balance' = balance
      /\ report' = report /\ mispaired' = mispaired
  BY DEF StartClose, SimInv, JobType
<1>2. ~overlap /\ ~Contended(a, k) /\ HasOpenPosition(positions, k)
  BY DEF StartClose
<1>3. next.pc = "pay out" /\ next.key = k /\ next.pos = positions[k]
  OBVIOUS
<1> HIDE DEF next
<1>4. job'[a] = next /\ \A b \in Actors \ {a} : job'[b] = job[b]
  BY <1>1
<1>5. OthersOff(a, k)
  BY <1>2 DEF Contended, OthersOff
<1>6. Fits(a)'
  BY <1>1, <1>2, <1>3, <1>4 DEF Fits, HasOpenPosition
<1> QED
  BY <1>1, <1>2, <1>3, <1>4, <1>5, <1>6 DEF Starts, Works

LEMMA AdmitEffect ==
    ASSUME SimInv, Apart, ~overlap', NEW size \in Sizes, AdmitEntry(size)
    PROVE  ~overlap /\ \E k \in Keys : Starts(Run, k, "pay") /\ ~HasOpenPosition(positions, k)
<1> DEFINE k == Head(signals).key
           next == [pc |-> "pay", key |-> k, size |-> size, sig |-> Head(signals).sig]
<1>1. /\ job' = [job EXCEPT ![Run] = next] /\ job \in [Actors -> JobState] /\ Run \in Actors
      /\ positions' = positions /\ balance' = balance
      /\ report' = report /\ mispaired' = mispaired
      /\ ~overlap /\ ~Contended(Run, k) /\ ~HasOpenPosition(positions, k)
  BY DEF AdmitEntry, SimInv, JobType, Actors
<1>2. job[Run] = Waiting /\ k \in Keys
  BY AdmitStep
<1>3. next.pc = "pay" /\ next.key = k
  OBVIOUS
<1> HIDE DEF next, k
<1>4. job'[Run] = next /\ \A b \in Actors \ {Run} : job'[b] = job[b]
  BY <1>1
<1>5. OthersOff(Run, k)
  BY <1>1 DEF Contended, OthersOff
<1>6. Fits(Run)'
  BY <1>1, <1>3, <1>4 DEF Fits, HasOpenPosition
<1> QED
  BY <1>1, <1>2, <1>3, <1>4, <1>5, <1>6 DEF Starts, Works

moneyVars == <<job, positions, balance, report, mispaired, overlap, totalExposure,
               marketExposure, sessionPnL>>

LEMMA MoneyKinds ==
    ASSUME SimInv, [SimNext]_simVars
    PROVE  \/ \E size \in Sizes : AdmitEntry(size)
           \/ PayEntry \/ EnterPosition \/ CountEntry \/ FillEntry \/ TellOpen
           \/ \E a \in Actors : Close(a)
           \/ \E a \in Actors, k \in Keys, price \in Nat :
                 job[a] = Waiting /\ StartClose(a, k, price) /\ UNCHANGED riskVars
           \/ UNCHANGED moneyVars
<1>1. UNCHANGED riskVars => UNCHANGED <<totalExposure, marketExposure, sessionPnL>>
  BY DEF riskVars
<1>2. UNCHANGED riskVars /\ UNCHANGED executorVars => UNCHANGED moneyVars
  BY <1>1 DEF executorVars, moneyVars
<1>3. ASSUME NEW s \in Strategies, StrategyStep(s) PROVE UNCHANGED moneyVars
  BY <1>2, <1>3, Zenon DEF StrategyStep, OnSnapshot, SendSignal, OnFeedback
<1>4. ASSUME NEW size \in Sizes, RejectEntry(size) PROVE UNCHANGED moneyVars
  <2>1. UNCHANGED executorVars
    BY <1>4 DEF RejectEntry
  <2>2. UNCHANGED <<exposureVars, pnlVars>>
    BY <1>4, Zenon DEF RejectEntry, CheckRejects, riskVars, exposureVars, pnlVars
  <2> QED
    BY <2>1, <2>2 DEF moneyVars, executorVars, exposureVars, pnlVars
<1>5. RejectClose => UNCHANGED moneyVars
  BY <1>2 DEF RejectClose
<1>6. ASSUME AdmitClose
      PROVE  \E a \in Actors, k \in Keys, price \in Nat :
                job[a] = Waiting /\ StartClose(a, k, price) /\ UNCHANGED riskVars
  <2>1. signals # <<>> /\ job[Run] = Waiting /\ UNCHANGED riskVars
        /\ StartClose(Run, Head(signals).key, Head(signals).sig.price)
    BY <1>6 DEF AdmitClose, NextSignal
  <2>2. Head(signals).key \in Keys /\ Head(signals).sig.price \in Nat /\ Run \in Actors
    BY <2>1, HeadIsMessage DEF SimInv, Actors
  <2> QED
    BY <2>1, <2>2
<1>7. ASSUME NEW c \in Closers, CloserStep(c), ~Close(c)
      PROVE  \/ \E a \in Actors, k \in Keys, price \in Nat :
                   job[a] = Waiting /\ StartClose(a, k, price) /\ UNCHANGED riskVars
             \/ UNCHANGED moneyVars
  <2>1. ClosePrices \subseteq Nat /\ c \in Actors
    BY SimConfig, RulesConfig DEF SimConfig, RulesConfig, Actors
  <2>2. ASSUME NEW ms, ListPositions(c, ms) PROVE UNCHANGED moneyVars
    BY <1>1, <2>2 DEF ListPositions, moneyVars
  <2>3. ASSUME NEW k \in Keys, NEW price \in ClosePrices, CloseNext(c, k, price)
        PROVE  job[c] = Waiting /\ StartClose(c, k, price) /\ UNCHANGED riskVars
    BY <2>3 DEF CloseNext
  <2>4. \/ \E ms : ListPositions(c, ms)
        \/ \E k \in Keys, price \in ClosePrices : CloseNext(c, k, price)
    BY <1>7, Zenon DEF CloserStep
  <2> QED
    BY <2>1, <2>2, <2>3, <2>4
<1>8. UNCHANGED simVars => UNCHANGED moneyVars
  BY <1>2 DEF simVars
<1>9. Run \in Actors /\ Closers \subseteq Actors
  BY DEF Actors
<1>10. ASSUME RunStep
       PROVE  \/ \E size \in Sizes : AdmitEntry(size) \/ RejectEntry(size)
              \/ PayEntry \/ EnterPosition \/ CountEntry \/ FillEntry \/ TellOpen
              \/ AdmitClose \/ RejectClose \/ Close(Run)
  BY <1>10 DEF RunStep
<1>11. \/ \E s \in Strategies : StrategyStep(s)
       \/ RunStep
       \/ \E c \in Closers : CloserStep(c)
       \/ UNCHANGED simVars
  BY DEF SimNext
<1> QED
  BY <1>3, <1>4, <1>5, <1>6, <1>7, <1>8, <1>9, <1>10, <1>11, Zenon

LEMMA ApartStep ==
    ASSUME SimInv, Apart, ~overlap', [SimNext]_simVars
    PROVE  ~overlap /\ Apart'
<1>1. ASSUME NEW size \in Sizes, AdmitEntry(size) PROVE ~overlap /\ Apart'
  BY <1>1, AdmitEffect, WorkKeepsApart DEF Starts, Actors
<1>2. ASSUME EnterPosition PROVE ~overlap /\ Apart'
  <2>1. overlap' = overlap
    BY <1>2 DEF EnterPosition
  <2> QED
    BY <1>2, <2>1, EnterEffect, WorkKeepsApart DEF Actors
<1>3. ASSUME PayEntry \/ CountEntry \/ FillEntry \/ TellOpen PROVE ~overlap /\ Apart'
  <2>1. PICK k \in Keys : Works(Run, k) /\ overlap' = overlap
    BY <1>3, EntryEffects, PayEffect
  <2> QED
    BY <2>1, WorkKeepsApart DEF Actors
<1>4. ASSUME NEW a \in Actors, Close(a) PROVE ~overlap /\ Apart'
  BY <1>4, CloseEffects, WorkKeepsApart
<1>5. ASSUME NEW a \in Actors, NEW k \in Keys, NEW price \in Nat,
             job[a] = Waiting, StartClose(a, k, price)
      PROVE  ~overlap /\ Apart'
  BY <1>5, StartCloseEffect, WorkKeepsApart DEF Starts
<1>6. ASSUME UNCHANGED moneyVars PROVE ~overlap /\ Apart'
  BY <1>6 DEF moneyVars, Apart, Fits, Undisturbed, OthersOff, HasOpenPosition
<1> QED
  BY <1>1, <1>2, <1>3, <1>4, <1>5, <1>6, MoneyKinds
----------------------------------------------------------------------------
LEMMA RiskStep ==
    ASSUME SimInv, RiskTypeOK, [SimNext]_simVars
    PROVE  RiskTypeOK'
<1>1. ASSUME NEW s, NEW m, NEW size, CheckPasses(s, m, size) \/ CheckRejects(s, m, size)
      PROVE  RiskTypeOK'
  BY <1>1 DEF CheckPasses, CheckRejects, ResetDay, TradesToday, exposureVars, pnlVars, haltVars,
              dayVars, RiskTypeOK, CountersOK
<1>2. ASSUME NEW m \in Markets, NEW size \in Nat, RecordOpen(m, size) PROVE RiskTypeOK'
  BY <1>2 DEF RecordOpen, pnlVars, haltVars, RiskTypeOK, CountersOK
<1>3. ASSUME NEW m \in Markets, NEW size \in Nat, NEW pnl \in Int, RecordClose(m, size, pnl)
      PROVE  RiskTypeOK'
  <2>1. halted' \in BOOLEAN /\ haltCallbacks' \in Nat
    <3>1. \/ halted' = TRUE /\ haltCallbacks' \in {haltCallbacks, haltCallbacks + 1}
          \/ UNCHANGED haltVars
      BY <1>3 DEF RecordClose, TriggerHalt
    <3>2. haltCallbacks' \in Nat
      BY <3>1 DEF haltVars, RiskTypeOK, CountersOK
    <3>3. halted' \in BOOLEAN
      BY <3>1, Zenon DEF haltVars, RiskTypeOK
    <3> QED
      BY <3>2, <3>3
  <2>2. sessionPnL' \in Int /\ peakBalance' \in Nat
    <3>1. sessionPnL' = sessionPnL + pnl
          /\ peakBalance' = Larger(peakBalance, peakBalance + sessionPnL')
      BY <1>3, Zenon DEF RecordClose
    <3> QED
      BY <3>1 DEF Larger, RiskTypeOK, CountersOK
  <2>3. /\ totalExposure' = Less(totalExposure, size)
        /\ marketExposure' = [marketExposure EXCEPT ![m] = Less(marketExposure[m], size)]
        /\ marketActive' = [marketActive EXCEPT ![m] = Less(marketActive[m], 1)]
        /\ UNCHANGED <<dayVars, today>>
    BY <1>3, Zenon DEF RecordClose
  <2>4. \A x, y \in Nat : Less(x, y) \in Nat
    BY DEF Less
  <2>5. totalExposure' \in Nat /\ marketExposure' \in [Markets -> Nat]
        /\ marketActive' \in [Markets -> Nat]
    BY <2>3, <2>4 DEF RiskTypeOK, CountersOK
  <2> QED
    BY <2>1, <2>2, <2>3, <2>5 DEF dayVars, RiskTypeOK, CountersOK
<1>4. ASSUME UNCHANGED riskVars PROVE RiskTypeOK'
  BY <1>4 DEF riskVars, RiskTypeOK, CountersOK
<1>5. ASSUME NEW a \in Actors, Settle(a) PROVE RiskTypeOK'
  BY <1>3, <1>5, SettleArguments, KeyTypes
<1>6. ASSUME CountEntry PROVE RiskTypeOK'
  <2>1. job[Run].key \in Keys /\ job[Run].size \in Nat
    BY <1>6, EntryStep, JobFields, SimConfig DEF SimConfig
  <2> QED
    BY <1>2, <1>6, <2>1, KeyTypes DEF CountEntry
<1>7. ASSUME NEW size \in Sizes, AdmitEntry(size) \/ RejectEntry(size) PROVE RiskTypeOK'
  BY <1>1, <1>4, <1>7, Zenon DEF AdmitEntry, RejectEntry
<1>8. PayEntry \/ EnterPosition => UNCHANGED riskVars
  BY Zenon DEF PayEntry, EnterPosition
<1> QED
  BY <1>4, <1>5, <1>6, <1>7, <1>8, StepKinds, Zenon

Recorded == Held \ Uncounted
RecordedIn(m) == {k \in Recorded : Market(k) = m}

Balanced ==
    balance = StartingBalance + sessionPnL - SumFunctionOnSet(CostOf, Held)
              + SumFunctionOnSet(Moved, Actors)
Exposed ==
    /\ totalExposure = SumFunctionOnSet(SizeOf, Recorded)
    /\ \A m \in Markets : marketExposure[m] = SumFunctionOnSet(SizeOf, RecordedIn(m))

(* What goroutine a has done with key k.                                   *)
LEMMA HeldAt ==
    ASSUME NEW a \in Actors, NEW k \in Keys, OthersOff(a, k),
           job[a] = Waiting \/ job[a].key = k
    PROVE  /\ k \in Held <=> /\ HasOpenPosition(positions, k)
                             /\ job[a].pc \notin {"settled", "filled"}
           /\ k \in Uncounted <=> a = Run /\ job[a].pc = "count"
<1>1. k \in Settled <=> job[a].pc \in {"settled", "filled"}
  BY DEF Settled, OthersOff, Waiting
<1>2. k \in Uncounted <=> a = Run /\ job[a].pc = "count"
  BY DEF Uncounted, OthersOff, Waiting, Actors
<1> QED
  BY <1>1, <1>2 DEF Held, OpenPositions

LEMMA HeldElsewhere ==
    ASSUME NEW a \in Actors, NEW k \in Keys, Works(a, k),
           job[a] = Waiting \/ job[a].key = k
    PROVE  /\ Held' \ {k} = Held \ {k}
           /\ Uncounted' \ {k} = Uncounted \ {k}
           /\ OthersOff(a, k)'
<1>1. /\ \A b \in Actors \ {a} : job'[b] = job[b]
      /\ job'[a] = Waiting \/ job'[a].key = k
  BY DEF Works
<1>2. Settled' \ {k} = Settled \ {k}
  BY <1>1 DEF Settled, Waiting
<1>3. Uncounted' \ {k} = Uncounted \ {k}
  BY <1>1 DEF Uncounted, Waiting, Actors
<1>4. OpenPositions(positions') \ {k} = OpenPositions(positions) \ {k}
  BY DEF Works, OpenPositions, HasOpenPosition
<1>5. OthersOff(a, k)'
  BY DEF Works, OthersOff
<1> QED
  BY <1>2, <1>3, <1>4, <1>5 DEF Held

LEMMA OpenSizes ==
    ASSUME SimInv
    PROVE  /\ \A k \in Keys : HasOpenPosition(positions, k) =>
                 /\ k \in OpenPositions(positions)
                 /\ positions[k].size \in Nat /\ positions[k].fee \in Int
                 /\ SizeOf[k] = positions[k].size /\ SizeOf[k] \in Nat
                 /\ CostOf[k] = positions[k].size + positions[k].fee /\ CostOf[k] \in Int
<1> SUFFICES ASSUME NEW k \in Keys, HasOpenPosition(positions, k)
             PROVE  /\ k \in OpenPositions(positions)
                    /\ positions[k].size \in Nat /\ positions[k].fee \in Int
                    /\ SizeOf[k] = positions[k].size /\ SizeOf[k] \in Nat
                    /\ CostOf[k] = positions[k].size + positions[k].fee /\ CostOf[k] \in Int
  OBVIOUS
<1>1. k \in OpenPositions(positions)
  BY DEF OpenPositions
<1>2. positions[k] \in Position
  BY DEF SimInv, LedgerType, Ledgers, HasOpenPosition
<1>3. positions[k].size \in Nat /\ positions[k].fee \in Int
  BY <1>2 DEF Position
<1> QED
  BY <1>1, <1>3 DEF SizeOf, CostOf

LEMMA HeldIsFinite ==
    /\ IsFiniteSet(Held) /\ IsFiniteSet(Recorded) /\ \A m : IsFiniteSet(RecordedIn(m))
    /\ \A k \in Held : k \in Keys /\ HasOpenPosition(positions, k)
    /\ Recorded \subseteq Held /\ \A m : RecordedIn(m) \subseteq Recorded
<1>1. Held \subseteq Keys /\ IsFiniteSet(Keys)
  BY SimConfig DEF SimConfig, Held, OpenPositions
<1>2. Recorded \subseteq Held /\ \A m : RecordedIn(m) \subseteq Recorded
  BY DEF Recorded, RecordedIn
<1>3. \A k \in Held : k \in Keys /\ HasOpenPosition(positions, k)
  BY DEF Held, OpenPositions
<1> QED
  BY <1>1, <1>2, <1>3, FS_Subset

(* Two states of the ledger agree on the positions in T.                   *)
Agree(T) == \A k \in T : /\ k \in Keys
                         /\ HasOpenPosition(positions, k) /\ positions'[k] = positions[k]

LEMMA SameSums ==
    ASSUME SimInv, NEW T, IsFiniteSet(T), Agree(T)
    PROVE  /\ SumFunctionOnSet(SizeOf', T) = SumFunctionOnSet(SizeOf, T)
           /\ SumFunctionOnSet(CostOf', T) = SumFunctionOnSet(CostOf, T)
<1>1. \A k \in T : SizeOf'[k] = SizeOf[k] /\ CostOf'[k] = CostOf[k]
  BY DEF Agree, SizeOf, CostOf, OpenPositions, HasOpenPosition
<1>2. \A k \in T : SizeOf[k] = SizeOf'[k] /\ CostOf[k] = CostOf'[k]
  BY <1>1
<1>3. SumFunctionOnSet(SizeOf, T) = SumFunctionOnSet(SizeOf', T)
  BY <1>2, SumOfEqual, Zenon
<1>4. SumFunctionOnSet(CostOf, T) = SumFunctionOnSet(CostOf', T)
  BY <1>2, SumOfEqual, Zenon
<1> QED
  BY <1>3, <1>4

(* The money on its way changes with the job of the one who steps.         *)
LEMMA UnrecordedIsInt ==
    ASSUME SimInv, NEW a \in Actors
    PROVE  Unrecorded(job[a]) \in Int /\ Moved[a] = Unrecorded(job[a])
<1>1. CASE job[a].pc = "enter"
  <2>1. job[a].size \in Nat
    BY <1>1, JobTypes, JobFields, SimConfig DEF SimInv, SimConfig
  <2>2. FeeOf(job[a].size) \in Int
    BY <2>1, FeeIsInt
  <2> QED
    BY <1>1, <2>1, <2>2 DEF Unrecorded, Moved
<1>2. CASE job[a].pc = "settle"
  <2>1. job[a].pos \in Position /\ job[a].price \in Nat
    BY <1>2, JobTypes, JobFields DEF SimInv
  <2>2. job[a].pos.size \in Nat
    BY <2>1 DEF Position
  <2>3. Proceeds(job[a].pos, job[a].price) \in Int /\ FeeOf(job[a].pos.size) \in Int
    BY <2>1, <2>2, ProceedsAreInt, FeeIsInt
  <2> QED
    BY <1>2, <2>3 DEF Unrecorded, Moved
<1>3. CASE job[a].pc \notin {"enter", "settle"}
  BY <1>3 DEF Unrecorded, Moved
<1> QED
  BY <1>1, <1>2, <1>3

LEMMA NextUnrecordedIsInt ==
    ASSUME NEW a \in Actors
    PROVE  SimInv' => Unrecorded(job'[a]) \in Int /\ Moved'[a] = Unrecorded(job'[a])
<1>1. SimInv => Unrecorded(job[a]) \in Int /\ Moved[a] = Unrecorded(job[a])
  BY UnrecordedIsInt
<1>2. (SimInv => Unrecorded(job[a]) \in Int /\ Moved[a] = Unrecorded(job[a]))'
  BY <1>1, PTL
<1> QED
  BY <1>2

OnTheWay == SumFunctionOnSet(Moved, Actors)

LEMMA OnTheWayIsInt ==
    ASSUME SimInv PROVE IsFiniteSet(Actors) /\ OnTheWay \in Int
<1>1. IsFiniteSet(Actors)
  BY SimConfig, FS_AddElement DEF SimConfig, Actors
<1>2. \A a \in Actors : Moved[a] \in Int
  BY UnrecordedIsInt
<1> QED
  BY <1>1, <1>2, SumIsInt DEF OnTheWay

LEMMA NextOnTheWayIsInt == SimInv' => OnTheWay' \in Int
<1>1. SimInv => OnTheWay \in Int
  BY OnTheWayIsInt
<1>2. (SimInv => OnTheWay \in Int)'
  BY <1>1, PTL
<1> QED
  BY <1>2

LEMMA MovedStep ==
    ASSUME SimInv, SimInv', NEW a \in Actors, \A b \in Actors \ {a} : job'[b] = job[b]
    PROVE  OnTheWay' = OnTheWay - Unrecorded(job[a]) + Unrecorded(job'[a])
<1> DEFINE before == Moved
           after == Moved'
<1>1. \A b \in Actors : before[b] \in Int
  BY UnrecordedIsInt
<1>2. \A b \in Actors : after[b] = Unrecorded(job'[b]) /\ after[b] \in Int
  BY NextUnrecordedIsInt
<1>3. \A b \in Actors \ {a} : before[b] = after[b]
  BY <1>2 DEF Moved
<1>4. before[a] = Unrecorded(job[a]) /\ after[a] = Unrecorded(job'[a])
  BY <1>2 DEF Moved
<1>5. IsFiniteSet(Actors)
  BY OnTheWayIsInt
<1> HIDE DEF before, after
<1>6. SumFunctionOnSet(after, Actors) = SumFunctionOnSet(before, Actors)
         - Term(before, Actors, a) + Term(after, Actors, a)
  BY <1>1, <1>2, <1>3, <1>5, SumChange
<1> QED
  BY <1>4, <1>6 DEF Term, before, after, OnTheWay

(* The balance moves with it.                                              *)
OnItsWay == balance' = balance - OnTheWay + OnTheWay'

LEMMA PaysItsWay ==
    ASSUME SimInv, SimInv', NEW a \in Actors, NEW k, Works(a, k), balance \in Int,
           balance' = balance - Unrecorded(job[a]) + Unrecorded(job'[a])
    PROVE  OnItsWay
<1>1. OnTheWay' = OnTheWay - Unrecorded(job[a]) + Unrecorded(job'[a])
  BY MovedStep DEF Works
<1>2. OnTheWay \in Int /\ Unrecorded(job[a]) \in Int /\ Unrecorded(job'[a]) \in Int
  BY OnTheWayIsInt, UnrecordedIsInt, NextUnrecordedIsInt
<1> QED
  BY <1>1, <1>2 DEF OnItsWay

LEMMA BalancedIsInt ==
    ASSUME SimInv, Balanced
    PROVE  balance \in Int /\ SumFunctionOnSet(CostOf, Held) \in Int /\ OnTheWay \in Int
           /\ StartingBalance \in Int /\ sessionPnL \in Int
           /\ balance = StartingBalance + sessionPnL - SumFunctionOnSet(CostOf, Held) + OnTheWay
<1>1. SumFunctionOnSet(CostOf, Held) \in Int /\ OnTheWay \in Int
  BY HeldIsFinite, OpenSizes, SumIsInt, OnTheWayIsInt
<1>2. StartingBalance \in Int /\ sessionPnL \in Int
  BY RiskConfig DEF RiskConfig, SimInv, PnLType
<1> QED
  BY <1>1, <1>2 DEF Balanced, OnTheWay

LEMMA NothingMoves ==
    ASSUME SimInv, SimInv', Balanced, Exposed, Held' = Held, Recorded' = Recorded, Agree(Held),
           OnItsWay, UNCHANGED <<sessionPnL, totalExposure, marketExposure>>
    PROVE  Balanced' /\ Exposed'
<1>1. \A m : RecordedIn(m)' = RecordedIn(m)
  BY DEF RecordedIn
<1>2. Agree(Recorded) /\ \A m : Agree(RecordedIn(m))
  BY HeldIsFinite DEF Agree
<1>3. /\ SumFunctionOnSet(CostOf', Held) = SumFunctionOnSet(CostOf, Held)
      /\ SumFunctionOnSet(SizeOf', Recorded) = SumFunctionOnSet(SizeOf, Recorded)
      /\ \A m : SumFunctionOnSet(SizeOf', RecordedIn(m)) = SumFunctionOnSet(SizeOf, RecordedIn(m))
  BY <1>2, HeldIsFinite, SameSums
<1>4. Balanced'
  <2>1. OnTheWay' \in Int
    BY NextOnTheWayIsInt
  <2>2. balance' = StartingBalance + sessionPnL - SumFunctionOnSet(CostOf, Held) + OnTheWay'
    BY <2>1, BalancedIsInt DEF OnItsWay
  <2> QED
    BY <1>3, <2>2 DEF Balanced, OnTheWay
<1>5. Exposed'
  BY <1>1, <1>3 DEF Exposed
<1> QED
  BY <1>4, <1>5

(* The key goroutine a works on, before and after its step.                *)
LEMMA HeldAfter ==
    ASSUME NEW a \in Actors, NEW k \in Keys, Works(a, k),
           job[a] = Waiting \/ job[a].key = k
    PROVE  /\ k \in Held' <=> /\ HasOpenPosition(positions', k)
                              /\ job'[a].pc \notin {"settled", "filled"}
           /\ k \in Uncounted' <=> a = Run /\ job'[a].pc = "count"
<1>1. OthersOff(a, k)' /\ (job'[a] = Waiting \/ job'[a].key = k)
  BY HeldElsewhere DEF Works
<1>2. k \in Settled' <=> job'[a].pc \in {"settled", "filled"}
  BY <1>1 DEF Settled, OthersOff, Waiting
<1>3. k \in Uncounted' <=> a = Run /\ job'[a].pc = "count"
  BY <1>1 DEF Uncounted, OthersOff, Waiting, Actors
<1> QED
  BY <1>2, <1>3 DEF Held, OpenPositions

LEMMA WorkAgrees ==
    ASSUME NEW a, NEW k, Works(a, k) PROVE Agree(Held \ {k})
BY DEF Works, Agree, Held, OpenPositions

(* A step that leaves k where it was, and the money but for what it pays.  *)
LEMMA WorkMovesNothing ==
    ASSUME SimInv, SimInv', Balanced, Exposed, NEW a \in Actors, NEW k \in Keys, Works(a, k),
           job[a] = Waiting \/ job[a].key = k,
           positions'[k] = positions[k] \/ (k \notin Held /\ k \notin Held'),
           k \in Held' <=> k \in Held, k \in Uncounted' <=> k \in Uncounted,
           balance' = balance - Unrecorded(job[a]) + Unrecorded(job'[a]),
           UNCHANGED <<sessionPnL, totalExposure, marketExposure>>
    PROVE  Balanced' /\ Exposed'
<1>1. Held' = Held /\ Uncounted' = Uncounted
  <2>1. Held' \ {k} = Held \ {k} /\ Uncounted' \ {k} = Uncounted \ {k}
    BY HeldElsewhere
  <2> QED
    BY <2>1
<1>2. Recorded' = Recorded
  BY <1>1 DEF Recorded
<1>3. Agree(Held)
  <2>1. Agree(Held \ {k})
    BY WorkAgrees
  <2>2. k \in Held => HasOpenPosition(positions, k) /\ positions'[k] = positions[k]
    BY HeldIsFinite
  <2> QED
    BY <2>1, <2>2 DEF Agree
<1>4. OnItsWay
  BY BalancedIsInt, PaysItsWay
<1> QED
  BY <1>1, <1>2, <1>3, <1>4, NothingMoves

(* Position k is held after the step and was not before.                   *)
LEMMA HeldMore ==
    ASSUME SimInv, SimInv', NEW T, IsFiniteSet(T), Agree(T), NEW k \in Keys \ T,
           HasOpenPosition(positions', k)
    PROVE  /\ SumFunctionOnSet(CostOf', T \cup {k}) =
                 SumFunctionOnSet(CostOf, T) + positions'[k].size + positions'[k].fee
           /\ SumFunctionOnSet(SizeOf', T \cup {k}) =
                 SumFunctionOnSet(SizeOf, T) + positions'[k].size
<1>1. \A i \in T : SizeOf[i] = SizeOf'[i] /\ CostOf[i] = CostOf'[i]
  BY DEF Agree, SizeOf, CostOf, OpenPositions, HasOpenPosition
<1>2. \A i \in T : SizeOf[i] \in Int /\ CostOf[i] \in Int
  BY OpenSizes DEF Agree
<1>3. positions'[k] \in Position
  BY DEF SimInv, LedgerType, Ledgers, HasOpenPosition
<1>4. positions'[k].size \in Nat /\ positions'[k].fee \in Int
  BY <1>3 DEF Position
<1>5. /\ SizeOf'[k] = positions'[k].size
      /\ CostOf'[k] = positions'[k].size + positions'[k].fee
  BY DEF SizeOf, CostOf, OpenPositions
<1> DEFINE size == positions'[k].size
           fee == positions'[k].fee
           cost == CostOf'
           cost0 == CostOf
           sizes == SizeOf'
           sizes0 == SizeOf
<1>6. SumFunctionOnSet(cost, T \cup {k}) = SumFunctionOnSet(cost0, T) + cost[k]
  <2>1. k \notin T /\ cost[k] \in Int
        /\ \A i \in T : cost0[i] = cost[i] /\ cost[i] \in Int
    BY <1>1, <1>2, <1>4, <1>5
  <2> HIDE DEF cost, cost0
  <2> QED
    BY <2>1, SumMore
<1>7. SumFunctionOnSet(sizes, T \cup {k}) = SumFunctionOnSet(sizes0, T) + sizes[k]
  <2>1. k \notin T /\ sizes[k] \in Int
        /\ \A i \in T : sizes0[i] = sizes[i] /\ sizes[i] \in Int
    BY <1>1, <1>2, <1>4, <1>5
  <2> HIDE DEF sizes, sizes0
  <2> QED
    BY <2>1, SumMore
<1>8. SumFunctionOnSet(CostOf, T) \in Int
  BY <1>2, SumIsInt
<1> QED
  BY <1>4, <1>5, <1>6, <1>7, <1>8

LEMMA EnterMoney ==
    ASSUME SimInv, SimInv', RiskTypeOK, Apart, Balanced, Exposed, EnterPosition
    PROVE  Balanced' /\ Exposed'
<1>1. PICK k \in Keys, pos \in Position :
         /\ Works(Run, k) /\ k = job[Run].key /\ job[Run].pc = "enter"
         /\ ~HasOpenPosition(positions, k)
         /\ positions' = [positions EXCEPT ![k] = pos] /\ pos.status = "open"
         /\ job'[Run].pc = "count" /\ job'[Run].key = k
         /\ pos.size = job[Run].size /\ pos.fee = FeeOf(job[Run].size)
         /\ balance' = balance
  BY EnterEffect
<1>2. positions'[k] = pos /\ HasOpenPosition(positions', k)
  <2>1. pos # NoPosition
    BY <1>1, SimConfig DEF SimConfig, Position
  <2> QED
    BY <1>1, <2>1 DEF SimInv, LedgerType, Ledgers, HasOpenPosition
<1>3. Run \in Actors /\ UNCHANGED riskVars
  BY Zenon DEF EnterPosition, Actors
<1>4. k \notin Held /\ k \in Held' /\ k \in Uncounted' /\ k \notin Recorded
  <2>1. k \in Held' /\ k \in Uncounted'
    BY <1>1, <1>2, <1>3, HeldAfter
  <2> QED
    BY <1>1, <2>1 DEF Recorded, Held, OpenPositions
<1>5. Held' = Held \cup {k} /\ Recorded' = Recorded
  <2>1. Held' \ {k} = Held \ {k} /\ Uncounted' \ {k} = Uncounted \ {k}
    BY <1>1, <1>3, HeldElsewhere
  <2> QED
    BY <1>4, <2>1 DEF Recorded
<1>6. Agree(Held) /\ Agree(Recorded) /\ \A m : Agree(RecordedIn(m))
  <2>1. Agree(Held)
    BY <1>1, <1>4, WorkAgrees DEF Agree
  <2> QED
    BY <2>1, HeldIsFinite DEF Agree
<1>7. Balanced'
  <2>1. SumFunctionOnSet(CostOf', Held \cup {k}) =
           SumFunctionOnSet(CostOf, Held) + pos.size + pos.fee
    BY <1>2, <1>4, <1>6, HeldIsFinite, HeldMore
  <2>2. pos.size \in Nat /\ pos.fee \in Int
    BY DEF Position
  <2>3. SumFunctionOnSet(CostOf, Held) \in Int
    BY HeldIsFinite, OpenSizes, SumIsInt
  <2>4. sessionPnL' = sessionPnL
    BY <1>3 DEF riskVars
  <2>5. Unrecorded(job[Run]) = -(pos.size + pos.fee) /\ Unrecorded(job'[Run]) = 0
    BY <1>1 DEF Unrecorded
  <2>6. OnTheWay' = OnTheWay + pos.size + pos.fee
    <3>1. OnTheWay' = OnTheWay - Unrecorded(job[Run]) + Unrecorded(job'[Run])
      BY <1>1, <1>3, MovedStep DEF Works
    <3> QED
      BY <2>2, <2>5, <3>1, BalancedIsInt
  <2>7. balance' = StartingBalance + sessionPnL' - SumFunctionOnSet(CostOf', Held') + OnTheWay'
    BY <1>1, <1>5, <2>1, <2>2, <2>3, <2>4, <2>6, BalancedIsInt
  <2> QED
    BY <2>7 DEF Balanced, OnTheWay
<1>8. Exposed'
  <2>1. \A m : RecordedIn(m)' = RecordedIn(m)
    BY <1>5 DEF RecordedIn
  <2>2. /\ SumFunctionOnSet(SizeOf', Recorded) = SumFunctionOnSet(SizeOf, Recorded)
        /\ \A m : SumFunctionOnSet(SizeOf', RecordedIn(m)) = SumFunctionOnSet(SizeOf, RecordedIn(m))
    BY <1>6, HeldIsFinite, SameSums
  <2>3. totalExposure' = totalExposure /\ marketExposure' = marketExposure
    BY <1>3 DEF riskVars
  <2> QED
    BY <1>5, <2>1, <2>2, <2>3 DEF Exposed
<1> QED
  BY <1>7, <1>8

LEMMA CountMoney ==
    ASSUME SimInv, SimInv', RiskTypeOK, Apart, Balanced, Exposed, CountEntry
    PROVE  Balanced' /\ Exposed'
<1>1. PICK k \in Keys :
         /\ Works(Run, k) /\ k = job[Run].key /\ HasOpenPosition(positions, k)
         /\ positions' = positions /\ balance' = balance
         /\ job[Run].pc = "count" /\ job'[Run].pc = "entered" /\ job'[Run].key = k
         /\ positions[k].size = job[Run].size
  BY EntryEffects
<1> DEFINE size == positions[k].size
<1>2. Run \in Actors /\ size \in Nat
  BY <1>1, OpenSizes DEF Actors
<1>3. /\ totalExposure' = totalExposure + size
      /\ marketExposure' = [marketExposure EXCEPT ![Market(k)] = marketExposure[Market(k)] + size]
      /\ sessionPnL' = sessionPnL
  BY <1>1 DEF CountEntry, RecordOpen, pnlVars
<1>4. OthersOff(Run, k) /\ HasOpenPosition(positions', k)
  BY <1>1 DEF Works
<1>5. k \in Held /\ k \in Uncounted
  BY <1>1, <1>2, <1>4, HeldAt
<1>6. k \in Held' /\ k \notin Uncounted'
  BY <1>1, <1>2, <1>4, HeldAfter
<1>7. Held' = Held /\ Recorded' = Recorded \cup {k} /\ k \notin Recorded
  <2>1. Held' \ {k} = Held \ {k} /\ Uncounted' \ {k} = Uncounted \ {k}
    BY <1>1, <1>2, HeldElsewhere
  <2> QED
    BY <1>5, <1>6, <2>1 DEF Recorded
<1>8. Agree(Held) /\ Agree(Recorded) /\ \A m : Agree(RecordedIn(m))
  BY <1>1, HeldIsFinite DEF Agree
<1>9. Balanced'
  <2>1. SumFunctionOnSet(CostOf', Held) = SumFunctionOnSet(CostOf, Held)
    BY <1>8, HeldIsFinite, SameSums
  <2>2. Unrecorded(job[Run]) = 0 /\ Unrecorded(job'[Run]) = 0
    BY <1>1 DEF Unrecorded
  <2>3. OnTheWay' = OnTheWay
    <3>1. OnTheWay' = OnTheWay - Unrecorded(job[Run]) + Unrecorded(job'[Run])
      BY <1>1, <1>2, MovedStep DEF Works
    <3> QED
      BY <2>2, <3>1, BalancedIsInt
  <2> QED
    BY <1>1, <1>3, <1>7, <2>1, <2>3 DEF Balanced, OnTheWay
<1>10. /\ SumFunctionOnSet(SizeOf', Recorded \cup {k}) = SumFunctionOnSet(SizeOf, Recorded) + size
       /\ \A m : SumFunctionOnSet(SizeOf', RecordedIn(m) \cup {k}) =
                    SumFunctionOnSet(SizeOf, RecordedIn(m)) + size
  BY <1>1, <1>4, <1>7, <1>8, HeldIsFinite, HeldMore
<1>11. \A m : RecordedIn(m)' = IF m = Market(k) THEN RecordedIn(m) \cup {k} ELSE RecordedIn(m)
  BY <1>7 DEF RecordedIn
<1>12. \A m : SumFunctionOnSet(SizeOf', RecordedIn(m)) = SumFunctionOnSet(SizeOf, RecordedIn(m))
  BY <1>8, HeldIsFinite, SameSums
<1>13. marketExposure \in [Markets -> Nat] /\ Market(k) \in Markets
  BY KeyTypes DEF RiskTypeOK, CountersOK
<1> HIDE DEF size
<1>14. totalExposure' = SumFunctionOnSet(SizeOf', Recorded')
  BY <1>3, <1>7, <1>10 DEF Exposed
<1>15. ASSUME NEW m \in Markets
       PROVE  marketExposure'[m] = SumFunctionOnSet(SizeOf', RecordedIn(m)')
  <2>1. marketExposure[m] = SumFunctionOnSet(SizeOf, RecordedIn(m))
    BY DEF Exposed
  <2>2. CASE m = Market(k)
    BY <1>3, <1>10, <1>11, <1>13, <2>1, <2>2
  <2>3. CASE m # Market(k)
    BY <1>3, <1>11, <1>12, <1>13, <2>1, <2>3
  <2> QED
    BY <2>2, <2>3
<1>16. Exposed'
  BY <1>14, <1>15 DEF Exposed
<1> QED
  BY <1>9, <1>16

LEMMA LessIsMinus ==
    ASSUME NEW a \in Nat, NEW b \in Nat, a >= b PROVE Less(a, b) = a - b
BY DEF Less

LEMMA SettleMoney ==
    ASSUME SimInv, SimInv', RiskTypeOK, Apart, Balanced, Exposed,
           NEW a \in Actors, Settle(a)
    PROVE  Balanced' /\ Exposed'
<1>1. PICK k \in Keys :
         /\ Works(a, k) /\ k = job[a].key
         /\ HasOpenPosition(positions, k) /\ positions[k] = job[a].pos
         /\ job[a].pc = "settle" /\ job'[a].pc = "settled" /\ job'[a].key = k
         /\ positions' = positions
  BY CloseEffects DEF Close
<1> DEFINE size == positions[k].size
           fee0 == positions[k].fee
           fee == FeeOf(size)
           proceeds == Proceeds(positions[k], job[a].price)
<1>2. size \in Nat /\ fee0 \in Int /\ fee \in Int /\ proceeds \in Int
  <2>1. positions[k] \in Position /\ job[a].price \in Nat
    BY <1>1, JobTypes, JobFields DEF SimInv, LedgerType, Ledgers, HasOpenPosition
  <2>2. size \in Nat /\ fee0 \in Int
    BY <1>1, OpenSizes
  <2> QED
    BY <2>1, <2>2, FeeIsInt, ProceedsAreInt
<1>3. /\ balance' = balance
      /\ RecordClose(Market(k), size, proceeds - size - fee0 - fee)
      /\ Unrecorded(job[a]) = proceeds - fee /\ Unrecorded(job'[a]) = 0
  <2>1. balance' = balance /\ RecordClose(Market(job[a].key), job[a].pos.size, PnL(job[a]))
    BY Zenon DEF Settle
  <2> QED
    BY <1>1, <2>1 DEF PnL, Unrecorded
<1> HIDE DEF fee, proceeds
<1>4. /\ totalExposure' = Less(totalExposure, size)
      /\ marketExposure' = [marketExposure EXCEPT ![Market(k)] = Less(marketExposure[Market(k)], size)]
      /\ sessionPnL' = sessionPnL + (proceeds - size - fee0 - fee)
  BY <1>3, Zenon DEF RecordClose
<1>5. OthersOff(a, k) /\ HasOpenPosition(positions', k)
  BY <1>1 DEF Works
<1>6. k \in Held /\ k \notin Uncounted /\ k \notin Held'
  BY <1>1, <1>5, HeldAt, HeldAfter
<1>7. Held' = Held \ {k} /\ Recorded' = Recorded \ {k} /\ k \in Recorded
  <2>1. Held' \ {k} = Held \ {k} /\ Uncounted' \ {k} = Uncounted \ {k}
    BY <1>1, HeldElsewhere
  <2> QED
    BY <1>6, <2>1 DEF Recorded
<1>8. \A T : IsFiniteSet(T) /\ T \subseteq Held =>
         /\ SumFunctionOnSet(CostOf', T) = SumFunctionOnSet(CostOf, T)
         /\ SumFunctionOnSet(SizeOf', T) = SumFunctionOnSet(SizeOf, T)
  <2>1. \A T : T \subseteq Held => Agree(T)
    BY <1>1, HeldIsFinite DEF Agree
  <2> QED
    BY <2>1, SameSums
<1>9. \A i \in Held : CostOf[i] \in Int /\ SizeOf[i] \in Nat
  BY HeldIsFinite, OpenSizes
<1>10. CostOf[k] = size + fee0 /\ SizeOf[k] = size
  BY <1>1, OpenSizes
<1> HIDE DEF size, fee0
<1>11. Balanced'
  <2>1. SumFunctionOnSet(CostOf, Held \ {k}) = SumFunctionOnSet(CostOf, Held) - (size + fee0)
    <3>1. SumFunctionOnSet(CostOf, Held \ {k}) = SumFunctionOnSet(CostOf, Held) - CostOf[k]
      BY <1>6, <1>9, HeldIsFinite, SumFewer
    <3> QED
      BY <1>10, <3>1
  <2>2. SumFunctionOnSet(CostOf, Held) \in Int
    BY <1>9, HeldIsFinite, SumIsInt
  <2>3. SumFunctionOnSet(CostOf', Held') = SumFunctionOnSet(CostOf, Held \ {k})
    BY <1>7, <1>8, HeldIsFinite, FS_RemoveElement
  <2>4. OnTheWay' = OnTheWay - (proceeds - fee)
    <3>1. OnTheWay' = OnTheWay - Unrecorded(job[a]) + Unrecorded(job'[a])
      BY <1>1, MovedStep DEF Works
    <3> QED
      BY <1>2, <1>3, <3>1, BalancedIsInt
  <2>5. balance' = StartingBalance + sessionPnL'
                     - (SumFunctionOnSet(CostOf, Held) - (size + fee0)) + OnTheWay'
    BY <1>2, <1>3, <1>4, <2>2, <2>4, BalancedIsInt
  <2> QED
    BY <2>1, <2>3, <2>5 DEF Balanced, OnTheWay
<1>12. ASSUME NEW T, IsFiniteSet(T), T \subseteq Held, k \in T
       PROVE  /\ SumFunctionOnSet(SizeOf, T) \in Nat /\ SumFunctionOnSet(SizeOf, T) >= size
              /\ SumFunctionOnSet(SizeOf', T \ {k}) =
                    Less(SumFunctionOnSet(SizeOf, T), size)
  <2>1. SumFunctionOnSet(SizeOf, T) \in Nat /\ SumFunctionOnSet(SizeOf, T) >= size
    BY <1>9, <1>10, <1>12, SumIsNat, SumBound
  <2>2. SumFunctionOnSet(SizeOf, T \ {k}) = SumFunctionOnSet(SizeOf, T) - size
    <3>1. \A i \in T : SizeOf[i] \in Int
      BY <1>9, <1>12
    <3>2. SumFunctionOnSet(SizeOf, T \ {k}) = SumFunctionOnSet(SizeOf, T) - SizeOf[k]
      BY <1>12, <3>1, SumFewer
    <3> QED
      BY <1>10, <3>2
  <2>3. SumFunctionOnSet(SizeOf', T \ {k}) = SumFunctionOnSet(SizeOf, T \ {k})
    BY <1>8, <1>12, FS_RemoveElement
  <2> QED
    BY <1>2, <2>1, <2>2, <2>3, LessIsMinus
<1>13. totalExposure' = SumFunctionOnSet(SizeOf', Recorded')
  BY <1>4, <1>7, <1>12, HeldIsFinite DEF Exposed
<1>14. marketExposure \in [Markets -> Nat] /\ Market(k) \in Markets
  BY KeyTypes DEF RiskTypeOK, CountersOK
<1>15. ASSUME NEW m \in Markets
       PROVE  marketExposure'[m] = SumFunctionOnSet(SizeOf', RecordedIn(m)')
  <2>1. marketExposure[m] = SumFunctionOnSet(SizeOf, RecordedIn(m))
    BY DEF Exposed
  <2>2. IsFiniteSet(RecordedIn(m)) /\ RecordedIn(m) \subseteq Held
    BY HeldIsFinite
  <2>3. CASE m = Market(k)
    <3>1. k \in RecordedIn(m) /\ RecordedIn(m)' = RecordedIn(m) \ {k}
      BY <1>7, <2>3 DEF RecordedIn
    <3>2. marketExposure'[m] = Less(marketExposure[m], size)
      BY <1>4, <1>14, <2>3
    <3> QED
      BY <1>12, <2>1, <2>2, <3>1, <3>2
  <2>4. CASE m # Market(k)
    <3>1. RecordedIn(m)' = RecordedIn(m)
      BY <1>7, <2>4 DEF RecordedIn
    <3>2. marketExposure'[m] = marketExposure[m]
      BY <1>4, <1>14, <2>4
    <3> QED
      BY <1>8, <2>1, <2>2, <3>1, <3>2
  <2> QED
    BY <2>3, <2>4
<1>16. Exposed'
  BY <1>13, <1>15 DEF Exposed
<1> QED
  BY <1>11, <1>16
----------------------------------------------------------------------------
LEMMA PaysNothing ==
    ASSUME SimInv, Balanced, NEW a, Unrecorded(job[a]) = 0 /\ Unrecorded(job'[a]) = 0,
           balance' = balance
    PROVE  balance' = balance - Unrecorded(job[a]) + Unrecorded(job'[a])
<1>1. balance \in Int
  BY BalancedIsInt
<1> QED
  BY <1>1

LEMMA MoneyStep ==
    ASSUME SimInv, SimInv', RiskTypeOK, Apart, ~overlap', Balanced, Exposed,
           [SimNext]_simVars
    PROVE  Balanced' /\ Exposed'
<1>1. \A k \in Keys : k \in Held => HasOpenPosition(positions, k)
  BY DEF Held, OpenPositions
<1>2. UNCHANGED riskVars => UNCHANGED <<sessionPnL, totalExposure, marketExposure>>
  BY DEF riskVars
<1>3. ASSUME NEW a \in Actors, NEW k \in Keys, NEW pc \in {"pay", "pay out"}, Starts(a, k, pc),
             UNCHANGED <<sessionPnL, totalExposure, marketExposure>>
      PROVE  Balanced' /\ Exposed'
  <2>1. /\ Works(a, k) /\ job[a] = Waiting /\ job'[a].pc = pc /\ positions' = positions
        /\ UNCHANGED balance
    BY <1>3 DEF Starts
  <2>4. /\ job[a].pc = "idle" /\ job'[a].pc # "count"
        /\ job'[a].pc \notin {"settled", "filled", "enter", "settle"}
    BY <2>1, WaitingIsIdle
  <2>3. balance' = balance - Unrecorded(job[a]) + Unrecorded(job'[a])
    <3>1. Unrecorded(job[a]) = 0 /\ Unrecorded(job'[a]) = 0
      BY <2>4 DEF Unrecorded
    <3> QED
      BY <2>1, <3>1, PaysNothing
  <2>2. (k \in Held' <=> k \in Held) /\ (k \in Uncounted' <=> k \in Uncounted)
    <3>1. OthersOff(a, k)
      BY <2>1 DEF Works
    <3> QED
      BY <2>1, <2>4, <3>1, HeldAt, HeldAfter
  <2> QED
    BY <1>3, <2>1, <2>2, <2>3, WorkMovesNothing
<1>4. ASSUME NEW size \in Sizes, AdmitEntry(size) PROVE Balanced' /\ Exposed'
  <2>1. UNCHANGED <<sessionPnL, totalExposure, marketExposure>>
    BY <1>4 DEF AdmitEntry, CheckPasses, exposureVars, pnlVars
  <2> QED
    BY <1>3, <1>4, <2>1, AdmitEffect DEF Actors
<1>5. ASSUME FillEntry \/ TellOpen PROVE Balanced' /\ Exposed'
  <2>1. UNCHANGED riskVars
    BY <1>5, Zenon DEF FillEntry, TellOpen
  <2>2. PICK k \in Keys :
           /\ Works(Run, k) /\ k = job[Run].key
           /\ positions' = positions /\ balance' = balance
           /\ job[Run].pc \in {"entered", "tell open"}
           /\ job'[Run].pc \in {"tell open", "idle"}
    BY <1>5, EntryEffects
  <2>3. (k \in Held' <=> k \in Held) /\ (k \in Uncounted' <=> k \in Uncounted)
    <3>1. OthersOff(Run, k) /\ Run \in Actors
      BY <2>2 DEF Works, Actors
    <3> QED
      BY <2>2, <3>1, HeldAt, HeldAfter
  <2>4. balance' = balance - Unrecorded(job[Run]) + Unrecorded(job'[Run])
    <3>1. Unrecorded(job[Run]) = 0 /\ Unrecorded(job'[Run]) = 0
      BY <2>2 DEF Unrecorded
    <3>2. balance \in Int /\ balance' = balance
      BY <2>2, BalancedIsInt
    <3> QED
      BY <3>1, <3>2
  <2> QED
    BY <1>2, <2>1, <2>2, <2>3, <2>4, WorkMovesNothing DEF Actors
<1>9. ASSUME PayEntry PROVE Balanced' /\ Exposed'
  <2>1. UNCHANGED riskVars /\ balance' = balance - job[Run].size - FeeOf(job[Run].size)
    BY <1>9, Zenon DEF PayEntry
  <2>2. PICK k \in Keys :
           /\ Works(Run, k) /\ k = job[Run].key
           /\ job[Run].pc = "pay" /\ job'[Run].pc = "enter" /\ job'[Run].key = k
           /\ job'[Run].size = job[Run].size /\ job[Run].size \in Nat
           /\ positions' = positions
    BY <1>9, PayEffect
  <2>3. (k \in Held' <=> k \in Held) /\ (k \in Uncounted' <=> k \in Uncounted)
    <3>1. OthersOff(Run, k) /\ Run \in Actors
      BY <2>2 DEF Works, Actors
    <3> QED
      BY <2>2, <3>1, HeldAt, HeldAfter
  <2>4. balance' = balance - Unrecorded(job[Run]) + Unrecorded(job'[Run])
    <3>1. /\ Unrecorded(job[Run]) = 0
          /\ Unrecorded(job'[Run]) = -(job[Run].size + FeeOf(job[Run].size))
      BY <2>2 DEF Unrecorded
    <3> QED
      BY <2>1, <2>2, <3>1, BalancedIsInt, FeeIsInt
  <2> QED
    BY <1>2, <2>1, <2>2, <2>3, <2>4, WorkMovesNothing DEF Actors
<1>6. ASSUME NEW a \in Actors, Close(a) PROVE Balanced' /\ Exposed'
  <2>1. ASSUME ~Settle(a) PROVE UNCHANGED riskVars
    BY <1>6, <2>1, Zenon DEF Close, PayOut, FillClose, FinishClose, TellClosed
  <2>2. PICK k \in Keys :
           /\ Works(a, k) /\ k = job[a].key
           /\ PayOut(a) => /\ job[a].pc = "pay out" /\ job'[a].pc = "settle"
                           /\ job'[a].pos = job[a].pos /\ job'[a].price = job[a].price
                           /\ positions' = positions
           /\ FillClose(a) => /\ job[a].pc = "settled" /\ job'[a].pc = "filled"
                              /\ positions' = positions
           /\ FinishClose(a) => /\ job[a].pc = "filled" /\ job'[a].pc = "tell closed"
                                /\ ~HasOpenPosition(positions', k)
           /\ TellClosed(a) => /\ job[a].pc = "tell closed" /\ job'[a].pc = "idle"
                               /\ positions' = positions
    BY <1>6, CloseEffects
  <2>3. OthersOff(a, k)
    BY <2>2 DEF Works
  <2>4. ASSUME ~Settle(a)
        PROVE  /\ (k \in Held' <=> k \in Held) /\ (k \in Uncounted' <=> k \in Uncounted)
               /\ positions'[k] = positions[k] \/ (k \notin Held /\ k \notin Held')
    <3>0. CASE PayOut(a)
      BY <2>2, <2>3, <3>0, HeldAt, HeldAfter
    <3>1. CASE FillClose(a)
      BY <2>2, <2>3, <3>1, HeldAt, HeldAfter
    <3>2. CASE FinishClose(a)
      BY <2>2, <2>3, <3>2, HeldAt, HeldAfter
    <3>3. CASE TellClosed(a)
      BY <2>2, <2>3, <3>3, HeldAt, HeldAfter
    <3> QED
      BY <1>6, <2>4, <3>0, <3>1, <3>2, <3>3 DEF Close
  <2>6. ASSUME ~Settle(a)
        PROVE  balance' = balance - Unrecorded(job[a]) + Unrecorded(job'[a])
    <3>1. CASE PayOut(a)
      <4>1. balance' = balance + Proceeds(job[a].pos, job[a].price) - FeeOf(job[a].pos.size)
        BY <3>1, Zenon DEF PayOut
      <4>2. /\ Unrecorded(job[a]) = 0
            /\ Unrecorded(job'[a]) =
                  Proceeds(job[a].pos, job[a].price) - FeeOf(job[a].pos.size)
        BY <2>2, <3>1 DEF Unrecorded
      <4>3. job[a].pos \in Position /\ job[a].price \in Nat
        BY <2>2, <3>1, JobTypes, JobFields DEF SimInv
      <4>4. job[a].pos.size \in Nat
        BY <4>3 DEF Position
      <4>5. Proceeds(job[a].pos, job[a].price) \in Int /\ FeeOf(job[a].pos.size) \in Int
        BY <4>3, <4>4, ProceedsAreInt, FeeIsInt
      <4> QED
        BY <4>1, <4>2, <4>5, BalancedIsInt
    <3>2. CASE FillClose(a) \/ FinishClose(a) \/ TellClosed(a)
      <4>1. balance' = balance
        BY <3>2, Zenon DEF FillClose, FinishClose, TellClosed
      <4>2. Unrecorded(job[a]) = 0 /\ Unrecorded(job'[a]) = 0
        BY <2>2, <3>2 DEF Unrecorded
      <4> QED
        BY <4>1, <4>2, BalancedIsInt
    <3> QED
      BY <1>6, <2>6, <3>1, <3>2 DEF Close
  <2>5. ASSUME ~Settle(a) PROVE Balanced' /\ Exposed'
    BY <1>2, <2>1, <2>2, <2>4, <2>5, <2>6, WorkMovesNothing
  <2> QED
    BY <2>5, SettleMoney
<1>7. ASSUME NEW a \in Actors, NEW k \in Keys, NEW price \in Nat,
             job[a] = Waiting, StartClose(a, k, price), UNCHANGED riskVars
      PROVE  Balanced' /\ Exposed'
  BY <1>2, <1>3, <1>7, StartCloseEffect
<1>8. ASSUME UNCHANGED moneyVars PROVE Balanced' /\ Exposed'
  <2>1. Held' = Held /\ Recorded' = Recorded /\ Agree(Held)
    BY <1>8, HeldIsFinite
       DEF moneyVars, Held, Settled, Recorded, Uncounted, OpenPositions, HasOpenPosition, Agree
  <2>2. UNCHANGED <<balance, sessionPnL, totalExposure, marketExposure>>
    BY <1>8 DEF moneyVars
  <2>3. OnItsWay
    <3>1. OnTheWay' = OnTheWay
      BY <1>8 DEF moneyVars, OnTheWay, Moved
    <3> QED
      BY <2>2, <3>1, BalancedIsInt DEF OnItsWay
  <2> QED
    BY <2>1, <2>2, <2>3, NothingMoves
<1> QED
  BY <1>4, <1>5, <1>6, <1>7, <1>8, <1>9, EnterMoney, CountMoney, MoneyKinds
----------------------------------------------------------------------------
(* Open positions whose entry fill is in the report and whose closing fill *)
(* is not.                                                                 *)
Reported == {k \in OpenPositions(positions) :
                \A a \in Actors : job[a].pc \in {"count", "entered", "filled"} => job[a].key # k}

ReportFits ==
    /\ ~mispaired
    /\ report = [k \in Keys |-> IF k \in Reported THEN "entry" ELSE "none"]

LEMMA ReportedAt ==
    ASSUME NEW a \in Actors, NEW k \in Keys, Works(a, k),
           job[a] = Waiting \/ job[a].key = k
    PROVE  /\ k \in Reported <=> /\ HasOpenPosition(positions, k)
                                 /\ job[a].pc \notin {"count", "entered", "filled"}
           /\ k \in Reported' <=> /\ HasOpenPosition(positions', k)
                                  /\ job'[a].pc \notin {"count", "entered", "filled"}
           /\ Reported' \ {k} = Reported \ {k}
<1>1. /\ OthersOff(a, k) /\ OthersOff(a, k)'
      /\ \A b \in Actors \ {a} : job'[b] = job[b]
      /\ job'[a] = Waiting \/ job'[a].key = k
  BY HeldElsewhere DEF Works
<1>2. OpenPositions(positions') \ {k} = OpenPositions(positions) \ {k}
  BY DEF Works, OpenPositions, HasOpenPosition
<1>3. Reported' \ {k} = Reported \ {k}
  BY <1>1, <1>2 DEF Reported, Waiting
<1>4. k \in Reported <=> /\ HasOpenPosition(positions, k)
                         /\ job[a].pc \notin {"count", "entered", "filled"}
  BY <1>1 DEF Reported, OthersOff, Waiting, OpenPositions
<1>5. k \in Reported' <=> /\ HasOpenPosition(positions', k)
                          /\ job'[a].pc \notin {"count", "entered", "filled"}
  BY <1>1 DEF Reported, OthersOff, Waiting, OpenPositions
<1> QED
  BY <1>3, <1>4, <1>5

LEMMA NothingFilled ==
    ASSUME ReportFits, NEW a \in Actors, NEW k \in Keys, Works(a, k),
           job[a] = Waiting \/ job[a].key = k, report' = report, mispaired' = mispaired,
           \/ /\ HasOpenPosition(positions', k) <=> HasOpenPosition(positions, k)
              /\ job[a].pc \in {"count", "entered", "filled"} <=>
                    job'[a].pc \in {"count", "entered", "filled"}
           \/ ~HasOpenPosition(positions, k) /\ job'[a].pc \in {"count", "entered", "filled"}
           \/ job[a].pc \in {"count", "entered", "filled"} /\ ~HasOpenPosition(positions', k)
    PROVE  ReportFits'
<1>1. Reported' = Reported
  BY ReportedAt
<1> QED
  BY <1>1, Zenon DEF ReportFits

LEMMA ReportStep ==
    ASSUME SimInv, Apart, ~overlap', ReportFits, [SimNext]_simVars
    PROVE  ReportFits'
<1>1. ASSUME NEW a \in Actors, NEW k \in Keys, NEW pc \in {"pay", "pay out"}, Starts(a, k, pc)
      PROVE  ReportFits'
  <2>1. /\ Works(a, k) /\ job[a] = Waiting /\ job'[a].pc = pc /\ positions' = positions
        /\ report' = report /\ mispaired' = mispaired
    BY <1>1 DEF Starts
  <2>2. job[a].pc = "idle" /\ job'[a].pc \notin {"count", "entered", "filled"}
    BY <2>1, WaitingIsIdle
  <2> QED
    BY <2>1, <2>2, NothingFilled
<1>2. ASSUME NEW size \in Sizes, AdmitEntry(size) PROVE ReportFits'
  BY <1>1, <1>2, AdmitEffect DEF Actors
<1>3. ASSUME EnterPosition PROVE ReportFits'
  <2>1. report' = report /\ mispaired' = mispaired /\ Run \in Actors
    BY <1>3, Zenon DEF EnterPosition, Actors
  <2> QED
    BY <1>3, <2>1, EnterEffect, NothingFilled
<1>9. ASSUME PayEntry PROVE ReportFits'
  <2>1. report' = report /\ mispaired' = mispaired /\ Run \in Actors
    BY <1>9 DEF PayEntry, Actors
  <2> QED
    BY <1>9, <2>1, PayEffect, NothingFilled
<1>4. ASSUME CountEntry \/ TellOpen PROVE ReportFits'
  <2>1. report' = report /\ mispaired' = mispaired /\ Run \in Actors
    BY <1>4, Zenon DEF CountEntry, TellOpen, Actors
  <2>2. PICK k \in Keys :
           /\ Works(Run, k) /\ k = job[Run].key /\ positions' = positions
           /\ \/ job[Run].pc = "count" /\ job'[Run].pc = "entered"
              \/ job[Run].pc = "tell open" /\ job'[Run].pc = "idle"
    BY <1>4, EntryEffects
  <2> QED
    BY <2>1, <2>2, NothingFilled
<1>5. ASSUME FillEntry PROVE ReportFits'
  <2>1. PICK k \in Keys :
           /\ Works(Run, k) /\ k = job[Run].key /\ HasOpenPosition(positions, k)
           /\ positions' = positions
           /\ job[Run].pc = "entered" /\ job'[Run].pc = "tell open"
    BY <1>5, EntryEffects
  <2>2. Run \in Actors /\ Fill(k, "entry")
    BY <1>5, <2>1 DEF FillEntry, Actors
  <2>3. k \notin Reported /\ k \in Reported' /\ Reported' \ {k} = Reported \ {k}
    BY <2>1, <2>2, ReportedAt
  <2>4. report[k] = "none"
    BY <2>3 DEF ReportFits
  <2>5. /\ report' = [report EXCEPT ![k] = "entry"]
        /\ ~mispaired'
    BY <2>2, <2>4 DEF Fill, GoodFills, ReportFits
  <2> QED
    BY <2>3, <2>5 DEF ReportFits
<1>6. ASSUME NEW a \in Actors, Close(a) PROVE ReportFits'
  <2>1. PICK k \in Keys :
           /\ Works(a, k) /\ k = job[a].key
           /\ PayOut(a) => /\ job[a].pc = "pay out" /\ job'[a].pc = "settle"
                           /\ positions' = positions
           /\ Settle(a) => /\ job[a].pc = "settle" /\ job'[a].pc = "settled"
                           /\ positions' = positions
           /\ FillClose(a) => /\ HasOpenPosition(positions, k)
                              /\ job[a].pc = "settled" /\ job'[a].pc = "filled"
                              /\ positions' = positions
           /\ FinishClose(a) => /\ job[a].pc = "filled" /\ job'[a].pc = "tell closed"
                                /\ ~HasOpenPosition(positions', k)
           /\ TellClosed(a) => /\ job[a].pc = "tell closed" /\ job'[a].pc = "idle"
                               /\ positions' = positions
    BY <1>6, CloseEffects
  <2>2. ASSUME ~FillClose(a) PROVE report' = report /\ mispaired' = mispaired
    BY <1>6, <2>2, Zenon DEF Close, PayOut, Settle, FinishClose, TellClosed
  <2>3. CASE PayOut(a) \/ Settle(a)
    <3>1. ~FillClose(a)
      BY <2>1, <2>3
    <3> QED
      BY <2>1, <2>2, <2>3, <3>1, NothingFilled
  <2>4. CASE FinishClose(a)
    <3>1. ~FillClose(a)
      BY <2>1, <2>4
    <3> QED
      BY <2>1, <2>2, <2>4, <3>1, NothingFilled
  <2>5. CASE TellClosed(a)
    <3>1. ~FillClose(a)
      BY <2>1, <2>5
    <3> QED
      BY <2>1, <2>2, <2>5, <3>1, NothingFilled
  <2>6. CASE FillClose(a)
    <3>1. Fill(k, "close")
      BY <2>1, <2>6 DEF FillClose
    <3>2. k \in Reported /\ k \notin Reported' /\ Reported' \ {k} = Reported \ {k}
      BY <2>1, <2>6, ReportedAt
    <3>3. report[k] = "entry"
      BY <3>2 DEF ReportFits
    <3>4. /\ report' = [report EXCEPT ![k] = "none"]
          /\ ~mispaired'
      BY <3>1, <3>3 DEF Fill, GoodFills, ReportFits
    <3> QED
      BY <3>2, <3>4 DEF ReportFits
  <2> QED
    BY <1>6, <2>3, <2>4, <2>5, <2>6 DEF Close
<1>7. ASSUME NEW a \in Actors, NEW k \in Keys, NEW price \in Nat,
             job[a] = Waiting, StartClose(a, k, price)
      PROVE  ReportFits'
  BY <1>1, <1>7, StartCloseEffect
<1>8. ASSUME UNCHANGED moneyVars PROVE ReportFits'
  <2>1. Reported' = Reported
    BY <1>8 DEF moneyVars, Reported, OpenPositions, HasOpenPosition
  <2> QED
    BY <1>8, <2>1 DEF moneyVars, ReportFits
<1> QED
  BY <1>2, <1>3, <1>4, <1>5, <1>6, <1>7, <1>8, <1>9, MoneyKinds
----------------------------------------------------------------------------
(* Goroutines that have never met on a position leave every account right. *)
MoneyInv ==
    /\ RiskTypeOK
    /\ ~overlap => Apart /\ Balanced /\ Exposed /\ ReportFits

LEMMA MoneyInit ==
    ASSUME SimInit PROVE MoneyInv
<1>1. RiskTypeOK
  <2>1. CountersOK
    BY RiskConfig DEF SimInit, RiskInit, RiskConfig, CountersOK
  <2> QED
    BY <2>1, Zenon DEF SimInit, RiskInit, RiskTypeOK
<1>2. \A a \in Actors : job[a].pc = "idle"
  BY DEF SimInit, Waiting
<1>3. Apart
  BY <1>2 DEF Apart, Fits, Undisturbed
<1>4. OpenPositions(positions) = {}
  BY DEF SimInit, OpenPositions, HasOpenPosition
<1>5. Held = {} /\ Recorded = {} /\ (\A m : RecordedIn(m) = {}) /\ Reported = {}
  BY <1>4 DEF Held, Recorded, RecordedIn, Reported
<1>6. Balanced
  <2>1. \A a \in Actors : Moved[a] = 0
    BY <1>2 DEF Moved, Unrecorded
  <2>2. SumFunctionOnSet(Moved, Actors) = 0
    <3>1. IsFiniteSet(Actors)
      BY SimConfig, FS_AddElement DEF SimConfig, Actors
    <3> QED
      BY <2>1, <3>1, SumOfZeros
  <2> QED
    BY <1>5, <2>2, SumEmpty, RiskConfig DEF Balanced, SimInit, RiskInit, RiskConfig
<1>7. Exposed
  BY <1>5, SumEmpty DEF Exposed, SimInit, RiskInit
<1>8. ReportFits
  BY <1>5 DEF ReportFits, SimInit
<1> QED
  BY <1>1, <1>3, <1>6, <1>7, <1>8 DEF MoneyInv

LEMMA OverlapStays ==
    ASSUME SimInv, overlap, [SimNext]_simVars PROVE overlap'
<1>1. \A size : AdmitEntry(size) => overlap'
  BY DEF AdmitEntry
<1>2. ASSUME PayEntry \/ EnterPosition \/ CountEntry \/ FillEntry \/ TellOpen PROVE overlap'
  BY <1>2, Zenon DEF PayEntry, EnterPosition, CountEntry, FillEntry, TellOpen
<1>3. \A a : Close(a) => overlap'
  BY Zenon DEF Close, PayOut, Settle, FillClose, FinishClose, TellClosed
<1>4. \A a, k, price : StartClose(a, k, price) => overlap'
  BY DEF StartClose
<1>5. UNCHANGED moneyVars => overlap'
  BY Zenon DEF moneyVars
<1> QED
  BY <1>1, <1>2, <1>3, <1>4, <1>5, MoneyKinds, Zenon

LEMMA MoneyHolds == SimSpec => []MoneyInv
<1>1. SimInv /\ SimInv' /\ MoneyInv /\ [SimNext]_simVars => MoneyInv'
  <2> SUFFICES ASSUME SimInv, SimInv', MoneyInv, [SimNext]_simVars PROVE MoneyInv'
    OBVIOUS
  <2>1. RiskTypeOK'
    BY RiskStep DEF MoneyInv
  <2>2. ASSUME ~overlap' PROVE ~overlap
    BY <2>2, OverlapStays
  <2>3. ASSUME ~overlap' PROVE (Apart /\ Balanced /\ Exposed /\ ReportFits)'
    BY <2>2, <2>3, ApartStep, MoneyStep, ReportStep DEF MoneyInv
  <2> QED
    BY <2>1, <2>3 DEF MoneyInv
<1> QED
  BY <1>1, MoneyInit, InvHolds, PTL DEF SimSpec

(* The balance is the start plus the P&L told to the risk manager minus    *)
(* what the open positions cost, for every configuration and any number of *)
(* closers, in the middle of every entry and close, unless two goroutines  *)
(* have worked on one position.                                            *)
THEOREM SimBalanceIsAccounted == SimSpec => []BalanceIsAccounted
<1>1. MoneyInv => BalanceIsAccounted
  BY DEF MoneyInv, Balanced, BalanceIsAccounted
<1> QED
  BY <1>1, MoneyHolds, PTL

(* With the same proviso the risk manager's exposure, in total and per     *)
(* market, is the size of the open positions it was told of: RecordClose   *)
(* never stops at zero, nothing is released twice or forgotten.            *)
THEOREM SimExposureMatchesLedger == SimSpec => []ExposureMatchesLedger
<1>1. MoneyInv => ExposureMatchesLedger
  BY DEF MoneyInv, Exposed, Recorded, RecordedIn, ExposureMatchesLedger
<1> QED
  BY <1>1, MoneyHolds, PTL

(* With the same proviso every pair of fills that computeSummary takes for *)
(* a round trip is an entry and the close that follows it.                 *)
THEOREM SimFillsPair == SimSpec => []FillsPair
<1>1. MoneyInv => FillsPair
  BY DEF MoneyInv, ReportFits, FillsPair
<1> QED
  BY <1>1, MoneyHolds, PTL
----------------------------------------------------------------------------
(* The talk between strategies and executor: what is in the channels,      *)
(* and what the strategies believe.                                        *)
Update == [key : Keys, status : Statuses]

(* The mid price an SMA entry was made at can be told from its signal.     *)
SmaPriced(sig) ==
    /\ sig.dir = "BuyYes" => sig.price \in Mids
    /\ sig.dir = "BuyNo" => One - sig.price \in Mids

ViewType ==
    /\ view = [k \in Keys |-> view[k]]
    /\ \A k \in Keys : view[k] \in States(kind[Strategy(k)])

OutboxType ==
    \A s \in Strategies : \A i \in DOMAIN outbox[s] :
        /\ Strategy(outbox[s][i].key) = s
        /\ kind[s] = "sma" => SmaPriced(outbox[s][i].sig)

FeedbackType ==
    /\ feedback \in [Strategies -> Seq(Update)]
    /\ \A s \in Strategies : /\ Len(feedback[s]) <= FeedbackCap
                             /\ \A i \in DOMAIN feedback[s] : Strategy(feedback[s][i].key) = s

TalkInv == ViewType /\ OutboxType /\ FeedbackType /\ Len(signals) <= SignalCap

LEMMA WindowType ==
    ASSUME NEW st \in SmaStates, NEW mid \in Mids
    PROVE  SmaWindow(st, mid) \in BoundedSeq(Mids, SmaPeriod)
<1>1. st.prices \in BoundedSeq(Mids, SmaPeriod) /\ SmaPeriod \in Nat /\ SmaPeriod > 0
  BY RulesConfig DEF SmaStates, RulesConfig
<1>2. PICK n \in 0 .. SmaPeriod : st.prices \in [1 .. n -> Mids]
  BY <1>1 DEF BoundedSeq, SeqOf
<1> DEFINE all == Append(st.prices, mid)
<1>3. st.prices \in Seq(Mids) /\ Len(st.prices) = n
  BY <1>2
<1>4. all \in Seq(Mids) /\ Len(all) = n + 1
  BY <1>3
<1>5. \A q \in Seq(Mids) : Len(q) <= SmaPeriod => q \in BoundedSeq(Mids, SmaPeriod)
  <2> SUFFICES ASSUME NEW q \in Seq(Mids), Len(q) <= SmaPeriod
               PROVE  \E m \in 0 .. SmaPeriod : q \in [1 .. m -> Mids]
    BY DEF BoundedSeq, SeqOf
  <2>1. q \in [1 .. Len(q) -> Mids] /\ Len(q) \in Nat
    OBVIOUS
  <2>2. Len(q) \in 0 .. SmaPeriod
    BY <1>1, <2>1
  <2> WITNESS Len(q) \in 0 .. SmaPeriod
  <2> QED
    BY <2>1
<1>6. SmaWindow(st, mid) = IF n + 1 > SmaPeriod THEN Tail(all) ELSE all
  BY <1>4 DEF SmaWindow
<1> HIDE DEF all
<1>7. CASE n + 1 > SmaPeriod
  <2>1. SmaWindow(st, mid) = Tail(all)
    BY <1>6, <1>7
  <2>2. all # <<>>
    BY <1>4
  <2>3. Tail(all) \in Seq(Mids) /\ Len(Tail(all)) = n
    BY <1>4, <2>2
  <2>4. Len(Tail(all)) <= SmaPeriod
    BY <1>1, <2>3
  <2>5. Tail(all) \in BoundedSeq(Mids, SmaPeriod)
    BY <1>5, <2>3, <2>4
  <2> QED
    BY <2>1, <2>5
<1>8. CASE ~(n + 1 > SmaPeriod)
  <2>1. SmaWindow(st, mid) = all
    BY <1>6, <1>8
  <2> QED
    BY <1>1, <1>4, <1>5, <1>8, <2>1
<1> QED
  BY <1>7, <1>8

LEMMA SmaRuleKeeps ==
    ASSUME NEW st \in SmaStates, NEW snap \in SmaSnapshots
    PROVE  LET done == SmaRule(st, snap)
           IN  /\ done.state \in SmaStates
               /\ done.state.hasPos = st.hasPos
               /\ done.state.pendingEntry = st.pendingEntry
               /\ Len(done.signals) <= 1
               /\ \A i \in DOMAIN done.signals :
                     /\ i = 1
                     /\ SmaPriced(done.signals[i])
                     /\ done.signals[i].dir # "Close" => ~st.hasPos /\ ~st.pendingEntry
<1> DEFINE window == SmaWindow(st, snap.mid)
           above == IsAbove(window, snap.mid)
           seen == [st EXCEPT !.prices = window, !.above = above]
           noted == [st EXCEPT !.prices = window]
           Good(done) ==
               /\ done.state \in SmaStates
               /\ done.state.hasPos = st.hasPos
               /\ done.state.pendingEntry = st.pendingEntry
               /\ Len(done.signals) <= 1
               /\ \A i \in DOMAIN done.signals :
                     /\ i = 1
                     /\ SmaPriced(done.signals[i])
                     /\ done.signals[i].dir # "Close" => ~st.hasPos /\ ~st.pendingEntry
<1>1. snap.mid \in Mids /\ snap.mid \in Nat /\ One \in Nat
  BY MidIsPrice, RulesConfig DEF SmaSnapshots, RulesConfig
<1>2. window \in BoundedSeq(Mids, SmaPeriod) /\ above \in {"unknown", "yes", "no"}
  BY <1>1, WindowType DEF IsAbove
<1> HIDE DEF window, above
<1>3. /\ seen \in SmaStates /\ seen.hasPos = st.hasPos /\ seen.pendingEntry = st.pendingEntry
      /\ noted \in SmaStates /\ noted.hasPos = st.hasPos
      /\ noted.pendingEntry = st.pendingEntry
  BY <1>2 DEF SmaStates
<1> HIDE DEF seen, noted
<1>4. ASSUME NEW next \in {st, seen, noted}
      PROVE  Good(Quiet(next)) /\ Good(Sends(next, "Close", snap.mid))
  <2>1. next \in SmaStates /\ next.hasPos = st.hasPos /\ next.pendingEntry = st.pendingEntry
    BY <1>3, <1>4
  <2> QED
    BY <2>1 DEF Quiet, Sends, Signal, SmaPriced
<1>5. ASSUME ~st.hasPos, ~st.pendingEntry
      PROVE  Good(Sends(seen, "BuyYes", snap.mid)) /\ Good(Sends(seen, "BuyNo", One - snap.mid))
  <2>1. One - (One - snap.mid) = snap.mid
    BY <1>1
  <2> QED
    BY <1>1, <1>3, <1>5, <2>1 DEF Sends, Signal, SmaPriced
<1>6. \/ SmaRule(st, snap) \in {Sends(st, "Close", snap.mid), Quiet(noted), Quiet(seen),
                                Sends(seen, "Close", snap.mid)}
      \/ /\ ~st.hasPos /\ ~st.pendingEntry
         /\ SmaRule(st, snap) \in {Sends(seen, "BuyYes", snap.mid),
                                   Sends(seen, "BuyNo", One - snap.mid)}
  BY DEF SmaRule, SmaWaits, window, above, seen, noted
<1>7. Good(SmaRule(st, snap))
  <2> HIDE DEF Good
  <2> QED
    BY <1>4, <1>5, <1>6
<1> QED
  BY <1>7
----------------------------------------------------------------------------
(* What each rule does with a state of its kind.                           *)
LEMMA CountedType ==
    ASSUME NEW st \in MomentumStates, NEW move
    PROVE  /\ Counted(st, move) \in MomentumStates
           /\ Counted(st, move).hasPos = st.hasPos
<1>1. \A n \in 0 .. Ticks : Min({n + 1, Ticks}) \in 0 .. Ticks
  <2> SUFFICES ASSUME NEW n \in 0 .. Ticks PROVE Min({n + 1, Ticks}) \in 0 .. Ticks
    OBVIOUS
  <2>1. Ticks \in Nat
    BY RulesConfig DEF RulesConfig
  <2>2. \E x \in {n + 1, Ticks} : \A y \in {n + 1, Ticks} : x <= y
    BY <2>1
  <2>3. /\ Min({n + 1, Ticks}) \in {n + 1, Ticks}
        /\ \A y \in {n + 1, Ticks} : Min({n + 1, Ticks}) <= y
    BY <2>2 DEF Min
  <2> QED
    BY <2>1, <2>3
<1>2. st.up \in 0 .. Ticks /\ st.down \in 0 .. Ticks /\ 0 \in 0 .. Ticks
  BY RulesConfig DEF RulesConfig, MomentumStates
<1> DEFINE up == IF move = "up" THEN Min({st.up + 1, Ticks}) ELSE 0
           down == IF move = "down" THEN Min({st.down + 1, Ticks}) ELSE 0
<1>3. up \in 0 .. Ticks /\ down \in 0 .. Ticks
  BY <1>1, <1>2
<1>4. Counted(st, move) = [st EXCEPT !.up = up, !.down = down]
  BY DEF Counted
<1> HIDE DEF up, down
<1> QED
  BY <1>3, <1>4 DEF MomentumStates

LEMMA MomentumRuleType ==
    ASSUME NEW st \in MomentumStates, NEW snap
    PROVE  MomentumRule(st, snap).state \in MomentumStates
<1> DEFINE seen == Counted(st, snap.move)
           gone == [st EXCEPT !.up = 0, !.down = 0, !.primed = TRUE]
           first == [st EXCEPT !.primed = TRUE]
<1>1. seen \in MomentumStates /\ gone \in MomentumStates /\ first \in MomentumStates
  <2>1. seen \in MomentumStates
    BY CountedType
  <2>2. 0 \in 0 .. Ticks
    BY RulesConfig DEF RulesConfig
  <2> QED
    BY <2>1, <2>2 DEF MomentumStates
<1>2. MomentumRule(st, snap).state \in {seen, gone, first}
  <2> HIDE DEF seen, gone, first
  <2> QED
    BY DEF MomentumRule, Sends, Quiet, seen, gone, first
<1> QED
  BY <1>1, <1>2

LEMMA RuleTypes ==
    ASSUME NEW one \in KindsOfStrategy, NEW st \in States(one), NEW snap \in Snapshots(one)
    PROVE  /\ Rule(one, st, snap).state \in States(one)
           /\ one = "sma" => \A i \in DOMAIN Rule(one, st, snap).signals :
                                SmaPriced(Rule(one, st, snap).signals[i])
<1>1. CASE one = "sma"
  <2>1. Rule(one, st, snap) = SmaRule(st, snap) /\ st \in SmaStates /\ snap \in SmaSnapshots
        /\ States(one) = SmaStates
    BY <1>1 DEF Rule, States, Snapshots
  <2> QED
    BY <2>1, SmaRuleKeeps
<1>2. CASE one = "momentum"
  <2>1. Rule(one, st, snap) = MomentumRule(st, snap) /\ st \in MomentumStates
        /\ States(one) = MomentumStates
    BY <1>2 DEF Rule, States
  <2> QED
    BY <1>2, <2>1, MomentumRuleType
<1>3. CASE one \in {"spread", "decay"}
  <2>1. st \in HolderStates /\ States(one) = HolderStates
        /\ Rule(one, st, snap) \in {SpreadRule(st, snap), DecayRule(st, snap)}
    BY <1>3 DEF Rule, States
  <2>2. SpreadRule(st, snap).state = st /\ DecayRule(st, snap).state = st
    BY DEF SpreadRule, DecayRule, Sends, Quiet
  <2> QED
    BY <1>3, <2>1, <2>2
<1> QED
  BY <1>1, <1>2, <1>3 DEF KindsOfStrategy

LEMMA SmaSentType ==
    ASSUME NEW st \in SmaStates, NEW sig \in Order, SmaPriced(sig)
    PROVE  /\ SmaSent(st, sig) \in SmaStates
           /\ SmaSent(st, sig).hasPos = st.hasPos
           /\ sig.dir = "Close" => SmaSent(st, sig).pendingEntry = st.pendingEntry
           /\ sig.dir # "Close" => SmaSent(st, sig).pendingEntry
<1>1. CASE sig.dir = "Close"
  BY <1>1 DEF SmaSent, SmaStates
<1>2. CASE sig.dir # "Close"
  <2> DEFINE mid == IF sig.dir = "BuyYes" THEN sig.price ELSE One - sig.price
  <2>1. sig.dir \in Sides /\ mid \in Mids
    BY <1>2 DEF Order, Sides, SmaPriced
  <2>2. SmaSent(st, sig) = [st EXCEPT !.pendingEntry = TRUE, !.dir = sig.dir, !.entryMid = mid]
    BY <1>2 DEF SmaSent
  <2> HIDE DEF mid
  <2> QED
    BY <1>2, <2>1, <2>2 DEF SmaStates
<1> QED
  BY <1>1, <1>2

LEMMA SentTypes ==
    ASSUME NEW one \in KindsOfStrategy, NEW st \in States(one), NEW sig \in Order,
           one = "sma" => SmaPriced(sig)
    PROVE  Sent(one, st, sig) \in States(one)
<1>1. CASE one = "sma"
  BY <1>1, SmaSentType DEF Sent, States
<1>2. CASE one = "momentum"
  <2>1. 0 \in 0 .. Ticks /\ (sig.dir # "Close" => sig.dir \in Sides)
    BY RulesConfig DEF RulesConfig, Order
  <2>2. st \in MomentumStates
    BY <1>2 DEF States
  <2>3. MomentumSent(st, sig) \in MomentumStates
    BY <2>1, <2>2 DEF MomentumSent, MomentumStates
  <2> QED
    BY <1>2, <2>3 DEF Sent, States
<1>3. CASE one \in {"spread", "decay"}
  <2>1. HolderSent(st, sig) \in HolderStates
    BY <1>3 DEF States, HolderSent, HolderStates
  <2> QED
    BY <1>3, <2>1 DEF Sent, States
<1> QED
  BY <1>1, <1>2, <1>3 DEF KindsOfStrategy

(* What an SMA strategy knows after an update.                             *)
LEMMA SmaToldType ==
    ASSUME NEW st \in SmaStates, NEW status \in Statuses
    PROVE  /\ SmaTold(st, status) \in SmaStates
           /\ status = "open" => SmaTold(st, status).hasPos
           /\ status = "closed" => /\ ~SmaTold(st, status).hasPos
                                   /\ ~SmaTold(st, status).pendingEntry
<1>1. <<>> \in BoundedSeq(Mids, SmaPeriod)
  <2>1. SmaPeriod \in Nat /\ <<>> \in [1 .. 0 -> Mids]
    BY RulesConfig DEF RulesConfig
  <2> QED
    BY <2>1 DEF BoundedSeq, SeqOf
<1>2. CASE status = "open"
  BY <1>2 DEF SmaTold, SmaStates
<1>3. CASE status = "closed"
  <2>1. SmaTold(st, status) = [st EXCEPT !.hasPos = FALSE, !.pendingEntry = FALSE,
                                  !.pendingClose = FALSE, !.prices = <<>>, !.above = "unknown"]
    BY <1>3 DEF SmaTold
  <2> QED
    BY <1>1, <1>3, <2>1 DEF SmaStates
<1> QED
  BY <1>2, <1>3 DEF Statuses

LEMMA ToldTypes ==
    ASSUME NEW one \in KindsOfStrategy, NEW st \in States(one), NEW status \in Statuses
    PROVE  Told(one, st, status) \in States(one)
<1>1. CASE one = "sma"
  BY <1>1, SmaToldType DEF Told, States
<1>2. CASE one = "momentum"
  <2>1. HolderTold(st, status) \in MomentumStates
    BY <1>2 DEF States, HolderTold, MomentumStates
  <2> QED
    BY <1>2, <2>1 DEF Told, States
<1>3. CASE one \in {"spread", "decay"}
  <2>1. HolderTold(st, status) \in HolderStates
    BY <1>3 DEF States, HolderTold, HolderStates
  <2> QED
    BY <1>3, <2>1 DEF Told, States
<1> QED
  BY <1>1, <1>2, <1>3 DEF KindsOfStrategy
----------------------------------------------------------------------------
(* The steps that touch the talk.                                          *)
talkVars == <<view, outbox, signals, feedback>>

LEMMA TalkKinds ==
    ASSUME [SimNext]_simVars
    PROVE  \/ \E k \in Keys : \E snap \in Snapshots(kind[Strategy(k)]) : OnSnapshot(k, snap)
           \/ \E s \in Strategies : SendSignal(s) \/ OnFeedback(s)
           \/ TellOpen \/ \E a \in Actors : TellClosed(a)
           \/ /\ signals # <<>> /\ signals' = Tail(signals)
              /\ UNCHANGED <<view, outbox, feedback>>
              /\ \/ \E size \in Sizes : AdmitEntry(size) \/ RejectEntry(size)
                 \/ AdmitClose \/ RejectClose
           \/ UNCHANGED talkVars
<1>1. ASSUME NEW size \in Sizes, AdmitEntry(size) \/ RejectEntry(size)
      PROVE  signals # <<>> /\ signals' = Tail(signals) /\ UNCHANGED <<view, outbox, feedback>>
  BY <1>1, Zenon DEF AdmitEntry, RejectEntry, NextSignal
<1>2. ASSUME AdmitClose \/ RejectClose
      PROVE  signals # <<>> /\ signals' = Tail(signals) /\ UNCHANGED <<view, outbox, feedback>>
  BY <1>2, Zenon DEF AdmitClose, RejectClose, NextSignal
<1>3. UNCHANGED strategyVars => UNCHANGED talkVars
  BY DEF strategyVars, talkVars
<1>4. PayEntry \/ EnterPosition \/ CountEntry \/ FillEntry => UNCHANGED strategyVars
  BY Zenon DEF PayEntry, EnterPosition, CountEntry, FillEntry
<1>5. ASSUME NEW a \in Actors, Close(a) PROVE TellClosed(a) \/ UNCHANGED strategyVars
  BY <1>5, Zenon DEF Close, PayOut, Settle, FillClose, FinishClose
<1>6. ASSUME NEW c \in Closers, CloserStep(c) PROVE Close(c) \/ UNCHANGED strategyVars
  BY <1>6, Zenon DEF CloserStep, ListPositions, CloseNext
<1>7. UNCHANGED simVars => UNCHANGED strategyVars
  BY DEF simVars
<1>8. Run \in Actors /\ Closers \subseteq Actors
  BY DEF Actors
<1>9. ASSUME NEW s \in Strategies, StrategyStep(s)
      PROVE  \/ \E k \in Keys : \E snap \in Snapshots(kind[Strategy(k)]) : OnSnapshot(k, snap)
             \/ SendSignal(s) \/ OnFeedback(s)
  BY <1>9, Zenon DEF StrategyStep
<1> QED
  BY <1>1, <1>2, <1>3, <1>4, <1>5, <1>6, <1>7, <1>8, <1>9, Zenon DEF SimNext, RunStep

(* Tell drops d updates and appends one.                                   *)
LEMMA TellAppends ==
    ASSUME FeedbackType, NEW k \in Keys, NEW status \in Statuses, Tell(k, status)
    PROVE  LET s == Strategy(k)
           IN  /\ feedback' \in [Strategies -> Seq(Update)]
               /\ \A r \in Strategies \ {s} : feedback'[r] = feedback[r]
               /\ Len(feedback'[s]) \in 1 .. FeedbackCap
               /\ feedback'[s][Len(feedback'[s])] = [key |-> k, status |-> status]
               /\ \E d \in {0, 1} :
                     /\ Len(feedback[s]) = Len(feedback'[s]) - 1 + d
                     /\ \A i \in 1 .. Len(feedback'[s]) - 1 :
                           feedback'[s][i] = feedback[s][i + d]
<1> DEFINE s == Strategy(k)
           old == feedback[s]
           kept == IF Len(old) < FeedbackCap THEN old ELSE Tail(old)
           update == [key |-> k, status |-> status]
<1>1. s \in Strategies /\ old \in Seq(Update) /\ Len(old) <= FeedbackCap
      /\ FeedbackCap \in Nat \ {0} /\ update \in Update
  BY KeyTypes, SimConfig DEF FeedbackType, SimConfig, Update
<1>2. feedback' = [feedback EXCEPT ![s] = Append(kept, update)]
  BY DEF Tell
<1>3. feedback \in [Strategies -> Seq(Update)]
  BY DEF FeedbackType
<1> HIDE DEF s, old, update
<1>4. /\ kept \in Seq(Update) /\ Len(kept) < FeedbackCap
      /\ \E d \in {0, 1} : /\ Len(old) = Len(kept) + d
                           /\ \A i \in 1 .. Len(kept) : kept[i] = old[i + d]
  <2>1. CASE Len(old) < FeedbackCap
    BY <1>1, <2>1
  <2>2. CASE ~(Len(old) < FeedbackCap)
    <3>1. old # <<>> /\ kept = Tail(old)
      BY <1>1, <2>2
    <3> HIDE DEF kept
    <3>2. /\ Tail(old) \in Seq(Update) /\ Len(Tail(old)) = Len(old) - 1
          /\ \A i \in 1 .. Len(old) - 1 : Tail(old)[i] = old[i + 1]
      BY <1>1, <3>1
    <3>3. kept \in Seq(Update) /\ Len(kept) < FeedbackCap /\ Len(old) = Len(kept) + 1
      BY <1>1, <2>2, <3>1, <3>2
    <3>4. \A i \in 1 .. Len(kept) : kept[i] = old[i + 1]
      BY <1>1, <3>1, <3>2, <3>3
    <3> QED
      BY <3>3, <3>4
  <2> QED
    BY <2>1, <2>2
<1> HIDE DEF kept
<1>5. /\ feedback'[s] = Append(kept, update) /\ Append(kept, update) \in Seq(Update)
      /\ \A r \in Strategies \ {s} : feedback'[r] = feedback[r]
      /\ feedback' \in [Strategies -> Seq(Update)]
  BY <1>1, <1>2, <1>3, <1>4
<1>6. /\ Len(feedback'[s]) = Len(kept) + 1 /\ Len(kept) \in Nat
      /\ feedback'[s][Len(kept) + 1] = update
      /\ \A i \in 1 .. Len(kept) : feedback'[s][i] = kept[i]
  BY <1>1, <1>4, <1>5
<1>7. Len(feedback'[s]) \in 1 .. FeedbackCap /\ Len(feedback'[s]) - 1 = Len(kept)
  BY <1>1, <1>4, <1>6
<1>8. PICK d \in {0, 1} : /\ Len(old) = Len(kept) + d
                          /\ \A i \in 1 .. Len(kept) : kept[i] = old[i + d]
  BY <1>4
<1>9. \A i \in 1 .. Len(kept) : feedback'[s][i] = old[i + d]
  BY <1>6, <1>8
<1> QED
  BY <1>5, <1>6, <1>7, <1>8, <1>9 DEF s, old, update

LEMMA ViewChange ==
    ASSUME KindType, ViewType, NEW k \in Keys, NEW next \in States(kind[Strategy(k)]),
           kind' = kind, view' = [view EXCEPT ![k] = next]
    PROVE  /\ ViewType' /\ view'[k] = next
           /\ \A j \in Keys \ {k} : view'[j] = view[j]
<1>1. view'[k] = next /\ (\A j \in Keys \ {k} : view'[j] = view[j])
      /\ view' = [j \in Keys |-> view'[j]]
  BY DEF ViewType
<1>2. \A j \in Keys : view'[j] \in States(kind'[Strategy(j)])
  BY <1>1 DEF ViewType
<1> QED
  BY <1>1, <1>2 DEF ViewType

LEMMA SnapshotTalk ==
    ASSUME SimInv, TalkInv, NEW k \in Keys, NEW snap \in Snapshots(kind[Strategy(k)]),
           OnSnapshot(k, snap)
    PROVE  TalkInv'
<1> DEFINE s == Strategy(k)
           done == Rule(kind[s], view[k], snap)
           out == [i \in DOMAIN done.signals |-> [key |-> k, sig |-> done.signals[i]]]
<1>1. s \in Strategies /\ kind[s] \in KindsOfStrategy /\ view[k] \in States(kind[s])
  BY KeyTypes DEF SimInv, KindType, TalkInv, ViewType
<1>2. done.state \in States(kind[s])
      /\ (kind[s] = "sma" => \A i \in DOMAIN done.signals : SmaPriced(done.signals[i]))
  BY <1>1, RuleTypes
<1>3. /\ view' = [view EXCEPT ![k] = done.state] /\ outbox' = [outbox EXCEPT ![s] = out]
      /\ kind' = kind /\ signals' = signals /\ feedback' = feedback
  BY DEF OnSnapshot
<1> HIDE DEF done
<1>4. ViewType'
  BY <1>2, <1>3, ViewChange DEF SimInv, TalkInv
<1>5. \A i \in DOMAIN out : out[i].key = k /\ (kind[s] = "sma" => SmaPriced(out[i].sig))
  BY <1>2
<1> HIDE DEF out
<1>6. OutboxType'
  <2>1. outbox'[s] = out /\ \A r \in Strategies \ {s} : outbox'[r] = outbox[r]
    BY <1>1, <1>3 DEF SimInv, MessagesType
  <2> SUFFICES ASSUME NEW r \in Strategies, NEW i \in DOMAIN outbox'[r]
               PROVE  /\ Strategy(outbox'[r][i].key) = r
                      /\ kind'[r] = "sma" => SmaPriced(outbox'[r][i].sig)
    BY Zenon DEF OutboxType
  <2> QED
    BY <1>3, <1>5, <2>1 DEF TalkInv, OutboxType
<1> QED
  BY <1>3, <1>4, <1>6 DEF TalkInv, FeedbackType

LEMMA SendEffect ==
    ASSUME SimInv, TalkInv, NEW s \in Strategies, SendSignal(s)
    PROVE  LET k == outbox[s][1].key
               sig == outbox[s][1].sig
           IN  /\ k \in Keys /\ Strategy(k) = s /\ sig \in Order
               /\ kind[s] = "sma" => SmaPriced(sig)
               /\ kind[s] \in KindsOfStrategy /\ view[k] \in States(kind[s])
               /\ view' = [view EXCEPT ![k] = Sent(kind[s], view[k], sig)]
               /\ signals' = Append(signals, [key |-> k, sig |-> sig])
               /\ Len(signals) < SignalCap
               /\ outbox[s] # <<>> /\ outbox' = [outbox EXCEPT ![s] = Tail(outbox[s])]
               /\ kind' = kind /\ feedback' = feedback
<1> DEFINE next == outbox[s][1]
<1>1. outbox[s] \in Seq(Message) /\ outbox[s] # <<>>
  BY DEF SimInv, MessagesType, SendSignal
<1>2. Head(outbox[s]) = next /\ next \in Message /\ 1 \in DOMAIN outbox[s]
  BY <1>1
<1>3. Strategy(next.key) = s /\ (kind[s] = "sma" => SmaPriced(next.sig))
  BY <1>2 DEF TalkInv, OutboxType
<1>4. next.key \in Keys /\ next.sig \in Order /\ next = [key |-> next.key, sig |-> next.sig]
  BY <1>2 DEF Message
<1>5. /\ view' = [view EXCEPT ![next.key] = Sent(kind[s], view[next.key], next.sig)]
      /\ signals' = Append(signals, next) /\ Len(signals) < SignalCap
      /\ outbox' = [outbox EXCEPT ![s] = Tail(outbox[s])]
      /\ kind' = kind /\ feedback' = feedback
  BY <1>2 DEF SendSignal
<1>6. kind[s] \in KindsOfStrategy /\ view[next.key] \in States(kind[s])
  BY <1>3, <1>4 DEF SimInv, KindType, TalkInv, ViewType
<1> HIDE DEF next
<1> QED
  BY <1>1, <1>3, <1>4, <1>5, <1>6 DEF next

LEMMA TailOf ==
    ASSUME NEW S, NEW q \in Seq(S), q # <<>>
    PROVE  /\ Tail(q) \in Seq(S) /\ Len(Tail(q)) = Len(q) - 1 /\ Len(q) \in Nat
           /\ DOMAIN Tail(q) = 1 .. Len(q) - 1 /\ DOMAIN q = 1 .. Len(q)
           /\ Head(q) = q[1] /\ q[1] \in S
           /\ \A i \in 1 .. Len(q) - 1 : Tail(q)[i] = q[i + 1] /\ i + 1 \in DOMAIN q
OBVIOUS

LEMMA SendTalk ==
    ASSUME SimInv, TalkInv, NEW s \in Strategies, SendSignal(s)
    PROVE  TalkInv'
<1> DEFINE k == outbox[s][1].key
           sig == outbox[s][1].sig
<1>1. /\ k \in Keys /\ Strategy(k) = s /\ sig \in Order
      /\ kind[s] = "sma" => SmaPriced(sig)
      /\ kind[s] \in KindsOfStrategy /\ view[k] \in States(kind[s])
      /\ view' = [view EXCEPT ![k] = Sent(kind[s], view[k], sig)]
      /\ signals' = Append(signals, [key |-> k, sig |-> sig])
      /\ Len(signals) < SignalCap
      /\ outbox[s] # <<>> /\ outbox' = [outbox EXCEPT ![s] = Tail(outbox[s])]
      /\ kind' = kind /\ feedback' = feedback
  BY SendEffect
<1> HIDE DEF k, sig
<1>2. ViewType'
  BY <1>1, SentTypes, ViewChange DEF SimInv, TalkInv
<1>3. OutboxType'
  <2>1. outbox'[s] = Tail(outbox[s]) /\ \A r \in Strategies \ {s} : outbox'[r] = outbox[r]
    BY <1>1 DEF SimInv, MessagesType
  <2>2. /\ DOMAIN outbox'[s] = 1 .. Len(outbox[s]) - 1
        /\ \A i \in 1 .. Len(outbox[s]) - 1 :
              outbox'[s][i] = outbox[s][i + 1] /\ i + 1 \in DOMAIN outbox[s]
    BY <1>1, <2>1, TailOf DEF SimInv, MessagesType
  <2> SUFFICES ASSUME NEW r \in Strategies, NEW i \in DOMAIN outbox'[r]
               PROVE  /\ Strategy(outbox'[r][i].key) = r
                      /\ kind'[r] = "sma" => SmaPriced(outbox'[r][i].sig)
    BY Zenon DEF OutboxType
  <2> QED
    BY <1>1, <2>1, <2>2 DEF TalkInv, OutboxType
<1>4. Len(signals') <= SignalCap
  <2>1. signals \in Seq(Message) /\ SignalCap \in Nat
    BY SimConfig DEF SimConfig, SimInv, MessagesType
  <2>2. Len(signals') = Len(signals) + 1
    BY <1>1, <2>1
  <2> QED
    BY <1>1, <2>1, <2>2
<1>5. FeedbackType'
  BY <1>1 DEF TalkInv, FeedbackType
<1> QED
  BY <1>2, <1>3, <1>4, <1>5 DEF TalkInv

LEMMA FeedbackEffect ==
    ASSUME SimInv, TalkInv, NEW s \in Strategies, OnFeedback(s)
    PROVE  LET k == feedback[s][1].key
               status == feedback[s][1].status
           IN  /\ k \in Keys /\ Strategy(k) = s /\ status \in Statuses
               /\ kind[s] \in KindsOfStrategy /\ view[k] \in States(kind[s])
               /\ view' = [view EXCEPT ![k] = Told(kind[s], view[k], status)]
               /\ feedback[s] # <<>> /\ feedback' = [feedback EXCEPT ![s] = Tail(feedback[s])]
               /\ kind' = kind /\ signals' = signals /\ outbox' = outbox /\ outbox[s] = <<>>
<1> DEFINE update == feedback[s][1]
<1>1. feedback[s] \in Seq(Update) /\ feedback[s] # <<>>
  BY DEF TalkInv, FeedbackType, OnFeedback
<1>2. Head(feedback[s]) = update /\ update \in Update /\ 1 \in DOMAIN feedback[s]
  BY <1>1
<1>3. Strategy(update.key) = s /\ update.key \in Keys /\ update.status \in Statuses
  BY <1>2 DEF TalkInv, FeedbackType, Update
<1>4. /\ view' = [view EXCEPT ![update.key] = Told(kind[s], view[update.key], update.status)]
      /\ feedback' = [feedback EXCEPT ![s] = Tail(feedback[s])]
      /\ kind' = kind /\ signals' = signals /\ outbox' = outbox /\ outbox[s] = <<>>
  BY <1>2 DEF OnFeedback
<1>5. kind[s] \in KindsOfStrategy /\ view[update.key] \in States(kind[s])
  BY <1>3 DEF SimInv, KindType, TalkInv, ViewType
<1> HIDE DEF update
<1> QED
  BY <1>1, <1>3, <1>4, <1>5 DEF update

LEMMA FeedbackTalk ==
    ASSUME SimInv, TalkInv, NEW s \in Strategies, OnFeedback(s)
    PROVE  TalkInv'
<1> DEFINE k == feedback[s][1].key
           status == feedback[s][1].status
<1>1. /\ k \in Keys /\ Strategy(k) = s /\ status \in Statuses
      /\ kind[s] \in KindsOfStrategy /\ view[k] \in States(kind[s])
      /\ view' = [view EXCEPT ![k] = Told(kind[s], view[k], status)]
      /\ feedback[s] # <<>> /\ feedback' = [feedback EXCEPT ![s] = Tail(feedback[s])]
      /\ kind' = kind /\ signals' = signals /\ outbox' = outbox /\ outbox[s] = <<>>
  BY FeedbackEffect
<1> HIDE DEF k, status
<1>2. ViewType'
  BY <1>1, ToldTypes, ViewChange DEF SimInv, TalkInv
<1>3. FeedbackType'
  <2>1. feedback \in [Strategies -> Seq(Update)] /\ Len(feedback[s]) <= FeedbackCap
        /\ FeedbackCap \in Nat
    BY SimConfig DEF SimConfig, TalkInv, FeedbackType
  <2>2. /\ Tail(feedback[s]) \in Seq(Update) /\ Len(Tail(feedback[s])) = Len(feedback[s]) - 1
        /\ Len(feedback[s]) \in Nat
        /\ DOMAIN Tail(feedback[s]) = 1 .. Len(feedback[s]) - 1
        /\ \A i \in 1 .. Len(feedback[s]) - 1 :
              Tail(feedback[s])[i] = feedback[s][i + 1] /\ i + 1 \in DOMAIN feedback[s]
    BY <1>1, <2>1, TailOf
  <2>3. /\ feedback' \in [Strategies -> Seq(Update)] /\ feedback'[s] = Tail(feedback[s])
        /\ \A r \in Strategies \ {s} : feedback'[r] = feedback[r]
    BY <1>1, <2>1, <2>2
  <2> SUFFICES ASSUME NEW r \in Strategies
               PROVE  /\ Len(feedback'[r]) <= FeedbackCap
                      /\ \A i \in DOMAIN feedback'[r] : Strategy(feedback'[r][i].key) = r
    BY <2>3, Zenon DEF FeedbackType
  <2>4. CASE r = s
    BY <2>1, <2>2, <2>3, <2>4 DEF TalkInv, FeedbackType
  <2>5. CASE r # s
    BY <2>3, <2>5 DEF TalkInv, FeedbackType
  <2> QED
    BY <2>4, <2>5
<1> QED
  BY <1>1, <1>2, <1>3 DEF TalkInv, OutboxType

LEMMA TellTalk ==
    ASSUME SimInv, TalkInv, NEW k \in Keys, NEW status \in Statuses, Tell(k, status),
           UNCHANGED <<kind, view, outbox, signals>>
    PROVE  TalkInv'
<1> DEFINE s == Strategy(k)
<1>1. /\ feedback' \in [Strategies -> Seq(Update)]
      /\ \A r \in Strategies \ {s} : feedback'[r] = feedback[r]
      /\ Len(feedback'[s]) \in 1 .. FeedbackCap
      /\ feedback'[s][Len(feedback'[s])] = [key |-> k, status |-> status]
      /\ \E d \in {0, 1} :
            /\ Len(feedback[s]) = Len(feedback'[s]) - 1 + d
            /\ \A i \in 1 .. Len(feedback'[s]) - 1 : feedback'[s][i] = feedback[s][i + d]
  BY TellAppends DEF TalkInv
<1>2. s \in Strategies /\ feedback[s] \in Seq(Update) /\ feedback'[s] \in Seq(Update)
      /\ FeedbackCap \in Nat
  BY <1>1, KeyTypes, SimConfig DEF SimConfig, TalkInv, FeedbackType
<1> HIDE DEF s
<1>3. ASSUME NEW i \in DOMAIN feedback'[s] PROVE Strategy(feedback'[s][i].key) = s
  <2>1. i \in 1 .. Len(feedback'[s]) /\ Len(feedback'[s]) \in Nat
    BY <1>2, <1>3
  <2>2. CASE i = Len(feedback'[s])
    BY <1>1, <2>2 DEF s
  <2>3. CASE i # Len(feedback'[s])
    <3>1. PICK d \in {0, 1} :
             /\ Len(feedback[s]) = Len(feedback'[s]) - 1 + d
             /\ \A j \in 1 .. Len(feedback'[s]) - 1 : feedback'[s][j] = feedback[s][j + d]
      BY <1>1
    <3>2. i \in 1 .. Len(feedback'[s]) - 1 /\ i + d \in DOMAIN feedback[s]
      BY <1>2, <2>1, <2>3, <3>1
    <3> QED
      BY <1>2, <3>1, <3>2 DEF TalkInv, FeedbackType
  <2> QED
    BY <2>2, <2>3
<1>4. FeedbackType'
  <2> SUFFICES ASSUME NEW r \in Strategies
               PROVE  /\ Len(feedback'[r]) <= FeedbackCap
                      /\ \A i \in DOMAIN feedback'[r] : Strategy(feedback'[r][i].key) = r
    BY <1>1, Zenon DEF FeedbackType
  <2>1. CASE r = s
    BY <1>1, <1>2, <1>3, <2>1
  <2>2. CASE r # s
    BY <1>1, <2>2 DEF TalkInv, FeedbackType
  <2> QED
    BY <2>1, <2>2
<1> QED
  BY <1>4 DEF TalkInv, ViewType, OutboxType

LEMMA TellSteps ==
    ASSUME SimInv, NEW a \in Actors, TellClosed(a) \/ (a = Run /\ TellOpen)
    PROVE  /\ job[a].key \in Keys /\ UNCHANGED <<kind, view, outbox, signals>>
           /\ TellClosed(a) => Tell(job[a].key, "closed")
           /\ TellOpen /\ a = Run => Tell(job[a].key, "open")
<1>1. job[a].key \in Keys
  BY JobTypes, JobFields DEF SimInv, TellClosed, TellOpen
<1> QED
  BY <1>1, Zenon DEF TellClosed, TellOpen

LEMMA TalkStep ==
    ASSUME SimInv, TalkInv, [SimNext]_simVars
    PROVE  TalkInv'
<1>1. ASSUME NEW a \in Actors, TellClosed(a) \/ (a = Run /\ TellOpen) PROVE TalkInv'
  BY <1>1, TellSteps, TellTalk DEF Statuses
<1>2. kind' = kind
  BY Zenon DEF SimNext, simVars, strategyVars, executorVars, StrategyStep, OnSnapshot, SendSignal,
     OnFeedback, RunStep, AdmitEntry, RejectEntry, PayEntry, EnterPosition, CountEntry,
     FillEntry, TellOpen,
     AdmitClose, RejectClose, Close, PayOut, Settle, FillClose, FinishClose, TellClosed, CloserStep,
     ListPositions, CloseNext
<1>3. ASSUME signals # <<>>, signals' = Tail(signals), UNCHANGED <<view, outbox, feedback>>
      PROVE  TalkInv'
  <2>1. Len(signals') = Len(signals) - 1 /\ Len(signals) \in Nat /\ SignalCap \in Nat
    BY <1>3, TailOf, SimConfig DEF SimConfig, SimInv, MessagesType
  <2>2. Len(signals') <= SignalCap
    BY <2>1 DEF TalkInv
  <2> QED
    BY <1>2, <1>3, <2>2 DEF TalkInv, ViewType, OutboxType, FeedbackType
<1>4. ASSUME UNCHANGED talkVars PROVE TalkInv'
  BY <1>2, <1>4 DEF talkVars, TalkInv, ViewType, OutboxType, FeedbackType
<1>5. Run \in Actors
  BY DEF Actors
<1> QED
  BY <1>1, <1>3, <1>4, <1>5, SnapshotTalk, SendTalk, FeedbackTalk, TalkKinds
----------------------------------------------------------------------------
(* The accounts keep their types.                                          *)
AccountType == balance \in Int /\ report \in [Keys -> {"none", "entry", "close"}]

LEMMA FillType ==
    ASSUME AccountType, NEW k \in Keys, NEW what \in {"entry", "close"}, Fill(k, what)
    PROVE  report' \in [Keys -> {"none", "entry", "close"}]
BY DEF AccountType, Fill

LEMMA AccountStep ==
    ASSUME SimInv, AccountType, [SimNext]_simVars
    PROVE  AccountType'
<1>1. ASSUME UNCHANGED <<balance, report>> PROVE AccountType'
  BY <1>1 DEF AccountType
<1>11. EnterPosition => UNCHANGED <<balance, report>>
  BY Zenon DEF EnterPosition
<1>2. ASSUME PayEntry PROVE AccountType'
  <2>1. job[Run].size \in Nat
    BY <1>2, EntryStep, JobFields, SimConfig DEF SimConfig
  <2>2. FeeOf(job[Run].size) \in Int
    BY <2>1, FeeIsInt
  <2>3. balance' = balance - job[Run].size - FeeOf(job[Run].size) /\ report' = report
    BY <1>2 DEF PayEntry
  <2> QED
    BY <2>1, <2>2, <2>3 DEF AccountType
<1>3. ASSUME FillEntry PROVE AccountType'
  <2>1. job[Run].key \in Keys
    BY <1>3, EntryStep, JobFields
  <2> QED
    BY <1>3, <2>1, FillType DEF FillEntry, AccountType
<1>4. ASSUME NEW a \in Actors, PayOut(a) PROVE AccountType'
  <2>1. job[a].pos \in Position /\ job[a].price \in Nat
    BY <1>4, JobTypes, JobFields DEF SimInv, PayOut
  <2>2. job[a].pos.size \in Nat
    BY <2>1 DEF Position
  <2>3. Proceeds(job[a].pos, job[a].price) \in Int /\ FeeOf(job[a].pos.size) \in Int
    BY <2>1, <2>2, ProceedsAreInt, FeeIsInt
  <2>4. balance' = balance + Proceeds(job[a].pos, job[a].price) - FeeOf(job[a].pos.size)
        /\ report' = report
    BY <1>4, Zenon DEF PayOut
  <2> QED
    BY <2>3, <2>4 DEF AccountType
<1>5. ASSUME NEW a \in Actors, FillClose(a) PROVE AccountType'
  <2>1. job[a].key \in Keys
    BY <1>5, JobTypes, JobFields DEF SimInv, FillClose
  <2> QED
    BY <1>5, <2>1, FillType DEF FillClose, AccountType
<1>6. ASSUME NEW a \in Actors, Close(a) PROVE AccountType'
  <2>1. Settle(a) \/ FinishClose(a) \/ TellClosed(a) => UNCHANGED <<balance, report>>
    BY Zenon DEF Settle, FinishClose, TellClosed
  <2> QED
    BY <1>1, <1>4, <1>5, <1>6, <2>1 DEF Close
<1>7. CountEntry \/ TellOpen => UNCHANGED <<balance, report>>
  BY DEF CountEntry, TellOpen
<1>8. \A size : AdmitEntry(size) => UNCHANGED <<balance, report>>
  BY DEF AdmitEntry
<1>9. \A a, k, price : StartClose(a, k, price) => UNCHANGED <<balance, report>>
  BY DEF StartClose
<1>10. UNCHANGED moneyVars => UNCHANGED <<balance, report>>
  BY DEF moneyVars
<1> QED
  BY <1>1, <1>2, <1>3, <1>6, <1>7, <1>8, <1>9, <1>10, <1>11, MoneyKinds, Zenon

LEMMA TalkInit ==
    ASSUME SimInit PROVE TalkInv /\ AccountType
<1>1. /\ view = [k \in Keys |-> Start(kind[Strategy(k)])]
      /\ kind \in [Strategies -> KindsOfStrategy]
      /\ outbox = [s \in Strategies |-> <<>>] /\ signals = <<>>
      /\ feedback = [s \in Strategies |-> <<>>]
      /\ balance = StartingBalance /\ report = [k \in Keys |-> "none"]
  BY DEF SimInit
<1>2. \A one \in KindsOfStrategy : Start(one) \in States(one)
  <2>1. <<>> \in BoundedSeq(Mids, SmaPeriod) /\ 0 \in 0 .. Ticks
    <3>1. SmaPeriod \in Nat /\ Ticks \in Nat /\ <<>> \in [1 .. 0 -> Mids]
      BY RulesConfig DEF RulesConfig
    <3> QED
      BY <3>1 DEF BoundedSeq, SeqOf
  <2>2. SmaStart \in SmaStates
    BY <2>1 DEF SmaStart, SmaStates, Sides
  <2>3. MomentumStart \in MomentumStates /\ HolderStart \in HolderStates
    BY <2>1 DEF MomentumStart, MomentumStates, Sides, HolderStart, HolderStates
  <2> QED
    BY <2>2, <2>3, Zenon DEF Start, States, KindsOfStrategy
<1>3. ViewType
  <2>1. \A k \in Keys : view[k] = Start(kind[Strategy(k)]) /\ kind[Strategy(k)] \in KindsOfStrategy
    BY <1>1, KeyTypes
  <2>2. view = [k \in Keys |-> view[k]]
    BY <1>1
  <2> QED
    BY <1>2, <2>1, <2>2 DEF ViewType
<1>4. OutboxType
  BY <1>1 DEF OutboxType
<1>5. FeedbackType /\ Len(signals) <= SignalCap
  BY <1>1, SimConfig DEF SimConfig, FeedbackType
<1>6. AccountType
  BY <1>1, RiskConfig DEF RiskConfig, AccountType
<1> QED
  BY <1>3, <1>4, <1>5, <1>6 DEF TalkInv

LEMMA TalkHolds == SimSpec => [](TalkInv /\ AccountType)
<1>1. SimInv /\ TalkInv /\ AccountType /\ [SimNext]_simVars => TalkInv' /\ AccountType'
  BY TalkStep, AccountStep
<1> QED
  BY <1>1, TalkInit, InvHolds, PTL DEF SimSpec

(* The risk manager's counters stay natural, the channels within their     *)
(* capacity, and what a strategy believes is a state of its kind.          *)
THEOREM SimTypeCorrect == SimSpec => []SimTypeOK
<1>1. MoneyInv /\ TalkInv /\ AccountType => SimTypeOK
  BY DEF MoneyInv, TalkInv, AccountType, ViewType, FeedbackType, SimTypeOK
<1> QED
  BY <1>1, MoneyHolds, TalkHolds, PTL

(* One entry of an SMA strategy at a time.  Where an entry for key k can   *)
(* be, what is done for k, and what the strategy has still to read of it.  *)
IsEntry(message, k) == message.key = k /\ message.sig.dir # "Close"

Planned(k) == \E i \in DOMAIN outbox[Strategy(k)] : IsEntry(outbox[Strategy(k)][i], k)
Queued(k) == \E i \in DOMAIN signals : IsEntry(signals[i], k)
QueuedOnce(k) ==
    \A i, j \in DOMAIN signals : IsEntry(signals[i], k) /\ IsEntry(signals[j], k) => i = j

Untouched(k) == \A a \in Actors : job[a].pc # "idle" => job[a].key # k
Still(k) == ~Queued(k) /\ Untouched(k) /\ ~HasOpenPosition(positions, k)

Unread(k, status) ==
    \E i \in DOMAIN feedback[Strategy(k)] : /\ feedback[Strategy(k)][i].key = k
                                            /\ feedback[Strategy(k)][i].status = status
News(k) == Unread(k, "open") \/ Unread(k, "closed")
ClosedIsLast(k) ==
    LET updates == feedback[Strategy(k)]
    IN  \A i, j \in DOMAIN updates :
            updates[i].key = k /\ updates[j].key = k /\ updates[i].status = "closed" => j <= i

(* The strategy would enter.                                               *)
Free(k) == ~view[k].hasPos /\ ~view[k].pendingEntry

(* It would only when nothing goes on; "closed" is the last word on a      *)
(* position; an entry in the channel is all there is of its key.           *)
OneAt(k) ==
    /\ Len(outbox[Strategy(k)]) <= 1
    /\ Planned(k) => Free(k)
    /\ Free(k) => Still(k) /\ ~News(k)
    /\ Unread(k, "closed") => Still(k)
    /\ ClosedIsLast(k)
    /\ Queued(k) => /\ QueuedOnce(k) /\ Untouched(k) /\ ~News(k)
                    /\ ~HasOpenPosition(positions, k)

OneInv == ~overlap => \A k \in Keys : kind[Strategy(k)] = "sma" => OneAt(k)

SameWork(k) ==
    /\ Untouched(k)' <=> Untouched(k)
    /\ HasOpenPosition(positions', k) <=> HasOpenPosition(positions, k)

LEMMA WorkElsewhere ==
    ASSUME NEW a \in Actors, NEW k, Works(a, k), job[a] = Waiting \/ job[a].key = k,
           NEW i \in Keys \ {k}
    PROVE  SameWork(i)
<1>1. /\ \A b \in Actors \ {a} : job'[b] = job[b]
      /\ job'[a] = Waiting \/ job'[a].key = k
      /\ positions'[i] = positions[i]
  BY DEF Works
<1>2. Untouched(i)' <=> Untouched(i)
  BY <1>1 DEF Untouched, Waiting
<1> QED
  BY <1>1, <1>2 DEF SameWork, HasOpenPosition

(* A step changes what is done for a key only when something is done       *)
(* already, the position is open, or an entry for it is admitted.          *)
LEMMA WorkChanges ==
    ASSUME SimInv, Apart, ~overlap', [SimNext]_simVars, NEW i \in Keys
    PROVE  \/ SameWork(i) \/ ~Untouched(i) \/ HasOpenPosition(positions, i)
           \/ \E size \in Sizes : AdmitEntry(size) /\ Head(signals).key = i
<1> Run \in Actors
  BY DEF Actors
<1>1. ASSUME NEW a \in Actors, NEW k \in Keys, Works(a, k), k = job[a].key, job[a].pc # "idle"
      PROVE  SameWork(i) \/ ~Untouched(i)
  BY <1>1, WorkElsewhere DEF Untouched
<1>2. ASSUME NEW size \in Sizes, AdmitEntry(size), Head(signals).key # i PROVE SameWork(i)
  <2>1. PICK k \in Keys : Starts(Run, k, "pay")
    BY <1>2, AdmitEffect
  <2>2. k # i
    BY <1>2, <2>1, AdmitStep DEF Starts
  <2> QED
    BY <2>1, <2>2, WorkElsewhere DEF Starts
<1>3. ASSUME PayEntry \/ EnterPosition PROVE SameWork(i) \/ ~Untouched(i)
  BY <1>1, <1>3, EnterEffect, PayEffect
<1>4. ASSUME CountEntry \/ FillEntry \/ TellOpen PROVE SameWork(i) \/ ~Untouched(i)
  <2>1. PICK k \in Keys : /\ Works(Run, k) /\ k = job[Run].key
                          /\ job[Run].pc \in {"count", "entered", "tell open"}
    BY <1>4, EntryEffects
  <2> QED
    BY <1>1, <2>1
<1>5. ASSUME NEW a \in Actors, Close(a) PROVE SameWork(i) \/ ~Untouched(i)
  <2>1. PICK k \in Keys : Works(a, k) /\ k = job[a].key
    BY <1>5, CloseEffects
  <2>2. job[a].pc # "idle"
    BY <1>5 DEF Close, PayOut, Settle, FillClose, FinishClose, TellClosed
  <2> QED
    BY <1>1, <2>1, <2>2
<1>6. ASSUME NEW a \in Actors, NEW k \in Keys, NEW price \in Nat,
             job[a] = Waiting, StartClose(a, k, price)
      PROVE  SameWork(i) \/ HasOpenPosition(positions, i)
  <2>1. Starts(a, k, "pay out") /\ HasOpenPosition(positions, k)
    BY <1>6, StartCloseEffect
  <2> QED
    BY <2>1, WorkElsewhere DEF Starts
<1>7. ASSUME UNCHANGED moneyVars PROVE SameWork(i)
  BY <1>7 DEF moneyVars, SameWork, Untouched, HasOpenPosition
<1> QED
  BY <1>2, <1>3, <1>4, <1>5, <1>6, <1>7, MoneyKinds

(* What is known of a key only fades.                                      *)
Fades(k) ==
    /\ \A status \in Statuses : Unread(k, status)' => Unread(k, status)
    /\ ClosedIsLast(k) => ClosedIsLast(k)'

LEMMA NewsFade ==
    ASSUME NEW k \in Keys, FeedbackType, FeedbackType', NEW d \in Nat, NEW n \in Nat,
           n <= Len(feedback'[Strategy(k)]),
           \A i \in 1 .. n : /\ i + d <= Len(feedback[Strategy(k)])
                             /\ feedback'[Strategy(k)][i] = feedback[Strategy(k)][i + d],
           \A i \in DOMAIN feedback'[Strategy(k)] : i > n => feedback'[Strategy(k)][i].key # k
    PROVE  Fades(k)
<1> DEFINE s == Strategy(k)
           old == feedback[s]
           new == feedback'[s]
<1>1. s \in Strategies /\ old \in Seq(Update) /\ new \in Seq(Update)
  BY KeyTypes DEF FeedbackType
<1>2. DOMAIN old = 1 .. Len(old) /\ DOMAIN new = 1 .. Len(new) /\ Len(old) \in Nat /\ Len(new) \in Nat
  BY <1>1
<1>3. /\ \A i \in 1 .. n : i + d <= Len(old) /\ new[i] = old[i + d]
      /\ \A i \in DOMAIN new : i > n => new[i].key # k
  OBVIOUS
<1>5. \A status : Unread(k, status) = (\E i \in DOMAIN old : old[i].key = k /\ old[i].status = status)
  BY DEF Unread
<1>6. \A status : Unread(k, status)' = (\E i \in DOMAIN new : new[i].key = k /\ new[i].status = status)
  BY DEF Unread
<1>7. ClosedIsLast(k) = (\A i, j \in DOMAIN old :
            old[i].key = k /\ old[j].key = k /\ old[i].status = "closed" => j <= i)
  BY DEF ClosedIsLast
<1>8. ClosedIsLast(k)' = (\A i, j \in DOMAIN new :
            new[i].key = k /\ new[j].key = k /\ new[i].status = "closed" => j <= i)
  BY DEF ClosedIsLast
<1> HIDE DEF old, new
<1>9. ASSUME NEW i \in DOMAIN new, new[i].key = k
      PROVE  i + d \in DOMAIN old /\ new[i] = old[i + d] /\ i \in Nat
  BY <1>2, <1>3, <1>9
<1>10. \A status \in Statuses : Unread(k, status)' => Unread(k, status)
  <2> SUFFICES ASSUME NEW status \in Statuses, Unread(k, status)' PROVE Unread(k, status)
    OBVIOUS
  <2>1. PICK i \in DOMAIN new : new[i].key = k /\ new[i].status = status
    BY <1>6
  <2>2. /\ i + d \in DOMAIN old
        /\ old[i + d].key = k /\ old[i + d].status = status
    BY <1>9, <2>1
  <2> QED
    BY <1>5, <2>2
<1>11. ASSUME ClosedIsLast(k), NEW i \in DOMAIN new, NEW j \in DOMAIN new,
              new[i].key = k, new[j].key = k, new[i].status = "closed"
       PROVE  j <= i
  <2>1. j + d <= i + d /\ i \in Nat /\ j \in Nat
    BY <1>7, <1>9, <1>11
  <2> QED
    BY <2>1
<1> QED
  BY <1>8, <1>10, <1>11 DEF Fades

LEMMA FeedbackSame ==
    ASSUME NEW k \in Keys, FeedbackType, feedback'[Strategy(k)] = feedback[Strategy(k)]
    PROVE  Fades(k)
BY DEF Fades, Unread, ClosedIsLast

(* Nothing new for key k: no entry planned or sent, nothing told or read.  *)
Passes(k) ==
    /\ Len(outbox'[Strategy(k)]) <= 1
    /\ Planned(k)' => Planned(k)
    /\ Free(k)' <=> Free(k)
    /\ Queued(k)' => Queued(k)
    /\ QueuedOnce(k) => QueuedOnce(k)'
    /\ Fades(k)

LEMMA PassesBy ==
    ASSUME NEW k \in Keys, OneAt(k), Passes(k),
           SameWork(k) \/ ~Untouched(k) \/ HasOpenPosition(positions, k)
    PROVE  OneAt(k)'
<1> USE DEF Statuses
<1>1. News(k)' => News(k)
  BY DEF Passes, Fades, News
<1>2. Unread(k, "closed")' => Unread(k, "closed")
  BY DEF Passes, Fades
<1>3. CASE SameWork(k)
  BY <1>1, <1>2, <1>3, Zenon DEF OneAt, Passes, Fades, SameWork, Still
<1>4. CASE ~Untouched(k) \/ HasOpenPosition(positions, k)
  <2>1. ~Free(k) /\ ~Unread(k, "closed") /\ ~Queued(k)
    BY <1>4, Zenon DEF OneAt, Still
  <2> QED
    BY <1>2, <2>1, Zenon DEF OneAt, Passes, Fades
<1> QED
  BY <1>3, <1>4

QueueFades(k) == (Queued(k)' => Queued(k)) /\ (QueuedOnce(k) => QueuedOnce(k)')

LEMMA QueueFade ==
    ASSUME SimInv, NEW k \in Keys,
           \/ signals' = signals
           \/ signals # <<>> /\ signals' = Tail(signals)
           \/ \E message \in Message : ~IsEntry(message, k) /\ signals' = Append(signals, message)
    PROVE  QueueFades(k)
<1>1. CASE signals' = signals
  BY <1>1 DEF QueueFades, Queued, QueuedOnce
<1>2. CASE signals # <<>> /\ signals' = Tail(signals)
  <2> DEFINE n == Len(signals)
  <2>1. /\ DOMAIN signals' = 1 .. n - 1 /\ n \in Nat
        /\ \A i \in 1 .. n - 1 : signals'[i] = signals[i + 1] /\ i + 1 \in DOMAIN signals
    BY <1>2, TailOf DEF SimInv, MessagesType
  <2> HIDE DEF n
  <2>2. \A i \in DOMAIN signals' : /\ i \in Int /\ i + 1 \in DOMAIN signals
                                   /\ signals'[i] = signals[i + 1]
    <3> SUFFICES ASSUME NEW i \in DOMAIN signals'
                 PROVE  i \in Int /\ i + 1 \in DOMAIN signals /\ signals'[i] = signals[i + 1]
      OBVIOUS
    <3>1. i \in 1 .. n - 1
      BY <2>1
    <3> QED
      BY <2>1, <3>1
  <2>3. Queued(k)' => Queued(k)
    BY <2>2 DEF Queued
  <2>4. ASSUME QueuedOnce(k), NEW i \in DOMAIN signals', NEW j \in DOMAIN signals',
               IsEntry(signals'[i], k), IsEntry(signals'[j], k)
        PROVE  i = j
    <3>1. i + 1 = j + 1
      BY <2>2, <2>4, Zenon DEF QueuedOnce
    <3> QED
      BY <2>2, <3>1
  <2> QED
    BY <2>3, <2>4 DEF QueueFades, QueuedOnce
<1>3. ASSUME NEW message \in Message, ~IsEntry(message, k), signals' = Append(signals, message)
      PROVE  QueueFades(k)
  <2>1. \A i \in DOMAIN signals' : IsEntry(signals'[i], k) =>
            i \in DOMAIN signals /\ signals'[i] = signals[i]
    <3> DEFINE n == Len(signals)
    <3>1. signals \in Seq(Message)
      BY DEF SimInv, MessagesType
    <3>2. /\ DOMAIN signals' = 1 .. n + 1 /\ DOMAIN signals = 1 .. n
          /\ signals'[n + 1] = message /\ n \in Nat
          /\ \A i \in 1 .. n : signals'[i] = signals[i]
      BY <1>3, <3>1
    <3> HIDE DEF n
    <3> SUFFICES ASSUME NEW i \in DOMAIN signals', IsEntry(signals'[i], k)
                 PROVE  i \in DOMAIN signals /\ signals'[i] = signals[i]
      OBVIOUS
    <3>3. i \in 1 .. n + 1 /\ i # n + 1
      BY <1>3, <3>2
    <3>4. i \in 1 .. n
      BY <3>2, <3>3
    <3> QED
      BY <3>2, <3>4
  <2> QED
    BY <2>1, Zenon DEF QueueFades, Queued, QueuedOnce
<1> QED
  BY <1>1, <1>2, <1>3

LEMMA SnapshotOne ==
    ASSUME SimInv, TalkInv, NEW i \in Keys, kind[Strategy(i)] = "sma", OneAt(i),
           NEW k \in Keys, NEW snap \in Snapshots(kind[Strategy(k)]), OnSnapshot(k, snap)
    PROVE  OneAt(i)'
<1> DEFINE s == Strategy(k)
           done == Rule(kind[s], view[k], snap)
           out == [n \in DOMAIN done.signals |-> [key |-> k, sig |-> done.signals[n]]]
<1>1. /\ view' = [view EXCEPT ![k] = done.state] /\ outbox' = [outbox EXCEPT ![s] = out]
      /\ signals' = signals /\ feedback' = feedback /\ job' = job /\ positions' = positions
  BY DEF OnSnapshot, executorVars
<1>2. /\ s \in Strategies /\ Strategy(i) \in Strategies /\ view[k] \in States(kind[s])
      /\ view = [j \in Keys |-> view[j]] /\ outbox \in [Strategies -> Seq(Message)]
  BY KeyTypes DEF SimInv, MessagesType, TalkInv, ViewType
<1>3. ASSUME kind[s] = "sma"
      PROVE  /\ done.state.hasPos = view[k].hasPos
             /\ done.state.pendingEntry = view[k].pendingEntry
             /\ Len(out) <= 1
             /\ \A n \in DOMAIN out : /\ out[n].key = k
                                      /\ out[n].sig.dir # "Close" => Free(k)
  <2>1. done = SmaRule(view[k], snap) /\ view[k] \in SmaStates /\ snap \in SmaSnapshots
    BY <1>2, <1>3 DEF Rule, States, Snapshots
  <2>2. /\ done.state.hasPos = view[k].hasPos
        /\ done.state.pendingEntry = view[k].pendingEntry
        /\ Len(done.signals) <= 1
        /\ \A n \in DOMAIN done.signals :
              done.signals[n].dir # "Close" => ~view[k].hasPos /\ ~view[k].pendingEntry
    <3>1. LET rule == SmaRule(view[k], snap)
          IN  /\ rule.state.hasPos = view[k].hasPos
              /\ rule.state.pendingEntry = view[k].pendingEntry
              /\ Len(rule.signals) <= 1
              /\ \A n \in DOMAIN rule.signals :
                    rule.signals[n].dir # "Close" => ~view[k].hasPos /\ ~view[k].pendingEntry
      BY <2>1, SmaRuleKeeps
    <3> QED
      BY <2>1, <3>1, Zenon
  <2>3. done.signals \in Seq(Order)
    BY <1>2, RulesSend DEF SimInv, KindType
  <2> HIDE DEF done
  <2>4. DOMAIN out = DOMAIN done.signals /\ Len(out) = Len(done.signals)
    BY <2>3
  <2> QED
    BY <2>2, <2>4 DEF Free
<1> HIDE DEF done, out, s
<1>4. /\ \A j \in Keys : view'[j] = IF j = k THEN done.state ELSE view[j]
      /\ \A r \in Strategies : outbox'[r] = IF r = s THEN out ELSE outbox[r]
  BY <1>1, <1>2
<1>5. SameWork(i) /\ Fades(i) /\ QueueFades(i)
  <2>1. SameWork(i)
    BY <1>1 DEF SameWork, Untouched
  <2>2. FeedbackType
    BY DEF TalkInv
  <2> QED
    BY <1>1, <2>1, <2>2, FeedbackSame, QueueFade
<1>6. ASSUME Strategy(i) # s PROVE OneAt(i)'
  <2>1. i # k
    BY <1>6 DEF s
  <2>2. view'[i] = view[i] /\ outbox'[Strategy(i)] = outbox[Strategy(i)]
    BY <1>2, <1>4, <1>6, <2>1
  <2>3. Passes(i)
    BY <1>5, <2>2 DEF Passes, QueueFades, Planned, Free, OneAt
  <2> QED
    BY <1>5, <2>3, PassesBy
<1>7. ASSUME Strategy(i) = s PROVE OneAt(i)'
  <2>1. outbox'[Strategy(i)] = out /\ kind[s] = "sma"
    BY <1>2, <1>4, <1>7
  <2>2. Free(i)' <=> Free(i)
    BY <1>3, <1>4, <2>1 DEF Free
  <2>3. Planned(i)' => i = k /\ Free(i)
    BY <1>3, <2>1 DEF Planned, IsEntry
  <2>4. Len(outbox'[Strategy(i)]) <= 1
    BY <1>3, <2>1
  <2>5. /\ Queued(i)' => Queued(i)
        /\ QueuedOnce(i) => QueuedOnce(i)'
        /\ Unread(i, "open")' => Unread(i, "open")
        /\ Unread(i, "closed")' => Unread(i, "closed")
        /\ ClosedIsLast(i) => ClosedIsLast(i)'
    BY <1>5 DEF QueueFades, Fades, Statuses
  <2> QED
    BY <1>5, <2>2, <2>3, <2>4, <2>5, Zenon DEF OneAt, Still, News, SameWork
<1> QED
  BY <1>6, <1>7

LEMMA SendOne ==
    ASSUME SimInv, TalkInv, NEW i \in Keys, kind[Strategy(i)] = "sma", OneAt(i),
           NEW s \in Strategies, SendSignal(s)
    PROVE  OneAt(i)'
<1> DEFINE k == outbox[s][1].key
           sig == outbox[s][1].sig
           message == [key |-> k, sig |-> sig]
<1>1. /\ k \in Keys /\ Strategy(k) = s /\ sig \in Order
      /\ kind[s] = "sma" => SmaPriced(sig)
      /\ kind[s] \in KindsOfStrategy /\ view[k] \in States(kind[s])
      /\ view' = [view EXCEPT ![k] = Sent(kind[s], view[k], sig)]
      /\ signals' = Append(signals, message)
      /\ outbox[s] # <<>> /\ outbox' = [outbox EXCEPT ![s] = Tail(outbox[s])]
      /\ feedback' = feedback
  BY SendEffect
<1>2. job' = job /\ positions' = positions
  BY DEF SendSignal, executorVars
<1>3. /\ message \in Message /\ message.key = k /\ message.sig = sig
      /\ Strategy(i) \in Strategies
      /\ view = [j \in Keys |-> view[j]] /\ outbox \in [Strategies -> Seq(Message)]
  BY <1>1, KeyTypes DEF SimInv, MessagesType, TalkInv, ViewType, Message
<1> HIDE DEF message
<1>4. /\ \A j \in Keys : view'[j] = IF j = k THEN Sent(kind[s], view[k], sig) ELSE view[j]
      /\ \A r \in Strategies : outbox'[r] = IF r = s THEN Tail(outbox[s]) ELSE outbox[r]
  BY <1>1, <1>3
<1>5. SameWork(i) /\ Fades(i)
  <2>1. SameWork(i)
    BY <1>2 DEF SameWork, Untouched
  <2>2. FeedbackType
    BY DEF TalkInv
  <2> QED
    BY <1>1, <2>1, <2>2, FeedbackSame
<1>6. ASSUME Strategy(i) = s
      PROVE  Len(outbox'[Strategy(i)]) <= 1 /\ ~Planned(i)' /\ (i = k => outbox[s][1].key = i)
  <2>1. Len(outbox[s]) <= 1 /\ outbox[s] \in Seq(Message) /\ outbox'[Strategy(i)] = Tail(outbox[s])
    BY <1>3, <1>4, <1>6 DEF OneAt
  <2>2. Len(Tail(outbox[s])) = 0 /\ DOMAIN Tail(outbox[s]) = {}
    <3>1. /\ Len(Tail(outbox[s])) = Len(outbox[s]) - 1 /\ Len(outbox[s]) \in Nat
          /\ DOMAIN Tail(outbox[s]) = 1 .. Len(outbox[s]) - 1 /\ Tail(outbox[s]) \in Seq(Message)
      BY <1>1, <2>1, TailOf
    <3> DEFINE n == Len(outbox[s])
               m == Len(Tail(outbox[s]))
    <3>2. m = n - 1 /\ n \in Nat /\ m \in Nat /\ n <= 1 /\ DOMAIN Tail(outbox[s]) = 1 .. n - 1
      BY <2>1, <3>1
    <3> HIDE DEF n, m
    <3>3. n = 1 /\ m = 0
      BY <3>2
    <3>4. DOMAIN Tail(outbox[s]) = {}
      BY <3>2, <3>3
    <3> QED
      BY <3>3, <3>4 DEF m
  <2> QED
    BY <2>1, <2>2 DEF Planned
<1>7. ASSUME Strategy(i) # s
      PROVE  Len(outbox'[Strategy(i)]) <= 1 /\ (Planned(i)' => Planned(i))
  <2>1. outbox'[Strategy(i)] = outbox[Strategy(i)]
    BY <1>3, <1>4, <1>7
  <2> QED
    BY <2>1 DEF OneAt, Planned
<1>8. ASSUME i # k \/ sig.dir = "Close" PROVE OneAt(i)'
  <2>1. QueueFades(i)
    BY <1>1, <1>3, <1>8, QueueFade DEF IsEntry
  <2>2. Free(i)' <=> Free(i)
    <3>1. CASE i # k
      BY <1>4, <3>1 DEF Free
    <3>2. CASE i = k
      <4>1. sig.dir = "Close" /\ view[k] \in SmaStates /\ kind[s] = "sma"
        BY <1>1, <1>8, <3>2 DEF States
      <4>2. view'[k] = SmaSent(view[k], sig)
        BY <1>1, <1>4, <4>1 DEF Sent
      <4> QED
        BY <1>1, <3>2, <4>1, <4>2, SmaSentType DEF Free
    <3> QED
      BY <3>1, <3>2
  <2>3. Passes(i)
    BY <1>5, <1>6, <1>7, <2>1, <2>2 DEF Passes, QueueFades
  <2> QED
    BY <1>5, <2>3, PassesBy
<1>9. ASSUME i = k, sig.dir # "Close" PROVE OneAt(i)'
  <2>1. Planned(i)
    <3>1. 1 \in DOMAIN outbox[s]
      BY <1>1, <1>3
    <3> QED
      BY <1>1, <1>9, <3>1 DEF Planned, IsEntry
  <2>2. Still(i) /\ ~Unread(i, "open") /\ ~Unread(i, "closed") /\ ClosedIsLast(i)
    BY <2>1, Zenon DEF OneAt, News
  <2>3. ~Unread(i, "open")' /\ ~Unread(i, "closed")' /\ ClosedIsLast(i)'
    BY <1>5, <2>2, Zenon DEF Fades, Statuses
  <2>4. Untouched(i)' /\ ~HasOpenPosition(positions', i)
    BY <1>5, <2>2, Zenon DEF SameWork, Still
  <2>5. QueuedOnce(i)'
    <3>1. signals \in Seq(Message)
      BY DEF SimInv, MessagesType
    <3>2. /\ DOMAIN signals' = 1 .. Len(signals) + 1 /\ DOMAIN signals = 1 .. Len(signals)
          /\ Len(signals) \in Nat
          /\ \A n \in 1 .. Len(signals) : signals'[n] = signals[n]
      BY <1>1, <1>3, <3>1
    <3>3. \A n \in DOMAIN signals' : IsEntry(signals'[n], i) => n = Len(signals) + 1
      BY <2>2, <3>2 DEF Still, Queued
    <3> QED
      BY <3>3 DEF QueuedOnce
  <2>6. ~Free(i)'
    <3>1. view[k] \in SmaStates /\ kind[s] = "sma" /\ SmaPriced(sig)
      BY <1>1, <1>9 DEF States
    <3>2. view'[k] = SmaSent(view[k], sig)
      BY <1>1, <1>4, <3>1 DEF Sent
    <3>3. SmaSent(view[k], sig).pendingEntry
      BY <1>1, <1>9, <3>1, SmaSentType
    <3> QED
      BY <1>9, <3>2, <3>3, Zenon DEF Free
  <2>7. Len(outbox'[Strategy(i)]) <= 1 /\ ~Planned(i)'
    BY <1>1, <1>6, <1>9
  <2> QED
    BY <2>3, <2>4, <2>5, <2>6, <2>7, Zenon DEF OneAt, News
<1> QED
  BY <1>8, <1>9

LEMMA ReadFades ==
    ASSUME SimInv, TalkInv, TalkInv', NEW i \in Keys, NEW s \in Strategies, OnFeedback(s)
    PROVE  Fades(i)
<1>1. /\ feedback[s] # <<>> /\ feedback' = [feedback EXCEPT ![s] = Tail(feedback[s])]
      /\ feedback \in [Strategies -> Seq(Update)] /\ FeedbackType /\ FeedbackType'
      /\ Strategy(i) \in Strategies
  BY KeyTypes, FeedbackEffect DEF TalkInv, FeedbackType
<1>2. CASE Strategy(i) # s
  BY <1>1, <1>2, FeedbackSame
<1>3. CASE Strategy(i) = s
  <2> DEFINE old == feedback[Strategy(i)]
             new == feedback'[Strategy(i)]
             n == Len(old) - 1
  <2>1. new = Tail(old) /\ old \in Seq(Update) /\ old # <<>>
    BY <1>1, <1>3
  <2>2. /\ n \in Nat /\ Len(new) = n /\ Len(old) = n + 1 /\ DOMAIN new = 1 .. n
        /\ \A j \in 1 .. n : new[j] = old[j + 1]
    <3>1. /\ Len(Tail(old)) = Len(old) - 1 /\ Len(old) \in Nat /\ Tail(old) \in Seq(Update)
          /\ DOMAIN Tail(old) = 1 .. Len(old) - 1
          /\ \A j \in 1 .. Len(old) - 1 : Tail(old)[j] = old[j + 1]
      BY <2>1, TailOf
    <3>2. Len(Tail(old)) \in Nat
      BY <3>1
    <3> HIDE DEF old, new
    <3> QED
      BY <2>1, <3>1, <3>2
  <2> HIDE DEF n
  <2>3. /\ n <= Len(new)
        /\ \A j \in 1 .. n : j + 1 <= Len(old) /\ new[j] = old[j + 1]
        /\ \A j \in DOMAIN new : j > n => new[j].key # i
    <3> HIDE DEF old, new
    <3> QED
      BY <2>2
  <2>4. 1 \in Nat /\ n \in Nat
    BY <2>2
  <2> QED
    BY <1>1, <2>3, <2>4, NewsFade
<1> QED
  BY <1>2, <1>3

LEMMA FeedbackOne ==
    ASSUME SimInv, TalkInv, TalkInv', NEW i \in Keys, kind[Strategy(i)] = "sma", OneAt(i),
           NEW s \in Strategies, OnFeedback(s)
    PROVE  OneAt(i)'
<1> DEFINE k == feedback[s][1].key
           status == feedback[s][1].status
<1>1. /\ k \in Keys /\ Strategy(k) = s /\ status \in Statuses
      /\ kind[s] \in KindsOfStrategy /\ view[k] \in States(kind[s])
      /\ view' = [view EXCEPT ![k] = Told(kind[s], view[k], status)]
      /\ feedback[s] # <<>> /\ feedback' = [feedback EXCEPT ![s] = Tail(feedback[s])]
      /\ signals' = signals /\ outbox' = outbox /\ outbox[s] = <<>>
  BY FeedbackEffect
<1>2. job' = job /\ positions' = positions
  BY DEF OnFeedback, executorVars
<1>3. /\ view = [j \in Keys |-> view[j]] /\ feedback[s] \in Seq(Update)
      /\ feedback \in [Strategies -> Seq(Update)]
  BY DEF TalkInv, ViewType, FeedbackType
<1> HIDE DEF k, status
<1>4. /\ \A j \in Keys : view'[j] = IF j = k THEN Told(kind[s], view[k], status) ELSE view[j]
      /\ feedback'[s] = Tail(feedback[s])
  BY <1>1, <1>3
<1>5. SameWork(i) /\ Fades(i) /\ QueueFades(i)
  <2>1. SameWork(i)
    BY <1>2 DEF SameWork, Untouched
  <2> QED
    BY <1>1, <2>1, ReadFades, QueueFade
<1>6. Len(outbox'[Strategy(i)]) <= 1 /\ (Planned(i)' => Planned(i))
  BY <1>1 DEF OneAt, Planned
<1>7. CASE i # k
  <2>1. Free(i)' <=> Free(i)
    BY <1>4, <1>7 DEF Free
  <2>2. Passes(i)
    BY <1>5, <1>6, <2>1 DEF Passes, QueueFades
  <2> QED
    BY <1>5, <2>2, PassesBy
<1>8. CASE i = k
  <2>1. 1 \in DOMAIN feedback[s]
    BY <1>1, <1>3
  <2>2. Unread(i, status) /\ ~Planned(i) /\ News(i)
    BY <1>1, <1>8, <2>1 DEF Unread, Planned, k, status, News, Statuses
  <2>3. view[k] \in SmaStates /\ view'[k] = SmaTold(view[k], status)
    BY <1>1, <1>4, <1>8 DEF States, Told
  <2>4. ~Queued(i) /\ ~Queued(i)' /\ ~Planned(i)'
    BY <1>5, <1>6, <2>2, Zenon DEF OneAt, QueueFades
  <2>5. CASE status = "open"
    <3>1. ~Free(i)'
      <4>1. SmaTold(view[k], status).hasPos
        BY <1>1, <2>3, <2>5, SmaToldType
      <4> QED
        BY <1>8, <2>3, <4>1, Zenon DEF Free
    <3>2. Unread(i, "closed")' => Still(i)'
      BY <1>5, <2>4, Zenon DEF OneAt, Fades, Statuses, Still, SameWork
    <3> QED
      BY <1>5, <1>6, <2>4, <3>1, <3>2, Zenon DEF OneAt, Fades
  <2>6. CASE status = "closed"
    <3>1. Still(i) /\ ClosedIsLast(i)
      BY <2>2, <2>6, Zenon DEF OneAt
    <3>2. \A j \in DOMAIN feedback'[s] : feedback'[s][j].key # i
      <4> DEFINE old == feedback[s]
                 n == Len(old) - 1
      <4>1. /\ DOMAIN feedback'[s] = 1 .. n
            /\ \A j \in 1 .. n : feedback'[s][j] = old[j + 1] /\ j + 1 \in DOMAIN old
        BY <1>1, <1>3, <1>4, TailOf
      <4>2. old[1].key = i /\ old[1].status = "closed"
        BY <1>8, <2>6 DEF k, status
      <4>3. \A j \in DOMAIN old : old[j].key = i => j <= 1
        BY <1>1, <1>8, <2>1, <3>1, <4>2, Zenon DEF ClosedIsLast
      <4> HIDE DEF old, n
      <4> QED
        BY <4>1, <4>3
    <3>3. Strategy(i) = s
      BY <1>1, <1>8
    <3>4. ~Unread(i, "open")' /\ ~Unread(i, "closed")'
      BY <3>2, <3>3, Zenon DEF Unread
    <3>5. Still(i)'
      BY <1>5, <2>4, <3>1, Zenon DEF Still, SameWork
    <3> QED
      BY <1>5, <1>6, <2>4, <3>1, <3>4, <3>5, Zenon DEF OneAt, Fades, News
  <2> QED
    BY <1>1, <2>5, <2>6 DEF Statuses
<1> QED
  BY <1>7, <1>8

LEMMA TellFades ==
    ASSUME TalkInv, TalkInv', NEW i \in Keys, NEW k \in Keys \ {i}, NEW status \in Statuses,
           Tell(k, status)
    PROVE  Fades(i)
<1>1. FeedbackType /\ FeedbackType' /\ Strategy(i) \in Strategies
  BY KeyTypes DEF TalkInv
<1>2. /\ \A r \in Strategies \ {Strategy(k)} : feedback'[r] = feedback[r]
      /\ Len(feedback'[Strategy(k)]) \in 1 .. FeedbackCap
      /\ feedback'[Strategy(k)][Len(feedback'[Strategy(k)])] = [key |-> k, status |-> status]
      /\ \E d \in {0, 1} :
            /\ Len(feedback[Strategy(k)]) = Len(feedback'[Strategy(k)]) - 1 + d
            /\ \A j \in 1 .. Len(feedback'[Strategy(k)]) - 1 :
                  feedback'[Strategy(k)][j] = feedback[Strategy(k)][j + d]
  BY <1>1, TellAppends, Zenon
<1>3. CASE Strategy(i) # Strategy(k)
  BY <1>1, <1>2, <1>3, FeedbackSame
<1>4. CASE Strategy(i) = Strategy(k)
  <2> DEFINE old == feedback[Strategy(i)]
             new == feedback'[Strategy(i)]
             n == Len(new) - 1
  <2>1. PICK d \in {0, 1} : /\ Len(old) = Len(new) - 1 + d
                            /\ \A j \in 1 .. Len(new) - 1 : new[j] = old[j + d]
    BY <1>2, <1>4
  <2>2. /\ new[Len(new)].key = k /\ DOMAIN new = 1 .. Len(new)
        /\ Len(new) \in Nat /\ Len(new) >= 1 /\ d \in Nat
    <3>1. new \in Seq(Update) /\ FeedbackCap \in Nat
      BY <1>1, SimConfig DEF FeedbackType, SimConfig
    <3> QED
      BY <1>2, <1>4, <3>1
  <2>3. /\ n \in Nat /\ n <= Len(new)
        /\ \A j \in 1 .. n : j + d <= Len(old) /\ new[j] = old[j + d]
        /\ \A j \in DOMAIN new : j > n => new[j].key # i
    <3> HIDE DEF old, new
    <3> QED
      BY <2>1, <2>2
  <2> HIDE DEF n
  <2> QED
    BY <1>1, <2>2, <2>3, NewsFade
<1> QED
  BY <1>3, <1>4

LEMMA TellOwn ==
    ASSUME TalkInv, TalkInv', NEW k \in Keys, NEW status \in Statuses, Tell(k, status),
           ~Unread(k, "closed")
    PROVE  /\ Unread(k, "closed")' => status = "closed"
           /\ ClosedIsLast(k)'
<1> DEFINE old == feedback[Strategy(k)]
           new == feedback'[Strategy(k)]
<1>1. /\ Len(new) \in 1 .. FeedbackCap /\ new[Len(new)] = [key |-> k, status |-> status]
      /\ \E d \in {0, 1} : /\ Len(old) = Len(new) - 1 + d
                           /\ \A j \in 1 .. Len(new) - 1 : new[j] = old[j + d]
  BY TellAppends DEF TalkInv
<1>2. /\ old \in Seq(Update) /\ new \in Seq(Update)
      /\ DOMAIN old = 1 .. Len(old) /\ DOMAIN new = 1 .. Len(new)
  BY KeyTypes DEF TalkInv, FeedbackType
<1>3. Len(new) \in Nat /\ Len(old) \in Nat
  BY <1>2
<1>4. PICK d \in {0, 1} : /\ Len(old) = Len(new) - 1 + d
                          /\ \A j \in 1 .. Len(new) - 1 : new[j] = old[j + d]
  BY <1>1
<1>5. \A j \in DOMAIN old : old[j].key = k => old[j].status # "closed"
  BY DEF Unread
<1>6. Unread(k, "closed")' = (\E i \in DOMAIN new : new[i].key = k /\ new[i].status = "closed")
  BY DEF Unread
<1>7. ClosedIsLast(k)' = (\A i, j \in DOMAIN new :
            new[i].key = k /\ new[j].key = k /\ new[i].status = "closed" => j <= i)
  BY DEF ClosedIsLast
<1> HIDE DEF old, new
<1>8. ASSUME NEW i \in DOMAIN new, new[i].key = k, new[i].status = "closed"
      PROVE  i = Len(new) /\ status = "closed"
  <2>1. i \in 1 .. Len(new)
    BY <1>2
  <2>2. ASSUME i # Len(new) PROVE FALSE
    <3>1. i \in 1 .. Len(new) - 1 /\ i + d \in DOMAIN old
      BY <1>2, <1>3, <1>4, <2>1, <2>2
    <3> QED
      BY <1>4, <1>5, <1>8, <3>1
  <2> QED
    BY <1>1, <1>8, <2>2
<1>9. \A j \in DOMAIN new : j <= Len(new)
  BY <1>2, <1>3
<1> QED
  BY <1>6, <1>7, <1>8, <1>9

LEMMA TellOne ==
    ASSUME SimInv, Apart, TalkInv, TalkInv', ~overlap', [SimNext]_simVars,
           NEW i \in Keys, OneAt(i), NEW a \in Actors, TellClosed(a) \/ (a = Run /\ TellOpen)
    PROVE  OneAt(i)'
<1> DEFINE k == job[a].key
<1>1. /\ k \in Keys /\ UNCHANGED <<kind, view, outbox, signals>>
      /\ TellClosed(a) => Tell(k, "closed")
      /\ TellOpen /\ a = Run => Tell(k, "open")
  BY TellSteps
<1>2. job[a].pc # "idle"
  BY DEF TellClosed, TellOpen
<1>3. QueueFades(i) /\ (Planned(i)' => Planned(i)) /\ (Free(i)' <=> Free(i))
      /\ Len(outbox'[Strategy(i)]) <= 1
  <2>1. QueueFades(i)
    BY <1>1, QueueFade
  <2> QED
    BY <1>1, <2>1 DEF Planned, Free, OneAt
<1>4. CASE i # k
  <2>1. Fades(i)
    BY <1>1, <1>4, TellFades DEF Statuses
  <2>2. Passes(i)
    BY <1>3, <2>1 DEF Passes, QueueFades
  <2>3. Works(a, k)
    <3>1. CASE TellClosed(a)
      BY <3>1, CloseEffects DEF Close
    <3>2. CASE a = Run /\ TellOpen
      BY <3>2, EntryEffects
    <3> QED
      BY <3>1, <3>2
  <2>4. SameWork(i)
    BY <1>4, <2>3, WorkElsewhere
  <2> QED
    BY <2>2, <2>4, PassesBy
<1>5. CASE i = k
  <2>1. ~Untouched(i)
    BY <1>2, <1>5 DEF Untouched
  <2>2. ~Free(i) /\ ~Queued(i) /\ ~Unread(i, "closed") /\ ~Planned(i)
    BY <2>1, Zenon DEF OneAt, Still
  <2>3. PICK status \in Statuses : Tell(i, status) /\ (status = "closed" => TellClosed(a))
    BY <1>1, <1>5 DEF Statuses
  <2>4. (Unread(i, "closed")' => TellClosed(a)) /\ ClosedIsLast(i)'
    BY <2>2, <2>3, TellOwn
  <2>5. ASSUME TellClosed(a) PROVE Untouched(i)' /\ ~HasOpenPosition(positions', i)
    <3>1. Works(a, i) /\ job'[a].pc = "idle" /\ ~HasOpenPosition(positions, i)
          /\ positions' = positions
      <4>1. Close(a)
        BY <2>5 DEF Close
      <4> QED
        BY <1>5, <2>5, <4>1, CloseEffects
    <3>2. Untouched(i)'
      BY <3>1 DEF Untouched, Works, OthersOff
    <3> QED
      BY <3>1, <3>2
  <2>6. ~Queued(i)' /\ ~Free(i)' /\ ~Planned(i)'
    BY <1>3, <2>2, Zenon DEF QueueFades
  <2> QED
    BY <1>3, <2>4, <2>5, <2>6, Zenon DEF OneAt, Still
<1> QED
  BY <1>4, <1>5

LEMMA TakeOne ==
    ASSUME SimInv, Apart, TalkInv, ~overlap', [SimNext]_simVars, NEW i \in Keys, OneAt(i),
           signals # <<>>, signals' = Tail(signals), UNCHANGED <<view, outbox, feedback>>
    PROVE  OneAt(i)'
<1>1. QueueFades(i) /\ Fades(i)
  BY QueueFade, FeedbackSame DEF TalkInv
<1>2. (Planned(i)' <=> Planned(i)) /\ (Free(i)' <=> Free(i)) /\ Len(outbox'[Strategy(i)]) <= 1
  BY DEF Planned, Free, OneAt
<1>3. Passes(i)
  BY <1>1, <1>2 DEF Passes, QueueFades
<1>4. CASE SameWork(i) \/ ~Untouched(i) \/ HasOpenPosition(positions, i)
  BY <1>3, <1>4, PassesBy
<1>5. ASSUME NEW size \in Sizes, AdmitEntry(size), Head(signals).key = i PROVE OneAt(i)'
  <2>1. /\ IsEntry(signals[1], i) /\ 1 \in DOMAIN signals
        /\ DOMAIN signals' = 1 .. Len(signals) - 1 /\ Len(signals) \in Nat
        /\ \A n \in 1 .. Len(signals) - 1 : signals'[n] = signals[n + 1] /\ n + 1 \in DOMAIN signals
    <3>1. Head(signals) = signals[1] /\ 1 \in DOMAIN signals
      BY DEF SimInv, MessagesType
    <3>2. Head(signals).sig.dir # "Close"
      BY <1>5 DEF AdmitEntry, NextSignal, Sides
    <3>3. IsEntry(signals[1], i)
      BY <1>5, <3>1, <3>2 DEF IsEntry
    <3> QED
      BY <3>1, <3>3, TailOf DEF SimInv, MessagesType
  <2>2. Queued(i)
    BY <2>1 DEF Queued
  <2>3. ~Free(i) /\ ~Unread(i, "closed") /\ ~Planned(i) /\ QueuedOnce(i)
    BY <2>2, Zenon DEF OneAt, Still
  <2>4. ~Queued(i)'
    <3> SUFFICES ASSUME NEW n \in DOMAIN signals', IsEntry(signals'[n], i) PROVE FALSE
      BY DEF Queued
    <3> DEFINE m == Len(signals)
    <3>1. n \in 1 .. m - 1
      BY <2>1
    <3>2. n + 1 \in DOMAIN signals /\ signals'[n] = signals[n + 1]
      BY <2>1, <3>1
    <3>3. 1 = n + 1
      BY <2>1, <2>3, <3>2, Zenon DEF QueuedOnce
    <3> HIDE DEF m
    <3> QED
      BY <3>1, <3>3
  <2> QED
    BY <1>1, <1>2, <2>3, <2>4, Zenon DEF OneAt, Fades, Statuses
<1> QED
  BY <1>4, <1>5, WorkChanges

LEMMA KindStays ==
    ASSUME [SimNext]_simVars PROVE kind' = kind
BY Zenon DEF SimNext, simVars, strategyVars, executorVars, StrategyStep, OnSnapshot, SendSignal,
   OnFeedback, RunStep, AdmitEntry, RejectEntry, PayEntry, EnterPosition, CountEntry, FillEntry,
   TellOpen,
   AdmitClose, RejectClose, Close, PayOut, Settle, FillClose, FinishClose, TellClosed, CloserStep,
   ListPositions, CloseNext

LEMMA OneStep ==
    ASSUME SimInv, Apart, TalkInv, TalkInv', ~overlap', OneInv, [SimNext]_simVars
    PROVE  OneInv'
<1>1. ~overlap /\ kind' = kind
  BY ApartStep, KindStays
<1> SUFFICES ASSUME NEW i \in Keys, kind[Strategy(i)] = "sma", OneAt(i)
             PROVE  OneAt(i)'
  BY <1>1 DEF OneInv
<1>2. ASSUME UNCHANGED talkVars PROVE OneAt(i)'
  <2>1. QueueFades(i) /\ Fades(i)
    BY <1>2, QueueFade, FeedbackSame DEF TalkInv, talkVars
  <2>2. Passes(i)
    BY <1>2, <2>1 DEF talkVars, Passes, QueueFades, Planned, Free, OneAt
  <2>3. ASSUME NEW size \in Sizes, AdmitEntry(size) PROVE FALSE
    <3>1. signals # <<>> /\ Tail(signals) = signals
      BY <1>2, <2>3 DEF AdmitEntry, NextSignal, talkVars
    <3> DEFINE n == Len(signals)
    <3>2. n = n - 1 /\ n \in Nat
      BY <3>1, TailOf DEF SimInv, MessagesType
    <3> HIDE DEF n
    <3> QED
      BY <3>2
  <2> QED
    BY <2>2, <2>3, PassesBy, WorkChanges
<1>3. ASSUME NEW k \in Keys, NEW snap \in Snapshots(kind[Strategy(k)]), OnSnapshot(k, snap)
      PROVE  OneAt(i)'
  BY <1>3, SnapshotOne
<1>4. ASSUME NEW s \in Strategies, SendSignal(s) \/ OnFeedback(s) PROVE OneAt(i)'
  BY <1>4, SendOne, FeedbackOne
<1>5. ASSUME NEW a \in Actors, TellClosed(a) \/ (a = Run /\ TellOpen) PROVE OneAt(i)'
  BY <1>5, TellOne
<1>6. ASSUME signals # <<>>, signals' = Tail(signals), UNCHANGED <<view, outbox, feedback>>
      PROVE  OneAt(i)'
  BY <1>6, TakeOne
<1>7. Run \in Actors
  BY DEF Actors
<1> QED
  BY <1>2, <1>3, <1>4, <1>5, <1>6, <1>7, TalkKinds

LEMMA OneInit == SimInit => OneInv
<1> SUFFICES ASSUME SimInit, NEW k \in Keys, kind[Strategy(k)] = "sma" PROVE OneAt(k)
  BY DEF OneInv
<1>1. /\ outbox[Strategy(k)] = <<>> /\ signals = <<>> /\ feedback[Strategy(k)] = <<>>
      /\ \A a \in Actors : job[a].pc = "idle"
      /\ positions[k] = NoPosition
  BY KeyTypes DEF SimInit, Waiting
<1>2. ~Planned(k) /\ ~Queued(k) /\ ~Unread(k, "open") /\ ~Unread(k, "closed") /\ ClosedIsLast(k)
  BY <1>1 DEF Planned, Queued, Unread, ClosedIsLast
<1>3. Untouched(k) /\ ~HasOpenPosition(positions, k) /\ Len(outbox[Strategy(k)]) <= 1
  BY <1>1 DEF Untouched, HasOpenPosition
<1> QED
  BY <1>2, <1>3, Zenon DEF OneAt, Still, News

LEMMA OneHolds == SimSpec => []OneInv
<1>1. SimInv /\ MoneyInv /\ TalkInv /\ TalkInv' /\ OneInv /\ [SimNext]_simVars => OneInv'
  <2> SUFFICES ASSUME SimInv, MoneyInv, TalkInv, TalkInv', OneInv, [SimNext]_simVars, ~overlap'
               PROVE  OneInv'
    BY DEF OneInv
  <2>1. ~overlap
    BY OverlapStays
  <2> QED
    BY <2>1, OneStep DEF MoneyInv
<1> QED
  BY <1>1, OneInit, InvHolds, MoneyHolds, TalkHolds, PTL DEF SimSpec

LEMMA FewOf ==
    ASSUME NEW S, \A x, y \in S : x = y
    PROVE  Cardinality(S) = IF S = {} THEN 0 ELSE 1
<1>1. CASE S = {}
  BY <1>1, FS_EmptySet
<1>2. CASE S # {}
  <2>1. PICK x : S = {x}
    BY <1>2
  <2> QED
    BY <1>2, <2>1, FS_Singleton
<1> QED
  BY <1>1, <1>2

(* An SMA strategy never has two entries under way for a market, or one    *)
(* and a position, with any number of strategies, markets and closers and  *)
(* channels of any capacity, also where feedback is dropped, unless two    *)
(* goroutines have worked on one position.                                 *)
THEOREM SimOneEntryAtATime == SimSpec => []OneEntryAtATime
<1>1. MoneyInv /\ OneInv => OneEntryAtATime
  <2> SUFFICES ASSUME MoneyInv, OneInv, ~overlap, NEW k \in Keys, kind[Strategy(k)] = "sma"
               PROVE  EntriesUnderWay(k) <= 1
    BY DEF OneEntryAtATime
  <2>1. OneAt(k) /\ Fits(Run) /\ Run \in Actors
    BY DEF OneInv, MoneyInv, Apart, Actors
  <2> DEFINE sent == {i \in DOMAIN signals : signals[i].key = k /\ signals[i].sig.dir # "Close"}
             entering == {x \in {k} : job[Run].pc \in {"pay", "enter"} /\ job[Run].key = k}
             held == OpenPositions(positions) \cap {k}
  <2>2. sent # {} => Queued(k)
    BY DEF Queued, IsEntry
  <2>3. Queued(k) => QueuedOnce(k) /\ Untouched(k) /\ ~HasOpenPosition(positions, k)
    BY <2>1, Zenon DEF OneAt
  <2>4. \A i, j \in sent : i = j
    BY <2>2, <2>3 DEF QueuedOnce, IsEntry
  <2>5. entering # {} => ~Untouched(k) /\ ~HasOpenPosition(positions, k)
    BY <2>1 DEF Untouched, Fits
  <2>6. held # {} => HasOpenPosition(positions, k)
    BY DEF OpenPositions
  <2>7. EntriesUnderWay(k) = Cardinality(sent) + Cardinality(entering) + Cardinality(held)
    BY DEF EntriesUnderWay
  <2>8. (\A x, y \in entering : x = y) /\ (\A x, y \in held : x = y)
    OBVIOUS
  <2> HIDE DEF sent, entering, held
  <2>9. /\ Cardinality(sent) = IF sent = {} THEN 0 ELSE 1
        /\ Cardinality(entering) = IF entering = {} THEN 0 ELSE 1
        /\ Cardinality(held) = IF held = {} THEN 0 ELSE 1
    BY <2>4, <2>8, FewOf
  <2> QED
    BY <2>2, <2>3, <2>5, <2>6, <2>7, <2>9
<1> QED
  BY <1>1, MoneyHolds, OneHolds, PTL

KeysOf(s) == {k \in Keys : Strategy(k) = s}

(* No update is lost that matters: a strategy trades one market, or its    *)
(* channel has room for two updates per market.                            *)
RoomForNews ==
    \A s \in Strategies : \/ \A i, j \in KeysOf(s) : i = j
                          \/ FeedbackCap >= 2 * Cardinality(KeysOf(s))

Enters(k) == job[Run].pc \in {"pay", "enter", "count", "entered", "tell open"} /\ job[Run].key = k

UnreadOnce(k) ==
    LET updates == feedback[Strategy(k)]
    IN  \A i, j \in DOMAIN updates :
            updates[i].key = k /\ updates[j].key = k /\ updates[i].status = updates[j].status
               => i = j

(* A position the strategy does not know of, or no longer has, is news.    *)
KnowsAt(k) ==
    /\ (view[k].hasPos \/ Unread(k, "open")) /\ ~HasOpenPosition(positions, k) /\ Untouched(k)
          => Unread(k, "closed")
    /\ HasOpenPosition(positions, k) /\ ~view[k].hasPos => Unread(k, "open") \/ Enters(k)
    /\ Enters(k) => ~News(k)
    /\ UnreadOnce(k)

KnowsInv == ~overlap => \A k \in Keys : kind[Strategy(k)] = "sma" => KnowsAt(k)

(* What is unread of key k stays unread.                                   *)
NewsStay(k) ==
    /\ \A status \in Statuses : Unread(k, status)' <=> Unread(k, status)
    /\ UnreadOnce(k) => UnreadOnce(k)'

(* The updates of key k move d places towards the head.                    *)
LEMMA NewsMove ==
    ASSUME NEW k \in Keys, FeedbackType, FeedbackType', NEW d \in Nat, NEW n \in Nat,
           n <= Len(feedback'[Strategy(k)]),
           \A i \in 1 .. n : /\ i + d <= Len(feedback[Strategy(k)])
                             /\ feedback'[Strategy(k)][i] = feedback[Strategy(k)][i + d],
           \A i \in DOMAIN feedback'[Strategy(k)] : i > n => feedback'[Strategy(k)][i].key # k,
           \A i \in DOMAIN feedback[Strategy(k)] :
               i <= d \/ i - d > n => feedback[Strategy(k)][i].key # k
    PROVE  NewsStay(k)
<1> DEFINE s == Strategy(k)
           old == feedback[s]
           new == feedback'[s]
<1>1. s \in Strategies /\ old \in Seq(Update) /\ new \in Seq(Update)
  BY KeyTypes DEF FeedbackType
<1>2. DOMAIN old = 1 .. Len(old) /\ DOMAIN new = 1 .. Len(new) /\ Len(old) \in Nat /\ Len(new) \in Nat
  BY <1>1
<1>3. /\ n <= Len(new)
      /\ \A i \in 1 .. n : i + d <= Len(old) /\ new[i] = old[i + d]
      /\ \A i \in DOMAIN new : i > n => new[i].key # k
      /\ \A i \in DOMAIN old : i <= d \/ i - d > n => old[i].key # k
  OBVIOUS
<1>4. \A status : Unread(k, status) = (\E i \in DOMAIN old : old[i].key = k /\ old[i].status = status)
  BY DEF Unread
<1>5. \A status : Unread(k, status)' = (\E i \in DOMAIN new : new[i].key = k /\ new[i].status = status)
  BY DEF Unread
<1>6. UnreadOnce(k) = (\A i, j \in DOMAIN old :
            old[i].key = k /\ old[j].key = k /\ old[i].status = old[j].status => i = j)
  BY DEF UnreadOnce
<1>7. UnreadOnce(k)' = (\A i, j \in DOMAIN new :
            new[i].key = k /\ new[j].key = k /\ new[i].status = new[j].status => i = j)
  BY DEF UnreadOnce
<1> HIDE DEF old, new
<1>8. ASSUME NEW i \in DOMAIN new, new[i].key = k
      PROVE  i + d \in DOMAIN old /\ new[i] = old[i + d] /\ i \in Nat
  BY <1>2, <1>3, <1>8
<1>9. ASSUME NEW i \in DOMAIN old, old[i].key = k
      PROVE  i - d \in DOMAIN new /\ new[i - d] = old[i]
  <2>1. i \in Nat /\ ~(i <= d) /\ ~(i - d > n)
    BY <1>2, <1>3, <1>9
  <2>2. i - d \in 1 .. n /\ (i - d) + d = i
    BY <2>1
  <2>3. new[i - d] = old[i] /\ i - d \in 1 .. Len(new)
    BY <1>2, <1>3, <2>2
  <2> QED
    BY <1>2, <2>3
<1>10. ASSUME NEW status \in Statuses PROVE Unread(k, status)' <=> Unread(k, status)
  <2>1. ASSUME Unread(k, status)' PROVE Unread(k, status)
    <3>1. PICK i \in DOMAIN new : new[i].key = k /\ new[i].status = status
      BY <1>5, <2>1
    <3>2. i + d \in DOMAIN old /\ old[i + d].key = k /\ old[i + d].status = status
      BY <1>8, <3>1
    <3> QED
      BY <1>4, <3>2
  <2>2. ASSUME Unread(k, status) PROVE Unread(k, status)'
    <3>1. PICK i \in DOMAIN old : old[i].key = k /\ old[i].status = status
      BY <1>4, <2>2
    <3>2. i - d \in DOMAIN new /\ new[i - d].key = k /\ new[i - d].status = status
      BY <1>9, <3>1
    <3> QED
      BY <1>5, <3>2
  <2> QED
    BY <2>1, <2>2
<1>11. ASSUME UnreadOnce(k), NEW i \in DOMAIN new, NEW j \in DOMAIN new,
              new[i].key = k, new[j].key = k, new[i].status = new[j].status
       PROVE  i = j
  <2>1. i + d = j + d /\ i \in Nat /\ j \in Nat
    BY <1>6, <1>8, <1>11
  <2> QED
    BY <2>1
<1> QED
  BY <1>7, <1>10, <1>11 DEF NewsStay

LEMMA SameFeedbackStays ==
    ASSUME NEW k \in Keys, feedback'[Strategy(k)] = feedback[Strategy(k)]
    PROVE  NewsStay(k)
BY DEF NewsStay, Unread, UnreadOnce

(* Each status of each key is unread at most once: so many updates fit.    *)
LEMMA RoomForOne ==
    ASSUME FeedbackType, NEW k \in Keys, NEW status \in Statuses,
           \A j \in KeysOf(Strategy(k)) : UnreadOnce(j), ~Unread(k, status)
    PROVE  Len(feedback[Strategy(k)]) < 2 * Cardinality(KeysOf(Strategy(k)))
<1> DEFINE s == Strategy(k)
           old == feedback[s]
           all == KeysOf(s) \X Statuses
           rest == all \ {<<k, status>>}
           f == [i \in 1 .. Len(old) |-> <<old[i].key, old[i].status>>]
<1>1. /\ s \in Strategies /\ old \in Seq(Update) /\ DOMAIN old = 1 .. Len(old) /\ Len(old) \in Nat
      /\ \A i \in 1 .. Len(old) : Strategy(old[i].key) = s
  BY KeyTypes DEF FeedbackType
<1>2. \A i \in 1 .. Len(old) : old[i].key \in KeysOf(s) /\ old[i].status \in Statuses
  <2> SUFFICES ASSUME NEW i \in 1 .. Len(old)
               PROVE  old[i].key \in KeysOf(s) /\ old[i].status \in Statuses
    OBVIOUS
  <2>1. old[i] \in Update /\ Strategy(old[i].key) = s
    BY <1>1
  <2> QED
    BY <2>1 DEF Update, KeysOf
<1>3. IsFiniteSet(KeysOf(s)) /\ k \in KeysOf(s)
  <2>1. IsFiniteSet(Keys) /\ KeysOf(s) \subseteq Keys
    BY SimConfig DEF SimConfig, KeysOf
  <2> QED
    BY <2>1, FS_Subset DEF KeysOf
<1>4. IsFiniteSet(Statuses) /\ Cardinality(Statuses) = 2
  <2>1. IsFiniteSet({"open"}) /\ Cardinality({"open"}) = 1 /\ "closed" \notin {"open"}
    BY FS_Singleton
  <2>2. Statuses = {"open"} \cup {"closed"}
    BY DEF Statuses
  <2> QED
    BY <2>1, <2>2, FS_AddElement
<1>5. IsFiniteSet(all) /\ Cardinality(all) = Cardinality(KeysOf(s)) * 2
  BY <1>3, <1>4, FS_Product
<1>6. <<k, status>> \in all
  BY <1>3
<1>7. IsFiniteSet(rest) /\ Cardinality(rest) = Cardinality(all) - 1
  BY <1>5, <1>6, FS_RemoveElement
<1>8. \A i \in 1 .. Len(old) : f[i] \in rest
  <2>1. \A i \in 1 .. Len(old) : ~(old[i].key = k /\ old[i].status = status)
    BY <1>1 DEF Unread
  <2> HIDE DEF old
  <2> QED
    BY <1>2, <2>1
<1>9. \A i, j \in 1 .. Len(old) : f[i] = f[j] => i = j
  <2> SUFFICES ASSUME NEW i \in 1 .. Len(old), NEW j \in 1 .. Len(old),
                      old[i].key = old[j].key, old[i].status = old[j].status
               PROVE  i = j
    BY DEF f
  <2>1. UnreadOnce(old[i].key) /\ Strategy(old[i].key) = s
    BY <1>1, <1>2
  <2> QED
    BY <1>1, <2>1 DEF UnreadOnce
<1>10. f \in Injection(1 .. Len(old), rest)
  BY <1>8, <1>9, Zenon DEF Injection, IsInjective
<1>11. IsFiniteSet(1 .. Len(old)) /\ Cardinality(1 .. Len(old)) = Len(old)
  <2> DEFINE m == Len(old)
  <2>1. m \in Nat
    BY <1>1
  <2> HIDE DEF m
  <2>2. IsFiniteSet(1 .. m) /\ Cardinality(1 .. m) = IF 1 > m THEN 0 ELSE m - 1 + 1
    BY <2>1, FS_Interval
  <2>3. IsFiniteSet(1 .. m) /\ Cardinality(1 .. m) = m
    BY <2>1, <2>2
  <2> QED
    BY <2>3 DEF m
<1>12. Cardinality(1 .. Len(old)) <= Cardinality(rest)
  BY <1>7, <1>10, FS_Injection
<1> DEFINE c == Cardinality(KeysOf(s))
<1>13. c \in Nat
  BY <1>3, FS_CardinalityType
<1>14. Len(old) <= c * 2 - 1 /\ Len(old) \in Nat
  BY <1>1, <1>5, <1>7, <1>11, <1>12
<1> HIDE DEF old, c
<1>15. Len(old) < 2 * c
  BY <1>13, <1>14
<1> QED
  BY <1>15 DEF old, c

LEMMA EntersElsewhere ==
    ASSUME NEW a \in Actors, NEW k, Works(a, k), job[a] = Waiting \/ job[a].key = k,
           NEW i \in Keys \ {k}
    PROVE  SameWork(i) /\ (Enters(i)' <=> Enters(i))
<1>1. /\ \A b \in Actors \ {a} : job'[b] = job[b]
      /\ job'[a] = Waiting \/ job'[a].key = k
      /\ Run \in Actors
  BY DEF Works, Actors
<1>2. Enters(i)' <=> Enters(i)
  <2>1. Waiting.pc = "idle"
    BY WaitingIsIdle
  <2>2. CASE a = Run
    <3>1. ~Enters(i)
      BY <2>1, <2>2 DEF Enters
    <3>2. ~Enters(i)'
      BY <1>1, <2>1, <2>2 DEF Enters
    <3> QED
      BY <3>1, <3>2
  <2>3. CASE a # Run
    BY <1>1, <2>3 DEF Enters
  <2> QED
    BY <2>2, <2>3
<1> QED
  BY <1>2, WorkElsewhere

(* Who closes a position keeps the executor's loop from entering one.      *)
LEMMA ClosersAlone ==
    ASSUME NEW a \in Actors, NEW k, Works(a, k),
           job[a].pc \notin {"pay", "enter", "count", "entered", "tell open"},
           job'[a].pc \notin {"pay", "enter", "count", "entered", "tell open"}
    PROVE  ~Enters(k) /\ ~Enters(k)'
<1>1. CASE a = Run
  BY <1>1 DEF Enters
<1>2. CASE a # Run
  <2>1. Run \in Actors \ {a} /\ job'[Run] = job[Run]
    BY <1>2 DEF Actors, Works
  <2>2. job[Run].pc # "idle" => job[Run].key # k
    BY <2>1 DEF Works, OthersOff
  <2> QED
    BY <2>1, <2>2 DEF Enters
<1> QED
  BY <1>1, <1>2

LEMMA KnowsCalm ==
    ASSUME NEW i \in Keys, KnowsAt(i), NewsStay(i), view'[i].hasPos = view[i].hasPos,
           SameWork(i), Enters(i)' <=> Enters(i)
    PROVE  KnowsAt(i)'
<1>1. /\ Unread(i, "open")' <=> Unread(i, "open")
      /\ Unread(i, "closed")' <=> Unread(i, "closed")
      /\ UnreadOnce(i) => UnreadOnce(i)'
  BY DEF NewsStay, Statuses
<1> QED
  BY <1>1, Zenon DEF KnowsAt, SameWork, News

(* Work on a key that leaves its news alone.                               *)
LEMMA WorkKnows ==
    ASSUME SimInv, Apart, ~overlap', [SimNext]_simVars, NEW i \in Keys, OneAt(i), KnowsAt(i),
           NewsStay(i), view'[i].hasPos = view[i].hasPos,
           ~TellOpen, \A a \in Actors : ~TellClosed(a)
    PROVE  KnowsAt(i)'
<1> Run \in Actors
  BY DEF Actors
<1>1. /\ Unread(i, "open")' <=> Unread(i, "open")
      /\ Unread(i, "closed")' <=> Unread(i, "closed")
      /\ News(i)' <=> News(i)
      /\ UnreadOnce(i)'
  BY DEF NewsStay, Statuses, KnowsAt, News
<1>2. ASSUME NEW a \in Actors, NEW k \in Keys \ {i}, Works(a, k),
             job[a] = Waiting \/ job[a].key = k
      PROVE  KnowsAt(i)'
  BY <1>2, EntersElsewhere, KnowsCalm
<1>3. ASSUME NEW a \in Actors, job'[a].pc # "idle", job'[a].key = i PROVE ~Untouched(i)'
  BY <1>3 DEF Untouched
<1>4. ASSUME ~Untouched(i)',
             HasOpenPosition(positions', i) => Unread(i, "open") \/ Enters(i)' \/ view[i].hasPos,
             Enters(i)' => ~News(i)
      PROVE  KnowsAt(i)'
  BY <1>1, <1>4, Zenon DEF KnowsAt
<1>5. HasOpenPosition(positions, i) => Unread(i, "open") \/ Enters(i) \/ view[i].hasPos
  BY Zenon DEF KnowsAt
<1>6. Enters(i) => ~News(i)
  BY DEF KnowsAt
<1>7. ASSUME NEW size \in Sizes, AdmitEntry(size) PROVE KnowsAt(i)'
  <2>1. PICK k \in Keys : Starts(Run, k, "pay") /\ ~HasOpenPosition(positions, k)
    BY <1>7, AdmitEffect
  <2>2. CASE k # i
    BY <1>2, <2>1, <2>2 DEF Starts
  <2>3. CASE k = i
    <3>1. job'[Run].pc = "pay" /\ job'[Run].key = i /\ positions' = positions
      BY <2>1, <2>3 DEF Starts
    <3>2. Queued(i)
      <4>1. Head(signals).key = i /\ signals # <<>> /\ Head(signals).sig.dir # "Close"
        BY <1>7, <3>1, AdmitStep DEF AdmitEntry, NextSignal, Sides
      <4>2. Head(signals) = signals[1] /\ 1 \in DOMAIN signals
        BY <4>1 DEF SimInv, MessagesType
      <4> QED
        BY <4>1, <4>2 DEF Queued, IsEntry
    <3>3. ~News(i)
      BY <3>2, Zenon DEF OneAt
    <3> QED
      BY <1>3, <1>4, <2>1, <2>3, <3>1, <3>3
  <2> QED
    BY <2>2, <2>3
<1>8. ASSUME PayEntry \/ EnterPosition PROVE KnowsAt(i)'
  <2>1. PICK k \in Keys : /\ Works(Run, k) /\ k = job[Run].key
                          /\ job[Run].pc \in {"pay", "enter"}
                          /\ job'[Run].pc \in {"enter", "count"} /\ job'[Run].key = k
    BY <1>8, EnterEffect, PayEffect
  <2>2. CASE k # i
    BY <1>2, <2>1, <2>2
  <2>3. CASE k = i
    <3>1. Enters(i) /\ Enters(i)'
      BY <2>1, <2>3 DEF Enters
    <3> QED
      BY <1>3, <1>4, <1>6, <2>1, <2>3, <3>1
  <2> QED
    BY <2>2, <2>3
<1>9. ASSUME CountEntry \/ FillEntry PROVE KnowsAt(i)'
  <2>1. PICK k \in Keys : /\ Works(Run, k) /\ k = job[Run].key
                          /\ job[Run].pc \in {"count", "entered", "tell open"}
                          /\ job'[Run].pc \in {"entered", "tell open"} /\ job'[Run].key = k
    BY <1>9, EntryEffects
  <2>2. CASE k # i
    BY <1>2, <2>1, <2>2
  <2>3. CASE k = i
    <3>1. Enters(i) /\ Enters(i)'
      BY <2>1, <2>3 DEF Enters
    <3> QED
      BY <1>3, <1>4, <1>6, <2>1, <2>3, <3>1
  <2> QED
    BY <2>2, <2>3
<1>10. ASSUME NEW a \in Actors, PayOut(a) \/ Settle(a) \/ FillClose(a) \/ FinishClose(a)
       PROVE  KnowsAt(i)'
  <2>1. PICK k \in Keys :
           /\ Works(a, k) /\ k = job[a].key
           /\ job[a].pc \in {"pay out", "settle", "settled", "filled"}
           /\ job'[a].pc \in {"settle", "settled", "filled", "tell closed"}
           /\ HasOpenPosition(positions', k) => HasOpenPosition(positions, k)
    BY <1>10, CloseEffects DEF Close
  <2>2. CASE k # i
    BY <1>2, <2>1, <2>2
  <2>3. CASE k = i
    <3>1. ~Enters(i) /\ ~Enters(i)'
      BY <2>1, <2>3, ClosersAlone
    <3>2. job'[a].key = i
      BY <2>1, <2>3, WaitingIsIdle DEF Works
    <3> QED
      BY <1>3, <1>4, <1>5, <2>1, <2>3, <3>1, <3>2
  <2> QED
    BY <2>2, <2>3
<1>11. ASSUME NEW a \in Actors, NEW k \in Keys, NEW price \in Nat,
             job[a] = Waiting, StartClose(a, k, price)
      PROVE  KnowsAt(i)'
  <2>1. Starts(a, k, "pay out")
    BY <1>11, StartCloseEffect
  <2>2. CASE k # i
    BY <1>2, <2>1, <2>2 DEF Starts
  <2>3. CASE k = i
    <3>1. Works(a, i) /\ job'[a].pc = "pay out" /\ job'[a].key = i /\ job[a] = Waiting
          /\ positions' = positions
      BY <2>1, <2>3 DEF Starts
    <3>2. ~Enters(i) /\ ~Enters(i)'
      <4>1. job[a].pc = "idle"
        BY <3>1, WaitingIsIdle
      <4> QED
        BY <3>1, <4>1, ClosersAlone
    <3> QED
      BY <1>3, <1>4, <1>5, <3>1, <3>2
  <2> QED
    BY <2>2, <2>3
<1>12. ASSUME UNCHANGED moneyVars PROVE KnowsAt(i)'
  <2>1. SameWork(i) /\ (Enters(i)' <=> Enters(i))
    BY <1>12 DEF moneyVars, SameWork, Untouched, Enters
  <2> QED
    BY <2>1, KnowsCalm
<1> QED
  BY <1>7, <1>8, <1>9, <1>10, <1>11, <1>12, MoneyKinds DEF Close

LEMMA TellOther ==
    ASSUME TalkInv, TalkInv', RoomForNews, NEW i \in Keys, NEW k \in Keys \ {i},
           NEW status \in Statuses, Tell(k, status),
           Strategy(i) = Strategy(k) =>
               ~Unread(k, status) /\ \A j \in KeysOf(Strategy(k)) : UnreadOnce(j)
    PROVE  NewsStay(i)
<1>1. /\ FeedbackType /\ FeedbackType' /\ Strategy(i) \in Strategies /\ Strategy(k) \in Strategies
      /\ FeedbackCap \in Nat
  BY KeyTypes, SimConfig DEF TalkInv, SimConfig
<1>2. \A r \in Strategies \ {Strategy(k)} : feedback'[r] = feedback[r]
  BY <1>1, TellAppends, Zenon
<1>3. CASE Strategy(i) # Strategy(k)
  BY <1>1, <1>2, <1>3, SameFeedbackStays
<1>4. CASE Strategy(i) = Strategy(k)
  <2> DEFINE old == feedback[Strategy(i)]
             new == feedback'[Strategy(i)]
             update == [key |-> k, status |-> status]
             n == Len(old)
  <2>1. old \in Seq(Update) /\ n \in Nat /\ update \in Update
    <3>1. old \in Seq(Update)
      BY <1>1 DEF FeedbackType
    <3>2. n \in Nat /\ update \in Update
      BY <3>1 DEF Update
    <3> QED
      BY <3>1, <3>2
  <2>2. n < FeedbackCap
    <3>1. i \in KeysOf(Strategy(k)) /\ k \in KeysOf(Strategy(k))
      BY <1>4 DEF KeysOf
    <3>2. FeedbackCap >= 2 * Cardinality(KeysOf(Strategy(k)))
      BY <1>1, <3>1 DEF RoomForNews
    <3>3. n < 2 * Cardinality(KeysOf(Strategy(k)))
      BY <1>1, <1>4, RoomForOne
    <3>4. IsFiniteSet(KeysOf(Strategy(k)))
      <4>1. IsFiniteSet(Keys) /\ KeysOf(Strategy(k)) \subseteq Keys
        BY SimConfig DEF SimConfig, KeysOf
      <4> QED
        BY <4>1, FS_Subset
    <3>5. Cardinality(KeysOf(Strategy(k))) \in Nat
      BY <3>4, FS_CardinalityType
    <3> HIDE DEF n
    <3> QED
      BY <1>1, <2>1, <3>2, <3>3, <3>5
  <2>3. new = Append(old, update)
    BY <1>1, <1>4, <2>2 DEF Tell, FeedbackType
  <2> HIDE DEF old
  <2>4. /\ Len(new) = n + 1 /\ DOMAIN new = 1 .. n + 1 /\ DOMAIN old = 1 .. n
        /\ new[n + 1] = update /\ \A j \in 1 .. n : new[j] = old[j]
    BY <2>1, <2>3
  <2>5. update.key # i
    OBVIOUS
  <2> HIDE DEF new, n, update
  <2>6. /\ n <= Len(new)
        /\ \A j \in 1 .. n : j + 0 <= n /\ new[j] = old[j + 0]
        /\ \A j \in DOMAIN new : j > n => new[j].key # i
        /\ \A j \in DOMAIN old : j <= 0 \/ j - 0 > n => old[j].key # i
    BY <2>1, <2>4, <2>5
  <2> QED
    BY <1>1, <2>1, <2>6, NewsMove DEF old, new, n
<1> QED
  BY <1>3, <1>4

LEMMA TellNews ==
    ASSUME TalkInv, TalkInv', NEW k \in Keys, NEW status \in Statuses, Tell(k, status),
           ~Unread(k, status), UnreadOnce(k)
    PROVE  Unread(k, status)' /\ UnreadOnce(k)'
<1> DEFINE old == feedback[Strategy(k)]
           new == feedback'[Strategy(k)]
           m == Len(new)
<1>1. /\ m \in 1 .. FeedbackCap /\ new[m] = [key |-> k, status |-> status]
      /\ \E d \in {0, 1} : /\ Len(old) = m - 1 + d
                           /\ \A j \in 1 .. m - 1 : new[j] = old[j + d]
  BY TellAppends DEF TalkInv
<1>2. /\ old \in Seq(Update) /\ new \in Seq(Update)
      /\ DOMAIN old = 1 .. Len(old) /\ DOMAIN new = 1 .. m
  BY KeyTypes DEF TalkInv, FeedbackType
<1>3. m \in Nat /\ m >= 1 /\ Len(old) \in Nat /\ FeedbackCap \in Nat
  BY <1>1, <1>2, SimConfig DEF SimConfig
<1>4. PICK d \in {0, 1} : /\ Len(old) = m - 1 + d
                          /\ \A j \in 1 .. m - 1 : new[j] = old[j + d]
  BY <1>1
<1>5. \A j \in DOMAIN old : old[j].key = k => old[j].status # status
  BY DEF Unread
<1>6. Unread(k, status)' = (\E i \in DOMAIN new : new[i].key = k /\ new[i].status = status)
  BY DEF Unread
<1>7. UnreadOnce(k)' = (\A i, j \in DOMAIN new :
            new[i].key = k /\ new[j].key = k /\ new[i].status = new[j].status => i = j)
  BY DEF UnreadOnce
<1>8. \A i, j \in DOMAIN old :
            old[i].key = k /\ old[j].key = k /\ old[i].status = old[j].status => i = j
  BY DEF UnreadOnce
<1> HIDE DEF old, new, m
<1>9. m \in DOMAIN new /\ new[m].key = k /\ new[m].status = status
  BY <1>1, <1>2, <1>3
<1>10. ASSUME NEW i \in DOMAIN new, i # m
       PROVE  i \in Nat /\ i + d \in DOMAIN old /\ new[i] = old[i + d]
  <2>1. i \in 1 .. m - 1
    BY <1>2, <1>3, <1>10
  <2> QED
    BY <1>2, <1>3, <1>4, <2>1
<1>11. ASSUME NEW i \in DOMAIN new, NEW j \in DOMAIN new,
              new[i].key = k, new[j].key = k, new[i].status = new[j].status
       PROVE  i = j
  <2>1. CASE i = m \/ j = m
    <3>1. new[i].status = status
      BY <1>9, <1>11, <2>1
    <3> QED
      BY <1>5, <1>10, <1>11, <3>1
  <2>2. CASE i # m /\ j # m
    <3>1. i + d = j + d /\ i \in Nat /\ j \in Nat /\ d \in Nat
      BY <1>8, <1>10, <1>11, <2>2
    <3> QED
      BY <3>1
  <2> QED
    BY <2>1, <2>2
<1> QED
  BY <1>6, <1>7, <1>9, <1>11

LEMMA TellKnows ==
    ASSUME SimInv, Apart, TalkInv, TalkInv', RoomForNews, NEW i \in Keys,
           \A k \in Keys : Strategy(k) = Strategy(i) => OneAt(k) /\ KnowsAt(k),
           NEW a \in Actors, TellClosed(a) \/ (a = Run /\ TellOpen)
    PROVE  KnowsAt(i)'
<1> DEFINE k == job[a].key
<1>1. /\ k \in Keys /\ UNCHANGED <<kind, view, outbox, signals>>
      /\ TellClosed(a) => Tell(k, "closed")
      /\ TellOpen /\ a = Run => Tell(k, "open")
  BY TellSteps
<1>2. PICK status \in Statuses :
         /\ Tell(k, status)
         /\ status = "closed" => TellClosed(a)
         /\ status = "open" => TellOpen /\ a = Run
  BY <1>1 DEF Statuses
<1>3. /\ Works(a, k) /\ positions' = positions /\ job'[a].pc = "idle"
      /\ status = "closed" => /\ ~HasOpenPosition(positions, k)
                              /\ job[a].pc = "tell closed"
      /\ status = "open" => HasOpenPosition(positions, k) /\ job[a].pc = "tell open"
  <2>1. CASE status = "closed"
    BY <1>2, <2>1, CloseEffects DEF Close
  <2>2. CASE status = "open"
    BY <1>2, <2>2, EntryEffects
  <2> QED
    BY <2>1, <2>2 DEF Statuses
<1>4. ASSUME Strategy(k) = Strategy(i) PROVE ~Unread(k, status)
  <2>1. OneAt(k) /\ KnowsAt(k)
    BY <1>1, <1>4
  <2>2. ~Untouched(k)
    BY <1>3 DEF Untouched, Statuses
  <2>3. ~Unread(k, "closed")
    BY <2>1, <2>2, Zenon DEF OneAt, Still
  <2>4. status = "open" => Enters(k)
    BY <1>2, <1>3 DEF Enters
  <2>5. status = "open" => ~Unread(k, "open")
    BY <2>1, <2>4, Zenon DEF KnowsAt, News
  <2> QED
    BY <2>3, <2>5 DEF Statuses
<1>5. CASE i # k
  <2>1. Strategy(i) = Strategy(k) => \A j \in KeysOf(Strategy(k)) : UnreadOnce(j)
    BY DEF KeysOf, KnowsAt
  <2>2. NewsStay(i)
    BY <1>1, <1>2, <1>4, <1>5, <2>1, TellOther
  <2>3. SameWork(i) /\ (Enters(i)' <=> Enters(i))
    BY <1>3, <1>5, EntersElsewhere
  <2> QED
    BY <1>1, <2>2, <2>3, KnowsCalm
<1>6. CASE i = k
  <2>1. Unread(i, status)' /\ UnreadOnce(i)'
    BY <1>2, <1>4, <1>6, TellNews DEF KnowsAt
  <2>2. ~Enters(i)'
    <3>1. CASE a = Run
      BY <1>3, <3>1 DEF Enters
    <3>2. CASE a # Run
      <4>1. job[a].pc \notin {"pay", "enter", "count", "entered", "tell open"}
        BY <1>2, <1>3, <3>2 DEF Statuses
      <4> QED
        BY <1>3, <1>6, <4>1, ClosersAlone
    <3> QED
      BY <3>1, <3>2
  <2>3. CASE status = "closed"
    BY <1>3, <1>6, <2>1, <2>2, <2>3, Zenon DEF KnowsAt
  <2>4. CASE status = "open"
    BY <1>3, <1>6, <2>1, <2>2, <2>4, Zenon DEF KnowsAt
  <2> QED
    BY <2>3, <2>4 DEF Statuses
<1> QED
  BY <1>5, <1>6

LEMMA SnapshotKnows ==
    ASSUME SimInv, TalkInv, NEW i \in Keys, kind[Strategy(i)] = "sma", KnowsAt(i),
           NEW k \in Keys, NEW snap \in Snapshots(kind[Strategy(k)]), OnSnapshot(k, snap)
    PROVE  KnowsAt(i)'
<1>1. /\ view' = [view EXCEPT ![k] = Rule(kind[Strategy(k)], view[k], snap).state]
      /\ feedback' = feedback /\ job' = job /\ positions' = positions
  BY DEF OnSnapshot, executorVars
<1>2. /\ view = [j \in Keys |-> view[j]] /\ view[k] \in States(kind[Strategy(k)])
  BY DEF TalkInv, ViewType
<1>3. view'[i].hasPos = view[i].hasPos
  <2>1. CASE i = k
    <3>1. /\ Rule(kind[Strategy(k)], view[k], snap) = SmaRule(view[k], snap)
          /\ view[k] \in SmaStates /\ snap \in SmaSnapshots
      BY <1>2, <2>1 DEF Rule, States, Snapshots
    <3>2. SmaRule(view[k], snap).state.hasPos = view[k].hasPos
      BY <3>1, SmaRuleKeeps
    <3>3. view'[i] = SmaRule(view[k], snap).state
      BY <1>1, <1>2, <2>1, <3>1
    <3> QED
      BY <2>1, <3>2, <3>3
  <2>2. CASE i # k
    BY <1>1, <1>2, <2>2
  <2> QED
    BY <2>1, <2>2
<1>4. SameWork(i) /\ (Enters(i)' <=> Enters(i)) /\ NewsStay(i)
  BY <1>1, SameFeedbackStays DEF SameWork, Untouched, Enters
<1> QED
  BY <1>3, <1>4, KnowsCalm

LEMMA SendKnows ==
    ASSUME SimInv, TalkInv, NEW i \in Keys, kind[Strategy(i)] = "sma", KnowsAt(i),
           NEW s \in Strategies, SendSignal(s)
    PROVE  KnowsAt(i)'
<1> DEFINE k == outbox[s][1].key
           sig == outbox[s][1].sig
<1>1. /\ k \in Keys /\ Strategy(k) = s /\ sig \in Order
      /\ kind[s] = "sma" => SmaPriced(sig)
      /\ view[k] \in States(kind[s])
      /\ view' = [view EXCEPT ![k] = Sent(kind[s], view[k], sig)]
      /\ feedback' = feedback
  BY SendEffect
<1> HIDE DEF k, sig
<1>2. job' = job /\ positions' = positions
  BY DEF SendSignal, executorVars
<1>3. view = [j \in Keys |-> view[j]]
  BY DEF TalkInv, ViewType
<1>4. view'[i].hasPos = view[i].hasPos
  <2>1. CASE i = k
    <3>1. view[k] \in SmaStates /\ SmaPriced(sig) /\ view'[i] = SmaSent(view[k], sig)
      BY <1>1, <1>3, <2>1 DEF States, Sent
    <3>2. SmaSent(view[k], sig).hasPos = view[k].hasPos
      BY <1>1, <3>1, SmaSentType
    <3> QED
      BY <2>1, <3>1, <3>2
  <2>2. CASE i # k
    BY <1>1, <1>3, <2>2
  <2> QED
    BY <2>1, <2>2
<1>5. SameWork(i) /\ (Enters(i)' <=> Enters(i)) /\ NewsStay(i)
  BY <1>1, <1>2, SameFeedbackStays DEF SameWork, Untouched, Enters
<1> QED
  BY <1>4, <1>5, KnowsCalm

LEMMA FeedbackKnows ==
    ASSUME SimInv, TalkInv, TalkInv', NEW i \in Keys, kind[Strategy(i)] = "sma",
           OneAt(i), OneAt(i)', KnowsAt(i), NEW s \in Strategies, OnFeedback(s)
    PROVE  KnowsAt(i)'
<1> DEFINE k == feedback[s][1].key
           status == feedback[s][1].status
           old == feedback[s]
           new == feedback'[s]
           n == Len(old) - 1
<1>1. /\ k \in Keys /\ Strategy(k) = s /\ status \in Statuses
      /\ view[k] \in States(kind[s])
      /\ view' = [view EXCEPT ![k] = Told(kind[s], view[k], status)]
      /\ old # <<>> /\ feedback' = [feedback EXCEPT ![s] = Tail(old)]
  BY FeedbackEffect
<1>2. job' = job /\ positions' = positions
  BY DEF OnFeedback, executorVars
<1>3. /\ view = [j \in Keys |-> view[j]] /\ feedback[s] \in Seq(Update)
      /\ feedback \in [Strategies -> Seq(Update)] /\ FeedbackType /\ FeedbackType'
      /\ Strategy(i) \in Strategies
  BY KeyTypes DEF TalkInv, ViewType, FeedbackType
<1>4. SameWork(i) /\ (Enters(i)' <=> Enters(i)) /\ Fades(i)
  BY <1>2, ReadFades DEF SameWork, Untouched, Enters
<1>5. /\ n \in Nat /\ Len(new) = n /\ Len(old) = n + 1
      /\ DOMAIN new = 1 .. n /\ DOMAIN old = 1 .. n + 1
      /\ \A j \in 1 .. n : new[j] = old[j + 1]
  <2>1. new = Tail(old)
    BY <1>1, <1>3
  <2>2. /\ Len(Tail(old)) = Len(old) - 1 /\ Len(old) \in Nat /\ Tail(old) \in Seq(Update)
        /\ DOMAIN Tail(old) = 1 .. Len(old) - 1 /\ DOMAIN old = 1 .. Len(old)
        /\ \A j \in 1 .. Len(old) - 1 : Tail(old)[j] = old[j + 1]
    BY <1>1, <1>3, TailOf
  <2>3. Len(Tail(old)) \in Nat
    BY <2>2
  <2> HIDE DEF old, new
  <2> QED
    BY <2>1, <2>2, <2>3
<1>6. k = old[1].key /\ status = old[1].status
  OBVIOUS
<1> HIDE DEF k, status, n
<1>7. CASE Strategy(i) # s
  <2>1. NewsStay(i) /\ i # k
    BY <1>1, <1>3, <1>7, SameFeedbackStays
  <2>2. view'[i] = view[i]
    BY <1>1, <1>3, <2>1
  <2> QED
    BY <1>4, <2>1, <2>2, KnowsCalm
<1>8. CASE Strategy(i) = s /\ i # k
  <2>1. /\ n <= Len(new)
        /\ \A j \in 1 .. n : j + 1 <= Len(old) /\ new[j] = old[j + 1]
        /\ \A j \in DOMAIN new : j > n => new[j].key # i
        /\ \A j \in DOMAIN old : j <= 1 \/ j - 1 > n => old[j].key # i
    <3> HIDE DEF old, new
    <3>1. \A j \in DOMAIN old : j <= 1 \/ j - 1 > n => j = 1
      BY <1>5
    <3> QED
      BY <1>5, <1>6, <1>8, <3>1
  <2>2. NewsStay(i)
    BY <1>3, <1>5, <1>8, <2>1, NewsMove
  <2>3. view'[i] = view[i]
    BY <1>1, <1>3, <1>8
  <2> QED
    BY <1>4, <2>2, <2>3, KnowsCalm
<1>9. CASE i = k
  <2>1. Strategy(i) = s
    BY <1>1, <1>9
  <2>2. \A st : Unread(i, st) = (\E j \in DOMAIN old : old[j].key = i /\ old[j].status = st)
    BY <2>1 DEF Unread
  <2>3. \A st : Unread(i, st)' = (\E j \in DOMAIN new : new[j].key = i /\ new[j].status = st)
    BY <2>1 DEF Unread
  <2>4. \A j, m \in DOMAIN old :
            old[j].key = i /\ old[m].key = i /\ old[j].status = old[m].status => j = m
    BY <2>1, Zenon DEF KnowsAt, UnreadOnce
  <2>5. UnreadOnce(i)' = (\A j, m \in DOMAIN new :
            new[j].key = i /\ new[m].key = i /\ new[j].status = new[m].status => j = m)
    BY <2>1 DEF UnreadOnce
  <2>6. \A j, m \in DOMAIN old : old[j].key = i /\ old[m].key = i /\ old[j].status = "closed"
                                    => m <= j
    BY <2>1, Zenon DEF OneAt, ClosedIsLast
  <2>7. view[i] \in SmaStates /\ view'[i] = SmaTold(view[i], status)
    BY <1>1, <1>3, <1>9, <2>1 DEF States, Told
  <2>8. \A j \in DOMAIN new : j \in Nat /\ j + 1 \in DOMAIN old /\ new[j] = old[j + 1]
    <3> HIDE DEF old, new
    <3> QED
      BY <1>5
  <2> HIDE DEF old, new
  <2>9. UnreadOnce(i)'
    <3> SUFFICES ASSUME NEW j \in DOMAIN new, NEW m \in DOMAIN new, new[j].key = i,
                        new[m].key = i, new[j].status = new[m].status
                 PROVE  j = m
      BY <2>5
    <3>1. j + 1 = m + 1 /\ j \in Nat /\ m \in Nat
      BY <2>4, <2>8
    <3> QED
      BY <3>1
  <2>10. Unread(i, status)
    <3>1. 1 \in DOMAIN old
      BY <1>5
    <3> QED
      BY <1>6, <1>9, <2>2, <3>1
  <2>11. ~Enters(i) /\ ~Enters(i)'
    <3>1. News(i)
      BY <1>1, <2>10 DEF News, Statuses
    <3> QED
      BY <1>4, <3>1, Zenon DEF KnowsAt
  <2>12. CASE status = "open"
    <3>1. view'[i].hasPos
      BY <1>1, <2>7, <2>12, SmaToldType
    <3>2. Unread(i, "closed") => Unread(i, "closed")'
      <4> SUFFICES ASSUME NEW j \in DOMAIN old, old[j].key = i, old[j].status = "closed"
                   PROVE  \E m \in DOMAIN new : new[m].key = i /\ new[m].status = "closed"
        BY <2>2, <2>3
      <4>1. j # 1 /\ j \in 1 .. n + 1
        BY <1>5, <1>6, <2>12
      <4>2. j - 1 \in 1 .. n /\ (j - 1) + 1 = j
        BY <1>5, <4>1
      <4>3. j - 1 \in DOMAIN new /\ new[j - 1] = old[j]
        BY <1>5, <4>2
      <4> QED
        BY <4>3
    <3>3. Unread(i, "open")
      BY <2>10, <2>12
    <3>4. ~HasOpenPosition(positions', i) /\ Untouched(i)' => Unread(i, "closed")'
      BY <1>4, <3>2, <3>3, Zenon DEF KnowsAt, SameWork
    <3> QED
      BY <2>9, <2>11, <3>1, <3>4, Zenon DEF KnowsAt
  <2>13. CASE status = "closed"
    <3>1. ~HasOpenPosition(positions', i)
      BY <1>4, <2>10, <2>13, Zenon DEF OneAt, Still, SameWork
    <3>2. ~view'[i].hasPos
      BY <1>1, <2>7, <2>13, SmaToldType
    <3>3. ~Unread(i, "open")'
      <4> SUFFICES ASSUME NEW j \in DOMAIN new, new[j].key = i PROVE FALSE
        BY <2>3
      <4>1. 1 \in DOMAIN old
        BY <1>5
      <4>2. j + 1 <= 1 /\ j \in Nat /\ j >= 1
        <5>1. j + 1 \in DOMAIN old /\ old[j + 1].key = i /\ j \in 1 .. n
          BY <1>5, <2>8
        <5>2. j + 1 <= 1
          BY <1>6, <1>9, <2>6, <2>13, <4>1, <5>1
        <5> QED
          BY <1>5, <5>1, <5>2
      <4> QED
        BY <4>2
    <3> QED
      BY <2>9, <2>11, <3>1, <3>2, <3>3, Zenon DEF KnowsAt
  <2> QED
    BY <1>1, <2>12, <2>13 DEF Statuses
<1> QED
  BY <1>7, <1>8, <1>9

LEMMA KnowsStep ==
    ASSUME SimInv, Apart, TalkInv, TalkInv', ~overlap', OneInv, OneInv', KnowsInv, RoomForNews,
           [SimNext]_simVars
    PROVE  KnowsInv'
<1>1. ~overlap /\ kind' = kind
  BY ApartStep, KindStays
<1> SUFFICES ASSUME NEW i \in Keys, kind[Strategy(i)] = "sma" PROVE KnowsAt(i)'
  BY <1>1 DEF KnowsInv
<1>2. /\ \A k \in Keys : Strategy(k) = Strategy(i) => OneAt(k) /\ KnowsAt(k)
      /\ OneAt(i)'
  BY <1>1 DEF KnowsInv, OneInv
<1>3. ASSUME NEW k \in Keys, NEW snap \in Snapshots(kind[Strategy(k)]), OnSnapshot(k, snap)
      PROVE  KnowsAt(i)'
  BY <1>2, <1>3, SnapshotKnows
<1>4. ASSUME NEW s \in Strategies, SendSignal(s) \/ OnFeedback(s) PROVE KnowsAt(i)'
  BY <1>2, <1>4, SendKnows, FeedbackKnows
<1>5. ASSUME NEW a \in Actors, TellClosed(a) \/ (a = Run /\ TellOpen) PROVE KnowsAt(i)'
  BY <1>2, <1>5, TellKnows
<1>6. Run \in Actors
  BY DEF Actors
<1>7. ASSUME ~TellOpen, \A a \in Actors : ~TellClosed(a), UNCHANGED <<view, feedback>>
      PROVE  KnowsAt(i)'
  <2>1. view'[i].hasPos = view[i].hasPos /\ NewsStay(i)
    BY <1>7, SameFeedbackStays
  <2> QED
    BY <1>2, <1>7, <2>1, WorkKnows
<1>8. UNCHANGED talkVars => UNCHANGED <<view, feedback>>
  BY DEF talkVars
<1> QED
  BY <1>3, <1>4, <1>5, <1>6, <1>7, <1>8, TalkKinds

LEMMA KnowsInit == SimInit => KnowsInv
<1> SUFFICES ASSUME SimInit, NEW k \in Keys, kind[Strategy(k)] = "sma" PROVE KnowsAt(k)
  BY DEF KnowsInv
<1>1. /\ feedback[Strategy(k)] = <<>> /\ positions[k] = NoPosition
      /\ view[k] = Start(kind[Strategy(k)]) /\ job[Run] = Waiting
  BY KeyTypes DEF SimInit, Actors
<1>2. ~Unread(k, "open") /\ ~Unread(k, "closed") /\ UnreadOnce(k)
  BY <1>1 DEF Unread, UnreadOnce
<1>3. ~HasOpenPosition(positions, k) /\ ~Enters(k)
  BY <1>1, WaitingIsIdle DEF HasOpenPosition, Enters
<1>4. ~view[k].hasPos
  BY <1>1 DEF Start, SmaStart
<1> QED
  BY <1>2, <1>3, <1>4, Zenon DEF KnowsAt

(* An SMA strategy with nothing in flight knows whether it has a position, *)
(* whoever closed it, with any number of closers, unless two goroutines    *)
(* have worked on one position.  The strategy trades one market, as in a   *)
(* backtest with its channel of capacity 1, or the channel has room for    *)
(* two updates per market.  Else updates are lost.                         *)
THEOREM SimKnowsItsPosition ==
    ASSUME RoomForNews PROVE SimSpec => []KnowsItsPosition
<1>1. SimInv /\ MoneyInv /\ TalkInv /\ TalkInv' /\ OneInv /\ OneInv' /\ KnowsInv
      /\ [SimNext]_simVars => KnowsInv'
  <2> SUFFICES ASSUME SimInv, MoneyInv, TalkInv, TalkInv', OneInv, OneInv', KnowsInv,
                      [SimNext]_simVars, ~overlap'
               PROVE  KnowsInv'
    BY DEF KnowsInv
  <2>1. ~overlap
    BY OverlapStays
  <2> QED
    BY <2>1, KnowsStep DEF MoneyInv
<1>2. TalkInv /\ KnowsInv => KnowsItsPosition
  <2> SUFFICES ASSUME TalkInv, KnowsInv, ~overlap, NEW k \in Keys,
                      kind[Strategy(k)] = "sma", ~Settling(k)
               PROVE  view[k].hasPos = HasOpenPosition(positions, k)
    BY DEF KnowsItsPosition
  <2>1. KnowsAt(k) /\ feedback[Strategy(k)] = <<>> /\ Untouched(k) /\ Run \in Actors
    BY DEF KnowsInv, Settling, Untouched, Actors
  <2>2. ~Unread(k, "open") /\ ~Unread(k, "closed") /\ ~Enters(k)
    <3>1. ~Unread(k, "open") /\ ~Unread(k, "closed")
      BY <2>1 DEF Unread
    <3>2. ~Enters(k)
      BY <2>1, Zenon DEF Untouched, Enters
    <3> QED
      BY <3>1, <3>2
  <2>3. view[k].hasPos <=> HasOpenPosition(positions, k)
    BY <2>1, <2>2, Zenon DEF KnowsAt
  <2>4. view[k].hasPos \in BOOLEAN /\ HasOpenPosition(positions, k) \in BOOLEAN
    <3>1. view[k] \in SmaStates
      BY DEF TalkInv, ViewType, States
    <3> QED
      BY <3>1 DEF SmaStates, HasOpenPosition
  <2> QED
    BY <2>3, <2>4
<1> QED
  BY <1>1, <1>2, KnowsInit, InvHolds, MoneyHolds, TalkHolds, OneHolds, PTL DEF SimSpec
=============================================================================
