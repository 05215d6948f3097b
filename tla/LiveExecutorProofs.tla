------------------------- MODULE LiveExecutorProofs -------------------------
(***************************************************************************)
(* The live executor implements RiskGate, for every configuration, number  *)
(* of orders, goroutine and fault.  RiskGate's own bounds on profits and   *)
(* peaks are taken away first (Unbounded).  Types, and that the exchange   *)
(* never has orders for more than there is.  Across restarts: live orders  *)
(* have owners.                                                            *)
(***************************************************************************)
EXTENDS LiveRestart, Sums

Unbounded ==
    /\ CloseSizes = Nat /\ PnLs = Int
    /\ PnLRange = Int /\ PeakRange = Nat

Position == [status : {"open", "closed"}, entryPrice : Nat, size : Nat,
             order : Nat \cup {NoOrder}]

Order == [key : Keys, close : BOOLEAN, price : Nat, size : Nat, filled : Nat,
          state : {"live", "filled", "cancelled"}]

ExecState ==
    {IdleExec} \cup [pc : {"submit"}, key : Keys, size : Sizes]
    \cup [pc : {"posted", "opened"}, key : Keys, size : Sizes, order : Nat]

CloserState ==
    {IdleCloser} \cup [pc : {"loop"}, todo : SUBSET Keys]
    \cup [pc : {"post", "repost"}, todo : SUBSET Keys, key : Keys, size : Nat, sell : Nat]
    \cup [pc : {"record"}, todo : SUBSET Keys, key : Keys, size : Nat, pnl : Int]

MonitorState ==
    {Unmonitored, Done} \cup [pc : {"polling"}, ctx : Closers \cup {"cancelled"}]
    \cup [pc : {"cancel"}, filled : Nat]
    \cup [pc : {"record"}, size : Nat, pnl : Int]

LedgerType == positions \in [Keys -> {NoPosition} \cup Position]
BookType == book \in Seq(Order)
TokensType == tokens \in [Keys -> Int]
ExecType ==
    /\ exec \in ExecState
    /\ exec.pc \in {"posted", "opened"} => exec.order \in OrderIDs /\ ~book[exec.order].close
CloserType == closer \in [Closers -> CloserState]
MonitorType == monitors \in Seq(MonitorState) /\ Len(monitors) = Len(book)

(* A key once in the ledger stays there; whoever closes one found it there. *)
Known(k) == positions[k] \in Position
Knows(ps, v) ==
    /\ v.pc # "idle" => \A k \in v.todo : ps[k] \in Position
    /\ v.pc \in {"post", "repost", "record"} => ps[v.key] \in Position
ClosersKnow == \A c \in Closers : Knows(positions, closer[c])
OrdersKnown ==
    \A o \in OrderIDs : book[o].close /\ monitors[o].pc = "polling" => Known(book[o].key)

StateInv ==
    /\ LedgerType /\ BookType /\ TokensType /\ ExecType /\ CloserType /\ MonitorType
    /\ ClosersKnow /\ OrdersKnown

LiveInv == RiskTypeOK /\ StateInv
----------------------------------------------------------------------------
LEMMA ProductIsNat == ASSUME NEW a \in Nat, NEW b \in Nat PROVE a * b \in Nat
  OBVIOUS

LEMMA OrderTypes ==
    ASSUME BookType, NEW o \in OrderIDs
    PROVE  /\ book[o] \in Order /\ book[o].key \in Keys /\ book[o].filled \in Nat
           /\ book[o].price \in Nat /\ book[o].size \in Nat /\ book[o].close \in BOOLEAN
           /\ o \in Nat /\ o \in 1 .. Len(book)
<1>1. book[o] \in Order /\ o \in 1 .. Len(book)
  BY DEF BookType, OrderIDs
<1> QED
  BY <1>1 DEF Order

LEMMA MonitorTypes ==
    ASSUME BookType, MonitorType, NEW o \in OrderIDs
    PROVE  /\ o \in 1 .. Len(monitors) /\ monitors[o] \in MonitorState
           /\ monitors[o].pc = "cancel" => monitors[o].filled \in Nat
           /\ monitors[o].pc = "record" => monitors[o].size \in Nat /\ monitors[o].pnl \in Int
<1>1. o \in 1 .. Len(monitors)
  BY OrderTypes DEF MonitorType
<1>2. monitors[o] \in MonitorState
  BY <1>1 DEF MonitorType
<1> QED
  BY <1>1, <1>2 DEF MonitorState, Unmonitored, Done

LEMMA CloserTypes ==
    ASSUME CloserType, NEW c \in Closers
    PROVE  /\ closer[c] \in CloserState
           /\ closer[c].pc # "idle" => closer[c].todo \subseteq Keys
           /\ closer[c].pc \in {"post", "repost", "record"} =>
                 closer[c].key \in Keys /\ closer[c].size \in Nat
           /\ closer[c].pc \in {"post", "repost"} => closer[c].sell \in Nat
           /\ closer[c].pc = "record" => closer[c].pnl \in Int
<1>1. closer[c] \in CloserState
  BY DEF CloserType
<1> QED
  BY <1>1 DEF CloserState, IdleCloser

LEMMA ExecTypes ==
    ASSUME BookType, ExecType, exec.pc # "idle"
    PROVE  /\ exec.key \in Keys /\ exec.size \in Sizes /\ exec.size \in Nat
           /\ exec.pc \in {"submit", "posted", "opened"}
           /\ exec.pc \in {"posted", "opened"} =>
                 /\ exec.order \in OrderIDs
                 /\ exec \in [pc : {"posted", "opened"}, key : Keys, size : Sizes, order : Nat]
<1>1. /\ exec \in ExecState /\ Sizes \subseteq Nat
      /\ exec.pc \in {"posted", "opened"} => exec.order \in OrderIDs
  BY LiveConfig DEF LiveConfig, ExecType
<1>2. CASE exec \in [pc : {"submit"}, key : Keys, size : Sizes]
  BY <1>1, <1>2
<1>3. CASE exec \in [pc : {"posted", "opened"}, key : Keys, size : Sizes, order : Nat]
  BY <1>1, <1>3
<1> QED
  BY <1>1, <1>2, <1>3 DEF ExecState, IdleExec

(* The ledger's methods keep types and never forget a key.                 *)
LEMMA LedgerMethods ==
    ASSUME NEW ps \in [Keys -> {NoPosition} \cup Position], NEW k \in Keys
    PROVE  /\ ClosePosition(ps, k) \in [Keys -> {NoPosition} \cup Position]
           /\ \A j \in Keys : ps[j] \in Position => ClosePosition(ps, k)[j] \in Position
           /\ \A n \in Nat :
                 /\ UpdatePositionSize(ps, k, n) \in [Keys -> {NoPosition} \cup Position]
                 /\ \A j \in Keys :
                       ps[j] \in Position => UpdatePositionSize(ps, k, n)[j] \in Position
           /\ \A pos \in Position :
                 /\ OpenPosition(ps, k, pos) \in [Keys -> {NoPosition} \cup Position]
                 /\ \A j \in Keys :
                       ps[j] \in Position => OpenPosition(ps, k, pos)[j] \in Position
<1>1. ps[k] # NoPosition => ps[k] \in Position
  OBVIOUS
<1>2. ASSUME ps[k] \in Position
      PROVE  /\ [ps[k] EXCEPT !.status = "closed", !.order = NoOrder] \in Position
             /\ \A n \in Nat : [ps[k] EXCEPT !.size = n] \in Position
  BY <1>2 DEF Position
<1> HIDE DEF Position
<1>3. /\ ClosePosition(ps, k) \in [Keys -> {NoPosition} \cup Position]
      /\ \A j \in Keys : ps[j] \in Position => ClosePosition(ps, k)[j] \in Position
  <2>1. ClosePosition(ps, k) =
           IF ps[k] = NoPosition THEN ps
           ELSE [ps EXCEPT ![k] = [ps[k] EXCEPT !.status = "closed", !.order = NoOrder]]
    BY DEF ClosePosition
  <2> QED
    BY <1>1, <1>2, <2>1
<1>4. ASSUME NEW n \in Nat
      PROVE  /\ UpdatePositionSize(ps, k, n) \in [Keys -> {NoPosition} \cup Position]
             /\ \A j \in Keys :
                   ps[j] \in Position => UpdatePositionSize(ps, k, n)[j] \in Position
  <2>1. UpdatePositionSize(ps, k, n) =
           IF ps[k] = NoPosition THEN ps
           ELSE [ps EXCEPT ![k] = [ps[k] EXCEPT !.size = n]]
    BY DEF UpdatePositionSize
  <2> QED
    BY <1>1, <1>2, <2>1
<1>5. ASSUME NEW pos \in Position
      PROVE  /\ OpenPosition(ps, k, pos) \in [Keys -> {NoPosition} \cup Position]
             /\ \A j \in Keys : ps[j] \in Position => OpenPosition(ps, k, pos)[j] \in Position
  BY DEF OpenPosition
<1> QED
  BY <1>3, <1>4, <1>5

LEMMA InitInv == LiveInit => LiveInv
<1> SUFFICES ASSUME LiveInit PROVE LiveInv
  OBVIOUS
<1>1. RiskTypeOK
  <2>1. halted \in BOOLEAN
    BY DEF LiveInit, RiskInit
  <2>2. CountersOK
    BY RiskConfig DEF RiskConfig, LiveInit, RiskInit, CountersOK
  <2> QED
    BY <2>1, <2>2 DEF RiskTypeOK
<1>2. LedgerType /\ TokensType
  BY DEF LiveInit, LedgerType, TokensType
<1>3. book = <<>> /\ monitors = <<>> /\ Len(book) = 0 /\ OrderIDs = {}
  BY DEF LiveInit, OrderIDs
<1>4. BookType /\ MonitorType /\ OrdersKnown
  BY <1>3 DEF BookType, MonitorType, OrdersKnown
<1>5. ExecType
  BY DEF LiveInit, ExecType, ExecState, IdleExec
<1>6. CloserType /\ ClosersKnow
  BY DEF LiveInit, CloserType, CloserState, ClosersKnow, Knows, IdleCloser
<1> QED
  BY <1>1, <1>2, <1>4, <1>5, <1>6 DEF LiveInv, StateInv
----------------------------------------------------------------------------
(* The ledger.  Every step leaves it alone or calls its methods.           *)
Forgetless == \A k \in Keys : Known(k) => Known(k)'

LEMMA CloserLedgerStep ==
    ASSUME StateInv, NEW c \in Closers, CloserStep(c)
    PROVE  LedgerType' /\ Forgetless
<1> DEFINE k == closer[c].key
<1>1. /\ positions \in [Keys -> {NoPosition} \cup Position]
      /\ CloserType /\ tokens \in [Keys -> Int]
  BY DEF StateInv, LedgerType, TokensType
<1>2. ASSUME CloseShort(c) PROVE LedgerType' /\ Forgetless
  <2>1. k \in Keys
    BY <1>1, <1>2, CloserTypes DEF CloseShort
  <2>2. /\ tokens[k] > 0
        /\ \/ positions' = UpdatePositionSize(positions, k, tokens[k])
           \/ positions' = ClosePosition(UpdatePositionSize(positions, k, tokens[k]), k)
    BY <1>2 DEF CloseShort, ForceClose
  <2>3. tokens[k] \in Nat
    BY <1>1, <2>1, <2>2
  <2>4. UpdatePositionSize(positions, k, tokens[k]) \in [Keys -> {NoPosition} \cup Position]
    BY <1>1, <2>1, <2>3, LedgerMethods
  <2> QED
    BY <1>1, <2>1, <2>2, <2>3, <2>4, LedgerMethods DEF LedgerType, Forgetless, Known
<1>3. ASSUME CloseResolved(c) PROVE LedgerType' /\ Forgetless
  <2>1. k \in Keys /\ positions' = ClosePosition(positions, k)
    BY <1>1, <1>3, CloserTypes DEF CloseResolved, Posting, ForceClose
  <2> QED
    BY <1>1, <2>1, LedgerMethods DEF LedgerType, Forgetless, Known
<1>4. ASSUME UNCHANGED positions PROVE LedgerType' /\ Forgetless
  BY <1>1, <1>4 DEF LedgerType, Forgetless, Known
<1> QED
  BY <1>2, <1>3, <1>4, Zenon
     DEF CloserStep, TakePosition, Finish, CloseAccepted, RecordForcedClose, CloseFails

LEMMA MonitorLedgerStep ==
    ASSUME StateInv, NEW o \in OrderIDs, MonitorPoll(o) \/ MonitorEnd(o)
    PROVE  LedgerType' /\ Forgetless
<1> DEFINE k == book[o].key
<1>1. positions \in [Keys -> {NoPosition} \cup Position] /\ k \in Keys /\ book[o].filled \in Nat
  BY OrderTypes DEF StateInv, LedgerType
<1>2. monitors[o].pc = "cancel" => monitors[o].filled \in Nat
  BY MonitorTypes DEF StateInv
<1>3. PICK n \in Nat :
         \/ UNCHANGED positions
         \/ positions' = ClosePosition(positions, k)
         \/ positions' = UpdatePositionSize(positions, k, n)
  <2>1. ASSUME MonitorPoll(o)
        PROVE  \/ UNCHANGED positions
               \/ positions' = ClosePosition(positions, k)
               \/ \E n \in ReportedFills(o) : positions' = UpdatePositionSize(positions, k, n)
    <3>1. book[o].filled \in ReportedFills(o)
      BY DEF ReportedFills
    <3> QED
      BY <2>1, <3>1, Zenon DEF MonitorPoll, MonitorEntryFilled, MonitorCloseFilled,
                  MonitorCancelled, MonitorPartialKeep, MonitorPartialSeen
  <2>2. ASSUME MonitorCtxDone(o) \/ MonitorTimeout(o) \/ MonitorRecordClose(o)
        PROVE  UNCHANGED positions \/ positions' = ClosePosition(positions, k)
    BY <2>2, Zenon DEF MonitorCtxDone, MonitorTimeout, MonitorRecordClose
  <2>3. ASSUME MonitorPartialCancel(o)
        PROVE  \/ positions' = ClosePosition(positions, k)
               \/ /\ positions' = UpdatePositionSize(positions, k, monitors[o].filled)
                  /\ monitors[o].filled \in Nat
    BY <1>2, <2>3, Zenon DEF MonitorPartialCancel
  <2>4. ReportedFills(o) \subseteq Nat
    BY <1>1 DEF ReportedFills
  <2> QED
    BY <2>1, <2>2, <2>3, <2>4 DEF MonitorEnd
<1> QED
  BY <1>1, <1>3, LedgerMethods DEF LedgerType, Forgetless, Known

LEMMA LedgerStep ==
    ASSUME StateInv, [LiveNext]_liveVars
    PROVE  LedgerType' /\ Forgetless
<1>1. positions \in [Keys -> {NoPosition} \cup Position]
  BY DEF StateInv, LedgerType
<1>2. ASSUME OpenEntry PROVE LedgerType' /\ Forgetless
  <2> DEFINE pos == PositionOf(book[exec.order].price, book[exec.order].size, exec.order)
  <2>1. exec.order \in OrderIDs /\ exec.key \in Keys
    BY <1>2, ExecTypes DEF StateInv, OpenEntry
  <2>2. pos \in Position
    BY <2>1, OrderTypes DEF StateInv, Position, PositionOf
  <2>3. positions' = OpenPosition(positions, exec.key, pos)
    BY <1>2 DEF OpenEntry
  <2> HIDE DEF pos
  <2> QED
    BY <1>1, <2>1, <2>2, <2>3, LedgerMethods DEF LedgerType, Forgetless, Known
<1>3. ASSUME UNCHANGED positions PROVE LedgerType' /\ Forgetless
  BY <1>1, <1>3 DEF LedgerType, Forgetless, Known
<1> QED
  BY <1>2, <1>3, CloserLedgerStep, MonitorLedgerStep, Zenon
     DEF LiveNext, liveVars, Signals, AdmitEntry, RefuseEntry, CloseSignal, CloseSignalUnknown,
         EntryStep, PostEntry, FailEntry, RecordEntry, StartHaltClose, StartTeardown,
         RefreshBalance, Exchange, ExchangeCancels, Match, Resolve, ResumeTrading, Midnight
----------------------------------------------------------------------------
(* The exchange's book grows, and an order keeps its key and its side.     *)
BookGrows ==
    /\ Len(book) <= Len(book')
    /\ \A o \in OrderIDs : /\ o \in OrderIDs' /\ book'[o].key = book[o].key
                           /\ book'[o].close = book[o].close
    /\ \A o \in OrderIDs' \ OrderIDs :
          /\ o = Len(book) + 1 /\ book' = Append(book, book'[o])

Posted ==
    \/ \E p \in Prices : PostEntry(p)
    \/ \E c \in Closers, p \in Prices : CloseAccepted(c, p)

LEMMA SameBook ==
    ASSUME BookType, UNCHANGED book PROVE BookType' /\ BookGrows /\ Len(book') = Len(book)
  BY DEF BookType, BookGrows, OrderIDs

(* Orders change in place.                                                 *)
LEMMA BookInPlace ==
    ASSUME BookType, DOMAIN book' = OrderIDs, book' = [o \in OrderIDs |-> book'[o]],
           \A o \in OrderIDs : /\ book'[o] \in Order
                               /\ book'[o].key = book[o].key
                               /\ book'[o].close = book[o].close
    PROVE  BookType' /\ BookGrows /\ Len(book') = Len(book)
<1>1. OrderIDs = 1 .. Len(book) /\ Len(book) \in Nat
  BY DEF BookType, OrderIDs
<1>2. book' \in [1 .. Len(book) -> Order]
  BY <1>1
<1>3. book' \in Seq(Order) /\ Len(book') = Len(book)
  BY <1>1, <1>2
<1>4. OrderIDs' = OrderIDs
  BY DEF OrderIDs
<1>5. BookType'
  BY <1>3 DEF BookType
<1>6. Len(book) <= Len(book')
  BY <1>1, <1>3
<1> QED
  BY <1>3, <1>4, <1>5, <1>6, Zenon DEF BookGrows

LEMMA BookCancel ==
    ASSUME BookType, NEW o \in OrderIDs,
           book' = [book EXCEPT ![o].state = "cancelled"]
    PROVE  BookType' /\ BookGrows /\ Len(book') = Len(book)
<1>1. book[o] \in Order /\ OrderIDs = 1 .. Len(book) /\ Len(book) \in Nat
  BY OrderTypes DEF BookType, OrderIDs
<1>2. [book[o] EXCEPT !.state = "cancelled"] \in Order
  BY <1>1 DEF Order
<1>3. \A i \in OrderIDs : book'[i] = IF i = o THEN [book[o] EXCEPT !.state = "cancelled"] ELSE book[i]
  BY <1>1 DEF BookType
<1>4. DOMAIN book' = OrderIDs /\ book' = [i \in OrderIDs |-> book'[i]]
  BY <1>1 DEF OrderIDs
<1>5. \A i \in OrderIDs : /\ book'[i] \in Order /\ book'[i].key = book[i].key
                          /\ book'[i].close = book[i].close
  BY <1>1, <1>2, <1>3, OrderTypes DEF Order
<1> QED
  BY <1>4, <1>5, BookInPlace

LEMMA BookAccept ==
    ASSUME BookType, NEW order \in Order, Accept(order)
    PROVE  BookType' /\ BookGrows /\ Len(book') = Len(book) + 1 /\ book'[Len(book')] = order
<1>1. book' = Append(book, order) /\ book \in Seq(Order)
  BY DEF Accept, BookType
<1>2. /\ book' \in Seq(Order) /\ Len(book) \in Nat /\ Len(book') = Len(book) + 1
      /\ \A o \in 1 .. Len(book) : book'[o] = book[o]
      /\ book'[Len(book) + 1] = order
  BY <1>1
<1>3. OrderIDs = 1 .. Len(book) /\ OrderIDs' = 1 .. Len(book) + 1
  BY <1>2 DEF BookType, OrderIDs
<1> QED
  BY <1>1, <1>2, <1>3 DEF BookType, BookGrows

(* The orders that are sent, of an entry and of a close.                   *)
LEMMA EntryOrder ==
    ASSUME StateInv, NEW p \in Prices, PostEntry(p)
    PROVE  \E order \in Order : Accept(order) /\ ~order.close
<1> DEFINE contracts == Larger(exec.size \div p, MinContracts)
<1>1. exec.key \in Keys /\ exec.size \in Nat /\ p \in Nat /\ p > 0 /\ MinContracts \in Nat
  BY ExecTypes, LiveConfig DEF StateInv, PostEntry, LiveConfig
<1>2. contracts \in Nat
  BY <1>1 DEF Larger
<1> DEFINE order == NewOrder(exec.key, FALSE, p, contracts)
<1>3. Accept(order)
  BY DEF PostEntry
<1> HIDE DEF contracts
<1>4. order \in Order /\ ~order.close
  BY <1>1, <1>2 DEF NewOrder, Order
<1> QED
  BY <1>3, <1>4

LEMMA CloseOrder ==
    ASSUME StateInv, NEW c \in Closers, NEW p \in Prices, CloseAccepted(c, p)
    PROVE  \E order \in Order : Accept(order) /\ order.key = closer[c].key
<1> DEFINE order == NewOrder(closer[c].key, TRUE, p, closer[c].sell)
<1>1. closer[c].key \in Keys /\ closer[c].sell \in Nat /\ p \in Nat
  BY CloserTypes, LiveConfig DEF StateInv, CloseAccepted, Posting, LiveConfig
<1>2. order \in Order /\ order.key = closer[c].key
  BY <1>1 DEF NewOrder, Order
<1> QED
  BY <1>2 DEF CloseAccepted

LEMMA BookStep ==
    ASSUME StateInv, [LiveNext]_liveVars
    PROVE  BookType' /\ BookGrows /\ (Len(book') = Len(book) \/ Posted)
<1>1. BookType
  BY DEF StateInv
<1>2. ASSUME NEW p \in Prices, PostEntry(p) PROVE BookType' /\ BookGrows
  BY <1>1, <1>2, EntryOrder, BookAccept
<1>3. ASSUME NEW c \in Closers, NEW p \in Prices, CloseAccepted(c, p) PROVE BookType' /\ BookGrows
  BY <1>1, <1>3, CloseOrder, BookAccept
<1>4. ASSUME NEW o \in OrderIDs, NEW n \in 1 .. book[o].size, Match(o, n)
      PROVE  BookType' /\ BookGrows /\ Len(book') = Len(book)
  <2>1. /\ book[o] \in Order /\ OrderIDs = 1 .. Len(book) /\ Len(book) \in Nat
        /\ book[o].filled \in Nat /\ book[o].size \in Nat
    BY <1>1, OrderTypes DEF BookType, OrderIDs
  <2>2. PICK s \in {"filled", book[o].state} :
           book' = [book EXCEPT ![o].filled = book[o].filled + n, ![o].state = s]
    BY <1>4 DEF Match
  <2>3. s \in {"live", "filled", "cancelled"}
    BY <2>1, <2>2 DEF Order
  <2> DEFINE r == [book[o] EXCEPT !.filled = book[o].filled + n, !.state = s]
  <2>4. r \in Order /\ r.key = book[o].key /\ r.close = book[o].close
    <3>1. book[o].filled + n \in Nat
      BY <2>1
    <3> QED
      BY <2>1, <2>3, <3>1 DEF Order
  <2> HIDE DEF r
  <2>5. book' = [book EXCEPT ![o] = r]
    BY <2>1, <2>2 DEF r, BookType, Order
  <2>6. DOMAIN book' = OrderIDs /\ book' = [i \in OrderIDs |-> book'[i]]
    BY <2>5 DEF OrderIDs
  <2>7. \A i \in OrderIDs : /\ book'[i] \in Order /\ book'[i].key = book[i].key
                            /\ book'[i].close = book[i].close
    BY <1>1, <2>4, <2>5, OrderTypes DEF OrderIDs
  <2> QED
    BY <1>1, <2>6, <2>7, BookInPlace
<1>5. ASSUME NEW m \in Markets, Resolve(m) PROVE BookType' /\ BookGrows /\ Len(book') = Len(book)
  <2>1. book' = [o \in OrderIDs |->
                    IF Live(o) /\ Market(book[o].key) = m
                    THEN [book[o] EXCEPT !.state = "cancelled"] ELSE book[o]]
    BY <1>5 DEF Resolve
  <2>2. \A o \in OrderIDs :
           /\ book[o] \in Order /\ [book[o] EXCEPT !.state = "cancelled"] \in Order
           /\ [book[o] EXCEPT !.state = "cancelled"].key = book[o].key
           /\ [book[o] EXCEPT !.state = "cancelled"].close = book[o].close
    BY <1>1, OrderTypes DEF Order
  <2>3. DOMAIN book' = OrderIDs /\ book' = [o \in OrderIDs |-> book'[o]]
    BY <2>1
  <2>4. \A o \in OrderIDs : /\ book'[o] \in Order /\ book'[o].key = book[o].key
                            /\ book'[o].close = book[o].close
    BY <2>1, <2>2
  <2> QED
    BY <1>1, <2>3, <2>4, BookInPlace
<1>6. ASSUME NEW o \in OrderIDs, CancelOrder(o) \/ ExchangeCancels(o)
      PROVE  BookType' /\ BookGrows /\ Len(book') = Len(book)
  <2>1. UNCHANGED book \/ book' = [book EXCEPT ![o].state = "cancelled"]
    BY <1>6 DEF CancelOrder, ExchangeCancels
  <2> QED
    BY <1>1, <2>1, SameBook, BookCancel
<1>7. ASSUME UNCHANGED book PROVE BookType' /\ BookGrows /\ Len(book') = Len(book)
  BY <1>1, <1>7, SameBook
<1> QED
  BY <1>2, <1>3, <1>4, <1>5, <1>6, <1>7, Zenon
     DEF Posted, LiveNext, liveVars, exchangeVars, Signals, AdmitEntry, RefuseEntry, CloseSignal,
         CloseSignalUnknown, EntryStep, FailEntry, OpenEntry, RecordEntry, StartHaltClose,
         StartTeardown, CloserStep, TakePosition, Finish, CloseShort, CloseResolved,
         RecordForcedClose, CloseFails, MonitorPoll, MonitorEnd, MonitorEntryFilled,
         MonitorCloseFilled, MonitorCancelled, MonitorPartialKeep, MonitorPartialSeen,
         MonitorCtxDone, MonitorTimeout, MonitorPartialCancel, MonitorRecordClose,
         RefreshBalance, Exchange, ResumeTrading, Midnight
----------------------------------------------------------------------------
LEMMA TokensStep ==
    ASSUME StateInv, [LiveNext]_liveVars
    PROVE  TokensType'
<1>1. tokens \in [Keys -> Int]
  BY DEF StateInv, TokensType
<1>2. ASSUME NEW o \in OrderIDs, NEW n \in 1 .. book[o].size, Match(o, n) PROVE TokensType'
  <2>1. book[o].key \in Keys /\ n \in Int
    BY OrderTypes DEF StateInv
  <2>2. \/ tokens' = [tokens EXCEPT ![book[o].key] = tokens[book[o].key] - n]
        \/ tokens' = [tokens EXCEPT ![book[o].key] = tokens[book[o].key] + n]
    BY <1>2 DEF Match
  <2> QED
    BY <1>1, <2>1, <2>2 DEF TokensType
<1>3. ASSUME UNCHANGED tokens PROVE TokensType'
  BY <1>1, <1>3 DEF TokensType
<1> QED
  BY <1>2, <1>3, Zenon
     DEF LiveNext, liveVars, exchangeVars, Signals, AdmitEntry, RefuseEntry, CloseSignal,
         CloseSignalUnknown, EntryStep, PostEntry, FailEntry, OpenEntry, RecordEntry,
         StartHaltClose, StartTeardown, CloserStep, TakePosition, Finish, CloseAccepted,
         CloseShort, CloseResolved, RecordForcedClose, CloseFails, MonitorPoll, MonitorEnd,
         MonitorEntryFilled, MonitorCloseFilled, MonitorCancelled, MonitorPartialKeep,
         MonitorPartialSeen, MonitorCtxDone, MonitorTimeout, MonitorPartialCancel,
         MonitorRecordClose, RefreshBalance, Exchange, ExchangeCancels, Resolve,
         ResumeTrading, Midnight

(* The Run loop's entry.                                                   *)
LEMMA ExecStep ==
    ASSUME StateInv, [LiveNext]_liveVars
    PROVE  ExecType'
<1>1. /\ exec \in ExecState /\ BookType /\ BookType' /\ ExecType
      /\ exec.pc \in {"posted", "opened"} => exec.order \in OrderIDs /\ ~book[exec.order].close
      /\ OrderIDs \subseteq OrderIDs' /\ \A o \in OrderIDs : book'[o].close = book[o].close
  BY BookStep DEF StateInv, ExecType, BookGrows
<1>2. ASSUME NEW k \in Keys, NEW size \in Sizes, AdmitEntry(k, size) PROVE ExecType'
  BY <1>2 DEF AdmitEntry, ExecType, ExecState
<1>3. ASSUME exec' = IdleExec PROVE ExecType'
  BY <1>3 DEF ExecType, ExecState, IdleExec
<1>4. ASSUME NEW p \in Prices, PostEntry(p) PROVE ExecType'
  <2>1. /\ exec.key \in Keys /\ exec.size \in Sizes
    BY <1>1, <1>4, ExecTypes DEF PostEntry
  <2>2. exec' = [pc |-> "posted", key |-> exec.key, size |-> exec.size, order |-> Len(book')]
        \/ exec' = IdleExec
    BY <1>4 DEF PostEntry
  <2>3. Len(book') \in Nat /\ Len(book') \in OrderIDs'
    <3>1. book' = Append(book, NewOrder(exec.key, FALSE, p, Larger(exec.size \div p, MinContracts)))
      BY <1>4 DEF PostEntry, Accept
    <3>2. Len(book') # 0
      BY <1>1, <3>1 DEF BookType
    <3> QED
      BY <1>1, <3>2 DEF BookType, OrderIDs
  <2>4. ~book'[Len(book')].close
    BY <1>1, <1>4, EntryOrder, BookAccept
  <2>5. CASE exec' = [pc |-> "posted", key |-> exec.key, size |-> exec.size, order |-> Len(book')]
    BY <2>1, <2>3, <2>4, <2>5 DEF ExecType, ExecState
  <2> QED
    BY <1>3, <2>2, <2>5
<1>5. ASSUME OpenEntry PROVE ExecType'
  <2>1. /\ exec \in [pc : {"posted", "opened"}, key : Keys, size : Sizes, order : Nat]
        /\ exec.order \in OrderIDs /\ exec.pc = "posted"
    BY <1>1, <1>5, ExecTypes DEF OpenEntry
  <2>2. exec' = IdleExec \/ exec' = [exec EXCEPT !.pc = "opened"]
    BY <1>5 DEF OpenEntry
  <2>3. CASE exec' = [exec EXCEPT !.pc = "opened"]
    BY <1>1, <2>1, <2>3 DEF ExecType, ExecState
  <2> QED
    BY <1>3, <2>2, <2>3
<1>6. ASSUME UNCHANGED exec PROVE ExecType'
  BY <1>1, <1>6 DEF ExecType
<1> QED
  BY <1>2, <1>3, <1>4, <1>5, <1>6, Zenon
     DEF LiveNext, liveVars, exchangeVars, Signals, RefuseEntry, CloseSignal,
         CloseSignalUnknown, EntryStep, FailEntry, RecordEntry,
         StartHaltClose, StartTeardown, CloserStep, TakePosition, Finish, CloseAccepted,
         CloseShort, CloseResolved, RecordForcedClose, CloseFails, MonitorPoll, MonitorEnd,
         MonitorEntryFilled, MonitorCloseFilled, MonitorCancelled, MonitorPartialKeep,
         MonitorPartialSeen, MonitorCtxDone, MonitorTimeout, MonitorPartialCancel,
         MonitorRecordClose, RefreshBalance, Exchange, ExchangeCancels, Match, Resolve,
         ResumeTrading, Midnight
----------------------------------------------------------------------------
(* The closers, each with the positions it still has to close.             *)
LEMMA CloserMoves ==
    ASSUME CloserType, ClosersKnow, Forgetless, NEW c \in Closers,
           closer' = [closer EXCEPT ![c] = closer'[c]], closer'[c] \in CloserState,
           Knows(positions', closer'[c])
    PROVE  CloserType' /\ ClosersKnow'
<1>1. CloserType'
  BY DEF CloserType
<1>2. ASSUME NEW d \in Closers PROVE Knows(positions', closer'[d])
  <2>1. CASE d = c
    BY <2>1
  <2>2. CASE d # c
    <3>1. closer'[d] = closer[d]
      BY <2>2 DEF CloserType
    <3>2. Knows(positions, closer[d])
      BY DEF ClosersKnow
    <3> QED
      BY <3>1, <3>2, CloserTypes DEF Knows, Forgetless, Known
  <2> QED
    BY <2>1, <2>2
<1> QED
  BY <1>1, <1>2 DEF ClosersKnow

LEMMA ClosersStay ==
    ASSUME CloserType, ClosersKnow, Forgetless, UNCHANGED closer
    PROVE  CloserType' /\ ClosersKnow'
<1>1. ASSUME NEW d \in Closers PROVE Knows(positions', closer[d])
  <2>1. Knows(positions, closer[d])
    BY DEF ClosersKnow
  <2> QED
    BY <2>1, CloserTypes DEF Knows, Forgetless, Known
<1> QED
  BY <1>1 DEF CloserType, ClosersKnow

(* Open positions are in the ledger.                                       *)
LEMMA OpenIsKnown ==
    ASSUME LedgerType, NEW k \in Keys, HasOpenPosition(positions, k)
    PROVE  positions[k] \in Position
BY DEF LedgerType, HasOpenPosition

LEMMA StartCloser ==
    ASSUME LedgerType, CloserType, ClosersKnow, Forgetless, NEW c \in Closers,
           NEW todo \in SUBSET OpenPositions(positions),
           closer' = [closer EXCEPT ![c] = [pc |-> "loop", todo |-> todo]]
    PROVE  CloserType' /\ ClosersKnow'
<1>1. closer'[c] = [pc |-> "loop", todo |-> todo]
  BY DEF CloserType
<1>2. todo \subseteq Keys /\ \A k \in todo : positions'[k] \in Position
  BY OpenIsKnown DEF OpenPositions, Forgetless, Known
<1>3. closer'[c] \in CloserState
  BY <1>1, <1>2 DEF CloserState
<1>4. Knows(positions', closer'[c])
  BY <1>1, <1>2 DEF Knows
<1> QED
  BY <1>1, <1>3, <1>4, CloserMoves

LEMMA CloserOwnStep ==
    ASSUME StateInv, Forgetless, NEW c \in Closers, CloserStep(c)
    PROVE  CloserType' /\ ClosersKnow'
<1>1. CloserType /\ ClosersKnow /\ LedgerType /\ tokens \in [Keys -> Int]
  BY DEF StateInv, TokensType
<1>2. /\ closer[c] \in CloserState /\ Knows(positions, closer[c])
      /\ DOMAIN closer = Closers
  BY <1>1, CloserTypes DEF ClosersKnow, CloserType
<1> DEFINE todo == closer[c].todo
           k == closer[c].key
<1>3. closer[c].pc # "idle" => todo \subseteq Keys /\ \A j \in todo : positions'[j] \in Position
  BY <1>1, <1>2, CloserTypes DEF Knows, Forgetless, Known
<1>4. closer[c].pc \in {"post", "repost", "record"} =>
         k \in Keys /\ closer[c].size \in Nat /\ positions'[k] \in Position
  BY <1>1, <1>2, CloserTypes DEF Knows, Forgetless, Known
<1> HIDE DEF todo, k
<1>5. ASSUME TakePosition(c) PROVE CloserType' /\ ClosersKnow'
  <2>1. PICK j \in todo :
           closer' = [closer EXCEPT ![c] =
              [pc |-> "post", todo |-> todo \ {j}, key |-> j,
               size |-> positions[j].size, sell |-> positions[j].size]]
    BY <1>5 DEF TakePosition, todo
  <2>2. closer[c].pc = "loop"
    BY <1>5 DEF TakePosition
  <2>3. j \in Keys /\ positions[j] \in Position
    BY <1>2, <1>3, <2>2 DEF Knows, todo
  <2>4. positions[j].size \in Nat
    BY <2>3 DEF Position
  <2> DEFINE v == [pc |-> "post", todo |-> todo \ {j}, key |-> j,
                   size |-> positions[j].size, sell |-> positions[j].size]
  <2>5. v \in CloserState
    BY <1>3, <2>2, <2>3, <2>4 DEF CloserState
  <2>6. Knows(positions', v)
    BY <1>3, <2>2 DEF Knows
  <2>7. closer'[c] = v
    BY <1>2, <2>1
  <2> QED
    BY <1>1, <2>1, <2>5, <2>6, <2>7, CloserMoves
<1>6. ASSUME closer' = [closer EXCEPT ![c] = IdleCloser] PROVE CloserType' /\ ClosersKnow'
  <2>1. closer'[c] = IdleCloser
    BY <1>2, <1>6
  <2>2. IdleCloser \in CloserState /\ Knows(positions', IdleCloser)
    BY DEF CloserState, Knows, IdleCloser
  <2> QED
    BY <1>1, <1>6, <2>1, <2>2, CloserMoves
<1>7. ASSUME closer[c].pc # "idle", NextPosition(c) PROVE CloserType' /\ ClosersKnow'
  <2> DEFINE v == [pc |-> "loop", todo |-> todo]
  <2>1. closer' = [closer EXCEPT ![c] = v]
    BY <1>7 DEF NextPosition, todo
  <2>2. v \in CloserState
    BY <1>3, <1>7 DEF CloserState
  <2>3. Knows(positions', v)
    BY <1>3, <1>7 DEF Knows
  <2>4. closer'[c] = v
    BY <1>2, <2>1
  <2> QED
    BY <1>1, <2>1, <2>2, <2>3, <2>4, CloserMoves
<1>8. ASSUME NEW ps, NEW pnl \in Int, closer[c].pc \in {"post", "repost"}, ForceClose(c, ps, pnl)
      PROVE  CloserType' /\ ClosersKnow'
  <2> DEFINE v == [pc |-> "record", todo |-> todo, key |-> k, size |-> closer[c].size, pnl |-> pnl]
  <2>1. closer' = [closer EXCEPT ![c] = v]
    BY <1>8 DEF ForceClose, todo, k
  <2>2. v \in CloserState
    BY <1>3, <1>4, <1>8 DEF CloserState
  <2>3. Knows(positions', v)
    BY <1>3, <1>4, <1>8 DEF Knows
  <2>4. closer'[c] = v
    BY <1>2, <2>1
  <2> QED
    BY <1>1, <2>1, <2>2, <2>3, <2>4, CloserMoves
<1>9. ASSUME CloseShort(c) PROVE CloserType' /\ ClosersKnow'
  <2>1. closer[c].pc = "post" /\ k \in Keys /\ tokens[k] \in Nat /\ closer[c].size * Dollar \in Int
    BY <1>1, <1>4, <1>9, LiveConfig DEF CloseShort, LiveConfig, k
  <2>2. CASE closer' = [closer EXCEPT ![c].pc = "repost", ![c].sell = tokens[k]]
    <3> DEFINE v == [closer[c] EXCEPT !.pc = "repost", !.sell = tokens[k]]
    <3>1. closer[c] \in [pc : {"post", "repost"}, todo : SUBSET Keys, key : Keys,
                         size : Nat, sell : Nat]
      BY <1>2, <2>1 DEF CloserState, IdleCloser
    <3>2. v \in CloserState /\ v.pc = "repost" /\ v.todo = todo /\ v.key = k
      BY <2>1, <3>1 DEF CloserState, todo, k
    <3>3. Knows(positions', v)
      BY <1>3, <1>4, <2>1, <3>2 DEF Knows
    <3>4. closer' = [closer EXCEPT ![c] = v]
      BY <1>2, <2>2, <3>1
    <3>5. closer'[c] = v
      BY <1>2, <3>4
    <3> HIDE DEF v
    <3> QED
      BY <1>1, <3>2, <3>3, <3>4, <3>5, CloserMoves
  <2>3. CASE ForceClose(c, UpdatePositionSize(positions, k, tokens[k]), -(closer[c].size * Dollar))
    BY <1>8, <2>1, <2>3
  <2> QED
    BY <1>9, <2>2, <2>3 DEF CloseShort, k
<1>10. ASSUME CloseResolved(c) PROVE CloserType' /\ ClosersKnow'
  BY <1>8, <1>10 DEF CloseResolved, Posting
<1>11. ASSUME \/ \E p \in Prices : CloseAccepted(c, p)
              \/ RecordForcedClose(c) \/ CloseFails(c)
       PROVE  CloserType' /\ ClosersKnow'
  BY <1>7, <1>11 DEF CloseAccepted, RecordForcedClose, CloseFails, Posting
<1> QED
  BY <1>5, <1>6, <1>9, <1>10, <1>11 DEF CloserStep, Finish

LEMMA CloserStepOK ==
    ASSUME StateInv, [LiveNext]_liveVars
    PROVE  CloserType' /\ ClosersKnow'
<1>1. CloserType /\ ClosersKnow /\ LedgerType /\ Forgetless
  BY LedgerStep DEF StateInv
<1>2. Exec \in Closers /\ HaltClosers \subseteq Closers /\ Teardowns \subseteq Closers
  BY DEF Closers
<1>3. ASSUME NEW k \in Keys, CloseSignal(k) PROVE CloserType' /\ ClosersKnow'
  <2>1. {k} \in SUBSET OpenPositions(positions)
    BY <1>3 DEF CloseSignal, OpenPositions
  <2> QED
    BY <1>1, <1>2, <1>3, <2>1, StartCloser DEF CloseSignal
<1>4. ASSUME NEW c \in HaltClosers, StartHaltClose(c) PROVE CloserType' /\ ClosersKnow'
  BY <1>1, <1>2, <1>4, StartCloser DEF StartHaltClose
<1>5. ASSUME NEW c \in Teardowns, NEW m \in Markets, StartTeardown(c, m)
      PROVE  CloserType' /\ ClosersKnow'
  <2>1. {k \in OpenPositions(positions) : Market(k) = m} \in SUBSET OpenPositions(positions)
    OBVIOUS
  <2> QED
    BY <1>1, <1>2, <1>5, <2>1, StartCloser DEF StartTeardown
<1>6. ASSUME UNCHANGED closer PROVE CloserType' /\ ClosersKnow'
  BY <1>1, <1>6, ClosersStay
<1> QED
  BY <1>1, <1>3, <1>4, <1>5, <1>6, CloserOwnStep, Zenon
     DEF LiveNext, liveVars, Signals, AdmitEntry, RefuseEntry, CloseSignalUnknown, EntryStep,
         PostEntry, FailEntry, OpenEntry, RecordEntry, MonitorPoll, MonitorEnd,
         MonitorEntryFilled, MonitorCloseFilled, MonitorCancelled, MonitorPartialKeep,
         MonitorPartialSeen, MonitorCtxDone, MonitorTimeout, MonitorPartialCancel,
         MonitorRecordClose, RefreshBalance, Exchange, ExchangeCancels, Match, Resolve,
         ResumeTrading, Midnight
----------------------------------------------------------------------------
(* The monitors: one per order, from the moment it is accepted.            *)
LEMMA MonitorSet ==
    ASSUME BookType, MonitorType, NEW o \in OrderIDs, Len(book') = Len(book),
           monitors' = [monitors EXCEPT ![o] = monitors'[o]], monitors'[o] \in MonitorState
    PROVE  MonitorType'
<1>1. monitors \in Seq(MonitorState) /\ o \in 1 .. Len(monitors)
  BY MonitorTypes DEF MonitorType
<1>2. monitors' \in Seq(MonitorState) /\ Len(monitors') = Len(monitors)
  BY <1>1
<1> QED
  BY <1>2 DEF MonitorType

LEMMA MonitorAdd ==
    ASSUME BookType, MonitorType, Len(book') = Len(book) + 1, NEW v \in MonitorState,
           monitors' = Append(monitors, v)
    PROVE  MonitorType'
BY DEF MonitorType

LEMMA SimpleMonitorStates ==
    /\ Unmonitored \in MonitorState /\ Done \in MonitorState
    /\ \A c \in Closers \cup {"cancelled"} : Polling(c) \in MonitorState
BY DEF MonitorState, Polling

LEMMA MonitorOwnStep ==
    ASSUME StateInv, NEW o \in OrderIDs, MonitorPoll(o) \/ MonitorEnd(o), Len(book') = Len(book)
    PROVE  MonitorType'
<1>1. /\ BookType /\ MonitorType /\ LedgerType
      /\ o \in 1 .. Len(monitors) /\ monitors \in Seq(MonitorState)
  BY MonitorTypes DEF StateInv, MonitorType
<1>2. ASSUME Stop(o) PROVE MonitorType'
  <2>1. monitors' = [monitors EXCEPT ![o] = Done] /\ monitors'[o] = Done
    BY <1>1, <1>2 DEF Stop
  <2> QED
    BY <1>1, <2>1, MonitorSet, SimpleMonitorStates
<1>3. ASSUME MonitorCloseFilled(o) PROVE MonitorType'
  <2> DEFINE k == book[o].key
             proceeds == book[o].price * book[o].filled
             v == [pc |-> "record", size |-> positions[k].size * Dollar,
                   pnl |-> proceeds - positions[k].entryPrice * positions[k].size]
  <2>1. positions[k] \in Position
    BY <1>3 DEF MonitorCloseFilled, Monitored, StateInv, OrdersKnown, Known
  <2>2. positions[k].size \in Nat /\ positions[k].entryPrice \in Nat /\ Dollar \in Nat
    BY <2>1, LiveConfig DEF Position, LiveConfig
  <2>3. proceeds \in Nat
    BY <1>1, OrderTypes, ProductIsNat
  <2>4. positions[k].size * Dollar \in Nat /\ positions[k].entryPrice * positions[k].size \in Nat
    BY <2>2, ProductIsNat
  <2> HIDE DEF proceeds
  <2>5. v \in MonitorState
    BY <2>3, <2>4 DEF MonitorState
  <2>6. monitors' = [monitors EXCEPT ![o] = v]
    BY <1>3 DEF MonitorCloseFilled, proceeds
  <2> HIDE DEF v, k
  <2>7. monitors'[o] = v
    BY <1>1, <2>6
  <2> QED
    BY <1>1, <2>5, <2>6, <2>7, MonitorSet
<1>4. ASSUME MonitorPartialSeen(o) PROVE MonitorType'
  <2>. PICK n \in ReportedFills(o) :
           monitors' = [monitors EXCEPT ![o] = [pc |-> "cancel", filled |-> n]]
    BY <1>4, Zenon DEF MonitorPartialSeen
  <2> DEFINE v == [pc |-> "cancel", filled |-> n]
  <2>1. monitors' = [monitors EXCEPT ![o] = v]
    OBVIOUS
  <2>2. v \in MonitorState
    <3>1. n \in Nat
      BY <1>1, OrderTypes DEF ReportedFills
    <3> QED
      BY <3>1 DEF MonitorState
  <2> HIDE DEF v
  <2>3. monitors'[o] = v
    BY <1>1, <2>1
  <2> QED
    BY <1>1, <2>1, <2>2, <2>3, MonitorSet
<1>5. ASSUME UNCHANGED monitors PROVE MonitorType'
  BY <1>1, <1>5 DEF MonitorType
<1> QED
  BY <1>2, <1>3, <1>4, <1>5, Zenon
     DEF MonitorPoll, MonitorEnd, MonitorEntryFilled, MonitorCancelled, MonitorPartialKeep,
         MonitorCtxDone, MonitorTimeout, MonitorPartialCancel, MonitorRecordClose

LEMMA MonitorStep ==
    ASSUME StateInv, [LiveNext]_liveVars
    PROVE  MonitorType'
<1>1. /\ BookType /\ MonitorType /\ monitors \in Seq(MonitorState)
      /\ OrderIDs = 1 .. Len(book) /\ Len(monitors) = Len(book) /\ Len(book) \in Nat
  BY DEF StateInv, MonitorType, BookType, OrderIDs
<1>2. Exec \in Closers
  BY DEF Closers
<1>3. ASSUME NEW p \in Prices, PostEntry(p) PROVE MonitorType'
  <2>1. Len(book') = Len(book) + 1 /\ monitors' = Append(monitors, Unmonitored)
    BY <1>1, <1>3 DEF PostEntry, Accept, BookType
  <2> QED
    BY <1>1, <2>1, MonitorAdd, SimpleMonitorStates
<1>4. ASSUME NEW c \in Closers, NEW p \in Prices, CloseAccepted(c, p) PROVE MonitorType'
  <2>1. /\ Len(book') = Len(book) + 1
        /\ monitors' = Append(monitors, Unmonitored) \/ monitors' = Append(monitors, Polling(c))
    BY <1>1, <1>4 DEF CloseAccepted, Accept, BookType
  <2> QED
    BY <1>1, <2>1, MonitorAdd, SimpleMonitorStates
<1>5. ASSUME ~Posted PROVE MonitorType'
  <2>1. Len(book') = Len(book)
    BY <1>5, BookStep
  <2>2. ASSUME RecordEntry PROVE MonitorType'
    <3>1. exec.order \in OrderIDs
      BY <2>2, ExecTypes DEF StateInv, RecordEntry
    <3>2. monitors' = [monitors EXCEPT ![exec.order] = Polling(Exec)]
      BY <2>2 DEF RecordEntry
    <3>3. monitors'[exec.order] = Polling(Exec)
      BY <1>1, <3>1, <3>2
    <3> QED
      BY <1>1, <1>2, <2>1, <3>1, <3>2, <3>3, MonitorSet, SimpleMonitorStates
  <2>3. ASSUME NEW c \in Closers, Finish(c) PROVE MonitorType'
    <3>1. \/ UNCHANGED monitors
          \/ monitors' = [o \in DOMAIN monitors |->
                             IF monitors[o] = Polling(c) THEN Polling("cancelled")
                             ELSE monitors[o]]
      BY <2>3 DEF Finish
    <3>2. CASE monitors' = [o \in DOMAIN monitors |->
                               IF monitors[o] = Polling(c) THEN Polling("cancelled")
                               ELSE monitors[o]]
      <4>1. monitors' \in [1 .. Len(monitors) -> MonitorState]
        BY <1>1, <3>2, SimpleMonitorStates
      <4>2. monitors' \in Seq(MonitorState) /\ Len(monitors') = Len(monitors)
        BY <1>1, <4>1
      <4> QED
        BY <1>1, <2>1, <4>2 DEF MonitorType
    <3> QED
      BY <1>1, <2>1, <3>1, <3>2 DEF MonitorType
  <2>4. ASSUME UNCHANGED monitors PROVE MonitorType'
    BY <1>1, <2>1, <2>4 DEF MonitorType
  <2> QED
    BY <1>5, <2>1, <2>2, <2>3, <2>4, MonitorOwnStep, Zenon
       DEF Posted, LiveNext, liveVars, Signals, AdmitEntry, RefuseEntry, CloseSignal,
           CloseSignalUnknown, EntryStep, FailEntry, OpenEntry, StartHaltClose, StartTeardown,
           CloserStep, TakePosition, CloseShort, CloseResolved, RecordForcedClose, CloseFails,
           RefreshBalance, Exchange, ExchangeCancels, Match, Resolve, ResumeTrading, Midnight
<1> QED
  BY <1>3, <1>4, <1>5 DEF Posted

(* What can become of the monitor of an order that is in the book.         *)
LEMMA MonitorKinds ==
    ASSUME StateInv, [LiveNext]_liveVars, NEW o \in OrderIDs
    PROVE  \/ monitors'[o] = monitors[o]
           \/ RecordEntry /\ o = exec.order /\ monitors'[o] = Polling(Exec)
           \/ /\ \E c \in Closers : c # Exec /\ monitors[o] = Polling(c)
              /\ monitors'[o] = Polling("cancelled") /\ UNCHANGED exec
           \/ (MonitorPoll(o) \/ MonitorEnd(o)) /\ UNCHANGED exec
<1>1. /\ o \in 1 .. Len(monitors) /\ monitors \in Seq(MonitorState) /\ DOMAIN monitors = OrderIDs
  BY MonitorTypes DEF StateInv, MonitorType, BookType, OrderIDs
<1>2. ASSUME NEW v, monitors' = Append(monitors, v) PROVE monitors'[o] = monitors[o]
  <2>1. v \in {v}
    OBVIOUS
  <2> QED
    BY <1>1, <1>2
<1>3. ASSUME Posted PROVE monitors'[o] = monitors[o]
  BY <1>2, <1>3 DEF Posted, PostEntry, CloseAccepted
<1>4. CASE RecordEntry
  BY <1>1, <1>4 DEF RecordEntry
<1>5. ASSUME NEW c \in Closers, Finish(c)
      PROVE  \/ monitors'[o] = monitors[o]
             \/ /\ c # Exec /\ monitors[o] = Polling(c)
                /\ monitors'[o] = Polling("cancelled") /\ UNCHANGED exec
  BY <1>1, <1>5 DEF Finish
<1>6. ASSUME NEW p \in OrderIDs, MonitorPoll(p) \/ MonitorEnd(p)
      PROVE  \/ monitors'[o] = monitors[o]
             \/ (MonitorPoll(o) \/ MonitorEnd(o)) /\ UNCHANGED exec
  <2>1. CASE p = o
    <3>1. MonitorPoll(o) => UNCHANGED exec
      BY Zenon DEF MonitorPoll, MonitorEntryFilled, MonitorCloseFilled, MonitorCancelled,
         MonitorPartialKeep, MonitorPartialSeen
    <3>2. MonitorEnd(o) => UNCHANGED exec
      BY Zenon DEF MonitorEnd, MonitorCtxDone, MonitorTimeout, MonitorPartialCancel,
         MonitorRecordClose
    <3> QED
      BY <1>6, <2>1, <3>1, <3>2
  <2>2. CASE p # o
    <3>1. \/ UNCHANGED monitors
          \/ \E v : monitors' = [monitors EXCEPT ![p] = v]
      BY <1>6, Zenon
         DEF Stop, MonitorPoll, MonitorEnd, MonitorEntryFilled, MonitorCloseFilled,
         MonitorCancelled,
             MonitorPartialKeep, MonitorPartialSeen, MonitorCtxDone, MonitorTimeout,
             MonitorPartialCancel, MonitorRecordClose
    <3> QED
      BY <1>1, <2>2, <3>1
  <2> QED
    BY <2>1, <2>2
<1>7. CASE UNCHANGED monitors
  BY <1>7
<1> QED
  BY <1>3, <1>4, <1>5, <1>6, <1>7, Zenon
     DEF Posted, LiveNext, liveVars, Signals, AdmitEntry, RefuseEntry, CloseSignal,
         CloseSignalUnknown, EntryStep, FailEntry, OpenEntry, StartHaltClose, StartTeardown,
         CloserStep, TakePosition, CloseShort, CloseResolved, RecordForcedClose, CloseFails,
         RefreshBalance, Exchange, ExchangeCancels, Match, Resolve, ResumeTrading, Midnight

(* Nothing else makes a goroutine watch an order.                          *)
LEMMA WatchedStays ==
    ASSUME StateInv, NEW o \in OrderIDs, MonitorPoll(o) \/ MonitorEnd(o),
           monitors'[o].pc = "polling"
    PROVE  monitors'[o] = monitors[o]
<1>1. /\ o \in 1 .. Len(monitors) /\ monitors \in Seq(MonitorState)
  BY MonitorTypes DEF StateInv, MonitorType
<1>2. \/ UNCHANGED monitors
      \/ \E v : v.pc \in {"done", "record", "cancel"} /\ monitors' = [monitors EXCEPT ![o] = v]
  <2>1. ASSUME Stop(o) PROVE \E v : v.pc = "done" /\ monitors' = [monitors EXCEPT ![o] = v]
    BY <2>1 DEF Stop, Done
  <2>2. ASSUME MonitorCloseFilled(o)
        PROVE  \E v : v.pc = "record" /\ monitors' = [monitors EXCEPT ![o] = v]
    <3> DEFINE v == [pc |-> "record", size |-> positions[book[o].key].size * Dollar,
                     pnl |-> book[o].price * book[o].filled
                             - positions[book[o].key].entryPrice * positions[book[o].key].size]
    <3>1. monitors' = [monitors EXCEPT ![o] = v]
      BY <2>2 DEF MonitorCloseFilled
    <3>2. v.pc = "record"
      OBVIOUS
    <3> HIDE DEF v
    <3> QED
      BY <3>1, <3>2
  <2>3. ASSUME MonitorPartialSeen(o)
        PROVE  \E v : v.pc = "cancel" /\ monitors' = [monitors EXCEPT ![o] = v]
    BY <2>3 DEF MonitorPartialSeen
  <2> QED
    BY <2>1, <2>2, <2>3
       DEF MonitorPoll, MonitorEnd, MonitorEntryFilled, MonitorCancelled, MonitorPartialKeep,
           MonitorCtxDone, MonitorTimeout, MonitorPartialCancel, MonitorRecordClose
<1> QED
  BY <1>1, <1>2

(* A close order that is watched is for a key of the ledger.               *)
LEMMA OrdersKnownStep ==
    ASSUME StateInv, [LiveNext]_liveVars
    PROVE  OrdersKnown'
<1>1. /\ BookType /\ BookType' /\ BookGrows /\ OrdersKnown /\ Forgetless
      /\ Len(book') = Len(book) \/ Posted
      /\ book \in Seq(Order) /\ Len(book) \in Nat
  BY LedgerStep, BookStep DEF StateInv, BookType
<1>2. ASSUME NEW o \in OrderIDs, book'[o].close, monitors'[o].pc = "polling"
      PROVE  positions'[book'[o].key] \in Position
  <2>1. book[o].close /\ book'[o].key = book[o].key /\ book[o].key \in Keys
    BY <1>1, <1>2, OrderTypes DEF BookGrows
  <2>2. monitors[o].pc = "polling"
    <3>1. CASE RecordEntry /\ o = exec.order
      BY <2>1, <3>1 DEF RecordEntry, StateInv, ExecType
    <3>2. \A c : Polling(c).pc = "polling"
      BY DEF Polling
    <3> QED
      BY <1>2, <3>1, <3>2, MonitorKinds, WatchedStays
  <2> QED
    BY <1>1, <2>1, <2>2 DEF OrdersKnown, Forgetless, Known
<1>3. ASSUME NEW o \in OrderIDs', o \notin OrderIDs, book'[o].close PROVE positions'[book'[o].key] \in Position
  <2>1. o = Len(book) + 1
    BY <1>1, <1>3 DEF BookGrows
  <2>2. Posted
    BY <1>1, <1>3, <2>1 DEF BookType, OrderIDs
  <2>3. ASSUME NEW p \in Prices, PostEntry(p) PROVE FALSE
    <3>1. PICK order \in Order : Accept(order) /\ ~order.close
      BY <2>3, EntryOrder
    <3>2. book'[o] = order
      BY <1>1, <2>1, <3>1, BookAccept
    <3> QED
      BY <1>3, <3>1, <3>2
  <2>4. ASSUME NEW c \in Closers, NEW p \in Prices, CloseAccepted(c, p)
        PROVE  positions'[book'[o].key] \in Position
    <3>1. PICK order \in Order : Accept(order) /\ order.key = closer[c].key
      BY <2>4, CloseOrder
    <3>2. book'[o] = order
      BY <1>1, <2>1, <3>1, BookAccept
    <3>3. closer[c].key \in Keys /\ positions[closer[c].key] \in Position
      BY <2>4, CloserTypes DEF StateInv, CloseAccepted, Posting, ClosersKnow, Knows
    <3> QED
      BY <1>1, <3>1, <3>2, <3>3 DEF Forgetless, Known
  <2> QED
    BY <2>2, <2>3, <2>4 DEF Posted
<1> QED
  BY <1>2, <1>3 DEF OrdersKnown, Known
----------------------------------------------------------------------------
(* The risk manager.                                                       *)
LEMMA RecordCloseTypes ==
    ASSUME RiskTypeOK, NEW m, NEW size \in Nat, NEW pnl \in Int, RecordClose(m, size, pnl)
    PROVE  RiskTypeOK'
<1>1. CountersOK
  BY DEF RiskTypeOK
<1>2. ASSUME NEW a \in Nat, NEW b \in Nat PROVE Less(a, b) \in Nat
  BY DEF Less
<1>3. totalExposure' \in Nat
  BY <1>1, <1>2 DEF RecordClose, CountersOK
<1>4. marketExposure' \in [Markets -> Nat] /\ marketActive' \in [Markets -> Nat]
  <2>1. /\ marketExposure' = [marketExposure EXCEPT ![m] = Less(marketExposure[m], size)]
        /\ marketActive' = [marketActive EXCEPT ![m] = Less(marketActive[m], 1)]
    BY DEF RecordClose
  <2>2. /\ marketExposure \in [Markets -> Nat] /\ marketActive \in [Markets -> Nat]
        /\ m \in Markets => Less(marketExposure[m], size) \in Nat /\ Less(marketActive[m], 1) \in Nat
    BY <1>1, <1>2 DEF CountersOK
  <2> QED
    BY <2>1, <2>2
<1>5. sessionPnL' \in Int /\ peakBalance' \in Nat
  <2>1. /\ sessionPnL' = sessionPnL + pnl
        /\ peakBalance' = Larger(peakBalance, peakBalance + sessionPnL')
    BY DEF RecordClose
  <2>2. sessionPnL \in Int /\ peakBalance \in Nat
    BY <1>1 DEF CountersOK
  <2> QED
    BY <2>1, <2>2 DEF Larger
<1>6. halted' \in BOOLEAN
  BY Zenon DEF RiskTypeOK, RecordClose, TriggerHalt, haltVars
<1>7. haltCallbacks' \in Nat
  <2>1. haltCallbacks' = haltCallbacks + 1 \/ haltCallbacks' = haltCallbacks
    BY Zenon DEF RecordClose, TriggerHalt, haltVars
  <2> QED
    BY <1>1, <2>1 DEF CountersOK
<1>8. dailyTrades' \in Nat /\ lastTradeDate' \in Nat /\ today' \in Nat
  BY <1>1 DEF RecordClose, dayVars, CountersOK
<1> QED
  BY <1>3, <1>4, <1>5, <1>6, <1>7, <1>8 DEF RiskTypeOK, CountersOK

LEMMA CheckTypes ==
    ASSUME RiskTypeOK, NEW s, NEW m, NEW size, CheckPasses(s, m, size) \/ CheckRejects(s, m, size)
    PROVE  RiskTypeOK'
BY DEF CheckPasses, CheckRejects, ResetDay, TradesToday, RiskTypeOK, CountersOK, exposureVars,
       pnlVars, haltVars, dayVars

LEMMA RecordOpenTypes ==
    ASSUME RiskTypeOK, NEW m \in Markets, NEW size \in Nat, RecordOpen(m, size)
    PROVE  RiskTypeOK'
BY DEF RecordOpen, RiskTypeOK, CountersOK, pnlVars, haltVars

(* The steps that touch the risk manager, and the rest.                    *)
LEMMA RiskKinds ==
    ASSUME [LiveNext]_liveVars
    PROVE  \/ \E k \in Keys, size \in Sizes : AdmitEntry(k, size) \/ RefuseEntry(k, size)
           \/ EntryStep
           \/ \E c \in HaltClosers : StartHaltClose(c)
           \/ \E c \in Closers : RecordForcedClose(c)
           \/ \E o \in OrderIDs : MonitorRecordClose(o)
           \/ ResumeTrading
           \/ Midnight
           \/ UNCHANGED <<riskVars, exec>>
BY Zenon
   DEF LiveNext, liveVars, Signals, CloseSignal, CloseSignalUnknown, StartTeardown, CloserStep,
       TakePosition, Finish, CloseAccepted, CloseShort, ForceClose, CloseResolved, CloseFails,
       MonitorPoll, MonitorEnd, MonitorEntryFilled, MonitorCloseFilled, MonitorCancelled,
       MonitorPartialKeep, MonitorPartialSeen, MonitorCtxDone, MonitorTimeout,
       MonitorPartialCancel, RefreshBalance, Exchange, ExchangeCancels, Match, Resolve

(* RecordClose is called with numbers.                                     *)
LEMMA ForcedCloseArguments ==
    ASSUME StateInv, NEW c \in Closers, RecordForcedClose(c)
    PROVE  /\ closer[c].key \in Keys /\ closer[c].size * Dollar \in Nat /\ closer[c].pnl \in Int
           /\ RecordClose(Market(closer[c].key), closer[c].size * Dollar, closer[c].pnl)
           /\ UNCHANGED exec
<1>1. closer[c].key \in Keys /\ closer[c].size \in Nat /\ closer[c].pnl \in Int /\ Dollar \in Nat
  BY CloserTypes, LiveConfig DEF StateInv, RecordForcedClose, LiveConfig
<1> QED
  BY <1>1, ProductIsNat DEF RecordForcedClose

LEMMA CloseArguments ==
    ASSUME StateInv, NEW o \in OrderIDs, MonitorRecordClose(o)
    PROVE  /\ book[o].key \in Keys /\ monitors[o].size \in Nat /\ monitors[o].pnl \in Int
           /\ RecordClose(Market(book[o].key), monitors[o].size, monitors[o].pnl)
           /\ UNCHANGED exec
BY OrderTypes, MonitorTypes DEF StateInv, MonitorRecordClose

LEMMA RiskStep ==
    ASSUME LiveInv, [LiveNext]_liveVars
    PROVE  RiskTypeOK'
<1>1. RiskTypeOK /\ StateInv
  BY DEF LiveInv
<1>2. ASSUME NEW k \in Keys, NEW size \in Sizes, AdmitEntry(k, size) \/ RefuseEntry(k, size)
      PROVE  RiskTypeOK'
  BY <1>1, <1>2, CheckTypes DEF AdmitEntry, RefuseEntry
<1>3. ASSUME RecordEntry PROVE RiskTypeOK'
  <2>1. exec.key \in Keys /\ exec.size \in Nat
    BY <1>1, <1>3, ExecTypes DEF StateInv, RecordEntry
  <2>2. Market(exec.key) \in Markets
    BY <2>1, LiveConfig DEF LiveConfig, Market
  <2> QED
    BY <1>1, <1>3, <2>1, <2>2, RecordOpenTypes DEF RecordEntry
<1>4. ASSUME NEW c \in Closers, RecordForcedClose(c) PROVE RiskTypeOK'
  BY <1>1, <1>4, ForcedCloseArguments, RecordCloseTypes
<1>5. ASSUME NEW o \in OrderIDs, MonitorRecordClose(o) PROVE RiskTypeOK'
  BY <1>1, <1>5, CloseArguments, RecordCloseTypes
<1>6. ASSUME (\E c \in HaltClosers : StartHaltClose(c)) \/ ResumeTrading \/ Midnight
      PROVE  RiskTypeOK'
  <2>1. ASSUME HaltCallbackStarts PROVE RiskTypeOK'
    BY <1>1, <2>1 DEF HaltCallbackStarts, RiskTypeOK, CountersOK, exposureVars, pnlVars, dayVars
  <2>2. ASSUME Resume PROVE RiskTypeOK'
    BY <1>1, <2>2 DEF Resume, RiskTypeOK, CountersOK, exposureVars, pnlVars, dayVars
  <2>3. ASSUME NextDay PROVE RiskTypeOK'
    BY <1>1, <2>3 DEF NextDay, RiskTypeOK, CountersOK, exposureVars, pnlVars, dayVars, haltVars
  <2> QED
    BY <1>6, <2>1, <2>2, <2>3 DEF StartHaltClose, ResumeTrading, Midnight
<1>7. ASSUME UNCHANGED riskVars PROVE RiskTypeOK'
  BY <1>1, <1>7 DEF riskVars, RiskTypeOK, CountersOK
<1> QED
  BY <1>2, <1>3, <1>4, <1>5, <1>6, <1>7, RiskKinds, Zenon
     DEF EntryStep, PostEntry, FailEntry, OpenEntry

LEMMA InvStep ==
    ASSUME LiveInv, [LiveNext]_liveVars
    PROVE  LiveInv'
BY RiskStep, LedgerStep, BookStep, TokensStep, ExecStep, CloserStepOK, MonitorStep,
   OrdersKnownStep DEF LiveInv, StateInv

LEMMA InvHolds == LiveSpec => []LiveInv
<1>1. LiveInv /\ [LiveNext]_liveVars => LiveInv'
  BY InvStep
<1> QED
  BY <1>1, InitInv, PTL DEF LiveSpec
----------------------------------------------------------------------------
(* The exchange does not sell what is not there.                           *)
OrdersOK == \A o \in OrderIDs : book[o].price \in Prices /\ book[o].filled <= book[o].size
MoneyOK == cash \in Int /\ balance \in Int
Solvent == (\A k \in Keys : FreeTokens(k) >= 0) /\ FreeCash >= 0
EntriesOK ==
    \A k \in Keys : positions[k] # NoPosition =>
        positions[k].entryPrice \in Prices /\ positions[k].order \in OrderIDs \cup {NoOrder}
ToldOK == told \in [Keys -> {"none", "pending", "open", "closed"}]

TypeInv ==
    /\ LiveInv /\ OrdersOK /\ MoneyOK /\ Solvent /\ EntriesOK /\ ToldOK
    /\ resolved \subseteq Markets

Sells(k) == {o \in OrderIDs : Live(o) /\ book[o].close /\ book[o].key = k}
Bids == {o \in OrderIDs : Live(o) /\ ~book[o].close}
TokensOf == [o \in OrderIDs |-> Remaining(o)]
CashOf == [o \in OrderIDs |-> book[o].price * Remaining(o)]

AmountsOK ==
    /\ IsFiniteSet(OrderIDs)
    /\ IsFiniteSet(Bids) /\ \A k : IsFiniteSet(Sells(k))
    /\ \A o \in OrderIDs :
          /\ Remaining(o) \in Nat /\ TokensOf[o] = Remaining(o) /\ TokensOf[o] \in Nat
          /\ CashOf[o] = book[o].price * Remaining(o) /\ CashOf[o] \in Nat
    /\ CashOffered = SumFunctionOnSet(CashOf, Bids) /\ CashOffered \in Int
    /\ \A k : /\ TokensOnSale(k) = SumFunctionOnSet(TokensOf, Sells(k))
              /\ TokensOnSale(k) \in Int

LEMMA Amounts == BookType /\ OrdersOK => AmountsOK
<1> SUFFICES ASSUME BookType, OrdersOK PROVE AmountsOK
  OBVIOUS
<1>1. OrderIDs = 1 .. Len(book) /\ Len(book) \in Nat
  BY DEF BookType, OrderIDs
<1>2. IsFiniteSet(OrderIDs)
  BY <1>1, FS_Interval
<1>3. IsFiniteSet(Bids) /\ \A k : IsFiniteSet(Sells(k))
  BY <1>2, FS_Subset DEF Bids, Sells
<1>4. ASSUME NEW o \in OrderIDs PROVE Remaining(o) \in Nat /\ book[o].price * Remaining(o) \in Nat
  <2>1. /\ book[o].size \in Nat /\ book[o].filled \in Nat /\ book[o].price \in Nat
        /\ book[o].filled <= book[o].size
    BY OrderTypes DEF OrdersOK
  <2>2. Remaining(o) \in Nat
    BY <2>1 DEF Remaining
  <2> QED
    BY <2>1, <2>2, ProductIsNat
<1>5. \A o \in OrderIDs :
         /\ Remaining(o) \in Nat /\ TokensOf[o] = Remaining(o) /\ TokensOf[o] \in Nat
         /\ CashOf[o] = book[o].price * Remaining(o) /\ CashOf[o] \in Nat
  BY <1>4 DEF TokensOf, CashOf
<1>6. CashOffered = SumFunctionOnSet(CashOf, Bids)
  BY DEF CashOffered, CashOf, Bids
<1>7. \A k : TokensOnSale(k) = SumFunctionOnSet(TokensOf, Sells(k))
  BY DEF TokensOnSale, TokensOf, Sells
<1>8. SumFunctionOnSet(CashOf, Bids) \in Int
  <2>1. \A o \in Bids : CashOf[o] \in Int
    BY <1>5 DEF Bids
  <2> QED
    BY <1>3, <2>1, SumIsInt
<1>9. ASSUME NEW k PROVE SumFunctionOnSet(TokensOf, Sells(k)) \in Int
  <2>1. \A o \in Sells(k) : TokensOf[o] \in Int
    BY <1>5 DEF Sells
  <2> QED
    BY <1>3, <2>1, SumIsInt
<1> QED
  BY <1>2, <1>3, <1>5, <1>6, <1>7, <1>8, <1>9 DEF AmountsOK

LEMMA AmountsNext == BookType' /\ OrdersOK' => AmountsOK'
BY Amounts, PTL

(* What is reserved is not more than there is.                             *)
LEMMA ReservedIsThere ==
    ASSUME BookType, OrdersOK, TokensType, MoneyOK, Solvent
    PROVE  /\ cash \in Nat /\ FreeCash \in Nat
           /\ \A k \in Keys : tokens[k] \in Nat /\ FreeTokens(k) \in Nat
<1>1. SumFunctionOnSet(CashOf, Bids) \in Nat
  <2>1. \A o \in Bids : CashOf[o] \in Nat
    BY Amounts, AmountsNext DEF Bids, AmountsOK
  <2> QED
    BY <2>1, Amounts, AmountsNext, SumIsNat DEF AmountsOK
<1>2. ASSUME NEW k PROVE SumFunctionOnSet(TokensOf, Sells(k)) \in Nat
  <2>1. \A o \in Sells(k) : TokensOf[o] \in Nat
    BY Amounts, AmountsNext DEF Sells, AmountsOK
  <2> QED
    BY <2>1, Amounts, AmountsNext, SumIsNat DEF AmountsOK
<1>3. cash \in Nat /\ FreeCash \in Nat
  BY <1>1, Amounts, AmountsNext DEF MoneyOK, Solvent, FreeCash, AmountsOK
<1>4. ASSUME NEW k \in Keys PROVE tokens[k] \in Nat /\ FreeTokens(k) \in Nat
  BY <1>2, Amounts, AmountsNext DEF TokensType, Solvent, FreeTokens, AmountsOK
<1> QED
  BY <1>3, <1>4

(* Orders end: less is reserved.                                           *)
LEMMA EndingFrees ==
    ASSUME BookType, OrdersOK, TokensType, MoneyOK, Solvent, BookType', OrdersOK',
           OrderIDs' = OrderIDs, UNCHANGED <<tokens, cash>>,
           \A o \in OrderIDs : book'[o] = book[o] \/ book'[o].state = "cancelled"
    PROVE  Solvent'
<1>1. \A o \in OrderIDs' : Live(o)' => Live(o) /\ book'[o] = book[o]
  BY DEF Live
<1>2. ASSUME NEW k \in Keys PROVE FreeTokens(k)' >= 0
  <2>1. Sells(k)' \in SUBSET Sells(k)
    BY <1>1 DEF Sells
  <2>2. \A o \in Sells(k)' : TokensOf[o] = TokensOf'[o]
    <3>1. ASSUME NEW o \in Sells(k)' PROVE Remaining(o) = Remaining(o)' /\ o \in OrderIDs
      BY <1>1 DEF Sells, Remaining
    <3> QED
      BY <3>1, Amounts, AmountsNext DEF TokensOf, AmountsOK
  <2>3. TokensOnSale(k)' = SumFunctionOnSet(TokensOf', Sells(k)')
        /\ TokensOnSale(k)' \in Int /\ IsFiniteSet(Sells(k)')
    BY Amounts, AmountsNext DEF AmountsOK
  <2>4. SumFunctionOnSet(TokensOf, Sells(k)') = SumFunctionOnSet(TokensOf', Sells(k)')
    BY <2>2, <2>3, SumOfEqual
  <2>5. \A o \in Sells(k) : TokensOf[o] \in Nat
    BY Amounts, AmountsNext DEF Sells, AmountsOK
  <2>6. SumFunctionOnSet(TokensOf, Sells(k)') <= SumFunctionOnSet(TokensOf, Sells(k))
    BY <2>1, <2>5, Amounts, AmountsNext, SumShrinks DEF AmountsOK
  <2>7. TokensOnSale(k) = SumFunctionOnSet(TokensOf, Sells(k)) /\ TokensOnSale(k) \in Int
    BY Amounts, AmountsNext DEF AmountsOK
  <2>8. TokensOnSale(k)' <= TokensOnSale(k)
    BY <2>3, <2>4, <2>6, <2>7
  <2> QED
    BY <2>3, <2>7, <2>8 DEF TokensType, Solvent, FreeTokens
<1>3. FreeCash' >= 0
  <2>1. Bids' \in SUBSET Bids
    BY <1>1 DEF Bids
  <2>2. \A o \in Bids' : CashOf[o] = CashOf'[o]
    <3>1. ASSUME NEW o \in Bids'
          PROVE  book[o].price * Remaining(o) = book'[o].price * Remaining(o)' /\ o \in OrderIDs
      BY <1>1 DEF Bids, Remaining
    <3> QED
      BY <3>1, Amounts, AmountsNext DEF CashOf, AmountsOK
  <2>3. CashOffered' = SumFunctionOnSet(CashOf', Bids')
        /\ CashOffered' \in Int /\ IsFiniteSet(Bids')
    BY Amounts, AmountsNext DEF AmountsOK
  <2>4. SumFunctionOnSet(CashOf, Bids') = SumFunctionOnSet(CashOf', Bids')
    BY <2>2, <2>3, SumOfEqual
  <2>5. \A o \in Bids : CashOf[o] \in Nat
    BY Amounts, AmountsNext DEF Bids, AmountsOK
  <2>6. SumFunctionOnSet(CashOf, Bids') <= SumFunctionOnSet(CashOf, Bids)
    BY <2>1, <2>5, Amounts, AmountsNext, SumShrinks DEF AmountsOK
  <2>7. CashOffered = SumFunctionOnSet(CashOf, Bids) /\ CashOffered \in Int
    BY Amounts, AmountsNext DEF AmountsOK
  <2>8. CashOffered' <= CashOffered
    BY <2>3, <2>4, <2>6, <2>7
  <2> QED
    BY <2>3, <2>7, <2>8 DEF MoneyOK, Solvent, FreeCash
<1> QED
  BY <1>2, <1>3 DEF Solvent

(* One order changes, or is new.                                           *)
LEMMA OneOrder ==
    ASSUME BookType, OrdersOK, BookType', OrdersOK', NEW o \in OrderIDs',
           OrderIDs' \ {o} = OrderIDs \ {o},
           \A p \in OrderIDs \ {o} : book'[p] = book[p]
    PROVE  /\ \A k : TokensOnSale(k)' = TokensOnSale(k) - Term(TokensOf, Sells(k), o)
                                                        + Term(TokensOf', Sells(k)', o)
           /\ CashOffered' = CashOffered - Term(CashOf, Bids, o) + Term(CashOf', Bids', o)
<1>1. ASSUME NEW p \in OrderIDs \ {o}
      PROVE  /\ Live(p)' = Live(p) /\ Remaining(p)' = Remaining(p)
             /\ book'[p] = book[p] /\ p \in OrderIDs'
  BY <1>1 DEF Live, Remaining
<1>2. ASSUME NEW k
      PROVE  TokensOnSale(k)' = TokensOnSale(k) - Term(TokensOf, Sells(k), o)
                                                + Term(TokensOf', Sells(k)', o)
  <2>1. Sells(k) \ {o} = Sells(k)' \ {o}
    BY <1>1 DEF Sells
  <2>2. \A p \in Sells(k) \ {o} : TokensOf[p] = TokensOf'[p]
    BY <1>1, Amounts, AmountsNext DEF Sells, AmountsOK
  <2>3. /\ TokensOnSale(k) = SumFunctionOnSet(TokensOf, Sells(k)) /\ IsFiniteSet(Sells(k))
        /\ \A p \in Sells(k) : TokensOf[p] \in Int
    <3>1. TokensOnSale(k) = SumFunctionOnSet(TokensOf, Sells(k)) /\ IsFiniteSet(Sells(k))
      BY Amounts DEF AmountsOK
    <3>2. \A p \in Sells(k) : TokensOf[p] \in Int
      BY Amounts DEF AmountsOK, Sells
    <3> QED
      BY <3>1, <3>2
  <2>4. /\ TokensOnSale(k)' = SumFunctionOnSet(TokensOf', Sells(k)') /\ IsFiniteSet(Sells(k)')
        /\ \A p \in Sells(k)' : TokensOf'[p] \in Int
    <3>1. TokensOnSale(k)' = SumFunctionOnSet(TokensOf', Sells(k)') /\ IsFiniteSet(Sells(k)')
      BY AmountsNext DEF AmountsOK
    <3>2. \A p \in Sells(k)' : TokensOf'[p] \in Int
      BY AmountsNext DEF AmountsOK, Sells
    <3> QED
      BY <3>1, <3>2
  <2> QED
    BY <2>1, <2>2, <2>3, <2>4, SumChange
<1>3. CashOffered' = CashOffered - Term(CashOf, Bids, o) + Term(CashOf', Bids', o)
  <2>1. Bids \ {o} = Bids' \ {o}
    BY <1>1 DEF Bids
  <2>2. \A p \in Bids \ {o} : CashOf[p] = CashOf'[p]
    BY <1>1, Amounts, AmountsNext DEF Bids, AmountsOK
  <2>3. /\ CashOffered = SumFunctionOnSet(CashOf, Bids) /\ IsFiniteSet(Bids)
        /\ \A p \in Bids : CashOf[p] \in Int
    BY Amounts, AmountsNext DEF Bids, AmountsOK
  <2>4. /\ CashOffered' = SumFunctionOnSet(CashOf', Bids') /\ IsFiniteSet(Bids')
        /\ \A p \in Bids' : CashOf'[p] \in Int
    BY Amounts, AmountsNext DEF Bids, AmountsOK
  <2> QED
    BY <2>1, <2>2, <2>3, <2>4, SumChange
<1> QED
  BY <1>2, <1>3

(* A trade moves what was reserved.                                        *)
LEMMA MatchKeepsSolvent ==
    ASSUME BookType, OrdersOK, TokensType, MoneyOK, Solvent, BookType', OrdersOK',
           NEW o \in OrderIDs, NEW n \in Nat, Match(o, n)
    PROVE  Solvent'
<1> DEFINE b == book[o]
<1>1. /\ b \in Order /\ b.filled \in Nat /\ b.size \in Nat /\ b.price \in Nat /\ b.key \in Keys
      /\ b.close \in BOOLEAN /\ b.filled <= b.size
      /\ Live(o) /\ n \in Nat /\ n <= Remaining(o) /\ Remaining(o) \in Nat
  BY OrderTypes, Amounts DEF AmountsOK, OrdersOK, Match
<1>2. /\ DOMAIN book' = DOMAIN book /\ \A p \in OrderIDs \ {o} : book'[p] = book[p]
      /\ book'[o].price = b.price /\ book'[o].size = b.size /\ book'[o].filled = b.filled + n
      /\ book'[o].key = b.key /\ book'[o].close = b.close
      /\ Live(o)' <=> n # Remaining(o)
  BY <1>1 DEF Match, OrderIDs, Order, Live
<1> HIDE DEF b
<1>3. o \in OrderIDs' /\ OrderIDs' \ {o} = OrderIDs \ {o}
  BY <1>2 DEF OrderIDs
<1>4. Remaining(o)' = Remaining(o) - n
  BY <1>1, <1>2 DEF Remaining, b
<1>5. /\ \A k : TokensOnSale(k)' = TokensOnSale(k) - Term(TokensOf, Sells(k), o)
                                                   + Term(TokensOf', Sells(k)', o)
      /\ CashOffered' = CashOffered - Term(CashOf, Bids, o) + Term(CashOf', Bids', o)
  BY <1>2, <1>3, OneOrder
<1>6. /\ TokensOf[o] = Remaining(o) /\ CashOf[o] = b.price * Remaining(o)
      /\ TokensOf'[o] = Remaining(o) - n /\ CashOf'[o] = b.price * (Remaining(o) - n)
  BY <1>2, <1>3, <1>4, Amounts, AmountsNext DEF AmountsOK, b
<1>7. CashOffered \in Int /\ cash \in Int /\ n * b.price \in Nat /\ b.price * Remaining(o) \in Nat
  BY <1>1, ProductIsNat, Amounts DEF AmountsOK, MoneyOK
<1>8. b.price * (Remaining(o) - n) = b.price * Remaining(o) - n * b.price
  BY <1>1
<1>9. ASSUME NEW k \in Keys PROVE FreeTokens(k)' >= 0
  <2>0. TokensOnSale(k) \in Int /\ tokens[k] \in Int /\ tokens[k] - TokensOnSale(k) >= 0
    BY Amounts DEF AmountsOK, TokensType, Solvent, FreeTokens
  <2>1. CASE b.close /\ b.key = k
    <3>1. Term(TokensOf, Sells(k), o) = Remaining(o)
      BY <1>1, <1>6, <2>1 DEF Term, Sells, b
    <3>2. Term(TokensOf', Sells(k)', o) = Remaining(o) - n
      <4>1. o \in Sells(k)' <=> n # Remaining(o)
        BY <1>2, <1>3, <2>1 DEF Sells
      <4> QED
        BY <1>1, <1>6, <4>1 DEF Term
    <3>3. tokens'[k] = tokens[k] - n
      BY <1>1, <2>1 DEF Match, TokensType, b
    <3> QED
      BY <1>1, <1>5, <2>0, <3>1, <3>2, <3>3 DEF FreeTokens
  <2>2. CASE ~(b.close /\ b.key = k)
    <3>1. Term(TokensOf, Sells(k), o) = 0 /\ Term(TokensOf', Sells(k)', o) = 0
      BY <1>2, <2>2 DEF Term, Sells, b
    <3>2. tokens'[k] = tokens[k] \/ tokens'[k] = tokens[k] + n
      BY <1>1, <2>2 DEF Match, TokensType, b
    <3> QED
      BY <1>1, <1>5, <2>0, <3>1, <3>2 DEF FreeTokens
  <2> QED
    BY <2>1, <2>2
<1>10. FreeCash' >= 0
  <2>0. cash - CashOffered >= 0
    BY DEF Solvent, FreeCash
  <2>1. CASE ~b.close
    <3>1. Term(CashOf, Bids, o) = b.price * Remaining(o)
      BY <1>1, <1>6, <2>1 DEF Term, Bids, b
    <3>2. Term(CashOf', Bids', o) = b.price * (Remaining(o) - n)
      <4>1. o \in Bids' <=> n # Remaining(o)
        BY <1>2, <1>3, <2>1 DEF Bids
      <4>2. n = Remaining(o) => b.price * (Remaining(o) - n) = 0
        BY <1>1
      <4> QED
        BY <1>6, <4>1, <4>2 DEF Term
    <3>3. cash' = cash - n * b.price
      BY <2>1 DEF Match, b
    <3> QED
      BY <1>5, <1>7, <1>8, <2>0, <3>1, <3>2, <3>3 DEF FreeCash
  <2>2. CASE b.close
    <3>1. Term(CashOf, Bids, o) = 0 /\ Term(CashOf', Bids', o) = 0
      BY <1>2, <2>2 DEF Term, Bids, b
    <3>2. cash' = cash + n * b.price
      BY <2>2 DEF Match, b
    <3> QED
      BY <1>5, <1>7, <2>0, <3>1, <3>2 DEF FreeCash
  <2> QED
    BY <2>1, <2>2
<1> QED
  BY <1>9, <1>10 DEF Solvent

(* An order is accepted when what it needs is free.                        *)
LEMMA AcceptKeepsSolvent ==
    ASSUME BookType, OrdersOK, TokensType, MoneyOK, Solvent, BookType', OrdersOK',
           UNCHANGED <<tokens, cash>>,
           NEW k \in Keys, NEW close \in BOOLEAN, NEW price \in Nat, NEW size \in Nat,
           Accept(NewOrder(k, close, price, size)),
           IF close THEN size <= FreeTokens(k) ELSE size * price <= FreeCash
    PROVE  Solvent'
<1>1. PICK o :
      /\ OrderIDs' \ {o} = OrderIDs \ {o} /\ o \in OrderIDs' /\ o \notin OrderIDs
      /\ \A p \in OrderIDs \ {o} : book'[p] = book[p]
      /\ book'[o] = NewOrder(k, close, price, size)
  <2>1. book' = Append(book, NewOrder(k, close, price, size)) /\ book \in Seq(Order)
    BY DEF Accept, BookType
  <2>2. /\ Len(book) \in Nat /\ DOMAIN book = 1 .. Len(book) /\ DOMAIN book' = 1 .. Len(book) + 1
        /\ book'[Len(book) + 1] = NewOrder(k, close, price, size)
        /\ \A p \in 1 .. Len(book) : book'[p] = book[p]
    BY <2>1
  <2> QED
    BY <2>2 DEF OrderIDs
<1>2. /\ Live(o)' /\ Remaining(o)' = size /\ book'[o].price = price /\ book'[o].close = close
      /\ book'[o].key = k
  BY <1>1 DEF NewOrder, Live, Remaining
<1>3. /\ \A j : TokensOnSale(j)' = TokensOnSale(j) - Term(TokensOf, Sells(j), o)
                                                   + Term(TokensOf', Sells(j)', o)
      /\ CashOffered' = CashOffered - Term(CashOf, Bids, o) + Term(CashOf', Bids', o)
  BY <1>1, OneOrder
<1>4. /\ \A j : Term(TokensOf, Sells(j), o) = 0
      /\ Term(CashOf, Bids, o) = 0
  BY <1>1 DEF Term, Sells, Bids
<1>5. TokensOf'[o] = size /\ CashOf'[o] = size * price
  BY <1>1, <1>2, AmountsNext DEF AmountsOK
<1>6. ASSUME NEW j \in Keys PROVE FreeTokens(j)' >= 0
  <2>0. /\ TokensOnSale(j) \in Int /\ tokens[j] \in Int /\ tokens[j] - TokensOnSale(j) >= 0
        /\ tokens'[j] = tokens[j]
    BY Amounts DEF AmountsOK, TokensType, Solvent, FreeTokens
  <2>1. CASE close /\ j = k
    <3>1. Term(TokensOf', Sells(j)', o) = size
      BY <1>1, <1>2, <1>5, <2>1 DEF Term, Sells
    <3>2. size <= tokens[j] - TokensOnSale(j)
      BY <2>1 DEF FreeTokens
    <3> QED
      BY <1>3, <1>4, <2>0, <3>1, <3>2 DEF FreeTokens
  <2>2. CASE ~(close /\ j = k)
    <3>1. Term(TokensOf', Sells(j)', o) = 0
      BY <1>2, <2>2 DEF Term, Sells
    <3> QED
      BY <1>3, <1>4, <2>0, <3>1 DEF FreeTokens
  <2> QED
    BY <2>1, <2>2
<1>7. FreeCash' >= 0
  <2>0. /\ CashOffered \in Int /\ cash \in Int /\ cash - CashOffered >= 0 /\ cash' = cash
        /\ size * price \in Nat
    BY ProductIsNat, Amounts DEF AmountsOK, MoneyOK, Solvent, FreeCash
  <2>1. CASE ~close
    <3>1. Term(CashOf', Bids', o) = size * price
      BY <1>1, <1>2, <1>5, <2>1 DEF Term, Bids
    <3>2. size * price <= cash - CashOffered
      BY <2>1 DEF FreeCash
    <3> QED
      BY <1>3, <1>4, <2>0, <3>1, <3>2 DEF FreeCash
  <2>2. CASE close
    <3>1. Term(CashOf', Bids', o) = 0
      BY <1>2, <2>2 DEF Term, Bids
    <3> QED
      BY <1>3, <1>4, <2>0, <3>1 DEF FreeCash
  <2> QED
    BY <2>1, <2>2
<1> QED
  BY <1>6, <1>7 DEF Solvent

(* What a step does to the exchange.                                       *)
LEMMA ExchangeKinds ==
    ASSUME StateInv, [LiveNext]_liveVars
    PROVE  \/ \E o \in OrderIDs : \E n \in 1 .. book[o].size : Match(o, n)
           \/ (\E p \in Prices : PostEntry(p)) /\ UNCHANGED <<tokens, cash>>
           \/ (\E c \in Closers, p \in Prices : CloseAccepted(c, p)) /\ UNCHANGED <<tokens, cash>>
           \/ /\ OrderIDs' = OrderIDs /\ UNCHANGED <<tokens, cash>>
              /\ \A o \in OrderIDs :
                    \/ book'[o] = book[o]
                    \/ book'[o] = [book[o] EXCEPT !.state = "cancelled"]
<1> DEFINE Ends == /\ OrderIDs' = OrderIDs
                   /\ \A o \in OrderIDs :
                         \/ book'[o] = book[o]
                         \/ book'[o] = [book[o] EXCEPT !.state = "cancelled"]
<1>1. ASSUME NEW o \in OrderIDs, CancelOrder(o) \/ ExchangeCancels(o) PROVE Ends
  BY <1>1 DEF CancelOrder, ExchangeCancels, OrderIDs
<1>2. ASSUME NEW m, Resolve(m) PROVE Ends
  BY <1>2 DEF Resolve, OrderIDs
<1>3. ASSUME UNCHANGED book PROVE Ends
  BY <1>3 DEF OrderIDs
<1> HIDE DEF Ends
<1>4. \/ \E o \in OrderIDs : \E n \in 1 .. book[o].size : Match(o, n)
      \/ (\E p \in Prices : PostEntry(p)) /\ UNCHANGED <<tokens, cash>>
      \/ (\E c \in Closers, p \in Prices : CloseAccepted(c, p)) /\ UNCHANGED <<tokens, cash>>
      \/ Ends /\ UNCHANGED <<tokens, cash>>
  BY <1>1, <1>2, <1>3, Zenon
     DEF LiveNext, liveVars, exchangeVars, Signals, AdmitEntry, RefuseEntry, CloseSignal,
         CloseSignalUnknown, EntryStep, PostEntry, FailEntry, OpenEntry, RecordEntry,
         StartHaltClose, StartTeardown, CloserStep, TakePosition, Finish, CloseAccepted,
         CloseShort, CloseResolved, RecordForcedClose, CloseFails, MonitorPoll, MonitorEnd,
         MonitorEntryFilled, MonitorCloseFilled, MonitorCancelled, MonitorPartialKeep,
         MonitorPartialSeen, MonitorCtxDone, MonitorTimeout, MonitorPartialCancel,
         MonitorRecordClose, RefreshBalance, Exchange, ExchangeCancels, Resolve,
         ResumeTrading, Midnight
<1> QED
  BY <1>4 DEF Ends

LEMMA OrdersStep ==
    ASSUME StateInv, OrdersOK, [LiveNext]_liveVars
    PROVE  OrdersOK'
<1>1. /\ book \in Seq(Order) /\ OrderIDs = 1 .. Len(book) /\ Len(book) \in Nat /\ BookType
      /\ DOMAIN book = OrderIDs
  BY DEF StateInv, BookType, OrderIDs
<1>2. ASSUME NEW o \in OrderIDs, NEW n \in 1 .. book[o].size, Match(o, n) PROVE OrdersOK'
  <2>1. /\ book[o] \in Order /\ book[o].filled \in Nat /\ book[o].size \in Nat /\ n \in Nat
        /\ n <= book[o].size - book[o].filled
    BY <1>1, <1>2, OrderTypes DEF Match, Remaining
  <2>2. /\ OrderIDs' = OrderIDs /\ \A p \in OrderIDs \ {o} : book'[p] = book[p]
        /\ book'[o].price = book[o].price /\ book'[o].size = book[o].size
        /\ book'[o].filled = book[o].filled + n
    BY <1>1, <1>2, <2>1 DEF Match, OrderIDs, Order
  <2>3. book[o].filled + n <= book[o].size
    BY <2>1
  <2> QED
    BY <2>2, <2>3 DEF OrdersOK
<1>3. ASSUME NEW k, NEW close, NEW price \in Prices, NEW size \in Nat,
             Accept(NewOrder(k, close, price, size))
      PROVE  OrdersOK'
  <2>1. book' = Append(book, NewOrder(k, close, price, size))
    BY <1>3 DEF Accept
  <2>2. /\ DOMAIN book' = 1 .. Len(book) + 1
        /\ book'[Len(book) + 1] = NewOrder(k, close, price, size)
        /\ \A p \in 1 .. Len(book) : book'[p] = book[p]
    BY <1>1, <2>1
  <2>3. NewOrder(k, close, price, size).price \in Prices
        /\ NewOrder(k, close, price, size).filled <= NewOrder(k, close, price, size).size
    BY <1>3 DEF NewOrder
  <2>4. ASSUME NEW p \in OrderIDs' PROVE book'[p].price \in Prices /\ book'[p].filled <= book'[p].size
    BY <1>1, <2>2, <2>3 DEF OrdersOK, OrderIDs
  <2> QED
    BY <2>4 DEF OrdersOK
<1>4. ASSUME NEW p \in Prices, PostEntry(p) PROVE OrdersOK'
  <2> DEFINE contracts == Larger(exec.size \div p, MinContracts)
  <2>1. exec.size \in Nat /\ p \in Nat /\ p > 0 /\ MinContracts \in Nat
    BY <1>1, <1>4, ExecTypes, LiveConfig DEF StateInv, PostEntry, LiveConfig
  <2>2. contracts \in Nat
    BY <2>1 DEF Larger
  <2>3. Accept(NewOrder(exec.key, FALSE, p, contracts))
    BY <1>4 DEF PostEntry
  <2> HIDE DEF contracts
  <2> QED
    BY <1>3, <2>2, <2>3
<1>5. ASSUME NEW c \in Closers, NEW p \in Prices, CloseAccepted(c, p) PROVE OrdersOK'
  <2>1. closer[c].sell \in Nat
    BY <1>5, CloserTypes DEF StateInv, CloseAccepted, Posting
  <2>2. Accept(NewOrder(closer[c].key, TRUE, p, closer[c].sell))
    BY <1>5 DEF CloseAccepted
  <2> QED
    BY <1>3, <2>1, <2>2
<1>6. ASSUME OrderIDs' = OrderIDs,
             \A o \in OrderIDs : \/ book'[o] = book[o]
                                 \/ book'[o] = [book[o] EXCEPT !.state = "cancelled"]
      PROVE  OrdersOK'
  <2>1. ASSUME NEW o \in OrderIDs PROVE book'[o].price \in Prices /\ book'[o].filled <= book'[o].size
    <3>1. book[o] \in Order
      BY <1>1, OrderTypes
    <3>2. /\ [book[o] EXCEPT !.state = "cancelled"].price = book[o].price
          /\ [book[o] EXCEPT !.state = "cancelled"].filled = book[o].filled
          /\ [book[o] EXCEPT !.state = "cancelled"].size = book[o].size
      BY <3>1 DEF Order
    <3>3. /\ book'[o].price = book[o].price /\ book'[o].filled = book[o].filled
          /\ book'[o].size = book[o].size
      BY <1>6, <3>2
    <3> QED
      BY <3>3 DEF OrdersOK
  <2> QED
    BY <1>6, <2>1 DEF OrdersOK
<1> QED
  BY <1>2, <1>4, <1>5, <1>6, ExchangeKinds, Zenon

LEMMA SolventStep ==
    ASSUME StateInv, OrdersOK, MoneyOK, Solvent, [LiveNext]_liveVars
    PROVE  Solvent'
<1>1. BookType /\ TokensType /\ BookType' /\ OrdersOK'
  BY BookStep, OrdersStep DEF StateInv
<1>2. ASSUME NEW o \in OrderIDs, NEW n \in 1 .. book[o].size, Match(o, n) PROVE Solvent'
  <2>1. n \in Nat
    BY <1>1, OrderTypes
  <2> QED
    BY <1>1, <1>2, <2>1, MatchKeepsSolvent
<1>3. ASSUME NEW p \in Prices, PostEntry(p), UNCHANGED <<tokens, cash>> PROVE Solvent'
  <2> DEFINE contracts == Larger(exec.size \div p, MinContracts)
  <2>1. exec.key \in Keys /\ exec.size \in Nat /\ p \in Nat /\ p > 0 /\ MinContracts \in Nat
    BY <1>1, <1>3, ExecTypes, LiveConfig DEF StateInv, PostEntry, LiveConfig
  <2>2. contracts \in Nat
    BY <2>1 DEF Larger
  <2>3. Accept(NewOrder(exec.key, FALSE, p, contracts)) /\ contracts * p <= FreeCash
    BY <1>3 DEF PostEntry
  <2> HIDE DEF contracts
  <2> QED
    BY <1>1, <1>3, <2>1, <2>2, <2>3, AcceptKeepsSolvent
<1>4. ASSUME NEW c \in Closers, NEW p \in Prices, CloseAccepted(c, p), UNCHANGED <<tokens, cash>>
      PROVE  Solvent'
  <2>1. closer[c].key \in Keys /\ closer[c].sell \in Nat /\ p \in Nat
    BY <1>4, CloserTypes, LiveConfig DEF StateInv, CloseAccepted, Posting, LiveConfig
  <2>2. /\ Accept(NewOrder(closer[c].key, TRUE, p, closer[c].sell))
        /\ closer[c].sell <= FreeTokens(closer[c].key)
    BY <1>4 DEF CloseAccepted
  <2> QED
    BY <1>1, <1>4, <2>1, <2>2, AcceptKeepsSolvent
<1>5. ASSUME OrderIDs' = OrderIDs, UNCHANGED <<tokens, cash>>,
             \A o \in OrderIDs : \/ book'[o] = book[o]
                                 \/ book'[o] = [book[o] EXCEPT !.state = "cancelled"]
      PROVE  Solvent'
  <2>1. ASSUME NEW o \in OrderIDs PROVE [book[o] EXCEPT !.state = "cancelled"].state = "cancelled"
    BY <1>1, OrderTypes DEF Order
  <2> QED
    BY <1>1, <1>5, <2>1, EndingFrees
<1> QED
  BY <1>2, <1>3, <1>4, <1>5, ExchangeKinds, Zenon

LEMMA MoneyStep ==
    ASSUME StateInv, MoneyOK, [LiveNext]_liveVars
    PROVE  MoneyOK'
<1>1. cash \in Int /\ balance \in Int /\ BookType
  BY DEF StateInv, MoneyOK
<1>2. ASSUME NEW o \in OrderIDs
      PROVE  book[o].price * book[o].filled \in Nat /\ \A n \in Nat : n * book[o].price \in Nat
  BY <1>1, OrderTypes, ProductIsNat
<1>3. ASSUME NEW o \in OrderIDs, NEW n \in 1 .. book[o].size, Match(o, n) PROVE MoneyOK'
  <2>1. n * book[o].price \in Nat
    BY <1>1, <1>2, OrderTypes
  <2>2. balance' = balance /\ (cash' = cash + n * book[o].price \/ cash' = cash - n * book[o].price)
    BY <1>3 DEF Match
  <2> QED
    BY <1>1, <2>1, <2>2 DEF MoneyOK
<1>4. ASSUME NEW o \in OrderIDs, MonitorEntryFilled(o) \/ MonitorCloseFilled(o) PROVE MoneyOK'
  <2>1. cash' = cash /\ \/ balance' = balance - book[o].price * book[o].filled
                        \/ balance' = balance + book[o].price * book[o].filled
    BY <1>4 DEF MonitorEntryFilled, MonitorCloseFilled, exchangeVars
  <2> QED
    BY <1>1, <1>2, <2>1 DEF MoneyOK
<1>5. ASSUME UNCHANGED cash, UNCHANGED balance \/ MaybeRefreshBalance \/ RefreshBalance PROVE MoneyOK'
  BY <1>1, <1>5 DEF MoneyOK, MaybeRefreshBalance, RefreshBalance
<1> QED
  BY <1>3, <1>4, <1>5, Zenon
     DEF LiveNext, liveVars, exchangeVars, Signals, AdmitEntry, RefuseEntry, CloseSignal,
         CloseSignalUnknown, EntryStep, PostEntry, FailEntry, OpenEntry, RecordEntry,
         StartHaltClose, StartTeardown, CloserStep, TakePosition, Finish, CloseAccepted,
         CloseShort, CloseResolved, RecordForcedClose, CloseFails, MonitorPoll, MonitorEnd,
         MonitorCancelled, MonitorPartialKeep, MonitorPartialSeen, MonitorCtxDone,
         MonitorTimeout, MonitorPartialCancel, MonitorRecordClose, RefreshBalance, Exchange,
         ExchangeCancels, Resolve, ResumeTrading, Midnight

LEMMA ResolvedStep ==
    ASSUME resolved \subseteq Markets, [LiveNext]_liveVars
    PROVE  resolved' \subseteq Markets
<1>1. ASSUME NEW m \in Markets, Resolve(m) PROVE resolved' \subseteq Markets
  BY <1>1 DEF Resolve
<1> QED
  BY <1>1, Zenon
     DEF LiveNext, liveVars, exchangeVars, Signals, AdmitEntry, RefuseEntry, CloseSignal,
         CloseSignalUnknown, EntryStep, PostEntry, FailEntry, OpenEntry, RecordEntry,
         StartHaltClose, StartTeardown, CloserStep, TakePosition, Finish, CloseAccepted,
         CloseShort, CloseResolved, RecordForcedClose, CloseFails, MonitorPoll, MonitorEnd,
         MonitorEntryFilled, MonitorCloseFilled, MonitorCancelled, MonitorPartialKeep,
         MonitorPartialSeen, MonitorCtxDone, MonitorTimeout, MonitorPartialCancel,
         MonitorRecordClose, RefreshBalance, Exchange, ExchangeCancels, Match, ResumeTrading,
         Midnight

(* What strategies are told.                                               *)
LEMMA ToldStep ==
    ASSUME ToldOK, [LiveNext]_liveVars
    PROVE  ToldOK'
<1>1. ASSUME NEW k, Tell(k, "none") \/ Tell(k, "pending") \/ Tell(k, "open") \/ Tell(k, "closed")
      PROVE  ToldOK'
  <2>1. PICK s \in {"none", "pending", "open", "closed"} : told' = [told EXCEPT ![k] = s]
    BY <1>1 DEF Tell
  <2> QED
    BY <2>1 DEF ToldOK
<1>2. ASSUME UNCHANGED told PROVE ToldOK'
  BY <1>2 DEF ToldOK
<1>3. ASSUME Signals \/ EntryStep PROVE ToldOK'
  BY <1>1, <1>2, <1>3, Zenon
     DEF Signals, AdmitEntry, RefuseEntry, CloseSignal, CloseSignalUnknown, EntryStep,
         PostEntry, FailEntry, OpenEntry, RecordEntry
<1>4. ASSUME NEW c \in Closers, CloserStep(c) PROVE ToldOK'
  BY <1>1, <1>2, <1>4, Zenon
     DEF CloserStep, TakePosition, Finish, CloseAccepted, TellFailure, CloseShort, ForceClose,
         CloseResolved, RecordForcedClose, CloseFails
<1>5. ASSUME NEW o \in OrderIDs, MonitorPoll(o) \/ MonitorEnd(o) PROVE ToldOK'
  BY <1>1, <1>2, <1>5, Zenon
     DEF MonitorPoll, MonitorEnd, MonitorEntryFilled, MonitorCloseFilled, MonitorCancelled,
         MonitorPartialKeep, MonitorPartialSeen, MonitorCtxDone, MonitorTimeout,
         MonitorPartialCancel, MonitorRecordClose
<1> QED
  BY <1>2, <1>3, <1>4, <1>5, Zenon
     DEF LiveNext, liveVars, exchangeVars, StartHaltClose, StartTeardown, RefreshBalance,
         Exchange, ExchangeCancels, Match, Resolve, ResumeTrading, Midnight

(* Prices and order numbers in the ledger are those of orders.             *)
Entered(pos) ==
    pos # NoPosition => pos.entryPrice \in Prices /\ pos.order \in OrderIDs \cup {NoOrder}

LEMMA LedgerKeepsEntries ==
    ASSUME NEW ps \in [Keys -> {NoPosition} \cup Position], NEW k \in Keys,
           \A j \in Keys : Entered(ps[j])
    PROVE  /\ \A j \in Keys : Entered(ClosePosition(ps, k)[j])
           /\ \A n : \A j \in Keys : Entered(UpdatePositionSize(ps, k, n)[j])
<1>1. ps[k] # NoPosition => ps[k] \in Position
  OBVIOUS
<1>2. ASSUME ps[k] \in Position, ps[k] # NoPosition
      PROVE  /\ Entered([ps[k] EXCEPT !.status = "closed", !.order = NoOrder])
             /\ \A n : Entered([ps[k] EXCEPT !.size = n])
  <2>1. ps[k].entryPrice \in Prices /\ ps[k].order \in OrderIDs \cup {NoOrder}
    BY <1>2 DEF Entered
  <2>2. /\ [ps[k] EXCEPT !.status = "closed", !.order = NoOrder].entryPrice = ps[k].entryPrice
        /\ [ps[k] EXCEPT !.status = "closed", !.order = NoOrder].order = NoOrder
        /\ \A n : /\ [ps[k] EXCEPT !.size = n].entryPrice = ps[k].entryPrice
                  /\ [ps[k] EXCEPT !.size = n].order = ps[k].order
    BY <1>2 DEF Position
  <2> QED
    BY <2>1, <2>2 DEF Entered
<1>3. ASSUME NEW j \in Keys PROVE Entered(ClosePosition(ps, k)[j])
  <2>1. ClosePosition(ps, k) =
           IF ps[k] = NoPosition THEN ps
           ELSE [ps EXCEPT ![k] = [ps[k] EXCEPT !.status = "closed", !.order = NoOrder]]
    BY DEF ClosePosition
  <2>2. ClosePosition(ps, k)[j] =
           IF ps[k] # NoPosition /\ j = k
           THEN [ps[k] EXCEPT !.status = "closed", !.order = NoOrder] ELSE ps[j]
    BY <2>1
  <2> QED
    BY <1>1, <1>2, <2>2
<1>4. ASSUME NEW n, NEW j \in Keys PROVE Entered(UpdatePositionSize(ps, k, n)[j])
  <2>1. UpdatePositionSize(ps, k, n) =
           IF ps[k] = NoPosition THEN ps
           ELSE [ps EXCEPT ![k] = [ps[k] EXCEPT !.size = n]]
    BY DEF UpdatePositionSize
  <2>2. UpdatePositionSize(ps, k, n)[j] =
           IF ps[k] # NoPosition /\ j = k THEN [ps[k] EXCEPT !.size = n] ELSE ps[j]
    BY <2>1
  <2> QED
    BY <1>1, <1>2, <2>2
<1> QED
  BY <1>3, <1>4

LEMMA EntriesStep ==
    ASSUME StateInv, OrdersOK, EntriesOK, [LiveNext]_liveVars
    PROVE  EntriesOK'
<1> DEFINE Fine(ps) == \A j \in Keys : Entered(ps[j])
<1>0. /\ positions \in [Keys -> {NoPosition} \cup Position] /\ Fine(positions)
      /\ BookType /\ CloserType /\ TokensType
  BY DEF StateInv, LedgerType, EntriesOK, Entered
<1>1. OrderIDs \subseteq OrderIDs'
  BY BookStep DEF BookGrows
<1>2. Fine(positions') => EntriesOK'
  BY <1>1 DEF Entered, EntriesOK
<1>3. ASSUME NEW k \in Keys
      PROVE  /\ Fine(ClosePosition(positions, k))
             /\ \A n : Fine(UpdatePositionSize(positions, k, n))
             /\ \A n \in Nat : Fine(ClosePosition(UpdatePositionSize(positions, k, n), k))
  BY <1>0, LedgerKeepsEntries, LedgerMethods
<1>4. ASSUME OpenEntry PROVE Fine(positions')
  <2> DEFINE pos == PositionOf(book[exec.order].price, book[exec.order].size, exec.order)
  <2>1. exec.order \in OrderIDs /\ exec.key \in Keys
    BY <1>4, ExecTypes DEF StateInv, OpenEntry
  <2>2. Entered(pos)
    BY <2>1 DEF OrdersOK, Entered, PositionOf
  <2>3. positions' = OpenPosition(positions, exec.key, pos)
    BY <1>4 DEF OpenEntry
  <2> HIDE DEF pos
  <2> QED
    BY <1>0, <2>1, <2>2, <2>3 DEF OpenPosition
<1> HIDE DEF Fine
<1>5. ASSUME NEW c \in Closers, CloserStep(c) PROVE Fine(positions')
  <2> DEFINE k == closer[c].key
  <2>1. ASSUME CloseShort(c) PROVE Fine(positions')
    <3>1. k \in Keys
      BY <1>0, <2>1, CloserTypes DEF CloseShort
    <3>2. /\ tokens[k] > 0
          /\ \/ positions' = UpdatePositionSize(positions, k, tokens[k])
             \/ positions' = ClosePosition(UpdatePositionSize(positions, k, tokens[k]), k)
      BY <2>1 DEF CloseShort, ForceClose
    <3>3. tokens[k] \in Nat
      BY <1>0, <3>1, <3>2 DEF TokensType
    <3> QED
      BY <1>3, <3>1, <3>2, <3>3
  <2>2. ASSUME CloseResolved(c) PROVE Fine(positions')
    <3>1. k \in Keys /\ positions' = ClosePosition(positions, k)
      BY <1>0, <2>2, CloserTypes DEF CloseResolved, Posting, ForceClose
    <3> QED
      BY <1>3, <3>1
  <2>3. ASSUME UNCHANGED positions PROVE Fine(positions')
    BY <1>0, <2>3
  <2> QED
    BY <1>5, <2>1, <2>2, <2>3, Zenon
       DEF CloserStep, TakePosition, Finish, CloseAccepted, RecordForcedClose, CloseFails
<1>6. ASSUME NEW o \in OrderIDs, MonitorPoll(o) \/ MonitorEnd(o) PROVE Fine(positions')
  <2>1. book[o].key \in Keys
    BY <1>0, OrderTypes
  <2>2. \/ UNCHANGED positions
        \/ positions' = ClosePosition(positions, book[o].key)
        \/ \E n : positions' = UpdatePositionSize(positions, book[o].key, n)
    BY <1>6, Zenon
       DEF MonitorPoll, MonitorEnd, MonitorEntryFilled, MonitorCloseFilled, MonitorCancelled,
           MonitorPartialKeep, MonitorPartialSeen, MonitorCtxDone, MonitorTimeout,
           MonitorPartialCancel, MonitorRecordClose
  <2> QED
    BY <1>0, <1>3, <2>1, <2>2
<1>7. ASSUME UNCHANGED positions PROVE Fine(positions')
  BY <1>0, <1>7
<1> QED
  BY <1>2, <1>4, <1>5, <1>6, <1>7, Zenon
     DEF LiveNext, liveVars, Signals, AdmitEntry, RefuseEntry, CloseSignal, CloseSignalUnknown,
         EntryStep, PostEntry, FailEntry, RecordEntry, StartHaltClose, StartTeardown,
         RefreshBalance, Exchange, ExchangeCancels, Match, Resolve, ResumeTrading, Midnight

LEMMA TypeInit == LiveInit => TypeInv
<1> SUFFICES ASSUME LiveInit PROVE TypeInv
  OBVIOUS
<1>1. LiveInv
  BY InitInv
<1>2. book = <<>> /\ OrderIDs = {} /\ BookType
  BY <1>1 DEF LiveInit, OrderIDs, LiveInv, StateInv
<1>3. OrdersOK
  BY <1>2 DEF OrdersOK
<1>4. MoneyOK /\ StartingCash \in Nat
  BY LiveConfig DEF LiveInit, MoneyOK, LiveConfig
<1>5. Solvent
  <2>1. Bids = {} /\ \A k : Sells(k) = {}
    BY <1>2 DEF Bids, Sells
  <2>2. CashOffered = 0 /\ \A k : TokensOnSale(k) = 0
    BY <1>2, <1>3, <2>1, Amounts, SumEmpty DEF AmountsOK
  <2> QED
    BY <1>4, <2>2 DEF LiveInit, Solvent, FreeTokens, FreeCash
<1>6. EntriesOK /\ ToldOK /\ resolved \subseteq Markets
  BY DEF LiveInit, EntriesOK, ToldOK
<1> QED
  BY <1>1, <1>3, <1>4, <1>5, <1>6 DEF TypeInv

LEMMA TypeStep ==
    ASSUME TypeInv, [LiveNext]_liveVars
    PROVE  TypeInv'
<1>1. LiveInv /\ StateInv
  BY DEF TypeInv, LiveInv
<1>2. LiveInv'
  BY <1>1, InvStep
<1> QED
  BY <1>1, <1>2, OrdersStep, MoneyStep, SolventStep, EntriesStep, ToldStep, ResolvedStep DEF TypeInv

LEMMA TypeInvImplies == TypeInv => LiveTypeOK
<1> SUFFICES ASSUME TypeInv PROVE LiveTypeOK
  OBVIOUS
<1>0. /\ RiskTypeOK /\ LedgerType /\ BookType /\ TokensType /\ ExecType /\ CloserType /\ MonitorType
      /\ OrdersOK /\ MoneyOK /\ Solvent /\ EntriesOK /\ ToldOK /\ resolved \subseteq Markets
  BY DEF TypeInv, LiveInv, StateInv
<1>1. /\ cash \in Nat /\ FreeCash \in Nat /\ balance \in Int
      /\ \A k \in Keys : tokens[k] \in Nat /\ FreeTokens(k) \in Nat
  BY <1>0, ReservedIsThere DEF MoneyOK
<1>2. \A k \in Keys : positions[k] # NoPosition =>
         /\ positions[k].status \in {"open", "closed"} /\ positions[k].size \in Nat
         /\ positions[k].entryPrice \in Prices /\ positions[k].order \in OrderIDs \cup {NoOrder}
  BY <1>0 DEF LedgerType, EntriesOK, Position
<1>3. \A k \in Keys : told[k] \in {"none", "pending", "open", "closed"}
  BY <1>0 DEF ToldOK
<1>4. exec.pc \in {"idle", "submit", "posted", "opened"}
  BY <1>0 DEF ExecType, ExecState, IdleExec
<1>5. \A c \in Closers : /\ closer[c].pc \in {"idle", "loop", "post", "repost", "record"}
                         /\ closer[c].pc # "idle" => closer[c].todo \subseteq Keys
  BY <1>0, CloserTypes DEF CloserState, IdleCloser
<1>6. DOMAIN monitors = OrderIDs
  BY <1>0 DEF MonitorType, BookType, OrderIDs
<1>7. \A o \in OrderIDs : book[o].filled \in 0 .. book[o].size
  BY <1>0, OrderTypes DEF OrdersOK
<1>8. \A k \in Keys :
         /\ positions[k] # NoPosition =>
               /\ positions[k].status \in {"open", "closed"}
               /\ positions[k].entryPrice \in Prices
               /\ positions[k].size \in Nat
               /\ positions[k].order \in OrderIDs \cup {NoOrder}
         /\ FreeTokens(k) \in Nat
         /\ tokens[k] \in Nat
         /\ told[k] \in {"none", "pending", "open", "closed"}
  BY <1>1, <1>2, <1>3
<1> QED
  BY <1>0, <1>1, <1>4, <1>5, <1>6, <1>7, <1>8 DEF LiveTypeOK

(* The executor's and the exchange's state keep their types, whatever      *)
(* faults there are; in particular live orders never put up more tokens or *)
(* USDC than there are, although three kinds of goroutine place orders     *)
(* from views of the balances that may be old.                             *)
THEOREM LiveTypeCorrect == LiveSpec => []LiveTypeOK
<1>1. TypeInv /\ [LiveNext]_liveVars => TypeInv'
  BY TypeStep
<1> QED
  BY <1>1, TypeInit, TypeInvImplies, PTL DEF LiveSpec
----------------------------------------------------------------------------
(* The refinement.  RiskGate's operators on the same variables are those   *)
(* of the executor.                                                        *)
LEMMA SameCheck ==
    ASSUME NEW s, NEW m, NEW size
    PROVE  /\ CheckPasses(s, m, size) => RG!CheckPasses(s, m, size)
           /\ CheckRejects(s, m, size) => RG!CheckRejects(s, m, size)
BY DEF CheckPasses, CheckRejects, WithinLimits, ResetDay, TradesToday, exposureVars, pnlVars,
       haltVars, dayVars, RG!CheckPasses, RG!CheckRejects, RG!WithinLimits, RG!ResetDay,
       RG!TradesToday, RG!exposureVars, RG!pnlVars, RG!haltVars, RG!dayVars

LEMMA SameRecordClose ==
    ASSUME NEW m, NEW size, NEW pnl, RecordClose(m, size, pnl)
    PROVE  RG!RecordClose(m, size, pnl)
BY Zenon DEF RecordClose, Less, Larger, TriggerHalt, DrawdownReached, haltVars, dayVars,
       RG!RecordClose, RG!Less, RG!Larger, RG!TriggerHalt, RG!DrawdownReached, RG!haltVars,
       RG!dayVars

LEMMA InitIsInit == LiveInit => RG!GateInit
BY DEF LiveInit, IdleExec, RiskInit, RG!GateInit, RG!RiskInit

(* The entry in flight, as ImplementsRiskGate sees it.                     *)
Inflight ==
    IF exec.pc = "idle" THEN NoEntry
    ELSE [strategy |-> Strategy(exec.key), market |-> Market(exec.key), size |-> exec.size]

EntryOf(k, size) == [strategy |-> Strategy(k), market |-> Market(k), size |-> size]

LEMMA EntryIsEntry ==
    ASSUME NEW k \in Keys, NEW size \in Sizes
    PROVE  EntryOf(k, size) \in RG!Entries /\ EntryOf(k, size) # NoEntry
<1>1. /\ k \in Strategies \X Markets
      /\ NoEntry \notin [strategy : Strategies, market : Markets, size : Sizes]
  BY LiveConfig DEF LiveConfig
<1>2. EntryOf(k, size) \in [strategy : Strategies, market : Markets, size : Sizes]
  BY <1>1 DEF EntryOf, Strategy, Market
<1> QED
  BY <1>1, <1>2 DEF RG!Entries

LEMMA InflightIsEntry ==
    ASSUME StateInv, exec.pc # "idle"
    PROVE  Inflight = EntryOf(exec.key, exec.size) /\ Inflight # NoEntry
BY ExecTypes, EntryIsEntry DEF StateInv, Inflight, EntryOf

LEMMA StepIsStep ==
    ASSUME Unbounded, LiveInv, LiveInv', [LiveNext]_liveVars
    PROVE  [RG!GateNext]_(RG!gateVars)
<1>1. RiskTypeOK /\ StateInv /\ RiskTypeOK' /\ StateInv'
  BY DEF LiveInv
<1>2. ASSUME NEW k \in Keys, NEW size \in Sizes, AdmitEntry(k, size) PROVE RG!GateNext
  <2>1. Inflight = NoEntry /\ CheckPasses(Strategy(k), Market(k), size)
    BY <1>2 DEF AdmitEntry, RunLoopIdle, Inflight
  <2>2. Inflight' = EntryOf(k, size)
    BY <1>2 DEF AdmitEntry, Inflight, EntryOf
  <2>3. RG!Admit(EntryOf(k, size))
    <3>1. RG!CheckPasses(EntryOf(k, size).strategy, EntryOf(k, size).market, EntryOf(k, size).size)
      BY <2>1, SameCheck DEF EntryOf
    <3> QED
      BY <2>1, <2>2, <3>1 DEF RG!Admit, Inflight
  <2> QED
    BY <2>3, EntryIsEntry DEF RG!GateNext
<1>3. ASSUME NEW k \in Keys, NEW size \in Sizes, RefuseEntry(k, size) PROVE RG!GateNext
  <2>1. /\ Inflight = NoEntry /\ CheckRejects(Strategy(k), Market(k), size)
        /\ Inflight' = Inflight
    BY <1>3 DEF RefuseEntry, RunLoopIdle, Inflight
  <2>2. RG!Refuse(EntryOf(k, size))
    <3>1. RG!CheckRejects(EntryOf(k, size).strategy, EntryOf(k, size).market, EntryOf(k, size).size)
      BY <2>1, SameCheck DEF EntryOf
    <3> QED
      BY <2>1, <3>1 DEF RG!Refuse, Inflight
  <2> QED
    BY <2>2, EntryIsEntry DEF RG!GateNext
<1>4. ASSUME exec.pc # "idle", exec' = IdleExec, UNCHANGED riskVars PROVE RG!GateNext
  <2>1. Inflight # NoEntry /\ Inflight' = NoEntry
    BY <1>1, <1>4, InflightIsEntry DEF Inflight, IdleExec
  <2>2. RG!Abandon
    BY <1>4, <2>1 DEF RG!Abandon, Inflight, riskVars, RG!riskVars
  <2> QED
    BY <2>2 DEF RG!GateNext
<1>5. ASSUME UNCHANGED riskVars, Inflight' = Inflight PROVE UNCHANGED RG!gateVars
  BY <1>5 DEF RG!gateVars, RG!riskVars, riskVars, Inflight
<1>6. ASSUME RecordEntry PROVE RG!GateNext
  <2>1. Inflight = EntryOf(exec.key, exec.size) /\ Inflight # NoEntry /\ Inflight' = NoEntry
    BY <1>1, <1>6, InflightIsEntry DEF RecordEntry, Inflight, IdleExec
  <2>2. Inflight.market = Market(exec.key) /\ Inflight.size = exec.size
    BY <2>1 DEF EntryOf
  <2>3. RG!RecordOpen(Inflight.market, Inflight.size)
    BY <1>6, <2>2 DEF RecordEntry, RecordOpen, pnlVars, haltVars,
                      RG!RecordOpen, RG!pnlVars, RG!haltVars
  <2>4. RG!Open
    BY <2>1, <2>3 DEF RG!Open, Inflight
  <2> QED
    BY <2>4 DEF RG!GateNext
<1>7. ASSUME NEW k \in Keys, NEW size \in Nat, NEW pnl \in Int,
             RecordClose(Market(k), size, pnl), UNCHANGED exec
      PROVE  RG!GateNext
  <2>1. Market(k) \in Markets
    BY LiveConfig DEF LiveConfig, Market
  <2>2. sessionPnL' \in Int /\ peakBalance' \in Nat
    BY <1>1 DEF RiskTypeOK, CountersOK
  <2>3. RG!Close(Market(k), size, pnl)
    BY <1>7, <2>2, SameRecordClose DEF Unbounded, RG!Close
  <2> QED
    BY <2>1, <2>3 DEF Unbounded, RG!GateNext
<1>8. ASSUME NEW c \in HaltClosers, StartHaltClose(c) PROVE RG!GateNext
  BY <1>8 DEF StartHaltClose, HaltCallbackStarts, exposureVars, pnlVars, dayVars,
              RG!StartHaltCallback, RG!HaltCallbackStarts, RG!exposureVars, RG!pnlVars,
              RG!dayVars, RG!GateNext
<1>9. ASSUME ResumeTrading PROVE RG!GateNext
  BY <1>9 DEF ResumeTrading, Resume, exposureVars, pnlVars, dayVars,
              RG!ResumeTrading, RG!Resume, RG!exposureVars, RG!pnlVars, RG!dayVars, RG!GateNext
<1>10. ASSUME Midnight PROVE RG!GateNext
  BY <1>10 DEF Midnight, NextDay, exposureVars, pnlVars, dayVars, haltVars,
               RG!Midnight, RG!NextDay, RG!exposureVars, RG!pnlVars, RG!dayVars, RG!haltVars,
               RG!GateNext
<1>11. ASSUME EntryStep PROVE RG!GateNext \/ UNCHANGED RG!gateVars
  <2>1. ASSUME FailEntry PROVE RG!GateNext
    BY <1>4, <2>1 DEF FailEntry
  <2>2. ASSUME NEW p \in Prices, PostEntry(p) PROVE RG!GateNext \/ UNCHANGED RG!gateVars
    <3>1. /\ UNCHANGED riskVars /\ exec.pc = "submit"
          /\ \/ exec' = IdleExec
             \/ exec' = [pc |-> "posted", key |-> exec.key, size |-> exec.size,
                         order |-> Len(book')]
      BY <2>2 DEF PostEntry
    <3>2. CASE exec' = IdleExec
      BY <1>4, <3>1, <3>2
    <3>3. CASE exec' = [pc |-> "posted", key |-> exec.key, size |-> exec.size,
                        order |-> Len(book')]
      <4>1. Inflight' = Inflight
        BY <3>1, <3>3 DEF Inflight
      <4> QED
        BY <1>5, <3>1, <4>1
    <3> QED
      BY <3>1, <3>2, <3>3
  <2>3. ASSUME OpenEntry PROVE RG!GateNext \/ UNCHANGED RG!gateVars
    <3>1. /\ UNCHANGED riskVars /\ exec.pc = "posted"
          /\ exec' = IdleExec \/ exec' = [exec EXCEPT !.pc = "opened"]
      BY <2>3 DEF OpenEntry
    <3>2. CASE exec' = IdleExec
      BY <1>4, <3>1, <3>2
    <3>3. CASE exec' = [exec EXCEPT !.pc = "opened"]
      <4>1. exec \in [pc : {"posted", "opened"}, key : Keys, size : Sizes, order : Nat]
        BY <1>1, <3>1, ExecTypes DEF StateInv
      <4>2. exec'.pc = "opened" /\ exec'.key = exec.key /\ exec'.size = exec.size
        BY <3>3, <4>1
      <4>3. Inflight' = Inflight
        BY <3>1, <4>2 DEF Inflight
      <4> QED
        BY <1>5, <3>1, <4>3
    <3> QED
      BY <3>1, <3>2, <3>3
  <2> QED
    BY <1>6, <1>11, <2>1, <2>2, <2>3, Zenon DEF EntryStep
<1>12. ASSUME UNCHANGED <<riskVars, exec>> PROVE UNCHANGED RG!gateVars
  BY <1>5, <1>12 DEF Inflight
<1>13. ASSUME NEW c \in Closers, RecordForcedClose(c) PROVE RG!GateNext
  BY <1>1, <1>7, <1>13, ForcedCloseArguments
<1>14. ASSUME NEW o \in OrderIDs, MonitorRecordClose(o) PROVE RG!GateNext
  BY <1>1, <1>7, <1>14, CloseArguments
<1> QED
  BY <1>2, <1>3, <1>8, <1>9, <1>10, <1>11, <1>12, <1>13, <1>14, RiskKinds

(* The live executor drives the risk manager as RiskGate describes, with   *)
(* one entry at a time between Check and RecordOpen, whatever its closers, *)
(* its monitors, the exchange and the operator do: for any number of       *)
(* strategies, markets, orders and goroutines and for all faults.          *)
THEOREM LiveImplementsGate ==
    ASSUME Unbounded PROVE LiveSpec => ImplementsRiskGate
<1>1. LiveInv /\ LiveInv' /\ [LiveNext]_liveVars => [RG!GateNext]_(RG!gateVars)
  BY StepIsStep
<1> QED
  BY <1>1, InvHolds, InitIsInit, PTL DEF LiveSpec, ImplementsRiskGate, RG!GateSpec
----------------------------------------------------------------------------
(* What is proved of RiskGate carries over (its histories play no part).   *)
RGP == INSTANCE RiskProofs WITH inflight <- Inflight,
           opensWhileHalted <- 0, opensToday <- 0, bestBalance <- 0

LEMMA SameGate ==
    /\ RG!GateInit => RGP!GateInit
    /\ [RG!GateNext]_(RG!gateVars) => [RGP!GateNext]_(RGP!gateVars)
<1>1. RG!GateInit => RGP!GateInit
  BY Zenon DEF RG!GateInit, RGP!GateInit, RG!RiskInit, RGP!RiskInit, Inflight
<1>2. RG!GateNext => RGP!GateNext
  BY Zenon
     DEF Inflight, RG!GateNext, RGP!GateNext, RG!Entries, RGP!Entries,
         RG!Admit, RGP!Admit, RG!CheckPasses, RGP!CheckPasses,
         RG!Refuse, RGP!Refuse, RG!CheckRejects, RGP!CheckRejects,
         RG!WithinLimits, RGP!WithinLimits, RG!ResetDay, RGP!ResetDay,
         RG!TradesToday, RGP!TradesToday, RG!Abandon, RGP!Abandon,
         RG!Open, RGP!Open, RG!RecordOpen, RGP!RecordOpen,
         RG!Close, RGP!Close, RG!RecordClose, RGP!RecordClose, RG!Less, RGP!Less,
         RG!Larger, RGP!Larger, RG!TriggerHalt, RGP!TriggerHalt,
         RG!DrawdownReached, RGP!DrawdownReached,
         RG!ResumeTrading, RGP!ResumeTrading, RG!Resume, RGP!Resume,
         RG!StartHaltCallback, RGP!StartHaltCallback,
         RG!HaltCallbackStarts, RGP!HaltCallbackStarts,
         RG!Midnight, RGP!Midnight, RG!NextDay, RGP!NextDay,
         RG!exposureVars, RGP!exposureVars, RG!pnlVars, RGP!pnlVars,
         RG!haltVars, RGP!haltVars, RG!dayVars, RGP!dayVars, RG!riskVars, RGP!riskVars
<1>3. UNCHANGED RG!gateVars => UNCHANGED RGP!gateVars
  BY DEF RG!gateVars, RGP!gateVars, RG!riskVars, RGP!riskVars, Inflight
<1> QED
  BY <1>1, <1>2, <1>3

(* The live executor keeps the limits: recorded exposure in total and per  *)
(* market, active strategies and the day's trades, through every           *)
(* interleaving of entries, closers, monitors and the exchange.            *)
THEOREM LiveLimitsHold ==
    ASSUME Unbounded PROVE LiveSpec => []RGP!LimitsHold
<1>1. /\ CloseSizes \subseteq Nat /\ PnLs \subseteq Int /\ Sizes \subseteq Nat
      /\ NoEntry \notin [strategy : Strategies, market : Markets, size : Sizes]
  BY LiveConfig DEF Unbounded, LiveConfig
<1>2. RGP!GateSpec => []RGP!LimitsHold
  BY <1>1, RGP!LimitsSafe, RiskConfig DEF RiskConfig
<1>3. LiveInv /\ LiveInv' /\ [LiveNext]_liveVars => [RGP!GateNext]_(RGP!gateVars)
  BY StepIsStep, SameGate
<1>4. LiveInit => RGP!GateInit
  BY InitIsInit, SameGate
<1>5. LiveSpec => RGP!GateSpec
  BY <1>3, <1>4, InvHolds, PTL DEF LiveSpec, RGP!GateSpec
<1> QED
  BY <1>2, <1>5, PTL
----------------------------------------------------------------------------
(* Restarts.  Of the exchange's faults two leave an order without an owner *)
(* by themselves: the reply to an order is lost, or a cancel request fails *)
(* (its failure is only logged).                                           *)
Answering == {"lostReply", "cancelFails"} \cap Faults = {}

(* While an entry is being sent its key has no open position: only the Run *)
(* loop opens positions.                                                   *)
NoSecondEntry == exec.pc \in {"submit", "posted"} => ~HasOpenPosition(positions, exec.key)

(* An entry is monitored under the Run loop's context, which no CloseAll   *)
(* or CloseMarket cancels.                                                 *)
UnderRunLoop ==
    \A o \in OrderIDs :
        ~book[o].close /\ monitors[o].pc = "polling" => monitors[o].ctx = Exec

EntriesWatched ==
    \A o \in OrderIDs : Live(o) /\ ~book[o].close => o \in earlier \/ Watched(o)

EarlierOrders ==
    /\ earlier \subseteq OrderIDs /\ orphans \subseteq OrderIDs
    /\ phase # "running" => earlier = OrderIDs

(* What the reconciliation has listed it will cancel or report.            *)
Reconciled ==
    \A o \in OrderIDs : Live(o) /\ o \in earlier =>
        /\ phase = "cancel" => o \in orphans \cup reported
        /\ phase = "running" => o \in reported

OwnInv == NoSecondEntry /\ UnderRunLoop /\ EntriesWatched /\ EarlierOrders /\ Reconciled

LEMMA OwnInit == RestartInit => OwnInv
<1> SUFFICES ASSUME RestartInit PROVE OwnInv
  OBVIOUS
<1>1. OrderIDs = {}
  BY DEF RestartInit, LiveInit, OrderIDs
<1>2. NoSecondEntry
  BY DEF RestartInit, LiveInit, NoSecondEntry, IdleExec
<1> QED
  BY <1>1, <1>2 DEF OwnInv, UnderRunLoop, EntriesWatched, EarlierOrders, Reconciled, RestartInit

(* A restart, and the steps of start-up, keep the types.                   *)
LEMMA RestartTypes ==
    ASSUME LiveInv, Restart
    PROVE  LiveInv'
<1> USE DEF Restart, exchangeVars
<1>1. RiskTypeOK'
  <2>1. today' \in Nat /\ lastTradeDate' \in Nat
    BY DEF LiveInv, RiskTypeOK, CountersOK
  <2>2. halted' \in BOOLEAN
    OBVIOUS
  <2>3. /\ haltCallbacks' \in Nat /\ sessionPnL' \in Int /\ peakBalance' \in Nat
        /\ dailyTrades' \in Nat /\ totalExposure' \in Nat
    BY RiskConfig DEF RiskConfig
  <2>4. marketExposure' \in [Markets -> Nat] /\ marketActive' \in [Markets -> Nat]
    OBVIOUS
  <2> QED
    BY <2>1, <2>2, <2>3, <2>4 DEF RiskTypeOK, CountersOK
<1>2. LedgerType'
  BY DEF LedgerType
<1>3. TokensType' /\ BookType' /\ OrderIDs' = OrderIDs
  BY DEF LiveInv, StateInv, TokensType, BookType, OrderIDs
<1>4. ExecType'
  BY DEF ExecType, ExecState, IdleExec
<1>5. CloserType' /\ ClosersKnow'
  BY DEF CloserType, CloserState, ClosersKnow, Knows, IdleCloser
<1>6. MonitorType'
  <2>1. OrderIDs = 1 .. Len(book) /\ Len(book) \in Nat /\ Len(book') = Len(book)
    BY DEF LiveInv, StateInv, BookType, OrderIDs
  <2>2. monitors' = [o \in OrderIDs |-> Unmonitored]
    OBVIOUS
  <2>3. monitors' \in [1 .. Len(book) -> MonitorState]
    BY <2>1, <2>2, SimpleMonitorStates
  <2> QED
    BY <2>1, <2>3 DEF MonitorType
<1>7. OrdersKnown'
  BY <1>3 DEF OrdersKnown, Unmonitored
<1> QED
  BY <1>1, <1>2, <1>3, <1>4, <1>5, <1>6, <1>7 DEF LiveInv, StateInv

(* Before the loop runs the book only loses live orders.                   *)
LEMMA ExchangeStep ==
    ASSUME StateInv, Exchange \/ Midnight
    PROVE  /\ [LiveNext]_liveVars /\ OrderIDs' = OrderIDs
           /\ UNCHANGED <<exec, positions, monitors>>
<1>1. [LiveNext]_liveVars
  BY DEF LiveNext
<1>2. OrderIDs' = OrderIDs
  BY DEF Exchange, Midnight, ExchangeCancels, Match, Resolve, exchangeVars, OrderIDs
<1>3. UNCHANGED <<exec, positions, monitors>>
  BY Zenon DEF Exchange, Midnight, ExchangeCancels, Match, Resolve
<1> QED
  BY <1>1, <1>2, <1>3

(* Start-up's own steps keep the types.                                    *)
LEMMA StartupTypes ==
    ASSUME LiveInv, FetchBalance \/ ListOrders \/ ListFails \/ StartLoop
                    \/ \E o \in orphans : o \in OrderIDs /\ CancelOrphan(o)
    PROVE  LiveInv' /\ OrderIDs \subseteq OrderIDs'
<1>1. ASSUME FetchBalance \/ ListOrders \/ ListFails \/ StartLoop
      PROVE  UNCHANGED <<riskVars, positions, exec, closer, monitors, book, tokens>>
  BY <1>1, Zenon DEF FetchBalance, ListOrders, ListFails, StartLoop, liveVars, exchangeVars
<1>2. ASSUME NEW o \in OrderIDs, CancelOrphan(o)
      PROVE  /\ UNCHANGED <<riskVars, positions, exec, closer, monitors, tokens>>
             /\ UNCHANGED book \/ book' = [book EXCEPT ![o].state = "cancelled"]
  BY <1>2 DEF CancelOrphan
<1>3. ASSUME UNCHANGED <<riskVars, positions, exec, closer, monitors, tokens>>,
             BookType', BookGrows, Len(book') = Len(book)
      PROVE  LiveInv' /\ OrderIDs \subseteq OrderIDs'
  <2>1. OrderIDs' = OrderIDs /\ \A o \in OrderIDs : book'[o].close = book[o].close
                                                   /\ book'[o].key = book[o].key
    BY <1>3 DEF LiveInv, StateInv, BookType, OrderIDs, BookGrows
  <2>2. RiskTypeOK'
    BY <1>3 DEF LiveInv, riskVars, RiskTypeOK, CountersOK
  <2>3. LedgerType' /\ TokensType' /\ CloserType' /\ ClosersKnow' /\ MonitorType'
    BY <1>3 DEF LiveInv, StateInv, LedgerType, TokensType, CloserType, ClosersKnow, MonitorType
  <2>4. ExecType' /\ OrdersKnown'
    BY <1>3, <2>1 DEF LiveInv, StateInv, ExecType, OrdersKnown, Known
  <2> QED
    BY <1>3, <2>1, <2>2, <2>3, <2>4 DEF LiveInv, StateInv
<1>4. BookType
  BY DEF LiveInv, StateInv
<1> QED
  BY <1>1, <1>2, <1>3, <1>4, SameBook, BookCancel

(* No order becomes live again, and none is placed but by PostEntry and    *)
(* CloseAccepted.                                                          *)
LEMMA LiveShrinks ==
    ASSUME StateInv, [LiveNext]_liveVars, NEW o \in OrderIDs, Live(o)'
    PROVE  Live(o)
<1>1. book \in Seq(Order) /\ OrderIDs = 1 .. Len(book) /\ o \in 1 .. Len(book)
  BY DEF StateInv, BookType, OrderIDs
<1>2. ASSUME NEW order, book' = Append(book, order) PROVE book'[o] = book[o]
  BY <1>1, <1>2
<1>3. ASSUME Posted PROVE Live(o)
  BY <1>2, <1>3 DEF Posted, PostEntry, CloseAccepted, Accept, Live
<1>4. ASSUME NEW p \in OrderIDs, NEW n, Match(p, n) PROVE Live(o)
  BY <1>1, <1>4 DEF Match, Live
<1>5. ASSUME NEW m, Resolve(m) PROVE Live(o)
  BY <1>1, <1>5 DEF Resolve, Live
<1>6. ASSUME NEW p \in OrderIDs, CancelOrder(p) \/ ExchangeCancels(p) PROVE Live(o)
  BY <1>1, <1>6 DEF CancelOrder, ExchangeCancels, Live
<1>7. ASSUME UNCHANGED book PROVE Live(o)
  BY <1>7 DEF Live
<1> QED
  BY <1>3, <1>4, <1>5, <1>6, <1>7, Zenon
     DEF Posted, LiveNext, liveVars, exchangeVars, Signals, AdmitEntry, RefuseEntry, CloseSignal,
         CloseSignalUnknown, EntryStep, FailEntry, OpenEntry, RecordEntry, StartHaltClose,
         StartTeardown, CloserStep, TakePosition, Finish, CloseShort, CloseResolved,
         RecordForcedClose, CloseFails, MonitorPoll, MonitorEnd, MonitorEntryFilled,
         MonitorCloseFilled, MonitorCancelled, MonitorPartialKeep, MonitorPartialSeen,
         MonitorCtxDone, MonitorTimeout, MonitorPartialCancel, MonitorRecordClose,
         RefreshBalance, Exchange, ResumeTrading, Midnight

(* Closers and monitors open no position.                                  *)
LEMMA NothingReopens ==
    ASSUME NEW ps \in [Keys -> {NoPosition} \cup Position], NEW k \in Keys, NEW j \in Keys
    PROVE  /\ HasOpenPosition(ClosePosition(ps, k), j) => HasOpenPosition(ps, j)
           /\ \A n : HasOpenPosition(UpdatePositionSize(ps, k, n), j) => HasOpenPosition(ps, j)
<1>1. ps[k] # NoPosition => ps[k] \in Position
  OBVIOUS
<1>2. HasOpenPosition(ClosePosition(ps, k), j) => HasOpenPosition(ps, j)
  BY <1>1 DEF HasOpenPosition, ClosePosition, Position
<1>3. ASSUME NEW n, HasOpenPosition(UpdatePositionSize(ps, k, n), j) PROVE HasOpenPosition(ps, j)
  BY <1>1, <1>3 DEF HasOpenPosition, UpdatePositionSize, Position
<1> QED
  BY <1>2, <1>3

LEMMA OnlyEntriesOpen ==
    ASSUME StateInv, [LiveNext]_liveVars, NEW j \in Keys, ~HasOpenPosition(positions, j), ~OpenEntry
    PROVE  ~HasOpenPosition(positions', j)
<1>1. positions \in [Keys -> {NoPosition} \cup Position] /\ tokens \in [Keys -> Int]
  BY DEF StateInv, LedgerType, TokensType
<1>2. ASSUME NEW c \in Closers, CloseShort(c) PROVE ~HasOpenPosition(positions', j)
  <2> DEFINE k == closer[c].key
  <2>1. k \in Keys
    BY <1>2, CloserTypes DEF StateInv, CloseShort
  <2>2. /\ tokens[k] > 0
        /\ \/ positions' = UpdatePositionSize(positions, k, tokens[k])
           \/ positions' = ClosePosition(UpdatePositionSize(positions, k, tokens[k]), k)
    BY <1>2 DEF CloseShort, ForceClose
  <2>3. tokens[k] \in Nat
    BY <1>1, <2>1, <2>2
  <2>4. UpdatePositionSize(positions, k, tokens[k]) \in [Keys -> {NoPosition} \cup Position]
    BY <1>1, <2>1, <2>3, LedgerMethods
  <2> HIDE DEF k
  <2> QED
    BY <1>1, <2>1, <2>2, <2>4, NothingReopens
<1>3. ASSUME NEW c \in Closers, CloseResolved(c) PROVE ~HasOpenPosition(positions', j)
  <2>1. closer[c].key \in Keys /\ positions' = ClosePosition(positions, closer[c].key)
    BY <1>3, CloserTypes DEF StateInv, CloseResolved, Posting, ForceClose
  <2> QED
    BY <1>1, <2>1, NothingReopens
<1>4. ASSUME NEW o \in OrderIDs, MonitorPoll(o) \/ MonitorEnd(o)
      PROVE  ~HasOpenPosition(positions', j)
  <2>1. book[o].key \in Keys
    BY OrderTypes DEF StateInv
  <2>2. \/ UNCHANGED positions
        \/ positions' = ClosePosition(positions, book[o].key)
        \/ \E n : positions' = UpdatePositionSize(positions, book[o].key, n)
    BY <1>4, Zenon
       DEF MonitorPoll, MonitorEnd, MonitorEntryFilled, MonitorCloseFilled, MonitorCancelled,
           MonitorPartialKeep, MonitorPartialSeen, MonitorCtxDone, MonitorTimeout,
           MonitorPartialCancel, MonitorRecordClose
  <2> QED
    BY <1>1, <2>1, <2>2, NothingReopens
<1>5. ASSUME UNCHANGED positions PROVE ~HasOpenPosition(positions', j)
  BY <1>5
<1> QED
  BY <1>2, <1>3, <1>4, <1>5, Zenon
     DEF LiveNext, liveVars, Signals, AdmitEntry, RefuseEntry, CloseSignal, CloseSignalUnknown,
         EntryStep, PostEntry, FailEntry, RecordEntry, StartHaltClose, StartTeardown, CloserStep,
         TakePosition, Finish, CloseAccepted, RecordForcedClose, CloseFails,
         RefreshBalance, Exchange, ExchangeCancels, Match, Resolve, ResumeTrading, Midnight

(* The steps of the Run loop's entry.                                      *)
LEMMA ExecKinds ==
    ASSUME [LiveNext]_liveVars
    PROVE  \/ UNCHANGED exec
           \/ \E k \in Keys, size \in Sizes : AdmitEntry(k, size)
           \/ \E p \in Prices : PostEntry(p)
           \/ FailEntry \/ OpenEntry \/ RecordEntry
BY RiskKinds, Zenon
   DEF RefuseEntry, EntryStep, StartHaltClose, RecordForcedClose, MonitorRecordClose,
       ResumeTrading, Midnight

(* While an entry is sent, nobody opens its key's position.                *)
LEMMA NoSecondEntryStep ==
    ASSUME StateInv, NoSecondEntry, [LiveNext]_liveVars
    PROVE  NoSecondEntry'
<1>1. ASSUME exec'.pc \in {"submit", "posted"}, exec.pc \in {"submit", "posted"},
             exec'.key = exec.key, ~OpenEntry
      PROVE  NoSecondEntry'
  <2>1. exec.key \in Keys
    BY <1>1, ExecTypes DEF StateInv
  <2> QED
    BY <1>1, <2>1, OnlyEntriesOpen DEF NoSecondEntry
<1>2. ASSUME exec'.pc \notin {"submit", "posted"} PROVE NoSecondEntry'
  BY <1>2 DEF NoSecondEntry
<1>3. ASSUME NEW k \in Keys, NEW size \in Sizes, AdmitEntry(k, size) PROVE NoSecondEntry'
  BY <1>3 DEF AdmitEntry, NoSecondEntry
<1>4. ASSUME NEW p \in Prices, PostEntry(p) PROVE NoSecondEntry'
  <2>1. exec.pc = "submit" /\ ~OpenEntry
    BY <1>4 DEF PostEntry, OpenEntry
  <2>2. \/ exec' = IdleExec
        \/ exec' = [pc |-> "posted", key |-> exec.key, size |-> exec.size, order |-> Len(book')]
    BY <1>4 DEF PostEntry
  <2>3. CASE exec' = IdleExec
    BY <1>2, <2>3 DEF IdleExec
  <2>4. CASE exec' = [pc |-> "posted", key |-> exec.key, size |-> exec.size, order |-> Len(book')]
    BY <1>1, <2>1, <2>4
  <2> QED
    BY <2>2, <2>3, <2>4
<1>5. CASE FailEntry \/ OpenEntry \/ RecordEntry
  <2>1. exec'.pc \in {"idle", "opened"}
    <3>1. \/ exec' = IdleExec
          \/ exec.pc = "posted" /\ exec' = [exec EXCEPT !.pc = "opened"]
      BY <1>5 DEF FailEntry, OpenEntry, RecordEntry
    <3>2. CASE exec' = IdleExec
      BY <3>2 DEF IdleExec
    <3>3. CASE exec.pc = "posted" /\ exec' = [exec EXCEPT !.pc = "opened"]
      <4>1. exec \in [pc : {"posted", "opened"}, key : Keys, size : Sizes, order : Nat]
        BY <3>3, ExecTypes DEF StateInv
      <4> QED
        BY <3>3, <4>1
    <3> QED
      BY <3>1, <3>2, <3>3
  <2> QED
    BY <1>2, <2>1
<1>6. CASE UNCHANGED exec
  <2>1. CASE exec.pc \in {"submit", "posted"} /\ ~OpenEntry
    BY <1>1, <1>6, <2>1
  <2>2. CASE OpenEntry
    <3>1. exec.pc = "posted" /\ (exec' = IdleExec \/ exec' = [exec EXCEPT !.pc = "opened"])
      BY <2>2 DEF OpenEntry
    <3>2. exec'.pc # "posted"
      BY <3>1, ExecTypes DEF StateInv, IdleExec
    <3> QED
      BY <1>6, <3>1, <3>2
  <2>3. CASE exec.pc \notin {"submit", "posted"}
    BY <1>2, <1>6, <2>3
  <2> QED
    BY <2>1, <2>2, <2>3
<1> QED
  BY <1>3, <1>4, <1>5, <1>6, ExecKinds

(* The new order of a step, if there is one, is at the end of the book.    *)
LEMMA NewOrders ==
    ASSUME StateInv, [LiveNext]_liveVars, NEW o \in OrderIDs', o \notin OrderIDs
    PROVE  \/ book'[o].close
           \/ /\ \E p \in Prices : PostEntry(p)
              /\ o = Len(book') /\ monitors'[o] = Unmonitored
<1>1. /\ BookType /\ BookType' /\ BookGrows /\ book \in Seq(Order) /\ Len(book) \in Nat
      /\ Len(book') = Len(book) \/ Posted
      /\ monitors \in Seq(MonitorState) /\ Len(monitors) = Len(book)
  BY BookStep DEF StateInv, BookType, MonitorType
<1>2. o = Len(book) + 1 /\ Posted
  BY <1>1 DEF BookGrows, BookType, OrderIDs
<1>3. ASSUME NEW c \in Closers, NEW p \in Prices, CloseAccepted(c, p) PROVE book'[o].close
  <2> DEFINE order == NewOrder(closer[c].key, TRUE, p, closer[c].sell)
  <2>1. order.close /\ book' = Append(book, order)
    BY <1>3 DEF CloseAccepted, Accept, NewOrder
  <2> HIDE DEF order
  <2>2. book'[Len(book) + 1] = order
    BY <1>1, <2>1
  <2> QED
    BY <1>2, <2>1, <2>2
<1>4. ASSUME NEW p \in Prices, PostEntry(p) PROVE o = Len(book') /\ monitors'[o] = Unmonitored
  <2>1. Len(book') = Len(book) + 1
    BY <1>1, <1>4, EntryOrder, BookAccept
  <2>2. monitors' = Append(monitors, Unmonitored)
    BY <1>4 DEF PostEntry
  <2> HIDE DEF Unmonitored
  <2>3. monitors'[Len(monitors) + 1] = Unmonitored
    BY <1>1, <2>2, SimpleMonitorStates
  <2> QED
    BY <1>1, <1>2, <2>1, <2>3
<1> QED
  BY <1>2, <1>3, <1>4 DEF Posted

LEMMA UnderRunLoopStep ==
    ASSUME StateInv, UnderRunLoop, [LiveNext]_liveVars
    PROVE  UnderRunLoop'
<1> SUFFICES ASSUME NEW o \in OrderIDs', ~book'[o].close, monitors'[o].pc = "polling"
             PROVE  monitors'[o].ctx = Exec
  BY DEF UnderRunLoop
<1>1. CASE o \notin OrderIDs
  BY <1>1, NewOrders DEF Unmonitored
<1>2. CASE o \in OrderIDs
  <2>1. ~book[o].close
    BY <1>2, BookStep DEF BookGrows
  <2>2. \A c : Polling(c).pc = "polling" /\ Polling(c).ctx = c
    BY DEF Polling
  <2>3. CASE monitors'[o] = monitors[o]
    BY <1>2, <2>1, <2>3 DEF UnderRunLoop
  <2>4. ASSUME NEW c, c # Exec, monitors[o] = Polling(c) PROVE FALSE
    BY <1>2, <2>1, <2>2, <2>4 DEF UnderRunLoop
  <2> QED
    BY <1>2, <2>2, <2>3, <2>4, MonitorKinds, WatchedStays
<1> QED
  BY <1>1, <1>2

(* Whoever stops watching a live entry has cancelled it.                   *)
LEMMA MonitorWatches ==
    ASSUME Answering, StateInv, UnderRunLoop, NEW o \in OrderIDs, MonitorPoll(o) \/ MonitorEnd(o),
           Live(o), ~book[o].close, Live(o)', monitors[o].pc \in {"polling", "cancel"}
    PROVE  monitors'[o].pc \in {"polling", "cancel"}
<1>1. o \in 1 .. Len(monitors) /\ monitors \in Seq(MonitorState) /\ book \in Seq(Order)
      /\ o \in 1 .. Len(book)
  BY MonitorTypes, OrderTypes DEF StateInv, MonitorType, BookType
<1>2. ~CancelOrder(o)
  <2>1. SUFFICES ASSUME CancelOrder(o) PROVE FALSE
    OBVIOUS
  <2>2. book' = [book EXCEPT ![o].state = "cancelled"]
    BY <2>1 DEF CancelOrder, Answering
  <2>3. book'[o].state = "cancelled"
    BY <1>1, <2>2 DEF Order
  <2> QED
    BY <2>3 DEF Live
<1>3. ~MonitorCtxDone(o)
  BY LiveConfig DEF MonitorCtxDone, Monitored, UnderRunLoop, LiveConfig, Closers
<1>4. ~MonitorEntryFilled(o) /\ ~MonitorCloseFilled(o) /\ ~MonitorCancelled(o)
  BY DEF MonitorEntryFilled, MonitorCloseFilled, MonitorCancelled, Live
<1>5. ~MonitorTimeout(o) /\ ~MonitorPartialCancel(o) /\ ~MonitorRecordClose(o)
  BY <1>2 DEF MonitorTimeout, MonitorPartialCancel, MonitorRecordClose
<1>6. MonitorPartialKeep(o) \/ MonitorPartialSeen(o)
  BY <1>3, <1>4, <1>5, Zenon DEF MonitorPoll, MonitorEnd
<1> QED
  BY <1>1, <1>6 DEF MonitorPartialKeep, MonitorPartialSeen

(* An entry passes from the Run loop to its monitor.                       *)
LEMMA ExecWatches ==
    ASSUME StateInv, NoSecondEntry, [LiveNext]_liveVars,
           exec.pc \in {"posted", "opened"}
    PROVE  \/ exec'.pc \in {"posted", "opened"} /\ exec'.order = exec.order
           \/ monitors'[exec.order] = Polling(Exec)
<1>1. /\ exec \in [pc : {"posted", "opened"}, key : Keys, size : Sizes, order : Nat]
      /\ exec.order \in OrderIDs /\ exec.key \in Keys
  BY ExecTypes DEF StateInv
<1>2. CASE OpenEntry
  <2>1. ~HasOpenPosition(positions, exec.key)
    BY <1>2 DEF OpenEntry, NoSecondEntry
  <2>2. exec' = [exec EXCEPT !.pc = "opened"]
    BY <1>2, <2>1 DEF OpenEntry
  <2> QED
    BY <1>1, <2>2
<1>3. CASE RecordEntry
  <2>1. exec.order \in 1 .. Len(monitors) /\ monitors \in Seq(MonitorState)
    BY <1>1, MonitorTypes DEF StateInv, MonitorType
  <2> QED
    BY <1>3, <2>1 DEF RecordEntry
<1>4. CASE UNCHANGED exec
  BY <1>4
<1> QED
  BY <1>2, <1>3, <1>4, ExecKinds DEF AdmitEntry, RunLoopIdle, PostEntry, FailEntry

LEMMA EntriesWatchedStep ==
    ASSUME Answering, StateInv, NoSecondEntry, UnderRunLoop, EntriesWatched,
           [LiveNext]_liveVars, UNCHANGED earlier
    PROVE  EntriesWatched'
<1> SUFFICES ASSUME NEW o \in OrderIDs', Live(o)', ~book'[o].close, o \notin earlier
             PROVE  Watched(o)'
  BY DEF EntriesWatched
<1>1. CASE o \notin OrderIDs
  <2>1. PICK p \in Prices : PostEntry(p)
    BY <1>1, NewOrders
  <2>2. exec' = [pc |-> "posted", key |-> exec.key, size |-> exec.size, order |-> Len(book')]
    BY <2>1 DEF PostEntry, Answering
  <2> QED
    BY <1>1, <2>2, NewOrders DEF Watched
<1>2. CASE o \in OrderIDs
  <2>1. Live(o) /\ ~book[o].close
    BY <1>2, LiveShrinks, BookStep DEF BookGrows
  <2>2. Watched(o)
    BY <1>2, <2>1 DEF EntriesWatched
  <2>3. CASE exec.pc \in {"posted", "opened"} /\ exec.order = o
    BY <2>3, ExecWatches DEF Watched, Polling
  <2>4. CASE monitors[o].pc \in {"polling", "cancel"}
    <3>1. ASSUME MonitorPoll(o) \/ MonitorEnd(o) PROVE monitors'[o].pc \in {"polling", "cancel"}
      BY <1>2, <2>1, <2>4, <3>1, MonitorWatches
    <3>2. \A c : Polling(c).pc = "polling"
      BY DEF Polling
    <3> QED
      BY <1>2, <2>4, <3>1, <3>2, MonitorKinds DEF Watched
  <2> QED
    BY <2>2, <2>3, <2>4 DEF Watched
<1> QED
  BY <1>1, <1>2

LEMMA BookkeepingStep ==
    ASSUME StateInv, EarlierOrders, Reconciled, [LiveNext]_liveVars, UNCHANGED startupVars,
           phase = "running" \/ OrderIDs' = OrderIDs
    PROVE  EarlierOrders' /\ Reconciled'
<1>1. OrderIDs \subseteq OrderIDs'
  BY BookStep DEF BookGrows
<1>2. EarlierOrders'
  BY <1>1 DEF EarlierOrders, startupVars
<1>3. Reconciled'
  <2> SUFFICES ASSUME NEW o \in OrderIDs', Live(o)', o \in earlier
               PROVE  /\ phase = "cancel" => o \in orphans \cup reported
                      /\ phase = "running" => o \in reported
    BY DEF Reconciled, startupVars
  <2>1. o \in OrderIDs
    BY DEF EarlierOrders
  <2> QED
    BY <2>1, LiveShrinks DEF Reconciled
<1> QED
  BY <1>2, <1>3

(* Steps of start-up, which touch no more than one order.                  *)
LEMMA StartupOwns ==
    ASSUME LiveInv, OwnInv, FetchBalance \/ ListOrders \/ ListFails \/ StartLoop
                            \/ \E o \in orphans : CancelOrphan(o)
    PROVE  OwnInv'
<1>1. ASSUME FetchBalance \/ ListOrders \/ ListFails \/ StartLoop
      PROVE  UNCHANGED <<positions, exec, monitors, book, earlier>>
  BY <1>1, Zenon DEF FetchBalance, ListOrders, ListFails, StartLoop, liveVars, exchangeVars
<1>2. ASSUME FetchBalance \/ ListOrders \/ ListFails \/ StartLoop PROVE OwnInv'
  <2>1. OrderIDs' = OrderIDs /\ \A o \in OrderIDs : Live(o)' <=> Live(o)
    BY <1>1, <1>2 DEF OrderIDs, Live
  <2>2. NoSecondEntry' /\ UnderRunLoop' /\ EntriesWatched'
    BY <1>1, <1>2, <2>1 DEF OwnInv, NoSecondEntry, UnderRunLoop, EntriesWatched, Watched
  <2>3. EarlierOrders'
    BY <1>1, <1>2, <2>1 DEF OwnInv, EarlierOrders, FetchBalance, ListOrders, ListFails, StartLoop,
       LiveOrders
  <2>4. Reconciled'
    <3> SUFFICES ASSUME NEW o \in OrderIDs, Live(o), o \in earlier
                 PROVE  /\ phase' = "cancel" => o \in orphans' \cup reported'
                        /\ phase' = "running" => o \in reported'
      BY <1>1, <1>2, <2>1 DEF Reconciled
    <3> QED
      BY <1>2 DEF OwnInv, Reconciled, FetchBalance, ListOrders, ListFails, StartLoop, LiveOrders
  <2> QED
    BY <2>2, <2>3, <2>4 DEF OwnInv
<1>3. ASSUME NEW o \in orphans, CancelOrphan(o) PROVE OwnInv'
  <2>1. o \in OrderIDs /\ book \in Seq(Order)
    BY DEF OwnInv, EarlierOrders, LiveInv, StateInv, BookType
  <2>2. /\ UNCHANGED <<positions, exec, monitors, earlier, phase>>
        /\ orphans' = orphans \ {o} /\ phase = "cancel"
        /\ \/ /\ book' = IF Live(o) THEN [book EXCEPT ![o].state = "cancelled"] ELSE book
              /\ UNCHANGED reported
           \/ reported' = reported \cup {o} /\ UNCHANGED book
    BY <1>3 DEF CancelOrphan
  <2>3. /\ OrderIDs' = OrderIDs
        /\ \A p \in OrderIDs : book'[p].close = book[p].close /\ book'[p].key = book[p].key
    <3>1. BookType
      BY DEF LiveInv, StateInv
    <3>2. BookGrows /\ Len(book') = Len(book) /\ BookType'
      BY <2>1, <2>2, <3>1, SameBook, BookCancel
    <3> QED
      BY <3>1, <3>2 DEF BookGrows, BookType, OrderIDs
  <2>4. \A p \in OrderIDs : Live(p)' => Live(p)
    BY <2>1, <2>2 DEF Live, OrderIDs
  <2>5. Live(o)' => o \in reported'
    <3> SUFFICES ASSUME Live(o)', o \notin reported' PROVE FALSE
      OBVIOUS
    <3>1. Live(o)
      BY <2>1, <2>4
    <3>2. CASE book' = [book EXCEPT ![o].state = "cancelled"]
      <4>1. o \in 1 .. Len(book) /\ book[o] \in Order
        BY <2>1 DEF OrderIDs
      <4>2. book'[o].state = "cancelled"
        BY <2>1, <3>2, <4>1 DEF Order
      <4> QED
        BY <4>2 DEF Live
    <3> QED
      BY <2>2, <3>1, <3>2
  <2>6. NoSecondEntry' /\ UnderRunLoop' /\ EntriesWatched'
    BY <2>2, <2>3, <2>4 DEF OwnInv, NoSecondEntry, UnderRunLoop, EntriesWatched, Watched
  <2>7. EarlierOrders'
    BY <2>2, <2>3 DEF OwnInv, EarlierOrders
  <2>8. Reconciled'
    BY <2>2, <2>3, <2>4, <2>5 DEF OwnInv, Reconciled
  <2> QED
    BY <2>6, <2>7, <2>8 DEF OwnInv
<1> QED
  BY <1>2, <1>3

LEMMA RestartOwns ==
    ASSUME LiveInv, OwnInv, Restart
    PROVE  OwnInv'
<1> USE DEF Restart, exchangeVars
<1>1. OrderIDs' = OrderIDs
  BY DEF OrderIDs
<1>2. NoSecondEntry' /\ UnderRunLoop'
  BY <1>1 DEF NoSecondEntry, UnderRunLoop, IdleExec, Unmonitored
<1>3. EntriesWatched' /\ EarlierOrders' /\ Reconciled'
  BY <1>1 DEF EntriesWatched, EarlierOrders, Reconciled
<1> QED
  BY <1>2, <1>3 DEF OwnInv

LEMMA RestartInvHolds ==
    ASSUME Answering
    PROVE  RestartSpec => [](LiveInv /\ OwnInv)
<1>1. RestartInit => LiveInv /\ OwnInv
  BY InitInv, OwnInit DEF RestartInit
<1>2. LiveInv /\ OwnInv /\ [RestartNext]_restartVars => (LiveInv /\ OwnInv)'
  <2> SUFFICES ASSUME LiveInv, OwnInv, [RestartNext]_restartVars
               PROVE  LiveInv' /\ OwnInv'
    OBVIOUS
  <2>1. ASSUME [LiveNext]_liveVars, UNCHANGED startupVars, phase = "running" \/ OrderIDs' = OrderIDs
        PROVE  LiveInv' /\ OwnInv'
    <3>1. StateInv /\ UNCHANGED earlier
      BY <2>1 DEF LiveInv, startupVars
    <3> QED
      BY <2>1, <3>1, InvStep, NoSecondEntryStep, UnderRunLoopStep, EntriesWatchedStep,
         BookkeepingStep DEF OwnInv
  <2>2. CASE Trade
    <3>1. CASE phase = "running"
      BY <2>1, <2>2, <3>1 DEF Trade
    <3>2. CASE phase # "running"
      BY <2>1, <2>2, <3>2, ExchangeStep DEF Trade, LiveInv
    <3> QED
      BY <3>1, <3>2
  <2>3. CASE UNCHANGED restartVars
    <3>1. UNCHANGED liveVars /\ UNCHANGED startupVars /\ OrderIDs' = OrderIDs
      BY <2>3 DEF restartVars, liveVars, exchangeVars, OrderIDs
    <3> QED
      BY <2>1, <3>1
  <2>4. CASE Restart
    BY <2>4, RestartTypes, RestartOwns
  <2>5. ASSUME FetchBalance \/ ListOrders \/ ListFails \/ StartLoop
               \/ \E o \in orphans : CancelOrphan(o)
        PROVE  LiveInv' /\ OwnInv'
    <3>1. orphans \subseteq OrderIDs
      BY DEF OwnInv, EarlierOrders
    <3> QED
      BY <2>5, <3>1, StartupTypes, StartupOwns
  <2> QED
    BY <2>2, <2>3, <2>4, <2>5 DEF RestartNext
<1> QED
  BY <1>1, <1>2, PTL DEF RestartSpec

(* When no reply is lost and no cancel request fails, every live order has *)
(* an owner whenever signals are handled: an entry of this session is in   *)
(* the hands of the Run loop or of its monitor, whatever closers do to its *)
(* position, and an order of an earlier one was named in the log by the    *)
(* start-up, although the process may die at any moment, also during the   *)
(* reconciliation of an earlier crash.                                     *)
THEOREM OrdersHaveOwners ==
    ASSUME Answering
    PROVE  RestartSpec => []LiveOrdersHaveOwners
<1>1. LiveInv /\ OwnInv => LiveOrdersHaveOwners
  BY DEF OwnInv, EntriesWatched, Reconciled, EarlierOrders, LiveOrdersHaveOwners, LiveOrders
<1> QED
  BY <1>1, RestartInvHolds, PTL
=============================================================================
