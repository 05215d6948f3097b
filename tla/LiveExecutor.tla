---------------------------- MODULE LiveExecutor ----------------------------
(***************************************************************************)
(* The live executor of internal/executor/live.go with its ledger, the     *)
(* risk manager it drives, and the exchange (CLOB) it trades on.           *)
(*                                                                         *)
(* Goroutines:                                                             *)
(*   exec      the executor's Run loop, one signal at a time;              *)
(*   closers   whoever runs placeCloseOrder: the Run loop for a Close      *)
(*             signal, the halt callback's CloseAll, CloseMarket called by *)
(*             the orchestrator when it tears a market down;               *)
(*   monitors  one monitorOrder per order placed.                          *)
(* Every step is one access to shared state: a ledger or risk manager      *)
(* method, or one request to the exchange.  Consecutive accesses of one    *)
(* goroutine are one step where no other goroutine can tell.               *)
(*                                                                         *)
(* Money is counted in units; Dollar units make one USDC, the payout of    *)
(* one contract, and a price is units per contract.  Which of the two      *)
(* tokens of a market is traded is left out.                               *)
(***************************************************************************)
EXTENDS RiskManager, Ledger, Sequences, FiniteSetsExt, Functions

CONSTANTS Sizes,             \* USDC sizes (in units) the sizer returns
          Prices,            \* limit prices
          Dollar,            \* units in one USDC
          MinContracts,      \* execution.min_contract_size
          PartialFillAction, \* execution.partial_fill_action
          StartingCash,      \* USDC on the exchange at start
          Exec,              \* the Run loop, as a closer
          HaltClosers,       \* goroutines running the halt callback
          Teardowns,         \* goroutines running CloseMarket
          Faults,            \* what the environment may do, of AllFaults
          NoEntry,
          MaxOrders,         \* bound: orders the exchange accepts
          CallbackBound,     \* bound: halt callbacks waiting at a Resume
          LastDay,           \* bound: days
          CloseSizes, PnLs, PnLRange, PeakRange \* RiskGate's, for ImplementsRiskGate

Closers == {Exec} \cup HaltClosers \cup Teardowns

AllFaults == {"lostReply",     \* an order is accepted but the reply is lost
              "cancelFails",   \* a cancel request fails
              "exchangeCancels", \* the exchange cancels an order by itself
              "partialFill",   \* an order fills in several steps
              "unsized",       \* an order is reported partly filled, without a size
              "resolve"}       \* the market resolves and its book goes away

ASSUME LiveConfig ==
    /\ Keys \subseteq Strategies \X Markets
    /\ Sizes \subseteq Nat
    /\ Prices \subseteq Nat \ {0}
    /\ Dollar \in Nat \ {0}
    /\ MinContracts \in Nat \ {0}
    /\ StartingCash \in Nat
    /\ PartialFillAction \in {"cancel", "keep"}
    /\ Faults \subseteq AllFaults
    /\ NoEntry \notin [strategy : Strategies, market : Markets, size : Sizes]
    /\ "cancelled" \notin Closers

VARIABLES positions, \* the ledger
          exec,      \* the Run loop: the entry it is placing
          closer,    \* closer -> its progress through its positions
          monitors,  \* order -> its monitorOrder goroutine
          balance,   \* the executor's own idea of the USDC balance
          told,      \* key -> last PositionUpdate sent for it
          book,      \* exchange: orders, the position being the order ID
          tokens,    \* exchange: key -> tokens held
          cash,      \* exchange: USDC held
          resolved   \* exchange: markets that have resolved

exchangeVars == <<book, tokens, cash, resolved>>
liveVars     == <<riskVars, positions, exec, closer, monitors, balance, told,
                  exchangeVars>>

Strategy(k) == k[1]
Market(k)   == k[2]
----------------------------------------------------------------------------
(* The exchange.                                                           *)
OrderIDs == DOMAIN book

Remaining(o) == book[o].size - book[o].filled
Live(o) == book[o].state = "live"

(* What live sell orders have put up of a key's tokens, live entries of    *)
(* the USDC, and what is left of either for the next order.                *)
TokensOnSale(k) ==
    SumFunctionOnSet([o \in OrderIDs |-> Remaining(o)],
                     {o \in OrderIDs : Live(o) /\ book[o].close /\ book[o].key = k})

CashOffered ==
    SumFunctionOnSet([o \in OrderIDs |-> book[o].price * Remaining(o)],
                     {o \in OrderIDs : Live(o) /\ ~book[o].close})

FreeTokens(k) == tokens[k] - TokensOnSale(k)
FreeCash == cash - CashOffered

NewOrder(k, close, price, size) ==
    [key |-> k, close |-> close, price |-> price, size |-> size, filled |-> 0,
     state |-> "live"]

Accept(order) ==
    /\ Len(book) < MaxOrders
    /\ Market(order.key) \notin resolved
    /\ book' = Append(book, order)

(* n more contracts of a live order trade.                                 *)
Match(o, n) ==
    /\ Live(o)
    /\ n \in 1 .. Remaining(o)
    /\ n < Remaining(o) => "partialFill" \in Faults
    /\ book' = [book EXCEPT ![o].filled = @ + n,
                            ![o].state = IF n = Remaining(o) THEN "filled" ELSE @]
    /\ IF book[o].close
       THEN /\ tokens' = [tokens EXCEPT ![book[o].key] = @ - n]
            /\ cash' = cash + n * book[o].price
       ELSE /\ tokens' = [tokens EXCEPT ![book[o].key] = @ + n]
            /\ cash' = cash - n * book[o].price
    /\ UNCHANGED <<riskVars, positions, exec, closer, monitors, balance, told, resolved>>

ExchangeCancels(o) ==
    /\ "exchangeCancels" \in Faults
    /\ Live(o)
    /\ book' = [book EXCEPT ![o].state = "cancelled"]
    /\ UNCHANGED <<riskVars, positions, exec, closer, monitors, balance, told,
                   tokens, cash, resolved>>

Resolve(m) ==
    /\ "resolve" \in Faults
    /\ m \notin resolved
    /\ resolved' = resolved \cup {m}
    /\ book' = [o \in OrderIDs |->
                   IF Live(o) /\ Market(book[o].key) = m
                   THEN [book[o] EXCEPT !.state = "cancelled"] ELSE book[o]]
    /\ UNCHANGED <<riskVars, positions, exec, closer, monitors, balance, told, tokens, cash>>

(* cancelOrder: a filled or expired order answers 404, taken for success;  *)
(* a failure is only logged by every caller.                               *)
CancelOrder(o) ==
    \/ book' = IF Live(o) THEN [book EXCEPT ![o].state = "cancelled"] ELSE book
    \/ "cancelFails" \in Faults /\ UNCHANGED book
----------------------------------------------------------------------------
(* Initially: the balance was fetched, and no order is left from a session *)
(* before (module LiveRestart has the start-up that sees to it).           *)
IdleExec == [pc |-> "idle"]
IdleCloser == [pc |-> "idle"]

LiveInit ==
    /\ RiskInit
    /\ positions = [k \in Keys |-> NoPosition]
    /\ exec = IdleExec
    /\ closer = [c \in Closers |-> IdleCloser]
    /\ monitors = <<>>
    /\ balance = StartingCash
    /\ told = [k \in Keys |-> "none"]
    /\ book = <<>>
    /\ tokens = [k \in Keys |-> 0]
    /\ cash = StartingCash
    /\ resolved = {}

(* sendFeedback: what the strategy's channel was last given for the key    *)
(* (DropOldest models the channel itself).                                 *)
Tell(k, status) == told' = [told EXCEPT ![k] = status]

(* submitOrder fetches the balance when the exchange reports it too low.   *)
MaybeRefreshBalance == balance' \in {balance, cash}

(* The 5-minute ticker of Run.                                             *)
RefreshBalance ==
    /\ balance # cash
    /\ balance' = cash
    /\ UNCHANGED <<riskVars, positions, exec, closer, monitors, told, exchangeVars>>

Unmonitored == [pc |-> "none"]
Polling(ctx) == [pc |-> "polling", ctx |-> ctx]
Done == [pc |-> "done"]
----------------------------------------------------------------------------
(* handleSignal and placeEntryOrder.                                       *)
RunLoopIdle == exec.pc = "idle" /\ closer[Exec].pc = "idle"

(* Mutant: the risk check is not consulted.                                *)
AdmitEntryUnchecked(k, size) ==
    /\ RunLoopIdle
    /\ ~HasOpenPosition(positions, k)
    /\ exec' = [pc |-> "submit", key |-> k, size |-> size]
    /\ Tell(k, "pending")
    /\ UNCHANGED <<riskVars, positions, closer, monitors, balance, exchangeVars>>

(* The signal passes Check.                                                *)
AdmitEntry(k, size) ==
    /\ RunLoopIdle
    /\ ~HasOpenPosition(positions, k)
    /\ CheckPasses(Strategy(k), Market(k), size)
    /\ exec' = [pc |-> "submit", key |-> k, size |-> size]
    /\ Tell(k, "pending")
    /\ UNCHANGED <<positions, closer, monitors, balance, exchangeVars>>

(* Rejected by Check: an error is logged and the strategy is told nothing. *)
RefuseEntry(k, size) ==
    /\ RunLoopIdle
    /\ ~HasOpenPosition(positions, k)
    /\ CheckRejects(Strategy(k), Market(k), size)
    /\ UNCHANGED <<positions, exec, closer, monitors, balance, told, exchangeVars>>

(* The order the exchange accepts, and its reply (or the lack of one,      *)
(* which placeEntryOrder reports as a failure).                            *)
PostEntry(price) ==
    /\ exec.pc = "submit"
    /\ LET contracts == Larger(exec.size \div price, MinContracts)
       IN  /\ contracts * price <= balance
           /\ contracts * price <= FreeCash
           /\ Accept(NewOrder(exec.key, FALSE, price, contracts))
    /\ monitors' = Append(monitors, Unmonitored)
    /\ \/ /\ exec' = [pc |-> "posted", key |-> exec.key, size |-> exec.size,
                      order |-> Len(book')]
          /\ UNCHANGED told
       \/ /\ "lostReply" \in Faults
          /\ exec' = IdleExec
          /\ Tell(exec.key, "none")
    /\ UNCHANGED <<riskVars, positions, closer, balance, tokens, cash, resolved>>

(* Mutant: the error is logged, the strategy is not told.                  *)
FailEntrySilently ==
    /\ exec.pc = "submit"
    /\ exec' = IdleExec
    /\ MaybeRefreshBalance
    /\ UNCHANGED <<riskVars, positions, closer, monitors, told, exchangeVars>>

(* No price, not enough balance, or the exchange refuses the order.        *)
FailEntry ==
    /\ exec.pc = "submit"
    /\ exec' = IdleExec
    /\ Tell(exec.key, "none")
    /\ MaybeRefreshBalance
    /\ UNCHANGED <<riskVars, positions, closer, monitors, exchangeVars>>

(* ledger.OpenPosition, which refuses a second open position.              *)
OpenEntry ==
    /\ exec.pc = "posted"
    /\ LET k == exec.key
           o == exec.order
       IN  /\ positions' = OpenPosition(positions, k,
                               PositionOf(book[o].price, book[o].size, o))
           /\ IF HasOpenPosition(positions, k)
              THEN exec' = IdleExec /\ Tell(k, "none")
              ELSE exec' = [exec EXCEPT !.pc = "opened"] /\ UNCHANGED told
    /\ UNCHANGED <<riskVars, closer, monitors, balance, exchangeVars>>

(* risk.RecordOpen with the sizer's USDC size; the monitor starts.         *)
RecordEntry ==
    /\ exec.pc = "opened"
    /\ RecordOpen(Market(exec.key), exec.size)
    /\ monitors' = [monitors EXCEPT ![exec.order] = Polling(Exec)]
    /\ exec' = IdleExec
    /\ UNCHANGED <<positions, closer, balance, told, exchangeVars>>
----------------------------------------------------------------------------
(* Closing: handleSignal's Close branch, CloseAll and CloseMarket, all of  *)
(* which run placeCloseOrder.                                              *)
CloseSignal(k) ==
    /\ RunLoopIdle
    /\ HasOpenPosition(positions, k)
    /\ closer' = [closer EXCEPT ![Exec] = [pc |-> "loop", todo |-> {k}]]
    /\ Tell(k, "pending")
    /\ UNCHANGED <<riskVars, positions, exec, monitors, balance, exchangeVars>>

(* ValidateClose fails: the strategy is told that it has nothing.          *)
CloseSignalUnknown(k) ==
    /\ RunLoopIdle
    /\ ~HasOpenPosition(positions, k)
    /\ Tell(k, "closed")
    /\ UNCHANGED <<riskVars, positions, exec, closer, monitors, balance, exchangeVars>>

(* The halt callback: CloseAll over a snapshot of the open positions.      *)
StartHaltClose(c) ==
    /\ closer[c].pc = "idle"
    /\ HaltCallbackStarts
    /\ closer' = [closer EXCEPT ![c] = [pc |-> "loop", todo |-> OpenPositions(positions)]]
    /\ UNCHANGED <<positions, exec, monitors, balance, told, exchangeVars>>

(* CloseMarket, called while the orchestrator tears the market down.       *)
StartTeardown(c, m) ==
    /\ closer[c].pc = "idle"
    /\ LET mine == {k \in OpenPositions(positions) : Market(k) = m}
       IN  /\ mine # {}
           /\ closer' = [closer EXCEPT ![c] = [pc |-> "loop", todo |-> mine]]
    /\ UNCHANGED <<riskVars, positions, exec, monitors, balance, told, exchangeVars>>

(* placeCloseOrder reads the position: any position, open or not.          *)
TakePosition(c) ==
    /\ closer[c].pc = "loop"
    /\ \E k \in closer[c].todo :
          closer' = [closer EXCEPT ![c] =
                        [pc |-> "post", todo |-> @.todo \ {k}, key |-> k,
                         size |-> positions[k].size,   \* pos.Size
                         sell |-> positions[k].size]]  \* sellSize
    /\ UNCHANGED <<riskVars, positions, exec, monitors, balance, told, exchangeVars>>

(* CloseAll or CloseMarket returns, and its caller cancels the context its *)
(* close orders are monitored under.                                       *)
Finish(c) ==
    /\ closer[c].pc = "loop"
    /\ closer[c].todo = {}
    /\ closer' = [closer EXCEPT ![c] = IdleCloser]
    /\ monitors' = IF c = Exec THEN monitors
                   ELSE [o \in DOMAIN monitors |->
                            IF monitors[o] = Polling(c) THEN Polling("cancelled")
                            ELSE monitors[o]]
    /\ UNCHANGED <<riskVars, positions, exec, balance, told, exchangeVars>>

NextPosition(c) ==
    closer' = [closer EXCEPT ![c] = [pc |-> "loop", todo |-> @.todo]]

Posting(c) == closer[c].pc \in {"post", "repost"}

(* Only the Run loop tells the strategy that a close attempt failed.       *)
TellFailure(c) ==
    IF c = Exec THEN Tell(closer[c].key, "open") ELSE UNCHANGED told

(* The exchange takes the sell order; the close is monitored under the     *)
(* caller's context.                                                       *)
CloseAccepted(c, price) ==
    /\ Posting(c)
    /\ closer[c].sell <= FreeTokens(closer[c].key)
    /\ Accept(NewOrder(closer[c].key, TRUE, price, closer[c].sell))
    /\ NextPosition(c)
    /\ \/ monitors' = Append(monitors, Polling(c)) /\ UNCHANGED told
       \/ /\ "lostReply" \in Faults
          /\ monitors' = Append(monitors, Unmonitored)
          /\ TellFailure(c)
    /\ UNCHANGED <<riskVars, positions, exec, balance, tokens, cash, resolved>>

(* Without an exit order: ClosePosition, then RecordClose of the size read *)
(* before (contracts, counted as USDC) and StatusClosed.                   *)
ForceClose(c, ps, pnl) ==
    /\ positions' = ClosePosition(ps, closer[c].key)
    /\ closer' = [closer EXCEPT ![c] =
                     [pc |-> "record", todo |-> @.todo, key |-> @.key,
                      size |-> @.size, pnl |-> pnl]]
    /\ UNCHANGED <<riskVars, told>>

RecordForcedClose(c) ==
    /\ closer[c].pc = "record"
    /\ RecordClose(Market(closer[c].key), closer[c].size * Dollar, closer[c].pnl)
    /\ Tell(closer[c].key, "closed")
    /\ NextPosition(c)
    /\ UNCHANGED <<positions, exec, monitors, balance, exchangeVars>>

(* "not enough balance" naming a positive token balance: retried once with *)
(* that balance, or written off when it is below the minimum order.        *)
CloseShort(c) ==
    /\ closer[c].pc = "post"
    /\ LET k == closer[c].key
           held == tokens[k]
           resized == UpdatePositionSize(positions, k, held)
       IN  /\ closer[c].sell > FreeTokens(k)
           /\ held > 0
           /\ Market(k) \notin resolved
           /\ \/ /\ held >= MinContracts
                 /\ positions' = resized
                 /\ closer' = [closer EXCEPT ![c].pc = "repost", ![c].sell = held]
                 /\ UNCHANGED <<riskVars, told>>
              \/ /\ held < MinContracts
                 /\ ForceClose(c, resized, -(closer[c].size * Dollar))
    /\ MaybeRefreshBalance
    /\ UNCHANGED <<exec, monitors, exchangeVars>>

(* The order book is gone: the market has resolved.                        *)
CloseResolved(c) ==
    /\ Posting(c)
    /\ Market(closer[c].key) \in resolved
    /\ ForceClose(c, positions, 0)
    /\ UNCHANGED <<exec, monitors, balance, exchangeVars>>

(* No price, a network error, or any other refusal.                        *)
CloseFails(c) ==
    /\ Posting(c)
    /\ NextPosition(c)
    /\ TellFailure(c)
    /\ MaybeRefreshBalance
    /\ UNCHANGED <<riskVars, positions, exec, monitors, exchangeVars>>
----------------------------------------------------------------------------
(* monitorOrder.                                                           *)
Monitored(o) == monitors[o].pc = "polling"
Stop(o) == monitors' = [monitors EXCEPT ![o] = Done]

(* ctx.Done: a close order pending at teardown closes the position.        *)
MonitorCtxDone(o) ==
    /\ Monitored(o)
    /\ monitors[o].ctx = "cancelled"
    /\ Stop(o)
    /\ positions' = ClosePosition(positions, book[o].key)
    /\ Tell(book[o].key, "closed")
    /\ UNCHANGED <<riskVars, exec, closer, balance, exchangeVars>>

(* Mutant: the order is not cancelled at its deadline.                     *)
MonitorTimeoutUncancelled(o) ==
    /\ Monitored(o)
    /\ UNCHANGED book
    /\ Stop(o)
    /\ IF book[o].close
       THEN UNCHANGED positions /\ Tell(book[o].key, "open")
       ELSE positions' = ClosePosition(positions, book[o].key) /\ Tell(book[o].key, "closed")
    /\ UNCHANGED <<riskVars, exec, closer, balance, tokens, cash, resolved>>

(* The deadline: cancel; an entry's position is closed, a close order's    *)
(* position is reported open.                                              *)
MonitorTimeout(o) ==
    /\ Monitored(o)
    /\ CancelOrder(o)
    /\ Stop(o)
    /\ IF book[o].close
       THEN UNCHANGED positions /\ Tell(book[o].key, "open")
       ELSE positions' = ClosePosition(positions, book[o].key) /\ Tell(book[o].key, "closed")
    /\ UNCHANGED <<riskVars, exec, closer, balance, tokens, cash, resolved>>

(* A poll finds an entry filled.                                           *)
MonitorEntryFilled(o) ==
    /\ Monitored(o)
    /\ ~book[o].close
    /\ book[o].state = "filled"
    /\ positions' = UpdatePositionSize(positions, book[o].key, book[o].filled)
    /\ balance' = balance - book[o].price * book[o].filled
    /\ Tell(book[o].key, "open")
    /\ Stop(o)
    /\ UNCHANGED <<riskVars, exec, closer, exchangeVars>>

(* A poll finds a close filled: the profit is measured against the         *)
(* position the ledger has now, which is closed; then its contracts are    *)
(* released as USDC.                                                       *)
MonitorCloseFilled(o) ==
    /\ Monitored(o)
    /\ book[o].close
    /\ book[o].state = "filled"
    /\ LET k == book[o].key
           proceeds == book[o].price * book[o].filled
       IN  /\ positions' = ClosePosition(positions, k)
           /\ balance' = balance + proceeds
           /\ monitors' = [monitors EXCEPT ![o] =
                 [pc |-> "record", size |-> positions[k].size * Dollar,
                  pnl |-> proceeds - positions[k].entryPrice * positions[k].size]]
    /\ UNCHANGED <<riskVars, exec, closer, told, exchangeVars>>

MonitorRecordClose(o) ==
    /\ monitors[o].pc = "record"
    /\ RecordClose(Market(book[o].key), monitors[o].size, monitors[o].pnl)
    /\ Tell(book[o].key, "closed")
    /\ Stop(o)
    /\ UNCHANGED <<positions, exec, closer, balance, exchangeVars>>

(* A poll finds the order cancelled.                                       *)
MonitorCancelled(o) ==
    /\ Monitored(o)
    /\ book[o].state = "cancelled"
    /\ Stop(o)
    /\ IF book[o].close
       THEN UNCHANGED positions /\ Tell(book[o].key, "open")
       ELSE positions' = ClosePosition(positions, book[o].key) /\ Tell(book[o].key, "closed")
    /\ UNCHANGED <<riskVars, exec, closer, balance, exchangeVars>>

PartiallyFilled(o) ==
    Live(o) /\ ~book[o].close /\ book[o].filled > 0

(* The size a poll reports: a reply that names none counts as zero.        *)
ReportedFills(o) == {book[o].filled} \cup (IF "unsized" \in Faults THEN {0} ELSE {})

(* "keep": the ledger follows the fills; the strategy is told nothing yet. *)
MonitorPartialKeep(o) ==
    /\ Monitored(o)
    /\ PartiallyFilled(o)
    /\ PartialFillAction = "keep"
    /\ \E n \in ReportedFills(o) :
          positions' = UpdatePositionSize(positions, book[o].key, n)
    /\ UNCHANGED <<riskVars, exec, closer, monitors, balance, told, exchangeVars>>

(* "cancel": the fill seen by the poll is kept while the cancel request is *)
(* on its way.                                                             *)
MonitorPartialSeen(o) ==
    /\ Monitored(o)
    /\ PartiallyFilled(o)
    /\ PartialFillAction = "cancel"
    /\ \E n \in ReportedFills(o) :
          monitors' = [monitors EXCEPT ![o] = [pc |-> "cancel", filled |-> n]]
    /\ UNCHANGED <<riskVars, positions, exec, closer, balance, told, exchangeVars>>

(* Without a size the position is given up.                                *)
MonitorPartialCancel(o) ==
    /\ monitors[o].pc = "cancel"
    /\ CancelOrder(o)
    /\ LET k == book[o].key
       IN  IF monitors[o].filled > 0
           THEN /\ positions' = UpdatePositionSize(positions, k, monitors[o].filled)
                /\ Tell(k, "open")
           ELSE /\ positions' = ClosePosition(positions, k)
                /\ Tell(k, "closed")
    /\ Stop(o)
    /\ UNCHANGED <<riskVars, exec, closer, balance, tokens, cash, resolved>>
----------------------------------------------------------------------------
ResumeTrading ==
    /\ haltCallbacks < CallbackBound
    /\ Resume
    /\ UNCHANGED <<positions, exec, closer, monitors, balance, told, exchangeVars>>

Midnight ==
    /\ today < LastDay
    /\ NextDay
    /\ UNCHANGED <<positions, exec, closer, monitors, balance, told, exchangeVars>>

EntryStep == (\E p \in Prices : PostEntry(p)) \/ FailEntry \/ OpenEntry \/ RecordEntry

CloserStep(c) ==
    \/ TakePosition(c)
    \/ Finish(c)
    \/ \E p \in Prices : CloseAccepted(c, p)
    \/ CloseShort(c)
    \/ CloseResolved(c)
    \/ RecordForcedClose(c)
    \/ CloseFails(c)

MonitorPoll(o) ==
    \/ MonitorEntryFilled(o)
    \/ MonitorCloseFilled(o)
    \/ MonitorCancelled(o)
    \/ MonitorPartialKeep(o)
    \/ MonitorPartialSeen(o)

MonitorEnd(o) ==
    \/ MonitorCtxDone(o)
    \/ MonitorTimeout(o)
    \/ MonitorPartialCancel(o)
    \/ MonitorRecordClose(o)

Signals ==
    \/ \E k \in Keys, size \in Sizes : AdmitEntry(k, size) \/ RefuseEntry(k, size)
    \/ \E k \in Keys : CloseSignal(k) \/ CloseSignalUnknown(k)

Exchange ==
    \/ \E o \in OrderIDs : ExchangeCancels(o) \/ \E n \in 1 .. book[o].size : Match(o, n)
    \/ \E m \in Markets : Resolve(m)

LiveNext ==
    \/ Signals
    \/ EntryStep
    \/ \E c \in HaltClosers : StartHaltClose(c)
    \/ \E c \in Teardowns, m \in Markets : StartTeardown(c, m)
    \/ \E c \in Closers : CloserStep(c)
    \/ \E o \in OrderIDs : MonitorPoll(o) \/ MonitorEnd(o)
    \/ RefreshBalance
    \/ Exchange
    \/ ResumeTrading
    \/ Midnight

LiveSpec == LiveInit /\ [][LiveNext]_liveVars

(* Fairness: a goroutine that can take its next step takes it (requests to *)
(* the exchange time out, so each one ends), and a monitor's deadline      *)
(* timer fires.  Nothing is assumed of fills, signals or the operator.     *)
LiveFairness ==
    /\ WF_liveVars(EntryStep)
    /\ \A c \in Closers : WF_liveVars(CloserStep(c))
    /\ \A o \in 1 .. MaxOrders : WF_liveVars(o \in OrderIDs /\ MonitorEnd(o))

FairLiveSpec == LiveSpec /\ LiveFairness
----------------------------------------------------------------------------
(* Types of the executor's and the exchange's state.  The exchange never   *)
(* accepts orders for more than there is: what is free is not negative.    *)
LiveTypeOK ==
    /\ RiskTypeOK
    /\ \A k \in Keys :
          /\ positions[k] # NoPosition =>
                /\ positions[k].status \in {"open", "closed"}
                /\ positions[k].entryPrice \in Prices
                /\ positions[k].size \in Nat
                /\ positions[k].order \in OrderIDs \cup {NoOrder}
          /\ FreeTokens(k) \in Nat
          /\ tokens[k] \in Nat
          /\ told[k] \in {"none", "pending", "open", "closed"}
    /\ exec.pc \in {"idle", "submit", "posted", "opened"}
    /\ \A c \in Closers :
          /\ closer[c].pc \in {"idle", "loop", "post", "repost", "record"}
          /\ closer[c].pc # "idle" => closer[c].todo \subseteq Keys
    /\ DOMAIN monitors = OrderIDs
    /\ \A o \in OrderIDs : book[o].filled \in 0 .. book[o].size
    /\ FreeCash \in Nat
    /\ cash \in Nat
    /\ balance \in Int
    /\ resolved \subseteq Markets

(* The executor drives the risk manager as RiskGate requires: one entry at *)
(* a time between Check and RecordOpen, whatever closers and monitors do.  *)
(* What is proved of RiskGate therefore holds of the executor.             *)
RG == INSTANCE RiskGate WITH
         inflight <- IF exec.pc = "idle" THEN NoEntry
                     ELSE [strategy |-> Strategy(exec.key), market |-> Market(exec.key),
                           size |-> exec.size]
ImplementsRiskGate == RG!GateSpec

(* Every entry or close signal that reaches the exchange is answered: the  *)
(* strategy is told none, open or closed, on every error path, timeout,    *)
(* lost reply and fill.                                                    *)
SignalsAreAnswered == \A k \in Keys : told[k] = "pending" ~> told[k] # "pending"

(* No goroutine is in the middle of anything.                              *)
Quiescent ==
    /\ exec.pc = "idle"
    /\ \A c \in Closers : closer[c].pc = "idle"
    /\ \A o \in OrderIDs : monitors[o].pc \in {"none", "done"}

(* Documented (POLYSNIPE_SPEC.md, order lifecycle): on a fill the position *)
(* ledger is updated.  So whoever holds tokens has an open position.       *)
FillsReachTheLedger ==
    Quiescent => \A k \in Keys : tokens[k] > 0 => HasOpenPosition(positions, k)

(* Documented (POLYSNIPE_SPEC.md, global limits): max_total_exposure       *)
(* bounds the exposure across all markets and strategies.                  *)
CostOf(k) == positions[k].entryPrice * positions[k].size
OpenCostIsCapped ==
    MapThenSumSet(CostOf, OpenPositions(positions)) <= MaxTotalExposure
=============================================================================
