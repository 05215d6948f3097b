---------------------------- MODULE Orchestrator ----------------------------
(***************************************************************************)
(* Market discovery (internal/discovery/engine.go) and the orchestrator of *)
(* cmd/polysnipe/main.go: which markets the bot runs.                      *)
(*                                                                         *)
(*   poll      the discovery engine: compares Gamma's list with the        *)
(*             markets it knows and sends commands, holding its mutex;     *)
(*   main      the orchestrator's command loop, the only consumer;         *)
(*   reaper    drops markets that had no price for a while;                *)
(*   droppers  one price goroutine per market stack, which drops its       *)
(*             market when the first spread it sees is too wide.           *)
(*                                                                         *)
(* Two registries must agree: known (the engine's) and registry (the       *)
(* orchestrator's).  Gamma lists markets that match a watchlist and at     *)
(* least one strategy; prices and positions are choices of the             *)
(* environment.                                                            *)
(***************************************************************************)
EXTENDS Integers, Sequences, FiniteSets

CONSTANTS Markets,
          MaxMarkets,   \* discovery.max_markets, 0: no limit
          CommandCap,   \* capacity of commandCh
          SpreadCheck,  \* max_spread_cents > 0
          StaleCheck,   \* stale_market_timeout_sec > 0
          StackIds,     \* bound: stacks whose goroutines are not all gone
          NoStack,
          MaxChanges    \* bound: changes of Gamma's list, errors of polls about it

ASSUME OrchestratorConfig ==
    /\ IsFiniteSet(Markets)
    /\ MaxMarkets \in Nat
    /\ CommandCap \in Nat \ {0}
    /\ SpreadCheck \in BOOLEAN
    /\ StaleCheck \in BOOLEAN
    /\ MaxChanges \in Nat
    /\ NoStack \notin StackIds

VARIABLES listed,   \* Gamma: the markets that match now
          changes,  \* Gamma: how often its list has changed or was misread
          known,    \* Engine.registry
          poll,     \* the poll in progress
          commands, \* commandCh
          registry, \* orchestrator.registry: market -> its stack
          stacks,   \* stack -> its market, context and price goroutine
          worker,   \* main, reaper -> the subscription or teardown at hand
          stale,    \* the reaper's snapshot of stale markets
          traded    \* markets in which the ledger has a position, open or closed

orchVars == <<listed, changes, known, poll, commands, registry, stacks, worker,
              stale, traded>>

Workers == {"main", "reaper"}
Idle == [pc |-> "idle"]
Unused == [market |-> NoStack, cancelled |-> TRUE, dropper |-> "off"]

Registered == {m \in Markets : registry[m] # NoStack}
MutexFree == poll.pc # "sending"

OrchInit ==
    /\ listed \in {{}, Markets}
    /\ changes = 0
    /\ known = {}
    /\ poll = Idle
    /\ commands = <<>>
    /\ registry = [m \in Markets |-> NoStack]
    /\ stacks = [g \in StackIds |-> Unused]
    /\ worker = [w \in Workers |-> Idle]
    /\ stale = {}
    /\ traded = {}
----------------------------------------------------------------------------
(* The environment.                                                        *)
GammaChanges(m) ==
    /\ changes < MaxChanges
    /\ changes' = changes + 1
    /\ listed' = IF m \in listed THEN listed \ {m} ELSE listed \cup {m}
    /\ UNCHANGED <<known, poll, commands, registry, stacks, worker, stale, traded>>

(* A strategy of the market opens a position; the ledger never forgets it. *)
Trade(m) ==
    /\ m \in Registered \ traded
    /\ traded' = traded \cup {m}
    /\ UNCHANGED <<listed, changes, known, poll, commands, registry, stacks, worker, stale>>
----------------------------------------------------------------------------
(* Engine.poll: the list is fetched (module GammaFetch), then the mutex is *)
(* taken and held while commands are sent.  What changes or fails during   *)
(* the fetch makes the poll wrong about some markets.                      *)
PollFetch ==
    /\ poll = Idle
    /\ \E wrong \in SUBSET Markets :
          /\ changes + Cardinality(wrong) <= MaxChanges
          /\ changes' = changes + Cardinality(wrong)
          /\ poll' = [pc |-> "fetched", current |-> (listed \ wrong) \cup (wrong \ listed)]
    /\ UNCHANGED <<listed, known, commands, registry, stacks, worker, stale, traded>>

PollLock ==
    /\ poll.pc = "fetched"
    /\ poll' = [poll EXCEPT !.pc = "sending"]
    /\ UNCHANGED <<listed, changes, known, commands, registry, stacks, worker, stale, traded>>

(* Mutant: a send that does not wait for room.                             *)
SendCommandUnbounded(action, m) ==
    commands' = Append(commands, [action |-> action, market |-> m])

(* A command is sent once the channel has room.                            *)
SendCommand(action, m) ==
    /\ Len(commands) < CommandCap
    /\ commands' = Append(commands, [action |-> action, market |-> m])

PollSubscribe(m) ==
    /\ poll.pc = "sending"
    /\ m \in poll.current \ known
    /\ SendCommand("subscribe", m)
    /\ known' = known \cup {m}
    /\ UNCHANGED <<listed, changes, poll, registry, stacks, worker, stale, traded>>

PollUnsubscribe(m) ==
    /\ poll.pc = "sending"
    /\ poll.current \subseteq known
    /\ m \in known \ poll.current
    /\ SendCommand("unsubscribe", m)
    /\ known' = known \ {m}
    /\ UNCHANGED <<listed, changes, poll, registry, stacks, worker, stale, traded>>


(* Every command is sent: unlock.                                          *)
PollEnd ==
    /\ poll.pc = "sending"
    /\ poll.current = known
    /\ poll' = Idle
    /\ UNCHANGED <<listed, changes, known, commands, registry, stacks, worker, stale, traded>>

(* Engine.Forget waits for the mutex.                                      *)
Forget(m) ==
    /\ MutexFree
    /\ known' = known \ {m}
----------------------------------------------------------------------------
(* unsubscribeMarket, run by the command loop and by the reaper.           *)
Remove(w, m) ==
    /\ registry' = [registry EXCEPT ![m] = NoStack]
    /\ worker' = [worker EXCEPT ![w] =
                     IF registry[m] = NoStack THEN Idle
                     ELSE [pc |-> "cancel", market |-> m, stack |-> registry[m]]]

(* Mutant: the stack's context is not cancelled.                           *)
CancelNothing(w) ==
    /\ worker[w].pc = "cancel"
    /\ worker' = [worker EXCEPT ![w].pc = "forget"]
    /\ UNCHANGED <<listed, changes, known, poll, commands, registry, stacks, stale, traded>>

(* stack.Cancel and the end of the market's price feed.                    *)
Cancel(w) ==
    /\ worker[w].pc = "cancel"
    /\ stacks' = [stacks EXCEPT ![worker[w].stack].cancelled = TRUE]
    /\ worker' = [worker EXCEPT ![w].pc = "forget"]
    /\ UNCHANGED <<listed, changes, known, poll, commands, registry, stale, traded>>

(* Mutant: the discovery engine is not told.                               *)
ForgetNothing(w) ==
    /\ worker[w].pc = "forget"
    /\ worker' = [worker EXCEPT ![w].pc = "close"]
    /\ UNCHANGED <<listed, changes, known, poll, commands, registry, stacks, stale, traded>>

(* discoveryEngine.Forget.                                                 *)
ForgetMarket(w) ==
    /\ worker[w].pc = "forget"
    /\ Forget(worker[w].market)
    /\ worker' = [worker EXCEPT ![w].pc = "close"]
    /\ UNCHANGED <<listed, changes, poll, commands, registry, stacks, stale, traded>>

(* CloseMarket, then the wait (with a timeout) for the stack's engine.     *)
CloseAndWait(w) ==
    /\ worker[w].pc = "close"
    /\ worker' = [worker EXCEPT ![w] = Idle]
    /\ UNCHANGED <<listed, changes, known, poll, commands, registry, stacks, stale, traded>>

(* The command loop.  The check of a Subscribe and the registration are    *)
(* two critical sections.                                                  *)
Receive(action) ==
    /\ worker["main"] = Idle
    /\ commands # <<>>
    /\ Head(commands).action = action
    /\ commands' = Tail(commands)

AtCap == MaxMarkets > 0 /\ Cardinality(Registered) >= MaxMarkets

(* Mutant: the cap is passed by one.                                       *)
ReceiveSubscribeOverCap ==
    /\ Receive("subscribe")
    /\ LET m == Head(commands).market
           overCap == MaxMarkets > 0 /\ Cardinality(Registered) > MaxMarkets
       IN  worker' = IF m \in Registered \/ overCap THEN worker
                     ELSE [worker EXCEPT !["main"] = [pc |-> "subscribe", market |-> m]]
    /\ UNCHANGED <<listed, changes, known, poll, registry, stacks, stale, traded>>

(* A market already registered, or beyond the cap, is skipped.             *)
ReceiveSubscribe ==
    /\ Receive("subscribe")
    /\ LET m == Head(commands).market
       IN  worker' = IF m \in Registered \/ AtCap THEN worker
                     ELSE [worker EXCEPT !["main"] = [pc |-> "subscribe", market |-> m]]
    /\ UNCHANGED <<listed, changes, known, poll, registry, stacks, stale, traded>>

(* A stack is free for reuse in the model when nothing refers to it.       *)
Free(g) ==
    /\ stacks[g].cancelled
    /\ stacks[g].dropper = "off"
    /\ \A m \in Markets : registry[m] # g
    /\ \A w \in Workers : worker[w].pc \in {"cancel"} => worker[w].stack # g

SubscribeMarket ==
    /\ worker["main"].pc = "subscribe"
    /\ \E g \in StackIds : Free(g)
    /\ LET m == worker["main"].market
           g == CHOOSE h \in StackIds : Free(h)
       IN  /\ registry' = [registry EXCEPT ![m] = g]
           /\ stacks' = [stacks EXCEPT ![g] =
                 [market |-> m, cancelled |-> FALSE,
                  dropper |-> IF SpreadCheck THEN "new" ELSE "off"]]
    /\ worker' = [worker EXCEPT !["main"] = Idle]
    /\ UNCHANGED <<listed, changes, known, poll, commands, stale, traded>>

ReceiveUnsubscribe ==
    /\ Receive("unsubscribe")
    /\ Remove("main", Head(commands).market)
    /\ UNCHANGED <<listed, changes, known, poll, stacks, stale, traded>>
----------------------------------------------------------------------------
(* The reaper: a snapshot of the markets without ticks and positions, then *)
(* one teardown after another.                                             *)
ReaperScan ==
    /\ StaleCheck
    /\ worker["reaper"] = Idle
    /\ stale = {}
    /\ \E quiet \in SUBSET (Registered \ traded) :
          quiet # {} /\ stale' = quiet
    /\ UNCHANGED <<listed, changes, known, poll, commands, registry, stacks, worker, traded>>

Reap(m) ==
    /\ worker["reaper"] = Idle
    /\ m \in stale
    /\ stale' = stale \ {m}
    /\ Remove("reaper", m)
    /\ UNCHANGED <<listed, changes, known, poll, commands, stacks, traded>>
----------------------------------------------------------------------------
(* The price goroutine at the first tick with a bid and an ask; the tick   *)
(* may have been buffered before a teardown.                               *)
KeepMarket(g) ==
    /\ stacks[g].dropper = "new"
    /\ stacks' = [stacks EXCEPT ![g].dropper = "off"]
    /\ UNCHANGED <<listed, changes, known, poll, commands, registry, worker, stale, traded>>

DropMarket(g) ==
    /\ stacks[g].dropper = "new"
    /\ stacks[g].market \notin traded
    /\ stacks' = [stacks EXCEPT ![g].dropper = "forget", ![g].cancelled = TRUE]
    /\ UNCHANGED <<listed, changes, known, poll, commands, registry, worker, stale, traded>>

DropForget(g) ==
    /\ stacks[g].dropper = "forget"
    /\ Forget(stacks[g].market)
    /\ stacks' = [stacks EXCEPT ![g].dropper = "delete"]
    /\ UNCHANGED <<listed, changes, poll, commands, registry, worker, stale, traded>>

(* delete(orch.registry, mktID): whichever stack is registered.            *)
DropDelete(g) ==
    /\ stacks[g].dropper = "delete"
    /\ registry' = [registry EXCEPT ![stacks[g].market] = NoStack]
    /\ stacks' = [stacks EXCEPT ![g].dropper = "off"]
    /\ UNCHANGED <<listed, changes, known, poll, commands, worker, stale, traded>>
----------------------------------------------------------------------------
PollStep ==
    \/ PollFetch
    \/ PollLock
    \/ \E m \in Markets : PollSubscribe(m) \/ PollUnsubscribe(m)
    \/ PollEnd

Teardown(w) == Cancel(w) \/ ForgetMarket(w) \/ CloseAndWait(w)

MainStep ==
    \/ ReceiveSubscribe
    \/ SubscribeMarket
    \/ ReceiveUnsubscribe
    \/ Teardown("main")

ReaperStep == (\E m \in Markets : Reap(m)) \/ Teardown("reaper")

DropperStep(g) == KeepMarket(g) \/ DropMarket(g) \/ DropForget(g) \/ DropDelete(g)

OrchNext ==
    \/ \E m \in Markets : GammaChanges(m) \/ Trade(m)
    \/ PollStep
    \/ MainStep
    \/ ReaperScan
    \/ ReaperStep
    \/ \E g \in StackIds : DropperStep(g)

OrchSpec == OrchInit /\ [][OrchNext]_orchVars

(* Every goroutine keeps running: the poll ticker fires, the command loop  *)
(* and a teardown under way continue, a price goroutine finishes a drop it *)
(* began.  A goroutine waiting for the engine's mutex gets it in the end   *)
(* (sync.Mutex does not starve waiters), hence strong fairness of Forget.  *)
(* Nothing is assumed of Gamma, of prices or of the reaper's scan.         *)
FairOrchSpec ==
    /\ OrchSpec
    /\ WF_orchVars(PollStep)
    /\ WF_orchVars(MainStep)
    /\ WF_orchVars(ReaperStep)
    /\ \A w \in Workers : SF_orchVars(ForgetMarket(w))
    /\ \A g \in StackIds : SF_orchVars(DropForget(g)) /\ WF_orchVars(DropDelete(g))
----------------------------------------------------------------------------
(* Types of the two registries and of the goroutines' progress.            *)
OrchTypeOK ==
    /\ listed \subseteq Markets /\ known \subseteq Markets
    /\ stale \subseteq Markets /\ traded \subseteq Markets
    /\ changes \in 0 .. MaxChanges
    /\ poll.pc \in {"idle", "fetched", "sending"}
    /\ Len(commands) <= CommandCap
    /\ registry \in [Markets -> StackIds \cup {NoStack}]
    /\ stacks \in [StackIds -> [market : Markets \cup {NoStack}, cancelled : BOOLEAN,
                                dropper : {"off", "new", "forget", "delete"}]]
    /\ \A w \in Workers :
          worker[w].pc \in {"idle", "subscribe", "cancel", "forget", "close"}

(* max_markets is checked in one critical section and the market added in  *)
(* another, while three other goroutines change the registry: the cap on   *)
(* simultaneous subscriptions still holds.                                 *)
CapHolds == MaxMarkets > 0 => Cardinality(Registered) <= MaxMarkets

(* Documented (POLYSNIPE_DISCOVERY_MOD_SPEC.md, market lifecycle): when a  *)
(* market is torn down all its goroutines are cancelled.  So a stack that  *)
(* still runs is registered, or a teardown of it is under way.             *)
Owned(g) ==
    ~stacks[g].cancelled =>
        \/ registry[stacks[g].market] = g
        \/ \E w \in Workers : worker[w].pc = "cancel" /\ worker[w].stack = g
RunningStacksAreOwned == \A g \in StackIds : Owned(g)

(* What the code keeps of it, with the spread check: the registry loses a  *)
(* running stack only when an earlier stack of the same market, dropped    *)
(* for its spread, deletes the market's registration, which is no longer   *)
(* its own.  No check, registration, teardown or reaper does, whatever     *)
(* runs between its critical sections.                                     *)
OrphanedByDrop ==
    \A g \in StackIds :
        Owned(g) => \/ Owned(g)'
                    \/ \E h \in StackIds \ {g} :
                          stacks[h].market = stacks[g].market /\ DropDelete(h)
OnlyDropsOrphan == [][OrphanedByDrop]_orchVars

Settled ==
    /\ commands = <<>>
    /\ \A w \in Workers : worker[w] = Idle
    /\ \A g \in StackIds : stacks[g].dropper \in {"off", "new"}

(* Documented (discovery/engine.go, field registry): the engine's registry *)
(* says which markets are currently subscribed.  Whatever the order of     *)
(* polls, commands, teardowns and Forgets, a market it believes subscribed *)
(* is registered once all goroutines are done.                             *)
KnownAreRegistered == Settled => known \subseteq Registered

(* Stranded: the engine believes m subscribed, so no poll will subscribe   *)
(* it again, while it is not registered, no Subscribe is on its way to the *)
(* orchestrator, and nobody is about to tell the engine to forget it.      *)
OnItsWay(m) ==
    \/ \E i \in DOMAIN commands : commands[i] = [action |-> "subscribe", market |-> m]
    \/ worker["main"] = [pc |-> "subscribe", market |-> m]
ToBeForgotten(m) ==
    \/ \E w \in Workers : worker[w].pc \in {"cancel", "forget"} /\ worker[w].market = m
    \/ \E g \in StackIds : stacks[g].dropper = "forget" /\ stacks[g].market = m
Stranded(m) == m \in known \ Registered /\ ~OnItsWay(m) /\ ~ToBeForgotten(m)

(* What the code keeps of KnownAreRegistered with a cap and the spread     *)
(* check: only two steps strand a market, a Subscribe skipped at the cap   *)
(* and the delete of a drop that began before the engine subscribed the    *)
(* market again.                                                           *)
SkippedAtCap(m) == ReceiveSubscribe /\ Head(commands).market = m /\ AtCap
StrandedByCapOrDrop ==
    \A m \in Markets :
        Stranded(m)' => \/ Stranded(m)
                        \/ SkippedAtCap(m)
                        \/ \E g \in StackIds : stacks[g].market = m /\ DropDelete(g)
OnlyCapOrDropStrands == [][StrandedByCapOrDrop]_orchVars

(* Documented (POLYSNIPE_DISCOVERY_MOD_SPEC.md, orchestrator): a received  *)
(* Unsubscribe leads to the executor closing the market's positions, and   *)
(* to the end of the market's goroutines.                                  *)
TeardownCompletes == \A w \in Workers : worker[w].pc = "cancel" ~> worker[w] = Idle

(* The poll holds the engine's mutex and waits for room in commandCh,      *)
(* whose only consumer waits for the mutex in Forget.  Nobody leaves this. *)
Jammed ==
    /\ poll.pc = "sending" /\ poll.current # known
    /\ Len(commands) = CommandCap
    /\ worker["main"].pc = "forget"


(* A market that stays listed is subscribed again and again, however often *)
(* it is dropped, unless the goroutines jam.                               *)
ListedIsSubscribed ==
    \A m \in Markets : <>[](m \in listed) => []<>(m \in Registered) \/ <>[]Jammed
=============================================================================
