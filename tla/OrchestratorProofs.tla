------------------------- MODULE OrchestratorProofs -------------------------
(* Proofs about the two registries, for any markets, stacks and channel.   *)
EXTENDS Orchestrator, FiniteSetTheorems, TLAPS

Command == [action : {"subscribe", "unsubscribe"}, market : Markets]

PollState == {Idle} \cup [pc : {"fetched", "sending"}, current : SUBSET Markets]

WorkerState == {Idle} \cup [pc : {"subscribe"}, market : Markets]
               \cup [pc : {"cancel", "forget", "close"}, market : Markets,
                     stack : StackIds]

(* What the goroutines hold, in more detail than OrchTypeOK.               *)
GoroutinesOK ==
    /\ poll \in PollState
    /\ commands \in Seq(Command)
    /\ worker \in [Workers -> WorkerState]

TypeInv == OrchTypeOK /\ GoroutinesOK

(* At the start nothing is registered, known or under way.                 *)
LEMMA InitTypes == OrchInit => TypeInv
<1> SUFFICES ASSUME OrchInit PROVE TypeInv
  OBVIOUS
<1>1. /\ listed \subseteq Markets /\ known \subseteq Markets
      /\ stale \subseteq Markets /\ traded \subseteq Markets
      /\ poll = Idle /\ commands = <<>> /\ changes = 0
  BY DEF OrchInit
<1>2. /\ registry \in [Markets -> StackIds \cup {NoStack}]
      /\ stacks \in [StackIds -> [market : Markets \cup {NoStack}, cancelled : BOOLEAN,
                                  dropper : {"off", "new", "forget", "delete"}]]
  BY DEF OrchInit, Unused
<1>3. /\ worker \in [Workers -> WorkerState]
      /\ \A w \in Workers : worker[w].pc = "idle"
  BY DEF OrchInit, WorkerState, Idle
<1>4. Len(commands) <= CommandCap /\ commands \in Seq(Command) /\ changes \in 0 .. MaxChanges
  BY <1>1, OrchestratorConfig
<1> QED
  BY <1>1, <1>2, <1>3, <1>4 DEF TypeInv, OrchTypeOK, GoroutinesOK, PollState, Idle

(* Gamma's list and the errors of a poll about it.                         *)
LEMMA ListTypes ==
    ASSUME TypeInv, [OrchNext]_orchVars
    PROVE  listed' \subseteq Markets /\ changes' \in 0 .. MaxChanges
<1>1. listed \subseteq Markets /\ changes \in 0 .. MaxChanges
  BY DEF TypeInv, OrchTypeOK
<1>2. ASSUME NEW m \in Markets, GammaChanges(m)
      PROVE  listed' \subseteq Markets /\ changes' \in 0 .. MaxChanges
  BY <1>1, <1>2, OrchestratorConfig DEF GammaChanges
<1>3. ASSUME PollFetch
      PROVE  listed' \subseteq Markets /\ changes' \in 0 .. MaxChanges
  <2>1. PICK wrong \in SUBSET Markets :
           /\ changes + Cardinality(wrong) <= MaxChanges
           /\ changes' = changes + Cardinality(wrong)
    BY <1>3 DEF PollFetch
  <2>2. Cardinality(wrong) \in Nat
    BY FS_Subset, FS_CardinalityType, OrchestratorConfig
  <2> QED
    BY <1>1, <1>3, <2>1, <2>2, OrchestratorConfig DEF PollFetch
<1>4. ASSUME UNCHANGED <<listed, changes>>
      PROVE  listed' \subseteq Markets /\ changes' \in 0 .. MaxChanges
  BY <1>1, <1>4
<1> QED
  BY <1>2, <1>3, <1>4, Zenon
     DEF OrchNext, orchVars, PollStep, MainStep, ReaperStep, DropperStep, Teardown, Trade,
         PollLock, PollSubscribe, PollUnsubscribe, PollEnd, ReceiveSubscribe, SubscribeMarket,
         ReceiveUnsubscribe, Cancel, ForgetMarket, CloseAndWait, ReaperScan, Reap,
         KeepMarket, DropMarket, DropForget, DropDelete

(* What a step can do to the engine's registry and to the other sets.      *)
LEMMA SetTypes ==
    ASSUME TypeInv, [OrchNext]_orchVars
    PROVE  known' \subseteq Markets /\ stale' \subseteq Markets /\ traded' \subseteq Markets
<1>1. known \subseteq Markets /\ stale \subseteq Markets /\ traded \subseteq Markets
  BY DEF TypeInv, OrchTypeOK
<1>2. known' \subseteq Markets
  BY <1>1, Zenon
     DEF OrchNext, orchVars, PollStep, MainStep, ReaperStep, DropperStep, Teardown, Trade,
         GammaChanges, PollFetch, PollLock, PollSubscribe, PollUnsubscribe, PollEnd,
         ReceiveSubscribe, SubscribeMarket, ReceiveUnsubscribe, Cancel, ForgetMarket, Forget,
         CloseAndWait, ReaperScan, Reap, KeepMarket, DropMarket, DropForget, DropDelete
<1>3. stale' \subseteq Markets
  BY <1>1, Zenon
     DEF OrchNext, orchVars, PollStep, MainStep, ReaperStep, DropperStep, Teardown, Trade,
         GammaChanges, PollFetch, PollLock, PollSubscribe, PollUnsubscribe, PollEnd,
         ReceiveSubscribe, SubscribeMarket, ReceiveUnsubscribe, Cancel, ForgetMarket,
         CloseAndWait, ReaperScan, Reap, KeepMarket, DropMarket, DropForget, DropDelete,
         Registered
<1>4. traded' \subseteq Markets
  BY <1>1, Zenon
     DEF OrchNext, orchVars, PollStep, MainStep, ReaperStep, DropperStep, Teardown, Trade,
         GammaChanges, PollFetch, PollLock, PollSubscribe, PollUnsubscribe, PollEnd,
         ReceiveSubscribe, SubscribeMarket, ReceiveUnsubscribe, Cancel, ForgetMarket,
         CloseAndWait, ReaperScan, Reap, KeepMarket, DropMarket, DropForget, DropDelete
<1> QED
  BY <1>2, <1>3, <1>4

(* The poll in progress, and the commands it sends.                        *)
LEMMA PollTypes ==
    ASSUME TypeInv, [OrchNext]_orchVars
    PROVE  poll' \in PollState
<1>1. poll \in PollState /\ listed \subseteq Markets
  BY DEF TypeInv, OrchTypeOK, GoroutinesOK
<1>2. ASSUME PollFetch PROVE poll' \in PollState
  BY <1>1, <1>2 DEF PollFetch, PollState
<1>3. ASSUME PollLock PROVE poll' \in PollState
  BY <1>1, <1>3 DEF PollLock, PollState, Idle
<1>4. ASSUME PollEnd PROVE poll' \in PollState
  BY <1>4 DEF PollEnd, PollState
<1>5. ASSUME UNCHANGED poll PROVE poll' \in PollState
  BY <1>1, <1>5
<1> QED
  BY <1>2, <1>3, <1>4, <1>5, Zenon
     DEF OrchNext, orchVars, PollStep, MainStep, ReaperStep, DropperStep, Teardown, Trade,
         GammaChanges, PollSubscribe, PollUnsubscribe, ReceiveSubscribe, SubscribeMarket,
         ReceiveUnsubscribe, Cancel, ForgetMarket, CloseAndWait, ReaperScan, Reap,
         KeepMarket, DropMarket, DropForget, DropDelete

LEMMA CommandTypes ==
    ASSUME TypeInv, [OrchNext]_orchVars
    PROVE  commands' \in Seq(Command) /\ Len(commands') <= CommandCap
<1>1. commands \in Seq(Command) /\ Len(commands) <= CommandCap
  BY DEF TypeInv, OrchTypeOK, GoroutinesOK
<1>2. ASSUME NEW a \in {"subscribe", "unsubscribe"}, NEW m \in Markets, SendCommand(a, m)
      PROVE  commands' \in Seq(Command) /\ Len(commands') <= CommandCap
  <2>1. [action |-> a, market |-> m] \in Command
    BY DEF Command
  <2>2. commands' = Append(commands, [action |-> a, market |-> m]) /\ Len(commands) < CommandCap
    BY <1>2 DEF SendCommand
  <2> HIDE DEF Command
  <2> QED
    BY <1>1, <2>1, <2>2, OrchestratorConfig
<1>3. ASSUME NEW a, Receive(a)
      PROVE  commands' \in Seq(Command) /\ Len(commands') <= CommandCap
  <2>1. commands # <<>> /\ commands' = Tail(commands)
    BY <1>3 DEF Receive
  <2> QED
    BY <1>1, <2>1, OrchestratorConfig
<1>4. ASSUME UNCHANGED commands
      PROVE  commands' \in Seq(Command) /\ Len(commands') <= CommandCap
  BY <1>1, <1>4
<1> QED
  BY <1>2, <1>3, <1>4, Zenon
     DEF OrchNext, orchVars, PollStep, MainStep, ReaperStep, DropperStep, Teardown, Trade,
         GammaChanges, PollFetch, PollLock, PollSubscribe, PollUnsubscribe, PollEnd,
         ReceiveSubscribe, SubscribeMarket, ReceiveUnsubscribe, Cancel, ForgetMarket,
         CloseAndWait, ReaperScan, Reap, KeepMarket, DropMarket, DropForget, DropDelete

(* The command that is taken names a market.                               *)
LEMMA HeadTypes ==
    ASSUME TypeInv, commands # <<>>
    PROVE  Head(commands) \in Command
BY DEF TypeInv, GoroutinesOK

LEMMA RegistryTypes ==
    ASSUME TypeInv, [OrchNext]_orchVars
    PROVE  registry' \in [Markets -> StackIds \cup {NoStack}]
<1>1. registry \in [Markets -> StackIds \cup {NoStack}]
  BY DEF TypeInv, OrchTypeOK
<1>2. ASSUME NEW w, NEW m, Remove(w, m)
      PROVE  registry' \in [Markets -> StackIds \cup {NoStack}]
  BY <1>1, <1>2 DEF Remove
<1>3. ASSUME SubscribeMarket PROVE registry' \in [Markets -> StackIds \cup {NoStack}]
  <2>1. PICK g \in StackIds : registry' = [registry EXCEPT ![worker["main"].market] = g]
    BY <1>3, Zenon DEF SubscribeMarket
  <2> QED
    BY <1>1, <2>1
<1>4. ASSUME NEW g, DropDelete(g) PROVE registry' \in [Markets -> StackIds \cup {NoStack}]
  BY <1>1, <1>4 DEF DropDelete
<1>5. ASSUME UNCHANGED registry PROVE registry' \in [Markets -> StackIds \cup {NoStack}]
  BY <1>1, <1>5
<1> QED
  BY <1>2, <1>3, <1>4, <1>5, Zenon
     DEF OrchNext, orchVars, PollStep, MainStep, ReaperStep, DropperStep, Teardown, Trade,
         GammaChanges, PollFetch, PollLock, PollSubscribe, PollUnsubscribe, PollEnd,
         ReceiveSubscribe, ReceiveUnsubscribe, Cancel, ForgetMarket, CloseAndWait,
         ReaperScan, Reap, KeepMarket, DropMarket, DropForget

StackState == [market : Markets \cup {NoStack}, cancelled : BOOLEAN,
               dropper : {"off", "new", "forget", "delete"}]

LEMMA StackTypes ==
    ASSUME TypeInv, [OrchNext]_orchVars
    PROVE  stacks' \in [StackIds -> StackState]
<1>1. stacks \in [StackIds -> StackState] /\ worker \in [Workers -> WorkerState]
  BY DEF TypeInv, OrchTypeOK, GoroutinesOK, StackState
<1>2. ASSUME NEW w \in Workers, Cancel(w) PROVE stacks' \in [StackIds -> StackState]
  <2>1. stacks' = [stacks EXCEPT ![worker[w].stack].cancelled = TRUE]
    BY <1>2 DEF Cancel
  <2> QED
    BY <1>1, <2>1 DEF StackState
<1>3. ASSUME SubscribeMarket PROVE stacks' \in [StackIds -> StackState]
  <2>1. worker["main"].market \in Markets
    BY <1>1, <1>3 DEF SubscribeMarket, WorkerState, Workers, Idle
  <2>2. PICK g \in StackIds :
           stacks' = [stacks EXCEPT ![g] =
              [market |-> worker["main"].market, cancelled |-> FALSE,
               dropper |-> IF SpreadCheck THEN "new" ELSE "off"]]
    BY <1>3, Zenon DEF SubscribeMarket
  <2>3. [market |-> worker["main"].market, cancelled |-> FALSE,
         dropper |-> IF SpreadCheck THEN "new" ELSE "off"] \in StackState
    BY <2>1 DEF StackState
  <2> QED
    BY <1>1, <2>2, <2>3
<1>4. ASSUME NEW g \in StackIds, DropperStep(g) PROVE stacks' \in [StackIds -> StackState]
  <2>1. PICK d \in {"off", "forget", "delete"}, c \in BOOLEAN :
           \/ stacks' = [stacks EXCEPT ![g].dropper = d]
           \/ stacks' = [stacks EXCEPT ![g].dropper = d, ![g].cancelled = c]
    BY <1>4, Zenon DEF DropperStep, KeepMarket, DropMarket, DropForget, DropDelete
  <2> QED
    BY <1>1, <2>1 DEF StackState
<1>5. ASSUME UNCHANGED stacks PROVE stacks' \in [StackIds -> StackState]
  BY <1>1, <1>5
<1>6. "main" \in Workers /\ "reaper" \in Workers
  BY DEF Workers
<1> QED
  BY <1>2, <1>3, <1>4, <1>5, <1>6, Zenon
     DEF OrchNext, orchVars, PollStep, MainStep, ReaperStep, Teardown, Trade,
         GammaChanges, PollFetch, PollLock, PollSubscribe, PollUnsubscribe, PollEnd,
         ReceiveSubscribe, ReceiveUnsubscribe, ForgetMarket, CloseAndWait, ReaperScan, Reap

LEMMA WorkerTypes ==
    ASSUME TypeInv, [OrchNext]_orchVars
    PROVE  worker' \in [Workers -> WorkerState]
<1>1. /\ worker \in [Workers -> WorkerState] /\ stale \subseteq Markets
      /\ registry \in [Markets -> StackIds \cup {NoStack}]
  BY DEF TypeInv, OrchTypeOK, GoroutinesOK
<1>2. ASSUME NEW w \in Workers, NEW m \in Markets, Remove(w, m)
      PROVE  worker' \in [Workers -> WorkerState]
  <2>1. registry[m] # NoStack =>
           [pc |-> "cancel", market |-> m, stack |-> registry[m]] \in WorkerState
    BY <1>1 DEF WorkerState
  <2>2. Idle \in WorkerState
    BY DEF WorkerState
  <2> QED
    BY <1>1, <1>2, <2>1, <2>2 DEF Remove
<1>3. ASSUME NEW a, Receive(a) PROVE Head(commands).market \in Markets
  BY <1>3, HeadTypes DEF Receive, Command
<1>4. ASSUME ReceiveSubscribe PROVE worker' \in [Workers -> WorkerState]
  <2>1. [pc |-> "subscribe", market |-> Head(commands).market] \in WorkerState
    BY <1>3, <1>4 DEF ReceiveSubscribe, WorkerState
  <2>2. \/ worker' = worker
        \/ worker' = [worker EXCEPT !["main"] =
                         [pc |-> "subscribe", market |-> Head(commands).market]]
    BY <1>4, Zenon DEF ReceiveSubscribe
  <2> QED
    BY <1>1, <2>1, <2>2
<1>5. ASSUME NEW w \in Workers, Cancel(w) \/ ForgetMarket(w)
      PROVE  worker' \in [Workers -> WorkerState]
  <2>1. worker[w] \in [pc : {"cancel", "forget", "close"}, market : Markets, stack : StackIds]
    BY <1>1, <1>5 DEF Cancel, ForgetMarket, WorkerState, Idle
  <2>2. PICK p \in {"forget", "close"} : worker' = [worker EXCEPT ![w].pc = p]
    BY <1>5 DEF Cancel, ForgetMarket
  <2>3. [worker[w] EXCEPT !.pc = p] \in WorkerState
    BY <2>1 DEF WorkerState
  <2> QED
    BY <1>1, <2>2, <2>3
<1>6. ASSUME NEW w \in Workers, worker' = [worker EXCEPT ![w] = Idle]
      PROVE  worker' \in [Workers -> WorkerState]
  BY <1>1, <1>6 DEF WorkerState
<1>7. ASSUME UNCHANGED worker PROVE worker' \in [Workers -> WorkerState]
  BY <1>1, <1>7
<1>8. "main" \in Workers /\ "reaper" \in Workers
  BY DEF Workers
<1>9. ASSUME ReceiveUnsubscribe PROVE worker' \in [Workers -> WorkerState]
  BY <1>2, <1>3, <1>8, <1>9 DEF ReceiveUnsubscribe
<1> QED
  BY <1>1, <1>2, <1>4, <1>5, <1>6, <1>7, <1>8, <1>9, Zenon
     DEF OrchNext, orchVars, PollStep, MainStep, ReaperStep, DropperStep, Teardown, Trade,
         GammaChanges, PollFetch, PollLock, PollSubscribe, PollUnsubscribe, PollEnd,
         SubscribeMarket, CloseAndWait, ReaperScan, Reap,
         KeepMarket, DropMarket, DropForget, DropDelete

LEMMA TypeStep ==
    ASSUME TypeInv, [OrchNext]_orchVars
    PROVE  TypeInv'
<1>1. poll' \in PollState /\ worker' \in [Workers -> WorkerState]
  BY PollTypes, WorkerTypes
<1>2. poll'.pc \in {"idle", "fetched", "sending"}
  BY <1>1 DEF PollState, Idle
<1>3. \A w \in Workers :
         worker'[w].pc \in {"idle", "subscribe", "cancel", "forget", "close"}
  <2> SUFFICES ASSUME NEW w \in Workers
               PROVE  worker'[w].pc \in {"idle", "subscribe", "cancel", "forget", "close"}
    OBVIOUS
  <2>1. worker'[w] \in WorkerState
    BY <1>1
  <2> QED
    BY <2>1 DEF WorkerState, Idle
<1> QED
  BY <1>1, <1>2, <1>3, ListTypes, SetTypes, CommandTypes, RegistryTypes, StackTypes
     DEF TypeInv, OrchTypeOK, GoroutinesOK, StackState

LEMMA TypesHold == OrchSpec => []TypeInv
<1>1. TypeInv /\ [OrchNext]_orchVars => TypeInv'
  BY TypeStep
<1> QED
  BY <1>1, InitTypes, PTL DEF OrchSpec

(* The registries, the commands and the goroutines' progress keep their    *)
(* types, and commandCh its capacity: poll waits for room.                 *)
THEOREM OrchTypeCorrect == OrchSpec => []OrchTypeOK
<1>1. TypeInv => OrchTypeOK
  BY DEF TypeInv
<1> QED
  BY <1>1, TypesHold, PTL
----------------------------------------------------------------------------
(* The market at hand is not registered, and there is room for it.         *)
SlotFree ==
    worker["main"].pc = "subscribe" =>
        /\ worker["main"].market \notin Registered
        /\ MaxMarkets > 0 => Cardinality(Registered) < MaxMarkets

CapInv == CapHolds /\ SlotFree

(* Fewer registered markets are still within the cap.                      *)
LEMMA FewerRegistered ==
    ASSUME registry' \in [Markets -> StackIds \cup {NoStack}], Registered' \subseteq Registered
    PROVE  /\ Cardinality(Registered') \in Nat /\ Cardinality(Registered) \in Nat
           /\ Cardinality(Registered') <= Cardinality(Registered)
<1>1. IsFiniteSet(Registered)
  BY FS_Subset, OrchestratorConfig DEF Registered
<1> QED
  BY <1>1, FS_Subset, FS_CardinalityType

(* Every step but two only takes markets from the registry, and begins no  *)
(* subscription.                                                           *)
LEMMA OthersOnlyRemove ==
    ASSUME TypeInv, [OrchNext]_orchVars, ~ReceiveSubscribe, ~SubscribeMarket
    PROVE  /\ Registered' \subseteq Registered
           /\ worker'["main"].pc = "subscribe" => worker'["main"] = worker["main"]
<1>1. /\ registry \in [Markets -> StackIds \cup {NoStack}]
      /\ worker \in [Workers -> WorkerState]
      /\ "main" \in Workers /\ "reaper" \in Workers
  BY DEF TypeInv, OrchTypeOK, GoroutinesOK, Workers
<1> DEFINE Goal == /\ Registered' \subseteq Registered
                   /\ worker'["main"].pc = "subscribe" => worker'["main"] = worker["main"]
<1>2. ASSUME NEW w \in Workers, NEW m, Remove(w, m) PROVE Goal
  <2>1. Registered' \subseteq Registered
    BY <1>1, <1>2 DEF Remove, Registered
  <2>2. worker'["main"].pc = "subscribe" => worker'["main"] = worker["main"]
    BY <1>1, <1>2 DEF Remove, Idle
  <2> QED
    BY <2>1, <2>2
<1>3. ASSUME NEW g, DropDelete(g) PROVE Goal
  BY <1>1, <1>3 DEF DropDelete, Registered
<1>4. ASSUME NEW w \in Workers, Cancel(w) \/ ForgetMarket(w) \/ CloseAndWait(w) PROVE Goal
  <2>1. Registered' = Registered
    BY <1>4 DEF Cancel, ForgetMarket, CloseAndWait, Registered
  <2>2. PICK v \in {"forget", "close"} :
           \/ worker' = [worker EXCEPT ![w].pc = v]
           \/ worker' = [worker EXCEPT ![w] = Idle]
    BY <1>4 DEF Cancel, ForgetMarket, CloseAndWait
  <2>3. worker["main"] \in WorkerState
    BY <1>1
  <2>4. worker'["main"].pc = "subscribe" => worker'["main"] = worker["main"]
    BY <1>1, <2>2, <2>3 DEF Idle, WorkerState
  <2> QED
    BY <2>1, <2>4
<1>5. ASSUME UNCHANGED <<registry, worker>> PROVE Goal
  BY <1>5 DEF Registered
<1> HIDE DEF Goal
<1>6. Goal
  BY <1>1, <1>2, <1>3, <1>4, <1>5, Zenon
     DEF OrchNext, orchVars, PollStep, MainStep, ReaperStep, DropperStep, Teardown, Trade,
         GammaChanges, PollFetch, PollLock, PollSubscribe, PollUnsubscribe, PollEnd,
         ReceiveUnsubscribe, ReaperScan, Reap, KeepMarket, DropMarket, DropForget
<1> QED
  BY <1>6 DEF Goal

(* What the command loop's check and its registration do to the registry.  *)
LEMMA CheckEffect ==
    ASSUME TypeInv, ReceiveSubscribe
    PROVE  /\ Registered' = Registered
           /\ \/ worker' = worker
              \/ /\ worker'["main"] =
                       [pc |-> "subscribe", market |-> Head(commands).market]
                 /\ Head(commands).market \notin Registered
                 /\ MaxMarkets > 0 => ~(Cardinality(Registered) >= MaxMarkets)
<1>1. worker \in [Workers -> WorkerState] /\ "main" \in Workers
  BY DEF TypeInv, GoroutinesOK, Workers
<1>2. Registered' = Registered
  BY DEF ReceiveSubscribe, Registered
<1>3. \/ worker' = worker
      \/ /\ worker' = [worker EXCEPT !["main"] =
                          [pc |-> "subscribe", market |-> Head(commands).market]]
         /\ Head(commands).market \notin Registered
         /\ MaxMarkets > 0 => ~(Cardinality(Registered) >= MaxMarkets)
  BY Zenon DEF ReceiveSubscribe, AtCap
<1> QED
  BY <1>1, <1>2, <1>3

LEMMA RegistrationEffect ==
    ASSUME TypeInv, SubscribeMarket
    PROVE  /\ worker["main"].pc = "subscribe" /\ worker["main"].market \in Markets
           /\ Registered' = Registered \cup {worker["main"].market}
           /\ worker' = [worker EXCEPT !["main"] = Idle]
           /\ \E g \in StackIds :
                 /\ Free(g)
                 /\ registry' = [registry EXCEPT ![worker["main"].market] = g]
                 /\ stacks' = [stacks EXCEPT ![g] =
                       [market |-> worker["main"].market, cancelled |-> FALSE,
                        dropper |-> IF SpreadCheck THEN "new" ELSE "off"]]
<1>1. /\ worker \in [Workers -> WorkerState] /\ "main" \in Workers
      /\ registry \in [Markets -> StackIds \cup {NoStack}]
  BY DEF TypeInv, OrchTypeOK, GoroutinesOK, Workers
<1>2. worker["main"].pc = "subscribe" /\ worker["main"].market \in Markets
  BY <1>1 DEF SubscribeMarket, WorkerState, Idle
<1>3. PICK g \in StackIds :
         /\ Free(g)
         /\ registry' = [registry EXCEPT ![worker["main"].market] = g]
         /\ stacks' = [stacks EXCEPT ![g] =
               [market |-> worker["main"].market, cancelled |-> FALSE,
                dropper |-> IF SpreadCheck THEN "new" ELSE "off"]]
  BY Zenon DEF SubscribeMarket
<1>4. g # NoStack
  BY OrchestratorConfig
<1>5. Registered' = Registered \cup {worker["main"].market}
  BY <1>1, <1>2, <1>3, <1>4 DEF Registered
<1> QED
  BY <1>2, <1>3, <1>5 DEF SubscribeMarket

(* Only the command loop adds markets, so the slot it found stays free     *)
(* while others remove some.                                               *)
LEMMA SlotStaysFree == OrchSpec => []CapInv
<1>1. OrchInit => CapInv
  <2> SUFFICES ASSUME OrchInit PROVE CapInv
    OBVIOUS
  <2>1. Registered = {} /\ worker["main"].pc = "idle"
    BY DEF OrchInit, Registered, Workers, Idle
  <2>2. Cardinality(Registered) = 0
    BY <2>1, FS_EmptySet
  <2> QED
    BY <2>1, <2>2, OrchestratorConfig DEF CapInv, CapHolds, SlotFree
<1>2. CapInv /\ TypeInv /\ TypeInv' /\ [OrchNext]_orchVars => CapInv'
  <2> SUFFICES ASSUME CapInv, TypeInv, TypeInv', [OrchNext]_orchVars PROVE CapInv'
    OBVIOUS
  <2>1. /\ registry' \in [Markets -> StackIds \cup {NoStack}]
        /\ CapHolds /\ SlotFree
        /\ Cardinality(Registered) \in Nat /\ IsFiniteSet(Registered)
    <3>1. IsFiniteSet(Registered)
      BY FS_Subset, OrchestratorConfig DEF Registered
    <3> QED
      BY <3>1, FS_CardinalityType DEF TypeInv, OrchTypeOK, CapInv
  <2>2. CASE ReceiveSubscribe
    BY <2>1, <2>2, CheckEffect, OrchestratorConfig DEF CapInv, CapHolds, SlotFree
  <2>3. CASE SubscribeMarket
    <3>1. /\ worker["main"].pc = "subscribe" /\ worker["main"].market \notin Registered
          /\ Registered' = Registered \cup {worker["main"].market}
      BY <2>1, <2>3, RegistrationEffect DEF SlotFree
    <3>2. Cardinality(Registered') = Cardinality(Registered) + 1
      BY <2>1, <3>1, FS_AddElement
    <3>3. worker'["main"].pc = "idle"
      BY <2>3, RegistrationEffect DEF TypeInv, GoroutinesOK, Workers, Idle
    <3> QED
      BY <2>1, <3>1, <3>2, <3>3, OrchestratorConfig DEF CapInv, CapHolds, SlotFree
  <2>4. CASE ~ReceiveSubscribe /\ ~SubscribeMarket
    <3>1. /\ Registered' \subseteq Registered
          /\ worker'["main"].pc = "subscribe" => worker'["main"] = worker["main"]
      BY <2>4, OthersOnlyRemove
    <3>2. Cardinality(Registered') \in Nat /\ Cardinality(Registered') <= Cardinality(Registered)
      BY <2>1, <3>1, FewerRegistered
    <3> QED
      BY <2>1, <3>1, <3>2, OrchestratorConfig DEF CapInv, CapHolds, SlotFree
  <2> QED
    BY <2>2, <2>3, <2>4
<1> QED
  BY <1>1, <1>2, TypesHold, PTL DEF OrchSpec

(* The cap is checked in one critical section and the market is registered *)
(* in the next, and still it holds.                                        *)
THEOREM CapSafe == OrchSpec => []CapHolds
<1>1. CapInv => CapHolds
  BY DEF CapInv
<1> QED
  BY <1>1, SlotStaysFree, PTL
----------------------------------------------------------------------------
(* The ways a step can touch commands, registries, stacks and workers.     *)
LEMMA StepKinds ==
    ASSUME [OrchNext]_orchVars
    PROVE  \/ \E n \in Markets : PollSubscribe(n) \/ PollUnsubscribe(n)
           \/ ReceiveSubscribe
           \/ SubscribeMarket
           \/ ReceiveUnsubscribe
           \/ \E n \in Markets : Reap(n)
           \/ \E w \in Workers : Cancel(w)
           \/ \E w \in Workers : ForgetMarket(w) \/ CloseAndWait(w)
           \/ \E g \in StackIds : DropperStep(g)
           \/ UNCHANGED <<known, commands, registry, stacks, worker>>
<1>1. "main" \in Workers /\ "reaper" \in Workers
  BY DEF Workers
<1> QED
  BY <1>1, Zenon
     DEF OrchNext, orchVars, PollStep, MainStep, ReaperStep, Teardown, Trade,
         GammaChanges, PollFetch, PollLock, PollEnd, ReaperScan

(* A price goroutine that drops its market has cancelled its stack.        *)
DropsAreCancelled ==
    \A g \in StackIds : stacks[g].dropper \in {"forget", "delete"} => stacks[g].cancelled

LEMMA DropsCancel == OrchSpec => []DropsAreCancelled
<1>1. OrchInit => DropsAreCancelled
  BY DEF OrchInit, DropsAreCancelled, Unused
<1>2. DropsAreCancelled /\ TypeInv /\ [OrchNext]_orchVars => DropsAreCancelled'
  <2> SUFFICES ASSUME DropsAreCancelled, TypeInv, [OrchNext]_orchVars
               PROVE  DropsAreCancelled'
    OBVIOUS
  <2>1. stacks \in [StackIds -> StackState]
    BY DEF TypeInv, OrchTypeOK, StackState
  <2>2. ASSUME NEW w \in Workers, Cancel(w) PROVE DropsAreCancelled'
    BY <2>1, <2>2 DEF Cancel, DropsAreCancelled, StackState
  <2>3. ASSUME SubscribeMarket PROVE DropsAreCancelled'
    <3>1. PICK g \in StackIds :
             stacks' = [stacks EXCEPT ![g] =
                [market |-> worker["main"].market, cancelled |-> FALSE,
                 dropper |-> IF SpreadCheck THEN "new" ELSE "off"]]
      BY <2>3, RegistrationEffect
    <3> QED
      BY <2>1, <3>1 DEF DropsAreCancelled
  <2>4. ASSUME NEW g \in StackIds, DropperStep(g) PROVE DropsAreCancelled'
    <3>1. CASE KeepMarket(g)
      BY <2>1, <3>1 DEF KeepMarket, DropsAreCancelled, StackState
    <3>2. CASE DropMarket(g)
      BY <2>1, <3>2 DEF DropMarket, DropsAreCancelled, StackState
    <3>3. CASE DropForget(g) \/ DropDelete(g)
      BY <2>1, <3>3 DEF DropForget, DropDelete, DropsAreCancelled, StackState
    <3> QED
      BY <2>4, <3>1, <3>2, <3>3 DEF DropperStep
  <2>5. ASSUME UNCHANGED stacks PROVE DropsAreCancelled'
    BY <2>5 DEF DropsAreCancelled
  <2> QED
    BY <2>2, <2>3, <2>4, <2>5, StepKinds, Zenon
       DEF PollSubscribe, PollUnsubscribe, ReceiveSubscribe, ReceiveUnsubscribe, Reap,
           ForgetMarket, CloseAndWait
<1> QED
  BY <1>1, <1>2, TypesHold, PTL DEF OrchSpec

(* A teardown owns the stack it takes from the registry.                   *)
LEMMA RemoveKeepsOwned ==
    ASSUME TypeInv, NEW w \in Workers, NEW m, worker[w] = Idle, Remove(w, m),
           UNCHANGED stacks, NEW g \in StackIds, Owned(g)
    PROVE  Owned(g)'
<1>1. /\ registry \in [Markets -> StackIds \cup {NoStack}]
      /\ worker \in [Workers -> WorkerState] /\ g # NoStack
  BY OrchestratorConfig DEF TypeInv, OrchTypeOK, GoroutinesOK
<1>2. CASE registry[stacks[g].market] = g
  <2>1. stacks[g].market = m => worker'[w].pc = "cancel" /\ worker'[w].stack = g
    BY <1>1, <1>2 DEF Remove
  <2>2. stacks[g].market # m => registry'[stacks'[g].market] = g
    BY <1>1, <1>2 DEF Remove
  <2> QED
    BY <2>1, <2>2 DEF Owned
<1>3. ASSUME NEW v \in Workers, worker[v].pc = "cancel", worker[v].stack = g
      PROVE  worker'[v].pc = "cancel" /\ worker'[v].stack = g
  <2>1. v # w
    BY <1>3 DEF Idle
  <2> QED
    BY <1>1, <1>3, <2>1 DEF Remove
<1> QED
  BY <1>2, <1>3 DEF Owned

(* The registry loses a running stack only to the delete of a drop of the  *)
(* same market, whatever polls, commands, teardowns, reaper and droppers   *)
(* do, with any cap and any settings: OnlyDropsOrphan.  The key is that a  *)
(* registration never hides another (SlotFree).                            *)
THEOREM StacksAreLostToDrops == OrchSpec => OnlyDropsOrphan
<1>1. CapInv /\ TypeInv /\ DropsAreCancelled /\ [OrchNext]_orchVars => [OrphanedByDrop]_orchVars
  <2> SUFFICES ASSUME CapInv, TypeInv, DropsAreCancelled, [OrchNext]_orchVars,
                      NEW g \in StackIds, Owned(g), ~Owned(g)'
               PROVE  \E h \in StackIds \ {g} :
                         stacks[h].market = stacks[g].market /\ DropDelete(h)
    BY DEF OrphanedByDrop
  <2>1. /\ registry \in [Markets -> StackIds \cup {NoStack}]
        /\ stacks \in [StackIds -> StackState] /\ worker \in [Workers -> WorkerState]
        /\ "main" \in Workers /\ "reaper" \in Workers /\ g # NoStack
    BY OrchestratorConfig DEF TypeInv, OrchTypeOK, GoroutinesOK, StackState, Workers
  <2>2. ASSUME ReceiveUnsubscribe PROVE FALSE
    BY <2>1, <2>2, RemoveKeepsOwned DEF ReceiveUnsubscribe, Receive
  <2>3. ASSUME NEW n \in Markets, Reap(n) PROVE FALSE
    BY <2>1, <2>3, RemoveKeepsOwned DEF Reap
  <2>4. ASSUME NEW w \in Workers, Cancel(w) PROVE FALSE
    <3>1. /\ stacks' = [stacks EXCEPT ![worker[w].stack].cancelled = TRUE]
          /\ registry' = registry
      BY <2>4 DEF Cancel
    <3>2. CASE worker[w].stack = g
      BY <2>1, <3>1, <3>2 DEF Owned, StackState
    <3>3. CASE worker[w].stack # g
      <4>1. stacks'[g] = stacks[g]
        BY <2>1, <3>1, <3>3
      <4>2. ASSUME NEW v \in Workers, worker[v].pc = "cancel", worker[v].stack = g
            PROVE  worker'[v].pc = "cancel" /\ worker'[v].stack = g
        BY <2>1, <2>4, <3>3, <4>2 DEF Cancel
      <4> QED
        BY <3>1, <4>1, <4>2 DEF Owned
    <3> QED
      BY <3>2, <3>3
  <2>5. ASSUME NEW w \in Workers, ForgetMarket(w) \/ CloseAndWait(w) PROVE FALSE
    <3>1. stacks' = stacks /\ registry' = registry /\ worker[w].pc # "cancel"
      BY <2>5 DEF ForgetMarket, CloseAndWait
    <3>2. ASSUME NEW v \in Workers, worker[v].pc = "cancel", worker[v].stack = g
          PROVE  worker'[v].pc = "cancel" /\ worker'[v].stack = g
      BY <2>1, <2>5, <3>1, <3>2 DEF ForgetMarket, CloseAndWait
    <3> QED
      BY <3>1, <3>2 DEF Owned
  <2>6. ASSUME ReceiveSubscribe PROVE FALSE
    <3>1. stacks' = stacks /\ registry' = registry /\ worker["main"] = Idle
      BY <2>6 DEF ReceiveSubscribe, Receive
    <3>2. PICK s : worker' = worker \/ worker' = [worker EXCEPT !["main"] = s]
      BY <2>6, Zenon DEF ReceiveSubscribe
    <3>3. ASSUME NEW v \in Workers, worker[v].pc = "cancel", worker[v].stack = g
          PROVE  worker'[v].pc = "cancel" /\ worker'[v].stack = g
      <4>1. v # "main"
        BY <3>1, <3>3 DEF Idle
      <4> QED
        BY <2>1, <3>2, <3>3, <4>1
    <3> QED
      BY <3>1, <3>3 DEF Owned
  <2>7. ASSUME SubscribeMarket PROVE FALSE
    <3> DEFINE m == worker["main"].market
    <3>1. /\ worker["main"].pc = "subscribe" /\ m \in Markets /\ m \notin Registered
          /\ worker' = [worker EXCEPT !["main"] = Idle]
      BY <2>7, RegistrationEffect DEF CapInv, SlotFree
    <3>2. PICK h \in StackIds :
             /\ registry' = [registry EXCEPT ![m] = h]
             /\ stacks' = [stacks EXCEPT ![h] =
                   [market |-> m, cancelled |-> FALSE,
                    dropper |-> IF SpreadCheck THEN "new" ELSE "off"]]
      BY <2>7, RegistrationEffect
    <3> HIDE DEF m
    <3>3. registry[m] = NoStack
      BY <3>1 DEF Registered
    <3>4. CASE h = g
      <4>1. stacks'[g].market = m
        BY <2>1, <3>2, <3>4
      <4> QED
        BY <2>1, <3>1, <3>2, <3>4, <4>1 DEF Owned
    <3>5. CASE h # g
      <4>1. stacks'[g] = stacks[g]
        BY <2>1, <3>2, <3>5
      <4>2. registry[stacks[g].market] = g => registry'[stacks[g].market] = g
        BY <2>1, <3>2, <3>3
      <4>3. ASSUME NEW v \in Workers, worker[v].pc = "cancel", worker[v].stack = g
            PROVE  worker'[v].pc = "cancel" /\ worker'[v].stack = g
        BY <2>1, <3>1, <4>3
      <4> QED
        BY <4>1, <4>2, <4>3 DEF Owned
    <3> QED
      BY <3>4, <3>5
  <2>8. ASSUME NEW h \in StackIds, KeepMarket(h) \/ DropMarket(h) \/ DropForget(h) PROVE FALSE
    <3>1. registry' = registry /\ worker' = worker
      BY <2>8 DEF KeepMarket, DropMarket, DropForget
    <3>2. stacks'[g].market = stacks[g].market /\ (stacks[g].cancelled => stacks'[g].cancelled)
      BY <2>1, <2>8 DEF KeepMarket, DropMarket, DropForget, StackState
    <3> QED
      BY <3>1, <3>2 DEF Owned
  <2>9. ASSUME NEW h \in StackIds, DropDelete(h)
        PROVE  h # g /\ stacks[h].market = stacks[g].market
    <3>1. /\ registry' = [registry EXCEPT ![stacks[h].market] = NoStack] /\ worker' = worker
          /\ stacks' = [stacks EXCEPT ![h].dropper = "off"] /\ stacks[h].cancelled
      BY <2>9 DEF DropDelete, DropsAreCancelled
    <3>2. stacks'[g].market = stacks[g].market /\ stacks'[g].cancelled = stacks[g].cancelled
      BY <2>1, <3>1 DEF StackState
    <3>3. h # g
      BY <3>1, <3>2 DEF Owned
    <3>4. stacks[h].market # stacks[g].market =>
             registry'[stacks[g].market] = registry[stacks[g].market]
      BY <2>1, <3>1
    <3> QED
      BY <3>1, <3>2, <3>3, <3>4 DEF Owned
  <2>10. ASSUME UNCHANGED <<registry, stacks, worker>> PROVE FALSE
    BY <2>10 DEF Owned
  <2> QED
    BY <2>2, <2>3, <2>4, <2>5, <2>6, <2>7, <2>8, <2>9, <2>10, StepKinds, Zenon
       DEF DropperStep, PollSubscribe, PollUnsubscribe
<1> QED
  BY <1>1, SlotStaysFree, DropsCancel, TypesHold, PTL DEF OrchSpec, OnlyDropsOrphan
----------------------------------------------------------------------------
(* A Subscribe stays in commandCh until it is received.                    *)
Queued(m) == \E i \in DOMAIN commands : commands[i] = [action |-> "subscribe", market |-> m]

LEMMA SendKeepsQueued ==
    ASSUME NEW a, NEW n, commands \in Seq(Command),
           commands' = Append(commands, [action |-> a, market |-> n]), NEW m
    PROVE  /\ Queued(m) => Queued(m)'
           /\ a = "subscribe" /\ n = m => Queued(m)'
<1> DEFINE k == Len(commands)
           new == [action |-> a, market |-> n]
<1>1. /\ k \in Nat /\ DOMAIN commands = 1 .. k
      /\ DOMAIN commands' = 1 .. k + 1
      /\ \A i \in 1 .. k : commands'[i] = commands[i]
      /\ commands'[k + 1] = new
  <2>1. commands' = Append(commands, new)
    OBVIOUS
  <2> HIDE DEF new
  <2> QED
    BY <2>1
<1> HIDE DEF k
<1> QED
  BY <1>1 DEF Queued

LEMMA ReceiveKeepsQueued ==
    ASSUME commands \in Seq(Command), commands # <<>>, commands' = Tail(commands), NEW m,
           Queued(m)
    PROVE  Queued(m)' \/ Head(commands) = [action |-> "subscribe", market |-> m]
<1> DEFINE k == Len(commands)
<1>1. /\ k \in Nat \ {0} /\ DOMAIN commands = 1 .. k /\ DOMAIN commands' = 1 .. k - 1
      /\ \A i \in 1 .. k - 1 : commands'[i] = commands[i + 1]
      /\ Head(commands) = commands[1]
  OBVIOUS
<1> HIDE DEF k
<1>2. PICK i \in 1 .. k : commands[i] = [action |-> "subscribe", market |-> m]
  BY <1>1 DEF Queued
<1>3. CASE i = 1
  BY <1>1, <1>2, <1>3
<1>4. CASE i # 1
  <2>1. i - 1 \in 1 .. k - 1 /\ commands'[i - 1] = [action |-> "subscribe", market |-> m]
    BY <1>1, <1>2, <1>4
  <2> QED
    BY <1>1, <2>1 DEF Queued
<1> QED
  BY <1>3, <1>4

(* A market that is registered, about to be registered or about to be      *)
(* forgotten.                                                              *)
Cared(m) == m \in Registered \/ OnItsWay(m) \/ ToBeForgotten(m)

LEMMA CaredParts ==
    ASSUME NEW m
    PROVE  /\ Cared(m) <=> \/ m \in Registered
                           \/ Queued(m)
                           \/ worker["main"] = [pc |-> "subscribe", market |-> m]
                           \/ ToBeForgotten(m)
           /\ Stranded(m) <=> m \in known /\ ~Cared(m)
BY DEF Cared, OnItsWay, Queued, Stranded

(* A teardown leaves the market it takes from the registry to be forgotten. *)
LEMMA RemoveKeepsCared ==
    ASSUME TypeInv, NEW w \in Workers, NEW n, worker[w] = Idle, Remove(w, n),
           UNCHANGED stacks, NEW m \in Markets, Queued(m) => Queued(m)', Cared(m)
    PROVE  Cared(m)'
<1>1. /\ registry \in [Markets -> StackIds \cup {NoStack}]
      /\ worker \in [Workers -> WorkerState] /\ "main" \in Workers
  BY DEF TypeInv, OrchTypeOK, GoroutinesOK, Workers
<1>2. \A v \in Workers : v # w => worker'[v] = worker[v]
  BY <1>1 DEF Remove
<1>3. CASE m \in Registered
  <2>1. n = m => worker'[w].pc = "cancel" /\ worker'[w].market = m
    BY <1>1, <1>3 DEF Remove, Registered
  <2>2. n # m => m \in Registered'
    BY <1>1, <1>3 DEF Remove, Registered
  <2> QED
    BY <2>1, <2>2, CaredParts DEF Cared, ToBeForgotten
<1>4. CASE worker["main"] = [pc |-> "subscribe", market |-> m]
  <2>1. worker'["main"] = worker["main"]
    BY <1>1, <1>2, <1>4 DEF Idle
  <2> QED
    BY <1>4, <2>1 DEF Cared, OnItsWay
<1>5. CASE ToBeForgotten(m)
  <2>1. \A v \in Workers : worker[v].pc \in {"cancel", "forget"} => worker'[v] = worker[v]
    BY <1>2 DEF Idle
  <2> QED
    BY <1>5, <2>1 DEF Cared, ToBeForgotten
<1>6. CASE Queued(m)
  BY <1>6 DEF Cared, OnItsWay, Queued
<1> QED
  BY <1>3, <1>4, <1>5, <1>6, CaredParts

(* Only a Subscribe skipped at the cap and the delete of a drop strand a   *)
(* market that the engine believes subscribed, for any markets, cap,       *)
(* channel and settings: OnlyCapOrDropStrands.                             *)
THEOREM MarketsAreStrandedByCapOrDrop == OrchSpec => OnlyCapOrDropStrands
<1>1. TypeInv /\ [OrchNext]_orchVars => [StrandedByCapOrDrop]_orchVars
  <2> SUFFICES ASSUME TypeInv, [OrchNext]_orchVars,
                      NEW m \in Markets, m \in known', ~Cared(m)', m \notin known \/ Cared(m)
               PROVE  \/ SkippedAtCap(m)
                      \/ \E g \in StackIds : stacks[g].market = m /\ DropDelete(g)
    BY CaredParts DEF StrandedByCapOrDrop, Stranded, Cared
  <2>1. /\ registry \in [Markets -> StackIds \cup {NoStack}]
        /\ stacks \in [StackIds -> StackState] /\ worker \in [Workers -> WorkerState]
        /\ commands \in Seq(Command)
        /\ "main" \in Workers /\ "reaper" \in Workers
    BY DEF TypeInv, OrchTypeOK, GoroutinesOK, StackState, Workers
  <2>2. ASSUME NEW n \in Markets, PollSubscribe(n) PROVE FALSE
    <3>1. /\ commands' = Append(commands, [action |-> "subscribe", market |-> n])
          /\ known' = known \cup {n} /\ UNCHANGED <<registry, stacks, worker>>
      BY <2>2 DEF PollSubscribe, SendCommand
    <3>2. (Queued(m) => Queued(m)') /\ (n = m => Queued(m)')
      BY <2>1, <3>1, SendKeepsQueued
    <3> QED
      BY <3>1, <3>2 DEF Cared, OnItsWay, Queued, ToBeForgotten, Registered
  <2>3. ASSUME NEW n \in Markets, PollUnsubscribe(n) PROVE FALSE
    <3>1. /\ commands' = Append(commands, [action |-> "unsubscribe", market |-> n])
          /\ known' = known \ {n} /\ UNCHANGED <<registry, stacks, worker>>
      BY <2>3 DEF PollUnsubscribe, SendCommand
    <3>2. Queued(m) => Queued(m)'
      BY <2>1, <3>1, SendKeepsQueued
    <3> QED
      BY <3>1, <3>2 DEF Cared, OnItsWay, Queued, ToBeForgotten, Registered
  <2>4. ASSUME ReceiveSubscribe PROVE SkippedAtCap(m)
    <3>1. /\ commands # <<>> /\ commands' = Tail(commands) /\ worker["main"] = Idle
          /\ Head(commands).action = "subscribe"
          /\ UNCHANGED <<known, registry, stacks>>
      BY <2>4 DEF ReceiveSubscribe, Receive
    <3>2. Queued(m) => Queued(m)' \/ Head(commands) = [action |-> "subscribe", market |-> m]
      BY <2>1, <3>1, ReceiveKeepsQueued
    <3>3. worker' = IF Head(commands).market \in Registered \/ AtCap THEN worker
                    ELSE [worker EXCEPT !["main"] =
                             [pc |-> "subscribe", market |-> Head(commands).market]]
      BY <2>4, Zenon DEF ReceiveSubscribe
    <3>4. m \notin Registered /\ ~ToBeForgotten(m)
      <4>1. \A v \in Workers : v # "main" => worker'[v] = worker[v]
        BY <2>1, <3>3
      <4>2. ToBeForgotten(m) => ToBeForgotten(m)'
        BY <3>1, <4>1 DEF ToBeForgotten, Idle
      <4> QED
        BY <3>1, <4>2 DEF Cared, Registered
    <3>5. worker["main"] # [pc |-> "subscribe", market |-> m]
      BY <3>1 DEF Idle
    <3>6. Head(commands).market = m
      <4>1. Queued(m) /\ ~Queued(m)'
        BY <3>1, <3>4, <3>5, CaredParts DEF Cared, OnItsWay, Queued
      <4> QED
        BY <3>2, <4>1
    <3>7. AtCap
      <4>1. SUFFICES ASSUME ~AtCap PROVE FALSE
        OBVIOUS
      <4>2. worker'["main"] = [pc |-> "subscribe", market |-> m]
        BY <2>1, <3>3, <3>4, <3>6, <4>1
      <4> QED
        BY <4>2 DEF Cared, OnItsWay
    <3> QED
      BY <2>4, <3>6, <3>7 DEF SkippedAtCap
  <2>5. ASSUME SubscribeMarket PROVE FALSE
    <3>1. /\ Registered' = Registered \cup {worker["main"].market}
          /\ worker["main"].pc = "subscribe"
          /\ worker' = [worker EXCEPT !["main"] = Idle]
      BY <2>5, RegistrationEffect
    <3>2. PICK g \in StackIds :
             /\ Free(g)
             /\ stacks' = [stacks EXCEPT ![g] =
                   [market |-> worker["main"].market, cancelled |-> FALSE,
                    dropper |-> IF SpreadCheck THEN "new" ELSE "off"]]
      BY <2>5, RegistrationEffect
    <3>3. \A h \in StackIds : stacks[h].dropper = "forget" => stacks'[h] = stacks[h]
      BY <2>1, <3>2 DEF Free
    <3>4. \A v \in Workers : worker[v].pc \in {"cancel", "forget"} => worker'[v] = worker[v]
      BY <2>1, <3>1
    <3>5. ToBeForgotten(m) => ToBeForgotten(m)'
      BY <3>3, <3>4 DEF ToBeForgotten
    <3>6. UNCHANGED <<known, commands>>
      BY <2>5 DEF SubscribeMarket
    <3> QED
      BY <3>1, <3>5, <3>6, CaredParts DEF Cared, OnItsWay
  <2>6. ASSUME ReceiveUnsubscribe PROVE FALSE
    <3>1. /\ commands # <<>> /\ commands' = Tail(commands) /\ known' = known
          /\ Head(commands).action = "unsubscribe"
          /\ worker["main"] = Idle /\ Remove("main", Head(commands).market) /\ UNCHANGED stacks
      BY <2>6 DEF ReceiveUnsubscribe, Receive
    <3>2. Queued(m) => Queued(m)'
      BY <2>1, <3>1, ReceiveKeepsQueued
    <3> QED
      BY <2>1, <3>1, <3>2, RemoveKeepsCared
  <2>7. ASSUME NEW n \in Markets, Reap(n) PROVE FALSE
    <3>1. /\ UNCHANGED <<known, commands, stacks>>
          /\ worker["reaper"] = Idle /\ Remove("reaper", n)
      BY <2>7 DEF Reap
    <3>2. Queued(m) => Queued(m)'
      BY <3>1 DEF Queued
    <3> QED
      BY <2>1, <3>1, <3>2, RemoveKeepsCared
  <2>8. ASSUME NEW w \in Workers, Cancel(w) PROVE FALSE
    <3>1. /\ worker' = [worker EXCEPT ![w].pc = "forget"] /\ worker[w].pc = "cancel"
          /\ stacks' = [stacks EXCEPT ![worker[w].stack].cancelled = TRUE]
          /\ UNCHANGED <<known, commands, registry>>
      BY <2>8 DEF Cancel
    <3>2. worker[w] \in [pc : {"cancel", "forget", "close"}, market : Markets, stack : StackIds]
      BY <2>1, <3>1 DEF WorkerState, Idle
    <3>3. worker'[w].pc = "forget" /\ worker'[w].market = worker[w].market
      BY <2>1, <3>1, <3>2
    <3>4. \A v \in Workers : v # w => worker'[v] = worker[v]
      BY <2>1, <3>1
    <3>5. \A h \in StackIds : /\ stacks'[h].dropper = stacks[h].dropper
                              /\ stacks'[h].market = stacks[h].market
      BY <2>1, <3>1 DEF StackState
    <3>6. ToBeForgotten(m) => ToBeForgotten(m)'
      BY <3>3, <3>4, <3>5 DEF ToBeForgotten
    <3>7. worker["main"] = [pc |-> "subscribe", market |-> m] => worker'["main"] = worker["main"]
      BY <2>1, <3>1, <3>4
    <3> QED
      BY <3>1, <3>6, <3>7 DEF Cared, OnItsWay, Registered
  <2>9. ASSUME NEW w \in Workers, ForgetMarket(w) \/ CloseAndWait(w) PROVE FALSE
    <3>1. UNCHANGED <<commands, registry, stacks>> /\ worker[w].pc \in {"forget", "close"}
          /\ known' \subseteq known
      BY <2>9 DEF ForgetMarket, CloseAndWait, Forget
    <3>2. worker[w].pc = "forget" => worker[w].market # m
      BY <2>9 DEF ForgetMarket, CloseAndWait, Forget
    <3>3. \A v \in Workers : v # w => worker'[v] = worker[v]
      BY <2>1, <2>9 DEF ForgetMarket, CloseAndWait
    <3>4. ToBeForgotten(m) => ToBeForgotten(m)'
      BY <3>1, <3>2, <3>3 DEF ToBeForgotten
    <3>5. worker["main"] = [pc |-> "subscribe", market |-> m] => worker'["main"] = worker["main"]
      BY <2>1, <3>1, <3>3
    <3> QED
      BY <3>1, <3>4, <3>5 DEF Cared, OnItsWay, Registered
  <2>10. ASSUME NEW g \in StackIds, KeepMarket(g) \/ DropMarket(g) PROVE FALSE
    <3>1. UNCHANGED <<known, commands, registry, worker>>
      BY <2>10 DEF KeepMarket, DropMarket
    <3>2. \A h \in StackIds : stacks[h].dropper = "forget" =>
             stacks'[h].dropper = "forget" /\ stacks'[h].market = stacks[h].market
      BY <2>1, <2>10 DEF KeepMarket, DropMarket, StackState
    <3>3. ToBeForgotten(m) => ToBeForgotten(m)'
      BY <3>1, <3>2 DEF ToBeForgotten
    <3> QED
      BY <3>1, <3>3 DEF Cared, OnItsWay, Registered
  <2>11. ASSUME NEW g \in StackIds, DropForget(g) PROVE FALSE
    <3>1. /\ UNCHANGED <<commands, registry, worker>> /\ known' = known \ {stacks[g].market}
          /\ stacks' = [stacks EXCEPT ![g].dropper = "delete"]
      BY <2>11 DEF DropForget, Forget
    <3>2. \A h \in StackIds : h # g => stacks'[h] = stacks[h]
      BY <2>1, <3>1
    <3>3. stacks[g].market # m
      BY <3>1
    <3>4. ToBeForgotten(m) => ToBeForgotten(m)'
      BY <3>1, <3>2, <3>3 DEF ToBeForgotten
    <3> QED
      BY <3>1, <3>4 DEF Cared, OnItsWay, Registered
  <2>12. ASSUME NEW g \in StackIds, DropDelete(g) PROVE stacks[g].market = m
    <3>1. /\ UNCHANGED <<known, commands, worker>>
          /\ registry' = [registry EXCEPT ![stacks[g].market] = NoStack]
          /\ stacks' = [stacks EXCEPT ![g].dropper = "off"] /\ stacks[g].dropper = "delete"
      BY <2>12 DEF DropDelete
    <3>2. \A h \in StackIds : stacks[h].dropper = "forget" => stacks'[h] = stacks[h]
      BY <2>1, <3>1
    <3>3. ToBeForgotten(m) => ToBeForgotten(m)'
      BY <3>1, <3>2 DEF ToBeForgotten
    <3>4. stacks[g].market # m => (m \in Registered => m \in Registered')
      BY <2>1, <3>1 DEF Registered
    <3> QED
      BY <3>1, <3>3, <3>4 DEF Cared, OnItsWay
  <2>13. ASSUME UNCHANGED <<known, commands, registry, stacks, worker>> PROVE FALSE
    BY <2>13 DEF Cared, OnItsWay, ToBeForgotten, Registered
  <2> QED
    BY <2>2, <2>3, <2>4, <2>5, <2>6, <2>7, <2>8, <2>9, <2>10, <2>11, <2>12, <2>13,
       StepKinds, Zenon DEF DropperStep
<1> QED
  BY <1>1, TypesHold, PTL DEF OrchSpec, OnlyCapOrDropStrands
=============================================================================
