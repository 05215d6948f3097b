----------------------------- MODULE MarketData -----------------------------
(***************************************************************************)
(* The way of a price in one market of cmd/polysnipe: a message of the     *)
(* server is routed by the shared feed into rawFeedCh, a goroutine records *)
(* it and forwards it to feedCh, the state engine merges it into its       *)
(* snapshot and sends that on a drop-oldest channel (module DropOldest),   *)
(* and the price goroutine stores it in marketStates, where the live       *)
(* executor reads the price and the token ids of its orders.               *)
(*                                                                         *)
(* unsubscribeMarket tears the market down while all of them run: the      *)
(* engine ends when its context is cancelled, the recorder and the price   *)
(* goroutine never do.  Both Subscribe and Unsubscribe of the shared feed  *)
(* only queue a command; the routes follow when its handler gets to it     *)
(* (module SharedFeed).                                                    *)
(*                                                                         *)
(* A message is its type, its token and the values it carries (positive    *)
(* ones: a level or a field that is absent or does not parse is zero and   *)
(* counts as missing).  A price in a snapshot is the number of the event,  *)
(* in the order they were taken from rawFeedCh, that brought it; 0 is none. *)
(***************************************************************************)
EXTENDS DropOldest

CONSTANTS Messages,     \* what the server may send about the market
          RawCapacity,  \* make(chan feed.MarketEvent, 64): rawFeedCh
          FeedCapacity  \* make(chan feed.MarketEvent, 64): feedCh

ASSUME DataConfig ==
    /\ Senders = {"engine"}
    /\ Topics = {"market"}
    /\ Messages \subseteq [type : {"book", "tick", "trade", "other"},
                           token : {"yes", "no"},
                           has : SUBSET {"bids", "asks", "price", "size"}]
    /\ RawCapacity \in Nat
    /\ FeedCapacity \in Nat

VARIABLES raw,        \* rawFeedCh: routed messages, oldest first
          lost,       \* messages dropped because rawFeedCh was full
          events,     \* the messages taken from rawFeedCh so far
          recording,  \* those in the market's recording file
          writable,   \* the recorder exists, and no write of it has failed
          tee,        \* the recorder goroutine holds the event of this number
          feedCh,     \* feedCh: numbers of the messages forwarded
          snapshots,  \* snapshots[k]: the engine's state after its k-th event
          asked,      \* cmdCh: commands of this market the feed has not applied
          routed,     \* the feed's maps route the market's tokens to rawFeedCh
          phase,      \* progress of unsubscribeMarket
          engineRuns, \* Engine.Run has not returned
          storing,    \* snapshot the price goroutine is about to store; 0: none
          entry,      \* marketStates: NoEntry, 0: token ids only, or a snapshot
          held,       \* the executor holds a position bought in this market
          sale        \* the order CloseMarket placed at the teardown

routeVars == <<asked, routed>>
fileVars == <<recording, writable>>
feedVars == <<routeVars, raw, lost, events, fileVars, tee, feedCh>>
marketVars == <<phase, engineRuns, storing, entry, held, sale>>
dataVars == <<channelVars, feedVars, snapshots, marketVars>>

NoEntry == -1
NoSale == [price |-> "none", token |-> "none"]
NoSnapshot == [bid |-> 0, ask |-> 0, last |-> 0, mid |-> <<0, 0>>, volume |-> 0]

(* convertMsg: what an event of each type takes from its message.          *)
Event(m) == [bid    |-> m.type = "book" /\ "bids" \in m.has,
             ask    |-> m.type = "book" /\ "asks" \in m.has,
             last   |-> m.type \in {"tick", "trade"} /\ "price" \in m.has,
             volume |-> m.type = "trade" /\ "size" \in m.has]

Current == IF snapshots = <<>> THEN NoSnapshot ELSE snapshots[Len(snapshots)]
TwoSided(snap) == snap.bid > 0 /\ snap.ask > 0

(* Mutant: a missing side clears what the last book said of it.            *)
UpdateForgetsSide(prev, k, ev) ==
    [bid    |-> IF ev.bid THEN k ELSE IF ev.ask THEN 0 ELSE prev.bid,
     ask    |-> IF ev.ask THEN k ELSE prev.ask,
     last   |-> IF ev.last THEN k ELSE prev.last,
     mid    |-> IF ev.bid /\ ev.ask THEN <<k, k>> ELSE prev.mid,
     volume |-> prev.volume + IF ev.volume THEN 1 ELSE 0]

(* Engine.update: the k-th event merged into the snapshot before it.       *)
Update(prev, k, ev) ==
    LET bid == IF ev.bid THEN k ELSE prev.bid
        ask == IF ev.ask THEN k ELSE prev.ask
    IN [bid    |-> bid,
        ask    |-> ask,
        last   |-> IF ev.last THEN k ELSE prev.last,
        mid    |-> IF bid > 0 /\ ask > 0 THEN <<bid, ask>> ELSE prev.mid,
        volume |-> prev.volume + IF ev.volume THEN 1 ELSE 0]
----------------------------------------------------------------------------
DataInit ==
    /\ ChannelInit
    /\ raw = <<>> /\ lost = 0 /\ events = <<>> /\ tee = 0 /\ feedCh = <<>>
    /\ recording = <<>> /\ writable \in BOOLEAN
    /\ snapshots = <<>>
    /\ asked = <<"add">> /\ routed = FALSE
    /\ phase = "live" /\ engineRuns = TRUE
    /\ storing = 0 /\ entry = 0
    /\ held = FALSE /\ sale = NoSale

(* The handler of the shared feed takes a command of this market.          *)
ApplyCommand ==
    /\ asked # <<>>
    /\ routed' = (Head(asked) = "add")
    /\ asked' = Tail(asked)
    /\ UNCHANGED <<channelVars, raw, lost, events, fileVars, tee, feedCh, snapshots,
                   marketVars>>

Arrivals == Len(events) + Len(raw) + lost

(* The shared feed reads a message it understands, about the YES token; a  *)
(* full rawFeedCh drops it.                                                *)
Route(msg) ==
    /\ routed
    /\ Arrivals < MaxSends
    /\ msg.type # "other"
    /\ msg.token = "yes"
    /\ IF Len(raw) < RawCapacity
       THEN raw' = Append(raw, msg) /\ UNCHANGED lost
       ELSE lost' = lost + 1 /\ UNCHANGED raw
    /\ UNCHANGED <<channelVars, routeVars, events, fileVars, tee, feedCh, snapshots,
                   marketVars>>

(* for ev := range rawFeedCh { rec.Record(ev)                              *)
(* An error of the write is ignored, and kept by the bufio.Writer, which   *)
(* takes nothing more (half a line may be left, which a reader skips).     *)
Record ==
    /\ raw # <<>>
    /\ tee = 0
    /\ events' = Append(events, Head(raw))
    /\ raw' = Tail(raw)
    /\ tee' = Len(events')
    /\ \/ writable /\ recording' = Append(recording, Head(raw)) /\ UNCHANGED writable
       \/ writable' = FALSE /\ UNCHANGED recording
    /\ UNCHANGED <<channelVars, routeVars, lost, feedCh, snapshots, marketVars>>

(* Mutant: an event that finds feedCh full is dropped after its recording. *)
ForwardOrDrop ==
    /\ tee > 0
    /\ feedCh' = IF Len(feedCh) < FeedCapacity THEN Append(feedCh, tee) ELSE feedCh
    /\ tee' = 0
    /\ UNCHANGED <<channelVars, routeVars, raw, lost, events, fileVars, snapshots,
                   marketVars>>

(* feedCh <- ev }                                                          *)
Forward ==
    /\ tee > 0
    /\ Len(feedCh) < FeedCapacity
    /\ feedCh' = Append(feedCh, tee)
    /\ tee' = 0
    /\ UNCHANGED <<channelVars, routeVars, raw, lost, events, fileVars, snapshots,
                   marketVars>>

(* Engine.Run takes an event: update, and the first select of fanOut.      *)
EngineTakes ==
    /\ engineRuns
    /\ feedCh # <<>>
    /\ Send("engine", "market")
    /\ snapshots' = Append(snapshots,
                           Update(Current, Sent + 1, Event(events[Head(feedCh)])))
    /\ feedCh' = Tail(feedCh)
    /\ UNCHANGED <<routeVars, raw, lost, events, fileVars, tee, marketVars>>

EngineDrains ==
    /\ Drain("engine")
    /\ UNCHANGED <<feedVars, snapshots, marketVars>>

EngineRetries ==
    /\ Retry("engine")
    /\ UNCHANGED <<feedVars, snapshots, marketVars>>

(* <-ctx.Done(), chosen at random among the ready cases of the select.     *)
EngineEnds ==
    /\ engineRuns
    /\ phase \notin {"live", "deleted"}
    /\ sender["engine"] = Idle
    /\ engineRuns' = FALSE
    /\ UNCHANGED <<channelVars, feedVars, snapshots, phase, storing, entry, held, sale>>

(* for snap := range priceCh { stack.setPrice(snap)                        *)
PriceArrives ==
    /\ storing = 0
    /\ Receive
    /\ storing' = Head(channel)
    /\ UNCHANGED <<feedVars, snapshots, phase, engineRuns, entry, held, sale>>

(* Mutant: only the first price with two sides is stored.                  *)
StoreFirstQuote ==
    /\ storing > 0
    /\ entry' = IF TwoSided(snapshots[storing]) /\ entry <= 0 THEN storing ELSE entry
    /\ storing' = 0
    /\ UNCHANGED <<channelVars, feedVars, snapshots, phase, engineRuns, held, sale>>

(* marketStates.Store, when the snapshot has both sides }                  *)
StoreQuote ==
    /\ storing > 0
    /\ entry' = IF TwoSided(snapshots[storing]) THEN storing ELSE entry
    /\ storing' = 0
    /\ UNCHANGED <<channelVars, feedVars, snapshots, phase, engineRuns, held, sale>>

(* An entry order of a strategy that has seen a snapshot, signed for the   *)
(* token of the market's entry, fills.  Without a two-sided entry it is    *)
(* signed for the market id and rejected, which leaves nothing behind.     *)
Quoted == entry > 0
Buy ==
    /\ ~held
    /\ sale = NoSale
    /\ Quoted
    /\ held' = TRUE
    /\ UNCHANGED <<channelVars, feedVars, snapshots, phase, engineRuns, storing, entry, sale>>
----------------------------------------------------------------------------
(* unsubscribeMarket: marketStates.Delete,                                 *)
DeleteEntry ==
    /\ phase = "live"
    /\ phase' = "deleted"
    /\ entry' = NoEntry
    /\ UNCHANGED <<channelVars, feedVars, snapshots, engineRuns, storing, held, sale>>

(* stack.Cancel(),                                                         *)
CancelStack ==
    /\ phase = "deleted"
    /\ phase' = "cancelled"
    /\ UNCHANGED <<channelVars, feedVars, snapshots, engineRuns, storing, entry, held, sale>>

(* sharedFeed.Unsubscribe: a command for the feed,                         *)
UnsubscribeFeed ==
    /\ phase = "cancelled"
    /\ phase' = "unsubscribed"
    /\ asked' = Append(asked, "remove")
    /\ UNCHANGED <<channelVars, routed, raw, lost, events, fileVars, tee, feedCh,
                   snapshots, engineRuns, storing, entry, held, sale>>

(* and CloseMarket: resolveOrderPrice (no signal price: 0.5 by default),   *)
PriceSale ==
    /\ phase = "unsubscribed"
    /\ phase' = "priced"
    /\ sale' = IF held THEN [NoSale EXCEPT !.price = IF Quoted THEN "mid" ELSE "half"]
                       ELSE sale
    /\ UNCHANGED <<channelVars, feedVars, snapshots, engineRuns, storing, entry, held>>

(* then the token in submitOrder.                                          *)
SignSale ==
    /\ phase = "priced"
    /\ phase' = "closed"
    /\ sale' = IF sale = NoSale THEN sale
               ELSE [sale EXCEPT !.token = IF Quoted THEN "bought" ELSE "market id"]
    /\ UNCHANGED <<channelVars, feedVars, snapshots, engineRuns, storing, entry, held>>

Recorder == Record \/ Forward
EngineStep == EngineTakes \/ EngineDrains \/ EngineRetries
PriceLoop == PriceArrives \/ StoreQuote
Teardown == DeleteEntry \/ CancelStack \/ UnsubscribeFeed \/ PriceSale \/ SignSale

DataNext ==
    \/ ApplyCommand
    \/ \E msg \in Messages : Route(msg)
    \/ Recorder \/ EngineStep \/ EngineEnds \/ PriceLoop
    \/ Buy
    \/ Teardown

DataSpec == DataInit /\ [][DataNext]_dataVars

(* The goroutines of the market run until they wait or end; messages,      *)
(* orders and the teardown may never come.                                 *)
FairDataSpec ==
    /\ DataSpec
    /\ WF_dataVars(Recorder)
    /\ WF_dataVars(EngineStep)
    /\ WF_dataVars(PriceLoop)
----------------------------------------------------------------------------
(* Types of the pipeline, of the snapshots and of the teardown.            *)
SnapshotType == [bid : Nat, ask : Nat, last : Nat, mid : Nat \X Nat, volume : Nat]
PipelineTypeOK ==
    /\ raw \in Seq(Messages) /\ Len(raw) <= RawCapacity
    /\ lost \in Nat
    /\ events \in Seq(Messages)
    /\ recording \in Seq(Messages) /\ writable \in BOOLEAN
    /\ tee \in Nat
    /\ feedCh \in Seq(Nat) /\ Len(feedCh) <= FeedCapacity
    /\ snapshots \in Seq(SnapshotType)
MarketTypeOK ==
    /\ asked \in Seq({"add", "remove"}) /\ routed \in BOOLEAN
    /\ phase \in {"live", "deleted", "cancelled", "unsubscribed", "priced", "closed"}
    /\ engineRuns \in BOOLEAN
    /\ storing \in Nat
    /\ entry \in Nat \cup {NoEntry}
    /\ held \in BOOLEAN
    /\ sale \in [price : {"none", "mid", "half"}, token : {"none", "bought", "market id"}]
MarketDataTypeOK == ChannelTypeOK /\ PipelineTypeOK /\ MarketTypeOK

(* The recorder neither loses nor swaps events on their way to the engine: *)
(* what the engine has seen, what waits in feedCh and what the recorder    *)
(* holds are, in this order, the events taken from rawFeedCh; and the file *)
(* is all of them, or those before the first write that failed.  So a      *)
(* replay of the file gives the engine what the program traded on, from    *)
(* the start and without a gap.                                            *)
InFlight == IF tee > 0 THEN Append(feedCh, tee) ELSE feedCh
EventsInOrder ==
    /\ Len(events) = Sent + Len(InFlight)
    /\ \A i \in DOMAIN InFlight : InFlight[i] = Sent + i
FileHasNoGap ==
    /\ Len(recording) <= Len(events)
    /\ writable => Len(recording) = Len(events)
    /\ \A i \in DOMAIN recording : recording[i] = events[i]
RecordingIsComplete == EventsInOrder /\ FileHasNoGap

(* A snapshot is the merge of the YES events so far: each side of the      *)
(* quote, and the last price, is the most recent one that any event        *)
(* carried, however many events without it came later, and the mid price   *)
(* is that of the snapshot's own quote.                                    *)
Carries(k, part) == events[k].token = "yes" /\ Event(events[k])[part]
IsLatest(value, n, part) ==
    \/ value = 0 /\ \A k \in 1 .. n : ~Carries(k, part)
    \/ /\ value \in 1 .. n
       /\ Carries(value, part)
       /\ \A k \in value + 1 .. n : ~Carries(k, part)
IsMerge(snap, n) ==
    /\ IsLatest(snap.bid, n, "bid")
    /\ IsLatest(snap.ask, n, "ask")
    /\ IsLatest(snap.last, n, "last")
    /\ snap.mid = IF TwoSided(snap) THEN <<snap.bid, snap.ask>> ELSE <<0, 0>>
SnapshotsAreMerges ==
    /\ Len(snapshots) = Sent
    /\ \A n \in 1 .. Sent : IsMerge(snapshots[n], n)

(* An event that was routed reaches the executor's price, unless the       *)
(* market is torn down first: its snapshot, or a newer one, is stored.     *)
PriceReachesExecutor ==
    \A n \in 1 .. MaxSends :
        phase = "live" /\ Len(events) + Len(raw) >= n
            ~> \/ phase # "live"
               \/ Sent >= n /\ (TwoSided(snapshots[n]) => entry >= n)

(* Documented (placeCloseOrder of live.go): an exit sells back the same    *)
(* token that was bought at entry.                                         *)
ExitSellsTheBoughtToken == sale.token # "none" => sale.token = "bought"
=============================================================================
