------------------------------ MODULE SharedFeed ------------------------------
(***************************************************************************)
(* The shared WebSocket feed of internal/feed/shared.go: one connection at *)
(* a time for all markets, reconnecting with backoff.                      *)
(*                                                                         *)
(*   run         the loop of Run and connect: dial, resubscribe, read;     *)
(*   handler[c]  connection c's command handler: commands to routing maps; *)
(*   writer[c]   connection c's writer, which empties writeCh;             *)
(*   pinger[c]   connection c's keepalive.                                 *)
(*                                                                         *)
(* The goroutines of a connection outlive it for a while; the routing maps *)
(* and the command channel belong to the feed and are shared by all.  Both *)
(* tokens of a market are routed to the number of the Subscribe request    *)
(* that asked for them.  A subscription message replaces the list of       *)
(* tokens the server sends, as the code takes it to (external).  The       *)
(* contents of market events, and the shutdown of the process, are left    *)
(* out.                                                                    *)
(***************************************************************************)
EXTENDS Integers, Sequences

CONSTANTS Markets,
          CommandCap,   \* capacity of cmdCh
          WriteCap,     \* capacity of writeCh
          MaxRetries,   \* reconnect.MaxRetries, 0: no limit
          StaleEnd,     \* the backoff outlasts what a dead connection's handler does
          Connections,  \* bound: connections 1 .. n
          MaxRequests   \* bound: Subscribe and Unsubscribe calls

ASSUME FeedConfig ==
    /\ CommandCap \in Nat \ {0}
    /\ WriteCap \in Nat \ {0}
    /\ MaxRetries \in Nat
    /\ StaleEnd \in BOOLEAN
    /\ Connections \in Nat
    /\ MaxRequests \in Nat

VARIABLES requests, \* calls of Subscribe and Unsubscribe so far
          wanted,   \* market -> its Subscribe request in force, or None
          commands, \* cmdCh
          byMkt,    \* market -> the request it is subscribed for
          byToken,  \* token -> the request its events are routed to
          run,      \* Run and connect
          up,       \* the network keeps the current connection
          deadline, \* connection -> its write deadline
          server,   \* connection -> tokens the server sends on it
          handler, writer, pinger, \* connection -> its goroutine
          writeCh, writeErr        \* connection -> its channel

routing  == <<byMkt, byToken>>
channels == <<writeCh, writeErr>>
network  == <<up, deadline, server>>
sharedVars == <<requests, wanted, commands, routing, run, network, handler, writer,
              pinger, channels>>

None == 0
Conns == 1 .. Connections
Tokens == Markets \X {"yes", "no"}
TokensOf(m) == {<<m, "yes">>, <<m, "no">>}

Off == [pc |-> "off"]
AtRest == [pc |-> "idle"]
Ended == [pc |-> "ended"]

FeedInit ==
    /\ requests = 0
    /\ wanted = [m \in Markets |-> None]
    /\ commands = <<>>
    /\ byMkt = [m \in Markets |-> None]
    /\ byToken = [t \in Tokens |-> None]
    /\ run = [pc |-> "dial", conn |-> 0, attempt |-> 0]
    /\ up = FALSE
    /\ deadline = [c \in Conns |-> "none"]
    /\ server = [c \in Conns |-> {}]
    /\ handler = [c \in Conns |-> Off]
    /\ writer = [c \in Conns |-> Off]
    /\ pinger = [c \in Conns |-> Off]
    /\ writeCh = [c \in Conns |-> <<>>]
    /\ writeErr = [c \in Conns |-> FALSE]

AllTokenIDs(routes) == {t \in Tokens : routes[t] # None}

(* connCtx of connection c is cancelled.                                   *)
Cancelled(c) == c # run.conn \/ run.pc # "read"
----------------------------------------------------------------------------
(* The orchestrator: a call waits until the command channel has room.      *)
Request(m, add) ==
    /\ requests < MaxRequests
    /\ add # (wanted[m] # None)
    /\ Len(commands) < CommandCap
    /\ requests' = requests + 1
    /\ wanted' = [wanted EXCEPT ![m] = IF add THEN requests' ELSE None]
    /\ commands' = Append(commands, [add |-> add, market |-> m, id |-> requests'])
    /\ UNCHANGED <<routing, run, network, handler, writer, pinger, channels>>

Subscribe(m) == Request(m, TRUE)
Unsubscribe(m) == Request(m, FALSE)
----------------------------------------------------------------------------
(* Run.  connect returned an error; it never returns without one while the *)
(* process runs, so attempt is never set back to zero.                     *)
Disconnected ==
    LET attempt == run.attempt + 1
    IN  run' = [run EXCEPT !.attempt = attempt,
                           !.pc = IF MaxRetries > 0 /\ attempt > MaxRetries
                                  THEN "stopped" ELSE "backoff"]

Backoff ==
    /\ run.pc = "backoff"
    /\ run' = [run EXCEPT !.pc = "dial"]
    /\ UNCHANGED <<requests, wanted, commands, routing, network, handler,
                   writer, pinger, channels>>

DialFails ==
    /\ run.pc = "dial"
    /\ run.conn < Connections
    /\ Disconnected
    /\ UNCHANGED <<requests, wanted, commands, routing, network, handler,
                   writer, pinger, channels>>

(* The handler of a dead connection takes no more commands: it has ended,  *)
(* or waits for ever for room in a channel nobody reads.                   *)
Harmless(c) ==
    \/ handler[c] = Ended
    \/ /\ handler[c].pc = "push"
       /\ writer[c].pc \in {"report", "ended"}
       /\ Len(writeCh[c]) = WriteCap

(* Mutant: a new connection does not read the tokens.                      *)
DialWithoutTokens ==
    /\ run.pc = "dial"
    /\ run.conn < Connections
    /\ StaleEnd => \A c \in 1 .. run.conn : Harmless(c) \/ handler[c] = Off
    /\ run' = [pc |-> "resubscribe", conn |-> run.conn + 1, attempt |-> run.attempt,
               tokens |-> {}]
    /\ up' = TRUE
    /\ UNCHANGED <<requests, wanted, commands, routing, deadline, server,
                   handler, writer, pinger, channels>>

(* Connected; the tokens are read under the lock.  The code waits for the  *)
(* backoff only, as without StaleEnd: that the handlers of dead            *)
(* connections are done by then is an assumption about time.               *)
Dial ==
    /\ run.pc = "dial"
    /\ run.conn < Connections
    /\ StaleEnd => \A c \in 1 .. run.conn : Harmless(c) \/ handler[c] = Off
    /\ run' = [pc |-> "resubscribe", conn |-> run.conn + 1, attempt |-> run.attempt,
               tokens |-> AllTokenIDs(byToken)]
    /\ up' = TRUE
    /\ UNCHANGED <<requests, wanted, commands, routing, deadline, server,
                   handler, writer, pinger, channels>>

(* One message for all of them, then the connection's goroutines start.    *)
Resubscribe ==
    /\ run.pc = "resubscribe"
    /\ up \/ run.tokens = {}
    /\ run' = [pc |-> "read", conn |-> run.conn, attempt |-> run.attempt]
    /\ server' = [server EXCEPT ![run.conn] = run.tokens]
    /\ handler' = [handler EXCEPT ![run.conn] = AtRest]
    /\ writer' = [writer EXCEPT ![run.conn] = AtRest]
    /\ pinger' = [pinger EXCEPT ![run.conn] = AtRest]
    /\ UNCHANGED <<requests, wanted, commands, routing, up, deadline,
                   channels>>

ResubscribeFails ==
    /\ run.pc = "resubscribe"
    /\ ~up
    /\ run.tokens # {}
    /\ Disconnected
    /\ UNCHANGED <<requests, wanted, commands, routing, network, handler,
                   writer, pinger, channels>>

(* The read loop leaves connect: a read fails (also by its deadline), or   *)
(* between two reads it finds that a write has failed.                     *)
ReadFails ==
    /\ run.pc = "read"
    /\ ~up
    /\ Disconnected
    /\ UNCHANGED <<requests, wanted, commands, routing, network, handler,
                   writer, pinger, channels>>

WriteErrorSeen ==
    /\ run.pc = "read"
    /\ writeErr[run.conn]
    /\ writeErr' = [writeErr EXCEPT ![run.conn] = FALSE]
    /\ Disconnected
    /\ up' = FALSE
    /\ UNCHANGED <<requests, wanted, commands, routing, deadline, server,
                   handler, writer, pinger, writeCh>>

(* The environment: the connection breaks.                                 *)
ConnectionLost ==
    /\ up
    /\ up' = FALSE
    /\ UNCHANGED <<requests, wanted, commands, routing, run, deadline, server,
                   handler, writer, pinger, channels>>
----------------------------------------------------------------------------
(* The command handler's select: both cases may be ready, and then either  *)
(* is taken.                                                               *)
TakeCommand(c) ==
    /\ handler[c] = AtRest
    /\ commands # <<>>
    /\ handler' = [handler EXCEPT ![c] = [pc |-> "apply", cmd |-> Head(commands)]]
    /\ commands' = Tail(commands)
    /\ UNCHANGED <<requests, wanted, routing, run, network, writer, pinger,
                   channels>>

HandlerEnds(c) ==
    /\ handler[c] = AtRest
    /\ Cancelled(c)
    /\ handler' = [handler EXCEPT ![c] = Ended]
    /\ UNCHANGED <<requests, wanted, commands, routing, run, network, writer,
                   pinger, channels>>

(* The message for the server: all tokens, or none at all when nothing is  *)
(* left after a removal.                                                   *)
ToPush(c, tokens, add) ==
    handler' = [handler EXCEPT ![c] = IF add \/ tokens # {}
                                      THEN [pc |-> "push", tokens |-> tokens] ELSE AtRest]

ApplyAdd(c) ==
    /\ handler[c].pc = "apply"
    /\ handler[c].cmd.add
    /\ LET m == handler[c].cmd.market
           id == handler[c].cmd.id
       IN  /\ byMkt' = [byMkt EXCEPT ![m] = id]
           /\ byToken' = [t \in Tokens |-> IF t \in TokensOf(m) THEN id ELSE byToken[t]]
    /\ ToPush(c, AllTokenIDs(byToken'), TRUE)
    /\ UNCHANGED <<requests, wanted, commands, run, network, writer, pinger,
                   channels>>

(* Mutant: the NO token stays in the routing map.                          *)
ApplyRemoveYesOnly(c) ==
    /\ handler[c].pc = "apply"
    /\ ~handler[c].cmd.add
    /\ LET m == handler[c].cmd.market
       IN  /\ byMkt' = [byMkt EXCEPT ![m] = None]
           /\ byToken' = [byToken EXCEPT ![<<m, "yes">>] = None]
    /\ ToPush(c, AllTokenIDs(byToken'), FALSE)
    /\ UNCHANGED <<requests, wanted, commands, run, network, writer, pinger,
                   channels>>

(* Removing a market that is not subscribed changes no map.                *)
ApplyRemove(c) ==
    /\ handler[c].pc = "apply"
    /\ ~handler[c].cmd.add
    /\ LET m == handler[c].cmd.market
       IN  /\ byMkt' = [byMkt EXCEPT ![m] = None]
           /\ byToken' = [t \in Tokens |-> IF t \in TokensOf(m) /\ byMkt[m] # None
                                           THEN None ELSE byToken[t]]
    /\ ToPush(c, AllTokenIDs(byToken'), FALSE)
    /\ UNCHANGED <<requests, wanted, commands, run, network, writer, pinger,
                   channels>>

(* Mutant: a queue that grows.                                             *)
PushUnbounded(c) ==
    /\ handler[c].pc = "push"
    /\ writeCh' = [writeCh EXCEPT ![c] = Append(@, handler[c].tokens)]
    /\ handler' = [handler EXCEPT ![c] = AtRest]
    /\ UNCHANGED <<requests, wanted, commands, routing, run, network, writer,
                   pinger, writeErr>>

(* The send waits for room, whatever becomes of the connection.            *)
Push(c) ==
    /\ handler[c].pc = "push"
    /\ Len(writeCh[c]) < WriteCap
    /\ writeCh' = [writeCh EXCEPT ![c] = Append(@, handler[c].tokens)]
    /\ handler' = [handler EXCEPT ![c] = AtRest]
    /\ UNCHANGED <<requests, wanted, commands, routing, run, network, writer,
                   pinger, writeErr>>
----------------------------------------------------------------------------
Usable(c) == c = run.conn /\ run.pc = "read" /\ up

(* The writer: WriteJSON of the next message, from its call to its return. *)
WriteBegins(c) ==
    /\ writer[c] = AtRest
    /\ writeCh[c] # <<>>
    /\ writer' = [writer EXCEPT ![c] = [pc |-> "write", tokens |-> Head(writeCh[c])]]
    /\ writeCh' = [writeCh EXCEPT ![c] = Tail(@)]
    /\ UNCHANGED <<requests, wanted, commands, routing, run, network, handler,
                   pinger, writeErr>>

WriteReturns(c) ==
    /\ writer[c].pc = "write"
    /\ Usable(c) /\ deadline[c] # "past"
    /\ server' = [server EXCEPT ![c] = writer[c].tokens]
    /\ writer' = [writer EXCEPT ![c] = AtRest]
    /\ UNCHANGED <<requests, wanted, commands, routing, run, up, deadline,
                   handler, pinger, channels>>

(* A write fails on a lost connection, which a read may not have noticed   *)
(* yet, and after the deadline set for the last ping.                      *)
WriteFails(c) ==
    /\ writer[c].pc = "write"
    /\ ~Usable(c) \/ deadline[c] = "past"
    /\ writer' = [writer EXCEPT ![c] = [pc |-> "report"]]
    /\ UNCHANGED <<requests, wanted, commands, routing, run, network, handler,
                   pinger, channels>>

(* Mutant: a failed write ends the writer without a word.                  *)
ReportNothing(c) ==
    /\ writer[c].pc = "report"
    /\ writer' = [writer EXCEPT ![c] = Ended]
    /\ UNCHANGED <<requests, wanted, commands, routing, run, network, handler,
                   pinger, channels>>

(* The error channel holds one error; the writer waits until it is empty.  *)
ReportWriteError(c) ==
    /\ writer[c].pc = "report"
    /\ ~writeErr[c]
    /\ writeErr' = [writeErr EXCEPT ![c] = TRUE]
    /\ writer' = [writer EXCEPT ![c] = Ended]
    /\ UNCHANGED <<requests, wanted, commands, routing, run, network, handler,
                   pinger, writeCh>>

(* The keepalive: every 30 s, WriteMessage from its call to its return.    *)
(* The 10 s write deadline it sets is the connection's, for every write.   *)
(* (A tick that beats the cancellation of connCtx fails and changes        *)
(* nothing that is left of the connection.)                                *)
PingBegins(c) ==
    /\ pinger[c] = AtRest
    /\ ~Cancelled(c)
    /\ pinger' = [pinger EXCEPT ![c] = [pc |-> "write"]]
    /\ deadline' = [deadline EXCEPT ![c] = "ahead"]
    /\ UNCHANGED <<requests, wanted, commands, routing, run, up, server, handler,
                   writer, channels>>

(* (On a dead connection a write fails with any deadline.)                 *)
DeadlinePasses(c) ==
    /\ Usable(c)
    /\ deadline[c] = "ahead"
    /\ deadline' = [deadline EXCEPT ![c] = "past"]
    /\ UNCHANGED <<requests, wanted, commands, routing, run, up, server, handler,
                   writer, pinger, channels>>

PingReturns(c) ==
    /\ pinger[c].pc = "write"
    /\ Usable(c) /\ deadline[c] # "past"
    /\ pinger' = [pinger EXCEPT ![c] = AtRest]
    /\ UNCHANGED <<requests, wanted, commands, routing, run, network, handler, writer,
                   channels>>

PingFails(c) ==
    /\ pinger[c].pc = "write"
    /\ ~Usable(c) \/ deadline[c] = "past"
    /\ pinger' = [pinger EXCEPT ![c] = [pc |-> "report"]]
    /\ UNCHANGED <<requests, wanted, commands, routing, run, network, handler,
                   writer, channels>>

ReportPingError(c) ==
    /\ pinger[c].pc = "report"
    /\ ~writeErr[c]
    /\ writeErr' = [writeErr EXCEPT ![c] = TRUE]
    /\ pinger' = [pinger EXCEPT ![c] = Ended]
    /\ UNCHANGED <<requests, wanted, commands, routing, run, network, handler,
                   writer, writeCh>>

PingerEnds(c) ==
    /\ pinger[c] = AtRest
    /\ Cancelled(c)
    /\ pinger' = [pinger EXCEPT ![c] = Ended]
    /\ UNCHANGED <<requests, wanted, commands, routing, run, network, handler,
                   writer, channels>>
----------------------------------------------------------------------------
Connect ==
    \/ Backoff \/ Dial \/ Resubscribe \/ ResubscribeFails
    \/ ReadFails \/ WriteErrorSeen

Handle(c) == TakeCommand(c) \/ ApplyAdd(c) \/ ApplyRemove(c) \/ Push(c)

Write(c) ==
    WriteBegins(c) \/ WriteReturns(c) \/ WriteFails(c) \/ ReportWriteError(c)

Keepalive(c) ==
    \/ PingBegins(c) \/ PingReturns(c) \/ PingFails(c)
    \/ ReportPingError(c) \/ PingerEnds(c) \/ DeadlinePasses(c)

FeedNext ==
    \/ \E m \in Markets : Subscribe(m) \/ Unsubscribe(m)
    \/ Connect
    \/ DialFails
    \/ ConnectionLost
    \/ \E c \in Conns : Handle(c) \/ HandlerEnds(c) \/ Write(c) \/ Keepalive(c)

FeedSpec == FeedInit /\ [][FeedNext]_sharedVars

(* Dials, reads and writes have deadlines and the goroutines of the feed   *)
(* are scheduled; a broken connection, a failed dial or write, and a call  *)
(* by the orchestrator are never owed.                                     *)
FairFeedSpec ==
    /\ FeedSpec
    /\ WF_sharedVars(Connect)
    /\ \A c \in Conns : /\ WF_sharedVars(Handle(c))
                        /\ WF_sharedVars(HandlerEnds(c))
                        /\ WF_sharedVars(Write(c))
----------------------------------------------------------------------------
FeedTypeOK ==
    /\ requests \in 0 .. MaxRequests
    /\ wanted \in [Markets -> 0 .. MaxRequests]
    /\ Len(commands) <= CommandCap
    /\ byMkt \in [Markets -> 0 .. MaxRequests]
    /\ byToken \in [Tokens -> 0 .. MaxRequests]
    /\ run.pc \in {"dial", "resubscribe", "read", "backoff", "stopped"}
    /\ run.conn \in 0 .. Connections
    /\ up \in BOOLEAN
    /\ deadline \in [Conns -> {"none", "ahead", "past"}]
    /\ server \in [Conns -> SUBSET Tokens]
    /\ \A c \in Conns :
          /\ handler[c].pc \in {"off", "idle", "apply", "push", "ended"}
          /\ writer[c].pc \in {"off", "idle", "write", "report", "ended"}
          /\ pinger[c].pc \in {"off", "idle", "write", "report", "ended"}
          /\ Len(writeCh[c]) <= WriteCap
    /\ writeErr \in [Conns -> BOOLEAN]

(* Nothing asked of the feed is on its way to the routing maps.            *)
CommandsApplied == commands = <<>> /\ \A c \in Conns : handler[c].pc # "apply"

(* Commands pass through the handlers of several connections, but what     *)
(* they leave behind is what the orchestrator last asked for: both tokens  *)
(* of a wanted market are routed to its latest subscription, and no token  *)
(* of another market is routed anywhere.                                   *)
RoutesAreWanted ==
    CommandsApplied => /\ byMkt = wanted
                       /\ \A m \in Markets : \A t \in TokensOf(m) : byToken[t] = wanted[m]

(* Nothing is on its way to the server of connection c.                    *)
MessagesSent(c) ==
    /\ handler[c] = AtRest
    /\ writeCh[c] = <<>>
    /\ writer[c] = AtRest

(* A token in the routing maps is subscribed on a live connection whose    *)
(* messages are all written (documented: shared.go, above Subscribe),      *)
(* although commands are applied before and after a new connection reads   *)
(* the tokens it resubscribes.  It needs StaleEnd: a handler of a dead     *)
(* connection that applies a command later than that sends the message to  *)
(* the dead connection.                                                    *)
RoutesAreSubscribed ==
    Usable(run.conn) /\ MessagesSent(run.conn) =>
        AllTokenIDs(byToken) \subseteq server[run.conn]

(* A market the orchestrator subscribes ends up routed and subscribed on   *)
(* the connection, through any number of reconnects, unless it is          *)
(* unsubscribed or the feed runs out of retries.                           *)
SubscriptionsTakeEffect ==
    \A m \in Markets :
        wanted[m] # None ~>
            \/ wanted[m] = None
            \/ run.pc = "stopped"
            \/ /\ Usable(run.conn)
               /\ byMkt[m] # None
               /\ TokensOf(m) \subseteq server[run.conn]

(* Documented (shared.go, above Subscribe): the subscription message is    *)
(* sent on the live connection.  The writer of a connection that the       *)
(* network keeps does not fail.                                            *)
SentOnLiveConnection == \A c \in Conns : Usable(c) => writer[c].pc # "report"

(* Documented (shared.go, above writeCh): writes to the connection are     *)
(* serialized.  The connection allows one writer at a time.                *)
WritesAreSerialized ==
    \A c \in Conns : ~(writer[c].pc = "write" /\ pinger[c].pc = "write")
=============================================================================
