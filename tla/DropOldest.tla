----------------------------- MODULE DropOldest -----------------------------
(***************************************************************************)
(* The drop-oldest send on a buffered Go channel: fanOut of                *)
(* internal/state/engine.go (one sender, snapshots of one market) and      *)
(* sendFeedback of internal/executor (the executor and every order monitor *)
(* send, position updates of all the markets of a strategy).               *)
(*                                                                         *)
(* The three selects of a send are three steps; other senders and the      *)
(* receiving strategy run between them.  A message is its number, in the   *)
(* order the sends began, and is about a topic: the market whose state it  *)
(* carries, so that a newer message makes an older one of its topic        *)
(* obsolete.                                                               *)
(***************************************************************************)
EXTENDS Integers, Sequences

CONSTANTS Senders,
          Topics,
          Capacity, \* make(chan T, Capacity)
          MaxSends  \* bound: messages sent

ASSUME ChannelConfig ==
    /\ Capacity \in Nat \ {0}
    /\ MaxSends \in Nat

VARIABLES channel,  \* the buffer, oldest message first
          topicOf,  \* topicOf[n]: the topic of message n
          sender,   \* sender -> its progress through the selects
          received  \* topic -> last message received about it

channelVars == <<channel, topicOf, sender, received>>

Sent == Len(topicOf)
Idle == [pc |-> "idle"]
Full == Len(channel) = Capacity

ChannelInit ==
    /\ channel = <<>>
    /\ topicOf = <<>>
    /\ sender = [s \in Senders |-> Idle]
    /\ received = [t \in Topics |-> 0]

(* Mutant: a send that never waits for room.                               *)
SendUnbounded(s, t) ==
    /\ sender[s] = Idle
    /\ Sent < MaxSends
    /\ topicOf' = Append(topicOf, t)
    /\ channel' = Append(channel, Sent + 1)
    /\ UNCHANGED <<sender, received>>

(* Mutant: on a full channel the new message is dropped.                   *)
SendDropNewest(s, t) ==
    /\ sender[s] = Idle
    /\ Sent < MaxSends
    /\ topicOf' = Append(topicOf, t)
    /\ channel' = IF Full THEN channel ELSE Append(channel, Sent + 1)
    /\ UNCHANGED <<sender, received>>

(* Mutant: a send begins while the one before is between its selects.      *)
SendOverlapping(s, t) ==
    /\ Sent < MaxSends
    /\ topicOf' = Append(topicOf, t)
    /\ \/ ~Full /\ channel' = Append(channel, Sent + 1) /\ UNCHANGED sender
       \/ Full /\ UNCHANGED channel
               /\ sender' = [sender EXCEPT ![s] = [pc |-> "drain", msg |-> Sent + 1]]
    /\ UNCHANGED received

(* select { case ch <- msg: default: }                                     *)
Send(s, t) ==
    /\ sender[s] = Idle
    /\ Sent < MaxSends
    /\ topicOf' = Append(topicOf, t)
    /\ \/ ~Full /\ channel' = Append(channel, Sent + 1) /\ UNCHANGED sender
       \/ Full /\ UNCHANGED channel
               /\ sender' = [sender EXCEPT ![s] = [pc |-> "drain", msg |-> Sent + 1]]
    /\ UNCHANGED received

(* Mutant: the full channel is not drained.                                *)
DrainNothing(s) ==
    /\ sender[s].pc = "drain"
    /\ sender' = [sender EXCEPT ![s].pc = "retry"]
    /\ UNCHANGED <<channel, topicOf, received>>

(* select { case <-ch: default: }                                          *)
Drain(s) ==
    /\ sender[s].pc = "drain"
    /\ channel' = IF channel = <<>> THEN channel ELSE Tail(channel)
    /\ sender' = [sender EXCEPT ![s].pc = "retry"]
    /\ UNCHANGED <<topicOf, received>>

(* select { case ch <- msg: default: }: the message is lost when another   *)
(* sender has filled the channel again.                                    *)
Retry(s) ==
    /\ sender[s].pc = "retry"
    /\ channel' = IF Full THEN channel ELSE Append(channel, sender[s].msg)
    /\ sender' = [sender EXCEPT ![s] = Idle]
    /\ UNCHANGED <<topicOf, received>>

(* The strategy's receive.                                                 *)
Receive ==
    /\ channel # <<>>
    /\ received' = [received EXCEPT ![topicOf[Head(channel)]] = Head(channel)]
    /\ channel' = Tail(channel)
    /\ UNCHANGED <<topicOf, sender>>

ChannelNext ==
    \/ \E s \in Senders : (\E t \in Topics : Send(s, t)) \/ Drain(s) \/ Retry(s)
    \/ Receive

ChannelSpec == ChannelInit /\ [][ChannelNext]_channelVars
----------------------------------------------------------------------------
(* Types of the channel and of the sends in progress.                      *)
ChannelTypeOK ==
    /\ channel \in Seq(Nat)
    /\ Len(channel) <= Capacity
    /\ topicOf \in Seq(Topics)
    /\ sender \in [Senders -> {Idle} \cup [pc : {"drain", "retry"}, msg : Nat]]
    /\ received \in [Topics -> Nat]

AllIdle == \A s \in Senders : sender[s] = Idle
Queued(n) == \E i \in DOMAIN channel : channel[i] = n
Newest(n) == \A later \in n + 1 .. Sent : topicOf[later] # topicOf[n]

(* Dropping the oldest never costs the newest: once no send is in progress *)
(* the last message of every topic is in the channel or was received,      *)
(* although the channel may have been drained by the receiver as well      *)
(* between the selects of a send.                                          *)
NewestSurvives ==
    AllIdle => \A n \in 1 .. Sent :
                  Newest(n) => Queued(n) \/ received[topicOf[n]] = n

(* A strategy never goes back in time: what it receives about a topic is   *)
(* newer than all it received before.                                      *)
NeverBackwards == [][\A t \in Topics : received'[t] >= received[t]]_channelVars

(* What is received was overtaken by as many messages as the channel       *)
(* holds, at most: one for the price goroutine, four for a strategy.  The  *)
(* channel holds nothing but the last messages, whatever the receiver      *)
(* takes between the selects of a send.                                    *)
LagsByCapacityAtMost ==
    [][\A t \in Topics :
          received'[t] # received[t] => received'[t] >= Sent - Capacity]_channelVars

(* Documented (POLYSNIPE_SPEC.md, fan-out mechanism; Subscribe of the state *)
(* engine, which takes channels of capacity one): strategies always see    *)
(* the latest state.  What a strategy receives was, at most, overtaken by   *)
(* the one snapshot that is being sent.  On the channels of four that      *)
(* main.go makes for strategies it does not hold.                          *)
ReceivesLatest ==
    [][\A t \in Topics : received'[t] # received[t] => received'[t] >= Sent - 1]_channelVars
=============================================================================
