----------------------------- MODULE FeedProofs -----------------------------
(***************************************************************************)
(* Theorems about the way of market data.  First, the drop-oldest channel, *)
(* for every capacity, and the pipeline of one market, which ends in one,  *)
(* for channels of every capacity and any messages.  Then the connection   *)
(* that all markets share: its types, for any timing; and, when a backoff  *)
(* outlasts what the handler of a dead connection still does (StaleEnd),   *)
(* that the routing maps hold what the orchestrator asked for and that     *)
(* what they hold is subscribed.                                           *)
(***************************************************************************)
EXTENDS MarketData, SharedFeed, SequenceTheorems, TLAPS

USE ChannelConfig DEF ChannelConfig

(* The channel never holds more than its capacity, whoever sends to it:    *)
(* types of the channel, for any number of senders and topics.             *)
THEOREM ChannelTypeCorrect == ChannelSpec => []ChannelTypeOK
<1>1. ChannelInit => ChannelTypeOK
  BY DEF ChannelInit, ChannelTypeOK, Idle
<1>2. ChannelTypeOK /\ [ChannelNext]_channelVars => ChannelTypeOK'
  <2> SUFFICES ASSUME ChannelTypeOK, [ChannelNext]_channelVars
               PROVE  ChannelTypeOK'
    OBVIOUS
  <2> USE DEF ChannelTypeOK, Idle
  <2>1. ASSUME NEW s \in Senders, NEW t \in Topics, Send(s, t)
        PROVE  ChannelTypeOK'
    <3>1. topicOf' \in Seq(Topics) /\ received' \in [Topics -> Nat]
      BY <2>1 DEF Send
    <3>2. channel' \in Seq(Nat) /\ Len(channel') <= Capacity
      <4>1. Len(topicOf) + 1 \in Nat
        BY DEF Send
      <4>2. CASE Len(channel) = Capacity
        BY <2>1, <4>2 DEF Send, Full
      <4>3. CASE Len(channel) # Capacity
        <5>1. channel' = Append(channel, Len(topicOf) + 1)
          BY <2>1, <4>3 DEF Send, Full, Sent
        <5> QED
          BY <4>1, <4>3, <5>1
      <4> QED
        BY <4>2, <4>3
    <3>3. CASE Full
      <4>1. [pc |-> "drain", msg |-> Sent + 1] \in [pc : {"drain", "retry"}, msg : Nat]
        BY DEF Sent
      <4> QED
        BY <2>1, <3>1, <3>2, <3>3, <4>1 DEF Send
    <3>4. CASE ~Full
      BY <2>1, <3>1, <3>2, <3>4 DEF Send
    <3> QED
      BY <3>3, <3>4
  <2>2. ASSUME NEW s \in Senders, Drain(s)
        PROVE  ChannelTypeOK'
    <3>1. sender[s] \in [pc : {"drain", "retry"}, msg : Nat]
      BY <2>2 DEF Drain
    <3>2. sender' \in [Senders -> {Idle} \cup [pc : {"drain", "retry"}, msg : Nat]]
      BY <2>2, <3>1 DEF Drain
    <3>3. channel' \in Seq(Nat) /\ Len(channel') <= Capacity
      BY <2>2 DEF Drain
    <3> QED
      BY <2>2, <3>2, <3>3 DEF Drain
  <2>3. ASSUME NEW s \in Senders, Retry(s)
        PROVE  ChannelTypeOK'
    BY <2>3 DEF Retry, Full
  <2>4. CASE Receive
    <3>1. Head(channel) \in Nat
      BY <2>4 DEF Receive
    <3>2. channel' \in Seq(Nat) /\ Len(channel') <= Capacity
      BY <2>4 DEF Receive
    <3>3. received' \in [Topics -> Nat]
      BY <2>4, <3>1 DEF Receive
    <3> QED
      BY <2>4, <3>2, <3>3 DEF Receive
  <2>5. CASE UNCHANGED channelVars
    BY <2>5 DEF channelVars
  <2> QED
    BY <2>1, <2>2, <2>3, <2>4, <2>5 DEF ChannelNext
<1> QED
  BY <1>1, <1>2, PTL DEF ChannelSpec
-----------------------------------------------------------------------------
(* One sender and one topic: the state engine and a strategy's snapshots.  *)

(* The messages of the channel are in the order they were sent, newer than *)
(* what was received.                                                      *)
Ordered ==
    /\ \A i, j \in DOMAIN channel : i < j => channel[i] < channel[j]
    /\ \A i \in DOMAIN channel, t \in Topics : received[t] < channel[i]
    /\ \A i \in DOMAIN channel : channel[i] <= Sent

(* Where the last message is: at the end of the channel, received, or      *)
(* still in the hands of the sender, which then finds room for it.         *)
LastIsSafe ==
    \A s \in Senders, t \in Topics :
        /\ sender[s] = Idle =>
              IF channel = <<>> THEN received[t] = Sent
              ELSE channel[Len(channel)] = Sent
        /\ sender[s] # Idle =>
              /\ sender[s].msg = Sent
              /\ received[t] < Sent
              /\ \A i \in DOMAIN channel : channel[i] < Sent
              /\ channel # <<>> => channel[Len(channel)] = Sent - 1
        /\ sender[s].pc = "retry" => Len(channel) < Capacity

SingleInv == ChannelTypeOK /\ Ordered /\ LastIsSafe

(* Taking the head of an increasing sequence.                              *)
LEMMA TailIsOrdered ==
    ASSUME NEW q \in Seq(Nat), q # <<>>, NEW bound \in Nat,
           \A i, j \in DOMAIN q : i < j => q[i] < q[j],
           \A i \in DOMAIN q : q[i] <= bound
    PROVE  /\ \A i, j \in DOMAIN Tail(q) : i < j => Tail(q)[i] < Tail(q)[j]
           /\ \A i \in DOMAIN Tail(q) : q[1] < Tail(q)[i] /\ Tail(q)[i] <= bound
           /\ Tail(q) = <<>> => Len(q) = 1
           /\ Tail(q) # <<>> => Tail(q)[Len(Tail(q))] = q[Len(q)]
<1>1. /\ Len(Tail(q)) = Len(q) - 1
      /\ \A i \in DOMAIN Tail(q) : i + 1 \in DOMAIN q /\ Tail(q)[i] = q[i + 1]
      /\ 1 \in DOMAIN q
  OBVIOUS
<1>2. DOMAIN Tail(q) = 1 .. Len(q) - 1
  OBVIOUS
<1> QED
  BY <1>1, <1>2

(* What is left of a queue after a receive was in it before.               *)
LEMMA TailIsPart ==
    ASSUME NEW S, NEW s \in Seq(S), s # <<>>
    PROVE  \A i \in DOMAIN Tail(s) : \E j \in DOMAIN s : Tail(s)[i] = s[j]
<1>1. ASSUME NEW i \in DOMAIN Tail(s) PROVE i + 1 \in DOMAIN s /\ Tail(s)[i] = s[i + 1]
  OBVIOUS
<1> QED
  BY <1>1

LEMMA TailOfChannel ==
    ASSUME ChannelTypeOK, Ordered, channel # <<>>
    PROVE  /\ \A i, j \in DOMAIN Tail(channel) :
                 i < j => Tail(channel)[i] < Tail(channel)[j]
           /\ \A i \in DOMAIN Tail(channel) :
                 channel[1] < Tail(channel)[i] /\ Tail(channel)[i] <= Sent
           /\ Tail(channel) = <<>> => Len(channel) = 1
           /\ Tail(channel) # <<>> =>
                 Tail(channel)[Len(Tail(channel))] = channel[Len(channel)]
<1>1. channel \in Seq(Nat) /\ Sent \in Nat
  BY DEF ChannelTypeOK, Sent
<1>2. /\ \A i, j \in DOMAIN channel : i < j => channel[i] < channel[j]
      /\ \A i \in DOMAIN channel : channel[i] <= Sent
  BY DEF Ordered
<1> QED
  BY <1>1, <1>2, TailIsOrdered, Zenon

LEMMA SingleInvHolds ==
    ASSUME NEW engine, NEW market, Senders = {engine}, Topics = {market}
    PROVE  ChannelSpec => []SingleInv
<1> USE DEF Idle, Sent, Full
<1>1. ChannelInit => SingleInv
  BY DEF ChannelInit, SingleInv, ChannelTypeOK, Ordered, LastIsSafe
<1>2. ASSUME SingleInv, ChannelTypeOK', [ChannelNext]_channelVars
      PROVE  SingleInv'
  <2> USE <1>2 DEF SingleInv, ChannelTypeOK
  <2>1. CASE Send(engine, market)
    <3>1. Ordered'
      <4>1. CASE Full
        BY <2>1, <4>1 DEF Send, Ordered
      <4>2. CASE ~Full
        <5>1. /\ channel' = Append(channel, Sent + 1)
              /\ received' = received
              /\ sender[engine] = Idle
          BY <2>1, <4>2 DEF Send
        <5>2. /\ \A i \in DOMAIN channel : channel[i] < Sent + 1
              /\ received[market] < Sent + 1
          BY <5>1 DEF Ordered, LastIsSafe
        <5>3. /\ DOMAIN channel' = 1 .. Len(channel) + 1
              /\ \A i \in DOMAIN channel :
                    i \in DOMAIN channel' /\ channel'[i] = channel[i]
              /\ channel'[Len(channel) + 1] = Sent + 1
              /\ Sent' = Sent + 1
          BY <2>1, <5>1 DEF Send
        <5>4. \A i, j \in DOMAIN channel' : i < j => channel'[i] < channel'[j]
          <6> SUFFICES ASSUME NEW i \in DOMAIN channel', NEW j \in DOMAIN channel', i < j
                       PROVE  channel'[i] < channel'[j]
            OBVIOUS
          <6>1. i \in DOMAIN channel /\ channel'[i] = channel[i]
            BY <5>3
          <6>2. CASE j = Len(channel) + 1
            BY <5>2, <5>3, <6>1, <6>2
          <6>3. CASE j # Len(channel) + 1
            <7>1. j \in DOMAIN channel /\ channel'[j] = channel[j]
              BY <5>3, <6>3
            <7> QED
              BY <6>1, <7>1 DEF Ordered
          <6> QED
            BY <6>2, <6>3
        <5>5. \A i \in DOMAIN channel' :
                 received'[market] < channel'[i] /\ channel'[i] <= Sent'
          BY <5>1, <5>2, <5>3 DEF Ordered
        <5> QED
          BY <5>4, <5>5 DEF Ordered
      <4> QED
        BY <4>1, <4>2
    <3>2. LastIsSafe'
      <4>1. CASE Full
        <5>1. /\ channel' = channel /\ received' = received
              /\ sender'[engine] = [pc |-> "drain", msg |-> Sent + 1]
              /\ sender[engine] = Idle
              /\ Sent' = Sent + 1
          BY <2>1, <4>1 DEF Send
        <5>2. \A i \in DOMAIN channel : channel[i] <= Sent
          BY DEF Ordered
        <5>3. received[market] < Sent + 1
          BY <5>1, <4>1 DEF Ordered, LastIsSafe
        <5> QED
          BY <5>1, <5>2, <5>3 DEF LastIsSafe
      <4>2. CASE ~Full
        BY <2>1, <4>2 DEF Send, LastIsSafe
      <4> QED
        BY <4>1, <4>2
    <3> QED
      BY <3>1, <3>2
  <2>2. CASE Drain(engine)
    <3>1. /\ received' = received
          /\ sender'[engine] = [sender[engine] EXCEPT !.pc = "retry"]
          /\ Sent' = Sent
          /\ sender[engine].pc = "drain"
          /\ channel' = IF channel = <<>> THEN channel ELSE Tail(channel)
      BY <2>2 DEF Drain
    <3>2. sender[engine] \in [pc : {"drain", "retry"}, msg : Nat]
      BY <3>1
    <3>3. /\ sender'[engine].msg = sender[engine].msg
          /\ sender'[engine].pc = "retry"
          /\ sender'[engine] # Idle
      BY <3>1, <3>2
    <3>4. Len(channel') < Capacity
      BY <3>1
    <3>5. \A i \in DOMAIN channel' :
             \E j \in DOMAIN channel : channel'[i] = channel[j]
      <4>1. CASE channel = <<>>
        BY <3>1, <4>1
      <4>2. CASE channel # <<>>
        <5>1. channel \in Seq(Nat) /\ channel' = Tail(channel)
          BY <3>1, <4>2
        <5>2. \A i \in DOMAIN Tail(channel) :
                 \E j \in DOMAIN channel : Tail(channel)[i] = channel[j]
          BY <4>2, <5>1, TailIsPart
        <5> QED
          BY <5>1, <5>2
      <4> QED
        BY <4>1, <4>2
    <3>6. \A i, j \in DOMAIN channel' : i < j => channel'[i] < channel'[j]
      <4>1. CASE channel = <<>>
        BY <3>1, <4>1
      <4>2. CASE channel # <<>>
        BY <3>1, <4>2, TailOfChannel
      <4> QED
        BY <4>1, <4>2
    <3>7. LastIsSafe'
      <4>1. channel' # <<>> =>
               channel # <<>> /\ channel'[Len(channel')] = channel[Len(channel)]
        BY <3>1, TailOfChannel
      <4>2. sender[engine] # Idle
        BY <3>1
      <4> QED
        BY <3>1, <3>3, <3>4, <3>5, <4>1, <4>2 DEF LastIsSafe
    <3>8. Ordered'
      BY <3>1, <3>5, <3>6 DEF Ordered
    <3> QED
      BY <3>7, <3>8
  <2>3. CASE Retry(engine)
    <3>1. /\ received' = received
          /\ sender'[engine] = Idle
          /\ sender[engine].pc = "retry" /\ sender[engine] # Idle
          /\ Sent' = Sent
          /\ channel' = Append(channel, Sent)
      BY <2>3 DEF Retry, LastIsSafe
    <3>2. Ordered'
      BY <3>1 DEF Ordered, LastIsSafe
    <3>3. LastIsSafe'
      BY <3>1 DEF LastIsSafe
    <3> QED
      BY <3>2, <3>3
  <2>4. CASE Receive
    <3>1. /\ channel # <<>> /\ channel' = Tail(channel)
          /\ sender' = sender /\ Sent' = Sent
      BY <2>4 DEF Receive
    <3>2. topicOf[channel[1]] = market
      BY <3>1 DEF Ordered
    <3>3. received'[market] = channel[1]
      BY <2>4, <3>2 DEF Receive
    <3>4. /\ \A i, j \in DOMAIN channel' : i < j => channel'[i] < channel'[j]
          /\ \A i \in DOMAIN channel' :
                channel[1] < channel'[i] /\ channel'[i] <= Sent
          /\ channel' = <<>> => Len(channel) = 1
          /\ channel' # <<>> => channel'[Len(channel')] = channel[Len(channel)]
      BY <3>1, TailOfChannel
    <3>5. Ordered'
      BY <3>1, <3>3, <3>4 DEF Ordered
    <3>6. channel[1] <= Sent /\ (sender[engine] # Idle => channel[1] < Sent)
      BY <3>1 DEF Ordered, LastIsSafe
    <3>7. LastIsSafe'
      <4>1. received'[market] <= Sent /\ Len(channel') <= Len(channel)
        BY <3>1, <3>3, <3>6
      <4>2. CASE sender[engine] = Idle
        <5>1. CASE channel' = <<>>
          BY <3>1, <3>3, <3>4, <4>2, <5>1 DEF LastIsSafe
        <5>2. CASE channel' # <<>>
          <6>1. channel[Len(channel)] = Sent
            BY <3>1, <4>2 DEF LastIsSafe
          <6>2. channel'[Len(channel')] = Sent'
            BY <3>1, <3>4, <5>2, <6>1
          <6>3. sender'[engine] = Idle /\ sender'[engine].pc # "retry"
            BY <3>1, <4>2
          <6> QED
            BY <5>2, <6>2, <6>3 DEF LastIsSafe
        <5> QED
          BY <5>1, <5>2
      <4>3. CASE sender[engine] # Idle
        <5>1. /\ sender[engine].msg = Sent
              /\ \A i \in DOMAIN channel : channel[i] < Sent
              /\ sender[engine].pc = "retry" => Len(channel) < Capacity
          BY <4>3 DEF LastIsSafe
        <5>2. \A i \in DOMAIN channel' : channel'[i] < Sent
          <6>1. channel \in Seq(Nat) /\ channel # <<>> /\ channel' = Tail(channel)
            BY <3>1
          <6>2. \A i \in DOMAIN channel' : \E j \in DOMAIN channel : channel'[i] = channel[j]
            <7>1. \A i \in DOMAIN Tail(channel) :
                     \E j \in DOMAIN channel : Tail(channel)[i] = channel[j]
              BY <6>1, TailIsPart
            <7> QED
              BY <6>1, <7>1
          <6> QED
            BY <5>1, <6>2
        <5> QED
          BY <3>1, <3>3, <3>6, <4>1, <4>3, <5>1, <5>2 DEF LastIsSafe
      <4> QED
        BY <4>2, <4>3
    <3> QED
      BY <3>5, <3>7
  <2>5. CASE UNCHANGED channelVars
    BY <2>5 DEF channelVars, Ordered, LastIsSafe
  <2> QED
    BY <2>1, <2>2, <2>3, <2>4, <2>5 DEF ChannelNext
<1> QED
  BY <1>1, <1>2, ChannelTypeCorrect, PTL DEF ChannelSpec

(* The state engine's drop-oldest send never loses the newest snapshot,    *)
(* for a channel of any capacity: NewestSurvives.                          *)
THEOREM SingleSenderKeepsNewest ==
    ASSUME NEW engine, NEW market, Senders = {engine}, Topics = {market}
    PROVE  ChannelSpec => []NewestSurvives
<1>1. SingleInv => NewestSurvives
  <2> SUFFICES ASSUME SingleInv, AllIdle, NEW n \in 1 .. Sent, Newest(n)
               PROVE  Queued(n) \/ received[topicOf[n]] = n
    BY DEF NewestSurvives
  <2>1. /\ channel \in Seq(Nat)
        /\ topicOf \in Seq(Topics)
        /\ sender[engine] = Idle
    BY DEF SingleInv, ChannelTypeOK, AllIdle
  <2>2. \A k \in 1 .. Sent : topicOf[k] = market
    BY <2>1 DEF Sent
  <2>3. n = Sent
    <3>1. CASE n < Sent
      <4>1. Sent \in n + 1 .. Sent /\ Sent \in 1 .. Sent
        BY <2>1, <3>1 DEF Sent
      <4> QED
        BY <2>2, <4>1 DEF Newest
    <3> QED
      BY <2>1, <3>1 DEF Sent
  <2>4. CASE channel = <<>>
    BY <2>1, <2>2, <2>3, <2>4 DEF SingleInv, LastIsSafe
  <2>5. CASE channel # <<>>
    <3>1. Len(channel) \in DOMAIN channel
      BY <2>1, <2>5
    <3>2. channel[Len(channel)] = Sent
      BY <2>1, <2>5 DEF SingleInv, LastIsSafe
    <3> QED
      BY <2>3, <3>1, <3>2 DEF Queued
  <2> QED
    BY <2>4, <2>5
<1> QED
  BY <1>1, SingleInvHolds, PTL

(* With one sender a strategy receives snapshots in the order they were    *)
(* sent, whatever the capacity: NeverBackwards.                            *)
THEOREM SingleSenderKeepsOrder ==
    ASSUME NEW engine, NEW market, Senders = {engine}, Topics = {market}
    PROVE  ChannelSpec => NeverBackwards
<1>1. SingleInv /\ [ChannelNext]_channelVars =>
          [\A t \in Topics : received'[t] >= received[t]]_channelVars
  <2> SUFFICES ASSUME SingleInv, ChannelNext, NEW t \in Topics
               PROVE  received'[t] >= received[t]
    OBVIOUS
  <2>1. received[t] \in Nat
    BY DEF SingleInv, ChannelTypeOK
  <2>2. CASE Receive
    <3>1. 1 \in DOMAIN channel /\ Head(channel) = channel[1] /\ channel[1] \in Nat
      BY <2>2 DEF Receive, SingleInv, ChannelTypeOK
    <3>2. received[t] < channel[1]
      BY <3>1 DEF SingleInv, Ordered
    <3>3. received'[t] \in {received[t], channel[1]}
      BY <2>2, <3>1 DEF Receive, SingleInv, ChannelTypeOK
    <3> QED
      BY <2>1, <3>1, <3>2, <3>3
  <2>3. CASE UNCHANGED received
    BY <2>1, <2>3
  <2> QED
    BY <2>2, <2>3 DEF ChannelNext, Send, Drain, Retry
<1> QED
  BY <1>1, SingleInvHolds, PTL DEF ChannelSpec, NeverBackwards

(* The channel holds the last messages, one after the other, but for the    *)
(* one a sender may have in hand.                                          *)
Contiguous ==
    \A s \in Senders, i \in DOMAIN channel :
        channel[i] = (IF sender[s] = Idle THEN Sent ELSE Sent - 1) - Len(channel) + i

LEMMA ContiguousStep ==
    ASSUME NEW engine, NEW market, Senders = {engine}, Topics = {market},
           SingleInv, Contiguous, [ChannelNext]_channelVars
    PROVE  Contiguous'
<1> DEFINE top == IF sender[engine] = Idle THEN Sent ELSE Sent - 1
<1>1. /\ channel \in Seq(Nat) /\ Len(channel) \in Nat /\ DOMAIN channel = 1 .. Len(channel)
      /\ Sent \in Nat /\ topicOf \in Seq(Topics) /\ top \in Int
      /\ \A i \in DOMAIN channel : channel[i] = top - Len(channel) + i
      /\ sender \in [Senders -> {Idle} \cup [pc : {"drain", "retry"}, msg : Nat]]
  BY DEF SingleInv, ChannelTypeOK, Contiguous, Sent
<1>. HIDE DEF top
<1>2. ASSUME NEW new, channel' = Append(channel, new), new = top + 1,
             (IF sender'[engine] = Idle THEN Sent' ELSE Sent' - 1) = top + 1
      PROVE  Contiguous'
  <2>1. /\ Len(channel') = Len(channel) + 1 /\ DOMAIN channel' = 1 .. Len(channel) + 1
        /\ \A i \in 1 .. Len(channel) : channel'[i] = channel[i]
        /\ channel'[Len(channel) + 1] = new
    BY <1>1, <1>2
  <2>2. ASSUME NEW i \in DOMAIN channel' PROVE channel'[i] = (top + 1) - Len(channel') + i
    <3>1. CASE i \in 1 .. Len(channel)
      <4>1. channel'[i] = top - Len(channel) + i
        BY <1>1, <2>1, <3>1
      <4> QED
        BY <1>1, <2>1, <3>1, <4>1
    <3>2. CASE i = Len(channel) + 1
      BY <1>1, <1>2, <2>1, <3>2
    <3> QED
      BY <1>1, <2>1, <3>1, <3>2
  <2>. QED
    BY <1>2, <2>2 DEF Contiguous
<1>3. ASSUME channel # <<>>, channel' = Tail(channel),
             (IF sender'[engine] = Idle THEN Sent' ELSE Sent' - 1) = top
      PROVE  Contiguous'
  <2>1. /\ Len(channel') = Len(channel) - 1
        /\ \A i \in DOMAIN channel' : i \in Int /\ i + 1 \in DOMAIN channel /\ channel'[i] = channel[i + 1]
    BY <1>1, <1>3
  <2>2. \A i \in DOMAIN channel' : channel'[i] = top - Len(channel') + i
    BY <1>1, <2>1
  <2>. QED
    BY <1>3, <2>2 DEF Contiguous
<1>4. ASSUME channel' = channel,
             (IF sender'[engine] = Idle THEN Sent' ELSE Sent' - 1) = top
      PROVE  Contiguous'
  BY <1>1, <1>4 DEF Contiguous
<1>5. CASE Send(engine, market)
  <2>1. /\ sender[engine] = Idle /\ topicOf' = Append(topicOf, market) /\ Sent' = Sent + 1
        /\ top = Sent
    BY <1>1, <1>5 DEF Send, Sent, top
  <2>2. CASE Full
    <3>1. channel' = channel /\ sender'[engine] = [pc |-> "drain", msg |-> Sent + 1]
      BY <1>1, <1>5, <2>2 DEF Send
    <3>2. sender'[engine] # Idle
      BY <3>1 DEF Idle
    <3>. QED
      BY <1>1, <1>4, <2>1, <3>1, <3>2
  <2>3. CASE ~Full
    <3>1. channel' = Append(channel, Sent + 1) /\ sender' = sender
      BY <1>5, <2>3 DEF Send
    <3>. QED
      BY <1>1, <1>2, <2>1, <3>1
  <2>. QED
    BY <2>2, <2>3
<1>6. CASE Drain(engine)
  <2>1. /\ sender[engine].pc = "drain" /\ sender' = [sender EXCEPT ![engine].pc = "retry"]
        /\ topicOf' = topicOf /\ Sent' = Sent
        /\ channel' = IF channel = <<>> THEN channel ELSE Tail(channel)
    BY <1>6 DEF Drain, Sent
  <2>2. sender[engine] # Idle /\ sender'[engine] # Idle
    <3>1. sender[engine] \in [pc : {"drain", "retry"}, msg : Nat]
      BY <1>1, <2>1 DEF Idle
    <3>2. sender'[engine].pc = "retry"
      BY <1>1, <2>1, <3>1
    <3>. QED
      BY <2>1, <3>2 DEF Idle
  <2>3. (IF sender'[engine] = Idle THEN Sent' ELSE Sent' - 1) = top
    BY <2>1, <2>2 DEF top
  <2>. QED
    BY <1>3, <1>4, <2>1, <2>3
<1>7. CASE Retry(engine)
  <2>1. /\ sender[engine].pc = "retry" /\ sender[engine] # Idle
        /\ sender'[engine] = Idle /\ Sent' = Sent
    BY <1>1, <1>7 DEF Retry, Idle, Sent
  <2>2. channel' = Append(channel, Sent)
    <3>1. sender[engine].msg = Sent /\ Len(channel) < Capacity
      BY <2>1 DEF SingleInv, LastIsSafe
    <3>2. ~Full
      <4>1. Len(channel) \in Nat /\ Capacity \in Nat /\ Len(channel) < Capacity
        BY <1>1, <3>1, ChannelConfig
      <4>2. Len(channel) # Capacity
        BY <4>1
      <4>. QED
        BY <4>2 DEF Full
    <3>. QED
      BY <1>7, <3>1, <3>2 DEF Retry
  <2>3. top + 1 = Sent
    BY <1>1, <2>1 DEF top
  <2>. QED
    BY <1>1, <1>2, <2>1, <2>2, <2>3
<1>8. CASE Receive
  <2>1. channel # <<>> /\ channel' = Tail(channel) /\ sender' = sender /\ Sent' = Sent
    BY <1>8 DEF Receive, Sent
  <2>. QED
    BY <1>3, <2>1 DEF top
<1>9. CASE UNCHANGED channelVars
  BY <1>4, <1>9 DEF channelVars, Sent, top
<1>. QED
  BY <1>5, <1>6, <1>7, <1>8, <1>9 DEF ChannelNext

(* What a strategy receives lags behind the newest snapshot by what the    *)
(* channel holds, at most: by four for the channels main.go makes, and by  *)
(* the one on its way for the documented capacity of one.                  *)
THEOREM LagIsBounded ==
    ASSUME NEW engine, NEW market, Senders = {engine}, Topics = {market}
    PROVE  ChannelSpec => LagsByCapacityAtMost
<1>1. ChannelInit => Contiguous
  BY DEF ChannelInit, Contiguous
<1>2. SingleInv /\ Contiguous /\ [ChannelNext]_channelVars => Contiguous'
  BY ContiguousStep
<1>3. SingleInv /\ Contiguous /\ [ChannelNext]_channelVars =>
          [\A t \in Topics :
              received'[t] # received[t] => received'[t] >= Sent - Capacity]_channelVars
  <2> SUFFICES ASSUME SingleInv, Contiguous, ChannelNext, NEW t \in Topics,
                      received'[t] # received[t]
               PROVE  received'[t] >= Sent - Capacity
    OBVIOUS
  <2>1. Receive
    BY DEF ChannelNext, Send, Drain, Retry
  <2>2. /\ channel \in Seq(Nat) /\ channel # <<>> /\ Len(channel) \in Nat
        /\ Len(channel) <= Capacity /\ 1 \in DOMAIN channel /\ Sent \in Nat
    BY <2>1 DEF Receive, SingleInv, ChannelTypeOK, Sent
  <2>3. received'[t] = channel[1]
    BY <2>1, <2>2 DEF Receive, SingleInv, ChannelTypeOK
  <2>4. channel[1] \in {Sent - Len(channel) + 1, Sent - 1 - Len(channel) + 1}
    BY <2>2 DEF Contiguous
  <2> QED
    BY <2>2, <2>3, <2>4
<1> QED
  BY <1>1, <1>2, <1>3, SingleInvHolds, PTL DEF ChannelSpec, LagsByCapacityAtMost
----------------------------------------------------------------------------
USE DataConfig DEF DataConfig

(* The engine and the price goroutine use the snapshot channel the way     *)
(* module DropOldest describes, whatever the rest of the market does: the  *)
(* pipeline implements the channel.                                        *)
THEOREM PipelineImplementsChannel == DataSpec => ChannelSpec
<1>1. DataInit => ChannelInit
  BY DEF DataInit
<1>2. [DataNext]_dataVars => [ChannelNext]_channelVars
  <2> SUFFICES ASSUME [DataNext]_dataVars
               PROVE  ChannelNext \/ UNCHANGED channelVars
    OBVIOUS
  <2>1. ASSUME EngineTakes PROVE ChannelNext
    BY <2>1 DEF EngineTakes, ChannelNext
  <2>2. ASSUME EngineDrains \/ EngineRetries PROVE ChannelNext
    BY <2>2 DEF EngineDrains, EngineRetries, ChannelNext
  <2>3. ASSUME PriceArrives PROVE ChannelNext
    BY <2>3 DEF PriceArrives, ChannelNext
  <2>4. ASSUME NEW msg \in Messages, Route(msg) PROVE UNCHANGED channelVars
    BY <2>4 DEF Route
  <2>5. ASSUME ApplyCommand \/ Recorder \/ EngineEnds \/ StoreQuote \/ Buy \/ Teardown
        PROVE  UNCHANGED channelVars
    BY <2>5 DEF ApplyCommand, Recorder, Record, Forward, EngineEnds, StoreQuote, Buy, Teardown,
       DeleteEntry, CancelStack, UnsubscribeFeed, PriceSale, SignSale
  <2>6. CASE UNCHANGED dataVars
    BY <2>6 DEF dataVars
  <2> QED
    BY <2>1, <2>2, <2>3, <2>4, <2>5, <2>6 DEF DataNext, EngineStep, PriceLoop
<1> QED
  BY <1>1, <1>2, PTL DEF DataSpec, ChannelSpec

(* So the executor's side of the pipeline never loses the newest snapshot  *)
(* (NewestSurvives) and never sees them out of order (NeverBackwards).     *)
THEOREM PriceIsNewest == DataSpec => []NewestSurvives
<1>1. ChannelSpec => []NewestSurvives
  BY SingleSenderKeepsNewest
<1> QED
  BY <1>1, PipelineImplementsChannel, PTL

THEOREM PricesKeepOrder == DataSpec => NeverBackwards
<1>1. ChannelSpec => NeverBackwards
  BY SingleSenderKeepsOrder
<1> QED
  BY <1>1, PipelineImplementsChannel, PTL
----------------------------------------------------------------------------
(* The inductive invariant: the two properties, and that nothing but YES   *)
(* messages is in the pipeline, which the merges rest on.                  *)
OnlyYes ==
    /\ \A i \in DOMAIN raw : raw[i].token = "yes"
    /\ \A i \in DOMAIN events : events[i].token = "yes"

DataInv ==
    MarketDataTypeOK /\ EventsInOrder /\ FileHasNoGap /\ OnlyYes /\ SnapshotsAreMerges

(* The latest value of a part of the quote after one more event.           *)
LEMMA LatestAfterOneMore ==
    ASSUME NEW n \in Nat, NEW value \in Nat, NEW part, IsLatest(value, n, part)
    PROVE  IsLatest(IF Carries(n + 1, part) THEN n + 1 ELSE value, n + 1, part)
<1>1. CASE Carries(n + 1, part)
  BY <1>1 DEF IsLatest
<1>2. CASE ~Carries(n + 1, part)
  <2>1. \A k \in 1 .. n + 1 : k \in 1 .. n \/ k = n + 1
    OBVIOUS
  <2>2. CASE value = 0 /\ \A k \in 1 .. n : ~Carries(k, part)
    BY <1>2, <2>1, <2>2 DEF IsLatest
  <2>3. CASE value \in 1 .. n /\ Carries(value, part)
             /\ \A k \in value + 1 .. n : ~Carries(k, part)
    <3>1. \A k \in value + 1 .. n + 1 : k \in value + 1 .. n \/ k = n + 1
      OBVIOUS
    <3> QED
      BY <1>2, <2>3, <3>1 DEF IsLatest
  <2> QED
    BY <2>2, <2>3 DEF IsLatest
<1> QED
  BY <1>1, <1>2

(* Engine.update merges: one more event keeps a snapshot a merge.          *)
LEMMA UpdateMerges ==
    ASSUME NEW n \in Nat, NEW prev \in SnapshotType, IsMerge(prev, n),
           events[n + 1].token = "yes"
    PROVE  LET snap == Update(prev, n + 1, Event(events[n + 1]))
           IN snap \in SnapshotType /\ IsMerge(snap, n + 1)
<1> DEFINE ev == Event(events[n + 1])
           snap == Update(prev, n + 1, ev)
<1>1. /\ prev.bid \in Nat /\ prev.ask \in Nat /\ prev.last \in Nat
      /\ prev.mid \in Nat \X Nat /\ prev.volume \in Nat
  BY DEF SnapshotType
<1>2. /\ snap.bid = IF ev.bid THEN n + 1 ELSE prev.bid
      /\ snap.ask = IF ev.ask THEN n + 1 ELSE prev.ask
      /\ snap.last = IF ev.last THEN n + 1 ELSE prev.last
      /\ snap.mid = IF snap.bid > 0 /\ snap.ask > 0 THEN <<snap.bid, snap.ask>>
                                                    ELSE prev.mid
  BY DEF Update
<1>3. snap \in SnapshotType
  <2>1. /\ (IF ev.bid THEN n + 1 ELSE prev.bid) \in Nat
        /\ (IF ev.ask THEN n + 1 ELSE prev.ask) \in Nat
        /\ (IF ev.last THEN n + 1 ELSE prev.last) \in Nat
        /\ prev.volume + (IF ev.volume THEN 1 ELSE 0) \in Nat
    BY <1>1
  <2> QED
    BY <1>1, <2>1 DEF Update, SnapshotType
<1>4. /\ ev.bid <=> Carries(n + 1, "bid")
      /\ ev.ask <=> Carries(n + 1, "ask")
      /\ ev.last <=> Carries(n + 1, "last")
  BY DEF Carries
<1>5. IsLatest(snap.bid, n + 1, "bid")
  <2>1. IsLatest(IF Carries(n + 1, "bid") THEN n + 1 ELSE prev.bid, n + 1, "bid")
    BY <1>1, LatestAfterOneMore DEF IsMerge
  <2> QED
    BY <1>2, <1>4, <2>1
<1>6. IsLatest(snap.ask, n + 1, "ask")
  <2>1. IsLatest(IF Carries(n + 1, "ask") THEN n + 1 ELSE prev.ask, n + 1, "ask")
    BY <1>1, LatestAfterOneMore DEF IsMerge
  <2> QED
    BY <1>2, <1>4, <2>1
<1>7. IsLatest(snap.last, n + 1, "last")
  <2>1. IsLatest(IF Carries(n + 1, "last") THEN n + 1 ELSE prev.last, n + 1, "last")
    BY <1>1, LatestAfterOneMore DEF IsMerge
  <2> QED
    BY <1>2, <1>4, <2>1
<1>8. snap.mid = IF TwoSided(snap) THEN <<snap.bid, snap.ask>> ELSE <<0, 0>>
  <2>1. ~TwoSided(snap) => ~TwoSided(prev)
    BY <1>1, <1>2 DEF TwoSided
  <2> QED
    BY <1>2, <2>1 DEF IsMerge, TwoSided
<1> QED
  BY <1>3, <1>5, <1>6, <1>7, <1>8 DEF IsMerge

(* What the engine has not seen does not change what it has merged.        *)
LEMMA MergesSurviveArrivals ==
    ASSUME MarketDataTypeOK, EventsInOrder, SnapshotsAreMerges,
           NEW msg \in Messages, events' = Append(events, msg),
           UNCHANGED <<snapshots, topicOf>>
    PROVE  SnapshotsAreMerges'
<1>1. Sent \in Nat /\ Len(events) \in Nat /\ Sent <= Len(events)
  <2>1. topicOf \in Seq(Topics) /\ InFlight \in Seq(Nat) /\ events \in Seq(Messages)
    <3>1. topicOf \in Seq(Topics) /\ events \in Seq(Messages)
      BY DEF MarketDataTypeOK, ChannelTypeOK, PipelineTypeOK
    <3>2. feedCh \in Seq(Nat) /\ tee \in Nat
      BY DEF MarketDataTypeOK, PipelineTypeOK
    <3>3. Append(feedCh, tee) \in Seq(Nat)
      BY <3>2
    <3> QED
      BY <3>1, <3>2, <3>3 DEF InFlight
  <2>2. Len(topicOf) \in Nat /\ Len(InFlight) \in Nat /\ Len(events) \in Nat
    BY <2>1
  <2>3. Len(events) = Len(topicOf) + Len(InFlight)
    BY DEF EventsInOrder, Sent
  <2>4. \A x, y, z \in Nat : z = x + y => x <= z
    OBVIOUS
  <2> QED
    BY <2>2, <2>3, <2>4, Zenon DEF Sent
<1>2. \A k \in 1 .. Sent : events'[k] = events[k]
  <2>1. events \in Seq(Messages)
    BY DEF MarketDataTypeOK, PipelineTypeOK
  <2>2. \A k \in 1 .. Len(events) : Append(events, msg)[k] = events[k]
    BY <2>1
  <2> QED
    BY <1>1, <2>2
<1>3. \A n \in 1 .. Sent : IsMerge(snapshots[n], n)'
  <2> SUFFICES ASSUME NEW n \in 1 .. Sent
               PROVE  IsMerge(snapshots[n], n)'
    OBVIOUS
  <2>1. ASSUME NEW part, NEW value, IsLatest(value, n, part)
        PROVE  IsLatest(value, n, part)'
    <3>1. \A k \in 1 .. n : Carries(k, part)' <=> Carries(k, part)
      BY <1>1, <1>2 DEF Carries
    <3>2. value \in 1 .. n => \A k \in value + 1 .. n : k \in 1 .. n
      BY <1>1
    <3> QED
      BY <2>1, <3>1, <3>2 DEF IsLatest
  <2>2. /\ IsLatest(snapshots[n].bid, n, "bid")
        /\ IsLatest(snapshots[n].ask, n, "ask")
        /\ IsLatest(snapshots[n].last, n, "last")
        /\ snapshots[n].mid = IF TwoSided(snapshots[n])
                              THEN <<snapshots[n].bid, snapshots[n].ask>> ELSE <<0, 0>>
    BY DEF SnapshotsAreMerges, IsMerge
  <2>3. /\ IsLatest(snapshots[n].bid, n, "bid")'
        /\ IsLatest(snapshots[n].ask, n, "ask")'
        /\ IsLatest(snapshots[n].last, n, "last")'
    BY <2>1, <2>2
  <2>4. (snapshots[n].mid = IF TwoSided(snapshots[n])
                            THEN <<snapshots[n].bid, snapshots[n].ask>> ELSE <<0, 0>>)'
    BY <2>2 DEF TwoSided
  <2> QED
    BY <2>3, <2>4 DEF IsMerge
<1> QED
  BY <1>3 DEF SnapshotsAreMerges, Sent

(* The types of the pipeline.                                              *)
LEMMA PipelineTypes ==
    ASSUME PipelineTypeOK
    PROVE  /\ raw \in Seq(Messages) /\ events \in Seq(Messages)
           /\ feedCh \in Seq(Nat) /\ tee \in Nat /\ lost \in Nat
           /\ snapshots \in Seq(SnapshotType)
           /\ Len(events) \in Nat /\ Len(feedCh) \in Nat /\ Len(snapshots) \in Nat
           /\ InFlight \in Seq(Nat)
           /\ Len(InFlight) = IF tee > 0 THEN Len(feedCh) + 1 ELSE Len(feedCh)
<1>1. /\ raw \in Seq(Messages) /\ events \in Seq(Messages)
      /\ feedCh \in Seq(Nat) /\ tee \in Nat /\ lost \in Nat
      /\ snapshots \in Seq(SnapshotType)
  BY DEF PipelineTypeOK
<1>2. /\ Append(feedCh, tee) \in Seq(Nat) /\ Len(Append(feedCh, tee)) = Len(feedCh) + 1
      /\ Len(events) \in Nat /\ Len(feedCh) \in Nat /\ Len(snapshots) \in Nat
  BY <1>1
<1> QED
  BY <1>1, <1>2 DEF InFlight

(* Taking the head of a sequence commutes with appending to it.            *)
LEMMA TailOfAppend ==
    ASSUME NEW q \in Seq(Nat), q # <<>>, NEW e \in Nat
    PROVE  Tail(Append(q, e)) = Append(Tail(q), e)
<1> DEFINE left == Tail(Append(q, e))
           right == Append(Tail(q), e)
<1>1. left \in Seq(Nat) /\ right \in Seq(Nat) /\ Len(left) = Len(q) /\ Len(right) = Len(q)
  OBVIOUS
<1>2. ASSUME NEW i \in 1 .. Len(q)
      PROVE  left[i] = right[i]
  <2>1. CASE i = Len(q)
    BY <2>1
  <2>2. CASE i # Len(q)
    BY <2>2
  <2> QED
    BY <2>1, <2>2
<1> HIDE DEF left, right
<1>3. left = right
  BY <1>1, <1>2, SeqEqual
<1> QED
  BY <1>3 DEF left, right

(* What is in flight, after each step of the pipeline.                     *)
LEMMA RecordingStep ==
    ASSUME PipelineTypeOK, topicOf \in Seq(Topics), EventsInOrder,
           [DataNext]_dataVars
    PROVE  EventsInOrder'
<1>1. /\ raw \in Seq(Messages) /\ events \in Seq(Messages)
      /\ feedCh \in Seq(Nat) /\ tee \in Nat /\ InFlight \in Seq(Nat)
      /\ Len(events) \in Nat /\ Len(feedCh) \in Nat /\ Len(topicOf) \in Nat
      /\ Len(InFlight) \in Nat
  BY PipelineTypes
<1>2. /\ Len(events) = Len(topicOf) + Len(InFlight)
      /\ \A i \in DOMAIN InFlight : InFlight[i] = Len(topicOf) + i
  BY DEF EventsInOrder, Sent
<1>3. CASE Record
  <2>1. /\ topicOf' = topicOf /\ feedCh' = feedCh
        /\ raw # <<>> /\ tee = 0
        /\ events' = Append(events, Head(raw))
        /\ tee' = Len(events')
    BY <1>3 DEF Record, channelVars
  <2>2. Len(events') = Len(events) + 1
    BY <1>1, <2>1
  <2>3. /\ InFlight = feedCh
        /\ InFlight' = Append(feedCh, Len(events) + 1)
    BY <1>1, <2>1, <2>2 DEF InFlight
  <2>4. /\ Len(InFlight') = Len(feedCh) + 1
        /\ \A i \in DOMAIN InFlight' :
              InFlight'[i] = IF i = Len(feedCh) + 1 THEN Len(events) + 1 ELSE feedCh[i]
        /\ \A i \in DOMAIN InFlight' : i = Len(feedCh) + 1 \/ i \in DOMAIN feedCh
    BY <1>1, <2>3
  <2>5. \A i \in DOMAIN InFlight' : InFlight'[i] = Len(topicOf) + i
    <3>1. Len(events) + 1 = Len(topicOf) + (Len(feedCh) + 1)
      BY <1>1, <1>2, <2>3
    <3> QED
      BY <1>2, <2>3, <2>4, <3>1
  <2> QED
    BY <1>1, <1>2, <2>1, <2>2, <2>3, <2>4, <2>5 DEF EventsInOrder, Sent
<1>4. CASE Forward
  <2>1. /\ UNCHANGED <<topicOf, events>>
        /\ tee > 0 /\ feedCh' = Append(feedCh, tee) /\ tee' = 0
    BY <1>4 DEF Forward, channelVars
  <2>2. InFlight' = InFlight
    BY <2>1 DEF InFlight
  <2> QED
    BY <2>1, <2>2 DEF EventsInOrder, Sent
<1>5. CASE EngineTakes
  <2>1. /\ UNCHANGED <<events, tee>>
        /\ feedCh # <<>> /\ feedCh' = Tail(feedCh)
        /\ topicOf' = Append(topicOf, "market")
    BY <1>5 DEF EngineTakes, Send
  <2>2. InFlight # <<>> /\ InFlight' = Tail(InFlight)
    <3>1. CASE tee > 0
      <4>1. InFlight = Append(feedCh, tee) /\ InFlight' = Append(Tail(feedCh), tee)
        BY <2>1, <3>1 DEF InFlight
      <4>2. Append(feedCh, tee) # <<>>
        <5>1. Len(Append(feedCh, tee)) = Len(feedCh) + 1 /\ Len(feedCh) + 1 # 0
          BY <1>1
        <5>2. Len(<<>>) = 0
          OBVIOUS
        <5> QED
          BY <5>1, <5>2, Zenon
      <4>3. Tail(Append(feedCh, tee)) = Append(Tail(feedCh), tee)
        <5>1. feedCh \in Seq(Nat) /\ feedCh # <<>> /\ tee \in Nat
          BY <1>1, <2>1
        <5> QED
          BY <5>1, TailOfAppend, Zenon
      <4> QED
        BY <4>1, <4>2, <4>3
    <3>2. CASE ~(tee > 0)
      BY <2>1, <3>2 DEF InFlight
    <3> QED
      BY <3>1, <3>2
  <2>3. /\ Len(Tail(InFlight)) = Len(InFlight) - 1
        /\ \A i \in DOMAIN Tail(InFlight) :
              i \in Nat /\ i + 1 \in DOMAIN InFlight /\ Tail(InFlight)[i] = InFlight[i + 1]
    BY <1>1, <2>2
  <2>4. Len(topicOf') = Len(topicOf) + 1
    BY <2>1
  <2>5. \A i \in DOMAIN Tail(InFlight) : Tail(InFlight)[i] = Len(topicOf) + 1 + i
    BY <1>1, <1>2, <2>3
  <2>6. Len(events) = (Len(topicOf) + 1) + (Len(InFlight) - 1)
    BY <1>1, <1>2
  <2>7. \A i \in DOMAIN InFlight' : InFlight'[i] = Len(topicOf') + i
    BY <2>2, <2>4, <2>5
  <2>8. Len(events') = Len(topicOf') + Len(InFlight')
    BY <2>1, <2>2, <2>3, <2>4, <2>6
  <2> QED
    BY <2>7, <2>8 DEF EventsInOrder, Sent
<1>6. CASE UNCHANGED <<events, tee, feedCh, topicOf>>
  BY <1>6 DEF EventsInOrder, InFlight, Sent
<1> QED
  BY <1>3, <1>4, <1>5, <1>6 DEF DataNext, ApplyCommand, Recorder, EngineStep, PriceLoop, Teardown,
     Route, EngineDrains, EngineRetries, EngineEnds, PriceArrives, StoreQuote, Buy,
     DeleteEntry, CancelStack, UnsubscribeFeed, PriceSale, SignSale,
     dataVars, feedVars, routeVars, fileVars, channelVars, Drain, Retry, Receive

(* A sequence that agrees with the start of another still does when that   *)
(* one grows, and, when it is the whole of it, when both grow alike.       *)
LEMMA GrowsPast ==
    ASSUME NEW S, NEW r \in Seq(S), NEW e \in Seq(S), NEW x \in S,
           Len(r) <= Len(e), \A i \in DOMAIN r : r[i] = e[i]
    PROVE  /\ Len(r) <= Len(Append(e, x))
           /\ \A i \in DOMAIN r : r[i] = Append(e, x)[i]
<1>1. /\ Len(r) \in Nat /\ Len(e) \in Nat /\ DOMAIN r = 1 .. Len(r)
      /\ Len(Append(e, x)) = Len(e) + 1
  OBVIOUS
<1>2. ASSUME NEW i \in DOMAIN r PROVE r[i] = Append(e, x)[i]
  <2>1. i \in 1 .. Len(e)
    BY <1>1
  <2>2. Append(e, x)[i] = e[i]
    BY <2>1
  <2>. QED
    BY <2>2
<1>. QED
  BY <1>1, <1>2

LEMMA GrowAlike ==
    ASSUME NEW S, NEW r \in Seq(S), NEW e \in Seq(S), NEW x \in S,
           Len(r) = Len(e), \A i \in DOMAIN r : r[i] = e[i]
    PROVE  /\ Len(Append(r, x)) = Len(Append(e, x))
           /\ \A i \in DOMAIN Append(r, x) : Append(r, x)[i] = Append(e, x)[i]
<1>1. /\ Len(r) \in Nat /\ Len(e) \in Nat /\ DOMAIN r = 1 .. Len(r)
      /\ Len(Append(e, x)) = Len(e) + 1 /\ Len(Append(r, x)) = Len(r) + 1
      /\ DOMAIN Append(r, x) = 1 .. Len(r) + 1
  OBVIOUS
<1>2. ASSUME NEW i \in DOMAIN Append(r, x) PROVE Append(r, x)[i] = Append(e, x)[i]
  <2>1. CASE i = Len(r) + 1
    <3>1. Append(r, x)[i] = x
      BY <2>1
    <3>2. Append(e, x)[i] = x
      BY <2>1
    <3>. QED
      BY <3>1, <3>2
  <2>2. CASE i # Len(r) + 1
    <3>1. i \in 1 .. Len(r) /\ i \in 1 .. Len(e) /\ i \in DOMAIN r
      BY <1>1, <2>2
    <3>2. Append(r, x)[i] = r[i]
      BY <3>1
    <3>3. Append(e, x)[i] = e[i]
      BY <3>1
    <3>. QED
      BY <3>1, <3>2, <3>3
  <2>. QED
    BY <2>1, <2>2
<1>. QED
  BY <1>1, <1>2

(* The file follows the events until a write fails.                        *)
LEMMA FileStep ==
    ASSUME PipelineTypeOK, FileHasNoGap, [DataNext]_dataVars
    PROVE  FileHasNoGap'
<1>1. events \in Seq(Messages) /\ recording \in Seq(Messages) /\ raw \in Seq(Messages)
  BY DEF PipelineTypeOK
<1>2. CASE Record
  <2>. DEFINE ev == Head(raw)
  <2>1. ev \in Messages /\ events' = Append(events, ev)
    BY <1>1, <1>2 DEF Record
  <2>2. /\ Len(recording) <= Len(events) /\ (writable => Len(recording) = Len(events))
        /\ \A i \in DOMAIN recording : recording[i] = events[i]
    BY DEF FileHasNoGap
  <2>3. \/ writable /\ recording' = Append(recording, ev) /\ writable' = writable
        \/ writable' = FALSE /\ recording' = recording
    BY <1>2 DEF Record
  <2>. HIDE DEF ev
  <2>4. CASE writable /\ recording' = Append(recording, ev) /\ writable' = writable
    <3>1. Len(recording) = Len(events)
      BY <2>2, <2>4
    <3>2. /\ Len(Append(recording, ev)) = Len(Append(events, ev))
          /\ \A i \in DOMAIN Append(recording, ev) :
                 Append(recording, ev)[i] = Append(events, ev)[i]
      BY <1>1, <2>1, <2>2, <3>1, GrowAlike
    <3>3. Len(Append(recording, ev)) \in Nat
      BY <1>1, <2>1
    <3>4. /\ Len(recording') = Len(events') /\ Len(recording') \in Nat
          /\ \A i \in DOMAIN recording' : recording'[i] = events'[i]
      BY <2>1, <2>4, <3>2, <3>3, Zenon
    <3>. QED
      BY <3>4 DEF FileHasNoGap
  <2>5. CASE writable' = FALSE /\ recording' = recording
    <3>1. /\ Len(recording) <= Len(Append(events, ev))
          /\ \A i \in DOMAIN recording : recording[i] = Append(events, ev)[i]
      BY <1>1, <2>1, <2>2, GrowsPast
    <3>2. /\ Len(recording') <= Len(events')
          /\ \A i \in DOMAIN recording' : recording'[i] = events'[i]
      BY <2>1, <2>5, <3>1, Zenon
    <3>. QED
      BY <2>5, <3>2 DEF FileHasNoGap
  <2>. QED
    BY <2>3, <2>4, <2>5
<1>3. CASE UNCHANGED <<events, recording, writable>>
  BY <1>3 DEF FileHasNoGap
<1>. QED
  BY <1>2, <1>3 DEF DataNext, ApplyCommand, Recorder, Forward, EngineStep, PriceLoop, Teardown,
     Route, EngineTakes, EngineDrains, EngineRetries, EngineEnds, PriceArrives, StoreQuote, Buy,
     DeleteEntry, CancelStack, UnsubscribeFeed, PriceSale, SignSale,
     dataVars, feedVars, routeVars, fileVars

LEMMA AppendedIs ==
    ASSUME NEW S, NEW s \in Seq(S), NEW x \in S
    PROVE  \A i \in DOMAIN Append(s, x) :
               Append(s, x)[i] = x \/ (i \in DOMAIN s /\ Append(s, x)[i] = s[i])
  OBVIOUS

LEMMA OnlyYesStep ==
    ASSUME PipelineTypeOK, OnlyYes, [DataNext]_dataVars
    PROVE  OnlyYes'
<1>1. raw \in Seq(Messages) /\ events \in Seq(Messages)
  BY DEF PipelineTypeOK
<1>2. ASSUME NEW msg \in Messages, Route(msg)
      PROVE  OnlyYes'
  <2>1. raw' \in {raw, Append(raw, msg)} /\ events' = events /\ msg.token = "yes"
    BY <1>2 DEF Route
  <2>2. CASE raw' = raw
    BY <2>1, <2>2 DEF OnlyYes
  <2>3. CASE raw' = Append(raw, msg)
    <3>1. \A i \in DOMAIN raw' : raw'[i] = msg \/ (i \in DOMAIN raw /\ raw'[i] = raw[i])
      BY <1>1, <2>3, AppendedIs
    <3> QED
      BY <2>1, <3>1 DEF OnlyYes
  <2> QED
    BY <2>1, <2>2, <2>3
<1>3. CASE Record
  <2>1. raw # <<>> /\ raw' = Tail(raw) /\ events' = Append(events, Head(raw))
    BY <1>3 DEF Record
  <2> QED
    BY <1>1, <2>1 DEF OnlyYes
<1>4. CASE UNCHANGED <<raw, events>>
  BY <1>4 DEF OnlyYes
<1> QED
  BY <1>2, <1>3, <1>4 DEF DataNext, ApplyCommand, Recorder, Forward, EngineStep, PriceLoop,
     Teardown,
     EngineTakes, EngineDrains, EngineRetries, EngineEnds, PriceArrives, StoreQuote, Buy,
     DeleteEntry, CancelStack, UnsubscribeFeed, PriceSale, SignSale, dataVars, feedVars,
     routeVars, fileVars

LEMMA MergesStep ==
    ASSUME MarketDataTypeOK, EventsInOrder, OnlyYes, SnapshotsAreMerges,
           [DataNext]_dataVars
    PROVE  SnapshotsAreMerges' /\ snapshots' \in Seq(SnapshotType)
<1>1. /\ events \in Seq(Messages) /\ snapshots \in Seq(SnapshotType)
      /\ feedCh \in Seq(Nat) /\ tee \in Nat /\ InFlight \in Seq(Nat)
      /\ Len(events) \in Nat /\ Len(InFlight) \in Nat
  BY PipelineTypes DEF MarketDataTypeOK
<1>2. topicOf \in Seq(Topics) /\ Len(topicOf) \in Nat
  BY DEF MarketDataTypeOK, ChannelTypeOK
<1>3. /\ Len(snapshots) = Len(topicOf)
      /\ \A n \in 1 .. Len(topicOf) : IsMerge(snapshots[n], n)
  BY DEF SnapshotsAreMerges, Sent
<1>4. CASE Record
  <2>1. /\ raw # <<>> /\ events' = Append(events, Head(raw))
        /\ UNCHANGED <<snapshots, topicOf>>
    BY <1>4 DEF Record, channelVars
  <2>2. Head(raw) \in Messages
    BY <2>1 DEF MarketDataTypeOK, PipelineTypeOK
  <2> QED
    BY <1>1, <2>1, <2>2, MergesSurviveArrivals
<1>5. CASE EngineTakes
  <2>1. /\ events' = events
        /\ feedCh # <<>>
        /\ topicOf' = Append(topicOf, "market")
        /\ snapshots' = Append(snapshots, Update(Current, Len(topicOf) + 1,
                                                 Event(events[Head(feedCh)])))
    BY <1>5 DEF EngineTakes, Send, Sent
  <2>2. Head(feedCh) = Len(topicOf) + 1 /\ events[Len(topicOf) + 1].token = "yes"
    <3>1. 1 \in DOMAIN InFlight /\ InFlight[1] = Head(feedCh)
      <4>1. /\ 1 \in DOMAIN feedCh /\ feedCh[1] = Head(feedCh)
            /\ 1 \in DOMAIN Append(feedCh, tee) /\ Append(feedCh, tee)[1] = Head(feedCh)
        BY <1>1, <2>1
      <4> QED
        BY <4>1 DEF InFlight
    <3>2. Head(feedCh) = Len(topicOf) + 1
      BY <3>1 DEF EventsInOrder, Sent
    <3>3. Len(topicOf) + 1 \in DOMAIN events
      <4>1. Len(events) = Len(topicOf) + Len(InFlight) /\ Len(InFlight) >= 1
        BY <1>1, <3>1 DEF EventsInOrder, Sent
      <4> QED
        BY <1>1, <1>2, <4>1
    <3> QED
      BY <3>2, <3>3 DEF OnlyYes
  <2>3. Current \in SnapshotType /\ IsMerge(Current, Len(topicOf))
    <3>1. CASE snapshots = <<>>
      <4>1. Len(topicOf) = 0 /\ Current = NoSnapshot
        BY <1>3, <3>1 DEF Current
      <4>2. NoSnapshot \in SnapshotType /\ ~TwoSided(NoSnapshot)
        BY DEF NoSnapshot, SnapshotType, TwoSided
      <4>3. \A part : IsLatest(0, 0, part)
        BY DEF IsLatest
      <4>4. /\ NoSnapshot.bid = 0 /\ NoSnapshot.ask = 0 /\ NoSnapshot.last = 0
            /\ NoSnapshot.mid = <<0, 0>>
        BY DEF NoSnapshot
      <4> QED
        BY <4>1, <4>2, <4>3, <4>4 DEF IsMerge
    <3>2. CASE snapshots # <<>>
      <4>1. Len(snapshots) \in 1 .. Len(topicOf) /\ Current = snapshots[Len(snapshots)]
        BY <1>1, <1>2, <1>3, <3>2 DEF Current
      <4> QED
        BY <1>1, <1>3, <4>1
    <3> QED
      BY <3>1, <3>2
  <2> DEFINE snap == Update(Current, Len(topicOf) + 1, Event(events[Len(topicOf) + 1]))
  <2>4. snap \in SnapshotType /\ IsMerge(snap, Len(topicOf) + 1)
    BY <1>2, <2>2, <2>3, UpdateMerges
  <2>5. snapshots' = Append(snapshots, snap)
    BY <2>1, <2>2
  <2> HIDE DEF snap
  <2>6. /\ snapshots' \in Seq(SnapshotType)
        /\ Len(snapshots') = Len(topicOf) + 1
        /\ \A n \in 1 .. Len(topicOf) : snapshots'[n] = snapshots[n]
        /\ snapshots'[Len(topicOf) + 1] = snap
    BY <1>1, <1>2, <1>3, <2>4, <2>5
  <2>7. \A n \in 1 .. Len(topicOf) + 1 : IsMerge(snapshots'[n], n)
    <3>1. \A n \in 1 .. Len(topicOf) + 1 : n \in 1 .. Len(topicOf) \/ n = Len(topicOf) + 1
      BY <1>2
    <3> QED
      BY <1>3, <2>4, <2>6, <3>1, Zenon
  <2>8. Len(topicOf') = Len(topicOf) + 1
    BY <1>2, <2>1
  <2>9. \A n \in 1 .. Len(topicOf) + 1 : IsMerge(snapshots[n], n)'
    <3>1. \A value, n, part : IsLatest(value, n, part)' <=> IsLatest(value, n, part)
      BY <2>1 DEF IsLatest, Carries
    <3> QED
      BY <2>7, <3>1 DEF IsMerge, TwoSided
  <2> QED
    BY <2>6, <2>8, <2>9 DEF SnapshotsAreMerges, Sent
<1>6. CASE UNCHANGED <<events, snapshots, topicOf>>
  <2>1. \A value, n, part : IsLatest(value, n, part)' <=> IsLatest(value, n, part)
    BY <1>6 DEF IsLatest, Carries
  <2>2. \A n : IsMerge(snapshots[n], n)' <=> IsMerge(snapshots[n], n)
    BY <1>6, <2>1 DEF IsMerge, TwoSided
  <2> QED
    BY <1>1, <1>6, <2>2 DEF SnapshotsAreMerges, Sent
<1> QED
  BY <1>4, <1>5, <1>6 DEF DataNext, ApplyCommand, Recorder, EngineStep, PriceLoop, Teardown,
     Route, Forward, EngineDrains, EngineRetries, EngineEnds, PriceArrives, StoreQuote, Buy,
     DeleteEntry, CancelStack, UnsubscribeFeed, PriceSale, SignSale,
     dataVars, feedVars, routeVars, fileVars, channelVars, Drain, Retry, Receive

LEMMA PipelineTypeStep ==
    ASSUME PipelineTypeOK, snapshots' \in Seq(SnapshotType), [DataNext]_dataVars
    PROVE  PipelineTypeOK'
<1>1. /\ raw \in Seq(Messages) /\ events \in Seq(Messages) /\ feedCh \in Seq(Nat)
      /\ recording \in Seq(Messages) /\ writable \in BOOLEAN
      /\ tee \in Nat /\ lost \in Nat
      /\ Len(raw) <= RawCapacity /\ Len(feedCh) <= FeedCapacity
  BY DEF PipelineTypeOK
<1>2. ASSUME NEW msg \in Messages, Route(msg)
      PROVE  PipelineTypeOK'
  <2>1. /\ UNCHANGED <<events, recording, writable, tee, feedCh>>
        /\ \/ raw' = Append(raw, msg) /\ Len(raw) < RawCapacity /\ lost' = lost
           \/ raw' = raw /\ lost' = lost + 1
    BY <1>2 DEF Route, fileVars
  <2>2. raw' \in Seq(Messages) /\ Len(raw') <= RawCapacity /\ lost' \in Nat
    <3>1. CASE raw' = Append(raw, msg) /\ Len(raw) < RawCapacity /\ lost' = lost
      BY <1>1, <3>1
    <3>2. CASE raw' = raw /\ lost' = lost + 1
      BY <1>1, <3>2
    <3> QED
      BY <2>1, <3>1, <3>2
  <2> QED
    BY <1>1, <2>1, <2>2 DEF PipelineTypeOK
<1>3. CASE Record
  <2>1. /\ UNCHANGED <<lost, feedCh>>
        /\ raw # <<>> /\ raw' = Tail(raw)
        /\ events' = Append(events, Head(raw)) /\ tee' = Len(events')
        /\ \/ recording' = Append(recording, Head(raw)) /\ writable' = writable
           \/ recording' = recording /\ writable' = FALSE
    BY <1>3, Zenon DEF Record
  <2>2. raw' \in Seq(Messages) /\ Len(raw') <= RawCapacity
    BY <1>1, <2>1
  <2>3. /\ events' \in Seq(Messages) /\ tee' \in Nat
        /\ recording' \in Seq(Messages) /\ writable' \in BOOLEAN
    <3>1. Head(raw) \in Messages
      BY <1>1, <2>1
    <3>2. events' \in Seq(Messages) /\ tee' \in Nat
      BY <1>1, <2>1, <3>1
    <3>3. recording' \in {recording, Append(recording, Head(raw))} /\ writable' \in BOOLEAN
      BY <1>1, <2>1
    <3>4. Append(recording, Head(raw)) \in Seq(Messages)
      BY <1>1, <3>1, AppendProperties, Zenon
    <3> QED
      BY <1>1, <3>2, <3>3, <3>4, Zenon
  <2> QED
    BY <1>1, <2>1, <2>2, <2>3 DEF PipelineTypeOK
<1>4. CASE Forward
  <2>1. /\ UNCHANGED <<raw, lost, events, recording, writable>>
        /\ Len(feedCh) < FeedCapacity /\ feedCh' = Append(feedCh, tee) /\ tee' = 0
    BY <1>4 DEF Forward, fileVars
  <2>2. feedCh' \in Seq(Nat) /\ Len(feedCh') <= FeedCapacity
    BY <1>1, <2>1
  <2> QED
    BY <1>1, <2>1, <2>2 DEF PipelineTypeOK
<1>5. CASE EngineTakes
  <2>1. /\ UNCHANGED <<raw, lost, events, recording, writable, tee>>
        /\ feedCh # <<>> /\ feedCh' = Tail(feedCh)
    BY <1>5 DEF EngineTakes, fileVars
  <2>2. feedCh' \in Seq(Nat) /\ Len(feedCh') <= FeedCapacity
    BY <1>1, <2>1
  <2> QED
    BY <1>1, <2>1, <2>2 DEF PipelineTypeOK
<1>6. CASE UNCHANGED <<raw, lost, events, recording, writable, tee, feedCh>>
  BY <1>1, <1>6 DEF PipelineTypeOK
<1> QED
  BY <1>2, <1>3, <1>4, <1>5, <1>6 DEF DataNext, ApplyCommand, Recorder, EngineStep, PriceLoop,
     Teardown,
     EngineDrains, EngineRetries, EngineEnds, PriceArrives, StoreQuote, Buy,
     DeleteEntry, CancelStack, UnsubscribeFeed, PriceSale, SignSale,
     dataVars, feedVars, routeVars, fileVars

LEMMA MarketTypeStep ==
    ASSUME ChannelTypeOK, MarketTypeOK, [DataNext]_dataVars
    PROVE  MarketTypeOK'
<1> USE DEF MarketTypeOK, NoEntry
<1>0. ASSUME ApplyCommand
      PROVE  MarketTypeOK'
  <2>1. asked \in Seq({"add", "remove"}) /\ asked # <<>>
    BY <1>0 DEF ApplyCommand
  <2>2. asked' \in Seq({"add", "remove"}) /\ routed' \in BOOLEAN
    <3>1. asked' = Tail(asked) /\ routed' = (Head(asked) = "add")
      BY <1>0, Zenon DEF ApplyCommand
    <3>. QED
      BY <2>1, <3>1, HeadTailProperties, Zenon
  <2>3. UNCHANGED marketVars
    BY <1>0 DEF ApplyCommand
  <2>. QED
    BY <2>2, <2>3 DEF marketVars
<1>1. CASE PriceArrives
  <2>1. channel \in Seq(Nat) /\ channel # <<>>
    BY <1>1, Zenon DEF PriceArrives, Receive, ChannelTypeOK
  <2>2. Head(channel) \in Nat
    BY <2>1, HeadTailProperties, Zenon
  <2>3. /\ UNCHANGED <<asked, routed, phase, engineRuns, entry, held, sale>>
        /\ storing' = Head(channel)
    BY <1>1 DEF PriceArrives, feedVars, routeVars
  <2> QED
    BY <2>2, <2>3, Zenon
<1>2. CASE EngineEnds \/ Buy
  <2>1. UNCHANGED <<asked, routed, phase, storing, entry, sale>>
    BY <1>2 DEF EngineEnds, Buy, feedVars, routeVars
  <2>2. engineRuns' \in BOOLEAN /\ held' \in BOOLEAN
    BY <1>2 DEF EngineEnds, Buy
  <2>. QED
    BY <2>1, <2>2
<1>3. CASE StoreQuote
  <2>1. /\ UNCHANGED <<asked, routed, phase, engineRuns, held, sale>>
        /\ storing' = 0 /\ entry' \in {storing, entry}
    BY <1>3 DEF StoreQuote, feedVars, routeVars
  <2> QED
    BY <2>1
<1>4. CASE Teardown
  <2>1. sale' \in [price : {"none", "mid", "half"}, token : {"none", "bought", "market id"}]
    BY <1>4 DEF Teardown, DeleteEntry, CancelStack, UnsubscribeFeed, PriceSale, SignSale, NoSale
  <2>2. routed' = routed /\ asked' \in {asked, Append(asked, "remove")}
    BY <1>4 DEF Teardown, DeleteEntry, CancelStack, UnsubscribeFeed, PriceSale, SignSale,
       feedVars, routeVars
  <2>3. asked' \in Seq({"add", "remove"})
    <3>1. asked \in Seq({"add", "remove"}) /\ "remove" \in {"add", "remove"}
      OBVIOUS
    <3>2. Append(asked, "remove") \in Seq({"add", "remove"})
      BY <3>1, AppendProperties, Zenon
    <3>. QED
      BY <2>2, <3>1, <3>2, Zenon
  <2>4. /\ phase' \in {"live", "deleted", "cancelled", "unsubscribed", "priced", "closed"}
        /\ UNCHANGED <<engineRuns, storing, held>> /\ entry' \in {entry, NoEntry}
    BY <1>4 DEF Teardown, DeleteEntry, CancelStack, UnsubscribeFeed, PriceSale, SignSale
  <2> QED
    BY <2>1, <2>2, <2>3, <2>4
<1>5. CASE UNCHANGED <<routeVars, marketVars>>
  BY <1>5 DEF marketVars, routeVars
<1>6. CASE \E msg \in Messages : Route(msg)
  BY <1>5, <1>6 DEF Route
<1>7. CASE Record \/ Forward \/ EngineTakes
  BY <1>5, <1>7 DEF Record, Forward, EngineTakes
<1>8. CASE EngineDrains \/ EngineRetries
  BY <1>5, <1>8 DEF EngineDrains, EngineRetries, feedVars
<1>9. CASE UNCHANGED dataVars
  BY <1>5, <1>9 DEF dataVars, feedVars
<1> QED
  BY <1>0, <1>1, <1>2, <1>3, <1>4, <1>6, <1>7, <1>8, <1>9, Zenon
     DEF DataNext, Recorder, EngineStep, PriceLoop

LEMMA DataInvHolds == DataSpec => []DataInv
<1>1. DataInit /\ ChannelTypeOK => DataInv
  <2> SUFFICES ASSUME DataInit, ChannelTypeOK PROVE DataInv
    OBVIOUS
  <2>2. PipelineTypeOK
    BY DEF DataInit, PipelineTypeOK
  <2>3. MarketTypeOK
    <3>1. <<"add">> \in Seq({"add", "remove"})
      OBVIOUS
    <3>. QED
      BY <3>1 DEF DataInit, MarketTypeOK, NoEntry, NoSale
  <2>4. EventsInOrder
    BY DEF DataInit, ChannelInit, EventsInOrder, InFlight, Sent
  <2>5. OnlyYes /\ SnapshotsAreMerges /\ FileHasNoGap
    BY DEF DataInit, ChannelInit, OnlyYes, SnapshotsAreMerges, FileHasNoGap, Sent
  <2> QED
    BY <2>2, <2>3, <2>4, <2>5 DEF DataInv, MarketDataTypeOK
<1>2. DataInv /\ [DataNext]_dataVars /\ ChannelTypeOK' => DataInv'
  <2> SUFFICES ASSUME DataInv, [DataNext]_dataVars, ChannelTypeOK'
               PROVE  DataInv'
    OBVIOUS
  <2>1. /\ MarketDataTypeOK /\ ChannelTypeOK /\ PipelineTypeOK /\ MarketTypeOK
        /\ EventsInOrder /\ FileHasNoGap /\ OnlyYes /\ SnapshotsAreMerges
    BY DEF DataInv, MarketDataTypeOK
  <2>2. SnapshotsAreMerges' /\ snapshots' \in Seq(SnapshotType)
    BY <2>1, MergesStep
  <2>3. PipelineTypeOK' /\ MarketTypeOK'
    BY <2>1, <2>2, PipelineTypeStep, MarketTypeStep
  <2>4. OnlyYes' /\ EventsInOrder' /\ FileHasNoGap'
    <3>1. topicOf \in Seq(Topics)
      BY <2>1 DEF ChannelTypeOK
    <3> QED
      BY <2>1, <3>1, OnlyYesStep, RecordingStep, FileStep
  <2> QED
    BY <2>2, <2>3, <2>4 DEF DataInv, MarketDataTypeOK
<1>3. DataSpec => []ChannelTypeOK
  BY PipelineImplementsChannel, ChannelTypeCorrect, PTL
<1> QED
  BY <1>1, <1>2, <1>3, PTL DEF DataSpec

(* Types of the pipeline, for every capacity: MarketDataTypeOK.            *)
THEOREM PipelineTypeCorrect == DataSpec => []MarketDataTypeOK
<1>1. DataInv => MarketDataTypeOK
  BY DEF DataInv
<1> QED
  BY <1>1, DataInvHolds, PTL

(* What the engine has merged, what is on its way to it, the events taken *)
(* agree: EventsInOrder.                                             *)
THEOREM RecordingFollowsTheEngine == DataSpec => []RecordingIsComplete
<1>1. DataInv => RecordingIsComplete
  BY DEF DataInv, RecordingIsComplete
<1> QED
  BY <1>1, DataInvHolds, PTL

(* Every snapshot is the merge of the YES events so far, whatever messages *)
(* the server sends: SnapshotsAreMerges.                                   *)
THEOREM SnapshotsMergeTheEvents == DataSpec => []SnapshotsAreMerges
<1>1. DataInv => SnapshotsAreMerges
  BY DEF DataInv
<1> QED
  BY <1>1, DataInvHolds, PTL
----------------------------------------------------------------------------
(* The shared connection.                                                  *)
Ids == 0 .. MaxRequests
Command == [add : BOOLEAN, market : Markets, id : Ids]
RunPcs == {"dial", "resubscribe", "read", "backoff", "stopped"}
RunSteps == [pc : RunPcs \ {"resubscribe"}, conn : 0 .. Connections, attempt : Nat]
RunWithTokens == [pc : RunPcs, conn : 0 .. Connections, attempt : Nat, tokens : SUBSET Tokens]
TokenLists == Seq(SUBSET Tokens)

HandlerStates == [pc : {"off", "idle", "ended"}]
                 \cup [pc : {"apply"}, cmd : Command]
                 \cup [pc : {"push"}, tokens : SUBSET Tokens]
WriterStates == [pc : {"off", "idle", "report", "ended"}]
                \cup [pc : {"write"}, tokens : SUBSET Tokens]
PingerStates == [pc : {"off", "idle", "write", "report", "ended"}]

(* The type invariant in full: FeedTypeOK with the contents of channels    *)
(* and of what a goroutine holds.                                          *)
RequestTypes ==
    /\ requests \in Ids
    /\ wanted \in [Markets -> Ids]
    /\ commands \in Seq(Command)
    /\ Len(commands) <= CommandCap
RouteTypes ==
    /\ byMkt \in [Markets -> Ids]
    /\ byToken \in [Tokens -> Ids]
RunTypes ==
    /\ run \in RunSteps \cup RunWithTokens
    /\ run.pc \in {"resubscribe", "read"} => run.conn \in Conns
NetworkTypes ==
    /\ up \in BOOLEAN
    /\ deadline \in [Conns -> {"none", "ahead", "past"}]
    /\ server \in [Conns -> SUBSET Tokens]
GoroutineTypes ==
    /\ handler \in [Conns -> HandlerStates]
    /\ writer \in [Conns -> WriterStates]
    /\ pinger \in [Conns -> PingerStates]
ChannelTypes ==
    /\ writeCh \in [Conns -> TokenLists]
    /\ \A c \in Conns : Len(writeCh[c]) <= WriteCap
    /\ writeErr \in [Conns -> BOOLEAN]
FeedTypes == RequestTypes /\ RouteTypes /\ RunTypes /\ NetworkTypes
             /\ GoroutineTypes /\ ChannelTypes

(* A connection that is not yet up has no goroutines; the one that is read *)
(* has a handler and a writer.                                             *)
Begun(c) == c < run.conn \/ (c = run.conn /\ run.pc # "resubscribe")
StartedAt(c) ==
    /\ ~Begun(c) => handler[c] = Off /\ writer[c] = Off /\ writeCh[c] = <<>>
    /\ c = run.conn /\ run.pc = "read" =>
          handler[c].pc \in {"idle", "apply", "push"} /\ writer[c] # Off
Goroutines == \A c \in Conns : StartedAt(c)

(* The handlers of earlier connections take no more commands.              *)
QuietAt(c) == c < run.conn => Harmless(c) \/ handler[c] = Off
OthersQuiet == \A c \in Conns : QuietAt(c)

(* What a market is left with when cmd has been applied.                   *)
Granted(cmd) == IF cmd.add THEN cmd.id ELSE None
NoneQueued(m) == \A i \in 1 .. Len(commands) : commands[i].market # m
Applies(c, m) == handler[c].pc = "apply" /\ handler[c].cmd.market = m
IsLast(i) == \A j \in 1 .. Len(commands) : j > i => commands[j].market # commands[i].market

(* The last command about a market is in the queue, being applied, or has  *)
(* been applied, and leaves what the orchestrator wants.                   *)
LastQueued ==
    \A i \in 1 .. Len(commands) :
        IsLast(i) => wanted[commands[i].market] = Granted(commands[i])
LastTaken ==
    \A m \in Markets : \A c \in Conns :
        NoneQueued(m) /\ Applies(c, m) => wanted[m] = Granted(handler[c].cmd)
LastApplied ==
    \A m \in Markets :
        NoneQueued(m) /\ (\A c \in Conns : ~Applies(c, m)) => byMkt[m] = wanted[m]
TokensAgree ==
    \A m \in Markets : \A t \in TokensOf(m) : byToken[t] = byMkt[m]

(* The last list of tokens made for connection c, wherever it is on its    *)
(* way to the server, has all of tokens.                                   *)
SentOrOnItsWay(c, tokens) ==
    /\ handler[c].pc = "push" => tokens \subseteq handler[c].tokens
    /\ handler[c].pc # "push" /\ writeCh[c] # <<>> =>
          tokens \subseteq writeCh[c][Len(writeCh[c])]
    /\ handler[c].pc # "push" /\ writeCh[c] = <<>> =>
          /\ writer[c].pc = "write" => tokens \subseteq writer[c].tokens
          /\ writer[c] = AtRest => tokens \subseteq server[c]

(* For the connection in use that list has the routing maps' tokens.       *)
Covered ==
    /\ run.pc = "resubscribe" => AllTokenIDs(byToken) \subseteq run.tokens
    /\ run.pc = "read" => SentOrOnItsWay(run.conn, AllTokenIDs(byToken))

RoutesInv == LastQueued /\ LastTaken /\ LastApplied /\ TokensAgree
FeedInv == FeedTypes /\ Goroutines /\ OthersQuiet /\ RoutesInv /\ Covered
----------------------------------------------------------------------------
HIDE DataConfig
HIDE ChannelConfig
HIDE DEF ChannelConfig, DataConfig
USE FeedConfig DEF FeedConfig

LEMMA TailFacts ==
    ASSUME NEW S, NEW s \in Seq(S), s # <<>>
    PROVE  /\ Head(s) \in S
           /\ Tail(s) \in Seq(S)
           /\ Len(Tail(s)) = Len(s) - 1
           /\ Len(s) \in Nat \ {0}
           /\ Head(s) = s[1]
           /\ \A i \in 1 .. Len(Tail(s)) : Tail(s)[i] = s[i + 1]
  OBVIOUS

LEMMA AppendFacts ==
    ASSUME NEW S, NEW s \in Seq(S), NEW x \in S
    PROVE  /\ Append(s, x) \in Seq(S)
           /\ Len(Append(s, x)) = Len(s) + 1
           /\ Len(s) \in Nat
           /\ Append(s, x)[Len(s) + 1] = x
           /\ Append(s, x) # <<>>
           /\ \A i \in 1 .. Len(s) : Append(s, x)[i] = s[i]
  OBVIOUS

(* What a disconnect does to the loop of Run.                              *)
LEMMA DisconnectedRun ==
    ASSUME RunTypes, Disconnected
    PROVE  /\ RunTypes'
           /\ run'.conn = run.conn
           /\ run'.pc \in {"stopped", "backoff"}
<1> DEFINE attempt == run.attempt + 1
           pc == IF MaxRetries > 0 /\ attempt > MaxRetries THEN "stopped" ELSE "backoff"
<1>1. run.attempt \in Nat /\ attempt \in Nat
  BY DEF RunTypes, RunSteps, RunWithTokens
<1>2. run' = [run EXCEPT !.attempt = attempt, !.pc = pc] /\ pc \in {"stopped", "backoff"}
  BY DEF Disconnected
<1> HIDE DEF attempt, pc
<1> QED
  BY <1>1, <1>2 DEF RunTypes, RunSteps, RunWithTokens, RunPcs

(* One step keeps the types.                                               *)
LEMMA TypesStep ==
    ASSUME FeedTypes, [FeedNext]_sharedVars
    PROVE  FeedTypes'
<1> USE DEF FeedTypes
<1>1. ASSUME NEW m \in Markets, NEW add \in BOOLEAN, Request(m, add) PROVE FeedTypes'
  <2>1. requests' \in Ids /\ wanted' \in [Markets -> Ids]
    BY <1>1 DEF Request, RequestTypes, Ids, None
  <2> DEFINE cmd == [add |-> add, market |-> m, id |-> requests']
  <2>2. cmd \in Command
    BY <2>1 DEF Command
  <2>3. commands' \in Seq(Command) /\ Len(commands') <= CommandCap
    <3>1. commands' = Append(commands, cmd) /\ Len(commands) < CommandCap
      BY <1>1 DEF Request
    <3> HIDE DEF cmd
    <3> QED
      BY <2>2, <3>1, AppendFacts DEF RequestTypes
  <2> QED
    BY <1>1, <2>1, <2>3 DEF Request, RequestTypes, RouteTypes, RunTypes, NetworkTypes,
       GoroutineTypes, ChannelTypes, routing, network, channels
<1>2. ASSUME Backoff \/ Dial \/ Resubscribe PROVE FeedTypes'
  <2>1. AllTokenIDs(byToken) \in SUBSET Tokens
    BY DEF AllTokenIDs
  <2>2. RunTypes'
    BY <1>2, <2>1 DEF Backoff, Dial, Resubscribe, RunTypes, RunSteps, RunWithTokens, RunPcs, Conns
  <2>3. NetworkTypes'
    BY <1>2 DEF Backoff, Dial, Resubscribe, NetworkTypes, network, RunTypes, RunSteps, RunWithTokens
  <2>4. GoroutineTypes'
    BY <1>2 DEF Backoff, Dial, Resubscribe, GoroutineTypes, HandlerStates, WriterStates,
       PingerStates, AtRest
  <2> QED
    BY <1>2, <2>2, <2>3, <2>4 DEF Backoff, Dial, Resubscribe, RequestTypes, RouteTypes,
       ChannelTypes, routing, network, channels
<1>3. ASSUME DialFails \/ ResubscribeFails \/ ReadFails \/ WriteErrorSeen \/ ConnectionLost
      PROVE  FeedTypes'
  <2>1. RunTypes'
    BY <1>3, DisconnectedRun DEF DialFails, ResubscribeFails, ReadFails, WriteErrorSeen,
       ConnectionLost, RunTypes
  <2>2. NetworkTypes' /\ ChannelTypes'
    BY <1>3 DEF DialFails, ResubscribeFails, ReadFails, WriteErrorSeen,
       ConnectionLost, NetworkTypes, ChannelTypes, network, channels
  <2> QED
    BY <1>3, <2>1, <2>2 DEF DialFails, ResubscribeFails, ReadFails, WriteErrorSeen,
       ConnectionLost, RequestTypes, RouteTypes, GoroutineTypes, routing
<1>4. ASSUME NEW c \in Conns, TakeCommand(c) PROVE FeedTypes'
  <2>1. Head(commands) \in Command /\ RequestTypes'
    BY <1>4, TailFacts DEF TakeCommand, RequestTypes
  <2>2. GoroutineTypes'
    BY <1>4, <2>1 DEF TakeCommand, GoroutineTypes, HandlerStates
  <2> QED
    BY <1>4, <2>1, <2>2 DEF TakeCommand, RouteTypes, RunTypes, NetworkTypes, ChannelTypes,
       routing, network, channels
<1>5. ASSUME NEW c \in Conns, ApplyAdd(c) \/ ApplyRemove(c) PROVE FeedTypes'
  <2>1. handler[c].cmd \in Command
    BY <1>5 DEF ApplyAdd, ApplyRemove, GoroutineTypes, HandlerStates
  <2>2. RouteTypes'
    <3>1. handler[c].cmd.id \in Ids /\ handler[c].cmd.market \in Markets
      BY <2>1 DEF Command
    <3>2. None \in Ids
      BY DEF None, Ids
    <3>3. CASE ApplyAdd(c)
      BY <3>1, <3>3 DEF ApplyAdd, RouteTypes
    <3>4. CASE ApplyRemove(c)
      <4> DEFINE m == handler[c].cmd.market
      <4>1. byMkt' = [byMkt EXCEPT ![m] = None]
        BY <3>4 DEF ApplyRemove
      <4>2. byToken' = [t \in Tokens |-> IF t \in TokensOf(m) /\ byMkt[m] # None
                                        THEN None ELSE byToken[t]]
        BY <3>4 DEF ApplyRemove
      <4> HIDE DEF m
      <4> QED
        BY <3>2, <4>1, <4>2 DEF RouteTypes
    <3> QED
      BY <1>5, <3>3, <3>4
  <2>3. handler' \in [Conns -> HandlerStates]
    <3>1. AllTokenIDs(byToken') \in SUBSET Tokens
      BY DEF AllTokenIDs
    <3>2. PICK add \in BOOLEAN : ToPush(c, AllTokenIDs(byToken'), add)
      BY <1>5 DEF ApplyAdd, ApplyRemove
    <3> QED
      BY <3>1, <3>2 DEF ToPush, GoroutineTypes, HandlerStates, AtRest
  <2> QED
    BY <1>5, <2>2, <2>3 DEF ApplyAdd, ApplyRemove, RequestTypes, RunTypes, NetworkTypes,
       GoroutineTypes, ChannelTypes, network, channels
<1>6. ASSUME NEW c \in Conns, Push(c) PROVE FeedTypes'
  <2>1. handler[c].tokens \in SUBSET Tokens
    BY <1>6 DEF Push, GoroutineTypes, HandlerStates
  <2>2. writeCh[c] \in TokenLists
    BY DEF ChannelTypes
  <2>3. Append(writeCh[c], handler[c].tokens) \in TokenLists
        /\ Len(Append(writeCh[c], handler[c].tokens)) = Len(writeCh[c]) + 1
        /\ Len(writeCh[c]) \in Nat
    BY <2>1, <2>2, AppendFacts DEF TokenLists
  <2>4. Len(writeCh[c]) < WriteCap
    BY <1>6 DEF Push
  <2>5. ChannelTypes'
    BY <1>6, <2>3, <2>4 DEF Push, ChannelTypes
  <2>6. GoroutineTypes'
    BY <1>6 DEF Push, GoroutineTypes, HandlerStates, AtRest
  <2> QED
    BY <1>6, <2>5, <2>6 DEF Push, RequestTypes, RouteTypes, RunTypes, NetworkTypes,
       routing, network
<1>7. ASSUME NEW c \in Conns, WriteBegins(c) PROVE FeedTypes'
  <2>1. /\ Head(writeCh[c]) \in SUBSET Tokens
        /\ Tail(writeCh[c]) \in TokenLists
        /\ Len(Tail(writeCh[c])) <= WriteCap
    BY <1>7, TailFacts DEF WriteBegins, ChannelTypes, TokenLists
  <2>2. ChannelTypes'
    BY <1>7, <2>1 DEF WriteBegins, ChannelTypes
  <2>3. GoroutineTypes'
    BY <1>7, <2>1 DEF WriteBegins, GoroutineTypes, WriterStates
  <2> QED
    BY <1>7, <2>2, <2>3 DEF WriteBegins, RequestTypes, RouteTypes, RunTypes, NetworkTypes,
       routing, network
<1>8. ASSUME NEW c \in Conns, WriteReturns(c) \/ WriteFails(c) \/ ReportWriteError(c)
      PROVE  FeedTypes'
  <2>1. writer[c].pc = "write" => writer[c].tokens \in SUBSET Tokens
    BY DEF GoroutineTypes, WriterStates
  <2>2. NetworkTypes' /\ ChannelTypes'
    BY <1>8, <2>1 DEF WriteReturns, WriteFails, ReportWriteError, NetworkTypes, ChannelTypes,
       network, channels
  <2>3. GoroutineTypes'
    BY <1>8 DEF WriteReturns, WriteFails, ReportWriteError, GoroutineTypes, WriterStates, AtRest,
       Ended
  <2> QED
    BY <1>8, <2>2, <2>3 DEF WriteReturns, WriteFails, ReportWriteError, RequestTypes,
       RouteTypes, RunTypes, routing, network
<1>9. ASSUME NEW c \in Conns, Keepalive(c) \/ HandlerEnds(c) PROVE FeedTypes'
  <2> USE DEF Keepalive, PingBegins, DeadlinePasses, PingReturns, PingFails, ReportPingError,
      PingerEnds, HandlerEnds
  <2>1. NetworkTypes'
    BY <1>9 DEF NetworkTypes, network
  <2>2. ChannelTypes'
    BY <1>9 DEF ChannelTypes, channels
  <2>3. GoroutineTypes'
    BY <1>9 DEF GoroutineTypes, HandlerStates, PingerStates, AtRest, Ended
  <2> QED
    BY <1>9, <2>1, <2>2, <2>3 DEF RequestTypes, RouteTypes, RunTypes, routing
<1>10. CASE UNCHANGED sharedVars
  BY <1>10 DEF sharedVars, routing, network, channels, RequestTypes, RouteTypes, RunTypes,
     NetworkTypes, GoroutineTypes, ChannelTypes
<1> QED
  BY <1>1, <1>2, <1>3, <1>4, <1>5, <1>6, <1>7, <1>8, <1>9, <1>10
     DEF FeedNext, Connect, Handle, Write, Subscribe, Unsubscribe

LEMMA TypesInit == FeedInit => FeedTypes
<1> SUFFICES ASSUME FeedInit PROVE FeedTypes
  OBVIOUS
<1> USE DEF FeedInit
<1>1. RequestTypes /\ RouteTypes
  BY DEF RequestTypes, RouteTypes, Ids, None
<1>2. RunTypes /\ NetworkTypes
  <2>1. run \in RunSteps
    BY DEF RunSteps, RunPcs
  <2> QED
    BY <2>1 DEF RunTypes, NetworkTypes
<1>3. GoroutineTypes /\ ChannelTypes
  BY DEF GoroutineTypes, ChannelTypes, HandlerStates, WriterStates, PingerStates, Off, TokenLists
<1> QED
  BY <1>1, <1>2, <1>3 DEF FeedTypes

(* The queue of commands and the writers' channels never pass their        *)
(* capacities, requests keep their types through every goroutine that      *)
(* holds one, and the loop of Run its states, whatever dies and however    *)
(* long the handlers of dead connections go on.                            *)
THEOREM FeedTypeCorrect == FeedSpec => []FeedTypeOK
<1>1. FeedTypes => FeedTypeOK
  BY DEF FeedTypes, FeedTypeOK, RequestTypes, RouteTypes, RunTypes, NetworkTypes, GoroutineTypes,
     ChannelTypes, Ids, RunSteps, RunWithTokens, RunPcs, HandlerStates, WriterStates, PingerStates
<1> QED
  BY <1>1, TypesInit, TypesStep, PTL DEF FeedSpec
----------------------------------------------------------------------------
(* What a connection's goroutines need to be there.                        *)
LEMMA ActorBegun ==
    ASSUME Goroutines, NEW c \in Conns,
           \/ handler[c] # Off
           \/ writer[c] # Off
           \/ writeCh[c] # <<>>
    PROVE  Begun(c)
  BY DEF Goroutines, StartedAt

LEMMA GoroutinesStep ==
    ASSUME FeedTypes, Goroutines, [FeedNext]_sharedVars
    PROVE  Goroutines'
<1> SUFFICES ASSUME NEW d \in Conns PROVE StartedAt(d)'
  BY DEF Goroutines
<1> USE DEF StartedAt, Begun
<1>a. StartedAt(d) /\ run.conn \in 0 .. Connections /\ d \in Nat
  BY DEF Goroutines, FeedTypes, RunTypes, RunSteps, RunWithTokens, Conns
<1>1. ASSUME UNCHANGED <<run, handler, writer, writeCh>> PROVE StartedAt(d)'
  BY <1>1, <1>a
<1>2. CASE Backoff
  BY <1>2, <1>a DEF Backoff, channels, FeedTypes, RunTypes, RunSteps, RunWithTokens
<1>3. CASE Dial
  BY <1>3, <1>a DEF Dial, channels
<1>4. CASE Resubscribe
  BY <1>4, <1>a DEF Resubscribe, channels, AtRest, Off, FeedTypes, GoroutineTypes
<1>5. ASSUME Disconnected, UNCHANGED <<handler, writer, writeCh>> PROVE StartedAt(d)'
  BY <1>5, <1>a, DisconnectedRun DEF FeedTypes
<1>6. ASSUME NEW c \in Conns, TakeCommand(c) \/ ApplyAdd(c) \/ ApplyRemove(c) \/ Push(c)
      PROVE  StartedAt(d)'
  <2>b. handler[c] = AtRest \/ handler[c].pc \in {"apply", "push"}
    BY <1>6 DEF TakeCommand, ApplyAdd, ApplyRemove, Push
  <2>a. handler[c] # Off
    BY <2>b DEF Off, AtRest
  <2>1. handler[c] # Off /\ Begun(c)
    BY <2>a, ActorBegun
  <2>2. /\ handler' = [handler EXCEPT ![c] = handler'[c]]
        /\ handler'[c].pc \in {"idle", "apply", "push"}
    BY <1>6 DEF TakeCommand, ApplyAdd, ApplyRemove, Push, ToPush, AtRest, FeedTypes, GoroutineTypes
  <2>3. run' = run /\ writer' = writer /\ (c # d => writeCh'[d] = writeCh[d])
    BY <1>6 DEF TakeCommand, ApplyAdd, ApplyRemove, Push, channels, FeedTypes, ChannelTypes
  <2> QED
    BY <1>a, <2>1, <2>2, <2>3 DEF FeedTypes, GoroutineTypes
<1>7. ASSUME NEW c \in Conns, HandlerEnds(c) PROVE StartedAt(d)'
  BY <1>7, <1>a, ActorBegun DEF HandlerEnds, Cancelled, Off, AtRest, Ended, channels, FeedTypes,
     GoroutineTypes
<1>8. ASSUME NEW c \in Conns, Write(c) PROVE StartedAt(d)'
  <2>1. writer[c] # Off /\ Begun(c)
    BY <1>8, ActorBegun
    DEF Write, WriteBegins, WriteReturns, WriteFails, ReportWriteError, Off, AtRest
  <2>2. /\ writer' = [writer EXCEPT ![c] = writer'[c]]
        /\ writer'[c] # Off
    BY <1>8 DEF Write, WriteBegins, WriteReturns, WriteFails, ReportWriteError, Off, AtRest, Ended,
       FeedTypes, GoroutineTypes
  <2>3. run' = run /\ handler' = handler /\ (c # d => writeCh'[d] = writeCh[d])
    BY <1>8 DEF Write, WriteBegins, WriteReturns, WriteFails, ReportWriteError, channels,
       FeedTypes, ChannelTypes
  <2> QED
    BY <1>a, <2>1, <2>2, <2>3 DEF FeedTypes, GoroutineTypes
<1>9. ASSUME NEW c \in Conns, Keepalive(c) PROVE UNCHANGED <<run, handler, writer, writeCh>>
  BY <1>9 DEF Keepalive, PingBegins, DeadlinePasses, PingReturns, PingFails, ReportPingError,
     PingerEnds, channels
<1>10. ASSUME NEW m \in Markets, Subscribe(m) \/ Unsubscribe(m)
       PROVE  UNCHANGED <<run, handler, writer, writeCh>>
  BY <1>10 DEF Subscribe, Unsubscribe, Request, channels
<1>11. ASSUME DialFails \/ ResubscribeFails \/ ReadFails \/ WriteErrorSeen PROVE StartedAt(d)'
  BY <1>11, <1>5 DEF DialFails, ResubscribeFails, ReadFails, WriteErrorSeen, channels
<1>12. CASE ConnectionLost \/ UNCHANGED sharedVars
  BY <1>12, <1>1 DEF ConnectionLost, channels, sharedVars
<1> QED
  BY <1>1, <1>2, <1>3, <1>4, <1>6, <1>7, <1>8, <1>9, <1>10, <1>11, <1>12
     DEF FeedNext, Connect, Handle

(* The goroutine that has a command, or takes one, or has room for its     *)
(* message, is the handler of the connection in use.                       *)
LEMMA OnlyCurrent ==
    ASSUME FeedTypes, Goroutines, OthersQuiet, NEW c \in Conns,
           \/ handler[c].pc = "apply"
           \/ handler[c] = AtRest
           \/ handler[c].pc = "push" /\ Len(writeCh[c]) < WriteCap
    PROVE  c = run.conn /\ run.pc # "resubscribe"
<1>1. handler[c] # Off /\ ~Harmless(c)
  BY DEF Harmless, Off, AtRest, Ended
<1>2. Begun(c) /\ ~(c < run.conn)
  BY <1>1, ActorBegun DEF OthersQuiet, QuietAt
<1> QED
  BY <1>2 DEF Begun

LEMMA QuietStep ==
    ASSUME StaleEnd, FeedTypes, Goroutines, OthersQuiet, [FeedNext]_sharedVars
    PROVE  OthersQuiet'
<1> SUFFICES ASSUME NEW d \in Conns PROVE QuietAt(d)'
  BY DEF OthersQuiet
<1>a. QuietAt(d) /\ run.conn \in 0 .. Connections /\ d \in Nat \ {0}
  BY DEF OthersQuiet, FeedTypes, RunTypes, RunSteps, RunWithTokens, Conns
<1>1. ASSUME run'.conn = run.conn, UNCHANGED <<handler, writer, writeCh>> PROVE QuietAt(d)'
  BY <1>1, <1>a DEF QuietAt, Harmless
<1>2. CASE Backoff
  BY <1>2, <1>1 DEF Backoff, channels, FeedTypes, RunTypes, RunSteps, RunWithTokens
<1>3. CASE Dial
  <2>1. run'.conn = run.conn + 1 /\ UNCHANGED <<handler, writer, writeCh>>
    BY <1>3 DEF Dial, channels
  <2>2. d \in 1 .. run.conn => Harmless(d) \/ handler[d] = Off
    BY <1>3 DEF Dial
  <2> QED
    BY <1>a, <2>1, <2>2 DEF QuietAt, Harmless
<1>4. CASE Resubscribe
  BY <1>4, <1>a DEF Resubscribe, channels, QuietAt, Harmless, FeedTypes, GoroutineTypes
<1>5. ASSUME Disconnected, UNCHANGED <<handler, writer, writeCh>> PROVE QuietAt(d)'
  BY <1>5, <1>1, DisconnectedRun DEF FeedTypes
<1>6. ASSUME NEW c \in Conns, TakeCommand(c) \/ ApplyAdd(c) \/ ApplyRemove(c) \/ Push(c)
      PROVE  QuietAt(d)'
  <2>1. c = run.conn
    BY <1>6, OnlyCurrent DEF TakeCommand, ApplyAdd, ApplyRemove, Push
  <2>a. run' = run
    BY <1>6 DEF TakeCommand, ApplyAdd, ApplyRemove, Push
  <2>2. CASE d = c
    BY <1>a, <2>a, <2>1, <2>2 DEF QuietAt
  <2>3. CASE d # c
    BY <1>6, <1>a, <2>3 DEF QuietAt, Harmless, TakeCommand, ApplyAdd, ApplyRemove, Push, ToPush,
       channels, FeedTypes, GoroutineTypes, ChannelTypes
  <2> QED
    BY <2>2, <2>3
<1>7. ASSUME NEW c \in Conns, HandlerEnds(c) PROVE QuietAt(d)'
  BY <1>7, <1>a DEF HandlerEnds, QuietAt, Harmless, channels, FeedTypes, GoroutineTypes
<1>8. ASSUME NEW c \in Conns, Write(c) PROVE QuietAt(d)'
  <2>1. run' = run /\ handler' = handler
    BY <1>8 DEF Write, WriteBegins, WriteReturns, WriteFails, ReportWriteError
  <2>2. ASSUME writer[d].pc \in {"report", "ended"}
        PROVE  writer'[d].pc \in {"report", "ended"} /\ writeCh'[d] = writeCh[d]
    BY <1>8, <2>2 DEF Write, WriteBegins, WriteReturns, WriteFails, ReportWriteError, AtRest, Ended,
       channels, FeedTypes, GoroutineTypes, ChannelTypes
  <2> QED
    BY <1>a, <2>1, <2>2 DEF QuietAt, Harmless
<1>9. ASSUME NEW c \in Conns, Keepalive(c) PROVE UNCHANGED <<run, handler, writer, writeCh>>
  BY <1>9 DEF Keepalive, PingBegins, DeadlinePasses, PingReturns, PingFails, ReportPingError,
     PingerEnds, channels
<1>10. ASSUME NEW m \in Markets, Subscribe(m) \/ Unsubscribe(m)
       PROVE  UNCHANGED <<run, handler, writer, writeCh>>
  BY <1>10 DEF Subscribe, Unsubscribe, Request, channels
<1>11. ASSUME DialFails \/ ResubscribeFails \/ ReadFails \/ WriteErrorSeen PROVE QuietAt(d)'
  BY <1>11, <1>5 DEF DialFails, ResubscribeFails, ReadFails, WriteErrorSeen, channels
<1>12. CASE ConnectionLost \/ UNCHANGED sharedVars
  BY <1>12, <1>1 DEF ConnectionLost, channels, sharedVars
<1> QED
  BY <1>1, <1>2, <1>3, <1>4, <1>6, <1>7, <1>8, <1>9, <1>10, <1>11, <1>12
     DEF FeedNext, Connect, Handle
----------------------------------------------------------------------------
(* Steps that touch no command and no route.                               *)
LEMMA RoutesKept ==
    ASSUME RoutesInv, FeedTypes, UNCHANGED <<wanted, commands, byMkt, byToken>>,
           \A c \in Conns : handler[c].pc = "apply" <=> handler'[c].pc = "apply",
           \A c \in Conns : handler[c].pc = "apply" => handler'[c] = handler[c]
    PROVE  RoutesInv'
<1>1. \A c \in Conns, m \in Markets : Applies(c, m) <=> Applies(c, m)'
  BY DEF Applies
<1>2. LastQueued' /\ TokensAgree' /\ \A m \in Markets : NoneQueued(m)' <=> NoneQueued(m)
  BY DEF RoutesInv, LastQueued, TokensAgree, IsLast, NoneQueued
<1>3. LastTaken'
  BY <1>1, <1>2 DEF RoutesInv, LastTaken, Applies
<1>4. LastApplied'
  BY <1>1, <1>2 DEF RoutesInv, LastApplied
<1> QED
  BY <1>2, <1>3, <1>4 DEF RoutesInv

(* A new request is the last one about its market.                         *)
LEMMA RequestRoutes ==
    ASSUME RoutesInv, FeedTypes, NEW m \in Markets, NEW add \in BOOLEAN, Request(m, add)
    PROVE  RoutesInv'
<1> DEFINE cmd == [add |-> add, market |-> m, id |-> requests']
           n == Len(commands)
<1>1. cmd.market = m /\ Granted(cmd) = wanted'[m]
  BY DEF Request, Granted, FeedTypes, RequestTypes
<1>2. cmd \in Command
  BY DEF Request, Command, Ids, FeedTypes, RequestTypes
<1>3. \A k \in Markets : k # m => wanted'[k] = wanted[k]
  BY DEF Request, FeedTypes, RequestTypes
<1>4. commands' = Append(commands, cmd)
  BY DEF Request
<1>5. UNCHANGED <<handler, byMkt, byToken>>
  BY DEF Request, routing
<1>6. commands \in Seq(Command)
  BY DEF FeedTypes, RequestTypes
<1> HIDE DEF cmd
<1>7. /\ Len(commands') = n + 1 /\ n \in Nat
      /\ commands'[n + 1] = cmd
      /\ \A i \in 1 .. n : commands'[i] = commands[i] /\ commands[i].market \in Markets
  <2>1. \A i \in 1 .. n : commands[i] \in Command
    BY <1>6
  <2>2. \A x \in Command : x.market \in Markets
    BY DEF Command
  <2> HIDE DEF n
  <2>3. /\ Len(commands') = Len(commands) + 1 /\ Len(commands) \in Nat
        /\ commands'[Len(commands) + 1] = cmd
        /\ \A i \in 1 .. Len(commands) : commands'[i] = commands[i]
    BY <1>2, <1>4, <1>6, AppendFacts
  <2> QED
    BY <2>1, <2>2, <2>3 DEF n
<1> HIDE DEF n
<1>8. LastQueued'
  <2> SUFFICES ASSUME NEW i \in 1 .. n + 1, IsLast(i)'
               PROVE  wanted'[commands'[i].market] = Granted(commands'[i])
    BY <1>7 DEF LastQueued, Granted
  <2>1. CASE i = n + 1
    BY <1>1, <1>7, <2>1
  <2>2. CASE i \in 1 .. n
    <3>1. commands[i].market # m
      BY <1>1, <1>7, <2>2 DEF IsLast
    <3>2. IsLast(i)
      BY <1>7, <2>2 DEF IsLast, n
    <3> QED
      BY <1>3, <1>7, <2>2, <3>1, <3>2 DEF RoutesInv, LastQueued, n
  <2> QED
    BY <1>7, <2>1, <2>2
<1>9. ASSUME NEW k \in Markets, NoneQueued(k)' PROVE k # m /\ NoneQueued(k)
  BY <1>1, <1>7, <1>9 DEF NoneQueued, n
<1>10. LastTaken'
  BY <1>3, <1>5, <1>9 DEF LastTaken, RoutesInv, Applies, Granted
<1>11. LastApplied'
  BY <1>3, <1>5, <1>9 DEF LastApplied, RoutesInv, Applies
<1> QED
  BY <1>5, <1>8, <1>10, <1>11 DEF RoutesInv, TokensAgree

(* A command passes from the queue to the handler of the connection in     *)
(* use, which had none.                                                    *)
LEMMA TakeRoutes ==
    ASSUME RoutesInv, FeedTypes, Goroutines, OthersQuiet, NEW c \in Conns, TakeCommand(c)
    PROVE  RoutesInv'
<1> DEFINE n == Len(commands)
           h == Head(commands)
<1>1. /\ handler' = [handler EXCEPT ![c] = [pc |-> "apply", cmd |-> h]]
      /\ handler[c] = AtRest
      /\ commands' = Tail(commands) /\ commands # <<>>
      /\ UNCHANGED <<wanted, byMkt, byToken>>
  BY DEF TakeCommand, routing
<1>2. commands \in Seq(Command)
  BY DEF FeedTypes, RequestTypes
<1>3. /\ n \in Nat \ {0} /\ Len(commands') = n - 1
      /\ h = commands[1] /\ h \in Command
      /\ \A i \in 1 .. n - 1 : commands'[i] = commands[i + 1]
  BY <1>1, <1>2, TailFacts
<1>4. ASSUME NEW d \in Conns, NEW k \in Markets PROVE ~Applies(d, k)
  <2>1. c = run.conn
    BY <1>1, OnlyCurrent
  <2> QED
    BY <1>1, <2>1, OnlyCurrent DEF Applies, AtRest
<1>5. \A k \in Markets, d \in Conns : Applies(d, k)' => d = c /\ h.market = k /\ handler'[d].cmd = h
  BY <1>1, <1>4 DEF Applies, FeedTypes, GoroutineTypes
<1>6. \A k \in Markets : h.market = k => Applies(c, k)'
  BY <1>1 DEF Applies, FeedTypes, GoroutineTypes
<1>7. \A k \in Markets : NoneQueued(k)' => \A i \in 2 .. n : commands[i].market # k
  <2> SUFFICES ASSUME NEW k \in Markets, NoneQueued(k)', NEW i \in 2 .. n
               PROVE  commands[i].market # k
    OBVIOUS
  <2>1. i - 1 \in 1 .. n - 1 /\ commands'[i - 1] = commands[i]
    BY <1>3
  <2> QED
    BY <1>3, <2>1 DEF NoneQueued
<1> HIDE DEF h
<1>8. LastQueued'
  <2> SUFFICES ASSUME NEW i \in 1 .. n - 1, IsLast(i)'
               PROVE  wanted[commands'[i].market] = Granted(commands'[i])
    BY <1>1, <1>3 DEF LastQueued, Granted
  <2>1. i + 1 \in 1 .. n /\ commands'[i] = commands[i + 1]
    BY <1>3
  <2>2. IsLast(i + 1)
    <3> SUFFICES ASSUME NEW j \in 1 .. n, j > i + 1
                 PROVE  commands[j].market # commands[i + 1].market
      BY DEF IsLast
    <3>1. j - 1 \in 1 .. n - 1 /\ j - 1 > i /\ commands'[j - 1] = commands[j]
      BY <1>3, <2>1
    <3> QED
      BY <1>3, <2>1, <3>1 DEF IsLast
  <2> QED
    BY <2>1, <2>2 DEF RoutesInv, LastQueued
<1>9. LastTaken'
  <2> SUFFICES ASSUME NEW k \in Markets, NEW d \in Conns, NoneQueued(k)', Applies(d, k)'
               PROVE  wanted[k] = Granted(handler'[d].cmd)
    BY <1>1 DEF LastTaken, Granted
  <2>1. h.market = k /\ handler'[d].cmd = h
    BY <1>5
  <2>2. IsLast(1)
    BY <1>3, <1>7, <2>1 DEF IsLast
  <2> QED
    BY <1>3, <2>1, <2>2 DEF RoutesInv, LastQueued
<1>10. LastApplied'
  <2> SUFFICES ASSUME NEW k \in Markets, NoneQueued(k)', \A d \in Conns : ~Applies(d, k)'
               PROVE  byMkt[k] = wanted[k]
    BY <1>1 DEF LastApplied
  <2>1. h.market # k
    BY <1>6
  <2>2. NoneQueued(k)
    BY <1>3, <1>7, <2>1 DEF NoneQueued
  <2> QED
    BY <1>4, <2>2 DEF RoutesInv, LastApplied
<1> QED
  BY <1>1, <1>8, <1>9, <1>10 DEF RoutesInv, TokensAgree

(* The handler applies its command.                                        *)
LEMMA ApplyRoutes ==
    ASSUME RoutesInv, FeedTypes, Goroutines, OthersQuiet, NEW c \in Conns,
           ApplyAdd(c) \/ ApplyRemove(c)
    PROVE  RoutesInv'
<1> DEFINE cmd == handler[c].cmd
           m == cmd.market
<1>1. /\ handler[c].pc = "apply"
      /\ UNCHANGED <<wanted, commands>>
  BY DEF ApplyAdd, ApplyRemove
<1>2. cmd \in Command
  BY <1>1 DEF FeedTypes, GoroutineTypes, HandlerStates
<1>3. m \in Markets /\ cmd.id \in Ids
  BY <1>2 DEF Command
<1>4. /\ handler'[c].pc # "apply"
      /\ \A d \in Conns : d # c => handler'[d] = handler[d]
  BY DEF ApplyAdd, ApplyRemove, ToPush, AtRest, FeedTypes, GoroutineTypes
<1>5. byMkt' = [byMkt EXCEPT ![m] = Granted(cmd)]
  BY DEF ApplyAdd, ApplyRemove, Granted
<1>6. TokensAgree'
  <2> SUFFICES ASSUME NEW k \in Markets, NEW t \in TokensOf(k)
               PROVE  byToken'[t] = byMkt'[k]
    BY DEF TokensAgree, TokensOf
  <2>1. t \in Tokens /\ (t \in TokensOf(m) <=> k = m) /\ byToken[t] = byMkt[k]
    <3>1. byToken[t] = byMkt[k]
      BY DEF RoutesInv, TokensAgree
    <3>2. t \in Tokens
      BY DEF Tokens, TokensOf
    <3>3. t \in TokensOf(m) <=> k = m
      BY DEF TokensOf
    <3> QED
      BY <3>1, <3>2, <3>3
  <2>2. CASE ApplyAdd(c)
    BY <1>3, <2>1, <2>2 DEF ApplyAdd, FeedTypes, RouteTypes
  <2>3. CASE ApplyRemove(c)
    <3>1. byMkt' = [byMkt EXCEPT ![m] = None]
      BY <2>3 DEF ApplyRemove
    <3>2. byToken' = [x \in Tokens |-> IF x \in TokensOf(m) /\ byMkt[m] # None
                                       THEN None ELSE byToken[x]]
      BY <2>3 DEF ApplyRemove
    <3> HIDE DEF m
    <3> QED
      BY <1>3, <2>1, <3>1, <3>2 DEF FeedTypes, RouteTypes
  <2> QED
    BY <2>2, <2>3
<1>7. \A d \in Conns, k \in Markets : d # c => ~Applies(d, k)
  <2>1. c = run.conn
    BY <1>1, OnlyCurrent
  <2> QED
    BY <2>1, OnlyCurrent DEF Applies
<1>8. \A d \in Conns, k \in Markets : ~Applies(d, k)'
  BY <1>4, <1>7 DEF Applies
<1>9. \A k \in Markets : NoneQueued(k)' <=> NoneQueued(k)
  BY <1>1 DEF NoneQueued
<1>10. LastTaken' /\ LastQueued'
  BY <1>1, <1>8 DEF LastTaken, LastQueued, RoutesInv, IsLast
<1>11. LastApplied'
  <2> SUFFICES ASSUME NEW k \in Markets, NoneQueued(k) PROVE byMkt'[k] = wanted[k]
    BY <1>1, <1>9 DEF LastApplied
  <2>1. CASE k = m
    <3>1. Applies(c, k)
      BY <1>1, <2>1 DEF Applies
    <3>2. wanted[k] = Granted(cmd)
      BY <3>1 DEF RoutesInv, LastTaken
    <3> QED
      BY <1>3, <1>5, <2>1, <3>2 DEF FeedTypes, RouteTypes
  <2>2. CASE k # m
    <3>1. \A d \in Conns : ~Applies(d, k)
      BY <1>7, <2>2 DEF Applies
    <3>2. byMkt[k] = wanted[k]
      BY <3>1 DEF RoutesInv, LastApplied
    <3> QED
      BY <1>5, <2>2, <3>2 DEF FeedTypes, RouteTypes
  <2> QED
    BY <2>1, <2>2
<1> QED
  BY <1>6, <1>10, <1>11 DEF RoutesInv

LEMMA RoutesStep ==
    ASSUME FeedTypes, Goroutines, OthersQuiet, RoutesInv, [FeedNext]_sharedVars
    PROVE  RoutesInv'
<1> USE DEF FeedTypes, GoroutineTypes
<1>1. ASSUME NEW m \in Markets, Subscribe(m) \/ Unsubscribe(m) PROVE RoutesInv'
  BY <1>1, RequestRoutes DEF Subscribe, Unsubscribe
<1>2. ASSUME NEW c \in Conns, TakeCommand(c) \/ ApplyAdd(c) \/ ApplyRemove(c) PROVE RoutesInv'
  BY <1>2, TakeRoutes, ApplyRoutes
<1>3. ASSUME NEW c \in Conns, Push(c) \/ HandlerEnds(c) PROVE RoutesInv'
  BY <1>3, RoutesKept DEF Push, HandlerEnds, AtRest, Ended, routing
<1>4. CASE Resubscribe
  <2>1. run.conn \in Conns /\ handler[run.conn] = Off
    BY <1>4 DEF Resubscribe, Goroutines, StartedAt, Begun, RunTypes, Conns
  <2> QED
    BY <1>4, <2>1, RoutesKept DEF Resubscribe, AtRest, Off, routing
<1>5. ASSUME UNCHANGED <<wanted, commands, byMkt, byToken, handler>> PROVE RoutesInv'
  BY <1>5, RoutesKept
<1>6. ASSUME NEW c \in Conns, Write(c) \/ Keepalive(c) PROVE RoutesInv'
  BY <1>5, <1>6 DEF Write, WriteBegins, WriteReturns, WriteFails, ReportWriteError, Keepalive,
     PingBegins, DeadlinePasses, PingReturns, PingFails, ReportPingError, PingerEnds, routing
<1>7. ASSUME \/ Backoff \/ Dial \/ DialFails \/ ResubscribeFails \/ ReadFails \/ WriteErrorSeen
             \/ ConnectionLost \/ UNCHANGED sharedVars
      PROVE  RoutesInv'
  BY <1>5, <1>7 DEF Backoff, Dial, DialFails, ResubscribeFails, ReadFails, WriteErrorSeen,
     ConnectionLost, sharedVars, routing
<1> QED
  BY <1>1, <1>2, <1>3, <1>4, <1>6, <1>7 DEF FeedNext, Connect, Handle
----------------------------------------------------------------------------
(* Steps that do not touch the routes, nor the goroutines of the           *)
(* connection in use, nor what the server sends on it.                     *)
LEMMA CoveredKept ==
    ASSUME Covered, UNCHANGED <<run, byToken>>,
           handler'[run.conn] = handler[run.conn], writer'[run.conn] = writer[run.conn],
           writeCh'[run.conn] = writeCh[run.conn], server'[run.conn] = server[run.conn]
    PROVE  Covered'
  BY DEF Covered, SentOrOnItsWay, AllTokenIDs

(* The handler of the connection in use makes a list of all routed tokens. *)
LEMMA ApplyCovered ==
    ASSUME FeedTypes, NEW c \in Conns, c = run.conn, run.pc # "resubscribe",
           ApplyAdd(c) \/ ApplyRemove(c)
    PROVE  Covered'
<1>1. run' = run
  BY DEF ApplyAdd, ApplyRemove
<1>2. PICK allTokens : allTokens = AllTokenIDs(byToken')
  OBVIOUS
<1>3. \/ handler'[c] = [pc |-> "push", tokens |-> allTokens]
      \/ handler'[c] = AtRest /\ allTokens = {}
  BY <1>2 DEF ApplyAdd, ApplyRemove, ToPush, FeedTypes, GoroutineTypes
<1>4. AllTokenIDs(byToken)' = allTokens
  BY <1>2 DEF AllTokenIDs
<1>5. SentOrOnItsWay(c, allTokens)'
  BY <1>3 DEF SentOrOnItsWay, AtRest
<1>6. run'.pc = "read" => SentOrOnItsWay(run.conn, AllTokenIDs(byToken))'
  BY <1>1, <1>4, <1>5 DEF SentOrOnItsWay
<1> QED
  BY <1>1, <1>6 DEF Covered

(* A list stays on its way, or arrives, in what the writer does.           *)
LEMMA WriteSent ==
    ASSUME FeedTypes, NEW c \in Conns, NEW allTokens, Write(c), SentOrOnItsWay(c, allTokens)
    PROVE  SentOrOnItsWay(c, allTokens)'
<1>1. handler' = handler
  BY DEF Write, WriteBegins, WriteReturns, WriteFails, ReportWriteError
<1>2. CASE WriteBegins(c)
  <2> DEFINE q == writeCh[c]
  <2>1. /\ q # <<>> /\ q \in TokenLists
        /\ writeCh'[c] = Tail(q)
        /\ writer'[c] = [pc |-> "write", tokens |-> Head(q)]
    BY <1>2 DEF WriteBegins, FeedTypes, ChannelTypes, GoroutineTypes
  <2>2. /\ Len(q) \in Nat \ {0} /\ Len(Tail(q)) = Len(q) - 1 /\ Head(q) = q[1]
        /\ \A i \in 1 .. Len(Tail(q)) : Tail(q)[i] = q[i + 1]
        /\ Tail(q) \in TokenLists
    BY <2>1, TailFacts DEF TokenLists
  <2>3. Tail(q) # <<>> => Tail(q)[Len(Tail(q))] = q[Len(q)]
    BY <2>2 DEF TokenLists
  <2>4. Tail(q) = <<>> => Head(q) = q[Len(q)]
    <3> DEFINE r == Tail(q)
    <3> HIDE DEF r
    <3>1. r = <<>> => Len(r) = 0
      OBVIOUS
    <3> USE DEF r
    <3> HIDE DEF q
    <3> QED
      BY <2>2, <3>1
  <2>5. handler[c].pc # "push" => allTokens \subseteq q[Len(q)]
    BY <2>1 DEF SentOrOnItsWay
  <2>6. handler[c].pc = "push" => allTokens \subseteq handler[c].tokens
    BY DEF SentOrOnItsWay
  <2>7. writer'[c].tokens = Head(q) /\ writer'[c] # AtRest
    BY <2>1 DEF AtRest
  <2> HIDE DEF q
  <2> QED
    BY <1>1, <2>1, <2>3, <2>4, <2>5, <2>6, <2>7 DEF SentOrOnItsWay
<1>3. CASE WriteReturns(c)
  <2>1. /\ writer[c].pc = "write" /\ writer'[c] = AtRest /\ writeCh'[c] = writeCh[c]
        /\ server'[c] = writer[c].tokens
    BY <1>3 DEF WriteReturns, channels, FeedTypes, GoroutineTypes, NetworkTypes
  <2> QED
    BY <1>1, <2>1 DEF SentOrOnItsWay, AtRest
<1>4. CASE WriteFails(c) \/ ReportWriteError(c)
  <2>1. writer'[c].pc \in {"report", "ended"} /\ writeCh'[c] = writeCh[c]
    BY <1>4 DEF WriteFails, ReportWriteError, Ended, channels, FeedTypes, GoroutineTypes
  <2> QED
    BY <1>1, <2>1 DEF SentOrOnItsWay, AtRest
<1> QED
  BY <1>2, <1>3, <1>4 DEF Write

LEMMA WriteCovered ==
    ASSUME FeedTypes, Covered, NEW c \in Conns, c = run.conn, run.pc # "resubscribe", Write(c)
    PROVE  Covered'
<1>1. run' = run /\ byToken' = byToken
  BY DEF Write, WriteBegins, WriteReturns, WriteFails, ReportWriteError, routing
<1>2. PICK allTokens : allTokens = AllTokenIDs(byToken)
  OBVIOUS
<1>3. AllTokenIDs(byToken)' = allTokens
  BY <1>1, <1>2 DEF AllTokenIDs
<1> SUFFICES ASSUME run.pc = "read" PROVE SentOrOnItsWay(run.conn, AllTokenIDs(byToken))'
  BY <1>1 DEF Covered
<1>4. SentOrOnItsWay(c, allTokens)
  BY <1>2 DEF Covered
<1>5. SentOrOnItsWay(c, allTokens)'
  BY <1>4, WriteSent
<1> QED
  BY <1>1, <1>3, <1>5 DEF SentOrOnItsWay

LEMMA CoveredStep ==
    ASSUME FeedTypes, Goroutines, OthersQuiet, Covered, [FeedNext]_sharedVars
    PROVE  Covered'
<1>1. CASE Dial
  BY <1>1 DEF Dial, Covered, routing, AllTokenIDs
<1>2. CASE Resubscribe
  <2>1. run.conn \in Conns /\ writeCh[run.conn] = <<>>
    BY <1>2 DEF Resubscribe, FeedTypes, RunTypes, Goroutines, StartedAt, Begun, Conns
  <2>2. AllTokenIDs(byToken) \subseteq run.tokens /\ AllTokenIDs(byToken)' = AllTokenIDs(byToken)
    BY <1>2 DEF Resubscribe, Covered, routing, AllTokenIDs
  <2>3. /\ run'.conn = run.conn /\ run'.pc = "read"
        /\ handler'[run.conn] = AtRest /\ writer'[run.conn] = AtRest
        /\ writeCh'[run.conn] = <<>> /\ server'[run.conn] = run.tokens
    BY <1>2, <2>1 DEF Resubscribe, channels, FeedTypes, GoroutineTypes, NetworkTypes
  <2> QED
    BY <2>2, <2>3 DEF Covered, SentOrOnItsWay, AtRest
<1>3. ASSUME run'.pc \notin {"read", "resubscribe"} PROVE Covered'
  BY <1>3 DEF Covered
<1>4. ASSUME Backoff \/ DialFails \/ ResubscribeFails \/ ReadFails \/ WriteErrorSeen
      PROVE  run'.pc \notin {"read", "resubscribe"}
  BY <1>4, DisconnectedRun DEF Backoff, DialFails, ResubscribeFails, ReadFails, WriteErrorSeen,
     FeedTypes, RunTypes, RunSteps, RunWithTokens
<1>5. ASSUME NEW c \in Conns, TakeCommand(c) PROVE Covered'
  <2>1. c = run.conn /\ run.pc # "resubscribe"
    BY <1>5, OnlyCurrent DEF TakeCommand
  <2>2. /\ handler[c].pc = "idle" /\ handler'[c].pc = "apply"
        /\ UNCHANGED <<run, byToken, writer, writeCh, server>>
    BY <1>5 DEF TakeCommand, AtRest, routing, channels, network, FeedTypes, GoroutineTypes
  <2> QED
    BY <2>1, <2>2 DEF Covered, SentOrOnItsWay, AllTokenIDs
<1>6. ASSUME NEW c \in Conns, ApplyAdd(c) \/ ApplyRemove(c) PROVE Covered'
  <2>1. c = run.conn /\ run.pc # "resubscribe"
    BY <1>6, OnlyCurrent DEF ApplyAdd, ApplyRemove
  <2> QED
    BY <1>6, <2>1, ApplyCovered
<1>7. ASSUME NEW c \in Conns, Push(c) PROVE Covered'
  <2>1. c = run.conn /\ run.pc # "resubscribe"
    BY <1>7, OnlyCurrent DEF Push
  <2>2. /\ handler[c].pc = "push" /\ handler'[c].pc = "idle"
        /\ writeCh'[c] = Append(writeCh[c], handler[c].tokens)
        /\ UNCHANGED <<run, byToken>>
    BY <1>7 DEF Push, AtRest, routing, FeedTypes, GoroutineTypes, ChannelTypes
  <2>3. handler[c].tokens \in SUBSET Tokens /\ writeCh[c] \in Seq(SUBSET Tokens)
    BY <2>2 DEF FeedTypes, GoroutineTypes, HandlerStates, ChannelTypes, TokenLists
  <2>4. writeCh'[c] # <<>> /\ writeCh'[c][Len(writeCh'[c])] = handler[c].tokens
    BY <2>2, <2>3, AppendFacts
  <2> QED
    BY <2>1, <2>2, <2>4 DEF Covered, SentOrOnItsWay, AllTokenIDs
<1>8. ASSUME NEW c \in Conns, HandlerEnds(c) PROVE Covered'
  <2>1. CASE run.pc = "read" /\ c = run.conn
    BY <1>8, <2>1 DEF HandlerEnds, Cancelled
  <2>2. CASE run.pc = "read" /\ c # run.conn
    BY <1>8, <2>2, CoveredKept DEF HandlerEnds, routing, network, channels
  <2>3. CASE run.pc # "read"
    BY <1>8, <2>3 DEF HandlerEnds, routing, Covered, AllTokenIDs
  <2> QED
    BY <2>1, <2>2, <2>3
<1>9. ASSUME NEW c \in Conns, Write(c) PROVE Covered'
  <2>1. CASE c = run.conn
    <3>1. writer[c] # Off \/ writeCh[c] # <<>>
      BY <1>9 DEF Write, WriteBegins, WriteReturns, WriteFails, ReportWriteError, Off
    <3>2. run.pc # "resubscribe"
      BY <2>1, <3>1, ActorBegun DEF Begun, FeedTypes, RunTypes, Conns
    <3> QED
      BY <1>9, <2>1, <3>2, WriteCovered
  <2>2. CASE run.conn \in Conns /\ c # run.conn
    <3> DEFINE d == run.conn
    <3>1. UNCHANGED <<run, byToken, handler>>
      BY <1>9 DEF Write, WriteBegins, WriteReturns, WriteFails, ReportWriteError, routing
    <3>2. writer'[d] = writer[d] /\ writeCh'[d] = writeCh[d] /\ server'[d] = server[d]
      BY <1>9, <2>2 DEF Write, WriteBegins, WriteReturns, WriteFails, ReportWriteError,
         network, channels, FeedTypes, GoroutineTypes, ChannelTypes, NetworkTypes
    <3> QED
      BY <3>1, <3>2, CoveredKept
  <2>3. CASE run.conn \notin Conns
    <3>1. run' = run
      BY <1>9 DEF Write, WriteBegins, WriteReturns, WriteFails, ReportWriteError
    <3> QED
      BY <2>3, <3>1, <1>3 DEF FeedTypes, RunTypes
  <2> QED
    BY <2>1, <2>2, <2>3
<1>10. ASSUME \/ ConnectionLost \/ UNCHANGED sharedVars
              \/ \E m \in Markets : Subscribe(m) \/ Unsubscribe(m)
              \/ \E c \in Conns : Keepalive(c)
       PROVE  UNCHANGED <<run, byToken, handler, writer, writeCh, server>>
  BY <1>10 DEF ConnectionLost, sharedVars, Subscribe, Unsubscribe, Request, Keepalive, PingBegins,
     DeadlinePasses, PingReturns, PingFails, ReportPingError, PingerEnds, routing, network, channels
<1>11. ASSUME UNCHANGED <<run, byToken, handler, writer, writeCh, server>> PROVE Covered'
  BY <1>11, CoveredKept
<1> QED
  BY <1>1, <1>2, <1>3, <1>4, <1>5, <1>6, <1>7, <1>8, <1>9, <1>10, <1>11
     DEF FeedNext, Connect, Handle
----------------------------------------------------------------------------
LEMMA FeedInvHolds ==
    ASSUME StaleEnd
    PROVE  FeedSpec => []FeedInv
<1>1. FeedInit => FeedInv
  <2> SUFFICES ASSUME FeedInit PROVE FeedInv
    OBVIOUS
  <2> USE DEF FeedInit
  <2>1. Goroutines /\ OthersQuiet
    BY DEF Goroutines, StartedAt, Begun, OthersQuiet, QuietAt, Conns, Off
  <2>2. Len(commands) = 0
    OBVIOUS
  <2>3. RoutesInv
    <3>1. LastQueued
      BY <2>2 DEF LastQueued
    <3>2. LastTaken
      BY DEF LastTaken, Applies, Off
    <3>3. LastApplied
      BY DEF LastApplied
    <3>4. TokensAgree
      BY DEF TokensAgree, Tokens, TokensOf
    <3> QED
      BY <3>1, <3>2, <3>3, <3>4 DEF RoutesInv
  <2>4. Covered
    BY DEF Covered
  <2> QED
    BY <2>1, <2>3, <2>4, TypesInit DEF FeedInv
<1>2. FeedInv /\ [FeedNext]_sharedVars => FeedInv'
  BY TypesStep, GoroutinesStep, QuietStep, RoutesStep, CoveredStep DEF FeedInv
<1> QED
  BY <1>1, <1>2, PTL DEF FeedSpec

(* Commands pass through the handlers of several connections, one of which *)
(* may die with a command in hand; once nothing is on its way both tokens  *)
(* of each market are routed to its latest subscription, or nowhere.       *)
THEOREM RoutingFollowsRequests ==
    ASSUME StaleEnd
    PROVE  FeedSpec => []RoutesAreWanted
<1>1. FeedInv => RoutesAreWanted
  <2> SUFFICES ASSUME FeedInv, CommandsApplied
               PROVE  /\ byMkt = wanted
                      /\ \A m \in Markets : \A t \in TokensOf(m) : byToken[t] = wanted[m]
    BY DEF RoutesAreWanted
  <2>1. ASSUME NEW m \in Markets PROVE byMkt[m] = wanted[m]
    <3>1. Len(commands) = 0 /\ \A c \in Conns : ~Applies(c, m)
      BY DEF CommandsApplied, Applies
    <3>2. NoneQueued(m)
      BY <3>1 DEF NoneQueued
    <3> QED
      BY <3>1, <3>2 DEF FeedInv, RoutesInv, LastApplied
  <2>2. byMkt = wanted
    BY <2>1 DEF FeedInv, FeedTypes, RequestTypes, RouteTypes
  <2> QED
    BY <2>1, <2>2 DEF FeedInv, RoutesInv, TokensAgree
<1> QED
  BY <1>1, FeedInvHolds, PTL

(* On a live connection whose messages are all written, every token of the *)
(* routing maps is subscribed, whichever of the resubscription at the dial *)
(* and the handler's own messages came last.                               *)
THEOREM RoutedIsSubscribed ==
    ASSUME StaleEnd
    PROVE  FeedSpec => []RoutesAreSubscribed
<1>1. FeedInv => RoutesAreSubscribed
  BY DEF FeedInv, Covered, SentOrOnItsWay, RoutesAreSubscribed, Usable, MessagesSent, AtRest
<1> QED
  BY <1>1, FeedInvHolds, PTL
=============================================================================
