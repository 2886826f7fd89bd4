---------------------------- MODULE PacketRing ----------------------------
(***************************************************************************)
(* pnpd/src/ring.rs: the bounded packet backlog and its live fan-out, with *)
(* the receiving ends the HTTP stream threads hold.                        *)
(*                                                                         *)
(* A packet is its sequence number.  Everything under the ring's mutex is  *)
(* one step: Push (evict, append, fan out, prune) and Subscribe.  Taking a *)
(* packet from a channel, and dropping a receiver, happen outside the      *)
(* mutex and are steps of their own, so they interleave with pushes.       *)
(*                                                                         *)
(* A connection's identity is recycled only once the ring has let go of    *)
(* its sender, as a fresh channel in the program is never an old one.      *)
(***************************************************************************)
EXTENDS Selections, FiniteSets

CONSTANTS
  Capacity,    \* --ring N
  ChannelCap,  \* bound of a subscriber's channel (1024 in the program)
  Conns,       \* identities of /api/stream connections
  MaxSeq       \* model bound: the last sequence number a run assigns

\* The command line accepts any number, zero included (main.rs:33).
ASSUME RingAssumption ==
  /\ Capacity \in Nat
  /\ ChannelCap \in Nat \ {0}
  /\ MaxSeq \in Nat

VARIABLES
  packets,      \* Inner::packets
  next_seq,     \* Inner::next_seq
  subscribers,  \* Inner::subscribers: connections whose sender the ring keeps
  chan,         \* chan[c]: what waits in the channel of c
  receivers,    \* connections whose receiver is alive (their thread runs)
  cursor        \* cursor[c]: the last packet taken from the channel, or the
                \* newest packet there was when c subscribed

ringVars == <<packets, next_seq, subscribers, chan, receivers, cursor>>

-----------------------------------------------------------------------------
(* std::sync::mpsc::sync_channel: a sender learns that the receiver is gone *)
(* before it learns that the buffer is full; a receiver empties the buffer  *)
(* before it learns that the sender is gone.                                *)

TrySend(c) ==
  IF c \notin receivers THEN "disconnected"
  ELSE IF Len(chan[c]) = ChannelCap THEN "full"
  ELSE "ok"

(* VecDeque::pop_front: an empty deque stays as it is. *)
PopFront(s) == IF s = <<>> THEN s ELSE Tail(s)

EvictLate(s) == IF Len(s) > Capacity THEN PopFront(s) ELSE s

EvictNewest(s) ==
  IF Len(s) = Capacity /\ s # <<>> THEN SubSeq(s, 1, Len(s) - 1) ELSE s

Evict(s) == IF Len(s) = Capacity THEN PopFront(s) ELSE s

RetainUnlessGone == {c \in subscribers : TrySend(c) # "disconnected"}

Retain == {c \in subscribers : TrySend(c) = "ok"}

RingInit ==
  /\ packets = <<>>
  /\ next_seq = 1
  /\ subscribers = {}
  /\ chan = [c \in Conns |-> <<>>]
  /\ receivers = {}
  /\ cursor = [c \in Conns |-> 0]

(* Ring::push, the whole of it under the lock. *)
Push ==
  /\ next_seq <= MaxSeq
  /\ next_seq' = next_seq + 1
  /\ packets' = Append(Evict(packets), next_seq)
  /\ chan' = [c \in Conns |-> IF c \in subscribers /\ TrySend(c) = "ok"
                                THEN Append(chan[c], next_seq) ELSE chan[c]]
  /\ subscribers' = Retain
  /\ UNCHANGED <<receivers, cursor>>

(* Ring::since, called by /api/packets: what is held above s, oldest first. *)
SinceInclusive(s) == Filtered(packets, {p \in Nat : p >= s})

Since(s) == Filtered(packets, {p \in Nat : p > s})

(* Ring::subscribe, by a connection the ring knows nothing of. *)
Subscribe(c) ==
  /\ c \notin receivers \cup subscribers
  /\ subscribers' = subscribers \cup {c}
  /\ receivers' = receivers \cup {c}
  /\ chan' = [chan EXCEPT ![c] = <<>>]
  /\ cursor' = [cursor EXCEPT ![c] = next_seq - 1]
  /\ UNCHANGED <<packets, next_seq>>

(* The stream thread takes a packet (recv_timeout or try_recv). *)
Recv(c) ==
  /\ c \in receivers
  /\ chan[c] # <<>>
  /\ cursor' = [cursor EXCEPT ![c] = Head(chan[c])]
  /\ chan' = [chan EXCEPT ![c] = Tail(@)]
  /\ UNCHANGED <<packets, next_seq, subscribers, receivers>>

(* The stream thread finds its channel empty and without a sender: returns. *)
EndOfStream(c) ==
  /\ c \in receivers \ subscribers
  /\ chan[c] = <<>>
  /\ receivers' = receivers \ {c}
  /\ UNCHANGED <<packets, next_seq, subscribers, chan, cursor>>

(* A write to the client fails: the thread returns and drops its receiver  *)
(* with whatever is still queued.  The ring's sender stays until a push.   *)
HangUp(c) ==
  /\ c \in receivers
  /\ receivers' = receivers \ {c}
  /\ chan' = [chan EXCEPT ![c] = <<>>]
  /\ UNCHANGED <<packets, next_seq, subscribers, cursor>>

RingNext ==
  \/ Push
  \/ \E c \in Conns : Subscribe(c) \/ Recv(c) \/ EndOfStream(c) \/ HangUp(c)

RingSpec == RingInit /\ [][RingNext]_ringVars

-----------------------------------------------------------------------------
(* Types, and the bound of every channel: sync_channel never holds more    *)
(* than it was made for (ring.rs:106).                                     *)
RingTypeOK ==
  /\ packets \in Seq(Nat)
  /\ next_seq \in Nat \ {0}
  /\ subscribers \subseteq Conns
  /\ receivers \subseteq Conns
  /\ chan \in [Conns -> Seq(Nat)]
  /\ \A c \in Conns : Len(chan[c]) <= ChannelCap
  /\ cursor \in [Conns -> Nat]

(* The backlog is the newest packets with no hole, as many as fit: push    *)
(* neither evicts early nor evicts the wrong end (ring.rs:77-80).          *)
HistoryExact ==
  /\ Len(packets) = IF next_seq - 1 < Capacity THEN next_seq - 1 ELSE Capacity
  /\ \A i \in 1 .. Len(packets) : packets[i] = next_seq - 1 - Len(packets) + i

(* What c has waiting continues what it took, and as long as the ring      *)
(* keeps its sender nothing published since is missing.                    *)
GapFree(c) ==
  /\ \A i \in 1 .. Len(chan[c]) : chan[c][i] = cursor[c] + i
  /\ c \in subscribers => cursor[c] + Len(chan[c]) = next_seq - 1

(* A stream never has a hole it does not know of (ring.rs:81-83): the only *)
(* way to miss a packet is to be cut off, and that ends the stream.        *)
NoSilentGap ==
  /\ RingTypeOK
  /\ \A c \in receivers : GapFree(c)

(* A client that asks for history by number gets everything after that     *)
(* number up to the newest packet, or an answer whose first number shows   *)
(* what is gone (ring.rs:1-4, "the sequence numbers make the gap           *)
(* visible"); an empty answer means there is nothing newer.                *)
GapVisible ==
  \A s \in 0 .. next_seq - 1 :
    LET answer == Since(s)
        n      == Len(answer)
    IN /\ \A i \in 1 .. n : answer[i] = next_seq - 1 - n + i
       /\ \/ n = next_seq - 1 - s
          \/ n < next_seq - 1 - s /\ n = Len(packets) /\ n > 0

(* A dead subscriber outlives its receiver by at most one push             *)
(* (ring.rs:84-91): no push leaves behind a sender nobody listens to.      *)
PushPrunes == [][next_seq' # next_seq => subscribers' \subseteq receivers]_ringVars

(* The ring implements the feed: cut connections are those that still      *)
(* drain a channel the ring has dropped.                                   *)
statusOf == [c \in Conns |-> IF c \notin receivers THEN "none"
                             ELSE IF c \in subscribers THEN "live" ELSE "cut"]
dueOf == [c \in Conns |-> cursor[c] + Len(chan[c])]

FeedOf == INSTANCE Feed WITH
  Backlog   <- Capacity,
  published <- next_seq - 1,
  held      <- Len(packets),
  st        <- statusOf,
  got       <- cursor,
  due       <- dueOf

(* Every step of the ring is a step of the feed or none (ring.rs:72-109).  *)
ImplementsFeed == FeedOf!FeedSpec
=============================================================================
