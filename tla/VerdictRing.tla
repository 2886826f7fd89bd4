---------------------------- MODULE VerdictRing ----------------------------
(***************************************************************************)
(* pnpd/src/engine.rs, the shared half of Engine: the bounded backlog of   *)
(* the kernel's verdict events and its fan-out to the stream connections.  *)
(*                                                                         *)
(* It looks like the packet ring and differs in three ways that matter:    *)
(* the kernel numbers the events, and a number may be missing; events      *)
(* about the daemon's own traffic are hidden before anything else happens; *)
(* and a full channel loses the event but keeps the subscriber.            *)
(*                                                                         *)
(* The kernel is external: it judges traffic, numbers the events and       *)
(* queues them for the device's reader, or counts one as dropped.  What    *)
(* the engine thread has read from the device and not yet pushed counts as *)
(* still queued; DeviceLink has the thread's dealings with the device.     *)
(***************************************************************************)
EXTENDS Selections, FiniteSets

CONSTANTS
  VRing,       \* RING, 8192 in the program
  ChannelCap,  \* bound of a subscriber's channel (1024)
  Conns,       \* identities of /api/stream connections
  KQueue,      \* events that wait for the reader
  Traffic,     \* what gets judged: a set of Flow
  MaxEvents    \* model bound: the last number the kernel assigns

Port == {"own", "any"}

Flow == [addr_family : {0, 4, 6}, protocol : {6, 17}, src_port : Port,
         dst_port : Port]

Event == [seq : 1 .. MaxEvents, flow : Traffic]

ASSUME VerdictAssumption ==
  /\ VRing \in Nat \ {0}
  /\ ChannelCap \in Nat \ {0}
  /\ KQueue \in Nat \ {0}
  /\ MaxEvents \in Nat
  /\ Traffic \subseteq Flow

VARIABLES
  kseq,         \* the number of the kernel's newest event
  queue,        \* events on their way to Engine::push
  events_dropped,  \* how many the kernel has lost, as the status shows it
  events,       \* Inner::events
  own_hidden,   \* Inner::own_hidden
  subscribers,  \* Inner::subscribers: connections whose sender is kept
  chan,         \* chan[c]: what waits in the channel of c
  receivers,    \* connections whose receiver is alive
  since_when,   \* history: how many events had been kept when c subscribed
  taken,        \* history: what c took from its channel
  missed,       \* history: what a full channel of c lost
  kept          \* history: every event that was not hidden, in order

histories == <<since_when, taken, missed, kept>>
verdictVars == <<kseq, queue, events_dropped, events, own_hidden, subscribers,
                 chan, receivers, histories>>

VerdictInit ==
  /\ kseq = 0
  /\ queue = <<>>
  /\ events_dropped = 0
  /\ events = <<>>
  /\ own_hidden = 0
  /\ subscribers = {}
  /\ chan = [c \in Conns |-> <<>>]
  /\ receivers = {}
  /\ since_when = [c \in Conns |-> 0]
  /\ taken = [c \in Conns |-> <<>>]
  /\ missed = [c \in Conns |-> {}]
  /\ kept = <<>>

(* The kernel judges something; a number is used up even when the queue is *)
(* full and the event is lost (PnpStatus::events_dropped, engine.rs:136).  *)
Judge(f) ==
  /\ kseq < MaxEvents
  /\ kseq' = kseq + 1
  /\ IF Len(queue) < KQueue
       THEN /\ queue' = Append(queue, [seq |-> kseq + 1, flow |-> f])
            /\ UNCHANGED events_dropped
       ELSE /\ events_dropped' = events_dropped + 1
            /\ UNCHANGED queue
  /\ UNCHANGED <<events, own_hidden, subscribers, chan, receivers, histories>>

-----------------------------------------------------------------------------
(* Whether an event is about the daemon's own HTTP flow (:475-477). *)
IsOwnIPv4(f) == /\ f.protocol = 6
                /\ f.addr_family = 4
                /\ "own" \in {f.src_port, f.dst_port}

IsOwn(f) ==
  /\ f.protocol = 6
  /\ f.addr_family \in {4, 6}
  /\ f.src_port = "own" \/ f.dst_port = "own"

(* SyncSender::try_send, as in PacketRing. *)
TrySend(c) ==
  IF c \notin receivers THEN "disconnected"
  ELSE IF Len(chan[c]) = ChannelCap THEN "full"
  ELSE "ok"

Evict(s) == IF Len(s) = VRing THEN Tail(s) ELSE s

FanOutOverwrites(ev) ==
  [c \in Conns |-> IF c \notin subscribers THEN chan[c]
                   ELSE IF TrySend(c) = "ok" THEN Append(chan[c], ev)
                   ELSE IF TrySend(c) = "full" THEN Append(Tail(chan[c]), ev)
                   ELSE chan[c]]

FanOut(ev) ==
  [c \in Conns |-> IF c \in subscribers /\ TrySend(c) = "ok"
                     THEN Append(chan[c], ev) ELSE chan[c]]

(* Only a disconnected subscriber is dropped. *)
Retain == {c \in subscribers : TrySend(c) # "disconnected"}

(* Engine::push of the next event, the whole of it under the lock. *)
Push ==
  /\ queue # <<>>
  /\ queue' = Tail(queue)
  /\ LET ev == Head(queue) IN
       IF IsOwn(ev.flow)
         THEN /\ own_hidden' = own_hidden + 1
              /\ UNCHANGED <<events, subscribers, chan, missed, kept>>
         ELSE /\ events' = Append(Evict(events), ev)
              /\ chan' = FanOut(ev)
              /\ subscribers' = Retain
              /\ missed' = [c \in Conns |->
                              IF c \in subscribers /\ TrySend(c) = "full"
                                THEN missed[c] \cup {ev} ELSE missed[c]]
              /\ kept' = Append(kept, ev)
              /\ UNCHANGED own_hidden
  /\ UNCHANGED <<kseq, events_dropped, receivers, since_when, taken>>

SinceInclusive(s) == Filtered(events, {e \in Event : e.seq >= s})

(* Engine::since, called by /api/verdicts. *)
Since(s) == Filtered(events, {e \in Event : e.seq > s})

(* Engine::subscribe, by a connection the engine knows nothing of. *)
Subscribe(c) ==
  /\ c \notin receivers \cup subscribers
  /\ subscribers' = subscribers \cup {c}
  /\ receivers' = receivers \cup {c}
  /\ chan' = [chan EXCEPT ![c] = <<>>]
  /\ since_when' = [since_when EXCEPT ![c] = Len(kept)]
  /\ taken' = [taken EXCEPT ![c] = <<>>]
  /\ missed' = [missed EXCEPT ![c] = {}]
  /\ UNCHANGED <<kseq, queue, events_dropped, events, own_hidden, kept>>

(* verdicts.try_recv in the stream thread (http.rs:223). *)
Recv(c) ==
  /\ c \in receivers
  /\ chan[c] # <<>>
  /\ taken' = [taken EXCEPT ![c] = Append(@, Head(chan[c]))]
  /\ chan' = [chan EXCEPT ![c] = Tail(@)]
  /\ UNCHANGED <<kseq, queue, events_dropped, events, own_hidden,
                 subscribers, receivers, since_when, missed, kept>>

(* The stream thread returns: a write failed, or its packet channel ended. *)
HangUp(c) ==
  /\ c \in receivers
  /\ receivers' = receivers \ {c}
  /\ chan' = [chan EXCEPT ![c] = <<>>]
  /\ UNCHANGED <<kseq, queue, events_dropped, events, own_hidden,
                 subscribers, histories>>

VerdictNext ==
  \/ \E f \in Traffic : Judge(f)
  \/ Push
  \/ \E c \in Conns : Subscribe(c) \/ Recv(c) \/ HangUp(c)

VerdictSpec == VerdictInit /\ [][VerdictNext]_verdictVars

-----------------------------------------------------------------------------
(* Types, and the bounds of the two queues. *)
VerdictTypeOK ==
  /\ kseq \in 0 .. MaxEvents
  /\ queue \in Seq(Event) /\ Len(queue) <= KQueue
  /\ events \in Seq(Event) /\ Len(events) <= VRing
  /\ own_hidden \in Nat
  /\ subscribers \subseteq Conns
  /\ receivers \subseteq Conns
  /\ chan \in [Conns -> Seq(Event)]
  /\ \A c \in Conns : Len(chan[c]) <= ChannelCap

(* Verdicts about the daemon's own traffic are hidden and counted, never   *)
(* silently vanished (:413-414, :472-481): none is in the backlog, every   *)
(* other one is until VRing newer ones came, and the counters the status   *)
(* shows explain every number the kernel gave out.                         *)
BacklogIsNewestKept ==
  LET n == IF Len(kept) < VRing THEN Len(kept) ELSE VRing
  IN /\ VerdictTypeOK
     /\ events = SubSeq(kept, Len(kept) - n + 1, Len(kept))
     /\ kseq = Len(queue) + events_dropped + own_hidden + Len(kept)
     /\ \A i \in 1 .. Len(kept) :
          LET f == kept[i].flow
          IN f.protocol = 6 /\ f.addr_family # 0
               => f.src_port # "own" /\ f.dst_port # "own"

(* A client that asks for what follows the last number it has gets every   *)
(* kept event after it, each once and oldest first, as long as fewer than  *)
(* VRing were kept since (:454-463).  The kernel's numbers have holes, so  *)
(* unlike a packet's they cannot show how much is gone.                    *)
RejoinBySeq ==
  \A i \in 0 .. Len(kept) :
    LET last   == IF i = 0 THEN 0 ELSE kept[i].seq
        answer == Since(last)
    IN /\ Len(kept) - i <= VRing => answer = SubSeq(kept, i + 1, Len(kept))
       /\ \A j \in 1 .. Len(answer) - 1 : answer[j].seq < answer[j + 1].seq

(* What a connection took and what waits for it is what was kept since it  *)
(* subscribed, in order and without repetition, except what its full       *)
(* channel lost (:487-492); one whose channel was never full when an event *)
(* was kept has them all.  That a connection which did lose one is served  *)
(* on is what the code does, and not what its comment says: see            *)
(* SlowAreCutOff.                                                          *)
StreamIsKeptMinusMissed ==
  \A c \in receivers :
    LET due == SubSeq(kept, since_when[c] + 1, Len(kept))
    IN  taken[c] \o chan[c] = Filtered(due, Event \ missed[c])

(* "Slow or gone subscribers are cut off; they rejoin by seq." (:486): an  *)
(* open connection that lost an event to its full channel is no longer     *)
(* subscribed, so that its stream can end.  Retain keeps it.               *)
SlowAreCutOff == \A c \in receivers \cap subscribers : missed[c] = {}
=============================================================================
