-------------------------------- MODULE Tap --------------------------------
(***************************************************************************)
(* pnpd/src/capture.rs: the capture thread, between the kernel's socket    *)
(* buffer and the packet ring it extends.                                  *)
(*                                                                         *)
(* The kernel side is external: frames arrive in the buffer of the packet  *)
(* socket, and one that does not fit is tallied instead.  The thread       *)
(* receives a frame, harvests the tally, suppresses the daemon's own       *)
(* traffic, and counts and publishes the rest.  Each of these is a step,   *)
(* so frames arrive, and clients subscribe and read, between any two.      *)
(*                                                                         *)
(* The thread's other kernel calls do not fail here: recvfrom's errors     *)
(* (:104-112) lose no frame and lead back to recvfrom, a stuttering step;  *)
(* getsockopt with an open packet socket and a buffer of the right size    *)
(* succeeds.  A frame is its bytes, which only is_own_flow looks at; the    *)
(* interface names and the timestamp are left out.                         *)
(***************************************************************************)
EXTENDS PacketRing

CONSTANTS
  KBuf,        \* frames the socket buffer holds (SO_RCVBUF)
  OwnPort,     \* the port that the daemon's server listens on
  OwnFrames,   \* frames of the daemon's own HTTP traffic
  WireFrames,  \* what else is on the wire
  Bytes,       \* Bytes[f]: the bytes of frame f, as they are captured
  MaxFrames    \* model bound: frames that arrive in a run

Frames == OwnFrames \cup WireFrames
Byte == 0 .. 255

Vlan == 33024  \* 0x8100
IPv4 == 2048   \* 0x0800
IPv6 == 34525  \* 0x86dd
Tcp  == 6

(* slice::get of one byte, and of two in network order; -1 is None. *)
At(b, i)  == IF i < Len(b) THEN b[i + 1] ELSE -1
U16(b, i) == IF i + 1 < Len(b) THEN 256 * b[i + 1] + b[i + 2] ELSE -1

(* A TCP header with the server's port on either end (RFC 9293). *)
TcpOfServer(b, at) ==
  /\ at + 20 <= Len(b)
  /\ OwnPort \in {U16(b, at), U16(b, at + 2)}

(* How a segment from or to the server travels: in an IPv4 packet with any *)
(* options (RFC 791: the low half of the first byte is the header's length *)
(* in words) or a plain IPv6 packet (RFC 8200), in an Ethernet frame with  *)
(* one 802.1Q tag or none, which stands before the type of what follows.   *)
(* This is external: "plain IPv4/IPv6 with no extension headers, which is  *)
(* all our own server traffic ever is" (:195).                             *)
Served(b) ==
  \E tags \in {0, 1} :
    LET ip == 14 + 4 * tags IN
    /\ tags = 1 => U16(b, 12) = Vlan
    /\ \/ /\ U16(b, ip - 2) = IPv4
          /\ At(b, ip + 9) = Tcp
          /\ \E words \in 5 .. 15 : At(b, ip) = 64 + words /\ TcpOfServer(b, ip + 4 * words)
       \/ /\ U16(b, ip - 2) = IPv6
          /\ At(b, ip + 6) = Tcp
          /\ TcpOfServer(b, ip + 40)

ASSUME TapAssumption ==
  /\ KBuf \in Nat \ {0}
  /\ MaxFrames \in Nat
  /\ MaxSeq >= MaxFrames

ASSUME FrameAssumption ==
  /\ OwnPort \in Nat \ {0}
  /\ Bytes \in [Frames -> Seq(Byte)]
  /\ \A f \in OwnFrames : Served(Bytes[f])

VARIABLES
  sockbuf,     \* frames queued in the socket, each with the number of frames
               \* the kernel had dropped when it was queued
  kdrops,      \* the kernel's tally since it was last read
  pc,          \* where the capture thread is
  hand,        \* the queue entry the thread works on, while it has one
  captured,    \* CaptureStats
  dropped,
  suppressed,
  arrived,     \* history: frames that arrived so far
  lost,        \* history: how many of them did not fit
  published    \* history: published[s] is the queue entry of packet s

threadVars == <<pc, hand, captured, dropped, suppressed>>
tapVars == <<ringVars, sockbuf, kdrops, threadVars, arrived, lost, published>>

TapInit ==
  /\ RingInit
  /\ sockbuf = <<>>
  /\ kdrops = 0
  /\ pc = "recv"
  /\ hand = <<>>
  /\ captured = 0
  /\ dropped = 0
  /\ suppressed = 0
  /\ arrived = 0
  /\ lost = 0
  /\ published = <<>>

(* The kernel taps a frame into the socket, or drops and tallies it. *)
Arrive(f) ==
  /\ arrived < MaxFrames
  /\ arrived' = arrived + 1
  /\ IF Len(sockbuf) < KBuf
       THEN /\ sockbuf' = Append(sockbuf, [frame |-> f, gap |-> lost])
            /\ UNCHANGED <<kdrops, lost>>
       ELSE /\ kdrops' = kdrops + 1
            /\ lost' = lost + 1
            /\ UNCHANGED sockbuf
  /\ UNCHANGED <<ringVars, threadVars, published>>

-----------------------------------------------------------------------------
(* The capture thread. *)

(* Where is_own_flow finds the EtherType, behind one VLAN tag but no more, *)
(* and the ports, by the length that an IPv4 header says it has.           *)
EtherTypeAt(b) == IF U16(b, 12) = Vlan THEN 16 ELSE 12

PortsAtFixed(b) ==
  LET ip == EtherTypeAt(b) + 2
  IN  IF U16(b, ip - 2) = IPv4 THEN ip + 20 ELSE ip + 40

PortsAt(b) ==
  LET ip == EtherTypeAt(b) + 2
  IN  IF U16(b, ip - 2) = IPv4 THEN ip + 4 * (At(b, ip) % 16) ELSE ip + 40

IsOwnFlow(b) ==
  LET ip == EtherTypeAt(b) + 2
  IN  /\ \/ U16(b, ip - 2) = IPv4 /\ At(b, ip + 9) = Tcp
         \/ U16(b, ip - 2) = IPv6 /\ At(b, ip + 6) = Tcp
      /\ PortsAt(b) + 4 <= Len(b)
      /\ OwnPort \in {U16(b, PortsAt(b)), U16(b, PortsAt(b) + 2)}

OwnFlows == {f \in Frames : IsOwnFlow(Bytes[f])}

RecvfromSkipsOwn ==
  /\ pc = "recv"
  /\ sockbuf # <<>>
  /\ sockbuf' = Tail(sockbuf)
  /\ IF Head(sockbuf).frame \in OwnFlows
       THEN suppressed' = suppressed + 1 /\ UNCHANGED <<pc, hand>>
       ELSE /\ hand' = <<Head(sockbuf)>>
            /\ pc' = "harvest"
            /\ UNCHANGED suppressed
  /\ UNCHANGED <<ringVars, kdrops, captured, dropped, arrived, lost,
                 published>>

(* recvfrom: blocks while the buffer is empty. *)
Recvfrom ==
  /\ pc = "recv"
  /\ sockbuf # <<>>
  /\ sockbuf' = Tail(sockbuf)
  /\ hand' = <<Head(sockbuf)>>
  /\ pc' = "harvest"
  /\ UNCHANGED <<ringVars, kdrops, captured, dropped, suppressed, arrived,
                 lost, published>>

HarvestOverwrites ==
  /\ pc = "harvest"
  /\ dropped' = IF kdrops > 0 THEN kdrops ELSE dropped
  /\ kdrops' = 0
  /\ pc' = "classify"
  /\ UNCHANGED <<ringVars, sockbuf, hand, captured, suppressed, arrived,
                 lost, published>>

(* harvest_kernel_drops: reading the tally resets it. *)
Harvest ==
  /\ pc = "harvest"
  /\ dropped' = dropped + kdrops
  /\ kdrops' = 0
  /\ pc' = "classify"
  /\ UNCHANGED <<ringVars, sockbuf, hand, captured, suppressed, arrived,
                 lost, published>>

ClassifyCountsAll ==
  /\ pc = "classify"
  /\ captured' = captured + 1
  /\ IF hand[1].frame \in OwnFlows
       THEN suppressed' = suppressed + 1 /\ pc' = "recv" /\ hand' = <<>>
       ELSE pc' = "push" /\ UNCHANGED <<suppressed, hand>>
  /\ UNCHANGED <<ringVars, sockbuf, kdrops, dropped, arrived, lost,
                 published>>

(* Own traffic is counted and dropped; the rest is counted as captured. *)
Classify ==
  /\ pc = "classify"
  /\ IF hand[1].frame \in OwnFlows
       THEN /\ suppressed' = suppressed + 1
            /\ pc' = "recv"
            /\ hand' = <<>>
            /\ UNCHANGED captured
       ELSE /\ captured' = captured + 1
            /\ pc' = "push"
            /\ UNCHANGED <<suppressed, hand>>
  /\ UNCHANGED <<ringVars, sockbuf, kdrops, dropped, arrived, lost,
                 published>>

(* self.ring.push *)
Publish ==
  /\ pc = "push"
  /\ Push
  /\ published' = Append(published, hand[1])
  /\ pc' = "recv"
  /\ hand' = <<>>
  /\ UNCHANGED <<sockbuf, kdrops, captured, dropped, suppressed, arrived,
                 lost>>

CaptureThread == Recvfrom \/ Harvest \/ Classify \/ Publish

(* The stream connections of the ring, meanwhile. *)
Client ==
  /\ \E c \in Conns : Subscribe(c) \/ Recv(c) \/ EndOfStream(c) \/ HangUp(c)
  /\ UNCHANGED <<sockbuf, kdrops, threadVars, arrived, lost, published>>

TapNext ==
  \/ \E f \in Frames : Arrive(f)
  \/ CaptureThread
  \/ Client

(* The thread runs "for the life of the daemon" (:88): it is never starved *)
(* while it has something to do.                                           *)
TapSpec == TapInit /\ [][TapNext]_tapVars /\ WF_tapVars(CaptureThread)

-----------------------------------------------------------------------------
Entry == [frame : Frames, gap : Nat]

(* Types, and that the thread has a frame in hand exactly between recvfrom *)
(* and the end of its loop (:94-151).                                      *)
TapTypeOK ==
  /\ sockbuf \in Seq(Entry) /\ Len(sockbuf) <= KBuf
  /\ pc \in {"recv", "harvest", "classify", "push"}
  /\ hand \in Seq(Entry) /\ Len(hand) = IF pc = "recv" THEN 0 ELSE 1
  /\ {kdrops, captured, dropped, suppressed, arrived, lost} \subseteq Nat
  /\ published \in Seq(Entry) /\ Len(published) = next_seq - 1

(* Every frame is somewhere: still queued, in the thread's hand, captured, *)
(* suppressed, or dropped, confessed or about to be ("Suppressed frames    *)
(* are counted, never silently vanished", :38).                            *)
FramesAccounted ==
  /\ lost = kdrops + dropped
  /\ arrived = Len(sockbuf) + lost + suppressed + captured
               + (IF pc \in {"harvest", "classify"} THEN 1 ELSE 0)

(* "The tap confesses its gaps" (:34): by the time a packet can be seen,   *)
(* the header's drop count covers every frame that was lost before it.     *)
GapsConfessed ==
  \A s \in 1 .. Len(published) : published[s].gap <= dropped

(* A status read never shows fewer captured packets than the same stream   *)
(* has delivered, nor more than the one in hand beyond them (:140-141).    *)
HeaderCoversStream ==
  /\ TapTypeOK
  /\ captured = next_seq - 1 + (IF pc = "push" THEN 1 ELSE 0)
  /\ \A c \in Conns : cursor[c] <= captured

(* The feedback loop is broken (:36-38): serving a packet never makes one, *)
(* because no frame that carries the server's own segments becomes a       *)
(* packet, whatever its tag, its options and the side its port is on.      *)
NoFeedback == \A s \in 1 .. Len(published) : published[s].frame \notin OwnFrames

(* Every drop is eventually confessed (:154): a full buffer is itself what *)
(* brings the thread to the next harvest.                                  *)
DropsConfessed ==
  \A n \in 1 .. MaxFrames : (lost >= n) ~> (dropped >= n)
=============================================================================
