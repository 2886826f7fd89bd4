---------------------------- MODULE StreamEvents ----------------------------
(***************************************************************************)
(* pnpd/src/http.rs, stream_events: the loop of one event stream's thread  *)
(* between two channels, a socket whose client reads, stalls or goes away, *)
(* and the service names (ServiceNames) that the text of a verdict needs.  *)
(*                                                                         *)
(* Of the channels only the lengths are kept: what is in them, and that a  *)
(* full one cuts the stream off (packets) or loses an event (verdicts), is *)
(* in PacketRing and VerdictRing.  A write blocks while the socket is full *)
(* and has no time limit.  The first write after the client has closed may *)
(* still succeed.  A verdict looks up one name or none; it may be two.     *)
(* Other HTTP threads look up names for the flow and listener lists.       *)
(***************************************************************************)
EXTENDS ServiceNames

CONSTANTS
  Conn,     \* the stream's thread
  PCap,     \* capacities of the two channels,
  VCap,
  SockCap   \* and events that the socket takes before a write blocks

ASSUME StreamAssumption ==
  /\ Conn \in Threads
  /\ {PCap, VCap, SockCap} \subseteq Nat \ {0}

VARIABLES
  pc,         \* where the loop is
  verdicts,   \* events in the verdict channel,
  packets,    \* and in the packet channel
  subscribed, \* the ring has the packet channel's sender
  due,        \* two seconds have passed since the last stats
  client,
  socket      \* events the client has still to read

channels == <<verdicts, packets, subscribed>>
connVars == <<client, socket>>
streamVars == <<namesVars, pc, channels, due, connVars>>

StreamInit ==
  /\ NamesInit
  /\ pc = "write header"
  /\ verdicts = 0 /\ packets = 0
  /\ subscribed = TRUE
  /\ due = FALSE
  /\ client = "reads"
  /\ socket = 0

-----------------------------------------------------------------------------
(* The rings' threads, time, and the client *)

HasRoomLate(n, cap) == n <= cap

HasRoom(n, cap) == n < cap

PushVerdict ==
  /\ pc # "over"
  /\ verdicts' = IF HasRoom(verdicts, VCap) THEN verdicts + 1 ELSE verdicts
  /\ UNCHANGED <<namesVars, pc, packets, subscribed, due, connVars>>

PushPacket ==
  /\ subscribed
  /\ IF pc # "over" /\ HasRoom(packets, PCap)
       THEN packets' = packets + 1 /\ UNCHANGED subscribed
       ELSE subscribed' = FALSE /\ UNCHANGED packets
  /\ UNCHANGED <<namesVars, pc, verdicts, due, connVars>>

(* The clock of the stats starts after the header. *)
TwoSeconds ==
  /\ ~due /\ pc # "write header"
  /\ due' = TRUE
  /\ UNCHANGED <<namesVars, pc, channels, connVars>>

ClientReads ==
  /\ client = "reads" /\ socket > 0
  /\ socket' = socket - 1
  /\ UNCHANGED <<namesVars, pc, channels, due, client>>

ClientStallsOrResumes ==
  /\ client \in {"reads", "stalls"}
  /\ client' \in {"reads", "stalls"} \ {client}
  /\ UNCHANGED <<namesVars, pc, channels, due, socket>>

(* Closed in good order, or reset at once where something was unread. *)
ClientCloses ==
  /\ client \in {"reads", "stalls"}
  /\ client' \in IF socket > 0 THEN {"reset"} ELSE {"closed", "reset"}
  /\ socket' = 0
  /\ UNCHANGED <<namesVars, pc, channels, due>>

-----------------------------------------------------------------------------
(* The loop *)

Over ==
  /\ pc' = "over"
  /\ verdicts' = 0 /\ packets' = 0
  /\ UNCHANGED <<subscribed, due, connVars>>

Goto(next) == pc' = next /\ UNCHANGED <<channels, due, connVars>>

(* The drain of the verdicts.  The text is made before it is written. *)
TakeVerdict ==
  /\ pc = "verdicts"
  /\ verdicts > 0
  /\ verdicts' = verdicts - 1
  /\ pc' = "write verdict"
  /\ (\E s \in Services : Lookup(Conn, s)) \/ UNCHANGED namesVars
  /\ UNCHANGED <<packets, subscribed, due, connVars>>

VerdictsEmpty ==
  /\ pc = "verdicts"
  /\ verdicts = 0
  /\ Goto("wait")
  /\ UNCHANGED namesVars

(* recv_timeout, and the drain of the packets after a first one. *)
TakePacket ==
  /\ pc \in {"wait", "packets"}
  /\ packets > 0
  /\ packets' = packets - 1
  /\ pc' = "write packet"
  /\ UNCHANGED <<namesVars, verdicts, subscribed, due, connVars>>

PacketsEmptyAfterDrain ==
  /\ pc = "packets"
  /\ packets = 0 /\ subscribed
  /\ Goto("stats")
  /\ UNCHANGED namesVars

PacketsEmpty ==
  /\ pc \in {"wait", "packets"}
  /\ packets = 0 /\ subscribed
  /\ Goto("stats")
  /\ UNCHANGED namesVars

DisconnectedIgnored ==
  /\ pc \in {"wait", "packets"}
  /\ packets = 0 /\ ~subscribed
  /\ Goto("stats")
  /\ UNCHANGED namesVars

Disconnected ==
  /\ pc \in {"wait", "packets"}
  /\ packets = 0 /\ ~subscribed
  /\ Over
  /\ UNCHANGED namesVars

StatsCheck ==
  /\ pc = "stats"
  /\ Goto(IF due THEN "write stats" ELSE "verdicts")
  /\ UNCHANGED namesVars

After == [w \in {"write header", "write verdict", "write packet",
                  "write stats", "write engine"} |->
            IF w = "write packet" THEN "packets"
            ELSE IF w = "write stats" THEN "write engine"
            ELSE "verdicts"]

(* Each may fail, the header's included; the stats are two of them. *)
Write ==
  /\ pc \in DOMAIN After
  /\ want[Conn] = None
  /\ client \in {"reads", "stalls"} => HasRoom(socket, SockCap)
  /\ IF client = "reset" THEN Over
     ELSE /\ pc' = After[pc]
          /\ due' = (due /\ pc # "write engine")
          /\ IF client = "closed" THEN client' = "reset" /\ UNCHANGED socket
             ELSE socket' = socket + 1 /\ UNCHANGED client
          /\ UNCHANGED channels
  /\ UNCHANGED namesVars

Loop == \/ TakeVerdict \/ VerdictsEmpty \/ TakePacket \/ PacketsEmpty
        \/ Disconnected \/ StatsCheck \/ Write

Names == \/ Environment
         \/ \E t \in Threads : Lock(t) \/ Read(t)
         \/ \E t \in Threads \ {Conn}, s \in Services : Lookup(t, s)

StreamNext ==
  \/ PushVerdict \/ PushPacket \/ TwoSeconds
  \/ ClientReads \/ ClientStallsOrResumes \/ ClientCloses
  \/ Loop
  \/ Names /\ UNCHANGED <<pc, channels, due, connVars>>

(* Threads are scheduled, the clock goes on, a registry read ends, and a   *)
(* mutex that is free again and again is at some time given to each thread *)
(* that waits for it.  Clients, rings and requests owe nothing, except     *)
(* that a client that reads does.                                          *)
StreamFairness ==
  /\ WF_streamVars(Loop)
  /\ WF_streamVars(TwoSeconds)
  /\ WF_streamVars(ClientReads)
  /\ \A t \in Threads :
       /\ SF_streamVars(Lock(t) /\ UNCHANGED <<pc, channels, due, connVars>>)
       /\ WF_streamVars(Read(t) /\ UNCHANGED <<pc, channels, due, connVars>>)

StreamSpec == StreamInit /\ [][StreamNext]_streamVars /\ StreamFairness

-----------------------------------------------------------------------------
StreamTypeOK ==
  /\ NamesTypeOK
  /\ pc \in {"verdicts", "wait", "packets", "stats", "over"} \cup DOMAIN After
  /\ verdicts \in 0 .. VCap /\ packets \in 0 .. PCap
  /\ subscribed \in BOOLEAN /\ due \in BOOLEAN
  /\ client \in {"reads", "stalls", "closed", "reset"}
  /\ socket \in 0 .. SockCap
  /\ want[Conn] # None => pc = "write verdict"

(* A client that is gone is noticed, however quiet the wire: the stats of  *)
(* every two seconds are written to find out, and the thread ends.         *)
HangUpNoticed == client \in {"closed", "reset"} ~> pc = "over"

(* The thread takes verdicts (packets) for ever, and from some time on     *)
(* whenever it looks at their channel there is another one.                *)
VerdictsNeverEnd ==
  /\ []<><<TakeVerdict>>_streamVars
  /\ ~[]<><<VerdictsEmpty>>_streamVars

PacketsNeverEnd ==
  /\ []<><<TakePacket>>_streamVars
  /\ ~[]<><<PacketsEmpty>>_streamVars

(* A stream that the ring has cut off comes to its end, so that the page   *)
(* can rejoin, however many verdicts there are on the way: unless its      *)
(* client stalls again and again, or one round of the drain of verdicts    *)
(* (http.rs:222-230) never ends.                                           *)
CutStreamEnds ==
  \/ []<>(client = "stalls")
  \/ VerdictsNeverEnd
  \/ ~subscribed ~> pc = "over"

(* "A stats event every two seconds so the header numbers stay honest even *)
(* on a silent wire" (http.rs:209-211) holds on a busy wire as well, as    *)
(* long as each drain finds its channel empty in the end.                  *)
StatsFlow ==
  \/ []<>(client = "stalls")
  \/ VerdictsNeverEnd \/ PacketsNeverEnd
  \/ due ~> (~due \/ pc = "over")

(* No client, however it stalls, keeps another thread from its names: the  *)
(* mutex is never held across a write.                                     *)
LookupsEnd == \A t \in Threads : want[t] # None ~> want[t] = None
=============================================================================
