------------------------------- MODULE Viewer -------------------------------
(***************************************************************************)
(* pnpd/ui/index.html, the data feed of the page: an event stream that     *)
(* breaks and is reopened, and after each opening an asynchronous backfill *)
(* by number of what the page has missed.                                  *)
(*                                                                         *)
(* Packets come from a Feed, which is what PacketRing implements and what  *)
(* a stream connection is promised: in order, each once, until the stream  *)
(* is cut or breaks.  Verdicts promise less: a full channel loses one and  *)
(* the stream goes on (VerdictRing).  They are numbered here without the   *)
(* kernel's holes, which the page does not look at.                        *)
(*                                                                         *)
(* The page is single-threaded: a handler, or the stretch of backfill()    *)
(* from one await to the next, is a step.  A backfill may still be waiting *)
(* when the stream breaks and the next one starts.  Of the page's lists    *)
(* only which numbers were ever put in them is kept: not their order,      *)
(* their repetitions or their length, nor the matching of verdicts to      *)
(* packets.  ViewerRestart adds a daemon that is restarted.               *)
(***************************************************************************)
EXTENDS Feed, Sequences, FiniteSets

CONSTANTS
  Page,         \* the page's stream connection
  VBacklog,     \* verdicts the engine keeps
  Slots,        \* backfills that may be under way at once
  MaxPackets,   \* model bounds: packets and verdicts published,
  MaxVerdicts,
  MaxBreaks,    \* times the network breaks the stream,
  MaxFailures   \* and times it fails a request of the page

ASSUME ViewerAssumption ==
  /\ Conns = {Page}
  /\ Backlog \in Nat \ {0}
  /\ VBacklog \in Nat \ {0}
  /\ IsFiniteSet(Slots) /\ Slots # {}
  /\ {MaxPackets, MaxVerdicts, MaxBreaks, MaxFailures} \subseteq Nat

VARIABLES
  vpublished,      \* verdicts the engine has kept, and how many of the newest
  vheld,           \* its backlog still has
  vstream,         \* verdicts on their way to the page
  open,            \* the EventSource is open
  lastSeq,
  lastVerdictSeq,
  backfills,       \* backfills[b]: where a backfill is, and the number it asked
                   \* from or the numbers it was answered with
  breaks,          \* model bounds: how often the network has failed
  failures,
  seen,            \* history: packets, and verdicts, that were ever added
  vseen,
  excused,         \* history: those that no request in time can have brought:
  vexcused,        \* out of the backlog when asked for, or the request failed,
                   \* or, of verdicts, see OnVerdict
  healed           \* history: a backfill has succeeded since the last failure

serverVars == <<feedVars, vpublished, vheld, vstream>>
pageVars == <<open, lastSeq, lastVerdictSeq, backfills>>
bounds == <<breaks, failures>>
histories == <<seen, vseen, excused, vexcused, healed>>
viewerVars == <<serverVars, pageVars, bounds, histories>>

None == [at |-> "none", from |-> 0, to |-> 0]
Asking(what, since) == [at |-> what, from |-> since, to |-> 0]

ViewerInit ==
  /\ FeedInit
  /\ vpublished = 0
  /\ vheld = 0
  /\ vstream = <<>>
  /\ open = FALSE
  /\ lastSeq = 0
  /\ lastVerdictSeq = 0
  /\ backfills = [b \in Slots |-> None]
  /\ breaks = 0
  /\ failures = 0
  /\ seen = {}
  /\ vseen = {}
  /\ excused = {}
  /\ vexcused = {}
  /\ healed = TRUE

(* Whether backfill b is to bring number m. *)
Pending(m, b, asked, answered) ==
  \/ backfills[b].at = asked /\ backfills[b].from < m
  \/ backfills[b].at = answered
     /\ backfills[b].from <= m /\ m <= backfills[b].to

Larger(m, n) == IF m > n THEN m ELSE n

-----------------------------------------------------------------------------
(* The daemon. *)

PublishPacket ==
  /\ published < MaxPackets
  /\ Publish
  /\ UNCHANGED <<vpublished, vheld, vstream, pageVars, bounds, histories>>

(* A connected page is sent the verdict, or its channel was full. *)
PublishVerdict ==
  /\ vpublished < MaxVerdicts
  /\ vpublished' = vpublished + 1
  /\ vheld' = IF vheld < VBacklog THEN vheld + 1 ELSE vheld
  /\ \/ /\ st[Page] # "none"
        /\ vstream' = Append(vstream, vpublished + 1)
        /\ UNCHANGED vexcused
     \/ /\ st[Page] # "none"
        /\ vexcused' = vexcused \cup {vpublished + 1}
        /\ UNCHANGED vstream
     \/ /\ st[Page] = "none"
        /\ UNCHANGED <<vstream, vexcused>>
  /\ UNCHANGED <<feedVars, pageVars, bounds, seen, vseen, excused, healed>>

(* stream_events subscribes to both feeds before it answers the request. *)
Subscribe ==
  /\ Join(Page)
  /\ UNCHANGED <<vpublished, vheld, vstream, pageVars, bounds, histories>>

(* The page learns that its stream is over, and loses what was under way. *)
StreamOver ==
  /\ Leave(Page)
  /\ vstream' = <<>>
  /\ open' = FALSE
  /\ UNCHANGED <<vpublished, vheld, lastSeq, lastVerdictSeq, backfills, histories>>

EndOfStreamIgnored ==
  /\ st[Page] = "cut"
  /\ got[Page] = due[Page]
  /\ UNCHANGED viewerVars

(* A stream that was cut off is closed once it is drained. *)
EndOfStream ==
  /\ st[Page] = "cut"
  /\ got[Page] = due[Page]
  /\ StreamOver
  /\ UNCHANGED bounds

NetworkBreaks ==
  /\ breaks < MaxBreaks
  /\ breaks' = breaks + 1
  /\ StreamOver
  /\ UNCHANGED failures

(* /api/packets and /api/verdicts: what the backlog holds above the number *)
(* asked for, at the moment the daemon looks.                              *)
AnswerPackets(b) ==
  /\ backfills[b].at = "packets asked"
  /\ LET since == backfills[b].from
         first == Larger(since + 1, published - held + 1)
     IN /\ backfills' = [backfills EXCEPT ![b] =
                           [at |-> "packets answered", from |-> first,
                            to |-> published]]
        /\ excused' = excused \cup (since + 1 .. first - 1)
  /\ UNCHANGED <<serverVars, open, lastSeq, lastVerdictSeq, bounds, seen,
                 vseen, vexcused, healed>>

AnswerVerdicts(b) ==
  /\ backfills[b].at = "verdicts asked"
  /\ LET since == backfills[b].from
         first == Larger(since + 1, vpublished - vheld + 1)
     IN /\ backfills' = [backfills EXCEPT ![b] =
                           [at |-> "verdicts answered", from |-> first,
                            to |-> vpublished]]
        /\ vexcused' = vexcused \cup (since + 1 .. first - 1)
  /\ UNCHANGED <<serverVars, open, lastSeq, lastVerdictSeq, bounds, seen,
                 vseen, excused, healed>>

-----------------------------------------------------------------------------
(* The page. *)

OnOpenAsksNothing ==
  /\ st[Page] # "none"
  /\ ~open
  /\ open' = TRUE
  /\ UNCHANGED <<serverVars, lastSeq, lastVerdictSeq, backfills, bounds,
                 histories>>

(* es.onopen: backfill() runs to its first await. *)
OnOpen ==
  /\ st[Page] # "none"
  /\ ~open
  /\ open' = TRUE
  /\ \E b \in Slots :
       /\ backfills[b] = None
       /\ backfills' = [backfills EXCEPT ![b] = Asking("packets asked", lastSeq)]
  /\ UNCHANGED <<serverVars, lastSeq, lastVerdictSeq, bounds, histories>>

(* add(meta) *)
Add(n) == /\ seen' = seen \cup {n}
          /\ lastSeq' = Larger(lastSeq, n)

OnPacket ==
  /\ open
  /\ Deliver(Page)
  /\ Add(got[Page] + 1)
  /\ UNCHANGED <<vpublished, vheld, vstream, open, lastVerdictSeq, backfills, bounds,
                 vseen, excused, vexcused, healed>>

(* onVerdict.  It moves lastVerdictSeq, and a backfill that has yet to     *)
(* reach its second request will not ask for what it has moved past.       *)
OnVerdict ==
  /\ open
  /\ vstream # <<>>
  /\ vstream' = Tail(vstream)
  /\ LET n == Head(vstream) IN
       /\ vseen' = vseen \cup {n}
       /\ lastVerdictSeq' = Larger(lastVerdictSeq, n)
       /\ IF \E b \in Slots : backfills[b].at \in {"packets asked",
                                                   "packets answered"}
            THEN vexcused' = vexcused \cup (lastVerdictSeq + 1 .. n - 1)
            ELSE UNCHANGED vexcused
  /\ UNCHANGED <<feedVars, vpublished, vheld, open, lastSeq, backfills, bounds, seen,
                 excused, healed>>

AddPacketsAsksLastSeq(b) ==
  /\ backfills[b].at = "packets answered"
  /\ LET body == backfills[b].from .. backfills[b].to IN
       /\ seen' = seen \cup body
       /\ lastSeq' = IF body = {} THEN lastSeq
                     ELSE Larger(lastSeq, backfills[b].to)
  /\ backfills' = [backfills EXCEPT ![b] = Asking("verdicts asked", lastSeq)]
  /\ UNCHANGED <<serverVars, open, lastVerdictSeq, bounds, vseen, excused,
                 vexcused, healed>>

(* backfill(), between its first and its second await. *)
AddPackets(b) ==
  /\ backfills[b].at = "packets answered"
  /\ LET body == backfills[b].from .. backfills[b].to IN
       /\ seen' = seen \cup body
       /\ lastSeq' = IF body = {} THEN lastSeq
                     ELSE Larger(lastSeq, backfills[b].to)
  /\ backfills' = [backfills EXCEPT ![b] = Asking("verdicts asked", lastVerdictSeq)]
  /\ UNCHANGED <<serverVars, open, lastVerdictSeq, bounds, vseen, excused,
                 vexcused, healed>>

(* ... and after the second; the rest only refreshes the header. *)
AddVerdicts(b) ==
  /\ backfills[b].at = "verdicts answered"
  /\ LET body == backfills[b].from .. backfills[b].to IN
       /\ vseen' = vseen \cup body
       /\ lastVerdictSeq' = IF body = {} THEN lastVerdictSeq
                            ELSE Larger(lastVerdictSeq, backfills[b].to)
  /\ backfills' = [backfills EXCEPT ![b] = None]
  /\ healed' = TRUE
  /\ UNCHANGED <<serverVars, open, lastSeq, bounds, seen, excused, vexcused>>

(* What the page does not get when backfill b fails. *)
Forgone(b) ==
  {m \in 1 .. published : Pending(m, b, "packets asked", "packets answered")}

VForgone(b) ==
  IF backfills[b].at \in {"packets asked", "packets answered"}
    THEN lastVerdictSeq + 1 .. vpublished
    ELSE {m \in 1 .. vpublished :
            Pending(m, b, "verdicts asked", "verdicts answered")}

(* A fetch throws: the catch gives up the whole backfill. *)
BackfillFails(b) ==
  /\ failures < MaxFailures
  /\ backfills[b] # None
  /\ failures' = failures + 1
  /\ excused' = excused \cup Forgone(b)
  /\ vexcused' = vexcused \cup VForgone(b)
  /\ backfills' = [backfills EXCEPT ![b] = None]
  /\ healed' = FALSE
  /\ UNCHANGED <<serverVars, open, lastSeq, lastVerdictSeq, breaks, seen, vseen>>

Backfilling ==
  \E b \in Slots : \/ AnswerPackets(b) \/ AnswerVerdicts(b)
                   \/ AddPackets(b)    \/ AddVerdicts(b)

ViewerNext ==
  \/ PublishPacket
  \/ PublishVerdict
  \/ Subscribe
  \/ EndOfStream
  \/ NetworkBreaks
  \/ OnOpen
  \/ OnPacket
  \/ OnVerdict
  \/ Backfilling
  \/ \E b \in Slots : BackfillFails(b)

(* The stream thread drains its channels and ends a stream that was cut    *)
(* (http.rs:222-248), an EventSource reconnects by itself, and a request   *)
(* the network does not fail is answered and its answer processed.         *)
ViewerSpec ==
  /\ ViewerInit
  /\ [][ViewerNext]_viewerVars
  /\ WF_viewerVars(Subscribe)
  /\ WF_viewerVars(OnOpen)
  /\ WF_viewerVars(OnPacket)
  /\ WF_viewerVars(EndOfStream)
  /\ WF_viewerVars(Backfilling)

-----------------------------------------------------------------------------
(* Types; and without a connection nothing is open or under way. *)
ViewerTypeOK ==
  /\ {vpublished, lastSeq, lastVerdictSeq, breaks, failures} \subseteq Nat
  /\ vheld \in 0 .. vpublished
  /\ vstream \in Seq(1 .. vpublished)
  /\ {open, healed} \subseteq BOOLEAN
  /\ backfills \in [Slots -> [at : {"none", "packets asked", "packets answered",
                                    "verdicts asked", "verdicts answered"},
                              from : Nat, to : Nat]]
  /\ seen \cup excused \subseteq 1 .. published
  /\ vseen \cup vexcused \subseteq 1 .. vpublished
  /\ st[Page] = "none" => ~open /\ vstream = <<>>

(* The page's numbers can be trusted: a packet below lastSeq that it does  *)
(* not have is one a backfill under way will bring, was out of the backlog *)
(* when the page asked, or fell to a failed request (:685, :1344-1345).    *)
(* Streams may break, overlap with older backfills, and be reopened.       *)
PacketHolesExplained ==
  /\ ViewerTypeOK
  /\ \A m \in 1 .. lastSeq :
       \/ m \in seen \cup excused
       \/ \E b \in Slots : Pending(m, b, "packets asked", "packets answered")

(* The same of verdicts, with one more way to lose them: a live verdict    *)
(* that overtakes the backfill's second request (:840, :1346).             *)
VerdictHolesExplained ==
  \A m \in 1 .. lastVerdictSeq :
    \/ m \in vseen \cup vexcused
    \/ \E b \in Slots : Pending(m, b, "verdicts asked", "verdicts answered")

(* The page keeps up: every packet is eventually shown, unless it was out  *)
(* of the backlog when the page asked or fell to a failed request. A break *)
(* of the stream, or being cut off, is no excuse (:1342-1356).             *)
EveryPacketShown ==
  \A n \in 1 .. MaxPackets : (published >= n) ~> (n \in seen \cup excused)

(* "stream reconnect will retry" (:1352): when a later backfill has come   *)
(* through, no packet the backlog still has is missing from the page.      *)
RetryHeals ==
  open /\ healed /\ (\A b \in Slots : backfills[b] = None)
    => \A m \in published - held + 1 .. lastSeq : m \in seen
=============================================================================
