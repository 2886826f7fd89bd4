----------------------------- MODULE PacketList -----------------------------
(***************************************************************************)
(* pnpd/ui/index.html, the Packets tab: the list of packets, the verdicts  *)
(* that are matched to them by flow as both arrive, live and in one        *)
(* backfill (Viewer says which), and the rows of the table, which the      *)
(* pause and clear buttons and the filter change.                          *)
(*                                                                         *)
(* The page is single-threaded: a handler is a step, a whole backfilled    *)
(* answer included.  A flow is a tuple and a direction; pktKey and         *)
(* verdictKey are taken to agree on it.  A packet too short for a flow has *)
(* none.  Filters hide flows.                                              *)
(***************************************************************************)
EXTENDS Selections, FiniteSetsExt, SequencesExt

CONSTANTS
  FlowOf,   \* FlowOf[n]: the flow of packet number n, or None
  VFlowOf,  \* VFlowOf[m]: the flow of verdict number m
  Time,     \* Time[n], VTime[m]: when packet n was captured, verdict m given
  VTime,
  Filters,  \* sets of flows that a filter hides, {} among them
  DefaultCap,  \* what ringCap is at first, 4096 in the program,
  RingCap,  \* and the daemon's capacity, which replaces it
  Window,   \* packets a live verdict is compared with, 200 in the program
  None

Numbers == DOMAIN FlowOf
VNumbers == DOMAIN VFlowOf
Flows == {FlowOf[n] : n \in Numbers} \ {None}

(* A packet or a verdict may be received twice. *)
Copies == {"live", "fill"}
Verdicts == [seq : VNumbers, via : Copies]
Packet == [seq : Numbers, via : Copies, verdict : Verdicts \cup {None}]
PacketRow == [seq : Numbers, badge : Verdicts \cup {None}, t : Int]

ASSUME ListAssumption ==
  /\ Numbers = 1 .. Len(FlowOf) /\ VNumbers = 1 .. Len(VFlowOf)
  /\ Len(FlowOf) \in Nat /\ Len(VFlowOf) \in Nat
  /\ Time \in [Numbers -> Int] /\ VTime \in [VNumbers -> Int]
  /\ \A m \in VNumbers : VFlowOf[m] # None
  /\ None \notin Verdicts
  /\ Filters \subseteq SUBSET Flows /\ {} \in Filters
  /\ DefaultCap \in Nat /\ RingCap \in Nat /\ Window \in Nat \ {0}

VARIABLES
  page,      \* packets, pendingVerdicts, the timers of the latter, the rows;
             \* gone is a history: verdicts whose packet has left the list
  ringCap,   \* the limit of the list, and of the table when a row is added
  paused,
  hidden,    \* flows the filter hides
  live,      \* packets, and verdicts, that the stream has brought
  vlive,
  filled,    \* how far the backfill has come,
  fetched,   \* and the packets, and verdicts, it has brought
  vfetched,
  orphans,   \* history: verdicts that no packet claimed in time and that
             \* were drawn as rows of their own,
  undrawn    \* and those that were not, the page being paused

listVars == <<page, ringCap, paused, hidden, live, vlive, filled, fetched, vfetched,
              orphans, undrawn>>

ListInit ==
  /\ page = [packets |-> <<>>, pending |-> <<>>, timers |-> {}, rows |-> <<>>,
             gone |-> {}]
  /\ ringCap = DefaultCap
  /\ paused = FALSE
  /\ hidden = {}
  /\ live = 0 /\ vlive = 0
  /\ filled = "nothing" /\ fetched = {} /\ vfetched = {}
  /\ orphans = {} /\ undrawn = {}

-----------------------------------------------------------------------------
InList(packets) == {p.verdict : p \in ToSet(packets)} \ {None}

Key(v) == VFlowOf[v.seq]
Matches(p) == FlowOf[p.seq] \notin hidden
Row(p) == [seq |-> p.seq, badge |-> p.verdict, t |-> Time[p.seq]]
OrphanRow(v) == [seq |-> 0, badge |-> v, t |-> VTime[v.seq]]

(* attachPendingVerdict: the verdict that has been parked longest. *)
AttachPending(p, pending) ==
  LET same == {i \in 1 .. Len(pending) :
                 FlowOf[p.seq] # None /\ Key(pending[i]) = FlowOf[p.seq]}
  IN  IF same = {} THEN p ELSE [p EXCEPT !.verdict = pending[Min(same)]]

(* The list loses one packet at most, the table all that is too many. *)
Shift(packets) == IF Len(packets) > ringCap THEN Tail(packets) ELSE packets

Newest(rows) ==
  IF Len(rows) > ringCap THEN SubSeq(rows, Len(rows) - ringCap + 1, Len(rows)) ELSE rows

(* add *)
Add(pg, n, via) ==
  LET p == AttachPending([seq |-> n, via |-> via, verdict |-> None], pg.pending)
      packets == Append(pg.packets, p) IN
  [packets |-> Shift(packets),
   gone    |-> pg.gone \cup (InList(packets) \ InList(Shift(packets))),
   pending |-> Filtered(pg.pending, Verdicts \ {p.verdict}),
   timers  |-> pg.timers \ {p.verdict},
   rows    |-> IF ~paused /\ Matches(p) THEN Newest(Append(pg.rows, Row(p)))
               ELSE pg.rows]

ParkForGood(pg, v) ==
  [pg EXCEPT !.pending = Append(@, v)]

Park(pg, v) ==
  [pg EXCEPT !.pending = Append(@, v), !.timers = @ \cup {v}]

Badge(rows, p, v) ==
  LET same == {i \in 1 .. Len(rows) : rows[i].seq = p.seq}
  IN  IF same = {} THEN rows ELSE [rows EXCEPT ![Min(same)].badge = v]

FloorShallow(last, deep) == last - Window + 1

Floor(last, deep) == IF deep THEN 1 ELSE last - Window + 1

(* onVerdict: the newest packet of the flow that has no verdict yet, and   *)
(* the first row of its number; otherwise the verdict is parked.           *)
OnVerdict(pg, v, deep) ==
  LET last == Len(pg.packets)
      free == {i \in 1 .. last : /\ i >= Floor(last, deep)
                                 /\ pg.packets[i].verdict = None
                                 /\ FlowOf[pg.packets[i].seq] = Key(v)}
  IN  IF free = {} THEN Park(pg, v)
      ELSE [pg EXCEPT !.packets[Max(free)].verdict = v,
                      !.rows = Badge(@, pg.packets[Max(free)], v)]

Rebuilt(packets, hid) ==
  LET seen == Filtered(packets, {p \in Packet : FlowOf[p.seq] \notin hid})
  IN  [i \in 1 .. Len(seen) |-> Row(seen[i])]

-----------------------------------------------------------------------------
PacketArrives ==
  /\ live < Len(FlowOf)
  /\ live' = live + 1
  /\ page' = Add(page, live', "live")
  /\ UNCHANGED <<ringCap, paused, hidden, vlive, filled, fetched, vfetched, orphans, undrawn>>

VerdictArrives ==
  /\ vlive < Len(VFlowOf)
  /\ vlive' = vlive + 1
  /\ page' = OnVerdict(page, [seq |-> vlive', via |-> "live"], FALSE)
  /\ UNCHANGED <<ringCap, paused, hidden, live, filled, fetched, vfetched, orphans, undrawn>>

(* An answer of a backfill, some interval of numbers, entry by entry. *)
FillOne(pg, n, what) ==
  IF what = "packets" THEN Add(pg, n, "fill")
  ELSE OnVerdict(pg, [seq |-> n, via |-> "fill"], TRUE)

Filled(lo, hi, what) ==
  LET after[n \in lo - 1 .. hi] ==
        IF n < lo THEN page ELSE FillOne(after[n - 1], n, what)
  IN  after[hi]

FillPackets(lo, hi) ==
  /\ filled = "nothing"
  /\ filled' = "packets" /\ fetched' = lo .. hi
  /\ page' = Filled(lo, hi, "packets")
  /\ UNCHANGED <<ringCap, paused, hidden, live, vlive, vfetched, orphans, undrawn>>

FillVerdicts(lo, hi) ==
  /\ filled = "packets"
  /\ filled' = "all" /\ vfetched' = lo .. hi
  /\ page' = Filled(lo, hi, "verdicts")
  /\ UNCHANGED <<ringCap, paused, hidden, live, vlive, fetched, orphans, undrawn>>

InsertByTime(rows, row) ==
  LET older == {i \in 1 .. Len(rows) : rows[i].t <= row.t}
      at    == IF older = {} THEN 1 ELSE Max(older) + 1
  IN  InsertAt(rows, at, row)

GivenUp(v) ==
  /\ orphans' = IF paused THEN orphans ELSE orphans \cup {v}
  /\ undrawn' = IF paused THEN undrawn \cup {v} ELSE undrawn

OrphanTimerLeavingItParked(v) ==
  /\ v \in page.timers
  /\ page' = [page EXCEPT !.timers = @ \ {v},
                          !.rows = IF paused THEN @ ELSE InsertByTime(@, OrphanRow(v))]
  /\ GivenUp(v)
  /\ UNCHANGED <<ringCap, paused, hidden, live, vlive, filled, fetched, vfetched>>

(* No packet claimed the verdict for 1200 ms.  Nothing is drawn while the  *)
(* page is paused.                                                         *)
OrphanTimer(v) ==
  /\ v \in page.timers
  /\ page' = [page EXCEPT !.timers = @ \ {v}, !.pending = Filtered(@, Verdicts \ {v}),
                          !.rows = IF paused THEN @ ELSE InsertByTime(@, OrphanRow(v))]
  /\ GivenUp(v)
  /\ UNCHANGED <<ringCap, paused, hidden, live, vlive, filled, fetched, vfetched>>

(* The end of a backfill, and every stats event of the stream. *)
SetStats ==
  /\ ringCap # RingCap
  /\ ringCap' = RingCap
  /\ UNCHANGED <<page, paused, hidden, live, vlive, filled, fetched, vfetched, orphans,
                 undrawn>>

Pause ==
  /\ ~paused
  /\ paused' = TRUE
  /\ UNCHANGED <<page, ringCap, hidden, live, vlive, filled, fetched, vfetched, orphans,
                 undrawn>>

ResumeWithoutRebuild ==
  /\ paused
  /\ paused' = FALSE
  /\ UNCHANGED <<page, ringCap, hidden, live, vlive, filled, fetched, vfetched, orphans,
                 undrawn>>

Resume ==
  /\ paused
  /\ paused' = FALSE
  /\ page' = [page EXCEPT !.rows = Rebuilt(page.packets, hidden)]
  /\ UNCHANGED <<ringCap, hidden, live, vlive, filled, fetched, vfetched, orphans, undrawn>>

Clear ==
  /\ page.packets # <<>> \/ page.rows # <<>>
  /\ page' = [page EXCEPT !.packets = <<>>, !.rows = <<>>,
                          !.gone = @ \cup InList(page.packets)]
  /\ UNCHANGED <<ringCap, paused, hidden, live, vlive, filled, fetched, vfetched, orphans,
                 undrawn>>

Filter(hid) ==
  /\ hid # hidden
  /\ hidden' = hid
  /\ page' = [page EXCEPT !.rows = Rebuilt(page.packets, hid)]
  /\ UNCHANGED <<ringCap, paused, live, vlive, filled, fetched, vfetched, orphans, undrawn>>

ListNext ==
  \/ PacketArrives \/ VerdictArrives
  \/ \E lo, hi \in Numbers : lo <= hi /\ FillPackets(lo, hi)
  \/ \E lo, hi \in VNumbers : lo <= hi /\ FillVerdicts(lo, hi)
  \/ \E v \in Verdicts : OrphanTimer(v)
  \/ SetStats \/ Pause \/ Resume \/ Clear
  \/ \E hid \in Filters : Filter(hid)

(* The browser fires a timer that has run out. *)
ListSpec == ListInit /\ [][ListNext]_listVars
            /\ WF_listVars(\E v \in Verdicts : OrphanTimer(v))

-----------------------------------------------------------------------------
Parked == ToSet(page.pending)
Received == {v \in Verdicts : IF v.via = "live" THEN v.seq <= vlive ELSE v.seq \in vfetched}

(* The higher of the two limits. *)
Most == IF RingCap > DefaultCap THEN RingCap ELSE DefaultCap

ListTypeOK ==
  /\ ringCap \in {DefaultCap, RingCap}
  /\ Len(page.packets) <= Most
  /\ \A p \in ToSet(page.packets) : /\ p.seq \in Numbers /\ p.via \in Copies
                                    /\ p.verdict \in Verdicts \cup {None}
  /\ Len(page.rows) <= Most + Cardinality(orphans)
  /\ Parked \cup page.timers \cup orphans \cup undrawn \cup page.gone \subseteq Verdicts
  /\ paused \in BOOLEAN /\ hidden \in Filters
  /\ live \in 0 .. Len(FlowOf) /\ vlive \in 0 .. Len(VFlowOf)
  /\ filled \in {"nothing", "packets", "all"}
  /\ fetched \subseteq Numbers /\ vfetched \subseteq VNumbers

Places == <<Parked, InList(page.packets), page.gone, orphans, undrawn>>

(* Verdicts that the page has received twice. *)
CameTwice == vfetched \cap 1 .. vlive

(* A verdict is in one place: parked with its timer running, on one packet *)
(* of its own flow, in the list or gone from it, or given up, a row of its *)
(* own or, if the page was paused, without a trace.  None is lost or made  *)
(* up, and none that came once is given twice, or both given and declared  *)
(* an orphan.  A verdict that came live and in the backfill has a place    *)
(* for each time it came, since onVerdict compares no numbers: it may be   *)
(* on its packet, and on another packet or declared an orphan as well.     *)
VerdictsConserved ==
  /\ Parked = page.timers /\ Cardinality(Parked) = Len(page.pending)
  /\ Received = UNION ToSet(Places)
  /\ \A i, j \in 1 .. Len(Places) : i # j =>
       \A u \in Places[i], v \in Places[j] : u # v /\ (u.seq = v.seq => u.seq \in CameTwice)
  /\ \A i, j \in 1 .. Len(page.packets) :
       LET u == page.packets[i].verdict
           v == page.packets[j].verdict IN
         u # None => /\ FlowOf[page.packets[i].seq] = Key(u)
                     /\ i # j /\ v # None =>
                          u # v /\ (u.seq = v.seq => u.seq \in CameTwice)

(* Whichever of the two comes first, a packet and a verdict of one flow do *)
(* not both wait for the other, unless the packet is out of the window and *)
(* the verdict came live ("Try recent packets first", :842).               *)
NoMissedMatch ==
  \A i \in 1 .. Len(page.packets), v \in Parked :
    FlowOf[page.packets[i].seq] = Key(v) /\ page.packets[i].verdict = None =>
      i <= Len(page.packets) - Window /\ v.via = "live"

PacketRows == Filtered(page.rows, PacketRow)
Listed == Filtered(page.packets, {p \in Packet : Matches(p)})

(* Unless paused, the table shows the newest of what the list has, in its  *)
(* order, or all of it below older rows that the list has dropped; and a   *)
(* row's badge is its packet's verdict, if the packet came only once.      *)
(* That withstands a limit that is lowered under a list that is full: the  *)
(* table is cut at its next row, the list loses one packet for each that   *)
(* comes and stays as long as it is, so the two limits drift apart.        *)
RowsFollowList ==
  LET rows == [i \in 1 .. Len(PacketRows) |-> PacketRows[i].seq]
      list == [i \in 1 .. Len(Listed) |-> Listed[i].seq]
  IN  /\ ListTypeOK
      /\ ~paused =>
           /\ IsSuffix(rows, list) \/ IsSuffix(list, rows)
           /\ \A r \in ToSet(PacketRows), p \in ToSet(Listed) :
                r.seq = p.seq /\ p.seq \notin fetched \cap 1 .. live =>
                  r.badge = p.verdict

(* Every parked verdict finds a packet or is given up. *)
VerdictsSettle == \A v \in Verdicts : v \in Parked ~> v \notin Parked
=============================================================================
