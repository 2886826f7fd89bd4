-------------------------- MODULE PacketListProofs --------------------------
(***************************************************************************)
(* What the Packets tab guarantees for every list of packets and verdicts, *)
(* every assignment of flows, and every size of the list and the window.   *)
(*                                                                         *)
(* Add and OnVerdict turn one page into the next, live or within an answer *)
(* of a backfill, so the invariants are stated of a page.                  *)
(***************************************************************************)
EXTENDS PacketList, Lemmas, FiniteSetTheorems

TableRow == [seq : Numbers \cup {0}, badge : Verdicts \cup {None}, t : Int]

PageType ==
  [packets : Seq(Packet), pending : Seq(Verdicts), timers : SUBSET Verdicts,
   rows : Seq(TableRow), gone : SUBSET Verdicts]

(* No verdict is given to a packet of another flow, or twice. *)
Given(packets) ==
  \A i, j \in 1 .. Len(packets) :
    packets[i].verdict # None =>
      /\ FlowOf[packets[i].seq] = Key(packets[i].verdict)
      /\ i # j => packets[j].verdict # packets[i].verdict

Placed(pg, gaveUp) ==
  Range(pg.pending) \cup InList(pg.packets) \cup pg.gone \cup gaveUp

Apart(pg, gaveUp) ==
  /\ Range(pg.pending) \cap (InList(pg.packets) \cup pg.gone \cup gaveUp) = {}
  /\ InList(pg.packets) \cap (pg.gone \cup gaveUp) = {}
  /\ pg.gone \cap gaveUp = {}

PageOK(pg, gaveUp) ==
  /\ pg \in PageType
  /\ Len(pg.packets) <= Most
  /\ IsInjective(pg.pending) /\ pg.timers = Range(pg.pending)
  /\ Apart(pg, gaveUp)
  /\ Given(pg.packets)

(* NoMissedMatch, of a page. *)
NoMissed(pg) ==
  \A i \in 1 .. Len(pg.packets), v \in Range(pg.pending) :
    FlowOf[pg.packets[i].seq] = Key(v) /\ pg.packets[i].verdict = None =>
      i <= Len(pg.packets) - Window /\ v.via = "live"

(* The two limits that the page works with. *)
CapOK == ringCap \in {DefaultCap, RingCap}

LEMMA Limits == Most \in Nat /\ (CapOK => ringCap \in Nat /\ ringCap <= Most)
BY ListAssumption DEF Most, CapOK

-----------------------------------------------------------------------------
(* The least and the greatest of some positions of a sequence. *)
LEMMA Extremes ==
  ASSUME NEW n \in Nat, NEW I \in SUBSET (1 .. n), I # {}
  PROVE  /\ Min(I) \in I /\ \A i \in I : Min(I) <= i
         /\ Max(I) \in I /\ \A i \in I : i <= Max(I)
<1>1. I \in SUBSET Nat /\ I \in SUBSET (0 .. n)
      OBVIOUS
<1>2. \E m \in I : \A i \in I : m <= i
      BY <1>1, LeastNatural
<1>3. \E m \in I : \A i \in I : i <= m
      BY <1>1, GreatestNatural
<1>4. \E m \in I : \A i \in I : m >= i
      BY <1>1, <1>3
<1>5. Min(I) \in I /\ \A i \in I : Min(I) <= i
      BY <1>2, Zenon DEF Min
<1>6. Max(I) \in I /\ \A i \in I : Max(I) >= i
      BY <1>4, Zenon DEF Max
<1> QED BY <1>1, <1>5, <1>6

LEMMA ToSetIsRange == \A s : ToSet(s) = Range(s)
BY DEF ToSet, Range

LEMMA FlowsOfVerdicts == \A v \in Verdicts : Key(v) # None
BY ListAssumption DEF Key, Verdicts

(* attachPendingVerdict takes a parked verdict of the packet's flow if     *)
(* there is one.                                                           *)
LEMMA Attached ==
  ASSUME NEW pending \in Seq(Verdicts), NEW n \in Numbers, NEW via \in Copies
  PROVE  LET p == AttachPending([seq |-> n, via |-> via, verdict |-> None], pending)
         IN /\ p \in Packet /\ p.seq = n /\ p.via = via
            /\ \/ /\ p.verdict = None
                  /\ FlowOf[n] # None => \A v \in Range(pending) : Key(v) # FlowOf[n]
               \/ /\ p.verdict \in Range(pending) /\ p.verdict # None
                  /\ FlowOf[n] # None /\ Key(p.verdict) = FlowOf[n]
<1> DEFINE q == [seq |-> n, via |-> via, verdict |-> None]
           same == {i \in 1 .. Len(pending) :
                      FlowOf[q.seq] # None /\ Key(pending[i]) = FlowOf[q.seq]}
<1>1. Range(pending) = {pending[i] : i \in 1 .. Len(pending)} /\ Len(pending) \in Nat
      BY RangeEquality, LenProperties
<1>2. CASE same = {}
  <2>1. AttachPending(q, pending) = q
        BY <1>2 DEF AttachPending
  <2>2. q \in Packet
        BY DEF Packet
  <2> QED BY <1>1, <1>2, <2>1, <2>2
<1>3. CASE same # {}
  <2> DEFINE v == pending[Min(same)]
  <2>1. Min(same) \in same
        BY <1>1, <1>3, Extremes
  <2>2. v \in Verdicts /\ v \in Range(pending) /\ v # None
    <3>1. Min(same) \in 1 .. Len(pending)
          BY <2>1
    <3>2. v \in Verdicts
          BY <3>1, ElementOfSeq
    <3> QED BY <1>1, <3>1, <3>2, ListAssumption
  <2>3. FlowOf[n] # None /\ Key(v) = FlowOf[n]
        BY <2>1
  <2>4. AttachPending(q, pending) = [q EXCEPT !.verdict = v]
        BY <1>3 DEF AttachPending
  <2> HIDE DEF v
  <2>5. [q EXCEPT !.verdict = v] = [seq |-> n, via |-> via, verdict |-> v]
        OBVIOUS
  <2> QED BY <2>2, <2>3, <2>4, <2>5 DEF Packet
<1> QED BY <1>2, <1>3

-----------------------------------------------------------------------------
(* A packet is appended to the list, and the oldest shifted out of it. *)
LEMMA InListAppend ==
  ASSUME NEW packets \in Seq(Packet), NEW p \in Packet
  PROVE  InList(Append(packets, p)) = InList(packets) \cup ({p.verdict} \ {None})
<1>1. ToSet(Append(packets, p)) = ToSet(packets) \cup {p}
      BY RangeAppend, ToSetIsRange
<1> QED BY <1>1 DEF InList

LEMMA InListTail ==
  ASSUME NEW packets \in Seq(Packet), packets # <<>>
  PROVE  InList(packets) = InList(Tail(packets)) \cup ({Head(packets).verdict} \ {None})
<1>1. ToSet(packets) = ToSet(Tail(packets)) \cup {Head(packets)}
      BY RangeHead, ToSetIsRange
<1> QED BY <1>1 DEF InList

LEMMA InListType ==
  ASSUME NEW packets \in Seq(Packet)
  PROVE  InList(packets) \subseteq Verdicts
<1>1. \A p \in ToSet(packets) : p \in Packet
      BY RangeOfSeq, ToSetIsRange
<1> QED BY <1>1 DEF InList, Packet

LEMMA InListHas ==
  ASSUME NEW packets \in Seq(Packet), NEW i \in 1 .. Len(packets),
         packets[i].verdict # None
  PROVE  packets[i].verdict \in InList(packets)
<1>1. packets[i] \in ToSet(packets)
      BY RangeEquality, ToSetIsRange
<1> QED BY <1>1 DEF InList

LEMMA GivenAppend ==
  ASSUME NEW packets \in Seq(Packet), NEW p \in Packet, Given(packets),
         p.verdict # None => FlowOf[p.seq] = Key(p.verdict),
         p.verdict \notin InList(packets)
  PROVE  Given(Append(packets, p))
<1> DEFINE u == Append(packets, p)
<1>1. /\ Len(u) = Len(packets) + 1 /\ Len(packets) \in Nat /\ u[Len(packets) + 1] = p
      /\ \A i \in 1 .. Len(packets) : u[i] = packets[i]
      BY AppendProperties, LenProperties
<1>2. \A i \in 1 .. Len(packets) :
        packets[i].verdict # None => packets[i].verdict # p.verdict
      BY InListHas
<1> HIDE DEF u
<1>3. \A i \in 1 .. Len(u) : i \in 1 .. Len(packets) \/ i = Len(packets) + 1
      BY <1>1
<1>4. ASSUME NEW i \in 1 .. Len(u), NEW j \in 1 .. Len(u), u[i].verdict # None
      PROVE  FlowOf[u[i].seq] = Key(u[i].verdict) /\ (i # j => u[j].verdict # u[i].verdict)
  <2>1. CASE i = Len(packets) + 1
    <3>1. u[i] = p
          BY <1>1, <2>1
    <3>2. i # j => j \in 1 .. Len(packets)
          BY <1>3, <2>1
    <3> QED BY <1>1, <1>2, <1>4, <3>1, <3>2
  <2>2. CASE i \in 1 .. Len(packets)
    <3>1. u[i] = packets[i]
          BY <1>1, <2>2
    <3>2. CASE j = Len(packets) + 1
          BY <1>1, <1>2, <1>4, <2>2, <3>1, <3>2 DEF Given
    <3>3. CASE j \in 1 .. Len(packets)
          BY <1>1, <1>4, <2>2, <3>1, <3>3 DEF Given
    <3> QED BY <1>3, <3>2, <3>3
  <2> QED BY <1>3, <2>1, <2>2
<1>5. Given(u)
      BY <1>4 DEF Given
<1> QED BY <1>5 DEF u

LEMMA GivenTail ==
  ASSUME NEW packets \in Seq(Packet), packets # <<>>, Given(packets)
  PROVE  Given(Tail(packets))
<1> DEFINE t == Tail(packets)
<1>1. /\ Len(t) = Len(packets) - 1 /\ Len(packets) \in Nat
      /\ \A i \in 1 .. Len(t) : t[i] = packets[i + 1]
      BY HeadTailProperties, LenProperties
<1>2. \A i \in 1 .. Len(t) : i + 1 \in 1 .. Len(packets)
      BY <1>1
<1> HIDE DEF t
<1>3. Given(t)
  <2> SUFFICES ASSUME NEW i \in 1 .. Len(t), NEW j \in 1 .. Len(t), t[i].verdict # None
               PROVE  /\ FlowOf[t[i].seq] = Key(t[i].verdict)
                      /\ i # j => t[j].verdict # t[i].verdict
      BY DEF Given
  <2>1. t[i] = packets[i + 1] /\ t[j] = packets[j + 1] /\ (i # j => i + 1 # j + 1)
        BY <1>1
  <2> QED BY <1>2, <2>1 DEF Given
<1> QED BY <1>3 DEF t

LEMMA Shifted ==
  ASSUME CapOK, NEW packets \in Seq(Packet), Len(packets) <= Most + 1
  PROVE  /\ Shift(packets) \in Seq(Packet) /\ Len(Shift(packets)) <= Most
         /\ InList(Shift(packets)) \subseteq InList(packets)
         /\ Given(packets) => Given(Shift(packets))
         /\ \/ Shift(packets) = packets
            \/ packets # <<>> /\ Shift(packets) = Tail(packets)
<1>1. CASE Len(packets) > ringCap
  <2>1. packets # <<>> /\ Shift(packets) = Tail(packets)
        BY <1>1, Limits, LenProperties DEF Shift
  <2>2. Tail(packets) \in Seq(Packet) /\ Len(Tail(packets)) = Len(packets) - 1
        BY <2>1, HeadTailProperties
  <2>3. Len(Tail(packets)) <= Most
        BY <2>2, LenProperties, Limits
  <2> QED BY <2>1, <2>2, <2>3, InListTail, GivenTail
<1>2. CASE ~(Len(packets) > ringCap)
  <2>1. Shift(packets) = packets
        BY <1>2 DEF Shift
  <2>2. Len(packets) <= Most
        BY <1>2, LenProperties, Limits
  <2> QED BY <2>1, <2>2
<1> QED BY <1>1, <1>2

-----------------------------------------------------------------------------
LEMMA RowType == \A p \in Packet : Row(p) \in TableRow /\ Row(p) \in PacketRow
BY ListAssumption DEF Packet, Row, TableRow, PacketRow

LEMMA RowIs == \A p : Row(p).seq = p.seq /\ Row(p).badge = p.verdict
BY DEF Row

LEMMA NewestType ==
  ASSUME CapOK, NEW rows \in Seq(TableRow)
  PROVE  Newest(rows) \in Seq(TableRow) /\ Len(Newest(rows)) <= Len(rows)
<1>1. Len(rows) \in Nat /\ ringCap \in Nat
      BY LenProperties, Limits
<1>2. CASE Len(rows) > ringCap
  <2>1. Len(rows) - ringCap \in 0 .. Len(rows)
        BY <1>1, <1>2
  <2>2. /\ Newest(rows) \in Seq(TableRow)
        /\ Len(Newest(rows)) = Len(rows) - (Len(rows) - ringCap)
        BY <1>2, <2>1, EndIs DEF Newest
  <2>3. Len(rows) - (Len(rows) - ringCap) <= Len(rows)
        BY <1>1, <1>2
  <2> QED BY <2>2, <2>3
<1>3. CASE ~(Len(rows) > ringCap)
      BY <1>1, <1>3 DEF Newest
<1> QED BY <1>2, <1>3

LEMMA AddType ==
  ASSUME CapOK, NEW pg \in PageType, Len(pg.packets) <= Most,
         NEW n \in Numbers, NEW via \in Copies
  PROVE  Add(pg, n, via) \in PageType /\ Len(Add(pg, n, via).packets) <= Most
<1> DEFINE p  == AttachPending([seq |-> n, via |-> via, verdict |-> None], pg.pending)
           ps == Append(pg.packets, p)
           pr == Add(pg, n, via)
<1>1. /\ pg.packets \in Seq(Packet) /\ pg.pending \in Seq(Verdicts)
      /\ pg.rows \in Seq(TableRow) /\ pg.gone \subseteq Verdicts
      /\ pg.timers \subseteq Verdicts
      BY DEF PageType
<1>2. /\ pr.packets = Shift(ps) /\ pr.pending = Filtered(pg.pending, Verdicts \ {p.verdict})
      /\ pr.timers = pg.timers \ {p.verdict}
      /\ pr.gone = pg.gone \cup (InList(ps) \ InList(Shift(ps)))
      /\ pr.rows = (IF ~paused /\ Matches(p) THEN Newest(Append(pg.rows, Row(p)))
                                            ELSE pg.rows)
      /\ pr = [packets |-> pr.packets, gone |-> pr.gone, pending |-> pr.pending,
               timers |-> pr.timers, rows |-> pr.rows]
      BY DEF Add
<1>3. p \in Packet
      BY <1>1, Attached
<1> HIDE DEF p
<1>4. ps \in Seq(Packet) /\ Len(ps) <= Most + 1
  <2>1. ps \in Seq(Packet) /\ Len(ps) = Len(pg.packets) + 1 /\ Len(pg.packets) \in Nat
        BY <1>1, <1>3, AppendProperties, LenProperties
  <2> QED BY <2>1, Limits
<1> HIDE DEF ps, pr
<1>5. Shift(ps) \in Seq(Packet) /\ Len(Shift(ps)) <= Most /\ InList(ps) \subseteq Verdicts
      BY <1>4, Shifted, InListType
<1>6. pr.rows \in Seq(TableRow)
  <2>1. Append(pg.rows, Row(p)) \in Seq(TableRow)
        BY <1>1, <1>3, RowType, AppendProperties
  <2> QED BY <1>1, <1>2, <2>1, NewestType
<1>7. pr.pending \in Seq(Verdicts)
  <2>1. Filtered(pg.pending, Verdicts \ {p.verdict}) \in Seq(Verdicts)
        BY <1>1, FilteredType
  <2> QED BY <1>2, <2>1
<1>8. pr.timers \subseteq Verdicts /\ pr.gone \subseteq Verdicts
      BY <1>1, <1>2, <1>5
<1>9. pr \in PageType
      BY <1>2, <1>5, <1>6, <1>7, <1>8 DEF PageType
<1> QED BY <1>2, <1>5, <1>9 DEF pr

(* add keeps every verdict in one place: the packet takes a parked one, or *)
(* none of its flow is parked, and what is shifted out is accounted for.   *)
LEMMA AddKeeps ==
  ASSUME CapOK, NEW gaveUp \in SUBSET Verdicts, NEW pg, PageOK(pg, gaveUp), NoMissed(pg),
         NEW n \in Numbers, NEW via \in Copies
  PROVE  /\ PageOK(Add(pg, n, via), gaveUp) /\ NoMissed(Add(pg, n, via))
         /\ Placed(Add(pg, n, via), gaveUp) = Placed(pg, gaveUp)
<1> DEFINE p  == AttachPending([seq |-> n, via |-> via, verdict |-> None], pg.pending)
           ps == Append(pg.packets, p)
           pp == Filtered(pg.pending, Verdicts \ {p.verdict})
           pr == Add(pg, n, via)
<1>1. /\ pg.packets \in Seq(Packet) /\ pg.pending \in Seq(Verdicts)
      /\ pg.rows \in Seq(TableRow) /\ pg.gone \subseteq Verdicts
      /\ pg.timers = Range(pg.pending) /\ Len(pg.packets) <= Most
      /\ Given(pg.packets) /\ IsInjective(pg.pending) /\ Apart(pg, gaveUp)
      BY DEF PageOK, PageType
<1>2. /\ p \in Packet /\ p.seq = n /\ p.via = via
      /\ \/ /\ p.verdict = None
            /\ FlowOf[n] # None => \A v \in Range(pg.pending) : Key(v) # FlowOf[n]
         \/ /\ p.verdict \in Range(pg.pending) /\ p.verdict # None
            /\ FlowOf[n] # None /\ Key(p.verdict) = FlowOf[n]
      BY <1>1, Attached
<1>3. /\ pr.packets = Shift(ps) /\ pr.pending = pp /\ pr.timers = pg.timers \ {p.verdict}
      /\ pr.gone = pg.gone \cup (InList(ps) \ InList(Shift(ps)))
      /\ pr.rows = (IF ~paused /\ Matches(p) THEN Newest(Append(pg.rows, Row(p)))
                                            ELSE pg.rows)
      /\ pr = [packets |-> pr.packets, gone |-> pr.gone, pending |-> pr.pending,
               timers |-> pr.timers, rows |-> pr.rows]
      BY DEF Add
<1> HIDE DEF p
<1>4. /\ ps \in Seq(Packet) /\ Len(ps) = Len(pg.packets) + 1
      /\ ps[Len(pg.packets) + 1] = p /\ Len(pg.packets) \in Nat
      /\ \A i \in 1 .. Len(pg.packets) : ps[i] = pg.packets[i]
      /\ InList(ps) = InList(pg.packets) \cup ({p.verdict} \ {None})
      BY <1>1, <1>2, AppendProperties, LenProperties, InListAppend
<1>5. Range(pg.pending) \subseteq Verdicts /\ None \notin InList(pg.packets)
      BY <1>1, RangeOfSeq DEF InList
<1>6. Given(ps)
  <2>1. p.verdict \notin InList(pg.packets)
        BY <1>1, <1>2, <1>5 DEF Apart
  <2> QED BY <1>1, <1>2, <2>1, GivenAppend
<1>7. /\ pp \in Seq(Verdicts) /\ Range(pp) = Range(pg.pending) \ {p.verdict}
      /\ IsInjective(pp)
  <2>1. Range(pp) = Range(pg.pending) \cap (Verdicts \ {p.verdict})
        BY <1>1, FilteredRange
  <2> QED BY <1>1, <1>5, <2>1, FilteredType, FilteredDistinct
<1> HIDE DEF ps, pp, pr
<1>8. /\ Shift(ps) \in Seq(Packet) /\ Len(Shift(ps)) <= Most
      /\ InList(Shift(ps)) \subseteq InList(ps) /\ Given(Shift(ps))
      /\ \/ Shift(ps) = ps
         \/ ps # <<>> /\ Shift(ps) = Tail(ps)
  <2>1. Len(ps) <= Most + 1
        BY <1>1, <1>4, Limits
  <2> QED BY <1>4, <1>6, <2>1, Shifted
<1>11. pr \in PageType
      BY <1>1, AddType DEF PageOK, pr
<1>12. Apart(pr, gaveUp)
      BY <1>1, <1>2, <1>3, <1>4, <1>5, <1>7, <1>8 DEF Apart
<1>13. Placed(pr, gaveUp) = Placed(pg, gaveUp)
  <2>1. /\ InList(pr.packets) \cup pr.gone = InList(ps) \cup pg.gone
        /\ Range(pr.pending) = Range(pg.pending) \ {p.verdict}
        BY <1>3, <1>7, <1>8
  <2>2. Placed(pr, gaveUp) =
          (Range(pg.pending) \ {p.verdict}) \cup InList(ps) \cup pg.gone \cup gaveUp
        BY <2>1 DEF Placed
  <2>3. (Range(pg.pending) \ {p.verdict}) \cup InList(ps) =
          Range(pg.pending) \cup InList(pg.packets)
    <3>1. CASE p.verdict = None
      <4>1. None \notin Range(pg.pending)
            BY <1>5, ListAssumption
      <4> QED BY <1>4, <3>1, <4>1
    <3>2. CASE p.verdict \in Range(pg.pending) /\ p.verdict # None
          BY <1>4, <3>2
    <3> QED BY <1>2, <3>1, <3>2
  <2> QED BY <2>2, <2>3 DEF Placed
<1>14. PageOK(pr, gaveUp)
      BY <1>1, <1>3, <1>7, <1>8, <1>11, <1>12 DEF PageOK
<1>15. ASSUME NEW i \in 1 .. Len(ps), NEW v \in Range(pp),
              FlowOf[ps[i].seq] = Key(v), ps[i].verdict = None
       PROVE  i <= Len(pg.packets) - Window /\ v.via = "live"
  <2>1. v \in Range(pg.pending) /\ Key(v) # None
        BY <1>5, <1>7, FlowsOfVerdicts
  <2>2. i # Len(pg.packets) + 1
        BY <1>2, <1>4, <1>15, <2>1
  <2>3. i \in 1 .. Len(pg.packets) /\ ps[i] = pg.packets[i]
        BY <1>4, <2>2
  <2> QED BY <1>15, <2>1, <2>3 DEF NoMissed
<1>16. NoMissed(pr)
  <2> SUFFICES ASSUME NEW i \in 1 .. Len(pr.packets), NEW v \in Range(pr.pending),
                      FlowOf[pr.packets[i].seq] = Key(v), pr.packets[i].verdict = None
               PROVE  i <= Len(pr.packets) - Window /\ v.via = "live"
      BY DEF NoMissed
  <2>0. Window \in Int
        BY ListAssumption
  <2>1. CASE pr.packets = ps
        BY <1>3, <1>4, <1>15, <2>0, <2>1
  <2>2. CASE ps # <<>> /\ pr.packets = Tail(ps)
    <3>1. /\ Len(pr.packets) = Len(ps) - 1 /\ pr.packets[i] = ps[i + 1]
          /\ i + 1 \in 1 .. Len(ps)
          BY <1>4, <2>2, HeadTailProperties
    <3>2. i + 1 <= Len(pg.packets) - Window /\ v.via = "live"
          BY <1>3, <1>15, <3>1
    <3> QED BY <1>4, <2>0, <3>1, <3>2
  <2> QED BY <1>3, <1>8, <2>1, <2>2
<1> QED BY <1>13, <1>14, <1>16 DEF pr

(* onVerdict parks the verdict, or gives it to a packet that waits for it; *)
(* the badge of the first row of its number follows.                       *)
BadgeSet(rs, rows, n, v) ==
  /\ Len(rs) = Len(rows)
  /\ \A i \in 1 .. Len(rows) :
       /\ rs[i].seq = rows[i].seq
       /\ rs[i].badge = rows[i].badge \/ (rows[i].seq = n /\ rs[i].badge = v)
  /\ \A i \in 1 .. Len(rows) : rows[i].seq = n =>
       \E m \in 1 .. Len(rows) : rows[m].seq = n /\ rs[m].badge = v

GivenTo(ps, packets, k, v) ==
  /\ Len(ps) = Len(packets)
  /\ packets[k].verdict = None /\ FlowOf[packets[k].seq] = Key(v)
  /\ \A i \in 1 .. Len(packets) :
       /\ ps[i].seq = packets[i].seq
       /\ ps[i].verdict = IF i = k THEN v ELSE packets[i].verdict

LEMMA Badged ==
  ASSUME NEW rows \in Seq(TableRow), NEW p, NEW v \in Verdicts
  PROVE  /\ Badge(rows, p, v) \in Seq(TableRow)
         /\ BadgeSet(Badge(rows, p, v), rows, p.seq, v)
<1> DEFINE same == {i \in 1 .. Len(rows) : rows[i].seq = p.seq}
           m    == Min(same)
           rs   == Badge(rows, p, v)
<1>1. CASE same = {}
      BY <1>1 DEF Badge, BadgeSet
<1>2. CASE same # {}
  <2>1. m \in 1 .. Len(rows) /\ rows[m].seq = p.seq
    <3>1. m \in same
          BY <1>2, LenProperties, Extremes
    <3> HIDE DEF m
    <3> QED BY <3>1
  <2>2. rs = [rows EXCEPT ![m].badge = v]
        BY <1>2 DEF Badge
  <2>3. \A i \in 1 .. Len(rows) : rows[i] \in TableRow
        BY ElementOfSeq
  <2>4. [rows[m] EXCEPT !.badge = v] \in TableRow
        BY <2>1, <2>3 DEF TableRow
  <2> HIDE DEF m, rs
  <2>5. rs = [rows EXCEPT ![m] = [rows[m] EXCEPT !.badge = v]]
        BY <2>2
  <2>6. /\ rs \in Seq(TableRow) /\ Len(rs) = Len(rows)
        /\ \A i \in 1 .. Len(rows) : rs[i] = IF i = m THEN [rows[m] EXCEPT !.badge = v]
                                                    ELSE rows[i]
        BY <2>1, <2>4, <2>5, ExceptSeq
  <2>7. [rows[m] EXCEPT !.badge = v].seq = rows[m].seq /\ [rows[m] EXCEPT !.badge = v].badge = v
        BY <2>1, <2>3 DEF TableRow
  <2>8. BadgeSet(rs, rows, p.seq, v)
        BY <2>1, <2>6, <2>7 DEF BadgeSet
  <2> QED BY <2>6, <2>8 DEF rs
<1> QED BY <1>1, <1>2

LEMMA OnVerdictIs ==
  ASSUME NEW pg \in PageType, NEW v \in Verdicts, NEW deep \in BOOLEAN
  PROVE  \/ /\ OnVerdict(pg, v, deep) =
                 [packets |-> pg.packets, pending |-> Append(pg.pending, v),
                  timers |-> pg.timers \cup {v}, rows |-> pg.rows, gone |-> pg.gone]
            /\ \A i \in 1 .. Len(pg.packets) :
                 pg.packets[i].verdict = None /\ FlowOf[pg.packets[i].seq] = Key(v) =>
                   ~deep /\ i <= Len(pg.packets) - Window
         \/ \E k \in 1 .. Len(pg.packets), ps \in Seq(Packet), rs \in Seq(TableRow) :
              /\ OnVerdict(pg, v, deep) =
                   [packets |-> ps, pending |-> pg.pending, timers |-> pg.timers,
                    rows |-> rs, gone |-> pg.gone]
              /\ GivenTo(ps, pg.packets, k, v)
              /\ BadgeSet(rs, pg.rows, pg.packets[k].seq, v)
<1> DEFINE last == Len(pg.packets)
           free == {i \in 1 .. last : /\ i >= Floor(last, deep)
                                      /\ pg.packets[i].verdict = None
                                      /\ FlowOf[pg.packets[i].seq] = Key(v)}
           pr   == OnVerdict(pg, v, deep)
<1>1. /\ pg.packets \in Seq(Packet) /\ pg.rows \in Seq(TableRow)
      /\ pg = [packets |-> pg.packets, pending |-> pg.pending, timers |-> pg.timers,
               rows |-> pg.rows, gone |-> pg.gone]
      BY DEF PageType
<1>2. last \in Nat
      BY <1>1, LenProperties
<1>3. CASE free = {}
  <2>1. pr = Park(pg, v)
        BY <1>3 DEF OnVerdict
  <2>2. pr = [packets |-> pg.packets, pending |-> Append(pg.pending, v),
              timers |-> pg.timers \cup {v}, rows |-> pg.rows, gone |-> pg.gone]
        BY <1>1, <2>1 DEF Park
  <2>3. ASSUME NEW i \in 1 .. last, pg.packets[i].verdict = None,
               FlowOf[pg.packets[i].seq] = Key(v)
        PROVE  ~deep /\ i <= last - Window
    <3>1. ~(i >= Floor(last, deep))
          BY <1>3, <2>3
    <3>2. ~deep
          BY <1>2, <3>1 DEF Floor
    <3> QED BY <1>2, <3>1, <3>2, ListAssumption DEF Floor
  <2> QED BY <2>2, <2>3
<1>4. CASE free # {}
  <2> DEFINE k  == Max(free)
             ps == [pg.packets EXCEPT ![k].verdict = v]
             rs == Badge(pg.rows, pg.packets[k], v)
  <2>1. k \in free
        BY <1>2, <1>4, Extremes
  <2>2. pr = [pg EXCEPT !.packets[k].verdict = v, !.rows = Badge(@, pg.packets[k], v)]
        BY <1>4 DEF OnVerdict
  <2>3. pr = [packets |-> ps, pending |-> pg.pending, timers |-> pg.timers,
              rows |-> rs, gone |-> pg.gone]
    <3> HIDE DEF k
    <3> QED BY <1>1, <2>2
  <2>4. k \in 1 .. last /\ pg.packets[k].verdict = None
        /\ FlowOf[pg.packets[k].seq] = Key(v)
        BY <2>1
  <2> HIDE DEF k, free, pr
  <2>5. /\ ps \in Seq(Packet) /\ Len(ps) = last
        /\ \A i \in 1 .. last : ps[i] = IF i = k THEN [pg.packets[k] EXCEPT !.verdict = v]
                                                 ELSE pg.packets[i]
    <3>1. pg.packets[k] \in Packet
          BY <1>1, <2>4, ElementOfSeq
    <3>2. [pg.packets[k] EXCEPT !.verdict = v] \in Packet
          BY <3>1 DEF Packet
    <3>3. ps = [pg.packets EXCEPT ![k] = [pg.packets[k] EXCEPT !.verdict = v]]
          OBVIOUS
    <3> HIDE DEF ps
    <3> QED BY <1>1, <2>4, <3>2, <3>3, ExceptSeq
  <2> HIDE DEF ps
  <2>6. GivenTo(ps, pg.packets, k, v)
    <3>1. pg.packets[k] \in Packet
          BY <1>1, <2>4, ElementOfSeq
    <3>2. /\ [pg.packets[k] EXCEPT !.verdict = v].seq = pg.packets[k].seq
          /\ [pg.packets[k] EXCEPT !.verdict = v].verdict = v
          BY <3>1 DEF Packet
    <3> QED BY <2>4, <2>5, <3>2 DEF GivenTo
  <2>7. rs \in Seq(TableRow) /\ BadgeSet(rs, pg.rows, pg.packets[k].seq, v)
        BY <1>1, Badged
  <2> HIDE DEF rs
  <2> QED BY <2>3, <2>4, <2>5, <2>6, <2>7 DEF pr
<1> QED BY <1>3, <1>4

LEMMA OnVerdictType ==
  ASSUME NEW pg \in PageType, Len(pg.packets) <= Most, NEW v \in Verdicts,
         NEW deep \in BOOLEAN
  PROVE  /\ OnVerdict(pg, v, deep) \in PageType
         /\ Len(OnVerdict(pg, v, deep).packets) <= Most
<1>1. /\ pg.packets \in Seq(Packet) /\ pg.pending \in Seq(Verdicts)
      /\ pg.rows \in Seq(TableRow) /\ pg.gone \subseteq Verdicts
      /\ pg.timers \subseteq Verdicts /\ Append(pg.pending, v) \in Seq(Verdicts)
      BY AppendProperties DEF PageType
<1> DEFINE pr == OnVerdict(pg, v, deep)
<1>2. \/ pr = [packets |-> pg.packets, pending |-> Append(pg.pending, v),
               timers |-> pg.timers \cup {v}, rows |-> pg.rows, gone |-> pg.gone]
      \/ \E ps \in Seq(Packet), rs \in Seq(TableRow) :
           /\ pr = [packets |-> ps, pending |-> pg.pending, timers |-> pg.timers,
                    rows |-> rs, gone |-> pg.gone]
           /\ Len(ps) = Len(pg.packets)
      BY OnVerdictIs DEF GivenTo
<1> HIDE DEF pr
<1>3. CASE pr = [packets |-> pg.packets, pending |-> Append(pg.pending, v),
                 timers |-> pg.timers \cup {v}, rows |-> pg.rows, gone |-> pg.gone]
      BY <1>1, <1>3 DEF PageType, pr
<1>4. ASSUME NEW ps \in Seq(Packet), NEW rs \in Seq(TableRow),
             pr = [packets |-> ps, pending |-> pg.pending, timers |-> pg.timers,
                   rows |-> rs, gone |-> pg.gone],
             Len(ps) = Len(pg.packets)
      PROVE  pr \in PageType /\ Len(pr.packets) <= Most
      BY <1>1, <1>4 DEF PageType
<1> QED BY <1>2, <1>3, <1>4 DEF pr

(* onVerdict puts a verdict that the page does not have in one place. *)
LEMMA OnVerdictKeeps ==
  ASSUME NEW gaveUp \in SUBSET Verdicts, NEW pg, PageOK(pg, gaveUp), NoMissed(pg),
         NEW v \in Verdicts, v \notin Placed(pg, gaveUp), NEW deep \in BOOLEAN,
         deep \/ v.via = "live"
  PROVE  /\ PageOK(OnVerdict(pg, v, deep), gaveUp) /\ NoMissed(OnVerdict(pg, v, deep))
         /\ Placed(OnVerdict(pg, v, deep), gaveUp) = Placed(pg, gaveUp) \cup {v}
<1> DEFINE last == Len(pg.packets)
           pr   == OnVerdict(pg, v, deep)
<1>1. /\ pg.packets \in Seq(Packet) /\ pg.pending \in Seq(Verdicts)
      /\ pg.rows \in Seq(TableRow) /\ pg.gone \subseteq Verdicts
      /\ pg.timers = Range(pg.pending) /\ pg.timers \subseteq Verdicts
      /\ Len(pg.packets) <= Most
      /\ Given(pg.packets) /\ IsInjective(pg.pending) /\ Apart(pg, gaveUp)
      /\ pg \in PageType
      BY DEF PageOK, PageType
<1>2. last \in Nat /\ v # None
      BY <1>1, LenProperties, ListAssumption
<1>3. v \notin Range(pg.pending) /\ v \notin InList(pg.packets) /\ v \notin pg.gone
      /\ v \notin gaveUp
      BY DEF Placed
<1>4. pr \in PageType /\ Len(pr.packets) <= Most
      BY <1>1, OnVerdictType
<1>5. ASSUME pr = [packets |-> pg.packets, pending |-> Append(pg.pending, v),
                   timers |-> pg.timers \cup {v}, rows |-> pg.rows, gone |-> pg.gone],
             \A i \in 1 .. last :
               pg.packets[i].verdict = None /\ FlowOf[pg.packets[i].seq] = Key(v) =>
                 ~deep /\ i <= last - Window
      PROVE  /\ PageOK(pr, gaveUp) /\ NoMissed(pr)
             /\ Placed(pr, gaveUp) = Placed(pg, gaveUp) \cup {v}
  <2> DEFINE pp == Append(pg.pending, v)
  <2>1. /\ pp \in Seq(Verdicts) /\ Range(pp) = Range(pg.pending) \cup {v}
        /\ IsInjective(pp)
        BY <1>1, <1>3, AppendProperties, RangeAppend, DistinctAppend
  <2> HIDE DEF pp, pr
  <2>2. /\ pr.packets = pg.packets /\ pr.pending = pp /\ pr.timers = pg.timers \cup {v}
        /\ pr.gone = pg.gone
        BY <1>5 DEF pp
  <2>3. PageOK(pr, gaveUp)
        BY <1>1, <1>3, <1>4, <2>1, <2>2 DEF PageOK, Apart
  <2>4. Placed(pr, gaveUp) = Placed(pg, gaveUp) \cup {v}
        BY <2>1, <2>2 DEF Placed
  <2>5. NoMissed(pr)
    <3> SUFFICES ASSUME NEW i \in 1 .. last, NEW w \in Range(pp),
                        FlowOf[pg.packets[i].seq] = Key(w), pg.packets[i].verdict = None
                 PROVE  i <= last - Window /\ w.via = "live"
        BY <2>2 DEF NoMissed
    <3>1. CASE w = v
          BY <1>5, <3>1
    <3>2. CASE w \in Range(pg.pending)
          BY <3>2 DEF NoMissed
    <3> QED BY <2>1, <3>1, <3>2
  <2> QED BY <2>3, <2>4, <2>5
<1>6. ASSUME NEW k \in 1 .. last, NEW ps \in Seq(Packet), NEW rs \in Seq(TableRow),
             pr = [packets |-> ps, pending |-> pg.pending, timers |-> pg.timers,
                   rows |-> rs, gone |-> pg.gone],
             GivenTo(ps, pg.packets, k, v)
      PROVE  /\ PageOK(pr, gaveUp) /\ NoMissed(pr)
             /\ Placed(pr, gaveUp) = Placed(pg, gaveUp) \cup {v}
  <2> HIDE DEF pr
  <2>1. /\ pr.packets = ps /\ pr.pending = pg.pending /\ pr.timers = pg.timers
        /\ pr.gone = pg.gone
        BY <1>6
  <2> HIDE DEF last
  <2>2. /\ Len(ps) = last /\ pg.packets[k].verdict = None
        /\ FlowOf[pg.packets[k].seq] = Key(v)
        /\ \A i \in 1 .. last : /\ ps[i].seq = pg.packets[i].seq
                                /\ ps[i].verdict = IF i = k THEN v ELSE pg.packets[i].verdict
        BY <1>6 DEF GivenTo, last
  <2>3. InList(ps) = InList(pg.packets) \cup {v}
    <3>1. InList(ps) = {ps[i].verdict : i \in 1 .. last} \ {None}
      <4>1. ToSet(ps) = {ps[i] : i \in 1 .. last}
            BY <2>2, RangeEquality, ToSetIsRange
      <4> QED BY <4>1 DEF InList
    <3>2. InList(pg.packets) = {pg.packets[i].verdict : i \in 1 .. last} \ {None}
      <4>1. ToSet(pg.packets) = {pg.packets[i] : i \in 1 .. last}
            BY <1>1, RangeEquality, ToSetIsRange DEF last
      <4> QED BY <4>1 DEF InList
    <3> QED BY <1>2, <2>2, <3>1, <3>2
  <2>4. Given(ps)
    <3>1. \A i \in 1 .. last : pg.packets[i].verdict # v
          BY <1>1, <1>2, <1>3, InListHas DEF last
    <3>2. ASSUME NEW i \in 1 .. last, NEW j \in 1 .. last, ps[i].verdict # None
          PROVE  /\ FlowOf[ps[i].seq] = Key(ps[i].verdict)
                 /\ i # j => ps[j].verdict # ps[i].verdict
      <4>1. CASE i = k
            BY <2>2, <3>1, <4>1
      <4>2. CASE i # k
            BY <1>1, <2>2, <3>1, <3>2, <4>2 DEF Given, last
      <4> QED BY <4>1, <4>2
    <3> QED BY <2>2, <3>2 DEF Given
  <2>5. PageOK(pr, gaveUp)
        BY <1>1, <1>3, <1>4, <2>1, <2>3, <2>4 DEF PageOK, Apart
  <2>6. Placed(pr, gaveUp) = Placed(pg, gaveUp) \cup {v}
        BY <2>1, <2>3 DEF Placed
  <2>7. NoMissed(pr)
    <3> SUFFICES ASSUME NEW i \in 1 .. last, NEW w \in Range(pg.pending),
                        FlowOf[ps[i].seq] = Key(w), ps[i].verdict = None
                 PROVE  i <= last - Window /\ w.via = "live"
        BY <2>1, <2>2 DEF NoMissed
    <3>1. pg.packets[i].verdict = None /\ FlowOf[pg.packets[i].seq] = Key(w)
          BY <1>2, <2>2
    <3> QED BY <3>1 DEF NoMissed, last
  <2> QED BY <2>5, <2>6, <2>7
<1> QED
  <2>1. \/ /\ pr = [packets |-> pg.packets, pending |-> Append(pg.pending, v),
                    timers |-> pg.timers \cup {v}, rows |-> pg.rows, gone |-> pg.gone]
           /\ \A i \in 1 .. last :
                pg.packets[i].verdict = None /\ FlowOf[pg.packets[i].seq] = Key(v) =>
                  ~deep /\ i <= last - Window
        \/ \E k \in 1 .. last, ps \in Seq(Packet), rs \in Seq(TableRow) :
             /\ pr = [packets |-> ps, pending |-> pg.pending, timers |-> pg.timers,
                      rows |-> rs, gone |-> pg.gone]
             /\ GivenTo(ps, pg.packets, k, v)
             /\ BadgeSet(rs, pg.rows, pg.packets[k].seq, v)
        BY <1>1, OnVerdictIs
  <2> HIDE DEF pr, last
  <2>2. /\ PageOK(pr, gaveUp) /\ NoMissed(pr)
        /\ Placed(pr, gaveUp) = Placed(pg, gaveUp) \cup {v}
        BY <1>5, <1>6, <2>1
  <2> QED BY <2>2 DEF pr

-----------------------------------------------------------------------------
(* An answer of a backfill.  Filled(lo, hi, what) satisfies the equations  *)
(* of its definition: after each entry the page is what the entry makes of *)
(* the page before it.                                                     *)

FillStep(f, lo, n, what) == IF n < lo THEN page ELSE FillOne(f[n - 1], n, what)

After(lo, hi, what) ==
  CHOOSE f : f = [n \in lo - 1 .. hi |-> FillStep(f, lo, n, what)]

LEMMA AfterIs ==
  ASSUME NEW lo \in Nat, NEW hi \in Nat, lo - 1 <= hi, NEW what
  PROVE  After(lo, hi, what) =
           [n \in lo - 1 .. hi |-> FillStep(After(lo, hi, what), lo, n, what)]
<1> DEFINE Fits(f, h) == f = [n \in lo - 1 .. h |-> FillStep(f, lo, n, what)]
           Good == {m \in Nat : \E f : Fits(f, lo - 1 + m)}
<1>1. 0 \in Good
  <2> DEFINE g == [n \in lo - 1 .. lo - 1 |-> page]
  <2>1. \A n \in lo - 1 .. lo - 1 : FillStep(g, lo, n, what) = page
        BY DEF FillStep
  <2>2. Fits(g, lo - 1)
        BY <2>1
  <2> HIDE DEF Fits
  <2>3. Fits(g, lo - 1 + 0)
        BY <2>2
  <2> QED BY <2>3
<1>2. ASSUME NEW m \in Nat, m \in Good PROVE m + 1 \in Good
  <2> DEFINE h == lo - 1 + m
  <2>1. PICK f : Fits(f, h)
        BY <1>2
  <2> DEFINE g == [n \in lo - 1 .. h + 1 |-> IF n = h + 1 THEN FillStep(f, lo, n, what)
                                                          ELSE f[n]]
             k == [n \in lo - 1 .. h + 1 |-> FillStep(g, lo, n, what)]
  <2>2. h \in Int /\ lo - 1 <= h
        OBVIOUS
  <2> HIDE DEF h
  <2>3. ASSUME NEW n \in lo - 1 .. h + 1 PROVE g[n] = k[n]
    <3>1. FillStep(g, lo, n, what) = FillStep(f, lo, n, what)
      <4>1. CASE n < lo
            BY <4>1 DEF FillStep
      <4>2. CASE ~(n < lo)
        <5>1. n - 1 \in lo - 1 .. h + 1 /\ n - 1 # h + 1
              BY <2>2, <4>2
        <5>2. g[n - 1] = f[n - 1]
              BY <5>1
        <5> QED BY <4>2, <5>2 DEF FillStep
      <4> QED BY <4>1, <4>2
    <3>2. CASE n = h + 1
          BY <3>1, <3>2
    <3>3. CASE n # h + 1
      <4>1. n \in lo - 1 .. h
            BY <2>2, <3>3
      <4>2. f[n] = FillStep(f, lo, n, what)
            BY <2>1, <4>1
      <4> QED BY <3>1, <3>3, <4>2
    <3> QED BY <3>2, <3>3
  <2>4. Fits(g, h + 1)
        BY <2>3
  <2>5. h + 1 = lo - 1 + (m + 1)
        BY DEF h
  <2> HIDE DEF Fits
  <2>6. \E x : Fits(x, lo - 1 + (m + 1))
        BY <2>4, <2>5
  <2> QED BY <2>6
<1>3. Nat \subseteq Good
  <2> HIDE DEF Good
  <2> QED BY <1>1, <1>2, Induction
<1>4. hi - (lo - 1) \in Nat /\ lo - 1 + (hi - (lo - 1)) = hi
      OBVIOUS
<1>5. \E f : Fits(f, hi)
  <2>1. \E f : Fits(f, lo - 1 + (hi - (lo - 1)))
        BY <1>3, <1>4
  <2> HIDE DEF Fits
  <2> QED BY <1>4, <2>1
<1> QED BY <1>5 DEF After

LEMMA FilledIs ==
  ASSUME NEW lo, NEW hi, NEW what
  PROVE  Filled(lo, hi, what) = After(lo, hi, what)[hi]
BY Zenon DEF Filled, After, FillStep

LEMMA AfterAt ==
  ASSUME NEW lo \in Nat, NEW hi \in Nat, lo - 1 <= hi, NEW what
  PROVE  /\ After(lo, hi, what)[lo - 1] = page
         /\ \A n \in lo .. hi :
              After(lo, hi, what)[n] = FillOne(After(lo, hi, what)[n - 1], n, what)
<1> DEFINE f == After(lo, hi, what)
<1>1. f = [n \in lo - 1 .. hi |-> FillStep(f, lo, n, what)]
      BY AfterIs
<1> HIDE DEF f
<1>2. \A n \in lo - 1 .. hi : f[n] = FillStep(f, lo, n, what)
      BY <1>1
<1>3. f[lo - 1] = page
  <2>1. lo - 1 \in lo - 1 .. hi /\ lo - 1 < lo
        OBVIOUS
  <2> QED BY <1>2, <2>1 DEF FillStep
<1>4. ASSUME NEW n \in lo .. hi PROVE f[n] = FillOne(f[n - 1], n, what)
  <2>1. n \in lo - 1 .. hi /\ ~(n < lo)
        OBVIOUS
  <2> QED BY <1>2, <2>1 DEF FillStep
<1> QED BY <1>3, <1>4 DEF f

(* What every entry of an answer keeps, the answer keeps.  G[n] is a set of *)
(* pages that the page is in after entry n.                                *)
LEMMA FillInvariant ==
  ASSUME NEW what, NEW lo \in Nat, NEW hi \in Nat, lo - 1 <= hi, NEW G, page \in G[lo - 1],
         \A n \in lo .. hi : \A pg \in G[n - 1] : FillOne(pg, n, what) \in G[n]
  PROVE  Filled(lo, hi, what) \in G[hi]
<1> DEFINE f == After(lo, hi, what)
           Good == {m \in Nat : lo - 1 + m <= hi => f[lo - 1 + m] \in G[lo - 1 + m]}
<1>1. f[lo - 1] = page /\ \A n \in lo .. hi : f[n] = FillOne(f[n - 1], n, what)
      BY AfterAt
<1> HIDE DEF f
<1>2. 0 \in Good
      BY <1>1
<1>3. ASSUME NEW m \in Nat, m \in Good PROVE m + 1 \in Good
  <2> SUFFICES ASSUME lo - 1 + (m + 1) <= hi
               PROVE  f[lo - 1 + (m + 1)] \in G[lo - 1 + (m + 1)]
      OBVIOUS
  <2> DEFINE n == lo + m
  <2>1. lo - 1 + (m + 1) = n /\ lo - 1 + m = n - 1 /\ n \in lo .. hi /\ lo - 1 + m <= hi
        OBVIOUS
  <2> HIDE DEF n
  <2>2. f[n - 1] \in G[n - 1]
        BY <1>3, <2>1
  <2>3. f[n] \in G[n]
        BY <1>1, <2>1, <2>2
  <2> QED BY <2>1, <2>3
<1>4. Nat \subseteq Good
  <2> HIDE DEF Good
  <2> QED BY <1>2, <1>3, Induction
<1>5. hi - (lo - 1) \in Nat /\ lo - 1 + (hi - (lo - 1)) = hi /\ hi <= hi
      OBVIOUS
<1>6. lo - 1 + (hi - (lo - 1)) <= hi => f[lo - 1 + (hi - (lo - 1))] \in G[lo - 1 + (hi - (lo - 1))]
      BY <1>4, <1>5
<1>7. f[hi] \in G[hi]
      BY <1>5, <1>6
<1> QED BY <1>7, FilledIs DEF f

(* The verdicts that an answer brings. *)
Brought(lo, hi, what) ==
  IF what = "packets" THEN {} ELSE {[seq |-> m, via |-> "fill"] : m \in lo .. hi}

AnswerNumbers(what) == IF what = "packets" THEN Numbers ELSE VNumbers

LEMMA FillOneKeeps ==
  ASSUME CapOK, NEW gaveUp \in SUBSET Verdicts, NEW pg, PageOK(pg, gaveUp), NoMissed(pg),
         NEW what, NEW n \in AnswerNumbers(what),
         Brought(n, n, what) \cap Placed(pg, gaveUp) = {}
  PROVE  /\ PageOK(FillOne(pg, n, what), gaveUp) /\ NoMissed(FillOne(pg, n, what))
         /\ Placed(FillOne(pg, n, what), gaveUp) = Placed(pg, gaveUp) \cup Brought(n, n, what)
<1>1. CASE what = "packets"
  <2>1. FillOne(pg, n, what) = Add(pg, n, "fill") /\ Brought(n, n, what) = {}
        BY <1>1 DEF FillOne, Brought
  <2>2. n \in Numbers /\ "fill" \in Copies
        BY <1>1 DEF AnswerNumbers, Copies
  <2> QED BY <2>1, <2>2, AddKeeps
<1>2. CASE what # "packets"
  <2> DEFINE v == [seq |-> n, via |-> "fill"]
  <2>1. n \in VNumbers /\ n \in Int
        BY <1>2, ListAssumption DEF AnswerNumbers
  <2>2. FillOne(pg, n, what) = OnVerdict(pg, v, TRUE) /\ Brought(n, n, what) = {v}
    <3>1. n .. n = {n}
          BY <2>1
    <3> QED BY <1>2, <3>1 DEF FillOne, Brought
  <2>3. v \in Verdicts
        BY <2>1 DEF Verdicts, Copies
  <2> HIDE DEF v
  <2>4. v \notin Placed(pg, gaveUp)
        BY <2>2
  <2>5. \A deep \in BOOLEAN : deep =>
          /\ PageOK(OnVerdict(pg, v, deep), gaveUp) /\ NoMissed(OnVerdict(pg, v, deep))
          /\ Placed(OnVerdict(pg, v, deep), gaveUp) = Placed(pg, gaveUp) \cup {v}
        BY <2>3, <2>4, OnVerdictKeeps
  <2>6. /\ PageOK(OnVerdict(pg, v, TRUE), gaveUp) /\ NoMissed(OnVerdict(pg, v, TRUE))
        /\ Placed(OnVerdict(pg, v, TRUE), gaveUp) = Placed(pg, gaveUp) \cup {v}
        BY <2>5, Zenon
  <2> QED BY <2>2, <2>6
<1> QED BY <1>1, <1>2

GaveUp == orphans \cup undrawn

(* A whole answer keeps what one entry keeps. *)
LEMMA FillKeeps ==
  ASSUME NEW what, NEW lo \in AnswerNumbers(what), NEW hi \in AnswerNumbers(what), lo <= hi,
         CapOK, GaveUp \subseteq Verdicts, PageOK(page, GaveUp), NoMissed(page),
         Brought(lo, hi, what) \cap Placed(page, GaveUp) = {}
  PROVE  LET after == Filled(lo, hi, what)
         IN  /\ PageOK(after, GaveUp) /\ NoMissed(after)
             /\ Placed(after, GaveUp) = Placed(page, GaveUp) \cup Brought(lo, hi, what)
<1> DEFINE Kept(pg, n) == /\ PageOK(pg, GaveUp) /\ NoMissed(pg)
                          /\ Placed(pg, GaveUp) =
                               Placed(page, GaveUp) \cup Brought(lo, n, what)
           G == [n \in lo - 1 .. hi |-> {pg \in PageType : Kept(pg, n)}]
<1>1. lo \in Nat /\ hi \in Nat /\ lo - 1 <= hi /\ lo .. hi \subseteq AnswerNumbers(what)
      BY ListAssumption DEF AnswerNumbers
<1>2. \A pg, n : Kept(pg, n) => pg \in PageType
      BY DEF PageOK
<1>3. /\ Brought(lo, lo - 1, what) = {}
      /\ \A n \in lo .. hi : /\ Brought(lo, n, what) =
                                 Brought(lo, n - 1, what) \cup Brought(n, n, what)
                             /\ Brought(lo, n, what) \subseteq Brought(lo, hi, what)
                             /\ Brought(n, n, what) \cap Brought(lo, n - 1, what) = {}
  <2>1. CASE what = "packets"
        BY <2>1 DEF Brought
  <2>2. CASE what # "packets"
    <3>1. lo .. lo - 1 = {}
          BY <1>1
    <3>2. ASSUME NEW n \in lo .. hi
          PROVE  /\ lo .. n = (lo .. n - 1) \cup (n .. n) /\ lo .. n \subseteq lo .. hi
                 /\ (n .. n) \cap (lo .. n - 1) = {}
          BY <1>1
    <3>3. \A i, j : [seq |-> i, via |-> "fill"] = [seq |-> j, via |-> "fill"] => i = j
          OBVIOUS
    <3>4. \A a, b : Brought(a, b, what) = {[seq |-> m, via |-> "fill"] : m \in a .. b}
          BY <2>2 DEF Brought
    <3> QED BY <3>1, <3>2, <3>3, <3>4
  <2> QED BY <2>1, <2>2
<1>4. Kept(page, lo - 1)
      BY <1>3
<1>5. ASSUME NEW n \in lo .. hi, NEW pg, Kept(pg, n - 1)
      PROVE  Kept(FillOne(pg, n, what), n)
  <2>1. n \in AnswerNumbers(what)
        BY <1>1
  <2>2. Brought(n, n, what) \cap Placed(pg, GaveUp) = {}
        BY <1>3, <1>5
  <2>3. /\ PageOK(FillOne(pg, n, what), GaveUp) /\ NoMissed(FillOne(pg, n, what))
        /\ Placed(FillOne(pg, n, what), GaveUp) = Placed(pg, GaveUp) \cup Brought(n, n, what)
        BY <1>5, <2>1, <2>2, FillOneKeeps
  <2> QED BY <1>3, <1>5, <2>3
<1> HIDE DEF Kept
<1>6. \A n \in lo - 1 .. hi : G[n] = {pg \in PageType : Kept(pg, n)}
      OBVIOUS
<1>7. lo - 1 \in lo - 1 .. hi /\ hi \in lo - 1 .. hi
      BY <1>1
<1>8. \A n \in lo .. hi : n - 1 \in lo - 1 .. hi /\ n \in lo - 1 .. hi
      BY <1>1
<1> HIDE DEF G
<1>9. page \in G[lo - 1]
      BY <1>2, <1>4, <1>6, <1>7
<1>10. \A n \in lo .. hi : \A pg \in G[n - 1] : FillOne(pg, n, what) \in G[n]
      BY <1>2, <1>5, <1>6, <1>8
<1>11. Filled(lo, hi, what) \in G[hi]
      BY <1>1, <1>9, <1>10, FillInvariant
<1>12. Kept(Filled(lo, hi, what), hi)
      BY <1>6, <1>7, <1>11
<1> QED BY <1>12 DEF Kept

-----------------------------------------------------------------------------
(* An orphan's row is put between the others. *)
LEMMA InsertIs ==
  ASSUME NEW rows \in Seq(TableRow), NEW row \in TableRow
  PROVE  \E a \in Seq(TableRow), b \in Seq(TableRow) :
           rows = a \o b /\ InsertByTime(rows, row) = a \o <<row>> \o b
<1> DEFINE older == {i \in 1 .. Len(rows) : rows[i].t <= row.t}
           at    == IF older = {} THEN 1 ELSE Max(older) + 1
           a     == SubSeq(rows, 1, at - 1)
           b     == SubSeq(rows, at, Len(rows))
<1>1. Len(rows) \in Nat
      BY LenProperties
<1>2. at \in 1 .. Len(rows) + 1
  <2>1. CASE older = {}
        BY <1>1, <2>1
  <2>2. CASE older # {}
    <3>1. Max(older) \in older
          BY <1>1, <2>2, Extremes
    <3> HIDE DEF older
    <3>2. Max(older) \in 1 .. Len(rows)
          BY <3>1 DEF older
    <3> QED BY <1>1, <2>2, <3>2
  <2> QED BY <2>1, <2>2
<1>3. InsertByTime(rows, row) = a \o <<row>> \o b
      BY DEF InsertByTime, InsertAt
<1> HIDE DEF at
<1>4. \A i \in 1 .. Len(rows) : rows[i] \in TableRow
      BY ElementOfSeq
<1>5. a \in Seq(TableRow) /\ b \in Seq(TableRow)
  <2>1. /\ at - 1 \in Int /\ at \in Int /\ Len(rows) \in Int
        /\ \A i \in 1 .. at - 1 : rows[i] \in TableRow
        /\ \A i \in at .. Len(rows) : rows[i] \in TableRow
        BY <1>1, <1>2, <1>4
  <2> QED BY <2>1, SubSeqProperties
<1>6. rows = a \o b
  <2> DEFINE k == at - 1
  <2>1. k \in 1 - 1 .. Len(rows) /\ at = k + 1 /\ 1 \in 1 .. Len(rows) + 1
        /\ Len(rows) \in k .. Len(rows)
        BY <1>1, <1>2
  <2> HIDE DEF k
  <2>2. SubSeq(rows, 1, k) \o SubSeq(rows, k + 1, Len(rows)) = SubSeq(rows, 1, Len(rows))
        BY <2>1, ConcatAdjacentSubSeq
  <2>3. SubSeq(rows, 1, Len(rows)) = rows
        BY SubSeqFull
  <2>4. a = SubSeq(rows, 1, k) /\ b = SubSeq(rows, k + 1, Len(rows))
        BY <2>1 DEF k
  <2> QED BY <2>2, <2>3, <2>4
<1> QED BY <1>3, <1>5, <1>6

LEMMA InsertType ==
  ASSUME NEW rows \in Seq(TableRow), NEW row \in TableRow
  PROVE  InsertByTime(rows, row) \in Seq(TableRow)
<1>1. <<row>> \in Seq(TableRow)
      OBVIOUS
<1>2. PICK a \in Seq(TableRow), b \in Seq(TableRow) :
         InsertByTime(rows, row) = a \o <<row>> \o b
      BY InsertIs
<1>3. a \o <<row>> \in Seq(TableRow)
      BY <1>1, ConcatProperties
<1>4. \A c \in Seq(TableRow) : c \o b \in Seq(TableRow)
      BY ConcatProperties
<1> QED BY <1>2, <1>3, <1>4

(* The table drawn anew. *)
LEMMA RebuiltType ==
  ASSUME NEW packets \in Seq(Packet), NEW hid
  PROVE  Rebuilt(packets, hid) \in Seq(TableRow)
<1> DEFINE seen == Filtered(packets, {p \in Packet : FlowOf[p.seq] \notin hid})
<1>1. Rebuilt(packets, hid) = [i \in 1 .. Len(seen) |-> Row(seen[i])]
      BY DEF Rebuilt
<1>2. seen \in Seq(Packet)
      BY FilteredType
<1> HIDE DEF seen
<1>3. Len(seen) \in Nat /\ \A i \in 1 .. Len(seen) : Row(seen[i]) \in TableRow
      BY <1>2, LenProperties, ElementOfSeq, RowType
<1> QED BY <1>1, <1>3

-----------------------------------------------------------------------------
(* The inductive invariant: what holds of the page; and where the verdicts *)
(* are that have come.  A backfill finds none of its own on the page.      *)
ListOK ==
  /\ CapOK
  /\ GaveUp \subseteq Verdicts /\ orphans \cap undrawn = {}
  /\ PageOK(page, GaveUp) /\ NoMissed(page)
  /\ Placed(page, GaveUp) = Received
  /\ vfetched \subseteq VNumbers /\ (filled # "all" => vfetched = {})
  /\ paused \in BOOLEAN /\ hidden \in Filters
  /\ live \in 0 .. Len(FlowOf) /\ vlive \in 0 .. Len(VFlowOf)
  /\ filled \in {"nothing", "packets", "all"} /\ fetched \subseteq Numbers

LEMMA ListOKInit == ListInit => ListOK
<1> SUFFICES ASSUME ListInit PROVE ListOK
    OBVIOUS
<1>1. /\ page.packets = <<>> /\ page.pending = <<>> /\ page.timers = {}
      /\ page.rows = <<>> /\ page.gone = {} /\ page \in PageType
      BY DEF ListInit, PageType
<1>2. Range(<<>>) = {} /\ ToSet(<<>>) = {} /\ IsInjective(<<>>) /\ Len(<<>>) = 0
      BY DEF Range, ToSet, IsInjective
<1>3. InList(<<>>) = {}
      BY <1>2 DEF InList
<1>4. Placed(page, GaveUp) = {} /\ Apart(page, GaveUp)
      BY <1>1, <1>2, <1>3 DEF Placed, Apart, GaveUp, ListInit
<1>5. PageOK(page, GaveUp) /\ NoMissed(page)
      BY <1>1, <1>2, <1>4, Limits DEF PageOK, NoMissed, Given
<1>6. Received = {}
  <2>1. \A v \in Verdicts : ~(v.seq <= 0)
        BY ListAssumption DEF Verdicts
  <2> QED BY <2>1 DEF Received, ListInit
<1>7. paused \in BOOLEAN /\ filled \in {"nothing", "packets", "all"}
      BY DEF ListInit
<1>8. /\ hidden \in Filters /\ live \in 0 .. Len(FlowOf) /\ vlive \in 0 .. Len(VFlowOf)
      /\ fetched \subseteq Numbers /\ GaveUp \subseteq Verdicts /\ orphans \cap undrawn = {}
      /\ vfetched = {} /\ CapOK
      BY ListAssumption DEF ListInit, GaveUp, CapOK
<1> QED BY <1>4, <1>5, <1>6, <1>7, <1>8 DEF ListOK

LEMMA ListOKStep == ListOK /\ [ListNext]_listVars => ListOK'
<1> SUFFICES ASSUME ListOK, [ListNext]_listVars PROVE ListOK'
    OBVIOUS
<1> USE DEF ListOK
<1>1. /\ page \in PageType /\ page.packets \in Seq(Packet) /\ page.pending \in Seq(Verdicts)
      /\ page.timers \subseteq Verdicts /\ page.rows \in Seq(TableRow)
      /\ page.gone \subseteq Verdicts /\ page.timers = Range(page.pending)
      /\ page = [packets |-> page.packets, pending |-> page.pending,
                 timers |-> page.timers, rows |-> page.rows, gone |-> page.gone]
      BY DEF PageOK, PageType
<1>2. CASE PacketArrives
  <2>1. live' \in Numbers /\ live' \in 0 .. Len(FlowOf)
        BY <1>2, ListAssumption DEF PacketArrives
  <2>2. /\ PageOK(Add(page, live', "live"), GaveUp) /\ NoMissed(Add(page, live', "live"))
        /\ Placed(Add(page, live', "live"), GaveUp) = Placed(page, GaveUp)
        BY <2>1, AddKeeps DEF Copies
  <2>3. /\ page' = Add(page, live', "live")
        /\ UNCHANGED <<ringCap, paused, hidden, vlive, filled, fetched, vfetched, orphans, undrawn>>
        BY <1>2 DEF PacketArrives
  <2>4. PageOK(page', GaveUp') /\ NoMissed(page') /\ Placed(page', GaveUp') = Placed(page, GaveUp)
        BY <2>2, <2>3 DEF GaveUp
  <2> QED BY <2>1, <2>3, <2>4 DEF Received, GaveUp, CapOK
<1>3. CASE VerdictArrives
  <2> DEFINE given == [seq |-> vlive', via |-> "live"]
  <2>1. /\ vlive' = vlive + 1 /\ vlive' \in VNumbers /\ vlive' \in 0 .. Len(VFlowOf)
        /\ vlive \in Int
        BY <1>3, ListAssumption DEF VerdictArrives
  <2>2. given \in Verdicts /\ given.via = "live" /\ given.seq = vlive + 1
        BY <2>1 DEF Verdicts, Copies
  <2>3. given \notin Placed(page, GaveUp)
        BY <2>1, <2>2 DEF Received
  <2>4. /\ page' = OnVerdict(page, given, FALSE)
        /\ UNCHANGED <<ringCap, paused, hidden, live, filled, fetched, vfetched, orphans, undrawn>>
        BY <1>3 DEF VerdictArrives
  <2>5. Received' = Received \cup {given}
    <3>1. ASSUME NEW w \in Verdicts, w.via = "live", w.seq <= vlive + 1, ~(w.seq <= vlive)
          PROVE  w = given
      <4>1. w.seq \in Int
            BY ListAssumption DEF Verdicts
      <4>2. w.seq = vlive + 1
            BY <2>1, <3>1, <4>1
      <4>3. w = [seq |-> w.seq, via |-> w.via]
            BY DEF Verdicts
      <4> QED BY <2>1, <3>1, <4>2, <4>3
    <3>2. ASSUME NEW w \in Verdicts, w.seq <= vlive PROVE w.seq <= vlive + 1
      <4>1. w.seq \in Int
            BY ListAssumption DEF Verdicts
      <4> QED BY <2>1, <3>2, <4>1
    <3>3. /\ given \in Verdicts /\ given.via = "live" /\ given.seq <= vlive + 1
          /\ vfetched' = vfetched /\ vlive' = vlive + 1
          BY <2>1, <2>2, <2>4
    <3> HIDE DEF given
    <3> QED BY <3>1, <3>2, <3>3 DEF Received
  <2> HIDE DEF given
  <2>6. \A deep \in BOOLEAN :
          /\ PageOK(OnVerdict(page, given, deep), GaveUp) /\ NoMissed(OnVerdict(page, given, deep))
          /\ Placed(OnVerdict(page, given, deep), GaveUp) = Placed(page, GaveUp) \cup {given}
        BY <2>2, <2>3, OnVerdictKeeps
  <2>7. PageOK(page', GaveUp') /\ NoMissed(page')
        /\ Placed(page', GaveUp') = Placed(page, GaveUp) \cup {given}
    <3>1. /\ PageOK(OnVerdict(page, given, FALSE), GaveUp) /\ NoMissed(OnVerdict(page, given, FALSE))
          /\ Placed(OnVerdict(page, given, FALSE), GaveUp) = Placed(page, GaveUp) \cup {given}
          BY <2>6, Zenon
    <3>2. GaveUp' = GaveUp
          BY <2>4 DEF GaveUp
    <3> QED BY <2>4, <3>1, <3>2
  <2>8. Placed(page', GaveUp') = Received'
        BY <2>5, <2>7
  <2>9. /\ paused' \in BOOLEAN /\ hidden' \in Filters /\ live' \in 0 .. Len(FlowOf)
        /\ filled' \in {"nothing", "packets", "all"} /\ fetched' \subseteq Numbers
        /\ GaveUp' \subseteq Verdicts /\ orphans' \cap undrawn' = {} /\ CapOK'
        /\ vfetched' \subseteq VNumbers /\ (filled' # "all" => vfetched' = {})
        BY <2>4 DEF GaveUp, CapOK
  <2> QED BY <2>1, <2>7, <2>8, <2>9
<1>4. ASSUME NEW lo \in Numbers, NEW hi \in Numbers, lo <= hi, FillPackets(lo, hi)
      PROVE  ListOK'
  <2>1. Brought(lo, hi, "packets") = {} /\ AnswerNumbers("packets") = Numbers
        BY DEF Brought, AnswerNumbers
  <2>2. PageOK(page', GaveUp) /\ NoMissed(page') /\ Placed(page', GaveUp) = Placed(page, GaveUp)
        BY <1>4, <2>1, FillKeeps DEF FillPackets
  <2>3. lo .. hi \subseteq Numbers
        BY ListAssumption
  <2>4. GaveUp' = GaveUp /\ Received' = Received /\ CapOK'
        BY <1>4 DEF FillPackets, GaveUp, Received, CapOK
  <2> QED BY <1>4, <2>2, <2>3, <2>4 DEF FillPackets
<1>5. ASSUME NEW lo \in VNumbers, NEW hi \in VNumbers, lo <= hi, FillVerdicts(lo, hi)
      PROVE  ListOK'
  <2>1. /\ Brought(lo, hi, "verdicts") = {[seq |-> m, via |-> "fill"] : m \in lo .. hi}
        /\ AnswerNumbers("verdicts") = VNumbers
        BY DEF Brought, AnswerNumbers
  <2>2. \A v \in Brought(lo, hi, "verdicts") : v.via = "fill"
        BY <2>1
  <2>3. Brought(lo, hi, "verdicts") \cap Placed(page, GaveUp) = {}
        BY <1>5, <2>2 DEF FillVerdicts, Received
  <2>4. /\ PageOK(page', GaveUp) /\ NoMissed(page')
        /\ Placed(page', GaveUp) = Placed(page, GaveUp) \cup Brought(lo, hi, "verdicts")
        BY <1>5, <2>1, <2>3, FillKeeps DEF FillVerdicts
  <2>5. Received' = Received \cup Brought(lo, hi, "verdicts")
    <3>1. vfetched = {} /\ vfetched' = lo .. hi /\ vlive' = vlive
          BY <1>5 DEF FillVerdicts
    <3>2. \A w \in Verdicts : w = [seq |-> w.seq, via |-> w.via] /\ w.via \in {"live", "fill"}
          BY DEF Verdicts, Copies
    <3>3. ASSUME NEW w \in Verdicts
          PROVE  w \in Brought(lo, hi, "verdicts") <=> w.via = "fill" /\ w.seq \in lo .. hi
          BY <2>1, <3>2
    <3>4. Brought(lo, hi, "verdicts") \subseteq Verdicts
      <4>1. lo .. hi \subseteq VNumbers
            BY ListAssumption
      <4> QED BY <2>1, <4>1 DEF Verdicts, Copies
    <3> QED BY <3>1, <3>2, <3>3, <3>4 DEF Received
  <2>6. GaveUp' = GaveUp /\ CapOK' /\ lo .. hi \subseteq VNumbers
        BY <1>5, ListAssumption DEF FillVerdicts, GaveUp, CapOK
  <2> QED BY <1>5, <2>4, <2>5, <2>6 DEF FillVerdicts
<1>6. ASSUME NEW v \in Verdicts, OrphanTimer(v) PROVE ListOK'
  <2> DEFINE pp == Filtered(page.pending, Verdicts \ {v})
             rs == IF paused THEN page.rows ELSE InsertByTime(page.rows, OrphanRow(v))
  <2>1. /\ v \in Range(page.pending) /\ GaveUp' = GaveUp \cup {v}
        /\ UNCHANGED <<ringCap, paused, hidden, live, vlive, filled, fetched, vfetched>>
        BY <1>1, <1>6 DEF OrphanTimer, GivenUp, GaveUp
  <2>2. page' = [page EXCEPT !.timers = @ \ {v}, !.pending = pp, !.rows = rs]
        BY <1>6 DEF OrphanTimer
  <2>3. /\ pp \in Seq(Verdicts) /\ Range(pp) = Range(page.pending) \ {v}
        /\ IsInjective(pp)
    <3>1. Range(pp) = Range(page.pending) \cap (Verdicts \ {v})
          BY <1>1, FilteredRange
    <3> QED BY <1>1, <3>1, FilteredType, FilteredDistinct DEF PageOK
  <2>4. rs \in Seq(TableRow)
    <3>1. OrphanRow(v) \in TableRow
          BY ListAssumption DEF OrphanRow, TableRow, Verdicts
    <3> QED BY <1>1, <3>1, InsertType
  <2> HIDE DEF pp, rs
  <2>5. page' = [packets |-> page.packets, pending |-> pp, timers |-> page.timers \ {v},
                 rows |-> rs, gone |-> page.gone]
        BY <1>1, <2>2
  <2>6. Placed(page', GaveUp') = Placed(page, GaveUp)
        BY <2>1, <2>3, <2>5 DEF Placed
  <2>7. PageOK(page', GaveUp')
        BY <1>1, <2>1, <2>3, <2>4, <2>5 DEF PageOK, PageType, Apart
  <2>8. NoMissed(page')
        BY <2>3, <2>5 DEF NoMissed
  <2>9. orphans' \cap undrawn' = {}
    <3>1. v \notin orphans /\ v \notin undrawn
          BY <2>1 DEF PageOK, Apart, GaveUp
    <3> QED BY <1>6, <3>1 DEF OrphanTimer, GivenUp
  <2> QED BY <2>1, <2>6, <2>7, <2>8, <2>9 DEF Received, CapOK
<1>7. CASE Clear
  <2>1. page' = [packets |-> <<>>, pending |-> page.pending, timers |-> page.timers,
                 rows |-> <<>>, gone |-> page.gone \cup InList(page.packets)]
        BY <1>1, <1>7 DEF Clear
  <2>2. InList(<<>>) = {} /\ InList(page.packets) \subseteq Verdicts
    <3>1. InList(<<>>) = {}
          BY DEF InList, ToSet
    <3>2. InList(page.packets) \subseteq Verdicts
          BY <1>1, InListType
    <3> QED BY <3>1, <3>2
  <2>3. /\ UNCHANGED <<ringCap, paused, hidden, live, vlive, filled, fetched, vfetched, orphans,
                       undrawn>>
        /\ GaveUp' = GaveUp
        BY <1>7 DEF Clear, GaveUp
  <2>4. Placed(page', GaveUp') = Placed(page, GaveUp)
        BY <2>1, <2>2, <2>3 DEF Placed
  <2>5. PageOK(page', GaveUp') /\ NoMissed(page')
    <3>1. Len(<<>>) = 0
          OBVIOUS
    <3>2. Given(<<>>) /\ NoMissed(page')
          BY <2>1, <3>1 DEF Given, NoMissed
    <3>3. page' \in PageType
          BY <1>1, <2>1, <2>2 DEF PageType
    <3>4. Apart(page', GaveUp')
          BY <2>1, <2>2, <2>3 DEF PageOK, Apart
    <3> QED BY <1>1, <2>1, <3>1, <3>2, <3>3, <3>4, Limits DEF PageOK
  <2> QED BY <2>3, <2>4, <2>5 DEF Received, CapOK
<1>8. ASSUME NEW rs \in Seq(TableRow), page' = [page EXCEPT !.rows = rs],
             UNCHANGED <<ringCap, live, vlive, filled, fetched, vfetched, orphans, undrawn>>,
             paused' \in BOOLEAN, hidden' \in Filters
      PROVE  ListOK'
  <2>1. page' = [packets |-> page.packets, pending |-> page.pending,
                 timers |-> page.timers, rows |-> rs, gone |-> page.gone]
        BY <1>1, <1>8
  <2>0. GaveUp' = GaveUp
        BY <1>8 DEF GaveUp
  <2>2. Placed(page', GaveUp') = Placed(page, GaveUp)
        BY <2>0, <2>1 DEF Placed
  <2>3. PageOK(page', GaveUp')
        BY <1>1, <1>8, <2>0, <2>1 DEF PageOK, PageType, Apart
  <2>4. NoMissed(page')
        BY <2>1 DEF NoMissed
  <2> QED BY <1>8, <2>0, <2>2, <2>3, <2>4 DEF Received, CapOK
<1>9. CASE Resume
      BY <1>1, <1>8, <1>9, RebuiltType DEF Resume
<1>10. ASSUME NEW hid \in Filters, Filter(hid) PROVE ListOK'
      BY <1>1, <1>8, <1>10, RebuiltType DEF Filter
<1>11. CASE Pause
      BY <1>11 DEF Pause, Received, GaveUp, CapOK
<1>12. CASE SetStats
      BY <1>12 DEF SetStats, Received, GaveUp, CapOK
<1>13. CASE UNCHANGED listVars
      BY <1>13 DEF listVars, Received, GaveUp, CapOK
<1> QED BY <1>2, <1>3, <1>4, <1>5, <1>6, <1>7, <1>9, <1>10, <1>11, <1>12, <1>13 DEF ListNext

LEMMA ListInvariant == ListSpec => []ListOK
BY ListOKInit, ListOKStep, PTL DEF ListSpec

-----------------------------------------------------------------------------
(* Two different receptions of one verdict are its two copies. *)
LEMMA OnlyTwice ==
  ASSUME vfetched \subseteq VNumbers, NEW u \in Received, NEW v \in Received,
         u # v, u.seq = v.seq
  PROVE  u.seq \in CameTwice
<1>1. /\ u \in Verdicts /\ v \in Verdicts /\ u.via \in {"live", "fill"}
      /\ v.via \in {"live", "fill"} /\ u.seq \in VNumbers
      /\ u = [seq |-> u.seq, via |-> u.via] /\ v = [seq |-> v.seq, via |-> v.via]
      BY DEF Received, Verdicts, Copies
<1>2. u.via # v.via
      BY <1>1
<1>3. u.seq <= vlive /\ u.seq \in vfetched
      BY <1>1, <1>2 DEF Received
<1>4. u.seq \in Nat /\ 1 <= u.seq
      BY <1>1, ListAssumption
<1>5. u.seq \in 1 .. vlive
      BY <1>3, <1>4
<1> QED BY <1>3, <1>5 DEF CameTwice

(* Every reception of a verdict is accounted for once: parked, on one      *)
(* packet of its flow, gone with the packet, or given up, drawn or not.    *)
(* So a verdict that came once is not lost, given twice, or given and      *)
(* declared an orphan; only one that came both ways may be                 *)
(* (index.html:829-869).                                                   *)
THEOREM EveryVerdictHasOnePlace == ListSpec => []VerdictsConserved
<1>1. ListOK => VerdictsConserved
  <2> SUFFICES ASSUME ListOK PROVE VerdictsConserved
      OBVIOUS
  <2>1. /\ page.pending \in Seq(Verdicts) /\ page.timers = Range(page.pending)
        /\ IsInjective(page.pending) /\ Apart(page, GaveUp) /\ Given(page.packets)
        BY DEF ListOK, PageOK, PageType
  <2>2. Parked = Range(page.pending)
        BY ToSetIsRange DEF Parked
  <2>3. Cardinality(Parked) = Len(page.pending)
    <3>1. /\ Len(page.pending) \in Nat /\ DOMAIN page.pending = 1 .. Len(page.pending)
          /\ page.pending \in [1 .. Len(page.pending) -> Verdicts]
          BY <2>1, LenProperties
    <3>2. page.pending \in Bijection(1 .. Len(page.pending), Parked)
      <4>1. page.pending \in [1 .. Len(page.pending) -> Parked]
            BY <2>2, <3>1 DEF Range
      <4> QED BY <2>1, <2>2, <3>1, <4>1
              DEF Bijection, Injection, Surjection, IsInjective, Range
    <3>3. /\ IsFiniteSet(1 .. Len(page.pending))
          /\ Cardinality(1 .. Len(page.pending)) = Len(page.pending)
      <4>1. Len(page.pending) \in Int /\ 1 \in Int
            BY <3>1
      <4>2. /\ IsFiniteSet(1 .. Len(page.pending))
            /\ Cardinality(1 .. Len(page.pending)) =
                 IF 1 > Len(page.pending) THEN 0 ELSE Len(page.pending) - 1 + 1
            BY <4>1, FS_Interval
      <4> QED BY <3>1, <4>2
    <3> QED BY <3>2, <3>3, FS_Bijection DEF ExistsBijection
  <2>4. /\ Len(Places) = 5 /\ Places[1] = Parked /\ Places[2] = InList(page.packets)
        /\ Places[3] = page.gone /\ Places[4] = orphans /\ Places[5] = undrawn
        /\ ToSet(Places) = {Parked, InList(page.packets), page.gone, orphans, undrawn}
        BY DEF Places, ToSet
  <2>5. ASSUME NEW i \in 1 .. Len(Places), NEW j \in 1 .. Len(Places), i # j
        PROVE  Places[i] \cap Places[j] = {}
    <3> HIDE DEF Places
    <3>1. \A k \in 1 .. 5 : k = 1 \/ k = 2 \/ k = 3 \/ k = 4 \/ k = 5
          OBVIOUS
    <3>2. /\ Places[1] \cap Places[2] = {} /\ Places[1] \cap Places[3] = {}
          /\ Places[1] \cap Places[4] = {} /\ Places[1] \cap Places[5] = {}
          /\ Places[2] \cap Places[3] = {} /\ Places[2] \cap Places[4] = {}
          /\ Places[2] \cap Places[5] = {} /\ Places[3] \cap Places[4] = {}
          /\ Places[3] \cap Places[5] = {} /\ Places[4] \cap Places[5] = {}
          BY <2>1, <2>2, <2>4 DEF Apart, GaveUp, ListOK
    <3> QED BY <2>4, <2>5, <3>1, <3>2
  <2>6. Received = UNION ToSet(Places)
    <3>1. Received = Parked \cup InList(page.packets) \cup page.gone \cup orphans \cup undrawn
          BY <2>2 DEF ListOK, Placed, GaveUp
    <3> QED BY <2>4, <3>1
  <2>7. /\ \A i \in 1 .. Len(Places) : Places[i] \subseteq Received
        /\ \A u, v \in Received : u # v /\ u.seq = v.seq => u.seq \in CameTwice
    <3>1. \A i \in 1 .. Len(Places) : Places[i] \in ToSet(Places)
          BY DEF ToSet
    <3> QED BY <2>6, <3>1, OnlyTwice DEF ListOK
  <2>8. \A i, j \in 1 .. Len(Places) : i # j =>
          \A u \in Places[i], v \in Places[j] : u # v /\ (u.seq = v.seq => u.seq \in CameTwice)
    <3> HIDE DEF Places
    <3> QED BY <2>5, <2>7
  <2>9. ASSUME NEW i \in 1 .. Len(page.packets), NEW j \in 1 .. Len(page.packets),
               page.packets[i].verdict # None
        PROVE  /\ FlowOf[page.packets[i].seq] = Key(page.packets[i].verdict)
               /\ i # j /\ page.packets[j].verdict # None =>
                    /\ page.packets[i].verdict # page.packets[j].verdict
                    /\ page.packets[i].verdict.seq = page.packets[j].verdict.seq =>
                         page.packets[i].verdict.seq \in CameTwice
    <3>1. \A k \in 1 .. Len(page.packets) :
            page.packets[k].verdict # None => page.packets[k].verdict \in InList(page.packets)
          BY DEF InList, ToSet
    <3>2. InList(page.packets) \subseteq Received
          BY <2>4, <2>6
    <3> QED BY <2>1, <2>7, <2>9, <3>1, <3>2 DEF Given
  <2> QED BY <2>1, <2>2, <2>3, <2>6, <2>8, <2>9 DEF VerdictsConserved
<1> QED BY <1>1, ListInvariant, PTL

(* A packet and a verdict of one flow do not both wait, but for a live     *)
(* verdict whose packet was out of the window (index.html:842).            *)
THEOREM NoMatchIsMissed == ListSpec => []NoMissedMatch
<1>1. ListOK => NoMissedMatch
      BY ToSetIsRange DEF ListOK, NoMissed, NoMissedMatch, Parked
<1> QED BY <1>1, ListInvariant, PTL
-----------------------------------------------------------------------------
(* The table.  The rows and the list are compared from their ends.  A      *)
(* packet's number may be in the list twice only when it came in both      *)
(* copies: known are the numbers that came, twice those that came twice.   *)
Aligned(s, t) ==
  \A i \in 1 .. Len(s), j \in 1 .. Len(t) :
    Len(s) - i = Len(t) - j => s[i].seq = t[j].seq

Seen(packets, hid) == Filtered(packets, {p \in Packet : FlowOf[p.seq] \notin hid})

Follows(pg, hid) == Aligned(Filtered(pg.rows, PacketRow), Seen(pg.packets, hid))

Known(s, known) == \A i \in 1 .. Len(s) : s[i].seq \in known \cup {0}

OnceEach(s, twice) ==
  \A i, j \in 1 .. Len(s) :
    s[i].seq = s[j].seq /\ s[i].seq \notin twice \cup {0} => i = j

BadgesAgree(rows, packets, twice) ==
  \A i \in 1 .. Len(rows), j \in 1 .. Len(packets) :
    rows[i].seq = packets[j].seq /\ rows[i].seq \notin twice =>
      rows[i].badge = packets[j].verdict

TableOK(pg, known, twice) ==
  /\ Known(pg.packets, known) /\ OnceEach(pg.packets, twice)
  /\ Known(pg.rows, known) /\ OnceEach(pg.rows, twice)
  /\ BadgesAgree(pg.rows, pg.packets, twice)

LEMMA AlignedAppend ==
  ASSUME NEW S, NEW s \in Seq(S), NEW e \in S, NEW U, NEW t \in Seq(U), NEW g \in U,
         Aligned(s, t), e.seq = g.seq
  PROVE  Aligned(Append(s, e), Append(t, g))
<1> DEFINE x == Append(s, e)
           y == Append(t, g)
<1>1. /\ Len(s) \in Nat /\ Len(x) = Len(s) + 1 /\ x[Len(s) + 1] = e
      /\ \A i \in 1 .. Len(s) : x[i] = s[i]
      BY AppendProperties, LenProperties
<1>2. /\ Len(t) \in Nat /\ Len(y) = Len(t) + 1 /\ y[Len(t) + 1] = g
      /\ \A i \in 1 .. Len(t) : y[i] = t[i]
      BY AppendProperties, LenProperties
<1> HIDE DEF x, y
<1>3. ASSUME NEW i \in 1 .. Len(x), NEW j \in 1 .. Len(y), Len(x) - i = Len(y) - j
      PROVE  x[i].seq = y[j].seq
  <2>1. CASE i = Len(s) + 1
    <3>1. j = Len(t) + 1
          BY <1>1, <1>2, <1>3, <2>1
    <3> QED BY <1>1, <1>2, <2>1, <3>1
  <2>2. CASE i # Len(s) + 1
    <3>1. i \in 1 .. Len(s) /\ j \in 1 .. Len(t) /\ Len(s) - i = Len(t) - j
          BY <1>1, <1>2, <1>3, <2>2
    <3>2. s[i].seq = t[j].seq
          BY <3>1 DEF Aligned
    <3> QED BY <1>1, <1>2, <3>1, <3>2
  <2> QED BY <2>1, <2>2
<1>4. Aligned(x, y)
      BY <1>3 DEF Aligned
<1> QED BY <1>4 DEF x, y

LEMMA AlignedEnds ==
  ASSUME NEW s, NEW t, NEW u, NEW w, Aligned(s, t), EndOf(u, s), EndOf(w, t),
         Len(s) \in Nat, Len(t) \in Nat, Len(u) \in Nat, Len(w) \in Nat
  PROVE  Aligned(u, w)
<1> SUFFICES ASSUME NEW i \in 1 .. Len(u), NEW j \in 1 .. Len(w), Len(u) - i = Len(w) - j
             PROVE  u[i].seq = w[j].seq
    BY DEF Aligned
<1>1. /\ Len(s) - Len(u) + i \in 1 .. Len(s) /\ Len(t) - Len(w) + j \in 1 .. Len(t)
      /\ Len(s) - (Len(s) - Len(u) + i) = Len(t) - (Len(t) - Len(w) + j)
      BY DEF EndOf
<1>2. s[Len(s) - Len(u) + i].seq = t[Len(t) - Len(w) + j].seq
      BY <1>1 DEF Aligned
<1> QED BY <1>2 DEF EndOf

LEMMA AlignedAlike ==
  ASSUME NEW s, NEW t, NEW u, NEW w, Aligned(s, t), Len(u) = Len(s), Len(w) = Len(t),
         \A i \in 1 .. Len(s) : u[i].seq = s[i].seq,
         \A i \in 1 .. Len(t) : w[i].seq = t[i].seq
  PROVE  Aligned(u, w)
BY DEF Aligned

SameNumbers(s, t) == Len(s) = Len(t) /\ \A i \in 1 .. Len(t) : s[i].seq = t[i].seq

(* Changing what is not looked at does not change what is selected. *)
LEMMA FilteredAlike ==
  ASSUME NEW S, NEW s \in Seq(S), NEW u \in Seq(S), Len(u) = Len(s), NEW T,
         \A i \in 1 .. Len(s) : u[i].seq = s[i].seq /\ (u[i] \in T <=> s[i] \in T)
  PROVE  SameNumbers(Filtered(u, T), Filtered(s, T))
<1> DEFINE h == Filtered(Positions(Len(s)), Selected(s, T))
<1>1. Selected(u, T) = Selected(s, T)
      BY DEF Selected
<1>2. /\ h \in Seq(1 .. Len(s)) /\ Len(Filtered(s, T)) = Len(h)
      /\ \A i \in 1 .. Len(h) : Filtered(s, T)[i] = s[h[i]]
      BY FilteredPositions
<1>3. /\ Len(Filtered(u, T)) = Len(h)
      /\ \A i \in 1 .. Len(h) : Filtered(u, T)[i] = u[h[i]]
  <2>1. h = Filtered(Positions(Len(u)), Selected(u, T))
        BY <1>1
  <2> HIDE DEF h
  <2> QED BY <2>1, FilteredPositions
<1> HIDE DEF h
<1>4. \A i \in 1 .. Len(h) : h[i] \in 1 .. Len(s)
      BY <1>2, ElementOfSeq
<1> QED BY <1>2, <1>3, <1>4 DEF SameNumbers

LEMMA KnownEnd ==
  ASSUME NEW u, NEW s, EndOf(u, s), Len(s) \in Nat, Len(u) \in Nat, NEW known, NEW twice
  PROVE  /\ Known(s, known) => Known(u, known)
         /\ OnceEach(s, twice) => OnceEach(u, twice)
<1> DEFINE d == Len(s) - Len(u)
<1>1. d \in Nat /\ \A i \in 1 .. Len(u) : d + i \in 1 .. Len(s) /\ u[i] = s[d + i]
      BY DEF EndOf
<1> HIDE DEF d
<1>2. Known(s, known) => Known(u, known)
      BY <1>1 DEF Known
<1>3. ASSUME OnceEach(s, twice), NEW i \in 1 .. Len(u), NEW j \in 1 .. Len(u),
             u[i].seq = u[j].seq, u[i].seq \notin twice \cup {0}
      PROVE  i = j
  <2>1. d + i = d + j
        BY <1>1, <1>3 DEF OnceEach
  <2> QED BY <1>1, <2>1
<1> QED BY <1>2, <1>3 DEF OnceEach

LEMMA KnownAppend ==
  ASSUME NEW S, NEW s \in Seq(S), NEW e \in S, NEW known, NEW twice, NEW known2, NEW twice2,
         Known(s, known), OnceEach(s, twice), known \subseteq known2, twice \subseteq twice2,
         e.seq \in known2, e.seq # 0, e.seq \in known => e.seq \in twice2
  PROVE  Known(Append(s, e), known2) /\ OnceEach(Append(s, e), twice2)
<1> DEFINE x == Append(s, e)
<1>1. /\ Len(s) \in Nat /\ Len(x) = Len(s) + 1 /\ x[Len(s) + 1] = e
      /\ \A i \in 1 .. Len(s) : x[i] = s[i]
      BY AppendProperties, LenProperties
<1> HIDE DEF x
<1>2. \A i \in 1 .. Len(x) : i \in 1 .. Len(s) \/ i = Len(s) + 1
      BY <1>1
<1>3. Known(x, known2)
      BY <1>1, <1>2 DEF Known
<1>4. ASSUME NEW i \in 1 .. Len(x), NEW j \in 1 .. Len(x),
             x[i].seq = x[j].seq, x[i].seq \notin twice2 \cup {0}
      PROVE  i = j
  <2>1. CASE i \in 1 .. Len(s) /\ j \in 1 .. Len(s)
        BY <1>1, <1>4, <2>1 DEF OnceEach
  <2>2. \A k \in 1 .. Len(s) : s[k].seq = e.seq => e.seq \in twice2
        BY DEF Known
  <2>3. CASE i \in 1 .. Len(s) /\ j = Len(s) + 1
        BY <1>1, <1>4, <2>2, <2>3
  <2>4. CASE i = Len(s) + 1 /\ j \in 1 .. Len(s)
        BY <1>1, <1>4, <2>2, <2>4
  <2> QED BY <1>2, <2>1, <2>3, <2>4
<1> QED BY <1>3, <1>4 DEF OnceEach, x

LEMMA KnownMore ==
  ASSUME NEW s, NEW known, NEW twice, NEW known2, NEW twice2,
         known \subseteq known2, twice \subseteq twice2
  PROVE  /\ Known(s, known) => Known(s, known2)
         /\ OnceEach(s, twice) => OnceEach(s, twice2)
BY DEF Known, OnceEach

LEMMA BadgesEnd ==
  ASSUME NEW rows, NEW rs, NEW packets, NEW ps, NEW twice, BadgesAgree(rows, packets, twice),
         EndOf(rs, rows), EndOf(ps, packets), Len(rows) \in Nat, Len(rs) \in Nat,
         Len(packets) \in Nat, Len(ps) \in Nat
  PROVE  BadgesAgree(rs, ps, twice)
<1> DEFINE d == Len(rows) - Len(rs)
           c == Len(packets) - Len(ps)
<1>1. d \in Nat /\ \A i \in 1 .. Len(rs) : d + i \in 1 .. Len(rows) /\ rs[i] = rows[d + i]
      BY DEF EndOf
<1>2. c \in Nat /\ \A i \in 1 .. Len(ps) : c + i \in 1 .. Len(packets) /\ ps[i] = packets[c + i]
      BY DEF EndOf
<1> HIDE DEF c, d
<1>3. ASSUME NEW i \in 1 .. Len(rs), NEW j \in 1 .. Len(ps),
             rs[i].seq = ps[j].seq, rs[i].seq \notin twice
      PROVE  rs[i].badge = ps[j].verdict
  <2>1. /\ rs[i] = rows[d + i] /\ d + i \in 1 .. Len(rows)
        /\ ps[j] = packets[c + j] /\ c + j \in 1 .. Len(packets)
        BY <1>1, <1>2
  <2> QED BY <1>3, <2>1 DEF BadgesAgree
<1> QED BY <1>3 DEF BadgesAgree

(* Appending a packet, and its row or none. *)
LEMMA BadgesAppend ==
  ASSUME NEW rows \in Seq(TableRow), NEW packets \in Seq(Packet), NEW p \in Packet,
         NEW known, NEW twice, NEW twice2, BadgesAgree(rows, packets, twice),
         Known(rows, known), Known(packets, known), twice \subseteq twice2,
         p.seq # 0, p.seq \in known => p.seq \in twice2
  PROVE  /\ BadgesAgree(rows, Append(packets, p), twice2)
         /\ BadgesAgree(Append(rows, Row(p)), Append(packets, p), twice2)
<1> DEFINE ps == Append(packets, p)
           rs == Append(rows, Row(p))
<1>1. /\ Len(packets) \in Nat /\ Len(ps) = Len(packets) + 1 /\ ps[Len(packets) + 1] = p
      /\ \A i \in 1 .. Len(packets) : ps[i] = packets[i]
      BY AppendProperties, LenProperties
<1>2. /\ Len(rows) \in Nat /\ Len(rs) = Len(rows) + 1 /\ rs[Len(rows) + 1] = Row(p)
      /\ \A i \in 1 .. Len(rows) : rs[i] = rows[i]
      BY AppendProperties, LenProperties, RowType
<1> HIDE DEF ps, rs
<1>3. Row(p).seq = p.seq /\ Row(p).badge = p.verdict
      BY DEF Row
<1>4. \A i \in 1 .. Len(ps) : i \in 1 .. Len(packets) \/ i = Len(packets) + 1
      BY <1>1
<1>5. \A i \in 1 .. Len(rs) : i \in 1 .. Len(rows) \/ i = Len(rows) + 1
      BY <1>2
<1>6. /\ \A i \in 1 .. Len(rows) : rows[i].seq = p.seq => p.seq \in twice2
      /\ \A i \in 1 .. Len(packets) : packets[i].seq = p.seq => p.seq \in twice2
      BY DEF Known
<1>7. BadgesAgree(rows, ps, twice2)
      BY <1>1, <1>4, <1>6 DEF BadgesAgree
<1>8. BadgesAgree(rs, ps, twice2)
  <2> SUFFICES ASSUME NEW i \in 1 .. Len(rs), NEW j \in 1 .. Len(ps),
                      rs[i].seq = ps[j].seq, rs[i].seq \notin twice2
               PROVE  rs[i].badge = ps[j].verdict
      BY DEF BadgesAgree
  <2>1. CASE i \in 1 .. Len(rows)
        BY <1>2, <1>7, <2>1 DEF BadgesAgree
  <2>2. CASE i = Len(rows) + 1 /\ j \in 1 .. Len(packets)
        BY <1>1, <1>2, <1>3, <1>6, <2>2
  <2>3. CASE i = Len(rows) + 1 /\ j = Len(packets) + 1
        BY <1>1, <1>2, <1>3, <2>3
  <2> QED BY <1>4, <1>5, <2>1, <2>2, <2>3
<1> QED BY <1>7, <1>8 DEF ps, rs

LEMMA EndItself ==
  ASSUME NEW s, Len(s) \in Nat
  PROVE  EndOf(s, s)
BY DEF EndOf

LEMMA ShiftIsEnd ==
  ASSUME CapOK, NEW packets \in Seq(Packet)
  PROVE  EndOf(Shift(packets), packets) /\ Shift(packets) \in Seq(Packet)
<1>1. Len(packets) \in Nat
      BY LenProperties
<1>2. CASE Len(packets) > ringCap
  <2>1. packets # <<>> /\ Shift(packets) = Tail(packets)
        BY <1>1, <1>2, Limits DEF Shift
  <2>2. /\ Tail(packets) \in Seq(Packet) /\ Len(Tail(packets)) = Len(packets) - 1
        /\ \A i \in 1 .. Len(Tail(packets)) : Tail(packets)[i] = packets[i + 1]
        BY <2>1, HeadTailProperties
  <2> DEFINE t == Tail(packets)
  <2> HIDE DEF t
  <2>3. /\ Len(t) = Len(packets) - 1
        /\ \A i \in 1 .. Len(t) : t[i] = packets[i + 1]
        BY <2>2 DEF t
  <2>4. EndOf(t, packets)
    <3>1. Len(packets) - Len(t) = 1 /\ Len(t) <= Len(packets)
          BY <1>1, <2>3
    <3>2. \A i \in 1 .. Len(t) : 1 + i = i + 1
          OBVIOUS
    <3> QED BY <2>3, <3>1, <3>2 DEF EndOf
  <2> QED BY <2>1, <2>2, <2>4 DEF t
<1>3. CASE ~(Len(packets) > ringCap)
      BY <1>1, <1>3, EndItself DEF Shift
<1> QED BY <1>2, <1>3

LEMMA NewestIsEnd ==
  ASSUME CapOK, NEW rows \in Seq(TableRow)
  PROVE  EndOf(Newest(rows), rows) /\ Len(Newest(rows)) <= Most
<1>1. Len(rows) \in Nat /\ ringCap \in Nat /\ Most \in Nat /\ ringCap <= Most
      BY LenProperties, Limits
<1>2. CASE Len(rows) > ringCap
  <2> DEFINE k == Len(rows) - ringCap
             t == Newest(rows)
  <2>1. k \in 0 .. Len(rows) /\ Len(rows) - k = ringCap
        BY <1>1, <1>2
  <2>2. t = SubSeq(rows, k + 1, Len(rows))
        BY <1>2 DEF Newest
  <2> HIDE DEF k, t
  <2>3. Len(t) = Len(rows) - k /\ \A i \in 1 .. Len(rows) - k : t[i] = rows[k + i]
        BY <2>1, <2>2, EndIs
  <2>4. Len(rows) - Len(t) = k /\ Len(t) = ringCap /\ Len(t) <= Len(rows)
        BY <1>1, <1>2, <2>1, <2>3
  <2>5. EndOf(t, rows)
        BY <2>3, <2>4 DEF EndOf
  <2> QED BY <1>1, <2>4, <2>5 DEF t
<1>3. CASE ~(Len(rows) > ringCap)
      BY <1>1, <1>3, EndItself DEF Newest
<1> QED BY <1>2, <1>3

(* add draws the packet below the others, and drops rows from above. *)
LEMMA AddTable ==
  ASSUME CapOK, NEW pg \in PageType, Len(pg.packets) <= Most, NEW n \in Numbers,
         NEW via \in Copies,
         NEW known, NEW twice, NEW known2, NEW twice2, known \subseteq known2,
         twice \subseteq twice2, n \in known2, n \in known => n \in twice2,
         TableOK(pg, known, twice), ~paused => Follows(pg, hidden)
  PROVE  /\ TableOK(Add(pg, n, via), known2, twice2)
         /\ ~paused => Follows(Add(pg, n, via), hidden)
         /\ Len(Add(pg, n, via).rows) <= Len(pg.rows) \/ Len(Add(pg, n, via).rows) <= Most
<1> DEFINE p  == AttachPending([seq |-> n, via |-> via, verdict |-> None], pg.pending)
           ps == Append(pg.packets, p)
           rs == Append(pg.rows, Row(p))
           pr == Add(pg, n, via)
<1>1. pg.packets \in Seq(Packet) /\ pg.pending \in Seq(Verdicts) /\ pg.rows \in Seq(TableRow)
      BY DEF PageType
<1>2. /\ pr.packets = Shift(ps)
      /\ pr.rows = (IF ~paused /\ Matches(p) THEN Newest(rs) ELSE pg.rows)
      BY DEF Add
<1>3. p \in Packet /\ p.seq = n /\ n # 0
      BY <1>1, Attached, ListAssumption
<1> HIDE DEF p
<1>4. Row(p) \in TableRow /\ Row(p) \in PacketRow /\ Row(p).seq = n
      BY <1>3, RowType, ListAssumption DEF Row, PacketRow, Packet
<1>5. ps \in Seq(Packet) /\ rs \in Seq(TableRow)
      BY <1>1, <1>3, <1>4, AppendProperties
<1>6. /\ Known(pg.packets, known) /\ OnceEach(pg.packets, twice)
      /\ Known(pg.rows, known) /\ OnceEach(pg.rows, twice)
      /\ BadgesAgree(pg.rows, pg.packets, twice)
      BY DEF TableOK
<1>7. Known(ps, known2) /\ OnceEach(ps, twice2)
      BY <1>1, <1>3, <1>6, KnownAppend
<1>8. Known(rs, known2) /\ OnceEach(rs, twice2)
  <2>1. ASSUME NEW r \in TableRow, r.seq = n
        PROVE  Known(Append(pg.rows, r), known2) /\ OnceEach(Append(pg.rows, r), twice2)
    <3>1. r.seq \in known2 /\ r.seq # 0 /\ (r.seq \in known => r.seq \in twice2)
          BY <1>3, <2>1
    <3>2. pg.rows \in Seq(TableRow) /\ Known(pg.rows, known) /\ OnceEach(pg.rows, twice)
          BY <1>1, <1>6
    <3> DEFINE old == pg.rows
    <3> HIDE DEF old
    <3>3. Known(Append(old, r), known2) /\ OnceEach(Append(old, r), twice2)
          BY <3>1, <3>2, KnownAppend DEF old
    <3> QED BY <3>3 DEF old
  <2> QED BY <1>4, <2>1
<1>9. Known(pg.rows, known2) /\ OnceEach(pg.rows, twice2)
      BY <1>6, KnownMore
<1>10. BadgesAgree(pg.rows, ps, twice2) /\ BadgesAgree(rs, ps, twice2)
      BY <1>1, <1>3, <1>6, BadgesAppend
<1>11. /\ ~paused /\ Matches(p) =>
            Aligned(Filtered(rs, PacketRow), Seen(ps, hidden))
       /\ ~paused /\ ~Matches(p) =>
            Aligned(Filtered(pg.rows, PacketRow), Seen(ps, hidden))
  <2> DEFINE T == {q \in Packet : FlowOf[q.seq] \notin hidden}
  <2>1. Matches(p) <=> p \in T
        BY <1>3 DEF Matches
  <2>2. Filtered(rs, PacketRow) = Append(Filtered(pg.rows, PacketRow), Row(p))
        BY <1>1, <1>4, FilteredAppend
  <2>3. Seen(ps, hidden) = IF p \in T THEN Append(Seen(pg.packets, hidden), p)
                                      ELSE Seen(pg.packets, hidden)
    <3>1. \A U : Filtered(ps, U) = IF p \in U THEN Append(Filtered(pg.packets, U), p)
                                            ELSE Filtered(pg.packets, U)
          BY <1>1, <1>3, FilteredAppend
    <3> HIDE DEF ps
    <3> QED BY <3>1 DEF Seen
  <2>4. Filtered(pg.rows, PacketRow) \in Seq(TableRow) /\ Seen(pg.packets, hidden) \in Seq(Packet)
        BY <1>1, FilteredType DEF Seen
  <2>5. ~paused => Aligned(Filtered(pg.rows, PacketRow), Seen(pg.packets, hidden))
        BY DEF Follows
  <2>6. ~paused => Aligned(Append(Filtered(pg.rows, PacketRow), Row(p)),
                           Append(Seen(pg.packets, hidden), p))
        BY <1>3, <1>4, <2>4, <2>5, AlignedAppend
  <2> HIDE DEF T, rs, ps
  <2> QED BY <2>1, <2>2, <2>3, <2>5, <2>6
<1> HIDE DEF ps, rs, pr
<1>12. /\ EndOf(pr.packets, ps) /\ pr.packets \in Seq(Packet)
       /\ Len(ps) \in Nat /\ Len(pr.packets) \in Nat
      BY <1>2, <1>5, ShiftIsEnd, LenProperties
<1>13. EndOf(Newest(rs), rs) /\ Newest(rs) \in Seq(TableRow) /\ Len(Newest(rs)) <= Most
       /\ Len(rs) \in Nat /\ Len(Newest(rs)) \in Nat /\ Len(pg.rows) \in Nat
      BY <1>1, <1>5, NewestType, NewestIsEnd, LenProperties
<1>14. EndOf(Seen(pr.packets, hidden), Seen(ps, hidden))
       /\ Len(Seen(pr.packets, hidden)) \in Nat /\ Len(Seen(ps, hidden)) \in Nat
      BY <1>5, <1>12, FilteredEndOf, FilteredType, LenProperties DEF Seen
<1>15. CASE ~paused /\ Matches(p)
  <2>1. pr.rows = Newest(rs)
        BY <1>2, <1>15
  <2>2. Known(pr.rows, known2) /\ OnceEach(pr.rows, twice2)
        BY <1>8, <1>13, <2>1, KnownEnd
  <2>3. BadgesAgree(pr.rows, pr.packets, twice2)
        BY <1>10, <1>12, <1>13, <2>1, BadgesEnd
  <2>4. EndOf(Filtered(pr.rows, PacketRow), Filtered(rs, PacketRow))
        /\ Len(Filtered(pr.rows, PacketRow)) \in Nat /\ Len(Filtered(rs, PacketRow)) \in Nat
        BY <1>5, <1>13, <2>1, FilteredEndOf, FilteredType, LenProperties
  <2>5. Follows(pr, hidden)
        BY <1>11, <1>14, <1>15, <2>4, AlignedEnds DEF Follows
  <2>6. Known(pr.packets, known2) /\ OnceEach(pr.packets, twice2)
        BY <1>7, <1>12, KnownEnd
  <2> QED BY <1>13, <2>1, <2>2, <2>3, <2>5, <2>6 DEF TableOK, pr
<1>16. CASE ~(~paused /\ Matches(p))
  <2>1. pr.rows = pg.rows
        BY <1>2, <1>16
  <2>2. EndOf(pg.rows, pg.rows)
        BY <1>13, EndItself
  <2>3. BadgesAgree(pr.rows, pr.packets, twice2)
        BY <1>10, <1>12, <1>13, <2>1, <2>2, BadgesEnd
  <2>4. ~paused => Follows(pr, hidden)
    <3> SUFFICES ASSUME ~paused PROVE Follows(pr, hidden)
        OBVIOUS
    <3>1. Aligned(Filtered(pg.rows, PacketRow), Seen(ps, hidden))
          BY <1>11, <1>16
    <3>2. Len(Filtered(pg.rows, PacketRow)) \in Nat
          BY <1>1, FilteredType, LenProperties
    <3>3. EndOf(Filtered(pg.rows, PacketRow), Filtered(pg.rows, PacketRow))
          BY <3>2, EndItself
    <3> QED BY <1>14, <2>1, <3>1, <3>2, <3>3, AlignedEnds DEF Follows
  <2>5. Known(pr.packets, known2) /\ OnceEach(pr.packets, twice2)
        BY <1>7, <1>12, KnownEnd
  <2> QED BY <1>9, <1>13, <2>1, <2>3, <2>4, <2>5 DEF TableOK, pr
<1> QED BY <1>15, <1>16

LEMMA KnownAlike ==
  ASSUME NEW s, NEW u, Len(u) = Len(s), \A i \in 1 .. Len(s) : u[i].seq = s[i].seq,
         NEW known, NEW twice
  PROVE  /\ Known(s, known) => Known(u, known)
         /\ OnceEach(s, twice) => OnceEach(u, twice)
BY DEF Known, OnceEach

(* onVerdict moves no row, and the badge it sets is the packet's, unless   *)
(* the list has the packet twice.                                          *)
LEMMA OnVerdictTable ==
  ASSUME NEW pg \in PageType, NEW v \in Verdicts, NEW deep \in BOOLEAN,
         NEW known, NEW twice, TableOK(pg, known, twice), ~paused => Follows(pg, hidden)
  PROVE  /\ TableOK(OnVerdict(pg, v, deep), known, twice)
         /\ ~paused => Follows(OnVerdict(pg, v, deep), hidden)
         /\ Len(OnVerdict(pg, v, deep).rows) = Len(pg.rows)
<1> DEFINE pr == OnVerdict(pg, v, deep)
<1>1. /\ pg.packets \in Seq(Packet) /\ pg.rows \in Seq(TableRow)
      /\ Len(pg.packets) \in Nat /\ Len(pg.rows) \in Nat
      BY LenProperties DEF PageType
<1>2. CASE pr.packets = pg.packets /\ pr.rows = pg.rows
  <2> HIDE DEF pr
  <2> QED BY <1>2 DEF TableOK, Follows, pr
<1>3. ASSUME NEW k \in 1 .. Len(pg.packets), NEW ps \in Seq(Packet), NEW rs \in Seq(TableRow),
             pr.packets = ps, pr.rows = rs, GivenTo(ps, pg.packets, k, v),
             BadgeSet(rs, pg.rows, pg.packets[k].seq, v)
      PROVE  /\ TableOK(pr, known, twice)
             /\ ~paused => Follows(pr, hidden)
             /\ Len(pr.rows) = Len(pg.rows)
  <2> HIDE DEF pr
  <2>1. /\ Len(ps) = Len(pg.packets)
        /\ \A i \in 1 .. Len(pg.packets) :
             /\ ps[i].seq = pg.packets[i].seq
             /\ ps[i].verdict = IF i = k THEN v ELSE pg.packets[i].verdict
        BY <1>3 DEF GivenTo
  <2>2. /\ Len(rs) = Len(pg.rows)
        /\ \A i \in 1 .. Len(pg.rows) : rs[i].seq = pg.rows[i].seq
        BY <1>3 DEF BadgeSet
  <2>3. Known(ps, known) /\ OnceEach(ps, twice) /\ Known(rs, known) /\ OnceEach(rs, twice)
        BY <2>1, <2>2, KnownAlike DEF TableOK
  <2>4. BadgesAgree(rs, ps, twice)
    <3> SUFFICES ASSUME NEW i \in 1 .. Len(pg.rows), NEW j \in 1 .. Len(pg.packets),
                        rs[i].seq = ps[j].seq, rs[i].seq \notin twice
                 PROVE  rs[i].badge = ps[j].verdict
        BY <2>1, <2>2 DEF BadgesAgree
    <3> DEFINE n == pg.packets[k].seq
    <3>1. /\ pg.rows[i].seq = pg.packets[j].seq /\ pg.rows[i].seq \notin twice
          /\ pg.rows[i].badge = pg.packets[j].verdict
          BY <2>1, <2>2 DEF TableOK, BadgesAgree
    <3>2. \A m \in 1 .. Len(pg.packets) : pg.packets[m].seq # 0
      <4>1. 0 \notin Numbers
            BY ListAssumption
      <4>2. \A m \in 1 .. Len(pg.packets) : pg.packets[m] \in Packet
            BY <1>1, ElementOfSeq
      <4> QED BY <4>1, <4>2 DEF Packet
    <3>3. CASE pg.rows[i].seq = n
      <4>1. j = k
            BY <3>1, <3>2, <3>3 DEF TableOK, OnceEach
      <4>2. PICK m \in 1 .. Len(pg.rows) : pg.rows[m].seq = n /\ rs[m].badge = v
            BY <1>3, <3>3 DEF BadgeSet
      <4>3. m = i
            BY <3>1, <3>2, <3>3, <4>2 DEF TableOK, OnceEach
      <4> QED BY <2>1, <4>1, <4>2, <4>3
    <3>4. CASE pg.rows[i].seq # n
      <4>1. j # k
            BY <3>1, <3>4
      <4>2. rs[i].badge = pg.rows[i].badge
            BY <1>3, <3>4 DEF BadgeSet
      <4> QED BY <2>1, <3>1, <4>1, <4>2
    <3> QED BY <3>3, <3>4
  <2>5. ~paused => Follows(pr, hidden)
    <3> SUFFICES ASSUME ~paused PROVE Follows(pr, hidden)
        OBVIOUS
    <3> DEFINE T  == {q \in Packet : FlowOf[q.seq] \notin hidden}
               U  == PacketRow
               a  == Filtered(pg.rows, U)
               a2 == Filtered(rs, U)
               b  == Filtered(pg.packets, T)
               b2 == Filtered(ps, T)
    <3>1. \A i \in 1 .. Len(pg.rows) :
            rs[i].seq = pg.rows[i].seq /\ (rs[i] \in U <=> pg.rows[i] \in U)
      <4>1. \A r \in TableRow : r \in PacketRow <=> r.seq \in Numbers
        <5>1. ASSUME NEW r \in TableRow, r.seq \in Numbers PROVE r \in PacketRow
          <6>1. r = [seq |-> r.seq, badge |-> r.badge, t |-> r.t]
                BY DEF TableRow
          <6> QED BY <5>1, <6>1 DEF TableRow, PacketRow
        <5> QED BY <5>1 DEF PacketRow
      <4>2. \A i \in 1 .. Len(pg.rows) : rs[i] \in TableRow /\ pg.rows[i] \in TableRow
            BY <1>1, <2>2, ElementOfSeq
      <4> QED BY <2>2, <4>1, <4>2
    <3>2. \A i \in 1 .. Len(pg.packets) :
            ps[i].seq = pg.packets[i].seq /\ (ps[i] \in T <=> pg.packets[i] \in T)
      <4>1. \A i \in 1 .. Len(pg.packets) : ps[i] \in Packet /\ pg.packets[i] \in Packet
            BY <1>1, <2>1, ElementOfSeq
      <4> QED BY <2>1, <4>1
    <3> HIDE DEF T, U
    <3>3. Len(a2) = Len(a) /\ \A i \in 1 .. Len(a) : a2[i].seq = a[i].seq
      <4>1. pg.rows \in Seq(TableRow) /\ rs \in Seq(TableRow) /\ Len(rs) = Len(pg.rows)
            BY <1>1, <2>2
      <4>2. \A s, u \in Seq(TableRow) :
              /\ Len(u) = Len(s)
              /\ \A i \in 1 .. Len(s) : u[i].seq = s[i].seq /\ (u[i] \in U <=> s[i] \in U)
              => SameNumbers(Filtered(u, U), Filtered(s, U))
            BY FilteredAlike
      <4> QED BY <3>1, <4>1, <4>2 DEF SameNumbers
    <3>4. Len(b2) = Len(b) /\ \A i \in 1 .. Len(b) : b2[i].seq = b[i].seq
      <4>1. pg.packets \in Seq(Packet) /\ ps \in Seq(Packet) /\ Len(ps) = Len(pg.packets)
            BY <1>1, <2>1
      <4>2. \A s, u \in Seq(Packet) :
              /\ Len(u) = Len(s)
              /\ \A i \in 1 .. Len(s) : u[i].seq = s[i].seq /\ (u[i] \in T <=> s[i] \in T)
              => SameNumbers(Filtered(u, T), Filtered(s, T))
            BY FilteredAlike
      <4> QED BY <3>2, <4>1, <4>2 DEF SameNumbers
    <3>5. Aligned(a, b)
          BY DEF Follows, Seen, T, U
    <3>6. a2 = Filtered(pr.rows, PacketRow) /\ b2 = Seen(pr.packets, hidden)
          BY <1>3 DEF Seen, T, U
    <3> HIDE DEF a, b, a2, b2
    <3>7. Aligned(a2, b2)
          BY <3>3, <3>4, <3>5, AlignedAlike
    <3> QED BY <3>6, <3>7 DEF Follows
  <2> QED BY <1>3, <2>2, <2>3, <2>4, <2>5 DEF TableOK
<1>4. \/ pr.packets = pg.packets /\ pr.rows = pg.rows
      \/ \E k \in 1 .. Len(pg.packets), ps \in Seq(Packet), rs \in Seq(TableRow) :
           /\ pr.packets = ps /\ pr.rows = rs /\ GivenTo(ps, pg.packets, k, v)
           /\ BadgeSet(rs, pg.rows, pg.packets[k].seq, v)
      BY OnVerdictIs
<1> HIDE DEF pr
<1> QED BY <1>2, <1>3, <1>4 DEF pr

LEMMA InsertTable ==
  ASSUME NEW rows \in Seq(TableRow), NEW row \in TableRow, row.seq = 0,
         NEW packets \in Seq(Packet), NEW known, NEW twice, Known(rows, known),
         OnceEach(rows, twice), BadgesAgree(rows, packets, twice)
  PROVE  LET rs == InsertByTime(rows, row)
         IN  /\ Len(rs) = Len(rows) + 1 /\ Filtered(rs, PacketRow) = Filtered(rows, PacketRow)
             /\ Known(rs, known) /\ OnceEach(rs, twice) /\ BadgesAgree(rs, packets, twice)
<1> DEFINE rs == InsertByTime(rows, row)
<1>1. PICK a \in Seq(TableRow), b \in Seq(TableRow) :
         rows = a \o b /\ rs = a \o <<row>> \o b
      BY InsertIs
<1>2. <<row>> \in Seq(TableRow) /\ Len(<<row>>) = 1 /\ <<row>>[1] = row /\ <<row>> = Append(<<>>, row)
      OBVIOUS
<1> DEFINE c == a \o <<row>>
<1>3. /\ c \in Seq(TableRow) /\ Len(c) = Len(a) + 1 /\ Len(a) \in Nat /\ Len(b) \in Nat
      /\ \A i \in 1 .. Len(a) + 1 : c[i] = IF i <= Len(a) THEN a[i] ELSE <<row>>[i - Len(a)]
      BY <1>2, ConcatProperties, LenProperties
<1> HIDE DEF c, rs
<1>4. rs = c \o b
      BY <1>1 DEF c
<1>5. /\ Len(rs) = Len(c) + Len(b)
      /\ \A i \in 1 .. Len(c) + Len(b) : rs[i] = IF i <= Len(c) THEN c[i] ELSE b[i - Len(c)]
      BY <1>3, <1>4, ConcatProperties
<1>6. /\ Len(rows) = Len(a) + Len(b)
      /\ \A i \in 1 .. Len(a) + Len(b) : rows[i] = IF i <= Len(a) THEN a[i] ELSE b[i - Len(a)]
      BY <1>1, ConcatProperties
<1> DEFINE d == Len(a)
<1>7. Len(rs) = Len(rows) + 1 /\ Len(rows) \in Nat /\ d \in 0 .. Len(rows)
      BY <1>3, <1>5, <1>6
<1>8. ASSUME NEW i \in 1 .. Len(rs)
      PROVE  rs[i] = IF i <= d THEN rows[i] ELSE IF i = d + 1 THEN row ELSE rows[i - 1]
  <2>1. CASE i <= d
    <3>1. i \in 1 .. Len(a) + 1 /\ i <= Len(c) /\ i \in 1 .. Len(c) + Len(b)
          /\ i \in 1 .. Len(a) + Len(b)
          BY <1>3, <2>1
    <3> QED BY <1>3, <1>5, <1>6, <2>1, <3>1
  <2>2. CASE i = d + 1
    <3>1. i \in 1 .. Len(a) + 1 /\ ~(i <= Len(a)) /\ i - Len(a) = 1
          /\ i <= Len(c) /\ i \in 1 .. Len(c) + Len(b)
          BY <1>3, <2>2
    <3>2. rs[i] = c[i] /\ c[i] = <<row>>[i - Len(a)]
          BY <1>3, <1>5, <3>1
    <3> QED BY <1>2, <2>2, <3>1, <3>2
  <2>3. CASE i > d + 1
    <3>1. /\ ~(i <= Len(c)) /\ i \in 1 .. Len(c) + Len(b) /\ i - 1 \in 1 .. Len(a) + Len(b)
          /\ ~(i - 1 <= Len(a)) /\ i - Len(c) = i - 1 - Len(a)
          BY <1>3, <1>5, <2>3
    <3>2. rs[i] = b[i - Len(c)] /\ rows[i - 1] = b[i - 1 - Len(a)]
          BY <1>5, <1>6, <3>1
    <3>3. ~(i <= d) /\ i # d + 1
          BY <1>3, <2>3
    <3> QED BY <3>1, <3>2, <3>3
  <2> QED BY <1>3, <1>7, <2>1, <2>2, <2>3
<1> HIDE DEF d
<1> DEFINE g(i) == IF i <= d THEN i ELSE i - 1
<1>9. \A i \in 1 .. Len(rs) : i = d + 1 \/ (g(i) \in 1 .. Len(rows) /\ rs[i] = rows[g(i)])
      BY <1>7, <1>8
<1>10. rs[d + 1] = row
      BY <1>7, <1>8
<1>11. \A i, j \in 1 .. Len(rs) : i # d + 1 /\ j # d + 1 /\ g(i) = g(j) => i = j
      BY <1>7
<1> HIDE DEF g
<1>12. Known(rs, known)
      BY <1>9, <1>10 DEF Known
<1>13. OnceEach(rs, twice)
  <2> SUFFICES ASSUME NEW i \in 1 .. Len(rs), NEW j \in 1 .. Len(rs),
                      rs[i].seq = rs[j].seq, rs[i].seq \notin twice \cup {0}
               PROVE  i = j
      BY DEF OnceEach
  <2>1. i # d + 1 /\ j # d + 1
        BY <1>10
  <2>2. /\ g(i) \in 1 .. Len(rows) /\ rs[i] = rows[g(i)]
        /\ g(j) \in 1 .. Len(rows) /\ rs[j] = rows[g(j)]
        BY <1>9, <2>1
  <2>3. g(i) = g(j)
        BY <2>2 DEF OnceEach
  <2> QED BY <1>11, <2>1, <2>3
<1>14. BadgesAgree(rs, packets, twice)
  <2>1. \A m \in 1 .. Len(packets) : packets[m].seq # 0
    <3>1. 0 \notin Numbers
          BY ListAssumption
    <3>2. \A m \in 1 .. Len(packets) : packets[m] \in Packet
          BY ElementOfSeq
    <3> QED BY <3>1, <3>2 DEF Packet
  <2> SUFFICES ASSUME NEW i \in 1 .. Len(rs), NEW j \in 1 .. Len(packets),
                      rs[i].seq = packets[j].seq, rs[i].seq \notin twice
               PROVE  rs[i].badge = packets[j].verdict
      BY DEF BadgesAgree
  <2>2. i # d + 1
        BY <1>10, <2>1
  <2>3. g(i) \in 1 .. Len(rows) /\ rs[i] = rows[g(i)]
        BY <1>9, <2>2
  <2> QED BY <2>3 DEF BadgesAgree
<1>15. Filtered(rs, PacketRow) = Filtered(rows, PacketRow)
  <2>1. row \notin PacketRow
        BY ListAssumption DEF PacketRow
  <2> DEFINE U == PacketRow
  <2> HIDE DEF U
  <2>2. rs = a \o <<row>> \o b /\ rows = a \o b /\ row \notin U
        BY <1>1, <2>1 DEF U
  <2>3. Filtered(a \o <<row>> \o b, U) = Filtered(a \o b, U)
        BY <2>2, FilteredPut
  <2> QED BY <2>2, <2>3 DEF U
<1> QED BY <1>7, <1>12, <1>13, <1>14, <1>15 DEF rs

(* The table drawn anew has a row for every packet that the filter shows.  *)
LEMMA RebuiltTable ==
  ASSUME NEW pg \in PageType, NEW known, NEW twice, NEW hid,
         Known(pg.packets, known), OnceEach(pg.packets, twice)
  PROVE  LET rs == Rebuilt(pg.packets, hid)
         IN  /\ Len(rs) <= Len(pg.packets) /\ Aligned(Filtered(rs, PacketRow), Seen(pg.packets, hid))
             /\ Known(rs, known) /\ OnceEach(rs, twice) /\ BadgesAgree(rs, pg.packets, twice)
<1> DEFINE ps == pg.packets
           T  == {p \in Packet : FlowOf[p.seq] \notin hid}
           sn == Filtered(ps, T)
           rs == Rebuilt(ps, hid)
           h  == Filtered(Positions(Len(ps)), Selected(ps, T))
<1>1. /\ ps \in Seq(Packet) /\ Len(ps) \in Nat
      /\ Known(ps, known) /\ OnceEach(ps, twice)
      BY LenProperties DEF PageType
<1> HIDE DEF ps
<1>2. rs = [i \in 1 .. Len(sn) |-> Row(sn[i])] /\ rs \in Seq(TableRow)
      BY <1>1, RebuiltType DEF Rebuilt
<1> HIDE DEF T, rs
<1>3. /\ sn \in Seq(Packet) /\ Len(sn) \in Nat /\ Len(sn) <= Len(ps)
      BY <1>1, FilteredType, LenProperties
<1>4. /\ h \in Seq(1 .. Len(ps)) /\ IsInjective(h) /\ Len(sn) = Len(h)
      /\ \A i \in 1 .. Len(h) : sn[i] = ps[h[i]]
      BY <1>1, FilteredPositions
<1> HIDE DEF sn, h
<1>5. Len(rs) = Len(sn) /\ \A i \in 1 .. Len(sn) : rs[i] = Row(sn[i])
      BY <1>2, <1>3
<1>6. \A i \in 1 .. Len(rs) : /\ h[i] \in 1 .. Len(ps) /\ rs[i].seq = ps[h[i]].seq
                             /\ rs[i].badge = ps[h[i]].verdict
  <2> SUFFICES ASSUME NEW i \in 1 .. Len(rs)
               PROVE  /\ h[i] \in 1 .. Len(ps) /\ rs[i].seq = ps[h[i]].seq
                      /\ rs[i].badge = ps[h[i]].verdict
      OBVIOUS
  <2>1. i \in 1 .. Len(h) /\ rs[i] = Row(sn[i]) /\ sn[i] = ps[h[i]]
        BY <1>4, <1>5
  <2>2. h[i] \in 1 .. Len(ps)
        BY <1>4, <2>1, ElementOfSeq
  <2> QED BY <2>1, <2>2, RowIs
<1>7. \A i, j \in 1 .. Len(rs) : h[i] = h[j] => i = j
  <2>1. DOMAIN h = 1 .. Len(rs)
        BY <1>4, <1>5, LenProperties
  <2> QED BY <1>4, <2>1 DEF IsInjective
<1>8. Known(rs, known)
      BY <1>1, <1>6 DEF Known
<1>9. OnceEach(rs, twice)
  <2> SUFFICES ASSUME NEW i \in 1 .. Len(rs), NEW j \in 1 .. Len(rs),
                      rs[i].seq = rs[j].seq, rs[i].seq \notin twice \cup {0}
               PROVE  i = j
      BY DEF OnceEach
  <2>1. h[i] = h[j]
        BY <1>1, <1>6 DEF OnceEach
  <2> QED BY <1>7, <2>1
<1>10. BadgesAgree(rs, ps, twice)
  <2> SUFFICES ASSUME NEW i \in 1 .. Len(rs), NEW j \in 1 .. Len(ps),
                      rs[i].seq = ps[j].seq, rs[i].seq \notin twice
               PROVE  rs[i].badge = ps[j].verdict
      BY DEF BadgesAgree
  <2>1. ps[j].seq # 0
    <3>1. 0 \notin Numbers
          BY ListAssumption
    <3>2. ps[j] \in Packet
          BY <1>1, ElementOfSeq
    <3> QED BY <3>1, <3>2 DEF Packet
  <2>2. h[i] = j
        BY <1>1, <1>6, <2>1 DEF OnceEach
  <2> QED BY <1>6, <2>2
<1>11. Filtered(rs, PacketRow) = rs
  <2>1. \A i \in 1 .. Len(rs) : rs[i] \in PacketRow
    <3>1. \A i \in 1 .. Len(sn) : sn[i] \in Packet
          BY <1>3, ElementOfSeq
    <3> QED BY <1>5, <3>1, RowType
  <2> QED BY <1>2, <2>1, FilteredAll
<1>12. Aligned(rs, sn)
  <2> SUFFICES ASSUME NEW i \in 1 .. Len(rs), NEW j \in 1 .. Len(sn), Len(rs) - i = Len(sn) - j
               PROVE  rs[i].seq = sn[j].seq
      BY DEF Aligned
  <2>1. i = j
        BY <1>3, <1>5
  <2> QED BY <1>5, <2>1, RowIs
<1> QED BY <1>3, <1>5, <1>8, <1>9, <1>10, <1>11, <1>12 DEF Seen, ps, rs, sn, T

-----------------------------------------------------------------------------
(* The table of a page of which known are the packets that came: with no   *)
(* more rows than bound.                                                   *)
Drawn(pg, known, twice, bound) ==
  /\ pg \in PageType /\ Len(pg.packets) <= Most
  /\ TableOK(pg, known, twice)
  /\ ~paused => Follows(pg, hidden)
  /\ Len(pg.rows) <= bound

LEMMA AddDraws ==
  ASSUME CapOK, NEW pg, NEW known, NEW twice, NEW bound \in Nat, Most <= bound,
         Drawn(pg, known, twice, bound), NEW n \in Numbers, NEW via \in Copies,
         NEW known2, NEW twice2, known \subseteq known2, twice \subseteq twice2,
         n \in known2, n \in known => n \in twice2
  PROVE  Drawn(Add(pg, n, via), known2, twice2, bound)
<1>1. /\ pg \in PageType /\ Len(pg.packets) <= Most /\ TableOK(pg, known, twice)
      /\ ~paused => Follows(pg, hidden)
      /\ Len(pg.rows) <= bound
      BY DEF Drawn
<1>2. Add(pg, n, via) \in PageType /\ Len(Add(pg, n, via).packets) <= Most
      BY <1>1, AddType
<1>3. /\ TableOK(Add(pg, n, via), known2, twice2)
      /\ ~paused => Follows(Add(pg, n, via), hidden)
      /\ Len(Add(pg, n, via).rows) <= Len(pg.rows) \/ Len(Add(pg, n, via).rows) <= Most
      BY <1>1, AddTable
<1>4. Len(pg.rows) \in Nat /\ Len(Add(pg, n, via).rows) \in Nat /\ Most \in Nat
      BY <1>1, <1>2, LenProperties, Limits DEF PageType
<1> DEFINE pr == Add(pg, n, via)
<1> HIDE DEF pr
<1>5. Len(pr.rows) <= bound
      BY <1>1, <1>3, <1>4 DEF pr
<1> QED BY <1>2, <1>3, <1>5 DEF Drawn, pr

LEMMA OnVerdictDraws ==
  ASSUME NEW pg, NEW known, NEW twice, NEW bound, Drawn(pg, known, twice, bound),
         NEW v \in Verdicts, NEW deep \in BOOLEAN
  PROVE  Drawn(OnVerdict(pg, v, deep), known, twice, bound)
<1>1. /\ pg \in PageType /\ Len(pg.packets) <= Most /\ TableOK(pg, known, twice)
      /\ ~paused => Follows(pg, hidden)
      /\ Len(pg.rows) <= bound
      BY DEF Drawn
<1>2. /\ OnVerdict(pg, v, deep) \in PageType
      /\ Len(OnVerdict(pg, v, deep).packets) <= Most
      BY <1>1, OnVerdictType
<1>3. /\ TableOK(OnVerdict(pg, v, deep), known, twice)
      /\ ~paused => Follows(OnVerdict(pg, v, deep), hidden)
      /\ Len(OnVerdict(pg, v, deep).rows) = Len(pg.rows)
      BY <1>1, OnVerdictTable
<1> QED BY <1>1, <1>2, <1>3 DEF Drawn

(* The page is that of before the answer while an answer is worked off, so *)
(* are the filter and the pause.                                           *)
LEMMA FillPacketsDraws ==
  ASSUME NEW lo \in Numbers, NEW hi \in Numbers, lo <= hi, NEW came, NEW bound \in Nat,
         CapOK, Most <= bound, Drawn(page, came, {}, bound)
  PROVE  Drawn(Filled(lo, hi, "packets"), came \cup (lo .. hi), came \cap (lo .. hi), bound)
<1> DEFINE Kept(pg, n) == Drawn(pg, came \cup (lo .. n), came \cap (lo .. n), bound)
           G == [n \in lo - 1 .. hi |-> {pg \in PageType : Kept(pg, n)}]
<1>1. lo \in Nat /\ hi \in Nat /\ lo - 1 <= hi /\ lo .. hi \subseteq Numbers
      BY ListAssumption
<1>2. \A pg, n : Kept(pg, n) => pg \in PageType
      BY DEF Drawn
<1>3. Kept(page, lo - 1)
  <2>1. lo .. lo - 1 = {}
        BY <1>1
  <2>2. came \cup (lo .. lo - 1) = came /\ came \cap (lo .. lo - 1) = {}
        BY <2>1
  <2> QED BY <2>2
<1>4. ASSUME NEW n \in lo .. hi, NEW pg, Kept(pg, n - 1)
      PROVE  Kept(FillOne(pg, n, "packets"), n)
  <2> DEFINE known == came \cup (lo .. n - 1)    twice == came \cap (lo .. n - 1)
             known2 == came \cup (lo .. n)       twice2 == came \cap (lo .. n)
  <2>1. /\ known \subseteq known2 /\ twice \subseteq twice2 /\ n \in known2
        /\ n \in known => n \in twice2
        BY <1>1
  <2>2. Drawn(pg, known, twice, bound) /\ n \in Numbers /\ "fill" \in Copies
        BY <1>1, <1>4 DEF Copies
  <2>3. FillOne(pg, n, "packets") = Add(pg, n, "fill")
        BY DEF FillOne
  <2>4. \A k, t, k2, t2 : /\ Drawn(pg, k, t, bound) /\ k \subseteq k2 /\ t \subseteq t2
                          /\ n \in k2 /\ (n \in k => n \in t2)
                          => Drawn(Add(pg, n, "fill"), k2, t2, bound)
        BY <2>2, AddDraws
  <2> HIDE DEF known, twice, known2, twice2
  <2>5. Drawn(Add(pg, n, "fill"), known2, twice2, bound)
        BY <2>1, <2>2, <2>4
  <2> QED BY <2>3, <2>5 DEF known2, twice2
<1> HIDE DEF Kept
<1>6. \A n \in lo - 1 .. hi : G[n] = {pg \in PageType : Kept(pg, n)}
      OBVIOUS
<1>7. lo - 1 \in lo - 1 .. hi /\ hi \in lo - 1 .. hi
      BY <1>1
<1>8. \A n \in lo .. hi : n - 1 \in lo - 1 .. hi /\ n \in lo - 1 .. hi
      BY <1>1
<1> HIDE DEF G
<1>9. page \in G[lo - 1]
      BY <1>2, <1>3, <1>6, <1>7
<1>10. \A n \in lo .. hi : \A pg \in G[n - 1] : FillOne(pg, n, "packets") \in G[n]
      BY <1>2, <1>4, <1>6, <1>8
<1>11. Filled(lo, hi, "packets") \in G[hi]
      BY <1>1, <1>9, <1>10, FillInvariant
<1>12. Kept(Filled(lo, hi, "packets"), hi)
      BY <1>6, <1>7, <1>11
<1> QED BY <1>12 DEF Kept

LEMMA FillVerdictsDraws ==
  ASSUME NEW lo \in VNumbers, NEW hi \in VNumbers, lo <= hi, NEW known, NEW twice, NEW bound,
         Drawn(page, known, twice, bound)
  PROVE  Drawn(Filled(lo, hi, "verdicts"), known, twice, bound)
<1> DEFINE A == {pg \in PageType : Drawn(pg, known, twice, bound)}
           G == [n \in lo - 1 .. hi |-> A]
<1>1. lo \in Nat /\ hi \in Nat /\ lo - 1 <= hi /\ lo .. hi \subseteq VNumbers
      BY ListAssumption
<1>2. \A pg : Drawn(pg, known, twice, bound) <=> pg \in A
      BY DEF Drawn
<1> HIDE DEF A
<1>3. ASSUME NEW n \in lo .. hi, NEW pg \in A PROVE FillOne(pg, n, "verdicts") \in A
  <2> DEFINE v == [seq |-> n, via |-> "fill"]
  <2>1. v \in Verdicts
        BY <1>1 DEF Verdicts, Copies
  <2>2. FillOne(pg, n, "verdicts") = OnVerdict(pg, v, TRUE)
        BY DEF FillOne
  <2> HIDE DEF v
  <2>3. \A deep \in BOOLEAN : Drawn(OnVerdict(pg, v, deep), known, twice, bound)
        BY <1>2, <2>1, OnVerdictDraws
  <2>4. Drawn(OnVerdict(pg, v, TRUE), known, twice, bound)
        BY <2>3, Zenon
  <2> QED BY <1>2, <2>2, <2>4
<1>4. \A n \in lo - 1 .. hi : G[n] = A
      OBVIOUS
<1>5. lo - 1 \in lo - 1 .. hi /\ hi \in lo - 1 .. hi
      BY <1>1
<1>6. \A n \in lo .. hi : n - 1 \in lo - 1 .. hi /\ n \in lo - 1 .. hi
      BY <1>1
<1> HIDE DEF G
<1>7. page \in G[lo - 1]
      BY <1>2, <1>4, <1>5
<1>8. \A n \in lo .. hi : \A pg \in G[n - 1] : FillOne(pg, n, "verdicts") \in G[n]
      BY <1>3, <1>4, <1>6
<1>9. Filled(lo, hi, "verdicts") \in G[hi]
      BY <1>1, <1>7, <1>8, FillInvariant
<1> QED BY <1>2, <1>4, <1>5, <1>9

Came == (1 .. live) \cup fetched
Twice == (1 .. live) \cap fetched
Bound == Most + Cardinality(orphans)

(* The inductive invariant of the table. *)
TableInv ==
  /\ IsFiniteSet(orphans)
  /\ Drawn(page, Came, Twice, Bound)
  /\ filled = "nothing" => fetched = {}

LEMMA TableInvInit == ListInit => TableInv
<1> SUFFICES ASSUME ListInit PROVE TableInv
    OBVIOUS
<1>1. /\ page.packets = <<>> /\ page.rows = <<>> /\ page \in PageType
      /\ orphans = {} /\ fetched = {}
      BY DEF ListInit, PageType
<1>2. IsFiniteSet({}) /\ Cardinality({}) = 0
      BY FS_EmptySet
<1>3. TableOK(page, Came, Twice)
      BY <1>1 DEF TableOK, Known, OnceEach, BadgesAgree
<1>4. Filtered(<<>>, PacketRow) = <<>> /\ Len(<<>>) = 0
      BY FilteredEmpty
<1>5. Follows(page, hidden)
      BY <1>1, <1>4 DEF Follows, Aligned
<1>6. Len(page.packets) <= Most /\ Len(page.rows) <= Bound
      BY <1>1, <1>2, <1>4, Limits DEF Bound
<1> QED BY <1>1, <1>2, <1>3, <1>5, <1>6 DEF TableInv, Drawn

LEMMA TableInvStep == ListOK /\ ListOK' /\ TableInv /\ [ListNext]_listVars => TableInv'
<1> SUFFICES ASSUME ListOK, ListOK', TableInv, [ListNext]_listVars PROVE TableInv'
    OBVIOUS
<1>1. /\ page \in PageType /\ Len(page.packets) <= Most /\ Apart(page, GaveUp) /\ CapOK
      /\ page.timers = Range(page.pending) /\ page' \in PageType /\ Len(page'.packets) <= Most
      /\ page.packets \in Seq(Packet) /\ page.rows \in Seq(TableRow)
      /\ Len(page.packets) \in Nat /\ Len(page.rows) \in Nat
      /\ live \in 0 .. Len(FlowOf)
      BY LenProperties DEF ListOK, PageOK, PageType
<1>2. /\ IsFiniteSet(orphans) /\ Cardinality(orphans) \in Nat
      /\ Bound \in Nat /\ Most <= Bound
      BY FS_CardinalityType, Limits DEF TableInv, Bound
<1>3. Drawn(page, Came, Twice, Bound)
      BY DEF TableInv
<1>4. /\ TableOK(page, Came, Twice)
      /\ ~paused => Follows(page, hidden)
      /\ Len(page.rows) <= Bound
      BY <1>3 DEF Drawn
<1>5. ASSUME NEW known, NEW twice, Drawn(page', known, twice, Bound), known = Came',
             twice = Twice', UNCHANGED <<paused, hidden, orphans>>,
             filled' = "nothing" => fetched' = {}
      PROVE  TableInv'
  <2>1. Bound' = Bound /\ IsFiniteSet(orphans')
        BY <1>2, <1>5 DEF Bound
  <2>2. /\ page' \in PageType /\ Len(page'.packets) <= Most
        /\ TableOK(page', Came', Twice')
        /\ ~paused' => Follows(page', hidden')
        /\ Len(page'.rows) <= Bound'
        BY <1>5, <2>1 DEF Drawn
  <2> QED BY <1>5, <2>1, <2>2 DEF TableInv, Drawn
<1>6. CASE PacketArrives
  <2> DEFINE known2 == (1 .. live + 1) \cup fetched    twice2 == (1 .. live + 1) \cap fetched
  <2>1. /\ page' = Add(page, live + 1, "live") /\ live' = live + 1
        /\ UNCHANGED <<paused, hidden, vlive, filled, fetched, orphans>>
        BY <1>6 DEF PacketArrives
  <2>2. live + 1 \in Numbers /\ "live" \in Copies
        BY <1>1, <1>6, ListAssumption DEF PacketArrives, Copies
  <2>3. /\ Came \subseteq known2 /\ Twice \subseteq twice2 /\ live + 1 \in known2
        /\ live + 1 \in Came => live + 1 \in twice2
        BY <1>1 DEF Came, Twice
  <2>4. known2 = Came' /\ twice2 = Twice'
        BY <2>1 DEF Came, Twice
  <2> HIDE DEF known2, twice2
  <2>5. Drawn(page', known2, twice2, Bound)
        BY <1>1, <1>2, <1>3, <2>1, <2>2, <2>3, AddDraws
  <2> QED BY <1>5, <2>1, <2>4, <2>5 DEF TableInv
<1>7. CASE VerdictArrives
  <2> DEFINE v == [seq |-> vlive + 1, via |-> "live"]
  <2>1. /\ page' = OnVerdict(page, v, FALSE)
        /\ UNCHANGED <<paused, hidden, live, filled, fetched, orphans>>
        BY <1>7 DEF VerdictArrives
  <2>2. v \in Verdicts
        BY <1>7, ListAssumption DEF VerdictArrives, ListOK, Verdicts, Copies
  <2> HIDE DEF v
  <2>3. \A deep \in BOOLEAN : Drawn(OnVerdict(page, v, deep), Came, Twice, Bound)
        BY <1>3, <2>2, OnVerdictDraws
  <2>4. Drawn(OnVerdict(page, v, FALSE), Came, Twice, Bound)
        BY <2>3, Zenon
  <2> DEFINE known == Came    twice == Twice
  <2>5. known = Came' /\ twice = Twice'
        BY <2>1 DEF Came, Twice
  <2>6. Drawn(page', known, twice, Bound)
        BY <2>1, <2>4
  <2> HIDE DEF known, twice
  <2> QED BY <1>5, <2>1, <2>5, <2>6 DEF TableInv
<1>8. ASSUME NEW lo \in Numbers, NEW hi \in Numbers, lo <= hi, FillPackets(lo, hi)
      PROVE  TableInv'
  <2>1. /\ page' = Filled(lo, hi, "packets") /\ fetched' = lo .. hi /\ filled' = "packets"
        /\ UNCHANGED <<paused, hidden, live, vlive, orphans>> /\ filled = "nothing"
        BY <1>8 DEF FillPackets
  <2> DEFINE came == 1 .. live
             known2 == came \cup (lo .. hi)    twice2 == came \cap (lo .. hi)
  <2>2. Came = came /\ Twice = {}
        BY <2>1 DEF TableInv, Came, Twice
  <2>3. known2 = Came' /\ twice2 = Twice'
        BY <2>1 DEF Came, Twice
  <2> HIDE DEF came
  <2>4. Drawn(page, came, {}, Bound)
        BY <1>3, <2>2
  <2>5. Drawn(Filled(lo, hi, "packets"), came \cup (lo .. hi), came \cap (lo .. hi), Bound)
        BY <1>1, <1>2, <1>8, <2>4, FillPacketsDraws
  <2>6. Drawn(page', known2, twice2, Bound)
        BY <2>1, <2>5
  <2> HIDE DEF known2, twice2
  <2> QED BY <1>5, <2>1, <2>3, <2>6
<1>9. ASSUME NEW lo \in VNumbers, NEW hi \in VNumbers, lo <= hi, FillVerdicts(lo, hi)
      PROVE  TableInv'
  <2>1. /\ page' = Filled(lo, hi, "verdicts") /\ filled' = "all"
        /\ UNCHANGED <<paused, hidden, live, vlive, fetched, orphans>>
        BY <1>9 DEF FillVerdicts
  <2>2. Drawn(Filled(lo, hi, "verdicts"), Came, Twice, Bound)
        BY <1>3, <1>9, FillVerdictsDraws
  <2> DEFINE known == Came    twice == Twice
  <2>3. known = Came' /\ twice = Twice'
        BY <2>1 DEF Came, Twice
  <2>4. Drawn(page', known, twice, Bound)
        BY <2>1, <2>2
  <2> HIDE DEF known, twice
  <2> QED BY <1>5, <2>1, <2>3, <2>4
<1>10. ASSUME NEW v \in Verdicts, OrphanTimer(v) PROVE TableInv'
  <2> DEFINE rs == IF paused THEN page.rows ELSE InsertByTime(page.rows, OrphanRow(v))
  <2>1. /\ page'.rows = rs /\ page'.packets = page.packets
        /\ orphans' = IF paused THEN orphans ELSE orphans \cup {v}
        /\ UNCHANGED <<paused, hidden, live, vlive, filled, fetched>>
    <3>1. page = [packets |-> page.packets, pending |-> page.pending,
                  timers |-> page.timers, rows |-> page.rows, gone |-> page.gone]
          BY <1>1 DEF PageType
    <3> HIDE DEF rs
    <3>2. page' = [page EXCEPT !.timers = @ \ {v}, !.pending = Filtered(@, Verdicts \ {v}),
                               !.rows = rs]
          BY <1>10 DEF OrphanTimer, rs
    <3> QED BY <1>10, <3>1, <3>2 DEF OrphanTimer, GivenUp
  <2>2. v \notin orphans
        BY <1>1, <1>10 DEF OrphanTimer, Apart, GaveUp
  <2>3. /\ IsFiniteSet(orphans') /\ Bound' = IF paused THEN Bound ELSE Bound + 1
    <3>1. IsFiniteSet(orphans \cup {v}) /\ Cardinality(orphans \cup {v}) = Cardinality(orphans) + 1
          BY <1>2, <2>2, FS_AddElement
    <3> QED BY <1>2, <2>1, <3>1, Limits DEF Bound
  <2>4. OrphanRow(v) \in TableRow /\ OrphanRow(v).seq = 0
        BY ListAssumption DEF OrphanRow, TableRow, Verdicts
  <2>5. /\ Known(page.packets, Came) /\ OnceEach(page.packets, Twice)
        /\ Known(page.rows, Came) /\ OnceEach(page.rows, Twice)
        /\ BadgesAgree(page.rows, page.packets, Twice)
        BY <1>4 DEF TableOK
  <2>6. /\ Len(rs) <= IF paused THEN Len(page.rows) ELSE Len(page.rows) + 1
        /\ Filtered(rs, PacketRow) = Filtered(page.rows, PacketRow)
        /\ Known(rs, Came) /\ OnceEach(rs, Twice) /\ BadgesAgree(rs, page.packets, Twice)
    <3>1. CASE paused
          BY <1>1, <2>5, <3>1
    <3>2. CASE ~paused
      <4> DEFINE row == OrphanRow(v)    ins == InsertByTime(page.rows, row)
      <4>1. /\ Len(ins) = Len(page.rows) + 1
            /\ Filtered(ins, PacketRow) = Filtered(page.rows, PacketRow)
            /\ Known(ins, Came) /\ OnceEach(ins, Twice) /\ BadgesAgree(ins, page.packets, Twice)
            BY <1>1, <2>4, <2>5, InsertTable
      <4>2. rs = ins
            BY <3>2
      <4> HIDE DEF rs, ins, row
      <4> QED BY <1>1, <3>2, <4>1, <4>2
    <3> QED BY <3>1, <3>2
  <2> HIDE DEF rs
  <2>7. Known(page.packets, Came') /\ Came' = Came /\ Twice' = Twice
        BY <2>1, <2>5 DEF Came, Twice
  <2>8. TableOK(page', Came', Twice')
        BY <2>1, <2>5, <2>6, <2>7 DEF TableOK
  <2>9. ~paused' => Follows(page', hidden')
        BY <1>4, <2>1, <2>6 DEF Follows
  <2>10. Len(page'.rows) <= Bound'
    <3>1. page'.rows \in Seq(TableRow)
          BY <1>1 DEF PageType
    <3>2. Len(rs) \in Nat
          BY <2>1, <3>1, LenProperties
    <3> QED BY <1>1, <1>2, <1>4, <2>1, <2>3, <2>6, <3>2
  <2> QED BY <1>1, <2>1, <2>3, <2>8, <2>9, <2>10 DEF TableInv, Drawn
<1>11. ASSUME NEW rs, page'.rows = rs, NEW ps, page'.packets = ps, Len(rs) <= Most,
              Len(rs) \in Nat,
              Known(ps, Came), OnceEach(ps, Twice), Known(rs, Came), OnceEach(rs, Twice),
              BadgesAgree(rs, ps, Twice), Aligned(Filtered(rs, PacketRow), Seen(ps, hidden')),
              UNCHANGED <<live, vlive, filled, fetched, orphans>>
       PROVE  TableInv'
  <2>1. Came' = Came /\ Twice' = Twice /\ Bound' = Bound
        BY <1>11 DEF Came, Twice, Bound
  <2>2. TableOK(page', Came', Twice')
        BY <1>11, <2>1 DEF TableOK
  <2>3. Follows(page', hidden')
        BY <1>11 DEF Follows
  <2>4. Len(page'.rows) <= Bound'
        BY <1>2, <1>11, <2>1, Limits
  <2> QED BY <1>1, <1>2, <1>11, <2>2, <2>3, <2>4 DEF TableInv, Drawn
<1>12. CASE Clear
  <2>1. /\ page'.rows = <<>> /\ page'.packets = <<>> /\ Len(<<>>) = 0
        /\ UNCHANGED <<live, vlive, filled, fetched, orphans>>
        BY <1>1, <1>12 DEF Clear, PageType
  <2>2. Filtered(<<>>, PacketRow) = <<>>
        BY FilteredEmpty
  <2>3. /\ Known(<<>>, Came) /\ OnceEach(<<>>, Twice) /\ BadgesAgree(<<>>, <<>>, Twice)
        /\ Aligned(Filtered(<<>>, PacketRow), Seen(<<>>, hidden'))
        BY <2>1, <2>2 DEF Known, OnceEach, BadgesAgree, Aligned
  <2>4. 0 <= Most
        BY Limits
  <2> DEFINE none == <<>>
  <2>5. Len(none) <= Most /\ Len(none) \in Nat
        BY <2>1, <2>4
  <2> HIDE DEF none
  <2> QED BY <1>11, <2>1, <2>3, <2>5 DEF none
<1>13. ASSUME NEW hid, hidden' = hid, page' = [page EXCEPT !.rows = Rebuilt(page.packets, hid)],
              UNCHANGED <<live, vlive, filled, fetched, orphans>>
       PROVE  TableInv'
  <2> DEFINE rs == Rebuilt(page.packets, hid)
             ps == page.packets
  <2>1. page'.rows = rs /\ page'.packets = ps
        BY <1>1, <1>13 DEF PageType
  <2>2. Known(ps, Came) /\ OnceEach(ps, Twice)
        BY <1>4 DEF TableOK
  <2>3. /\ Len(rs) <= Len(ps) /\ Aligned(Filtered(rs, PacketRow), Seen(ps, hid))
        /\ Known(rs, Came) /\ OnceEach(rs, Twice) /\ BadgesAgree(rs, ps, Twice)
        BY <1>1, <2>2, RebuiltTable
  <2>4. Len(rs) \in Nat
        BY <1>1, RebuiltType, LenProperties
  <2>5. Len(ps) <= Most /\ Len(ps) \in Nat /\ Most \in Nat
        BY <1>1, Limits
  <2> HIDE DEF rs, ps
  <2>6. Len(rs) <= Most
        BY <2>3, <2>4, <2>5
  <2> QED BY <1>11, <1>13, <2>1, <2>2, <2>3, <2>4, <2>6
<1>14. CASE Resume
      BY <1>13, <1>14 DEF Resume
<1>15. ASSUME NEW hid \in Filters, Filter(hid) PROVE TableInv'
      BY <1>13, <1>15 DEF Filter
<1>16. CASE Pause
  <2>1. UNCHANGED <<page, hidden, live, vlive, filled, fetched, orphans>> /\ paused'
        BY <1>16 DEF Pause
  <2> QED BY <2>1 DEF TableInv, Drawn, Came, Twice, Bound
<1>17. CASE SetStats
  <2>1. UNCHANGED <<page, paused, hidden, live, vlive, filled, fetched, orphans>>
        BY <1>17 DEF SetStats
  <2> QED BY <2>1 DEF TableInv, Drawn, Came, Twice, Bound, Follows
<1>18. CASE UNCHANGED listVars
      BY <1>18 DEF listVars, TableInv, Drawn, Came, Twice, Bound
<1> QED BY <1>6, <1>7, <1>8, <1>9, <1>10, <1>12, <1>14, <1>15, <1>16, <1>17,
       <1>18 DEF ListNext

LEMMA TableInvariant == ListSpec => []TableInv
BY TableInvInit, TableInvStep, ListInvariant, PTL DEF ListSpec

-----------------------------------------------------------------------------
LEMMA EndIsSuffix ==
  ASSUME NEW S, NEW u \in Seq(S), NEW s \in Seq(S), EndOf(u, s)
  PROVE  IsSuffix(u, s)
<1> DEFINE ru == Reverse(u)
           rs == Reverse(s)
<1>1. Len(u) \in Nat /\ Len(s) \in Nat /\ Len(u) <= Len(s)
      BY LenProperties DEF EndOf
<1>2. /\ \A i \in 1 .. Len(u) : u[(Len(u) - i) + 1] \in S
      /\ \A i \in 1 .. Len(s) : s[(Len(s) - i) + 1] \in S
  <2>1. /\ \A i \in 1 .. Len(u) : (Len(u) - i) + 1 \in 1 .. Len(u)
        /\ \A i \in 1 .. Len(s) : (Len(s) - i) + 1 \in 1 .. Len(s)
        BY <1>1
  <2> QED BY <2>1, ElementOfSeq
<1>3. /\ ru = [i \in 1 .. Len(u) |-> u[(Len(u) - i) + 1]]
      /\ rs = [i \in 1 .. Len(s) |-> s[(Len(s) - i) + 1]]
      BY DEF Reverse
<1> HIDE DEF ru, rs
<1>4. /\ ru \in Seq(S) /\ Len(ru) = Len(u) /\ rs \in Seq(S) /\ Len(rs) = Len(s)
      BY <1>1, <1>2, <1>3
<1>5. ASSUME NEW i \in 1 .. Len(u) PROVE ru[i] = rs[i]
  <2>1. /\ (Len(u) - i) + 1 \in 1 .. Len(u) /\ i \in 1 .. Len(s)
        /\ Len(s) - Len(u) + ((Len(u) - i) + 1) = (Len(s) - i) + 1
        BY <1>1
  <2>2. u[(Len(u) - i) + 1] = s[(Len(s) - i) + 1]
        BY <2>1 DEF EndOf
  <2> QED BY <1>3, <2>1, <2>2
<1> DEFINE x == SubSeq(ru, 1, Len(u))
           y == SubSeq(rs, 1, Len(u))
<1>6. /\ x \in Seq(S) /\ Len(x) = Len(u) /\ \A i \in 1 .. Len(u) : x[i] = ru[i]
      /\ y \in Seq(S) /\ Len(y) = Len(u) /\ \A i \in 1 .. Len(u) : y[i] = rs[i]
  <2>1. /\ \A i \in 1 .. Len(u) : ru[i] \in S
        /\ \A i \in 1 .. Len(u) : rs[i] \in S
    <3>1. \A i \in 1 .. Len(u) : i \in 1 .. Len(ru) /\ i \in 1 .. Len(rs)
          BY <1>1, <1>4
    <3> QED BY <1>4, <3>1, ElementOfSeq
  <2>2. 1 \in Int /\ Len(u) \in Int /\ \A i \in 1 .. Len(u) : 1 + i - 1 = i
        BY <1>1
  <2> QED BY <1>1, <2>1, <2>2, SubSeqProperties
<1> HIDE DEF x, y
<1>7. x = y
      BY <1>5, <1>6, SeqEqual
<1>8. IsPrefix(ru, rs)
      BY <1>1, <1>4, <1>7 DEF IsPrefix, x, y
<1> QED BY <1>8 DEF IsSuffix, ru, rs

LEMMA AlignedSuffix ==
  ASSUME NEW S, NEW s \in Seq(S), NEW U, NEW t \in Seq(U), Aligned(s, t)
  PROVE  LET a == [i \in 1 .. Len(s) |-> s[i].seq]
             b == [i \in 1 .. Len(t) |-> t[i].seq]
         IN  IsSuffix(a, b) \/ IsSuffix(b, a)
<1> DEFINE a == [i \in 1 .. Len(s) |-> s[i].seq]
           b == [i \in 1 .. Len(t) |-> t[i].seq]
           V == {s[i].seq : i \in 1 .. Len(s)} \cup {t[i].seq : i \in 1 .. Len(t)}
<1>1. Len(s) \in Nat /\ Len(t) \in Nat
      BY LenProperties
<1>2. /\ a \in Seq(V) /\ Len(a) = Len(s) /\ \A i \in 1 .. Len(s) : a[i] = s[i].seq
      /\ b \in Seq(V) /\ Len(b) = Len(t) /\ \A i \in 1 .. Len(t) : b[i] = t[i].seq
      BY <1>1
<1> HIDE DEF a, b, V
<1>3. ASSUME Len(s) <= Len(t) PROVE EndOf(a, b)
  <2>1. ASSUME NEW i \in 1 .. Len(s) PROVE a[i] = b[Len(t) - Len(s) + i]
    <3>1. /\ Len(t) - Len(s) + i \in 1 .. Len(t)
          /\ Len(s) - i = Len(t) - (Len(t) - Len(s) + i)
          BY <1>1, <1>3
    <3>2. s[i].seq = t[Len(t) - Len(s) + i].seq
          BY <3>1 DEF Aligned
    <3> QED BY <1>2, <3>1, <3>2
  <2> QED BY <1>2, <1>3, <2>1 DEF EndOf
<1>4. ASSUME Len(t) <= Len(s) PROVE EndOf(b, a)
  <2>1. ASSUME NEW i \in 1 .. Len(t) PROVE b[i] = a[Len(s) - Len(t) + i]
    <3>1. /\ Len(s) - Len(t) + i \in 1 .. Len(s)
          /\ Len(s) - (Len(s) - Len(t) + i) = Len(t) - i
          BY <1>1, <1>4
    <3>2. s[Len(s) - Len(t) + i].seq = t[i].seq
          BY <3>1 DEF Aligned
    <3> QED BY <1>2, <3>1, <3>2
  <2> QED BY <1>2, <1>4, <2>1 DEF EndOf
<1>5. EndOf(a, b) \/ EndOf(b, a)
      BY <1>1, <1>3, <1>4
<1> QED BY <1>2, <1>5, EndIsSuffix DEF a, b

(* Unless the page is paused, the table shows the newest packets of the    *)
(* list that pass the filter, or all of them below older rows, each with   *)
(* its packet's verdict if that came once, whatever the limit is lowered   *)
(* to meanwhile; and list and table stay within the higher limit, the      *)
(* table with the orphans (index.html:683-705, 899-903, 1340).             *)
THEOREM TableFollowsList == ListSpec => []RowsFollowList
<1>1. ListOK /\ TableInv => RowsFollowList
  <2> SUFFICES ASSUME ListOK, TableInv PROVE RowsFollowList
      OBVIOUS
  <2>1. /\ page \in PageType /\ page.packets \in Seq(Packet) /\ page.rows \in Seq(TableRow)
        /\ page.pending \in Seq(Verdicts) /\ page.timers \subseteq Verdicts
        /\ page.gone \subseteq Verdicts /\ Len(page.packets) <= Most
        BY DEF ListOK, PageOK, PageType
  <2>2. /\ TableOK(page, Came, Twice) /\ Len(page.rows) <= Bound
        /\ ~paused => Follows(page, hidden)
        BY DEF TableInv, Drawn
  <2>3. ListTypeOK
    <3>1. /\ Parked \subseteq Verdicts
          /\ \A p \in ToSet(page.packets) : p \in Packet
          BY <2>1, ToSetIsRange, RangeOfSeq DEF Parked
    <3>2. \A p \in Packet : p.seq \in Numbers /\ p.via \in Copies /\ p.verdict \in Verdicts \cup {None}
          BY DEF Packet
    <3> QED BY <2>1, <2>2, <3>1, <3>2 DEF ListTypeOK, ListOK, Bound, GaveUp, CapOK
  <2>4. Listed = Seen(page.packets, hidden)
        BY DEF Listed, Seen, Matches
  <2>5. PacketRows \in Seq(TableRow) /\ Listed \in Seq(Packet)
        BY <2>1, FilteredType DEF PacketRows, Listed
  <2>6. ~paused => LET rows == [i \in 1 .. Len(PacketRows) |-> PacketRows[i].seq]
                       list == [i \in 1 .. Len(Listed) |-> Listed[i].seq]
                   IN  IsSuffix(rows, list) \/ IsSuffix(list, rows)
    <3>1. ~paused => Aligned(PacketRows, Listed)
          BY <2>2, <2>4 DEF Follows, PacketRows
    <3> HIDE DEF PacketRows, Listed
    <3> QED BY <2>5, <3>1, AlignedSuffix
  <2>7. ASSUME NEW r \in ToSet(PacketRows), NEW p \in ToSet(Listed), r.seq = p.seq,
               p.seq \notin fetched \cap 1 .. live
        PROVE  r.badge = p.verdict
    <3>1. r \in Range(page.rows) /\ p \in Range(page.packets)
      <4>1. /\ Range(PacketRows) = Range(page.rows) \cap PacketRow
            /\ Range(Listed) = Range(page.packets) \cap {q \in Packet : Matches(q)}
            BY <2>1, FilteredRange DEF PacketRows, Listed
      <4>2. r \in Range(PacketRows) /\ p \in Range(Listed)
            BY <2>5, <2>7, ToSetIsRange
      <4> QED BY <4>1, <4>2
    <3>2. PICK i \in 1 .. Len(page.rows) : page.rows[i] = r
          BY <2>1, <3>1, LenProperties DEF Range
    <3>3. PICK j \in 1 .. Len(page.packets) : page.packets[j] = p
          BY <2>1, <3>1, LenProperties DEF Range
    <3>4. r.seq \notin Twice
          BY <2>7 DEF Twice
    <3> QED BY <2>2, <2>7, <3>2, <3>3, <3>4 DEF TableOK, BadgesAgree
  <2> QED BY <2>3, <2>6, <2>7 DEF RowsFollowList
<1> QED BY <1>1, ListInvariant, TableInvariant, PTL
=============================================================================
