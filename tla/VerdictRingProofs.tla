------------------------- MODULE VerdictRingProofs -------------------------
(***************************************************************************)
(* What VerdictRing guarantees for every backlog size, channel bound, set  *)
(* of connections and traffic.                                             *)
(***************************************************************************)
EXTENDS VerdictRing, Lemmas

TypesAndCounts ==
  /\ VerdictTypeOK
  /\ events_dropped \in Nat
  /\ kept \in Seq(Event)
  /\ kseq = Len(queue) + events_dropped + own_hidden + Len(kept)

(* What is kept of the newest events, entry by entry. *)
Window == IF Len(kept) < VRing THEN Len(kept) ELSE VRing

BacklogIsWindow ==
  /\ Len(events) = Window
  /\ \A i \in 1 .. Window : events[i] = kept[Len(kept) - Window + i]

NoneIsOwn == \A i \in 1 .. Len(kept) : ~IsOwn(kept[i].flow)

VerdictInv == TypesAndCounts /\ BacklogIsWindow /\ NoneIsOwn

-----------------------------------------------------------------------------
(* Every number the kernel gives out is queued or counted. *)
LEMMA JudgeCounts ==
  ASSUME TypesAndCounts, NEW f \in Traffic, Judge(f)
  PROVE  TypesAndCounts'
<1> USE VerdictAssumption DEF TypesAndCounts, VerdictTypeOK
<1>1. kseq' = kseq + 1 /\ kseq' \in 0 .. MaxEvents
      BY DEF Judge
<1>2. CASE Len(queue) < KQueue
  <2> DEFINE ev == [seq |-> kseq + 1, flow |-> f]
  <2>1. ev \in Event
        BY <1>1 DEF Judge, Event
  <2>2. queue' \in Seq(Event) /\ Len(queue') = Len(queue) + 1
    <3>1. queue' = Append(queue, ev)
          BY <1>2 DEF Judge
    <3> HIDE DEF ev
    <3> QED BY <2>1, <3>1, AppendProperties
  <2>3. kseq' = Len(queue') + events_dropped + own_hidden + Len(kept)
        BY <1>1, <2>2
  <2> QED BY <1>1, <1>2, <2>2, <2>3 DEF Judge, histories
<1>3. CASE ~(Len(queue) < KQueue)
  <2>1. kseq' = Len(queue) + (events_dropped + 1) + own_hidden + Len(kept)
        BY <1>1
  <2> QED BY <1>1, <1>3, <2>1 DEF Judge, histories
<1> QED BY <1>2, <1>3

(* An event leaves the queue to be counted as own or to be kept. *)
LEMMA PushCounts ==
  ASSUME TypesAndCounts, Push
  PROVE  TypesAndCounts'
<1> USE VerdictAssumption DEF TypesAndCounts, VerdictTypeOK
<1> DEFINE ev == Head(queue)
<1>1. ev \in Event /\ queue' \in Seq(Event) /\ Len(queue') = Len(queue) - 1
      BY DEF Push
<1>2. CASE IsOwn(ev.flow)
  <2>1. own_hidden' = own_hidden + 1 /\ kseq' = kseq
        BY <1>2 DEF Push
  <2>2. kseq = Len(queue') + events_dropped + own_hidden' + Len(kept)
        BY <1>1, <2>1
  <2> QED BY <1>1, <1>2, <2>1, <2>2 DEF Push
<1>3. CASE ~IsOwn(ev.flow)
  <2>1. /\ kept' = Append(kept, ev) /\ events' = Append(Evict(events), ev)
        /\ chan' = FanOut(ev) /\ subscribers' = Retain
        /\ UNCHANGED <<kseq, events_dropped, own_hidden, receivers>>
        BY <1>3 DEF Push
  <2>2. kept' \in Seq(Event) /\ Len(kept') = Len(kept) + 1
        BY <1>1, <2>1
  <2>3. Evict(events) \in Seq(Event) /\ Len(Evict(events)) < VRing
        BY DEF Evict
  <2>4. events' \in Seq(Event) /\ Len(events') <= VRing
        BY <1>1, <2>1, <2>3
  <2>5. chan' \in [Conns -> Seq(Event)]
        BY <1>1, <2>1 DEF FanOut
  <2>6. \A c \in Conns : Len(chan'[c]) <= ChannelCap
    <3>1. SUFFICES ASSUME NEW c \in Conns PROVE Len(chan'[c]) <= ChannelCap
          OBVIOUS
    <3>2. CASE c \in subscribers /\ TrySend(c) = "ok"
      <4>1. chan'[c] = Append(chan[c], ev) /\ Len(chan[c]) # ChannelCap
            BY <2>1, <3>2 DEF FanOut, TrySend
      <4> QED BY <1>1, <4>1
    <3>3. CASE ~(c \in subscribers /\ TrySend(c) = "ok")
          BY <2>1, <3>3 DEF FanOut
    <3> QED BY <3>2, <3>3
  <2>7. subscribers' \subseteq Conns
        BY <2>1 DEF Retain
  <2>8. kseq = Len(queue') + events_dropped + own_hidden + Len(kept')
        BY <1>1, <2>2
  <2> QED BY <1>1, <2>1, <2>2, <2>4, <2>5, <2>6, <2>7, <2>8
<1> QED BY <1>2, <1>3

LEMMA CountsStep == TypesAndCounts /\ [VerdictNext]_verdictVars => TypesAndCounts'
<1> SUFFICES ASSUME TypesAndCounts, [VerdictNext]_verdictVars
             PROVE  TypesAndCounts'
    OBVIOUS
<1> USE DEF TypesAndCounts, VerdictTypeOK
<1>1. ASSUME NEW c \in Conns, Subscribe(c) PROVE TypesAndCounts'
      BY <1>1, VerdictAssumption DEF Subscribe
<1>2. ASSUME NEW c \in Conns, Recv(c) PROVE TypesAndCounts'
  <2>1. Tail(chan[c]) \in Seq(Event) /\ Len(Tail(chan[c])) <= ChannelCap
        BY <1>2, VerdictAssumption DEF Recv
  <2> QED BY <1>2, <2>1 DEF Recv
<1>3. ASSUME NEW c \in Conns, HangUp(c) PROVE TypesAndCounts'
      BY <1>3, VerdictAssumption DEF HangUp, histories
<1>4. CASE UNCHANGED verdictVars
      BY <1>4 DEF verdictVars, histories
<1> QED BY <1>1, <1>2, <1>3, <1>4, JudgeCounts, PushCounts DEF VerdictNext

-----------------------------------------------------------------------------
(* The backlog slides over what is kept. *)
LEMMA WindowStep ==
  ASSUME TypesAndCounts, BacklogIsWindow, NEW ev \in Event,
         events' = Append(Evict(events), ev), kept' = Append(kept, ev)
  PROVE  BacklogIsWindow'
<1> USE VerdictAssumption DEF TypesAndCounts, VerdictTypeOK
<1>1. Len(kept') = Len(kept) + 1 /\ Len(kept) \in Nat /\ Len(events) \in Nat
      OBVIOUS
<1>2. CASE Len(kept) < VRing
  <2>1. Window = Len(kept) /\ Window' = Len(kept) + 1
        BY <1>1, <1>2 DEF Window
  <2>2. events' = Append(events, ev) /\ Len(events) = Len(kept)
        BY <1>2, <2>1 DEF Evict, BacklogIsWindow
  <2>3. \A i \in 1 .. Len(kept) : events[i] = kept[i]
        BY <1>1, <2>1 DEF BacklogIsWindow
  <2>4. \A i \in 1 .. Len(kept) + 1 : events'[i] = kept'[i]
        BY <1>1, <2>2, <2>3
  <2> QED BY <1>1, <2>1, <2>2, <2>4 DEF BacklogIsWindow
<1>3. CASE ~(Len(kept) < VRing)
  <2>1. Window = VRing /\ Window' = VRing
        BY <1>1, <1>3 DEF Window
  <2>2. Len(events) = VRing /\ events # <<>>
        BY <2>1 DEF BacklogIsWindow
  <2>3. events' = Append(Tail(events), ev)
        BY <2>2 DEF Evict
  <2>4. Len(Tail(events)) = VRing - 1
        BY <2>2
  <2>5. \A i \in 1 .. VRing - 1 : Tail(events)[i] = events[i + 1]
        BY <2>2
  <2>6. \A i \in 1 .. VRing : events[i] = kept[Len(kept) - VRing + i]
        BY <2>1 DEF BacklogIsWindow
  <2>7. ASSUME NEW i \in 1 .. VRing
        PROVE  events'[i] = kept'[Len(kept') - VRing + i]
    <3>1. CASE i = VRing
          BY <1>1, <2>3, <2>4, <3>1
    <3>2. CASE i # VRing
      <4>1. i \in 1 .. VRing - 1 /\ i + 1 \in 1 .. VRing
            BY <3>2
      <4>2. events'[i] = events[i + 1]
            BY <2>3, <2>4, <2>5, <4>1
      <4>3. events[i + 1] = kept[Len(kept) - VRing + (i + 1)]
            BY <2>6, <4>1
      <4>4. Len(kept) - VRing + (i + 1) \in 1 .. Len(kept)
            BY <1>1, <1>3, <4>1
      <4>5. Len(kept') - VRing + i = Len(kept) - VRing + (i + 1)
            BY <1>1
      <4> QED BY <4>2, <4>3, <4>4, <4>5
    <3> QED BY <3>1, <3>2
  <2>8. Len(events') = VRing
        BY <2>3, <2>4
  <2> QED BY <2>1, <2>7, <2>8 DEF BacklogIsWindow
<1> QED BY <1>2, <1>3

LEMMA VerdictStep == VerdictInv /\ [VerdictNext]_verdictVars => VerdictInv'
<1> SUFFICES ASSUME VerdictInv, [VerdictNext]_verdictVars
             PROVE  VerdictInv'
    OBVIOUS
<1>1. TypesAndCounts'
      BY CountsStep DEF VerdictInv
<1>2. ASSUME Push, ~IsOwn(Head(queue).flow)
      PROVE  BacklogIsWindow' /\ NoneIsOwn'
  <2>1. /\ events' = Append(Evict(events), Head(queue))
        /\ kept' = Append(kept, Head(queue))
        BY <1>2 DEF Push
  <2>2. Head(queue) \in Event /\ kept \in Seq(Event)
        BY <1>2 DEF Push, VerdictInv, TypesAndCounts, VerdictTypeOK
  <2>3. BacklogIsWindow'
        BY <2>1, <2>2, WindowStep DEF VerdictInv
  <2>4. ASSUME NEW i \in 1 .. Len(kept') PROVE ~IsOwn(kept'[i].flow)
    <3>1. CASE i = Len(kept) + 1
          BY <1>2, <2>1, <2>2, <3>1
    <3>2. CASE i \in 1 .. Len(kept)
      <4>1. kept'[i] = kept[i]
            BY <2>1, <2>2, <3>2
      <4> QED BY <3>2, <4>1 DEF VerdictInv, NoneIsOwn
    <3> QED BY <2>1, <2>2, <3>1, <3>2
  <2> QED BY <2>3, <2>4 DEF NoneIsOwn, IsOwn
<1>3. ASSUME UNCHANGED <<events, kept>>
      PROVE  BacklogIsWindow' /\ NoneIsOwn'
  <2>1. BacklogIsWindow'
        BY <1>3 DEF VerdictInv, BacklogIsWindow, Window
  <2>2. NoneIsOwn'
        BY <1>3, Zenon DEF VerdictInv, NoneIsOwn, IsOwn
  <2> QED BY <2>1, <2>2
<1>4. UNCHANGED <<events, kept>> \/ (Push /\ ~IsOwn(Head(queue).flow))
  <2>1. Push => UNCHANGED <<events, kept>> \/ ~IsOwn(Head(queue).flow)
        BY DEF Push
  <2>2. CASE \E f \in Traffic : Judge(f)
        BY <2>2 DEF Judge, histories
  <2>3. CASE \E c \in Conns : Subscribe(c) \/ Recv(c) \/ HangUp(c)
        BY <2>3 DEF Subscribe, Recv, HangUp, histories
  <2>4. CASE UNCHANGED verdictVars
        BY <2>4 DEF verdictVars, histories
  <2> QED BY <2>1, <2>2, <2>3, <2>4 DEF VerdictNext
<1> QED BY <1>1, <1>2, <1>3, <1>4 DEF VerdictInv

-----------------------------------------------------------------------------
(* For every size of the backlog it is the newest of what was not hidden,  *)
(* none of it is the daemon's own traffic, and the counters explain every  *)
(* number of the kernel's (engine.rs:413-414, 472-493).                    *)
THEOREM VerdictBacklogExact == VerdictSpec => []BacklogIsNewestKept
<1>1. VerdictInit => VerdictInv
      BY VerdictAssumption
      DEF VerdictInit, VerdictInv, TypesAndCounts, VerdictTypeOK,
          BacklogIsWindow, Window, NoneIsOwn
<1>2. VerdictInv => BacklogIsNewestKept
  <2> SUFFICES ASSUME VerdictInv PROVE BacklogIsNewestKept
      OBVIOUS
  <2> USE VerdictAssumption DEF VerdictInv, TypesAndCounts, VerdictTypeOK
  <2> DEFINE first == Len(kept) - Window + 1
             tail  == SubSeq(kept, first, Len(kept))
  <2>1. Window \in 0 .. Len(kept) /\ Len(kept) \in Nat
        BY DEF Window
  <2>2. tail \in Seq(Event) /\ Len(tail) = Window
        BY <2>1
  <2>3. \A i \in 1 .. Window : tail[i] = kept[Len(kept) - Window + i]
        BY <2>1
  <2>4. events = tail
    <3>1. events \in Seq(Event) /\ Len(events) = Window
          BY DEF BacklogIsWindow
    <3>2. \A i \in 1 .. Len(events) : events[i] = tail[i]
          BY <2>3, <3>1 DEF BacklogIsWindow
    <3> HIDE DEF tail
    <3> QED BY <2>2, <3>1, <3>2, SeqEqual
  <2>5. ASSUME NEW i \in 1 .. Len(kept),
               kept[i].flow.protocol = 6, kept[i].flow.addr_family # 0
        PROVE  kept[i].flow.src_port # "own" /\ kept[i].flow.dst_port # "own"
    <3>1. kept[i] \in Event
          BY ElementOfSeq
    <3>2. kept[i].flow \in Flow
          BY <3>1 DEF Event
    <3>3. ~IsOwn(kept[i].flow)
          BY DEF NoneIsOwn
    <3> QED BY <2>5, <3>2, <3>3 DEF IsOwn, Flow
  <2> QED BY <2>4, <2>5 DEF BacklogIsNewestKept, Window
<1> QED BY <1>1, <1>2, VerdictStep, PTL DEF VerdictSpec

-----------------------------------------------------------------------------
(* The numbers of what has left the queue are below those that wait in it, *)
(* and both ascend: numbers are what tells the kept events apart.          *)
Ascending(s) == \A i, j \in 1 .. Len(s) : i < j => s[i].seq < s[j].seq

Passed(e, q, n) == e.seq <= n /\ \A j \in 1 .. Len(q) : e.seq < q[j].seq

InOrder ==
  /\ Ascending(kept) /\ Ascending(queue)
  /\ \A j \in 1 .. Len(queue) : queue[j].seq <= kseq
  /\ \A i \in 1 .. Len(kept) : Passed(kept[i], queue, kseq)

(* What the histories of the connections are. *)
HistoriesOK ==
  /\ receivers \subseteq subscribers
  /\ since_when \in [Conns -> Nat]
  /\ taken \in [Conns -> Seq(Event)]
  /\ missed \in [Conns -> SUBSET Event]
  /\ \A c \in Conns : since_when[c] <= Len(kept)
  /\ \A c \in Conns : \A e \in missed[c] : Passed(e, queue, kseq)

LEMMA AscendingAppend ==
  ASSUME NEW s \in Seq(Event), NEW e \in Event, Ascending(s),
         \A i \in 1 .. Len(s) : s[i].seq < e.seq
  PROVE  Ascending(Append(s, e))
<1> DEFINE u == Append(s, e)
<1>1. /\ Len(u) = Len(s) + 1 /\ Len(s) \in Nat /\ u[Len(s) + 1] = e
      /\ \A i \in 1 .. Len(s) : u[i] = s[i]
      BY AppendProperties, LenProperties
<1> HIDE DEF u
<1>2. ASSUME NEW i \in 1 .. Len(u), NEW j \in 1 .. Len(u), i < j
      PROVE  u[i].seq < u[j].seq
  <2>1. i \in 1 .. Len(s) /\ (j \in 1 .. Len(s) \/ j = Len(s) + 1)
        BY <1>1, <1>2
  <2> QED BY <1>1, <1>2, <2>1 DEF Ascending
<1>3. Ascending(u)
      BY <1>2 DEF Ascending
<1> QED BY <1>3 DEF u

(* What the kernel adds is above everything it numbered before. *)
LEMMA JudgeIsNewest ==
  ASSUME TypesAndCounts, InOrder, NEW f \in Traffic, Judge(f)
  PROVE  /\ Ascending(queue') /\ \A j \in 1 .. Len(queue') : queue'[j].seq <= kseq'
         /\ \A e \in Event : Passed(e, queue, kseq) => Passed(e, queue', kseq')
<1> DEFINE ev == [seq |-> kseq + 1, flow |-> f]
<1>1. /\ kseq \in Nat /\ kseq' = kseq + 1 /\ queue \in Seq(Event)
      /\ ev.seq = kseq + 1 /\ ev \in Event
      BY VerdictAssumption DEF Judge, TypesAndCounts, VerdictTypeOK, Event
<1>2. queue' = queue \/ queue' = Append(queue, ev)
      BY DEF Judge
<1>3. \A e \in Event : e.seq \in Nat
      BY DEF Event
<1>4. ASSUME NEW j \in 1 .. Len(queue)
      PROVE  queue[j] \in Event /\ queue[j].seq \in Nat /\ queue[j].seq <= kseq
  <2>1. queue[j] \in Event
        BY <1>1, ElementOfSeq
  <2> QED BY <1>3, <2>1 DEF InOrder
<1> HIDE DEF ev
<1>5. CASE queue' = queue
      BY <1>1, <1>4, <1>3, <1>5 DEF InOrder, Ascending, Passed
<1>6. CASE queue' = Append(queue, ev)
  <2>1. /\ Len(queue') = Len(queue) + 1 /\ Len(queue) \in Nat
        /\ queue'[Len(queue) + 1] = ev
        /\ \A i \in 1 .. Len(queue) : queue'[i] = queue[i]
        BY <1>1, <1>6, AppendProperties, LenProperties
  <2>2. Ascending(queue')
        BY <1>1, <1>4, <1>6, AscendingAppend DEF InOrder
  <2>3. ASSUME NEW j \in 1 .. Len(queue') PROVE queue'[j].seq <= kseq'
    <3>1. j \in 1 .. Len(queue) \/ j = Len(queue) + 1
          BY <2>1
    <3> QED BY <1>1, <1>4, <2>1, <3>1
  <2>4. ASSUME NEW e \in Event, Passed(e, queue, kseq), NEW j \in 1 .. Len(queue')
        PROVE  e.seq < queue'[j].seq
    <3>1. j \in 1 .. Len(queue) \/ j = Len(queue) + 1
          BY <2>1
    <3> QED BY <1>1, <1>3, <2>1, <2>4, <3>1 DEF Passed
  <2>5. \A e \in Event : Passed(e, queue, kseq) => e.seq <= kseq'
        BY <1>1, <1>3 DEF Passed
  <2> QED BY <2>2, <2>3, <2>4, <2>5 DEF Ascending, Passed
<1> QED BY <1>2, <1>5, <1>6

(* The head of the queue is passed once it has left, and above all that    *)
(* was passed before it.                                                   *)
LEMMA HeadPasses ==
  ASSUME TypesAndCounts, InOrder, queue # <<>>, queue' = Tail(queue), kseq' = kseq
  PROVE  /\ Head(queue) \in Event
         /\ Ascending(queue') /\ \A j \in 1 .. Len(queue') : queue'[j].seq <= kseq'
         /\ \A e \in Event : Passed(e, queue, kseq) =>
                               Passed(e, queue', kseq') /\ e.seq < Head(queue).seq
         /\ Passed(Head(queue), queue', kseq')
<1>1. /\ queue \in Seq(Event) /\ Len(queue) \in Nat \ {0} /\ Head(queue) = queue[1]
      /\ Len(queue') = Len(queue) - 1
      /\ \A j \in 1 .. Len(queue') : queue'[j] = queue[j + 1]
      /\ Head(queue) \in Event
      BY DEF TypesAndCounts, VerdictTypeOK
<1>2. \A j \in 1 .. Len(queue') : j + 1 \in 1 .. Len(queue)
      BY <1>1
<1>3. Ascending(queue')
      BY <1>1, <1>2 DEF InOrder, Ascending
<1>4. \A j \in 1 .. Len(queue') : queue'[j].seq <= kseq'
      BY <1>1, <1>2 DEF InOrder
<1>5. 1 \in 1 .. Len(queue)
      BY <1>1
<1>6. \A e \in Event : Passed(e, queue, kseq) => e.seq < queue[1].seq
      BY <1>5 DEF Passed
<1>7. \A e \in Event : Passed(e, queue, kseq) => /\ e.seq <= kseq'
                                    /\ \A j \in 1 .. Len(queue') : e.seq < queue'[j].seq
      BY <1>1, <1>2 DEF Passed
<1>8. ASSUME NEW j \in 1 .. Len(queue') PROVE queue[1].seq < queue'[j].seq
  <2>1. j + 1 \in 1 .. Len(queue) /\ 1 < j + 1
        BY <1>1, <1>2
  <2> QED BY <1>1, <1>5, <2>1 DEF InOrder, Ascending
<1>9. queue[1].seq <= kseq
      BY <1>5 DEF InOrder
<1> QED BY <1>1, <1>3, <1>4, <1>6, <1>7, <1>8, <1>9 DEF Ascending, Passed

LEMMA OrderStep == TypesAndCounts /\ InOrder /\ [VerdictNext]_verdictVars => InOrder'
<1> SUFFICES ASSUME TypesAndCounts, InOrder, [VerdictNext]_verdictVars
             PROVE  InOrder'
    OBVIOUS
<1>0. kept \in Seq(Event) /\ \A i \in 1 .. Len(kept) : kept[i] \in Event
      BY ElementOfSeq DEF TypesAndCounts
<1>1. ASSUME NEW f \in Traffic, Judge(f) PROVE InOrder'
  <2>1. kept' = kept
        BY <1>1 DEF Judge, histories
  <2>2. \A i \in 1 .. Len(kept) : Passed(kept[i], queue', kseq')
        BY <1>0, <1>1, JudgeIsNewest DEF InOrder
  <2> QED BY <1>1, <2>1, <2>2, JudgeIsNewest DEF InOrder, Ascending, Passed
<1>2. CASE Push
  <2> DEFINE ev == Head(queue)
  <2>1. queue # <<>> /\ queue' = Tail(queue) /\ kseq' = kseq
        BY <1>2 DEF Push
  <2>2. /\ ev \in Event /\ Ascending(queue')
        /\ \A j \in 1 .. Len(queue') : queue'[j].seq <= kseq'
        /\ Passed(ev, queue', kseq')
        BY <2>1, HeadPasses
  <2>3. \A i \in 1 .. Len(kept) : Passed(kept[i], queue', kseq') /\ kept[i].seq < ev.seq
        BY <1>0, <2>1, HeadPasses DEF InOrder
  <2>4. kept' = kept \/ kept' = Append(kept, ev)
        BY <1>2 DEF Push
  <2> HIDE DEF ev
  <2>5. CASE kept' = kept
        BY <2>2, <2>3, <2>5 DEF InOrder, Ascending, Passed
  <2>6. CASE kept' = Append(kept, ev)
    <3>1. /\ Len(kept') = Len(kept) + 1 /\ Len(kept) \in Nat
          /\ kept'[Len(kept) + 1] = ev
          /\ \A i \in 1 .. Len(kept) : kept'[i] = kept[i]
          BY <1>0, <2>2, <2>6, AppendProperties, LenProperties
    <3>2. Ascending(kept')
          BY <1>0, <2>2, <2>3, <2>6, AscendingAppend DEF InOrder
    <3>3. ASSUME NEW i \in 1 .. Len(kept')
          PROVE  /\ kept'[i].seq <= kseq'
                 /\ \A j \in 1 .. Len(queue') : kept'[i].seq < queue'[j].seq
      <4>1. i \in 1 .. Len(kept) \/ i = Len(kept) + 1
            BY <3>1
      <4> QED BY <2>2, <2>3, <3>1, <4>1 DEF Passed
    <3> QED BY <2>2, <3>2, <3>3 DEF InOrder, Ascending, Passed
  <2> QED BY <2>4, <2>5, <2>6
<1>3. CASE UNCHANGED <<kept, queue, kseq>>
      BY <1>3 DEF InOrder, Ascending, Passed
<1>4. CASE \E c \in Conns : Subscribe(c) \/ Recv(c) \/ HangUp(c)
      BY <1>3, <1>4 DEF Subscribe, Recv, HangUp, histories
<1>5. CASE UNCHANGED verdictVars
      BY <1>3, <1>5 DEF verdictVars, histories
<1> QED BY <1>1, <1>2, <1>4, <1>5 DEF VerdictNext

LEMMA InvariantsHold == VerdictSpec => []VerdictInv /\ []InOrder
<1>1. VerdictInit => VerdictInv
      BY VerdictAssumption
      DEF VerdictInit, VerdictInv, TypesAndCounts, VerdictTypeOK,
          BacklogIsWindow, Window, NoneIsOwn
<1>2. VerdictInit => InOrder
      BY DEF VerdictInit, InOrder, Ascending
<1>3. VerdictInv => TypesAndCounts
      BY DEF VerdictInv
<1> QED BY <1>1, <1>2, <1>3, VerdictStep, OrderStep, PTL DEF VerdictSpec

(* Asking for what follows the last number one has gives every kept event  *)
(* after it, once and in order, while fewer than VRing came since          *)
(* (engine.rs:454-463).                                                    *)
THEOREM RejoiningIsExact == VerdictSpec => []RejoinBySeq
<1>1. VerdictInv /\ InOrder => RejoinBySeq
  <2> SUFFICES ASSUME VerdictInv, InOrder, NEW i \in 0 .. Len(kept)
               PROVE  LET last   == IF i = 0 THEN 0 ELSE kept[i].seq
                          answer == Since(last)
                      IN /\ Len(kept) - i <= VRing =>
                              answer = SubSeq(kept, i + 1, Len(kept))
                         /\ \A j \in 1 .. Len(answer) - 1 :
                              answer[j].seq < answer[j + 1].seq
      BY DEF RejoinBySeq
  <2> DEFINE last == IF i = 0 THEN 0 ELSE kept[i].seq
             K == Len(kept)
             W == Window
             k == IF i < K - W THEN 0 ELSE i - (K - W)
             T == {e \in Event : e.seq > last}
  <2>1. /\ kept \in Seq(Event) /\ events \in Seq(Event) /\ K \in Nat /\ i \in 0 .. K
        /\ W = (IF K < VRing THEN K ELSE VRing) /\ W \in 0 .. K
        /\ Len(events) = W
        /\ \A j \in 1 .. W : events[j] = kept[K - W + j]
    <3>1. kept \in Seq(Event) /\ events \in Seq(Event)
          BY DEF VerdictInv, TypesAndCounts, VerdictTypeOK
    <3>2. K \in Nat /\ i \in 0 .. K
          BY <3>1, LenProperties
    <3>3. W = IF K < VRing THEN K ELSE VRing
          BY DEF Window
    <3>4. W \in 0 .. K
          BY <3>2, <3>3, VerdictAssumption
    <3>5. Len(events) = W /\ \A j \in 1 .. W : events[j] = kept[K - W + j]
          BY DEF VerdictInv, BacklogIsWindow
    <3> QED BY <3>1, <3>2, <3>3, <3>4, <3>5
  <2>2. ASSUME NEW j \in 1 .. K
        PROVE  kept[j] \in Event /\ kept[j].seq \in Nat \ {0}
    <3>1. kept[j] \in Event
          BY <2>1, ElementOfSeq
    <3>2. kept[j].seq \in 1 .. MaxEvents
          BY <3>1 DEF Event
    <3> QED BY <3>1, <3>2, VerdictAssumption
  <2>3. \A j, m \in 1 .. K : j < m => kept[j].seq < kept[m].seq
        BY DEF InOrder, Ascending
  <2>4. ASSUME NEW m \in 1 .. K PROVE kept[m].seq > last <=> m > i
    <3>1. CASE i = 0
          BY <2>2, <3>1
    <3>2. CASE i # 0
      <4>1. i \in 1 .. K /\ last = kept[i].seq /\ K \in Nat
            BY <2>1, <3>2
      <4>2. m < i \/ m = i \/ i < m
            BY <4>1
      <4>3. kept[m].seq \in Nat /\ kept[i].seq \in Nat
            BY <2>2, <4>1
      <4>4. m < i => kept[m].seq < kept[i].seq
            BY <2>3, <4>1
      <4>5. i < m => kept[i].seq < kept[m].seq
            BY <2>3, <4>1
      <4>6. i \in Int /\ m \in Int
            BY <4>1
      <4> HIDE DEF last
      <4> QED BY <4>1, <4>2, <4>3, <4>4, <4>5, <4>6
    <3> QED BY <3>1, <3>2
  <2>5. k \in 0 .. W /\ k \in Nat
        BY <2>1
  <2>6. ASSUME NEW j \in 1 .. W PROVE events[j] \in T <=> j > k
    <3>1. K - W + j \in 1 .. K /\ events[j] = kept[K - W + j]
          BY <2>1
    <3>2. events[j] \in T <=> K - W + j > i
          BY <2>2, <2>4, <3>1
    <3>3. K - W + j > i <=> j > k
          BY <2>1
    <3> QED BY <3>2, <3>3
  <2>7. Since(last) = SubSeq(events, k + 1, W)
    <3> HIDE DEF T, k, last, W
    <3> QED BY <2>1, <2>5, <2>6, FilteredEnd DEF Since, T
  <2> DEFINE answer == SubSeq(events, k + 1, W)
  <2>8. /\ answer \in Seq(Event) /\ Len(answer) = W - k
        /\ \A j \in 1 .. W - k : answer[j] = events[k + j]
    <3> HIDE DEF k, W
    <3> QED BY <2>1, <2>5
  <2>9. ASSUME NEW j \in 1 .. W - k
        PROVE  K - W + (k + j) \in 1 .. K /\ answer[j] = kept[K - W + (k + j)]
    <3>1. k + j \in 1 .. W
          BY <2>1, <2>5
    <3> HIDE DEF k, W, answer
    <3> QED BY <2>1, <2>5, <2>8, <3>1
  <2>10. ASSUME K - i <= VRing PROVE answer = SubSeq(kept, i + 1, K)
    <3> DEFINE rest == SubSeq(kept, i + 1, K)
    <3>1. K - W + k = i
          BY <2>1, <2>10
    <3>2. /\ rest \in Seq(Event) /\ Len(rest) = K - i
          /\ \A j \in 1 .. K - i : rest[j] = kept[i + j]
          BY <2>1
    <3>3. W - k = K - i
      <4>1. K \in Int /\ W \in Int /\ k \in Int /\ i \in Int
            BY <2>1, <2>5
      <4> HIDE DEF k, W, K
      <4> QED BY <3>1, <4>1
    <3>4. ASSUME NEW j \in 1 .. Len(answer) PROVE answer[j] = rest[j]
      <4>1. j \in 1 .. W - k /\ j \in 1 .. K - i
            BY <2>8, <3>3
      <4>2. K - W + (k + j) = i + j
        <5>1. K \in Int /\ W \in Int /\ k \in Int /\ i \in Int /\ j \in Int
              BY <2>1, <2>5, <4>1
        <5> HIDE DEF k, W, K
        <5> QED BY <3>1, <5>1
      <4> QED BY <2>9, <3>2, <4>1, <4>2
    <3> HIDE DEF answer, rest
    <3>5. answer = rest
          BY <2>8, <3>2, <3>3, <3>4, SeqEqual
    <3> QED BY <3>5 DEF rest
  <2>11. ASSUME NEW j \in 1 .. Len(answer) - 1 PROVE answer[j].seq < answer[j + 1].seq
    <3>1. j \in 1 .. W - k /\ j + 1 \in 1 .. W - k
      <4>1. K \in Int /\ W \in Int /\ k \in Int
            BY <2>1, <2>5
      <4> HIDE DEF k, W, K, answer
      <4> QED BY <2>8, <4>1
    <3>2. K - W + (k + j) < K - W + (k + (j + 1))
      <4>1. K \in Int /\ W \in Int /\ k \in Int
            BY <2>1, <2>5
      <4> HIDE DEF k, W, K
      <4> QED BY <3>1, <4>1
    <3> HIDE DEF answer, k, W
    <3> QED BY <2>3, <2>9, <3>1, <3>2
  <2>12. Since(last) = answer
         BY <2>7
  <2> HIDE DEF answer, last
  <2>13. /\ K - i <= VRing => Since(last) = SubSeq(kept, i + 1, K)
         /\ \A j \in 1 .. Len(Since(last)) - 1 :
              Since(last)[j].seq < Since(last)[j + 1].seq
         BY <2>10, <2>11, <2>12
  <2> QED BY <2>13, Zenon DEF last
<1> QED BY <1>1, InvariantsHold, PTL

-----------------------------------------------------------------------------
LEMMA HistoriesStep ==
  TypesAndCounts /\ InOrder /\ HistoriesOK /\ [VerdictNext]_verdictVars => HistoriesOK'
<1> SUFFICES ASSUME TypesAndCounts, InOrder, HistoriesOK, [VerdictNext]_verdictVars
             PROVE  HistoriesOK'
    OBVIOUS
<1>0. kept \in Seq(Event) /\ Len(kept) \in Nat
      BY LenProperties DEF TypesAndCounts
<1>1. ASSUME NEW f \in Traffic, Judge(f) PROVE HistoriesOK'
  <2>1. \A c \in Conns : \A e \in missed[c] : Passed(e, queue', kseq')
        BY <1>1, JudgeIsNewest DEF HistoriesOK
  <2> QED BY <1>1, <2>1 DEF Judge, histories, HistoriesOK
<1>2. CASE Push
  <2> DEFINE ev == Head(queue)
  <2>1. queue # <<>> /\ queue' = Tail(queue) /\ kseq' = kseq
        BY <1>2 DEF Push
  <2>2. /\ ev \in Event /\ Passed(ev, queue', kseq')
        /\ \A e \in Event : Passed(e, queue, kseq) => Passed(e, queue', kseq')
        BY <2>1, HeadPasses
  <2> HIDE DEF ev
  <2>3. \A c \in Conns : missed'[c] \subseteq missed[c] \cup {ev}
        BY <1>2 DEF Push, HistoriesOK, ev
  <2>4. missed' \in [Conns -> SUBSET Event]
    <3>1. missed' = missed \/ missed' = [c \in Conns |->
                                IF c \in subscribers /\ TrySend(c) = "full"
                                  THEN missed[c] \cup {ev} ELSE missed[c]]
          BY <1>2 DEF Push, ev
    <3> QED BY <2>2, <3>1 DEF HistoriesOK
  <2>5. \A c \in Conns : \A e \in missed'[c] : Passed(e, queue', kseq')
        BY <2>2, <2>3 DEF HistoriesOK
  <2>6. receivers' = receivers /\ receivers' \subseteq subscribers'
        BY <1>2 DEF Push, HistoriesOK, Retain, TrySend
  <2>7. since_when' = since_when /\ taken' = taken
        BY <1>2 DEF Push
  <2>8. Len(kept') >= Len(kept) /\ Len(kept') \in Nat
    <3>1. kept' = kept \/ kept' = Append(kept, ev)
          BY <1>2 DEF Push, ev
    <3> QED BY <1>0, <2>2, <3>1, AppendProperties
  <2>9. ASSUME NEW c \in Conns PROVE since_when'[c] <= Len(kept')
    <3>1. since_when[c] \in Nat /\ since_when[c] <= Len(kept)
          BY DEF HistoriesOK
    <3> QED BY <1>0, <2>7, <2>8, <3>1
  <2> QED BY <2>4, <2>5, <2>6, <2>7, <2>9 DEF HistoriesOK
<1>3. ASSUME NEW c \in Conns, Subscribe(c) PROVE HistoriesOK'
      BY <1>0, <1>3 DEF Subscribe, HistoriesOK
<1>4. ASSUME NEW c \in Conns, Recv(c) PROVE HistoriesOK'
  <2>1. Head(chan[c]) \in Event
        BY <1>4 DEF Recv, TypesAndCounts, VerdictTypeOK
  <2>2. taken' \in [Conns -> Seq(Event)]
        BY <1>4, <2>1 DEF Recv, HistoriesOK
  <2> QED BY <1>4, <2>2 DEF Recv, HistoriesOK
<1>5. ASSUME NEW c \in Conns, HangUp(c) PROVE HistoriesOK'
      BY <1>5 DEF HangUp, HistoriesOK, histories
<1>6. CASE UNCHANGED verdictVars
      BY <1>6 DEF verdictVars, HistoriesOK, histories
<1> QED BY <1>1, <1>2, <1>3, <1>4, <1>5, <1>6 DEF VerdictNext

(* A push reaches a stream, or is among what the stream has missed.        *)
LEMMA StreamPush ==
  ASSUME TypesAndCounts, InOrder, HistoriesOK, StreamIsKeptMinusMissed, Push,
         NEW c \in receivers
  PROVE  taken'[c] \o chan'[c] =
           Filtered(SubSeq(kept', since_when'[c] + 1, Len(kept')), Event \ missed'[c])
<1> DEFINE ev  == Head(queue)
           k   == since_when[c]
           n   == Len(kept)
           due == SubSeq(kept, k + 1, n)
           T   == Event \ missed[c]
<1>1. /\ c \in Conns /\ c \in subscribers
      /\ kept \in Seq(Event) /\ n \in Nat /\ k \in Nat /\ k <= n
      /\ taken[c] \in Seq(Event) /\ chan[c] \in Seq(Event)
      BY LenProperties DEF HistoriesOK, TypesAndCounts, VerdictTypeOK
<1>2. /\ ev \in Event /\ taken' = taken /\ since_when' = since_when
      /\ \A e \in Event : Passed(e, queue, kseq) => e.seq < ev.seq
      BY HeadPasses DEF Push
<1>3. taken[c] \o chan[c] = Filtered(due, T)
      BY DEF StreamIsKeptMinusMissed
<1> HIDE DEF ev
<1>4. ev \notin missed[c]
  <2>1. \A e \in missed[c] : e \in Event /\ Passed(e, queue, kseq)
        BY <1>1 DEF HistoriesOK
  <2>2. ev.seq \in Int
        BY <1>2 DEF Event
  <2> QED BY <1>2, <2>1, <2>2
<1>5. /\ due \in Seq(Event)
      /\ \A i \in 1 .. Len(due) : due[i] # ev
  <2>1. due \in Seq(Event) /\ Len(due) = n - k /\ \A i \in 1 .. n - k : due[i] = kept[k + i]
        BY <1>1
  <2>2. ASSUME NEW i \in 1 .. n - k PROVE kept[k + i] # ev
    <3>1. k + i \in 1 .. n
          BY <1>1
    <3>2. kept[k + i] \in Event /\ Passed(kept[k + i], queue, kseq)
          BY <1>1, <3>1, ElementOfSeq DEF InOrder
    <3>3. ev.seq \in Int
          BY <1>2 DEF Event
    <3> QED BY <1>2, <3>2, <3>3
  <2> HIDE DEF due
  <2> QED BY <2>1, <2>2
<1>6. CASE UNCHANGED <<chan, missed, kept>>
      BY <1>2, <1>3, <1>6
<1>7. CASE kept' = Append(kept, ev) /\ chan' = FanOut(ev)
           /\ missed' = [d \in Conns |-> IF d \in subscribers /\ TrySend(d) = "full"
                                           THEN missed[d] \cup {ev} ELSE missed[d]]
  <2>1. SubSeq(kept', k + 1, Len(kept')) = Append(due, ev)
    <3>1. Len(kept') = n + 1 /\ k \in 0 .. n
          BY <1>1, <1>2, <1>7, AppendProperties
    <3> HIDE DEF k
    <3> QED BY <1>1, <1>2, <1>7, <3>1, EndAppend
  <2>2. \A U : Filtered(Append(due, ev), U) =
                 IF ev \in U THEN Append(Filtered(due, U), ev) ELSE Filtered(due, U)
    <3> HIDE DEF due
    <3> QED BY <1>2, <1>5, FilteredAppend
  <2>3. CASE TrySend(c) = "ok"
    <3>1. chan'[c] = Append(chan[c], ev) /\ missed'[c] = missed[c]
          BY <1>1, <1>7, <2>3 DEF FanOut
    <3>2. taken[c] \o Append(chan[c], ev) = Append(taken[c] \o chan[c], ev)
      <4>1. taken[c] \in Seq(Event) /\ chan[c] \in Seq(Event) /\ ev \in Event
            BY <1>1, <1>2
      <4>2. \A s, r \in Seq(Event), e \in Event : s \o Append(r, e) = Append(s \o r, e)
            BY ConcatAppend
      <4> QED BY <4>1, <4>2
    <3>3. Filtered(Append(due, ev), T) = Append(Filtered(due, T), ev)
          BY <1>2, <1>4, <2>2
    <3> HIDE DEF due, k
    <3> QED BY <1>2, <1>3, <2>1, <3>1, <3>2, <3>3 DEF k
  <2>4. CASE TrySend(c) # "ok"
    <3>1. chan'[c] = chan[c] /\ missed'[c] = missed[c] \cup {ev}
          BY <1>1, <1>7, <2>4 DEF FanOut, TrySend
    <3>2. \A i \in 1 .. Len(due) : due[i] \in T <=> due[i] \in Event \ missed'[c]
          BY <1>5, <3>1
    <3>3. Filtered(due, T) = Filtered(due, Event \ missed'[c])
      <4> HIDE DEF due, T
      <4> QED BY <1>5, <3>2, FilteredSame
    <3>4. Filtered(Append(due, ev), Event \ missed'[c]) = Filtered(due, Event \ missed'[c])
          BY <2>2, <3>1
    <3> HIDE DEF due, k
    <3> QED BY <1>2, <1>3, <2>1, <3>1, <3>3, <3>4 DEF k
  <2> QED BY <2>3, <2>4
<1> QED BY <1>6, <1>7 DEF Push, ev

LEMMA StreamStep ==
  ASSUME TypesAndCounts, InOrder, HistoriesOK, StreamIsKeptMinusMissed,
         [VerdictNext]_verdictVars, NEW c \in receivers'
  PROVE  taken'[c] \o chan'[c] =
           Filtered(SubSeq(kept', since_when'[c] + 1, Len(kept')), Event \ missed'[c])
<1>1. CASE Push
      BY <1>1, StreamPush DEF Push
<1>2. ASSUME NEW d \in Conns, Subscribe(d), c = d
      PROVE  taken'[c] \o chan'[c] =
               Filtered(SubSeq(kept', since_when'[c] + 1, Len(kept')), Event \ missed'[c])
  <2>1. /\ taken'[c] = <<>> /\ chan'[c] = <<>> /\ since_when'[c] = Len(kept)
        /\ kept' = kept
        BY <1>2 DEF Subscribe, HistoriesOK, TypesAndCounts, VerdictTypeOK
  <2>2. SubSeq(kept', since_when'[c] + 1, Len(kept')) = <<>>
        BY <2>1 DEF TypesAndCounts
  <2>3. taken'[c] \o chan'[c] = <<>>
        BY <2>1
  <2> QED BY <2>2, <2>3, FilteredEmpty
<1>3. ASSUME NEW d \in Conns, Recv(d), c = d
      PROVE  taken'[c] \o chan'[c] =
               Filtered(SubSeq(kept', since_when'[c] + 1, Len(kept')), Event \ missed'[c])
  <2>1. /\ taken'[c] = Append(taken[c], Head(chan[c])) /\ chan'[c] = Tail(chan[c])
        /\ kept' = kept /\ since_when' = since_when /\ missed' = missed /\ c \in receivers
        BY <1>3 DEF Recv, HistoriesOK, TypesAndCounts, VerdictTypeOK
  <2>2. taken[c] \in Seq(Event) /\ chan[c] \in Seq(Event) /\ chan[c] # <<>>
        BY <1>3 DEF Recv, HistoriesOK, TypesAndCounts, VerdictTypeOK
  <2>3. Append(taken[c], Head(chan[c])) \o Tail(chan[c]) = taken[c] \o chan[c]
        BY <2>2, ConcatMoves
  <2> QED BY <2>1, <2>3 DEF StreamIsKeptMinusMissed
<1>4. CASE /\ c \in receivers /\ taken'[c] = taken[c] /\ chan'[c] = chan[c]
           /\ kept' = kept /\ since_when'[c] = since_when[c] /\ missed'[c] = missed[c]
      BY <1>4 DEF StreamIsKeptMinusMissed
<1>5. ASSUME NEW d \in Conns, Subscribe(d) \/ Recv(d) \/ HangUp(d), c # d \/ HangUp(d)
      PROVE  /\ c \in receivers /\ taken'[c] = taken[c] /\ chan'[c] = chan[c]
             /\ kept' = kept /\ since_when'[c] = since_when[c] /\ missed'[c] = missed[c]
      BY <1>5 DEF Subscribe, Recv, HangUp, histories, HistoriesOK, TypesAndCounts,
                  VerdictTypeOK
<1>6. CASE \E f \in Traffic : Judge(f)
      BY <1>4, <1>6 DEF Judge, histories
<1>7. CASE UNCHANGED verdictVars
      BY <1>4, <1>7 DEF verdictVars, histories
<1> QED BY <1>1, <1>2, <1>3, <1>4, <1>5, <1>6, <1>7 DEF VerdictNext

(* A stream is what was kept since it subscribed, in order, but for what   *)
(* its full channel lost (engine.rs:487-492).                              *)
THEOREM StreamsMissOnlyTheLost == VerdictSpec => []StreamIsKeptMinusMissed
<1>1. VerdictInit => HistoriesOK /\ StreamIsKeptMinusMissed
      BY DEF VerdictInit, HistoriesOK, StreamIsKeptMinusMissed
<1>2. VerdictInv => TypesAndCounts
      BY DEF VerdictInv
<1>3. TypesAndCounts /\ InOrder /\ HistoriesOK /\ StreamIsKeptMinusMissed
        /\ [VerdictNext]_verdictVars => StreamIsKeptMinusMissed'
  <2> SUFFICES ASSUME TypesAndCounts, InOrder, HistoriesOK, StreamIsKeptMinusMissed,
                      [VerdictNext]_verdictVars
               PROVE  StreamIsKeptMinusMissed'
      OBVIOUS
  <2>1. \A c \in receivers' :
          taken'[c] \o chan'[c] =
            Filtered(SubSeq(kept', since_when'[c] + 1, Len(kept')), Event \ missed'[c])
        BY StreamStep
  <2> QED BY <2>1 DEF StreamIsKeptMinusMissed
<1> QED BY <1>1, <1>2, <1>3, InvariantsHold, HistoriesStep, PTL DEF VerdictSpec
=============================================================================
