---------------------------- MODULE ViewerProofs ----------------------------
(***************************************************************************)
(* What the page can rely on for every backlog and every number of         *)
(* packets, verdicts, breaks, failures, overlapping backfills and restarts *)
(* of the daemon.                                                          *)
(*                                                                         *)
(* A step of the page and one daemon is reasoned about once, for Viewer    *)
(* and for ViewerRestart: old is a number up to which the packets may be   *)
(* those of an older daemon, 0 when there was none.                        *)
(***************************************************************************)
EXTENDS ViewerRestart, Lemmas

(* The daemon is never behind the page, nor a backfill ahead of either. *)
FeedOK ==
  /\ published \in Nat /\ held \in 0 .. published
  /\ st \in [Conns -> {"none", "live", "cut"}]
  /\ got \in [Conns -> Nat] /\ due \in [Conns -> Nat]
  /\ got[Page] <= due[Page] /\ due[Page] <= published

(* The largest number of a packet that the page may have met. *)
Top(old) == Larger(published, old)

PacketsOK(old) ==
  /\ lastSeq \in Nat /\ lastSeq <= Top(old)
  /\ seen \subseteq 1 .. Top(old) /\ excused \subseteq 1 .. Top(old)

VerdictsOK ==
  /\ vpublished \in Nat /\ vheld \in 0 .. vpublished
  /\ lastVerdictSeq \in Nat /\ lastVerdictSeq <= vpublished
  /\ vseen \subseteq 1 .. vpublished /\ vexcused \subseteq 1 .. vpublished
  /\ vstream \in Seq(1 .. vpublished)

OpenOK ==
  /\ open \in BOOLEAN /\ healed \in BOOLEAN
  /\ st[Page] = "none" => ~open /\ vstream = <<>>

BoundsOK == breaks \in Nat /\ failures \in Nat

Backfill == [at : {"none", "packets asked", "packets answered",
                   "verdicts asked", "verdicts answered"},
             from : Nat, to : Nat]

Within(it, last, newest, vlast, vnewest) ==
  /\ it \in Backfill
  /\ it.at = "packets asked" => it.from <= last
  /\ it.at = "packets answered" => it.from >= 1 /\ it.to <= newest
  /\ it.at = "verdicts asked" => it.from <= vlast
  /\ it.at = "verdicts answered" => it.from >= 1 /\ it.to <= vnewest

FillOK(it, old) == Within(it, lastSeq, Top(old), lastVerdictSeq, vpublished)

FillsOK(old) ==
  /\ backfills \in [Slots -> Backfill]
  /\ \A b \in Slots : FillOK(backfills[b], old)

Bounded(old) ==
  FeedOK /\ PacketsOK(old) /\ VerdictsOK /\ OpenOK /\ BoundsOK /\ FillsOK(old)

(* A packet the page can count on, and one its numbers have passed, or pass *)
(* as soon as what is under way arrives.                                   *)
Known(m) ==
  \/ m \in seen \cup excused
  \/ \E b \in Slots : Pending(m, b, "packets asked", "packets answered")

Reached(m) ==
  \/ m <= lastSeq
  \/ open /\ m <= got[Page]
  \/ \E b \in Slots : backfills[b].at = "packets answered" /\ m <= backfills[b].to

PacketsCovered(old) == \A m \in old + 1 .. published : Reached(m) => Known(m)

(* The same of verdicts.  A live one may be far ahead of lastVerdictSeq:   *)
(* what lies between is accounted for unless a backfill has yet to ask.    *)
VKnown(m) ==
  \/ m \in vseen \cup vexcused
  \/ \E b \in Slots : Pending(m, b, "verdicts asked", "verdicts answered")

VReached(m) ==
  \/ m <= lastVerdictSeq
  \/ \E b \in Slots : backfills[b].at = "verdicts answered" /\ m <= backfills[b].to

YetToAsk == \E b \in Slots : backfills[b].at \in {"packets asked", "packets answered"}

Coming(m) == \E i \in 1 .. Len(vstream) : vstream[i] = m

Increasing == \A i, j \in 1 .. Len(vstream) : i < j => vstream[i] < vstream[j]

VerdictsCovered ==
  /\ \A m \in 1 .. vpublished : VReached(m) => VKnown(m)
  /\ open /\ ~YetToAsk => \A m \in 1 .. vpublished : VKnown(m) \/ Coming(m)
  /\ Increasing

LEMMA PageIsConn == Page \in Conns /\ \A c \in Conns : c = Page
BY ViewerAssumption

LEMMA LargerIs ==
  ASSUME NEW m \in Nat, NEW n \in Nat
  PROVE  /\ Larger(m, n) \in Nat /\ Larger(m, n) \in {m, n}
         /\ Larger(m, n) >= m /\ Larger(m, n) >= n
BY DEF Larger

LEMMA TopIs ==
  ASSUME NEW old \in Nat, published \in Nat
  PROVE  /\ Top(old) \in Nat /\ published <= Top(old) /\ old <= Top(old)
         /\ \A m \in Nat : m <= Top(old) /\ m > old => m <= published
         /\ published' \in Nat /\ published <= published' => Top(old)' \in Nat /\ Top(old) <= Top(old)'
BY DEF Top, Larger

LEMMA Transitive ==
  \A a, b, c \in Nat : a <= a /\ (a <= b /\ b <= c => a <= c)
OBVIOUS

(* A backfill stays in bounds while the numbers grow. *)
LEMMA FillsStay ==
  ASSUME NEW old \in Nat, FeedOK, PacketsOK(old), VerdictsOK, FillsOK(old),
         published' \in Nat, published <= published', lastSeq' \in Nat, lastSeq <= lastSeq',
         vpublished' \in Nat, vpublished <= vpublished', lastVerdictSeq' \in Nat,
         lastVerdictSeq <= lastVerdictSeq',
         NEW b \in Slots, backfills'[b] = backfills[b]
  PROVE  FillOK(backfills[b], old)'
<1> DEFINE it == backfills[b]
<1>1. it \in Backfill /\ FillOK(it, old)
      BY DEF FillsOK
<1>2. it.from \in Nat /\ it.to \in Nat
      BY <1>1 DEF Backfill
<1>3. /\ published \in Nat /\ vpublished \in Nat
      /\ lastSeq \in Nat /\ lastVerdictSeq \in Nat
      /\ Top(old) \in Nat /\ Top(old)' \in Nat /\ Top(old) <= Top(old)'
      BY TopIs DEF FeedOK, PacketsOK, VerdictsOK
<1> HIDE DEF it
<1>a. it.at = "packets asked" => it.from <= lastSeq'
      BY <1>1, <1>2, <1>3, Transitive DEF FillOK, Within
<1>b. it.at = "packets answered" => it.from >= 1 /\ it.to <= Top(old)'
      BY <1>1, <1>2, <1>3, Transitive DEF FillOK, Within
<1>c. it.at = "verdicts asked" => it.from <= lastVerdictSeq'
      BY <1>1, <1>2, <1>3, Transitive DEF FillOK, Within
<1>d. it.at = "verdicts answered" => it.from >= 1 /\ it.to <= vpublished'
      BY <1>1, <1>2, <1>3, Transitive DEF FillOK, Within
<1>5. backfills'[b] = it
      BY DEF it
<1> QED BY <1>1, <1>a, <1>b, <1>c, <1>d, <1>5 DEF FillOK, Within

LEMMA BoundedInit == ViewerInit => Bounded(0)
<1> SUFFICES ASSUME ViewerInit PROVE Bounded(0)
    OBVIOUS
<1>1. FeedOK
      BY PageIsConn DEF ViewerInit, FeedInit, FeedOK
<1>2. PacketsOK(0)
      BY DEF ViewerInit, FeedInit, PacketsOK, Top, Larger
<1>3. vstream \in Seq(1 .. vpublished)
      BY DEF ViewerInit
<1>4. VerdictsOK
      BY <1>3 DEF ViewerInit, VerdictsOK
<1>5. OpenOK
      BY DEF ViewerInit, OpenOK
<1>b. BoundsOK
      BY DEF ViewerInit, BoundsOK
<1>6. FillsOK(0)
      BY DEF ViewerInit, None, FillsOK, FillOK, Within, Backfill
<1> QED BY <1>1, <1>2, <1>4, <1>5, <1>b, <1>6 DEF Bounded

LEMMA FeedSteps ==
  ASSUME [ViewerNext]_viewerVars
  PROVE  \/ Publish \/ Join(Page) \/ Deliver(Page) \/ Leave(Page)
         \/ UNCHANGED feedVars
<1>1. CASE PublishPacket
      BY <1>1 DEF PublishPacket
<1>2. CASE Subscribe
      BY <1>2 DEF Subscribe
<1>3. CASE EndOfStream \/ NetworkBreaks
      BY <1>3 DEF EndOfStream, NetworkBreaks, StreamOver
<1>4. CASE OnPacket
      BY <1>4 DEF OnPacket
<1>5. CASE PublishVerdict \/ OnOpen \/ OnVerdict
      BY <1>5 DEF PublishVerdict, OnOpen, OnVerdict, serverVars
<1>6. CASE Backfilling \/ \E b \in Slots : BackfillFails(b)
      BY <1>6 DEF Backfilling, BackfillFails, AnswerPackets, AnswerVerdicts,
         AddPackets, AddVerdicts, serverVars
<1>7. CASE UNCHANGED viewerVars
      BY <1>7 DEF viewerVars, serverVars
<1> QED BY <1>1, <1>2, <1>3, <1>4, <1>5, <1>6, <1>7 DEF ViewerNext

LEMMA FeedKeeps ==
  ASSUME FeedOK, [ViewerNext]_viewerVars
  PROVE  FeedOK' /\ published <= published'
<1>1. CASE Publish
      BY <1>1, PageIsConn DEF FeedOK, Publish
<1>2. CASE Join(Page)
      BY <1>2, PageIsConn DEF FeedOK, Join
<1>3. CASE Deliver(Page)
      BY <1>3, PageIsConn DEF FeedOK, Deliver
<1>4. CASE Leave(Page)
      BY <1>4, PageIsConn DEF FeedOK, Leave
<1>5. CASE UNCHANGED feedVars
      BY <1>5 DEF FeedOK, feedVars
<1> QED BY <1>1, <1>2, <1>3, <1>4, <1>5, FeedSteps

(* What a backfill asks for and is answered with. *)
LEMMA FillIs ==
  ASSUME NEW old \in Nat, Bounded(old), NEW b \in Slots
  PROVE  /\ backfills[b].from \in Nat /\ backfills[b].to \in Nat
         /\ backfills[b].at = "packets asked" => backfills[b].from <= lastSeq
         /\ backfills[b].at = "packets answered" =>
              backfills[b].from >= 1 /\ backfills[b].to <= Top(old)
         /\ backfills[b].at = "verdicts asked" => backfills[b].from <= lastVerdictSeq
         /\ backfills[b].at = "verdicts answered" =>
              backfills[b].from >= 1 /\ backfills[b].to <= vpublished
BY DEF Bounded, FillsOK, FillOK, Within, Backfill

LEMMA Span ==
  ASSUME NEW m \in Nat, NEW n \in Nat, NEW k \in Nat, m >= 1, n <= k
  PROVE  m .. n \subseteq 1 .. k
OBVIOUS

(* The first number of an answer. *)
LEMMA FirstIs ==
  ASSUME NEW since \in Nat, NEW n \in Nat, since <= n, NEW j \in Int, j <= n + 1
  PROVE  LET first == Larger(since + 1, j) IN
         /\ first \in Nat /\ first >= 1 /\ first > since /\ first - 1 \in Nat /\ first - 1 <= n
BY DEF Larger

LEMMA PacketsKeep ==
  ASSUME NEW old \in Nat, Bounded(old), [ViewerNext]_viewerVars
  PROVE  PacketsOK(old)' /\ lastSeq <= lastSeq'
<1>1. /\ published \in Nat /\ published' \in Nat /\ published <= published'
      /\ held \in 0 .. published /\ got[Page] \in Nat /\ got[Page] <= due[Page]
      /\ due[Page] \in Nat /\ due[Page] <= published
      BY FeedKeeps, PageIsConn DEF Bounded, FeedOK
<1> DEFINE top == Top(old)
<1>2. /\ lastSeq \in Nat /\ lastSeq <= top
      /\ seen \subseteq 1 .. top /\ excused \subseteq 1 .. top
      BY DEF Bounded, PacketsOK
<1>t. /\ top \in Nat /\ published <= top
      /\ Top(old)' \in Nat /\ top <= Top(old)'
      /\ published' = published => Top(old)' = top
      BY <1>1, TopIs DEF Top
<1> HIDE DEF top
<1>3. 1 .. top \subseteq 1 .. Top(old)'
      BY <1>t
<1>4. CASE UNCHANGED <<lastSeq, seen, excused>>
      BY <1>2, <1>3, <1>4, <1>t, Transitive DEF PacketsOK
<1>5. CASE OnPacket
  <2>1. got[Page] + 1 \in 1 .. top /\ published' = published /\ excused' = excused
        BY <1>1, <1>5, <1>t DEF OnPacket, Deliver
  <2>2. seen' = seen \cup {got[Page] + 1} /\ lastSeq' = Larger(lastSeq, got[Page] + 1)
        BY <1>5 DEF OnPacket, Add
  <2>3. got[Page] + 1 \in Nat /\ got[Page] + 1 <= top
        BY <1>1, <1>t, <2>1
  <2>4. lastSeq' \in Nat /\ lastSeq <= lastSeq' /\ lastSeq' <= top
        BY <1>2, <1>t, <2>2, <2>3, LargerIs
  <2> QED BY <1>2, <1>t, <2>1, <2>2, <2>4 DEF PacketsOK
<1>6. ASSUME NEW b \in Slots, AnswerPackets(b) PROVE PacketsOK(old)' /\ lastSeq <= lastSeq'
  <2> DEFINE since == backfills[b].from
             first == Larger(since + 1, published - held + 1)
  <2>0. since \in Nat /\ since <= lastSeq
        BY <1>6, FillIs DEF AnswerPackets
  <2>1. since \in Nat /\ since <= top
        BY <1>2, <1>t, <2>0, Transitive
  <2>a. published - held + 1 \in Int /\ published - held + 1 <= top + 1
        BY <1>1, <1>t
  <2> HIDE DEF since
  <2>2. first - 1 \in Nat /\ first - 1 <= top
        BY <1>t, <2>1, <2>a, FirstIs
  <2>3. since + 1 .. first - 1 \subseteq 1 .. top
        BY <1>t, <2>1, <2>2, Span
  <2>4. /\ published' = published /\ seen' = seen /\ lastSeq' = lastSeq
        /\ excused' = excused \cup (since + 1 .. first - 1)
        BY <1>6 DEF AnswerPackets, serverVars, feedVars, since
  <2> HIDE DEF first
  <2>5. excused' \subseteq 1 .. top
        BY <1>2, <2>3, <2>4
  <2> QED BY <1>2, <1>t, <2>4, <2>5, Transitive DEF PacketsOK
<1>7. ASSUME NEW b \in Slots, AddPackets(b) PROVE PacketsOK(old)' /\ lastSeq <= lastSeq'
  <2> DEFINE body == backfills[b].from .. backfills[b].to
  <2>1. /\ backfills[b].from \in Nat /\ backfills[b].to \in Nat
        /\ backfills[b].from >= 1 /\ backfills[b].to <= top
        BY <1>7, FillIs DEF AddPackets, top
  <2>2. body \subseteq 1 .. top
        BY <1>t, <2>1, Span
  <2>3. /\ published' = published /\ seen' = seen \cup body /\ excused' = excused
        /\ lastSeq' \in {lastSeq, Larger(lastSeq, backfills[b].to)}
        BY <1>7 DEF AddPackets, serverVars, feedVars
  <2>4. lastSeq' \in Nat /\ lastSeq <= lastSeq' /\ lastSeq' <= top
        BY <1>2, <1>t, <2>1, <2>3, LargerIs
  <2> QED BY <1>2, <1>t, <2>2, <2>3, <2>4 DEF PacketsOK
<1>8. ASSUME NEW b \in Slots, BackfillFails(b) PROVE PacketsOK(old)' /\ lastSeq <= lastSeq'
  <2>1. published' = published /\ seen' = seen /\ lastSeq' = lastSeq
        BY <1>8 DEF BackfillFails, serverVars, feedVars
  <2>2. excused' \subseteq excused \cup 1 .. published
        BY <1>8 DEF BackfillFails, Forgone, VForgone
  <2>3. 1 .. published \subseteq 1 .. top
        BY <1>1, <1>t
  <2> QED BY <1>2, <1>t, <2>1, <2>2, <2>3, Transitive DEF PacketsOK
<1>9. CASE PublishPacket \/ PublishVerdict \/ Subscribe \/ EndOfStream \/ NetworkBreaks
           \/ OnOpen \/ OnVerdict \/ UNCHANGED viewerVars
      BY <1>4, <1>9 DEF PublishPacket, PublishVerdict, Subscribe, EndOfStream,
         NetworkBreaks, StreamOver, OnOpen, OnVerdict, viewerVars, pageVars, histories
<1>10. ASSUME NEW b \in Slots, AnswerVerdicts(b) \/ AddVerdicts(b)
       PROVE  PacketsOK(old)' /\ lastSeq <= lastSeq'
      BY <1>4, <1>10 DEF AnswerVerdicts, AddVerdicts
<1> QED BY <1>5, <1>6, <1>7, <1>8, <1>9, <1>10 DEF ViewerNext, Backfilling

LEMMA VerdictsKeep ==
  ASSUME NEW old \in Nat, Bounded(old), [ViewerNext]_viewerVars
  PROVE  VerdictsOK' /\ lastVerdictSeq <= lastVerdictSeq' /\ vpublished <= vpublished'
<1> DEFINE Goal == VerdictsOK' /\ lastVerdictSeq <= lastVerdictSeq' /\ vpublished <= vpublished'
<1>1. /\ vpublished \in Nat /\ lastVerdictSeq \in Nat /\ lastVerdictSeq <= vpublished
      /\ vseen \subseteq 1 .. vpublished /\ vexcused \subseteq 1 .. vpublished
      /\ vstream \in Seq(1 .. vpublished) /\ vheld \in 0 .. vpublished
      BY DEF Bounded, VerdictsOK
<1>2. CASE UNCHANGED <<vpublished, vheld, lastVerdictSeq, vseen, vexcused>>
            /\ (vstream' = vstream \/ vstream' = <<>>)
  <2>1. vstream' \in Seq(1 .. vpublished)
        BY <1>1, <1>2, EmptySeq
  <2> QED BY <1>1, <1>2, <2>1, Transitive DEF VerdictsOK
<1>3. CASE PublishVerdict
  <2>1. vpublished' = vpublished + 1 /\ lastVerdictSeq' = lastVerdictSeq /\ vseen' = vseen
        BY <1>3 DEF PublishVerdict, pageVars
  <2>2. 1 .. vpublished \subseteq 1 .. vpublished' /\ vpublished + 1 \in 1 .. vpublished'
        BY <1>1, <2>1
  <2>3. vstream \in Seq(1 .. vpublished')
        BY <1>1, <2>2, SeqMonotonic
  <2>4. vstream' = vstream \/ vstream' = Append(vstream, vpublished + 1)
        BY <1>3 DEF PublishVerdict
  <2>a. Append(vstream, vpublished + 1) \in Seq(1 .. vpublished')
        BY <2>2, <2>3, AppendProperties
  <2>5. vstream' \in Seq(1 .. vpublished')
        BY <2>3, <2>4, <2>a
  <2>6. vexcused' \subseteq 1 .. vpublished' /\ vseen' \subseteq 1 .. vpublished'
        BY <1>1, <1>3, <2>1, <2>2 DEF PublishVerdict
  <2>7. lastVerdictSeq' <= vpublished' /\ vpublished' \in Nat /\ vpublished <= vpublished'
        BY <1>1, <2>1
  <2>8. vheld' \in 0 .. vpublished'
    <3>1. vheld' = vheld + 1 \/ vheld' = vheld
          BY <1>3 DEF PublishVerdict
    <3> QED BY <1>1, <2>1, <3>1
  <2> QED BY <1>1, <2>1, <2>5, <2>6, <2>7, <2>8 DEF VerdictsOK
<1>4. CASE OnVerdict
  <2> DEFINE n == Head(vstream)
  <2>1. vstream # <<>> /\ vstream' = Tail(vstream) /\ vpublished' = vpublished /\ vheld' = vheld
        /\ vseen' = vseen \cup {n} /\ lastVerdictSeq' = Larger(lastVerdictSeq, n)
        BY <1>4 DEF OnVerdict
  <2>2. n \in 1 .. vpublished /\ vstream' \in Seq(1 .. vpublished)
        BY <1>1, <2>1, HeadTailProperties
  <2> HIDE DEF n
  <2>a. n \in Nat /\ n <= vpublished
        BY <1>1, <2>2
  <2>3. lastVerdictSeq' \in Nat /\ lastVerdictSeq <= lastVerdictSeq' /\ lastVerdictSeq' <= vpublished
        BY <1>1, <2>1, <2>a, LargerIs
  <2>4. vexcused' = vexcused \/ vexcused' = vexcused \cup (lastVerdictSeq + 1 .. n - 1)
        BY <1>4 DEF OnVerdict, n
  <2>5. lastVerdictSeq + 1 .. n - 1 \subseteq 1 .. vpublished
        BY <1>1, <2>2
  <2>6. vseen' \subseteq 1 .. vpublished /\ vexcused' \subseteq 1 .. vpublished
        BY <1>1, <2>1, <2>2, <2>4, <2>5
  <2> QED BY <1>1, <2>1, <2>2, <2>3, <2>6, Transitive DEF VerdictsOK
<1>5. ASSUME NEW b \in Slots, AnswerVerdicts(b) PROVE Goal
  <2> DEFINE since == backfills[b].from
             first == Larger(since + 1, vpublished - vheld + 1)
  <2>0. since \in Nat /\ since <= lastVerdictSeq
        BY <1>5, FillIs DEF AnswerVerdicts
  <2>1. since \in Nat /\ since <= vpublished
        BY <1>1, <2>0, Transitive
  <2>2. vpublished - vheld + 1 \in Int /\ vpublished - vheld + 1 <= vpublished + 1
        BY <1>1
  <2> HIDE DEF since
  <2>3. first - 1 \in Nat /\ first - 1 <= vpublished
        BY <1>1, <2>1, <2>2, FirstIs
  <2>4. since + 1 .. first - 1 \subseteq 1 .. vpublished
        BY <1>1, <2>1, <2>3, Span
  <2>5. /\ UNCHANGED <<vpublished, vheld, lastVerdictSeq, vseen, vstream>>
        /\ vexcused' = vexcused \cup (since + 1 .. first - 1)
        BY <1>5 DEF AnswerVerdicts, serverVars, since
  <2> HIDE DEF first
  <2>6. vexcused' \subseteq 1 .. vpublished
        BY <1>1, <2>4, <2>5
  <2> QED BY <1>1, <2>5, <2>6 DEF VerdictsOK
<1>6. ASSUME NEW b \in Slots, AddVerdicts(b) PROVE Goal
  <2> DEFINE body == backfills[b].from .. backfills[b].to
  <2>1. /\ backfills[b].from \in Nat /\ backfills[b].to \in Nat
        /\ backfills[b].from >= 1 /\ backfills[b].to <= vpublished
        BY <1>6, FillIs DEF AddVerdicts
  <2>2. body \subseteq 1 .. vpublished
        BY <1>1, <2>1, Span
  <2>3. /\ vpublished' = vpublished /\ vheld' = vheld /\ vstream' = vstream
        /\ vseen' = vseen \cup body /\ vexcused' = vexcused
        /\ lastVerdictSeq' \in {lastVerdictSeq, Larger(lastVerdictSeq, backfills[b].to)}
        BY <1>6 DEF AddVerdicts, serverVars
  <2> DEFINE to == backfills[b].to
  <2>a. to \in Nat /\ to <= vpublished /\ lastVerdictSeq' \in {lastVerdictSeq, Larger(lastVerdictSeq, to)}
        BY <2>1, <2>3
  <2> HIDE DEF to
  <2>4. lastVerdictSeq' \in Nat /\ lastVerdictSeq <= lastVerdictSeq' /\ lastVerdictSeq' <= vpublished
    <3> DEFINE larger == Larger(lastVerdictSeq, to)
    <3>1. larger \in Nat /\ larger \in {lastVerdictSeq, to} /\ larger >= lastVerdictSeq
          BY <1>1, <2>a, LargerIs
    <3> HIDE DEF larger
    <3>2. CASE lastVerdictSeq' = larger
          BY <1>1, <2>a, <3>1, <3>2
    <3>3. CASE lastVerdictSeq' = lastVerdictSeq
          BY <1>1, <3>3
    <3> QED BY <2>a, <3>2, <3>3 DEF larger
  <2>5. vseen' \subseteq 1 .. vpublished /\ vexcused' \subseteq 1 .. vpublished
        BY <1>1, <2>2, <2>3
  <2> QED BY <1>1, <2>3, <2>4, <2>5, Transitive DEF VerdictsOK
<1>7. ASSUME NEW b \in Slots, BackfillFails(b) PROVE Goal
  <2>1. UNCHANGED <<vpublished, vheld, vstream, vseen, lastVerdictSeq>>
        BY <1>7 DEF BackfillFails, serverVars
  <2>2. lastVerdictSeq + 1 .. vpublished \subseteq 1 .. vpublished
        BY <1>1, Span
  <2>3. vexcused' \subseteq vexcused \cup 1 .. vpublished
        BY <1>7, <2>2 DEF BackfillFails, Forgone, VForgone
  <2> QED BY <1>1, <2>1, <2>3 DEF VerdictsOK
<1>8. CASE PublishPacket \/ Subscribe \/ EndOfStream \/ NetworkBreaks
           \/ OnOpen \/ OnPacket \/ UNCHANGED viewerVars
      BY <1>2, <1>8 DEF PublishPacket, Subscribe, EndOfStream, NetworkBreaks, StreamOver,
         OnOpen, OnPacket, viewerVars, serverVars, pageVars, histories
<1>9. ASSUME NEW b \in Slots, AnswerPackets(b) \/ AddPackets(b) PROVE Goal
      BY <1>2, <1>9 DEF AnswerPackets, AddPackets, serverVars
<1> QED BY <1>3, <1>4, <1>5, <1>6, <1>7, <1>8, <1>9 DEF ViewerNext, Backfilling

LEMMA OpenKeeps ==
  ASSUME NEW old \in Nat, Bounded(old), [ViewerNext]_viewerVars
  PROVE  OpenOK'
<1>1. st \in [Conns -> {"none", "live", "cut"}] /\ Page \in Conns
      BY PageIsConn DEF Bounded, FeedOK
<1>2. OpenOK
      BY DEF Bounded
<1>3. CASE PublishPacket
      BY <1>1, <1>2, <1>3 DEF OpenOK, PublishPacket, Publish, pageVars, bounds, histories
<1>4. CASE PublishVerdict
      BY <1>2, <1>4 DEF OpenOK, PublishVerdict, feedVars, pageVars, bounds
<1>5. CASE Subscribe
  <2>1. st'[Page] = "live" /\ UNCHANGED <<open, healed>>
        BY <1>1, <1>5 DEF Subscribe, Join, pageVars, histories
  <2> QED BY <1>2, <2>1 DEF OpenOK
<1>6. CASE EndOfStream \/ NetworkBreaks
  <2>1. open' = FALSE /\ vstream' = <<>> /\ healed' = healed
        BY <1>6 DEF EndOfStream, NetworkBreaks, StreamOver, histories
  <2> QED BY <1>2, <2>1 DEF OpenOK
<1>7. CASE OnOpen
  <2>1. open' = TRUE /\ st[Page] # "none" /\ st' = st /\ healed' = healed
        BY <1>7 DEF OnOpen, serverVars, feedVars, histories
  <2> QED BY <1>2, <2>1 DEF OpenOK
<1>8. CASE OnPacket \/ OnVerdict
  <2>1. open /\ UNCHANGED <<open, healed, st>>
        BY <1>8 DEF OnPacket, OnVerdict, Deliver, feedVars
  <2> QED BY <1>2, <2>1 DEF OpenOK
<1>9. CASE UNCHANGED <<open, st, vstream>> /\ healed' \in BOOLEAN
      BY <1>2, <1>9 DEF OpenOK
<1>10. CASE UNCHANGED viewerVars
       BY <1>2, <1>9, <1>10 DEF OpenOK, viewerVars, serverVars, feedVars, pageVars, histories
<1>11. ASSUME NEW b \in Slots,
              AnswerPackets(b) \/ AnswerVerdicts(b) \/ AddPackets(b) \/ AddVerdicts(b)
                 \/ BackfillFails(b)
       PROVE  OpenOK'
  <2>1. UNCHANGED <<open, st, vstream>>
        BY <1>11 DEF AnswerPackets, AnswerVerdicts, AddPackets, AddVerdicts,
           BackfillFails, serverVars, feedVars
  <2>2. healed' = healed \/ healed' = TRUE \/ healed' = FALSE
        BY <1>11 DEF AnswerPackets, AnswerVerdicts, AddPackets, AddVerdicts, BackfillFails
  <2> QED BY <1>2, <1>9, <2>1, <2>2 DEF OpenOK
<1> QED BY <1>3, <1>4, <1>5, <1>6, <1>7, <1>8, <1>10, <1>11 DEF ViewerNext, Backfilling

LEMMA BoundsKeep ==
  ASSUME NEW old \in Nat, Bounded(old), [ViewerNext]_viewerVars
  PROVE  BoundsOK'
<1>1. breaks \in Nat /\ failures \in Nat
      BY DEF Bounded, BoundsOK
<1>2. breaks' \in {breaks, breaks + 1} /\ failures' \in {failures, failures + 1}
  <2>1. CASE \/ PublishPacket \/ PublishVerdict \/ Subscribe \/ EndOfStream \/ NetworkBreaks
             \/ OnOpen \/ OnPacket \/ OnVerdict \/ UNCHANGED viewerVars
        BY <2>1 DEF PublishPacket, PublishVerdict, Subscribe, EndOfStream, NetworkBreaks,
           OnOpen, OnPacket, OnVerdict, viewerVars, bounds
  <2>2. CASE Backfilling \/ \E b \in Slots : BackfillFails(b)
        BY <2>2 DEF Backfilling, AnswerPackets, AnswerVerdicts, AddPackets, AddVerdicts,
           BackfillFails, bounds
  <2> QED BY <2>1, <2>2 DEF ViewerNext
<1> QED BY <1>1, <1>2 DEF BoundsOK

LEMMA FillsKeep ==
  ASSUME NEW old \in Nat, Bounded(old), [ViewerNext]_viewerVars
  PROVE  FillsOK(old)'
<1>1. /\ published' \in Nat /\ published <= published'
      /\ lastSeq' \in Nat /\ lastSeq <= lastSeq'
      /\ vpublished' \in Nat /\ vpublished <= vpublished'
      /\ lastVerdictSeq' \in Nat /\ lastVerdictSeq <= lastVerdictSeq'
      BY FeedKeeps, PacketsKeep, VerdictsKeep DEF Bounded, FeedOK, PacketsOK, VerdictsOK
<1>t. Top(old)' \in Nat /\ published <= Top(old)'
  <2>1. published \in Nat /\ Top(old) \in Nat /\ published <= Top(old)
        BY TopIs DEF Bounded, FeedOK
  <2>2. Top(old)' \in Nat /\ Top(old) <= Top(old)'
        BY <1>1, <2>1, TopIs
  <2> QED BY <2>1, <2>2, Transitive
<1>2. /\ published \in Nat /\ lastSeq \in Nat /\ vpublished \in Nat /\ lastVerdictSeq \in Nat
      /\ held \in 0 .. published /\ vheld \in 0 .. vpublished
      /\ backfills \in [Slots -> Backfill]
      BY DEF Bounded, FeedOK, PacketsOK, VerdictsOK, FillsOK
<1>3. ASSUME NEW b \in Slots, backfills'[b] = backfills[b]
      PROVE  FillOK(backfills[b], old)'
      BY <1>1, <1>3, FillsStay DEF Bounded
<1>4. CASE UNCHANGED backfills
      BY <1>2, <1>3, <1>4 DEF FillsOK
<1>5. ASSUME NEW b \in Slots, NEW it \in Backfill,
             backfills' = [backfills EXCEPT ![b] = it],
             Within(it, lastSeq', Top(old)', lastVerdictSeq', vpublished')
      PROVE  FillsOK(old)'
  <2>1. \A c \in Slots : c # b => backfills'[c] = backfills[c]
        BY <1>2, <1>5
  <2>2. backfills'[b] = it /\ backfills' \in [Slots -> Backfill]
        BY <1>2, <1>5
  <2>3. FillOK(backfills[b], old)'
        BY <1>5, <2>2 DEF FillOK, Within
  <2> QED BY <1>3, <2>1, <2>2, <2>3 DEF FillsOK
<1>6. None \in Backfill /\ Within(None, lastSeq', Top(old)', lastVerdictSeq', vpublished')
      BY DEF None, FillOK, Within, Backfill
<1>7. CASE OnOpen
  <2>1. Asking("packets asked", lastSeq) \in Backfill
        BY <1>2 DEF Asking, Backfill
  <2>2. Within(Asking("packets asked", lastSeq), lastSeq', Top(old)', lastVerdictSeq', vpublished')
        BY <1>1, <2>1, <1>7 DEF Asking, Within, Backfill, OnOpen
  <2> QED BY <1>5, <1>7, <2>1, <2>2 DEF OnOpen
<1>8. ASSUME NEW b \in Slots, AnswerPackets(b) PROVE FillsOK(old)'
  <2> DEFINE first == Larger(backfills[b].from + 1, published - held + 1)
             it == [at |-> "packets answered", from |-> first, to |-> published]
  <2>0. backfills[b].from \in Nat
        BY FillIs
  <2>1. published - held + 1 \in Int
        BY <1>2
  <2>2. first \in Nat /\ first >= 1
        BY <2>0, <2>1 DEF Larger
  <2>3. backfills' = [backfills EXCEPT ![b] = it]
        BY <1>8 DEF AnswerPackets
  <2> HIDE DEF first
  <2>4. it \in Backfill
        BY <1>2, <2>2 DEF Backfill
  <2>5. Within(it, lastSeq', Top(old)', lastVerdictSeq', vpublished')
        BY <1>2, <1>t, <2>2, <2>4 DEF Within
  <2> HIDE DEF it
  <2> QED BY <1>5, <2>3, <2>4, <2>5
<1>9. ASSUME NEW b \in Slots, AnswerVerdicts(b) PROVE FillsOK(old)'
  <2> DEFINE first == Larger(backfills[b].from + 1, vpublished - vheld + 1)
             it == [at |-> "verdicts answered", from |-> first, to |-> vpublished]
  <2>0. backfills[b].from \in Nat
        BY FillIs
  <2>1. vpublished - vheld + 1 \in Int
        BY <1>2
  <2>2. first \in Nat /\ first >= 1
        BY <2>0, <2>1 DEF Larger
  <2>3. backfills' = [backfills EXCEPT ![b] = it]
        BY <1>9 DEF AnswerVerdicts
  <2> HIDE DEF first
  <2>4. it \in Backfill
        BY <1>2, <2>2 DEF Backfill
  <2>5. Within(it, lastSeq', Top(old)', lastVerdictSeq', vpublished')
        BY <1>1, <1>2, <2>2, <2>4 DEF Within
  <2> HIDE DEF it
  <2> QED BY <1>5, <2>3, <2>4, <2>5
<1>10. ASSUME NEW b \in Slots, AddPackets(b) PROVE FillsOK(old)'
  <2>1. Asking("verdicts asked", lastVerdictSeq) \in Backfill
        BY <1>2 DEF Asking, Backfill
  <2>2. Within(Asking("verdicts asked", lastVerdictSeq), lastSeq', Top(old)', lastVerdictSeq', vpublished')
        BY <1>1, <2>1 DEF Asking, Within, Backfill, AddPackets
  <2> QED BY <1>5, <1>10, <2>1, <2>2 DEF AddPackets
<1>11. ASSUME NEW b \in Slots, AddVerdicts(b) \/ BackfillFails(b) PROVE FillsOK(old)'
       BY <1>5, <1>6, <1>11 DEF AddVerdicts, BackfillFails
<1>12. CASE PublishPacket \/ PublishVerdict \/ Subscribe \/ EndOfStream \/ NetworkBreaks
            \/ OnPacket \/ OnVerdict \/ UNCHANGED viewerVars
       BY <1>4, <1>12 DEF PublishPacket, PublishVerdict, Subscribe, EndOfStream,
          NetworkBreaks, StreamOver, OnPacket, OnVerdict, viewerVars, pageVars
<1> QED BY <1>7, <1>8, <1>9, <1>10, <1>11, <1>12 DEF ViewerNext, Backfilling

LEMMA BoundedStep ==
  ASSUME NEW old \in Nat, Bounded(old), [ViewerNext]_viewerVars
  PROVE  Bounded(old)'
BY FeedKeeps, PacketsKeep, VerdictsKeep, OpenKeeps, BoundsKeep, FillsKeep DEF Bounded

(* The page's variables keep their types: no number it holds or asks for   *)
(* is ahead of the daemon's, and without a connection nothing is under way *)
(* (index.html:1331-1356).                                                 *)
THEOREM PageInStep == ViewerSpec => []ViewerTypeOK
<1>1. Bounded(0) => ViewerTypeOK
  <2> SUFFICES ASSUME Bounded(0) PROVE ViewerTypeOK
      OBVIOUS
  <2>1. {vpublished, lastSeq, lastVerdictSeq, breaks, failures} \subseteq Nat
        BY DEF Bounded, PacketsOK, VerdictsOK, BoundsOK
  <2>2. /\ backfills \in [Slots -> Backfill] /\ vstream \in Seq(1 .. vpublished)
        /\ vheld \in 0 .. vpublished
        BY DEF Bounded, FillsOK, VerdictsOK
  <2>t. Top(0) = published
        BY DEF Bounded, FeedOK, Top, Larger
  <2>3. seen \cup excused \subseteq 1 .. published /\ vseen \cup vexcused \subseteq 1 .. vpublished
        BY <2>t DEF Bounded, PacketsOK, VerdictsOK
  <2>4. {open, healed} \subseteq BOOLEAN /\ (st[Page] = "none" => ~open /\ vstream = <<>>)
        BY DEF Bounded, OpenOK
  <2> QED BY <2>1, <2>2, <2>3, <2>4 DEF ViewerTypeOK, Backfill
<1>2. Bounded(0) /\ [ViewerNext]_viewerVars => Bounded(0)'
      BY BoundedStep
<1> QED BY BoundedInit, <1>1, <1>2, PTL DEF ViewerSpec

-----------------------------------------------------------------------------

LEMMA HistoriesGrow ==
  ASSUME [ViewerNext]_viewerVars
  PROVE  /\ seen \subseteq seen' /\ excused \subseteq excused'
         /\ vseen \subseteq vseen' /\ vexcused \subseteq vexcused'
<1>1. CASE PublishPacket \/ PublishVerdict \/ Subscribe \/ EndOfStream \/ NetworkBreaks
           \/ OnOpen \/ UNCHANGED viewerVars
      BY <1>1 DEF PublishPacket, PublishVerdict, Subscribe, EndOfStream, NetworkBreaks,
         StreamOver, OnOpen, viewerVars, histories
<1>2. CASE OnPacket \/ OnVerdict
      BY <1>2 DEF OnPacket, OnVerdict, Add
<1>3. CASE Backfilling
      BY <1>3 DEF Backfilling, AnswerPackets, AnswerVerdicts, AddPackets, AddVerdicts
<1>4. ASSUME NEW b \in Slots, BackfillFails(b)
      PROVE  /\ seen \subseteq seen' /\ excused \subseteq excused'
             /\ vseen \subseteq vseen' /\ vexcused \subseteq vexcused'
      BY <1>4 DEF BackfillFails
<1> QED BY <1>1, <1>2, <1>3, <1>4 DEF ViewerNext

(* What a backfill is to bring stays so while that backfill rests. *)
LEMMA PendingStays ==
  ASSUME NEW m, NEW b, NEW asked, NEW answered, backfills'[b] = backfills[b],
         Pending(m, b, asked, answered)
  PROVE  Pending(m, b, asked, answered)'
BY DEF Pending

LEMMA KnownStays ==
  ASSUME NEW old \in Nat, Bounded(old), [ViewerNext]_viewerVars, NEW m \in 1 .. published, Known(m)
  PROVE  Known(m)'
<1>1. CASE m \in seen \cup excused
      BY <1>1, HistoriesGrow DEF Known
<1>2. ASSUME NEW b \in Slots, Pending(m, b, "packets asked", "packets answered")
      PROVE  Known(m)'
  <2>1. CASE backfills'[b] = backfills[b]
        BY <1>2, <2>1, PendingStays DEF Known
  <2>2. backfills \in [Slots -> Backfill] /\ m \in Nat /\ m <= published /\ published \in Nat
        BY DEF Bounded, FillsOK, FeedOK
  <2>a. backfills[b].at \in {"packets asked", "packets answered"} /\ None.at = "none"
        BY <1>2 DEF Pending, None
  <2>3. backfills[b].at \in {"packets asked", "packets answered"} /\ backfills[b] # None
        BY <2>a
  <2>4. CASE AnswerPackets(b)
    <3> DEFINE since == backfills[b].from
               first == Larger(since + 1, published - held + 1)
    <3>1. m > since /\ since \in Nat
          BY <1>2, <2>4, FillIs DEF Pending, AnswerPackets
    <3>2. first \in Int
          BY <3>1 DEF Bounded, FeedOK, Larger
    <3>3. /\ backfills' = [backfills EXCEPT ![b] = [at |-> "packets answered",
                                                    from |-> first, to |-> published]]
          /\ excused' = excused \cup (since + 1 .. first - 1)
          BY <2>4 DEF AnswerPackets
    <3> HIDE DEF since, first
    <3>4. CASE m < first
      <4>1. m \in since + 1 .. first - 1
            BY <2>2, <3>1, <3>2, <3>4
      <4> QED BY <3>3, <4>1 DEF Known
    <3>5. CASE first <= m
          BY <2>2, <3>3, <3>5 DEF Known, Pending
    <3> QED BY <2>2, <3>2, <3>4, <3>5
  <2>5. CASE AddPackets(b)
    <3>a. backfills[b].from <= m /\ m <= backfills[b].to
          BY <1>2, <2>5 DEF Pending, AddPackets
    <3>b. backfills[b].from \in Nat /\ backfills[b].to \in Nat
          BY FillIs
    <3>1. m \in backfills[b].from .. backfills[b].to
          BY <2>2, <3>a, <3>b
    <3>2. seen' = seen \cup (backfills[b].from .. backfills[b].to)
          BY <2>5 DEF AddPackets
    <3> QED BY <3>1, <3>2 DEF Known
  <2>6. CASE BackfillFails(b)
        BY <1>2, <2>6 DEF Known, BackfillFails, Forgone, VForgone
  <2>7. CASE OnOpen
        BY <2>1, <2>2, <2>3, <2>7 DEF OnOpen
  <2>8. ASSUME NEW c \in Slots, AnswerPackets(c) \/ AddPackets(c) \/ BackfillFails(c)
        PROVE  Known(m)'
    <3>1. CASE c = b
          BY <2>4, <2>5, <2>6, <2>8, <3>1
    <3>2. CASE c # b
          BY <2>1, <2>2, <2>8, <3>2 DEF AnswerPackets, AddPackets, BackfillFails
    <3> QED BY <3>1, <3>2
  <2>9. ASSUME NEW c \in Slots, AnswerVerdicts(c) \/ AddVerdicts(c) PROVE Known(m)'
        BY <2>1, <2>2, <2>3, <2>9 DEF AnswerVerdicts, AddVerdicts
  <2>10. CASE PublishPacket \/ PublishVerdict \/ Subscribe \/ EndOfStream \/ NetworkBreaks
              \/ OnPacket \/ OnVerdict \/ UNCHANGED viewerVars
         BY <2>1, <2>10 DEF PublishPacket, PublishVerdict, Subscribe, EndOfStream,
            NetworkBreaks, StreamOver, OnPacket, OnVerdict, viewerVars, pageVars
  <2> QED BY <2>7, <2>8, <2>9, <2>10 DEF ViewerNext, Backfilling
<1> QED BY <1>1, <1>2 DEF Known

LEMMA ReachedIsKnown ==
  ASSUME NEW old \in Nat, Bounded(old), PacketsCovered(old), [ViewerNext]_viewerVars,
         NEW m \in old + 1 .. published', Reached(m)'
  PROVE  Known(m)'
<1>1. /\ published \in Nat /\ lastSeq \in Nat /\ lastSeq <= Top(old) /\ Top(old) \in Nat
      /\ m > old /\ got \in [Conns -> Nat] /\ got[Page] \in Nat /\ got[Page] <= published
      /\ m \in Nat /\ m >= 1
  <2>1. /\ published \in Nat /\ lastSeq \in Nat /\ lastSeq <= Top(old) /\ published' \in Nat
        /\ Top(old) \in Nat
        BY FeedKeeps, TopIs DEF Bounded, FeedOK, PacketsOK
  <2>2. got \in [Conns -> Nat] /\ got[Page] \in Nat /\ due[Page] \in Nat
        /\ got[Page] <= due[Page] /\ due[Page] <= published
        BY PageIsConn DEF Bounded, FeedOK
  <2>3. got[Page] <= published
        BY <2>1, <2>2, Transitive
  <2> QED BY <2>1, <2>2, <2>3
<1>2. backfills \in [Slots -> Backfill]
      BY DEF Bounded, FillsOK
<1>3. ASSUME m \in old + 1 .. published, Reached(m) PROVE Known(m)'
  <2>1. m \in 1 .. published
        BY <1>1, <1>3
  <2> QED BY <1>3, <2>1, KnownStays DEF PacketsCovered
<1>4. CASE PublishPacket
  <2>1. /\ published' = published + 1 /\ lastSeq' = lastSeq /\ open' = open
        /\ backfills' = backfills /\ got' = got
        BY <1>4 DEF PublishPacket, Publish, pageVars
  <2>2. Reached(m)
        BY <2>1 DEF Reached
  <2>3. m <= published
    <3>a. ASSUME m <= Top(old) PROVE m <= published
          BY <1>1, <3>a, TopIs
    <3>1. CASE m <= lastSeq \/ m <= got[Page]
          BY <1>1, <3>a, <3>1, Transitive
    <3>2. ASSUME NEW b \in Slots, backfills[b].at = "packets answered", m <= backfills[b].to
          PROVE  m <= published
      <4>1. backfills[b].to \in Nat /\ backfills[b].to <= Top(old)
            BY <3>2, FillIs
      <4> QED BY <1>1, <3>a, <3>2, <4>1, Transitive
    <3> QED BY <2>2, <3>1, <3>2 DEF Reached
  <2> QED BY <1>1, <1>3, <2>2, <2>3
<1>5. CASE UNCHANGED <<published, lastSeq, backfills>> /\ (~open' \/ UNCHANGED <<open, got>>)
      BY <1>3, <1>5 DEF Reached
<1>6. CASE PublishVerdict \/ OnVerdict \/ UNCHANGED viewerVars
      BY <1>5, <1>6 DEF PublishVerdict, OnVerdict, viewerVars, serverVars, feedVars, pageVars
<1>7. CASE Subscribe
  <2>1. ~open
        BY <1>7 DEF Subscribe, Join, Bounded, OpenOK
  <2> QED BY <1>5, <1>7, <2>1 DEF Subscribe, Join, pageVars
<1>8. CASE EndOfStream \/ NetworkBreaks
      BY <1>5, <1>8 DEF EndOfStream, NetworkBreaks, StreamOver, Leave
<1>9. CASE OnOpen
  <2>1. published' = published /\ lastSeq' = lastSeq
        BY <1>9 DEF OnOpen, serverVars, feedVars
  <2>2. PICK b \in Slots : backfills[b] = None
              /\ backfills' = [backfills EXCEPT ![b] = Asking("packets asked", lastSeq)]
        BY <1>9 DEF OnOpen
  <2>3. backfills'[b] = Asking("packets asked", lastSeq)
        BY <1>2, <2>2
  <2>4. CASE m <= lastSeq
        BY <1>3, <2>1, <2>4 DEF Reached
  <2>5. CASE lastSeq < m
    <3>a. /\ Asking("packets asked", lastSeq).at = "packets asked"
          /\ Asking("packets asked", lastSeq).from = lastSeq
          BY DEF Asking
    <3>b. backfills'[b].at = "packets asked" /\ backfills'[b].from = lastSeq
          BY <2>3, <3>a, Zenon
    <3>1. backfills'[b].at = "packets asked" /\ backfills'[b].from < m
          BY <2>5, <3>b
    <3> QED BY <3>1 DEF Known, Pending
  <2> QED BY <1>1, <2>4, <2>5
<1>10. CASE OnPacket
  <2>1. /\ open /\ published' = published /\ got' = [got EXCEPT ![Page] = @ + 1]
        /\ seen' = seen \cup {got[Page] + 1} /\ lastSeq' = Larger(lastSeq, got[Page] + 1)
        /\ backfills' = backfills
        BY <1>10 DEF OnPacket, Deliver, Add
  <2>2. got'[Page] = got[Page] + 1
        BY <1>1, <2>1, PageIsConn
  <2>a. \A n, k \in Nat : n <= k + 1 => n <= k \/ n = k + 1
        OBVIOUS
  <2>b. m <= got[Page] + 1 => m <= got[Page] \/ m = got[Page] + 1
        BY <1>1, <2>a
  <2>3. m = got[Page] + 1 \/ Reached(m)
    <3>1. CASE m <= lastSeq'
      <4>1. m <= lastSeq \/ m <= got[Page] + 1
            BY <2>1, <3>1 DEF Larger
      <4> QED BY <2>1, <2>b, <4>1 DEF Reached
    <3>2. CASE m <= got'[Page]
          BY <2>1, <2>2, <2>b, <3>2 DEF Reached
    <3> QED BY <2>1, <3>1, <3>2 DEF Reached
  <2> QED BY <1>3, <2>1, <2>3 DEF Known
<1>11. ASSUME NEW b \in Slots, AnswerPackets(b) PROVE Known(m)'
  <2> DEFINE since == backfills[b].from
             first == Larger(since + 1, published - held + 1)
  <2>1. UNCHANGED <<published, lastSeq, open, got>>
        BY <1>11 DEF AnswerPackets, serverVars, feedVars
  <2>2. /\ backfills' = [backfills EXCEPT ![b] = [at |-> "packets answered",
                                                  from |-> first, to |-> published]]
        /\ excused' = excused \cup (since + 1 .. first - 1)
        BY <1>11 DEF AnswerPackets
  <2>3. since \in Nat /\ since <= lastSeq
        BY <1>11, FillIs DEF AnswerPackets
  <2>4. first \in Int
        BY <2>3 DEF Bounded, FeedOK, Larger
  <2> HIDE DEF since, first
  <2>5. CASE m <= since
        BY <1>1, <1>3, <2>1, <2>3, <2>5, Transitive DEF Reached
  <2>6. CASE since < m /\ m < first
    <3>1. m \in since + 1 .. first - 1
          BY <1>1, <2>3, <2>4, <2>6
    <3> QED BY <2>2, <3>1 DEF Known
  <2>7. CASE first <= m
    <3>1. m <= published
          BY <2>1
    <3> QED BY <1>2, <2>2, <2>7, <3>1 DEF Known, Pending
  <2> QED BY <1>1, <2>3, <2>4, <2>5, <2>6, <2>7
<1>12. ASSUME NEW b \in Slots, AddPackets(b) PROVE Known(m)'
  <2>1. /\ backfills[b].at = "packets answered" /\ UNCHANGED <<published, open, got>>
        /\ lastSeq' \in {lastSeq, Larger(lastSeq, backfills[b].to)}
        /\ backfills' = [backfills EXCEPT ![b] = Asking("verdicts asked", lastVerdictSeq)]
        BY <1>12 DEF AddPackets, serverVars, feedVars
  <2>2. Reached(m)
    <3>1. CASE m <= lastSeq'
          BY <2>1, <3>1 DEF Reached, Larger
    <3>2. ASSUME NEW c \in Slots, backfills'[c].at = "packets answered", m <= backfills'[c].to
          PROVE  Reached(m)
      <4>1. c # b
            BY <1>2, <2>1, <3>2 DEF Asking
      <4> QED BY <1>2, <2>1, <3>2, <4>1 DEF Reached
    <3> QED BY <2>1, <3>1, <3>2 DEF Reached
  <2> QED BY <1>3, <2>1, <2>2
<1>13. ASSUME NEW b \in Slots, NEW it \in Backfill, it.at # "packets answered",
              UNCHANGED <<published, lastSeq, open, got>>,
              backfills' = [backfills EXCEPT ![b] = it]
       PROVE  Known(m)'
  <2>1. Reached(m)
    <3>1. ASSUME NEW c \in Slots, backfills'[c].at = "packets answered", m <= backfills'[c].to
          PROVE  Reached(m)
      <4>1. c # b
            BY <1>2, <1>13, <3>1
      <4> QED BY <1>2, <1>13, <3>1, <4>1 DEF Reached
    <3> QED BY <1>13, <3>1 DEF Reached
  <2> QED BY <1>3, <1>13, <2>1
<1>14. ASSUME NEW b \in Slots, AnswerVerdicts(b) PROVE Known(m)'
  <2> DEFINE it == [at |-> "verdicts answered",
                    from |-> Larger(backfills[b].from + 1, vpublished - vheld + 1),
                    to |-> vpublished]
  <2>1. UNCHANGED <<published, lastSeq, open, got>> /\ backfills' = [backfills EXCEPT ![b] = it]
        BY <1>14 DEF AnswerVerdicts, serverVars, feedVars
  <2>2. backfills'[b] = it /\ it.at = "verdicts answered"
        BY <1>2, <2>1
  <2>3. it \in Backfill
        BY <2>2, FillsKeep DEF FillsOK
  <2> HIDE DEF it
  <2> QED BY <1>13, <2>1, <2>2, <2>3
<1>15. ASSUME NEW b \in Slots, AddVerdicts(b) \/ BackfillFails(b) PROVE Known(m)'
  <2>1. UNCHANGED <<published, lastSeq, open, got>> /\ backfills' = [backfills EXCEPT ![b] = None]
        BY <1>15 DEF AddVerdicts, BackfillFails, serverVars, feedVars
  <2>2. None \in Backfill /\ None.at = "none"
        BY DEF None, Backfill
  <2> QED BY <1>13, <2>1, <2>2
<1> QED BY <1>4, <1>6, <1>7, <1>8, <1>9, <1>10, <1>11, <1>12, <1>14, <1>15
        DEF ViewerNext, Backfilling

LEMMA CoveredStep ==
  ASSUME NEW old \in Nat, Bounded(old), PacketsCovered(old), [ViewerNext]_viewerVars
  PROVE  PacketsCovered(old)'
BY ReachedIsKnown DEF PacketsCovered

(* The page's numbers can be trusted: every packet below lastSeq that it   *)
(* does not have is on its way in a backfill, was out of the backlog when  *)
(* the page asked, or fell to a failed request (index.html:685,            *)
(* :1344-1345), whatever breaks, overlaps and is reopened.                 *)
THEOREM PacketHolesAreExplained == ViewerSpec => []PacketHolesExplained
<1>1. ViewerInit => PacketsCovered(0)
  <2>1. ViewerInit => 0 + 1 .. published = {}
        BY DEF ViewerInit, FeedInit
  <2> QED BY <2>1 DEF PacketsCovered
<1>2. Bounded(0) /\ PacketsCovered(0) /\ [ViewerNext]_viewerVars => PacketsCovered(0)'
      BY CoveredStep
<1>3. Bounded(0) /\ PacketsCovered(0) /\ ViewerTypeOK => PacketHolesExplained
  <2> SUFFICES ASSUME Bounded(0), PacketsCovered(0), ViewerTypeOK PROVE PacketHolesExplained
      OBVIOUS
  <2>1. ASSUME NEW m \in 1 .. lastSeq PROVE Known(m)
    <3>1. m \in 0 + 1 .. published /\ m <= lastSeq
          BY DEF Bounded, PacketsOK, FeedOK, Top, Larger
    <3> QED BY <3>1 DEF PacketsCovered, Reached
  <2> QED BY <2>1 DEF PacketHolesExplained, Known
<1>4. Bounded(0) /\ [ViewerNext]_viewerVars => Bounded(0)'
      BY BoundedStep
<1> QED BY BoundedInit, PageInStep, <1>1, <1>2, <1>3, <1>4, PTL DEF ViewerSpec

-----------------------------------------------------------------------------

LEMMA VKnownStays ==
  ASSUME NEW old \in Nat, Bounded(old), [ViewerNext]_viewerVars, NEW m \in 1 .. vpublished, VKnown(m)
  PROVE  VKnown(m)'
<1>1. CASE m \in vseen \cup vexcused
      BY <1>1, HistoriesGrow DEF VKnown
<1>2. ASSUME NEW b \in Slots, Pending(m, b, "verdicts asked", "verdicts answered")
      PROVE  VKnown(m)'
  <2>1. CASE backfills'[b] = backfills[b]
        BY <1>2, <2>1, PendingStays DEF VKnown
  <2>2. /\ backfills \in [Slots -> Backfill] /\ vheld \in 0 .. vpublished
        /\ m \in Nat /\ m <= vpublished /\ vpublished \in Nat
        BY DEF Bounded, FillsOK, VerdictsOK
  <2>a. backfills[b].at \in {"verdicts asked", "verdicts answered"} /\ None.at = "none"
        BY <1>2 DEF Pending, None
  <2>3. backfills[b].at \in {"verdicts asked", "verdicts answered"} /\ backfills[b] # None
        BY <2>a
  <2>4. CASE AnswerVerdicts(b)
    <3> DEFINE since == backfills[b].from
               first == Larger(since + 1, vpublished - vheld + 1)
    <3>0. since \in Nat
          BY FillIs
    <3>1. m > since
          BY <1>2, <2>4 DEF Pending, AnswerVerdicts
    <3>a. vpublished - vheld + 1 \in Int
          BY <2>2
    <3>2. first \in Int
          BY <3>0, <3>a DEF Larger
    <3>3. /\ backfills' = [backfills EXCEPT ![b] = [at |-> "verdicts answered",
                                                    from |-> first, to |-> vpublished]]
          /\ vexcused' = vexcused \cup (since + 1 .. first - 1)
          BY <2>4 DEF AnswerVerdicts
    <3> HIDE DEF since, first
    <3>4. CASE m < first
      <4>1. m \in since + 1 .. first - 1
            BY <2>2, <3>0, <3>1, <3>2, <3>4
      <4> QED BY <3>3, <4>1 DEF VKnown
    <3>5. CASE first <= m
          BY <2>2, <3>3, <3>5 DEF VKnown, Pending
    <3> QED BY <2>2, <3>2, <3>4, <3>5
  <2>5. CASE AddVerdicts(b)
    <3>a. backfills[b].from <= m /\ m <= backfills[b].to
          BY <1>2, <2>5 DEF Pending, AddVerdicts
    <3>b. backfills[b].from \in Nat /\ backfills[b].to \in Nat
          BY FillIs
    <3>1. m \in backfills[b].from .. backfills[b].to
          BY <2>2, <3>a, <3>b
    <3>2. vseen' = vseen \cup (backfills[b].from .. backfills[b].to)
          BY <2>5 DEF AddVerdicts
    <3> QED BY <3>1, <3>2 DEF VKnown
  <2>6. CASE BackfillFails(b)
    <3>1. vexcused' = vexcused \cup
            {k \in 1 .. vpublished : Pending(k, b, "verdicts asked", "verdicts answered")}
          BY <2>3, <2>6 DEF BackfillFails, Forgone, VForgone
    <3> QED BY <1>2, <3>1 DEF VKnown
  <2>7. CASE OnOpen
        BY <2>1, <2>2, <2>3, <2>7 DEF OnOpen
  <2>8. ASSUME NEW c \in Slots, AnswerVerdicts(c) \/ AddVerdicts(c) \/ BackfillFails(c)
        PROVE  VKnown(m)'
    <3>1. CASE c = b
          BY <2>4, <2>5, <2>6, <2>8, <3>1
    <3>2. CASE c # b
          BY <2>1, <2>2, <2>8, <3>2 DEF AnswerVerdicts, AddVerdicts, BackfillFails
    <3> QED BY <3>1, <3>2
  <2>9. ASSUME NEW c \in Slots, AnswerPackets(c) \/ AddPackets(c) PROVE VKnown(m)'
        BY <2>1, <2>2, <2>3, <2>9 DEF AnswerPackets, AddPackets
  <2>10. CASE PublishPacket \/ PublishVerdict \/ Subscribe \/ EndOfStream \/ NetworkBreaks
              \/ OnPacket \/ OnVerdict \/ UNCHANGED viewerVars
         BY <2>1, <2>10 DEF PublishPacket, PublishVerdict, Subscribe, EndOfStream,
            NetworkBreaks, StreamOver, OnPacket, OnVerdict, viewerVars, pageVars
  <2> QED BY <2>7, <2>8, <2>9, <2>10 DEF ViewerNext, Backfilling
<1> QED BY <1>1, <1>2 DEF VKnown

(* The head of the stream is the oldest verdict on it. *)
LEMMA HeadIsFirst ==
  ASSUME NEW old \in Nat, Bounded(old), Increasing, vstream # <<>>
  PROVE  /\ Head(vstream) \in Nat /\ Head(vstream) <= vpublished
         /\ \A m \in Nat : Coming(m) => m = Head(vstream)
                \/ (m > Head(vstream) /\ \E i \in 1 .. Len(Tail(vstream)) : Tail(vstream)[i] = m)
<1>1. vpublished \in Nat /\ vstream \in Seq(1 .. vpublished)
      BY DEF Bounded, VerdictsOK
<1>2. /\ Head(vstream) = vstream[1] /\ Head(vstream) \in 1 .. vpublished
      /\ Len(vstream) \in Nat /\ Len(vstream) >= 1
      BY <1>1, HeadTailProperties, EmptySeq
<1>3. /\ Len(Tail(vstream)) = Len(vstream) - 1
      /\ \A i \in 1 .. Len(Tail(vstream)) : Tail(vstream)[i] = vstream[i + 1]
      BY <1>1, HeadTailProperties
<1>4. ASSUME NEW m \in Nat, NEW i \in 1 .. Len(vstream), vstream[i] = m, i # 1
      PROVE  m > Head(vstream) /\ \E j \in 1 .. Len(Tail(vstream)) : Tail(vstream)[j] = m
  <2>1. 1 < i /\ 1 \in 1 .. Len(vstream) /\ i - 1 \in 1 .. Len(Tail(vstream)) /\ (i - 1) + 1 = i
        BY <1>2, <1>3, <1>4
  <2>2. vstream[1] < vstream[i]
        BY <2>1 DEF Increasing
  <2>3. Tail(vstream)[i - 1] = m
        BY <1>3, <1>4, <2>1
  <2> QED BY <1>2, <1>4, <2>1, <2>2, <2>3
<1>5. ASSUME NEW m \in Nat, Coming(m)
      PROVE  m = Head(vstream)
                \/ (m > Head(vstream) /\ \E i \in 1 .. Len(Tail(vstream)) : Tail(vstream)[i] = m)
      BY <1>2, <1>4, <1>5 DEF Coming
<1>6. Head(vstream) \in Nat /\ Head(vstream) <= vpublished
      BY <1>1, <1>2
<1> QED BY <1>5, <1>6

(* What each step does to the stream of verdicts. *)
LEMMA StreamSteps ==
  ASSUME [ViewerNext]_viewerVars
  PROVE  \/ vstream' = vstream \/ vstream' = <<>>
         \/ vstream' = Append(vstream, vpublished + 1) /\ PublishVerdict
         \/ OnVerdict
<1>1. CASE PublishPacket \/ PublishVerdict \/ Subscribe \/ EndOfStream \/ NetworkBreaks
           \/ OnOpen \/ OnPacket \/ OnVerdict \/ UNCHANGED viewerVars
      BY <1>1 DEF PublishPacket, PublishVerdict, Subscribe, EndOfStream, NetworkBreaks,
         StreamOver, OnOpen, OnPacket, viewerVars, serverVars
<1>2. CASE Backfilling \/ \E b \in Slots : BackfillFails(b)
      BY <1>2 DEF Backfilling, AnswerPackets, AnswerVerdicts, AddPackets, AddVerdicts,
         BackfillFails, serverVars
<1> QED BY <1>1, <1>2 DEF ViewerNext

LEMMA StreamLengths ==
  ASSUME NEW old \in Nat, Bounded(old)
  PROVE  /\ Len(vstream) \in Nat /\ vpublished \in Nat
         /\ \A i \in 1 .. Len(vstream) : vstream[i] \in Nat /\ vstream[i] < vpublished + 1
         /\ Len(Append(vstream, vpublished + 1)) = Len(vstream) + 1
         /\ \A i \in 1 .. Len(vstream) : Append(vstream, vpublished + 1)[i] = vstream[i]
         /\ Append(vstream, vpublished + 1)[Len(vstream) + 1] = vpublished + 1
<1>1. vpublished \in Nat /\ vstream \in Seq(1 .. vpublished)
      BY DEF Bounded, VerdictsOK
<1>2. 1 .. vpublished \subseteq Nat /\ vpublished + 1 \in Nat
      BY <1>1
<1>3. vstream \in Seq(Nat)
      BY <1>1, <1>2, SeqMonotonic
<1>4. \A i \in 1 .. Len(vstream) : vstream[i] \in 1 .. vpublished
      BY <1>1, ElementOfSeq
<1>5. \A i \in 1 .. Len(vstream) : vstream[i] \in Nat /\ vstream[i] < vpublished + 1
      BY <1>1, <1>4
<1> QED BY <1>1, <1>2, <1>3, <1>5, LenProperties, AppendProperties

LEMMA IncreasingStays ==
  ASSUME NEW old \in Nat, Bounded(old), Increasing, [ViewerNext]_viewerVars
  PROVE  Increasing'
<1>1. CASE vstream' = vstream
      BY <1>1 DEF Increasing
<1>2. CASE vstream' = <<>>
  <2>1. Len(vstream') = 0
        BY <1>2
  <2>2. 1 .. Len(vstream') = {}
        BY <2>1
  <2> QED BY <2>2 DEF Increasing
<1>3. CASE vstream' = Append(vstream, vpublished + 1)
  <2> SUFFICES ASSUME NEW i \in 1 .. Len(vstream'), NEW j \in 1 .. Len(vstream'), i < j
               PROVE  vstream'[i] < vstream'[j]
      BY DEF Increasing
  <2>1. Len(vstream) \in Nat /\ Len(vstream') = Len(vstream) + 1
        BY <1>3, StreamLengths
  <2> DEFINE l == Len(vstream)
             l2 == Len(vstream')
  <2> HIDE DEF l, l2
  <2>2. l \in Nat /\ l2 = l + 1 /\ i \in 1 .. l2 /\ j \in 1 .. l2
        BY <2>1 DEF l, l2
  <2>3. i \in 1 .. l /\ (j \in 1 .. l \/ j = l + 1)
        BY <2>2
  <2>4. vstream'[i] = vstream[i] /\ vstream[i] < vpublished + 1
        BY <1>3, <2>3, StreamLengths DEF l
  <2>5. CASE j \in 1 .. l
    <3>1. vstream'[j] = vstream[j]
          BY <1>3, <2>5, StreamLengths DEF l
    <3>2. vstream[i] < vstream[j]
          BY <2>3, <2>5 DEF Increasing, l
    <3> QED BY <2>4, <3>1, <3>2
  <2>6. CASE j = l + 1
    <3>1. vstream'[j] = vpublished + 1
          BY <1>3, <2>6, StreamLengths DEF l
    <3> QED BY <2>4, <3>1
  <2> QED BY <2>3, <2>5, <2>6
<1>4. CASE OnVerdict
  <2> SUFFICES ASSUME NEW i \in 1 .. Len(vstream'), NEW j \in 1 .. Len(vstream'), i < j
               PROVE  vstream'[i] < vstream'[j]
      BY DEF Increasing
  <2>1. vstream # <<>> /\ vstream' = Tail(vstream) /\ vstream \in Seq(1 .. vpublished)
        BY <1>4 DEF OnVerdict, Bounded, VerdictsOK
  <2>2. /\ Len(vstream') = Len(vstream) - 1
        /\ \A k \in 1 .. Len(vstream') : vstream'[k] = vstream[k + 1]
        BY <2>1, HeadTailProperties
  <2> DEFINE l == Len(vstream)
             l2 == Len(vstream')
  <2>3. l \in Nat /\ l2 = l - 1
        BY <2>2, StreamLengths
  <2> HIDE DEF l, l2
  <2>4. i \in 1 .. l2 /\ j \in 1 .. l2
        BY DEF l2
  <2>5. i + 1 \in 1 .. l /\ j + 1 \in 1 .. l /\ i + 1 < j + 1
        BY <2>3, <2>4
  <2>6. vstream[i + 1] < vstream[j + 1]
        BY <2>5 DEF Increasing, l
  <2> QED BY <2>2, <2>6
<1> QED BY <1>1, <1>2, <1>3, <1>4, StreamSteps

(* A live verdict that moves lastVerdictSeq past others, with no backfill  *)
(* yet to ask: the channel is in order, so those were all accounted for.   *)
LEMMA OvertakenIsKnown ==
  ASSUME NEW old \in Nat, Bounded(old), VerdictsCovered, OnVerdict, NEW m \in 1 .. vpublished,
         lastVerdictSeq < m, m < Head(vstream)
  PROVE  VKnown(m)'
<1>1. vpublished \in Nat /\ m \in Nat /\ lastVerdictSeq \in Nat
      BY DEF Bounded, VerdictsOK
<1>2. vstream # <<>> /\ open /\ [ViewerNext]_viewerVars
      BY DEF OnVerdict, ViewerNext
<1>3. Head(vstream) \in Nat /\ ~Coming(m)
      BY <1>1, <1>2, HeadIsFirst DEF VerdictsCovered
<1>4. CASE YetToAsk
  <2>1. vexcused' = vexcused \cup (lastVerdictSeq + 1 .. Head(vstream) - 1)
        BY <1>4 DEF OnVerdict, YetToAsk
  <2>2. m \in lastVerdictSeq + 1 .. Head(vstream) - 1
        BY <1>1, <1>3
  <2> QED BY <2>1, <2>2 DEF VKnown
<1>5. CASE ~YetToAsk
  <2>1. VKnown(m)
        BY <1>2, <1>3, <1>5 DEF VerdictsCovered
  <2> QED BY <1>2, <2>1, VKnownStays
<1> QED BY <1>4, <1>5

LEMMA VReachedIsKnown ==
  ASSUME NEW old \in Nat, Bounded(old), VerdictsCovered, [ViewerNext]_viewerVars,
         NEW m \in 1 .. vpublished', VReached(m)'
  PROVE  VKnown(m)'
<1>1. /\ vpublished \in Nat /\ lastVerdictSeq \in Nat /\ lastVerdictSeq <= vpublished
      /\ m \in Nat /\ m >= 1 /\ vheld \in 0 .. vpublished
      BY VerdictsKeep DEF Bounded, VerdictsOK
<1>2. backfills \in [Slots -> Backfill]
      BY DEF Bounded, FillsOK
<1>3. ASSUME m \in 1 .. vpublished, VReached(m) PROVE VKnown(m)'
      BY <1>3, VKnownStays DEF VerdictsCovered
<1>4. CASE PublishVerdict
  <2>1. lastVerdictSeq' = lastVerdictSeq /\ backfills' = backfills
        BY <1>4 DEF PublishVerdict, pageVars
  <2>2. VReached(m)
        BY <2>1 DEF VReached
  <2>3. m <= vpublished
    <3>1. CASE m <= lastVerdictSeq
          BY <1>1, <3>1, Transitive
    <3>2. ASSUME NEW b \in Slots, backfills[b].at = "verdicts answered", m <= backfills[b].to
          PROVE  m <= vpublished
      <4>1. backfills[b].to \in Nat /\ backfills[b].to <= vpublished
            BY <3>2, FillIs
      <4> QED BY <1>1, <3>2, <4>1, Transitive
    <3> QED BY <2>2, <3>1, <3>2 DEF VReached
  <2> QED BY <1>1, <1>3, <2>2, <2>3
<1>5. CASE UNCHANGED <<vpublished, lastVerdictSeq, backfills>>
      BY <1>3, <1>5 DEF VReached
<1>6. CASE PublishPacket \/ Subscribe \/ EndOfStream \/ NetworkBreaks \/ OnPacket
           \/ UNCHANGED viewerVars
      BY <1>5, <1>6 DEF PublishPacket, Subscribe, EndOfStream, NetworkBreaks, StreamOver,
         OnPacket, viewerVars, serverVars, pageVars
<1>7. CASE OnVerdict
  <2> DEFINE n == Head(vstream)
  <2>1. /\ vpublished' = vpublished /\ vseen' = vseen \cup {n} /\ backfills' = backfills
        /\ lastVerdictSeq' = Larger(lastVerdictSeq, n) /\ vstream # <<>>
        BY <1>7 DEF OnVerdict
  <2>2. n \in Nat
        BY <2>1, HeadIsFirst DEF VerdictsCovered
  <2>3. VReached(m) \/ m = n \/ (lastVerdictSeq < m /\ m < n)
    <3>1. m <= lastVerdictSeq' => m <= lastVerdictSeq \/ m <= n
          BY <2>1 DEF Larger
    <3>2. m <= n => m = n \/ m <= lastVerdictSeq \/ (lastVerdictSeq < m /\ m < n)
          BY <1>1, <2>2
    <3> QED BY <2>1, <3>1, <3>2 DEF VReached
  <2> QED BY <1>3, <1>7, <2>1, <2>3, OvertakenIsKnown DEF VKnown
<1>8. ASSUME NEW b \in Slots, AnswerVerdicts(b) PROVE VKnown(m)'
  <2> DEFINE since == backfills[b].from
             first == Larger(since + 1, vpublished - vheld + 1)
  <2>1. UNCHANGED <<vpublished, lastVerdictSeq>>
        BY <1>8 DEF AnswerVerdicts, serverVars
  <2>2. /\ backfills' = [backfills EXCEPT ![b] = [at |-> "verdicts answered",
                                                  from |-> first, to |-> vpublished]]
        /\ vexcused' = vexcused \cup (since + 1 .. first - 1)
        BY <1>8 DEF AnswerVerdicts
  <2>3. since \in Nat /\ since <= lastVerdictSeq
        BY <1>8, FillIs DEF AnswerVerdicts
  <2>a. vpublished - vheld + 1 \in Int
        BY <1>1
  <2>4. first \in Int
        BY <2>3, <2>a DEF Larger
  <2> HIDE DEF since, first
  <2>5. CASE m <= since
        BY <1>1, <1>3, <2>1, <2>3, <2>5, Transitive DEF VReached
  <2>6. CASE since < m /\ m < first
    <3>1. m \in since + 1 .. first - 1
          BY <1>1, <2>3, <2>4, <2>6
    <3> QED BY <2>2, <3>1 DEF VKnown
  <2>7. CASE first <= m
    <3>1. m <= vpublished
          BY <2>1
    <3> QED BY <1>2, <2>2, <2>7, <3>1 DEF VKnown, Pending
  <2> QED BY <1>1, <2>3, <2>4, <2>5, <2>6, <2>7
<1>9. ASSUME NEW b \in Slots, AddVerdicts(b) PROVE VKnown(m)'
  <2>1. /\ backfills[b].at = "verdicts answered" /\ vpublished' = vpublished
        /\ lastVerdictSeq' \in {lastVerdictSeq, Larger(lastVerdictSeq, backfills[b].to)}
        /\ backfills' = [backfills EXCEPT ![b] = None]
        BY <1>9 DEF AddVerdicts, serverVars
  <2>2. VReached(m)
    <3>1. CASE m <= lastVerdictSeq'
          BY <2>1, <3>1 DEF VReached, Larger
    <3>2. ASSUME NEW c \in Slots, backfills'[c].at = "verdicts answered", m <= backfills'[c].to
          PROVE  VReached(m)
      <4>1. c # b
            BY <1>2, <2>1, <3>2 DEF None
      <4> QED BY <1>2, <2>1, <3>2, <4>1 DEF VReached
    <3> QED BY <3>1, <3>2 DEF VReached
  <2> QED BY <1>3, <2>1, <2>2
<1>10. ASSUME NEW b \in Slots, NEW it \in Backfill, it.at # "verdicts answered",
              UNCHANGED <<vpublished, lastVerdictSeq>>,
              backfills' = [backfills EXCEPT ![b] = it]
       PROVE  VKnown(m)'
  <2>1. VReached(m)
    <3>1. ASSUME NEW c \in Slots, backfills'[c].at = "verdicts answered", m <= backfills'[c].to
          PROVE  VReached(m)
      <4>1. c # b
            BY <1>2, <1>10, <3>1
      <4> QED BY <1>2, <1>10, <3>1, <4>1 DEF VReached
    <3> QED BY <1>10, <3>1 DEF VReached
  <2> QED BY <1>3, <1>10, <2>1
<1>11. CASE OnOpen
  <2>1. UNCHANGED <<vpublished, lastVerdictSeq>>
        BY <1>11 DEF OnOpen, serverVars
  <2>2. PICK b \in Slots : backfills' = [backfills EXCEPT ![b] = Asking("packets asked", lastSeq)]
        BY <1>11 DEF OnOpen
  <2> DEFINE it == Asking("packets asked", lastSeq)
  <2>3. it \in Backfill /\ it.at = "packets asked"
        BY DEF Asking, Backfill, Bounded, PacketsOK
  <2> HIDE DEF it
  <2>4. backfills' = [backfills EXCEPT ![b] = it]
        BY <2>2 DEF it
  <2> QED BY <1>10, <2>1, <2>3, <2>4
<1>12. ASSUME NEW b \in Slots, AnswerPackets(b) PROVE VKnown(m)'
  <2> DEFINE it == [at |-> "packets answered",
                    from |-> Larger(backfills[b].from + 1, published - held + 1),
                    to |-> published]
  <2>1. UNCHANGED <<vpublished, lastVerdictSeq>> /\ backfills' = [backfills EXCEPT ![b] = it]
        BY <1>12 DEF AnswerPackets, serverVars
  <2>2. backfills'[b] = it /\ it.at = "packets answered"
        BY <1>2, <2>1
  <2>3. it \in Backfill
        BY <2>2, FillsKeep DEF FillsOK
  <2> HIDE DEF it
  <2> QED BY <1>10, <2>1, <2>2, <2>3
<1>13. ASSUME NEW b \in Slots, AddPackets(b) PROVE VKnown(m)'
  <2> DEFINE it == Asking("verdicts asked", lastVerdictSeq)
  <2>1. UNCHANGED <<vpublished, lastVerdictSeq>> /\ backfills' = [backfills EXCEPT ![b] = it]
        BY <1>13 DEF AddPackets, serverVars
  <2>2. it \in Backfill /\ it.at = "verdicts asked"
        BY <1>1 DEF Asking, Backfill
  <2> HIDE DEF it
  <2> QED BY <1>10, <2>1, <2>2
<1>14. ASSUME NEW b \in Slots, BackfillFails(b) PROVE VKnown(m)'
  <2>1. UNCHANGED <<vpublished, lastVerdictSeq>> /\ backfills' = [backfills EXCEPT ![b] = None]
        BY <1>14 DEF BackfillFails, serverVars
  <2>2. None \in Backfill /\ None.at = "none"
        BY DEF None, Backfill
  <2> QED BY <1>10, <2>1, <2>2
<1> QED BY <1>4, <1>6, <1>7, <1>8, <1>9, <1>11, <1>12, <1>13, <1>14
        DEF ViewerNext, Backfilling

(* With the stream open and no backfill yet to ask, nothing is lost unseen: *)
(* every verdict is accounted for or on its way.                            *)
LEMMA LiveIsKnown ==
  ASSUME NEW old \in Nat, Bounded(old), VerdictsCovered, [ViewerNext]_viewerVars,
         open', ~YetToAsk', NEW m \in 1 .. vpublished'
  PROVE  VKnown(m)' \/ Coming(m)'
<1>1. /\ vpublished \in Nat /\ lastVerdictSeq \in Nat /\ m \in Nat /\ m >= 1
      BY VerdictsKeep DEF Bounded, VerdictsOK
<1>2. backfills \in [Slots -> Backfill]
      BY DEF Bounded, FillsOK
<1>3. ASSUME vpublished' = vpublished, vstream' = vstream, open, ~YetToAsk
      PROVE  VKnown(m)' \/ Coming(m)'
  <2>1. VKnown(m) \/ Coming(m)
        BY <1>3 DEF VerdictsCovered
  <2> QED BY <1>3, <2>1, VKnownStays DEF Coming
<1>4. CASE PublishVerdict
  <2>1. vpublished' = vpublished + 1 /\ open' = open /\ backfills' = backfills
        BY <1>4 DEF PublishVerdict, pageVars
  <2>2. open /\ ~YetToAsk
        BY <2>1 DEF YetToAsk
  <2>3. vexcused' = vexcused \cup {vpublished + 1} \/ vstream' = Append(vstream, vpublished + 1)
        BY <1>4, <2>2 DEF PublishVerdict, Bounded, OpenOK
  <2>4. m \in 1 .. vpublished \/ m = vpublished + 1
        BY <1>1, <2>1
  <2>5. CASE m \in 1 .. vpublished /\ VKnown(m)
        BY <2>5, VKnownStays
  <2>6. ASSUME NEW i \in 1 .. Len(vstream), vstream[i] = m PROVE Coming(m)'
    <3>1. CASE vstream' = vstream
          BY <2>6, <3>1 DEF Coming
    <3>2. CASE vstream' = Append(vstream, vpublished + 1)
      <4>1. vstream'[i] = m /\ Len(vstream') = Len(vstream) + 1 /\ Len(vstream) \in Nat
            BY <2>6, <3>2, StreamLengths
      <4>2. i \in 1 .. Len(vstream')
            BY <4>1
      <4> QED BY <4>1, <4>2 DEF Coming
    <3> QED BY <1>4, <2>2, <3>1, <3>2 DEF PublishVerdict, Bounded, OpenOK
  <2>7. CASE m = vpublished + 1
    <3>1. CASE vexcused' = vexcused \cup {vpublished + 1}
          BY <2>7, <3>1 DEF VKnown
    <3>2. CASE vstream' = Append(vstream, vpublished + 1)
      <4>1. /\ vstream'[Len(vstream) + 1] = m /\ Len(vstream') = Len(vstream) + 1
            /\ Len(vstream) \in Nat
            BY <2>7, <3>2, StreamLengths
      <4>2. Len(vstream) + 1 \in 1 .. Len(vstream')
            BY <4>1
      <4> QED BY <4>1, <4>2 DEF Coming
    <3> QED BY <2>3, <3>1, <3>2
  <2>8. m \in 1 .. vpublished => VKnown(m) \/ Coming(m)
        BY <2>2 DEF VerdictsCovered
  <2> QED BY <2>4, <2>5, <2>6, <2>7, <2>8 DEF Coming
<1>5. CASE OnVerdict
  <2>1. /\ open /\ vpublished' = vpublished /\ backfills' = backfills
        /\ vstream # <<>> /\ vstream' = Tail(vstream) /\ vseen' = vseen \cup {Head(vstream)}
        BY <1>5 DEF OnVerdict
  <2>2. VKnown(m) \/ Coming(m)
        BY <2>1 DEF YetToAsk, VerdictsCovered
  <2>3. CASE VKnown(m)
        BY <2>1, <2>3, VKnownStays
  <2>4. CASE Coming(m)
    <3>1. m = Head(vstream) \/ \E i \in 1 .. Len(Tail(vstream)) : Tail(vstream)[i] = m
          BY <1>1, <2>1, <2>4, HeadIsFirst DEF VerdictsCovered
    <3>2. CASE m = Head(vstream)
          BY <2>1, <3>2 DEF VKnown
    <3> QED BY <2>1, <3>1, <3>2 DEF Coming
  <2> QED BY <2>2, <2>3, <2>4
<1>6. CASE PublishPacket \/ Subscribe \/ OnPacket \/ UNCHANGED viewerVars
  <2>1. UNCHANGED <<vpublished, vstream, open, backfills>>
        BY <1>6 DEF PublishPacket, Subscribe, OnPacket, viewerVars, serverVars, pageVars
  <2>2. open /\ ~YetToAsk
        BY <2>1 DEF YetToAsk
  <2> QED BY <1>3, <2>1, <2>2
<1>7. CASE EndOfStream \/ NetworkBreaks
      BY <1>7 DEF EndOfStream, NetworkBreaks, StreamOver
<1>8. CASE OnOpen
  <2>1. PICK b \in Slots : backfills' = [backfills EXCEPT ![b] = Asking("packets asked", lastSeq)]
        BY <1>8 DEF OnOpen
  <2>2. backfills'[b] = Asking("packets asked", lastSeq)
        BY <1>2, <2>1
  <2>3. Asking("packets asked", lastSeq).at = "packets asked"
        BY DEF Asking
  <2>4. backfills'[b].at = "packets asked"
        BY <2>2, <2>3, Zenon
  <2> QED BY <2>4 DEF YetToAsk
<1>9. ASSUME NEW b \in Slots, AnswerPackets(b) PROVE FALSE
  <2>1. backfills'[b].at = "packets answered"
        BY <1>2, <1>9 DEF AnswerPackets
  <2> QED BY <2>1 DEF YetToAsk
<1>10. ASSUME NEW b \in Slots, \A c \in Slots : c # b => backfills'[c] = backfills[c],
              backfills[b].at \notin {"packets asked", "packets answered"},
              UNCHANGED <<vpublished, vstream, open>>
       PROVE  VKnown(m)' \/ Coming(m)'
  <2>1. ASSUME NEW c \in Slots, backfills[c].at \in {"packets asked", "packets answered"}
        PROVE  FALSE
    <3>1. c # b
          BY <1>10, <2>1
    <3> QED BY <1>10, <2>1, <3>1 DEF YetToAsk
  <2> QED BY <1>3, <1>10, <2>1 DEF YetToAsk
<1>11. ASSUME NEW b \in Slots, AnswerVerdicts(b) \/ AddVerdicts(b)
       PROVE  VKnown(m)' \/ Coming(m)'
      BY <1>2, <1>10, <1>11 DEF AnswerVerdicts, AddVerdicts, serverVars
<1>12. ASSUME m <= lastVerdictSeq, vpublished' = vpublished PROVE VKnown(m)'
       BY <1>1, <1>12, VKnownStays DEF VerdictsCovered, VReached
<1>13. ASSUME NEW b \in Slots, AddPackets(b) PROVE VKnown(m)'
  <2>1. vpublished' = vpublished /\ backfills'[b] = Asking("verdicts asked", lastVerdictSeq)
        BY <1>2, <1>13 DEF AddPackets, serverVars
  <2>2. /\ Asking("verdicts asked", lastVerdictSeq).at = "verdicts asked"
        /\ Asking("verdicts asked", lastVerdictSeq).from = lastVerdictSeq
        BY DEF Asking
  <2>3. backfills'[b].at = "verdicts asked" /\ backfills'[b].from = lastVerdictSeq
        BY <2>1, <2>2, Zenon
  <2>4. CASE lastVerdictSeq < m
        BY <2>3, <2>4 DEF VKnown, Pending
  <2>5. m <= lastVerdictSeq \/ lastVerdictSeq < m
        BY <1>1
  <2> QED BY <1>12, <2>1, <2>4, <2>5
<1>14. ASSUME NEW b \in Slots, BackfillFails(b) PROVE VKnown(m)' \/ Coming(m)'
  <2>1. UNCHANGED <<vpublished, vstream, open>> /\ backfills' = [backfills EXCEPT ![b] = None]
        BY <1>14 DEF BackfillFails, serverVars
  <2>2. CASE backfills[b].at \in {"packets asked", "packets answered"}
    <3>1. vexcused' = vexcused \cup (lastVerdictSeq + 1 .. vpublished)
          BY <1>14, <2>2 DEF BackfillFails, Forgone, VForgone
    <3>2. CASE lastVerdictSeq < m
      <4>1. m \in lastVerdictSeq + 1 .. vpublished
            BY <1>1, <2>1, <3>2
      <4> QED BY <3>1, <4>1 DEF VKnown
    <3> QED BY <1>1, <1>12, <2>1, <3>2
  <2>3. CASE backfills[b].at \notin {"packets asked", "packets answered"}
        BY <1>2, <1>10, <2>1, <2>3
  <2> QED BY <2>2, <2>3
<1> QED BY <1>4, <1>5, <1>6, <1>7, <1>8, <1>9, <1>11, <1>13, <1>14
        DEF ViewerNext, Backfilling

LEMMA VCoveredStep ==
  ASSUME NEW old \in Nat, Bounded(old), VerdictsCovered, [ViewerNext]_viewerVars
  PROVE  VerdictsCovered'
BY VReachedIsKnown, LiveIsKnown, IncreasingStays DEF VerdictsCovered

LEMMA VCoveredMeans ==
  ASSUME NEW old \in Nat, Bounded(old), VerdictsCovered
  PROVE  VerdictHolesExplained
<1>1. ASSUME NEW m \in 1 .. lastVerdictSeq PROVE VKnown(m)
  <2>1. m \in 1 .. vpublished /\ m <= lastVerdictSeq
        BY DEF Bounded, VerdictsOK
  <2> QED BY <2>1 DEF VerdictsCovered, VReached
<1> QED BY <1>1 DEF VerdictHolesExplained, VKnown

(* The same of verdicts: one below lastVerdictSeq that the page does not   *)
(* have is on its way in a backfill, was out of the engine's backlog when  *)
(* the page asked, was dropped at a full channel, fell to a failed request *)
(* or was overtaken by a live one before the backfill asked                *)
(* (index.html:840, :1346).                                                *)
THEOREM VerdictHolesAreExplained == ViewerSpec => []VerdictHolesExplained
<1>1. ViewerInit => VerdictsCovered
  <2> SUFFICES ASSUME ViewerInit PROVE VerdictsCovered
      OBVIOUS
  <2>1. 1 .. vpublished = {} /\ ~open
        BY DEF ViewerInit
  <2>2. Len(vstream) = 0
        BY DEF ViewerInit
  <2>3. 1 .. Len(vstream) = {}
        BY <2>2
  <2> QED BY <2>1, <2>3 DEF VerdictsCovered, Increasing
<1>2. Bounded(0) /\ VerdictsCovered /\ [ViewerNext]_viewerVars => VerdictsCovered'
      BY VCoveredStep
<1>3. Bounded(0) /\ VerdictsCovered => VerdictHolesExplained
      BY VCoveredMeans
<1>4. Bounded(0) /\ [ViewerNext]_viewerVars => Bounded(0)'
      BY BoundedStep
<1> QED BY BoundedInit, <1>1, <1>2, <1>3, <1>4, PTL DEF ViewerSpec

-----------------------------------------------------------------------------
LEMMA CoveredInit == ViewerInit => PacketsCovered(0) /\ VerdictsCovered
<1> SUFFICES ASSUME ViewerInit PROVE PacketsCovered(0) /\ VerdictsCovered
    OBVIOUS
<1>1. 0 + 1 .. published = {} /\ 1 .. vpublished = {} /\ ~open
      BY DEF ViewerInit, FeedInit
<1>2. Len(vstream) = 0
      BY DEF ViewerInit
<1>3. 1 .. Len(vstream) = {}
      BY <1>2
<1> QED BY <1>1, <1>3 DEF PacketsCovered, VerdictsCovered, Increasing

(* A daemon that is started again. *)
RestartInv ==
  \E old \in Nat : /\ old = carried
                   /\ Bounded(old) /\ PacketsCovered(old) /\ VerdictsCovered

LEMMA MaxIs ==
  ASSUME NEW s \in SUBSET Nat, s # {}, NEW top \in Nat, \A n \in s : n <= top
  PROVE  Max(s) \in Nat /\ \A n \in s : n <= Max(s)
<1>1. s \in SUBSET (0 .. top)
      OBVIOUS
<1>2. PICK m \in s : \A n \in s : n <= m
      BY <1>1, GreatestNatural
<1>3. \A n \in s : m >= n
      BY <1>2
<1>4. Max(s) \in s /\ \A n \in s : Max(s) >= n
      BY <1>3, Zenon DEF Max
<1> QED BY <1>4

(* The page's numbers stay: those of its packets, and of the answers that  *)
(* have come, are the older daemon's now.                                  *)
LEMMA CarriedIs ==
  ASSUME NEW old \in Nat, Bounded(old), NEW late \in SUBSET Slots,
         \A b \in late : backfills[b].at = "packets answered"
  PROVE  LET met == {lastSeq} \cup {backfills[b].to : b \in late}
         IN  Max(met) \in Nat /\ \A n \in met : n <= Max(met)
<1> DEFINE met == {lastSeq} \cup {backfills[b].to : b \in late}
           top == Top(old)
<1>1. top \in Nat /\ lastSeq \in Nat /\ lastSeq <= top
      BY TopIs DEF Bounded, FeedOK, PacketsOK
<1>2. \A b \in late : backfills[b].to \in Nat /\ backfills[b].to <= top
      BY FillIs
<1> HIDE DEF top
<1>3. lastSeq \in met
      OBVIOUS
<1>4. \A n \in met : n \in Nat /\ n <= top
  <2>1. ASSUME NEW n \in met PROVE n \in Nat /\ n <= top
    <3>1. CASE n = lastSeq
          BY <1>1, <3>1
    <3>2. CASE n # lastSeq
      <4>1. PICK b \in late : n = backfills[b].to
            BY <2>1, <3>2
      <4> QED BY <1>2, <4>1
    <3> QED BY <3>1, <3>2
  <2> QED BY <2>1
<1> HIDE DEF met
<1>5. met \in SUBSET Nat /\ met # {}
      BY <1>3, <1>4
<1>6. \A n \in met : n <= top
      BY <1>4
<1>7. Max(met) \in Nat /\ \A n \in met : n <= Max(met)
      BY <1>1, <1>5, <1>6, MaxIs
<1> QED BY <1>7 DEF met

LEMMA RestartKeeps ==
  ASSUME NEW old \in Nat, Bounded(old), VerdictsCovered, Restart
  PROVE  RestartInv'
<1>1. PICK lost \in SUBSET {b \in Slots : backfills[b] # None} :
         LET late == {b \in Slots \ lost : backfills[b].at = "packets answered"} IN
         /\ backfills' = [b \in Slots |-> IF b \in lost THEN None ELSE backfills[b]]
         /\ vexcused' = vexcused \cup UNION {VForgone(b) : b \in lost}
         /\ carried' = Max({lastSeq} \cup {backfills[b].to : b \in late})
         /\ healed' = (healed /\ lost = {})
      BY DEF Restart
<1> DEFINE late == {b \in Slots \ lost : backfills[b].at = "packets answered"}
           met  == {lastSeq} \cup {backfills[b].to : b \in late}
<1>a. Max(met) \in Nat /\ \A n \in met : n <= Max(met)
      BY CarriedIs
<1>b. carried' = Max(met)
      BY <1>1
<1>2. PICK new \in Nat : new = carried' /\ \A n \in met : n <= new
      BY <1>a, <1>b
<1>3. /\ published' = 0 /\ held' = 0 /\ st' = [c \in Conns |-> "none"]
      /\ got' = [c \in Conns |-> 0] /\ due' = [c \in Conns |-> 0]
      /\ vheld' = 0 /\ vstream' = <<>> /\ open' = FALSE /\ seen' = {} /\ excused' = {}
      /\ UNCHANGED <<vpublished, lastSeq, lastVerdictSeq, breaks, failures, vseen>>
      BY DEF Restart, bounds
<1>4. /\ backfills \in [Slots -> Backfill] /\ lastSeq \in Nat /\ lastSeq <= new
      /\ vpublished \in Nat /\ lastVerdictSeq \in Nat /\ lastVerdictSeq <= vpublished
      /\ vseen \subseteq 1 .. vpublished /\ vexcused \subseteq 1 .. vpublished
      /\ healed \in BOOLEAN /\ breaks \in Nat /\ failures \in Nat
      BY <1>2 DEF Bounded, FillsOK, PacketsOK, VerdictsOK, OpenOK, BoundsOK
<1>5. Top(new)' = new
  <2>1. Larger(0, new) = new
        BY DEF Larger
  <2>2. Top(new)' = Larger(published', new)
        BY DEF Top
  <2> QED BY <1>3, <2>1, <2>2, Zenon
<1>6. FeedOK'
      BY <1>3, PageIsConn DEF FeedOK
<1>7. PacketsOK(new)'
      BY <1>3, <1>4, <1>5 DEF PacketsOK
<1>8. \A b \in lost : VForgone(b) \subseteq 1 .. vpublished
  <2>1. lastVerdictSeq + 1 .. vpublished \subseteq 1 .. vpublished
        BY <1>4
  <2> QED BY <2>1 DEF VForgone
<1>9. VerdictsOK'
  <2>1. vexcused' \subseteq 1 .. vpublished
        BY <1>1, <1>4, <1>8
  <2>2. vstream' \in Seq(1 .. vpublished')
        BY <1>3, EmptySeq
  <2> QED BY <1>3, <1>4, <2>1, <2>2 DEF VerdictsOK
<1>10. OpenOK' /\ BoundsOK'
      BY <1>1, <1>3, <1>4 DEF OpenOK, BoundsOK
<1>11. /\ \A b \in lost : backfills'[b] = None
       /\ \A b \in Slots \ lost : backfills'[b] = backfills[b]
       /\ DOMAIN backfills' = Slots
      BY <1>1
<1>12. None \in Backfill /\ None.at = "none"
      BY DEF None, Backfill
<1>13. FillsOK(new)'
  <2>1. backfills' \in [Slots -> Backfill]
        BY <1>1, <1>4, <1>12
  <2>2. ASSUME NEW b \in lost PROVE FillOK(backfills[b], new)'
        BY <1>11, <1>12, <2>2 DEF FillOK, Within
  <2>3. ASSUME NEW b \in Slots \ lost PROVE FillOK(backfills[b], new)'
    <3>1. /\ backfills[b].at = "packets asked" => backfills[b].from <= lastSeq
          /\ backfills[b].at = "packets answered" => backfills[b].from >= 1
          /\ backfills[b].at = "verdicts asked" => backfills[b].from <= lastVerdictSeq
          /\ backfills[b].at = "verdicts answered" =>
               backfills[b].from >= 1 /\ backfills[b].to <= vpublished
          BY FillIs
    <3>2. backfills[b].at = "packets answered" => backfills[b].to <= new
          BY <1>2, <2>3
    <3>3. backfills'[b] = backfills[b] /\ backfills[b] \in Backfill
          BY <1>4, <1>11
    <3> QED BY <1>3, <1>5, <3>1, <3>2, <3>3 DEF FillOK, Within
  <2>4. \A b \in Slots : FillOK(backfills[b], new)'
        BY <2>2, <2>3
  <2> QED BY <2>1, <2>4 DEF FillsOK
<1>14. PacketsCovered(new)'
  <2>1. new + 1 .. 0 = {}
        OBVIOUS
  <2> QED BY <1>3, <2>1 DEF PacketsCovered
<1>15. VerdictsCovered'
  <2>1. ASSUME NEW m \in 1 .. vpublished, VKnown(m) PROVE VKnown(m)'
    <3>1. CASE m \in vseen \cup vexcused
          BY <1>1, <1>3, <3>1 DEF VKnown
    <3>2. ASSUME NEW b \in Slots, Pending(m, b, "verdicts asked", "verdicts answered")
          PROVE  VKnown(m)'
      <4>1. CASE b \in lost
        <5>1. backfills[b].at \in {"verdicts asked", "verdicts answered"}
              BY <3>2 DEF Pending
        <5>2. m \in VForgone(b)
              BY <3>2, <5>1 DEF VForgone
        <5> QED BY <1>1, <4>1, <5>2 DEF VKnown
      <4>2. CASE b \notin lost
            BY <1>11, <3>2, <4>2, PendingStays DEF VKnown
      <4> QED BY <4>1, <4>2
    <3> QED BY <2>1, <3>1, <3>2 DEF VKnown
  <2>2. ASSUME NEW m \in 1 .. vpublished, VReached(m)' PROVE VReached(m)
    <3>1. ASSUME NEW b \in Slots, backfills'[b].at = "verdicts answered", m <= backfills'[b].to
          PROVE  VReached(m)
      <4>1. b \notin lost
            BY <1>11, <1>12, <3>1
      <4> QED BY <1>11, <3>1, <4>1 DEF VReached
    <3> QED BY <1>3, <2>2, <3>1 DEF VReached
  <2>3. ASSUME NEW m \in 1 .. vpublished', VReached(m)' PROVE VKnown(m)'
    <3>1. m \in 1 .. vpublished
          BY <1>3
    <3> QED BY <2>1, <2>2, <2>3, <3>1 DEF VerdictsCovered
  <2>4. Increasing'
    <3>1. Len(vstream') = 0
          BY <1>3
    <3>2. 1 .. Len(vstream') = {}
          BY <3>1
    <3> QED BY <3>2 DEF Increasing
  <2> QED BY <1>3, <2>3, <2>4 DEF VerdictsCovered
<1>16. Bounded(new)'
      BY <1>6, <1>7, <1>9, <1>10, <1>13 DEF Bounded
<1> QED BY <1>2, <1>14, <1>15, <1>16 DEF RestartInv

(* However often the daemon is started again: above what the page had of   *)
(* an older one, no packet is missing that its numbers have passed, but    *)
(* for the reasons that hold without a restart; and no verdict at all is   *)
(* (index.html:1344-1346, pnpd-service.reg).                               *)
THEOREM LossesEndAtARestart == RestartSpec => []LossesEndAtCarried
<1>1. RestartInit => RestartInv
  <2> SUFFICES ASSUME RestartInit PROVE RestartInv
      OBVIOUS
  <2>1. ViewerInit /\ carried = 0 /\ 0 \in Nat
        BY DEF RestartInit
  <2>2. Bounded(0)
        BY <2>1, BoundedInit
  <2>3. PacketsCovered(0) /\ VerdictsCovered
        BY <2>1, CoveredInit
  <2> QED BY <2>1, <2>2, <2>3 DEF RestartInv
<1>2. RestartInv /\ [RestartNext]_restartVars => RestartInv'
  <2> SUFFICES ASSUME RestartInv, [RestartNext]_restartVars PROVE RestartInv'
      OBVIOUS
  <2>1. PICK old \in Nat : old = carried /\ Bounded(old) /\ PacketsCovered(old) /\ VerdictsCovered
        BY DEF RestartInv
  <2>2. CASE [ViewerNext]_viewerVars /\ carried' = carried
    <3>1. Bounded(old)' /\ PacketsCovered(old)' /\ VerdictsCovered'
          BY <2>1, <2>2, BoundedStep, CoveredStep, VCoveredStep
    <3>2. old = carried'
          BY <2>1, <2>2
    <3> QED BY <3>1, <3>2 DEF RestartInv
  <2>3. CASE Restart
        BY <2>1, <2>3, RestartKeeps
  <2>4. Restart \/ ([ViewerNext]_viewerVars /\ carried' = carried)
    <3>1. CASE RestartNext
          BY <3>1 DEF RestartNext, Running
    <3>2. CASE UNCHANGED restartVars
          BY <3>2 DEF restartVars
    <3> QED BY <3>1, <3>2
  <2> QED BY <2>2, <2>3, <2>4
<1>3. RestartInv => LossesEndAtCarried
  <2> SUFFICES ASSUME NEW old \in Nat, old = carried, Bounded(old), PacketsCovered(old),
                      VerdictsCovered
               PROVE  LossesEndAtCarried
      BY DEF RestartInv
  <2>1. lastSeq \in Nat /\ lastSeq <= Top(old) /\ published \in Nat
        BY DEF Bounded, PacketsOK, FeedOK
  <2>2. lastSeq <= Larger(published, carried)
        BY <2>1 DEF Top
  <2>3. ASSUME NEW m \in carried + 1 .. lastSeq PROVE Known(m)
    <3>1. m \in Nat /\ m <= Top(old) /\ m > old /\ m <= lastSeq
          BY <2>1, TopIs
    <3>2. m \in old + 1 .. published
          BY <2>1, <3>1, TopIs
    <3> QED BY <3>1, <3>2 DEF PacketsCovered, Reached
  <2>4. VerdictHolesExplained
        BY VCoveredMeans
  <2> QED BY <2>2, <2>3, <2>4 DEF LossesEndAtCarried, Known
<1> QED BY <1>1, <1>2, <1>3, PTL DEF RestartSpec
=============================================================================
