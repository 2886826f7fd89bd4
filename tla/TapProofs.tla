----------------------------- MODULE TapProofs -----------------------------
(***************************************************************************)
(* What the packet ring guarantees for every backlog size, channel bound   *)
(* and set of connections, and then what the capture thread guarantees for *)
(* every socket buffer besides: it drives the ring as the ring is meant to *)
(* be driven, so every theorem about the ring holds of it, and it keeps    *)
(* the books the status page shows.                                        *)
(***************************************************************************)
EXTENDS Tap, Lemmas

(* Every step keeps the types and never overfills a channel. *)
LEMMA TypeStep == RingTypeOK /\ [RingNext]_ringVars => RingTypeOK'
<1> SUFFICES ASSUME RingTypeOK, [RingNext]_ringVars
             PROVE  RingTypeOK'
    OBVIOUS
<1> USE RingAssumption DEF RingTypeOK
<1>1. CASE Push
  <2>1. Evict(packets) \in Seq(Nat)
        BY DEF Evict, PopFront
  <2>2. packets' \in Seq(Nat) /\ next_seq' \in Nat \ {0}
        BY <1>1, <2>1 DEF Push
  <2>3. chan' \in [Conns -> Seq(Nat)]
        BY <1>1 DEF Push
  <2>4. \A c \in Conns : Len(chan'[c]) <= ChannelCap
        BY <1>1 DEF Push, TrySend
  <2>5. subscribers' \subseteq Conns
        BY <1>1 DEF Push, Retain
  <2> QED BY <1>1, <2>2, <2>3, <2>4, <2>5 DEF Push
<1>2. ASSUME NEW c \in Conns, Subscribe(c) PROVE RingTypeOK'
      BY <1>2 DEF Subscribe
<1>3. ASSUME NEW c \in Conns, Recv(c) PROVE RingTypeOK'
  <2>1. Head(chan[c]) \in Nat /\ Tail(chan[c]) \in Seq(Nat)
        BY <1>3 DEF Recv
  <2>2. Len(Tail(chan[c])) <= ChannelCap
        BY <1>3 DEF Recv
  <2> QED BY <1>3, <2>1, <2>2 DEF Recv
<1>4. ASSUME NEW c \in Conns, EndOfStream(c) PROVE RingTypeOK'
      BY <1>4 DEF EndOfStream
<1>5. ASSUME NEW c \in Conns, HangUp(c) PROVE RingTypeOK'
      BY <1>5 DEF HangUp
<1>6. CASE UNCHANGED ringVars
      BY <1>6 DEF ringVars
<1> QED BY <1>1, <1>2, <1>3, <1>4, <1>5, <1>6 DEF RingNext

(* No channel outgrows its bound and every variable keeps its type         *)
(* (ring.rs:45-53, 106).                                                   *)
THEOREM TypeCorrect == RingSpec => []RingTypeOK
<1>1. RingInit => RingTypeOK
      BY RingAssumption DEF RingInit, RingTypeOK
<1> QED BY <1>1, TypeStep, PTL DEF RingSpec

-----------------------------------------------------------------------------
(* What one step leaves of a gap-free channel. *)
LEMMA GapStep ==
  ASSUME RingTypeOK, NoSilentGap, [RingNext]_ringVars, NEW c \in receivers'
  PROVE  GapFree(c)'
<1> USE RingAssumption DEF RingTypeOK
<1>0. c \in Conns
      BY DEF RingNext, Push, Subscribe, Recv, EndOfStream, HangUp, ringVars
<1>1. CASE Push
  <2>1. c \in receivers /\ GapFree(c)
        BY <1>1 DEF Push, NoSilentGap
  <2>2. CASE c \in subscribers /\ TrySend(c) = "ok"
    <3>1. chan'[c] = Append(chan[c], next_seq) /\ cursor' = cursor
          BY <1>0, <1>1, <2>2 DEF Push
    <3>2. chan[c] \in Seq(Nat) /\ cursor[c] \in Nat
          BY <1>0
    <3>3. Len(chan'[c]) = Len(chan[c]) + 1
          BY <3>1, <3>2
    <3>4. cursor[c] + Len(chan[c]) = next_seq - 1 /\ next_seq' = next_seq + 1
          BY <1>1, <2>1, <2>2 DEF Push, GapFree
    <3>6. next_seq = cursor[c] + (Len(chan[c]) + 1)
      <4>1. next_seq \in Int /\ cursor[c] \in Int /\ Len(chan[c]) \in Int
            BY <3>2
      <4> HIDE RingAssumption DEF RingTypeOK
      <4> QED BY <3>4, <4>1
    <3>5. ASSUME NEW i \in 1 .. Len(chan'[c])
          PROVE  chan'[c][i] = cursor'[c] + i
      <4>1. CASE i = Len(chan[c]) + 1
        <5>1. chan'[c][i] = next_seq
              BY <3>1, <3>2, <4>1
        <5> QED BY <3>1, <3>6, <4>1, <5>1
      <4>2. CASE i \in 1 .. Len(chan[c])
            BY <2>1, <3>1, <3>2, <4>2 DEF GapFree
      <4> QED BY <3>2, <3>3, <3>5, <4>1, <4>2
    <3>7. cursor'[c] + Len(chan'[c]) = next_seq' - 1
      <4>1. next_seq \in Int /\ cursor[c] \in Int /\ Len(chan[c]) \in Int
            BY <3>2
      <4> HIDE RingAssumption DEF RingTypeOK
      <4> QED BY <3>1, <3>3, <3>4, <4>1
    <3> QED BY <3>5, <3>7 DEF GapFree
  <2>3. CASE ~(c \in subscribers /\ TrySend(c) = "ok")
    <3>1. c \notin subscribers' /\ chan'[c] = chan[c] /\ cursor' = cursor
          BY <1>0, <1>1, <2>3 DEF Push, Retain
    <3> QED BY <2>1, <3>1 DEF GapFree
  <2> QED BY <2>2, <2>3
<1>2. ASSUME NEW d \in Conns, Subscribe(d) PROVE GapFree(c)'
  <2>1. CASE c = d
        BY <1>0, <1>2, <2>1 DEF Subscribe, GapFree
  <2>2. CASE c # d
    <3>1. c \in receivers /\ GapFree(c)
          BY <1>2, <2>2 DEF Subscribe, NoSilentGap
    <3> QED BY <1>0, <1>2, <2>2, <3>1 DEF Subscribe, GapFree
  <2> QED BY <2>1, <2>2
<1>3. ASSUME NEW d \in Conns, Recv(d) PROVE GapFree(c)'
  <2>1. c \in receivers /\ GapFree(c)
        BY <1>3 DEF Recv, NoSilentGap
  <2>2. CASE c = d
    <3>1. chan'[c] = Tail(chan[c]) /\ cursor'[c] = Head(chan[c])
          BY <1>0, <1>3, <2>2 DEF Recv
    <3>2. chan[c] \in Seq(Nat) /\ chan[c] # <<>> /\ cursor[c] \in Nat
          BY <1>0, <1>3, <2>2 DEF Recv
    <3>3. Len(chan'[c]) = Len(chan[c]) - 1 /\ cursor'[c] = cursor[c] + 1
          BY <2>1, <3>1, <3>2 DEF GapFree
    <3>4. \A i \in 1 .. Len(chan'[c]) : chan'[c][i] = chan[c][i + 1]
          BY <3>1, <3>2
    <3>5. \A i \in 1 .. Len(chan'[c]) : chan'[c][i] = cursor'[c] + i
          BY <2>1, <3>2, <3>3, <3>4 DEF GapFree
    <3>6. subscribers' = subscribers /\ next_seq' = next_seq
          BY <1>3 DEF Recv
    <3> QED BY <2>1, <3>2, <3>3, <3>5, <3>6 DEF GapFree
  <2>3. CASE c # d
        BY <1>0, <1>3, <2>1, <2>3 DEF Recv, GapFree
  <2> QED BY <2>2, <2>3
<1>4. ASSUME NEW d \in Conns, EndOfStream(d) PROVE GapFree(c)'
      BY <1>4 DEF EndOfStream, NoSilentGap, GapFree
<1>5. ASSUME NEW d \in Conns, HangUp(d) PROVE GapFree(c)'
  <2>1. c \in receivers /\ c # d /\ GapFree(c)
        BY <1>5 DEF HangUp, NoSilentGap
  <2> QED BY <1>0, <1>5, <2>1 DEF HangUp, GapFree
<1>6. CASE UNCHANGED ringVars
      BY <1>6 DEF ringVars, NoSilentGap, GapFree
<1> QED BY <1>1, <1>2, <1>3, <1>4, <1>5, <1>6 DEF RingNext

(* A stream never has a hole it does not know of: a connection that misses *)
(* a packet is one the ring has cut off (ring.rs:81-91).                   *)
THEOREM StreamsHaveNoSilentGap == RingSpec => []NoSilentGap
<1>1. RingInit => NoSilentGap
      BY RingAssumption DEF RingInit, NoSilentGap, RingTypeOK
<1>2. RingTypeOK /\ NoSilentGap /\ [RingNext]_ringVars => NoSilentGap'
      BY GapStep, TypeStep DEF NoSilentGap
<1> QED BY <1>1, <1>2, TypeCorrect, PTL DEF RingSpec

-----------------------------------------------------------------------------
(* Appending to a window of consecutive numbers that ends at n - 1, after  *)
(* eviction, gives the window that ends at n.                              *)
LEMMA WindowSlides ==
  ASSUME Capacity \in Nat \ {0},
         NEW s \in Seq(Nat), NEW n \in Nat \ {0},
         Len(s) = IF n - 1 < Capacity THEN n - 1 ELSE Capacity,
         \A i \in 1 .. Len(s) : s[i] = n - 1 - Len(s) + i
  PROVE  LET t == Append(Evict(s), n)
         IN /\ Len(t) = IF n < Capacity THEN n ELSE Capacity
            /\ \A i \in 1 .. Len(t) : t[i] = n - Len(t) + i
<1> DEFINE t == Append(Evict(s), n)
<1>1. CASE Len(s) = Capacity
  <2>1. s # <<>> /\ Evict(s) = Tail(s)
        BY <1>1 DEF Evict, PopFront
  <2>2. /\ Tail(s) \in Seq(Nat)
        /\ Len(Tail(s)) = Capacity - 1
        /\ \A i \in 1 .. Capacity - 1 : Tail(s)[i] = s[i + 1]
        BY <1>1, <2>1
  <2>3. Len(t) = Capacity /\ t[Capacity] = n
        BY <2>1, <2>2
  <2>4. \A i \in 1 .. Capacity - 1 : t[i] = s[i + 1]
        BY <2>1, <2>2
  <2>5. ASSUME NEW i \in 1 .. Capacity
        PROVE  t[i] = n - Capacity + i
    <3>1. CASE i = Capacity
          BY <2>3, <3>1
    <3>2. CASE i \in 1 .. Capacity - 1
      <4>1. t[i] = s[i + 1] /\ i + 1 \in 1 .. Len(s)
            BY <1>1, <2>4, <3>2
      <4>2. s[i + 1] = n - 1 - Capacity + (i + 1)
            BY <1>1, <4>1
      <4> HIDE DEF t
      <4> QED BY <4>1, <4>2
    <3> HIDE DEF t
    <3> QED BY <3>1, <3>2
  <2>6. ~(n < Capacity)
        BY <1>1
  <2> HIDE DEF t
  <2>7. /\ Len(t) = IF n < Capacity THEN n ELSE Capacity
        /\ \A i \in 1 .. Len(t) : t[i] = n - Len(t) + i
        BY <2>3, <2>5, <2>6
  <2> QED BY <2>7 DEF t
<1>2. CASE Len(s) # Capacity
  <2>1. Evict(s) = s /\ Len(s) = n - 1 /\ n <= Capacity
        BY <1>2 DEF Evict
  <2>2. Len(t) = n /\ t[n] = n
        BY <2>1
  <2>3. ASSUME NEW i \in 1 .. n - 1
        PROVE  t[i] = i
    <3>1. t[i] = s[i] /\ i \in 1 .. Len(s)
          BY <2>1
    <3>2. s[i] = n - 1 - (n - 1) + i
          BY <2>1, <3>1
    <3> HIDE DEF t
    <3> QED BY <3>1, <3>2
  <2> HIDE DEF t
  <2>4. \A i \in 1 .. n : t[i] = n - n + i
        BY <2>2, <2>3
  <2>5. Len(t) = IF n < Capacity THEN n ELSE Capacity
        BY <2>1, <2>2
  <2> QED BY <2>2, <2>4, <2>5 DEF t
<1> QED BY <1>1, <1>2

(* With room for at least one packet the backlog is the newest packets     *)
(* without a hole, as many as fit (ring.rs:72-80).                         *)
THEOREM BacklogExact == ASSUME Capacity # 0 PROVE RingSpec => []HistoryExact
<1>1. RingInit => HistoryExact
      BY RingAssumption DEF RingInit, HistoryExact
<1>2. RingTypeOK /\ HistoryExact /\ [RingNext]_ringVars => HistoryExact'
  <2> SUFFICES ASSUME RingTypeOK, HistoryExact, [RingNext]_ringVars
               PROVE  HistoryExact'
      OBVIOUS
  <2>1. CASE Push
    <3>1. packets' = Append(Evict(packets), next_seq) /\ next_seq' - 1 = next_seq
          BY <2>1 DEF Push, RingTypeOK
    <3>2. /\ Len(packets') = IF next_seq < Capacity THEN next_seq ELSE Capacity
          /\ \A i \in 1 .. Len(packets') : packets'[i] = next_seq - Len(packets') + i
          BY <3>1, WindowSlides, RingAssumption DEF HistoryExact, RingTypeOK
    <3> QED BY <3>1, <3>2 DEF HistoryExact
  <2>2. CASE UNCHANGED <<packets, next_seq>>
        BY <2>2 DEF HistoryExact
  <2> QED BY <2>1, <2>2 DEF RingNext, Subscribe, Recv, EndOfStream, HangUp, ringVars
<1> QED BY <1>1, <1>2, TypeCorrect, PTL DEF RingSpec

(* What an answer leaves out below its first number is what the backlog    *)
(* has let go of: asking for history by number shows every gap             *)
(* (ring.rs:1-4, 94-103).                                                  *)
THEOREM AnswersShowGaps == ASSUME Capacity # 0 PROVE RingSpec => []GapVisible
<1>1. RingTypeOK /\ HistoryExact => GapVisible
  <2> SUFFICES ASSUME RingTypeOK, HistoryExact, NEW s \in 0 .. next_seq - 1
               PROVE  LET answer == Since(s)
                          n      == Len(answer)
                      IN /\ \A i \in 1 .. n : answer[i] = next_seq - 1 - n + i
                         /\ \/ n = next_seq - 1 - s
                            \/ n < next_seq - 1 - s /\ n = Len(packets) /\ n > 0
      BY DEF GapVisible
  <2> DEFINE last == next_seq - 1
             L    == Len(packets)
             k    == IF last - s < L THEN L - (last - s) ELSE 0
             T    == {p \in Nat : p > s}
  <2>1. /\ packets \in Seq(Nat) /\ L \in Nat /\ last \in Nat /\ s \in Nat
        /\ L = IF last < Capacity THEN last ELSE Capacity
        /\ \A i \in 1 .. L : packets[i] = last - L + i
        BY RingAssumption DEF RingTypeOK, HistoryExact
  <2>2. k \in 0 .. L /\ k \in Nat
        BY <2>1
  <2>3. ASSUME NEW i \in 1 .. L PROVE packets[i] \in T <=> i > k
    <3>1. packets[i] = last - L + i /\ L <= last
          BY <2>1, RingAssumption
    <3>2. packets[i] \in T <=> last - L + i > s
          BY <2>1, <3>1
    <3>3. last - L + i > s <=> i > k
          BY <2>1, <3>1
    <3> QED BY <3>2, <3>3
  <2>4. Since(s) = SubSeq(packets, k + 1, L)
    <3> HIDE DEF T, k
    <3> QED BY <2>1, <2>2, <2>3, FilteredEnd DEF Since, T
  <2>5. /\ Len(Since(s)) = L - k
        /\ \A i \in 1 .. L - k : Since(s)[i] = packets[k + i]
    <3> HIDE DEF k
    <3> QED BY <2>1, <2>2, <2>4
  <2>6. ASSUME NEW i \in 1 .. L - k PROVE Since(s)[i] = last - (L - k) + i
    <3>1. k + i \in 1 .. L
          BY <2>1, <2>2
    <3>2. packets[k + i] = last - L + (k + i)
          BY <2>1, <3>1
    <3> HIDE DEF k
    <3> QED BY <2>1, <2>2, <2>5, <3>2
  <2>7. \/ L - k = last - s
        \/ L - k < last - s /\ L - k = L /\ L - k > 0
    <3>1. CASE last - s < L
          BY <2>1, <3>1
    <3>2. CASE ~(last - s < L)
          BY <2>1, <3>2, RingAssumption
    <3> QED BY <3>1, <3>2
  <2> HIDE DEF k, L
  <2> QED BY <2>5, <2>6, <2>7 DEF L
<1> QED BY <1>1, TypeCorrect, BacklogExact, PTL

-----------------------------------------------------------------------------
(* A push lets go of every sender whose receiver is gone (ring.rs:84-91).  *)
THEOREM PushLetsGo == RingSpec => PushPrunes
<1>1. RingTypeOK /\ [RingNext]_ringVars
        => [next_seq' # next_seq => subscribers' \subseteq receivers]_ringVars
      BY DEF RingNext, Push, Retain, TrySend, Subscribe, Recv, EndOfStream,
             HangUp
<1> QED BY <1>1, TypeCorrect, PTL DEF RingSpec, PushPrunes
-----------------------------------------------------------------------------
(* No connection, alive or gone, has or is owed a packet from the future. *)
NoneAhead ==
  \A c \in Conns : /\ cursor[c] <= next_seq - 1
                   /\ \A i \in 1 .. Len(chan[c]) : chan[c][i] <= next_seq - 1

(* A number is handed to clients only after next_seq has passed it         *)
(* (ring.rs:74-75, 86).                                                    *)
THEOREM NumbersAreAssigned == RingSpec => []NoneAhead
<1>1. RingInit => NoneAhead
      BY DEF RingInit, NoneAhead
<1>2. RingTypeOK /\ NoneAhead /\ [RingNext]_ringVars => NoneAhead'
  <2> SUFFICES ASSUME RingTypeOK, NoneAhead, [RingNext]_ringVars,
                      NEW c \in Conns
               PROVE  /\ cursor'[c] <= next_seq' - 1
                      /\ \A i \in 1 .. Len(chan'[c]) : chan'[c][i] <= next_seq' - 1
      BY DEF NoneAhead
  <2>0. /\ chan[c] \in Seq(Nat) /\ cursor[c] \in Int /\ next_seq \in Int
        /\ cursor[c] <= next_seq - 1
        /\ \A i \in 1 .. Len(chan[c]) : chan[c][i] \in Int /\ chan[c][i] <= next_seq - 1
        BY DEF RingTypeOK, NoneAhead
  <2>1. CASE Push
    <3>1. cursor'[c] = cursor[c] /\ next_seq' = next_seq + 1
          BY <2>1 DEF Push
    <3>2. chan'[c] = chan[c] \/ chan'[c] = Append(chan[c], next_seq)
          BY <2>1 DEF Push
    <3>3. ASSUME NEW i \in 1 .. Len(chan'[c])
          PROVE  chan'[c][i] <= next_seq' - 1
      <4>1. \/ i \in 1 .. Len(chan[c]) /\ chan'[c][i] = chan[c][i]
            \/ chan'[c][i] = next_seq
        <5>1. CASE chan'[c] = chan[c]
              BY <5>1
        <5>2. CASE chan'[c] = Append(chan[c], next_seq)
          <6>1. chan[c] \in Seq(Int)
                BY DEF RingTypeOK
          <6>2. i \in 1 .. Len(chan[c]) \/ i = Len(chan[c]) + 1
                BY <5>2, <6>1
          <6> QED BY <5>2, <6>1, <6>2
        <5> QED BY <3>2, <5>1, <5>2
      <4> QED BY <2>0, <3>1, <4>1
    <3> QED BY <2>0, <3>1, <3>3
  <2>2. ASSUME NEW d \in Conns, Subscribe(d)
        PROVE  /\ cursor'[c] <= next_seq' - 1
               /\ \A i \in 1 .. Len(chan'[c]) : chan'[c][i] <= next_seq' - 1
    <3>1. CASE c = d
      <4>1. cursor'[c] = next_seq - 1 /\ chan'[c] = <<>> /\ next_seq' = next_seq
            BY <2>2, <3>1 DEF Subscribe, RingTypeOK
      <4> QED BY <2>0, <4>1
    <3>2. CASE c # d
          BY <2>0, <2>2, <3>2 DEF Subscribe, RingTypeOK
    <3> QED BY <3>1, <3>2
  <2>3. ASSUME NEW d \in Conns, Recv(d)
        PROVE  /\ cursor'[c] <= next_seq' - 1
               /\ \A i \in 1 .. Len(chan'[c]) : chan'[c][i] <= next_seq' - 1
    <3>1. CASE c = d
      <4>1. /\ cursor'[c] = Head(chan[c]) /\ chan'[c] = Tail(chan[c])
            /\ chan[c] # <<>> /\ next_seq' = next_seq
            BY <2>3, <3>1 DEF Recv, RingTypeOK
      <4>2. cursor'[c] = chan[c][1] /\ 1 \in 1 .. Len(chan[c])
            BY <2>0, <4>1
      <4>3. \A i \in 1 .. Len(chan'[c]) : i + 1 \in 1 .. Len(chan[c])
                                           /\ chan'[c][i] = chan[c][i + 1]
            BY <2>0, <4>1
      <4> QED BY <2>0, <4>1, <4>2, <4>3
    <3>2. CASE c # d
          BY <2>0, <2>3, <3>2 DEF Recv, RingTypeOK
    <3> QED BY <3>1, <3>2
  <2>4. ASSUME NEW d \in Conns, EndOfStream(d) \/ HangUp(d)
        PROVE  /\ cursor'[c] <= next_seq' - 1
               /\ \A i \in 1 .. Len(chan'[c]) : chan'[c][i] <= next_seq' - 1
    <3>1. /\ cursor' = cursor /\ next_seq' = next_seq
          /\ chan'[c] = chan[c] \/ chan'[c] = <<>>
          BY <2>4 DEF EndOfStream, HangUp, RingTypeOK
    <3> QED BY <2>0, <3>1
  <2>5. CASE UNCHANGED ringVars
        BY <2>0, <2>5 DEF ringVars
  <2> QED BY <2>1, <2>2, <2>3, <2>4, <2>5 DEF RingNext
<1> QED BY <1>1, <1>2, TypeCorrect, PTL DEF RingSpec

-----------------------------------------------------------------------------
(* The ring implements the feed, step by step. *)

LEMMA PushPublishes ==
  ASSUME RingTypeOK, NoSilentGap, HistoryExact, HistoryExact', Push
  PROVE  FeedOf!Publish
<1> USE RingAssumption DEF RingTypeOK
<1> DEFINE cut == {c \in receivers \cap subscribers : TrySend(c) # "ok"}
<1>1. cut \in SUBSET {c \in Conns : statusOf[c] = "live"}
      BY DEF statusOf
<1>2. next_seq' - 1 = (next_seq - 1) + 1
      BY DEF Push
<1>3. Len(packets') = IF Len(packets) < Capacity THEN Len(packets) + 1
                                                 ELSE Len(packets)
  <2>1. next_seq' = next_seq + 1
        BY DEF Push
  <2> QED BY <2>1 DEF HistoryExact
<1>4. statusOf' = [c \in Conns |-> IF c \in cut THEN "cut" ELSE statusOf[c]]
      BY DEF Push, Retain, statusOf, TrySend
<1>5. dueOf' = [c \in Conns |-> IF statusOf[c] = "live" /\ c \notin cut
                                  THEN (next_seq - 1) + 1 ELSE dueOf[c]]
  <2> SUFFICES ASSUME NEW c \in Conns
               PROVE  cursor'[c] + Len(chan'[c]) =
                        IF statusOf[c] = "live" /\ c \notin cut
                          THEN (next_seq - 1) + 1 ELSE dueOf[c]
      BY DEF dueOf
  <2>1. CASE c \in subscribers /\ TrySend(c) = "ok"
    <3>1. c \in receivers /\ statusOf[c] = "live" /\ c \notin cut
          BY <2>1 DEF TrySend, statusOf
    <3>2. chan'[c] = Append(chan[c], next_seq) /\ cursor' = cursor
          BY <2>1 DEF Push
    <3>3. Len(chan'[c]) = Len(chan[c]) + 1
          BY <3>2
    <3>4. cursor[c] + Len(chan[c]) = next_seq - 1
          BY <2>1, <3>1 DEF NoSilentGap, GapFree
    <3>5. cursor[c] \in Int /\ Len(chan[c]) \in Int /\ next_seq \in Int
          OBVIOUS
    <3> HIDE RingAssumption DEF RingTypeOK, cut
    <3> QED BY <3>1, <3>2, <3>3, <3>4, <3>5
  <2>2. CASE ~(c \in subscribers /\ TrySend(c) = "ok")
    <3>1. ~(statusOf[c] = "live" /\ c \notin cut)
          BY <2>2 DEF statusOf
    <3>2. chan'[c] = chan[c] /\ cursor' = cursor
          BY <2>2 DEF Push
    <3> QED BY <3>1, <3>2 DEF dueOf
  <2> QED BY <2>1, <2>2
<1>6. cursor' = cursor
      BY DEF Push
<1> HIDE DEF cut
<1> QED BY <1>1, <1>2, <1>3, <1>4, <1>5, <1>6 DEF FeedOf!Publish

LEMMA SubscribeJoins ==
  ASSUME RingTypeOK, NEW c \in Conns, Subscribe(c)
  PROVE  FeedOf!Join(c)
<1> USE DEF RingTypeOK, Subscribe
<1>1. statusOf[c] = "none" /\ statusOf' = [statusOf EXCEPT ![c] = "live"]
      BY DEF statusOf
<1>2. cursor' = [cursor EXCEPT ![c] = next_seq - 1]
      OBVIOUS
<1>3. dueOf' = [dueOf EXCEPT ![c] = next_seq - 1]
  <2> SUFFICES ASSUME NEW d \in Conns
               PROVE  cursor'[d] + Len(chan'[d]) =
                        IF d = c THEN next_seq - 1 ELSE cursor[d] + Len(chan[d])
      BY DEF dueOf
  <2> QED OBVIOUS
<1>4. packets' = packets /\ next_seq' = next_seq
      OBVIOUS
<1> QED BY <1>1, <1>2, <1>3, <1>4 DEF FeedOf!Join

LEMMA RecvDelivers ==
  ASSUME RingTypeOK, NoSilentGap, NEW c \in Conns, Recv(c)
  PROVE  FeedOf!Deliver(c)
<1> USE DEF RingTypeOK
<1>1. c \in receivers /\ chan[c] \in Seq(Nat) /\ chan[c] # <<>> /\ cursor[c] \in Nat
      BY DEF Recv
<1>2. Head(chan[c]) = cursor[c] + 1 /\ Len(Tail(chan[c])) = Len(chan[c]) - 1
      BY <1>1 DEF NoSilentGap, GapFree
<1>3. statusOf[c] # "none" /\ statusOf' = statusOf
      BY <1>1 DEF Recv, statusOf
<1>4. cursor[c] < dueOf[c]
      BY <1>1 DEF dueOf
<1>5. cursor' = [cursor EXCEPT ![c] = @ + 1]
      BY <1>2 DEF Recv
<1>6. dueOf' = dueOf
  <2> SUFFICES ASSUME NEW d \in Conns
               PROVE  cursor'[d] + Len(chan'[d]) = cursor[d] + Len(chan[d])
      BY DEF dueOf
  <2>1. CASE d = c
    <3>1. cursor'[d] = cursor[c] + 1 /\ Len(chan'[d]) = Len(chan[c]) - 1
          BY <1>2, <2>1 DEF Recv
    <3> QED BY <1>1, <2>1, <3>1
  <2>2. CASE d # c
        BY <2>2 DEF Recv
  <2> QED BY <2>1, <2>2
<1>7. packets' = packets /\ next_seq' = next_seq
      BY DEF Recv
<1> QED BY <1>3, <1>4, <1>5, <1>6, <1>7 DEF FeedOf!Deliver

LEMMA EndingLeaves ==
  ASSUME RingTypeOK, NEW c \in Conns, EndOfStream(c) \/ HangUp(c)
  PROVE  FeedOf!Leave(c)
<1> USE DEF RingTypeOK, EndOfStream, HangUp
<1>1. statusOf[c] # "none" /\ statusOf' = [statusOf EXCEPT ![c] = "none"]
      BY DEF statusOf
<1>2. dueOf' = [dueOf EXCEPT ![c] = cursor[c]]
  <2> SUFFICES ASSUME NEW d \in Conns
               PROVE  cursor'[d] + Len(chan'[d]) =
                        IF d = c THEN cursor[c] ELSE cursor[d] + Len(chan[d])
      BY DEF dueOf
  <2>1. chan'[c] = <<>> /\ cursor' = cursor /\ (d # c => chan'[d] = chan[d])
        OBVIOUS
  <2> QED BY <2>1
<1>3. packets' = packets /\ next_seq' = next_seq /\ cursor' = cursor
      OBVIOUS
<1> QED BY <1>1, <1>2, <1>3 DEF FeedOf!Leave

(* The ring and its channels, with every cut-off and every disconnection,  *)
(* are what the feed promises and nothing else (ring.rs:72-109).           *)
THEOREM RingImplementsFeed ==
  ASSUME Capacity # 0 PROVE RingSpec => ImplementsFeed
<1>1. RingInit => FeedOf!FeedInit
      BY RingAssumption DEF RingInit, FeedOf!FeedInit, statusOf, dueOf
<1>2. RingTypeOK /\ NoSilentGap /\ HistoryExact /\ HistoryExact' /\ [RingNext]_ringVars
        => [FeedOf!FeedNext]_(FeedOf!feedVars)
  <2> SUFFICES ASSUME RingTypeOK, NoSilentGap, HistoryExact, HistoryExact',
                      [RingNext]_ringVars
               PROVE  FeedOf!FeedNext \/ UNCHANGED FeedOf!feedVars
      OBVIOUS
  <2>1. CASE Push
        BY <2>1, PushPublishes DEF FeedOf!FeedNext
  <2>2. ASSUME NEW c \in Conns, Subscribe(c)
        PROVE  FeedOf!FeedNext
        BY <2>2, SubscribeJoins DEF FeedOf!FeedNext
  <2>3. ASSUME NEW c \in Conns, Recv(c)
        PROVE  FeedOf!FeedNext
        BY <2>3, RecvDelivers DEF FeedOf!FeedNext
  <2>4. ASSUME NEW c \in Conns, EndOfStream(c) \/ HangUp(c)
        PROVE  FeedOf!FeedNext
        BY <2>4, EndingLeaves DEF FeedOf!FeedNext
  <2>5. CASE UNCHANGED ringVars
        BY <2>5 DEF ringVars, FeedOf!feedVars, statusOf, dueOf
  <2> QED BY <2>1, <2>2, <2>3, <2>4, <2>5 DEF RingNext
<1> QED BY <1>1, <1>2, TypeCorrect, StreamsHaveNoSilentGap, BacklogExact, PTL
        DEF RingSpec, ImplementsFeed, FeedOf!FeedSpec

-----------------------------------------------------------------------------
(* The capture thread and its clients only ever do to the ring what        *)
(* PacketRing has the ring do (capture.rs:141, http.rs:213, 234-248).      *)
THEOREM TapDrivesRing == TapSpec => RingSpec
<1>1. TapInit => RingInit
      BY DEF TapInit
<1>2. [TapNext]_tapVars => [RingNext]_ringVars
  <2> SUFFICES ASSUME [TapNext]_tapVars
               PROVE  RingNext \/ UNCHANGED ringVars
      OBVIOUS
  <2>1. CASE \E f \in Frames : Arrive(f)
        BY <2>1 DEF Arrive
  <2>2. CASE CaptureThread
        BY <2>2 DEF CaptureThread, Recvfrom, Harvest, Classify, Publish, RingNext
  <2>3. CASE Client
        BY <2>3 DEF Client, RingNext
  <2>4. CASE UNCHANGED tapVars
        BY <2>4 DEF tapVars
  <2> QED BY <2>1, <2>2, <2>3, <2>4 DEF TapNext
<1> QED BY <1>1, <1>2, PTL DEF TapSpec, RingSpec

-----------------------------------------------------------------------------
LEMMA EntryFields == \A e \in Entry : e.frame \in Frames /\ e.gap \in Int
BY DEF Entry

LEMMA TapTypeStep ==
  RingTypeOK /\ TapTypeOK /\ [TapNext]_tapVars => TapTypeOK'
<1> SUFFICES ASSUME RingTypeOK, TapTypeOK, [TapNext]_tapVars
             PROVE  TapTypeOK'
    OBVIOUS
<1> USE TapAssumption DEF TapTypeOK
<1>1. ASSUME NEW f \in Frames, Arrive(f)
      PROVE  TapTypeOK'
  <2> DEFINE e == [frame |-> f, gap |-> lost]
  <2>1. e \in Entry
        BY DEF Entry
  <2>2. CASE Len(sockbuf) < KBuf
    <3>1. sockbuf' = Append(sockbuf, e)
          BY <1>1, <2>2 DEF Arrive
    <3>2. sockbuf' \in Seq(Entry) /\ Len(sockbuf') <= KBuf
      <4>1. sockbuf \in Seq(Entry) /\ Len(sockbuf) \in Nat
            BY LenProperties
      <4> HIDE DEF e
      <4>2. sockbuf' \in Seq(Entry) /\ Len(sockbuf') = Len(sockbuf) + 1
            BY <2>1, <3>1, <4>1, AppendProperties
      <4> QED BY <2>2, <4>1, <4>2
    <3> QED BY <1>1, <2>2, <3>2 DEF Arrive, threadVars, ringVars
  <2>3. CASE ~(Len(sockbuf) < KBuf)
    <3>1. /\ kdrops' = kdrops + 1 /\ lost' = lost + 1 /\ arrived' = arrived + 1
          /\ UNCHANGED <<sockbuf, pc, hand, captured, dropped, suppressed, published, next_seq>>
          BY <1>1, <2>3 DEF Arrive, threadVars, ringVars
    <3>2. {kdrops', captured', dropped', suppressed', arrived', lost'} \subseteq Nat
          BY <3>1
    <3> QED BY <3>1, <3>2
  <2> QED BY <2>2, <2>3
<1>2. CASE Recvfrom
  <2>1. sockbuf \in Seq(Entry) /\ sockbuf # <<>>
        BY <1>2 DEF Recvfrom
  <2>2. Head(sockbuf) \in Entry /\ Tail(sockbuf) \in Seq(Entry)
        /\ Len(Tail(sockbuf)) = Len(sockbuf) - 1
        BY <2>1
  <2>3. hand' \in Seq(Entry) /\ Len(hand') = 1
        BY <1>2, <2>2 DEF Recvfrom
  <2> QED BY <1>2, <2>2, <2>3 DEF Recvfrom, ringVars
<1>3. CASE Harvest
      BY <1>3 DEF Harvest, ringVars
<1>4. CASE Classify
  <2>1. /\ UNCHANGED <<sockbuf, kdrops, dropped, arrived, lost, published>>
        /\ next_seq' = next_seq
        BY <1>4 DEF Classify, ringVars
  <2>2. CASE hand[1].frame \in OwnFlows
    <3>1. suppressed' \in Nat /\ captured' \in Nat /\ pc' = "recv" /\ hand' = <<>>
          BY <1>4, <2>2 DEF Classify
    <3>2. hand' \in Seq(Entry) /\ Len(hand') = 0
          BY <3>1
    <3> QED BY <2>1, <3>1, <3>2
  <2>3. CASE hand[1].frame \notin OwnFlows
    <3>1. /\ suppressed' \in Nat /\ captured' \in Nat
          /\ pc = "classify" /\ pc' = "push" /\ hand' = hand
          BY <1>4, <2>3 DEF Classify
    <3> QED BY <2>1, <3>1
  <2> QED BY <2>2, <2>3
<1>5. CASE Publish
  <2>1. Len(hand) = 1 /\ hand \in Seq(Entry)
        BY <1>5 DEF Publish
  <2>5. hand[1] \in Entry
    <3> HIDE TapAssumption DEF TapTypeOK
    <3> QED BY <2>1
  <2>2. published' \in Seq(Entry) /\ Len(published') = Len(published) + 1
        BY <1>5, <2>5 DEF Publish
  <2>3. next_seq \in Int /\ next_seq' = next_seq + 1
        BY <1>5 DEF Publish, Push, RingTypeOK
  <2>4. Len(published') = next_seq' - 1
        BY <2>2, <2>3
  <2> QED BY <1>5, <2>2, <2>4 DEF Publish
<1>6. CASE Client
  <2>1. next_seq' = next_seq
        BY <1>6 DEF Client, Subscribe, Recv, EndOfStream, HangUp
  <2> QED BY <1>6, <2>1 DEF Client, threadVars
<1>7. CASE UNCHANGED tapVars
      BY <1>7 DEF tapVars, threadVars, ringVars
<1> QED BY <1>1, <1>2, <1>3, <1>4, <1>5, <1>6, <1>7 DEF TapNext, CaptureThread

(* The thread has a frame in hand exactly from recvfrom to the end of its  *)
(* loop, and one history entry per packet (capture.rs:91-151).             *)
THEOREM TapTypeCorrect == TapSpec => []TapTypeOK
<1>1. TapInit => TapTypeOK
      BY TapAssumption DEF TapInit, RingInit, TapTypeOK
<1>2. RingSpec => []RingTypeOK
      BY TypeCorrect
<1> QED BY <1>1, <1>2, TapTypeStep, TapDrivesRing, PTL DEF TapSpec

-----------------------------------------------------------------------------
LEMMA AccountStep ==
  TapTypeOK /\ FramesAccounted /\ [TapNext]_tapVars => FramesAccounted'
<1> SUFFICES ASSUME TapTypeOK, FramesAccounted, [TapNext]_tapVars
             PROVE  FramesAccounted'
    OBVIOUS
<1>0. /\ kdrops \in Int /\ dropped \in Int /\ suppressed \in Int
      /\ captured \in Int /\ arrived \in Int /\ lost \in Int
      /\ Len(sockbuf) \in Int
      BY DEF TapTypeOK
<1> USE DEF TapTypeOK, FramesAccounted
<1>1. ASSUME NEW f \in Frames, Arrive(f)
      PROVE  FramesAccounted'
  <2>1. CASE Len(sockbuf) < KBuf
    <3>1. Len(sockbuf') = Len(sockbuf) + 1
          BY <1>1, <2>1 DEF Arrive
    <3>2. /\ arrived' = arrived + 1
          /\ UNCHANGED <<kdrops, lost, pc, captured, dropped, suppressed>>
          BY <1>1, <2>1 DEF Arrive, threadVars
    <3> HIDE DEF TapTypeOK
    <3> QED BY <1>0, <3>1, <3>2
  <2>2. CASE ~(Len(sockbuf) < KBuf)
    <3>1. /\ kdrops' = kdrops + 1 /\ lost' = lost + 1 /\ arrived' = arrived + 1
          /\ UNCHANGED <<sockbuf, pc, captured, dropped, suppressed>>
          BY <1>1, <2>2 DEF Arrive, threadVars
    <3> HIDE DEF TapTypeOK
    <3> QED BY <1>0, <3>1
  <2> QED BY <2>1, <2>2
<1>2. CASE Recvfrom
  <2>1. Len(sockbuf') = Len(sockbuf) - 1
        BY <1>2 DEF Recvfrom
  <2>2. /\ pc = "recv" /\ pc' = "harvest"
        /\ UNCHANGED <<kdrops, captured, dropped, suppressed, arrived, lost>>
        BY <1>2 DEF Recvfrom
  <2> HIDE DEF TapTypeOK
  <2> QED BY <1>0, <2>1, <2>2
<1>3. CASE Harvest
  <2>1. /\ pc = "harvest" /\ pc' = "classify"
        /\ dropped' = dropped + kdrops /\ kdrops' = 0
        /\ UNCHANGED <<sockbuf, captured, suppressed, arrived, lost>>
        BY <1>3 DEF Harvest
  <2> HIDE DEF TapTypeOK
  <2> QED BY <1>0, <2>1
<1>4. CASE Classify
  <2>1. /\ pc = "classify"
        /\ UNCHANGED <<sockbuf, kdrops, dropped, arrived, lost>>
        BY <1>4 DEF Classify
  <2>2. \/ pc' = "recv" /\ suppressed' = suppressed + 1 /\ captured' = captured
        \/ pc' = "push" /\ captured' = captured + 1 /\ suppressed' = suppressed
        BY <1>4 DEF Classify
  <2> HIDE DEF TapTypeOK
  <2> QED BY <1>0, <2>1, <2>2
<1>5. CASE Publish
      BY <1>5 DEF Publish
<1>6. CASE Client
      BY <1>6 DEF Client, threadVars
<1>7. CASE UNCHANGED tapVars
      BY <1>7 DEF tapVars, threadVars
<1> QED BY <1>1, <1>2, <1>3, <1>4, <1>5, <1>6, <1>7 DEF TapNext, CaptureThread

(* Every frame that arrived is queued, in hand, captured, suppressed, or   *)
(* among the drops that are or will be confessed (capture.rs:33-39).       *)
THEOREM EveryFrameAccounted == TapSpec => []FramesAccounted
<1>1. TapInit => FramesAccounted
      BY DEF TapInit, FramesAccounted
<1> QED BY <1>1, AccountStep, TapTypeCorrect, PTL DEF TapSpec

-----------------------------------------------------------------------------
(* Why a published packet's gap is confessed: no frame is queued with a    *)
(* gap larger than what is lost, and once its harvest is over the frame in *)
(* hand has its gap within what is confessed.                              *)
GapInv ==
  /\ \A i \in 1 .. Len(sockbuf) : sockbuf[i].gap <= lost
  /\ pc = "harvest" => hand[1].gap <= lost
  /\ pc \in {"classify", "push"} => hand[1].gap <= dropped
  /\ GapsConfessed

LEMMA GapInvStep ==
  TapTypeOK /\ FramesAccounted /\ GapInv /\ [TapNext]_tapVars => GapInv'
<1> SUFFICES ASSUME TapTypeOK, FramesAccounted, GapInv, [TapNext]_tapVars
             PROVE  GapInv'
    OBVIOUS
<1> USE DEF TapTypeOK, GapInv, GapsConfessed
<1>0. /\ \A i \in 1 .. Len(sockbuf) : sockbuf[i].gap \in Int
      /\ \A i \in 1 .. Len(hand) : hand[i].gap \in Int
      /\ \A s \in 1 .. Len(published) : published[s].gap \in Int
      /\ lost \in Int
      /\ lost = kdrops + dropped /\ kdrops \in Nat /\ dropped \in Nat
  <2>1. sockbuf \in Seq(Entry) /\ hand \in Seq(Entry) /\ published \in Seq(Entry)
        OBVIOUS
  <2>2. /\ lost \in Int
        /\ lost = kdrops + dropped /\ kdrops \in Nat /\ dropped \in Nat
        BY DEF FramesAccounted
  <2> HIDE DEF TapTypeOK, GapInv, GapsConfessed
  <2> QED BY <2>1, <2>2, EntryFields
<1>1. ASSUME NEW f \in Frames, Arrive(f)
      PROVE  GapInv'
  <2>1. CASE Len(sockbuf) < KBuf
    <3>1. sockbuf' = Append(sockbuf, [frame |-> f, gap |-> lost]) /\ lost' = lost
          BY <1>1, <2>1 DEF Arrive, threadVars
    <3>2. ASSUME NEW i \in 1 .. Len(sockbuf')
          PROVE  sockbuf'[i].gap <= lost'
      <4>1. CASE i = Len(sockbuf) + 1
            BY <1>0, <3>1, <4>1
      <4>2. CASE i \in 1 .. Len(sockbuf)
            BY <3>1, <4>2
      <4> QED BY <3>1, <4>1, <4>2
    <3> QED BY <1>1, <3>1, <3>2 DEF Arrive, threadVars
  <2>2. CASE ~(Len(sockbuf) < KBuf)
    <3>1. sockbuf' = sockbuf /\ lost' = lost + 1
          BY <1>1, <2>2 DEF Arrive, threadVars
    <3>2. UNCHANGED <<threadVars, published>>
          BY <1>1 DEF Arrive
    <3> QED BY <1>0, <3>1, <3>2 DEF threadVars
  <2> QED BY <2>1, <2>2
<1>2. CASE Recvfrom
  <2>1. /\ sockbuf # <<>> /\ sockbuf' = Tail(sockbuf) /\ lost' = lost
        /\ hand' = <<Head(sockbuf)>> /\ pc' = "harvest"
        /\ UNCHANGED <<dropped, published>>
        BY <1>2 DEF Recvfrom
  <2>2. \A i \in 1 .. Len(sockbuf') : i + 1 \in 1 .. Len(sockbuf)
                                      /\ sockbuf'[i] = sockbuf[i + 1]
        BY <2>1
  <2>3. hand'[1] = sockbuf[1] /\ 1 \in 1 .. Len(sockbuf)
        BY <2>1
  <2> QED BY <2>1, <2>2, <2>3
<1>3. CASE Harvest
  <2>1. lost' = lost /\ dropped' = lost
        BY <1>0, <1>3 DEF Harvest
  <2>2. pc = "harvest" /\ pc' = "classify"
        /\ UNCHANGED <<sockbuf, hand, published>>
        BY <1>3 DEF Harvest
  <2>3. dropped <= lost
        BY <1>0
  <2> QED BY <1>0, <2>1, <2>2, <2>3
<1>4. CASE Classify
      BY <1>4 DEF Classify
<1>5. CASE Publish
  <2>1. /\ pc = "push" /\ pc' = "recv" /\ lost' = lost
        /\ published' = Append(published, hand[1])
        /\ UNCHANGED <<sockbuf, dropped>>
        BY <1>5 DEF Publish
  <2>2. ASSUME NEW s \in 1 .. Len(published')
        PROVE  published'[s].gap <= dropped
    <3>1. CASE s = Len(published) + 1
          BY <2>1, <3>1
    <3>2. CASE s \in 1 .. Len(published)
          BY <2>1, <3>2
    <3> QED BY <2>1, <3>1, <3>2
  <2> QED BY <2>1, <2>2
<1>6. CASE Client
      BY <1>6 DEF Client, threadVars
<1>7. CASE UNCHANGED tapVars
      BY <1>7 DEF tapVars, threadVars
<1> QED BY <1>1, <1>2, <1>3, <1>4, <1>5, <1>6, <1>7 DEF TapNext, CaptureThread

(* By the time a packet can be seen, the drop count covers every frame     *)
(* lost before it: the harvest stands between recvfrom and push            *)
(* (capture.rs:34, 117, 155-175).                                          *)
THEOREM EveryGapConfessed == TapSpec => []GapsConfessed
<1>1. TapInit => GapInv
      BY DEF TapInit, GapInv, GapsConfessed
<1>2. GapInv => GapsConfessed
      BY DEF GapInv
<1> QED BY <1>1, <1>2, GapInvStep, TapTypeCorrect, EveryFrameAccounted, PTL
        DEF TapSpec

-----------------------------------------------------------------------------
(* A frame about to be pushed has passed is_own_flow. *)
OwnInv ==
  /\ pc = "push" => hand[1].frame \notin OwnFlows
  /\ NoFeedback

LEMMA EtherTypes == Vlan # IPv4 /\ Vlan # IPv6 /\ IPv4 # IPv6
BY SMT DEF Vlan, IPv4, IPv6

(* is_own_flow finds the ports of whatever the server sends or is sent:    *)
(* behind a tag or none, and behind an IPv4 header of any length or an     *)
(* IPv6 header (capture.rs:197-244).                                       *)
LEMMA ServedIsFound ==
  ASSUME NEW b \in Seq(Byte), Served(b)
  PROVE  IsOwnFlow(b)
<1>1. PICK tags \in {0, 1} :
        LET ip == 14 + 4 * tags IN
        /\ tags = 1 => U16(b, 12) = Vlan
        /\ \/ /\ U16(b, ip - 2) = IPv4
              /\ At(b, ip + 9) = Tcp
              /\ \E words \in 5 .. 15 :
                   At(b, ip) = 64 + words /\ TcpOfServer(b, ip + 4 * words)
           \/ /\ U16(b, ip - 2) = IPv6
              /\ At(b, ip + 6) = Tcp
              /\ TcpOfServer(b, ip + 40)
      BY DEF Served
<1> DEFINE ip == 14 + 4 * tags
<1>2. Len(b) \in Nat /\ Vlan # IPv4 /\ Vlan # IPv6 /\ IPv4 # IPv6
      BY EtherTypes
<1>3. ip = EtherTypeAt(b) + 2 /\ ip \in Nat
      BY <1>1, <1>2 DEF EtherTypeAt
<1> HIDE DEF ip
<1>4. CASE U16(b, ip - 2) = IPv4
  <2>1. /\ At(b, ip + 9) = Tcp
        /\ \E words \in 5 .. 15 : At(b, ip) = 64 + words /\ TcpOfServer(b, ip + 4 * words)
        BY <1>1, <1>2, <1>4 DEF ip
  <2>2. PICK words \in 5 .. 15 : At(b, ip) = 64 + words /\ TcpOfServer(b, ip + 4 * words)
        BY <2>1
  <2>3. (64 + words) % 16 = words
        OBVIOUS
  <2>4. PortsAt(b) = ip + 4 * words
        BY <1>3, <1>4, <2>2, <2>3 DEF PortsAt
  <2>5. PortsAt(b) + 4 <= Len(b) /\ OwnPort \in {U16(b, PortsAt(b)), U16(b, PortsAt(b) + 2)}
        BY <1>3, <1>2, <2>2, <2>4 DEF TcpOfServer
  <2> QED BY <1>3, <1>4, <2>1, <2>5 DEF IsOwnFlow
<1>5. CASE U16(b, ip - 2) # IPv4
  <2>1. U16(b, ip - 2) = IPv6 /\ At(b, ip + 6) = Tcp /\ TcpOfServer(b, ip + 40)
        BY <1>1, <1>5 DEF ip
  <2>2. PortsAt(b) = ip + 40
        BY <1>3, <1>5 DEF PortsAt
  <2>3. PortsAt(b) + 4 <= Len(b) /\ OwnPort \in {U16(b, PortsAt(b)), U16(b, PortsAt(b) + 2)}
        BY <1>3, <1>2, <2>1, <2>2 DEF TcpOfServer
  <2> QED BY <1>3, <2>1, <2>3 DEF IsOwnFlow
<1> QED BY <1>4, <1>5

LEMMA OwnIsRecognised == OwnFrames \subseteq OwnFlows
<1>0. OwnFrames \subseteq Frames
      BY DEF Frames
<1>1. Bytes \in [Frames -> Seq(Byte)]
      BY FrameAssumption
<1>2. \A f \in OwnFrames : Served(Bytes[f])
      BY FrameAssumption
<1>3. ASSUME NEW f \in OwnFrames
      PROVE  f \in OwnFlows
  <2>1. f \in Frames /\ Bytes[f] \in Seq(Byte)
        BY <1>0, <1>1
  <2>2. IsOwnFlow(Bytes[f])
        BY <1>2, <2>1, ServedIsFound
  <2> QED BY <2>1, <2>2 DEF OwnFlows
<1> QED BY <1>3

LEMMA OwnInvStep ==
  TapTypeOK /\ OwnInv /\ [TapNext]_tapVars => OwnInv'
<1> SUFFICES ASSUME TapTypeOK, OwnInv, [TapNext]_tapVars
             PROVE  OwnInv'
    OBVIOUS
<1> USE DEF TapTypeOK, OwnInv, NoFeedback
<1>1. ASSUME NEW f \in Frames, Arrive(f)
      PROVE  OwnInv'
      BY <1>1 DEF Arrive, threadVars
<1>2. CASE Recvfrom \/ Harvest \/ Classify
      BY <1>2 DEF Recvfrom, Harvest, Classify
<1>3. CASE Publish
  <2>1. hand[1].frame \notin OwnFrames
        BY <1>3, OwnIsRecognised DEF Publish
  <2>2. published' = Append(published, hand[1]) /\ pc' = "recv"
        BY <1>3 DEF Publish
  <2>3. ASSUME NEW s \in 1 .. Len(published')
        PROVE  published'[s].frame \notin OwnFrames
    <3>1. CASE s = Len(published) + 1
          BY <2>1, <2>2, <3>1
    <3>2. CASE s \in 1 .. Len(published)
          BY <2>2, <3>2
    <3> QED BY <2>2, <3>1, <3>2
  <2> QED BY <2>2, <2>3
<1>4. CASE Client
      BY <1>4 DEF Client, threadVars
<1>5. CASE UNCHANGED tapVars
      BY <1>5 DEF tapVars, threadVars
<1> QED BY <1>1, <1>2, <1>3, <1>4, <1>5 DEF TapNext, CaptureThread

(* Serving packets makes none: no frame that carries a segment from or to  *)
(* the server enters the ring, whatever its tag, IP version, options and   *)
(* payload, and whatever order things happen in (capture.rs:35-39,         *)
(* 119-122, 197-244).                                                      *)
THEOREM FeedbackIsBroken == TapSpec => []NoFeedback
<1>1. TapInit => OwnInv
      BY DEF TapInit, OwnInv, NoFeedback
<1>2. OwnInv => NoFeedback
      BY DEF OwnInv
<1> QED BY <1>1, <1>2, OwnInvStep, TapTypeCorrect, PTL DEF TapSpec
-----------------------------------------------------------------------------
(* captured runs at most one packet ahead of the ring. *)
CountInv == captured = next_seq - 1 + (IF pc = "push" THEN 1 ELSE 0)

LEMMA CountStep ==
  RingTypeOK /\ TapTypeOK /\ CountInv /\ [TapNext]_tapVars => CountInv'
<1> SUFFICES ASSUME RingTypeOK, TapTypeOK, CountInv, [TapNext]_tapVars
             PROVE  CountInv'
    OBVIOUS
<1>0. captured \in Int /\ next_seq \in Int
      BY DEF TapTypeOK, RingTypeOK
<1>1. CASE Publish
  <2>1. pc = "push" /\ pc' = "recv" /\ next_seq' = next_seq + 1 /\ captured' = captured
        BY <1>1 DEF Publish, Push
  <2> QED BY <1>0, <2>1 DEF CountInv
<1>2. CASE Classify
  <2>1. pc = "classify" /\ next_seq' = next_seq
        BY <1>2 DEF Classify, ringVars
  <2>2. \/ pc' = "recv" /\ captured' = captured
        \/ pc' = "push" /\ captured' = captured + 1
        BY <1>2 DEF Classify
  <2> QED BY <1>0, <2>1, <2>2 DEF CountInv
<1>3. CASE Recvfrom \/ Harvest
      BY <1>3 DEF Recvfrom, Harvest, CountInv, ringVars
<1>4. CASE (\E f \in Frames : Arrive(f)) \/ UNCHANGED tapVars
      BY <1>4 DEF Arrive, CountInv, ringVars, threadVars, tapVars
<1>5. CASE Client
  <2>1. next_seq' = next_seq
        BY <1>5 DEF Client, Subscribe, Recv, EndOfStream, HangUp
  <2> QED BY <1>5, <2>1 DEF Client, CountInv, threadVars
<1> QED BY <1>1, <1>2, <1>3, <1>4, <1>5 DEF TapNext, CaptureThread

(* The captured count a stream is sent never falls short of the packets it *)
(* has delivered, and never runs ahead by more than the one being pushed   *)
(* (capture.rs:140-141, http.rs:250-251, 263-266).                         *)
THEOREM HeaderIsHonest == TapSpec => []HeaderCoversStream
<1>1. TapInit => CountInv
      BY DEF TapInit, RingInit, CountInv
<1>2. RingTypeOK /\ TapTypeOK /\ CountInv /\ NoneAhead => HeaderCoversStream
  <2> SUFFICES ASSUME RingTypeOK, TapTypeOK, CountInv, NoneAhead, NEW c \in Conns
               PROVE  cursor[c] <= captured
      BY DEF HeaderCoversStream, CountInv
  <2>1. captured \in Int /\ next_seq \in Int /\ cursor[c] \in Int
        BY DEF TapTypeOK, RingTypeOK
  <2>2. cursor[c] <= next_seq - 1 /\ next_seq - 1 <= captured
        BY <2>1 DEF NoneAhead, CountInv
  <2> QED BY <2>1, <2>2
<1>3. RingSpec => []RingTypeOK /\ []NoneAhead
      BY TypeCorrect, NumbersAreAssigned, PTL
<1> QED BY <1>1, <1>2, <1>3, CountStep, TapTypeCorrect, TapDrivesRing, PTL
        DEF TapSpec
=============================================================================
