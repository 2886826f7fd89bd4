------------------------------- MODULE Lemmas -------------------------------
(***************************************************************************)
(* What the proofs share: induction over numbers and sequences, with a set *)
(* in the place of a predicate, and what Filtered does to a sequence.      *)
(***************************************************************************)
EXTENDS Selections, SequenceTheorems, WellFoundedInduction, TLAPS

(* Every set of naturals that is not empty has a least element. *)
LEMMA LeastNatural ==
  ASSUME NEW S \in SUBSET Nat, S # {}
  PROVE  \E n \in S : \A m \in S : n <= m
<1> DEFINE Less == {ss \in Nat \X Nat : ss[1] < ss[2]}
<1>1. IsWellFoundedOn(Less, Nat)
  <2>1. OpToRel(<, Nat) = Less
        BY DEF OpToRel
  <2> QED BY <2>1, NatLessThanWellFounded
<1>2. PICK n \in S : \A m \in S : <<m, n>> \notin Less
      BY <1>1, WFMin
<1>3. ASSUME NEW m \in S PROVE n <= m
  <2>1. m \in Nat /\ n \in Nat
        OBVIOUS
  <2>2. ~(m < n)
        BY <1>2, <2>1, Zenon
  <2> QED BY <2>1, <2>2
<1> QED BY <1>3

(* A bounded one also has a greatest element. *)
LEMMA GreatestNatural ==
  ASSUME NEW n \in Nat, NEW S \in SUBSET (0 .. n), S # {}
  PROVE  \E m \in S : \A k \in S : k <= m
<1> DEFINE Gaps == {g \in Nat : n - g \in S}
<1>1. Gaps # {}
  <2>1. PICK k \in S : TRUE
        OBVIOUS
  <2>2. n - k \in Nat /\ n - (n - k) = k
        BY <2>1
  <2>3. n - k \in Gaps
        BY <2>1, <2>2
  <2> QED BY <2>3
<1>2. PICK g \in Gaps : \A h \in Gaps : g <= h
      BY <1>1, LeastNatural
<1>3. ASSUME NEW k \in S PROVE k <= n - g
  <2>1. k \in Nat /\ n - k \in Nat /\ n - (n - k) = k
        OBVIOUS
  <2>2. g <= n - k
        BY <1>2, <2>1
  <2> QED BY <2>1, <2>2
<1>4. n - g \in S
      BY <1>2
<1> QED BY <1>3, <1>4

(* A set that has 0 and with each number the next has all numbers. *)
LEMMA Induction ==
  ASSUME NEW A, 0 \in A, \A n \in Nat : n \in A => n + 1 \in A
  PROVE  Nat \subseteq A
<1>1. SUFFICES ASSUME Nat \ A # {} PROVE FALSE
      OBVIOUS
<1>2. PICK m \in Nat \ A : \A k \in Nat \ A : m <= k
      BY <1>1, LeastNatural
<1>3. m # 0 /\ m \in Nat /\ m - 1 \in Nat
      BY <1>2
<1>4. m - 1 \in A
      BY <1>2, <1>3
<1>5. (m - 1) + 1 \in A
      BY <1>3, <1>4
<1> QED BY <1>2, <1>3, <1>5

(* A set that has the empty sequence, and with each sequence those that    *)
(* are longer by an entry, has all sequences.                              *)
LEMMA SequenceInduction ==
  ASSUME NEW S, NEW A, <<>> \in A,
         \A s \in Seq(S) : \A e \in S : s \in A => Append(s, e) \in A
  PROVE  Seq(S) \subseteq A
<1> DEFINE Lengths == {n \in Nat : \A s \in Seq(S) : Len(s) = n => s \in A}
<1>1. 0 \in Lengths
  <2>1. \A s \in Seq(S) : Len(s) = 0 => s = <<>>
        BY EmptySeq
  <2> QED BY <2>1
<1>2. ASSUME NEW n \in Nat, n \in Lengths PROVE n + 1 \in Lengths
  <2>1. ASSUME NEW s \in Seq(S), Len(s) = n + 1 PROVE s \in A
    <3>1. s # <<>>
          BY <2>1
    <3>2. PICK t \in Seq(S), e \in S : s = Append(t, e)
          BY <3>1, SequenceEmptyOrAppend
    <3>3. Len(t) = n
          BY <2>1, <3>2, AppendProperties, LenProperties
    <3>4. t \in A
          BY <1>2, <3>3
    <3> QED BY <3>2, <3>4
  <2> QED BY <2>1
<1>3. Nat \subseteq Lengths
  <2> HIDE DEF Lengths
  <2> QED BY <1>1, <1>2, Induction
<1>4. ASSUME NEW s \in Seq(S) PROVE s \in A
  <2>1. Len(s) \in Lengths
        BY <1>3, LenProperties
  <2> QED BY <2>1
<1> QED BY <1>4

-----------------------------------------------------------------------------
(* The end of a sequence, and what happens to it. *)
LEMMA EndIs ==
  ASSUME NEW S, NEW s \in Seq(S), NEW k \in 0 .. Len(s)
  PROVE  LET t == SubSeq(s, k + 1, Len(s))
         IN  /\ t \in Seq(S) /\ Len(t) = Len(s) - k
             /\ \A i \in 1 .. Len(s) - k : t[i] = s[k + i]
<1>1. Len(s) \in Nat
      BY LenProperties
<1> QED BY <1>1

LEMMA EndAppend ==
  ASSUME NEW S, NEW s \in Seq(S), NEW e \in S, NEW k \in 0 .. Len(s)
  PROVE  SubSeq(Append(s, e), k + 1, Len(s) + 1) =
           Append(SubSeq(s, k + 1, Len(s)), e)
<1> DEFINE n == Len(s)
           u == Append(s, e)
           v == SubSeq(s, k + 1, n)
           w == SubSeq(u, k + 1, Len(u))
           x == Append(v, e)
<1>1. /\ u \in Seq(S) /\ Len(u) = n + 1 /\ u[n + 1] = e /\ n \in Nat /\ k \in 0 .. n
      /\ \A i \in 1 .. n : u[i] = s[i]
      BY AppendProperties, LenProperties
<1>2. v \in Seq(S) /\ Len(v) = n - k /\ \A i \in 1 .. n - k : v[i] = s[k + i]
      BY EndIs
<1> HIDE DEF n, u
<1>3. k \in 0 .. Len(u)
      BY <1>1
<1>4. w \in Seq(S) /\ Len(w) = n + 1 - k /\ \A i \in 1 .. n + 1 - k : w[i] = u[k + i]
      BY <1>1, <1>3, EndIs
<1> HIDE DEF v, w
<1>5. /\ x \in Seq(S) /\ Len(x) = n - k + 1 /\ x[n - k + 1] = e
      /\ \A i \in 1 .. n - k : x[i] = v[i]
      BY <1>2, AppendProperties
<1> HIDE DEF x
<1>6. ASSUME NEW i \in 1 .. n + 1 - k PROVE x[i] = w[i]
  <2>1. CASE i = n + 1 - k
        BY <1>1, <1>4, <1>5, <2>1
  <2>2. CASE i # n + 1 - k
    <3>1. i \in 1 .. n - k /\ k + i \in 1 .. n
          BY <1>1, <2>2
    <3> QED BY <1>1, <1>2, <1>4, <1>5, <3>1
  <2> QED BY <2>1, <2>2
<1>7. Len(x) = Len(w)
      BY <1>1, <1>4, <1>5
<1>8. x = w
      BY <1>4, <1>5, <1>6, <1>7, SeqEqual
<1>9. w = SubSeq(u, k + 1, n + 1)
      BY <1>1 DEF w
<1> QED BY <1>8, <1>9 DEF n, u, v, x

LEMMA ConcatAppend ==
  ASSUME NEW S, NEW s \in Seq(S), NEW t \in Seq(S), NEW e \in S
  PROVE  s \o Append(t, e) = Append(s \o t, e)
<1> DEFINE x == s \o Append(t, e)
           y == Append(s \o t, e)
<1>1. /\ x \in Seq(S) /\ Len(x) = Len(s) + Len(t) + 1
      /\ y \in Seq(S) /\ Len(y) = Len(s) + Len(t) + 1
      /\ \A i \in 1 .. Len(s) + Len(t) + 1 : x[i] = y[i]
      OBVIOUS
<1> HIDE DEF x, y
<1>2. x = y
      BY <1>1, SeqEqual
<1> QED BY <1>2 DEF x, y

(* Moving the head of one sequence to the end of another before it. *)
LEMMA ConcatMoves ==
  ASSUME NEW S, NEW s \in Seq(S), NEW t \in Seq(S), t # <<>>
  PROVE  Append(s, Head(t)) \o Tail(t) = s \o t
<1> DEFINE x == Append(s, Head(t)) \o Tail(t)
           y == s \o t
<1>1. /\ x \in Seq(S) /\ Len(x) = Len(s) + Len(t)
      /\ y \in Seq(S) /\ Len(y) = Len(s) + Len(t)
      OBVIOUS
<1>2. ASSUME NEW i \in 1 .. Len(s) + Len(t) PROVE x[i] = y[i]
  <2>1. CASE i <= Len(s)
        BY <2>1
  <2>2. CASE i = Len(s) + 1
        BY <2>2
  <2>3. CASE i > Len(s) + 1
        BY <2>3
  <2> QED BY <2>1, <2>2, <2>3
<1> HIDE DEF x, y
<1>3. x = y
      BY <1>1, <1>2, SeqEqual
<1> QED BY <1>3 DEF x, y

-----------------------------------------------------------------------------
(* Filtered(s, T) satisfies the equations of its definition. *)

FilterStep(f, s, T, i) ==
  IF i = 0 THEN <<>>
  ELSE IF s[i] \in T THEN Append(f[i - 1], s[i]) ELSE f[i - 1]

UpTo(s, T, n) == CHOOSE f : f = [i \in 0 .. n |-> FilterStep(f, s, T, i)]

LEMMA UpToIs ==
  ASSUME NEW s, NEW T, NEW n \in Nat
  PROVE  UpTo(s, T, n) = [i \in 0 .. n |-> FilterStep(UpTo(s, T, n), s, T, i)]
<1> DEFINE Fits(f, m) == f = [i \in 0 .. m |-> FilterStep(f, s, T, i)]
           Good == {m \in Nat : \E f : Fits(f, m)}
<1>1. 0 \in Good
  <2> DEFINE g == [i \in 0 .. 0 |-> <<>>]
  <2>1. Fits(g, 0)
        BY DEF FilterStep
  <2> QED BY <2>1
<1>2. ASSUME NEW m \in Nat, m \in Good PROVE m + 1 \in Good
  <2>1. PICK f : Fits(f, m)
        BY <1>2
  <2> DEFINE g == [i \in 0 .. m + 1 |-> IF i = m + 1 THEN FilterStep(f, s, T, i) ELSE f[i]]
             h == [i \in 0 .. m + 1 |-> FilterStep(g, s, T, i)]
  <2>2. ASSUME NEW i \in 0 .. m + 1 PROVE g[i] = h[i]
    <3>1. FilterStep(g, s, T, i) = FilterStep(f, s, T, i)
      <4>1. CASE i = 0
            BY <4>1 DEF FilterStep
      <4>2. CASE i # 0
        <5>1. i - 1 \in 0 .. m + 1 /\ i - 1 # m + 1
              BY <4>2
        <5>2. g[i - 1] = f[i - 1]
              BY <5>1
        <5> QED BY <5>2 DEF FilterStep
      <4> QED BY <4>1, <4>2
    <3>2. CASE i = m + 1
          BY <3>1, <3>2
    <3>3. CASE i # m + 1
      <4>1. i \in 0 .. m
            BY <3>3
      <4>2. f[i] = FilterStep(f, s, T, i)
            BY <2>1, <4>1
      <4> QED BY <3>1, <3>3, <4>2
    <3> QED BY <3>2, <3>3
  <2>3. Fits(g, m + 1)
        BY <2>2
  <2> HIDE DEF Fits
  <2> QED BY <2>3
<1>3. Nat \subseteq Good
  <2> HIDE DEF Good
  <2> QED BY <1>1, <1>2, Induction
<1> QED BY <1>3 DEF UpTo

LEMMA UpToAt ==
  ASSUME NEW s, NEW T, NEW n \in Nat, NEW i \in 0 .. n
  PROVE  UpTo(s, T, n)[i] = FilterStep(UpTo(s, T, n), s, T, i)
<1> DEFINE f == UpTo(s, T, n)
<1>1. f = [k \in 0 .. n |-> FilterStep(f, s, T, k)]
      BY UpToIs
<1> HIDE DEF f
<1>2. f[i] = FilterStep(f, s, T, i)
      BY <1>1
<1> QED BY <1>2 DEF f

LEMMA FilteredIs ==
  ASSUME NEW s, NEW T
  PROVE  Filtered(s, T) = UpTo(s, T, Len(s))[Len(s)]
BY DEF Filtered, UpTo, FilterStep

(* The results for the prefixes of a sequence do not look at the rest. *)
LEMMA UpToAgrees ==
  ASSUME NEW S, NEW s \in Seq(S), NEW e \in S, NEW T, NEW i \in 0 .. Len(s)
  PROVE  UpTo(Append(s, e), T, Len(s) + 1)[i] = UpTo(s, T, Len(s))[i]
<1> DEFINE n == Len(s)
           f == UpTo(s, T, n)
           g == UpTo(Append(s, e), T, n + 1)
           Agree == {k \in Nat : k <= n => g[k] = f[k]}
<1>1. n \in Nat
      BY LenProperties
<1>2. ASSUME NEW k \in 0 .. n PROVE f[k] = FilterStep(f, s, T, k)
      BY <1>1, UpToAt
<1>3. ASSUME NEW k \in 0 .. n + 1 PROVE g[k] = FilterStep(g, Append(s, e), T, k)
  <2>1. n + 1 \in Nat
        BY <1>1
  <2> QED BY <2>1, UpToAt
<1>4. 0 \in Agree
  <2>1. f[0] = FilterStep(f, s, T, 0) /\ g[0] = FilterStep(g, Append(s, e), T, 0)
        BY <1>1, <1>2, <1>3
  <2> QED BY <2>1 DEF FilterStep
<1>5. ASSUME NEW k \in Nat, k \in Agree PROVE k + 1 \in Agree
  <2>1. SUFFICES ASSUME k + 1 <= n PROVE g[k + 1] = f[k + 1]
        OBVIOUS
  <2>2. k + 1 \in 1 .. n /\ k + 1 \in 0 .. n /\ k + 1 \in 0 .. n + 1
        BY <1>1, <2>1
  <2>3. Append(s, e)[k + 1] = s[k + 1]
        BY <2>2, AppendProperties
  <2>4. g[k] = f[k] /\ (k + 1) - 1 = k /\ k + 1 # 0
        BY <1>1, <1>5, <2>1
  <2>5. FilterStep(g, Append(s, e), T, k + 1) = FilterStep(f, s, T, k + 1)
    <3> HIDE DEF f, g
    <3> QED BY <2>3, <2>4 DEF FilterStep
  <2> QED BY <1>2, <1>3, <2>2, <2>5
<1>6. Nat \subseteq Agree
  <2> HIDE DEF Agree
  <2> QED BY <1>4, <1>5, Induction
<1> QED BY <1>1, <1>6

LEMMA FilteredEmpty ==
  ASSUME NEW T
  PROVE  Filtered(<<>>, T) = <<>>
<1>1. Filtered(<<>>, T) = UpTo(<<>>, T, 0)[0]
      BY FilteredIs
<1>2. UpTo(<<>>, T, 0)[0] = FilterStep(UpTo(<<>>, T, 0), <<>>, T, 0)
      BY UpToAt
<1> QED BY <1>1, <1>2 DEF FilterStep

LEMMA FilteredAppend ==
  ASSUME NEW S, NEW s \in Seq(S), NEW e \in S, NEW T
  PROVE  Filtered(Append(s, e), T) =
           IF e \in T THEN Append(Filtered(s, T), e) ELSE Filtered(s, T)
<1> DEFINE n == Len(s)
           g == UpTo(Append(s, e), T, n + 1)
<1>1. n \in Nat /\ n + 1 \in Nat /\ n + 1 \in 0 .. n + 1 /\ (n + 1) - 1 = n
      BY LenProperties
<1>2. Len(Append(s, e)) = n + 1 /\ Append(s, e)[n + 1] = e
      BY AppendProperties
<1>3. Filtered(Append(s, e), T) = g[n + 1]
      BY <1>2, FilteredIs
<1>4. g[n] = Filtered(s, T)
      BY <1>1, UpToAgrees, FilteredIs
<1>5. g[n + 1] = FilterStep(g, Append(s, e), T, n + 1)
      BY <1>1, UpToAt
<1>6. FilterStep(g, Append(s, e), T, n + 1) = IF e \in T THEN Append(g[n], e) ELSE g[n]
  <2> HIDE DEF g
  <2> QED BY <1>1, <1>2 DEF FilterStep
<1> QED BY <1>3, <1>4, <1>5, <1>6

(* What is selected are entries of the sequence that belong to the set. *)
LEMMA FilteredType ==
  ASSUME NEW S, NEW s \in Seq(S), NEW T
  PROVE  /\ Filtered(s, T) \in Seq(S) /\ Filtered(s, T) \in Seq(T)
         /\ Len(Filtered(s, T)) <= Len(s)
<1> DEFINE Good == {t \in Seq(S) : /\ Filtered(t, T) \in Seq(S)
                                   /\ Filtered(t, T) \in Seq(T)
                                   /\ Len(Filtered(t, T)) <= Len(t)}
<1>1. <<>> \in Good
  <2>1. <<>> \in Seq(S) /\ <<>> \in Seq(T) /\ Len(<<>>) <= Len(<<>>)
        OBVIOUS
  <2> QED BY <2>1, FilteredEmpty
<1>2. ASSUME NEW t \in Seq(S), NEW e \in S, t \in Good
      PROVE  Append(t, e) \in Good
  <2>1. Filtered(Append(t, e), T) =
          IF e \in T THEN Append(Filtered(t, T), e) ELSE Filtered(t, T)
        BY FilteredAppend
  <2>2. Append(t, e) \in Seq(S) /\ Len(Append(t, e)) = Len(t) + 1 /\ Len(t) \in Nat
        BY AppendProperties, LenProperties
  <2>3. CASE e \in T
    <3>1. Filtered(Append(t, e), T) = Append(Filtered(t, T), e)
          BY <2>1, <2>3
    <3>2. /\ Append(Filtered(t, T), e) \in Seq(S)
          /\ Append(Filtered(t, T), e) \in Seq(T)
          /\ Len(Append(Filtered(t, T), e)) = Len(Filtered(t, T)) + 1
          BY <1>2, <2>3, AppendProperties
    <3>3. Len(Filtered(t, T)) \in Nat /\ Len(Filtered(t, T)) <= Len(t)
          BY <1>2, LenProperties
    <3>4. Len(Append(Filtered(t, T), e)) <= Len(Append(t, e))
          BY <2>2, <3>2, <3>3
    <3>5. /\ Filtered(Append(t, e), T) \in Seq(S)
          /\ Filtered(Append(t, e), T) \in Seq(T)
          /\ Len(Filtered(Append(t, e), T)) <= Len(Append(t, e))
          BY <3>1, <3>2, <3>4, Zenon
    <3> QED BY <2>2, <3>5, Zenon
  <2>4. CASE e \notin T
    <3>1. Filtered(Append(t, e), T) = Filtered(t, T)
          BY <2>1, <2>4
    <3>2. Len(Filtered(t, T)) \in Nat /\ Len(Filtered(t, T)) <= Len(t)
          BY <1>2, LenProperties
    <3> QED BY <1>2, <2>2, <3>1, <3>2
  <2> QED BY <2>3, <2>4
<1>3. Seq(S) \subseteq Good
  <2> HIDE DEF Good
  <2> QED BY <1>1, <1>2, SequenceInduction
<1> QED BY <1>3

(* Only whether the entries belong to the set matters. *)
LEMMA FilteredSame ==
  ASSUME NEW S, NEW s \in Seq(S), NEW T, NEW U,
         \A i \in 1 .. Len(s) : s[i] \in T <=> s[i] \in U
  PROVE  Filtered(s, T) = Filtered(s, U)
<1> DEFINE Alike(t) == \A i \in 1 .. Len(t) : t[i] \in T <=> t[i] \in U
           Good == {t \in Seq(S) : Alike(t) => Filtered(t, T) = Filtered(t, U)}
<1>1. <<>> \in Good
      BY FilteredEmpty
<1>2. ASSUME NEW t \in Seq(S), NEW e \in S, t \in Good
      PROVE  Append(t, e) \in Good
  <2> SUFFICES ASSUME Alike(Append(t, e))
               PROVE  Filtered(Append(t, e), T) = Filtered(Append(t, e), U)
      BY AppendProperties
  <2>1. /\ Len(Append(t, e)) = Len(t) + 1 /\ Len(t) \in Nat
        /\ Append(t, e)[Len(t) + 1] = e
        /\ \A i \in 1 .. Len(t) : Append(t, e)[i] = t[i]
        BY AppendProperties, LenProperties
  <2>2. Alike(t)
        BY <2>1
  <2>3. e \in T <=> e \in U
        BY <2>1
  <2>4. Filtered(t, T) = Filtered(t, U)
        BY <1>2, <2>2
  <2>5. \A V : Filtered(Append(t, e), V) =
                 IF e \in V THEN Append(Filtered(t, V), e) ELSE Filtered(t, V)
        BY FilteredAppend
  <2> HIDE DEF Alike, Good
  <2> QED BY <2>3, <2>4, <2>5, Zenon
<1>3. Seq(S) \subseteq Good
  <2> HIDE DEF Good
  <2> QED BY <1>1, <1>2, SequenceInduction
<1> QED BY <1>3

(* A set that an end of the sequence belongs to, and no entry before it,   *)
(* selects that end.                                                       *)
LEMMA FilteredEnd ==
  ASSUME NEW S, NEW s \in Seq(S), NEW T, NEW k \in 0 .. Len(s),
         \A i \in 1 .. Len(s) : s[i] \in T <=> i > k
  PROVE  Filtered(s, T) = SubSeq(s, k + 1, Len(s))
<1> DEFINE Cut(t) == \A i \in 1 .. Len(t) : t[i] \in T <=> i > k
           Good == {t \in Seq(S) : Cut(t) => Filtered(t, T) = SubSeq(t, k + 1, Len(t))}
<1>0. k \in Nat
      BY LenProperties
<1>1. <<>> \in Good
  <2>1. SubSeq(<<>>, k + 1, Len(<<>>)) = <<>>
        BY <1>0
  <2>2. Filtered(<<>>, T) = SubSeq(<<>>, k + 1, Len(<<>>))
        BY <2>1, FilteredEmpty, Zenon
  <2>3. <<>> \in Seq(S)
        OBVIOUS
  <2> HIDE DEF Cut
  <2> QED BY <2>2, <2>3, Zenon
<1>2. ASSUME NEW t \in Seq(S), NEW e \in S, t \in Good
      PROVE  Append(t, e) \in Good
  <2> DEFINE u == Append(t, e)
             n == Len(t)
  <2> SUFFICES ASSUME Cut(u)
               PROVE  Filtered(u, T) = SubSeq(u, k + 1, Len(u))
      BY AppendProperties
  <2>1. /\ u \in Seq(S) /\ Len(u) = n + 1 /\ n \in Nat /\ u[n + 1] = e
        /\ \A i \in 1 .. n : u[i] = t[i]
        BY AppendProperties, LenProperties
  <2>2. Cut(t)
        BY <2>1
  <2>3. e \in T <=> n + 1 > k
        BY <2>1
  <2>4. Filtered(t, T) = SubSeq(t, k + 1, n)
        BY <1>2, <2>2
  <2>5. Filtered(u, T) = IF e \in T THEN Append(SubSeq(t, k + 1, n), e)
                                    ELSE SubSeq(t, k + 1, n)
        BY <2>4, FilteredAppend
  <2> HIDE DEF Cut, Good
  <2>6. CASE n + 1 > k
    <3>1. Append(SubSeq(t, k + 1, n), e) = SubSeq(u, k + 1, n + 1)
      <4>1. k \in 0 .. Len(t)
            BY <1>0, <2>1, <2>6
      <4> QED BY <4>1, EndAppend
    <3> QED BY <2>1, <2>3, <2>5, <2>6, <3>1
  <2>7. CASE ~(n + 1 > k)
    <3>1. SubSeq(t, k + 1, n) = <<>> /\ SubSeq(u, k + 1, n + 1) = <<>>
          BY <1>0, <2>1, <2>7
    <3> QED BY <2>1, <2>3, <2>5, <2>7, <3>1
  <2> QED BY <2>6, <2>7
<1>3. Seq(S) \subseteq Good
  <2> HIDE DEF Good
  <2> QED BY <1>1, <1>2, SequenceInduction
<1> QED BY <1>3

-----------------------------------------------------------------------------
(* The entries of a sequence, and sequences that have no entry twice. *)
LEMMA RangeAppend ==
  ASSUME NEW S, NEW s \in Seq(S), NEW e \in S
  PROVE  Range(Append(s, e)) = Range(s) \cup {e}
<1> DEFINE u == Append(s, e)
<1>1. /\ u \in Seq(S) /\ Len(u) = Len(s) + 1 /\ Len(s) \in Nat /\ u[Len(s) + 1] = e
      /\ \A i \in 1 .. Len(s) : u[i] = s[i]
      BY AppendProperties, LenProperties
<1>2. Range(u) = {u[i] : i \in 1 .. Len(u)} /\ Range(s) = {s[i] : i \in 1 .. Len(s)}
      BY <1>1, RangeEquality
<1> HIDE DEF u
<1>3. 1 .. Len(u) = (1 .. Len(s)) \cup {Len(s) + 1}
      BY <1>1
<1>4. Range(u) = Range(s) \cup {e}
      BY <1>1, <1>2, <1>3
<1> QED BY <1>4 DEF u

LEMMA RangeHead ==
  ASSUME NEW S, NEW s \in Seq(S), s # <<>>
  PROVE  Range(s) = {Head(s)} \cup Range(Tail(s))
<1> DEFINE t == Tail(s)
<1>1. /\ t \in Seq(S) /\ Len(t) = Len(s) - 1 /\ Len(s) \in Nat \ {0} /\ Head(s) = s[1]
      /\ \A i \in 1 .. Len(t) : t[i] = s[i + 1]
      BY HeadTailProperties, EmptySeq
<1>2. Range(t) = {t[i] : i \in 1 .. Len(t)} /\ Range(s) = {s[i] : i \in 1 .. Len(s)}
      BY <1>1, RangeEquality
<1> HIDE DEF t
<1>3. Range(s) \subseteq {s[1]} \cup Range(t)
  <2> SUFFICES ASSUME NEW i \in 1 .. Len(s), i # 1 PROVE s[i] \in Range(t)
      BY <1>2
  <2>1. i - 1 \in 1 .. Len(t) /\ (i - 1) + 1 = i
        BY <1>1
  <2>2. t[i - 1] = s[i]
        BY <1>1, <2>1
  <2> QED BY <1>2, <2>1, <2>2
<1>4. \A i \in 1 .. Len(t) : i + 1 \in 1 .. Len(s)
      BY <1>1
<1>5. Range(t) \subseteq Range(s)
      BY <1>1, <1>2, <1>4
<1>6. s[1] \in Range(s)
      BY <1>1, <1>2
<1> QED BY <1>1, <1>3, <1>5, <1>6 DEF t

LEMMA DistinctAppend ==
  ASSUME NEW S, NEW s \in Seq(S), NEW e \in S, IsInjective(s), e \notin Range(s)
  PROVE  IsInjective(Append(s, e))
<1> DEFINE u == Append(s, e)
<1>1. /\ Len(u) = Len(s) + 1 /\ Len(s) \in Nat /\ u[Len(s) + 1] = e
      /\ DOMAIN u = 1 .. Len(u) /\ DOMAIN s = 1 .. Len(s)
      /\ \A i \in 1 .. Len(s) : u[i] = s[i]
      BY AppendProperties, LenProperties
<1>2. \A i \in 1 .. Len(s) : s[i] # e
      BY RangeEquality
<1>3. \A i, j \in 1 .. Len(s) : s[i] = s[j] => i = j
      BY <1>1 DEF IsInjective
<1> HIDE DEF u
<1>4. ASSUME NEW i \in 1 .. Len(u), NEW j \in 1 .. Len(u), u[i] = u[j] PROVE i = j
  <2>1. i \in 1 .. Len(s) \/ i = Len(s) + 1
        BY <1>1
  <2>2. j \in 1 .. Len(s) \/ j = Len(s) + 1
        BY <1>1
  <2> QED BY <1>1, <1>2, <1>3, <1>4, <2>1, <2>2
<1>5. IsInjective(u)
      BY <1>1, <1>4 DEF IsInjective
<1> QED BY <1>5 DEF u

LEMMA FilteredRange ==
  ASSUME NEW S, NEW s \in Seq(S), NEW T
  PROVE  Range(Filtered(s, T)) = Range(s) \cap T
<1> DEFINE Good == {t \in Seq(S) : Range(Filtered(t, T)) = Range(t) \cap T}
<1>1. <<>> \in Good
  <2>1. Range(<<>>) = {} /\ <<>> \in Seq(S)
        BY DEF Range
  <2> QED BY <2>1, FilteredEmpty
<1>2. ASSUME NEW t \in Seq(S), NEW e \in S, t \in Good
      PROVE  Append(t, e) \in Good
  <2>1. Range(Append(t, e)) = Range(t) \cup {e}
        BY RangeAppend
  <2>2. Filtered(Append(t, e), T) =
          IF e \in T THEN Append(Filtered(t, T), e) ELSE Filtered(t, T)
        BY FilteredAppend
  <2>3. Filtered(t, T) \in Seq(S)
        BY FilteredType
  <2>4. Range(Append(Filtered(t, T), e)) = Range(Filtered(t, T)) \cup {e}
        BY <2>3, RangeAppend
  <2>5. Range(Filtered(t, T)) = Range(t) \cap T
        BY <1>2
  <2>6. Append(t, e) \in Seq(S)
        BY AppendProperties
  <2>7. Range(Filtered(Append(t, e), T)) = Range(Append(t, e)) \cap T
    <3>1. CASE e \in T
      <4>1. Range(Filtered(Append(t, e), T)) = Range(Filtered(t, T)) \cup {e}
            BY <2>2, <2>4, <3>1
      <4> QED BY <2>1, <2>5, <3>1, <4>1
    <3>2. CASE e \notin T
      <4>1. Range(Filtered(Append(t, e), T)) = Range(Filtered(t, T))
            BY <2>2, <3>2
      <4> QED BY <2>1, <2>5, <3>2, <4>1
    <3> QED BY <3>1, <3>2
  <2> QED BY <2>6, <2>7
<1>3. Seq(S) \subseteq Good
  <2> HIDE DEF Good
  <2> QED BY <1>1, <1>2, SequenceInduction
<1> QED BY <1>3

LEMMA FilteredDistinct ==
  ASSUME NEW S, NEW s \in Seq(S), NEW T, IsInjective(s)
  PROVE  IsInjective(Filtered(s, T))
<1> DEFINE Good == {t \in Seq(S) : IsInjective(t) => IsInjective(Filtered(t, T))}
<1>1. <<>> \in Good
  <2>1. <<>> \in Seq(S) /\ Filtered(<<>>, T) = <<>>
        BY FilteredEmpty
  <2> QED BY <2>1
<1>2. ASSUME NEW t \in Seq(S), NEW e \in S, t \in Good
      PROVE  Append(t, e) \in Good
  <2>1. SUFFICES ASSUME IsInjective(Append(t, e))
                 PROVE  IsInjective(Filtered(Append(t, e), T))
        BY AppendProperties
  <2>2. IsInjective(t) /\ e \notin Range(t)
    <3> DEFINE u == Append(t, e)
    <3>1. /\ Len(u) = Len(t) + 1 /\ Len(t) \in Nat /\ u[Len(t) + 1] = e
          /\ DOMAIN u = 1 .. Len(u) /\ DOMAIN t = 1 .. Len(t)
          /\ \A i \in 1 .. Len(t) : u[i] = t[i]
          BY AppendProperties, LenProperties
    <3>2. \A i, j \in 1 .. Len(u) : u[i] = u[j] => i = j
          BY <2>1, <3>1 DEF IsInjective
    <3>3. Range(t) = {t[i] : i \in 1 .. Len(t)}
          BY RangeEquality
    <3> HIDE DEF u
    <3>4. \A i \in 1 .. Len(t) : i \in 1 .. Len(u) /\ i # Len(t) + 1
          BY <3>1
    <3>5. Len(t) + 1 \in 1 .. Len(u)
          BY <3>1
    <3>6. \A i \in 1 .. Len(t) : t[i] # e
          BY <3>1, <3>2, <3>4, <3>5
    <3>7. \A i, j \in 1 .. Len(t) : t[i] = t[j] => i = j
          BY <3>1, <3>2, <3>4
    <3> QED BY <3>1, <3>3, <3>6, <3>7 DEF IsInjective
  <2>3. IsInjective(Filtered(t, T))
        BY <1>2, <2>2
  <2>4. Filtered(t, T) \in Seq(S) /\ e \notin Range(Filtered(t, T))
        BY <2>2, FilteredType, FilteredRange
  <2>5. IsInjective(Append(Filtered(t, T), e))
        BY <2>3, <2>4, DistinctAppend
  <2>6. Filtered(Append(t, e), T) = Append(Filtered(t, T), e) \/
        Filtered(Append(t, e), T) = Filtered(t, T)
        BY FilteredAppend
  <2> QED BY <2>3, <2>5, <2>6
<1>3. Seq(S) \subseteq Good
  <2> HIDE DEF Good
  <2> QED BY <1>1, <1>2, SequenceInduction
<1> QED BY <1>3
-----------------------------------------------------------------------------
(* Filtering a sequence part by part. *)
LEMMA FilteredConcat ==
  ASSUME NEW S, NEW s \in Seq(S), NEW t \in Seq(S), NEW T
  PROVE  Filtered(s \o t, T) = Filtered(s, T) \o Filtered(t, T)
<1> DEFINE Good == {u \in Seq(S) : Filtered(s \o u, T) = Filtered(s, T) \o Filtered(u, T)}
<1>1. <<>> \in Good
  <2>1. s \o <<>> = s /\ Filtered(s, T) \o <<>> = Filtered(s, T) /\ <<>> \in Seq(S)
        BY FilteredType, ConcatEmptySeq
  <2> QED BY <2>1, FilteredEmpty
<1>2. ASSUME NEW u \in Seq(S), NEW e \in S, u \in Good
      PROVE  Append(u, e) \in Good
  <2>1. s \o Append(u, e) = Append(s \o u, e) /\ s \o u \in Seq(S)
        BY ConcatAppend, ConcatProperties
  <2>2. Filtered(Append(s \o u, e), T) =
          IF e \in T THEN Append(Filtered(s \o u, T), e) ELSE Filtered(s \o u, T)
        BY <2>1, FilteredAppend
  <2>3. Filtered(Append(u, e), T) =
          IF e \in T THEN Append(Filtered(u, T), e) ELSE Filtered(u, T)
        BY FilteredAppend
  <2>4. Filtered(s, T) \o Append(Filtered(u, T), e) = Append(Filtered(s, T) \o Filtered(u, T), e)
    <3>1. \A a, b \in Seq(S) : a \o Append(b, e) = Append(a \o b, e)
          BY ConcatAppend
    <3>2. Filtered(s, T) \in Seq(S) /\ Filtered(u, T) \in Seq(S)
          BY FilteredType
    <3> QED BY <3>1, <3>2
  <2>5. Filtered(s \o u, T) = Filtered(s, T) \o Filtered(u, T)
        BY <1>2
  <2>6. Filtered(s \o Append(u, e), T) = Filtered(s, T) \o Filtered(Append(u, e), T)
    <3>1. CASE e \in T
          BY <2>1, <2>2, <2>3, <2>4, <2>5, <3>1
    <3>2. CASE e \notin T
          BY <2>1, <2>2, <2>3, <2>5, <3>2
    <3> QED BY <3>1, <3>2
  <2>7. Append(u, e) \in Seq(S)
        BY AppendProperties
  <2> QED BY <2>6, <2>7
<1>3. Seq(S) \subseteq Good
  <2> HIDE DEF Good
  <2> QED BY <1>1, <1>2, SequenceInduction
<1> QED BY <1>3

(* An entry that is not selected, put between two others. *)
LEMMA FilteredPut ==
  ASSUME NEW S, NEW a \in Seq(S), NEW b \in Seq(S), NEW e \in S, NEW T, e \notin T
  PROVE  Filtered(a \o <<e>> \o b, T) = Filtered(a \o b, T)
<1> DEFINE c == a \o <<e>>
<1>1. c = Append(a, e) /\ c \in Seq(S)
  <2>1. c = Append(a \o <<>>, e) /\ a \o <<>> = a
        BY ConcatAppend, ConcatEmptySeq
  <2> QED BY <2>1, AppendProperties
<1> HIDE DEF c
<1>2. Filtered(c, T) = Filtered(a, T)
      BY <1>1, FilteredAppend
<1>3. \A x, y \in Seq(S) : Filtered(x \o y, T) = Filtered(x, T) \o Filtered(y, T)
      BY FilteredConcat
<1>4. /\ Filtered(c \o b, T) = Filtered(c, T) \o Filtered(b, T)
      /\ Filtered(a \o b, T) = Filtered(a, T) \o Filtered(b, T)
      BY <1>1, <1>3
<1> QED BY <1>2, <1>4 DEF c

(* A sequence, all of whose entries belong to the set. *)
LEMMA FilteredAll ==
  ASSUME NEW S, NEW s \in Seq(S), NEW T, \A i \in 1 .. Len(s) : s[i] \in T
  PROVE  Filtered(s, T) = s
<1>1. 0 \in 0 .. Len(s) /\ \A i \in 1 .. Len(s) : s[i] \in T <=> i > 0
      BY LenProperties
<1>2. Filtered(s, T) = SubSeq(s, 0 + 1, Len(s))
      BY <1>1, FilteredEnd
<1> QED BY <1>2, SubSeqFull

(* u is an end of s. *)
EndOf(u, s) ==
  Len(u) <= Len(s) /\ \A i \in 1 .. Len(u) : u[i] = s[Len(s) - Len(u) + i]

LEMMA FilteredEndOf ==
  ASSUME NEW S, NEW s \in Seq(S), NEW u \in Seq(S), EndOf(u, s), NEW T
  PROVE  EndOf(Filtered(u, T), Filtered(s, T))
<1> DEFINE k == Len(s) - Len(u)
           a == SubSeq(s, 1, k)
<1>1. Len(s) \in Nat /\ Len(u) \in Nat /\ k \in Nat /\ k <= Len(s)
      BY LenProperties DEF EndOf
<1>2. a \in Seq(S) /\ Len(a) = k /\ \A i \in 1 .. k : a[i] = s[i]
  <2>1. \A i \in 1 .. k : s[i] \in S
        BY <1>1, ElementOfSeq
  <2> HIDE DEF k
  <2> QED BY <1>1, <2>1, SubSeqProperties
<1>3. s = a \o u
  <2>1. /\ a \o u \in Seq(S) /\ Len(a \o u) = Len(a) + Len(u)
        /\ \A i \in 1 .. Len(a) + Len(u) :
             (a \o u)[i] = IF i <= Len(a) THEN a[i] ELSE u[i - Len(a)]
        BY <1>2, ConcatProperties
  <2>2. Len(a) + Len(u) = Len(s)
        BY <1>1, <1>2
  <2>3. ASSUME NEW i \in 1 .. Len(s) PROVE s[i] = (a \o u)[i]
    <3>1. CASE i <= k
          BY <1>1, <1>2, <2>1, <2>2, <3>1
    <3>2. CASE ~(i <= k)
      <4>1. i - k \in 1 .. Len(u) /\ k + (i - k) = i
            BY <1>1, <3>2
      <4>2. u[i - k] = s[i]
            BY <4>1 DEF EndOf
      <4>3. (a \o u)[i] = u[i - k]
            BY <1>2, <2>1, <2>2, <3>2
      <4> QED BY <4>2, <4>3
    <3> QED BY <3>1, <3>2
  <2> HIDE DEF a
  <2> QED BY <2>1, <2>2, <2>3, SeqEqual
<1> HIDE DEF a, k
<1>4. Filtered(s, T) = Filtered(a, T) \o Filtered(u, T)
      BY <1>2, <1>3, FilteredConcat
<1> DEFINE fa == Filtered(a, T)
           fu == Filtered(u, T)
<1>5. fa \in Seq(S) /\ fu \in Seq(S) /\ Len(fa) \in Nat /\ Len(fu) \in Nat
      BY <1>2, FilteredType, LenProperties
<1> HIDE DEF fa, fu
<1>6. EndOf(fu, fa \o fu)
  <2>1. /\ Len(fa \o fu) = Len(fa) + Len(fu)
        /\ \A i \in 1 .. Len(fa) + Len(fu) :
             (fa \o fu)[i] = IF i <= Len(fa) THEN fa[i] ELSE fu[i - Len(fa)]
        BY <1>5, ConcatProperties
  <2>2. ASSUME NEW i \in 1 .. Len(fu) PROVE fu[i] = (fa \o fu)[Len(fa) + i]
    <3>1. /\ Len(fa) + i \in 1 .. Len(fa) + Len(fu) /\ ~(Len(fa) + i <= Len(fa))
          /\ Len(fa) + i - Len(fa) = i
          BY <1>5
    <3> QED BY <2>1, <3>1
  <2>3. Len(fa \o fu) - Len(fu) = Len(fa) /\ Len(fu) <= Len(fa \o fu)
        BY <1>5, <2>1
  <2> QED BY <2>2, <2>3 DEF EndOf
<1> QED BY <1>4, <1>6 DEF fa, fu

-----------------------------------------------------------------------------
(* Which positions are selected depends on which entries belong to the set *)
(* alone; none is selected twice.                                          *)
Positions(n) == [i \in 1 .. n |-> i]

Selected(s, T) == {i \in 1 .. Len(s) : s[i] \in T}

LEMMA PositionsAre ==
  ASSUME NEW n \in Nat
  PROVE  /\ Positions(n) \in Seq(1 .. n) /\ Len(Positions(n)) = n
         /\ IsInjective(Positions(n))
         /\ Positions(n + 1) = Append(Positions(n), n + 1)
<1>1. /\ Positions(n) \in Seq(1 .. n) /\ Len(Positions(n)) = n
      /\ Positions(n) \in Seq(Nat) /\ Positions(n + 1) \in Seq(Nat)
      /\ Len(Positions(n + 1)) = n + 1
      BY DEF Positions
<1>2. Positions(n + 1) = Append(Positions(n), n + 1)
  <2> DEFINE x == Positions(n + 1)
             y == Append(Positions(n), n + 1)
  <2>1. /\ y \in Seq(Nat) /\ Len(y) = n + 1 /\ y[n + 1] = n + 1
        /\ \A i \in 1 .. n : y[i] = Positions(n)[i]
        BY <1>1, AppendProperties
  <2>2. \A i \in 1 .. n : Positions(n)[i] = i
        BY DEF Positions
  <2>3. \A i \in 1 .. n + 1 : x[i] = i
        BY DEF Positions
  <2> HIDE DEF x, y
  <2>4. \A i \in 1 .. n + 1 : i \in 1 .. n \/ i = n + 1
        OBVIOUS
  <2>5. \A i \in 1 .. n + 1 : x[i] = y[i]
        BY <2>1, <2>2, <2>3, <2>4
  <2>6. x \in Seq(Nat) /\ Len(x) = n + 1
        BY <1>1 DEF x
  <2>7. x = y
        BY <2>1, <2>5, <2>6, SeqEqual
  <2> QED BY <2>7 DEF x, y
<1> QED BY <1>1, <1>2 DEF Positions, IsInjective

LEMMA FilteredPositions ==
  ASSUME NEW S, NEW s \in Seq(S), NEW T
  PROVE  LET h == Filtered(Positions(Len(s)), Selected(s, T))
         IN  /\ h \in Seq(1 .. Len(s)) /\ IsInjective(h)
             /\ Len(Filtered(s, T)) = Len(h)
             /\ \A i \in 1 .. Len(h) : Filtered(s, T)[i] = s[h[i]]
<1> DEFINE H(t) == Filtered(Positions(Len(t)), Selected(t, T))
           Fits(t) == /\ Len(Filtered(t, T)) = Len(H(t))
                      /\ \A i \in 1 .. Len(H(t)) : Filtered(t, T)[i] = t[H(t)[i]]
           Good == {t \in Seq(S) : Fits(t)}
<1>1. \A t \in Seq(S) : H(t) \in Seq(1 .. Len(t)) /\ IsInjective(H(t))
      BY LenProperties, PositionsAre, FilteredType, FilteredDistinct
<1>2. <<>> \in Good
  <2>1. Positions(0) = <<>> /\ Len(<<>>) = 0 /\ <<>> \in Seq(S)
        BY DEF Positions
  <2>2. H(<<>>) = <<>> /\ Filtered(<<>>, T) = <<>>
        BY <2>1, FilteredEmpty
  <2> QED BY <2>1, <2>2
<1>3. ASSUME NEW t \in Seq(S), NEW e \in S, t \in Good
      PROVE  Append(t, e) \in Good
  <2> DEFINE n == Len(t)
             u == Append(t, e)
             h == H(t)
             g == Filtered(t, T)
  <2>1. /\ n \in Nat /\ u \in Seq(S) /\ Len(u) = n + 1 /\ u[n + 1] = e
        /\ \A i \in 1 .. n : u[i] = t[i]
        BY LenProperties, AppendProperties
  <2>2. h \in Seq(1 .. n) /\ Len(h) \in Nat
        BY <1>1, LenProperties
  <2>3. Len(g) = Len(h) /\ \A i \in 1 .. Len(h) : g[i] = t[h[i]]
        BY <1>3
  <2>4. g \in Seq(S) /\ Filtered(u, T) = IF e \in T THEN Append(g, e) ELSE g
        BY FilteredType, FilteredAppend
  <2>5. H(u) = IF e \in T THEN Append(h, n + 1) ELSE h
    <3>1. Positions(n + 1) = Append(Positions(n), n + 1) /\ Positions(n) \in Seq(1 .. n)
          /\ Len(Positions(n)) = n
          BY <2>1, PositionsAre
    <3>2. 1 .. n \subseteq Nat /\ n + 1 \in Nat
          BY <2>1
    <3>3. Positions(n) \in Seq(Nat)
          BY <3>1, <3>2, SeqMonotonic
    <3>4. Filtered(Append(Positions(n), n + 1), Selected(u, T)) =
            IF n + 1 \in Selected(u, T)
            THEN Append(Filtered(Positions(n), Selected(u, T)), n + 1)
            ELSE Filtered(Positions(n), Selected(u, T))
      <4>1. \A U : \A r \in Seq(Nat), m \in Nat :
              Filtered(Append(r, m), U) =
                IF m \in U THEN Append(Filtered(r, U), m) ELSE Filtered(r, U)
            BY FilteredAppend
      <4> HIDE DEF n, u
      <4> QED BY <3>2, <3>3, <4>1
    <3>5. n + 1 \in Selected(u, T) <=> e \in T
      <4> HIDE DEF u, n
      <4> QED BY <2>1 DEF Selected
    <3>6. \A i \in 1 .. n : i \in Selected(u, T) <=> i \in Selected(t, T)
      <4> HIDE DEF u
      <4> QED BY <2>1 DEF Selected
    <3>7. \A i \in 1 .. n : Positions(n)[i] = i
          BY DEF Positions
    <3> HIDE DEF u, n
    <3>8. \A i \in 1 .. Len(Positions(n)) :
            Positions(n)[i] \in Selected(u, T) <=> Positions(n)[i] \in Selected(t, T)
          BY <3>1, <3>6, <3>7
    <3>9. Filtered(Positions(n), Selected(u, T)) = Filtered(Positions(n), Selected(t, T))
          BY <3>3, <3>8, FilteredSame
    <3> QED BY <2>1, <3>1, <3>4, <3>5, <3>9 DEF n
  <2> HIDE DEF g, h, n, u, H
  <2>6. \A i \in 1 .. Len(h) : u[h[i]] = t[h[i]]
        BY <2>1, <2>2, ElementOfSeq
  <2>7. CASE e \in T
    <3> DEFINE g2 == Append(g, e)
               h2 == Append(h, n + 1)
    <3>0. Seq(1 .. n) \subseteq Seq(Nat)
          BY <2>1, SeqMonotonic
    <3>1. /\ Len(g2) = Len(g) + 1 /\ g2[Len(g) + 1] = e
          /\ \A i \in 1 .. Len(g) : g2[i] = g[i]
          BY <2>4, AppendProperties
    <3>2. /\ Len(h2) = Len(h) + 1 /\ h2[Len(h) + 1] = n + 1
          /\ \A i \in 1 .. Len(h) : h2[i] = h[i]
          BY <2>1, <2>2, <3>0, AppendProperties
    <3> HIDE DEF g2, h2
    <3>3. Len(g2) = Len(h2) /\ \A i \in 1 .. Len(h2) : g2[i] = u[h2[i]]
      <4>1. \A i \in 1 .. Len(h2) : i \in 1 .. Len(h) \/ i = Len(h) + 1
            BY <2>2, <3>2
      <4> QED BY <2>1, <2>3, <2>6, <3>1, <3>2, <4>1
    <3>4. Filtered(u, T) = g2 /\ H(u) = h2
          BY <2>4, <2>5, <2>7 DEF g2, h2
    <3> QED BY <2>1, <3>3, <3>4 DEF u
  <2>8. CASE e \notin T
    <3>1. Filtered(u, T) = g /\ H(u) = h
          BY <2>4, <2>5, <2>8
    <3> QED BY <2>1, <2>3, <2>6, <3>1 DEF u
  <2> QED BY <2>7, <2>8
<1>4. Seq(S) \subseteq Good
  <2> HIDE DEF Good
  <2> QED BY <1>2, <1>3, SequenceInduction
<1> QED BY <1>1, <1>4
=============================================================================
