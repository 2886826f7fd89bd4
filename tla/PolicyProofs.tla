---------------------------- MODULE PolicyProofs ----------------------------
(***************************************************************************)
(* What Policy, and PolicyWalk above it, guarantee for every limit on      *)
(* depth, set of names and edits, and number of deleting threads.          *)
(***************************************************************************)
EXTENDS PolicyWalk, Lemmas, FiniteSetTheorems

(* Prefixes of paths. *)
LEMMA AboveIsPrefix ==
  ASSUME NEW S, NEW p \in Seq(S), NEW q \in Above(p)
  PROVE  /\ q \in Seq(S) /\ Len(q) \in 1 .. Len(p)
         /\ q = SubSeq(p, 1, Len(q))
         /\ \A i \in 1 .. Len(q) : q[i] = p[i]
<1>1. PICK n \in 1 .. Len(p) : q = SubSeq(p, 1, n)
      BY DEF Above
<1>2. Len(p) \in Nat
      OBVIOUS
<1>3. q \in Seq(S) /\ Len(q) = n
      BY <1>1, <1>2
<1>4. \A i \in 1 .. n : q[i] = p[i]
      BY <1>1, <1>2
<1> QED BY <1>1, <1>2, <1>3, <1>4

LEMMA PrefixIsAbove ==
  ASSUME NEW S, NEW p \in Seq(S), NEW q \in Seq(S), Len(q) \in 1 .. Len(p),
         \A i \in 1 .. Len(q) : q[i] = p[i]
  PROVE  q \in Above(p)
<1> DEFINE r == SubSeq(p, 1, Len(q))
<1>1. Len(q) \in Nat /\ Len(p) \in Nat
      OBVIOUS
<1>2. r \in Seq(S) /\ Len(r) = Len(q)
      BY <1>1
<1>3. \A i \in 1 .. Len(q) : q[i] = r[i]
      BY <1>1
<1>4. q = r
  <2> HIDE DEF r
  <2> QED BY <1>2, <1>3, SeqEqual
<1> QED BY <1>4 DEF Above

LEMMA SelfAbove ==
  ASSUME NEW S, NEW p \in Seq(S), p # <<>>
  PROVE  p \in Above(p)
<1>1. Len(p) \in 1 .. Len(p)
      OBVIOUS
<1> QED BY <1>1, PrefixIsAbove

LEMMA AboveTransitive ==
  ASSUME NEW S, NEW p \in Seq(S), NEW q \in Above(p)
  PROVE  Above(q) \subseteq Above(p)
<1> SUFFICES ASSUME NEW r \in Above(q) PROVE r \in Above(p)
    OBVIOUS
<1>1. /\ q \in Seq(S) /\ Len(q) \in 1 .. Len(p)
      /\ \A i \in 1 .. Len(q) : q[i] = p[i]
      BY AboveIsPrefix
<1>2. /\ r \in Seq(S) /\ Len(r) \in 1 .. Len(q)
      /\ \A i \in 1 .. Len(r) : r[i] = q[i]
      BY <1>1, AboveIsPrefix
<1>3. Len(r) \in 1 .. Len(p) /\ \A i \in 1 .. Len(r) : r[i] = p[i]
      BY <1>1, <1>2
<1> QED BY <1>2, <1>3, PrefixIsAbove

(* Of two prefixes of a path the shorter is a prefix of the longer. *)
LEMMA AboveLinear ==
  ASSUME NEW S, NEW p \in Seq(S), NEW q \in Above(p), NEW r \in Above(p),
         Len(r) <= Len(q)
  PROVE  r \in Above(q)
<1>1. /\ q \in Seq(S) /\ Len(q) \in 1 .. Len(p)
      /\ \A i \in 1 .. Len(q) : q[i] = p[i]
      BY AboveIsPrefix
<1>2. /\ r \in Seq(S) /\ Len(r) \in 1 .. Len(p)
      /\ \A i \in 1 .. Len(r) : r[i] = p[i]
      BY AboveIsPrefix
<1>3. Len(r) \in 1 .. Len(q) /\ \A i \in 1 .. Len(r) : r[i] = q[i]
      BY <1>1, <1>2
<1> QED BY <1>1, <1>2, <1>3, PrefixIsAbove

-----------------------------------------------------------------------------
(* Requests, element by element. *)
Segments == Layers \cup Names

IsRequest(p) ==
  \/ \E l \in Layers : p = <<l>>
  \/ \E l \in Layers, n \in 1 .. MaxDepth + 1 :
        \E rest \in [1 .. n -> Names] : p = <<l>> \o rest

LEMMA RequestsAre == \A p : p \in Requests <=> IsRequest(p)
<1> DEFINE rests == UNION {[1 .. n -> Names] : n \in 1 .. MaxDepth + 1}
<1>1. ASSUME NEW p
      PROVE  p \in Requests <=> \/ \E l \in Layers : p = <<l>>
                               \/ \E l \in Layers, r \in rests : p = <<l>> \o r
  <2> HIDE DEF rests
  <2>1. Requests = {<<l>> : l \in Layers} \cup {<<l>> \o r : l \in Layers, r \in rests}
        BY DEF Requests, rests
  <2> QED BY <2>1
<1>2. \A r : r \in rests <=> \E n \in 1 .. MaxDepth + 1 : r \in [1 .. n -> Names]
      OBVIOUS
<1> HIDE DEF rests
<1> QED BY <1>1, <1>2, Zenon DEF IsRequest

LEMMA OneLess ==
  ASSUME NEW k \in Nat \ {0, 1}, NEW m \in 1 .. k + 2, m # 1
  PROVE  m - 1 \in 1 .. k + 1 /\ m - 1 \in Nat /\ m = 1 + (m - 1)
OBVIOUS

LEMMA RequestShape ==
  ASSUME NEW p \in Requests
  PROVE  /\ p \in Seq(Segments) /\ Len(p) \in 1 .. MaxDepth + 2
         /\ p[1] \in Layers /\ \A i \in 2 .. Len(p) : p[i] \in Names
<1>1. CASE \E l \in Layers : p = <<l>>
      BY <1>1, PolicyAssumption DEF Segments
<1>2. ASSUME NEW l \in Layers, NEW n \in 1 .. MaxDepth + 1,
             NEW rest \in [1 .. n -> Names], p = <<l>> \o rest
      PROVE  /\ p \in Seq(Segments) /\ Len(p) \in 1 .. MaxDepth + 2
             /\ p[1] \in Layers /\ \A i \in 2 .. Len(p) : p[i] \in Names
  <2>1. n \in Nat /\ MaxDepth \in Nat
        BY PolicyAssumption
  <2>2. rest \in Seq(Segments) /\ Len(rest) = n
        BY <2>1 DEF Segments
  <2>3. <<l>> \in Seq(Segments) /\ Len(<<l>>) = 1 /\ <<l>>[1] = l
        BY DEF Segments
  <2>4. p \in Seq(Segments) /\ Len(p) = 1 + n
        BY <1>2, <2>2, <2>3, ConcatProperties
  <2>5. \A i \in 1 .. 1 + n : p[i] = IF i <= 1 THEN <<l>>[i] ELSE rest[i - 1]
        BY <1>2, <2>2, <2>3, ConcatProperties
  <2>6. p[1] = l
        BY <2>1, <2>3, <2>5
  <2>7. \A i \in 2 .. Len(p) : p[i] = rest[i - 1] /\ i - 1 \in 1 .. n
        BY <2>1, <2>4, <2>5
  <2> QED BY <2>1, <2>4, <2>6, <2>7
<1> QED BY <1>1, <1>2, RequestsAre DEF IsRequest

LEMMA ShapeIsRequest ==
  ASSUME NEW p \in Seq(Segments), Len(p) \in 1 .. MaxDepth + 2,
         p[1] \in Layers, \A i \in 2 .. Len(p) : p[i] \in Names
  PROVE  p \in Requests
<1>1. CASE Len(p) = 1
  <2>1. p = <<p[1]>>
        BY <1>1
  <2> QED BY <2>1, RequestsAre DEF IsRequest
<1>2. CASE Len(p) # 1
  <2> DEFINE n == Len(p) - 1
             rest == [i \in 1 .. n |-> p[i + 1]]
             joined == <<p[1]>> \o rest
  <2>1. n \in 1 .. MaxDepth + 1 /\ n \in Nat /\ Len(p) = 1 + n
        BY <1>2, PolicyAssumption, OneLess
  <2>2. rest \in [1 .. n -> Names]
        BY <2>1
  <2>3. rest \in Seq(Segments) /\ Len(rest) = n
        BY <2>1, <2>2 DEF Segments
  <2>4. <<p[1]>> \in Seq(Segments) /\ Len(<<p[1]>>) = 1
        BY DEF Segments
  <2>5. joined \in Seq(Segments) /\ Len(joined) = 1 + n
    <3> HIDE DEF rest, n
    <3> QED BY <2>3, <2>4, ConcatProperties
  <2>6. \A i \in 1 .. 1 + n :
          joined[i] = IF i <= 1 THEN <<p[1]>>[i] ELSE rest[i - 1]
    <3> HIDE DEF rest, n
    <3> QED BY <2>3, <2>4, ConcatProperties
  <2>7. \A i \in 1 .. Len(p) : p[i] = joined[i]
        BY <2>1, <2>6
  <2>8. p = joined
    <3> HIDE DEF joined
    <3> QED BY <2>1, <2>5, <2>7, SeqEqual
  <2>9. \E l \in Layers, m \in 1 .. MaxDepth + 1 :
          \E r \in [1 .. m -> Names] : p = <<l>> \o r
    <3> HIDE DEF rest, n
    <3> QED BY <2>1, <2>2, <2>8
  <2> QED BY <2>9, RequestsAre DEF IsRequest
<1> QED BY <1>1, <1>2

LEMMA AboveRequest ==
  ASSUME NEW p \in Requests
  PROVE  Above(p) \subseteq Requests
<1> SUFFICES ASSUME NEW q \in Above(p) PROVE q \in Requests
    OBVIOUS
<1>1. /\ p \in Seq(Segments) /\ Len(p) \in 1 .. MaxDepth + 2
      /\ p[1] \in Layers /\ \A i \in 2 .. Len(p) : p[i] \in Names
      BY RequestShape
<1>2. /\ q \in Seq(Segments) /\ Len(q) \in 1 .. Len(p)
      /\ \A i \in 1 .. Len(q) : q[i] = p[i]
      BY <1>1, AboveIsPrefix
<1>3. /\ Len(q) \in 1 .. MaxDepth + 2
      /\ q[1] \in Layers /\ \A i \in 2 .. Len(q) : q[i] \in Names
      BY <1>1, <1>2, PolicyAssumption
<1> QED BY <1>2, <1>3, ShapeIsRequest

-----------------------------------------------------------------------------
(* A key that is open and alive is that of a rule; set_rule's limit on     *)
(* depth bounds every key.                                                 *)
PolicyInv ==
  /\ PolicyTypeOK
  /\ \A p \in Keys : Len(p) <= MaxDepth + 1
  /\ \A t \in Threads : opened[t] # <<>> =>
       Len(opened[t]) >= 2 /\ (t \notin dead => opened[t] \in Keys)

LEMMA SetRuleStep ==
  ASSUME PolicyInv, NEW path \in Requests, NEW e \in Edits, SetRule(path, e)
  PROVE  PolicyInv'
<1> USE DEF PolicyInv, PolicyTypeOK
<1>1. Keys' = Keys \cup Above(path)
      BY DEF SetRule, Keys
<1>2. path \in Seq(Segments) /\ Len(path) <= MaxDepth + 1
      BY RequestShape DEF SetRule, Settable
<1>3. Above(path) \subseteq Requests
      BY AboveRequest
<1>4. ASSUME NEW p \in Above(path)
      PROVE  Above(p) \subseteq Keys' /\ Len(p) <= MaxDepth + 1
  <2>1. Above(p) \subseteq Above(path)
        BY <1>2, AboveTransitive
  <2>2. Len(p) \in 1 .. Len(path)
        BY <1>2, AboveIsPrefix
  <2> QED BY <1>1, <1>2, <2>1, <2>2, PolicyAssumption
<1>5. UNCHANGED <<present, opened, dead>>
      BY DEF SetRule
<1>6. PolicyTypeOK'
      BY <1>1, <1>3, <1>4, <1>5
<1>7. \A p \in Keys' : Len(p) <= MaxDepth + 1
      BY <1>1, <1>4
<1> QED BY <1>1, <1>5, <1>6, <1>7

(* What is left after a deletion is closed under prefixes, and a key that  *)
(* is open is alive still or its thread is dead.                           *)
LEMMA DeleteRunsStep ==
  ASSUME PolicyInv, NEW t \in Threads, DeleteRuns(t)
  PROVE  PolicyInv'
<1> USE DEF PolicyInv, PolicyTypeOK
<1> DEFINE gone == Subtree(opened[t])
<1>1. /\ Keys' = Keys \ gone
      /\ dead' = dead \cup {u \in Threads \ {t} : opened[u] \in gone}
      /\ opened' = [opened EXCEPT ![t] = <<>>]
      /\ present' = present
      BY DEF DeleteRuns, Keys
<1>2. t \notin dead /\ opened[t] # <<>>
      BY DEF DeleteRuns
<1>3. ASSUME NEW p \in Keys', NEW q \in Above(p) PROVE q \in Keys'
  <2>1. p \in Keys /\ opened[t] \notin Above(p) /\ p \in Seq(Segments)
        BY <1>1, RequestShape DEF Subtree
  <2>2. q \in Keys /\ Above(q) \subseteq Above(p)
        BY <2>1, AboveTransitive
  <2> QED BY <1>1, <2>1, <2>2 DEF Subtree
<1>4. dead' \subseteq {u \in Threads : opened'[u] # <<>>}
  <2> SUFFICES ASSUME NEW u \in dead' PROVE u \in Threads /\ opened'[u] # <<>>
      OBVIOUS
  <2>1. u \in Threads /\ u # t
        BY <1>1, <1>2
  <2>2. opened'[u] = opened[u]
        BY <1>1, <2>1
  <2>3. CASE u \in dead
        BY <2>1, <2>2, <2>3
  <2>4. CASE opened[u] \in gone
    <3>1. opened[u] \in Requests
          BY <2>4 DEF Subtree
    <3>2. Len(opened[u]) \in 1 .. MaxDepth + 2
          BY <3>1, RequestShape
    <3> QED BY <2>1, <2>2, <3>2
  <2> QED BY <1>1, <2>1, <2>3, <2>4
<1>5. PolicyTypeOK'
  <2>1. Keys' \subseteq Requests
        BY <1>1
  <2>2. opened' \in [Threads -> Requests \cup {<<>>}]
        BY <1>1
  <2> QED BY <1>1, <1>3, <1>4, <2>1, <2>2
<1>6. \A p \in Keys' : Len(p) <= MaxDepth + 1
      BY <1>1
<1>7. ASSUME NEW u \in Threads, opened'[u] # <<>>
      PROVE  Len(opened'[u]) >= 2 /\ (u \notin dead' => opened'[u] \in Keys')
  <2>1. u # t /\ opened'[u] = opened[u]
        BY <1>1, <1>7
  <2> QED BY <1>1, <1>7, <2>1
<1> QED BY <1>5, <1>6, <1>7

LEMMA PolicyStep == PolicyInv /\ [PolicyNext]_policyVars => PolicyInv'
<1> SUFFICES ASSUME PolicyInv, [PolicyNext]_policyVars PROVE PolicyInv'
    OBVIOUS
<1> USE DEF PolicyInv, PolicyTypeOK
<1>1. CASE RulesKeyAppears
      BY <1>1 DEF RulesKeyAppears, Keys
<1>2. ASSUME NEW p \in Requests, NEW e \in Edits, SetRule(p, e) PROVE PolicyInv'
      BY <1>2, SetRuleStep
<1>3. ASSUME NEW t \in Threads, NEW p \in Requests, DeleteOpens(t, p)
      PROVE  PolicyInv'
  <2>1. t \notin dead /\ p # <<>>
        BY <1>3, RequestShape DEF DeleteOpens
  <2> QED BY <1>3, <2>1 DEF DeleteOpens, Keys
<1>4. ASSUME NEW t \in Threads, DeleteRuns(t) PROVE PolicyInv'
      BY <1>4, DeleteRunsStep
<1>5. ASSUME NEW t \in Threads, DeleteFails(t) PROVE PolicyInv'
      BY <1>5 DEF DeleteFails, Keys
<1>6. CASE UNCHANGED policyVars
      BY <1>6 DEF policyVars, Keys
<1> QED BY <1>1, <1>2, <1>3, <1>4, <1>5, <1>6 DEF PolicyNext

LEMMA PolicyStarts == PolicyInit => PolicyInv /\ NeverMixed
BY DEF PolicyInit, PolicyInv, PolicyTypeOK, NeverMixed, Keys, NoValues

-----------------------------------------------------------------------------
(* Replacing a rule's values leaves those of the request. *)
LEMMA ReplacedIsNew ==
  ASSUME NEW old, NEW e \in Edits
  PROVE  ReplaceValues(old, e) = e
<1>1. DOMAIN [v \in DOMAIN old \cap DOMAIN e |-> old[v]] \cup DOMAIN e = DOMAIN e
      OBVIOUS
<1>2. ReplaceValues(old, e) = [v \in DOMAIN e |-> e[v]]
      BY <1>1 DEF ReplaceValues, Overwrite
<1> QED BY <1>2, PolicyAssumption

LEMMA NeverMixedStep ==
  NeverMixed /\ [PolicyNext]_policyVars => NeverMixed'
<1> SUFFICES ASSUME NeverMixed, [PolicyNext]_policyVars PROVE NeverMixed'
    OBVIOUS
<1> USE DEF NeverMixed, Keys
<1>1. ASSUME NEW path \in Requests, NEW e \in Edits, SetRule(path, e)
      PROVE  NeverMixed'
  <2>1. ReplaceValues(ValuesOf(path), e) = e
        BY ReplacedIsNew
  <2>2. \A q : ValuesOf(q) \in Edits \cup {NoValues} \/ q = path
        BY DEF ValuesOf
  <2> QED BY <1>1, <2>1, <2>2 DEF SetRule
<1>2. ASSUME NEW t \in Threads, DeleteRuns(t) PROVE NeverMixed'
      BY <1>2 DEF DeleteRuns
<1>3. CASE UNCHANGED tree
      BY <1>3
<1> QED BY <1>1, <1>2, <1>3
        DEF PolicyNext, RulesKeyAppears, DeleteOpens, DeleteFails, policyVars

-----------------------------------------------------------------------------
(* One step changes at most one rule's values, or removes one rule with    *)
(* its exceptions and nothing else.                                        *)
LEMMA OneRuleStep ==
  ASSUME PolicyInv, [PolicyNext]_policyVars
  PROVE  OneRule
<1> DEFINE lost    == Keys \ Keys'
           changed == {q \in Keys \cap Keys' : tree'[q] # tree[q]}
<1>1. ASSUME changed = {}, lost = {} PROVE OneRule
      BY <1>1, FS_EmptySet DEF OneRule
<1>2. ASSUME NEW path \in Requests, NEW e \in Edits, SetRule(path, e)
      PROVE  OneRule
  <2>1. lost = {}
        BY <1>2 DEF SetRule, Keys
  <2>2. changed \subseteq {path}
    <3> SUFFICES ASSUME NEW q \in Keys \cap Keys', q # path
                 PROVE  tree'[q] = tree[q]
        OBVIOUS
    <3>1. q \in Keys \cup Above(path)
          OBVIOUS
    <3> QED BY <1>2, <3>1 DEF SetRule, ValuesOf
  <2>3. changed = {} \/ changed = {path}
        BY <2>2
  <2>4. Cardinality(changed) <= 1
    <3> HIDE DEF changed
    <3>1. CASE changed = {}
          BY <3>1, FS_EmptySet
    <3>2. CASE changed = {path}
      <4>1. Cardinality({path}) = 1
            BY FS_Singleton
      <4> QED BY <3>2, <4>1
    <3> QED BY <2>3, <3>1, <3>2
  <2> QED BY <2>1, <2>4 DEF OneRule
<1>3. ASSUME NEW t \in Threads, DeleteRuns(t) PROVE OneRule
  <2>1. opened[t] \in Keys /\ Len(opened[t]) >= 2
        BY <1>3 DEF DeleteRuns, PolicyInv
  <2>2. Keys' = Keys \ Subtree(opened[t]) /\ changed = {}
        BY <1>3 DEF DeleteRuns, Keys
  <2>3. lost = Subtree(opened[t])
        BY <2>2 DEF Subtree
  <2>4. opened[t] \in Above(opened[t])
    <3>1. opened[t] \in Seq(Segments) /\ opened[t] # <<>>
          BY <1>3, <2>1, RequestShape DEF DeleteRuns, PolicyInv, PolicyTypeOK
    <3> QED BY <3>1, SelfAbove
  <2>5. opened[t] \in lost
        BY <2>1, <2>3, <2>4 DEF Subtree
  <2>6. Cardinality(changed) <= 1
    <3> HIDE DEF changed
    <3> QED BY <2>2, FS_EmptySet
  <2> QED BY <2>1, <2>2, <2>3, <2>5, <2>6 DEF OneRule
<1>4. CASE UNCHANGED tree
      BY <1>1, <1>4 DEF Keys
<1> QED BY <1>2, <1>3, <1>4
        DEF PolicyNext, RulesKeyAppears, DeleteOpens, DeleteFails, policyVars
-----------------------------------------------------------------------------
(* The walk takes the steps of Policy and adds none of its own to them. *)
LEMMA WalkTakesPolicySteps == [WalkNext]_walkVars => [PolicyNext]_policyVars
BY DEF WalkNext, ReadStep, NameRule, OpenNamed, OpenNamedFails, QueryValues,
       NameException, CloseException, RuleShown, DeadKey, Finish,
       OtherRequests, walkVars

(* set_rule and delete_rule keep their promises under a reader. *)
LEMMA WalkKeepsPolicyInv == WalkSpec => [](PolicyInv /\ NeverMixed)
<1>1. WalkInit => PolicyInv /\ NeverMixed
      BY PolicyStarts DEF WalkInit
<1>2. PolicyInv /\ NeverMixed /\ [WalkNext]_walkVars => (PolicyInv /\ NeverMixed)'
      BY WalkTakesPolicySteps, PolicyStep, NeverMixedStep
<1> QED BY <1>1, <1>2, PTL DEF WalkSpec

(* No exception is ever left without the rule it is one of                 *)
(* (policy.rs:248-287, 298-340).                                           *)
THEOREM TreeIsClosed == WalkSpec => []PolicyTypeOK
<1>1. PolicyInv => PolicyTypeOK
      BY DEF PolicyInv
<1> QED BY <1>1, WalkKeepsPolicyInv, PTL

(* A rule has the values of one request, never of two (policy.rs:245).     *)
THEOREM EditsNeverMix == WalkSpec => []NeverMixed
BY WalkKeepsPolicyInv, PTL

(* A request changes the values of one rule, or one rule and all its       *)
(* exceptions go (policy.rs:245, 329).                                     *)
THEOREM RequestsChangeOneRule == WalkSpec => OneRuleAtATime
<1>1. PolicyInv /\ [WalkNext]_walkVars => [OneRule]_policyVars
      BY WalkTakesPolicySteps, OneRuleStep
<1> QED BY <1>1, WalkKeepsPolicyInv, PTL DEF WalkSpec, OneRuleAtATime

-----------------------------------------------------------------------------
(* Parents. *)
LEMMA ParentFacts ==
  ASSUME NEW S, NEW c \in Seq(S), Len(c) >= 2
  PROVE  /\ Parent(c) \in Above(c) /\ Parent(c) \in Seq(S)
         /\ Len(Parent(c)) = Len(c) - 1 /\ Parent(c) # <<>>
         /\ Above(c) = Above(Parent(c)) \cup {c}
         /\ c \notin Above(Parent(c))
<1> DEFINE p == Parent(c)
<1>1. Len(c) \in Nat /\ Len(c) - 1 \in 1 .. Len(c)
      OBVIOUS
<1>2. p \in Seq(S) /\ Len(p) = Len(c) - 1
      BY <1>1 DEF Parent
<1>3. p \in Above(c)
      BY <1>1 DEF Above, Parent
<1>4. p # <<>>
      BY <1>1, <1>2
<1>5. c \in Above(c)
      BY SelfAbove
<1> HIDE DEF p
<1>6. ASSUME NEW q \in Above(c), q # c PROVE q \in Above(p)
  <2>1. /\ q \in Seq(S) /\ Len(q) \in 1 .. Len(c)
        /\ \A i \in 1 .. Len(q) : q[i] = c[i]
        BY AboveIsPrefix
  <2>2. Len(q) # Len(c)
        BY <1>6, <2>1, SeqEqual
  <2>3. Len(q) <= Len(p)
        BY <1>1, <1>2, <2>1, <2>2
  <2> QED BY <1>3, <2>3, AboveLinear
<1>7. Above(p) \subseteq Above(c)
      BY <1>3, AboveTransitive
<1>8. c \notin Above(p)
  <2> SUFFICES ASSUME c \in Above(p) PROVE FALSE
      OBVIOUS
  <2>1. Len(c) \in 1 .. Len(p)
        BY <1>2, AboveIsPrefix
  <2> QED BY <1>1, <1>2, <2>1
<1>9. Above(c) = Above(p) \cup {c}
      BY <1>5, <1>6, <1>7
<1> QED BY <1>2, <1>3, <1>4, <1>8, <1>9 DEF p

(* Two paths that are each above the other are one. *)
LEMMA AboveAntisymmetric ==
  ASSUME NEW S, NEW p \in Seq(S), NEW q \in Above(p), p \in Above(q)
  PROVE  p = q
<1>1. q \in Seq(S) /\ Len(q) \in 1 .. Len(p) /\ \A i \in 1 .. Len(q) : q[i] = p[i]
      BY AboveIsPrefix
<1>2. Len(p) \in 1 .. Len(q)
      BY <1>1, AboveIsPrefix
<1>3. Len(p) = Len(q)
      BY <1>1, <1>2
<1> QED BY <1>1, <1>3, SeqEqual

-----------------------------------------------------------------------------
(* A walk over a rule that nobody touches.  What is above the open key is  *)
(* in the answer, as is all below an exception that has been closed.       *)
Undisturbed ==
  /\ rule \in Keys /\ Len(rule) = 2
  /\ deadOpen = {}
  /\ listed \subseteq Subtree(rule)
  /\ at = <<>> => named = rule /\ listed = {}
  /\ at # <<>> => /\ at \in Subtree(rule)
                  /\ named # <<>> => named \in Children(at) /\ at \in listed
                  /\ \A q \in Above(at) \cap Subtree(rule) : q = at \/ q \in listed
  /\ \A q \in listed : q \in Above(at) \/ Children(q) \subseteq listed

NotReading ==
  /\ at = <<>> /\ named = <<>> /\ listed = {} /\ deadOpen = {}
  /\ touched = FALSE

WalkInv ==
  /\ PolicyInv
  /\ rule = <<>> => NotReading
  /\ rule # <<>> /\ ~touched => Undisturbed

(* Keys are paths, and of a rule those with a second segment. *)
LEMMA KeyFacts ==
  ASSUME PolicyInv, NEW q \in Keys
  PROVE  /\ q \in Seq(Segments) /\ q # <<>> /\ q \in Above(q)
         /\ Len(q) \in 1 .. MaxDepth + 1 /\ Above(q) \subseteq Keys
<1>1. q \in Requests
      BY DEF PolicyInv, PolicyTypeOK
<1>2. q \in Seq(Segments) /\ Len(q) \in 1 .. MaxDepth + 2
      BY <1>1, RequestShape
<1>3. q # <<>>
      BY <1>2
<1>4. Len(q) \in 1 .. MaxDepth + 1
      BY <1>2, PolicyAssumption DEF PolicyInv
<1> QED BY <1>2, <1>3, <1>4, SelfAbove DEF PolicyInv, PolicyTypeOK

LEMMA SubtreeFacts ==
  ASSUME PolicyInv, NEW r \in Keys, Len(r) = 2, NEW q \in Subtree(r)
  PROVE  /\ q \in Keys /\ q \in Seq(Segments) /\ Len(q) \in 2 .. MaxDepth + 1
         /\ q # r => /\ Len(q) >= 3 /\ Parent(q) \in Subtree(r)
                    /\ q \in Children(Parent(q))
<1>1. q \in Keys /\ r \in Above(q)
      BY DEF Subtree
<1>2. q \in Seq(Segments) /\ Len(q) \in 1 .. MaxDepth + 1 /\ Above(q) \subseteq Keys
      BY <1>1, KeyFacts
<1>3. Len(r) \in 1 .. Len(q) /\ \A i \in 1 .. Len(r) : r[i] = q[i]
      BY <1>2, <1>1, AboveIsPrefix
<1>4. ASSUME q # r
      PROVE  Len(q) >= 3 /\ Parent(q) \in Subtree(r) /\ q \in Children(Parent(q))
  <2>1. Len(q) # 2
        BY <1>2, <1>3, <1>4, KeyFacts, SeqEqual
  <2>2. Len(q) >= 3
    <3>1. Len(q) \in Nat /\ 2 <= Len(q)
          BY <1>2, <1>3
    <3>2. \A n \in Nat : 2 <= n /\ n # 2 => n >= 3
          OBVIOUS
    <3> QED BY <2>1, <3>1, <3>2
  <2>3. /\ Parent(q) \in Above(q) /\ Len(Parent(q)) = Len(q) - 1
        /\ Parent(q) # <<>>
        BY <1>2, <2>2, ParentFacts
  <2>4. r \in Above(Parent(q))
    <3>1. Len(r) <= Len(Parent(q))
          BY <1>2, <2>2, <2>3
    <3> QED BY <1>1, <1>2, <2>3, <3>1, AboveLinear
  <2>5. Parent(q) \in Subtree(r)
        BY <1>2, <2>3, <2>4 DEF Subtree
  <2>6. q # <<>>
        BY <1>2, <2>2
  <2> QED BY <1>1, <2>2, <2>5, <2>6 DEF Children
<1> QED BY <1>1, <1>2, <1>3, <1>4

(* What is below something below a rule is below the rule. *)
LEMMA ChildFacts ==
  ASSUME PolicyInv, NEW r \in Keys, NEW q \in Subtree(r), NEW c \in Children(q)
  PROVE  /\ c \in Subtree(r) /\ c \in Seq(Segments) /\ Len(c) = Len(q) + 1
         /\ Above(c) = Above(q) \cup {c} /\ c \notin Above(q)
<1>1. c \in Keys /\ Parent(c) = q /\ q \in Keys /\ r \in Above(q)
      BY DEF Children, Subtree
<1>2. c \in Seq(Segments) /\ q \in Seq(Segments) /\ q # <<>> /\ c # <<>>
      BY <1>1, KeyFacts
<1>3. Len(c) # 1
  <2> SUFFICES ASSUME Len(c) = 1 PROVE FALSE
      OBVIOUS
  <2>1. Parent(c) = SubSeq(c, 1, 0)
        BY DEF Parent
  <2>2. SubSeq(c, 1, 0) = <<>>
        BY SubSeqEmpty
  <2> QED BY <1>1, <1>2, <2>1, <2>2
<1>4. Len(c) \in Nat /\ Len(c) # 0
      BY <1>2
<1>5. Len(c) >= 2
  <2>1. \A n \in Nat : n # 0 /\ n # 1 => n >= 2
        OBVIOUS
  <2> QED BY <1>3, <1>4, <2>1
<1>6. /\ q \in Above(c) /\ Len(q) = Len(c) - 1
      /\ Above(c) = Above(q) \cup {c} /\ c \notin Above(q)
      BY <1>1, <1>2, <1>5, ParentFacts
<1>7. Len(c) = Len(q) + 1
      BY <1>4, <1>6
<1> QED BY <1>1, <1>2, <1>6, <1>7 DEF Subtree
-----------------------------------------------------------------------------
(* The steps of the walk itself. *)
LEMMA OpenNamedStep ==
  ASSUME WalkInv, OpenNamed
  PROVE  WalkInv'
<1> USE DEF WalkInv, NotReading
<1>1. /\ named # <<>> /\ named \in Keys /\ at' = named /\ named' = <<>>
      /\ UNCHANGED <<policyVars, rule, listed, deadOpen, touched>>
      BY DEF OpenNamed, Openable
<1>2. Keys' = Keys /\ PolicyInv'
      BY <1>1, PolicyStep DEF policyVars, Keys
<1>3. rule # <<>>
      BY <1>1
<1>4. ASSUME ~touched PROVE Undisturbed'
  <2>1. Undisturbed
        BY <1>3, <1>4
  <2>2. Subtree(rule)' = Subtree(rule)
        BY <1>1, <1>2 DEF Subtree
  <2>3. named \in Subtree(rule)
    <3>1. CASE at = <<>>
          BY <1>1, <2>1, <3>1, KeyFacts DEF Undisturbed, Subtree
    <3>2. CASE at # <<>>
          BY <1>1, <2>1, <3>2, ChildFacts DEF Undisturbed
    <3> QED BY <3>1, <3>2
  <2>4. ASSUME NEW q \in Above(named) \cap Subtree(rule)
        PROVE  q = named \/ q \in listed
    <3>1. CASE at = <<>>
      <4>1. named = rule /\ rule \in Seq(Segments)
            BY <2>1, <3>1, KeyFacts DEF Undisturbed
      <4>2. q \in Above(rule) /\ rule \in Above(q)
            BY <4>1 DEF Subtree
      <4> QED BY <4>1, <4>2, AboveAntisymmetric
    <3>2. CASE at # <<>>
      <4>1. Above(named) = Above(at) \cup {named}
            BY <1>1, <2>1, <3>2, ChildFacts DEF Undisturbed
      <4> QED BY <1>1, <2>1, <3>2, <4>1 DEF Undisturbed
    <3> QED BY <3>1, <3>2
  <2>5. ASSUME NEW q \in listed
        PROVE  q \in Above(named) \/ Children(q) \subseteq listed
    <3>1. at # <<>>
          BY <2>1 DEF Undisturbed
    <3>2. Above(named) = Above(at) \cup {named}
          BY <1>1, <2>1, <3>1, ChildFacts DEF Undisturbed
    <3> QED BY <2>1, <3>2 DEF Undisturbed
  <2>6. \A q : Children(q)' = Children(q)
        BY <1>2 DEF Children
  <2>7. UNCHANGED <<rule, listed, deadOpen>> /\ at' # <<>>
        BY <1>1
  <2> QED BY <1>1, <1>2, <2>1, <2>2, <2>3, <2>4, <2>5, <2>6, <2>7 DEF Undisturbed
<1> QED BY <1>1, <1>2, <1>3, <1>4

LEMMA QueryValuesStep ==
  ASSUME WalkInv, QueryValues
  PROVE  WalkInv'
<1> USE DEF WalkInv, NotReading
<1>1. /\ at # <<>> /\ at \notin listed /\ listed' = listed \cup {at}
      /\ UNCHANGED <<policyVars, rule, at, named, deadOpen, touched>>
      BY DEF QueryValues
<1>2. Keys' = Keys /\ PolicyInv' /\ rule # <<>>
      BY <1>1, PolicyStep DEF policyVars, Keys
<1>3. ASSUME ~touched PROVE Undisturbed'
  <2>1. Undisturbed
        BY <1>2, <1>3
  <2>2. Subtree(rule)' = Subtree(rule) /\ \A q : Children(q)' = Children(q)
        BY <1>1, <1>2 DEF Subtree, Children
  <2>3. named = <<>> /\ at \in Subtree(rule)
        BY <1>1, <2>1 DEF Undisturbed
  <2>4. at \in Above(at)
        BY <2>3, KeyFacts DEF Subtree
  <2>5. UNCHANGED <<rule, at, named, deadOpen>>
        BY <1>1
  <2> QED BY <1>1, <1>2, <2>1, <2>2, <2>3, <2>4, <2>5 DEF Undisturbed
<1> QED BY <1>1, <1>2, <1>3

LEMMA NameExceptionStep ==
  ASSUME WalkInv, NameException
  PROVE  WalkInv'
<1> USE DEF WalkInv, NotReading
<1>1. /\ at \in listed /\ named' \in Children(at)
      /\ UNCHANGED <<policyVars, rule, at, listed, deadOpen, touched>>
      BY DEF NameException
<1>2. Keys' = Keys /\ PolicyInv' /\ rule # <<>>
      BY <1>1, PolicyStep DEF policyVars, Keys
<1>3. ASSUME ~touched PROVE Undisturbed'
  <2>1. Undisturbed
        BY <1>2, <1>3
  <2>2. Subtree(rule)' = Subtree(rule) /\ \A q : Children(q)' = Children(q)
        BY <1>1, <1>2 DEF Subtree, Children
  <2>3. at # <<>>
        BY <1>1, <2>1 DEF Undisturbed
  <2>4. UNCHANGED <<rule, at, listed, deadOpen>>
        BY <1>1
  <2>5. named' \in Children(at)' /\ at' \in listed'
        BY <1>1, <2>2, <2>4
  <2> QED BY <1>2, <2>1, <2>2, <2>3, <2>4, <2>5 DEF Undisturbed
<1> QED BY <1>1, <1>2, <1>3

(* At an undisturbed key, all that is below has been named: the limit on   *)
(* depth never cuts the walk short.                                        *)
LEMMA AllNamed ==
  ASSUME WalkInv, rule # <<>>, ~touched, NoMoreNames
  PROVE  Children(at) \subseteq listed
<1>1. at \in Subtree(rule) /\ rule \in Keys /\ Len(rule) = 2 /\ PolicyInv
      BY DEF WalkInv, Undisturbed, NoMoreNames
<1>2. Len(at) \in 2 .. MaxDepth + 1
      BY <1>1, SubtreeFacts
<1>3. Len(at) - 2 < MaxDepth
  <2>1. \A n \in 2 .. MaxDepth + 1 : n - 2 < MaxDepth
        BY PolicyAssumption
  <2> QED BY <1>2, <2>1
<1> QED BY <1>3 DEF NoMoreNames, GoesDeeper

LEMMA CloseExceptionStep ==
  ASSUME WalkInv, CloseException
  PROVE  WalkInv'
<1> USE DEF WalkInv, NotReading
<1>1. /\ at \in listed /\ named = <<>> /\ at # rule /\ at' = Parent(at)
      /\ deadOpen' = deadOpen \ {at} /\ NoMoreNames
      /\ UNCHANGED <<policyVars, rule, named, listed, touched>>
      BY DEF CloseException, NoMoreNames
<1>2. Keys' = Keys /\ PolicyInv' /\ rule # <<>>
      BY <1>1, PolicyStep DEF policyVars, Keys
<1>3. ASSUME ~touched PROVE Undisturbed'
  <2>1. Undisturbed
        BY <1>2, <1>3
  <2>2. Subtree(rule)' = Subtree(rule) /\ \A q : Children(q)' = Children(q)
        BY <1>1, <1>2 DEF Subtree, Children
  <2>3. at \in Subtree(rule)
        BY <1>1, <2>1 DEF Undisturbed
  <2>4. /\ at \in Seq(Segments) /\ Len(at) >= 3 /\ Len(at) \in Nat
        /\ Parent(at) \in Subtree(rule)
        BY <1>1, <2>1, <2>3, SubtreeFacts DEF Undisturbed
  <2>5. Len(at) >= 2
    <3>1. \A n \in Nat : n >= 3 => n >= 2
          OBVIOUS
    <3> QED BY <2>4, <3>1
  <2>6. /\ Parent(at) # <<>>
        /\ Above(at) = Above(Parent(at)) \cup {at} /\ at \notin Above(Parent(at))
        BY <2>4, <2>5, ParentFacts
  <2>7. ASSUME NEW q \in Above(Parent(at)) \cap Subtree(rule) PROVE q \in listed
        BY <1>1, <2>1, <2>6 DEF Undisturbed
  <2>8. ASSUME NEW q \in listed
        PROVE  q \in Above(Parent(at)) \/ Children(q) \subseteq listed
    <3>1. Children(at) \subseteq listed
          BY <1>1, <1>2, <1>3, AllNamed
    <3> QED BY <2>1, <2>6, <3>1 DEF Undisturbed
  <2>9. UNCHANGED <<rule, named, listed>> /\ deadOpen' = {}
        BY <1>1, <2>1 DEF Undisturbed
  <2> QED BY <1>1, <1>2, <2>1, <2>2, <2>4, <2>6, <2>7, <2>8, <2>9
          DEF Undisturbed
<1> QED BY <1>1, <1>2, <1>3

(* A round begins, and it ends. *)
LEMMA RoundStep ==
  ASSUME WalkInv, NameRule \/ OpenNamedFails \/ RuleShown \/ DeadKey
  PROVE  WalkInv'
<1> USE DEF WalkInv, NotReading
<1>1. UNCHANGED policyVars
      BY DEF NameRule, OpenNamedFails, RuleShown, DeadKey, Finish
<1>2. Keys' = Keys /\ PolicyInv'
      BY <1>1, PolicyStep DEF policyVars, Keys
<1>3. CASE NameRule
  <2>1. PICK r \in Keys : Len(r) = 2 /\ rule' = r /\ named' = r
        BY <1>3 DEF NameRule
  <2>2. rule = <<>> /\ UNCHANGED <<at, listed, deadOpen, touched>>
        BY <1>3 DEF NameRule
  <2>3. r # <<>>
        BY <2>1, KeyFacts
  <2> QED BY <1>2, <2>1, <2>2, <2>3 DEF Undisturbed
<1>4. CASE Finish
      BY <1>2, <1>4 DEF Finish
<1> QED BY <1>3, <1>4 DEF OpenNamedFails, RuleShown, DeadKey

(* What others do without touching the rule leaves the walk as it is. *)
LEMMA OtherRequestsStep ==
  ASSUME WalkInv, OtherRequests
  PROVE  WalkInv'
<1> USE DEF WalkInv
<1>1. /\ PolicyNext /\ UNCHANGED <<rule, at, named, listed>>
      /\ deadOpen' = deadOpen \cup ((Keys \ Keys') \cap Above(at))
      /\ touched' = (touched \/ (rule # <<>> /\ Subtree(rule) # Subtree(rule)'))
      BY DEF OtherRequests
<1>2. PolicyInv'
      BY <1>1, PolicyStep
<1>3. CASE rule = <<>>
  <2>1. NotReading
        BY <1>3
  <2>2. Above(at) = {}
    <3>1. Len(at) = 0 /\ 1 .. 0 = {}
          BY <2>1 DEF NotReading
    <3> QED BY <3>1 DEF Above
  <2>3. NotReading'
        BY <1>1, <1>3, <2>1, <2>2 DEF NotReading
  <2> QED BY <1>1, <1>2, <1>3, <2>3
<1>4. ASSUME rule # <<>>, ~touched' PROVE Undisturbed'
  <2>1. Undisturbed /\ rule' = rule
        BY <1>1, <1>4
  <2>2. Subtree(rule)' = Subtree(rule)
        BY <1>1, <1>4
  <2>3. \A q : q \in Subtree(rule)' <=> q \in Keys' /\ rule \in Above(q)
        BY <2>1 DEF Subtree
  <2>4. \A q : q \in Subtree(rule) <=> q \in Keys /\ rule \in Above(q)
        BY DEF Subtree
  <2>5. rule \in Keys'
        BY <2>1, <2>2, <2>3, <2>4, KeyFacts DEF Undisturbed
  <2>6. ASSUME NEW q \in Subtree(rule) PROVE Children(q)' = Children(q)
    <3>1. ASSUME NEW c \in Children(q) PROVE c \in Keys'
          BY <2>1, <2>2, <2>3, ChildFacts DEF Undisturbed
    <3>2. ASSUME NEW c \in Children(q)' PROVE c \in Keys
      <4>1. c \in Keys' /\ c # <<>> /\ Parent(c) = q
            BY DEF Children
      <4>2. c \in Requests /\ c \in Seq(Segments) /\ Len(c) \in Nat /\ Len(c) # 0
            BY <1>2, <4>1, RequestShape DEF PolicyInv, PolicyTypeOK
      <4>3. q # <<>>
            BY <2>4, KeyFacts
      <4>4. Len(c) # 1
        <5> SUFFICES ASSUME Len(c) = 1 PROVE FALSE
            OBVIOUS
        <5>1. Parent(c) = SubSeq(c, 1, 0)
              BY DEF Parent
        <5>2. SubSeq(c, 1, 0) = <<>>
              BY SubSeqEmpty
        <5> QED BY <4>1, <4>3, <5>1, <5>2
      <4>5. Len(c) >= 2
        <5>1. \A n \in Nat : n # 0 /\ n # 1 => n >= 2
              OBVIOUS
        <5> QED BY <4>2, <4>4, <5>1
      <4>6. Above(q) \subseteq Above(c)
            BY <4>1, <4>2, <4>5, ParentFacts
      <4>7. c \in Subtree(rule)'
            BY <2>3, <2>4, <4>1, <4>6
      <4> QED BY <2>2, <2>4, <4>7
    <3> QED BY <3>1, <3>2 DEF Children
  <2>7. deadOpen' = {}
    <3> SUFFICES ASSUME NEW q \in (Keys \ Keys') \cap Above(at) PROVE FALSE
        BY <1>1, <2>1 DEF Undisturbed
    <3>1. OneRule
          BY <1>1, OneRuleStep
    <3>2. PICK p \in Keys \ Keys' : Len(p) >= 2 /\ Keys \ Keys' = Subtree(p)
          BY <3>1 DEF OneRule
    <3>3. q \in Subtree(p) /\ q \in Seq(Segments) /\ p \in Seq(Segments)
          BY <3>2, KeyFacts
    <3>4. Len(p) \in 1 .. Len(q)
          BY <3>3, AboveIsPrefix DEF Subtree
    <3>5. Len(q) >= 2
      <4>1. \A m \in Nat, n \in Nat : m >= 2 /\ m \in 1 .. n => n >= 2
            OBVIOUS
      <4>2. Len(p) \in Nat /\ Len(q) \in Nat
            BY <3>3
      <4> QED BY <3>2, <3>4, <4>1, <4>2
    <3>6. at # <<>>
      <4> SUFFICES ASSUME at = <<>> PROVE FALSE
          OBVIOUS
      <4>1. Len(at) = 0 /\ 1 .. 0 = {}
            OBVIOUS
      <4> QED BY <4>1 DEF Above
    <3>7. at \in Subtree(rule) /\ at \in Seq(Segments) /\ rule \in Above(at)
          BY <2>1, <2>4, <3>6, KeyFacts DEF Undisturbed
    <3>8. Len(rule) <= Len(q)
          BY <2>1, <3>5 DEF Undisturbed
    <3>9. rule \in Above(q)
          BY <3>7, <3>8, AboveLinear
    <3> QED BY <2>2, <2>3, <2>4, <3>9
  <2>8. UNCHANGED <<rule, at, named, listed>>
        BY <1>1
  <2>9. at # <<>> => Children(at)' = Children(at)
        BY <2>1, <2>6, <2>8 DEF Undisturbed
  <2>10. \A q \in listed : Children(q)' = Children(q)
        BY <2>1, <2>6 DEF Undisturbed
  <2> QED BY <2>1, <2>2, <2>5, <2>7, <2>8, <2>9, <2>10 DEF Undisturbed
<1> QED BY <1>1, <1>2, <1>3, <1>4

LEMMA WalkStep == WalkInv /\ [WalkNext]_walkVars => WalkInv'
<1> SUFFICES ASSUME WalkInv, [WalkNext]_walkVars PROVE WalkInv'
    OBVIOUS
<1>1. CASE UNCHANGED walkVars
  <2>1. PolicyInv'
        BY <1>1, PolicyStep DEF walkVars, WalkInv
  <2>2. UNCHANGED <<tree, rule, at, named, listed, deadOpen, touched>>
        BY <1>1 DEF walkVars, policyVars, readVars
  <2> QED BY <2>1, <2>2 DEF WalkInv, NotReading, Undisturbed, Subtree, Children, Keys
<1> QED BY <1>1, RoundStep, OpenNamedStep, QueryValuesStep, NameExceptionStep,
           CloseExceptionStep, OtherRequestsStep DEF WalkNext, ReadStep

-----------------------------------------------------------------------------
(* What holds the rule and is closed under exceptions is all of it. *)
LEMMA ClosedIsWhole ==
  ASSUME PolicyInv, rule \in Keys, Len(rule) = 2,
         rule \in listed, listed \subseteq Subtree(rule),
         \A q \in listed : Children(q) \subseteq listed
  PROVE  listed = Subtree(rule)
<1> SUFFICES ASSUME Subtree(rule) \ listed # {} PROVE FALSE
    OBVIOUS
<1> DEFINE lens == {Len(q) : q \in Subtree(rule) \ listed}
<1>1. \A q \in Subtree(rule) : Len(q) \in Nat
      BY SubtreeFacts
<1>2. lens \in SUBSET Nat /\ lens # {}
      BY <1>1
<1>3. PICK n \in lens : \A m \in lens : n <= m
      BY <1>2, LeastNatural
<1>4. PICK q \in Subtree(rule) \ listed : Len(q) = n
      BY <1>3
<1>5. /\ Len(q) >= 3 /\ Parent(q) \in Subtree(rule) /\ q \in Children(Parent(q))
      /\ q \in Seq(Segments)
      BY <1>4, SubtreeFacts
<1>6. Len(Parent(q)) = Len(q) - 1
  <2>1. \A m \in Nat : m >= 3 => m >= 2
        OBVIOUS
  <2> QED BY <1>1, <1>4, <1>5, <2>1, ParentFacts
<1>7. CASE Parent(q) \in listed
      BY <1>4, <1>5, <1>7
<1>8. CASE Parent(q) \notin listed
  <2>1. Len(q) <= Len(Parent(q))
        BY <1>3, <1>4, <1>5, <1>8
  <2>2. \A m \in Nat : ~(m <= m - 1)
        OBVIOUS
  <2> QED BY <1>1, <1>4, <1>6, <2>1, <2>2
<1> QED BY <1>7, <1>8

(* A rule that nobody adds to or deletes from while it is read is answered *)
(* whole, for every limit on depth (policy.rs:67-101, 117-172).            *)
THEOREM ReadsAreWhole == WalkSpec => ReadAnswers
<1> DEFINE Whole == rule # <<>> /\ rule' = <<>> /\ ~touched =>
                      RuleShown /\ listed = Subtree(rule)
<1>1. WalkInit => WalkInv
      BY PolicyStarts DEF WalkInit, WalkInv, NotReading
<1>2. WalkInv /\ [WalkNext]_walkVars => [Whole]_walkVars
  <2> SUFFICES ASSUME WalkInv, WalkNext, rule # <<>>, rule' = <<>>, ~touched
               PROVE  RuleShown /\ listed = Subtree(rule)
      OBVIOUS
  <2>1. Undisturbed /\ PolicyInv
        BY DEF WalkInv
  <2>2. OpenNamedFails \/ RuleShown \/ DeadKey
        BY DEF WalkNext, ReadStep, NameRule, OpenNamed, QueryValues,
           NameException, CloseException, OtherRequests
  <2>3. ~DeadKey
        BY <2>1 DEF Undisturbed, DeadKey
  <2>4. ~OpenNamedFails
        BY <2>1 DEF Undisturbed, OpenNamedFails, Openable, Children
  <2>5. RuleShown /\ NoMoreNames /\ at = rule /\ rule \in listed
        BY <2>2, <2>3, <2>4 DEF RuleShown, NoMoreNames
  <2>6. Children(rule) \subseteq listed
        BY <2>5, AllNamed
  <2>7. ASSUME NEW q \in listed PROVE Children(q) \subseteq listed
    <3>1. CASE q \in Above(rule)
      <4>1. rule \in Above(q) /\ rule \in Seq(Segments)
            BY <2>1, KeyFacts DEF Undisturbed, Subtree
      <4>2. q = rule
            BY <3>1, <4>1, AboveAntisymmetric
      <4> QED BY <2>6, <4>2
    <3>2. CASE q \notin Above(rule)
          BY <2>1, <2>5, <3>2 DEF Undisturbed
    <3> QED BY <3>1, <3>2
  <2> QED BY <2>1, <2>5, <2>7, ClosedIsWhole DEF Undisturbed
<1> QED BY <1>1, <1>2, WalkStep, PTL DEF WalkSpec, ReadAnswers
==============================================================================
