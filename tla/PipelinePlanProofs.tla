--------------------------- MODULE PipelinePlanProofs -------------------------
(***************************************************************************)
(* Machine-checked proofs about PipelinePlan, for any nodes, models and    *)
(* configurations: the validator accepts exactly the configurations that   *)
(* are well formed, an accepted plan has every node once and after all     *)
(* that it waits for, and what shares a layer may run at once.             *)
(*                                                                         *)
(* Induction is over sets of numbers, from the well-founded order of the   *)
(* naturals; Reach and FlattenSeq are unfolded with it.                    *)
(***************************************************************************)
EXTENDS PipelinePlan, FiniteSetTheorems, SequenceTheorems, TLAPS

-----------------------------------------------------------------------------
(* Induction, as sets of numbers *)

(* A set of numbers that is not empty has a least one. *)
LEMMA LeastNumber ==
  ASSUME NEW S \in SUBSET Nat, S # {}
  PROVE  \E m \in S : \A k \in S : m <= k
<1> DEFINE R == OpToRel(<, Nat)
<1>1. IsWellFoundedOn(R, Nat)
  BY NatLessThanWellFounded
<1>2. \A i, j \in Nat : <<i, j>> \in R <=> i < j
  BY DEF OpToRel
<1> HIDE DEF R
<1>3. PICK m \in S : \A k \in S : <<k, m>> \notin R
  BY <1>1, WFMin, Zenon
<1>4. \A k \in S : ~(k < m)
  BY <1>2, <1>3
<1>5. \A k \in S : m <= k
  BY <1>4
<1> QED BY <1>5

(* A set with 0, and with n + 1 whenever it has n, has every number. *)
LEMMA InductionOnNumbers ==
  ASSUME NEW S, 0 \in S, \A n \in Nat : n \in S => n + 1 \in S
  PROVE  \A n \in Nat : n \in S
<1> DEFINE T == Nat \ S
<1> SUFFICES ASSUME T # {} PROVE FALSE
  OBVIOUS
<1>1. PICK m \in T : \A k \in T : m <= k
  BY LeastNumber
<1>2. m # 0 /\ m - 1 \in Nat /\ m - 1 \notin T
  BY <1>1
<1> QED BY <1>2

-----------------------------------------------------------------------------
(* Sequences that are flattened *)

(* The function FlattenSeq computes, from its first element on.            *)
Flat(ls) == CHOOSE f : f = [i \in 1 .. Len(ls) |->
                              IF i = 1 THEN ls[i] ELSE f[i - 1] \o ls[i]]

(* FlattenSeq takes the last value of Flat. *)
LEMMA FlattenIsFlat ==
  ASSUME NEW ls, Len(ls) # 0
  PROVE  FlattenSeq(ls) = Flat(ls)[Len(ls)]
BY DEF FlattenSeq, Flat

(* Flat satisfies its equation: the function exists for every sequence. *)
LEMMA FlatIsDefined ==
  ASSUME NEW T, NEW ls \in Seq(T)
  PROVE  Flat(ls) = [i \in 1 .. Len(ls) |->
                       IF i = 1 THEN ls[i] ELSE Flat(ls)[i - 1] \o ls[i]]
<1> DEFINE Step(f, i) == IF i = 1 THEN ls[i] ELSE f[i - 1] \o ls[i]
           S == {n \in Nat : \E f : f = [i \in 1 .. n |-> Step(f, i)]}
<1>1. 0 \in S
  <2>1. \A f : [i \in 1 .. 0 |-> Step(f, i)] = <<>>
    OBVIOUS
  <2> HIDE DEF Step
  <2>2. <<>> = [i \in 1 .. 0 |-> Step(<<>>, i)]
    BY <2>1
  <2> QED BY <2>2
<1>2. ASSUME NEW n \in Nat, n \in S
      PROVE  n + 1 \in S
  <2>1. PICK f : f = [i \in 1 .. n |-> Step(f, i)]
    BY <1>2
  <2> DEFINE e == [i \in 1 .. n |-> Step(f, i)]
  <2>a. f = e
    BY <2>1
  <2> DEFINE g == [i \in 1 .. n + 1 |-> IF i <= n THEN f[i] ELSE Step(f, i)]
  <2>2. \A i \in 1 .. n + 1 : g[i] = Step(g, i)
    <3>1. \A i \in 1 .. n : g[i] = f[i] /\ f[i] = Step(f, i)
      <4> HIDE DEF Step
      <4>1. \A i \in 1 .. n : e[i] = Step(f, i)
        OBVIOUS
      <4>2. \A i \in 1 .. n : g[i] = f[i]
        OBVIOUS
      <4> HIDE DEF e, g
      <4> QED BY <2>a, <4>1, <4>2
    <3>2. \A i \in 1 .. n + 1 : i # 1 => i - 1 \in 1 .. n
      OBVIOUS
    <3>3. \A i \in 1 .. n + 1 : g[i] = Step(f, i)
      <4> HIDE DEF Step
      <4>1. \A i \in 1 .. n + 1 : g[i] = IF i <= n THEN f[i] ELSE Step(f, i)
        OBVIOUS
      <4> HIDE DEF e, g
      <4> QED BY <3>1, <4>1
    <3>4. \A i \in 1 .. n + 1 : Step(g, i) = Step(f, i)
      BY <3>1, <3>2
    <3> QED BY <3>3, <3>4
  <2>3. g = [i \in 1 .. n + 1 |-> Step(g, i)]
    <3>1. g = [i \in 1 .. n + 1 |-> g[i]]
      OBVIOUS
    <3> HIDE DEF g, Step
    <3> QED BY <2>2, <3>1
  <2>4. \E h : h = [i \in 1 .. n + 1 |-> Step(h, i)]
    <3> HIDE DEF g, Step
    <3> QED BY <2>3, Zenon
  <2> HIDE DEF Step
  <2> QED BY <2>4
<1> HIDE DEF S
<1>3. Len(ls) \in S
  BY <1>1, <1>2, InductionOnNumbers, LenProperties
<1>4. \E f : f = [i \in 1 .. Len(ls) |-> Step(f, i)]
  BY <1>3 DEF S
<1> QED BY <1>4 DEF Flat

(* Flattening one piece more appends that piece. *)
LEMMA FlattenAppend ==
  ASSUME NEW S, NEW ls \in Seq(Seq(S)), NEW l \in Seq(S)
  PROVE  /\ FlattenSeq(ls) \in Seq(S)
         /\ FlattenSeq(Append(ls, l)) = FlattenSeq(ls) \o l
<1> DEFINE n == Len(ls)
           f == Flat(ls)
           more == Append(ls, l)
           g == Flat(more)
<1>1. n \in Nat /\ \A i \in 1 .. n : ls[i] \in Seq(S)
  BY LenProperties, ElementOfSeq
<1>2. /\ more \in Seq(Seq(S)) /\ Len(more) = n + 1 /\ more[n + 1] = l
      /\ \A i \in 1 .. n : more[i] = ls[i]
  BY AppendProperties
<1>3. \A i \in 1 .. n : f[i] = IF i = 1 THEN ls[i] ELSE f[i - 1] \o ls[i]
  <2> DEFINE e == [i \in 1 .. n |-> IF i = 1 THEN ls[i] ELSE f[i - 1] \o ls[i]]
  <2>1. f = e
    BY FlatIsDefined
  <2> HIDE DEF f
  <2>2. \A i \in 1 .. n : e[i] = IF i = 1 THEN ls[i] ELSE f[i - 1] \o ls[i]
    OBVIOUS
  <2> HIDE DEF e
  <2> QED BY <2>1, <2>2
<1>4. \A i \in 1 .. n + 1 : g[i] = IF i = 1 THEN more[i] ELSE g[i - 1] \o more[i]
  <2>1. g = [i \in 1 .. Len(more) |-> IF i = 1 THEN more[i] ELSE g[i - 1] \o more[i]]
    BY <1>2, FlatIsDefined
  <2> QED BY <1>2, <2>1
<1> DEFINE Good == {i \in Nat : i \in 1 .. n => f[i] \in Seq(S) /\ g[i] = f[i]}
<1> HIDE DEF n, f, more, g
<1>5. 0 \in Good
  OBVIOUS
<1>6. ASSUME NEW i \in Nat, i \in Good
      PROVE  i + 1 \in Good
  <2> SUFFICES ASSUME i + 1 \in 1 .. n
               PROVE  f[i + 1] \in Seq(S) /\ g[i + 1] = f[i + 1]
    OBVIOUS
  <2>1. i + 1 \in 1 .. n + 1 /\ more[i + 1] = ls[i + 1] /\ ls[i + 1] \in Seq(S)
    BY <1>1, <1>2
  <2>2. CASE i = 0
    BY <1>3, <1>4, <2>1, <2>2
  <2>3. CASE i # 0
    <3>1. i \in 1 .. n /\ f[i] \in Seq(S) /\ g[i] = f[i]
      BY <1>1, <1>6, <2>3
    <3>2. PICK k : k = i + 1
      OBVIOUS
    <3>3. k \in 1 .. n /\ k \in 1 .. n + 1 /\ k # 1 /\ k - 1 = i
      BY <1>1, <2>3, <3>2
    <3>4. f[k] = f[k - 1] \o ls[k] /\ g[k] = g[k - 1] \o more[k]
      BY <1>3, <1>4, <3>3, Zenon
    <3>5. f[i + 1] = f[i] \o ls[i + 1] /\ g[i + 1] = g[i] \o more[i + 1]
      BY <3>2, <3>3, <3>4, Zenon
    <3> QED BY <2>1, <3>1, <3>5, ConcatProperties
  <2> QED BY <2>2, <2>3
<1>7. \A i \in 1 .. n : f[i] \in Seq(S) /\ g[i] = f[i]
  <2> HIDE DEF Good
  <2>1. \A i \in Nat : i \in Good
    BY <1>5, <1>6, InductionOnNumbers
  <2> QED BY <1>1, <2>1 DEF Good
<1>8. FlattenSeq(more) = g[n + 1]
  BY <1>1, <1>2, FlattenIsFlat DEF g
<1>9. CASE n = 0
  <2>1. ls = <<>>
    BY <1>9, EmptySeq DEF n
  <2>2. FlattenSeq(ls) = <<>>
    BY <2>1 DEF FlattenSeq
  <2>3. g[1] = l
    BY <1>2, <1>4, <1>9
  <2> QED BY <1>8, <1>9, <2>2, <2>3, ConcatEmptySeq DEF more
<1>10. CASE n # 0
  <2>1. n \in 1 .. n /\ n + 1 \in 1 .. n + 1 /\ n + 1 # 1 /\ n + 1 - 1 = n
    BY <1>1, <1>10
  <2>2. FlattenSeq(ls) = f[n]
    BY <1>10, FlattenIsFlat DEF n, f
  <2>3. g[n + 1] = g[n] \o l
    <3>1. PICK k : k = n + 1
      OBVIOUS
    <3>2. k \in 1 .. n + 1 /\ k # 1 /\ k - 1 = n
      BY <2>1, <3>1
    <3>3. g[k] = g[k - 1] \o more[k]
      BY <1>4, <3>2, Zenon
    <3> QED BY <1>2, <3>1, <3>2, <3>3, Zenon
  <2> QED BY <1>7, <1>8, <2>1, <2>2, <2>3 DEF more
<1> QED BY <1>9, <1>10

-----------------------------------------------------------------------------
(* Sequences without repetition *)

(* What a sequence has is in the set that its elements are from. *)
LEMMA SetOfSeq ==
  ASSUME NEW S, NEW s \in Seq(S)
  PROVE  ToSet(s) \subseteq S /\ ToSet(s) = {s[i] : i \in 1 .. Len(s)}
<1>1. DOMAIN s = 1 .. Len(s) /\ \A i \in 1 .. Len(s) : s[i] \in S
  BY LenProperties, ElementOfSeq
<1> QED BY <1>1 DEF ToSet

(* The empty sequence has nothing, and nothing twice. *)
LEMMA EmptySet ==
  ToSet(<<>>) = {} /\ IsInjective(<<>>)
<1>1. DOMAIN <<>> = {}
  OBVIOUS
<1> QED BY <1>1 DEF ToSet, IsInjective

(* Two sequences end to end have what each of them has, nothing twice      *)
(* when they share nothing.                                                *)
LEMMA ConcatSet ==
  ASSUME NEW S, NEW s \in Seq(S), NEW t \in Seq(S)
  PROVE  /\ s \o t \in Seq(S)
         /\ ToSet(s \o t) = ToSet(s) \cup ToSet(t)
         /\ IsInjective(s \o t) <=>
              IsInjective(s) /\ IsInjective(t) /\ ToSet(s) \cap ToSet(t) = {}
<1> DEFINE m == Len(s)
           n == Len(t)
           c == s \o t
<1>1. /\ m \in Nat /\ n \in Nat /\ DOMAIN s = 1 .. m /\ DOMAIN t = 1 .. n
      /\ DOMAIN c = 1 .. m + n
      /\ c \in Seq(S)
      /\ \A i \in 1 .. m + n : c[i] = IF i <= m THEN s[i] ELSE t[i - m]
  BY ConcatProperties, LenProperties
<1>2. \A i \in 1 .. m : i \in 1 .. m + n /\ c[i] = s[i] /\ s[i] \in ToSet(s)
  BY <1>1 DEF ToSet
<1>3. \A i \in 1 .. n : m + i \in 1 .. m + n /\ c[m + i] = t[i] /\ t[i] \in ToSet(t)
  <2> HIDE DEF m, n, c
  <2> TAKE i \in 1 .. n
  <2>1. PICK k : k = m + i
    OBVIOUS
  <2>2. k \in 1 .. m + n /\ k - m = i /\ ~(k <= m)
    BY <1>1, <2>1
  <2>3. c[k] = t[i]
    BY <1>1, <2>2, Zenon
  <2> QED BY <1>1, <2>1, <2>2, <2>3, Zenon DEF ToSet
<1>4. \A i \in 1 .. m + n : i \in 1 .. m \/ \E k \in 1 .. n : i = m + k
  <2> HIDE DEF m, n
  <2> TAKE i \in 1 .. m + n
  <2>1. i \in 1 .. m \/ (i - m \in 1 .. n /\ i = m + (i - m))
    BY <1>1
  <2> QED BY <2>1
<1> HIDE DEF m, n, c
<1>5. ToSet(c) = ToSet(s) \cup ToSet(t)
  <2>1. ToSet(c) \subseteq ToSet(s) \cup ToSet(t)
    <3> SUFFICES ASSUME NEW i \in 1 .. m + n PROVE c[i] \in ToSet(s) \cup ToSet(t)
      BY <1>1 DEF ToSet
    <3> QED BY <1>2, <1>3, <1>4
  <2>2. ToSet(s) \subseteq ToSet(c)
    BY <1>1, <1>2 DEF ToSet
  <2>3. ToSet(t) \subseteq ToSet(c)
    <3> SUFFICES ASSUME NEW i \in 1 .. n PROVE t[i] \in ToSet(c)
      BY <1>1, Zenon DEF ToSet
    <3> QED BY <1>1, <1>3, Zenon DEF ToSet
  <2> QED BY <2>1, <2>2, <2>3
<1>6. ASSUME IsInjective(c)
      PROVE  IsInjective(s) /\ IsInjective(t) /\ ToSet(s) \cap ToSet(t) = {}
  <2>1. IsInjective(s)
    BY <1>1, <1>2, <1>6 DEF IsInjective
  <2>2. ASSUME NEW i \in 1 .. n, NEW j \in 1 .. n, t[i] = t[j]
        PROVE  i = j
    <3>1. m + i = m + j
      BY <1>1, <1>3, <1>6, <2>2 DEF IsInjective
    <3> QED BY <1>1, <3>1
  <2>3. ASSUME NEW i \in 1 .. m, NEW j \in 1 .. n, s[i] = t[j]
        PROVE  FALSE
    <3>1. i = m + j
      BY <1>1, <1>2, <1>3, <1>6, <2>3 DEF IsInjective
    <3> QED BY <1>1, <3>1
  <2>4. IsInjective(t)
    BY <1>1, <2>2 DEF IsInjective
  <2>5. ToSet(s) \cap ToSet(t) = {}
    BY <1>1, <2>3 DEF ToSet
  <2> QED BY <2>1, <2>4, <2>5
<1>7. ASSUME IsInjective(s), IsInjective(t), ToSet(s) \cap ToSet(t) = {}
      PROVE  IsInjective(c)
  <2> SUFFICES ASSUME NEW i \in 1 .. m + n, NEW j \in 1 .. m + n, c[i] = c[j]
               PROVE  i = j
    BY <1>1 DEF IsInjective
  <2>1. CASE i \in 1 .. m /\ j \in 1 .. m
    BY <1>1, <1>2, <1>7, <2>1 DEF IsInjective
  <2>2. CASE \E k, l \in 1 .. n : i = m + k /\ j = m + l
    <3>1. PICK k \in 1 .. n, l \in 1 .. n : i = m + k /\ j = m + l
      BY <2>2
    <3>2. c[i] = t[k] /\ c[j] = t[l]
      BY <1>3, <3>1, Zenon
    <3>3. k = l
      BY <1>1, <1>7, <3>2, Zenon DEF IsInjective
    <3> QED BY <3>1, <3>3, Zenon
  <2>3. CASE i \in 1 .. m /\ \E l \in 1 .. n : j = m + l
    BY <1>2, <1>3, <1>7, <2>3
  <2>4. CASE j \in 1 .. m /\ \E k \in 1 .. n : i = m + k
    BY <1>2, <1>3, <1>7, <2>4
  <2> QED BY <1>4, <2>1, <2>2, <2>3, <2>4
<1> QED BY <1>1, <1>5, <1>6, <1>7 DEF c

(* A sequence of one element. *)
LEMMA OneSet ==
  ASSUME NEW S, NEW x \in S
  PROVE  <<x>> \in Seq(S) /\ ToSet(<<x>>) = {x} /\ IsInjective(<<x>>)
<1>1. <<x>> \in Seq(S) /\ DOMAIN <<x>> = {1} /\ <<x>>[1] = x
  OBVIOUS
<1> QED BY <1>1 DEF ToSet, IsInjective

(* An element that is new can be appended to a sequence without            *)
(* repetition.                                                             *)
LEMMA AppendSet ==
  ASSUME NEW S, NEW s \in Seq(S), NEW x \in S
  PROVE  /\ Append(s, x) \in Seq(S)
         /\ ToSet(Append(s, x)) = ToSet(s) \cup {x}
         /\ IsInjective(s) /\ x \notin ToSet(s) => IsInjective(Append(s, x))
<1>1. Append(s, x) = s \o <<x>>
  BY AppendIsConcat
<1>2. <<x>> \in Seq(S) /\ ToSet(<<x>>) = {x} /\ IsInjective(<<x>>)
  BY OneSet
<1>3. /\ s \o <<x>> \in Seq(S)
      /\ ToSet(s \o <<x>>) = ToSet(s) \cup ToSet(<<x>>)
      /\ IsInjective(s) /\ IsInjective(<<x>>) /\ ToSet(s) \cap ToSet(<<x>>) = {}
           => IsInjective(s \o <<x>>)
  BY <1>2, ConcatSet
<1> QED BY <1>1, <1>2, <1>3

(* A sequence without repetition is as long as what it has is many. *)
LEMMA SizeOfSeq ==
  ASSUME NEW S, NEW s \in Seq(S), IsInjective(s)
  PROVE  IsFiniteSet(ToSet(s)) /\ Cardinality(ToSet(s)) = Len(s)
<1>1. Len(s) \in Nat /\ DOMAIN s = 1 .. Len(s) /\ s \in [1 .. Len(s) -> S]
  BY LenProperties
<1>2. s \in Bijection(1 .. Len(s), ToSet(s))
  <2>1. s \in [1 .. Len(s) -> ToSet(s)]
    BY <1>1 DEF ToSet
  <2>2. \A x \in ToSet(s) : \E i \in 1 .. Len(s) : s[i] = x
    BY <1>1 DEF ToSet
  <2> QED BY <2>1, <2>2 DEF Bijection, Injection, Surjection
<1>3. ExistsBijection(1 .. Len(s), ToSet(s))
  BY <1>2 DEF ExistsBijection
<1> QED BY <1>1, <1>3, FS_CountingElements, FS_NatBijection

(* SetToSeq lists a finite set, each element once. *)
LEMMA SeqOfSet ==
  ASSUME NEW S, IsFiniteSet(S)
  PROVE  SetToSeq(S) \in Seq(S) /\ IsInjective(SetToSeq(S)) /\ ToSet(SetToSeq(S)) = S
<1> DEFINE n == Cardinality(S)
           f == SetToSeq(S)
<1>1. n \in Nat /\ ExistsBijection(1 .. n, S)
  BY FS_CardinalityType
<1>2. \E g \in [1 .. n -> S] : IsInjective(g)
  BY <1>1 DEF ExistsBijection, Bijection, Injection
<1>3. f \in [1 .. n -> S] /\ IsInjective(f)
  BY <1>2 DEF SetToSeq
<1>4. f \in Seq(S)
  <2> HIDE DEF f, n
  <2>1. f \in UNION {[1 .. k -> S] : k \in Nat}
    BY <1>1, <1>3
  <2> QED BY <2>1, SeqDef
<1>5. f \in Injection(1 .. n, S)
  BY <1>3 DEF Injection
<1>6. Cardinality(1 .. n) = n
  <2>1. Cardinality(1 .. n) = IF 1 > n THEN 0 ELSE n - 1 + 1
    BY <1>1, FS_Interval
  <2> HIDE DEF n
  <2> QED BY <1>1, <2>1
<1> HIDE DEF f
<1>7. f \in Surjection(1 .. n, S)
  BY <1>5, <1>6, FS_Injection
<1>8. ToSet(f) = S
  <2>1. DOMAIN f = 1 .. n
    BY <1>3
  <2>2. \A x \in S : \E i \in 1 .. n : f[i] = x
    BY <1>7 DEF Surjection
  <2>3. \A i \in 1 .. n : f[i] \in S
    BY <1>3
  <2> HIDE DEF n
  <2> QED BY <2>1, <2>2, <2>3 DEF ToSet
<1> QED BY <1>3, <1>4, <1>8 DEF f

(* A sequence of pieces that share nothing flattens to one that has what   *)
(* they have, each once.                                                   *)
AllOf(ls) == UNION {ToSet(ls[l]) : l \in DOMAIN ls}

LEMMA FlattenedSet ==
  ASSUME NEW S
  PROVE  \A ls \in Seq(Seq(S)) :
           /\ FlattenSeq(ls) \in Seq(S)
           /\ ToSet(FlattenSeq(ls)) = AllOf(ls)
           /\ (\A l \in DOMAIN ls : /\ IsInjective(ls[l])
                                    /\ \A m \in 1 .. l - 1 : ToSet(ls[l]) \cap ToSet(ls[m]) = {})
                => IsInjective(FlattenSeq(ls))
<1> DEFINE Apart(ls) == \A l \in DOMAIN ls :
                          /\ IsInjective(ls[l])
                          /\ \A m \in 1 .. l - 1 : ToSet(ls[l]) \cap ToSet(ls[m]) = {}
           Good(ls) == /\ FlattenSeq(ls) \in Seq(S)
                       /\ ToSet(FlattenSeq(ls)) = AllOf(ls)
                       /\ Apart(ls) => IsInjective(FlattenSeq(ls))
           N == {n \in Nat : \A ls \in Seq(Seq(S)) : Len(ls) = n => Good(ls)}
<1>1. 0 \in N
  <2> SUFFICES ASSUME NEW ls \in Seq(Seq(S)), Len(ls) = 0
               PROVE  Good(ls)
    OBVIOUS
  <2>1. ls = <<>> /\ FlattenSeq(<<>>) = <<>>
    BY EmptySeq DEF FlattenSeq
  <2>2. <<>> \in Seq(S) /\ DOMAIN <<>> = {}
    BY EmptySeq
  <2> QED BY <2>1, <2>2, EmptySet DEF AllOf
<1>2. ASSUME NEW n \in Nat, n \in N
      PROVE  n + 1 \in N
  <2> SUFFICES ASSUME NEW more \in Seq(Seq(S)), Len(more) = n + 1
               PROVE  Good(more)
    OBVIOUS
  <2>1. more # <<>>
    BY EmptySeq
  <2>2. PICK ls \in Seq(Seq(S)), l \in Seq(S) : more = Append(ls, l)
    BY <2>1, SequenceEmptyOrAppend
  <2>3. /\ Len(ls) = n /\ DOMAIN ls = 1 .. n /\ DOMAIN more = 1 .. n + 1
        /\ \A i \in 1 .. n : more[i] = ls[i]
        /\ more[n + 1] = l
    <3>1. /\ Len(more) = Len(ls) + 1 /\ more[Len(ls) + 1] = l
          /\ \A i \in 1 .. Len(ls) : more[i] = ls[i]
      BY <2>2, AppendProperties
    <3>2. Len(ls) \in Nat /\ DOMAIN ls = 1 .. Len(ls) /\ DOMAIN more = 1 .. Len(more)
      BY LenProperties
    <3>3. Len(ls) = n
      BY <3>1, <3>2
    <3> QED BY <3>1, <3>2, <3>3
  <2>4. Good(ls)
    BY <1>2, <2>3
  <2>5. FlattenSeq(more) = FlattenSeq(ls) \o l /\ FlattenSeq(ls) \in Seq(S)
    BY <2>2, FlattenAppend
  <2>6. /\ FlattenSeq(more) \in Seq(S)
        /\ ToSet(FlattenSeq(more)) = ToSet(FlattenSeq(ls)) \cup ToSet(l)
        /\ IsInjective(FlattenSeq(ls)) /\ IsInjective(l)
             /\ ToSet(FlattenSeq(ls)) \cap ToSet(l) = {} => IsInjective(FlattenSeq(more))
    BY <2>5, ConcatSet
  <2>7. \A i \in 1 .. n + 1 : i \in 1 .. n \/ i = n + 1
    OBVIOUS
  <2>8. AllOf(more) = AllOf(ls) \cup ToSet(l)
    <3>1. \A i \in 1 .. n : i \in 1 .. n + 1
      OBVIOUS
    <3>2. n + 1 \in 1 .. n + 1
      OBVIOUS
    <3> QED BY <2>3, <2>7, <3>1, <3>2 DEF AllOf
  <2>9. ASSUME Apart(more)
        PROVE  Apart(ls) /\ IsInjective(l) /\ AllOf(ls) \cap ToSet(l) = {}
    <3>1. Apart(ls)
      <4> SUFFICES ASSUME NEW i \in 1 .. n
                   PROVE  /\ IsInjective(ls[i])
                          /\ \A m \in 1 .. i - 1 : ToSet(ls[i]) \cap ToSet(ls[m]) = {}
        BY <2>3
      <4>1. i \in 1 .. n + 1 /\ \A m \in 1 .. i - 1 : m \in 1 .. n
        OBVIOUS
      <4> QED BY <2>3, <2>9, <4>1
    <3>2. IsInjective(l) /\ \A m \in 1 .. n : ToSet(l) \cap ToSet(more[m]) = {}
      <4>1. n + 1 \in DOMAIN more
        BY <2>3
      <4>2. PICK p : p = n + 1
        OBVIOUS
      <4>3. /\ IsInjective(more[p])
            /\ \A m \in 1 .. p - 1 : ToSet(more[p]) \cap ToSet(more[m]) = {}
        BY <2>9, <4>1, <4>2, Zenon
      <4>4. more[p] = l /\ p - 1 = n
        BY <2>3, <4>2
      <4> QED BY <4>3, <4>4, Zenon
    <3>3. \A m \in 1 .. n : ToSet(l) \cap ToSet(ls[m]) = {}
      BY <2>3, <3>2
    <3>4. AllOf(ls) \cap ToSet(l) = {}
      <4> SUFFICES ASSUME NEW m \in 1 .. n, NEW x \in ToSet(ls[m]), x \in ToSet(l)
                   PROVE  FALSE
        BY <2>3, Zenon DEF AllOf
      <4> QED BY <3>3, Zenon
    <3> HIDE DEF Apart
    <3> QED BY <3>1, <3>2, <3>4
  <2> HIDE DEF Apart
  <2> QED BY <2>4, <2>6, <2>8, <2>9
<1>3. \A n \in Nat : n \in N
  <2> HIDE DEF N
  <2> QED BY <1>1, <1>2, InductionOnNumbers
<1> QED BY <1>3, LenProperties

-----------------------------------------------------------------------------
(* Nodes in the order of the configuration *)

(* The configuration lists each node once. *)
LEMMA NodesAreListed ==
  /\ NodeList \in Seq(Node) /\ IsFiniteSet(Node) /\ Cardinality(Node) = Len(NodeList)
  /\ Len(NodeList) \in Nat /\ DOMAIN NodeList = 1 .. Len(NodeList)
  /\ \A n \in Node : \E i \in 1 .. Len(NodeList) : NodeList[i] = n
  /\ \A i \in 1 .. Len(NodeList) : NodeList[i] \in Node
<1>1. NodeList \in Seq(Node) /\ IsInjective(NodeList)
  BY PlanningAssumption
<1>2. DOMAIN NodeList = 1 .. Len(NodeList) /\ Len(NodeList) \in Nat
  BY <1>1, LenProperties
<1>3. IsFiniteSet(Node) /\ Cardinality(Node) = Len(NodeList)
  BY <1>1, SizeOfSeq DEF Node
<1> QED BY <1>1, <1>2, <1>3 DEF Node, ToSet

(* InOrder lists the nodes of a set, each once. *)
LEMMA InOrderLists ==
  ASSUME NEW S, S \subseteq Node
  PROVE  InOrder(S) \in Seq(S) /\ IsInjective(InOrder(S)) /\ ToSet(InOrder(S)) = S
<1> DEFINE at == {i \in DOMAIN NodeList : NodeList[i] \in S}
           before(i) == {j \in at : j < i}
           rank == [i \in at |-> Cardinality(before(i)) + 1]
           count == Cardinality(at)
           place(k) == CHOOSE i \in at : Cardinality({j \in at : j < i}) = k - 1
           list == InOrder(S)
<1>1. list = [k \in 1 .. count |-> NodeList[place(k)]]
  BY DEF InOrder
<1>2. at \subseteq 1 .. Len(NodeList) /\ at \subseteq Nat /\ IsFiniteSet(at) /\ count \in Nat
  <2>1. at \subseteq 1 .. Len(NodeList) /\ Len(NodeList) \in Nat
    BY NodesAreListed
  <2>2. IsFiniteSet(1 .. Len(NodeList))
    BY <2>1, FS_Interval
  <2>3. IsFiniteSet(at)
    BY <2>1, <2>2, FS_Subset
  <2> QED BY <2>1, <2>3, FS_CardinalityType
<1> HIDE DEF at, list
<1>3. \A i \in at : IsFiniteSet(before(i)) /\ Cardinality(before(i)) \in Nat
  <2> TAKE i \in at
  <2>1. before(i) \subseteq at
    OBVIOUS
  <2> HIDE DEF before
  <2> QED BY <1>2, <2>1, FS_Subset, FS_CardinalityType
<1>4. \A i \in at : Cardinality(before(i)) < count
  <2> TAKE i \in at
  <2>1. before(i) \subseteq at /\ i \notin before(i)
    BY <1>2
  <2> HIDE DEF before
  <2>2. Cardinality(before(i)) <= count /\ (count = Cardinality(before(i)) => at = before(i))
    BY <1>2, <2>1, FS_Subset
  <2> QED BY <1>2, <1>3, <2>1, <2>2
<1>5. \A i, j \in at : i < j => Cardinality(before(i)) < Cardinality(before(j))
  <2> SUFFICES ASSUME NEW i \in at, NEW j \in at, i < j
               PROVE  Cardinality(before(i)) < Cardinality(before(j))
    OBVIOUS
  <2>1. before(i) \subseteq before(j) /\ i \in before(j) /\ i \notin before(i)
    <3>1. i \in Nat /\ j \in Nat /\ \A k \in at : k \in Nat
      BY <1>2
    <3>2. \A k \in at : k < i => k < j
      BY <3>1
    <3>3. ~(i < i)
      BY <3>1
    <3> QED BY <3>2, <3>3, Zenon
  <2> HIDE DEF before
  <2>2. /\ Cardinality(before(i)) <= Cardinality(before(j))
        /\ Cardinality(before(j)) = Cardinality(before(i)) => before(j) = before(i)
    BY <1>3, <2>1, FS_Subset
  <2> QED BY <1>3, <2>1, <2>2
<1>6. rank \in [at -> 1 .. count] /\ IsInjective(rank)
  <2>1. \A i \in at : Cardinality(before(i)) + 1 \in 1 .. count
    <3> HIDE DEF before
    <3> QED BY <1>2, <1>3, <1>4
  <2>2. \A i, j \in at : Cardinality(before(i)) + 1 = Cardinality(before(j)) + 1 => i = j
    <3> HIDE DEF before
    <3> QED BY <1>2, <1>3, <1>5
  <2> HIDE DEF before
  <2> QED BY <2>1, <2>2 DEF IsInjective
<1>7. rank \in Surjection(at, 1 .. count)
  <2>1. rank \in Injection(at, 1 .. count)
    BY <1>6 DEF Injection
  <2>2. IsFiniteSet(1 .. count) /\ Cardinality(1 .. count) = IF 1 > count THEN 0 ELSE count - 1 + 1
    BY <1>2, FS_Interval
  <2>3. Cardinality(1 .. count) = count
    BY <1>2, <2>2
  <2> HIDE DEF rank
  <2> QED BY <1>2, <2>1, <2>2, <2>3, FS_Injection
<1>8. \A k \in 1 .. count : \E i \in at : Cardinality(before(i)) = k - 1
  <2> TAKE k \in 1 .. count
  <2>1. PICK i \in at : rank[i] = k
    BY <1>7 DEF Surjection
  <2>2. Cardinality(before(i)) + 1 = k
    BY <2>1
  <2> HIDE DEF before
  <2> QED BY <1>3, <2>2
<1>9. \A k \in 1 .. count : place(k) \in at /\ Cardinality(before(place(k))) = k - 1
  BY <1>8
<1>10. \A i \in at : Cardinality(before(i)) + 1 \in 1 .. count
                     /\ place(Cardinality(before(i)) + 1) = i
  <2> TAKE i \in at
  <2>1. rank[i] = Cardinality(before(i)) + 1 /\ rank[i] \in 1 .. count
    BY <1>6
  <2> DEFINE k == Cardinality(before(i)) + 1
  <2>2. k \in 1 .. count
    BY <2>1
  <2>3. place(k) \in at /\ Cardinality(before(place(k))) = k - 1
    BY <1>9, <2>2
  <2>4. Cardinality(before(place(k))) = Cardinality(before(i))
    <3> HIDE DEF before, place
    <3> QED BY <1>3, <2>3
  <2> HIDE DEF before, place, k
  <2>5. place(k) = i
    <3>1. place(k) \in at /\ place(k) \in Nat /\ i \in Nat
      BY <1>2, <2>3
    <3>2. ~(place(k) < i) /\ ~(i < place(k))
      BY <1>3, <1>5, <2>4, <3>1
    <3> QED BY <3>1, <3>2
  <2> QED BY <2>2, <2>5 DEF k
<1> HIDE DEF rank, before, place, count
<1>11. \A k \in 1 .. count : list[k] = NodeList[place(k)] /\ place(k) \in at
  BY <1>1, <1>9
<1>12. list \in [1 .. count -> S] /\ DOMAIN list = 1 .. count
  BY <1>1, <1>11 DEF at
<1>13. list \in Seq(S)
  <2>1. list \in UNION {[1 .. k -> S] : k \in Nat}
    BY <1>2, <1>12
  <2> QED BY <2>1, SeqDef
<1>14. IsInjective(list)
  <2> SUFFICES ASSUME NEW k \in 1 .. count, NEW l \in 1 .. count, list[k] = list[l]
               PROVE  k = l
    BY <1>12 DEF IsInjective
  <2>1. place(k) = place(l)
    <3>1. place(k) \in DOMAIN NodeList /\ place(l) \in DOMAIN NodeList
      BY <1>11 DEF at
    <3>2. NodeList[place(k)] = NodeList[place(l)]
      BY <1>11
    <3> QED BY <3>1, <3>2, PlanningAssumption, Zenon DEF IsInjective
  <2>2. k - 1 = l - 1
    BY <1>9, <2>1
  <2> QED BY <1>2, <2>2
<1>15. ToSet(list) = S
  <2>1. ASSUME NEW n \in S
        PROVE  n \in ToSet(list)
    <3>1. PICK i \in at : NodeList[i] = n
      BY NodesAreListed DEF at
    <3> DEFINE k == Cardinality(before(i)) + 1
    <3>2. k \in 1 .. count /\ place(k) = i
      BY <1>10
    <3>3. list[k] = n
      BY <1>11, <3>1, <3>2
    <3> QED BY <1>12, <3>2, <3>3 DEF ToSet
  <2> QED BY <1>12, <2>1 DEF ToSet
<1> QED BY <1>13, <1>14, <1>15 DEF list

-----------------------------------------------------------------------------
(* Layers *)

(* What the first k layers have, and what comes before layer l. *)
Upto(ls, k) == UNION {ToSet(ls[m]) : m \in 1 .. k}
Before(ls, l) == Upto(ls, l - 1)

(* Layers with what they wait for among C and the layers before, each node *)
(* once and none in C.                                                     *)
Layered(ls, C) ==
  /\ ls \in Seq(Seq(Node))
  /\ \A l \in DOMAIN ls :
       /\ ls[l] # <<>> /\ IsInjective(ls[l])
       /\ ToSet(ls[l]) \cap (C \cup Before(ls, l)) = {}
       /\ \A n \in ToSet(ls[l]) : Dependencies(n) \subseteq C \cup Before(ls, l)

(* The order of the layers has every node of theirs, each once. *)
LEMMA LayersFlatten ==
  ASSUME NEW ls, Layered(ls, {})
  PROVE  /\ FlattenSeq(ls) \in Seq(Node) /\ IsInjective(FlattenSeq(ls))
         /\ ToSet(FlattenSeq(ls)) = AllOf(ls)
<1>1. ls \in Seq(Seq(Node))
  BY DEF Layered
<1>2. \A l \in DOMAIN ls : /\ IsInjective(ls[l])
                           /\ \A m \in 1 .. l - 1 : ToSet(ls[l]) \cap ToSet(ls[m]) = {}
  BY DEF Layered, Before, Upto
<1> QED BY <1>1, <1>2, FlattenedSet

(* No layers have no nodes. *)
LEMMA NoLayers ==
  ASSUME NEW C
  PROVE  Layered(<<>>, C) /\ AllOf(<<>>) = {}
<1>1. <<>> \in Seq(Seq(Node)) /\ DOMAIN <<>> = {}
  BY EmptySeq
<1> QED BY <1>1 DEF Layered, AllOf

(* A layer is added whose nodes wait for what is there. *)
LEMMA LayerIsAdded ==
  ASSUME NEW C, NEW ls, Layered(ls, C), NEW layer \in Seq(Node),
         layer # <<>>, IsInjective(layer), ToSet(layer) \cap (C \cup AllOf(ls)) = {},
         \A n \in ToSet(layer) : Dependencies(n) \subseteq C \cup AllOf(ls)
  PROVE  /\ Layered(Append(ls, layer), C)
         /\ AllOf(Append(ls, layer)) = AllOf(ls) \cup ToSet(layer)
<1> DEFINE k == Len(ls)
           more == Append(ls, layer)
<1>1. /\ ls \in Seq(Seq(Node)) /\ k \in Nat /\ DOMAIN ls = 1 .. k
      /\ more \in Seq(Seq(Node)) /\ DOMAIN more = 1 .. k + 1
      /\ \A l \in 1 .. k : more[l] = ls[l]
      /\ more[k + 1] = layer
  BY LenProperties, AppendProperties DEF Layered
<1> HIDE DEF k, more
<1>2. 1 .. k + 1 = (1 .. k) \cup {k + 1}
  BY <1>1
<1>3. \A l \in 1 .. k : Before(more, l) = Before(ls, l)
  <2> TAKE l \in 1 .. k
  <2>1. \A m \in 1 .. l - 1 : more[m] = ls[m]
    BY <1>1
  <2> QED BY <2>1 DEF Before, Upto
<1>4. Before(more, k + 1) = AllOf(ls)
  <2>1. Before(more, k + 1) = Upto(more, k)
    <3>1. k + 1 - 1 = k
      BY <1>1
    <3> QED BY <1>1, <3>1 DEF Before
  <2>2. Upto(more, k) = Upto(ls, k)
    BY <1>1 DEF Upto
  <2> QED BY <1>1, <2>1, <2>2 DEF AllOf, Upto
<1>5. AllOf(more) = AllOf(ls) \cup ToSet(layer)
  BY <1>1, <1>2, SMTT(30) DEF AllOf
<1>6. \A l \in 1 .. k + 1 :
        /\ more[l] # <<>> /\ IsInjective(more[l])
        /\ ToSet(more[l]) \cap (C \cup Before(more, l)) = {}
        /\ \A n \in ToSet(more[l]) : Dependencies(n) \subseteq C \cup Before(more, l)
  <2> TAKE l \in 1 .. k + 1
  <2>1. CASE l \in 1 .. k
    BY <1>1, <1>3, <2>1 DEF Layered
  <2>2. CASE l = k + 1
    BY <1>1, <1>4, <2>2
  <2> QED BY <1>2, <2>1, <2>2
<1> QED BY <1>1, <1>5, <1>6 DEF Layered, more

(* The first layer waits for C alone, and the others for it and C. *)
LEMMA LayerIsTaken ==
  ASSUME NEW C, NEW ls, Layered(ls, C), ls # <<>>
  PROVE  /\ ls[1] \in Seq(Node) /\ IsInjective(ls[1]) /\ ToSet(ls[1]) \cap C = {}
         /\ \A n \in ToSet(ls[1]) : Dependencies(n) \subseteq C
         /\ Layered(Tail(ls), C \cup ToSet(ls[1]))
         /\ AllOf(ls) = ToSet(ls[1]) \cup AllOf(Tail(ls))
<1> DEFINE k == Len(ls)
           rest == Tail(ls)
<1>1. ls \in Seq(Seq(Node)) /\ k \in Nat \ {0} /\ DOMAIN ls = 1 .. k
  BY LenProperties, EmptySeq DEF Layered
<1>2. /\ rest \in Seq(Seq(Node)) /\ DOMAIN rest = 1 .. k - 1
      /\ \A l \in 1 .. k - 1 : rest[l] = ls[l + 1]
  <2>1. /\ rest \in Seq(Seq(Node)) /\ Len(rest) = k - 1
        /\ \A l \in 1 .. Len(rest) : rest[l] = ls[l + 1]
    BY <1>1, HeadTailProperties
  <2>2. DOMAIN rest = 1 .. Len(rest)
    BY <2>1, LenProperties
  <2> HIDE DEF rest, k
  <2> QED BY <2>1, <2>2
<1> HIDE DEF k, rest
<1>3. ls[1] \in Seq(Node) /\ 1 \in 1 .. k
  BY <1>1, ElementOfSeq DEF k
<1>4. Before(ls, 1) = {}
  BY DEF Before, Upto
<1>5. \A l \in 1 .. k - 1 :
        l + 1 \in 1 .. k /\ Before(ls, l + 1) = ToSet(ls[1]) \cup Before(rest, l)
  <2> TAKE l \in 1 .. k - 1
  <2>1. l + 1 \in 1 .. k /\ l + 1 - 1 = l /\ l \in Nat
    BY <1>1
  <2>2. \A m \in 1 .. l : m = 1 \/ (m - 1 \in 1 .. l - 1 /\ m = m - 1 + 1)
    BY <1>1
  <2>3. \A m \in 1 .. l - 1 : m + 1 \in 1 .. l /\ m \in 1 .. k - 1
    BY <1>1
  <2>4. 1 \in 1 .. l
    BY <1>1
  <2>5. Before(ls, l + 1) = UNION {ToSet(ls[m]) : m \in 1 .. l}
    <3>1. Before(ls, l + 1) = Upto(ls, l)
      BY <2>1 DEF Before
    <3> QED BY <3>1 DEF Upto
  <2>6. UNION {ToSet(ls[m]) : m \in 1 .. l} \subseteq ToSet(ls[1]) \cup Before(rest, l)
    <3> SUFFICES ASSUME NEW m \in 1 .. l, m # 1
                 PROVE  ToSet(ls[m]) \subseteq Before(rest, l)
      OBVIOUS
    <3>1. PICK i \in 1 .. l - 1 : m = i + 1
      BY <2>2
    <3>2. rest[i] = ls[m]
      BY <1>2, <2>3, <3>1
    <3> QED BY <3>2 DEF Before, Upto
  <2>7. Before(rest, l) \subseteq UNION {ToSet(ls[m]) : m \in 1 .. l}
    <3> SUFFICES ASSUME NEW m \in 1 .. l - 1
                 PROVE  \E i \in 1 .. l : ToSet(rest[m]) = ToSet(ls[i])
      BY DEF Before, Upto
    <3> QED BY <1>2, <2>3
  <2> QED BY <2>1, <2>4, <2>5, <2>6, <2>7
<1>6. \A l \in 1 .. k - 1 :
        /\ rest[l] # <<>> /\ IsInjective(rest[l])
        /\ ToSet(rest[l]) \cap (C \cup ToSet(ls[1]) \cup Before(rest, l)) = {}
        /\ \A n \in ToSet(rest[l]) :
             Dependencies(n) \subseteq C \cup ToSet(ls[1]) \cup Before(rest, l)
  <2> TAKE l \in 1 .. k - 1
  <2>1. l + 1 \in DOMAIN ls /\ rest[l] = ls[l + 1]
    BY <1>1, <1>2, <1>5
  <2>2. /\ ls[l + 1] # <<>> /\ IsInjective(ls[l + 1])
        /\ ToSet(ls[l + 1]) \cap (C \cup Before(ls, l + 1)) = {}
        /\ \A n \in ToSet(ls[l + 1]) : Dependencies(n) \subseteq C \cup Before(ls, l + 1)
    BY <2>1 DEF Layered
  <2> QED BY <1>5, <2>1, <2>2
<1>7. AllOf(ls) = ToSet(ls[1]) \cup AllOf(rest)
  <2>1. \A m \in 1 .. k : m = 1 \/ (m - 1 \in 1 .. k - 1 /\ m = m - 1 + 1)
    BY <1>1
  <2>2. \A m \in 1 .. k - 1 : m + 1 \in 1 .. k
    BY <1>1
  <2>3. AllOf(ls) \subseteq ToSet(ls[1]) \cup AllOf(rest)
    <3> SUFFICES ASSUME NEW m \in 1 .. k, m # 1
                 PROVE  ToSet(ls[m]) \subseteq AllOf(rest)
      BY <1>1 DEF AllOf
    <3>1. PICK i \in 1 .. k - 1 : m = i + 1
      BY <2>1
    <3>2. rest[i] = ls[m]
      BY <1>2, <3>1
    <3> QED BY <1>2, <3>2 DEF AllOf
  <2>4. AllOf(rest) \subseteq AllOf(ls)
    <3> SUFFICES ASSUME NEW m \in 1 .. k - 1
                 PROVE  \E i \in 1 .. k : ToSet(rest[m]) = ToSet(ls[i])
      BY <1>1, <1>2 DEF AllOf
    <3> QED BY <1>2, <2>2
  <2>5. ToSet(ls[1]) \subseteq AllOf(ls)
    BY <1>1, <1>3 DEF AllOf
  <2> QED BY <2>3, <2>4, <2>5
<1>8. /\ IsInjective(ls[1]) /\ ToSet(ls[1]) \cap C = {}
      /\ \A n \in ToSet(ls[1]) : Dependencies(n) \subseteq C
  BY <1>1, <1>3, <1>4 DEF Layered
<1>9. Layered(rest, C \cup ToSet(ls[1]))
  BY <1>2, <1>6 DEF Layered
<1> QED BY <1>3, <1>7, <1>8, <1>9 DEF rest

(* The nodes of q, each a layer of its own. *)
LEMMA NodesAreAdded ==
  ASSUME NEW ls, Layered(ls, {}), NEW q \in Seq(Node), IsInjective(q),
         ToSet(q) \cap AllOf(ls) = {},
         \A n \in ToSet(q) : Dependencies(n) \subseteq AllOf(ls)
  PROVE  /\ Layered(ls \o [i \in DOMAIN q |-> <<q[i]>>], {})
         /\ AllOf(ls \o [i \in DOMAIN q |-> <<q[i]>>]) = AllOf(ls) \cup ToSet(q)
<1> DEFINE alone == [i \in DOMAIN q |-> <<q[i]>>]
           k == Len(ls)
           m == Len(q)
           more == ls \o alone
<1>1. ls \in Seq(Seq(Node)) /\ k \in Nat /\ DOMAIN ls = 1 .. k
  BY LenProperties DEF Layered
<1>2. m \in Nat /\ DOMAIN q = 1 .. m /\ \A i \in 1 .. m : q[i] \in Node
  BY LenProperties, ElementOfSeq
<1>3. /\ alone \in Seq(Seq(Node)) /\ Len(alone) = m /\ DOMAIN alone = 1 .. m
      /\ \A i \in 1 .. m : alone[i] = <<q[i]>>
  <2>1. DOMAIN alone = 1 .. m /\ \A i \in 1 .. m : alone[i] = <<q[i]>>
    BY <1>2
  <2>2. \A i \in 1 .. m : alone[i] \in Seq(Node)
    BY <1>2, <2>1, OneSet
  <2>3. alone \in [1 .. m -> Seq(Node)]
    <3>1. alone = [i \in 1 .. m |-> alone[i]]
      BY <1>2
    <3> HIDE DEF alone, m
    <3> QED BY <2>2, <3>1
  <2> HIDE DEF alone, m
  <2>4. alone \in UNION {[1 .. n -> Seq(Node)] : n \in Nat}
    BY <1>2, <2>3
  <2>5. alone \in Seq(Seq(Node))
    BY <2>4, SeqDef
  <2>6. Len(alone) \in Nat /\ DOMAIN alone = 1 .. Len(alone)
    BY <2>5, LenProperties
  <2>7. Len(alone) = m
    BY <1>2, <2>1, <2>6
  <2> QED BY <2>1, <2>5, <2>7
<1> HIDE DEF alone
<1>4. /\ more \in Seq(Seq(Node)) /\ DOMAIN more = 1 .. k + m
      /\ \A l \in 1 .. k + m : more[l] = IF l <= k THEN ls[l] ELSE alone[l - k]
  <2>1. /\ more \in Seq(Seq(Node)) /\ Len(more) = k + Len(alone)
        /\ \A l \in 1 .. k + Len(alone) : more[l] = IF l <= k THEN ls[l] ELSE alone[l - k]
    <3>1. \A S : \A s, t \in Seq(S) :
             /\ s \o t \in Seq(S) /\ Len(s \o t) = Len(s) + Len(t)
             /\ \A l \in 1 .. Len(s) + Len(t) :
                  (s \o t)[l] = IF l <= Len(s) THEN s[l] ELSE t[l - Len(s)]
      BY ConcatProperties, Zenon
    <3>2. ls \in Seq(Seq(Node)) /\ alone \in Seq(Seq(Node))
      BY <1>1, <1>3, Zenon
    <3> QED BY <3>1, <3>2, Zenon
  <2>2. DOMAIN more = 1 .. Len(more)
    BY <2>1, LenProperties
  <2> HIDE DEF more, k, m
  <2> QED BY <1>3, <2>1, <2>2
<1> HIDE DEF more, k, m
<1>5. \A l \in 1 .. k : l \in 1 .. k + m /\ more[l] = ls[l] /\ Before(more, l) = Before(ls, l)
  <2> TAKE l \in 1 .. k
  <2>1. \A i \in 1 .. k : i \in 1 .. k + m /\ more[i] = ls[i]
    BY <1>1, <1>2, <1>4
  <2>2. \A i \in 1 .. l - 1 : i \in 1 .. k
    BY <1>1
  <2> QED BY <2>1, <2>2 DEF Before, Upto
<1>6. \A i \in 1 .. m : /\ k + i \in 1 .. k + m
                        /\ more[k + i] = <<q[i]>>
                        /\ ToSet(more[k + i]) = {q[i]} /\ IsInjective(more[k + i])
  <2> TAKE i \in 1 .. m
  <2>1. PICK l : l = k + i
    OBVIOUS
  <2>2. l \in 1 .. k + m /\ ~(l <= k) /\ l - k = i
    BY <1>1, <1>2, <2>1
  <2>3. more[l] = alone[i] /\ alone[i] = <<q[i]>>
    BY <1>3, <1>4, <2>2, Zenon
  <2>4. ToSet(<<q[i]>>) = {q[i]} /\ IsInjective(<<q[i]>>)
    BY <1>2, OneSet
  <2> QED BY <2>1, <2>2, <2>3, <2>4, Zenon
<1>7. \A l \in 1 .. k + m : l \in 1 .. k \/ \E i \in 1 .. m : l = k + i
  <2> TAKE l \in 1 .. k + m
  <2>1. l \in 1 .. k \/ (l - k \in 1 .. m /\ l = k + (l - k))
    BY <1>1, <1>2
  <2> QED BY <2>1
<1>8. \A i \in 1 .. m :
        Before(more, k + i) = AllOf(ls) \cup {q[j] : j \in 1 .. i - 1}
  <2> TAKE i \in 1 .. m
  <2> PICK p : p = k + i - 1
    OBVIOUS
  <2>0. Before(more, k + i) = UNION {ToSet(more[l]) : l \in 1 .. p}
    <3>1. Before(more, k + i) = Upto(more, p)
      BY <1>1, <1>2 DEF Before
    <3> QED BY <3>1 DEF Upto
  <2>1. \A l \in 1 .. p : l \in 1 .. k \/ \E j \in 1 .. i - 1 : l = k + j
    <3> SUFFICES ASSUME NEW l \in 1 .. p, l \notin 1 .. k
                 PROVE  \E j \in 1 .. i - 1 : l = k + j
      BY <1>1, <1>2
    <3>1. l - k \in 1 .. i - 1 /\ l = k + (l - k)
      BY <1>1, <1>2
    <3> QED BY <3>1
  <2>2. /\ \A l \in 1 .. k : l \in 1 .. p
        /\ \A j \in 1 .. i - 1 : k + j \in 1 .. p /\ j \in 1 .. m
    BY <1>1, <1>2
  <2>3. Before(more, k + i) \subseteq AllOf(ls) \cup {q[j] : j \in 1 .. i - 1}
    <3> SUFFICES ASSUME NEW l \in 1 .. p
                 PROVE  ToSet(more[l]) \subseteq AllOf(ls) \cup {q[j] : j \in 1 .. i - 1}
      BY <2>0
    <3>1. CASE l \in 1 .. k
      BY <1>1, <1>5, <3>1 DEF AllOf
    <3>2. CASE \E j \in 1 .. i - 1 : l = k + j
      <4>1. PICK j \in 1 .. i - 1 : l = k + j
        BY <3>2
      <4>2. j \in 1 .. m
        BY <2>2, Zenon
      <4>3. ToSet(more[l]) = {q[j]}
        BY <1>6, <4>1, <4>2, Zenon
      <4> QED BY <4>3, Zenon
    <3> QED BY <2>1, <3>1, <3>2
  <2>4. AllOf(ls) \subseteq Before(more, k + i)
    <3> SUFFICES ASSUME NEW l \in 1 .. k PROVE ToSet(ls[l]) \subseteq Before(more, k + i)
      BY <1>1 DEF AllOf
    <3>1. l \in 1 .. p /\ more[l] = ls[l]
      BY <1>5, <2>2
    <3> QED BY <2>0, <3>1
  <2>5. \A j \in 1 .. i - 1 : q[j] \in Before(more, k + i)
    <3> TAKE j \in 1 .. i - 1
    <3>1. k + j \in 1 .. p /\ ToSet(more[k + j]) = {q[j]}
      BY <1>6, <2>2
    <3> QED BY <2>0, <3>1
  <2> QED BY <2>3, <2>4, <2>5
<1>9. \A l \in 1 .. k + m :
        /\ more[l] # <<>> /\ IsInjective(more[l])
        /\ ToSet(more[l]) \cap Before(more, l) = {}
        /\ \A n \in ToSet(more[l]) : Dependencies(n) \subseteq Before(more, l)
  <2> TAKE l \in 1 .. k + m
  <2>1. CASE l \in 1 .. k
    BY <1>1, <1>5, <2>1 DEF Layered
  <2>2. CASE \E i \in 1 .. m : l = k + i
    <3>1. PICK i \in 1 .. m : l = k + i
      BY <2>2
    <3>2. q[i] \in ToSet(q)
      BY <1>2 DEF ToSet
    <3>3. \A j \in 1 .. i - 1 : q[j] # q[i]
      <4>1. \A j \in 1 .. i - 1 : j \in 1 .. m /\ j # i
        BY <1>2
      <4> QED BY <1>2, <4>1 DEF IsInjective
    <3>4. <<q[i]>> # <<>>
      OBVIOUS
    <3> QED BY <1>6, <1>8, <3>1, <3>2, <3>3, <3>4, ZenonT(60)
  <2> QED BY <1>7, <2>1, <2>2
<1>10. Layered(more, {})
  BY <1>4, <1>9 DEF Layered
<1>11. AllOf(more) = AllOf(ls) \cup ToSet(q)
  <2>1. AllOf(more) \subseteq AllOf(ls) \cup ToSet(q)
    <3> SUFFICES ASSUME NEW l \in 1 .. k + m
                 PROVE  ToSet(more[l]) \subseteq AllOf(ls) \cup ToSet(q)
      BY <1>4 DEF AllOf
    <3>1. CASE l \in 1 .. k
      BY <1>1, <1>5, <3>1 DEF AllOf
    <3>2. CASE \E i \in 1 .. m : l = k + i
      BY <1>2, <1>6, <3>2 DEF ToSet
    <3> QED BY <1>7, <3>1, <3>2
  <2>2. AllOf(ls) \subseteq AllOf(more)
    BY <1>1, <1>4, <1>5 DEF AllOf
  <2>3. \A i \in 1 .. m : q[i] \in AllOf(more)
    <3> TAKE i \in 1 .. m
    <3>1. k + i \in DOMAIN more /\ q[i] \in ToSet(more[k + i])
      BY <1>4, <1>6
    <3> QED BY <3>1 DEF AllOf
  <2>4. ToSet(q) \subseteq AllOf(more)
    BY <1>2, <2>3 DEF ToSet
  <2> QED BY <2>1, <2>2, <2>4
<1> QED BY <1>10, <1>11 DEF more, alone

-----------------------------------------------------------------------------
(* What a node waits for *)

(* What PlanningAssumption says of the configuration that is planned. *)
LEMMA ConfigTypes ==
  ASSUME config \in Configs, NEW n \in Node
  PROVE  /\ config.depends_on[n] \in Seq(Node \cup {Unknown})
         /\ ToSet(config.depends_on[n]) \subseteq Node \cup {Unknown}
         /\ config.sources[n] \subseteq Node \cup {Unknown}
         /\ config.workers \in Nat
         /\ Needs(n) \subseteq Node
<1>1. config \in ConfigType
  BY PlanningAssumption
<1>2. /\ config.depends_on[n] \in Seq(Node \cup {Unknown})
      /\ config.sources[n] \subseteq Node \cup {Unknown}
      /\ config.workers \in Nat
  BY <1>1 DEF ConfigType
<1>3. ToSet(config.depends_on[n]) \subseteq Node \cup {Unknown}
  BY <1>2, SetOfSeq
<1> QED BY <1>2, <1>3 DEF Needs

(* Each dependency counts once, where it is named first.                   *)
LEMMA CountedOnce ==
  ASSUME NEW n \in Node, depends_on[n] \in Seq(Node \cup {Unknown})
  PROVE  /\ Dependencies(n) = ToSet(depends_on[n]) \cap (Node \ {n})
         /\ IsFiniteSet(Dependencies(n))
         /\ Cardinality(Counted(n)) = Cardinality(Dependencies(n))
         /\ Counted(n) = DOMAIN depends_on[n] <=>
              ToSet(depends_on[n]) \subseteq Node \ {n} /\ IsInjective(depends_on[n])
<1> DEFINE s == depends_on[n]
<1>1. DOMAIN s = 1 .. Len(s) /\ Len(s) \in Nat
  BY LenProperties
<1>2. \A d \in Counted(n) : d \in 1 .. Len(s) /\ s[d] \in Node \ {n}
  BY <1>1 DEF Counted
<1>3. \A d, e \in Counted(n) : s[d] = s[e] => d = e
  <2> SUFFICES ASSUME NEW d \in Counted(n), NEW e \in Counted(n), s[d] = s[e], d < e
               PROVE  FALSE
    BY <1>2
  <2>1. d \in 1 .. e - 1
    BY <1>2
  <2> QED BY <2>1 DEF Counted
<1>4. \A x \in ToSet(s) \cap (Node \ {n}) : \E d \in Counted(n) : s[d] = x
  <2> SUFFICES ASSUME NEW x \in ToSet(s), x \in Node \ {n}
               PROVE  \E d \in Counted(n) : s[d] = x
    OBVIOUS
  <2> DEFINE at == {i \in 1 .. Len(s) : s[i] = x}
  <2>1. at # {} /\ at \subseteq Nat
    BY <1>1 DEF ToSet
  <2>2. PICK d \in at : \A e \in at : d <= e
    BY <2>1, LeastNumber
  <2>3. \A e \in 1 .. d - 1 : s[e] # s[d]
    <3> SUFFICES ASSUME NEW e \in 1 .. d - 1, s[e] = x
                 PROVE  FALSE
      BY <2>2
    <3>1. e \in 1 .. Len(s) /\ e < d /\ d \in Nat /\ e \in Nat
      BY <1>1, <2>2
    <3>2. e \in at
      BY <3>1
    <3> QED BY <2>2, <3>1, <3>2
  <2>4. d \in Counted(n)
    BY <1>1, <2>2, <2>3 DEF Counted
  <2> QED BY <2>2, <2>4
<1>5. Dependencies(n) = ToSet(s) \cap (Node \ {n})
  <2>1. Dependencies(n) \subseteq ToSet(s) \cap (Node \ {n})
    BY <1>1, <1>2 DEF Dependencies, ToSet
  <2> QED BY <1>4, <2>1 DEF Dependencies
<1>6. IsFiniteSet(Dependencies(n)) /\ Cardinality(Counted(n)) = Cardinality(Dependencies(n))
  <2> DEFINE f == [d \in Counted(n) |-> s[d]]
  <2>1. f \in Bijection(Counted(n), Dependencies(n))
    <3>1. f \in [Counted(n) -> Dependencies(n)]
      BY DEF Dependencies
    <3>2. IsInjective(f)
      BY <1>3 DEF IsInjective
    <3>3. \A x \in Dependencies(n) : \E d \in Counted(n) : f[d] = x
      BY DEF Dependencies
    <3> QED BY <3>1, <3>2, <3>3 DEF Bijection, Injection, Surjection
  <2>2. IsFiniteSet(Counted(n))
    <3>1. IsFiniteSet(1 .. Len(s)) /\ Counted(n) \subseteq 1 .. Len(s)
      BY <1>1, <1>2, FS_Interval
    <3> QED BY <3>1, FS_Subset
  <2>3. ExistsBijection(Counted(n), Dependencies(n))
    BY <2>1 DEF ExistsBijection
  <2> QED BY <2>2, <2>3, FS_Bijection
<1>7. ASSUME Counted(n) = DOMAIN s
      PROVE  ToSet(s) \subseteq Node \ {n} /\ IsInjective(s)
  BY <1>2, <1>3, <1>7 DEF ToSet, IsInjective
<1>8. ASSUME ToSet(s) \subseteq Node \ {n}, IsInjective(s)
      PROVE  Counted(n) = DOMAIN s
  <2> SUFFICES ASSUME NEW d \in 1 .. Len(s)
               PROVE  s[d] \in Node \ {n} /\ \A e \in 1 .. d - 1 : s[e] # s[d]
    BY <1>1 DEF Counted
  <2>1. s[d] \in ToSet(s)
    BY <1>1 DEF ToSet
  <2>2. \A e \in 1 .. d - 1 : e \in 1 .. Len(s) /\ e # d
    BY <1>1
  <2> QED BY <1>1, <1>8, <2>1, <2>2 DEF IsInjective
<1> QED BY <1>5, <1>6, <1>7, <1>8

(* depends_on of n has the sources of its inputs.                          *)
Gathered(n) ==
  /\ depends_on[n] \in Seq(Node \cup {Unknown})
  /\ ToSet(depends_on[n]) = ToSet(config.depends_on[n]) \cup (config.sources[n] \ {Unknown, n})
  /\ IsInjective(depends_on[n]) <=> IsInjective(config.depends_on[n])

(* Once gathered, what counts as a dependency of n is what n needs,        *)
(* itself aside.                                                           *)
LEMMA DependenciesAreNeeds ==
  ASSUME config \in Configs, NEW n \in Node, Gathered(n)
  PROVE  /\ Dependencies(n) = Needs(n) \ {n} /\ IsFiniteSet(Dependencies(n))
         /\ Cardinality(Counted(n)) = Cardinality(Dependencies(n))
         /\ Counted(n) = DOMAIN depends_on[n] <=>
              /\ n \notin ToSet(config.depends_on[n]) /\ Unknown \notin ToSet(config.depends_on[n])
              /\ IsInjective(config.depends_on[n])
<1>1. /\ Dependencies(n) = ToSet(depends_on[n]) \cap (Node \ {n})
      /\ IsFiniteSet(Dependencies(n))
      /\ Cardinality(Counted(n)) = Cardinality(Dependencies(n))
      /\ Counted(n) = DOMAIN depends_on[n] <=>
           ToSet(depends_on[n]) \subseteq Node \ {n} /\ IsInjective(depends_on[n])
  BY CountedOnce DEF Gathered
<1>2. /\ ToSet(config.depends_on[n]) \subseteq Node \cup {Unknown}
      /\ config.sources[n] \subseteq Node \cup {Unknown}
      /\ Unknown \notin Node
  BY ConfigTypes, PlanningAssumption
<1>3. Dependencies(n) = Needs(n) \ {n}
  BY <1>1, <1>2 DEF Gathered, Needs
<1>4. ToSet(depends_on[n]) \subseteq Node \ {n} <=>
        n \notin ToSet(config.depends_on[n]) /\ Unknown \notin ToSet(config.depends_on[n])
  BY <1>2 DEF Gathered
<1> QED BY <1>1, <1>3, <1>4 DEF Gathered

-----------------------------------------------------------------------------
(* Cycles *)

(* Reach satisfies its equation. *)
LEMMA ReachIsDefined ==
  Reach = [k \in 0 .. Len(NodeList) |->
             IF k = 0 THEN [n \in Node |-> Needs(n)]
             ELSE [n \in Node |-> Reach[k - 1][n]
                     \cup UNION {Reach[k - 1][m] : m \in Reach[k - 1][n]}]]
<1> DEFINE Grow(r) == [n \in Node |-> r[n] \cup UNION {r[m] : m \in r[n]}]
           Step(f, k) == IF k = 0 THEN [n \in Node |-> Needs(n)] ELSE Grow(f[k - 1])
           S == {l \in Nat : \E f : f = [k \in 0 .. l |-> Step(f, k)]}
<1>1. 0 \in S
  <2> DEFINE f == [k \in 0 .. 0 |-> [n \in Node |-> Needs(n)]]
  <2>1. \A k \in 0 .. 0 : k = 0
    OBVIOUS
  <2> HIDE DEF Grow
  <2>2. \A k \in 0 .. 0 : Step(f, k) = [n \in Node |-> Needs(n)]
    BY <2>1
  <2>3. f = [k \in 0 .. 0 |-> Step(f, k)]
    <3> HIDE DEF Step
    <3> QED BY <2>2
  <2>4. \E g : g = [k \in 0 .. 0 |-> Step(g, k)]
    <3> HIDE DEF f, Step
    <3> QED BY <2>3, Zenon
  <2> HIDE DEF Step
  <2> QED BY <2>4
<1>2. ASSUME NEW l \in Nat, l \in S
      PROVE  l + 1 \in S
  <2>1. PICK f : f = [k \in 0 .. l |-> Step(f, k)]
    BY <1>2
  <2> DEFINE e == [k \in 0 .. l |-> Step(f, k)]
             g == [k \in 0 .. l + 1 |-> IF k <= l THEN f[k] ELSE Step(f, k)]
  <2>2. f = e
    BY <2>1
  <2> HIDE DEF Grow
  <2>3. \A k \in 0 .. l : g[k] = f[k] /\ f[k] = Step(f, k)
    <3> HIDE DEF Step
    <3>1. \A k \in 0 .. l : e[k] = Step(f, k)
      OBVIOUS
    <3>2. \A k \in 0 .. l : g[k] = f[k]
      OBVIOUS
    <3> HIDE DEF e, g
    <3> QED BY <2>2, <3>1, <3>2
  <2>4. \A k \in 0 .. l + 1 : k # 0 => k - 1 \in 0 .. l
    OBVIOUS
  <2>5. \A k \in 0 .. l + 1 : g[k] = Step(f, k)
    <3> HIDE DEF Step
    <3>1. \A k \in 0 .. l + 1 : g[k] = IF k <= l THEN f[k] ELSE Step(f, k)
      OBVIOUS
    <3> HIDE DEF e, g
    <3> QED BY <2>3, <3>1
  <2> HIDE DEF e, g
  <2>6. \A k \in 0 .. l + 1 : Step(g, k) = Step(f, k)
    BY <2>3, <2>4
  <2>7. g = [k \in 0 .. l + 1 |-> Step(g, k)]
    <3>1. g = [k \in 0 .. l + 1 |-> g[k]]
      BY DEF g
    <3> HIDE DEF Step
    <3> QED BY <2>5, <2>6, <3>1
  <2>8. \E h : h = [k \in 0 .. l + 1 |-> Step(h, k)]
    <3> HIDE DEF Step
    <3> QED BY <2>7, Zenon
  <2> HIDE DEF Step
  <2> QED BY <2>8
<1> HIDE DEF S
<1>3. Len(NodeList) \in S
  BY <1>1, <1>2, InductionOnNumbers, NodesAreListed
<1>4. \E f : f = [k \in 0 .. Len(NodeList) |-> Step(f, k)]
  <2> HIDE DEF Step
  <2> QED BY <1>3 DEF S
<1> QED BY <1>4 DEF Reach

(* What Reach is at 0 and after one step more. *)
LEMMA ReachSteps ==
  /\ \A n \in Node : Reach[0][n] = Needs(n)
  /\ \A k \in 0 .. Len(NodeList) - 1 : \A n \in Node :
       Reach[k + 1][n] = Reach[k][n] \cup UNION {Reach[k][m] : m \in Reach[k][n]}
<1> DEFINE L == Len(NodeList)
           Grow(r) == [n \in Node |-> r[n] \cup UNION {r[m] : m \in r[n]}]
           e == [k \in 0 .. L |-> IF k = 0 THEN [n \in Node |-> Needs(n)] ELSE Grow(Reach[k - 1])]
<1>1. Reach = e /\ L \in Nat
  BY ReachIsDefined, NodesAreListed
<1>2. \A k \in 0 .. L :
        e[k] = IF k = 0 THEN [n \in Node |-> Needs(n)] ELSE Grow(Reach[k - 1])
  <2> HIDE DEF Grow
  <2> QED OBVIOUS
<1> HIDE DEF e, L
<1>3. \A k \in 0 .. L :
        Reach[k] = IF k = 0 THEN [n \in Node |-> Needs(n)] ELSE Grow(Reach[k - 1])
  <2> HIDE DEF Grow
  <2> QED BY <1>1, <1>2
<1>4. \A n \in Node : Reach[0][n] = Needs(n)
  <2>1. 0 \in 0 .. L
    BY <1>1
  <2>2. Reach[0] = [n \in Node |-> Needs(n)]
    <3> HIDE DEF Grow
    <3> QED BY <1>3, <2>1
  <2> QED BY <2>2
<1>5. ASSUME NEW k \in 0 .. L - 1, NEW n \in Node
      PROVE  Reach[k + 1][n] = Reach[k][n] \cup UNION {Reach[k][m] : m \in Reach[k][n]}
  <2>1. PICK j : j = k + 1
    OBVIOUS
  <2>2. j \in 0 .. L /\ j # 0 /\ j - 1 = k
    BY <1>1, <2>1
  <2>3. Reach[j] = Grow(Reach[k])
    <3> HIDE DEF Grow
    <3>1. Reach[j] = Grow(Reach[j - 1])
      BY <1>3, <2>2, Zenon
    <3> QED BY <2>2, <3>1, Zenon
  <2>4. \A r : Grow(r)[n] = r[n] \cup UNION {r[m] : m \in r[n]}
    OBVIOUS
  <2> QED BY <2>1, <2>3, <2>4
<1> QED BY <1>4, <1>5 DEF L

(* A set is closed when it has what its members need.                      *)
Closed(T) == \A m \in T : Needs(m) \subseteq T

(* What is reached includes what is needed, and is nodes. *)
LEMMA ReachGrows ==
  ASSUME config \in Configs
  PROVE  \A k \in 0 .. Len(NodeList) : \A n \in Node :
           Needs(n) \subseteq Reach[k][n] /\ Reach[k][n] \subseteq Node
<1> DEFINE L == Len(NodeList)
           S == {k \in Nat : k <= L =>
                   \A n \in Node : Needs(n) \subseteq Reach[k][n] /\ Reach[k][n] \subseteq Node}
<1>1. 0 \in S
  BY ReachSteps, ConfigTypes
<1>2. ASSUME NEW k \in Nat, k \in S
      PROVE  k + 1 \in S
  <2> SUFFICES ASSUME k + 1 <= L, NEW n \in Node
               PROVE  Needs(n) \subseteq Reach[k + 1][n] /\ Reach[k + 1][n] \subseteq Node
    OBVIOUS
  <2>1. k <= L /\ k \in 0 .. L - 1
    BY NodesAreListed
  <2>2. \A m \in Node : Needs(m) \subseteq Reach[k][m] /\ Reach[k][m] \subseteq Node
    BY <1>2, <2>1
  <2>3. Reach[k + 1][n] = Reach[k][n] \cup UNION {Reach[k][m] : m \in Reach[k][n]}
    BY <2>1, ReachSteps
  <2> QED BY <2>2, <2>3
<1>3. \A k \in Nat : k \in S
  <2> HIDE DEF S
  <2> QED BY <1>1, <1>2, InductionOnNumbers
<1> QED BY <1>3

(* A closed set with what n needs has what n reaches. *)
LEMMA ReachStaysInside ==
  ASSUME config \in Configs, NEW T \in SUBSET Node, Closed(T)
  PROVE  \A k \in 0 .. Len(NodeList) : \A n \in Node :
           Needs(n) \subseteq T => Reach[k][n] \subseteq T
<1> DEFINE L == Len(NodeList)
           S == {k \in Nat : k <= L =>
                   \A n \in Node : Needs(n) \subseteq T => Reach[k][n] \subseteq T}
<1>1. 0 \in S
  BY ReachSteps
<1>2. ASSUME NEW k \in Nat, k \in S
      PROVE  k + 1 \in S
  <2> SUFFICES ASSUME k + 1 <= L, NEW n \in Node, Needs(n) \subseteq T
               PROVE  Reach[k + 1][n] \subseteq T
    OBVIOUS
  <2>1. k <= L /\ k \in 0 .. L - 1
    BY NodesAreListed
  <2>2. Reach[k][n] \subseteq T /\ \A m \in T : Reach[k][m] \subseteq T
    BY <1>2, <2>1 DEF Closed
  <2>3. Reach[k + 1][n] = Reach[k][n] \cup UNION {Reach[k][m] : m \in Reach[k][n]}
    BY <2>1, ReachSteps
  <2> QED BY <2>2, <2>3
<1>3. \A k \in Nat : k \in S
  <2> HIDE DEF S
  <2> QED BY <1>1, <1>2, InductionOnNumbers
<1> QED BY <1>3

(* Each step makes a set that is not closed larger, so the last is closed. *)
LEMMA ReachCloses ==
  ASSUME config \in Configs, NEW n \in Node
  PROVE  Closed(Reach[Len(NodeList)][n])
<1> DEFINE L == Len(NodeList)
           R(k) == Reach[k][n]
           S == {k \in Nat : k <= L => Closed(R(k)) \/ Cardinality(R(k)) >= k + 1}
<1>0. \A k \in 0 .. L : /\ Needs(n) \subseteq R(k) /\ R(k) \subseteq Node
                        /\ IsFiniteSet(R(k)) /\ Cardinality(R(k)) \in Nat
                        /\ Cardinality(R(k)) <= L
  <2> TAKE k \in 0 .. L
  <2>1. Needs(n) \subseteq R(k) /\ R(k) \subseteq Node
    BY ReachGrows
  <2> HIDE DEF R
  <2> QED BY <2>1, NodesAreListed, FS_Subset, FS_CardinalityType
<1>1. 0 \in S
  <2> SUFFICES ASSUME ~Closed(R(0))
               PROVE  Cardinality(R(0)) >= 1
    OBVIOUS
  <2>1. R(0) # {} /\ 0 \in 0 .. L
    BY NodesAreListed DEF Closed
  <2> HIDE DEF R
  <2>2. Cardinality(R(0)) \in Nat /\ Cardinality(R(0)) # 0
    BY <1>0, <2>1, FS_EmptySet
  <2> QED BY <2>2
<1>2. ASSUME NEW k \in Nat, k \in S
      PROVE  k + 1 \in S
  <2> SUFFICES ASSUME k + 1 <= L, ~Closed(R(k + 1))
               PROVE  Cardinality(R(k + 1)) >= k + 1 + 1
    OBVIOUS
  <2>1. k <= L /\ k \in 0 .. L - 1 /\ k \in 0 .. L /\ k + 1 \in 0 .. L
    BY NodesAreListed
  <2>2. R(k + 1) = R(k) \cup UNION {Reach[k][m] : m \in R(k)}
    BY <2>1, ReachSteps
  <2>3. ~Closed(R(k))
    <3> SUFFICES ASSUME Closed(R(k)) PROVE R(k + 1) = R(k)
      OBVIOUS
    <3>1. Needs(n) \subseteq R(k) /\ R(k) \in SUBSET Node
      BY <1>0, <2>1
    <3> DEFINE T == R(k)
    <3> HIDE DEF T
    <3>2. T \in SUBSET Node /\ Closed(T) /\ Needs(n) \subseteq T
      BY <3>1 DEF T
    <3>3. Reach[k + 1][n] \subseteq T
      BY <2>1, <3>2, ReachStaysInside
    <3> QED BY <2>2, <3>3 DEF T
  <2>4. Cardinality(R(k)) >= k + 1
    BY <1>2, <2>1, <2>3
  <2> PICK m \in R(k) : ~(Needs(m) \subseteq R(k))
    BY <2>3 DEF Closed
  <2>5. PICK x \in Needs(m) : x \notin R(k)
    OBVIOUS
  <2>6. x \in Reach[k][m]
    <3>1. m \in Node
      BY <1>0, <2>1
    <3> QED BY <2>1, <2>5, <3>1, ReachGrows
  <2>7. x \in R(k + 1) /\ R(k) \subseteq R(k + 1)
    BY <2>2, <2>5, <2>6
  <2> HIDE DEF R
  <2>8. /\ IsFiniteSet(R(k)) /\ IsFiniteSet(R(k + 1))
        /\ Cardinality(R(k)) \in Nat /\ Cardinality(R(k + 1)) \in Nat
    BY <1>0, <2>1
  <2>9. /\ Cardinality(R(k)) <= Cardinality(R(k + 1))
        /\ Cardinality(R(k + 1)) = Cardinality(R(k)) => R(k + 1) = R(k)
    BY <2>7, <2>8, FS_Subset
  <2> QED BY <2>4, <2>5, <2>7, <2>8, <2>9
<1>3. L \in S
  <2> HIDE DEF S
  <2> QED BY <1>1, <1>2, InductionOnNumbers, NodesAreListed
<1> HIDE DEF R
<1>4. L \in Nat /\ L \in 0 .. L
  BY NodesAreListed
<1>5. Closed(R(L))
  BY <1>0, <1>3, <1>4
<1> QED BY <1>5 DEF R

(* When nodes wait for each other in a closed group, one waits for itself. *)
LEMMA CycleIsFound ==
  ASSUME config \in Configs, NEW U \in SUBSET Node, U # {},
         \A n \in U : Needs(n) \cap U # {}
  PROVE  ~Acyclic
<1> DEFINE L == Len(NodeList)
           T(n) == Reach[L][n]
           size == {Cardinality(T(n) \cap U) : n \in U}
<1>1. L \in 0 .. L
  BY NodesAreListed
<1>2. \A n \in Node : Needs(n) \subseteq T(n) /\ T(n) \subseteq Node /\ Closed(T(n))
  BY <1>1, ReachGrows, ReachCloses
<1>3. \A n \in U : \A m \in T(n) \cap U : T(m) \subseteq T(n)
  <2> TAKE n \in U
  <2> TAKE m \in T(n) \cap U
  <2> DEFINE A == T(n)
  <2>1. A \in SUBSET Node /\ Closed(A) /\ Needs(m) \subseteq A /\ m \in Node
    BY <1>2 DEF Closed
  <2> HIDE DEF A
  <2>2. Reach[L][m] \subseteq A
    BY <1>1, <2>1, ReachStaysInside
  <2> QED BY <2>2 DEF A
<1> HIDE DEF T
<1>4. \A n \in U : IsFiniteSet(T(n) \cap U) /\ Cardinality(T(n) \cap U) \in Nat
  <2> TAKE n \in U
  <2>1. T(n) \cap U \subseteq Node
    OBVIOUS
  <2> QED BY <2>1, NodesAreListed, FS_Subset, FS_CardinalityType
<1>5. size # {} /\ size \subseteq Nat
  BY <1>4
<1>6. PICK s \in size : \A r \in size : s <= r
  <2> HIDE DEF size
  <2> QED BY <1>5, LeastNumber
<1>7. PICK n \in U : s = Cardinality(T(n) \cap U)
  BY <1>6
<1>8. PICK m \in U : m \in T(n)
  BY <1>2, <1>7
<1>9. T(m) \cap U \subseteq T(n) \cap U
  BY <1>3, <1>8
<1>10. Cardinality(T(n) \cap U) <= Cardinality(T(m) \cap U)
  BY <1>6, <1>7
<1>11. T(m) \cap U = T(n) \cap U
  <2>1. /\ Cardinality(T(m) \cap U) <= Cardinality(T(n) \cap U)
        /\ Cardinality(T(n) \cap U) = Cardinality(T(m) \cap U) => T(n) \cap U = T(m) \cap U
    BY <1>4, <1>9, FS_Subset
  <2>2. Cardinality(T(m) \cap U) \in Nat /\ Cardinality(T(n) \cap U) \in Nat
    BY <1>4
  <2>3. Cardinality(T(n) \cap U) = Cardinality(T(m) \cap U)
    BY <1>10, <2>1, <2>2
  <2> QED BY <2>1, <2>3, Zenon
<1>12. m \in T(m)
  BY <1>8, <1>11
<1> QED BY <1>8, <1>12 DEF Acyclic, T

(* When every node is behind what it needs, none waits for itself.         *)
LEMMA RankedIsAcyclic ==
  ASSUME config \in Configs, NEW rank \in [Node -> Nat],
         \A n \in Node : \A d \in Needs(n) : rank[d] < rank[n]
  PROVE  Acyclic
<1> SUFFICES ASSUME NEW n \in Node PROVE n \notin Reach[Len(NodeList)][n]
  BY DEF Acyclic
<1> DEFINE T == {d \in Node : rank[d] < rank[n]}
<1>1. T \in SUBSET Node /\ n \notin T /\ Needs(n) \subseteq T
  BY ConfigTypes
<1>2. Closed(T)
  <2> SUFFICES ASSUME NEW m \in T, NEW d \in Needs(m)
               PROVE  d \in T
    BY DEF Closed
  <2>1. m \in Node /\ rank[m] < rank[n] /\ rank[d] < rank[m] /\ d \in Node
    BY ConfigTypes
  <2>2. rank[m] \in Nat /\ rank[d] \in Nat /\ rank[n] \in Nat
    BY <2>1
  <2> QED BY <2>1, <2>2
<1> HIDE DEF T
<1>3. Len(NodeList) \in 0 .. Len(NodeList)
  BY NodesAreListed
<1> QED BY <1>1, <1>2, <1>3, ReachStaysInside

(* A node that needs itself is on a cycle. *)
LEMMA SelfNeedIsCycle ==
  ASSUME config \in Configs, NEW n \in Node, n \in Needs(n)
  PROVE  ~Acyclic
<1>1. {n} \in SUBSET Node /\ {n} # {} /\ \A m \in {n} : Needs(m) \cap {n} # {}
  OBVIOUS
<1> QED BY <1>1, CycleIsFound

-----------------------------------------------------------------------------
(* The invariant of the planning *)

PlanTypes ==
  /\ config \in Configs
  /\ phase \in {"sources", "layers", "resolving", "rejected", "splitting", "planned"}
  /\ pos \in Nat \ {0}
  /\ depends_on \in [Node -> Seq(Node \cup {Unknown})]
  /\ errors \in BOOLEAN
  /\ current \in Seq(Node) /\ next \in Seq(Node) /\ order \in Seq(Node)
  /\ parallel \in Seq(Node) /\ sequential \in Seq(Node)

(* An input of n names no node, or n itself. *)
BadSource(n) == Unknown \in config.sources[n] \/ n \in config.sources[n]

(* The loop over the sources is done with the nodes before pos. *)
SourcesAreGathered ==
  IF phase = "sources"
  THEN /\ pos <= Len(NodeList) + 1
       /\ errors <=> \E i \in 1 .. pos - 1 : BadSource(NodeList[i])
       /\ \A i \in 1 .. pos - 1 : Gathered(NodeList[i])
       /\ \A i \in pos .. Len(NodeList) :
            depends_on[NodeList[i]] = config.depends_on[NodeList[i]]
       /\ order = <<>> /\ layers = <<>>
  ELSE \A n \in Node : Gathered(n)

NothingIsSplit ==
  phase \in {"sources", "layers", "resolving"} =>
    parallel = <<>> /\ sequential = <<>> /\ scheduled = <<>>

(* What is pushed as a layer and not resolved, and what waits to be pushed. *)
Pending == IF phase = "resolving" THEN SubSeq(current, pos, Len(current)) ELSE <<>>
Coming == IF phase = "resolving" THEN next ELSE current

(* The nodes that wait for nothing else are those of the layers and of the *)
(* coming one; the degree of a node counts what it still waits for.        *)
LayersAreBuilt ==
  phase \in {"layers", "resolving"} =>
    /\ errors <=> \E n \in Node : BadSource(n)
    /\ Layered(layers, {})
    /\ FlattenSeq(layers) = order \o Pending
    /\ \A n \in Node : degrees[n] = Cardinality(Dependencies(n) \ ToSet(order))
    /\ {n \in Node : Dependencies(n) \subseteq ToSet(order)} = AllOf(layers) \cup ToSet(Coming)
    /\ IsInjective(Coming) /\ ToSet(Coming) \cap AllOf(layers) = {}

Verdict ==
  /\ phase = "rejected" => errors /\ ~WellFormed
  /\ phase \in {"splitting", "planned"} => (errors <=> ~WellFormed)

(* A layer that is split is in three parts: the nodes that stay together,  *)
(* those that run alone, and those not looked at.                          *)
LayerIsParted ==
  LET rest == SubSeq(Layer, pos, Len(Layer)) IN
  /\ IsInjective(parallel) /\ IsInjective(sequential) /\ IsInjective(rest)
  /\ ToSet(parallel) \cap ToSet(sequential) = {}
  /\ (ToSet(parallel) \cup ToSet(sequential)) \cap ToSet(rest) = {}
  /\ ToSet(parallel) \cup ToSet(sequential) \cup ToSet(rest) = ToSet(Layer)

LayersAreSplit ==
  phase = "splitting" =>
    /\ Layered(scheduled, {})
    /\ Layered(layers, AllOf(scheduled))
    /\ AllOf(scheduled) \cup AllOf(layers) = Node
    /\ layers # <<>> => LayerIsParted

PlanIsLayered ==
  phase = "planned" =>
    /\ Layered(layers, {}) /\ AllOf(layers) = Node
    /\ order = FlattenSeq(layers)

PlanInv ==
  /\ PlanTypes
  /\ SourcesAreGathered
  /\ NothingIsSplit
  /\ LayersAreBuilt
  /\ Verdict
  /\ LayersAreSplit
  /\ PlanIsLayered

-----------------------------------------------------------------------------
(* Lists whose loop is at a position, and what does not change *)

(* What is left of a list whose loop is at p. *)
LEMMA RestOfList ==
  ASSUME NEW S, NEW s \in Seq(S), NEW p \in Nat \ {0}
  PROVE  /\ SubSeq(s, p, Len(s)) \in Seq(S)
         /\ SubSeq(s, 1, Len(s)) = s
         /\ p > Len(s) => SubSeq(s, p, Len(s)) = <<>>
         /\ p <= Len(s) =>
              /\ s[p] \in S
              /\ SubSeq(s, p, Len(s)) = <<s[p]>> \o SubSeq(s, p + 1, Len(s))
<1> DEFINE n == Len(s)
<1>1. n \in Nat /\ DOMAIN s = 1 .. n /\ \A i \in 1 .. n : s[i] \in S
  BY LenProperties, ElementOfSeq
<1>2. SubSeq(s, p, n) \in Seq(S)
  <2>1. n \in Int /\ p \in Int /\ \A i \in p .. n : s[i] \in S
    BY <1>1
  <2> QED BY <2>1, SubSeqProperties
<1>3. SubSeq(s, 1, n) = s
  BY SubSeqFull
<1>4. p > n => SubSeq(s, p, n) = <<>>
  BY <1>1, SubSeqEmpty
<1>5. ASSUME p <= n
      PROVE  s[p] \in S /\ SubSeq(s, p, n) = <<s[p]>> \o SubSeq(s, p + 1, n)
  <2>1. p \in 1 .. Len(s) /\ n \in p .. Len(s)
    BY <1>1, <1>5
  <2> QED BY <1>1, <2>1, SubSeqRecursiveFirst
<1> QED BY <1>2, <1>3, <1>4, <1>5

(* The loop takes s[p], and what is left has the rest, once each. *)
LEMMA NextOfList ==
  ASSUME NEW S, NEW s \in Seq(S), NEW p \in Nat \ {0}, p <= Len(s)
  PROVE  LET rest == SubSeq(s, p, Len(s)) left == SubSeq(s, p + 1, Len(s)) IN
         /\ s[p] \in S /\ rest \in Seq(S) /\ left \in Seq(S) /\ rest = <<s[p]>> \o left
         /\ ToSet(rest) = {s[p]} \cup ToSet(left)
         /\ IsInjective(rest) <=> s[p] \notin ToSet(left) /\ IsInjective(left)
<1> DEFINE rest == SubSeq(s, p, Len(s))
           left == SubSeq(s, p + 1, Len(s))
<1>1. s[p] \in S /\ rest \in Seq(S) /\ rest = <<s[p]>> \o left
  BY RestOfList
<1>2. left \in Seq(S)
  <2>1. p + 1 \in Nat \ {0}
    OBVIOUS
  <2> QED BY <2>1, RestOfList
<1>3. <<s[p]>> \in Seq(S) /\ ToSet(<<s[p]>>) = {s[p]} /\ IsInjective(<<s[p]>>)
  BY <1>1, OneSet
<1> HIDE DEF rest, left
<1>4. /\ ToSet(rest) = {s[p]} \cup ToSet(left)
      /\ IsInjective(rest) <=>
           IsInjective(<<s[p]>>) /\ IsInjective(left) /\ ToSet(<<s[p]>>) \cap ToSet(left) = {}
  BY <1>1, <1>2, <1>3, ConcatSet, ZenonT(60)
<1>5. IsInjective(rest) <=> s[p] \notin ToSet(left) /\ IsInjective(left)
  BY <1>3, <1>4
<1>6. /\ s[p] \in S /\ rest \in Seq(S) /\ left \in Seq(S) /\ rest = <<s[p]>> \o left
      /\ ToSet(rest) = {s[p]} \cup ToSet(left)
      /\ IsInjective(rest) <=> s[p] \notin ToSet(left) /\ IsInjective(left)
  BY <1>1, <1>2, <1>4, <1>5
<1> QED BY <1>6 DEF rest, left

(* While the configuration and the dependencies stay, so does what is said of them. *)
LEMMA SameConfiguration ==
  ASSUME UNCHANGED config
  PROVE  /\ WellFormed' <=> WellFormed
         /\ \A n : BadSource(n)' <=> BadSource(n)
<1>1. WellFormed' <=> WellFormed
  BY DEF WellFormed, Acyclic, Reach, Needs
<1> QED BY <1>1 DEF BadSource

(* While depends_on stays too, so do degrees and layers. *)
LEMMA SameDependencies ==
  ASSUME UNCHANGED <<config, depends_on>>
  PROVE  /\ \A n : Dependencies(n)' = Dependencies(n)
         /\ \A n : Counted(n)' = Counted(n)
         /\ \A n : Gathered(n)' <=> Gathered(n)
         /\ \A ls, C : Layered(ls, C)' <=> Layered(ls, C)
<1>1. \A n : Counted(n)' = Counted(n)
  BY DEF Counted
<1>2. \A n : Dependencies(n)' = Dependencies(n)
  BY <1>1 DEF Dependencies
<1>3. \A n : Gathered(n)' <=> Gathered(n)
  BY DEF Gathered
<1>4. \A ls, C : Layered(ls, C)' <=> Layered(ls, C)
  BY <1>2 DEF Layered
<1> QED BY <1>1, <1>2, <1>3, <1>4

-----------------------------------------------------------------------------
(* The steps of the planning keep the invariant *)

(* The sources of one more node are gathered. *)
LEMMA NodeIsGathered ==
  ASSUME NEW n \in Node, config \in Configs,
         depends_on[n] = config.depends_on[n], UNCHANGED config,
         depends_on' = [depends_on EXCEPT ![n] =
           @ \o SetToSeq(config.sources[n] \ (ToSet(@) \cup {Unknown, n}))],
         depends_on \in [Node -> Seq(Node \cup {Unknown})]
  PROVE  /\ Gathered(n)'
         /\ depends_on' \in [Node -> Seq(Node \cup {Unknown})]
         /\ \A m \in Node \ {n} : depends_on'[m] = depends_on[m]
<1> DEFINE T == Node \cup {Unknown}
           s == config.depends_on[n]
           new == config.sources[n] \ (ToSet(s) \cup {Unknown, n})
           t == SetToSeq(new)
<1>1. s \in Seq(T) /\ new \subseteq Node /\ IsFiniteSet(new)
  <2>1. s \in Seq(T) /\ config.sources[n] \subseteq T
    BY ConfigTypes
  <2>2. new \subseteq Node
    BY <2>1
  <2> QED BY <2>1, <2>2, NodesAreListed, FS_Subset
<1>2. depends_on' = [depends_on EXCEPT ![n] = s \o t]
  OBVIOUS
<1> HIDE DEF new
<1>3. t \in Seq(new) /\ IsInjective(t) /\ ToSet(t) = new
  BY <1>1, SeqOfSet
<1> HIDE DEF t
<1>4. t \in Seq(T)
  BY <1>1, <1>3, SeqMonotonic
<1> HIDE DEF s, T
<1>5. /\ s \o t \in Seq(T)
      /\ ToSet(s \o t) = ToSet(s) \cup ToSet(t)
      /\ IsInjective(s \o t) <=>
           IsInjective(s) /\ IsInjective(t) /\ ToSet(s) \cap ToSet(t) = {}
  BY <1>1, <1>4, ConcatSet
<1>6. /\ depends_on'[n] = s \o t
      /\ depends_on' \in [Node -> Seq(T)]
      /\ \A m \in Node \ {n} : depends_on'[m] = depends_on[m]
  BY <1>2, <1>5 DEF T
<1>7. ToSet(s \o t) = ToSet(s) \cup (config.sources[n] \ {Unknown, n})
  BY <1>3, <1>5 DEF new
<1>8. IsInjective(s \o t) <=> IsInjective(s)
  BY <1>3, <1>5 DEF new
<1>9. Gathered(n)'
  BY <1>5, <1>6, <1>7, <1>8 DEF Gathered, s, T
<1> QED BY <1>6, <1>9 DEF T

(* One node more has its sources gathered. *)
LEMMA AddDataDependenciesKeeps ==
  ASSUME PlanInv, AddDataDependencies
  PROVE  PlanInv'
<1> DEFINE L == Len(NodeList)
<1> PICK n : n = NodeList[pos]
  OBVIOUS
<1>1. /\ phase = "sources" /\ pos \in Nat \ {0} /\ pos <= L /\ pos' = pos + 1 /\ L \in Nat
      /\ UNCHANGED <<config, phase, degrees, current, next, layers, order>>
      /\ UNCHANGED <<parallel, sequential, used_models, scheduled>>
      /\ config \in Configs
      /\ depends_on \in [Node -> Seq(Node \cup {Unknown})]
  BY NodesAreListed DEF PlanInv, PlanTypes, AddDataDependencies, kahnVars, splitVars
<1>2. n \in Node
  BY <1>1, NodesAreListed
<1>3. /\ errors <=> \E i \in 1 .. pos - 1 : BadSource(NodeList[i])
      /\ \A i \in 1 .. pos - 1 : Gathered(NodeList[i])
      /\ \A i \in pos .. L : depends_on[NodeList[i]] = config.depends_on[NodeList[i]]
      /\ order = <<>> /\ layers = <<>>
  BY <1>1 DEF PlanInv, SourcesAreGathered
<1>4. depends_on[n] = config.depends_on[n]
  BY <1>1, <1>3
<1>5. /\ Gathered(n)'
      /\ depends_on' \in [Node -> Seq(Node \cup {Unknown})]
      /\ \A m \in Node \ {n} : depends_on'[m] = depends_on[m]
  <2>1. depends_on' = [depends_on EXCEPT ![n] =
           @ \o SetToSeq(config.sources[n] \ (ToSet(@) \cup {Unknown, n}))]
    BY DEF AddDataDependencies
  <2> QED BY <1>1, <1>2, <1>4, <2>1, NodeIsGathered
<1>6. \A i \in 1 .. L : NodeList[i] \in Node /\ (i # pos => NodeList[i] # n)
  <2>1. /\ IsInjective(NodeList) /\ DOMAIN NodeList = 1 .. L
        /\ \A i \in 1 .. L : NodeList[i] \in Node
    BY PlanningAssumption, NodesAreListed
  <2>2. pos \in 1 .. L
    BY <1>1
  <2> QED BY <2>1, <2>2 DEF IsInjective
<1>7. \A i \in 1 .. pos' - 1 : i = pos \/ i \in 1 .. pos - 1
  BY <1>1
<1>8. errors' <=> \E i \in 1 .. pos' - 1 : BadSource(NodeList[i])'
  <2>1. errors' <=> errors \/ BadSource(n)
    BY DEF AddDataDependencies, BadSource
  <2>2. \A m : BadSource(m)' <=> BadSource(m)
    BY <1>1, SameConfiguration
  <2>3. pos \in 1 .. pos' - 1 /\ \A i \in 1 .. pos - 1 : i \in 1 .. pos' - 1
    BY <1>1
  <2> QED BY <1>3, <1>7, <2>1, <2>2, <2>3
<1>9. \A i \in 1 .. pos' - 1 : Gathered(NodeList[i])'
  <2> TAKE i \in 1 .. pos' - 1
  <2>1. CASE i = pos
    BY <1>5, <2>1
  <2>2. CASE i \in 1 .. pos - 1
    <3>1. i \in 1 .. L /\ i # pos
      BY <1>1, <2>2
    <3>2. depends_on'[NodeList[i]] = depends_on[NodeList[i]]
      BY <1>5, <1>6, <3>1
    <3> QED BY <1>1, <1>3, <2>2, <3>2 DEF Gathered
  <2> QED BY <1>7, <2>1, <2>2
<1>10. \A i \in pos' .. L : depends_on'[NodeList[i]] = config'.depends_on[NodeList[i]]
  <2> TAKE i \in pos' .. L
  <2>1. i \in 1 .. L /\ i # pos /\ i \in pos .. L
    BY <1>1
  <2> QED BY <1>1, <1>3, <1>5, <1>6, <2>1
<1>11. pos' <= L + 1
  BY <1>1
<1>12. SourcesAreGathered'
  BY <1>1, <1>3, <1>8, <1>9, <1>10, <1>11 DEF SourcesAreGathered
<1>13. PlanTypes'
  <2>1. errors' \in BOOLEAN
    BY DEF AddDataDependencies
  <2>2. pos' \in Nat \ {0}
    BY <1>1
  <2> QED BY <1>1, <1>5, <2>1, <2>2 DEF PlanInv, PlanTypes
<1> QED BY <1>1, <1>12, <1>13
        DEF PlanInv, NothingIsSplit, LayersAreBuilt, Verdict, LayersAreSplit, PlanIsLayered

(* The nodes without dependencies are the coming layer. *)
LEMMA CountDegreesKeeps ==
  ASSUME PlanInv, CountDegrees
  PROVE  PlanInv'
<1> DEFINE L == Len(NodeList)
           free == {n \in Node : Dependencies(n) = {}}
<1>1. /\ phase = "sources" /\ phase' = "layers" /\ pos > L /\ L \in Nat /\ pos \in Nat
      /\ UNCHANGED <<config, pos, depends_on, errors, next, layers, order>>
      /\ UNCHANGED <<parallel, sequential, used_models, scheduled>>
  BY NodesAreListed DEF PlanInv, PlanTypes, CountDegrees, splitVars
<1>2. /\ pos = L + 1
      /\ errors <=> \E i \in 1 .. pos - 1 : BadSource(NodeList[i])
      /\ \A i \in 1 .. pos - 1 : Gathered(NodeList[i])
      /\ order = <<>> /\ layers = <<>>
  BY <1>1 DEF PlanInv, SourcesAreGathered
<1>3. \A i \in 1 .. L : i \in 1 .. pos - 1
  BY <1>1, <1>2
<1>4. \A n \in Node : Gathered(n)
  BY <1>2, <1>3, NodesAreListed
<1>5. errors <=> \E n \in Node : BadSource(n)
  <2>1. \A i \in 1 .. pos - 1 : i \in 1 .. L
    BY <1>1, <1>2
  <2> QED BY <1>2, <1>3, <2>1, NodesAreListed
<1>6. /\ \A n : Dependencies(n)' = Dependencies(n)
      /\ \A n : Gathered(n)' <=> Gathered(n)
      /\ \A ls, C : Layered(ls, C)' <=> Layered(ls, C)
      /\ \A n : BadSource(n)' <=> BadSource(n)
  BY <1>1, SameDependencies, SameConfiguration
<1>7. \A n \in Node : /\ degrees'[n] = Cardinality(Dependencies(n))
                      /\ IsFiniteSet(Dependencies(n))
  <2> TAKE n \in Node
  <2>1. config \in Configs
    BY DEF PlanInv, PlanTypes
  <2>2. degrees'[n] = Cardinality(Counted(n))
    BY DEF CountDegrees
  <2> QED BY <1>4, <2>1, <2>2, DependenciesAreNeeds
<1>8. {n \in Node : degrees'[n] = 0} = free
  BY <1>7, FS_EmptySet
<1>9. current' = InOrder(free)
  BY <1>8 DEF CountDegrees
<1> HIDE DEF free
<1>10. current' \in Seq(free) /\ IsInjective(current') /\ ToSet(current') = free
  <2>1. free \subseteq Node
    BY DEF free
  <2> QED BY <1>9, <2>1, InOrderLists
<1>11. current' \in Seq(Node)
  <2>1. free \subseteq Node
    BY DEF free
  <2> QED BY <1>10, <2>1, SeqMonotonic
<1>12. PlanTypes'
  BY <1>1, <1>11 DEF PlanInv, PlanTypes
<1>13. SourcesAreGathered'
  BY <1>1, <1>4, <1>6 DEF SourcesAreGathered
<1>14. NothingIsSplit'
  BY <1>1 DEF PlanInv, NothingIsSplit
<1>15. LayersAreBuilt'
  <2>1. Coming' = current' /\ Pending' = <<>>
    BY <1>1 DEF Coming, Pending
  <2>2. Layered(layers, {}) /\ AllOf(layers) = {}
    BY <1>2, NoLayers
  <2>3. FlattenSeq(layers) = order \o <<>>
    <3>1. FlattenSeq(<<>>) = <<>> /\ <<>> \o <<>> = <<>>
      BY DEF FlattenSeq
    <3> QED BY <1>2, <3>1
  <2>4. ToSet(order) = {}
    BY <1>2, EmptySet
  <2>5. \A n \in Node : degrees'[n] = Cardinality(Dependencies(n) \ ToSet(order))
    BY <1>7, <2>4
  <2>6. {n \in Node : Dependencies(n) \subseteq ToSet(order)} = free
    BY <2>4 DEF free
  <2>7. AllOf(layers') = {}
    BY <1>1, <2>2
  <2>8. /\ layers' = layers /\ order' = order /\ phase' = "layers"
        /\ errors' <=> \E n \in Node : BadSource(n)'
    BY <1>1, <1>5, <1>6
  <2> QED BY <1>6, <1>10, <2>1, <2>2, <2>3, <2>5, <2>6, <2>7, <2>8 DEF LayersAreBuilt
<1>16. Verdict' /\ LayersAreSplit' /\ PlanIsLayered'
  BY <1>1 DEF Verdict, LayersAreSplit, PlanIsLayered
<1> QED BY <1>12, <1>13, <1>14, <1>15, <1>16 DEF PlanInv

(* The coming layer is pushed: what it waits for is resolved. *)
LEMMA PushLayerKeeps ==
  ASSUME PlanInv, PushLayer
  PROVE  PlanInv'
<1>1. /\ phase = "layers" /\ phase' = "resolving" /\ current # <<>>
      /\ layers' = Append(layers, current) /\ next' = <<>> /\ pos' = 1
      /\ UNCHANGED <<config, depends_on, errors, degrees, current, order>>
      /\ UNCHANGED <<parallel, sequential, used_models, scheduled>>
  BY DEF PushLayer, splitVars
<1>2. PlanTypes /\ current \in Seq(Node) /\ order \in Seq(Node)
  BY DEF PlanInv, PlanTypes
<1>3. /\ errors <=> \E n \in Node : BadSource(n)
      /\ Layered(layers, {})
      /\ FlattenSeq(layers) = order \o <<>>
      /\ \A n \in Node : degrees[n] = Cardinality(Dependencies(n) \ ToSet(order))
      /\ {n \in Node : Dependencies(n) \subseteq ToSet(order)} = AllOf(layers) \cup ToSet(current)
      /\ IsInjective(current) /\ ToSet(current) \cap AllOf(layers) = {}
  BY <1>1 DEF PlanInv, LayersAreBuilt, Pending, Coming
<1>4. FlattenSeq(layers) = order /\ AllOf(layers) = ToSet(order)
  <2>1. order \o <<>> = order
    BY <1>2, ConcatEmptySeq
  <2>2. ToSet(FlattenSeq(layers)) = AllOf(layers)
    BY <1>3, LayersFlatten
  <2> QED BY <1>3, <2>1, <2>2
<1>5. \A n \in ToSet(current) : Dependencies(n) \subseteq AllOf(layers)
  BY <1>3, <1>4
<1>6. /\ Layered(Append(layers, current), {})
      /\ AllOf(Append(layers, current)) = AllOf(layers) \cup ToSet(current)
  BY <1>1, <1>2, <1>3, <1>5, LayerIsAdded
<1>7. FlattenSeq(Append(layers, current)) = order \o current
  <2>1. layers \in Seq(Seq(Node))
    BY <1>3 DEF Layered
  <2> QED BY <1>2, <1>4, <2>1, FlattenAppend
<1>8. /\ \A n : Dependencies(n)' = Dependencies(n)
      /\ \A n : Gathered(n)' <=> Gathered(n)
      /\ \A ls, C : Layered(ls, C)' <=> Layered(ls, C)
      /\ \A n : BadSource(n)' <=> BadSource(n)
  BY <1>1, SameDependencies, SameConfiguration
<1>9. PlanTypes'
  <2>1. <<>> \in Seq(Node)
    BY EmptySeq
  <2> QED BY <1>1, <1>2, <2>1 DEF PlanTypes
<1>10. SourcesAreGathered' /\ NothingIsSplit'
  BY <1>1, <1>8 DEF PlanInv, SourcesAreGathered, NothingIsSplit
<1>11. LayersAreBuilt'
  <2>1. Coming' = <<>> /\ Pending' = current
    BY <1>1, <1>2, SubSeqFull DEF Coming, Pending
  <2>2. AllOf(layers') = AllOf(layers) \cup ToSet(current)
    BY <1>1, <1>6
  <2>3. /\ {n \in Node : Dependencies(n) \subseteq ToSet(order)} = AllOf(layers') \cup ToSet(<<>>)
        /\ IsInjective(<<>>) /\ ToSet(<<>>) \cap AllOf(layers') = {}
    BY <1>3, <2>2, EmptySet
  <2>4. Layered(layers, {})'
    BY <1>1, <1>6, <1>8
  <2>5. FlattenSeq(layers') = order \o current
    BY <1>1, <1>7
  <2>6. order' = order /\ degrees' = degrees /\ (errors' <=> \E n \in Node : BadSource(n)')
    BY <1>1, <1>3, <1>8
  <2> QED BY <1>3, <1>8, <2>1, <2>3, <2>4, <2>5, <2>6 DEF LayersAreBuilt
<1>12. Verdict' /\ LayersAreSplit' /\ PlanIsLayered'
  BY <1>1 DEF Verdict, LayersAreSplit, PlanIsLayered
<1> QED BY <1>9, <1>10, <1>11, <1>12 DEF PlanInv

(* When nothing of the layer is pending, the next is the coming one. *)
LEMMA NextLayerKeeps ==
  ASSUME PlanInv, NextLayer
  PROVE  PlanInv'
<1>1. /\ phase = "resolving" /\ phase' = "layers" /\ pos > Len(current)
      /\ current' = next
      /\ UNCHANGED <<config, pos, depends_on, errors, degrees, next, layers, order>>
      /\ UNCHANGED <<parallel, sequential, used_models, scheduled>>
  BY DEF NextLayer, splitVars
<1>2. PlanTypes /\ current \in Seq(Node) /\ pos \in Nat \ {0}
  BY DEF PlanInv, PlanTypes
<1>3. Pending = <<>> /\ Pending' = <<>> /\ Coming' = Coming
  BY <1>1, <1>2, RestOfList DEF Pending, Coming
<1>4. /\ \A n : Dependencies(n)' = Dependencies(n)
      /\ \A n : Gathered(n)' <=> Gathered(n)
      /\ \A ls, C : Layered(ls, C)' <=> Layered(ls, C)
      /\ \A n : BadSource(n)' <=> BadSource(n)
  BY <1>1, SameDependencies, SameConfiguration
<1>5. PlanTypes'
  BY <1>1, <1>2 DEF PlanTypes
<1>6. SourcesAreGathered' /\ NothingIsSplit'
  BY <1>1, <1>4 DEF PlanInv, SourcesAreGathered, NothingIsSplit
<1>7. LayersAreBuilt'
  BY <1>1, <1>3, <1>4 DEF PlanInv, LayersAreBuilt
<1>8. Verdict' /\ LayersAreSplit' /\ PlanIsLayered'
  BY <1>1 DEF Verdict, LayersAreSplit, PlanIsLayered
<1> QED BY <1>5, <1>6, <1>7, <1>8 DEF PlanInv

(* A resolved node leaves each child one dependency less; those left with  *)
(* none are the nodes that are newly ready.                                *)
LEMMA ResolveKeeps ==
  ASSUME PlanInv, Resolve
  PROVE  PlanInv'
<1> PICK id : id = current[pos]
  OBVIOUS
<1> DEFINE left == SubSeq(current, pos + 1, Len(current))
           done == ToSet(order)
           free == {n \in Children(id) : degrees[n] = 1}
           Ready(O) == {n \in Node : Dependencies(n) \subseteq O}
<1>1. /\ phase = "resolving" /\ phase' = "resolving" /\ pos <= Len(current)
      /\ order' = Append(order, id) /\ pos' = pos + 1
      /\ degrees' = [n \in Node |-> IF n \in Children(id) THEN degrees[n] - 1 ELSE degrees[n]]
      /\ next' = next \o InOrder(free)
      /\ UNCHANGED <<config, depends_on, errors, current, layers>>
      /\ UNCHANGED <<parallel, sequential, used_models, scheduled>>
  BY DEF Resolve, splitVars
<1>2. /\ PlanTypes /\ config \in Configs /\ current \in Seq(Node) /\ order \in Seq(Node)
      /\ next \in Seq(Node) /\ pos \in Nat \ {0}
  BY DEF PlanInv, PlanTypes
<1>3. /\ errors <=> \E n \in Node : BadSource(n)
      /\ Layered(layers, {})
      /\ FlattenSeq(layers) = order \o SubSeq(current, pos, Len(current))
      /\ \A n \in Node : degrees[n] = Cardinality(Dependencies(n) \ done)
      /\ Ready(done) = AllOf(layers) \cup ToSet(next)
      /\ IsInjective(next) /\ ToSet(next) \cap AllOf(layers) = {}
  BY <1>1 DEF PlanInv, LayersAreBuilt, Pending, Coming
<1>4. /\ id \in Node /\ SubSeq(current, pos, Len(current)) \in Seq(Node) /\ left \in Seq(Node)
      /\ SubSeq(current, pos, Len(current)) = <<id>> \o left
      /\ ToSet(SubSeq(current, pos, Len(current))) = {id} \cup ToSet(left)
  BY <1>1, <1>2, NextOfList
<1>5. id \notin done
  <2>1. IsInjective(order \o SubSeq(current, pos, Len(current)))
    BY <1>3, LayersFlatten
  <2>2. done \cap ToSet(SubSeq(current, pos, Len(current))) = {}
    BY <1>2, <1>4, <2>1, ConcatSet
  <2> QED BY <1>4, <2>2
<1>6. Append(order, id) \in Seq(Node) /\ ToSet(Append(order, id)) = done \cup {id}
  BY <1>2, <1>4, AppendSet
<1>7. Append(order, id) \o left = order \o SubSeq(current, pos, Len(current))
  <2>1. <<id>> \in Seq(Node)
    BY <1>4, OneSet
  <2>2. Append(order, id) = order \o <<id>>
    BY <1>2, <1>4, AppendIsConcat
  <2> HIDE DEF left
  <2>3. (order \o <<id>>) \o left = order \o (<<id>> \o left)
    BY <1>2, <1>4, <2>1, ConcatAssociative, SMTT(30)
  <2> QED BY <1>4, <2>2, <2>3
<1>8. \A n \in Node : Gathered(n) /\ IsFiniteSet(Dependencies(n))
  BY <1>1, <1>2, DependenciesAreNeeds DEF PlanInv, SourcesAreGathered
<1> HIDE DEF done, left
<1>9. \A n \in Node : degrees'[n] = Cardinality(Dependencies(n) \ (done \cup {id}))
  <2> TAKE n \in Node
  <2> DEFINE wait == Dependencies(n) \ done
  <2>1. IsFiniteSet(wait) /\ wait \ {id} = Dependencies(n) \ (done \cup {id})
    BY <1>8, FS_Subset
  <2>2. degrees[n] = Cardinality(wait)
    BY <1>3
  <2>3. n \in Children(id) <=> id \in wait
    BY <1>5 DEF Children
  <2> HIDE DEF wait
  <2>4. Cardinality(wait \ {id}) = IF id \in wait THEN Cardinality(wait) - 1 ELSE Cardinality(wait)
    BY <2>1, FS_RemoveElement
  <2> QED BY <1>1, <2>1, <2>2, <2>3, <2>4
<1>10. /\ free \subseteq Node /\ free \cap Ready(done) = {}
       /\ Ready(done \cup {id}) = Ready(done) \cup free
  <2>1. free \subseteq Node /\ free \cap Ready(done) = {}
    BY <1>5 DEF Children
  <2>2. \A n \in free : Dependencies(n) \subseteq done \cup {id}
    <3> TAKE n \in free
    <3> DEFINE wait == Dependencies(n) \ done
    <3>1. n \in Node /\ id \in wait /\ Cardinality(wait) = 1 /\ IsFiniteSet(wait)
      BY <1>3, <1>5, <1>8, FS_Subset DEF Children
    <3>2. \E x : wait = {x}
      <4> HIDE DEF wait
      <4> QED BY <3>1, FS_Singleton
    <3> QED BY <3>1, <3>2
  <2>3. \A n \in Node :
          Dependencies(n) \subseteq done \cup {id} /\ ~(Dependencies(n) \subseteq done)
            => n \in free
    <3> SUFFICES ASSUME NEW n \in Node, Dependencies(n) \subseteq done \cup {id},
                        ~(Dependencies(n) \subseteq done)
                 PROVE  n \in free
      OBVIOUS
    <3>1. Dependencies(n) \ done = {id} /\ n \in Children(id)
      BY DEF Children
    <3>2. degrees[n] = 1
      BY <1>3, <3>1, FS_Singleton
    <3> QED BY <3>1, <3>2
  <2> HIDE DEF free
  <2> QED BY <2>1, <2>2, <2>3
<1> HIDE DEF free
<1>11. InOrder(free) \in Seq(Node) /\ IsInjective(InOrder(free)) /\ ToSet(InOrder(free)) = free
  BY <1>10, InOrderLists, SeqMonotonic
<1>12. /\ next' \in Seq(Node) /\ IsInjective(next') /\ ToSet(next') = ToSet(next) \cup free
       /\ ToSet(next') \cap AllOf(layers) = {}
  <2>1. ToSet(next) \cap ToSet(InOrder(free)) = {}
    BY <1>3, <1>10, <1>11
  <2>2. /\ next' \in Seq(Node) /\ IsInjective(next')
        /\ ToSet(next') = ToSet(next) \cup ToSet(InOrder(free))
    BY <1>1, <1>2, <1>3, <1>11, <2>1, ConcatSet
  <2> QED BY <1>3, <1>10, <1>11, <2>2
<1>13. /\ \A n : Dependencies(n)' = Dependencies(n)
       /\ \A n : Gathered(n)' <=> Gathered(n)
       /\ \A ls, C : Layered(ls, C)' <=> Layered(ls, C)
       /\ \A n : BadSource(n)' <=> BadSource(n)
  BY <1>1, SameDependencies, SameConfiguration
<1>14. PlanTypes'
  <2>1. pos + 1 \in Nat \ {0}
    BY <1>2
  <2> QED BY <1>1, <1>2, <1>6, <1>12, <2>1 DEF PlanTypes
<1>15. SourcesAreGathered' /\ NothingIsSplit'
  BY <1>1, <1>8, <1>13 DEF PlanInv, SourcesAreGathered, NothingIsSplit
<1>16. LayersAreBuilt'
  <2>1. Coming' = next' /\ Pending' = left
    BY <1>1 DEF Coming, Pending, left
  <2>2. FlattenSeq(layers') = order' \o left
    BY <1>1, <1>3, <1>7
  <2>3. ToSet(order') = done \cup {id} /\ layers' = layers
    BY <1>1, <1>6
  <2>4. {n \in Node : Dependencies(n) \subseteq ToSet(order')} = AllOf(layers') \cup ToSet(next')
    BY <1>3, <1>10, <1>12, <2>3
  <2>5. \A n \in Node : degrees'[n] = Cardinality(Dependencies(n) \ ToSet(order'))
    BY <1>9, <2>3
  <2>6. errors' <=> \E n \in Node : BadSource(n)'
    BY <1>1, <1>3, <1>13
  <2>7. IsInjective(next') /\ ToSet(next') \cap AllOf(layers') = {}
    BY <1>12, <2>3
  <2>8. Layered(layers, {})'
    BY <1>3, <1>13, <2>3
  <2> QED BY <1>13, <2>1, <2>2, <2>4, <2>5, <2>6, <2>7, <2>8 DEF LayersAreBuilt
<1>17. Verdict' /\ LayersAreSplit' /\ PlanIsLayered'
  BY <1>1 DEF Verdict, LayersAreSplit, PlanIsLayered
<1> QED BY <1>14, <1>15, <1>16, <1>17 DEF PlanInv

(* Nodes in layers after all that they need are on no cycle. *)
LEMMA LayeredIsAcyclic ==
  ASSUME config \in Configs, NEW ls, Layered(ls, {}), AllOf(ls) = Node,
         \A n \in Node : Needs(n) = Dependencies(n)
  PROVE  Acyclic
<1> DEFINE rank == [n \in Node |-> CHOOSE l \in DOMAIN ls : n \in ToSet(ls[l])]
<1>1. DOMAIN ls = 1 .. Len(ls) /\ Len(ls) \in Nat
  BY LenProperties DEF Layered
<1>2. \A n \in Node : rank[n] \in DOMAIN ls /\ n \in ToSet(ls[rank[n]])
  <2> TAKE n \in Node
  <2>1. \E l \in DOMAIN ls : n \in ToSet(ls[l])
    BY DEF AllOf
  <2> QED BY <2>1
<1>3. rank \in [Node -> Nat]
  <2>1. \A n \in Node : rank[n] \in Nat
    BY <1>1, <1>2
  <2> QED BY <2>1
<1>4. \A n \in Node : \A d \in Needs(n) : rank[d] < rank[n]
  <2> SUFFICES ASSUME NEW n \in Node, NEW d \in Needs(n)
               PROVE  rank[d] < rank[n]
    OBVIOUS
  <2>1. d \in Node
    BY ConfigTypes
  <2> HIDE DEF rank
  <2>2. d \in Before(ls, rank[n])
    BY <1>2 DEF Layered
  <2>3. PICK m \in 1 .. rank[n] - 1 : d \in ToSet(ls[m])
    BY <2>2 DEF Before, Upto
  <2>4. ~(m \in 1 .. rank[d] - 1)
    <3> SUFFICES ASSUME m \in 1 .. rank[d] - 1 PROVE FALSE
      OBVIOUS
    <3>1. d \in Before(ls, rank[d])
      BY <2>3 DEF Before, Upto
    <3> QED BY <1>2, <2>1, <3>1 DEF Layered
  <2>5. rank[d] \in Nat /\ rank[n] \in Nat
    BY <1>3, <2>1
  <2> QED BY <2>3, <2>4, <2>5
<1> HIDE DEF rank
<1> QED BY <1>3, <1>4, RankedIsAcyclic

(* An input from an unknown node, or from the node itself, is ill-formed. *)
LEMMA BadSourceIsIllFormed ==
  ASSUME config \in Configs, NEW n \in Node, BadSource(n)
  PROVE  ~WellFormed
<1>1. CASE Unknown \in config.sources[n]
  BY <1>1 DEF WellFormed
<1>2. CASE n \in config.sources[n]
  <2>1. n \in Needs(n)
    BY <1>2, PlanningAssumption DEF Needs
  <2> QED BY <2>1, SelfNeedIsCycle DEF WellFormed
<1> QED BY <1>1, <1>2 DEF BadSource

(* Nothing comes any more: what is not resolved is on or behind a cycle,   *)
(* and with all resolved the layers show that there is none.               *)
LEMMA ResolvedKeeps ==
  ASSUME PlanInv, Resolved
  PROVE  PlanInv'
<1> DEFINE L == Len(NodeList)
           done == ToSet(order)
           invalid == invalid_reference \/ Len(order) # L
<1>1. /\ phase = "layers" /\ current = <<>> /\ pos' = 1
      /\ errors' = (errors \/ invalid)
      /\ phase' = IF invalid THEN "rejected"
                  ELSE IF config.workers > 1 THEN "splitting" ELSE "planned"
      /\ UNCHANGED <<config, depends_on, degrees, current, next, layers, order>>
      /\ UNCHANGED <<parallel, sequential, used_models, scheduled>>
  BY DEF Resolved, kahnVars, splitVars
<1>2. PlanTypes /\ config \in Configs /\ order \in Seq(Node)
  BY DEF PlanInv, PlanTypes
<1>3. /\ errors <=> \E n \in Node : BadSource(n)
      /\ Layered(layers, {})
      /\ FlattenSeq(layers) = order \o <<>>
      /\ {n \in Node : Dependencies(n) \subseteq done} = AllOf(layers) \cup ToSet(<<>>)
  BY <1>1 DEF PlanInv, LayersAreBuilt, Pending, Coming
<1>4. FlattenSeq(layers) = order /\ AllOf(layers) = done /\ IsInjective(order)
  <2>1. order \o <<>> = order
    BY <1>2, ConcatEmptySeq
  <2> QED BY <1>3, <2>1, LayersFlatten
<1>5. {n \in Node : Dependencies(n) \subseteq done} = done
  BY <1>3, <1>4, EmptySet
<1>6. Len(order) = L <=> done = Node
  <2>1. done \subseteq Node
    BY <1>2, SetOfSeq
  <2>2. IsFiniteSet(Node) /\ Cardinality(Node) = L /\ Cardinality(done) = Len(order)
    BY <1>2, <1>4, NodesAreListed, SizeOfSeq
  <2> QED BY <2>1, <2>2, FS_Subset
<1>7. \A n \in Node : /\ Dependencies(n) = Needs(n) \ {n}
                      /\ Counted(n) = DOMAIN depends_on[n] <=>
                           /\ n \notin ToSet(config.depends_on[n])
                           /\ Unknown \notin ToSet(config.depends_on[n])
                           /\ IsInjective(config.depends_on[n])
  <2>1. \A n \in Node : Gathered(n)
    BY <1>1 DEF PlanInv, SourcesAreGathered
  <2> QED BY <1>2, <2>1, DependenciesAreNeeds
<1> HIDE DEF done
<1>8. ASSUME invalid
      PROVE  ~WellFormed
  <2>1. CASE invalid_reference
    <3>1. PICK n \in Node : Counted(n) # DOMAIN depends_on[n]
      BY <2>1 DEF invalid_reference
    <3>2. CASE n \in ToSet(config.depends_on[n])
      <4>1. n \in Needs(n)
        BY <3>2, PlanningAssumption DEF Needs
      <4> QED BY <1>2, <4>1, SelfNeedIsCycle DEF WellFormed
    <3>3. CASE n \notin ToSet(config.depends_on[n])
      BY <1>7, <3>1, <3>3 DEF WellFormed
    <3> QED BY <3>2, <3>3
  <2>2. CASE Len(order) # L
    <3> DEFINE U == Node \ done
    <3>1. U # {}
      <4>1. done \subseteq Node
        BY <1>5
      <4> QED BY <1>6, <2>2, <4>1
    <3>2. \A n \in U : Needs(n) \cap U # {}
      <4> TAKE n \in U
      <4>1. PICK d \in Dependencies(n) : d \notin done
        BY <1>5
      <4>2. d \in Needs(n) /\ d \in Node
        BY <1>2, <1>7, ConfigTypes
      <4> QED BY <4>1, <4>2
    <3> HIDE DEF U
    <3>3. U \in SUBSET Node
      BY DEF U
    <3> QED BY <1>2, <3>1, <3>2, <3>3, CycleIsFound DEF WellFormed
  <2> QED BY <1>8, <2>1, <2>2
<1>9. ASSUME ~invalid
      PROVE  errors <=> ~WellFormed
  <2>1. errors => ~WellFormed
    BY <1>2, <1>3, BadSourceIsIllFormed
  <2>2. ASSUME ~errors
        PROVE  WellFormed
    <3>1. \A n \in Node :
            /\ n \notin ToSet(config.depends_on[n]) /\ Unknown \notin ToSet(config.depends_on[n])
            /\ IsInjective(config.depends_on[n])
            /\ n \notin config.sources[n] /\ Unknown \notin config.sources[n]
      BY <1>3, <1>7, <1>9, <2>2 DEF invalid_reference, BadSource
    <3>2. \A n \in Node : Needs(n) = Dependencies(n)
      <4>1. \A n \in Node : n \notin Needs(n)
        BY <3>1 DEF Needs
      <4> QED BY <1>7, <4>1
    <3>3. AllOf(layers) = Node
      BY <1>4, <1>6, <1>9
    <3>4. Acyclic
      BY <1>2, <1>3, <3>2, <3>3, LayeredIsAcyclic
    <3> QED BY <3>1, <3>4 DEF WellFormed
  <2> QED BY <2>1, <2>2
<1>10. /\ \A n : Dependencies(n)' = Dependencies(n)
       /\ \A n : Gathered(n)' <=> Gathered(n)
       /\ \A ls, C : Layered(ls, C)' <=> Layered(ls, C)
       /\ WellFormed' <=> WellFormed
  BY <1>1, SameDependencies, SameConfiguration
<1>11. errors \in BOOLEAN
  BY <1>2 DEF PlanTypes
<1> HIDE DEF invalid
<1>12. invalid \in BOOLEAN
  BY DEF invalid
<1>13. errors' \in BOOLEAN /\ (errors' <=> errors \/ invalid)
  BY <1>1
<1>14. PlanTypes'
  BY <1>1, <1>2, <1>13 DEF PlanTypes
<1>15. SourcesAreGathered' /\ NothingIsSplit' /\ LayersAreBuilt'
  BY <1>1, <1>10 DEF PlanInv, SourcesAreGathered, NothingIsSplit, LayersAreBuilt
<1>16. Verdict'
  BY <1>1, <1>8, <1>9, <1>10, <1>13 DEF Verdict
<1>17. ~invalid => AllOf(layers) = Node
  BY <1>4, <1>6 DEF invalid
<1>18. LayersAreSplit'
  <2> SUFFICES ASSUME phase' = "splitting"
               PROVE  /\ Layered(scheduled, {})'
                      /\ Layered(layers, AllOf(scheduled))'
                      /\ AllOf(scheduled') \cup AllOf(layers') = Node
                      /\ layers' # <<>> => LayerIsParted'
    BY DEF LayersAreSplit
  <2>1. parallel = <<>> /\ sequential = <<>> /\ scheduled = <<>>
    BY <1>1 DEF PlanInv, NothingIsSplit
  <2>2. AllOf(layers) = Node
    BY <1>1, <1>17
  <2>3. Layered(<<>>, {}) /\ AllOf(<<>>) = {}
    BY NoLayers
  <2>4. ASSUME layers # <<>>
        PROVE  LayerIsParted'
    <3>1. Layer \in Seq(Node) /\ IsInjective(Layer)
      BY <1>3, <2>4, LayerIsTaken DEF Layer
    <3>2. Layer' = Layer
      BY <1>1 DEF Layer
    <3>3. SubSeq(Layer', pos', Len(Layer')) = Layer
      BY <1>1, <3>1, <3>2, SubSeqFull
    <3> QED BY <1>1, <2>1, <3>1, <3>2, <3>3, EmptySet DEF LayerIsParted
  <2> QED BY <1>1, <1>3, <1>10, <2>1, <2>2, <2>3, <2>4
<1>19. PlanIsLayered'
  BY <1>1, <1>3, <1>4, <1>10, <1>17 DEF PlanIsLayered
<1> QED BY <1>14, <1>15, <1>16, <1>18, <1>19 DEF PlanInv

(* A node of the layer goes to one of its two parts. *)
LEMMA SplitNodeKeepsPlan ==
  ASSUME PlanInv, SplitNode
  PROVE  PlanInv'
<1> PICK n : n = Layer[pos]
  OBVIOUS
<1> DEFINE rest == SubSeq(Layer, pos, Len(Layer))
           left == SubSeq(Layer, pos + 1, Len(Layer))
<1>1. /\ phase = "splitting" /\ phase' = "splitting" /\ layers # <<>> /\ pos <= Len(Layer)
      /\ pos' = pos + 1
      /\ UNCHANGED <<config, depends_on, errors, degrees, current, next, layers, order, scheduled>>
      /\ \/ parallel' = parallel /\ sequential' = Append(sequential, n)
         \/ sequential' = sequential /\ parallel' = Append(parallel, n)
  BY DEF SplitNode, kahnVars
<1>2. PlanTypes /\ pos \in Nat \ {0} /\ parallel \in Seq(Node) /\ sequential \in Seq(Node)
  BY DEF PlanInv, PlanTypes
<1>3. /\ Layered(scheduled, {}) /\ Layered(layers, AllOf(scheduled))
      /\ AllOf(scheduled) \cup AllOf(layers) = Node
      /\ IsInjective(parallel) /\ IsInjective(sequential) /\ IsInjective(rest)
      /\ ToSet(parallel) \cap ToSet(sequential) = {}
      /\ (ToSet(parallel) \cup ToSet(sequential)) \cap ToSet(rest) = {}
      /\ ToSet(parallel) \cup ToSet(sequential) \cup ToSet(rest) = ToSet(Layer)
  BY <1>1 DEF PlanInv, LayersAreSplit, LayerIsParted
<1>4. Layer \in Seq(Node)
  BY <1>1, <1>3, LayerIsTaken DEF Layer
<1>5. /\ n \in Node
      /\ ToSet(rest) = {n} \cup ToSet(left)
      /\ n \notin ToSet(left) /\ IsInjective(left)
  BY <1>1, <1>2, <1>3, <1>4, NextOfList
<1> HIDE DEF rest
<1>6. /\ \A n_1 : Gathered(n_1)' <=> Gathered(n_1)
      /\ \A ls, C : Layered(ls, C)' <=> Layered(ls, C)
      /\ WellFormed' <=> WellFormed
  BY <1>1, SameDependencies, SameConfiguration
<1>7. Layer' = Layer /\ SubSeq(Layer', pos', Len(Layer')) = left
  BY <1>1 DEF Layer
<1> HIDE DEF left
<1>8. /\ parallel' \in Seq(Node) /\ sequential' \in Seq(Node)
      /\ IsInjective(parallel') /\ IsInjective(sequential')
      /\ \/ ToSet(parallel') = ToSet(parallel) /\ ToSet(sequential') = ToSet(sequential) \cup {n}
         \/ ToSet(parallel') = ToSet(parallel) \cup {n} /\ ToSet(sequential') = ToSet(sequential)
  <2>1. n \notin ToSet(parallel) \cup ToSet(sequential)
    BY <1>3, <1>5
  <2>2. /\ Append(parallel, n) \in Seq(Node) /\ IsInjective(Append(parallel, n))
        /\ ToSet(Append(parallel, n)) = ToSet(parallel) \cup {n}
    BY <1>2, <1>3, <1>5, <2>1, AppendSet
  <2>3. /\ Append(sequential, n) \in Seq(Node) /\ IsInjective(Append(sequential, n))
        /\ ToSet(Append(sequential, n)) = ToSet(sequential) \cup {n}
    BY <1>2, <1>3, <1>5, <2>1, AppendSet
  <2> QED BY <1>1, <1>2, <1>3, <2>2, <2>3
<1>9. /\ ToSet(parallel') \cap ToSet(sequential') = {}
      /\ (ToSet(parallel') \cup ToSet(sequential')) \cap ToSet(left) = {}
      /\ ToSet(parallel') \cup ToSet(sequential') \cup ToSet(left) = ToSet(Layer)
  BY <1>3, <1>5, <1>8
<1>10. LayerIsParted'
  BY <1>5, <1>7, <1>8, <1>9 DEF LayerIsParted
<1>11. LayersAreSplit'
  BY <1>1, <1>3, <1>6, <1>10 DEF LayersAreSplit
<1>12. PlanTypes'
  <2>1. pos' \in Nat \ {0}
    BY <1>1, <1>2
  <2> QED BY <1>1, <1>2, <1>8, <2>1 DEF PlanTypes
<1>13. SourcesAreGathered' /\ NothingIsSplit' /\ LayersAreBuilt' /\ Verdict' /\ PlanIsLayered'
  BY <1>1, <1>6
     DEF PlanInv, SourcesAreGathered, NothingIsSplit, LayersAreBuilt, Verdict, PlanIsLayered
<1> QED BY <1>11, <1>12, <1>13 DEF PlanInv

(* The parts of the layer become layers behind those before it. *)
LEMMA EndSplitKeepsPlan ==
  ASSUME PlanInv, EndSplit
  PROVE  PlanInv'
<1> DEFINE together == IF parallel = <<>> THEN <<>> ELSE <<parallel>>
           alone == [i \in DOMAIN sequential |-> <<sequential[i]>>]
           mid == scheduled \o together
           C == AllOf(scheduled)
<1>1. /\ phase = "splitting" /\ phase' = "splitting" /\ layers # <<>> /\ pos > Len(Layer)
      /\ scheduled' = mid \o alone /\ layers' = Tail(layers)
      /\ parallel' = <<>> /\ sequential' = <<>> /\ pos' = 1
      /\ UNCHANGED <<config, depends_on, errors, degrees, current, next, order>>
  BY DEF EndSplit
<1>2. PlanTypes /\ pos \in Nat \ {0} /\ parallel \in Seq(Node) /\ sequential \in Seq(Node)
  BY DEF PlanInv, PlanTypes
<1>3. /\ Layered(scheduled, {}) /\ Layered(layers, C)
      /\ C \cup AllOf(layers) = Node
      /\ LayerIsParted
  BY <1>1 DEF PlanInv, LayersAreSplit
<1>4. /\ Layer \in Seq(Node) /\ ToSet(Layer) \cap C = {}
      /\ \A n \in ToSet(Layer) : Dependencies(n) \subseteq C
      /\ Layered(Tail(layers), C \cup ToSet(Layer))
      /\ AllOf(layers) = ToSet(Layer) \cup AllOf(Tail(layers))
  BY <1>1, <1>3, LayerIsTaken DEF Layer
<1>5. SubSeq(Layer, pos, Len(Layer)) = <<>>
  BY <1>1, <1>2, <1>4, RestOfList
<1>6. /\ IsInjective(parallel) /\ IsInjective(sequential)
      /\ ToSet(parallel) \cap ToSet(sequential) = {}
      /\ ToSet(parallel) \cup ToSet(sequential) = ToSet(Layer)
  BY <1>3, <1>5, EmptySet DEF LayerIsParted
<1>7. Layered(mid, {}) /\ AllOf(mid) = C \cup ToSet(parallel)
  <2>1. scheduled \in Seq(Seq(Node))
    BY <1>3 DEF Layered
  <2>2. CASE parallel = <<>>
    <3>1. mid = scheduled
      BY <2>1, <2>2, ConcatEmptySeq
    <3> QED BY <1>3, <2>2, <3>1, EmptySet
  <2>3. CASE parallel # <<>>
    <3>1. mid = Append(scheduled, parallel)
      BY <1>2, <2>1, <2>3, AppendIsConcat
    <3>2. \A n \in ToSet(parallel) : Dependencies(n) \subseteq {} \cup C
      BY <1>4, <1>6
    <3>3. ToSet(parallel) \cap ({} \cup C) = {}
      BY <1>4, <1>6
    <3> HIDE DEF mid
    <3> QED BY <1>2, <1>3, <1>6, <2>3, <3>1, <3>2, <3>3, LayerIsAdded
  <2> QED BY <2>2, <2>3
<1> HIDE DEF mid
<1>8. Layered(mid \o alone, {}) /\ AllOf(mid \o alone) = AllOf(mid) \cup ToSet(sequential)
  <2>1. \A n \in ToSet(sequential) : Dependencies(n) \subseteq AllOf(mid)
    BY <1>4, <1>6, <1>7
  <2>2. ToSet(sequential) \cap AllOf(mid) = {}
    BY <1>4, <1>6, <1>7
  <2> QED BY <1>2, <1>6, <1>7, <2>1, <2>2, NodesAreAdded
<1> HIDE DEF alone
<1>9. AllOf(scheduled') = C \cup ToSet(Layer)
  BY <1>1, <1>6, <1>7, <1>8
<1>10. /\ \A n : Gathered(n)' <=> Gathered(n)
       /\ \A ls, D : Layered(ls, D)' <=> Layered(ls, D)
       /\ WellFormed' <=> WellFormed
  BY <1>1, SameDependencies, SameConfiguration
<1>11. ASSUME layers' # <<>>
       PROVE  LayerIsParted'
  <2>1. Layer' \in Seq(Node) /\ IsInjective(Layer')
    BY <1>1, <1>4, <1>11, LayerIsTaken DEF Layer
  <2>2. SubSeq(Layer', pos', Len(Layer')) = Layer'
    BY <1>1, <2>1, SubSeqFull
  <2> QED BY <1>1, <2>1, <2>2, EmptySet DEF LayerIsParted
<1>12. LayersAreSplit'
  <2>1. Layered(scheduled, {})'
    BY <1>1, <1>8, <1>10
  <2>2. Layered(layers, AllOf(scheduled))'
    BY <1>1, <1>4, <1>9, <1>10
  <2>3. AllOf(scheduled') \cup AllOf(layers') = Node
    BY <1>1, <1>3, <1>4, <1>9
  <2> QED BY <1>11, <2>1, <2>2, <2>3 DEF LayersAreSplit
<1>13. PlanTypes'
  <2>1. <<>> \in Seq(Node) /\ 1 \in Nat \ {0}
    BY EmptySeq
  <2> QED BY <1>1, <1>2, <2>1 DEF PlanTypes
<1>14. SourcesAreGathered' /\ NothingIsSplit' /\ LayersAreBuilt' /\ Verdict' /\ PlanIsLayered'
  BY <1>1, <1>10
     DEF PlanInv, SourcesAreGathered, NothingIsSplit, LayersAreBuilt, Verdict, PlanIsLayered
<1> QED BY <1>12, <1>13, <1>14 DEF PlanInv

(* The layers that the split leaves are the plan. *)
LEMMA ScheduledKeepsPlan ==
  ASSUME PlanInv, Scheduled
  PROVE  PlanInv'
<1>1. /\ phase = "splitting" /\ phase' = "planned" /\ layers = <<>>
      /\ layers' = scheduled /\ order' = FlattenSeq(scheduled)
      /\ UNCHANGED <<config, pos, depends_on, errors, degrees, current, next>>
      /\ UNCHANGED <<parallel, sequential, used_models, scheduled>>
  BY DEF Scheduled, splitVars
<1>2. Layered(scheduled, {}) /\ AllOf(scheduled) = Node
  <2>1. AllOf(<<>>) = {}
    BY NoLayers
  <2> QED BY <1>1, <2>1 DEF PlanInv, LayersAreSplit
<1>3. /\ \A n : Gathered(n)' <=> Gathered(n)
      /\ \A ls, C : Layered(ls, C)' <=> Layered(ls, C)
      /\ WellFormed' <=> WellFormed
  BY <1>1, SameDependencies, SameConfiguration
<1>4. FlattenSeq(scheduled) \in Seq(Node)
  BY <1>2, LayersFlatten
<1>5. PlanTypes'
  BY <1>1, <1>4 DEF PlanInv, PlanTypes
<1>6. PlanIsLayered'
  BY <1>1, <1>2, <1>3 DEF PlanIsLayered
<1>7. SourcesAreGathered' /\ NothingIsSplit' /\ LayersAreBuilt' /\ Verdict' /\ LayersAreSplit'
  BY <1>1, <1>3
     DEF PlanInv, SourcesAreGathered, NothingIsSplit, LayersAreBuilt, Verdict, LayersAreSplit
<1> QED BY <1>5, <1>6, <1>7 DEF PlanInv

(* Nothing happens. *)
LEMMA StutterKeepsPlan ==
  ASSUME PlanInv, UNCHANGED vars
  PROVE  PlanInv'
<1>1. /\ UNCHANGED <<config, phase, pos, depends_on, errors, degrees, current, next>>
      /\ UNCHANGED <<layers, order, parallel, sequential, used_models, scheduled>>
  BY DEF vars, loopVars, kahnVars, splitVars
<1>2. /\ \A n : Gathered(n)' <=> Gathered(n)
      /\ \A n : Dependencies(n)' = Dependencies(n)
      /\ \A n : BadSource(n)' <=> BadSource(n)
      /\ \A ls, C : Layered(ls, C)' <=> Layered(ls, C)
      /\ WellFormed' <=> WellFormed
  BY <1>1, SameDependencies, SameConfiguration
<1>3. PlanTypes' /\ SourcesAreGathered' /\ NothingIsSplit' /\ Verdict' /\ PlanIsLayered'
  BY <1>1, <1>2
     DEF PlanInv, PlanTypes, SourcesAreGathered, NothingIsSplit, Verdict, PlanIsLayered
<1>4. LayersAreBuilt'
  BY <1>1, <1>2 DEF PlanInv, LayersAreBuilt, Pending, Coming
<1>5. LayersAreSplit'
  BY <1>1, <1>2 DEF PlanInv, LayersAreSplit, LayerIsParted, Layer
<1> QED BY <1>3, <1>4, <1>5 DEF PlanInv

(* The invariant holds of a plan that is not begun. *)
LEMMA InitPlanInv == Init => PlanInv
<1> SUFFICES ASSUME Init PROVE PlanInv
  OBVIOUS
<1>1. config \in Configs /\ depends_on = config.depends_on /\ phase = "sources" /\ pos = 1
  BY DEF Init
<1>2. depends_on \in [Node -> Seq(Node \cup {Unknown})]
  BY <1>1, PlanningAssumption DEF ConfigType
<1>3. PlanTypes
  <2>1. <<>> \in Seq(Node)
    BY EmptySeq
  <2>2. /\ errors = FALSE /\ current = <<>> /\ next = <<>> /\ order = <<>>
        /\ parallel = <<>> /\ sequential = <<>>
    BY DEF Init
  <2>3. /\ config \in Configs /\ pos \in Nat \ {0}
        /\ phase \in {"sources", "layers", "resolving", "rejected", "splitting", "planned"}
    BY <1>1
  <2>4. errors \in BOOLEAN
    BY <2>2
  <2> QED BY <1>2, <2>1, <2>2, <2>3, <2>4 DEF PlanTypes
<1>4. SourcesAreGathered
  <2>1. Len(NodeList) \in Nat
    BY NodesAreListed
  <2> QED BY <2>1 DEF Init, SourcesAreGathered
<1>5. NothingIsSplit /\ LayersAreBuilt /\ Verdict /\ LayersAreSplit /\ PlanIsLayered
  BY DEF Init, NothingIsSplit, LayersAreBuilt, Verdict, LayersAreSplit, PlanIsLayered
<1> QED BY <1>3, <1>4, <1>5 DEF PlanInv

(* Every step keeps the invariant. *)
LEMMA StepKeepsPlan ==
  ASSUME PlanInv, [Next]_vars
  PROVE  PlanInv'
BY AddDataDependenciesKeeps, CountDegreesKeeps, PushLayerKeeps, ResolveKeeps, NextLayerKeeps,
   ResolvedKeeps, SplitNodeKeepsPlan, EndSplitKeepsPlan, ScheduledKeepsPlan, StutterKeepsPlan
   DEF Next

(* The invariant of the planning holds throughout. *)
THEOREM PlanInvHolds == Spec => []PlanInv
<1>1. PlanInv /\ [Next]_vars => PlanInv'
  BY StepKeepsPlan
<1> QED BY <1>1, InitPlanInv, PTL DEF Spec

(* The validator accepts a configuration if and only if it is well formed. *)
THEOREM ValidationDecidesDags == Spec => []AcceptsExactlyDags
<1>1. PlanInv => AcceptsExactlyDags
  BY DEF PlanInv, Verdict, AcceptsExactlyDags, PlanTypes
<1> QED BY <1>1, PlanInvHolds, PTL

(* Without errors nothing needs itself, so what a node needs is what the   *)
(* layers before it have.                                                  *)
LEMMA LayeredPlanIsSound ==
  ASSUME PlanInv, phase = "planned", ~errors
  PROVE  PlanRespectsDependencies
<1>1. Layered(layers, {}) /\ AllOf(layers) = Node /\ order = FlattenSeq(layers)
  BY DEF PlanInv, PlanIsLayered
<1>2. IsInjective(order) /\ ToSet(order) = Node
  BY <1>1, LayersFlatten
<1>3. config \in Configs /\ WellFormed /\ \A n \in Node : Gathered(n)
  BY DEF PlanInv, PlanTypes, Verdict, SourcesAreGathered
<1>4. \A n \in Node : Needs(n) = Dependencies(n)
  <2> TAKE n \in Node
  <2>1. n \notin Needs(n)
    BY <1>3, SelfNeedIsCycle DEF WellFormed
  <2> QED BY <1>3, <2>1, DependenciesAreNeeds
<1>5. ASSUME NEW l \in DOMAIN layers
      PROVE  /\ layers[l] # <<>>
             /\ \A n \in ToSet(layers[l]) : \A d \in Needs(n) :
                  \E m \in 1 .. l - 1 : d \in ToSet(layers[m])
  <2>1. layers[l] # <<>> /\ \A n \in ToSet(layers[l]) : Dependencies(n) \subseteq Before(layers, l)
    BY <1>1 DEF Layered
  <2>2. ToSet(layers[l]) \subseteq Node
    BY <1>1 DEF AllOf
  <2> QED BY <1>4, <2>1, <2>2 DEF Before, Upto
<1> QED BY <1>1, <1>2, <1>5 DEF PlanRespectsDependencies

(* An accepted plan has each node once, after all that it waits for. *)
THEOREM PlansAreSound == Spec => []PlanRespectsDependencies
<1>1. PlanInv => PlanRespectsDependencies
  BY LayeredPlanIsSound DEF PlanRespectsDependencies
<1> QED BY <1>1, PlanInvHolds, PTL

-----------------------------------------------------------------------------
(* The split: an invariant of its own, of what may run at once *)

(* Nodes of one layer may run at once. *)
Fine(layer) ==
  \A i, j \in DOMAIN layer : i # j =>
    /\ layer[i] \in config.parallel_safe
    /\ config.models[layer[i]] \cap config.models[layer[j]] = {}

(* Those that stay together are safe, and what they use is remembered.     *)
ParallelIsFine ==
  /\ parallel \in Seq(config.parallel_safe)
  /\ Fine(parallel)
  /\ \A i \in DOMAIN parallel : config.models[parallel[i]] \subseteq used_models

(* The split leaves sequences, of layers that are fine. *)
SplitIsFine ==
  /\ \E S : sequential \in Seq(S)
  /\ \E S : scheduled \in Seq(S) /\ \A layer \in S : Fine(layer)

(* More than one worker gets what the split leaves. *)
PlanIsSplit ==
  phase = "planned" /\ config.workers > 1 => \A l \in DOMAIN layers : Fine(layers[l])

IInv == ParallelIsFine /\ SplitIsFine /\ PlanIsSplit

-----------------------------------------------------------------------------
(* A node that joins those that stay together is safe and shares no model  *)
(* with any of them.                                                       *)
LEMMA ParallelGrows ==
  ASSUME IInv, NEW n \in config.parallel_safe, ~SharesModel(n),
         parallel' = Append(parallel, n),
         used_models' = used_models \cup config.models[n],
         UNCHANGED config
  PROVE  ParallelIsFine'
<1> DEFINE k == Len(parallel)
<1>1. parallel \in Seq(config.parallel_safe) /\ k \in Nat /\ DOMAIN parallel = 1 .. k
  BY LenProperties DEF IInv, ParallelIsFine
<1>2. /\ parallel' \in Seq(config.parallel_safe)
      /\ Len(parallel') = k + 1
      /\ \A i \in 1 .. k : parallel'[i] = parallel[i]
      /\ parallel'[k + 1] = n
  BY <1>1, AppendProperties
<1>3. DOMAIN parallel' = 1 .. k + 1
  BY <1>2, LenProperties
<1>4. \A i \in DOMAIN parallel' :
        \/ i \in DOMAIN parallel /\ parallel'[i] = parallel[i]
        \/ i = k + 1 /\ parallel'[i] = n
  <2> HIDE DEF k
  <2>1. \A i \in 1 .. k + 1 : i \in 1 .. k \/ i = k + 1
    BY <1>1
  <2> QED BY <1>1, <1>2, <1>3, <2>1
<1>5. \A i \in DOMAIN parallel : config.models[parallel[i]] \cap config.models[n] = {}
  BY DEF IInv, ParallelIsFine, SharesModel
<1>6. \A i \in DOMAIN parallel' : parallel'[i] \in config.parallel_safe
  BY <1>2, ElementOfSeq, LenProperties
<1> HIDE DEF k
<1>7. Fine(parallel)'
  <2> SUFFICES ASSUME NEW i \in DOMAIN parallel', NEW j \in DOMAIN parallel', i # j
               PROVE  config.models[parallel'[i]] \cap config.models[parallel'[j]] = {}
    BY <1>6 DEF Fine
  <2>1. CASE i \in DOMAIN parallel /\ parallel'[i] = parallel[i]
    <3>1. CASE j \in DOMAIN parallel /\ parallel'[j] = parallel[j]
      BY <2>1, <3>1 DEF IInv, ParallelIsFine, Fine
    <3>2. CASE j = k + 1 /\ parallel'[j] = n
      BY <1>5, <2>1, <3>2
    <3> QED BY <1>4, <3>1, <3>2
  <2>2. CASE i = k + 1 /\ parallel'[i] = n
    <3>1. j \in DOMAIN parallel /\ parallel'[j] = parallel[j]
      BY <1>4, <2>2
    <3> QED BY <1>5, <2>2, <3>1
  <2> QED BY <1>4, <2>1, <2>2
<1>8. \A i \in DOMAIN parallel' : config.models[parallel'[i]] \subseteq used_models'
  BY <1>4 DEF IInv, ParallelIsFine
<1> QED BY <1>2, <1>7, <1>8 DEF ParallelIsFine

LEMMA SplitNodeKeeps ==
  ASSUME IInv, SplitNode
  PROVE  IInv'
<1> DEFINE n == Layer[pos]
<1>1. phase = "splitting" /\ UNCHANGED <<phase, config, scheduled>>
  BY DEF SplitNode, kahnVars
<1>2. SplitIsFine' /\ PlanIsSplit'
  <2>1. PICK S : sequential \in Seq(S)
    BY DEF IInv, SplitIsFine
  <2>2. sequential' = sequential \/ sequential' = Append(sequential, n)
    BY DEF SplitNode
  <2>3. sequential \in Seq(S \cup {n})
    BY <2>1, SeqMonotonic
  <2>4. Append(sequential, n) \in Seq(S \cup {n})
    BY <2>3, AppendProperties
  <2>5. sequential' \in Seq(S \cup {n})
    BY <2>2, <2>3, <2>4
  <2> QED BY <1>1, <2>5 DEF IInv, SplitIsFine, PlanIsSplit, Fine
<1>3. ParallelIsFine'
  <2>1. CASE UNCHANGED <<parallel, used_models>>
    BY <1>1, <2>1 DEF IInv, ParallelIsFine, Fine
  <2>2. CASE /\ n \in config.parallel_safe /\ ~SharesModel(n)
             /\ parallel' = Append(parallel, n)
             /\ used_models' = used_models \cup config.models[n]
    BY <1>1, <2>2, ParallelGrows
  <2> QED BY <2>1, <2>2 DEF SplitNode
<1> QED BY <1>2, <1>3 DEF IInv

(* A layer is left as those that stay together and the others one by one.  *)
LEMMA EndSplitKeeps ==
  ASSUME IInv, EndSplit
  PROVE  IInv'
<1> DEFINE together == IF parallel = <<>> THEN <<>> ELSE <<parallel>>
           alone == [i \in DOMAIN sequential |-> <<sequential[i]>>]
           single == {<<sequential[i]>> : i \in DOMAIN sequential}
<1>1. /\ phase = "splitting" /\ UNCHANGED <<phase, config>>
      /\ parallel' = <<>> /\ sequential' = <<>>
      /\ scheduled' = scheduled \o together \o alone
  BY DEF EndSplit
<1>2. PICK S : scheduled \in Seq(S) /\ \A layer \in S : Fine(layer)
  BY DEF IInv, SplitIsFine
<1> DEFINE U == S \cup {parallel} \cup single
<1>3. \A layer \in U : Fine(layer)
  <2>1. \A layer \in single : Fine(layer)
    BY DEF Fine
  <2> QED BY <1>2, <2>1 DEF IInv, ParallelIsFine
<1>4. scheduled \in Seq(U)
  BY <1>2, SeqMonotonic
<1>5. together \in Seq(U)
  <2>1. <<>> \in Seq(U)
    BY EmptySeq
  <2>2. parallel \in U
    OBVIOUS
  <2> HIDE DEF U
  <2>3. <<parallel>> \in Seq(U)
    BY <2>2
  <2> QED BY <2>1, <2>3
<1>6. alone \in Seq(U)
  <2>1. PICK T : sequential \in Seq(T)
    BY DEF IInv, SplitIsFine
  <2>2. Len(sequential) \in Nat /\ DOMAIN sequential = 1 .. Len(sequential)
    BY <2>1, LenProperties
  <2> DEFINE m == Len(sequential)
  <2>3. \A i \in 1 .. m : <<sequential[i]>> \in U
    BY <2>2
  <2> HIDE DEF m, U
  <2>4. [i \in 1 .. m |-> <<sequential[i]>>] \in Seq(U)
    BY <2>2, <2>3, IsASeq DEF m
  <2> QED BY <2>2, <2>4 DEF m
<1> HIDE DEF together, alone, U
<1>7. scheduled' \in Seq(U)
  BY <1>1, <1>4, <1>5, <1>6, ConcatProperties
<1>8. \A layer \in U : Fine(layer)'
  BY <1>1, <1>3 DEF Fine
<1>9. <<>> \in Seq({}) /\ <<>> \in Seq(config.parallel_safe) /\ DOMAIN <<>> = {}
  BY EmptySeq
<1> QED BY <1>1, <1>7, <1>8, <1>9 DEF IInv, ParallelIsFine, SplitIsFine, PlanIsSplit, Fine

(* What is left after the last layer is the plan. *)
LEMMA ScheduledKeeps ==
  ASSUME IInv, Scheduled
  PROVE  IInv'
<1>1. layers' = scheduled /\ UNCHANGED <<config, splitVars>>
  BY DEF Scheduled
<1>2. PICK S : scheduled \in Seq(S) /\ \A layer \in S : Fine(layer)
  BY DEF IInv, SplitIsFine
<1>3. \A l \in DOMAIN scheduled : scheduled[l] \in S
  BY <1>2, ElementOfSeq, LenProperties
<1> QED BY <1>1, <1>2, <1>3
        DEF IInv, ParallelIsFine, SplitIsFine, PlanIsSplit, Fine, splitVars

LEMMA InitIInv == Init => IInv
<1> SUFFICES ASSUME Init PROVE IInv
  OBVIOUS
<1>1. /\ <<>> \in Seq({}) /\ <<>> \in Seq(config.parallel_safe) /\ DOMAIN <<>> = {}
  BY EmptySeq
<1> QED BY <1>1 DEF Init, IInv, ParallelIsFine, SplitIsFine, PlanIsSplit, Fine

LEMMA StepKeepsInvariant ==
  ASSUME IInv, [Next]_vars
  PROVE  IInv'
<1>1. ASSUME UNCHANGED <<config, splitVars>>,
             phase' = "planned" =>
               \/ phase = "planned" /\ layers' = layers
               \/ ~(config.workers > 1)
      PROVE  IInv'
  BY <1>1 DEF IInv, ParallelIsFine, SplitIsFine, PlanIsSplit, Fine, splitVars
<1>2. CASE AddDataDependencies
  BY <1>1, <1>2 DEF AddDataDependencies
<1>3. CASE CountDegrees
  BY <1>1, <1>3 DEF CountDegrees
<1>4. CASE PushLayer
  BY <1>1, <1>4 DEF PushLayer
<1>5. CASE Resolve
  BY <1>1, <1>5 DEF Resolve
<1>6. CASE NextLayer
  BY <1>1, <1>6 DEF NextLayer
<1>7. CASE Resolved
  BY <1>1, <1>7 DEF Resolved
<1>8. CASE UNCHANGED vars
  BY <1>1, <1>8 DEF vars, kahnVars, loopVars
<1> QED BY <1>2, <1>3, <1>4, <1>5, <1>6, <1>7, <1>8, SplitNodeKeeps, EndSplitKeeps,
           ScheduledKeeps DEF Next

(* With more than one worker, the nodes of a layer are declared safe and   *)
(* no two of them share a serialized model.                                *)
THEOREM LayersAreSafe == Spec => []LayersMayRunInParallel
<1>1. IInv => LayersMayRunInParallel
  BY DEF IInv, PlanIsSplit, Fine, LayersMayRunInParallel
<1>2. IInv /\ [Next]_vars => IInv'
  BY StepKeepsInvariant
<1> QED BY <1>1, <1>2, InitIInv, PTL DEF Spec
=============================================================================
