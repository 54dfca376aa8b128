------------------------- MODULE TextGenerationProofs -------------------------
(***************************************************************************)
(* Machine-checked proofs about TextGeneration, for any threads, batches,  *)
(* prompts, vocabularies, stop words and bounds: an answer goes to the     *)
(* prompt it continues, the decoder's context is the history, the text     *)
(* ends at the first stop word and the answer with a whole character.      *)
(*                                                                         *)
(* Bytes flattens a sequence, which is unfolded by induction over sets of  *)
(* numbers, from the well-founded order of the naturals.                   *)
(***************************************************************************)
EXTENDS TextGeneration, FiniteSetTheorems, SequenceTheorems, TLAPS

-----------------------------------------------------------------------------
(* Text is made of bytes; a context has a prompt's tokens and others.      *)

Byte == DOMAIN Width
Symbol == Data \cup Token

-----------------------------------------------------------------------------
(* Induction, as sets of numbers *)

(* A set of numbers that is not empty has a least one. *)
LEMMA LeastNumber ==
  ASSUME NEW S \in SUBSET Nat, S # {}
  PROVE  \E m \in S : \A k \in S : m <= k
<1> DEFINE R == OpToRel(<, Nat)
<1>1. IsWellFoundedOn(R, Nat)
  BY NatLessThanWellFounded
<1>2. \A i, j \in Nat : <<i, j>> \in R <=> i < j
  BY DEF OpToRel
<1> HIDE DEF R
<1>3. PICK m \in S : \A k \in S : <<k, m>> \notin R
  BY <1>1, WFMin, Zenon
<1>4. \A k \in S : ~(k < m)
  BY <1>2, <1>3
<1>5. \A k \in S : m <= k
  BY <1>4
<1> QED BY <1>5

(* A set that has 0 and the successors of its numbers has every number. *)
LEMMA InductionOnNumbers ==
  ASSUME NEW S, 0 \in S, \A n \in Nat : n \in S => n + 1 \in S
  PROVE  \A n \in Nat : n \in S
<1> DEFINE T == Nat \ S
<1> SUFFICES ASSUME T # {} PROVE FALSE
  OBVIOUS
<1>1. PICK m \in T : \A k \in T : m <= k
  BY LeastNumber
<1>2. m # 0 /\ m - 1 \in Nat /\ m - 1 \notin T
  BY <1>1
<1> QED BY <1>2

-----------------------------------------------------------------------------
(* Sequences that are flattened *)

(* The function FlattenSeq computes, from its first element on.            *)
Flat(ls) == CHOOSE f : f = [i \in 1 .. Len(ls) |->
                              IF i = 1 THEN ls[i] ELSE f[i - 1] \o ls[i]]

(* Flattening computes that function, when there is anything to flatten. *)
LEMMA FlattenIsFlat ==
  ASSUME NEW ls, Len(ls) # 0
  PROVE  FlattenSeq(ls) = Flat(ls)[Len(ls)]
BY DEF FlattenSeq, Flat

(* There is such a function: by induction on the number of pieces. *)
LEMMA FlatIsDefined ==
  ASSUME NEW T, NEW ls \in Seq(T)
  PROVE  Flat(ls) = [i \in 1 .. Len(ls) |->
                       IF i = 1 THEN ls[i] ELSE Flat(ls)[i - 1] \o ls[i]]
<1> DEFINE Step(f, i) == IF i = 1 THEN ls[i] ELSE f[i - 1] \o ls[i]
           S == {n \in Nat : \E f : f = [i \in 1 .. n |-> Step(f, i)]}
<1>1. 0 \in S
  <2>1. \A f : [i \in 1 .. 0 |-> Step(f, i)] = <<>>
    OBVIOUS
  <2> HIDE DEF Step
  <2>2. <<>> = [i \in 1 .. 0 |-> Step(<<>>, i)]
    BY <2>1
  <2> QED BY <2>2
<1>2. ASSUME NEW n \in Nat, n \in S
      PROVE  n + 1 \in S
  <2>1. PICK f : f = [i \in 1 .. n |-> Step(f, i)]
    BY <1>2
  <2> DEFINE e == [i \in 1 .. n |-> Step(f, i)]
  <2>a. f = e
    BY <2>1
  <2> DEFINE g == [i \in 1 .. n + 1 |-> IF i <= n THEN f[i] ELSE Step(f, i)]
  <2>2. \A i \in 1 .. n + 1 : g[i] = Step(g, i)
    <3>1. \A i \in 1 .. n : g[i] = f[i] /\ f[i] = Step(f, i)
      <4> HIDE DEF Step
      <4>1. \A i \in 1 .. n : e[i] = Step(f, i)
        OBVIOUS
      <4>2. \A i \in 1 .. n : g[i] = f[i]
        OBVIOUS
      <4> HIDE DEF e, g
      <4> QED BY <2>a, <4>1, <4>2
    <3>2. \A i \in 1 .. n + 1 : i # 1 => i - 1 \in 1 .. n
      OBVIOUS
    <3>3. \A i \in 1 .. n + 1 : g[i] = Step(f, i)
      <4> HIDE DEF Step
      <4>1. \A i \in 1 .. n + 1 : g[i] = IF i <= n THEN f[i] ELSE Step(f, i)
        OBVIOUS
      <4> HIDE DEF e, g
      <4> QED BY <3>1, <4>1
    <3>4. \A i \in 1 .. n + 1 : Step(g, i) = Step(f, i)
      BY <3>1, <3>2
    <3> QED BY <3>3, <3>4
  <2>3. g = [i \in 1 .. n + 1 |-> Step(g, i)]
    <3>1. g = [i \in 1 .. n + 1 |-> g[i]]
      OBVIOUS
    <3> HIDE DEF g, Step
    <3> QED BY <2>2, <3>1
  <2>4. \E h : h = [i \in 1 .. n + 1 |-> Step(h, i)]
    <3> HIDE DEF g, Step
    <3> QED BY <2>3, Zenon
  <2> HIDE DEF Step
  <2> QED BY <2>4
<1> HIDE DEF S
<1>3. Len(ls) \in S
  BY <1>1, <1>2, InductionOnNumbers, LenProperties
<1>4. \E f : f = [i \in 1 .. Len(ls) |-> Step(f, i)]
  BY <1>3 DEF S
<1> QED BY <1>4 DEF Flat

(* One more piece is appended to the flat sequence. *)
LEMMA FlattenAppend ==
  ASSUME NEW S, NEW ls \in Seq(Seq(S)), NEW l \in Seq(S)
  PROVE  /\ FlattenSeq(ls) \in Seq(S)
         /\ FlattenSeq(Append(ls, l)) = FlattenSeq(ls) \o l
<1> DEFINE n == Len(ls)
           f == Flat(ls)
           more == Append(ls, l)
           g == Flat(more)
<1>1. n \in Nat /\ \A i \in 1 .. n : ls[i] \in Seq(S)
  BY LenProperties, ElementOfSeq
<1>2. /\ more \in Seq(Seq(S)) /\ Len(more) = n + 1 /\ more[n + 1] = l
      /\ \A i \in 1 .. n : more[i] = ls[i]
  BY AppendProperties
<1>3. \A i \in 1 .. n : f[i] = IF i = 1 THEN ls[i] ELSE f[i - 1] \o ls[i]
  <2> DEFINE e == [i \in 1 .. n |-> IF i = 1 THEN ls[i] ELSE f[i - 1] \o ls[i]]
  <2>1. f = e
    BY FlatIsDefined
  <2> HIDE DEF f
  <2>2. \A i \in 1 .. n : e[i] = IF i = 1 THEN ls[i] ELSE f[i - 1] \o ls[i]
    OBVIOUS
  <2> HIDE DEF e
  <2> QED BY <2>1, <2>2
<1>4. \A i \in 1 .. n + 1 : g[i] = IF i = 1 THEN more[i] ELSE g[i - 1] \o more[i]
  <2>1. g = [i \in 1 .. Len(more) |-> IF i = 1 THEN more[i] ELSE g[i - 1] \o more[i]]
    BY <1>2, FlatIsDefined
  <2> QED BY <1>2, <2>1
<1> DEFINE Good == {i \in Nat : i \in 1 .. n => f[i] \in Seq(S) /\ g[i] = f[i]}
<1> HIDE DEF n, f, more, g
<1>5. 0 \in Good
  OBVIOUS
<1>6. ASSUME NEW i \in Nat, i \in Good
      PROVE  i + 1 \in Good
  <2> SUFFICES ASSUME i + 1 \in 1 .. n
               PROVE  f[i + 1] \in Seq(S) /\ g[i + 1] = f[i + 1]
    OBVIOUS
  <2>1. i + 1 \in 1 .. n + 1 /\ more[i + 1] = ls[i + 1] /\ ls[i + 1] \in Seq(S)
    BY <1>1, <1>2
  <2>2. CASE i = 0
    BY <1>3, <1>4, <2>1, <2>2
  <2>3. CASE i # 0
    <3>1. i \in 1 .. n /\ f[i] \in Seq(S) /\ g[i] = f[i]
      BY <1>1, <1>6, <2>3
    <3>2. PICK k : k = i + 1
      OBVIOUS
    <3>3. k \in 1 .. n /\ k \in 1 .. n + 1 /\ k # 1 /\ k - 1 = i
      BY <1>1, <2>3, <3>2
    <3>4. f[k] = f[k - 1] \o ls[k] /\ g[k] = g[k - 1] \o more[k]
      BY <1>3, <1>4, <3>3, Zenon
    <3>5. f[i + 1] = f[i] \o ls[i + 1] /\ g[i + 1] = g[i] \o more[i + 1]
      BY <3>2, <3>3, <3>4, Zenon
    <3> QED BY <2>1, <3>1, <3>5, ConcatProperties
  <2> QED BY <2>2, <2>3
<1>7. \A i \in 1 .. n : f[i] \in Seq(S) /\ g[i] = f[i]
  <2> HIDE DEF Good
  <2>1. \A i \in Nat : i \in Good
    BY <1>5, <1>6, InductionOnNumbers
  <2> QED BY <1>1, <2>1 DEF Good
<1>8. FlattenSeq(more) = g[n + 1]
  BY <1>1, <1>2, FlattenIsFlat DEF g
<1>9. CASE n = 0
  <2>1. ls = <<>>
    BY <1>9, EmptySeq DEF n
  <2>2. FlattenSeq(ls) = <<>>
    BY <2>1 DEF FlattenSeq
  <2>3. g[1] = l
    BY <1>2, <1>4, <1>9
  <2> QED BY <1>8, <1>9, <2>2, <2>3, ConcatEmptySeq DEF more
<1>10. CASE n # 0
  <2>1. n \in 1 .. n /\ n + 1 \in 1 .. n + 1 /\ n + 1 # 1 /\ n + 1 - 1 = n
    BY <1>1, <1>10
  <2>2. FlattenSeq(ls) = f[n]
    BY <1>10, FlattenIsFlat DEF n, f
  <2>3. g[n + 1] = g[n] \o l
    <3>1. PICK k : k = n + 1
      OBVIOUS
    <3>2. k \in 1 .. n + 1 /\ k # 1 /\ k - 1 = n
      BY <2>1, <3>1
    <3>3. g[k] = g[k - 1] \o more[k]
      BY <1>4, <3>2, Zenon
    <3> QED BY <1>2, <3>1, <3>2, <3>3, Zenon
  <2> QED BY <1>7, <1>8, <2>1, <2>2, <2>3 DEF more
<1> QED BY <1>9, <1>10

-----------------------------------------------------------------------------
(* Numbers and pieces of sequences *)

(* The smaller one of two numbers. *)
LEMMA MinOfTwo ==
  ASSUME NEW a \in Int, NEW b \in Int
  PROVE  Min({a, b}) \in {a, b} /\ Min({a, b}) <= a /\ Min({a, b}) <= b
<1>1. \E x \in {a, b} : \A y \in {a, b} : x =< y
  OBVIOUS
<1>2. Min({a, b}) \in {a, b} /\ \A y \in {a, b} : Min({a, b}) =< y
  BY <1>1 DEF Min
<1> QED BY <1>2

(* A set of numbers has its minimum. *)
LEMMA MinOfNumbers ==
  ASSUME NEW S \in SUBSET Nat, S # {}
  PROVE  Min(S) \in S /\ \A x \in S : Min(S) <= x
<1>1. \E x \in S : \A y \in S : x =< y
  BY LeastNumber
<1> QED BY <1>1 DEF Min

(* A bounded set of numbers has its maximum. *)
LEMMA MaxOfNumbers ==
  ASSUME NEW n \in Nat, NEW S \in SUBSET (0 .. n), S # {}
  PROVE  Max(S) \in S /\ \A x \in S : x <= Max(S)
<1> DEFINE T == {n - x : x \in S}
<1>1. T \in SUBSET Nat /\ T # {}
  <2>1. \A x \in S : n - x \in Nat
    OBVIOUS
  <2> QED BY <2>1
<1>2. PICK m \in T : \A k \in T : m <= k
  <2> HIDE DEF T
  <2> QED BY <1>1, LeastNumber
<1>3. PICK y \in S : m = n - y
  BY <1>2
<1>4. \A x \in S : y >= x
  <2> TAKE x \in S
  <2>1. n - y <= n - x
    BY <1>2, <1>3
  <2> QED BY <2>1
<1>5. Max(S) \in S /\ \A x \in S : Max(S) >= x
  <2>1. \E z \in S : \A x \in S : z >= x
    BY <1>4
  <2> QED BY <2>1 DEF Max
<1>6. \A x \in S : x \in Int
  OBVIOUS
<1> QED BY <1>5, <1>6

(* The elements of a subsequence, its empty end included. *)
LEMMA PieceOfSeq ==
  ASSUME NEW S, NEW s \in Seq(S), NEW m \in Nat \ {0}, NEW n \in 0 .. Len(s), m <= n + 1
  PROVE  /\ SubSeq(s, m, n) \in Seq(S)
         /\ Len(SubSeq(s, m, n)) = n - m + 1
         /\ DOMAIN SubSeq(s, m, n) = 1 .. n - m + 1
         /\ \A i \in 1 .. n - m + 1 : SubSeq(s, m, n)[i] = s[m + i - 1]
<1>1. Len(s) \in Nat /\ m \in Int /\ n \in Int
  BY LenProperties
<1>2. \A i \in m .. n : s[i] \in S
  <2> TAKE i \in m .. n
  <2>1. i \in 1 .. Len(s)
    BY <1>1
  <2> QED BY <2>1, ElementOfSeq
<1> DEFINE c == SubSeq(s, m, n)
<1>3. /\ c \in Seq(S) /\ Len(c) = IF m <= n THEN n - m + 1 ELSE 0
      /\ \A i \in 1 .. n - m + 1 : c[i] = s[m + i - 1]
  BY <1>1, <1>2, SubSeqProperties
<1>4. DOMAIN c = 1 .. Len(c)
  BY <1>3, LenProperties
<1> HIDE DEF c
<1>5. Len(c) = n - m + 1
  BY <1>1, <1>3
<1>6. /\ c \in Seq(S) /\ Len(c) = n - m + 1 /\ DOMAIN c = 1 .. n - m + 1
      /\ \A i \in 1 .. n - m + 1 : c[i] = s[m + i - 1]
  BY <1>3, <1>4, <1>5
<1> QED BY <1>6 DEF c

-----------------------------------------------------------------------------
(* Whole characters *)

(* Widths are small numbers. *)
LEMMA WidthIsNumber ==
  \A b \in Byte : Width[b] \in 0 .. 5
BY DEF Byte, Width

(* Trailing counts to the last byte that starts something.                 *)
LEMMA TrailingIs ==
  ASSUME NEW s \in Seq(Byte), NEW b \in 0 .. Len(s), b # 0 => Width[s[b]] # 0,
         \A i \in b + 1 .. Len(s) : Width[s[i]] = 0
  PROVE  Trailing(s) = Len(s) - b
<1> DEFINE L == Len(s)
           S == {n \in 0 .. L : \A i \in L - n + 1 .. L : Width[s[i]] = 0}
<1>1. L \in Nat
  BY LenProperties
<1>2. L - b \in S
  <2>1. L - b \in 0 .. L /\ L - (L - b) + 1 = b + 1
    BY <1>1
  <2> QED BY <2>1
<1>3. Max(S) \in S /\ \A x \in S : x <= Max(S)
  <2>1. S \in SUBSET (0 .. L) /\ S # {}
    BY <1>2
  <2> HIDE DEF S, L
  <2> QED BY <1>1, <2>1, MaxOfNumbers
<1>4. ~(Max(S) > L - b)
  <2> SUFFICES ASSUME NEW n \in S, n > L - b PROVE FALSE
    BY <1>3
  <2>1. b # 0 /\ b \in L - n + 1 .. L
    BY <1>1
  <2> QED BY <2>1
<1>5. Max(S) = L - b
  <2>1. Max(S) \in 0 .. L /\ L - b <= Max(S)
    BY <1>2, <1>3
  <2> HIDE DEF S
  <2> QED BY <1>1, <1>4, <2>1
<1> QED BY <1>5 DEF Trailing

(* What is stripped, with b the last byte that starts something.           *)
LEMMA StripIs ==
  ASSUME NEW s \in Seq(Byte), NEW b \in 0 .. Len(s), b # 0 => Width[s[b]] # 0,
         \A i \in b + 1 .. Len(s) : Width[s[i]] = 0
  PROVE  StripIncompleteSuffix(s) =
           IF b = 0 THEN <<>>
           ELSE IF Width[s[b]] = 1 THEN SubSeq(s, 1, b)
           ELSE IF Len(s) - b + 1 = Width[s[b]] THEN s
           ELSE SubSeq(s, 1, b - 1)
<1>1. Trailing(s) = Len(s) - b
  BY TrailingIs
<1>2. Len(s) \in Nat /\ Len(s) - (Len(s) - b) = b
  BY LenProperties
<1> QED BY <1>1, <1>2 DEF StripIncompleteSuffix

(* Whole characters are left alone by StripIncompleteSuffix. *)
LEMMA WholeTextStays ==
  ASSUME NEW s \in Seq(Byte), IsWhole(s)
  PROVE  StripIncompleteSuffix(s) = s
<1> DEFINE L == Len(s)
<1>1. L \in Nat /\ \A i \in 1 .. L : s[i] \in Byte
  BY LenProperties, ElementOfSeq
<1>2. CASE L = 0
  <2>1. s = <<>>
    BY <1>2, EmptySeq
  <2>2. 0 \in 0 .. Len(s) /\ \A i \in 0 + 1 .. Len(s) : Width[s[i]] = 0
    BY <1>2
  <2> QED BY <2>1, <2>2, StripIs
<1>3. CASE L # 0
  <2>1. L \in 1 .. L
    BY <1>1, <1>3
  <2>2. PICK b \in 1 .. L, last \in L .. L : IsCharacter(SubSeq(s, b, last))
    BY <2>1 DEF IsWhole
  <2> DEFINE c == SubSeq(s, b, L)
  <2>3. last = L /\ b \in Nat \ {0} /\ L \in 0 .. Len(s) /\ b <= L + 1 /\ b \in 0 .. L
    BY <1>1, <2>2
  <2>4. Len(c) = L - b + 1 /\ \A i \in 1 .. L - b + 1 : c[i] = s[b + i - 1]
    BY <2>3, PieceOfSeq
  <2>5. Width[c[1]] = Len(c) /\ \A i \in 2 .. Len(c) : Width[c[i]] = 0
    BY <2>2, <2>3 DEF IsCharacter
  <2> HIDE DEF c, L
  <2>6. Width[s[b]] = L - b + 1
    <3>1. 1 \in 1 .. L - b + 1 /\ b + 1 - 1 = b
      BY <1>1, <2>3
    <3>2. c[1] = s[b]
      BY <2>4, <3>1
    <3> QED BY <2>4, <2>5, <3>2
  <2>7. \A i \in b + 1 .. L : Width[s[i]] = 0
    <3> TAKE i \in b + 1 .. L
    <3> PICK j \in 2 .. L - b + 1 : i = b + j - 1
      <4>1. i - b + 1 \in 2 .. L - b + 1 /\ i = b + (i - b + 1) - 1
        BY <1>1, <2>3
      <4> QED BY <4>1
    <3>1. j \in 1 .. L - b + 1
      BY <1>1, <2>3
    <3>2. c[j] = s[i] /\ Width[c[j]] = 0
      BY <2>4, <2>5, <3>1
    <3> QED BY <3>2
  <2>8. StripIncompleteSuffix(s) =
          IF Width[s[b]] = 1 THEN SubSeq(s, 1, b)
          ELSE IF L - b + 1 = Width[s[b]] THEN s ELSE SubSeq(s, 1, b - 1)
    <3>1. b # 0 /\ Width[s[b]] # 0
      BY <1>1, <2>3, <2>6
    <3> QED BY <2>3, <2>7, <3>1, StripIs DEF L
  <2>9. Width[s[b]] = 1 => SubSeq(s, 1, b) = s
    <3>1. Width[s[b]] = 1 => b = L
      BY <1>1, <2>3, <2>6
    <3> QED BY <3>1, SubSeqFull DEF L
  <2> QED BY <2>6, <2>8, <2>9
<1> QED BY <1>2, <1>3

(* The whole prefix of a text is a prefix, and whole. *)
LEMMA WholePrefixIs ==
  ASSUME NEW s \in Seq(Byte)
  PROVE  \E k \in 0 .. Len(s) : WholePrefix(s) = SubSeq(s, 1, k) /\ IsWhole(SubSeq(s, 1, k))
<1> DEFINE L == Len(s)
           S == {n \in 0 .. L : IsWhole(SubSeq(s, 1, n))}
<1>1. L \in Nat
  BY LenProperties
<1>2. 0 \in S
  <2>1. SubSeq(s, 1, 0) = <<>> /\ Len(<<>>) = 0
    BY SubSeqEmpty
  <2>2. IsWhole(<<>>)
    BY <2>1 DEF IsWhole
  <2>3. IsWhole(SubSeq(s, 1, 0))
    BY <2>1, <2>2, Zenon
  <2>4. 0 \in 0 .. L
    BY <1>1
  <2> HIDE DEF L
  <2> QED BY <2>3, <2>4, Zenon
<1>3. Max(S) \in S
  <2>1. S \in SUBSET (0 .. L) /\ S # {}
    BY <1>2
  <2> HIDE DEF S, L
  <2> QED BY <1>1, <2>1, MaxOfNumbers
<1>4. WholePrefix(s) = SubSeq(s, 1, Max(S))
  BY DEF WholePrefix
<1> HIDE DEF L
<1>5. Max(S) \in 0 .. L /\ IsWhole(SubSeq(s, 1, Max(S)))
  BY <1>3
<1> HIDE DEF S
<1> QED BY <1>4, <1>5 DEF L

(* A text of whole characters, or one whose last character is cut short,   *)
(* is stripped to its whole characters, and stripping again changes        *)
(* nothing.                                                                *)
LEMMA AnswerOfText ==
  ASSUME NEW s \in Seq(Byte), NEW rest,
         rest = SubSeq(s, Len(WholePrefix(s)) + 1, Len(s)),
         rest = <<>> \/ /\ Len(rest) < Width[rest[1]]
                        /\ \A i \in 2 .. Len(rest) : Width[rest[i]] = 0
  PROVE  StripIncompleteSuffix(StripIncompleteSuffix(s)) = WholePrefix(s)
<1> DEFINE L == Len(s)
<1>1. PICK k \in 0 .. Len(s) : WholePrefix(s) = SubSeq(s, 1, k) /\ IsWhole(SubSeq(s, 1, k))
  BY WholePrefixIs
<1> DEFINE p == SubSeq(s, 1, k)
<1>2. L \in Nat /\ k \in Nat /\ 1 \in Nat \ {0} /\ 1 <= k + 1
  BY LenProperties
<1>3. p \in Seq(Byte) /\ Len(p) = k
  <2>1. p \in Seq(Byte) /\ Len(p) = k - 1 + 1
    BY <1>2, PieceOfSeq
  <2> HIDE DEF p
  <2> QED BY <1>2, <2>1
<1>4. StripIncompleteSuffix(p) = p
  BY <1>1, <1>3, WholeTextStays
<1>5. /\ Len(rest) = L - k
      /\ \A i \in 1 .. L - k : rest[i] = s[k + i]
  <2>1. k + 1 \in Nat \ {0} /\ Len(s) \in 0 .. Len(s) /\ k + 1 <= Len(s) + 1
    BY <1>2
  <2> DEFINE m == k + 1
  <2>2. rest = SubSeq(s, m, Len(s))
    BY <1>1, <1>3
  <2>3. m \in Nat \ {0} /\ m <= Len(s) + 1
    BY <2>1
  <2> HIDE DEF m
  <2> DEFINE c == SubSeq(s, m, Len(s))
  <2>5. /\ Len(c) = Len(s) - m + 1
        /\ \A i \in 1 .. Len(s) - m + 1 : c[i] = s[m + i - 1]
    BY <2>1, <2>3, PieceOfSeq
  <2>6. rest = c
    BY <2>2
  <2> HIDE DEF c
  <2>4. L - m + 1 = L - k /\ \A i \in 1 .. L - k : m + i - 1 = k + i
    BY <1>2 DEF m
  <2> QED BY <2>4, <2>5, <2>6
<1>6. CASE k = L
  <2>1. p = s
    BY <1>6, SubSeqFull
  <2> QED BY <1>1, <1>4, <2>1
<1>7. CASE k # L
  <2>1. rest # <<>>
    <3>1. Len(rest) # 0
      BY <1>2, <1>5, <1>7
    <3>2. Len(<<>>) = 0
      OBVIOUS
    <3> QED BY <3>1, <3>2
  <2>2. Len(rest) < Width[rest[1]] /\ \A i \in 2 .. Len(rest) : Width[rest[i]] = 0
    BY <2>1
  <2> DEFINE b == k + 1
  <2>3. b \in 0 .. L /\ b # 0 /\ b - 1 = k /\ 1 \in 1 .. L - k
    BY <1>2, <1>7
  <2>4. Width[s[b]] > L - k /\ s[b] \in Byte
    <3>1. rest[1] = s[b]
      BY <1>5, <2>3
    <3>2. b \in 1 .. Len(s)
      BY <2>3
    <3> QED BY <1>5, <2>2, <3>1, <3>2, ElementOfSeq
  <2>5. \A i \in b + 1 .. L : Width[s[i]] = 0
    <3> TAKE i \in b + 1 .. L
    <3> PICK j \in 2 .. L - k : i = k + j
      <4>1. i - k \in 2 .. L - k /\ i = k + (i - k)
        BY <1>2
      <4> QED BY <4>1
    <3>1. j \in 1 .. L - k /\ j \in 2 .. Len(rest)
      BY <1>5
    <3>2. rest[j] = s[i]
      BY <1>5, <3>1
    <3> QED BY <2>2, <3>1, <3>2
  <2>6. Width[s[b]] \in Int /\ Width[s[b]] # 0 /\ Width[s[b]] # 1 /\ L - b + 1 # Width[s[b]]
    <3>1. Width[s[b]] \in 0 .. 5
      BY <2>4, WidthIsNumber
    <3>2. Width[s[b]] \in Int
      BY <3>1
    <3> HIDE DEF b
    <3>3. L - k >= 1 /\ L - b + 1 = L - k
      BY <1>2, <2>3
    <3> QED BY <1>2, <2>4, <3>2, <3>3
  <2> HIDE DEF b
  <2>7. StripIncompleteSuffix(s) =
           IF b = 0 THEN <<>>
           ELSE IF Width[s[b]] = 1 THEN SubSeq(s, 1, b)
           ELSE IF Len(s) - b + 1 = Width[s[b]] THEN s
           ELSE SubSeq(s, 1, b - 1)
    BY <2>3, <2>5, <2>6, StripIs
  <2>8. StripIncompleteSuffix(s) = p
    BY <2>3, <2>6, <2>7
  <2> QED BY <1>1, <1>4, <2>8
<1> QED BY <1>6, <1>7

-----------------------------------------------------------------------------
(* Where sequences are cut *)

(* A sequence is cut in two. *)
LEMMA SeqInTwo ==
  ASSUME NEW S, NEW s \in Seq(S), NEW k \in 0 .. Len(s)
  PROVE  /\ SubSeq(s, 1, k) \in Seq(S) /\ SubSeq(s, k + 1, Len(s)) \in Seq(S)
         /\ SubSeq(s, 1, k) \o SubSeq(s, k + 1, Len(s)) = s
         /\ Len(SubSeq(s, 1, k)) = k
<1>1. Len(s) \in Nat
  BY LenProperties
<1>2. SubSeq(s, 1, k) \in Seq(S) /\ Len(SubSeq(s, 1, k)) = k
  <2>1. 1 \in Nat \ {0} /\ 1 <= k + 1 /\ k - 1 + 1 = k
    OBVIOUS
  <2> QED BY <2>1, PieceOfSeq
<1>3. SubSeq(s, k + 1, Len(s)) \in Seq(S)
  <2>1. k + 1 \in Nat \ {0} /\ Len(s) \in 0 .. Len(s) /\ k + 1 <= Len(s) + 1
    BY <1>1
  <2> QED BY <2>1, PieceOfSeq
<1>4. SubSeq(s, 1, k) \o SubSeq(s, k + 1, Len(s)) = SubSeq(s, 1, Len(s))
  <2>1. 1 \in 1 .. Len(s) + 1 /\ k \in 1 - 1 .. Len(s) /\ Len(s) \in k .. Len(s)
    BY <1>1
  <2> QED BY <2>1, ConcatAdjacentSubSeq
<1> QED BY <1>2, <1>3, <1>4, SubSeqFull

(* The rest of a concatenation is what was appended. *)
LEMMA RestOfConcat ==
  ASSUME NEW S, NEW s \in Seq(S), NEW t \in Seq(S)
  PROVE  SubSeq(s \o t, Len(s) + 1, Len(s \o t)) = t
<1> DEFINE c == s \o t
           k == Len(s)
           a == SubSeq(c, 1, k)
           b == SubSeq(c, k + 1, Len(c))
<1>1. /\ c \in Seq(S) /\ Len(c) = k + Len(t) /\ k \in Nat /\ Len(t) \in Nat
      /\ \A i \in 1 .. k + Len(t) : c[i] = IF i <= k THEN s[i] ELSE t[i - k]
  BY ConcatProperties, LenProperties
<1> HIDE DEF c
<1>2. k \in 0 .. Len(c)
  BY <1>1
<1>3. a \in Seq(S) /\ b \in Seq(S) /\ a \o b = c /\ Len(a) = k
  BY <1>1, <1>2, SeqInTwo
<1>4. \A i \in 1 .. k : a[i] = s[i]
  <2>1. k \in 0 .. Len(c) /\ 1 \in Nat \ {0} /\ 1 <= k + 1 /\ k - 1 + 1 = k
    BY <1>1, <1>2
  <2>2. \A i \in 1 .. k - 1 + 1 : a[i] = c[1 + i - 1]
    BY <1>1, <2>1, PieceOfSeq
  <2>3. \A i \in 1 .. k : i \in 1 .. k - 1 + 1 /\ 1 + i - 1 = i /\ i \in 1 .. k + Len(t) /\ i <= k
    BY <1>1
  <2> HIDE DEF a, k
  <2>4. \A i \in 1 .. k : a[i] = c[i]
    BY <2>2, <2>3
  <2> QED BY <1>1, <2>3, <2>4
<1>5. a = s
  <2> HIDE DEF a
  <2> QED BY <1>3, <1>4, SeqEqual
<1>6. s \o b = s \o t
  BY <1>3, <1>5 DEF c
<1>7. b = t
  <2> HIDE DEF b
  <2>1. \A u, v, w \in Seq(S) : u \o v = u \o w => v = w
    BY ConcatSimplifications
  <2> QED BY <1>3, <1>6, <2>1
<1> QED BY <1>7 DEF c

(* The front of a sequence is a prefix of it. *)
LEMMA PrefixIsPrefix ==
  ASSUME NEW S, NEW s \in Seq(S), NEW k \in 0 .. Len(s)
  PROVE  IsPrefix(SubSeq(s, 1, k), s)
<1>1. Len(SubSeq(s, 1, k)) = k /\ SubSeq(s, 1, k) \in Seq(S) /\ Len(s) \in Nat
  BY SeqInTwo, LenProperties
<1> DEFINE a == SubSeq(s, 1, k)
<1>2. SubSeq(a, 1, Len(a)) = a
  BY <1>1, SubSeqFull
<1>3. Len(a) <= Len(s)
  BY <1>1
<1> QED BY <1>1, <1>2, <1>3 DEF IsPrefix

(* A word that is a prefix has its bytes there.                            *)
LEMMA PrefixBytes ==
  ASSUME NEW S, NEW s \in Seq(S), NEW w \in Seq(S)
  PROVE  IsPrefix(w, s) <=> Len(w) <= Len(s) /\ \A i \in 1 .. Len(w) : w[i] = s[i]
<1> DEFINE k == Len(w)
           a == SubSeq(s, 1, k)
<1>1. k \in Nat /\ Len(s) \in Nat /\ SubSeq(w, 1, k) = w
  BY LenProperties, SubSeqFull
<1> SUFFICES ASSUME k <= Len(s)
             PROVE  w = a <=> \A i \in 1 .. k : w[i] = s[i]
  BY <1>1 DEF IsPrefix
<1>2. a \in Seq(S) /\ Len(a) = k /\ \A i \in 1 .. k : a[i] = s[i]
  <2>1. k \in 0 .. Len(s) /\ 1 \in Nat \ {0} /\ 1 <= k + 1 /\ k - 1 + 1 = k
    BY <1>1
  <2>2. /\ a \in Seq(S) /\ Len(a) = k - 1 + 1
        /\ \A i \in 1 .. k - 1 + 1 : a[i] = s[1 + i - 1]
    BY <2>1, PieceOfSeq
  <2>3. \A i \in 1 .. k : i \in 1 .. k - 1 + 1 /\ 1 + i - 1 = i
    BY <1>1
  <2> HIDE DEF a, k
  <2> QED BY <2>1, <2>2, <2>3
<1> HIDE DEF a
<1>3. (\A i \in 1 .. k : w[i] = s[i]) => w = a
  BY <1>2, SeqEqual
<1> QED BY <1>2, <1>3

(* The text is cut where the first stop word begins.                       *)
LEMMA CutIsBeforeStops ==
  ASSUME NEW s \in Seq(Byte), NEW words \in SUBSET Seq(Byte)
  PROVE  LET cut == CutAtStop(s, words) IN
         /\ cut \in Seq(Byte) /\ IsPrefix(cut, s) /\ Stops(cut, words) = {}
         /\ cut # s => Len(cut) + 1 \in Stops(s, words)
         /\ Stops(s, words) = {} => cut = s
<1> DEFINE L == Len(s)
           stops == Stops(s, words)
           cut == CutAtStop(s, words)
<1>1. L \in Nat /\ SubSeq(s, 1, L) = s
  BY LenProperties, SubSeqFull
<1>2. CASE stops = {}
  <2>1. cut = s
    BY <1>2 DEF CutAtStop
  <2>2. IsPrefix(s, s)
    BY <1>1 DEF IsPrefix
  <2> QED BY <1>2, <2>1, <2>2
<1>3. CASE stops # {}
  <2> DEFINE m == Min(stops)
  <2>1. stops \in SUBSET Nat
    BY DEF Stops
  <2>2. m \in stops /\ \A i \in stops : m <= i
    <3> HIDE DEF stops
    <3> QED BY <1>3, <2>1, MinOfNumbers
  <2>3. m \in 1 .. L
    BY <2>2 DEF Stops
  <2> PICK k \in 0 .. L : k = m - 1
    BY <1>1, <2>3
  <2>4. cut = SubSeq(s, 1, k)
    BY <1>3 DEF CutAtStop
  <2> HIDE DEF m, cut, L
  <2>5. cut \in Seq(Byte) /\ Len(cut) = k /\ IsPrefix(cut, s)
    BY <2>4, SeqInTwo, PrefixIsPrefix DEF L
  <2>6. Len(cut) + 1 = m
    BY <1>1, <2>3, <2>5
  <2>7. ASSUME NEW i \in 1 .. Len(cut), NEW word \in words,
               IsPrefix(word, SubSeq(cut, i, Len(cut)))
        PROVE  FALSE
    <3> DEFINE b == SubSeq(cut, i, Len(cut))
               d == SubSeq(s, i, L)
    <3>1. /\ k \in Nat /\ Len(cut) \in 0 .. Len(cut) /\ i \in Nat \ {0} /\ i <= Len(cut) + 1
          /\ L \in 0 .. Len(s) /\ i <= L + 1 /\ i \in 1 .. k /\ i \in 1 .. L
      BY <1>1, <2>5 DEF L
    <3>2. /\ b \in Seq(Byte) /\ Len(b) = Len(cut) - i + 1
          /\ \A j \in 1 .. Len(cut) - i + 1 : b[j] = cut[i + j - 1]
      BY <2>5, <3>1, PieceOfSeq
    <3>3. /\ d \in Seq(Byte) /\ Len(d) = L - i + 1
          /\ \A j \in 1 .. L - i + 1 : d[j] = s[i + j - 1]
      BY <3>1, PieceOfSeq
    <3>4. \A j \in 1 .. k : cut[j] = s[j]
      BY <2>5, PrefixBytes
    <3>5. word \in Seq(Byte) /\ Len(word) \in Nat
      BY LenProperties
    <3> HIDE DEF b, d
    <3>6. Len(word) <= Len(b) /\ \A j \in 1 .. Len(word) : word[j] = b[j]
      BY <2>7, <3>2, <3>5, PrefixBytes DEF b
    <3>7. \A j \in 1 .. Len(word) :
            i + j - 1 \in 1 .. k /\ j \in 1 .. L - i + 1 /\ j \in 1 .. Len(cut) - i + 1
      BY <1>1, <2>5, <3>1, <3>2, <3>5, <3>6
    <3>8. Len(word) <= Len(d)
      BY <1>1, <2>5, <3>1, <3>2, <3>3, <3>5, <3>6
    <3>9. \A j \in 1 .. Len(word) : word[j] = d[j]
      BY <3>2, <3>3, <3>4, <3>6, <3>7
    <3>10. IsPrefix(word, SubSeq(s, i, Len(s)))
      BY <3>3, <3>5, <3>8, <3>9, PrefixBytes DEF d, L
    <3>11. i \in stops
      BY <3>1, <3>10 DEF Stops, L
    <3>12. m <= i
      BY <2>2, <3>11
    <3> QED BY <1>1, <2>3, <3>1, <3>12
  <2>8. Stops(cut, words) = {}
    BY <2>7 DEF Stops
  <2> QED BY <1>3, <2>2, <2>5, <2>6, <2>8 DEF cut
<1> QED BY <1>2, <1>3

-----------------------------------------------------------------------------
(* The bytes of tokens *)

(* The bytes of one more token follow those of the others. *)
LEMMA NextPiece ==
  ASSUME NEW g \in Seq(Token), NEW token \in Token
  PROVE  /\ Bytes(g) \in Seq(Byte)
         /\ Bytes(Append(g, token)) = Bytes(g) \o Piece[token]
<1> DEFINE n == Len(g)
           more == Append(g, token)
           ps == [i \in 1 .. n |-> Piece[g[i]]]
           qs == [i \in 1 .. Len(more) |-> Piece[more[i]]]
<1>1. n \in Nat /\ \A i \in 1 .. n : g[i] \in Token
  BY LenProperties, ElementOfSeq
<1>2. /\ Len(more) = n + 1 /\ more[n + 1] = token
      /\ \A i \in 1 .. n : more[i] = g[i]
  BY AppendProperties
<1>3. Piece \in [Token -> Seq(Byte)]
  BY GenerationAssumption DEF Byte
<1>4. ps \in Seq(Seq(Byte)) /\ Len(ps) = n
  <2>1. \A i \in 1 .. n : Piece[g[i]] \in Seq(Byte)
    BY <1>1, <1>3
  <2>2. ps \in [1 .. n -> Seq(Byte)]
    BY <2>1
  <2> HIDE DEF ps, n
  <2>3. ps \in UNION {[1 .. k -> Seq(Byte)] : k \in Nat}
    BY <1>1, <2>2
  <2>4. ps \in Seq(Seq(Byte))
    BY <2>3, SeqDef
  <2>5. DOMAIN ps = 1 .. Len(ps) /\ Len(ps) \in Nat
    BY <2>4, LenProperties
  <2>6. Len(ps) = n
    BY <1>1, <2>2, <2>5
  <2> QED BY <2>4, <2>6
<1>5. Append(ps, Piece[token]) = qs
  <2> DEFINE as == Append(ps, Piece[token])
  <2>1. /\ as \in Seq(Seq(Byte)) /\ Len(as) = n + 1 /\ as[n + 1] = Piece[token]
        /\ \A i \in 1 .. n : as[i] = ps[i]
    <3> HIDE DEF ps, n
    <3> QED BY <1>3, <1>4, AppendProperties
  <2>2. DOMAIN as = 1 .. n + 1
    <3> HIDE DEF as
    <3> QED BY <2>1, LenProperties
  <2>3. as = [i \in 1 .. n + 1 |-> as[i]]
    <3> HIDE DEF ps
    <3> QED BY <1>4, <2>2
  <2> HIDE DEF as, n, more
  <2>4. \A i \in 1 .. n + 1 : i \in 1 .. n \/ i = n + 1
    BY <1>1
  <2>5. \A i \in 1 .. n + 1 : as[i] = Piece[more[i]]
    BY <1>2, <2>1, <2>4
  <2>6. qs = [i \in 1 .. n + 1 |-> Piece[more[i]]]
    BY <1>2
  <2> HIDE DEF qs
  <2> QED BY <2>3, <2>5, <2>6 DEF as
<1>6. Bytes(g) = FlattenSeq(ps) /\ Bytes(more) = FlattenSeq(qs)
  BY DEF Bytes
<1> HIDE DEF ps, qs, more
<1>7. /\ FlattenSeq(ps) \in Seq(Byte)
      /\ FlattenSeq(Append(ps, Piece[token])) = FlattenSeq(ps) \o Piece[token]
  BY <1>3, <1>4, FlattenAppend
<1> QED BY <1>5, <1>6, <1>7 DEF more

(* No tokens, no bytes. *)
LEMMA NoPiece ==
  Bytes(<<>>) = <<>>
<1>1. Len(<<>>) = 0 /\ \A x : [i \in 1 .. 0 |-> Piece[x]] = <<>>
  OBVIOUS
<1>2. [i \in 1 .. Len(<<>>) |-> Piece[<<>>[i]]] = <<>>
  BY <1>1
<1>3. FlattenSeq(<<>>) = <<>>
  BY DEF FlattenSeq
<1> QED BY <1>2, <1>3 DEF Bytes

-----------------------------------------------------------------------------
(* The invariant *)

(* Where a thread holds the session: before it has a prompt there, and after. *)
Entering == {"creating", "encoding", "preparing"}
Looping == {"evaluating", "decoding", "sampling"}
Busy == Looping \cup {"running", "reading", "finishing"}
Held == Entering \cup Busy

Errors == {"invalid_input", "invalid_argument", "allocation_failed", "inference_failed",
           "invalid_output"}

SessionTypes ==
  /\ context \in Seq(Symbol) /\ pending \in Seq(Symbol) /\ history \in Seq(Symbol)
  /\ prompt \in Seq(Data)
  /\ steps \in Nat
  /\ text \in Seq(Byte)

TextTypes ==
  /\ mutex \in Thread \cup {None}
  /\ pc \in [Thread -> {"idle", "item", "locking", "returned"} \cup Held]
  /\ items \in [Thread -> Seq(PromptItem)]
  /\ options \in [Thread -> OptionSets \cup {None}]
  /\ outputs \in [Thread -> Seq(PromptItem)]
  /\ batch \in [Thread -> Seq(Data)]
  /\ code \in [Thread -> {"none", "ok"} \cup Errors]
  /\ SessionTypes

(* A call has answers for the items up to the current one: those of whole  *)
(* slices in outputs, those of the slice under way in batch.               *)
CallIsOnCourse(t) ==
  /\ pc[t] = "idle" =>
       items[t] = <<>> /\ outputs[t] = <<>> /\ batch[t] = <<>> /\ code[t] = "none"
  /\ pc[t] = "returned" =>
       /\ batch[t] = <<>>
       /\ \/ code[t] = "ok" /\ outputs[t] = items[t]
          \/ code[t] \in Errors /\ outputs[t] = <<>>
  /\ pc[t] \in {"item", "locking"} \cup Held =>
       /\ code[t] = "ok" /\ options[t] \in OptionSets
       /\ Len(outputs[t]) + Len(batch[t]) < Len(items[t]) /\ Len(batch[t]) < MaxBatch
       /\ outputs[t] = SubSeq(items[t], 1, Len(outputs[t]))
       /\ \A i \in 1 .. Len(batch[t]) : batch[t][i] = items[t][Len(outputs[t]) + i].data
  /\ pc[t] \in {"locking"} \cup Held => Current(t).data \in Data

SessionIsFresh ==
  context = <<>> /\ pending = <<>> /\ history = <<>> /\ prompt = <<>> /\ text = <<>>

(* In a session the prompt is that of the current item, the history goes   *)
(* on with generated tokens, and the text is theirs.                       *)
SessionIsOnCourse(t) ==
  /\ pc[t] \in Entering => SessionIsFresh
  /\ pc[t] \in Busy => prompt # <<>> /\ prompt[1] = Current(t).data
  /\ pc[t] \in Looping =>
       /\ context \o pending = history
       /\ Len(history) - Len(prompt) < steps /\ Len(prompt) + steps <= MaxContext
  /\ pc[t] = "sampling" => pending = <<>>
  /\ pc[t] \in Looping =>
       \E g \in Seq(Token) :
         /\ history = prompt \o g
         /\ text = Bytes(g) /\ Stops(text, options[t].stop_words) = {}
  /\ pc[t] = "reading" => \E g \in Seq(Token) : history = prompt \o g
  /\ pc[t] = "finishing" =>
       \E g \in Seq(Token) :
         /\ history = prompt \o g
         /\ text = CutAtStop(Bytes(g), options[t].stop_words)

TextInv ==
  /\ TextTypes
  /\ \A t \in Thread : CallIsOnCourse(t)
  /\ \A t \in Thread : SessionIsOnCourse(t)
  /\ \A t \in Thread : pc[t] \in Held <=> mutex = t
  /\ mutex = None => SessionIsFresh

-----------------------------------------------------------------------------
(* One thread takes a step *)

(* What a thread does with the session it holds, or leaves the session as  *)
(* it is, concerns no other thread.                                        *)
LEMMA StepOfThread ==
  ASSUME TextInv, NEW t \in Thread, TextTypes',
         \A s \in Thread \ {t} :
           /\ pc'[s] = pc[s] /\ items'[s] = items[s] /\ options'[s] = options[s]
           /\ outputs'[s] = outputs[s] /\ batch'[s] = batch[s] /\ code'[s] = code[s],
         \/ mutex = t /\ mutex' \in {t, None}
         \/ UNCHANGED <<mutex, generation>>
         \/ mutex = None /\ mutex' = t /\ UNCHANGED generation,
         CallIsOnCourse(t)', SessionIsOnCourse(t)',
         pc'[t] \in Held <=> mutex' = t,
         mutex' = None => SessionIsFresh'
  PROVE  TextInv'
<1>1. ASSUME NEW s \in Thread \ {t}
      PROVE  CallIsOnCourse(s)' /\ SessionIsOnCourse(s)' /\ (pc'[s] \in Held <=> mutex' = s)
  <2>1. /\ CallIsOnCourse(s) /\ SessionIsOnCourse(s)
        /\ pc[s] \in Held <=> mutex = s
        /\ t # None /\ s # None
    BY GenerationAssumption DEF TextInv
  <2>2. CallIsOnCourse(s)'
    BY <2>1 DEF CallIsOnCourse, Current
  <2>3. CASE UNCHANGED <<mutex, generation>>
    BY <2>1, <2>2, <2>3
       DEF SessionIsOnCourse, SessionIsFresh, Current, generation
  <2>4. CASE mutex \in {t, None} /\ mutex' \in {t, None}
    <3>1. pc'[s] \notin Held /\ mutex' # s
      BY <2>1, <2>4
    <3> QED BY <2>2, <3>1 DEF SessionIsOnCourse, Held, Busy, Looping
  <2> QED BY <2>3, <2>4
<1> QED BY <1>1 DEF TextInv

(* The threads whose call is not touched. *)
OthersStay(t) ==
  \A s \in Thread \ {t} :
    /\ pc'[s] = pc[s] /\ items'[s] = items[s] /\ options'[s] = options[s]
    /\ outputs'[s] = outputs[s] /\ batch'[s] = batch[s] /\ code'[s] = code[s]

(* A step within the session. *)
LEMMA StepInSession ==
  ASSUME TextInv, NEW t \in Thread, pc[t] \in Held, NEW step \in Held,
         pc' = [pc EXCEPT ![t] = step],
         UNCHANGED <<mutex, items, options, outputs, batch, code>>,
         SessionTypes', SessionIsOnCourse(t)'
  PROVE  TextInv'
<1>1. /\ TextTypes /\ pc \in [Thread -> {"idle", "item", "locking", "returned"} \cup Held]
      /\ CallIsOnCourse(t) /\ mutex = t /\ t # None
  BY GenerationAssumption DEF TextInv, TextTypes
<1>2. /\ pc'[t] = step
      /\ pc' \in [Thread -> {"idle", "item", "locking", "returned"} \cup Held]
      /\ \A s \in Thread \ {t} : pc'[s] = pc[s]
  BY <1>1
<1>3. TextTypes'
  BY <1>1, <1>2 DEF TextTypes
<1>4. CallIsOnCourse(t)'
  <2>1. \A p \in Held : p # "idle" /\ p # "returned"
    BY DEF Held, Busy, Entering, Looping
  <2> QED BY <1>1, <1>2, <2>1 DEF CallIsOnCourse, Current
<1> QED BY <1>1, <1>2, <1>3, <1>4, StepOfThread

(* The session is left as it was found. *)
LEMMA SessionIsLeft ==
  ASSUME TextInv, NEW t \in Thread, Leave(t)
  PROVE  /\ \/ mutex = t /\ mutex' = None
            \/ mutex # t /\ UNCHANGED <<mutex, generation>>
         /\ mutex' # t /\ mutex' \in Thread \cup {None}
         /\ mutex' = None => SessionIsFresh'
         /\ SessionTypes'
<1>1. mutex \in Thread \cup {None} /\ t # None /\ SessionTypes
  BY GenerationAssumption DEF TextInv, TextTypes
<1>2. CASE mutex = t
  <2>1. /\ mutex' = None /\ SessionIsFresh' /\ steps' = 0
    BY <1>2 DEF Leave, SessionIsFresh
  <2>2. SessionTypes'
    BY <2>1, EmptySeq DEF SessionTypes, SessionIsFresh
  <2> QED BY <1>1, <1>2, <2>1, <2>2
<1>3. CASE mutex # t
  <2>1. UNCHANGED <<mutex, generation>>
    BY <1>3 DEF Leave
  <2>2. SessionTypes'
    BY <1>1, <2>1 DEF SessionTypes, generation
  <2>3. mutex' = None => SessionIsFresh'
    BY <2>1 DEF TextInv, SessionIsFresh, generation
  <2> QED BY <1>1, <1>3, <2>1, <2>2, <2>3
<1> QED BY <1>2, <1>3

(* An error ends the call without an answer, and leaves the session if it had it. *)
LEMMA FailKeeps ==
  ASSUME TextInv, NEW t \in Thread, NEW error \in Errors, Fail(t, error)
  PROVE  TextInv'
<1>1. /\ TextTypes /\ Leave(t)
      /\ pc' = [pc EXCEPT ![t] = "returned"] /\ code' = [code EXCEPT ![t] = error]
      /\ outputs' = [outputs EXCEPT ![t] = <<>>] /\ batch' = [batch EXCEPT ![t] = <<>>]
      /\ UNCHANGED <<items, options>>
  BY DEF TextInv, Fail, GoTo
<1>2. /\ \/ mutex = t /\ mutex' = None
         \/ mutex # t /\ UNCHANGED <<mutex, generation>>
      /\ mutex' # t /\ mutex' \in Thread \cup {None}
      /\ mutex' = None => SessionIsFresh'
      /\ SessionTypes'
  BY <1>1, SessionIsLeft
<1>3. /\ pc'[t] = "returned" /\ code'[t] = error /\ outputs'[t] = <<>> /\ batch'[t] = <<>>
      /\ OthersStay(t)
  BY <1>1 DEF TextTypes, OthersStay
<1>4. TextTypes'
  <2>1. <<>> \in Seq(PromptItem) /\ <<>> \in Seq(Data)
    BY EmptySeq
  <2> QED BY <1>1, <1>2, <2>1 DEF TextTypes
<1>5. "returned" \notin Held /\ "returned" \notin {"item", "locking", "idle"}
  BY DEF Held, Busy, Entering, Looping
<1>6. CallIsOnCourse(t)' /\ SessionIsOnCourse(t)'
  BY <1>3, <1>5 DEF CallIsOnCourse, SessionIsOnCourse, Held, Busy, Looping
<1>7. pc'[t] \in Held <=> mutex' = t
  BY <1>2, <1>3, <1>5
<1> QED BY <1>2, <1>3, <1>4, <1>6, <1>7, StepOfThread DEF OthersStay

-----------------------------------------------------------------------------
(* The steps of a call outside of the session *)

(* A call starts with all of its items ahead. *)
LEMMA CallGenerateKeeps ==
  ASSUME TextInv, NEW t \in Thread, NEW prompts \in Batches,
         NEW generate_options \in OptionSets, CallGenerate(t, prompts, generate_options)
  PROVE  TextInv'
<1> DEFINE step == IF prompts = <<>> THEN "returned" ELSE "item"
<1>1. /\ TextTypes /\ pc[t] = "idle"
      /\ pc' = [pc EXCEPT ![t] = step] /\ code' = [code EXCEPT ![t] = "ok"]
      /\ items' = [items EXCEPT ![t] = prompts]
      /\ options' = [options EXCEPT ![t] = generate_options]
      /\ UNCHANGED <<mutex, outputs, batch, generation>>
  BY DEF TextInv, CallGenerate, GoTo
<1>2. prompts \in Seq(PromptItem)
  BY GenerationAssumption
<1>3. /\ pc'[t] = step /\ code'[t] = "ok" /\ items'[t] = prompts
      /\ options'[t] = generate_options
      /\ outputs'[t] = <<>> /\ batch'[t] = <<>>
      /\ OthersStay(t)
  BY <1>1 DEF TextTypes, OthersStay, TextInv, CallIsOnCourse
<1>4. SessionTypes'
  BY <1>1 DEF TextTypes, SessionTypes, generation
<1>5. TextTypes'
  BY <1>1, <1>2, <1>4 DEF TextTypes
<1>6. step \notin Held /\ step \notin {"locking", "idle"} /\ pc[t] \notin Held
  BY <1>1 DEF Held, Busy, Entering, Looping
<1>7. CallIsOnCourse(t)'
  <2>1. CASE prompts = <<>>
    BY <1>3, <1>6, <2>1 DEF CallIsOnCourse
  <2>2. CASE prompts # <<>>
    <3>1. Len(prompts) \in Nat \ {0} /\ SubSeq(prompts, 1, 0) = <<>> /\ Len(<<>>) = 0
      BY <1>2, <2>2, EmptySeq, SubSeqEmpty
    <3>2. MaxBatch \in Nat \ {0}
      BY GenerationAssumption
    <3> QED BY <1>3, <1>6, <2>2, <3>1, <3>2 DEF CallIsOnCourse
  <2> QED BY <2>1, <2>2
<1>8. SessionIsOnCourse(t)'
  BY <1>3, <1>6 DEF SessionIsOnCourse, Held, Busy, Looping
<1>9. pc'[t] \in Held <=> mutex' = t
  BY <1>1, <1>3, <1>6 DEF TextInv
<1>10. mutex' = None => SessionIsFresh'
  BY <1>1 DEF TextInv, SessionIsFresh, generation
<1> QED BY <1>1, <1>3, <1>5, <1>7, <1>8, <1>9, <1>10, StepOfThread DEF OthersStay

(* An item with a prompt is taken up, another one fails the call. *)
LEMMA BeginItemKeeps ==
  ASSUME TextInv, NEW t \in Thread, BeginItem(t)
  PROVE  TextInv'
<1>1. CASE Fail(t, "invalid_input") \/ Fail(t, "invalid_argument")
  <2>1. {"invalid_input", "invalid_argument"} \subseteq Errors
    BY DEF Errors
  <2> QED BY <1>1, <2>1, FailKeeps
<1>2. CASE /\ pc[t] = "item" /\ Current(t).data # None
           /\ GoTo(t, "locking")
           /\ UNCHANGED <<backend, mutex, items, options, outputs, batch, code, generation>>
  <2>1. /\ TextTypes /\ CallIsOnCourse(t) /\ pc' = [pc EXCEPT ![t] = "locking"]
        /\ UNCHANGED <<mutex, items, options, outputs, batch, code, generation>>
    BY <1>2 DEF TextInv, GoTo
  <2>2. pc'[t] = "locking" /\ OthersStay(t)
    BY <2>1 DEF TextTypes, OthersStay
  <2>3. SessionTypes'
    BY <2>1 DEF TextTypes, SessionTypes, generation
  <2>4. TextTypes'
    BY <2>1, <2>3 DEF TextTypes
  <2>5. "locking" \notin Held /\ "item" \notin Held
    BY DEF Held, Busy, Entering, Looping
  <2>6. Current(t).data \in Data
    <3>1. /\ items[t] \in Seq(PromptItem) /\ outputs[t] \in Seq(PromptItem)
          /\ batch[t] \in Seq(Data)
          /\ Len(outputs[t]) + Len(batch[t]) < Len(items[t])
      BY <1>2, <2>1 DEF TextTypes, CallIsOnCourse
    <3>2. Len(outputs[t]) \in Nat /\ Len(batch[t]) \in Nat /\ Len(items[t]) \in Nat
      BY <3>1, LenProperties
    <3>3. Len(outputs[t]) + Len(batch[t]) + 1 \in 1 .. Len(items[t])
      <4>1. \A a, b, c \in Nat : a + b < c => a + b + 1 \in 1 .. c
        OBVIOUS
      <4> QED BY <3>1, <3>2, <4>1
    <3>4. Current(t) \in PromptItem
      BY <3>1, <3>3, ElementOfSeq DEF Current
    <3>5. Current(t).data \in Data \cup {None}
      BY <3>4 DEF PromptItem
    <3> QED BY <1>2, <3>5
  <2>7. CallIsOnCourse(t)'
    BY <1>2, <2>1, <2>2, <2>5, <2>6 DEF CallIsOnCourse, Current
  <2>8. SessionIsOnCourse(t)'
    BY <2>2, <2>5 DEF SessionIsOnCourse, Held, Busy, Looping
  <2>9. (pc'[t] \in Held <=> mutex' = t) /\ (mutex' = None => SessionIsFresh')
    BY <1>2, <2>1, <2>2, <2>5 DEF TextInv, SessionIsFresh, generation
  <2> QED BY <2>1, <2>2, <2>4, <2>7, <2>8, <2>9, StepOfThread DEF OthersStay
<1> QED BY <1>1, <1>2 DEF BeginItem

(* Who locks finds a session without a trace of earlier prompts. *)
LEMMA LockKeeps ==
  ASSUME TextInv, NEW t \in Thread, Lock(t)
  PROVE  TextInv'
<1> DEFINE step == IF backend = "llama_cpp" THEN "creating" ELSE "preparing"
<1>1. /\ TextTypes /\ CallIsOnCourse(t) /\ pc[t] = "locking"
      /\ pc' = [pc EXCEPT ![t] = step]
      /\ mutex = None /\ mutex' = t
      /\ UNCHANGED <<items, options, outputs, batch, code, generation>>
  BY DEF TextInv, Lock, GoTo
<1>2. step \in Entering /\ step \in Held /\ step \notin Busy
      /\ step \notin {"idle", "returned", "item", "locking"}
  BY DEF Held, Busy, Entering, Looping
<1> HIDE DEF step
<1>3. pc'[t] = step /\ OthersStay(t)
  BY <1>1 DEF TextTypes, OthersStay
<1>4. SessionTypes' /\ SessionIsFresh'
  BY <1>1 DEF TextInv, TextTypes, SessionTypes, SessionIsFresh, generation
<1>5. TextTypes'
  BY <1>1, <1>2, <1>4 DEF TextTypes
<1>6. CallIsOnCourse(t)'
  BY <1>1, <1>2, <1>3 DEF CallIsOnCourse, Current
<1>7. SessionIsOnCourse(t)'
  BY <1>2, <1>3, <1>4 DEF SessionIsOnCourse, Busy, Looping
<1> QED BY <1>1, <1>2, <1>3, <1>4, <1>5, <1>6, <1>7, StepOfThread DEF OthersStay

(* The caller takes what the call returned. *)
LEMMA ReturnKeeps ==
  ASSUME TextInv, NEW t \in Thread, Return(t)
  PROVE  TextInv'
<1>1. /\ TextTypes /\ CallIsOnCourse(t) /\ pc[t] = "returned"
      /\ pc' = [pc EXCEPT ![t] = "idle"] /\ code' = [code EXCEPT ![t] = "none"]
      /\ items' = [items EXCEPT ![t] = <<>>] /\ outputs' = [outputs EXCEPT ![t] = <<>>]
      /\ options' = [options EXCEPT ![t] = None]
      /\ UNCHANGED <<mutex, batch, generation>>
  BY DEF TextInv, Return, GoTo
<1>2. "idle" \notin Held /\ "returned" \notin Held
  BY DEF Held, Busy, Entering, Looping
<1>3. /\ pc'[t] = "idle" /\ code'[t] = "none" /\ items'[t] = <<>> /\ outputs'[t] = <<>>
      /\ batch'[t] = <<>> /\ OthersStay(t)
  BY <1>1 DEF TextTypes, OthersStay, CallIsOnCourse
<1>4. SessionTypes'
  BY <1>1 DEF TextTypes, SessionTypes, generation
<1>5. TextTypes'
  <2>1. <<>> \in Seq(PromptItem)
    BY EmptySeq
  <2> QED BY <1>1, <1>4, <2>1 DEF TextTypes
<1>6. CallIsOnCourse(t)' /\ SessionIsOnCourse(t)'
  BY <1>2, <1>3 DEF CallIsOnCourse, SessionIsOnCourse, Held, Busy, Looping
<1>7. (pc'[t] \in Held <=> mutex' = t) /\ (mutex' = None => SessionIsFresh')
  BY <1>1, <1>2, <1>3 DEF TextInv, SessionIsFresh, generation
<1> QED BY <1>1, <1>3, <1>5, <1>6, <1>7, StepOfThread DEF OthersStay

(* The text of the session's item joins the slice, and a full slice joins  *)
(* the outputs.                                                            *)
LEMMA StoreKeeps ==
  ASSUME TextInv, NEW t \in Thread, Store(t)
  PROVE  TextInv'
<1> DEFINE offset == Len(outputs[t])
           length == Len(items[t])
           slice == Append(batch[t], prompt[1])
           valid_count == Min({MaxBatch, length - offset})
           done == [i \in 1 .. valid_count |-> Traced(t, offset, i, slice[i])]
<1>1. /\ TextTypes /\ CallIsOnCourse(t) /\ SessionIsOnCourse(t) /\ pc[t] = "finishing"
      /\ Leave(t)
      /\ UNCHANGED <<items, options, code>>
  BY DEF TextInv, Store
<1>2. "finishing" \in Held /\ "finishing" \in Busy /\ "item" \notin Held /\ "returned" \notin Held
  BY DEF Held, Busy, Entering, Looping
<1>3. /\ items[t] \in Seq(PromptItem) /\ outputs[t] \in Seq(PromptItem) /\ batch[t] \in Seq(Data)
      /\ code[t] = "ok" /\ options[t] \in OptionSets
      /\ offset + Len(batch[t]) < length /\ Len(batch[t]) < MaxBatch
      /\ outputs[t] = SubSeq(items[t], 1, offset)
      /\ \A i \in 1 .. Len(batch[t]) : batch[t][i] = items[t][offset + i].data
      /\ Current(t).data \in Data
      /\ prompt[1] = Current(t).data
  BY <1>1, <1>2 DEF TextTypes, CallIsOnCourse, SessionIsOnCourse
<1> PICK k \in Nat : k = Len(batch[t])
  BY <1>3, LenProperties
<1>4. offset \in Nat /\ length \in Nat /\ MaxBatch \in Nat \ {0}
  BY <1>3, LenProperties, GenerationAssumption
<1>5. /\ slice \in Seq(Data) /\ Len(slice) = k + 1
      /\ \A i \in 1 .. k + 1 : slice[i] = items[t][offset + i].data
  <2>1. prompt[1] \in Data
    BY <1>3
  <2>2. /\ slice \in Seq(Data) /\ Len(slice) = k + 1
        /\ \A i \in 1 .. k : slice[i] = batch[t][i]
        /\ slice[k + 1] = prompt[1]
    BY <1>3, <2>1, AppendProperties
  <2>3. prompt[1] = items[t][offset + (k + 1)].data
    <3>1. \A a, b \in Nat : a + b + 1 = a + (b + 1)
      OBVIOUS
    <3>2. offset + Len(batch[t]) + 1 = offset + (k + 1)
      BY <1>4, <3>1
    <3> QED BY <1>3, <3>2 DEF Current
  <2> HIDE DEF slice, offset
  <2>4. \A i \in 1 .. k + 1 : i \in 1 .. k \/ i = k + 1
    OBVIOUS
  <2>5. \A i \in 1 .. k : slice[i] = items[t][offset + i].data
    BY <1>3, <2>2 DEF offset
  <2> QED BY <2>2, <2>3, <2>4, <2>5
<1>6. /\ valid_count \in {MaxBatch, length - offset}
      /\ valid_count <= MaxBatch /\ valid_count <= length - offset
  <2>1. MaxBatch \in Int /\ length - offset \in Int
    BY <1>4
  <2> QED BY <2>1, MinOfTwo
<1> HIDE DEF slice, valid_count
<1>7. valid_count \in Nat /\ k + 1 <= valid_count /\ offset + valid_count <= length
  <2>1. k < MaxBatch /\ offset + k < length
    BY <1>3
  <2> HIDE DEF offset, length
  <2> QED BY <1>4, <1>6, <2>1
<1>8. /\ \/ mutex = t /\ mutex' = None
         \/ mutex # t /\ UNCHANGED <<mutex, generation>>
      /\ mutex' # t /\ mutex' \in Thread \cup {None}
      /\ mutex' = None => SessionIsFresh'
      /\ SessionTypes'
  BY <1>1, SessionIsLeft
<1>9. CASE Len(slice) < valid_count
  <2>1. /\ batch' = [batch EXCEPT ![t] = slice] /\ pc' = [pc EXCEPT ![t] = "item"]
        /\ outputs' = outputs
    BY <1>9 DEF Store, GoTo, slice, valid_count
  <2>2. /\ pc'[t] = "item" /\ batch'[t] = slice /\ items'[t] = items[t]
        /\ outputs'[t] = outputs[t] /\ code'[t] = "ok" /\ options'[t] = options[t]
        /\ OthersStay(t)
    BY <1>1, <1>3, <2>1 DEF TextTypes, OthersStay
  <2>3. TextTypes'
    BY <1>1, <1>5, <1>8, <2>1 DEF TextTypes
  <2>4. Len(slice) < MaxBatch /\ offset + Len(slice) < length
    <3> HIDE DEF offset, length
    <3> QED BY <1>4, <1>5, <1>6, <1>7, <1>9
  <2>5. CallIsOnCourse(t)'
    BY <1>2, <1>3, <1>5, <2>2, <2>4 DEF CallIsOnCourse
  <2>6. SessionIsOnCourse(t)' /\ (pc'[t] \in Held <=> mutex' = t)
    BY <1>2, <1>8, <2>2 DEF SessionIsOnCourse, Held, Busy, Looping
  <2> QED BY <1>8, <2>2, <2>3, <2>5, <2>6, StepOfThread DEF OthersStay
<1>10. CASE ~(Len(slice) < valid_count)
  <2> DEFINE step == IF offset + valid_count = length THEN "returned" ELSE "item"
  <2>1. /\ batch' = [batch EXCEPT ![t] = <<>>] /\ pc' = [pc EXCEPT ![t] = step]
        /\ outputs' = [outputs EXCEPT ![t] = @ \o done]
    BY <1>10 DEF Store, GoTo, slice, valid_count
  <2>2. k + 1 = valid_count
    BY <1>5, <1>7, <1>10
  <2>3. /\ done \in Seq(PromptItem) /\ Len(done) = valid_count
        /\ \A i \in 1 .. valid_count : done[i] = items[t][offset + i]
    <3>1. \A i \in 1 .. valid_count :
            /\ items[t][offset + i] \in PromptItem
            /\ done[i] = items[t][offset + i]
      <4> TAKE i \in 1 .. valid_count
      <4>1. offset + i \in 1 .. length
        <5> HIDE DEF offset, length
        <5> QED BY <1>4, <1>7
      <4>2. items[t][offset + i] \in PromptItem
        BY <1>3, <4>1, ElementOfSeq
      <4>3. slice[i] = items[t][offset + i].data
        BY <1>5, <2>2
      <4>4. Traced(t, offset, i, slice[i]) = items[t][offset + i]
        BY <4>2, <4>3 DEF Traced, PromptItem
      <4> QED BY <4>2, <4>4
    <3>2. done \in [1 .. valid_count -> PromptItem]
      <4>1. done = [i \in 1 .. valid_count |-> done[i]]
        OBVIOUS
      <4> HIDE DEF done
      <4> QED BY <3>1, <4>1
    <3> HIDE DEF done
    <3>3. done \in UNION {[1 .. n -> PromptItem] : n \in Nat}
      BY <1>7, <3>2
    <3>4. done \in Seq(PromptItem)
      BY <3>3, SeqDef
    <3>5. DOMAIN done = 1 .. Len(done) /\ Len(done) \in Nat
      BY <3>4, LenProperties
    <3>6. Len(done) = valid_count
      BY <1>7, <3>2, <3>5
    <3> QED BY <3>1, <3>4, <3>6
  <2> HIDE DEF done, step
  <2> DEFINE more == outputs[t] \o done
  <2>4. /\ more \in Seq(PromptItem) /\ Len(more) = offset + valid_count
        /\ more = SubSeq(items[t], 1, offset + valid_count)
    <3>1. /\ more \in Seq(PromptItem) /\ Len(more) = offset + Len(done)
          /\ \A i \in 1 .. offset + Len(done) :
               more[i] = IF i <= offset THEN outputs[t][i] ELSE done[i - offset]
      BY <1>3, <2>3, ConcatProperties, ZenonT(60)
    <3> HIDE DEF more
    <3> PICK n \in Nat : n = offset + valid_count
      BY <1>4, <1>7
    <3> DEFINE front == SubSeq(items[t], 1, n)
    <3>2. n \in 0 .. Len(items[t]) /\ 1 \in Nat \ {0} /\ 1 <= n + 1 /\ n - 1 + 1 = n
      <4> HIDE DEF offset
      <4> QED BY <1>4, <1>7
    <3>3. /\ front \in Seq(PromptItem) /\ Len(front) = n
          /\ \A i \in 1 .. n - 1 + 1 : front[i] = items[t][1 + i - 1]
      <4>1. /\ front \in Seq(PromptItem) /\ Len(front) = n - 1 + 1
            /\ \A i \in 1 .. n - 1 + 1 : front[i] = items[t][1 + i - 1]
        BY <1>3, <3>2, PieceOfSeq
      <4> HIDE DEF front
      <4> QED BY <3>2, <4>1
    <3>4. \A i \in 1 .. offset : outputs[t][i] = items[t][i]
      <4>1. offset \in 0 .. Len(items[t]) /\ 1 <= offset + 1 /\ offset - 1 + 1 = offset
        <5> HIDE DEF offset
        <5> QED BY <1>4, <1>7
      <4> DEFINE o == SubSeq(items[t], 1, offset)
      <4>2. \A i \in 1 .. offset - 1 + 1 : o[i] = items[t][1 + i - 1]
        BY <1>3, <3>2, <4>1, PieceOfSeq
      <4>3. \A i \in 1 .. offset : i \in 1 .. offset - 1 + 1 /\ 1 + i - 1 = i
        BY <4>1
      <4>4. outputs[t] = o
        BY <1>3
      <4> HIDE DEF o, offset
      <4> QED BY <4>2, <4>3, <4>4
    <3> HIDE DEF front
    <3>5. \A i \in 1 .. n : front[i] = items[t][i]
      <4>1. \A i \in 1 .. n : i \in 1 .. n - 1 + 1 /\ 1 + i - 1 = i
        OBVIOUS
      <4> QED BY <3>3, <4>1
    <3>6. \A i \in 1 .. n : more[i] = items[t][i]
      <4> TAKE i \in 1 .. n
      <4>1. more[i] = IF i <= offset THEN outputs[t][i] ELSE done[i - offset]
        BY <2>3, <3>1
      <4>2. CASE i <= offset
        BY <1>4, <3>4, <4>1, <4>2
      <4>3. CASE ~(i <= offset)
        <5>1. PICK j \in 1 .. valid_count : j = i - offset /\ i = offset + j
          <6>1. i - offset \in 1 .. valid_count /\ i = offset + (i - offset)
            <7> HIDE DEF offset
            <7> QED BY <1>4, <1>7, <4>3
          <6> QED BY <6>1
        <5>2. done[j] = items[t][i]
          BY <2>3, <5>1
        <5> QED BY <4>1, <4>3, <5>1, <5>2
      <4> QED BY <4>2, <4>3
    <3>7. Len(more) = n
      BY <2>3, <3>1
    <3>8. more = front
      BY <3>1, <3>3, <3>5, <3>6, <3>7, SeqEqual
    <3> QED BY <3>1, <3>7, <3>8 DEF front
  <2> HIDE DEF more
  <2>5. /\ pc'[t] = step /\ batch'[t] = <<>> /\ items'[t] = items[t]
        /\ outputs'[t] = more /\ code'[t] = "ok" /\ options'[t] = options[t]
        /\ OthersStay(t)
    BY <1>1, <1>3, <2>1 DEF TextTypes, OthersStay, more
  <2>6. TextTypes'
    <3>1. <<>> \in Seq(Data)
      BY EmptySeq
    <3>2. outputs' \in [Thread -> Seq(PromptItem)]
      BY <1>1, <2>1, <2>4 DEF TextTypes, more
    <3>3. pc' \in [Thread -> {"idle", "item", "locking", "returned"} \cup Held]
      BY <1>1, <2>1 DEF TextTypes, step
    <3> QED BY <1>1, <1>8, <2>1, <3>1, <3>2, <3>3 DEF TextTypes
  <2>7. CallIsOnCourse(t)'
    <3>1. CASE offset + valid_count = length
      <4>1. more = items[t]
        BY <1>3, <2>4, <3>1, SubSeqFull
      <4>2. pc'[t] = "returned"
        BY <2>5, <3>1 DEF step
      <4> QED BY <1>2, <2>5, <4>1, <4>2 DEF CallIsOnCourse
    <3>2. CASE offset + valid_count # length
      <4>1. pc'[t] = "item"
        BY <2>5, <3>2 DEF step
      <4>2. /\ Len(more) + Len(<<>>) < length /\ Len(<<>>) < MaxBatch /\ Len(<<>>) = 0
            /\ more = SubSeq(items[t], 1, Len(more))
        <5>1. Len(<<>>) = 0
          OBVIOUS
        <5>2. Len(more) < length
          <6> HIDE DEF offset, length
          <6> QED BY <1>4, <1>7, <2>4, <3>2
        <5>3. Len(more) \in Nat
          BY <2>4, LenProperties
        <5> QED BY <1>4, <2>4, <5>1, <5>2, <5>3
      <4> QED BY <1>2, <1>3, <2>5, <4>1, <4>2 DEF CallIsOnCourse
    <3> QED BY <3>1, <3>2
  <2>8. SessionIsOnCourse(t)' /\ (pc'[t] \in Held <=> mutex' = t)
    <3>1. pc'[t] \notin Held
      BY <1>2, <2>5 DEF step
    <3> QED BY <1>8, <3>1 DEF SessionIsOnCourse, Held, Busy, Looping
  <2> QED BY <1>8, <2>5, <2>6, <2>7, <2>8, StepOfThread DEF OthersStay
<1> QED BY <1>9, <1>10

-----------------------------------------------------------------------------
(* The steps in the session *)

(* What is known of a thread that holds the session.                       *)
LEMMA HolderIs ==
  ASSUME TextInv, NEW t \in Thread, pc[t] \in Held
  PROVE  /\ TextTypes /\ SessionTypes /\ SessionIsOnCourse(t)
         /\ options[t].max_tokens \in Int /\ options[t].stop_words \in SUBSET Seq(Byte)
         /\ Current(t).data \in Data
         /\ PromptSizes[Current(t).data] \in SUBSET Nat
         /\ MaxContext \in Nat \ {0} /\ DecodeBatch \in Nat \ {0}
<1>1. TextTypes /\ SessionTypes /\ SessionIsOnCourse(t) /\ CallIsOnCourse(t)
  BY DEF TextInv, TextTypes
<1>2. options[t] \in OptionSets /\ Current(t).data \in Data
  BY <1>1 DEF CallIsOnCourse
<1>3. options[t] \in [max_tokens : Int, stop_words : SUBSET Seq(Byte)]
  BY <1>2, GenerationAssumption DEF Byte
<1>4. options[t].max_tokens \in Int /\ options[t].stop_words \in SUBSET Seq(Byte)
  BY <1>3
<1>5. PromptSizes[Current(t).data] \in SUBSET Nat
  BY <1>2, GenerationAssumption
<1>6. MaxContext \in Nat \ {0} /\ DecodeBatch \in Nat \ {0}
  BY GenerationAssumption
<1> QED BY <1>1, <1>2, <1>4, <1>5, <1>6

(* No token has been generated yet. *)
LEMMA NothingGenerated ==
  ASSUME NEW words \in SUBSET Seq(Byte)
  PROVE  /\ <<>> \in Seq(Token) /\ Bytes(<<>>) = <<>> /\ <<>> \in Seq(Byte)
         /\ Stops(<<>>, words) = {}
<1>1. Len(<<>>) = 0 /\ 1 .. 0 = {}
  OBVIOUS
<1>2. Stops(<<>>, words) = {}
  BY <1>1 DEF Stops
<1> QED BY <1>2, EmptySeq, NoPiece

(* The context of a prompt is created, or cannot be. *)
LEMMA CreateContextKeeps ==
  ASSUME TextInv, NEW t \in Thread, CreateContext(t)
  PROVE  TextInv'
<1>1. CASE Fail(t, "allocation_failed")
  <2>1. "allocation_failed" \in Errors
    BY DEF Errors
  <2> QED BY <1>1, <2>1, FailKeeps
<1>2. CASE /\ pc[t] = "creating" /\ GoTo(t, "encoding")
           /\ UNCHANGED <<backend, mutex, items, options, outputs, batch, code, generation>>
  <2>1. /\ "creating" \in Entering /\ "creating" \in Held /\ "encoding" \in Held
        /\ "encoding" \notin Busy /\ "encoding" \notin Looping
        /\ "encoding" \notin {"sampling", "reading", "finishing"}
    BY DEF Held, Busy, Entering, Looping
  <2>2. TextTypes /\ SessionTypes /\ SessionIsOnCourse(t)
    BY <1>2, <2>1, HolderIs
  <2>3. SessionTypes' /\ SessionIsFresh'
    BY <1>2, <2>1, <2>2 DEF SessionTypes, SessionIsFresh, SessionIsOnCourse, generation
  <2>4. pc' = [pc EXCEPT ![t] = "encoding"] /\ pc'[t] = "encoding"
    BY <1>2, <2>2 DEF GoTo, TextTypes
  <2>5. SessionIsOnCourse(t)'
    BY <2>1, <2>3, <2>4 DEF SessionIsOnCourse
  <2> QED BY <1>2, <2>1, <2>3, <2>4, <2>5, StepInSession
<1> QED BY <1>1, <1>2 DEF CreateContext

(* The prompt of n tokens of one item. *)
LEMMA PromptOfItem ==
  ASSUME NEW n \in Nat \ {0}, NEW data \in Data
  PROVE  LET p == [i \in 1 .. n |-> data] IN
         /\ p \in Seq(Data) /\ p \in Seq(Symbol) /\ Len(p) = n /\ p # <<>> /\ p[1] = data
<1> DEFINE p == [i \in 1 .. n |-> data]
<1>1. p \in [1 .. n -> Data] /\ p \in [1 .. n -> Symbol] /\ p[1] = data /\ DOMAIN p = 1 .. n
  BY DEF Symbol
<1> HIDE DEF p
<1>2. /\ p \in UNION {[1 .. k -> Data] : k \in Nat}
      /\ p \in UNION {[1 .. k -> Symbol] : k \in Nat}
  BY <1>1
<1>3. p \in Seq(Data) /\ p \in Seq(Symbol)
  BY <1>2, SeqDef
<1>4. DOMAIN p = 1 .. Len(p) /\ Len(p) \in Nat
  BY <1>3, LenProperties
<1>5. Len(p) = n
  BY <1>1, <1>4
<1>6. p # <<>>
  BY <1>3, <1>5, EmptySeq
<1> QED BY <1>1, <1>3, <1>5, <1>6 DEF p

(* The prompt is the history so far, and all of it is to be evaluated. *)
LEMMA EncodePromptKeeps ==
  ASSUME TextInv, NEW t \in Thread, EncodePrompt(t)
  PROVE  TextInv'
<1> DEFINE data == Current(t).data
<1>1. CASE \E error \in {"invalid_argument", "inference_failed", "invalid_output",
                         "invalid_input"} : Fail(t, error)
  <2>1. {"invalid_argument", "inference_failed", "invalid_output", "invalid_input"}
          \subseteq Errors
    BY DEF Errors
  <2> QED BY <1>1, <2>1, FailKeeps
<1>2. ASSUME pc[t] = "encoding", ValidOptions(t), NEW n \in PromptSizes[data],
             n > 0, n < MaxContext,
             prompt' = [i \in 1 .. n |-> data],
             history' = prompt' /\ pending' = prompt',
             steps' = Min({options[t].max_tokens, MaxContext - n}),
             GoTo(t, "evaluating"),
             UNCHANGED <<backend, mutex, items, options, outputs, batch, code, context, text>>
      PROVE  TextInv'
  <2>1. /\ "encoding" \in Entering /\ "encoding" \in Held /\ "evaluating" \in Held
        /\ "evaluating" \in Busy /\ "evaluating" \in Looping /\ "evaluating" \notin Entering
        /\ "evaluating" \notin {"sampling", "reading", "finishing"}
    BY DEF Held, Busy, Entering, Looping
  <2>2. /\ TextTypes /\ SessionTypes /\ SessionIsFresh
        /\ options[t].max_tokens \in Int /\ options[t].stop_words \in SUBSET Seq(Byte)
        /\ data \in Data /\ n \in Nat \ {0} /\ MaxContext \in Nat
    BY <1>2, <2>1, HolderIs DEF SessionIsOnCourse
  <2> PICK m \in Int : m = options[t].max_tokens
    BY <2>2
  <2>3. /\ prompt' \in Seq(Data) /\ prompt' \in Seq(Symbol) /\ Len(prompt') = n
        /\ prompt' # <<>> /\ prompt'[1] = data
    BY <1>2, <2>2, PromptOfItem
  <2>4. steps' \in Nat /\ steps' > 0 /\ n + steps' <= MaxContext
    <3>1. m > 0 /\ MaxContext - n \in Int
      BY <1>2, <2>2 DEF ValidOptions
    <3>2. steps' \in {m, MaxContext - n} /\ steps' <= MaxContext - n
      BY <1>2, <3>1, MinOfTwo
    <3> QED BY <1>2, <2>2, <3>1, <3>2
  <2>5. context' = <<>> /\ text' = <<>> /\ context' \o pending' = history'
    <3>1. context' = <<>> /\ text' = <<>>
      BY <1>2, <2>2 DEF SessionIsFresh
    <3> QED BY <1>2, <2>3, <3>1, ConcatEmptySeq
  <2>6. SessionTypes'
    BY <1>2, <2>3, <2>4, <2>5, EmptySeq DEF SessionTypes
  <2>7. pc' = [pc EXCEPT ![t] = "evaluating"] /\ pc'[t] = "evaluating"
    BY <1>2, <2>2 DEF GoTo, TextTypes
  <2>8. \E g \in Seq(Token) :
          /\ history' = prompt' \o g
          /\ text' = Bytes(g) /\ Stops(text', options'[t].stop_words) = {}
    <3>1. history' = prompt' \o <<>>
      BY <1>2, <2>3, ConcatEmptySeq
    <3> QED BY <1>2, <2>2, <2>5, <3>1, NothingGenerated
  <2>9. Len(history') - Len(prompt') < steps' /\ Len(prompt') + steps' <= MaxContext
    BY <1>2, <2>2, <2>3, <2>4
  <2>10. SessionIsOnCourse(t)'
    BY <1>2, <2>1, <2>3, <2>5, <2>7, <2>8, <2>9 DEF SessionIsOnCourse, Current
  <2> QED BY <1>2, <2>1, <2>6, <2>7, <2>10, StepInSession
<1> QED BY <1>1, <1>2 DEF EncodePrompt

(* What is pending is submitted. *)
LEMMA EvaluateKeeps ==
  ASSUME TextInv, NEW t \in Thread, Evaluate(t)
  PROVE  TextInv'
<1>1. CASE Fail(t, "invalid_input")
  <2>1. "invalid_input" \in Errors
    BY DEF Errors
  <2> QED BY <1>1, <2>1, FailKeeps
<1>2. CASE /\ pc[t] = "evaluating" /\ GoTo(t, "decoding")
           /\ UNCHANGED <<backend, mutex, items, options, outputs, batch, code, generation>>
  <2>1. /\ "evaluating" \in Held /\ "evaluating" \in Busy /\ "evaluating" \in Looping
        /\ "decoding" \in Held /\ "decoding" \notin Entering
        /\ "decoding" \notin {"sampling", "reading", "finishing"}
    BY DEF Held, Busy, Entering, Looping
  <2>2. TextTypes /\ SessionTypes /\ SessionIsOnCourse(t)
    BY <1>2, <2>1, HolderIs
  <2>3. SessionTypes'
    BY <1>2, <2>2 DEF SessionTypes, generation
  <2>4. pc' = [pc EXCEPT ![t] = "decoding"] /\ pc'[t] = "decoding"
    BY <1>2, <2>2 DEF GoTo, TextTypes
  <2>5. SessionIsOnCourse(t)'
    BY <1>2, <2>1, <2>2, <2>4 DEF SessionIsOnCourse, Current, generation
  <2> QED BY <1>2, <2>1, <2>3, <2>4, <2>5, StepInSession
<1> QED BY <1>1, <1>2 DEF Evaluate

(* A chunk moves from what is pending to the context. *)
LEMMA DecodeChunkKeeps ==
  ASSUME TextInv, NEW t \in Thread, DecodeChunk(t)
  PROVE  TextInv'
<1> DEFINE chunk == Min({DecodeBatch, Len(pending)})
<1>1. CASE Fail(t, "inference_failed")
  <2>1. "inference_failed" \in Errors
    BY DEF Errors
  <2> QED BY <1>1, <2>1, FailKeeps
<1>2. CASE /\ pc[t] = "decoding"
           /\ context' = context \o SubSeq(pending, 1, chunk)
           /\ pending' = SubSeq(pending, chunk + 1, Len(pending))
           /\ IF pending' = <<>> THEN GoTo(t, "sampling") ELSE UNCHANGED pc
           /\ UNCHANGED <<backend, mutex, items, options, outputs, batch, code,
                          history, prompt, steps, text>>
  <2> DEFINE next == IF pending' = <<>> THEN "sampling" ELSE "decoding"
  <2>1. /\ "decoding" \in Held /\ "decoding" \in Busy /\ "decoding" \in Looping
        /\ next \in Held /\ next \notin Entering /\ next \in Busy /\ next \in Looping
        /\ next \notin {"reading", "finishing"}
        /\ next = "sampling" => pending' = <<>>
    BY DEF Held, Busy, Entering, Looping
  <2>2. TextTypes /\ SessionTypes /\ SessionIsOnCourse(t) /\ DecodeBatch \in Nat
    BY <1>2, <2>1, HolderIs
  <2>3. pc' = [pc EXCEPT ![t] = next] /\ pc'[t] = next
    BY <1>2, <2>2 DEF GoTo, TextTypes
  <2> HIDE DEF next
  <2>4. context \in Seq(Symbol) /\ pending \in Seq(Symbol)
    BY <2>2 DEF SessionTypes
  <2>5. PICK k \in 0 .. Len(pending) : k = chunk
    <3>1. Len(pending) \in Nat
      BY <2>4, LenProperties
    <3>2. chunk \in {DecodeBatch, Len(pending)} /\ chunk <= Len(pending)
      BY <2>2, <3>1, MinOfTwo
    <3> HIDE DEF chunk
    <3>3. chunk \in 0 .. Len(pending)
      BY <2>2, <3>1, <3>2
    <3> QED BY <3>3
  <2> DEFINE front == SubSeq(pending, 1, k)
             rest == SubSeq(pending, k + 1, Len(pending))
  <2>6. front \in Seq(Symbol) /\ rest \in Seq(Symbol) /\ front \o rest = pending
    BY <2>4, SeqInTwo
  <2>7. context' = context \o front /\ pending' = rest
    BY <1>2, <2>5
  <2> HIDE DEF front, rest
  <2>8. context' \in Seq(Symbol) /\ pending' \in Seq(Symbol)
    BY <2>4, <2>6, <2>7, ConcatProperties
  <2>9. context' \o pending' = context \o pending
    <3>1. \A u, v, w \in Seq(Symbol) : (u \o v) \o w = u \o (v \o w)
      BY ConcatAssociative
    <3>2. (context \o front) \o rest = context \o (front \o rest)
      BY <2>4, <2>6, <3>1, ZenonT(60)
    <3> QED BY <2>6, <2>7, <3>2, Zenon
  <2>10. SessionTypes'
    BY <1>2, <2>2, <2>8 DEF SessionTypes
  <2>11. SessionIsOnCourse(t)'
    BY <1>2, <2>1, <2>2, <2>3, <2>9 DEF SessionIsOnCourse, Current
  <2> QED BY <1>2, <2>1, <2>3, <2>10, <2>11, StepInSession
<1> QED BY <1>1, <1>2 DEF DecodeChunk

(* A sequence over a set is one over a larger set.                         *)
LEMMA SeqsGrow ==
  /\ Seq(Data) \subseteq Seq(Symbol)
  /\ Seq(Token) \subseteq Seq(Symbol)
<1>1. ASSUME NEW S, S \subseteq Symbol, NEW s \in Seq(S)
      PROVE  s \in Seq(Symbol)
  <2>1. /\ Len(s) \in Nat /\ DOMAIN s = 1 .. Len(s)
        /\ \A i \in 1 .. Len(s) : s[i] \in S
        /\ s = [i \in 1 .. Len(s) |-> s[i]]
    BY LenProperties, ElementOfSeq
  <2>2. s \in [1 .. Len(s) -> Symbol]
    BY <1>1, <2>1
  <2>3. s \in UNION {[1 .. k -> Symbol] : k \in Nat}
    BY <2>1, <2>2
  <2> QED BY <2>3, SeqDef
<1>2. Data \subseteq Symbol /\ Token \subseteq Symbol
  BY DEF Symbol
<1> QED BY <1>1, <1>2

(* The text of tokens is a sequence of bytes. *)
LEMMA TextIsBytes ==
  ASSUME NEW g \in Seq(Token)
  PROVE  Bytes(g) \in Seq(Byte)
<1>1. EndToken \in Token
  BY GenerationAssumption
<1> QED BY <1>1, NextPiece

(* What follows the prompt in the history is what was generated.           *)
LEMMA GeneratedIs ==
  ASSUME NEW p \in Seq(Data), NEW g \in Seq(Token)
  PROVE  SubSeq(p \o g, Len(p) + 1, Len(p \o g)) = g
<1>1. p \in Seq(Symbol) /\ g \in Seq(Symbol)
  BY SeqsGrow
<1> QED BY <1>1, RestOfConcat

(* Logits that are refused, or a token without bytes, fail the call. *)
LEMMA RejectLogitsKeeps ==
  ASSUME TextInv, NEW t \in Thread, RejectLogits(t) \/ DecodeTokenFails(t)
  PROVE  TextInv'
<1>1. {"invalid_output", "inference_failed"} \subseteq Errors
  BY DEF Errors
<1> QED BY <1>1, FailKeeps DEF RejectLogits, DecodeTokenFails

(* The end token leaves the text as it is: no stop word occurs in it. *)
LEMMA SampleEndKeeps ==
  ASSUME TextInv, NEW t \in Thread, SampleEnd(t)
  PROVE  TextInv'
<1>1. /\ "sampling" \in Held /\ "sampling" \in Busy /\ "sampling" \in Looping
      /\ "finishing" \in Held /\ "finishing" \notin Entering /\ "finishing" \in Busy
      /\ "finishing" \notin Looping /\ "finishing" \notin {"sampling", "reading"}
  BY DEF Held, Busy, Entering, Looping
<1>2. /\ TextTypes /\ SessionTypes /\ SessionIsOnCourse(t)
      /\ pc[t] = "sampling" /\ options[t].stop_words \in SUBSET Seq(Byte)
      /\ UNCHANGED <<mutex, items, options, outputs, batch, code, generation>>
  BY <1>1, HolderIs DEF SampleEnd
<1>3. pc' = [pc EXCEPT ![t] = "finishing"] /\ pc'[t] = "finishing"
  BY <1>2 DEF SampleEnd, GoTo, TextTypes
<1>4. SessionTypes'
  BY <1>2 DEF SessionTypes, generation
<1>5. \E g \in Seq(Token) :
        /\ history = prompt \o g /\ text = CutAtStop(Bytes(g), options[t].stop_words)
  <2>1. PICK g \in Seq(Token) :
          /\ history = prompt \o g
          /\ text = Bytes(g) /\ Stops(text, options[t].stop_words) = {}
    BY <1>1, <1>2 DEF SessionIsOnCourse
  <2>2. CutAtStop(text, options[t].stop_words) = text
    BY <2>1 DEF CutAtStop
  <2> QED BY <2>1, <2>2
<1>6. SessionIsOnCourse(t)'
  BY <1>1, <1>2, <1>3, <1>5 DEF SessionIsOnCourse, Current, generation
<1> QED BY <1>1, <1>2, <1>3, <1>4, <1>6, StepInSession

(* A sampled token joins the history, and its bytes the text.              *)
LEMMA SampleTokenKeeps ==
  ASSUME TextInv, NEW t \in Thread, NEW token \in Token, SampleToken(t, token)
  PROVE  TextInv'
<1> DEFINE words == options[t].stop_words
           stopped == Stops(text \o Piece[token], words) # {}
           full == Len(history') - Len(prompt) >= steps
           next == IF stopped \/ full THEN "finishing" ELSE "evaluating"
<1>1. /\ "sampling" \in Held /\ "sampling" \in Busy /\ "sampling" \in Looping
      /\ next \in Held /\ next \notin Entering /\ next \in Busy
      /\ next \notin {"sampling", "reading"}
      /\ next \in Looping => ~stopped /\ ~full
      /\ next = "finishing" <=> stopped \/ full
  BY DEF Held, Busy, Entering, Looping
<1>2. /\ TextTypes /\ SessionTypes /\ SessionIsOnCourse(t)
      /\ pc[t] = "sampling" /\ words \in SUBSET Seq(Byte)
  BY <1>1, HolderIs DEF SampleToken
<1>3. /\ text' = CutAtStop(text \o Piece[token], words)
      /\ history' = Append(history, token)
      /\ UNCHANGED <<mutex, items, options, outputs, batch, code, context, prompt, steps>>
      /\ \/ (stopped \/ full) /\ UNCHANGED pending
         \/ ~stopped /\ ~full /\ pending' = <<token>>
  BY DEF SampleToken
<1>4. pc' = [pc EXCEPT ![t] = next] /\ pc'[t] = next
  BY <1>2 DEF SampleToken, GoTo, TextTypes
<1>5. PICK g \in Seq(Token) :
        history = prompt \o g /\ text = Bytes(g) /\ Stops(text, words) = {}
  BY <1>1, <1>2 DEF SessionIsOnCourse
<1>6. /\ context \in Seq(Symbol) /\ pending = <<>> /\ history \in Seq(Symbol)
      /\ context \o pending = history /\ prompt \in Seq(Data)
      /\ text \in Seq(Byte) /\ steps \in Nat /\ Len(prompt) + steps <= MaxContext
      /\ prompt # <<>> /\ prompt[1] = Current(t).data
  BY <1>1, <1>2 DEF SessionTypes, SessionIsOnCourse
<1> HIDE DEF next, stopped, full
<1> DEFINE more == Append(g, token)
           all == text \o Piece[token]
<1>7. more \in Seq(Token) /\ Bytes(more) = all /\ all \in Seq(Byte)
  <2>1. more \in Seq(Token)
    BY AppendProperties
  <2>2. Bytes(more) = all
    BY <1>5, NextPiece
  <2>3. Bytes(more) \in Seq(Byte)
    <3> HIDE DEF more
    <3> QED BY <2>1, TextIsBytes
  <2> QED BY <2>1, <2>2, <2>3
<1>8. history' = prompt \o more
  <2>1. token \in Symbol /\ g \in Seq(Symbol) /\ prompt \in Seq(Symbol)
    BY <1>6, SeqsGrow DEF Symbol
  <2>2. <<token>> \in Seq(Symbol)
    BY <2>1
  <2>3. /\ Append(history, token) = history \o <<token>>
        /\ Append(g, token) = g \o <<token>>
    BY <1>6, <2>1, AppendIsConcat
  <2>4. (prompt \o g) \o <<token>> = prompt \o (g \o <<token>>)
    BY <2>1, <2>2, ConcatAssociative
  <2> QED BY <1>3, <1>5, <2>3, <2>4, Zenon
<1>9. /\ text' = CutAtStop(all, words) /\ text' \in Seq(Byte)
      /\ ~stopped => text' = all /\ Stops(text', words) = {}
  <2> HIDE DEF all
  <2>1. text' = CutAtStop(all, words)
    BY <1>3 DEF all
  <2>2. CutAtStop(all, words) \in Seq(Byte)
    BY <1>2, <1>7, CutIsBeforeStops
  <2>3. ~stopped => CutAtStop(all, words) = all /\ Stops(all, words) = {}
    BY DEF stopped, all, CutAtStop
  <2> QED BY <2>1, <2>2, <2>3
<1>10. /\ token \in Symbol /\ history' \in Seq(Symbol)
       /\ pending' \in Seq(Symbol)
  <2>1. token \in Symbol
    BY DEF Symbol
  <2>2. Append(history, token) \in Seq(Symbol)
    BY <1>6, <2>1, AppendProperties
  <2>3. <<token>> \in Seq(Symbol)
    BY <2>1
  <2> QED BY <1>3, <1>6, <2>1, <2>2, <2>3, EmptySeq
<1>11. SessionTypes'
  BY <1>2, <1>3, <1>9, <1>10 DEF SessionTypes
<1> HIDE DEF more, all
<1>12. ASSUME next \in Looping
       PROVE  /\ context' \o pending' = history'
              /\ Len(history') - Len(prompt') < steps'
              /\ Len(prompt') + steps' <= MaxContext
  <2>1. ~stopped /\ ~full
    BY <1>1, <1>12
  <2>2. pending' = <<token>> /\ context = history
    BY <1>3, <1>6, <2>1, ConcatEmptySeq
  <2>3. context' \o pending' = history'
    BY <1>3, <1>6, <1>10, <2>2, AppendIsConcat
  <2>4. Len(history') \in Nat /\ Len(prompt) \in Nat
    BY <1>6, <1>10, LenProperties
  <2>5. Len(history') - Len(prompt) < steps
    BY <1>6, <2>1, <2>4 DEF full
  <2> QED BY <1>3, <1>6, <2>3, <2>5
<1>13. ASSUME next \in Looping
       PROVE  \E h \in Seq(Token) :
                /\ history' = prompt' \o h
                /\ text' = Bytes(h) /\ Stops(text', options'[t].stop_words) = {}
  BY <1>1, <1>3, <1>7, <1>8, <1>9, <1>13
<1>14. \E h \in Seq(Token) :
         history' = prompt' \o h /\ text' = CutAtStop(Bytes(h), options'[t].stop_words)
  BY <1>3, <1>7, <1>8, <1>9
<1>15. SessionIsOnCourse(t)'
  BY <1>1, <1>3, <1>4, <1>6, <1>12, <1>13, <1>14 DEF SessionIsOnCourse, Current
<1> QED BY <1>1, <1>2, <1>3, <1>4, <1>11, <1>15, StepInSession

-----------------------------------------------------------------------------
(* The vendors' tasks *)

(* A vendor's task gets the prompt of the item. *)
LEMMA PreparePromptKeeps ==
  ASSUME TextInv, NEW t \in Thread, PreparePrompt(t)
  PROVE  TextInv'
<1>1. CASE \E error \in {"inference_failed", "allocation_failed", "invalid_output"} :
             Fail(t, error)
  <2>1. {"inference_failed", "allocation_failed", "invalid_output"} \subseteq Errors
    BY DEF Errors
  <2> QED BY <1>1, <2>1, FailKeeps
<1>2. ASSUME pc[t] = "preparing", NEW n \in PromptSizes[Current(t).data] \ {0},
             prompt' = [i \in 1 .. n |-> Current(t).data],
             GoTo(t, "running"),
             UNCHANGED <<backend, mutex, items, options, outputs, batch, code,
                         context, pending, history, steps, text>>
      PROVE  TextInv'
  <2>1. /\ "preparing" \in Held /\ "running" \in Held /\ "running" \in Busy
        /\ "running" \notin Entering /\ "running" \notin Looping
        /\ "running" \notin {"sampling", "reading", "finishing"}
    BY DEF Held, Busy, Entering, Looping
  <2>2. TextTypes /\ SessionTypes /\ Current(t).data \in Data /\ n \in Nat \ {0}
    BY <1>2, <2>1, HolderIs
  <2>3. prompt' \in Seq(Data) /\ prompt' # <<>> /\ prompt'[1] = Current(t).data
    BY <1>2, <2>2, PromptOfItem
  <2>4. SessionTypes'
    BY <1>2, <2>2, <2>3 DEF SessionTypes
  <2>5. pc' = [pc EXCEPT ![t] = "running"] /\ pc'[t] = "running"
    BY <1>2, <2>2 DEF GoTo, TextTypes
  <2>6. SessionIsOnCourse(t)'
    BY <1>2, <2>1, <2>3, <2>5 DEF SessionIsOnCourse, Current
  <2> QED BY <1>2, <2>1, <2>4, <2>5, <2>6, StepInSession
<1> QED BY <1>1, <1>2 DEF PreparePrompt

(* What a vendor's task generates follows its prompt. *)
LEMMA ExecuteTaskKeeps ==
  ASSUME TextInv, NEW t \in Thread, ExecuteTask(t)
  PROVE  TextInv'
<1>1. CASE \E error \in {"inference_failed", "invalid_output"} : Fail(t, error)
  <2>1. {"inference_failed", "invalid_output"} \subseteq Errors
    BY DEF Errors
  <2> QED BY <1>1, <2>1, FailKeeps
<1>2. ASSUME pc[t] = "running", NEW n \in 0 .. options[t].max_tokens,
             NEW generated \in [1 .. n -> Token \ {EndToken}],
             history' = prompt \o generated,
             GoTo(t, "reading"),
             UNCHANGED <<backend, mutex, items, options, outputs, batch, code,
                         context, pending, prompt, steps, text>>
      PROVE  TextInv'
  <2>1. /\ "running" \in Held /\ "running" \in Busy
        /\ "reading" \in Held /\ "reading" \in Busy
        /\ "reading" \notin Entering /\ "reading" \notin Looping
        /\ "reading" \notin {"sampling", "finishing"}
    BY DEF Held, Busy, Entering, Looping
  <2>2. /\ TextTypes /\ SessionTypes /\ SessionIsOnCourse(t)
        /\ options[t].max_tokens \in Int
    BY <1>2, <2>1, HolderIs
  <2>3. generated \in Seq(Token)
    <3>1. n \in Nat /\ generated \in [1 .. n -> Token]
      BY <2>2
    <3>2. generated \in UNION {[1 .. k -> Token] : k \in Nat}
      BY <3>1
    <3> QED BY <3>2, SeqDef
  <2>4. history' \in Seq(Symbol)
    <3>1. generated \in Seq(Symbol) /\ prompt \in Seq(Symbol)
      BY <2>2, <2>3, SeqsGrow DEF SessionTypes
    <3> QED BY <1>2, <3>1, ConcatProperties
  <2>5. SessionTypes'
    BY <1>2, <2>2, <2>4 DEF SessionTypes
  <2>6. pc' = [pc EXCEPT ![t] = "reading"] /\ pc'[t] = "reading"
    BY <1>2, <2>2 DEF GoTo, TextTypes
  <2>7. SessionIsOnCourse(t)'
    BY <1>2, <2>1, <2>2, <2>3, <2>6 DEF SessionIsOnCourse, Current
  <2> QED BY <1>2, <2>1, <2>5, <2>6, <2>7, StepInSession
<1> QED BY <1>1, <1>2 DEF ExecuteTask

(* The text of a vendor's task is cut once. *)
LEMMA ReadOutputKeeps ==
  ASSUME TextInv, NEW t \in Thread, ReadOutput(t)
  PROVE  TextInv'
<1> DEFINE generated == SubSeq(history, Len(prompt) + 1, Len(history))
           words == options[t].stop_words
<1>1. CASE \E error \in {"inference_failed", "invalid_output"} : Fail(t, error)
  <2>1. {"inference_failed", "invalid_output"} \subseteq Errors
    BY DEF Errors
  <2> QED BY <1>1, <2>1, FailKeeps
<1>2. CASE /\ pc[t] = "reading"
           /\ text' = CutAtStop(Bytes(generated), words)
           /\ GoTo(t, "finishing")
           /\ UNCHANGED <<backend, mutex, items, options, outputs, batch, code,
                          context, pending, history, prompt, steps>>
  <2>1. /\ "reading" \in Held /\ "reading" \in Busy
        /\ "finishing" \in Held /\ "finishing" \in Busy
        /\ "finishing" \notin Entering /\ "finishing" \notin Looping
        /\ "finishing" \notin {"sampling", "reading"}
    BY DEF Held, Busy, Entering, Looping
  <2>2. /\ TextTypes /\ SessionTypes /\ SessionIsOnCourse(t)
        /\ words \in SUBSET Seq(Byte)
    BY <1>2, <2>1, HolderIs
  <2>3. PICK g \in Seq(Token) : history = prompt \o g
    BY <1>2, <2>2 DEF SessionIsOnCourse
  <2>4. generated = g
    BY <2>2, <2>3, GeneratedIs DEF SessionTypes
  <2>5. text' = CutAtStop(Bytes(g), words) /\ text' \in Seq(Byte)
    <3>1. text' = CutAtStop(Bytes(g), words)
      BY <1>2, <2>4
    <3>2. Bytes(g) \in Seq(Byte)
      BY TextIsBytes
    <3> QED BY <2>2, <3>1, <3>2, CutIsBeforeStops
  <2>6. SessionTypes'
    BY <1>2, <2>2, <2>5 DEF SessionTypes
  <2>7. pc' = [pc EXCEPT ![t] = "finishing"] /\ pc'[t] = "finishing"
    BY <1>2, <2>2 DEF GoTo, TextTypes
  <2> HIDE DEF generated
  <2>8. SessionIsOnCourse(t)'
    BY <1>2, <2>1, <2>2, <2>3, <2>5, <2>7 DEF SessionIsOnCourse, Current
  <2> QED BY <1>2, <2>1, <2>6, <2>7, <2>8, StepInSession
<1> QED BY <1>1, <1>2 DEF ReadOutput

-----------------------------------------------------------------------------
(* The invariant is inductive *)

(* At first nothing was called and the session is free. *)
LEMMA InitTextInv ==
  Init => TextInv
<1> SUFFICES ASSUME Init PROVE TextInv
  OBVIOUS
<1>1. /\ mutex = None /\ SessionIsFresh /\ steps = 0
      /\ pc = [t \in Thread |-> "idle"] /\ items = [t \in Thread |-> <<>>]
      /\ options = [t \in Thread |-> None] /\ outputs = [t \in Thread |-> <<>>]
      /\ batch = [t \in Thread |-> <<>>] /\ code = [t \in Thread |-> "none"]
  BY DEF Init, SessionIsFresh
<1>2. SessionTypes
  BY <1>1, EmptySeq DEF SessionTypes, SessionIsFresh
<1>3. TextTypes
  <2>1. <<>> \in Seq(PromptItem) /\ <<>> \in Seq(Data)
    BY EmptySeq
  <2> QED BY <1>1, <1>2, <2>1 DEF TextTypes
<1>4. "idle" \notin Held
  BY DEF Held, Busy, Entering, Looping
<1>5. ASSUME NEW t \in Thread
      PROVE  CallIsOnCourse(t) /\ SessionIsOnCourse(t) /\ (pc[t] \in Held <=> mutex = t)
  <2>1. t # None /\ pc[t] = "idle"
    BY <1>1, GenerationAssumption
  <2> QED BY <1>1, <1>4, <2>1 DEF CallIsOnCourse, SessionIsOnCourse, Held, Busy, Looping
<1> QED BY <1>1, <1>3, <1>5 DEF TextInv

(* Every step keeps the invariant. *)
LEMMA StepKeepsText ==
  TextInv /\ [Next]_vars => TextInv'
<1> SUFFICES ASSUME TextInv, [Next]_vars PROVE TextInv'
  OBVIOUS
<1>1. CASE UNCHANGED vars
  BY <1>1 DEF TextInv, TextTypes, SessionTypes, CallIsOnCourse, SessionIsOnCourse,
              SessionIsFresh, Current, vars, callVars, generation
<1>2. ASSUME NEW t \in Thread, NEW prompts \in Batches, NEW generate_options \in OptionSets,
             CallGenerate(t, prompts, generate_options)
      PROVE  TextInv'
  BY <1>2, CallGenerateKeeps
<1>3. ASSUME NEW t \in Thread, BeginItem(t) \/ Store(t) \/ Return(t)
      PROVE  TextInv'
  BY <1>3, BeginItemKeeps, StoreKeeps, ReturnKeeps
<1>4. ASSUME NEW t \in Thread, SessionStep(t)
      PROVE  TextInv'
  <2>1. CASE Lock(t) \/ CreateContext(t) \/ EncodePrompt(t) \/ Evaluate(t) \/ DecodeChunk(t)
    BY <2>1, LockKeeps, CreateContextKeeps, EncodePromptKeeps, EvaluateKeeps, DecodeChunkKeeps
  <2>2. CASE RejectLogits(t) \/ DecodeTokenFails(t) \/ SampleEnd(t)
    BY <2>2, RejectLogitsKeeps, SampleEndKeeps
  <2>3. CASE \E token \in Token \ {EndToken} : SampleToken(t, token)
    BY <2>3, SampleTokenKeeps
  <2>4. CASE PreparePrompt(t) \/ ExecuteTask(t) \/ ReadOutput(t)
    BY <2>4, PreparePromptKeeps, ExecuteTaskKeeps, ReadOutputKeeps
  <2> QED BY <1>4, <2>1, <2>2, <2>3, <2>4 DEF SessionStep
<1> QED BY <1>1, <1>2, <1>3, <1>4 DEF Next

(* The invariant holds in every state the code can reach. *)
THEOREM TextInvHolds ==
  Spec => []TextInv
<1> QED BY InitTextInv, StepKeepsText, PTL DEF Spec

-----------------------------------------------------------------------------
(* The properties that follow *)

(* Answers of whole slices are the first items; a call returns with all or none. *)
LEMMA AnswersMatch ==
  TextInv => AnswersMatchPrompts
<1> SUFFICES ASSUME TextInv, NEW t \in Thread
             PROVE  /\ IF pc[t] = "returned" /\ code[t] = "ok"
                       THEN outputs[t] = items[t]
                       ELSE IsPrefix(outputs[t], items[t])
                    /\ code[t] \notin {"ok", "none"} => outputs[t] = <<>>
  BY DEF AnswersMatchPrompts
<1>1. /\ CallIsOnCourse(t)
      /\ items[t] \in Seq(PromptItem) /\ outputs[t] \in Seq(PromptItem)
      /\ batch[t] \in Seq(Data)
      /\ pc[t] \in {"idle", "item", "locking", "returned"} \cup Held
  BY DEF TextInv, TextTypes
<1>2. Len(items[t]) \in Nat /\ Len(outputs[t]) \in Nat /\ Len(batch[t]) \in Nat
  BY <1>1, LenProperties
<1>3. outputs[t] = <<>> => IsPrefix(outputs[t], items[t])
  <2>1. 0 \in 0 .. Len(items[t]) /\ SubSeq(items[t], 1, 0) = <<>>
    BY <1>1, <1>2, SubSeqEmpty
  <2> QED BY <1>1, <2>1, PrefixIsPrefix
<1>4. CASE pc[t] = "idle"
  BY <1>1, <1>3, <1>4 DEF CallIsOnCourse
<1>5. CASE pc[t] = "returned"
  <2>1. "ok" \notin Errors /\ "none" \notin Errors
    BY DEF Errors
  <2> QED BY <1>1, <1>3, <1>5, <2>1 DEF CallIsOnCourse
<1>6. CASE pc[t] \in {"item", "locking"} \cup Held
  <2>1. /\ code[t] = "ok" /\ Len(outputs[t]) + Len(batch[t]) < Len(items[t])
        /\ outputs[t] = SubSeq(items[t], 1, Len(outputs[t]))
    BY <1>1, <1>6 DEF CallIsOnCourse
  <2>2. pc[t] # "returned"
    BY <1>6 DEF Held, Busy, Entering, Looping
  <2>3. Len(outputs[t]) \in 0 .. Len(items[t])
    <3>1. \A a, b, c \in Nat : a + b < c => a \in 0 .. c
      OBVIOUS
    <3> QED BY <1>2, <2>1, <3>1
  <2>4. IsPrefix(SubSeq(items[t], 1, Len(outputs[t])), items[t])
    BY <1>1, <2>3, PrefixIsPrefix
  <2>5. IsPrefix(outputs[t], items[t])
    BY <2>1, <2>4
  <2> QED BY <2>1, <2>2, <2>5
<1> QED BY <1>1, <1>4, <1>5, <1>6

(* Every call that succeeds answers each of its items, in order and under  *)
(* its ids, and a call that fails answers none.                            *)
THEOREM AnswersGoToTheirPrompts ==
  Spec => []AnswersMatchPrompts
<1> QED BY TextInvHolds, AnswersMatch, PTL

(* The steps that remain keep the history within the context. *)
LEMMA HistoryIsFollowed ==
  TextInv => ContextFollowsHistory
<1> SUFFICES ASSUME TextInv, NEW t \in Thread, pc[t] \in Looping
             PROVE  context \o pending = history /\ Len(history) <= MaxContext
  BY DEF ContextFollowsHistory, Looping
<1>1. SessionIsOnCourse(t) /\ SessionTypes
  BY DEF TextInv, TextTypes
<1>2. /\ context \o pending = history
      /\ Len(history) - Len(prompt) < steps /\ Len(prompt) + steps <= MaxContext
  BY <1>1 DEF SessionIsOnCourse
<1>3. Len(history) \in Nat /\ Len(prompt) \in Nat /\ steps \in Nat /\ MaxContext \in Nat
  BY <1>1, LenProperties, GenerationAssumption DEF SessionTypes
<1> QED BY <1>2, <1>3

(* The decoder's context is the history, token by token, and never full.   *)
THEOREM DecoderFollowsHistory ==
  Spec => []ContextFollowsHistory
<1> QED BY TextInvHolds, HistoryIsFollowed, PTL

(* The text is cut from the bytes of what followed the prompt. *)
LEMMA TextIsCut ==
  TextInv => StopWordsEndText
<1> DEFINE generated == SubSeq(history, Len(prompt) + 1, Len(history))
           all == Bytes(generated)
<1> SUFFICES ASSUME TextInv, NEW t \in Thread, pc[t] \in {"sampling", "finishing"}
             PROVE  /\ pc[t] = "sampling" =>
                         text = all /\ Stops(all, options[t].stop_words) = {}
                    /\ IsPrefix(text, all)
                    /\ Stops(text, options[t].stop_words) = {}
                    /\ text # all => Len(text) + 1 \in Stops(all, options[t].stop_words)
  BY DEF StopWordsEndText
<1>1. /\ pc[t] \in Held /\ "sampling" \in Looping
  BY DEF Held, Busy, Looping
<1>2. /\ SessionTypes /\ SessionIsOnCourse(t) /\ options[t].stop_words \in SUBSET Seq(Byte)
  BY <1>1, HolderIs
<1>3. PICK g \in Seq(Token) :
        /\ history = prompt \o g
        /\ text = CutAtStop(Bytes(g), options[t].stop_words)
        /\ pc[t] = "sampling" =>
             text = Bytes(g) /\ Stops(text, options[t].stop_words) = {}
  <2>1. CASE pc[t] = "sampling"
    <3>1. PICK g \in Seq(Token) :
            /\ history = prompt \o g
            /\ text = Bytes(g) /\ Stops(text, options[t].stop_words) = {}
      BY <1>1, <1>2, <2>1 DEF SessionIsOnCourse
    <3>2. CutAtStop(text, options[t].stop_words) = text
      BY <3>1 DEF CutAtStop
    <3> QED BY <3>1, <3>2
  <2>2. CASE pc[t] = "finishing"
    BY <1>2, <2>2 DEF SessionIsOnCourse
  <2> QED BY <2>1, <2>2
<1>4. generated = g
  BY <1>2, <1>3, GeneratedIs DEF SessionTypes
<1>5. all = Bytes(g) /\ all \in Seq(Byte)
  BY <1>4, TextIsBytes
<1> HIDE DEF all
<1>6. text = CutAtStop(all, options[t].stop_words)
  BY <1>3, <1>5
<1>7. /\ IsPrefix(text, all) /\ Stops(text, options[t].stop_words) = {}
      /\ text # all => Len(text) + 1 \in Stops(all, options[t].stop_words)
  BY <1>2, <1>5, <1>6, CutIsBeforeStops
<1> QED BY <1>3, <1>5, <1>7

(* The text is that of the generated tokens up to the first stop word.     *)
THEOREM TextEndsAtStopWords ==
  Spec => []StopWordsEndText
<1> QED BY TextInvHolds, TextIsCut, PTL

(* Only a character that is cut short is removed from a text. *)
LEMMA WholeAnswer ==
  TextInv => AnswerIsWhole
<1>1. TextInv => text \in Seq(Byte)
  BY DEF TextInv, TextTypes, SessionTypes
<1> SUFFICES ASSUME text \in Seq(Byte)
             PROVE  AnswerIsWhole
  BY <1>1
<1> DEFINE rest == SubSeq(text, Len(WholePrefix(text)) + 1, Len(text))
           cut_short == /\ rest # <<>>
                        /\ Len(rest) < Width[rest[1]] /\ Width[rest[1]] # 5
                        /\ \A i \in 2 .. Len(rest) : Width[rest[i]] = 0
<1>2. ASSUME rest = <<>> \/ cut_short
      PROVE  Answer = WholePrefix(text)
  BY <1>2, AnswerOfText DEF Answer
<1> QED BY <1>2 DEF AnswerIsWhole

(* An answer ends with a whole character.                                  *)
THEOREM AnswersAreWhole ==
  Spec => []AnswerIsWhole
<1> QED BY TextInvHolds, WholeAnswer, PTL
=============================================================================
