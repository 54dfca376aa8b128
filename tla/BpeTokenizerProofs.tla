-------------------------- MODULE BpeTokenizerProofs --------------------------
(***************************************************************************)
(* Machine-checked proofs about BpeTokenizer, for any vocabularies and any *)
(* texts: a word is merged as byte-pair encoding defines it, although the  *)
(* heap keeps candidates that are out of date, and what Encode returns is  *)
(* decoded to the text.                                                    *)
(*                                                                         *)
(* Most lemmas are about the tokenizer's tables, a word and its symbols as *)
(* values; the steps of Encode come last.                                  *)
(***************************************************************************)
EXTENDS BpeTokenizer, FiniteSetTheorems, SequenceTheorems, TLAPS

-----------------------------------------------------------------------------
(* The inductive invariant *)

Symbol(v, n) ==
  [start : 1 .. n, size : 0 .. n, prev : {-1} \cup 1 .. n, next : {-1} \cup 1 .. n,
   id : {-1} \cup Ids(v)]

(* The symbols that were not merged away lie side by side over the whole   *)
(* word, and each has the next one and the one before it as neighbours.    *)
Linked(table, n) ==
  /\ table[1].size # 0
  /\ \A k \in 1 .. n : table[k].next = -1 \/ table[k].next > k
  /\ \A k \in 1 .. n : table[k].size # 0 =>
       /\ table[k].start = k
       /\ k + table[k].size <= n + 1
       /\ table[k].next = IF k + table[k].size = n + 1 THEN -1 ELSE k + table[k].size
       /\ table[k].next # -1 =>
            table[table[k].next].size # 0 /\ table[table[k].next].prev = k
       /\ table[k].prev = -1 <=> k = 1
       /\ table[k].prev # -1 =>
            table[table[k].prev].size # 0 /\ table[table[k].prev].next = k

(* A symbol has the token of the characters that it spans, or it is one    *)
(* character that has no token.                                            *)
Named(v, w, table) ==
  \A k \in 1 .. Len(w) : table[k].size # 0 =>
    IF table[k].id = -1
    THEN table[k].size = 1 /\ Unit(v, w[k]) = {} /\ v.byte_fallback
    ELSE table[k].id \in v.hash /\ v.piece[table[k].id] = SubSeq(w, k, k + table[k].size - 1)

(* What a candidate says of the word; it may be out of date.               *)
Candidate(v, w, table) ==
  {c \in [priority : Int, left_chars : 1 .. Len(w), right_chars : 1 .. Len(w),
          left : 1 .. Len(w), right : 1 .. Len(w), size : 1 .. 2 * Len(w), id : v.hash] :
     /\ c.right = c.left + c.left_chars
     /\ c.size = c.left_chars + c.right_chars
     /\ v.piece[c.id] = SubSeq(w, c.left, c.left + c.size - 1)
     /\ c.priority \in Priority(v, c.id, c.left_chars)
     /\ table[c.left].id # -1 /\ table[c.right].id # -1}

(* No pair of neighbours that may be merged is missing from the queue.     *)
Complete(v, w, table, queue) ==
  \A k \in 1 .. Len(w) :
    table[k].size # 0 => MakeCandidate(v, w, table, k, table[k].next) \subseteq queue

(* The symbols of a word while it is merged.                               *)
Sound(v, w, table) ==
  /\ w # <<>>
  /\ table \in [1 .. Len(w) -> Symbol(v, Len(w))]
  /\ Linked(table, Len(w))
  /\ Named(v, w, table)

(* The symbols and the heap.                                               *)
Merging(v, w, table, queue) ==
  /\ Sound(v, w, table)
  /\ queue \subseteq Candidate(v, w, table) /\ IsFiniteSet(queue)
  /\ Complete(v, w, table, queue)

(* Tokens without one that Decode leaves out stand for s: their last bytes *)
(* are whole characters that are not flushed yet.                          *)
Bytes(s) == FlattenSeq([k \in 1 .. Len(s) |-> Utf8[s[k]]])

Restores(v, tokens, s) ==
  /\ Partial(v, tokens).text \in Seq(Character)
  /\ \E rest \in Seq(DOMAIN Utf8) :
       /\ Partial(v, tokens).run = Bytes(rest)
       /\ Partial(v, tokens).text \o rest = s

NoSpecial(v, tokens) == \A k \in 1 .. Len(tokens) : v.kind[tokens[k]] # "special"

(* How far the text is encoded. *)
Encoded == IF pc \in {"appending", "returned"} THEN i - 1 ELSE begin - 1

TypeInv ==
  /\ vocab \in Vocabularies
  /\ text \in Seq(Character)
  /\ pc \in {"scanning", "splitting", "merging", "appending", "returned"}
  /\ i \in 1 .. Len(text) + 1
  /\ begin \in 1 .. i
  /\ length \in Nat
  /\ word \in Seq(Character)
  /\ ids \in Seq(Ids(vocab))
  /\ code \in {"ok", "invalid_input"}

(* The segment at hand, and the added token that ends it. *)
SegmentInv ==
  /\ pc \in {"splitting", "merging"} =>
       begin < i /\ word = Normalized(SubSeq(text, begin, i - 1))
  /\ pc \in {"splitting", "merging", "appending"} =>
       IF i > Len(text) THEN length = 0
       ELSE /\ Matches(vocab, text, i) # {}
            /\ length = Len(vocab.piece[MatchAddedToken(vocab, text, i)])
  /\ pc = "returned" /\ code = "ok" => i > Len(text)
  /\ pc # "returned" => code = "ok"

MergeInv == pc = "merging" => Merging(vocab, word, symbols, heap)

RestoreInv ==
  code = "ok" /\ SpacesAreDistinct /\ NoSpecial(vocab, ids) =>
    Restores(vocab, ids, SubSeq(text, 1, Encoded))

IInv == TypeInv /\ SegmentInv /\ MergeInv /\ RestoreInv

-----------------------------------------------------------------------------
(* Induction, as sets of numbers *)

(* A set of numbers that is not empty has a least one. *)
LEMMA LeastNumber ==
  ASSUME NEW S \in SUBSET Nat, S # {}
  PROVE  \E m \in S : \A k \in S : m <= k
<1> DEFINE R == OpToRel(<, Nat)
<1>1. IsWellFoundedOn(R, Nat)
  BY NatLessThanWellFounded
<1>2. \A m, k \in Nat : <<m, k>> \in R <=> m < k
  BY DEF OpToRel
<1> HIDE DEF R
<1>3. PICK m \in S : \A k \in S : <<k, m>> \notin R
  BY <1>1, WFMin, Zenon
<1>4. \A k \in S : ~(k < m)
  BY <1>2, <1>3
<1>5. \A k \in S : m <= k
  BY <1>4
<1> QED BY <1>5

(* A set with 0, and with n + 1 whenever it has n, has every number. *)
LEMMA InductionOnNumbers ==
  ASSUME NEW S, 0 \in S, \A n \in Nat : n \in S => n + 1 \in S
  PROVE  \A n \in Nat : n \in S
<1> DEFINE T == Nat \ S
<1> SUFFICES ASSUME T # {} PROVE FALSE
  OBVIOUS
<1>1. PICK m \in T : \A k \in T : m <= k
  BY LeastNumber
<1>2. m # 0 /\ m - 1 \in Nat /\ m - 1 \notin T
  BY <1>1
<1> QED BY <1>2

-----------------------------------------------------------------------------
(* Sequences that are flattened *)

(* The function FlattenSeq computes, from its first element on.            *)
Flat(ls) == CHOOSE f : f = [j \in 1 .. Len(ls) |->
                              IF j = 1 THEN ls[j] ELSE f[j - 1] \o ls[j]]

(* FlattenSeq takes the last value of Flat. *)
LEMMA FlattenIsFlat ==
  ASSUME NEW ls, Len(ls) # 0
  PROVE  FlattenSeq(ls) = Flat(ls)[Len(ls)]
BY DEF FlattenSeq, Flat

(* Flat satisfies its equation: the function exists for every sequence. *)
LEMMA FlatIsDefined ==
  ASSUME NEW T, NEW ls \in Seq(T)
  PROVE  Flat(ls) = [j \in 1 .. Len(ls) |->
                       IF j = 1 THEN ls[j] ELSE Flat(ls)[j - 1] \o ls[j]]
<1> DEFINE Step(f, j) == IF j = 1 THEN ls[j] ELSE f[j - 1] \o ls[j]
           S == {n \in Nat : \E f : f = [j \in 1 .. n |-> Step(f, j)]}
<1>1. 0 \in S
  <2>1. \A f : [j \in 1 .. 0 |-> Step(f, j)] = <<>>
    OBVIOUS
  <2> HIDE DEF Step
  <2>2. <<>> = [j \in 1 .. 0 |-> Step(<<>>, j)]
    BY <2>1
  <2> QED BY <2>2
<1>2. ASSUME NEW n \in Nat, n \in S
      PROVE  n + 1 \in S
  <2>1. PICK f : f = [j \in 1 .. n |-> Step(f, j)]
    BY <1>2
  <2> DEFINE e == [j \in 1 .. n |-> Step(f, j)]
  <2>a. f = e
    BY <2>1
  <2> DEFINE g == [j \in 1 .. n + 1 |-> IF j <= n THEN f[j] ELSE Step(f, j)]
  <2>2. \A j \in 1 .. n + 1 : g[j] = Step(g, j)
    <3>1. \A j \in 1 .. n : g[j] = f[j] /\ f[j] = Step(f, j)
      <4> HIDE DEF Step
      <4>1. \A j \in 1 .. n : e[j] = Step(f, j)
        OBVIOUS
      <4>2. \A j \in 1 .. n : g[j] = f[j]
        OBVIOUS
      <4> HIDE DEF e, g
      <4> QED BY <2>a, <4>1, <4>2
    <3>2. \A j \in 1 .. n + 1 : j # 1 => j - 1 \in 1 .. n
      OBVIOUS
    <3>3. \A j \in 1 .. n + 1 : g[j] = Step(f, j)
      <4> HIDE DEF Step
      <4>1. \A j \in 1 .. n + 1 : g[j] = IF j <= n THEN f[j] ELSE Step(f, j)
        OBVIOUS
      <4> HIDE DEF e, g
      <4> QED BY <3>1, <4>1
    <3>4. \A j \in 1 .. n + 1 : Step(g, j) = Step(f, j)
      BY <3>1, <3>2
    <3> QED BY <3>3, <3>4
  <2>3. g = [j \in 1 .. n + 1 |-> Step(g, j)]
    <3>1. g = [j \in 1 .. n + 1 |-> g[j]]
      OBVIOUS
    <3> HIDE DEF g, Step
    <3> QED BY <2>2, <3>1
  <2>4. \E h : h = [j \in 1 .. n + 1 |-> Step(h, j)]
    <3> HIDE DEF g, Step
    <3> QED BY <2>3, Zenon
  <2> HIDE DEF Step
  <2> QED BY <2>4
<1> HIDE DEF S
<1>3. Len(ls) \in S
  BY <1>1, <1>2, InductionOnNumbers, LenProperties
<1>4. \E f : f = [j \in 1 .. Len(ls) |-> Step(f, j)]
  BY <1>3 DEF S
<1> QED BY <1>4 DEF Flat

(* Flattening one piece more appends that piece. *)
LEMMA FlattenAppend ==
  ASSUME NEW S, NEW ls \in Seq(Seq(S)), NEW l \in Seq(S)
  PROVE  /\ FlattenSeq(ls) \in Seq(S)
         /\ FlattenSeq(Append(ls, l)) = FlattenSeq(ls) \o l
<1> DEFINE n == Len(ls)
           f == Flat(ls)
           more == Append(ls, l)
           g == Flat(more)
<1>1. n \in Nat /\ \A j \in 1 .. n : ls[j] \in Seq(S)
  BY LenProperties, ElementOfSeq
<1>2. /\ more \in Seq(Seq(S)) /\ Len(more) = n + 1 /\ more[n + 1] = l
      /\ \A j \in 1 .. n : more[j] = ls[j]
  BY AppendProperties
<1>3. \A j \in 1 .. n : f[j] = IF j = 1 THEN ls[j] ELSE f[j - 1] \o ls[j]
  <2> DEFINE e == [j \in 1 .. n |-> IF j = 1 THEN ls[j] ELSE f[j - 1] \o ls[j]]
  <2>1. f = e
    BY FlatIsDefined
  <2> HIDE DEF f
  <2>2. \A j \in 1 .. n : e[j] = IF j = 1 THEN ls[j] ELSE f[j - 1] \o ls[j]
    OBVIOUS
  <2> HIDE DEF e
  <2> QED BY <2>1, <2>2
<1>4. \A j \in 1 .. n + 1 : g[j] = IF j = 1 THEN more[j] ELSE g[j - 1] \o more[j]
  <2>1. g = [j \in 1 .. Len(more) |-> IF j = 1 THEN more[j] ELSE g[j - 1] \o more[j]]
    BY <1>2, FlatIsDefined
  <2> QED BY <1>2, <2>1
<1> DEFINE Good == {j \in Nat : j \in 1 .. n => f[j] \in Seq(S) /\ g[j] = f[j]}
<1> HIDE DEF n, f, more, g
<1>5. 0 \in Good
  OBVIOUS
<1>6. ASSUME NEW j \in Nat, j \in Good
      PROVE  j + 1 \in Good
  <2> SUFFICES ASSUME j + 1 \in 1 .. n
               PROVE  f[j + 1] \in Seq(S) /\ g[j + 1] = f[j + 1]
    OBVIOUS
  <2>1. j + 1 \in 1 .. n + 1 /\ more[j + 1] = ls[j + 1] /\ ls[j + 1] \in Seq(S)
    BY <1>1, <1>2
  <2>2. CASE j = 0
    BY <1>3, <1>4, <2>1, <2>2
  <2>3. CASE j # 0
    <3>1. j \in 1 .. n /\ f[j] \in Seq(S) /\ g[j] = f[j]
      BY <1>1, <1>6, <2>3
    <3>2. PICK k : k = j + 1
      OBVIOUS
    <3>3. k \in 1 .. n /\ k \in 1 .. n + 1 /\ k # 1 /\ k - 1 = j
      BY <1>1, <2>3, <3>2
    <3>4. f[k] = f[k - 1] \o ls[k] /\ g[k] = g[k - 1] \o more[k]
      BY <1>3, <1>4, <3>3, Zenon
    <3>5. f[j + 1] = f[j] \o ls[j + 1] /\ g[j + 1] = g[j] \o more[j + 1]
      BY <3>2, <3>3, <3>4, Zenon
    <3> QED BY <2>1, <3>1, <3>5, ConcatProperties
  <2> QED BY <2>2, <2>3
<1>7. \A j \in 1 .. n : f[j] \in Seq(S) /\ g[j] = f[j]
  <2> HIDE DEF Good
  <2>1. \A j \in Nat : j \in Good
    BY <1>5, <1>6, InductionOnNumbers
  <2> QED BY <1>1, <2>1 DEF Good
<1>8. FlattenSeq(more) = g[n + 1]
  BY <1>1, <1>2, FlattenIsFlat DEF g
<1>9. CASE n = 0
  <2>1. ls = <<>>
    BY <1>9, EmptySeq DEF n
  <2>2. FlattenSeq(ls) = <<>>
    BY <2>1 DEF FlattenSeq
  <2>3. g[1] = l
    BY <1>2, <1>4, <1>9
  <2> QED BY <1>8, <1>9, <2>2, <2>3, ConcatEmptySeq DEF more
<1>10. CASE n # 0
  <2>1. n \in 1 .. n /\ n + 1 \in 1 .. n + 1 /\ n + 1 # 1 /\ n + 1 - 1 = n
    BY <1>1, <1>10
  <2>2. FlattenSeq(ls) = f[n]
    BY <1>10, FlattenIsFlat DEF n, f
  <2>3. g[n + 1] = g[n] \o l
    <3>1. PICK k : k = n + 1
      OBVIOUS
    <3>2. k \in 1 .. n + 1 /\ k # 1 /\ k - 1 = n
      BY <2>1, <3>1
    <3>3. g[k] = g[k - 1] \o more[k]
      BY <1>4, <3>2, Zenon
    <3> QED BY <1>2, <3>1, <3>2, <3>3, Zenon
  <2> QED BY <1>7, <1>8, <2>1, <2>2, <2>3 DEF more
<1> QED BY <1>9, <1>10

-----------------------------------------------------------------------------
(* Parts of sequences *)

(* The part of a sequence that has only its element at k. *)
LEMMA OneElement ==
  ASSUME NEW S, NEW s \in Seq(S), NEW k \in 1 .. Len(s)
  PROVE  SubSeq(s, k, k) = <<s[k]>>
<1>1. k \in Nat /\ k \in 1 .. Len(s) + 1 /\ Len(s) \in Nat
  BY LenProperties
<1>2. SubSeq(s, k, k) \in Seq(S) /\ Len(SubSeq(s, k, k)) = 1 /\ SubSeq(s, k, k)[1] = s[k]
  BY <1>1, SubSeqProperties
<1>3. /\ s[k] \in S /\ <<s[k]>> \in Seq(S) /\ Len(<<s[k]>>) = 1 /\ <<s[k]>>[1] = s[k]
      /\ \A j \in 1 .. 1 : j = 1
  BY ElementOfSeq
<1> QED BY <1>2, <1>3, SeqEqual

-----------------------------------------------------------------------------
(* The highest candidate *)

(* Candidates, as far as their order goes. *)
Key == {c \in [priority : Int, left_chars : Int, right_chars : Int, left : Int,
               right : Int, size : Int, id : Int] :
          c.right = c.left + c.left_chars /\ c.size = c.left_chars + c.right_chars}

(* Higher orders any two candidates, the symbols of which touch. *)
LEMMA HigherIsTotal ==
  ASSUME NEW a \in Key, NEW b \in Key, a # b
  PROVE  Higher(a, b) \/ Higher(b, a)
<1>1. SUFFICES ASSUME /\ a.priority = b.priority /\ a.left_chars = b.left_chars
                      /\ a.right_chars = b.right_chars /\ a.id = b.id /\ a.left = b.left
               PROVE  FALSE
  BY DEF Higher, Key
<1>2. a.right = b.right /\ a.size = b.size
  BY <1>1 DEF Key
<1> QED BY <1>1, <1>2 DEF Key

(* The order goes on from one candidate to the next. *)
LEMMA HigherIsTransitive ==
  ASSUME NEW a \in Key, NEW b \in Key, NEW c \in Key, Higher(a, b), Higher(b, c)
  PROVE  Higher(a, c)
BY DEF Key, Higher

(* A finite set of candidates has a highest one, by induction on its size. *)
LEMMA HighestExists ==
  ASSUME NEW queue \in SUBSET Key, IsFiniteSet(queue), queue # {}
  PROVE  \E c \in queue : \A other \in queue \ {c} : Higher(c, other)
<1> DEFINE HasTop(q) == \E c \in q : \A other \in q \ {c} : Higher(c, other)
           S == {m \in Nat : \A q \in SUBSET Key :
                   IsFiniteSet(q) /\ Cardinality(q) = m /\ q # {} => HasTop(q)}
<1> HIDE DEF HasTop
<1>1. 0 \in S
  BY FS_EmptySet
<1>2. ASSUME NEW m \in Nat, m \in S PROVE m + 1 \in S
  <2> SUFFICES ASSUME NEW q \in SUBSET Key, IsFiniteSet(q), Cardinality(q) = m + 1,
                      q # {}
               PROVE  HasTop(q)
    OBVIOUS
  <2>1. PICK x \in q : TRUE
    OBVIOUS
  <2> DEFINE r == q \ {x}
  <2>2. IsFiniteSet(r) /\ Cardinality(r) = m /\ r \subseteq Key
    <3>1. IsFiniteSet(r) /\ Cardinality(r) = Cardinality(q) - 1
      BY <2>1, FS_RemoveElement
    <3> QED BY <3>1
  <2>3. CASE r = {}
    BY <2>1, <2>3 DEF HasTop
  <2>4. CASE r # {}
    <3> HIDE DEF r
    <3>a. HasTop(r)
      BY <1>2, <2>2, <2>4
    <3>1. PICK c \in r : \A other \in r \ {c} : Higher(c, other)
      BY <3>a DEF HasTop
    <3> USE DEF r
    <3>2. c \in Key /\ x \in Key /\ c # x
      BY <2>1
    <3>3. CASE Higher(c, x)
      BY <2>1, <3>1, <3>3 DEF HasTop
    <3>4. CASE Higher(x, c)
      <4>1. \A other \in q \ {x} : Higher(x, other)
        BY <3>1, <3>2, <3>4, HigherIsTransitive
      <4> QED BY <2>1, <4>1 DEF HasTop
    <3> QED BY <3>2, <3>3, <3>4, HigherIsTotal
  <2> QED BY <2>3, <2>4
<1> HIDE DEF S
<1>3. \A m \in Nat : m \in S
  BY <1>1, <1>2, InductionOnNumbers
<1>4. Cardinality(queue) \in S
  BY <1>3, FS_CardinalityType
<1> QED BY <1>4 DEF S, HasTop

(* Top is that candidate. *)
LEMMA TopIsHighest ==
  ASSUME NEW queue \in SUBSET Key, IsFiniteSet(queue), queue # {}
  PROVE  /\ Top(queue) \in queue
         /\ \A other \in queue \ {Top(queue)} : Higher(Top(queue), other)
BY HighestExists DEF Top

-----------------------------------------------------------------------------
(* Candidates *)

(* A tokenizer's ids are positive numbers. *)
LEMMA IdsAreNumbers ==
  ASSUME NEW v \in Vocabularies
  PROVE  Ids(v) \subseteq Nat \ {0} /\ v.hash \subseteq Ids(v) /\ v.added \subseteq Ids(v)
<1>1. v.piece \in Seq(Seq(Character \cup Byte) \ {<<>>})
  BY TokenizerAssumption DEF WellFormed
<1>2. Ids(v) = 1 .. Len(v.piece) /\ Len(v.piece) \in Nat
  BY <1>1, LenProperties DEF Ids
<1>3. v.hash \cup v.added \subseteq Ids(v)
  BY TokenizerAssumption DEF WellFormed
<1> QED BY <1>2, <1>3

(* Candidates can be compared. *)
LEMMA CandidatesAreKeys ==
  ASSUME NEW v \in Vocabularies, NEW w \in Seq(Character), NEW table
  PROVE  Candidate(v, w, table) \subseteq Key
BY IdsAreNumbers, LenProperties, SMTT(40) DEF Candidate, Key

(* A token has a number as priority, and at most one for each left symbol. *)
LEMMA PriorityIsUnique ==
  ASSUME NEW v \in Vocabularies, NEW id \in Ids(v), NEW left_chars
  PROVE  /\ Priority(v, id, left_chars) \subseteq Int
         /\ \A p, q \in Priority(v, id, left_chars) : p = q
<1>1. v.score[id] \in Int /\ MaxRank \in Nat
  BY TokenizerAssumption DEF WellFormed
<1>2. \A r \in v.rules : r.rank \in Int
  BY TokenizerAssumption DEF WellFormed
<1>3. \A r, s \in v.rules : r.id = s.id /\ r.left = s.left => r = s
  BY TokenizerAssumption DEF WellFormed
<1> QED BY <1>1, <1>2, <1>3 DEF Priority

(* What a pair of symbols may be merged to. *)
LEMMA MadeCandidate ==
  ASSUME NEW v, NEW w, NEW table, NEW left, NEW right,
         NEW c \in MakeCandidate(v, w, table, left, right)
  PROVE  /\ left # -1 /\ right # -1 /\ table[left].id # -1 /\ table[right].id # -1
         /\ c.id \in v.hash
         /\ v.piece[c.id] = SubSeq(w, table[left].start,
              table[left].start + table[left].size + table[right].size - 1)
         /\ c.priority \in Priority(v, c.id, table[left].size)
         /\ c = [priority |-> c.priority, left_chars |-> table[left].size,
                 right_chars |-> table[right].size, left |-> left, right |-> right,
                 size |-> table[left].size + table[right].size, id |-> c.id]
<1>1. left # -1 /\ right # -1 /\ table[left].id # -1 /\ table[right].id # -1
  BY DEF MakeCandidate
<1>2. PICK id \in Lookup(v, SubSeq(w, table[left].start,
             table[left].start + table[left].size + table[right].size - 1)) :
        \E p \in Priority(v, id, table[left].size) :
          c = [priority |-> p, left_chars |-> table[left].size,
               right_chars |-> table[right].size, left |-> left, right |-> right,
               size |-> table[left].size + table[right].size, id |-> id]
  BY <1>1 DEF MakeCandidate
<1>3. PICK p \in Priority(v, id, table[left].size) :
        c = [priority |-> p, left_chars |-> table[left].size,
             right_chars |-> table[right].size, left |-> left, right |-> right,
             size |-> table[left].size + table[right].size, id |-> id]
  BY <1>2
<1>4. c.id = id /\ c.priority = p
  BY <1>3
<1> QED BY <1>1, <1>2, <1>3, <1>4 DEF Lookup

(* A token in the vocabulary's hash for what two symbols span makes one. *)
LEMMA CandidateIsMade ==
  ASSUME NEW v, NEW w, NEW table, NEW left, NEW right, NEW id \in v.hash,
         left # -1, right # -1, table[left].id # -1, table[right].id # -1,
         v.piece[id] = SubSeq(w, table[left].start,
           table[left].start + table[left].size + table[right].size - 1),
         NEW p \in Priority(v, id, table[left].size)
  PROVE  [priority |-> p, left_chars |-> table[left].size,
          right_chars |-> table[right].size, left |-> left, right |-> right,
          size |-> table[left].size + table[right].size, id |-> id]
           \in MakeCandidate(v, w, table, left, right)
BY DEF MakeCandidate, Lookup

(* A pair of symbols has one candidate at most: MakeCandidate looks the    *)
(* token up in a hash without duplicates, and its rule by the left symbol. *)
LEMMA OneCandidate ==
  ASSUME NEW v \in Vocabularies, NEW w, NEW table, NEW left, NEW right
  PROVE  /\ \A c, d \in MakeCandidate(v, w, table, left, right) : c = d
         /\ IsFiniteSet(MakeCandidate(v, w, table, left, right))
<1> DEFINE made == MakeCandidate(v, w, table, left, right)
<1>1. ASSUME NEW c \in made, NEW d \in made PROVE c = d
  <2>1. \A id, other \in v.hash : v.piece[id] = v.piece[other] => id = other
    BY TokenizerAssumption DEF WellFormed
  <2> DEFINE string == SubSeq(w, table[left].start,
                         table[left].start + table[left].size + table[right].size - 1)
             At(e) == [priority |-> e.priority, left_chars |-> table[left].size,
                       right_chars |-> table[right].size, left |-> left, right |-> right,
                       size |-> table[left].size + table[right].size, id |-> e.id]
  <2>a. \A e \in made : e.id \in v.hash /\ v.piece[e.id] = string /\ e = At(e)
    BY MadeCandidate
  <2> HIDE DEF string
  <2>2. c.id \in v.hash /\ d.id \in v.hash /\ v.piece[c.id] = v.piece[d.id]
    BY <1>1, <2>a
  <2>3. c.id = d.id
    BY <2>1, <2>2
  <2>4. c.id \in Ids(v)
    BY <2>2, IdsAreNumbers
  <2>5. /\ c.priority \in Priority(v, c.id, table[left].size)
        /\ d.priority \in Priority(v, c.id, table[left].size)
    BY <1>1, <2>3, MadeCandidate
  <2>6. c.priority = d.priority
    BY <2>4, <2>5, PriorityIsUnique
  <2>7. At(c) = At(d)
    BY <2>3, <2>6
  <2> HIDE DEF At
  <2> QED BY <1>1, <2>7, <2>a
<1>2. IsFiniteSet(made)
  <2> HIDE DEF made
  <2>1. CASE made = {}
    BY <2>1, FS_EmptySet
  <2>2. CASE made # {}
    <3>1. PICK c : made = {c}
      BY <1>1, <2>2
    <3> QED BY <3>1, FS_Singleton
  <2> QED BY <2>1, <2>2
<1> QED BY <1>1, <1>2

(* What the symbols of a word are made of. *)
LEMMA SymbolFields ==
  ASSUME NEW v \in Vocabularies, NEW w \in Seq(Character), NEW table, Sound(v, w, table)
  PROVE  /\ Len(w) \in Nat \ {0}
         /\ DOMAIN table = 1 .. Len(w)
         /\ \A k \in 1 .. Len(w) :
              /\ table[k].start \in 1 .. Len(w) /\ table[k].size \in 0 .. Len(w)
              /\ table[k].prev \in {-1} \cup 1 .. Len(w)
              /\ table[k].next \in {-1} \cup 1 .. Len(w)
              /\ table[k].id \in {-1} \cup Ids(v)
<1>1. Len(w) \in Nat \ {0}
  BY LenProperties, EmptySeq DEF Sound
<1>2. table \in [1 .. Len(w) -> Symbol(v, Len(w))]
  BY DEF Sound
<1>3. \A k \in 1 .. Len(w) : table[k] \in Symbol(v, Len(w))
  BY <1>2
<1> QED BY <1>1, <1>2, <1>3 DEF Symbol

(* The candidate of two neighbours says what is so, and is not stale. *)
LEMMA NeighbourCandidate ==
  ASSUME NEW v \in Vocabularies, NEW w \in Seq(Character), NEW table, Sound(v, w, table),
         NEW k \in 1 .. Len(w), table[k].size # 0,
         NEW c \in MakeCandidate(v, w, table, k, table[k].next)
  PROVE  /\ c \in Candidate(v, w, table) /\ ~Stale(table, c)
         /\ c.left = k /\ c.right = table[k].next
<1> DEFINE n == Len(w)
           next == table[k].next
<1>1. /\ next # -1 /\ table[k].id # -1 /\ table[next].id # -1 /\ c.id \in v.hash
      /\ v.piece[c.id] = SubSeq(w, table[k].start,
           table[k].start + table[k].size + table[next].size - 1)
      /\ c.priority \in Priority(v, c.id, table[k].size)
  BY MadeCandidate
<1>2. c = [priority |-> c.priority, left_chars |-> table[k].size,
           right_chars |-> table[next].size, left |-> k, right |-> next,
           size |-> table[k].size + table[next].size, id |-> c.id]
  BY MadeCandidate
<1>3. /\ c.left_chars = table[k].size /\ c.right_chars = table[next].size
      /\ c.left = k /\ c.right = next /\ c.size = table[k].size + table[next].size
  <2> HIDE DEF next
  <2> DEFINE e(p, id) == [priority |-> p, left_chars |-> table[k].size,
           right_chars |-> table[next].size, left |-> k, right |-> next,
           size |-> table[k].size + table[next].size, id |-> id]
  <2>1. \A p, id : /\ e(p, id).left_chars = table[k].size
                   /\ e(p, id).right_chars = table[next].size
                   /\ e(p, id).left = k /\ e(p, id).right = next
                   /\ e(p, id).size = table[k].size + table[next].size
    OBVIOUS
  <2>2. \E p, id : c = e(p, id)
    BY <1>2
  <2> HIDE DEF e
  <2> QED BY <2>1, <2>2
<1>4. /\ n \in Nat \ {0} /\ next \in 1 .. n
      /\ table[k].size \in 1 .. n /\ table[next].size \in 0 .. n
  BY <1>1, SymbolFields
<1>5. /\ table[k].start = k /\ next = k + table[k].size
      /\ table[next].size # 0 /\ next + table[next].size <= n + 1
  BY <1>1, <1>4 DEF Sound, Linked
<1>6. c.priority \in Int
  <2>1. c.id \in Ids(v)
    BY <1>1, IdsAreNumbers
  <2> QED BY <1>1, <2>1, PriorityIsUnique
<1> HIDE DEF n, next
<1>7. PICK a \in 1 .. n, b \in 1 .. n : a = table[k].size /\ b = table[next].size
  BY <1>4, <1>5, SMTT(40)
<1>8. c \in [priority : Int, left_chars : 1 .. n, right_chars : 1 .. n,
             left : 1 .. n, right : 1 .. n, size : 1 .. 2 * n, id : v.hash]
  <2>1. a + b \in 1 .. 2 * n /\ k \in 1 .. n
    BY <1>4, <1>7 DEF n
  <2>2. c = [priority |-> c.priority, left_chars |-> a, right_chars |-> b, left |-> k,
             right |-> next, size |-> a + b, id |-> c.id]
    BY <1>2, <1>7 DEF next
  <2>3. [priority |-> c.priority, left_chars |-> a, right_chars |-> b, left |-> k,
         right |-> next, size |-> a + b, id |-> c.id]
          \in [priority : Int, left_chars : 1 .. n, right_chars : 1 .. n,
               left : 1 .. n, right : 1 .. n, size : 1 .. 2 * n, id : v.hash]
    BY <1>1, <1>4, <1>6, <2>1
  <2> QED BY <2>2, <2>3, Zenon
<1>9. c \in Candidate(v, w, table)
  <2>1. /\ c.right = c.left + c.left_chars /\ c.size = c.left_chars + c.right_chars
        /\ table[c.left].id # -1 /\ table[c.right].id # -1
        /\ c.priority \in Priority(v, c.id, c.left_chars)
    BY <1>1, <1>3, <1>5
  <2>2. v.piece[c.id] = SubSeq(w, c.left, c.left + c.size - 1)
    <3>1. k + (a + b) - 1 = k + a + b - 1
      BY <1>4 DEF n
    <3> QED BY <1>1, <1>3, <1>5, <1>7, <3>1
  <2> QED BY <1>8, <2>1, <2>2 DEF Candidate, n
<1>10. ~Stale(table, c)
  BY <1>3, <1>4, <1>5 DEF Stale, next
<1> QED BY <1>3, <1>9, <1>10 DEF next

(* A candidate that is not stale is that of two neighbours: sizes are      *)
(* compared, and so the token fits although either symbol may have grown.  *)
LEMMA FreshCandidate ==
  ASSUME NEW v \in Vocabularies, NEW w \in Seq(Character), NEW table, Sound(v, w, table),
         NEW c \in Candidate(v, w, table), ~Stale(table, c)
  PROVE  /\ c.left \in 1 .. Len(w) /\ table[c.left].size # 0
         /\ c.right \in 1 .. Len(w) /\ table[c.right].size # 0
         /\ table[c.left].next = c.right
         /\ c.size = table[c.left].size + table[c.right].size
         /\ c \in MakeCandidate(v, w, table, c.left, c.right)
<1> DEFINE n == Len(w)
           l == c.left
           r == c.right
<1>1. /\ c \in [priority : Int, left_chars : 1 .. n, right_chars : 1 .. n,
                left : 1 .. n, right : 1 .. n, size : 1 .. 2 * n, id : v.hash]
      /\ r = l + c.left_chars /\ c.size = c.left_chars + c.right_chars
      /\ v.piece[c.id] = SubSeq(w, l, l + c.size - 1)
      /\ c.priority \in Priority(v, c.id, c.left_chars)
      /\ table[l].id # -1 /\ table[r].id # -1
  BY DEF Candidate
<1>2. /\ table[l].size # 0 /\ table[r].size # 0 /\ table[l].next = r
      /\ table[l].size + table[r].size = c.size
  BY DEF Stale
<1> HIDE DEF n, l, r
<1>3. n \in Nat /\ l \in 1 .. n /\ r \in 1 .. n
  BY <1>1, SymbolFields DEF n, l, r
<1>a. PICK a \in Nat, b \in Nat : a = table[l].size /\ b = table[r].size
  BY <1>3, SymbolFields DEF n
<1>4. table[l].start = l /\ r = l + table[l].size
  BY <1>2, <1>3 DEF Sound, Linked, n
<1>5. table[l].size = c.left_chars /\ table[r].size = c.right_chars
  <2>1. PICK d \in Int, e \in Int : d = c.left_chars /\ e = c.right_chars
    BY <1>1, <1>3
  <2>2. l + a = l + d /\ a + b = d + e
    BY <1>1, <1>2, <1>4, <1>a, <2>1
  <2>3. a = d /\ b = e
    BY <1>3, <2>2
  <2> QED BY <1>a, <2>1, <2>3
<1>6. c = [priority |-> c.priority, left_chars |-> table[l].size,
           right_chars |-> table[r].size, left |-> l, right |-> r,
           size |-> table[l].size + table[r].size, id |-> c.id]
  BY <1>1, <1>2, <1>5 DEF l, r
<1>7. c.id \in v.hash /\ l # -1 /\ r # -1
  BY <1>1, <1>3, SMTT(40)
<1>8. v.piece[c.id] = SubSeq(w, table[l].start,
                             table[l].start + table[l].size + table[r].size - 1)
  <2>1. l + (a + b) - 1 = l + a + b - 1
    BY <1>3
  <2> QED BY <1>1, <1>2, <1>4, <1>a, <2>1
<1>9. c.priority \in Priority(v, c.id, table[l].size)
  BY <1>1, <1>5
<1>10. c \in MakeCandidate(v, w, table, l, r)
  <2>1. [priority |-> c.priority, left_chars |-> table[l].size,
         right_chars |-> table[r].size, left |-> l, right |-> r,
         size |-> table[l].size + table[r].size, id |-> c.id]
           \in MakeCandidate(v, w, table, l, r)
    BY <1>1, <1>7, <1>8, <1>9, CandidateIsMade
  <2> QED BY <1>6, <2>1
<1> QED BY <1>2, <1>3, <1>10 DEF n, l, r

-----------------------------------------------------------------------------
(* A merge *)

(* Setting one field of one symbol. *)
LEMMA SetSize ==
  ASSUME NEW v, NEW n \in Nat, NEW f \in [1 .. n -> Symbol(v, n)], NEW l \in 1 .. n,
         NEW x \in 0 .. n
  PROVE  /\ [f EXCEPT ![l].size = x] \in [1 .. n -> Symbol(v, n)]
         /\ \A k \in 1 .. n :
              LET s == [f EXCEPT ![l].size = x][k]
              IN  /\ s.size = IF k = l THEN x ELSE f[k].size
                  /\ s.start = f[k].start /\ s.prev = f[k].prev
                  /\ s.next = f[k].next /\ s.id = f[k].id
BY SMTT(40) DEF Symbol

(* Setting the id of one symbol. *)
LEMMA SetId ==
  ASSUME NEW v, NEW n \in Nat, NEW f \in [1 .. n -> Symbol(v, n)], NEW l \in 1 .. n,
         NEW x \in {-1} \cup Ids(v)
  PROVE  /\ [f EXCEPT ![l].id = x] \in [1 .. n -> Symbol(v, n)]
         /\ \A k \in 1 .. n :
              LET s == [f EXCEPT ![l].id = x][k]
              IN  /\ s.id = IF k = l THEN x ELSE f[k].id
                  /\ s.start = f[k].start /\ s.size = f[k].size
                  /\ s.prev = f[k].prev /\ s.next = f[k].next
BY DEF Symbol

(* Setting the link to the next one. *)
LEMMA SetNext ==
  ASSUME NEW v, NEW n \in Nat, NEW f \in [1 .. n -> Symbol(v, n)], NEW l \in 1 .. n,
         NEW x \in {-1} \cup 1 .. n
  PROVE  /\ [f EXCEPT ![l].next = x] \in [1 .. n -> Symbol(v, n)]
         /\ \A k \in 1 .. n :
              LET s == [f EXCEPT ![l].next = x][k]
              IN  /\ s.next = IF k = l THEN x ELSE f[k].next
                  /\ s.start = f[k].start /\ s.size = f[k].size
                  /\ s.prev = f[k].prev /\ s.id = f[k].id
BY DEF Symbol

(* Setting the link to the one before it. *)
LEMMA SetPrev ==
  ASSUME NEW v, NEW n \in Nat, NEW f \in [1 .. n -> Symbol(v, n)], NEW l \in 1 .. n,
         NEW x \in {-1} \cup 1 .. n
  PROVE  /\ [f EXCEPT ![l].prev = x] \in [1 .. n -> Symbol(v, n)]
         /\ \A k \in 1 .. n :
              LET s == [f EXCEPT ![l].prev = x][k]
              IN  /\ s.prev = IF k = l THEN x ELSE f[k].prev
                  /\ s.start = f[k].start /\ s.size = f[k].size
                  /\ s.next = f[k].next /\ s.id = f[k].id
BY DEF Symbol

(* What the fields of the symbols are after the candidate c is merged. *)
LEMMA MergedFields ==
  ASSUME NEW v \in Vocabularies, NEW w \in Seq(Character), NEW table, Sound(v, w, table),
         NEW c \in Candidate(v, w, table), ~Stale(table, c)
  PROVE  /\ Merged(table, c) \in [1 .. Len(w) -> Symbol(v, Len(w))]
         /\ \A k \in 1 .. Len(w) :
              LET s == Merged(table, c)[k]
              IN  /\ s.start = table[k].start
                  /\ s.size = IF k = c.left THEN c.size
                              ELSE IF k = c.right THEN 0 ELSE table[k].size
                  /\ s.id = IF k = c.left THEN c.id ELSE table[k].id
                  /\ s.next = IF k = c.left THEN table[c.right].next ELSE table[k].next
                  /\ s.prev = IF k = table[c.right].next THEN c.left ELSE table[k].prev
<1> DEFINE n == Len(w)
           l == c.left
           r == c.right
           next == table[r].next
           S == Symbol(v, n)
<1>1. n \in Nat /\ table \in [1 .. n -> S]
  BY LenProperties DEF Sound
<1>2. /\ l \in 1 .. n /\ r \in 1 .. n /\ table[l].next = r
      /\ table[l].size # 0 /\ table[r].size # 0
      /\ c.size = table[l].size + table[r].size
  BY FreshCandidate
<1>3. next \in {-1} \cup 1 .. n
  BY <1>2, SymbolFields
<1>4. c.id \in Ids(v)
  BY IdsAreNumbers DEF Candidate
<1>5. /\ r = l + table[l].size /\ r + table[r].size <= n + 1 /\ r > l /\ (next = -1 \/ next > r)
      /\ table[l].size \in Nat /\ table[r].size \in Nat
  <2>1. table[l].size \in Nat /\ table[r].size \in Nat
    BY <1>2, SymbolFields
  <2>2. r = l + table[l].size /\ r + table[r].size <= n + 1
    BY <1>1, <1>2 DEF Sound, Linked
  <2>3. table[l].next > l /\ (next = -1 \/ next > r)
    BY <1>1, <1>2 DEF Sound, Linked
  <2> QED BY <1>2, <2>1, <2>2, <2>3
<1> HIDE DEF n, l, r, next
<1>6. c.size \in 0 .. n
  <2>1. PICK a \in Nat, b \in Nat : a = table[l].size /\ b = table[r].size
    BY <1>5
  <2>2. l + a + b <= n + 1 /\ c.size = a + b
    BY <1>2, <1>5, <2>1
  <2>3. a + b \in 0 .. n
    BY <1>1, <1>2, <2>2
  <2> QED BY <2>2, <2>3
<1> DEFINE t1 == [table EXCEPT ![l].size = c.size]
           t2 == [t1 EXCEPT ![l].id = c.id]
           t3 == [t2 EXCEPT ![l].next = next]
           t4 == [t3 EXCEPT ![r].size = 0]
           t5 == [t4 EXCEPT ![next].prev = l]
<1>7. Merged(table, c) = IF next = -1 THEN t4 ELSE t5
  BY DEF Merged, l, r, next
<1> HIDE DEF t1, t2, t3, t4, t5
<1>8. /\ t1 \in [1 .. n -> S]
      /\ \A k \in 1 .. n :
           /\ t1[k].size = IF k = l THEN c.size ELSE table[k].size
           /\ t1[k].start = table[k].start /\ t1[k].prev = table[k].prev
           /\ t1[k].next = table[k].next /\ t1[k].id = table[k].id
  BY <1>1, <1>2, <1>6, SetSize, SMTT(40) DEF t1
<1>9. /\ t2 \in [1 .. n -> S]
      /\ \A k \in 1 .. n :
           /\ t2[k].id = IF k = l THEN c.id ELSE t1[k].id
           /\ t2[k].start = t1[k].start /\ t2[k].prev = t1[k].prev
           /\ t2[k].next = t1[k].next /\ t2[k].size = t1[k].size
  <2>1. n \in Nat /\ l \in 1 .. n /\ t1 \in [1 .. n -> Symbol(v, n)]
    BY <1>1, <1>2, <1>8
  <2>2. PICK x \in {-1} \cup Ids(v) : x = c.id
    BY <1>4
  <2>3. t2 = [t1 EXCEPT ![l].id = x]
    BY <2>2 DEF t2
  <2> HIDE DEF S
  <2>4. t2 \in [1 .. n -> Symbol(v, n)]
    BY <2>1, <2>3, SetId, Zenon
  <2>5. \A k \in 1 .. n :
          /\ t2[k].id = IF k = l THEN x ELSE t1[k].id
          /\ t2[k].start = t1[k].start /\ t2[k].prev = t1[k].prev
          /\ t2[k].next = t1[k].next /\ t2[k].size = t1[k].size
    BY <2>1, <2>3, SetId
  <2> QED BY <2>2, <2>4, <2>5 DEF S
<1>10. /\ t3 \in [1 .. n -> S]
       /\ \A k \in 1 .. n :
            /\ t3[k].next = IF k = l THEN next ELSE t2[k].next
            /\ t3[k].start = t2[k].start /\ t3[k].prev = t2[k].prev
            /\ t3[k].id = t2[k].id /\ t3[k].size = t2[k].size
  <2>1. n \in Nat /\ l \in 1 .. n /\ t2 \in [1 .. n -> Symbol(v, n)]
    BY <1>1, <1>2, <1>9
  <2>2. PICK x \in {-1} \cup 1 .. n : x = next
    BY <1>3
  <2>3. t3 = [t2 EXCEPT ![l].next = x]
    BY <2>2 DEF t3
  <2> HIDE DEF S
  <2>4. t3 \in [1 .. n -> Symbol(v, n)]
    BY <2>1, <2>3, SetNext, Zenon
  <2>5. \A k \in 1 .. n :
          /\ t3[k].next = IF k = l THEN x ELSE t2[k].next
          /\ t3[k].start = t2[k].start /\ t3[k].prev = t2[k].prev
          /\ t3[k].id = t2[k].id /\ t3[k].size = t2[k].size
    BY <2>1, <2>3, SetNext
  <2> QED BY <2>2, <2>4, <2>5 DEF S
<1>11. /\ t4 \in [1 .. n -> S]
       /\ \A k \in 1 .. n :
            /\ t4[k].size = IF k = r THEN 0 ELSE t3[k].size
            /\ t4[k].start = t3[k].start /\ t4[k].prev = t3[k].prev
            /\ t4[k].next = t3[k].next /\ t4[k].id = t3[k].id
  <2>1. n \in Nat /\ r \in 1 .. n /\ t3 \in [1 .. n -> Symbol(v, n)] /\ 0 \in 0 .. n
    BY <1>1, <1>2, <1>10
  <2> QED BY <2>1, SetSize DEF t4
<1>12. next # -1 =>
         /\ t5 \in [1 .. n -> S]
         /\ \A k \in 1 .. n :
              /\ t5[k].prev = IF k = next THEN l ELSE t4[k].prev
              /\ t5[k].start = t4[k].start /\ t5[k].next = t4[k].next
              /\ t5[k].id = t4[k].id /\ t5[k].size = t4[k].size
  <2>1. n \in Nat /\ t4 \in [1 .. n -> Symbol(v, n)]
    BY <1>1, <1>11
  <2>2. next # -1 => next \in 1 .. n /\ l \in {-1} \cup 1 .. n
    BY <1>2, <1>3
  <2> QED BY <2>1, <2>2, SetPrev, SMTT(40) DEF t5
<1>13. \A k \in 1 .. n :
         /\ t4[k].start = table[k].start
         /\ t4[k].size = IF k = l THEN c.size ELSE IF k = r THEN 0 ELSE table[k].size
         /\ t4[k].id = IF k = l THEN c.id ELSE table[k].id
         /\ t4[k].next = IF k = l THEN next ELSE table[k].next
         /\ t4[k].prev = table[k].prev
  <2>1. l # r
    BY <1>1, <1>2, <1>5
  <2> QED BY <1>8, <1>9, <1>10, <1>11, <2>1
<1>14. \A k \in 1 .. n : k # -1
  BY <1>1
<1> HIDE DEF S
<1>15. CASE next = -1
  BY <1>7, <1>11, <1>13, <1>14, <1>15 DEF n, l, r, next, S
<1>16. CASE next # -1
  BY <1>7, <1>12, <1>13, <1>16 DEF n, l, r, next, S
<1> QED BY <1>15, <1>16

(* The links of the list, field by field. *)
LEMMA Links ==
  ASSUME NEW v \in Vocabularies, NEW w \in Seq(Character), NEW table, Sound(v, w, table),
         NEW k \in 1 .. Len(w), table[k].size # 0
  PROVE  /\ table[k].start = k /\ table[k].size \in 1 .. Len(w)
         /\ k + table[k].size <= Len(w) + 1
         /\ table[k].next = IF k + table[k].size = Len(w) + 1 THEN -1
                            ELSE k + table[k].size
         /\ table[k].next # -1 => /\ table[k].next \in 1 .. Len(w) /\ table[k].next > k
                                  /\ table[table[k].next].size # 0
                                  /\ table[table[k].next].prev = k
         /\ table[k].prev = -1 <=> k = 1
         /\ table[k].prev # -1 => /\ table[k].prev \in 1 .. Len(w)
                                  /\ table[table[k].prev].size # 0
                                  /\ table[table[k].prev].next = k
<1>1. /\ Len(w) \in Nat /\ table[k].size \in 0 .. Len(w)
      /\ table[k].prev \in {-1} \cup 1 .. Len(w)
      /\ table[k].next \in {-1} \cup 1 .. Len(w)
  BY SymbolFields
<1> QED BY <1>1 DEF Sound, Linked

(* Merging keeps the symbols in order. *)
LEMMA MergedIsSound ==
  ASSUME NEW v \in Vocabularies, NEW w \in Seq(Character), NEW table, Sound(v, w, table),
         NEW c \in Candidate(v, w, table), ~Stale(table, c)
  PROVE  Sound(v, w, Merged(table, c))
<1> DEFINE n == Len(w)
           l == c.left
           r == c.right
           next == table[r].next
           m == Merged(table, c)
<1>1. /\ n \in Nat \ {0} /\ l \in 1 .. n /\ r \in 1 .. n /\ table[l].next = r
      /\ table[l].size # 0 /\ table[r].size # 0
      /\ c.size = table[l].size + table[r].size
  BY FreshCandidate, SymbolFields
<1>2. \A k \in 1 .. n :
        /\ m[k].start = table[k].start
        /\ m[k].size = IF k = l THEN c.size ELSE IF k = r THEN 0 ELSE table[k].size
        /\ m[k].id = IF k = l THEN c.id ELSE table[k].id
        /\ m[k].next = IF k = l THEN next ELSE table[k].next
        /\ m[k].prev = IF k = next THEN l ELSE table[k].prev
  BY MergedFields
<1>3. \A k \in 1 .. n : table[k].size # 0 =>
        /\ table[k].start = k /\ table[k].size \in 1 .. n
        /\ k + table[k].size <= n + 1
        /\ table[k].next = IF k + table[k].size = n + 1 THEN -1 ELSE k + table[k].size
        /\ table[k].next # -1 => /\ table[k].next \in 1 .. n /\ table[k].next > k
                                 /\ table[table[k].next].size # 0
                                 /\ table[table[k].next].prev = k
        /\ table[k].prev = -1 <=> k = 1
        /\ table[k].prev # -1 => /\ table[k].prev \in 1 .. n
                                 /\ table[table[k].prev].size # 0
                                 /\ table[table[k].prev].next = k
  BY Links
<1>4. w # <<>> /\ m \in [1 .. n -> Symbol(v, n)]
  BY MergedFields DEF Sound
<1>5. Linked(table, n) /\ Named(v, w, table)
  BY DEF Sound
<1> HIDE DEF n, l, r, next, m
<1>6. /\ r > l /\ r = l + table[l].size /\ table[r].prev = l
      /\ l + c.size = r + table[r].size /\ c.size \in 1 .. n
      /\ (next = -1 \/ (next \in 1 .. n /\ next > r))
  <2>1. r > l /\ r = l + table[l].size /\ table[r].prev = l /\ l # -1 /\ r # -1
    BY <1>1, <1>3, SMTT(40)
  <2>a. table[r].next # -1 => table[r].next \in 1 .. n /\ table[r].next > r
    BY <1>1, <1>3
  <2>2. next = -1 \/ (next \in 1 .. n /\ next > r)
    BY <2>a DEF next
  <2>3. PICK a \in 1 .. n, b \in 1 .. n : a = table[l].size /\ b = table[r].size
    BY <1>1, <1>3
  <2>4. c.size = a + b /\ r = l + a /\ r + b <= n + 1
    BY <1>1, <1>3, <2>1, <2>3
  <2>5. a + b \in 1 .. n /\ l + (a + b) = r + b
    BY <1>1, <2>4
  <2> QED BY <2>1, <2>2, <2>3, <2>4, <2>5
<1>7. Linked(m, n)
  <2>1. m[1].size # 0
    BY <1>1, <1>2, <1>5, <1>6 DEF Linked
  <2>2. \A k \in 1 .. n : m[k].next = -1 \/ m[k].next > k
    BY <1>1, <1>2, <1>5, <1>6, SMTT(40) DEF Linked
  <2>3. ASSUME NEW k \in 1 .. n, m[k].size # 0
        PROVE  /\ m[k].start = k
               /\ k + m[k].size <= n + 1
               /\ m[k].next = IF k + m[k].size = n + 1 THEN -1 ELSE k + m[k].size
               /\ m[k].next # -1 => m[m[k].next].size # 0 /\ m[m[k].next].prev = k
               /\ m[k].prev = -1 <=> k = 1
               /\ m[k].prev # -1 => m[m[k].prev].size # 0 /\ m[m[k].prev].next = k
    <3>1. CASE k = l
      <4>a. m[k].start = k /\ m[k].size = c.size /\ m[k].next = next
        BY <1>1, <1>2, <1>3, <3>1
      <4>1. /\ m[k].start = k /\ m[k].size = c.size /\ m[k].next = next
            /\ k + c.size = r + table[r].size
        BY <1>6, <3>1, <4>a
      <4>2. r + table[r].size <= n + 1
            /\ next = IF r + table[r].size = n + 1 THEN -1 ELSE r + table[r].size
        BY <1>1, <1>3 DEF next
      <4>3. next # -1 => m[next].size # 0 /\ m[next].prev = l
        <5> SUFFICES ASSUME next # -1 PROVE m[next].size # 0 /\ m[next].prev = l
          OBVIOUS
        <5>1. next \in 1 .. n /\ next > r /\ table[next].size # 0
          BY <1>1, <1>3, <1>6 DEF next
        <5> QED BY <1>1, <1>2, <1>6, <5>1
      <4>4. m[k].prev = table[l].prev
        BY <1>1, <1>2, <1>6, <3>1
      <4>5. table[l].prev # -1 =>
              m[table[l].prev].size # 0 /\ m[table[l].prev].next = l
        <5> SUFFICES ASSUME table[l].prev # -1
                     PROVE  m[table[l].prev].size # 0 /\ m[table[l].prev].next = l
          OBVIOUS
        <5>1. PICK p \in 1 .. n : p = table[l].prev
          BY <1>1, <1>3
        <5>2. table[p].size # 0 /\ table[p].next = l
          BY <1>1, <1>3, <5>1
        <5>a. r # l /\ next # l
          BY <1>1, <1>6
        <5>3. p # l /\ p # r
          BY <1>1, <5>2, <5>a DEF next
        <5> QED BY <1>2, <5>1, <5>2, <5>3
      <4>6. table[l].prev = -1 <=> l = 1
        BY <1>1, <1>3
      <4> QED BY <3>1, <4>1, <4>2, <4>3, <4>4, <4>5, <4>6
    <3>2. CASE k # l
      <4>1. /\ k # r /\ table[k].size # 0 /\ m[k].size = table[k].size
            /\ m[k].start = k /\ m[k].next = table[k].next
        BY <1>2, <1>3, <2>3, <3>2
      <4>2. k + table[k].size <= n + 1 /\
            table[k].next = IF k + table[k].size = n + 1 THEN -1 ELSE k + table[k].size
        BY <1>3, <4>1
      <4>3. table[k].next # -1 =>
              m[table[k].next].size # 0 /\ m[table[k].next].prev = k
        <5> SUFFICES ASSUME table[k].next # -1
                     PROVE  m[table[k].next].size # 0 /\ m[table[k].next].prev = k
          OBVIOUS
        <5>1. PICK q \in 1 .. n : q = table[k].next
          BY <1>3, <4>1
        <5>2. table[q].size # 0 /\ table[q].prev = k
          BY <1>3, <4>1, <5>1
        <5>3. q # r
          BY <1>6, <3>2, <5>2
        <5>4. q # next
          <6>1. next # -1 => table[next].prev = r
            BY <1>1, <1>3 DEF next
          <6> QED BY <4>1, <5>1, <5>2, <6>1
        <5>5. c.size # 0
          BY <1>6
        <5> QED BY <1>2, <5>1, <5>2, <5>3, <5>4, <5>5
      <4>4. CASE k = next
        <5>1. m[k].prev = l /\ m[l].size = c.size /\ m[l].next = next
          BY <1>1, <1>2, <4>4
        <5>2. k # 1 /\ l # -1 /\ c.size # 0
          BY <1>1, <1>6, <4>4
        <5> QED BY <4>1, <4>2, <4>3, <4>4, <5>1, <5>2
      <4>5. CASE k # next
        <5>1. m[k].prev = table[k].prev /\ (table[k].prev = -1 <=> k = 1)
          BY <1>2, <1>3, <4>1, <4>5
        <5>2. table[k].prev # -1 =>
                m[table[k].prev].size # 0 /\ m[table[k].prev].next = k
          <6> SUFFICES ASSUME table[k].prev # -1
                       PROVE  m[table[k].prev].size # 0 /\ m[table[k].prev].next = k
            OBVIOUS
          <6>1. PICK p \in 1 .. n : p = table[k].prev
            BY <1>3, <4>1
          <6>2. table[p].size # 0 /\ table[p].next = k
            BY <1>3, <4>1, <6>1
          <6>3. p # l /\ p # r
            BY <1>1, <4>1, <4>5, <6>2 DEF next
          <6> QED BY <1>2, <6>1, <6>2, <6>3
        <5> QED BY <4>1, <4>2, <4>3, <5>1, <5>2
      <4> QED BY <4>4, <4>5
    <3> QED BY <3>1, <3>2
  <2> QED BY <2>1, <2>2, <2>3 DEF Linked
<1>8. Named(v, w, m)
  <2>1. c.id \in v.hash /\ c.id # -1 /\ v.piece[c.id] = SubSeq(w, l, l + c.size - 1)
    BY IdsAreNumbers, SMTT(40) DEF Candidate, l
  <2>2. ASSUME NEW k \in 1 .. n, m[k].size # 0
        PROVE  IF m[k].id = -1
               THEN m[k].size = 1 /\ Unit(v, w[k]) = {} /\ v.byte_fallback
               ELSE /\ m[k].id \in v.hash
                    /\ v.piece[m[k].id] = SubSeq(w, k, k + m[k].size - 1)
    <3>1. CASE k = l
      BY <1>2, <2>1, <3>1
    <3>2. CASE k # l
      <4>1. m[k].id = table[k].id /\ m[k].size = table[k].size /\ table[k].size # 0
        BY <1>2, <2>2, <3>2
      <4> QED BY <1>5, <4>1 DEF Named, n
    <3> QED BY <3>1, <3>2
  <2> QED BY <2>2 DEF Named, n
<1> QED BY <1>4, <1>7, <1>8 DEF Sound, n, m

-----------------------------------------------------------------------------
(* The queue *)

(* A candidate depends on what the two symbols are, not on their links. *)
LEMMA SameCandidates ==
  ASSUME NEW v, NEW w, NEW table, NEW other, NEW left, NEW right,
         table[left].start = other[left].start, table[left].size = other[left].size,
         table[left].id = other[left].id,
         table[right].size = other[right].size, table[right].id = other[right].id
  PROVE  MakeCandidate(v, w, table, left, right)
           \subseteq MakeCandidate(v, w, other, left, right)
<1> SUFFICES ASSUME NEW c \in MakeCandidate(v, w, table, left, right)
             PROVE  c \in MakeCandidate(v, w, other, left, right)
  OBVIOUS
<1> DEFINE Rec(a, b) == [priority |-> c.priority, left_chars |-> a, right_chars |-> b,
                         left |-> left, right |-> right, size |-> a + b, id |-> c.id]
           String(s, a, b) == SubSeq(w, s, s + a + b - 1)
<1>1. /\ left # -1 /\ right # -1 /\ table[left].id # -1 /\ table[right].id # -1
      /\ c.id \in v.hash
      /\ v.piece[c.id] = String(table[left].start, table[left].size, table[right].size)
      /\ c.priority \in Priority(v, c.id, table[left].size)
      /\ c = Rec(table[left].size, table[right].size)
  BY MadeCandidate
<1>2. /\ v.piece[c.id] = String(other[left].start, other[left].size, other[right].size)
         /\ left # -1 /\ right # -1 /\ other[left].id # -1 /\ other[right].id # -1
         /\ c.id \in v.hash /\ c.priority \in Priority(v, c.id, other[left].size)
      => Rec(other[left].size, other[right].size) \in MakeCandidate(v, w, other, left, right)
  BY CandidateIsMade
<1> HIDE DEF Rec, String
<1> QED BY <1>1, <1>2

(* A queue that is complete has the pair on either side of each symbol. *)
LEMMA PairsAreCandidates ==
  ASSUME NEW v \in Vocabularies, NEW w \in Seq(Character), NEW table, Sound(v, w, table),
         NEW k \in 1 .. Len(w), table[k].size # 0
  PROVE  /\ NewCandidates(v, w, table, k) \subseteq Candidate(v, w, table)
         /\ IsFiniteSet(NewCandidates(v, w, table, k))
<1> DEFINE A == MakeCandidate(v, w, table, table[k].prev, k)
           B == MakeCandidate(v, w, table, k, table[k].next)
<1>1. IsFiniteSet(A) /\ IsFiniteSet(B)
  BY OneCandidate
<1>2. B \subseteq Candidate(v, w, table)
  BY NeighbourCandidate
<1>3. A \subseteq Candidate(v, w, table)
  <2>1. CASE table[k].prev = -1
    BY <2>1 DEF MakeCandidate
  <2>2. CASE table[k].prev # -1
    <3>1. PICK p \in 1 .. Len(w) : p = table[k].prev
      BY <2>2, Links
    <3>2. table[p].size # 0 /\ table[p].next = k
      BY <2>2, <3>1, Links
    <3>3. MakeCandidate(v, w, table, p, table[p].next) \subseteq Candidate(v, w, table)
      BY <3>2, NeighbourCandidate
    <3> QED BY <3>1, <3>2, <3>3
  <2> QED BY <2>1, <2>2
<1> HIDE DEF A, B
<1>4. IsFiniteSet(A \cup B)
  BY <1>1, FS_Union
<1> QED BY <1>2, <1>3, <1>4 DEF NewCandidates, A, B

(* After a merge the new pairs are in the queue, and the others still are. *)
LEMMA MergeKeeps ==
  ASSUME NEW v \in Vocabularies, NEW w \in Seq(Character), NEW table, NEW queue,
         Merging(v, w, table, queue), NEW c \in queue, ~Stale(table, c)
  PROVE  LET m == Merged(table, c)
         IN  Merging(v, w, m, (queue \ {c}) \cup NewCandidates(v, w, m, c.left))
<1> DEFINE n == Len(w)
           l == c.left
           r == c.right
           m == Merged(table, c)
           added == NewCandidates(v, w, m, l)
<1>1. /\ Sound(v, w, table) /\ queue \subseteq Candidate(v, w, table)
      /\ IsFiniteSet(queue) /\ Complete(v, w, table, queue) /\ c \in Candidate(v, w, table)
  BY DEF Merging
<1>2. /\ n \in Nat /\ l \in 1 .. n /\ r \in 1 .. n /\ table[l].next = r
      /\ table[l].size # 0 /\ table[r].size # 0
      /\ c.size = table[l].size + table[r].size
  BY <1>1, FreshCandidate, LenProperties
<1>3. Sound(v, w, m)
  BY <1>1, MergedIsSound
<1>4. \A k \in 1 .. n :
        /\ m[k].start = table[k].start
        /\ m[k].size = IF k = l THEN c.size ELSE IF k = r THEN 0 ELSE table[k].size
        /\ m[k].id = IF k = l THEN c.id ELSE table[k].id
        /\ m[k].next = IF k = l THEN table[r].next ELSE table[k].next
  BY <1>1, MergedFields
<1>5. c.id # -1 /\ table[r].prev = l /\ r # -1 /\ m[l].size # 0
  <2>1. c.id # -1
    BY <1>1, IdsAreNumbers, SMTT(40) DEF Candidate
  <2>2. table[r].prev = l /\ r # -1
    BY <1>1, <1>2, Links
  <2>3. table[l].size \in 1 .. n /\ table[r].size \in 1 .. n
    BY <1>1, <1>2, Links
  <2>4. c.size # 0
    BY <1>2, <2>3
  <2> QED BY <1>2, <1>4, <2>1, <2>2, <2>4
<1> HIDE DEF n, m
<1>6. added \subseteq Candidate(v, w, m) /\ IsFiniteSet(added)
  BY <1>2, <1>3, <1>5, PairsAreCandidates DEF n
<1>7. queue \subseteq Candidate(v, w, m)
  <2> SUFFICES ASSUME NEW d \in queue PROVE d \in Candidate(v, w, m)
    OBVIOUS
  <2>1. d \in Candidate(v, w, table)
    BY <1>1
  <2>2. /\ d.left \in 1 .. n /\ d.right \in 1 .. n
        /\ table[d.left].id # -1 /\ table[d.right].id # -1
    BY <2>1 DEF Candidate, n
  <2>3. m[d.left].id # -1 /\ m[d.right].id # -1
    BY <1>4, <1>5, <2>2
  <2> QED BY <2>1, <2>3 DEF Candidate
<1>8. Complete(v, w, m, (queue \ {c}) \cup added)
  <2> SUFFICES ASSUME NEW k \in 1 .. n, m[k].size # 0
               PROVE  MakeCandidate(v, w, m, k, m[k].next) \subseteq (queue \ {c}) \cup added
    BY DEF Complete, n
  <2>1. CASE k = l
    BY <2>1 DEF NewCandidates
  <2>2. CASE m[k].next = l
    <3>1. m[l].prev = k
      BY <1>2, <1>3, <2>2, Links DEF n
    <3> QED BY <2>2, <3>1 DEF NewCandidates
  <2>3. CASE m[k].next = -1
    BY <2>3 DEF MakeCandidate
  <2>4. CASE k # l /\ m[k].next # l /\ m[k].next # -1
    <3>1. k # r /\ table[k].size # 0 /\ table[k].next = m[k].next
      BY <1>4, <2>4
    <3>2. PICK q \in 1 .. n : q = table[k].next
      BY <1>1, <2>4, <3>1, Links DEF n
    <3>3. q # l /\ q # r
      <4>1. table[q].prev = k
        BY <1>1, <2>4, <3>1, <3>2, Links DEF n
      <4> QED BY <1>5, <2>4, <3>1, <3>2, <4>1
    <3>4. /\ m[k].start = table[k].start /\ m[k].size = table[k].size
          /\ m[k].id = table[k].id
          /\ m[q].size = table[q].size /\ m[q].id = table[q].id
      BY <1>4, <2>4, <3>1, <3>3
    <3>5. MakeCandidate(v, w, m, k, q) \subseteq MakeCandidate(v, w, table, k, q)
      BY <3>4, SameCandidates
    <3>6. MakeCandidate(v, w, table, k, q) \subseteq queue
      BY <1>1, <3>1, <3>2 DEF Complete, n
    <3>7. \A d \in MakeCandidate(v, w, table, k, q) : d.left = k
      BY <1>1, <3>1, <3>2, NeighbourCandidate DEF n
    <3> QED BY <2>4, <3>1, <3>2, <3>5, <3>6, <3>7
  <2> QED BY <2>1, <2>2, <2>3, <2>4
<1>9. IsFiniteSet((queue \ {c}) \cup added)
  <2>1. IsFiniteSet(queue \ {c})
    BY <1>1, FS_RemoveElement
  <2> HIDE DEF added
  <2> QED BY <1>6, <2>1, FS_Union
<1> QED BY <1>3, <1>6, <1>7, <1>8, <1>9 DEF Merging, m

(* A stale candidate is not one of two neighbours. *)
LEMMA DropKeeps ==
  ASSUME NEW v \in Vocabularies, NEW w \in Seq(Character), NEW table, NEW queue,
         Merging(v, w, table, queue), NEW c \in queue, Stale(table, c)
  PROVE  Merging(v, w, table, queue \ {c})
<1>1. /\ Sound(v, w, table) /\ queue \subseteq Candidate(v, w, table)
      /\ IsFiniteSet(queue) /\ Complete(v, w, table, queue)
  BY DEF Merging
<1>2. IsFiniteSet(queue \ {c})
  BY <1>1, FS_RemoveElement
<1>3. Complete(v, w, table, queue \ {c})
  <2> SUFFICES ASSUME NEW k \in 1 .. Len(w), table[k].size # 0
               PROVE  MakeCandidate(v, w, table, k, table[k].next) \subseteq queue \ {c}
    BY DEF Complete
  <2>1. MakeCandidate(v, w, table, k, table[k].next) \subseteq queue
    BY <1>1 DEF Complete
  <2>2. c \notin MakeCandidate(v, w, table, k, table[k].next)
    BY <1>1, NeighbourCandidate
  <2> QED BY <2>1, <2>2
<1> QED BY <1>1, <1>2, <1>3 DEF Merging

(* Before any merge every character is a symbol, with its token if it has  *)
(* one, and the queue has the pairs there are.                             *)
LEMMA SplitStarts ==
  ASSUME NEW v \in Vocabularies, NEW w \in Seq(Character), w # <<>>,
         v.byte_fallback \/ \A k \in 1 .. Len(w) : Unit(v, w[k]) # {}
  PROVE  Merging(v, w, Characters(v, w), FirstCandidates(v, w, Characters(v, w)))
<1> DEFINE n == Len(w)
           table == Characters(v, w)
           unit(k) == CHOOSE id \in Unit(v, w[k]) : TRUE
           Made(k) == MakeCandidate(v, w, table, k - 1, k)
           queue == FirstCandidates(v, w, table)
<1>1. n \in Nat \ {0} /\ \A k \in 1 .. n : w[k] \in Character
  BY LenProperties, EmptySeq, ElementOfSeq
<1>2. \A k \in 1 .. n : Unit(v, w[k]) # {} =>
        /\ unit(k) \in v.hash /\ v.piece[unit(k)] = <<w[k]>>
        /\ unit(k) \in Ids(v) /\ unit(k) # -1
  <2> SUFFICES ASSUME NEW k \in 1 .. n, Unit(v, w[k]) # {}
               PROVE  /\ unit(k) \in v.hash /\ v.piece[unit(k)] = <<w[k]>>
                      /\ unit(k) \in Ids(v) /\ unit(k) # -1
    OBVIOUS
  <2>1. unit(k) \in Unit(v, w[k])
    OBVIOUS
  <2> HIDE DEF unit
  <2>2. unit(k) \in v.hash /\ v.piece[unit(k)] = <<w[k]>>
    BY <2>1 DEF Unit, Lookup
  <2> QED BY <2>2, IdsAreNumbers
<1> HIDE DEF unit
<1>3. table = [k \in 1 .. n |->
        [start |-> k, size |-> 1, prev |-> IF k = 1 THEN -1 ELSE k - 1,
         next |-> IF k = n THEN -1 ELSE k + 1,
         id |-> IF Unit(v, w[k]) = {} THEN -1 ELSE unit(k)]]
  BY DEF Characters, unit
<1> HIDE DEF n, table
<1>4. \A k \in 1 .. n :
        /\ table[k].start = k /\ table[k].size = 1
        /\ table[k].prev = IF k = 1 THEN -1 ELSE k - 1
        /\ table[k].next = IF k = n THEN -1 ELSE k + 1
        /\ table[k].id = IF Unit(v, w[k]) = {} THEN -1 ELSE unit(k)
  BY <1>3
<1>5. table \in [1 .. n -> Symbol(v, n)]
  <2>1. \A k \in 1 .. n :
          /\ k \in 1 .. n /\ 1 \in 0 .. n
          /\ (IF k = 1 THEN -1 ELSE k - 1) \in {-1} \cup 1 .. n
          /\ (IF k = n THEN -1 ELSE k + 1) \in {-1} \cup 1 .. n
    BY <1>1
  <2>2. \A k \in 1 .. n :
          (IF Unit(v, w[k]) = {} THEN -1 ELSE unit(k)) \in {-1} \cup Ids(v)
    BY <1>2
  <2> QED BY <1>3, <2>1, <2>2 DEF Symbol
<1>6. Linked(table, n)
  <2>1. table[1].size # 0 /\ \A k \in 1 .. n : table[k].next = -1 \/ table[k].next > k
    BY <1>1, <1>4
  <2>2. ASSUME NEW k \in 1 .. n
        PROVE  /\ table[k].start = k
               /\ k + table[k].size <= n + 1
               /\ table[k].next = IF k + table[k].size = n + 1 THEN -1
                                  ELSE k + table[k].size
               /\ table[k].prev = -1 <=> k = 1
    BY <1>1, <1>4
  <2>3. ASSUME NEW k \in 1 .. n, table[k].next # -1
        PROVE  table[table[k].next].size # 0 /\ table[table[k].next].prev = k
    <3>1. table[k].next = k + 1 /\ k + 1 \in 1 .. n /\ k + 1 # 1 /\ (k + 1) - 1 = k
      BY <1>1, <1>4, <2>3
    <3>2. table[k + 1].size = 1 /\ table[k + 1].prev = (k + 1) - 1
      BY <1>4, <3>1
    <3> QED BY <3>1, <3>2
  <2>4. ASSUME NEW k \in 1 .. n, table[k].prev # -1
        PROVE  table[table[k].prev].size # 0 /\ table[table[k].prev].next = k
    <3>1. table[k].prev = k - 1 /\ k - 1 \in 1 .. n /\ k - 1 # n /\ (k - 1) + 1 = k
      BY <1>1, <1>4, <2>4
    <3>2. table[k - 1].size = 1 /\ table[k - 1].next = (k - 1) + 1
      BY <1>4, <3>1
    <3> QED BY <3>1, <3>2
  <2> QED BY <2>1, <2>2, <2>3, <2>4 DEF Linked
<1>7. Named(v, w, table)
  <2> SUFFICES ASSUME NEW k \in 1 .. n
               PROVE  IF table[k].id = -1
                      THEN table[k].size = 1 /\ Unit(v, w[k]) = {} /\ v.byte_fallback
                      ELSE /\ table[k].id \in v.hash
                           /\ v.piece[table[k].id] = SubSeq(w, k, k + table[k].size - 1)
    BY DEF Named, n
  <2>1. SubSeq(w, k, k) = <<w[k]>>
    BY OneElement DEF n
  <2>2. k + table[k].size - 1 = k
    BY <1>1, <1>4
  <2> QED BY <1>2, <1>4, <2>1, <2>2 DEF n
<1>8. Sound(v, w, table)
  BY <1>5, <1>6, <1>7 DEF Sound, n
<1>9. queue = UNION {Made(k) : k \in 2 .. n}
  BY DEF FirstCandidates, n
<1>10. \A k \in 1 .. n : k # n => k + 1 \in 2 .. n /\ Made(k + 1) =
                                      MakeCandidate(v, w, table, k, k + 1)
  BY <1>1
<1>11. Complete(v, w, table, queue)
  <2> SUFFICES ASSUME NEW k \in 1 .. n
               PROVE  MakeCandidate(v, w, table, k, table[k].next) \subseteq queue
    BY DEF Complete, n
  <2>1. CASE k = n
    BY <1>4, <2>1 DEF MakeCandidate
  <2>2. CASE k # n
    <3> HIDE DEF Made, queue
    <3>1. Made(k + 1) \subseteq queue
      BY <1>9, <1>10, <2>2
    <3> QED BY <1>4, <1>10, <2>2, <3>1
  <2> QED BY <2>1, <2>2
<1>12. queue \subseteq Candidate(v, w, table)
  <2> SUFFICES ASSUME NEW k \in 2 .. n PROVE Made(k) \subseteq Candidate(v, w, table)
    BY <1>9
  <2>1. k - 1 \in 1 .. n /\ table[k - 1].size # 0 /\ table[k - 1].next = k
    BY <1>1, <1>4
  <2> QED BY <1>8, <2>1, NeighbourCandidate DEF n
<1>13. IsFiniteSet(queue)
  <2> DEFINE all == {Made(k) : k \in 2 .. n}
             f == [k \in 2 .. n |-> Made(k)]
  <2>1. \A set \in all : IsFiniteSet(set)
    BY OneCandidate
  <2> HIDE DEF Made
  <2>2. f \in Surjection(2 .. n, all)
    BY DEF Surjection
  <2>3. IsFiniteSet(2 .. n)
    BY <1>1, FS_Interval
  <2> HIDE DEF f, all
  <2>4. IsFiniteSet(all)
    BY <2>2, <2>3, FS_Surjection
  <2>5. IsFiniteSet(UNION all)
    BY <2>1, <2>4, FS_UNION
  <2> QED BY <1>9, <2>5 DEF all
<1> QED BY <1>8, <1>11, <1>12, <1>13 DEF Merging, table

-----------------------------------------------------------------------------
(* The list of the symbols *)

(* The function that Chain computes: the list from each symbol on.         *)
From(table) ==
  CHOOSE f : f = [k \in 1 .. Len(table) |->
                    IF table[k].next = -1 THEN <<k>> ELSE <<k>> \o f[table[k].next]]

(* A sequence of symbols that starts at k and follows the links to the end. *)
Walk(table, k, c) ==
  /\ c \in Seq(1 .. Len(table)) /\ c # <<>> /\ c[1] = k
  /\ \A j \in 1 .. Len(c) - 1 : table[c[j]].next = c[j + 1]
  /\ table[c[Len(c)]].next = -1

(* The function exists, since each link leads further to the right. *)
LEMMA FromIsDefined ==
  ASSUME NEW table, Len(table) \in Nat,
         \A k \in 1 .. Len(table) : table[k].next = -1 \/ table[k].next \in k + 1 .. Len(table)
  PROVE  From(table) = [k \in 1 .. Len(table) |->
           IF table[k].next = -1 THEN <<k>> ELSE <<k>> \o From(table)[table[k].next]]
<1> DEFINE n == Len(table)
           Step(f, k) == IF table[k].next = -1 THEN <<k>> ELSE <<k>> \o f[table[k].next]
           S == {m \in Nat : \E f : \A k \in 1 .. n : k > n - m => f[k] = Step(f, k)}
<1>1. 0 \in S
  OBVIOUS
<1>2. ASSUME NEW m \in Nat, m \in S
      PROVE  m + 1 \in S
  <2>1. PICK f : \A k \in 1 .. n : k > n - m => f[k] = Step(f, k)
    BY <1>2
  <2> DEFINE g == [k \in 1 .. n |-> IF k = n - m THEN Step(f, k) ELSE f[k]]
  <2>2. \A k \in 1 .. n : g[k] = IF k = n - m THEN Step(f, k) ELSE f[k]
    OBVIOUS
  <2> HIDE DEF g
  <2>3. ASSUME NEW k \in 1 .. n, k > n - (m + 1)
        PROVE  g[k] = Step(g, k)
    <3>1. Step(g, k) = Step(f, k)
      <4>1. CASE table[k].next = -1
        BY <4>1
      <4>2. CASE table[k].next # -1
        <5>1. table[k].next \in k + 1 .. n
          BY <4>2
        <5>2. table[k].next \in 1 .. n /\ table[k].next # n - m
          BY <2>3, <5>1
        <5>3. g[table[k].next] = f[table[k].next]
          BY <2>2, <5>2
        <5> QED BY <4>2, <5>3
      <4> QED BY <4>1, <4>2
    <3>2. CASE k = n - m
      <4> HIDE DEF Step
      <4> QED BY <2>2, <3>1, <3>2
    <3>3. CASE k # n - m
      <4>1. k > n - m
        BY <2>3, <3>3
      <4> HIDE DEF Step
      <4> QED BY <2>1, <2>2, <3>1, <3>3, <4>1
    <3> QED BY <3>2, <3>3
  <2> HIDE DEF Step
  <2> QED BY <2>3
<1> HIDE DEF S
<1>3. n \in S
  BY <1>1, <1>2, InductionOnNumbers
<1>4. PICK f : \A k \in 1 .. n : f[k] = Step(f, k)
  <2>1. \E f : \A k \in 1 .. n : k > n - n => f[k] = Step(f, k)
    BY <1>3 DEF S
  <2> HIDE DEF Step
  <2> QED BY <2>1
<1> DEFINE h == [k \in 1 .. n |-> f[k]]
<1>5. \A k \in 1 .. n : h[k] = f[k]
  OBVIOUS
<1>6. DOMAIN h = 1 .. n /\ h = [k \in 1 .. n |-> h[k]]
  OBVIOUS
<1> HIDE DEF h
<1>7. \A k \in 1 .. n : h[k] = Step(h, k)
  <2> SUFFICES ASSUME NEW k \in 1 .. n PROVE h[k] = Step(h, k)
    OBVIOUS
  <2>1. CASE table[k].next = -1
    BY <1>4, <1>5, <2>1
  <2>2. CASE table[k].next # -1
    <3>1. table[k].next \in 1 .. n
      BY <2>2
    <3>2. h[table[k].next] = f[table[k].next]
      BY <1>5, <3>1
    <3>3. h[k] = f[k] /\ f[k] = Step(f, k)
      BY <1>4, <1>5
    <3> QED BY <2>2, <3>2, <3>3
  <2> QED BY <2>1, <2>2
<1>8. h = [k \in 1 .. n |-> Step(h, k)]
  <2> HIDE DEF Step
  <2> QED BY <1>6, <1>7
<1>9. \E f1 : f1 = [k \in 1 .. n |-> Step(f1, k)]
  <2> HIDE DEF Step
  <2> QED BY <1>8, Zenon
<1> QED BY <1>9 DEF From

(* Chain is a walk from the first symbol. *)
LEMMA ChainIsAWalk ==
  ASSUME NEW v \in Vocabularies, NEW w \in Seq(Character), NEW table, Sound(v, w, table)
  PROVE  Len(table) = Len(w) /\ Walk(table, 1, Chain(table))
<1> DEFINE n == Len(w)
           f == From(table)
           S == {m \in Nat : \A k \in 1 .. n : k > n - m => Walk(table, k, f[k])}
<1>1. n \in Nat \ {0} /\ Len(table) = n
  <2>1. n \in Nat \ {0} /\ table \in [1 .. n -> Symbol(v, n)]
    BY SymbolFields DEF Sound
  <2> HIDE DEF n
  <2> QED BY <2>1
<1>2. \A k \in 1 .. n : table[k].next = -1 \/ table[k].next \in k + 1 .. n
  <2>1. \A k \in 1 .. n : table[k].next \in {-1} \cup 1 .. n
    BY SymbolFields
  <2>2. \A k \in 1 .. n : table[k].next = -1 \/ table[k].next > k
    BY DEF Sound, Linked
  <2> QED BY <1>1, <2>1, <2>2
<1>3. \A k \in 1 .. n :
        f[k] = IF table[k].next = -1 THEN <<k>> ELSE <<k>> \o f[table[k].next]
  <2>1. f = [k \in 1 .. n |-> IF table[k].next = -1 THEN <<k>> ELSE <<k>> \o f[table[k].next]]
    BY <1>1, <1>2, FromIsDefined
  <2> HIDE DEF f
  <2> DEFINE e == [k \in 1 .. n |->
                    IF table[k].next = -1 THEN <<k>> ELSE <<k>> \o f[table[k].next]]
  <2>2. \A k \in 1 .. n :
          e[k] = IF table[k].next = -1 THEN <<k>> ELSE <<k>> \o f[table[k].next]
    OBVIOUS
  <2> HIDE DEF e
  <2> QED BY <2>1, <2>2 DEF e
<1> HIDE DEF f, n
<1>4. 0 \in S
  BY <1>1
<1>5. ASSUME NEW m \in Nat, m \in S
      PROVE  m + 1 \in S
  <2> SUFFICES ASSUME NEW k \in 1 .. n, k > n - (m + 1)
               PROVE  Walk(table, k, f[k])
    OBVIOUS
  <2>1. CASE table[k].next = -1
    <3>1. f[k] = <<k>>
      BY <1>3, <2>1
    <3>2. /\ <<k>> \in Seq(1 .. n) /\ <<k>> # <<>> /\ Len(<<k>>) = 1 /\ <<k>>[1] = k
      OBVIOUS
    <3> QED BY <1>1, <2>1, <3>1, <3>2 DEF Walk
  <2>2. CASE table[k].next # -1
    <3>1. PICK q \in k + 1 .. n : q = table[k].next
      BY <1>2, <2>2
    <3>2. q \in 1 .. n /\ q > n - m
      BY <1>1
    <3>3. Walk(table, q, f[q])
      BY <1>5, <3>2
    <3>4. f[k] = <<k>> \o f[q]
      BY <1>3, <2>2, <3>1
    <3> DEFINE c == f[q]
               d == f[k]
    <3>5. /\ c \in Seq(1 .. n) /\ c # <<>> /\ c[1] = q
          /\ \A j \in 1 .. Len(c) - 1 : table[c[j]].next = c[j + 1]
          /\ table[c[Len(c)]].next = -1
      BY <1>1, <3>3 DEF Walk
    <3> HIDE DEF c, d
    <3>6. Len(c) \in Nat \ {0}
      BY <3>5, EmptySeq
    <3>a. <<k>> \in Seq(1 .. n) /\ Len(<<k>>) = 1 /\ <<k>>[1] = k
      OBVIOUS
    <3>7. /\ d \in Seq(1 .. n) /\ Len(d) = Len(c) + 1 /\ d[1] = k
          /\ \A j \in 1 .. Len(c) : d[j + 1] = c[j]
      <4>1. d = <<k>> \o c
        BY <3>4 DEF c, d
      <4>2. /\ d \in Seq(1 .. n) /\ Len(d) = Len(c) + 1
            /\ \A j \in 1 .. 1 + Len(c) : d[j] = IF j <= 1 THEN <<k>>[j] ELSE c[j - 1]
        BY <3>5, <3>6, <3>a, <4>1, ConcatProperties
      <4> QED BY <3>6, <3>a, <4>2, SMTT(40)
    <3>8. ASSUME NEW j \in 1 .. Len(d) - 1
          PROVE  table[d[j]].next = d[j + 1]
      <4>1. CASE j = 1
        <5>1. d[1 + 1] = c[1]
          BY <3>6, <3>7
        <5> QED BY <3>1, <3>5, <3>7, <4>1, <5>1
      <4>2. CASE j # 1
        <5>1. PICK p \in 1 .. Len(c) - 1 : j = p + 1
          <6>1. j - 1 \in 1 .. Len(c) - 1 /\ j = (j - 1) + 1
            BY <3>6, <3>7, <4>2
          <6> QED BY <6>1
        <5>2. p \in 1 .. Len(c) /\ p + 1 \in 1 .. Len(c)
          BY <3>6
        <5>3. d[j] = c[p] /\ d[j + 1] = c[p + 1]
          BY <3>7, <5>1, <5>2
        <5> QED BY <3>5, <5>3
      <4> QED BY <4>1, <4>2
    <3>9. d # <<>> /\ d[Len(d)] = c[Len(c)]
      BY <3>6, <3>7
    <3> QED BY <1>1, <3>5, <3>7, <3>8, <3>9 DEF Walk, d
  <2> QED BY <2>1, <2>2
<1>6. n \in S
  <2> HIDE DEF S
  <2> QED BY <1>1, <1>4, <1>5, InductionOnNumbers
<1>7. Walk(table, 1, f[1])
  BY <1>1, <1>6
<1>8. Chain(table) = f[1]
  BY DEF Chain, From, f
<1> QED BY <1>1, <1>7, <1>8 DEF n

(* There is only one walk from a symbol. *)
LEMMA WalkIsUnique ==
  ASSUME NEW table, Len(table) \in Nat, NEW k, NEW c, NEW d, Walk(table, k, c), Walk(table, k, d)
  PROVE  c = d
<1> DEFINE n == Len(table)
           Same(a, b) == {m \in Nat : m \in 1 .. Len(a) => m <= Len(b) /\ a[m] = b[m]}
<1>1. ASSUME NEW a, NEW b, Walk(table, k, a), Walk(table, k, b)
      PROVE  \A m \in 1 .. Len(a) : m <= Len(b) /\ a[m] = b[m]
  <2>1. /\ a \in Seq(1 .. n) /\ b \in Seq(1 .. n)
        /\ Len(a) \in Nat \ {0} /\ Len(b) \in Nat \ {0}
    BY <1>1, EmptySeq DEF Walk
  <2>2. /\ a[1] = k /\ \A j \in 1 .. Len(a) - 1 : table[a[j]].next = a[j + 1]
        /\ b[1] = k /\ \A j \in 1 .. Len(b) - 1 : table[b[j]].next = b[j + 1]
        /\ table[b[Len(b)]].next = -1
    BY <1>1 DEF Walk
  <2>3. \A j \in 1 .. Len(a) : a[j] \in 1 .. n
    BY <2>1, ElementOfSeq
  <2>4. 0 \in Same(a, b)
    OBVIOUS
  <2>5. ASSUME NEW m \in Nat, m \in Same(a, b)
        PROVE  m + 1 \in Same(a, b)
    <3> SUFFICES ASSUME m + 1 \in 1 .. Len(a)
                 PROVE  m + 1 <= Len(b) /\ a[m + 1] = b[m + 1]
      OBVIOUS
    <3>1. CASE m = 0
      BY <2>1, <2>2, <3>1
    <3>2. CASE m # 0
      <4>1. m \in 1 .. Len(a) - 1 /\ m \in 1 .. Len(a)
        BY <2>1, <3>2
      <4>2. m <= Len(b) /\ a[m] = b[m]
        BY <2>5, <4>1
      <4>3. table[b[m]].next = a[m + 1] /\ a[m + 1] \in 1 .. n
        BY <2>2, <2>3, <4>1, <4>2
      <4>4. m # Len(b)
        BY <2>2, <4>3
      <4>5. m \in 1 .. Len(b) - 1
        BY <2>1, <3>2, <4>2, <4>4
      <4> QED BY <2>1, <2>2, <4>3, <4>5
    <3> QED BY <3>1, <3>2
  <2> HIDE DEF Same
  <2>6. \A m \in Nat : m \in Same(a, b)
    BY <2>4, <2>5, InductionOnNumbers
  <2> QED BY <2>1, <2>6 DEF Same
<1> HIDE DEF Same
<1>2. /\ c \in Seq(1 .. n) /\ d \in Seq(1 .. n)
      /\ Len(c) \in Nat \ {0} /\ Len(d) \in Nat \ {0}
  BY EmptySeq DEF Walk
<1>3. \A m \in 1 .. Len(c) : m <= Len(d) /\ c[m] = d[m]
  BY <1>1
<1>4. \A m \in 1 .. Len(d) : m <= Len(c) /\ d[m] = c[m]
  BY <1>1
<1>5. Len(c) = Len(d)
  BY <1>2, <1>3, <1>4
<1> QED BY <1>2, <1>3, <1>5, SeqEqual

(* The chain goes to the right; it has every symbol that was not merged    *)
(* away, and no other.                                                     *)
LEMMA ChainReaches ==
  ASSUME NEW v \in Vocabularies, NEW w \in Seq(Character), NEW table, Sound(v, w, table)
  PROVE  LET c == Chain(table)
         IN  /\ c \in Seq(1 .. Len(w)) /\ Len(c) \in Nat \ {0}
             /\ \A p \in 1 .. Len(c) : c[p] \in 1 .. Len(w) /\ table[c[p]].size # 0
             /\ \A p, q \in 1 .. Len(c) : p < q => c[p] < c[q]
             /\ \A k \in 1 .. Len(w) : table[k].size # 0 => \E p \in 1 .. Len(c) : c[p] = k
<1> DEFINE n == Len(w)
           c == Chain(table)
<1>1. /\ n \in Nat \ {0} /\ Len(table) = n
      /\ c \in Seq(1 .. n) /\ c # <<>> /\ c[1] = 1
      /\ \A j \in 1 .. Len(c) - 1 : table[c[j]].next = c[j + 1]
      /\ table[c[Len(c)]].next = -1
  BY ChainIsAWalk, SymbolFields DEF Walk
<1>2. Len(c) \in Nat \ {0} /\ \A p \in 1 .. Len(c) : c[p] \in 1 .. n
  <2> HIDE DEF c
  <2> QED BY <1>1, EmptySeq, ElementOfSeq
<1>3. \A k \in 1 .. n : table[k].size # 0 =>
        /\ table[k].next # -1 => /\ table[k].next \in 1 .. n /\ table[k].next > k
                                 /\ table[table[k].next].size # 0
        /\ table[k].prev = -1 <=> k = 1
        /\ table[k].prev # -1 => /\ table[k].prev \in 1 .. n
                                 /\ table[table[k].prev].size # 0
                                 /\ table[table[k].prev].next = k
  BY Links
<1>4. table[1].size # 0
  BY DEF Sound, Linked
<1> HIDE DEF n, c
<1>5. \A p \in 1 .. Len(c) : table[c[p]].size # 0
  <2> DEFINE S == {m \in Nat : m \in 1 .. Len(c) => table[c[m]].size # 0}
  <2>1. 0 \in S
    OBVIOUS
  <2>2. ASSUME NEW m \in Nat, m \in S
        PROVE  m + 1 \in S
    <3> SUFFICES ASSUME m + 1 \in 1 .. Len(c) PROVE table[c[m + 1]].size # 0
      OBVIOUS
    <3>1. CASE m = 0
      BY <1>1, <1>4, <3>1
    <3>2. CASE m # 0
      <4>1. m \in 1 .. Len(c) - 1 /\ m \in 1 .. Len(c)
        BY <1>2, <3>2
      <4>2. table[c[m]].size # 0 /\ table[c[m]].next = c[m + 1] /\ c[m + 1] # -1
        BY <1>1, <1>2, <2>2, <4>1
      <4> QED BY <1>2, <1>3, <4>1, <4>2
    <3> QED BY <3>1, <3>2
  <2> HIDE DEF S
  <2>3. \A m \in Nat : m \in S
    BY <2>1, <2>2, InductionOnNumbers
  <2> QED BY <2>3 DEF S
<1>6. \A j \in 1 .. Len(c) - 1 : c[j] < c[j + 1]
  <2> SUFFICES ASSUME NEW j \in 1 .. Len(c) - 1 PROVE c[j] < c[j + 1]
    OBVIOUS
  <2>1. j \in 1 .. Len(c) /\ j + 1 \in 1 .. Len(c)
    BY <1>2
  <2>2. table[c[j]].next = c[j + 1] /\ c[j + 1] # -1
    BY <1>1, <1>2, <2>1
  <2>3. c[j + 1] > c[j] /\ c[j] \in Int /\ c[j + 1] \in Int
    BY <1>2, <1>3, <1>5, <2>1, <2>2
  <2> QED BY <2>3
<1>7. \A p, q \in 1 .. Len(c) : p < q => c[p] < c[q]
  <2> SUFFICES ASSUME NEW p \in 1 .. Len(c)
               PROVE  \A q \in 1 .. Len(c) : p < q => c[p] < c[q]
    OBVIOUS
  <2> DEFINE S == {m \in Nat : m \in 1 .. Len(c) /\ p < m => c[p] < c[m]}
  <2>1. 0 \in S
    OBVIOUS
  <2>2. ASSUME NEW m \in Nat, m \in S
        PROVE  m + 1 \in S
    <3> SUFFICES ASSUME m + 1 \in 1 .. Len(c), p < m + 1 PROVE c[p] < c[m + 1]
      OBVIOUS
    <3>1. m \in 1 .. Len(c) - 1 /\ m \in 1 .. Len(c)
      BY <1>2
    <3>2. c[m] < c[m + 1] /\ c[m] \in 1 .. n /\ c[m + 1] \in 1 .. n /\ c[p] \in 1 .. n
      BY <1>2, <1>6, <3>1
    <3>3. CASE p = m
      BY <3>2, <3>3
    <3>4. CASE p # m
      <4>1. p < m
        BY <3>1, <3>4
      <4>2. c[p] < c[m]
        BY <2>2, <3>1, <4>1
      <4> HIDE DEF S
      <4> QED BY <1>1, <3>2, <4>2
    <3> QED BY <3>3, <3>4
  <2> HIDE DEF S
  <2>3. \A m \in Nat : m \in S
    BY <2>1, <2>2, InductionOnNumbers
  <2> QED BY <2>3 DEF S
<1>8. \A k \in 1 .. n : table[k].size # 0 => \E p \in 1 .. Len(c) : c[p] = k
  <2> DEFINE Missing == {k \in 1 .. n : table[k].size # 0 /\ \A p \in 1 .. Len(c) : c[p] # k}
  <2> SUFFICES ASSUME Missing # {} PROVE FALSE
    OBVIOUS
  <2>1. Missing \in SUBSET Nat
    BY <1>1
  <2>a. PICK k \in Missing : \A other \in Missing : k <= other
    <3> HIDE DEF Missing
    <3> QED BY <2>1, LeastNumber
  <2>2. k \in 1 .. n /\ table[k].size # 0 /\ \A p \in 1 .. Len(c) : c[p] # k
    OBVIOUS
  <2>3. k # 1
    BY <1>1, <1>2, <2>2
  <2>4. PICK p \in 1 .. n : p = table[k].prev
    BY <1>3, <2>2, <2>3
  <2>5. table[p].size # 0 /\ table[p].next = k /\ k # -1
    BY <1>3, <2>2, <2>3, <2>4
  <2>6. p < k
    <3>1. k > p
      BY <1>3, <2>5
    <3> QED BY <1>1, <2>2, <3>1
  <2>7. p \notin Missing
    <3> HIDE DEF Missing
    <3> QED BY <1>1, <2>2, <2>6, <2>a
  <2>8. PICK j \in 1 .. Len(c) : c[j] = p
    BY <2>5, <2>7
  <2>9. j # Len(c)
    BY <1>1, <2>5, <2>8
  <2>10. j \in 1 .. Len(c) - 1 /\ j + 1 \in 1 .. Len(c)
    BY <1>2, <2>9
  <2>11. c[j + 1] = k
    BY <1>1, <2>5, <2>8, <2>10
  <2> QED BY <2>2, <2>10, <2>11
<1> QED BY <1>1, <1>2, <1>5, <1>7, <1>8 DEF n, c

(* Merging two neighbours removes the right one from the chain. *)
LEMMA ChainOfMerged ==
  ASSUME NEW v \in Vocabularies, NEW w \in Seq(Character), NEW table, Sound(v, w, table),
         NEW e \in Candidate(v, w, table), ~Stale(table, e),
         NEW p \in 1 .. Len(Chain(table)) - 1,
         Chain(table)[p] = e.left, Chain(table)[p + 1] = e.right
  PROVE  Chain(Merged(table, e)) = RemoveAt(Chain(table), p + 1)
<1> DEFINE n == Len(w)
           c == Chain(table)
           m == Merged(table, e)
           d == RemoveAt(c, p + 1)
<1>1. /\ n \in Nat \ {0} /\ Len(table) = n
      /\ c \in Seq(1 .. n) /\ c[1] = 1
      /\ \A j \in 1 .. Len(c) - 1 : table[c[j]].next = c[j + 1]
      /\ table[c[Len(c)]].next = -1
  BY ChainIsAWalk, SymbolFields DEF Walk
<1>2. /\ Len(c) \in Nat \ {0} /\ \A j \in 1 .. Len(c) : c[j] \in 1 .. n
      /\ \A j, k \in 1 .. Len(c) : j < k => c[j] < c[k]
  BY ChainReaches
<1>3. Sound(v, w, m)
  BY MergedIsSound
<1>4. Len(m) = n /\ Walk(m, 1, Chain(m))
  BY <1>3, ChainIsAWalk
<1>5. \A k \in 1 .. n :
        m[k].next = IF k = c[p] THEN table[c[p + 1]].next ELSE table[k].next
  BY MergedFields
<1> HIDE DEF n, c, m
<1>6. /\ d \in Seq(1 .. n) /\ Len(d) = Len(c) - 1
      /\ \A j \in 1 .. Len(c) - 1 : d[j] = IF j <= p THEN c[j] ELSE c[j + 1]
  <2> DEFINE a == SubSeq(c, 1, p)
             b == SubSeq(c, p + 2, Len(c))
  <2>1. d = a \o b
    <3>1. (p + 1) - 1 = p /\ (p + 1) + 1 = p + 2
      BY <1>2 DEF c
    <3> QED BY <3>1 DEF RemoveAt
  <2>2. p \in Nat \ {0} /\ p <= Len(c) - 1
    BY <1>2 DEF c
  <2>3. a \in Seq(1 .. n) /\ Len(a) = p /\ \A j \in 1 .. p : a[j] = c[j]
    BY <1>2, <2>2, SubSeqProperties
  <2>4. /\ b \in Seq(1 .. n) /\ Len(b) = Len(c) - p - 1
        /\ \A j \in 1 .. Len(c) - p - 1 : b[j] = c[p + 1 + j]
    <3>1. \A j \in p + 2 .. Len(c) : c[j] \in 1 .. n
      BY <1>2, <2>2
    <3>2. /\ b \in Seq(1 .. n)
          /\ Len(b) = IF p + 2 <= Len(c) THEN Len(c) - (p + 2) + 1 ELSE 0
          /\ \A j \in 1 .. Len(c) - (p + 2) + 1 : b[j] = c[(p + 2) + j - 1]
      BY <1>2, <2>2, <3>1, SubSeqProperties
    <3>3. \A j \in 1 .. Len(c) - p - 1 : (p + 2) + j - 1 = p + 1 + j
      BY <2>2
    <3> HIDE DEF b
    <3> QED BY <1>2, <2>2, <3>2, <3>3
  <2> HIDE DEF a, b, d
  <2>5. /\ d \in Seq(1 .. n) /\ Len(d) = Len(a) + Len(b)
        /\ \A j \in 1 .. Len(a) + Len(b) : d[j] = IF j <= Len(a) THEN a[j] ELSE b[j - Len(a)]
    BY <2>1, <2>3, <2>4, ConcatProperties, ZenonT(60)
  <2>6. Len(a) + Len(b) = Len(c) - 1
    BY <1>2, <2>2, <2>3, <2>4
  <2>7. ASSUME NEW j \in 1 .. Len(c) - 1
        PROVE  d[j] = IF j <= p THEN c[j] ELSE c[j + 1]
    <3>1. CASE j <= p
      BY <2>2, <2>3, <2>5, <2>6, <2>7, <3>1
    <3>2. CASE ~(j <= p)
      <4>1. j - p \in 1 .. Len(c) - p - 1 /\ p + 1 + (j - p) = j + 1
        BY <1>2, <2>2, <2>7, <3>2
      <4>2. b[j - p] = c[j + 1]
        BY <2>4, <4>1
      <4> QED BY <2>3, <2>5, <2>6, <2>7, <3>2, <4>2
    <3> QED BY <3>1, <3>2
  <2> QED BY <2>5, <2>6, <2>7
<1> HIDE DEF d
<1>7. p \in Nat \ {0} /\ p <= Len(c) - 1
  BY <1>2 DEF c
<1>8. d # <<>> /\ d[1] = 1
  <2>1. 1 \in 1 .. Len(c) - 1 /\ 1 <= p
    BY <1>2, <1>7
  <2>2. d[1] = 1
    BY <1>1, <1>6, <2>1
  <2>3. Len(d) # 0
    BY <1>6, <2>1
  <2> QED BY <2>2, <2>3
<1>9. ASSUME NEW j \in 1 .. Len(d)
      PROVE  /\ j # Len(d) => m[d[j]].next = d[j + 1]
             /\ j = Len(d) => m[d[j]].next = -1
  <2>1. j \in 1 .. Len(c) - 1 /\ j \in 1 .. Len(c) /\ j + 1 \in 1 .. Len(c)
    BY <1>2, <1>6, <1>9
  <2>2. j # Len(d) => j + 1 \in 1 .. Len(c) - 1 /\ j + 1 \in 1 .. Len(c)
    BY <1>2, <1>6, <1>9
  <2>p. p \in 1 .. Len(c) /\ p + 1 \in 1 .. Len(c)
    BY <1>2, <1>7
  <2>3. CASE j < p
    <3>1. d[j] = c[j] /\ d[j + 1] = c[j + 1] /\ j # Len(d)
      BY <1>2, <1>6, <1>7, <2>1, <2>2, <2>3
    <3>2. c[j] # c[p] /\ c[j] \in 1 .. n
      <4>1. c[j] < c[p] /\ c[j] \in 1 .. n /\ c[p] \in 1 .. n
        BY <1>2, <2>1, <2>3, <2>p
      <4> QED BY <1>1, <4>1
    <3> QED BY <1>1, <1>5, <2>1, <3>1, <3>2
  <2>4. CASE j = p
    <3>1. d[j] = c[p] /\ c[p] \in 1 .. n /\ m[c[p]].next = table[c[p + 1]].next
      BY <1>2, <1>5, <1>6, <2>1, <2>4, <2>p
    <3>2. CASE j = Len(d)
      <4>1. p + 1 = Len(c)
        BY <1>2, <1>6, <1>7, <2>4, <3>2
      <4> QED BY <1>1, <3>1, <3>2, <4>1
    <3>3. CASE j # Len(d)
      <4>1. p + 1 \in 1 .. Len(c) - 1 /\ (p + 1) + 1 = j + 2 /\ j + 2 = (j + 1) + 1 /\ ~(j + 1 <= p)
        BY <1>2, <1>6, <1>7, <2>2, <2>4, <3>3
      <4>2. table[c[p + 1]].next = c[(p + 1) + 1]
        BY <1>1, <4>1
      <4>3. d[j + 1] = c[(j + 1) + 1]
        BY <1>6, <2>2, <3>3, <4>1
      <4> QED BY <2>4, <3>1, <3>3, <4>1, <4>2, <4>3
    <3> QED BY <3>2, <3>3
  <2>5. CASE j > p
    <3>1. d[j] = c[j + 1]
      BY <1>6, <1>7, <2>1, <2>5
    <3>2. c[j + 1] # c[p] /\ c[j + 1] \in 1 .. n
      <4>1. p < j + 1
        BY <1>7, <2>5
      <4>2. c[p] < c[j + 1] /\ c[j + 1] \in 1 .. n /\ c[p] \in 1 .. n
        BY <1>2, <2>1, <2>p, <4>1
      <4> QED BY <1>1, <4>2
    <3>3. m[d[j]].next = table[c[j + 1]].next
      BY <1>5, <3>1, <3>2
    <3>4. CASE j = Len(d)
      <4>1. j + 1 = Len(c)
        BY <1>2, <1>6, <3>4
      <4> QED BY <1>1, <3>3, <3>4, <4>1
    <3>5. CASE j # Len(d)
      <4>1. table[c[j + 1]].next = c[(j + 1) + 1]
        BY <1>1, <2>2, <3>5
      <4>2. ~(j + 1 <= p)
        BY <1>7, <2>5
      <4>3. d[j + 1] = c[(j + 1) + 1]
        BY <1>6, <2>2, <3>5, <4>2
      <4> QED BY <3>3, <3>5, <4>1, <4>3
    <3> QED BY <3>4, <3>5
  <2>6. j < p \/ j = p \/ j > p
    BY <1>7
  <2> QED BY <2>3, <2>4, <2>5, <2>6
<1>10. Walk(m, 1, d)
  <2>1. Len(d) \in Nat \ {0}
    BY <1>6, <1>8, EmptySeq
  <2>2. \A j \in 1 .. Len(d) - 1 : m[d[j]].next = d[j + 1]
    BY <1>9, <2>1
  <2>3. m[d[Len(d)]].next = -1
    BY <1>9, <2>1
  <2> QED BY <1>4, <1>6, <1>8, <2>2, <2>3 DEF Walk
<1> QED BY <1>1, <1>4, <1>10, WalkIsUnique DEF c, d, m

(* The pairs that may be merged are the fresh candidates of a queue that   *)
(* is complete: those of a symbol and the next one.                        *)
LEMMA PairsAreQueued ==
  ASSUME NEW v \in Vocabularies, NEW w \in Seq(Character), NEW table, NEW queue,
         Merging(v, w, table, queue), NEW p \in 1 .. Len(Chain(table)) - 1
  PROVE  MakeCandidate(v, w, table, Chain(table)[p], Chain(table)[p + 1]) \subseteq queue
<1> DEFINE c == Chain(table)
<1>1. Sound(v, w, table) /\ Complete(v, w, table, queue)
  BY DEF Merging
<1>2. \A j \in 1 .. Len(c) - 1 : table[c[j]].next = c[j + 1]
  BY <1>1, ChainIsAWalk DEF Walk
<1>3. Len(c) \in Nat /\ \A j \in 1 .. Len(c) : c[j] \in 1 .. Len(w) /\ table[c[j]].size # 0
  BY <1>1, ChainReaches
<1>4. p \in 1 .. Len(c)
  BY <1>3
<1> HIDE DEF c
<1>5. table[c[p]].next = c[p + 1] /\ c[p] \in 1 .. Len(w) /\ table[c[p]].size # 0
  BY <1>2, <1>3, <1>4 DEF c
<1> QED BY <1>1, <1>5 DEF Complete, c

(* A fresh candidate is that of two neighbours in the chain. *)
LEMMA FreshIsAPair ==
  ASSUME NEW v \in Vocabularies, NEW w \in Seq(Character), NEW table, Sound(v, w, table),
         NEW e \in Candidate(v, w, table), ~Stale(table, e)
  PROVE  \E p \in 1 .. Len(Chain(table)) - 1 :
           /\ Chain(table)[p] = e.left /\ Chain(table)[p + 1] = e.right
           /\ e \in MakeCandidate(v, w, table, Chain(table)[p], Chain(table)[p + 1])
<1> DEFINE c == Chain(table)
<1>1. /\ e.left \in 1 .. Len(w) /\ table[e.left].size # 0 /\ e.right \in 1 .. Len(w)
      /\ table[e.left].next = e.right
      /\ e \in MakeCandidate(v, w, table, e.left, e.right)
  BY FreshCandidate
<1>2. Len(c) \in Nat \ {0}
  BY ChainReaches
<1>3. PICK p \in 1 .. Len(c) : c[p] = e.left
  BY <1>1, ChainReaches
<1>4. /\ \A j \in 1 .. Len(c) - 1 : table[c[j]].next = c[j + 1]
      /\ table[c[Len(c)]].next = -1
  BY ChainIsAWalk DEF Walk
<1> HIDE DEF c
<1>5. p # Len(c)
  <2>1. e.right # -1
    BY <1>1
  <2> QED BY <1>1, <1>3, <1>4, <2>1
<1>6. p \in 1 .. Len(c) - 1
  BY <1>2, <1>5
<1>7. c[p + 1] = e.right
  BY <1>1, <1>3, <1>4, <1>6
<1> QED BY <1>1, <1>3, <1>6, <1>7 DEF c

(* What the top of the heap is when it is merged: the highest pair there   *)
(* is, and the symbols that are not part of it stay as they are.           *)
LEMMA TopIsHighestPair ==
  ASSUME NEW v \in Vocabularies, NEW w \in Seq(Character), NEW table, NEW queue,
         Merging(v, w, table, queue), queue # {}, ~Stale(table, Top(queue))
  PROVE  LET top == Top(queue)
             m == Merged(table, top)
             c == Chain(table)
             d == Chain(m)
             Of(p) == MakeCandidate(v, w, table, c[p], c[p + 1])
         IN  \E p \in 1 .. Len(c) - 1 :
               /\ top \in Of(p)
               /\ \A other \in (UNION {Of(q) : q \in 1 .. Len(c) - 1}) \ {top} : Higher(top, other)
               /\ d = RemoveAt(c, p + 1)
               /\ m[c[p]].id = top.id
               /\ \A k \in Range(d) \ {c[p]} : m[k].id = table[k].id /\ m[k].size = table[k].size
<1> DEFINE top == Top(queue)
           m == Merged(table, top)
           c == Chain(table)
           d == Chain(m)
           Of(p) == MakeCandidate(v, w, table, c[p], c[p + 1])
           all == UNION {Of(q) : q \in 1 .. Len(c) - 1}
<1> SUFFICES \E p \in 1 .. Len(c) - 1 :
               /\ top \in Of(p)
               /\ \A other \in all \ {top} : Higher(top, other)
               /\ d = RemoveAt(c, p + 1)
               /\ m[c[p]].id = top.id
               /\ \A k \in Range(d) \ {c[p]} : m[k].id = table[k].id /\ m[k].size = table[k].size
  OBVIOUS
<1>1. /\ Sound(v, w, table) /\ queue \subseteq Candidate(v, w, table) /\ IsFiniteSet(queue)
  BY DEF Merging
<1>2. queue \in SUBSET Key
  BY <1>1, CandidatesAreKeys
<1>3. top \in queue /\ \A other \in queue \ {top} : Higher(top, other)
  BY <1>1, <1>2, TopIsHighest
<1>4. top \in Candidate(v, w, table)
  BY <1>1, <1>3
<1> HIDE DEF top
<1>5. PICK p \in 1 .. Len(c) - 1 : c[p] = top.left /\ c[p + 1] = top.right /\ top \in Of(p)
  BY <1>1, <1>4, FreshIsAPair DEF top
<1>6. \A q \in 1 .. Len(c) - 1 : Of(q) \subseteq queue
  BY PairsAreQueued
<1>7. \A other \in all \ {top} : Higher(top, other)
  <2> HIDE DEF Of, c
  <2> QED BY <1>3, <1>6
<1>8. d = RemoveAt(c, p + 1)
  BY <1>1, <1>4, <1>5, ChainOfMerged DEF top
<1>9. /\ top.left \in 1 .. Len(w)
      /\ \A k \in 1 .. Len(w) :
           /\ m[k].id = IF k = top.left THEN top.id ELSE table[k].id
           /\ m[k].size = IF k = top.left THEN top.size
                          ELSE IF k = top.right THEN 0 ELSE table[k].size
  BY <1>1, <1>4, MergedFields, FreshCandidate DEF top
<1>10. Sound(v, w, m)
  BY <1>1, <1>4, MergedIsSound DEF top
<1>11. d \in Seq(1 .. Len(w)) /\ \A q \in 1 .. Len(d) : d[q] \in 1 .. Len(w) /\ m[d[q]].size # 0
  BY <1>10, ChainReaches
<1> HIDE DEF d, m, c, Of, all
<1>12. ASSUME NEW k \in Range(d) \ {c[p]}
       PROVE  m[k].id = table[k].id /\ m[k].size = table[k].size
  <2>1. PICK q \in 1 .. Len(d) : k = d[q]
    <3>1. Range(d) = {d[q] : q \in 1 .. Len(d)}
      BY <1>11, RangeEquality
    <3> QED BY <3>1
  <2>2. k \in 1 .. Len(w) /\ m[k].size # 0 /\ k # top.left
    BY <1>5, <1>11, <2>1
  <2> QED BY <1>9, <2>2
<1>13. m[c[p]].id = top.id
  BY <1>5, <1>9
<1> QED BY <1>5, <1>7, <1>8, <1>12, <1>13
-----------------------------------------------------------------------------
(* Bytes *)

(* Induction on sequences, as sets of sequences. *)
LEMMA InductionOnSequences ==
  ASSUME NEW S, NEW T, <<>> \in T, \A s \in Seq(S), e \in S : s \in T => Append(s, e) \in T
  PROVE  Seq(S) \subseteq T
<1> DEFINE N == {n \in Nat : \A s \in Seq(S) : Len(s) = n => s \in T}
<1>1. 0 \in N
  BY EmptySeq
<1>2. ASSUME NEW n \in Nat, n \in N
      PROVE  n + 1 \in N
  <2> SUFFICES ASSUME NEW s \in Seq(S), Len(s) = n + 1 PROVE s \in T
    OBVIOUS
  <2>1. s # <<>>
    BY EmptySeq
  <2>2. PICK r \in Seq(S), e \in S : s = Append(r, e)
    BY <2>1, SequenceEmptyOrAppend
  <2>3. Len(s) = Len(r) + 1 /\ Len(r) \in Nat
    BY <2>2, AppendProperties, LenProperties
  <2>4. Len(r) = n
    BY <2>3
  <2> QED BY <1>2, <2>2, <2>4
<1> HIDE DEF N
<1>3. \A n \in Nat : n \in N
  BY <1>1, <1>2, InductionOnNumbers
<1> QED BY <1>3, LenProperties DEF N

(* When two concatenations are equal the shorter of their last parts ends  *)
(* the longer one.                                                         *)
LEMMA ShorterIsSuffix ==
  ASSUME NEW S, NEW a \in Seq(S), NEW b \in Seq(S), NEW x \in Seq(S), NEW y \in Seq(S),
         a \o b = x \o y, Len(y) <= Len(b)
  PROVE  SubSeq(b, Len(b) - Len(y) + 1, Len(b)) = y
<1> DEFINE n == Len(b) - Len(y) + 1
           t == SubSeq(b, n, Len(b))
<1>1. Len(a) \in Nat /\ Len(b) \in Nat /\ Len(x) \in Nat /\ Len(y) \in Nat
  BY LenProperties
<1>2. n \in 1 .. Len(b) + 1
  BY <1>1
<1>3. \A j \in n .. Len(b) : b[j] \in S
  <2> HIDE DEF n
  <2>1. \A j \in n .. Len(b) : j \in 1 .. Len(b)
    BY <1>1, <1>2
  <2> QED BY <2>1, ElementOfSeq
<1>4. /\ t \in Seq(S) /\ Len(t) = IF n <= Len(b) THEN Len(b) - n + 1 ELSE 0
      /\ \A j \in 1 .. Len(b) - n + 1 : t[j] = b[n + j - 1]
  <2> HIDE DEF n
  <2> QED BY <1>1, <1>2, <1>3, SubSeqProperties
<1>5. Len(t) = Len(y)
  BY <1>1, <1>4
<1>6. /\ Len(a) + Len(b) = Len(x) + Len(y)
      /\ \A j \in 1 .. Len(a) + Len(b) : (a \o b)[j] = IF j <= Len(a) THEN a[j] ELSE b[j - Len(a)]
      /\ \A j \in 1 .. Len(x) + Len(y) : (x \o y)[j] = IF j <= Len(x) THEN x[j] ELSE y[j - Len(x)]
  <2>1. Len(a \o b) = Len(a) + Len(b) /\ Len(x \o y) = Len(x) + Len(y)
    BY ConcatProperties
  <2> QED BY <2>1, ConcatProperties, SMTT(40)
<1> HIDE DEF t
<1>7. ASSUME NEW j \in 1 .. Len(y)
      PROVE  t[j] = y[j]
  <2>1. PICK p \in 1 .. Len(x) + Len(y) : p = Len(x) + j
    BY <1>1
  <2>2. (x \o y)[p] = y[j]
    <3>1. ~(p <= Len(x)) /\ p - Len(x) = j
      BY <1>1, <2>1
    <3> QED BY <1>6, <3>1
  <2>3. (a \o b)[p] = b[n + j - 1]
    <3>1. ~(p <= Len(a)) /\ p - Len(a) = n + j - 1 /\ p \in 1 .. Len(a) + Len(b)
      <4>1. PICK la \in Nat, lb \in Nat, lx \in Nat, ly \in Nat :
              la = Len(a) /\ lb = Len(b) /\ lx = Len(x) /\ ly = Len(y)
        BY <1>1
      <4>2. /\ j \in 1 .. ly /\ p = lx + j /\ la + lb = lx + ly /\ ly <= lb
            /\ n = lb - ly + 1
        BY <1>6, <2>1, <4>1
      <4> HIDE DEF n
      <4>3. ~(p <= la) /\ p - la = n + j - 1 /\ p \in 1 .. la + lb
        BY <4>2
      <4> QED BY <4>1, <4>3
    <3> HIDE DEF n
    <3> QED BY <1>6, <3>1
  <2>4. j \in 1 .. Len(b) - n + 1
    BY <1>1
  <2> QED BY <1>4, <2>2, <2>3, <2>4
<1> QED BY <1>4, <1>5, <1>7, SeqEqual DEF t

(* The bytes of one character more. *)
LEMMA BytesOfAppend ==
  ASSUME NEW s \in Seq(DOMAIN Utf8), NEW c \in DOMAIN Utf8
  PROVE  /\ Bytes(s) \in Seq(Byte)
         /\ Bytes(Append(s, c)) = Bytes(s) \o Utf8[c]
<1> DEFINE n == Len(s)
           more == Append(s, c)
           ls == [k \in 1 .. n |-> Utf8[s[k]]]
           ms == [k \in 1 .. Len(more) |-> Utf8[more[k]]]
<1>1. n \in Nat /\ \A k \in 1 .. n : s[k] \in DOMAIN Utf8
  BY LenProperties, ElementOfSeq
<1>2. Len(more) = n + 1 /\ more[n + 1] = c /\ \A k \in 1 .. n : more[k] = s[k]
  BY AppendProperties
<1>3. \A d \in DOMAIN Utf8 : Utf8[d] \in Seq(Byte)
  BY TokenizerAssumption
<1> HIDE DEF n, more
<1>4. ls \in Seq(Seq(Byte)) /\ Len(ls) = n /\ \A k \in 1 .. n : ls[k] = Utf8[s[k]]
  BY <1>1, <1>3
<1>5. ms = Append(ls, Utf8[c])
  <2>1. /\ ms \in Seq(Seq(Byte)) /\ Len(ms) = n + 1
        /\ \A k \in 1 .. n + 1 : ms[k] = Utf8[more[k]]
    BY <1>1, <1>2, <1>3
  <2> HIDE DEF ms, ls
  <2>2. /\ Append(ls, Utf8[c]) \in Seq(Seq(Byte)) /\ Len(Append(ls, Utf8[c])) = n + 1
        /\ \A k \in 1 .. n : Append(ls, Utf8[c])[k] = ls[k]
        /\ Append(ls, Utf8[c])[n + 1] = Utf8[c]
    BY <1>3, <1>4, AppendProperties
  <2>3. \A k \in 1 .. n + 1 : ms[k] = Append(ls, Utf8[c])[k]
    <3> SUFFICES ASSUME NEW k \in 1 .. n + 1 PROVE ms[k] = Append(ls, Utf8[c])[k]
      OBVIOUS
    <3>1. CASE k = n + 1
      BY <1>2, <2>1, <2>2, <3>1
    <3>2. CASE k # n + 1
      <4>1. k \in 1 .. n
        BY <1>1, <3>2
      <4>2. ms[k] = Utf8[more[k]] /\ more[k] = s[k]
        BY <1>2, <2>1, <4>1
      <4>3. Append(ls, Utf8[c])[k] = ls[k] /\ ls[k] = Utf8[s[k]]
        BY <1>4, <2>2, <4>1
      <4> QED BY <4>2, <4>3
    <3> QED BY <3>1, <3>2
  <2> QED BY <2>1, <2>2, <2>3, SeqEqual
<1>6. Bytes(s) = FlattenSeq(ls) /\ Bytes(more) = FlattenSeq(ms)
  BY DEF Bytes, n
<1> HIDE DEF ls, ms
<1> QED BY <1>3, <1>4, <1>5, <1>6, FlattenAppend DEF more

(* No characters have no bytes. *)
LEMMA BytesOfNothing == Bytes(<<>>) = <<>>
<1>1. [k \in 1 .. Len(<<>>) |-> Utf8[<<>>[k]]] = <<>>
  OBVIOUS
<1> QED BY <1>1 DEF Bytes, FlattenSeq

(* Each character has a byte at least. *)
LEMMA BytesAreLonger ==
  ASSUME NEW s \in Seq(DOMAIN Utf8)
  PROVE  Bytes(s) \in Seq(Byte) /\ Len(s) <= Len(Bytes(s))
<1> DEFINE T == {r \in Seq(DOMAIN Utf8) : Bytes(r) \in Seq(Byte) /\ Len(r) <= Len(Bytes(r))}
<1>1. <<>> \in T
  <2>1. <<>> \in Seq(DOMAIN Utf8) /\ <<>> \in Seq(Byte) /\ Len(<<>>) <= Len(<<>>)
    OBVIOUS
  <2> QED BY <2>1, BytesOfNothing
<1>2. ASSUME NEW r \in Seq(DOMAIN Utf8), NEW c \in DOMAIN Utf8, r \in T
      PROVE  Append(r, c) \in T
  <2>1. Bytes(r) \in Seq(Byte) /\ Bytes(Append(r, c)) = Bytes(r) \o Utf8[c]
    BY BytesOfAppend
  <2>2. Utf8[c] \in Seq(Byte) /\ Utf8[c] # <<>>
    BY TokenizerAssumption
  <2>3. Len(Utf8[c]) \in Nat \ {0} /\ Len(Bytes(r)) \in Nat /\ Len(r) \in Nat
    BY <2>1, <2>2, EmptySeq, LenProperties
  <2>4. /\ Bytes(r) \o Utf8[c] \in Seq(Byte)
        /\ Len(Bytes(r) \o Utf8[c]) = Len(Bytes(r)) + Len(Utf8[c])
    BY <2>1, <2>2, ConcatProperties
  <2>5. Append(r, c) \in Seq(DOMAIN Utf8) /\ Len(Append(r, c)) = Len(r) + 1
    BY AppendProperties
  <2>6. Len(r) <= Len(Bytes(r))
    BY <1>2
  <2>7. Len(Append(r, c)) <= Len(Bytes(Append(r, c)))
    BY <2>1, <2>3, <2>4, <2>5, <2>6
  <2> QED BY <2>1, <2>4, <2>5, <2>7
<1> HIDE DEF T
<1>3. Seq(DOMAIN Utf8) \subseteq T
  BY <1>1, <1>2, InductionOnSequences
<1> QED BY <1>3 DEF T

(* A text is the only one with its bytes: what its last character is shows *)
(* at the end of the bytes.                                                *)
LEMMA BytesAreUnique ==
  ASSUME NEW s \in Seq(DOMAIN Utf8), NEW t \in Seq(DOMAIN Utf8), Bytes(s) = Bytes(t)
  PROVE  s = t
<1> DEFINE D == DOMAIN Utf8
           T == {a \in Seq(D) : \A b \in Seq(D) : Bytes(a) = Bytes(b) => a = b}
<1>0. \A c \in D : Utf8[c] \in Seq(Byte) /\ Utf8[c] # <<>> /\ Len(Utf8[c]) \in Nat \ {0}
  BY TokenizerAssumption, EmptySeq
<1>1. <<>> \in T
  <2> SUFFICES ASSUME NEW b \in Seq(D), Bytes(<<>>) = Bytes(b) PROVE <<>> = b
    BY EmptySeq
  <2>1. Len(b) \in Nat /\ Len(b) <= Len(<<>>)
    BY BytesOfNothing, BytesAreLonger, LenProperties
  <2> QED BY <2>1, EmptySeq
<1>2. ASSUME NEW a \in Seq(D), NEW c \in D, a \in T
      PROVE  Append(a, c) \in T
  <2> SUFFICES ASSUME NEW b \in Seq(D), Bytes(Append(a, c)) = Bytes(b)
               PROVE  Append(a, c) = b
    BY AppendProperties
  <2>1. Bytes(a) \in Seq(Byte) /\ Bytes(Append(a, c)) = Bytes(a) \o Utf8[c]
    BY BytesOfAppend
  <2>2. b # <<>>
    <3>1. Bytes(a) \o Utf8[c] # <<>>
      BY <1>0, <2>1, ConcatEqualIffEmpty
    <3> QED BY <2>1, <3>1, BytesOfNothing
  <2>3. PICK e \in Seq(D), d \in D : b = Append(e, d)
    BY <2>2, SequenceEmptyOrAppend
  <2>4. Bytes(e) \in Seq(Byte) /\ Bytes(a) \o Utf8[c] = Bytes(e) \o Utf8[d]
    BY <2>1, <2>3, BytesOfAppend
  <2>5. c = d
    <3> HIDE DEF D
    <3>1. CASE Len(Utf8[d]) <= Len(Utf8[c])
      <4> DEFINE n == Len(Utf8[c]) - Len(Utf8[d]) + 1
      <4>1. SubSeq(Utf8[c], n, Len(Utf8[c])) = Utf8[d]
        BY <1>0, <2>1, <2>4, <3>1, ShorterIsSuffix
      <4>a. PICK p \in Nat \ {0}, q \in Nat \ {0} :
              p = Len(Utf8[c]) /\ q = Len(Utf8[d])
        BY <1>0
      <4>b. q <= p /\ n = p - q + 1
        BY <3>1, <4>a
      <4>2. n \in 1 .. Len(Utf8[c])
        <5> HIDE DEF n
        <5>1. n \in 1 .. p
          BY <4>b
        <5> QED BY <4>a, <5>1
      <4> HIDE DEF n
      <4> QED BY <4>1, <4>2, TokenizerAssumption DEF Utf8IsSuffixFree, D
    <3>2. CASE Len(Utf8[c]) <= Len(Utf8[d])
      <4> DEFINE n == Len(Utf8[d]) - Len(Utf8[c]) + 1
      <4>1. SubSeq(Utf8[d], n, Len(Utf8[d])) = Utf8[c]
        BY <1>0, <2>1, <2>4, <3>2, ShorterIsSuffix
      <4>a. PICK p \in Nat \ {0}, q \in Nat \ {0} :
              p = Len(Utf8[d]) /\ q = Len(Utf8[c])
        BY <1>0
      <4>b. q <= p /\ n = p - q + 1
        BY <3>2, <4>a
      <4>2. n \in 1 .. Len(Utf8[d])
        <5> HIDE DEF n
        <5>1. n \in 1 .. p
          BY <4>b
        <5> QED BY <4>a, <5>1
      <4> HIDE DEF n
      <4> QED BY <4>1, <4>2, TokenizerAssumption DEF Utf8IsSuffixFree, D
    <3>3. Len(Utf8[c]) \in Nat /\ Len(Utf8[d]) \in Nat
      BY <1>0
    <3> QED BY <3>1, <3>2, <3>3
  <2>6. Bytes(a) = Bytes(e)
    <3>1. \A p, q, r \in Seq(Byte) : p \o r = q \o r => p = q
      BY ConcatSimplifications
    <3>2. Bytes(a) \o Utf8[c] = Bytes(e) \o Utf8[c] /\ Utf8[c] \in Seq(Byte)
      BY <1>0, <2>4, <2>5
    <3> QED BY <2>1, <2>4, <3>1, <3>2
  <2>7. a = e
    BY <1>2, <2>6
  <2> QED BY <2>3, <2>5, <2>7
<1> HIDE DEF T
<1>3. Seq(D) \subseteq T
  BY <1>1, <1>2, InductionOnSequences
<1> QED BY <1>3 DEF T

(* A run that is the bytes of characters is flushed as these characters. *)
LEMMA FlushedCharacters ==
  ASSUME NEW partial, NEW rest \in Seq(DOMAIN Utf8), partial.run = Bytes(rest)
  PROVE  Flushed(partial) = partial.text \o rest
<1> DEFINE D == DOMAIN Utf8
           run == partial.run
<1>1. rest \in SeqOf(D, Len(run))
  <2>1. run \in Seq(Byte) /\ Len(rest) <= Len(run)
    BY BytesAreLonger
  <2>2. Len(rest) \in 0 .. Len(run) /\ rest \in [1 .. Len(rest) -> D]
    BY <2>1, LenProperties
  <2> HIDE DEF run
  <2> QED BY <2>2 DEF SeqOf
<1>2. \A s \in SeqOf(D, Len(run)) : s \in Seq(D)
  BY DEF SeqOf
<1>3. \A s : FlattenSeq([k \in 1 .. Len(s) |-> Utf8[s[k]]]) = Bytes(s)
  BY DEF Bytes
<1>4. Readings(run) = {s \in SeqOf(D, Len(run)) : Bytes(s) = run}
  BY <1>3 DEF Readings
<1>5. rest \in Readings(run) /\ \A s \in Readings(run) : s = rest
  <2>1. \A s \in Seq(D) : Bytes(s) = Bytes(rest) => s = rest
    BY BytesAreUnique
  <2> HIDE DEF D, run
  <2> QED BY <1>1, <1>2, <1>4, <2>1 DEF run
<1> QED BY <1>5 DEF Flushed

-----------------------------------------------------------------------------
(* What Decode has read *)

(* The function that Partial computes: what is read of the first k tokens. *)
Reader(v, tokens) ==
  CHOOSE f : f = [k \in 0 .. Len(tokens) |->
                    IF k = 0 THEN [text |-> <<>>, run |-> <<>>]
                    ELSE DecodeNext(v, f[k - 1], tokens[k])]

(* The function exists for any tokens. *)
LEMMA ReaderIsDefined ==
  ASSUME NEW v, NEW S, NEW tokens \in Seq(S)
  PROVE  /\ Partial(v, tokens) = Reader(v, tokens)[Len(tokens)]
         /\ Reader(v, tokens)[0] = [text |-> <<>>, run |-> <<>>]
         /\ \A k \in 1 .. Len(tokens) :
              Reader(v, tokens)[k] = DecodeNext(v, Reader(v, tokens)[k - 1], tokens[k])
<1> DEFINE n == Len(tokens)
           empty == [text |-> <<>>, run |-> <<>>]
           More(p, k) == DecodeNext(v, p, tokens[k])
           Step(f, k) == IF k = 0 THEN empty ELSE More(f[k - 1], k)
           S1 == {m \in Nat : \E f : \A k \in 0 .. m : f[k] = Step(f, k)}
<1>0. n \in Nat
  BY LenProperties
<1> HIDE DEF empty, More
<1>1. 0 \in S1
  <2> DEFINE g == [k \in 0 .. 0 |-> empty]
  <2>1. \A k \in 0 .. 0 : g[k] = Step(g, k)
    OBVIOUS
  <2> HIDE DEF g, Step
  <2> QED BY <2>1
<1>2. ASSUME NEW m \in Nat, m \in S1
      PROVE  m + 1 \in S1
  <2>1. PICK f : \A k \in 0 .. m : f[k] = Step(f, k)
    BY <1>2
  <2> DEFINE g == [k \in 0 .. m + 1 |-> IF k = m + 1 THEN Step(f, k) ELSE f[k]]
  <2>2. \A k \in 0 .. m + 1 : g[k] = IF k = m + 1 THEN Step(f, k) ELSE f[k]
    OBVIOUS
  <2> HIDE DEF g
  <2>3. ASSUME NEW k \in 0 .. m + 1
        PROVE  g[k] = Step(g, k)
    <3>1. Step(g, k) = Step(f, k)
      <4>1. CASE k = 0
        BY <4>1
      <4>2. CASE k # 0
        <5>1. k - 1 \in 0 .. m + 1 /\ k - 1 # m + 1
          BY <2>3, <4>2
        <5>2. g[k - 1] = f[k - 1]
          BY <2>2, <5>1
        <5> QED BY <4>2, <5>2
      <4> QED BY <4>1, <4>2
    <3>2. CASE k = m + 1
      <4> HIDE DEF Step
      <4> QED BY <2>2, <3>1, <3>2
    <3>3. CASE k # m + 1
      <4>1. k \in 0 .. m
        BY <3>3
      <4> HIDE DEF Step
      <4> QED BY <2>1, <2>2, <3>1, <3>3, <4>1
    <3> QED BY <3>2, <3>3
  <2> HIDE DEF Step
  <2> QED BY <2>3
<1> HIDE DEF S1
<1>3. n \in S1
  BY <1>0, <1>1, <1>2, InductionOnNumbers
<1>4. PICK f : \A k \in 0 .. n : f[k] = Step(f, k)
  BY <1>3 DEF S1
<1> DEFINE h == [k \in 0 .. n |-> f[k]]
<1>5. \A k \in 0 .. n : h[k] = f[k]
  OBVIOUS
<1>6. h = [k \in 0 .. n |-> h[k]]
  OBVIOUS
<1> HIDE DEF h
<1>7. \A k \in 0 .. n : h[k] = Step(h, k)
  <2> SUFFICES ASSUME NEW k \in 0 .. n PROVE h[k] = Step(h, k)
    OBVIOUS
  <2>1. Step(h, k) = Step(f, k)
    <3>1. CASE k = 0
      BY <3>1
    <3>2. CASE k # 0
      <4>1. k - 1 \in 0 .. n
        BY <1>0, <3>2
      <4>2. h[k - 1] = f[k - 1]
        BY <1>5, <4>1
      <4> QED BY <3>2, <4>2
    <3> QED BY <3>1, <3>2
  <2> HIDE DEF Step
  <2> QED BY <1>4, <1>5, <2>1
<1>8. h = [k \in 0 .. n |-> Step(h, k)]
  <2> HIDE DEF Step
  <2> QED BY <1>6, <1>7
<1>9. \E g : g = [k \in 0 .. n |-> Step(g, k)]
  <2> HIDE DEF Step
  <2> QED BY <1>8, Zenon
<1> DEFINE r == Reader(v, tokens)
<1>10. r = [k \in 0 .. n |-> Step(r, k)]
  BY <1>9 DEF Reader, empty, More
<1>11. Partial(v, tokens) = r[n]
  BY DEF Partial, Reader
<1> HIDE DEF r
<1>12. \A k \in 0 .. n : r[k] = Step(r, k)
  <2> DEFINE e == [k \in 0 .. n |-> Step(r, k)]
  <2>1. \A k \in 0 .. n : e[k] = Step(r, k)
    OBVIOUS
  <2>2. r = e
    BY <1>10
  <2> HIDE DEF e, Step
  <2> QED BY <2>1, <2>2
<1>13. r[0] = empty
  BY <1>0, <1>12
<1>14. ASSUME NEW k \in 1 .. n
       PROVE  r[k] = More(r[k - 1], k)
  <2>1. k \in 0 .. n /\ k # 0
    BY <1>0
  <2> QED BY <1>12, <2>1
<1> QED BY <1>11, <1>13, <1>14 DEF r, empty, More, n

(* Nothing is read of no tokens, and one token more is read after them. *)
LEMMA PartialOfAppend ==
  ASSUME NEW v, NEW S, NEW tokens \in Seq(S), NEW id \in S
  PROVE  /\ Partial(v, <<>>) = [text |-> <<>>, run |-> <<>>]
         /\ Partial(v, Append(tokens, id)) = DecodeNext(v, Partial(v, tokens), id)
<1> DEFINE n == Len(tokens)
           more == Append(tokens, id)
           r == Reader(v, tokens)
           q == Reader(v, more)
           Same == {k \in Nat : k \in 0 .. n => q[k] = r[k]}
<1>1. n \in Nat
  BY LenProperties
<1>2. /\ more \in Seq(S) /\ Len(more) = n + 1 /\ more[n + 1] = id
      /\ \A k \in 1 .. n : more[k] = tokens[k]
  BY AppendProperties
<1>3. Partial(v, <<>>) = [text |-> <<>>, run |-> <<>>]
  <2>1. <<>> \in Seq(S) /\ Len(<<>>) = 0
    BY EmptySeq
  <2> QED BY <2>1, ReaderIsDefined
<1>4. /\ Partial(v, tokens) = r[n] /\ r[0] = [text |-> <<>>, run |-> <<>>]
      /\ \A k \in 1 .. n : r[k] = DecodeNext(v, r[k - 1], tokens[k])
  BY ReaderIsDefined
<1>5. /\ Partial(v, more) = q[n + 1] /\ q[0] = [text |-> <<>>, run |-> <<>>]
      /\ \A k \in 1 .. n + 1 : q[k] = DecodeNext(v, q[k - 1], more[k])
  <2>1. /\ Partial(v, more) = q[Len(more)] /\ q[0] = [text |-> <<>>, run |-> <<>>]
        /\ \A k \in 1 .. Len(more) : q[k] = DecodeNext(v, q[k - 1], more[k])
    BY <1>2, ReaderIsDefined
  <2> QED BY <1>2, <2>1
<1> HIDE DEF n, more, r, q
<1>6. 0 \in Same
  BY <1>4, <1>5
<1>7. ASSUME NEW k \in Nat, k \in Same
      PROVE  k + 1 \in Same
  <2> SUFFICES ASSUME k + 1 \in 0 .. n PROVE q[k + 1] = r[k + 1]
    OBVIOUS
  <2>1. k + 1 \in 1 .. n /\ k + 1 \in 1 .. n + 1 /\ (k + 1) - 1 = k /\ k \in 0 .. n
    BY <1>1
  <2>2. q[k] = r[k]
    BY <1>7, <2>1
  <2>3. r[k + 1] = DecodeNext(v, r[k], tokens[k + 1])
    BY <1>4, <2>1
  <2>4. q[k + 1] = DecodeNext(v, q[k], more[k + 1])
    BY <1>5, <2>1
  <2> QED BY <1>2, <2>1, <2>2, <2>3, <2>4
<1> HIDE DEF Same
<1>8. \A k \in Nat : k \in Same
  BY <1>6, <1>7, InductionOnNumbers
<1>9. q[n] = r[n]
  BY <1>1, <1>8 DEF Same
<1>10. q[n + 1] = DecodeNext(v, q[n], id)
  <2>1. n + 1 \in 1 .. n + 1 /\ (n + 1) - 1 = n
    BY <1>1
  <2> QED BY <1>2, <1>5, <2>1
<1> QED BY <1>3, <1>4, <1>5, <1>9, <1>10 DEF more

(* Nothing stands for the empty text. *)
LEMMA NothingRestores ==
  ASSUME NEW v
  PROVE  Restores(v, <<>>, <<>>)
<1>1. Partial(v, <<>>) = [text |-> <<>>, run |-> <<>>]
  <2>1. <<>> \in Seq({0}) /\ 0 \in {0}
    OBVIOUS
  <2> QED BY <2>1, PartialOfAppend
<1>2. <<>> \in Seq(Character) /\ <<>> \in Seq(DOMAIN Utf8) /\ <<>> \o <<>> = <<>>
  OBVIOUS
<1>3. Partial(v, <<>>).text = <<>> /\ Partial(v, <<>>).run = Bytes(<<>>)
  BY <1>1, BytesOfNothing
<1>4. \E rest \in Seq(DOMAIN Utf8) :
        Partial(v, <<>>).run = Bytes(rest) /\ Partial(v, <<>>).text \o rest = <<>>
  BY <1>2, <1>3
<1> QED BY <1>2, <1>3, <1>4 DEF Restores

(* Tokens that stand for a text are decoded to it. *)
LEMMA RestoredIsDecoded ==
  ASSUME NEW v, NEW tokens, NEW s, Restores(v, tokens, s)
  PROVE  Decode(v, tokens) = s /\ s \in Seq(Character)
<1>1. PICK rest \in Seq(DOMAIN Utf8) : /\ Partial(v, tokens).run = Bytes(rest)
                                       /\ Partial(v, tokens).text \o rest = s
  BY DEF Restores
<1>2. Decode(v, tokens) = s
  BY <1>1, FlushedCharacters DEF Decode
<1>3. rest \in Seq(Character)
  BY TokenizerAssumption, SeqMonotonic
<1>4. Partial(v, tokens).text \in Seq(Character)
  BY DEF Restores
<1> QED BY <1>1, <1>2, <1>3, <1>4, ConcatProperties

(* A token of characters stands for them, with its spaces. *)
LEMMA NormalTokenRestores ==
  ASSUME NEW v \in Vocabularies, NEW tokens \in Seq(Ids(v)), NEW s, Restores(v, tokens, s),
         NEW id \in Ids(v), v.kind[id] = "normal", v.piece[id] \in Seq(Character)
  PROVE  Restores(v, Append(tokens, id), s \o WithSpaces(v.piece[id]))
<1> DEFINE p == Partial(v, tokens)
           piece == WithSpaces(v.piece[id])
           q == Partial(v, Append(tokens, id))
<1>1. PICK rest \in Seq(DOMAIN Utf8) : p.run = Bytes(rest) /\ p.text \o rest = s
  BY DEF Restores
<1>2. Flushed(p) = s
  BY <1>1, FlushedCharacters
<1>3. q = DecodeNext(v, p, id)
  BY PartialOfAppend
<1>4. q = [text |-> s \o piece, run |-> <<>>]
  <2> HIDE DEF p, q, piece
  <2> QED BY <1>2, <1>3 DEF DecodeNext, piece
<1>5. s \in Seq(Character)
  BY RestoredIsDecoded
<1>6. piece \in Seq(Character)
  BY TokenizerAssumption DEF WithSpaces
<1> HIDE DEF p, q, piece
<1>7. s \o piece \in Seq(Character) /\ (s \o piece) \o <<>> = s \o piece
  BY <1>5, <1>6, ConcatProperties, ConcatEmptySeq
<1>8. <<>> \in Seq(DOMAIN Utf8) /\ q.text = s \o piece /\ q.run = <<>>
  BY <1>4
<1> QED BY <1>7, <1>8, BytesOfNothing DEF Restores, q, piece

(* Bytes that have a token are read from their tokens, one by one. *)
LEMMA BytesAreRead ==
  ASSUME NEW v \in Vocabularies, NEW tokens \in Seq(Ids(v)), NEW bytes \in Seq(Byte),
         Partial(v, tokens).run \in Seq(Byte),
         \A b \in Range(bytes) : \E id \in Ids(v) : v.kind[id] = "byte" /\ v.piece[id] = <<b>>
  PROVE  LET named == [j \in 1 .. Len(bytes) |-> ByteId(v, bytes[j])]
         IN  /\ named \in Seq(Ids(v))
             /\ Partial(v, tokens \o named).text = Partial(v, tokens).text
             /\ Partial(v, tokens \o named).run = Partial(v, tokens).run \o bytes
<1> DEFINE Has(b) == \E id \in Ids(v) : v.kind[id] = "byte" /\ v.piece[id] = <<b>>
           known == {b \in Byte : Has(b)}
           Named1(s) == [j \in 1 .. Len(s) |-> ByteId(v, s[j])]
           Good(s) == /\ Named1(s) \in Seq(Ids(v))
                      /\ Partial(v, tokens \o Named1(s)).text = Partial(v, tokens).text
                      /\ Partial(v, tokens \o Named1(s)).run = Partial(v, tokens).run \o s
           T == {s \in Seq(known) : Good(s)}
<1>0. \A b \in known : /\ ByteId(v, b) \in Ids(v) /\ v.kind[ByteId(v, b)] = "byte"
                       /\ v.piece[ByteId(v, b)] = <<b>>
  BY DEF ByteId
<1> HIDE DEF known
<1>1. <<>> \in T
  <2>1. Named1(<<>>) = <<>>
    OBVIOUS
  <2>2. tokens \o <<>> = tokens /\ Partial(v, tokens).run \o <<>> = Partial(v, tokens).run
    BY ConcatEmptySeq
  <2>3. <<>> \in Seq(Ids(v)) /\ <<>> \in Seq(known)
    OBVIOUS
  <2> HIDE DEF Named1
  <2> QED BY <2>1, <2>2, <2>3
<1>2. ASSUME NEW s \in Seq(known), NEW b \in known, s \in T
      PROVE  Append(s, b) \in T
  <2> DEFINE a == Named1(s)
             id == ByteId(v, b)
  <2>1. /\ a \in Seq(Ids(v))
        /\ Partial(v, tokens \o a).text = Partial(v, tokens).text
        /\ Partial(v, tokens \o a).run = Partial(v, tokens).run \o s
    BY <1>2
  <2>2. id \in Ids(v) /\ v.kind[id] = "byte" /\ v.piece[id] = <<b>>
    BY <1>0
  <2>3. Append(s, b) \in Seq(known)
    BY AppendProperties
  <2>4. Named1(Append(s, b)) = Append(a, id)
    <3> DEFINE e == Named1(Append(s, b))
    <3>1. /\ Len(Append(s, b)) = Len(s) + 1 /\ Len(s) \in Nat
          /\ \A j \in 1 .. Len(s) : Append(s, b)[j] = s[j]
          /\ Append(s, b)[Len(s) + 1] = b
      BY AppendProperties, LenProperties
    <3>2. \A j \in 1 .. Len(s) + 1 : e[j] = ByteId(v, Append(s, b)[j])
      BY <3>1
    <3>3. e \in Seq(Ids(v)) /\ Len(e) = Len(s) + 1
      <4>1. \A j \in 1 .. Len(s) + 1 : Append(s, b)[j] \in known
        BY <2>3, <3>1, ElementOfSeq
      <4> QED BY <1>0, <3>1, <4>1
    <3>4. Len(a) = Len(s) /\ \A j \in 1 .. Len(s) : a[j] = ByteId(v, s[j])
      BY <3>1
    <3> HIDE DEF a, e, id
    <3>5. /\ Append(a, id) \in Seq(Ids(v)) /\ Len(Append(a, id)) = Len(s) + 1
          /\ \A j \in 1 .. Len(s) : Append(a, id)[j] = a[j]
          /\ Append(a, id)[Len(s) + 1] = id
      BY <2>1, <2>2, <3>4, AppendProperties
    <3>6. ASSUME NEW j \in 1 .. Len(s) + 1
          PROVE  e[j] = Append(a, id)[j]
      <4>1. CASE j = Len(s) + 1
        <5>1. e[j] = ByteId(v, b)
          BY <3>1, <3>2, <4>1
        <5> QED BY <3>5, <4>1, <5>1 DEF id
      <4>2. CASE j # Len(s) + 1
        <5>1. j \in 1 .. Len(s)
          BY <3>1, <4>2
        <5>2. e[j] = ByteId(v, s[j])
          BY <3>1, <3>2, <5>1
        <5> QED BY <3>4, <3>5, <5>1, <5>2
      <4> QED BY <4>1, <4>2
    <3>7. e = Append(a, id)
      BY <3>3, <3>5, <3>6, SeqEqual
    <3> QED BY <3>7 DEF e
  <2> HIDE DEF a, id
  <2>5. tokens \o Append(a, id) = Append(tokens \o a, id) /\ tokens \o a \in Seq(Ids(v))
    <3>1. tokens \o a \in Seq(Ids(v)) /\ <<id>> \in Seq(Ids(v))
      BY <2>1, <2>2, ConcatProperties
    <3>2. Append(a, id) = a \o <<id>> /\ Append(tokens \o a, id) = (tokens \o a) \o <<id>>
      BY <2>1, <2>2, <3>1, AppendIsConcat
    <3>3. (tokens \o a) \o <<id>> = tokens \o (a \o <<id>>)
      BY <2>1, <3>1, ConcatAssociative, SMTT(40)
    <3> QED BY <3>1, <3>2, <3>3
  <2>6. Partial(v, Append(tokens \o a, id)) = DecodeNext(v, Partial(v, tokens \o a), id)
    <3>1. PICK more \in Seq(Ids(v)) : more = tokens \o a
      BY <2>5
    <3>2. Partial(v, Append(more, id)) = DecodeNext(v, Partial(v, more), id)
      BY <2>2, PartialOfAppend
    <3> QED BY <3>1, <3>2
  <2>7. DecodeNext(v, Partial(v, tokens \o a), id) =
          [text |-> Partial(v, tokens).text, run |-> (Partial(v, tokens).run \o s) \o <<b>>]
    BY <2>1, <2>2 DEF DecodeNext
  <2>8. (Partial(v, tokens).run \o s) \o <<b>> = Partial(v, tokens).run \o Append(s, b)
    <3>1. s \in Seq(Byte) /\ b \in Byte /\ <<b>> \in Seq(Byte)
      BY SeqMonotonic DEF known
    <3>2. Append(s, b) = s \o <<b>>
      BY <3>1, AppendIsConcat
    <3>3. PICK run \in Seq(Byte) : run = Partial(v, tokens).run
      OBVIOUS
    <3>4. (run \o s) \o <<b>> = run \o (s \o <<b>>)
      BY <3>1, ConcatAssociative, SMTT(40)
    <3> QED BY <3>2, <3>3, <3>4
  <2>9. Append(a, id) \in Seq(Ids(v))
    BY <2>1, <2>2, AppendProperties
  <2> DEFINE p == Partial(v, tokens \o Named1(Append(s, b)))
  <2>10. p = [text |-> Partial(v, tokens).text, run |-> Partial(v, tokens).run \o Append(s, b)]
    BY <2>4, <2>5, <2>6, <2>7, <2>8
  <2> HIDE DEF p
  <2>11. /\ p.text = Partial(v, tokens).text
         /\ p.run = Partial(v, tokens).run \o Append(s, b)
    BY <2>10
  <2> HIDE DEF Named1
  <2> QED BY <2>3, <2>4, <2>9, <2>11 DEF p
<1> HIDE DEF T
<1>3. Seq(known) \subseteq T
  BY <1>1, <1>2, InductionOnSequences
<1>4. bytes \in Seq(known)
  <2>1. bytes \in Seq(Range(bytes))
    BY SeqOfRange
  <2>2. Range(bytes) \subseteq known
    BY RangeOfSeq DEF known
  <2> QED BY <2>1, <2>2, SeqMonotonic
<1>5. bytes \in T
  BY <1>3, <1>4
<1> QED BY <1>5 DEF T

(* The tokens of a character's bytes stand for it. *)
LEMMA CharacterRestores ==
  ASSUME NEW v \in Vocabularies, v.byte_fallback, NEW tokens \in Seq(Ids(v)), NEW s,
         Restores(v, tokens, s), NEW c \in DOMAIN Utf8
  PROVE  LET named == [j \in 1 .. Len(Utf8[c]) |-> ByteId(v, Utf8[c][j])]
         IN  named \in Seq(Ids(v)) /\ Restores(v, tokens \o named, s \o <<c>>)
<1> DEFINE D == DOMAIN Utf8
           named == [j \in 1 .. Len(Utf8[c]) |-> ByteId(v, Utf8[c][j])]
           p == Partial(v, tokens)
           q == Partial(v, tokens \o named)
<1>1. PICK rest \in Seq(D) : p.run = Bytes(rest) /\ p.text \o rest = s
  BY DEF Restores
<1>2. p.text \in Seq(Character)
  BY DEF Restores
<1>3. /\ Utf8[c] \in Seq(Byte) /\ D \subseteq Character
      /\ \A b \in Range(Utf8[c]) :
           \E id \in Ids(v) : v.kind[id] = "byte" /\ v.piece[id] = <<b>>
  BY TokenizerAssumption DEF WellFormed
<1>4. Bytes(rest) \in Seq(Byte) /\ Bytes(Append(rest, c)) = Bytes(rest) \o Utf8[c]
  BY BytesOfAppend
<1>5. named \in Seq(Ids(v)) /\ q.text = p.text /\ q.run = p.run \o Utf8[c]
  BY <1>1, <1>3, <1>4, BytesAreRead
<1>6. Append(rest, c) \in Seq(D) /\ Append(rest, c) = rest \o <<c>>
  BY AppendProperties, AppendIsConcat
<1>7. q.text \o Append(rest, c) = s \o <<c>>
  <2>1. rest \in Seq(Character) /\ <<c>> \in Seq(Character)
    BY <1>3, SeqMonotonic
  <2>2. PICK t \in Seq(Character) : t = p.text
    BY <1>2
  <2>3. (t \o rest) \o <<c>> = t \o (rest \o <<c>>)
    BY <2>1, ConcatAssociative
  <2> HIDE DEF p, q, named
  <2> QED BY <1>1, <1>5, <1>6, <2>2, <2>3
<1>8. q.run = Bytes(Append(rest, c)) /\ q.text \in Seq(Character)
  BY <1>1, <1>2, <1>4, <1>5
<1> HIDE DEF p, q, named
<1>9. \E more \in Seq(D) : q.run = Bytes(more) /\ q.text \o more = s \o <<c>>
  BY <1>6, <1>7, <1>8
<1>10. Restores(v, tokens \o named, s \o <<c>>)
  BY <1>8, <1>9 DEF Restores, q
<1> QED BY <1>5, <1>10 DEF named

(* Two pieces of a text, one after the other, with their spaces. *)
LEMMA SpacesOfPieces ==
  ASSUME NEW S, Space \in S, NEW s \in Seq(S), NEW a \in 0 .. Len(s), NEW b \in a .. Len(s)
  PROVE  WithSpaces(SubSeq(s, 1, a)) \o WithSpaces(SubSeq(s, a + 1, b)) =
           WithSpaces(SubSeq(s, 1, b))
<1> DEFINE x == SubSeq(s, 1, a)
           y == SubSeq(s, a + 1, b)
           z == SubSeq(s, 1, b)
           spaced(e) == IF e = Metaspace THEN Space ELSE e
<1>1. Len(s) \in Nat /\ \A j \in 1 .. Len(s) : s[j] \in S
  BY LenProperties, ElementOfSeq
<1>2. x \in Seq(S) /\ Len(x) = a /\ \A j \in 1 .. a : x[j] = s[j]
  <2>1. \A j \in 1 .. a : s[j] \in S
    BY <1>1
  <2>2. Len(x) = IF 1 <= a THEN a - 1 + 1 ELSE 0
    BY <1>1, <2>1, SubSeqProperties
  <2>3. x \in Seq(S) /\ \A j \in 1 .. a - 1 + 1 : x[j] = s[1 + j - 1]
    BY <1>1, <2>1, SubSeqProperties
  <2>4. a - 1 + 1 = a /\ \A j \in 1 .. a : 1 + j - 1 = j
    OBVIOUS
  <2>5. Len(x) = a
    BY <2>2
  <2> HIDE DEF x
  <2> QED BY <2>3, <2>4, <2>5
<1>3. y \in Seq(S) /\ Len(y) = b - a /\ \A j \in 1 .. b - a : y[j] = s[a + j]
  <2>1. \A j \in a + 1 .. b : s[j] \in S
    BY <1>1
  <2>2. Len(y) = IF a + 1 <= b THEN b - (a + 1) + 1 ELSE 0
    BY <1>1, <2>1, SubSeqProperties
  <2>3. y \in Seq(S) /\ \A j \in 1 .. b - (a + 1) + 1 : y[j] = s[(a + 1) + j - 1]
    BY <1>1, <2>1, SubSeqProperties
  <2>4. b - (a + 1) + 1 = b - a /\ \A j \in 1 .. b - a : (a + 1) + j - 1 = a + j
    BY <1>1
  <2>5. Len(y) = b - a
    BY <1>1, <2>2
  <2> HIDE DEF y
  <2> QED BY <2>3, <2>4, <2>5
<1>4. z \in Seq(S) /\ Len(z) = b /\ \A j \in 1 .. b : z[j] = s[j]
  <2>1. \A j \in 1 .. b : s[j] \in S
    BY <1>1
  <2>2. Len(z) = IF 1 <= b THEN b - 1 + 1 ELSE 0
    BY <1>1, <2>1, SubSeqProperties
  <2>3. z \in Seq(S) /\ \A j \in 1 .. b - 1 + 1 : z[j] = s[1 + j - 1]
    BY <1>1, <2>1, SubSeqProperties
  <2>4. b \in Nat /\ b - 1 + 1 = b /\ \A j \in 1 .. b : 1 + j - 1 = j
    BY <1>1
  <2>5. Len(z) = b
    BY <2>2, <2>4
  <2> HIDE DEF z
  <2> QED BY <2>3, <2>4, <2>5
<1> HIDE DEF x, y, z
<1> DEFINE p == WithSpaces(x)
           q == WithSpaces(y)
           r == WithSpaces(z)
<1>5. \A t \in Seq(S) : /\ WithSpaces(t) \in Seq(S) /\ Len(WithSpaces(t)) = Len(t)
                        /\ \A j \in 1 .. Len(t) : WithSpaces(t)[j] = spaced(t[j])
  BY DEF WithSpaces
<1>6. /\ p \in Seq(S) /\ Len(p) = a /\ \A j \in 1 .. a : p[j] = spaced(s[j])
      /\ q \in Seq(S) /\ Len(q) = b - a /\ \A j \in 1 .. b - a : q[j] = spaced(s[a + j])
      /\ r \in Seq(S) /\ Len(r) = b /\ \A j \in 1 .. b : r[j] = spaced(s[j])
  <2> HIDE DEF spaced
  <2>1. p \in Seq(S) /\ Len(p) = a /\ \A j \in 1 .. a : p[j] = spaced(s[j])
    BY <1>2, <1>5
  <2>2. q \in Seq(S) /\ Len(q) = b - a /\ \A j \in 1 .. b - a : q[j] = spaced(s[a + j])
    BY <1>3, <1>5
  <2>3. r \in Seq(S) /\ Len(r) = b /\ \A j \in 1 .. b : r[j] = spaced(s[j])
    BY <1>4, <1>5
  <2> QED BY <2>1, <2>2, <2>3
<1> HIDE DEF p, q, r, spaced
<1>7. /\ p \o q \in Seq(S) /\ Len(p \o q) = Len(p) + Len(q)
      /\ \A j \in 1 .. Len(p) + Len(q) : (p \o q)[j] = IF j <= Len(p) THEN p[j] ELSE q[j - Len(p)]
  BY <1>6, ConcatProperties
<1>8. Len(p) + Len(q) = b
  BY <1>1, <1>6
<1>9. ASSUME NEW j \in 1 .. b
      PROVE  (p \o q)[j] = r[j]
  <2>1. CASE j <= a
    BY <1>6, <1>7, <1>8, <2>1
  <2>2. CASE ~(j <= a)
    <3>1. j - a \in 1 .. b - a /\ a + (j - a) = j
      BY <1>1, <2>2
    <3>2. q[j - a] = spaced(s[j])
      BY <1>6, <3>1
    <3> QED BY <1>6, <1>7, <1>8, <2>2, <3>2
  <2> QED BY <2>1, <2>2
<1>10. p \o q = r
  BY <1>6, <1>7, <1>8, <1>9, SeqEqual
<1> QED BY <1>10 DEF p, q, r, x, y, z

(* What the text may have for its spaces to come back. *)
Spaced(v, w) ==
  /\ Space \notin Range(w)
  /\ Metaspace \in Range(w) => Unit(v, Metaspace) # {}

(* A symbol has tokens, and they stand for its characters. *)
LEMMA SymbolRestores ==
  ASSUME NEW v \in Vocabularies, NEW w \in Seq(Character), Space \notin Range(w), NEW table,
         Sound(v, w, table), NEW k \in 1 .. Len(w), table[k].size # 0
  PROVE  LET named == SymbolIds(v, w, table[k])
         IN  /\ named \in Seq(Ids(v))
             /\ \A tokens \in Seq(Ids(v)) : \A s :
                  Restores(v, tokens, s) /\ NoSpecial(v, named) /\ Spaced(v, w) =>
                    Restores(v, tokens \o named,
                             s \o WithSpaces(SubSeq(w, k, k + table[k].size - 1)))
<1> DEFINE named == SymbolIds(v, w, table[k])
           id == table[k].id
           part == SubSeq(w, k, k + table[k].size - 1)
<1>1. /\ table[k].start = k /\ table[k].size \in 1 .. Len(w) /\ k + table[k].size <= Len(w) + 1
      /\ Len(w) \in Nat
  BY Links, LenProperties
<1>2. IF id = -1 THEN table[k].size = 1 /\ Unit(v, w[k]) = {} /\ v.byte_fallback
      ELSE id \in v.hash /\ v.piece[id] = part
  BY DEF Sound, Named
<1>3. w[k] \in Character /\ w[k] \in Range(w)
  <2>1. w[k] \in Character
    BY ElementOfSeq
  <2>2. Range(w) = {w[j] : j \in 1 .. Len(w)}
    BY RangeEquality
  <2> QED BY <2>1, <2>2
<1>4. part \in Seq(Character) /\ Len(part) # 0
  <2> DEFINE to == k + table[k].size - 1
  <2>1. to \in k .. Len(w)
    BY <1>1
  <2> HIDE DEF to
  <2>2. \A j \in k .. to : w[j] \in Character
    BY <1>1, <2>1, ElementOfSeq
  <2>3. SubSeq(w, k, to) \in Seq(Character) /\ Len(SubSeq(w, k, to)) = to - k + 1
    BY <1>1, <2>1, <2>2, SubSeqProperties
  <2>4. to - k + 1 # 0
    BY <1>1, <2>1
  <2> QED BY <2>3, <2>4 DEF to
<1>5. CASE id # -1
  <2>1. id \in Ids(v) /\ v.piece[id] = part
    BY <1>2, <1>5, IdsAreNumbers
  <2>2. named = <<id>>
    BY <1>5 DEF SymbolIds
  <2>3. named \in Seq(Ids(v))
    BY <2>1, <2>2
  <2>4. v.kind[id] \in {"normal", "special"}
    <3>1. v.kind[id] \in {"normal", "byte", "special"}
      BY <2>1, TokenizerAssumption DEF WellFormed
    <3>2. v.kind[id] # "byte"
      <4> SUFFICES ASSUME v.kind[id] = "byte" PROVE FALSE
        OBVIOUS
      <4>1. PICK b \in Byte : v.piece[id] = <<b>>
        BY <2>1, TokenizerAssumption DEF WellFormed
      <4>2. part[1] = b /\ Len(part) = 1
        <5> HIDE DEF part, id
        <5>1. part = <<b>>
          BY <2>1, <4>1
        <5> QED BY <5>1
      <4>3. part[1] \in Character
        <5> HIDE DEF part
        <5>1. 1 \in 1 .. Len(part)
          BY <4>2
        <5> QED BY <1>4, <5>1, ElementOfSeq
      <4> QED BY <4>2, <4>3, TokenizerAssumption
    <3> QED BY <3>1, <3>2
  <2>5. ASSUME NEW tokens \in Seq(Ids(v)), NEW s, Restores(v, tokens, s), NoSpecial(v, named)
        PROVE  Restores(v, tokens \o named, s \o WithSpaces(part))
    <3>1. v.kind[id] = "normal"
      <4>1. 1 \in 1 .. Len(<<id>>) /\ <<id>>[1] = id
        OBVIOUS
      <4> QED BY <2>2, <2>4, <2>5, <4>1 DEF NoSpecial
    <3>2. Restores(v, Append(tokens, id), s \o WithSpaces(part))
      <4> HIDE DEF id, part
      <4>1. v.piece[id] \in Seq(Character)
        BY <1>4, <2>1
      <4> QED BY <2>1, <2>5, <3>1, <4>1, NormalTokenRestores
    <3>3. Append(tokens, id) = tokens \o named
      BY <2>1, <2>2, AppendIsConcat
    <3> QED BY <3>2, <3>3
  <2> QED BY <2>3, <2>5
<1>6. CASE id = -1
  <2> DEFINE c == w[k]
  <2>1. table[k].size = 1 /\ Unit(v, c) = {} /\ v.byte_fallback
    BY <1>2, <1>6
  <2>2. c \in DOMAIN Utf8
    <3>1. c # Space
      BY <1>3
    <3>2. c \notin Character \ ({Space} \cup DOMAIN Utf8)
      <4> SUFFICES ASSUME c \in Character \ ({Space} \cup DOMAIN Utf8) PROVE FALSE
        OBVIOUS
      <4>a. \A d \in Character \ ({Space} \cup DOMAIN Utf8) :
              \E e \in v.hash : v.kind[e] = "normal" /\ v.piece[e] = <<d>>
        BY <2>1, TokenizerAssumption DEF WellFormed
      <4>1. \E e \in v.hash : v.kind[e] = "normal" /\ v.piece[e] = <<c>>
        <5> HIDE DEF c
        <5> QED BY <4>a
      <4> QED BY <2>1, <4>1 DEF Unit, Lookup
    <3> QED BY <1>3, <3>1, <3>2
  <2>3. named = [j \in 1 .. Len(Utf8[c]) |-> ByteId(v, Utf8[c][j])]
    BY <1>1, <1>6 DEF SymbolIds
  <2>4. Utf8[c] \in Seq(Byte) /\ \A b \in Range(Utf8[c]) : ByteId(v, b) \in Ids(v)
    <3>1. Utf8[c] \in Seq(Byte)
      BY <2>2, TokenizerAssumption
    <3>2. \A b \in Range(Utf8[c]) :
            \E e \in Ids(v) : v.kind[e] = "byte" /\ v.piece[e] = <<b>>
      BY <2>1, <2>2, TokenizerAssumption, SMTT(40) DEF WellFormed
    <3> QED BY <3>1, <3>2 DEF ByteId
  <2>5. named \in Seq(Ids(v))
    <3>1. Len(Utf8[c]) \in Nat /\ Range(Utf8[c]) = {Utf8[c][j] : j \in 1 .. Len(Utf8[c])}
      BY <2>4, LenProperties, RangeEquality
    <3>2. \A j \in 1 .. Len(Utf8[c]) : ByteId(v, Utf8[c][j]) \in Ids(v)
      BY <2>4, <3>1
    <3> HIDE DEF c
    <3> QED BY <2>3, <3>1, <3>2
  <2>6. ASSUME NEW tokens \in Seq(Ids(v)), NEW s, Restores(v, tokens, s), Spaced(v, w)
        PROVE  Restores(v, tokens \o named, s \o WithSpaces(part))
    <3>1. Restores(v, tokens \o named, s \o <<c>>)
      BY <2>1, <2>2, <2>3, <2>6, CharacterRestores
    <3>2. part = <<c>>
      <4>1. k + table[k].size - 1 = k
        BY <2>1
      <4> QED BY <4>1, OneElement
    <3>3. c # Metaspace
      BY <1>3, <2>1, <2>6 DEF Spaced
    <3>4. WithSpaces(<<c>>) = <<c>>
      BY <3>3 DEF WithSpaces
    <3> QED BY <3>1, <3>2, <3>4
  <2> QED BY <2>5, <2>6
<1> QED BY <1>5, <1>6

(* Tokens without one that Decode leaves out, in two parts. *)
LEMMA NoSpecialInParts ==
  ASSUME NEW v, NEW S, NEW a \in Seq(S), NEW b \in Seq(S), NoSpecial(v, a \o b)
  PROVE  NoSpecial(v, a) /\ NoSpecial(v, b)
<1>1. Len(a) \in Nat /\ Len(b) \in Nat
  BY LenProperties
<1>2. /\ Len(a \o b) = Len(a) + Len(b)
      /\ \A j \in 1 .. Len(a) + Len(b) : (a \o b)[j] = IF j <= Len(a) THEN a[j] ELSE b[j - Len(a)]
  BY ConcatProperties
<1>3. \A j \in 1 .. Len(a) + Len(b) : v.kind[(a \o b)[j]] # "special"
  BY <1>2 DEF NoSpecial
<1>4. ASSUME NEW j \in 1 .. Len(a)
      PROVE  v.kind[a[j]] # "special"
  <2>1. j \in 1 .. Len(a) + Len(b) /\ j <= Len(a)
    BY <1>1
  <2>2. (a \o b)[j] = a[j]
    BY <1>2, <2>1
  <2> QED BY <1>3, <2>1, <2>2
<1>5. ASSUME NEW j \in 1 .. Len(b)
      PROVE  v.kind[b[j]] # "special"
  <2>1. PICK p \in 1 .. Len(a) + Len(b) : p = Len(a) + j
    BY <1>1
  <2>2. ~(p <= Len(a)) /\ p - Len(a) = j
    BY <1>1, <2>1
  <2>3. (a \o b)[p] = b[j]
    BY <1>2, <2>2
  <2> QED BY <1>3, <2>3
<1> QED BY <1>4, <1>5 DEF NoSpecial

(* The tokens of one symbol more. *)
LEMMA WordIdsOfAppend ==
  ASSUME NEW v \in Vocabularies, NEW w, NEW table, NEW S, NEW live \in Seq(S), NEW k \in S,
         \A e \in S : SymbolIds(v, w, table[e]) \in Seq(Ids(v))
  PROVE  /\ WordIds(v, w, table, live) \in Seq(Ids(v))
         /\ WordIds(v, w, table, Append(live, k)) =
              WordIds(v, w, table, live) \o SymbolIds(v, w, table[k])
<1> DEFINE n == Len(live)
           more == Append(live, k)
           Of(e) == SymbolIds(v, w, table[e])
           ls == [j \in 1 .. n |-> Of(live[j])]
           ms == [j \in 1 .. Len(more) |-> Of(more[j])]
<1>1. n \in Nat /\ \A j \in 1 .. n : live[j] \in S
  BY LenProperties, ElementOfSeq
<1>2. Len(more) = n + 1 /\ more[n + 1] = k /\ \A j \in 1 .. n : more[j] = live[j]
  BY AppendProperties
<1>3. \A e \in S : Of(e) \in Seq(Ids(v))
  OBVIOUS
<1> HIDE DEF n, more, Of
<1>4. ls \in Seq(Seq(Ids(v))) /\ Len(ls) = n /\ \A j \in 1 .. n : ls[j] = Of(live[j])
  BY <1>1, <1>3
<1>5. ms = Append(ls, Of(k))
  <2>1. /\ ms \in Seq(Seq(Ids(v))) /\ Len(ms) = n + 1
        /\ \A j \in 1 .. n + 1 : ms[j] = Of(more[j])
    <3>1. \A j \in 1 .. n + 1 : more[j] \in S
      <4> SUFFICES ASSUME NEW j \in 1 .. n + 1 PROVE more[j] \in S
        OBVIOUS
      <4>1. j = n + 1 \/ j \in 1 .. n
        BY <1>1
      <4> QED BY <1>1, <1>2, <4>1
    <3> QED BY <1>1, <1>2, <1>3, <3>1
  <2> HIDE DEF ms, ls
  <2>2. /\ Append(ls, Of(k)) \in Seq(Seq(Ids(v))) /\ Len(Append(ls, Of(k))) = n + 1
        /\ \A j \in 1 .. n : Append(ls, Of(k))[j] = ls[j]
        /\ Append(ls, Of(k))[n + 1] = Of(k)
    BY <1>3, <1>4, AppendProperties
  <2>3. ASSUME NEW j \in 1 .. n + 1
        PROVE  ms[j] = Append(ls, Of(k))[j]
    <3>1. CASE j = n + 1
      BY <1>2, <2>1, <2>2, <3>1
    <3>2. CASE j # n + 1
      <4>1. j \in 1 .. n
        BY <1>1, <3>2
      <4>2. ms[j] = Of(more[j]) /\ more[j] = live[j]
        BY <1>2, <2>1, <4>1
      <4>3. Append(ls, Of(k))[j] = ls[j] /\ ls[j] = Of(live[j])
        BY <1>4, <2>2, <4>1
      <4> QED BY <4>2, <4>3
    <3> QED BY <3>1, <3>2
  <2> QED BY <2>1, <2>2, <2>3, SeqEqual
<1>6. WordIds(v, w, table, live) = FlattenSeq(ls) /\ WordIds(v, w, table, more) = FlattenSeq(ms)
  BY DEF WordIds, Of, n
<1>7. Of(k) \in Seq(Ids(v))
  BY <1>3
<1> HIDE DEF ls, ms
<1> QED BY <1>4, <1>5, <1>6, <1>7, FlattenAppend DEF more, Of

(* The tokens that a word is emitted as stand for the word, symbol by      *)
(* symbol, from left to right.                                             *)
LEMMA WordRestores ==
  ASSUME NEW v \in Vocabularies, NEW w \in Seq(Character), Space \notin Range(w), NEW table,
         Sound(v, w, table)
  PROVE  LET emitted == WordIds(v, w, table, Chain(table))
         IN  /\ emitted \in Seq(Ids(v))
             /\ \A tokens \in Seq(Ids(v)) : \A s :
                  Restores(v, tokens, s) /\ NoSpecial(v, emitted) /\ Spaced(v, w) =>
                    Restores(v, tokens \o emitted, s \o WithSpaces(w))
<1> DEFINE n == Len(w)
           c == Chain(table)
           A == {k \in 1 .. n : table[k].size # 0}
           End(p) == IF p = 0 THEN 0 ELSE c[p] + table[c[p]].size - 1
           Of(k) == SymbolIds(v, w, table[k])
           Emitted(p) == WordIds(v, w, table, SubSeq(c, 1, p))
           Good(p) ==
             /\ Emitted(p) \in Seq(Ids(v))
             /\ \A tokens \in Seq(Ids(v)) : \A s :
                  Restores(v, tokens, s) /\ NoSpecial(v, Emitted(p)) /\ Spaced(v, w) =>
                    Restores(v, tokens \o Emitted(p), s \o WithSpaces(SubSeq(w, 1, End(p))))
           S == {p \in Nat : p \in 0 .. Len(c) => Good(p)}
<1>1. /\ n \in Nat \ {0} /\ Len(table) = n /\ c[1] = 1
      /\ \A j \in 1 .. Len(c) - 1 : table[c[j]].next = c[j + 1]
      /\ table[c[Len(c)]].next = -1
  BY ChainIsAWalk, SymbolFields DEF Walk
<1>2. /\ c \in Seq(1 .. n) /\ Len(c) \in Nat \ {0}
      /\ \A p \in 1 .. Len(c) : c[p] \in 1 .. n /\ table[c[p]].size # 0
  BY ChainReaches
<1>3. \A k \in A : /\ table[k].size \in 1 .. n /\ k + table[k].size <= n + 1
                   /\ table[k].next = IF k + table[k].size = n + 1 THEN -1
                                      ELSE k + table[k].size
  BY Links
<1>4. \A k \in A : Of(k) \in Seq(Ids(v))
  BY SymbolRestores
<1>5. ASSUME NEW k \in A, NEW tokens \in Seq(Ids(v)), NEW s, Restores(v, tokens, s),
             NoSpecial(v, Of(k)), Spaced(v, w)
      PROVE  Restores(v, tokens \o Of(k), s \o WithSpaces(SubSeq(w, k, k + table[k].size - 1)))
  BY <1>5, SymbolRestores
<1> HIDE DEF n, c
<1>6. c \in Seq(A)
  <2>1. \A p \in 1 .. Len(c) : c[p] \in A
    BY <1>2
  <2> HIDE DEF A
  <2> QED BY <1>2, <2>1, SeqDef, LenProperties
<1> HIDE DEF A
<1>7. \A p \in 1 .. Len(c) : c[p] \in A /\ c[p] \in 1 .. n
  <2>1. A \subseteq 1 .. n
    BY DEF A
  <2> QED BY <1>6, <2>1, ElementOfSeq
<1> HIDE DEF Of
<1>8. ASSUME NEW p \in 0 .. Len(c)
      PROVE  End(p) \in 0 .. n /\ (p # Len(c) => c[p + 1] = End(p) + 1)
                               /\ (p = Len(c) => End(p) = n)
  <2>1. CASE p = 0
    BY <1>1, <1>2, <2>1
  <2>2. CASE p # 0
    <3>1. p \in 1 .. Len(c)
      BY <1>2, <2>2
    <3>2. PICK k \in 1 .. n : k = c[p] /\ k \in A
      BY <1>7, <3>1
    <3>3. PICK size \in 1 .. n : size = table[k].size
      BY <1>3, <3>2
    <3>4. /\ k + size <= n + 1
          /\ table[k].next = IF k + size = n + 1 THEN -1 ELSE k + size
      BY <1>3, <3>2, <3>3
    <3>5. End(p) = k + size - 1
      BY <2>2, <3>2, <3>3
    <3>6. End(p) \in 0 .. n
      BY <1>1, <3>4, <3>5
    <3>7. p # Len(c) => c[p + 1] = End(p) + 1
      <4> SUFFICES ASSUME p # Len(c) PROVE c[p + 1] = End(p) + 1
        OBVIOUS
      <4>1. p \in 1 .. Len(c) - 1 /\ p + 1 \in 1 .. Len(c)
        BY <1>2, <3>1
      <4>2. table[k].next = c[p + 1] /\ c[p + 1] \in 1 .. n
        BY <1>1, <1>7, <3>2, <4>1
      <4>3. c[p + 1] = k + size
        BY <3>4, <4>2
      <4> HIDE DEF End
      <4> QED BY <1>1, <3>5, <4>3
    <3>8. p = Len(c) => End(p) = n
      <4> SUFFICES ASSUME p = Len(c) PROVE End(p) = n
        OBVIOUS
      <4>1. table[k].next = -1
        BY <1>1, <3>2
      <4>2. k + size = n + 1
        BY <1>1, <3>4, <4>1
      <4> HIDE DEF End
      <4> QED BY <1>1, <3>5, <4>2
    <3> QED BY <3>6, <3>7, <3>8
  <2> QED BY <2>1, <2>2
<1>9. 0 \in S
  <2>1. SubSeq(c, 1, 0) = <<>> /\ SubSeq(w, 1, 0) = <<>>
    BY SubSeqEmpty
  <2>2. Emitted(0) = <<>>
    <3>1. [j \in 1 .. Len(<<>>) |-> Of(<<>>[j])] = <<>>
      OBVIOUS
    <3>2. WordIds(v, w, table, <<>>) = <<>>
      BY <3>1 DEF WordIds, FlattenSeq, Of
    <3> QED BY <2>1, <3>2
  <2>3. WithSpaces(SubSeq(w, 1, End(0))) = <<>>
    BY <2>1 DEF WithSpaces
  <2>4. <<>> \in Seq(Ids(v))
    OBVIOUS
  <2>5. ASSUME NEW tokens \in Seq(Ids(v)), NEW s, Restores(v, tokens, s)
        PROVE  Restores(v, tokens \o <<>>, s \o <<>>)
    <3>1. tokens \o <<>> = tokens /\ s \o <<>> = s
      BY <2>5, RestoredIsDecoded, ConcatEmptySeq
    <3> QED BY <2>5, <3>1
  <2> HIDE DEF Emitted, End
  <2> QED BY <2>2, <2>3, <2>4, <2>5
<1>10. ASSUME NEW p \in Nat, p \in S
       PROVE  p + 1 \in S
  <2> SUFFICES ASSUME p + 1 \in 0 .. Len(c) PROVE Good(p + 1)
    OBVIOUS
  <2>1. p \in 0 .. Len(c) /\ p # Len(c) /\ p + 1 \in 1 .. Len(c) /\ p <= Len(c)
    BY <1>2
  <2>2. Good(p)
    BY <1>10, <2>1
  <2> DEFINE k == c[p + 1]
  <2>3. k \in A /\ k \in 1 .. n /\ k = End(p) + 1 /\ End(p) \in 0 .. n
    BY <1>7, <1>8, <2>1
  <2>4. End(p + 1) = k + table[k].size - 1 /\ End(p + 1) \in 0 .. n
    <3>1. End(p + 1) \in 0 .. n
      BY <1>8, <2>1
    <3> QED BY <2>1, <3>1
  <2>5. SubSeq(c, 1, p + 1) = Append(SubSeq(c, 1, p), k) /\ SubSeq(c, 1, p) \in Seq(A)
    <3>1. SubSeq(c, 1, p + 1) = SubSeq(c, 1, p) \o <<k>>
      <4>1. 1 \in 1 .. Len(c) /\ p + 1 \in 1 .. Len(c) /\ (p + 1) - 1 = p
        BY <1>2, <2>1
      <4> QED BY <1>6, <4>1, SubSeqRecursiveSecond
    <3>2. SubSeq(c, 1, p) \in Seq(A)
      <4>1. \A j \in 1 .. p : c[j] \in A
        BY <1>2, <1>7, <2>1
      <4> QED BY <4>1, SubSeqProperties
    <3>3. Append(SubSeq(c, 1, p), k) = SubSeq(c, 1, p) \o <<k>>
      BY <2>3, <3>2, AppendIsConcat
    <3> QED BY <3>1, <3>2, <3>3
  <2> HIDE DEF k
  <2>6. Emitted(p + 1) = Emitted(p) \o Of(k)
    <3>1. WordIds(v, w, table, Append(SubSeq(c, 1, p), k)) =
            WordIds(v, w, table, SubSeq(c, 1, p)) \o SymbolIds(v, w, table[k])
      <4>1. PICK live \in Seq(A) : live = SubSeq(c, 1, p)
        BY <2>5
      <4>2. \A e \in A : SymbolIds(v, w, table[e]) \in Seq(Ids(v))
        BY <1>4 DEF Of
      <4>3. WordIds(v, w, table, Append(live, k)) =
              WordIds(v, w, table, live) \o SymbolIds(v, w, table[k])
        BY <2>3, <4>2, WordIdsOfAppend
      <4> QED BY <4>1, <4>3
    <3> QED BY <2>5, <3>1 DEF Of
  <2>7. Emitted(p) \in Seq(Ids(v)) /\ Of(k) \in Seq(Ids(v))
    BY <1>4, <2>2, <2>3
  <2> HIDE DEF Emitted, End
  <2>8. Emitted(p + 1) \in Seq(Ids(v))
    BY <2>6, <2>7, ConcatProperties
  <2>9. ASSUME NEW tokens \in Seq(Ids(v)), NEW s, Restores(v, tokens, s),
               NoSpecial(v, Emitted(p + 1)), Spaced(v, w)
        PROVE  Restores(v, tokens \o Emitted(p + 1), s \o WithSpaces(SubSeq(w, 1, End(p + 1))))
    <3> DEFINE before == WithSpaces(SubSeq(w, 1, End(p)))
               here == WithSpaces(SubSeq(w, k, k + table[k].size - 1))
    <3>1. NoSpecial(v, Emitted(p)) /\ NoSpecial(v, Of(k))
      <4>1. PICK a \in Seq(Ids(v)), b \in Seq(Ids(v)) : a = Emitted(p) /\ b = Of(k)
        BY <2>7
      <4>2. NoSpecial(v, a \o b)
        BY <2>6, <2>9, <4>1
      <4>3. NoSpecial(v, a) /\ NoSpecial(v, b)
        BY <4>2, NoSpecialInParts
      <4> QED BY <4>1, <4>3
    <3>2. Restores(v, tokens \o Emitted(p), s \o before)
      BY <2>2, <2>9, <3>1
    <3>3. tokens \o Emitted(p) \in Seq(Ids(v))
      BY <2>7, ConcatProperties
    <3>4. Restores(v, (tokens \o Emitted(p)) \o Of(k), (s \o before) \o here)
      BY <1>5, <2>3, <2>9, <3>1, <3>2, <3>3
    <3>5. (tokens \o Emitted(p)) \o Of(k) = tokens \o Emitted(p + 1)
      <4>1. PICK a \in Seq(Ids(v)), b \in Seq(Ids(v)) : a = Emitted(p) /\ b = Of(k)
        BY <2>7
      <4>2. (tokens \o a) \o b = tokens \o (a \o b)
        BY ConcatAssociative, SMTT(40)
      <4> QED BY <2>6, <4>1, <4>2
    <3>6. before \o here = WithSpaces(SubSeq(w, 1, End(p + 1)))
      <4>1. PICK a \in 0 .. n, b \in 0 .. n : a = End(p) /\ b = End(p + 1)
        BY <2>3, <2>4
      <4>2. a + 1 = k /\ b = k + table[k].size - 1 /\ b \in a .. n
        <5>1. table[k].size \in 1 .. n
          BY <1>3, <2>3
        <5> QED BY <1>1, <2>3, <2>4, <4>1, <5>1, SMTT(40)
      <4>3. Space \in Character
        BY TokenizerAssumption
      <4>4. WithSpaces(SubSeq(w, 1, a)) \o WithSpaces(SubSeq(w, a + 1, b)) =
              WithSpaces(SubSeq(w, 1, b))
        BY <4>2, <4>3, SpacesOfPieces DEF n
      <4> QED BY <4>1, <4>2, <4>4
    <3>7. (s \o before) \o here = s \o (before \o here)
      <4>1. \A t \in Seq(Character) : WithSpaces(t) \in Seq(Character)
        BY TokenizerAssumption DEF WithSpaces
      <4>2. \A a \in 0 .. n : SubSeq(w, 1, a) \in Seq(Character)
        <5> SUFFICES ASSUME NEW a \in 0 .. n PROVE SubSeq(w, 1, a) \in Seq(Character)
          OBVIOUS
        <5>1. \A j \in 1 .. a : w[j] \in Character
          BY <1>1, ElementOfSeq DEF n
        <5> QED BY <5>1, SubSeqProperties
      <4>3. SubSeq(w, k, k + table[k].size - 1) \in Seq(Character)
        <5>1. PICK b \in 0 .. n : b = k + table[k].size - 1
          BY <2>4
        <5>2. \A j \in k .. b : w[j] \in Character
          BY <1>1, <2>3, ElementOfSeq DEF n
        <5> QED BY <2>3, <5>1, <5>2, SubSeqProperties
      <4>4. before \in Seq(Character) /\ here \in Seq(Character)
        BY <2>3, <4>1, <4>2, <4>3
      <4> HIDE DEF before, here
      <4>5. s \in Seq(Character)
        BY <2>9, RestoredIsDecoded
      <4>6. PICK r \in Seq(Character), a \in Seq(Character), b \in Seq(Character) :
              r = s /\ a = before /\ b = here
        BY <4>4, <4>5
      <4>7. (r \o a) \o b = r \o (a \o b)
        BY ConcatAssociative, SMTT(40)
      <4> QED BY <4>6, <4>7
    <3> HIDE DEF before, here
    <3> QED BY <3>4, <3>5, <3>6, <3>7
  <2> QED BY <2>8, <2>9
<1>11. Good(Len(c))
  <2> HIDE DEF S
  <2>1. \A p \in Nat : p \in S
    BY <1>9, <1>10, InductionOnNumbers
  <2> HIDE DEF Good
  <2> QED BY <1>2, <2>1 DEF S
<1>12. SubSeq(c, 1, Len(c)) = c /\ End(Len(c)) = n /\ SubSeq(w, 1, n) = w
  <2>1. Len(c) \in 0 .. Len(c)
    BY <1>2
  <2>2. End(Len(c)) = n
    BY <1>8, <2>1
  <2> HIDE DEF End
  <2> QED BY <1>6, <2>2, SubSeqFull DEF n
<1>13. Emitted(Len(c)) = WordIds(v, w, table, c)
  BY <1>12
<1> HIDE DEF Emitted, End
<1> QED BY <1>11, <1>12, <1>13 DEF c

-----------------------------------------------------------------------------
(* Parts of the text *)

(* A part of a text has only what the text has. *)
LEMMA PartOfText ==
  ASSUME NEW s \in Seq(Character), NEW a \in 1 .. Len(s) + 1, NEW b \in a - 1 .. Len(s)
  PROVE  /\ SubSeq(s, a, b) \in Seq(Character) /\ Len(SubSeq(s, a, b)) = b - a + 1
         /\ \A j \in 1 .. b - a + 1 : /\ SubSeq(s, a, b)[j] = s[a + j - 1]
                                      /\ SubSeq(s, a, b)[j] \in Range(s)
<1> DEFINE t == SubSeq(s, a, b)
<1>1. Len(s) \in Nat /\ \A j \in 1 .. Len(s) : s[j] \in Character /\ s[j] \in Range(s)
  <2>1. Range(s) = {s[j] : j \in 1 .. Len(s)}
    BY RangeEquality
  <2> QED BY <2>1, LenProperties, ElementOfSeq
<1>2. a \in Int /\ b \in Int /\ \A j \in a .. b : j \in 1 .. Len(s)
  BY <1>1
<1>3. /\ t \in Seq(Character) /\ Len(t) = IF a <= b THEN b - a + 1 ELSE 0
      /\ \A j \in 1 .. b - a + 1 : t[j] = s[a + j - 1]
  BY <1>1, <1>2, SubSeqProperties
<1> HIDE DEF t
<1>4. Len(t) = b - a + 1
  BY <1>1, <1>2, <1>3
<1>5. \A j \in 1 .. b - a + 1 : a + j - 1 \in 1 .. Len(s)
  BY <1>1
<1> QED BY <1>1, <1>3, <1>4, <1>5 DEF t

(* Where a text has no character that stands for a space, what Decode      *)
(* makes of a part of it, normalized or not, is that part.                 *)
LEMMA SpacesComeBack ==
  ASSUME NEW s \in Seq(Character), Metaspace \notin Range(s),
         NEW a \in 1 .. Len(s) + 1, NEW b \in a - 1 .. Len(s)
  PROVE  /\ WithSpaces(SubSeq(s, a, b)) = SubSeq(s, a, b)
         /\ WithSpaces(Normalized(SubSeq(s, a, b))) = SubSeq(s, a, b)
<1> DEFINE t == SubSeq(s, a, b)
           u == Normalized(t)
           x == WithSpaces(t)
           y == WithSpaces(u)
<1>1. /\ t \in Seq(Character) /\ Len(t) \in Nat
      /\ \A j \in 1 .. Len(t) : t[j] \in Character /\ t[j] # Metaspace
  <2>1. t \in Seq(Character) /\ Len(t) = b - a + 1 /\ Len(t) \in Nat
    BY PartOfText, LenProperties
  <2>2. \A j \in 1 .. b - a + 1 : t[j] \in Range(s)
    BY PartOfText
  <2> HIDE DEF t
  <2> QED BY <2>1, <2>2, ElementOfSeq
<1>2. Space \in Character /\ Metaspace \in Character
  BY TokenizerAssumption
<1> HIDE DEF t
<1>3. /\ u \in Seq(Character) /\ Len(u) = Len(t)
      /\ \A j \in 1 .. Len(t) : u[j] = IF t[j] = Space THEN Metaspace ELSE t[j]
  BY <1>1, <1>2 DEF Normalized
<1> HIDE DEF u
<1>4. /\ x \in Seq(Character) /\ Len(x) = Len(t)
      /\ \A j \in 1 .. Len(t) : x[j] = IF t[j] = Metaspace THEN Space ELSE t[j]
  BY <1>1, <1>2 DEF WithSpaces
<1>5. /\ y \in Seq(Character) /\ Len(y) = Len(t)
      /\ \A j \in 1 .. Len(t) : y[j] = IF u[j] = Metaspace THEN Space ELSE u[j]
  BY <1>1, <1>2, <1>3 DEF WithSpaces
<1> HIDE DEF x, y
<1>6. x = t
  BY <1>1, <1>4, SeqEqual
<1>7. y = t
  <2>1. \A j \in 1 .. Len(t) : y[j] = t[j]
    BY <1>1, <1>3, <1>5
  <2> QED BY <1>1, <1>5, <2>1, SeqEqual
<1> QED BY <1>6, <1>7 DEF x, y, u, t

(* A word has no space. *)
LEMMA WordHasNoSpace ==
  ASSUME NEW s \in Seq(Character), NEW a \in 1 .. Len(s) + 1, NEW b \in a - 1 .. Len(s)
  PROVE  LET w == Normalized(SubSeq(s, a, b))
         IN  /\ w \in Seq(Character) /\ Len(w) = b - a + 1
             /\ Space \notin Range(w)
             /\ Metaspace \in Range(w) => Metaspace \in Range(s) \/ Space \in Range(s)
<1> DEFINE t == SubSeq(s, a, b)
           w == Normalized(t)
<1>1. /\ t \in Seq(Character) /\ Len(t) = b - a + 1 /\ Len(t) \in Nat
  BY PartOfText, LenProperties
<1>2. \A j \in 1 .. b - a + 1 : t[j] \in Range(s)
  BY PartOfText
<1>3. \A j \in 1 .. Len(t) : t[j] \in Character /\ t[j] \in Range(s)
  <2> HIDE DEF t
  <2> QED BY <1>1, <1>2, ElementOfSeq
<1>4. {Space, Metaspace} \subseteq Character /\ Space # Metaspace
  BY TokenizerAssumption
<1> HIDE DEF t
<1>5. /\ w \in Seq(Character) /\ Len(w) = Len(t)
      /\ \A j \in 1 .. Len(t) : w[j] = IF t[j] = Space THEN Metaspace ELSE t[j]
  BY <1>1, <1>3, <1>4 DEF Normalized
<1> HIDE DEF w
<1>6. Range(w) = {w[j] : j \in 1 .. Len(t)}
  BY <1>5, RangeEquality
<1>7. Space \notin Range(w)
  BY <1>4, <1>5, <1>6
<1>8. Metaspace \in Range(w) => Metaspace \in Range(s) \/ Space \in Range(s)
  <2> SUFFICES ASSUME Metaspace \in Range(w)
               PROVE  Metaspace \in Range(s) \/ Space \in Range(s)
    OBVIOUS
  <2>1. PICK j \in 1 .. Len(t) : w[j] = Metaspace
    BY <1>6
  <2> QED BY <1>3, <1>5, <2>1
<1> QED BY <1>1, <1>5, <1>7, <1>8 DEF w, t

(* A piece of characters is not that of a byte. *)
LEMMA CharactersAreNoByte ==
  ASSUME NEW v \in Vocabularies, NEW id \in Ids(v), v.piece[id] \in Seq(Character)
  PROVE  v.kind[id] \in {"normal", "special"}
<1>1. v.kind[id] \in {"normal", "byte", "special"}
  BY TokenizerAssumption DEF WellFormed
<1>2. v.kind[id] # "byte"
  <2> SUFFICES ASSUME v.kind[id] = "byte" PROVE FALSE
    OBVIOUS
  <2>1. PICK b \in Byte : v.piece[id] = <<b>>
    BY TokenizerAssumption DEF WellFormed
  <2>2. PICK p \in Seq(Character) : p = <<b>>
    BY <2>1
  <2>3. p[1] = b /\ 1 \in 1 .. Len(p)
    BY <2>2
  <2>4. b \in Character
    BY <2>3, ElementOfSeq
  <2> QED BY <2>4, TokenizerAssumption
<1> QED BY <1>1, <1>2

(* The token found at a position is an added token that the text goes on   *)
(* with, and it is not empty.                                              *)
LEMMA FoundToken ==
  ASSUME NEW v \in Vocabularies, NEW s \in Seq(Character), NEW p \in 1 .. Len(s),
         Matches(v, s, p) # {}
  PROVE  LET id == MatchAddedToken(v, s, p)
         IN  /\ id \in Ids(v) /\ v.kind[id] \in {"normal", "special"}
             /\ Len(v.piece[id]) \in 1 .. Len(s) - p + 1
             /\ v.piece[id] \in Seq(Character)
             /\ v.piece[id] = SubSeq(s, p, p + Len(v.piece[id]) - 1)
<1> DEFINE m == Matches(v, s, p)
           rest == SubSeq(s, p, Len(s))
           l(id) == Len(v.piece[id])
           left == {k \in Nat : \E id \in m : k = Len(rest) - l(id)}
<1>1. Len(s) \in Nat /\ rest \in Seq(Character) /\ Len(rest) = Len(s) - p + 1
  <2>1. Len(s) \in Nat
    BY LenProperties
  <2>2. p \in 1 .. Len(s) + 1 /\ Len(s) \in p - 1 .. Len(s)
    BY <2>1
  <2> QED BY <2>1, <2>2, PartOfText
<1>2. \A id \in m : /\ id \in Ids(v) /\ v.piece[id] \in Seq(Character \cup Byte)
                    /\ v.piece[id] # <<>>
                    /\ l(id) <= Len(rest) /\ SubSeq(v.piece[id], 1, l(id)) = SubSeq(rest, 1, l(id))
  <2> SUFFICES ASSUME NEW id \in m
               PROVE  /\ id \in Ids(v) /\ v.piece[id] \in Seq(Character \cup Byte)
                      /\ v.piece[id] # <<>>
                      /\ l(id) <= Len(rest)
                      /\ SubSeq(v.piece[id], 1, l(id)) = SubSeq(rest, 1, l(id))
    OBVIOUS
  <2>1. id \in v.added /\ IsPrefix(v.piece[id], rest)
    BY DEF Matches
  <2>2. id \in Ids(v)
    BY <2>1, IdsAreNumbers
  <2>3. v.piece \in Seq(Seq(Character \cup Byte) \ {<<>>})
    BY TokenizerAssumption DEF WellFormed
  <2>4. v.piece[id] \in Seq(Character \cup Byte) \ {<<>>}
    BY <2>2, <2>3, LenProperties, ElementOfSeq DEF Ids
  <2> HIDE DEF rest
  <2> QED BY <2>1, <2>2, <2>4 DEF IsPrefix
<1> HIDE DEF rest, m
<1>3. \A id \in m : l(id) \in Nat \ {0}
  BY <1>2, EmptySeq
<1>4. \E id \in m : \A other \in m : l(other) <= l(id)
  <2>1. left # {}
    <3>1. PICK id \in m : TRUE
      BY DEF m
    <3>2. Len(rest) - l(id) \in Nat
      <4> HIDE DEF l
      <4>1. l(id) \in Nat /\ l(id) <= Len(rest) /\ Len(rest) \in Nat
        BY <1>1, <1>2, <1>3 DEF l
      <4> QED BY <4>1
    <3> QED BY <3>1, <3>2
  <2>2. PICK k \in left : \A other \in left : k <= other
    <3> HIDE DEF left
    <3>1. left \in SUBSET Nat
      BY DEF left
    <3> QED BY <2>1, <3>1, LeastNumber
  <2>3. PICK id \in m : k = Len(rest) - l(id)
    OBVIOUS
  <2>4. ASSUME NEW other \in m
        PROVE  l(other) <= l(id)
    <3> HIDE DEF l
    <3>1. l(other) \in Nat /\ l(id) \in Nat /\ Len(rest) \in Nat /\ l(other) <= Len(rest)
      BY <1>1, <1>2, <1>3 DEF l
    <3>2. Len(rest) - l(other) \in left
      BY <2>4, <3>1
    <3>3. k <= Len(rest) - l(other)
      <4> HIDE DEF left
      <4> QED BY <2>2, <3>2
    <3> QED BY <2>3, <3>1, <3>3
  <2> QED BY <2>4
<1> DEFINE id == MatchAddedToken(v, s, p)
<1>5. id \in m
  BY <1>4 DEF MatchAddedToken, m
<1> HIDE DEF id
<1>6. v.piece[id] = SubSeq(rest, 1, l(id)) /\ l(id) \in 1 .. Len(rest)
  <2>1. SubSeq(v.piece[id], 1, l(id)) = v.piece[id]
    BY <1>2, <1>5, SubSeqFull
  <2>2. l(id) \in Nat \ {0} /\ l(id) <= Len(rest) /\ Len(rest) \in Nat
    BY <1>1, <1>2, <1>3, <1>5
  <2> HIDE DEF l
  <2>3. l(id) \in 1 .. Len(rest)
    BY <2>2
  <2> QED BY <1>2, <1>5, <2>1, <2>3 DEF l
<1>7. SubSeq(rest, 1, l(id)) = SubSeq(s, p, p + l(id) - 1)
  <2>1. PICK n \in 1 .. Len(s) - p + 1 : n = l(id)
    BY <1>1, <1>6
  <2>2. p \in 1 .. Len(s) /\ Len(s) \in 1 .. Len(s) /\ 1 \in 1 .. Len(s) - p + 1
    BY <1>1
  <2>3. SubSeq(SubSeq(s, p, Len(s)), 1, n) = SubSeq(s, p + 1 - 1, p + n - 1)
    BY <2>2, SubSeqOfSubSeq
  <2>4. p + 1 - 1 = p
    OBVIOUS
  <2> QED BY <2>1, <2>3, <2>4 DEF rest
<1>8. v.piece[id] \in Seq(Character)
  <2>1. PICK n \in 1 .. Len(s) - p + 1 : n = l(id)
    BY <1>1, <1>6
  <2>2. p \in 1 .. Len(s) + 1 /\ p + n - 1 \in p - 1 .. Len(s)
    BY <1>1
  <2>3. SubSeq(s, p, p + n - 1) \in Seq(Character)
    BY <2>2, PartOfText
  <2> QED BY <1>6, <1>7, <2>1, <2>3
<1>9. id \in Ids(v) /\ v.kind[id] \in {"normal", "special"}
  BY <1>2, <1>5, <1>8, CharactersAreNoByte
<1> QED BY <1>1, <1>6, <1>7, <1>8, <1>9 DEF id

-----------------------------------------------------------------------------
(* The steps of Encode *)

(* Nothing is encoded at first. *)
LEMMA InitEstablishes == Init => IInv
<1> SUFFICES ASSUME Init PROVE IInv
  OBVIOUS
<1>1. TypeInv
  <2>1. text \in Seq(Character)
    BY TokenizerAssumption DEF Init
  <2>2. Len(text) \in Nat /\ <<>> \in Seq(Character) /\ <<>> \in Seq(Ids(vocab))
    BY <2>1, LenProperties
  <2> QED BY <2>1, <2>2 DEF Init, TypeInv
<1>2. SegmentInv /\ MergeInv
  BY DEF Init, SegmentInv, MergeInv
<1>3. RestoreInv
  <2>1. SubSeq(text, 1, 0) = <<>>
    BY SubSeqEmpty
  <2>2. Encoded = 0 /\ ids = <<>>
    BY DEF Init, Encoded
  <2> QED BY <2>1, <2>2, NothingRestores DEF RestoreInv
<1> QED BY <1>1, <1>2, <1>3 DEF IInv

(* RestoreInv depends on what is encoded, not on the word at hand. *)
LEMMA RestoreUnchanged ==
  ASSUME RestoreInv, UNCHANGED <<vocab, text, ids, code>>, Encoded' = Encoded
  PROVE  RestoreInv'
BY DEF RestoreInv, SpacesAreDistinct

(* A position without an added token is passed. *)
LEMMA ScanPreserves == IInv /\ Scan => IInv'
<1> SUFFICES ASSUME IInv, Scan PROVE IInv'
  OBVIOUS
<1>1. TypeInv /\ SegmentInv /\ RestoreInv /\ Len(text) \in Nat
  BY LenProperties DEF IInv, TypeInv
<1>2. /\ pc = "scanning" /\ pc' = pc /\ i' = i + 1 /\ i <= Len(text)
      /\ UNCHANGED <<vocab, text, begin, length, word, ids, code>>
  BY DEF Scan
<1>3. TypeInv'
  <2>1. i' \in 1 .. Len(text) + 1 /\ begin \in 1 .. i'
    BY <1>1, <1>2 DEF TypeInv
  <2> QED BY <1>1, <1>2, <2>1 DEF TypeInv
<1>4. SegmentInv' /\ MergeInv'
  BY <1>1, <1>2 DEF SegmentInv, MergeInv
<1>5. RestoreInv'
  <2>1. Encoded' = Encoded
    BY <1>2 DEF Encoded
  <2> QED BY <1>1, <1>2, <2>1, RestoreUnchanged
<1> QED BY <1>3, <1>4, <1>5 DEF IInv

(* The text before an added token, or before the end, becomes a word.      *)
LEMMA CutSegmentPreserves == IInv /\ CutSegment => IInv'
<1> SUFFICES ASSUME IInv, CutSegment PROVE IInv'
  OBVIOUS
<1>1. TypeInv /\ SegmentInv /\ RestoreInv /\ Len(text) \in Nat
  BY LenProperties DEF IInv, TypeInv
<1>2. /\ pc = "scanning" /\ pc' = IF begin = i THEN "appending" ELSE "splitting"
      /\ i > Len(text) \/ Matches(vocab, text, i) # {}
      /\ length' = IF i > Len(text) THEN 0
                   ELSE Len(vocab.piece[MatchAddedToken(vocab, text, i)])
      /\ word' = Normalized(SubSeq(text, begin, i - 1))
      /\ UNCHANGED <<vocab, text, begin, i, ids, code>>
  BY DEF CutSegment
<1>3. /\ begin \in 1 .. Len(text) + 1 /\ i - 1 \in begin - 1 .. Len(text)
      /\ i \in 1 .. Len(text) + 1 /\ begin \in 1 .. i
  BY <1>1 DEF TypeInv
<1>4. word' \in Seq(Character)
  BY <1>1, <1>2, <1>3, WordHasNoSpace DEF TypeInv
<1>5. length' \in Nat
  <2>1. CASE i > Len(text)
    BY <1>2, <2>1
  <2>2. CASE ~(i > Len(text))
    <3>1. i \in 1 .. Len(text)
      BY <1>1, <1>3, <2>2
    <3>2. Len(vocab.piece[MatchAddedToken(vocab, text, i)]) \in 1 .. Len(text) - i + 1
      BY <1>1, <1>2, <2>2, <3>1, FoundToken DEF TypeInv
    <3> QED BY <1>2, <2>2, <3>2
  <2> QED BY <2>1, <2>2
<1>6. TypeInv'
  BY <1>1, <1>2, <1>4, <1>5 DEF TypeInv
<1>7. SegmentInv'
  <2>1. pc' \in {"splitting", "merging"} => begin < i
    BY <1>2, <1>3
  <2>2. code = "ok"
    BY <1>1, <1>2 DEF SegmentInv
  <2>3. pc' # "returned"
    BY <1>2
  <2> QED BY <1>2, <2>1, <2>2, <2>3 DEF SegmentInv
<1>8. MergeInv'
  BY <1>2 DEF MergeInv
<1>9. RestoreInv'
  <2>1. Encoded' = Encoded
    BY <1>2 DEF Encoded
  <2> QED BY <1>1, <1>2, <2>1, RestoreUnchanged
<1> QED BY <1>6, <1>7, <1>8, <1>9 DEF IInv

(* The word's characters become symbols, or the call fails. *)
LEMMA SplitWordPreserves == IInv /\ SplitWord => IInv'
<1> SUFFICES ASSUME IInv, SplitWord PROVE IInv'
  OBVIOUS
<1>1. TypeInv /\ SegmentInv /\ RestoreInv
  BY DEF IInv
<1>2. pc = "splitting" /\ UNCHANGED <<vocab, text, begin, i, length, word>>
  BY DEF SplitWord
<1> DEFINE Fails == ~vocab.byte_fallback /\ \E k \in 1 .. Len(word) : Unit(vocab, word[k]) = {}
<1>3. CASE Fails
  <2>1. pc' = "returned" /\ code' = "invalid_input" /\ ids' = <<>>
    BY <1>3 DEF SplitWord
  <2>2. TypeInv'
    <3>1. <<>> \in Seq(Ids(vocab))
      OBVIOUS
    <3> QED BY <1>1, <1>2, <2>1, <3>1 DEF TypeInv
  <2>3. SegmentInv' /\ MergeInv' /\ RestoreInv'
    BY <2>1 DEF SegmentInv, MergeInv, RestoreInv
  <2> QED BY <2>2, <2>3 DEF IInv
<1>4. CASE ~Fails
  <2>1. /\ pc' = "merging" /\ symbols' = Characters(vocab, word)
        /\ heap' = FirstCandidates(vocab, word, symbols')
        /\ UNCHANGED <<ids, code>>
    BY <1>4 DEF SplitWord
  <2>2. TypeInv'
    BY <1>1, <1>2, <2>1 DEF TypeInv
  <2>3. SegmentInv'
    BY <1>1, <1>2, <2>1 DEF SegmentInv
  <2>4. MergeInv'
    <3>1. word # <<>>
      <4>1. /\ begin \in 1 .. Len(text) + 1 /\ i - 1 \in begin - 1 .. Len(text)
            /\ begin < i /\ (i - 1) - begin + 1 # 0
        BY <1>1, <1>2, LenProperties DEF TypeInv, SegmentInv
      <4>2. word = Normalized(SubSeq(text, begin, i - 1))
        BY <1>1, <1>2 DEF SegmentInv
      <4>3. Len(word) = (i - 1) - begin + 1
        BY <1>1, <4>1, <4>2, WordHasNoSpace DEF TypeInv
      <4> QED BY <4>1, <4>3
    <3>2. vocab.byte_fallback \/ \A k \in 1 .. Len(word) : Unit(vocab, word[k]) # {}
      BY <1>4
    <3>3. Merging(vocab, word, Characters(vocab, word),
                  FirstCandidates(vocab, word, Characters(vocab, word)))
      BY <1>1, <3>1, <3>2, SplitStarts DEF TypeInv
    <3> QED BY <1>2, <2>1, <3>3 DEF MergeInv
  <2>5. RestoreInv'
    <3>1. Encoded' = Encoded
      BY <1>2, <2>1 DEF Encoded
    <3> QED BY <1>1, <1>2, <2>1, <3>1, RestoreUnchanged
  <2> QED BY <2>2, <2>3, <2>4, <2>5 DEF IInv
<1> QED BY <1>3, <1>4

(* A step that merges goes on with the same segment. *)
LEMMA MergingGoesOn ==
  ASSUME IInv, pc = "merging", pc' = "merging",
         UNCHANGED <<vocab, text, begin, i, length, word, ids, code>>,
         Merging(vocab, word, symbols', heap')
  PROVE  IInv'
<1>1. TypeInv /\ SegmentInv /\ RestoreInv
  BY DEF IInv
<1>2. TypeInv'
  BY <1>1 DEF TypeInv
<1>3. SegmentInv' /\ MergeInv'
  BY <1>1 DEF SegmentInv, MergeInv
<1>4. RestoreInv'
  <2>1. Encoded' = Encoded
    BY DEF Encoded
  <2> QED BY <1>1, <2>1, RestoreUnchanged
<1> QED BY <1>2, <1>3, <1>4 DEF IInv

(* The top of a heap is in it. *)
LEMMA TopIsQueued ==
  ASSUME IInv, pc = "merging", heap # {}
  PROVE  Merging(vocab, word, symbols, heap) /\ Top(heap) \in heap
<1>1. /\ vocab \in Vocabularies /\ word \in Seq(Character)
      /\ Merging(vocab, word, symbols, heap)
  BY DEF IInv, TypeInv, MergeInv
<1>2. heap \subseteq Candidate(vocab, word, symbols) /\ IsFiniteSet(heap)
  BY <1>1 DEF Merging
<1>3. heap \in SUBSET Key
  BY <1>1, <1>2, CandidatesAreKeys
<1> QED BY <1>1, <1>2, <1>3, TopIsHighest

(* A candidate that is out of date is dropped. *)
LEMMA DropStalePreserves == IInv /\ DropStale => IInv'
<1> SUFFICES ASSUME IInv, DropStale PROVE IInv'
  OBVIOUS
<1>1. /\ pc = "merging" /\ pc' = pc /\ heap # {} /\ Stale(symbols, Top(heap))
      /\ heap' = heap \ {Top(heap)}
      /\ UNCHANGED <<vocab, text, begin, i, length, word, symbols, ids, code>>
  BY DEF DropStale
<1>2. vocab \in Vocabularies /\ word \in Seq(Character)
  BY DEF IInv, TypeInv
<1>3. Merging(vocab, word, symbols, heap \ {Top(heap)})
  BY <1>1, <1>2, TopIsQueued, DropKeeps
<1> QED BY <1>1, <1>3, MergingGoesOn

(* A pair is merged. *)
LEMMA MergePreserves == IInv /\ Merge => IInv'
<1> SUFFICES ASSUME IInv, Merge PROVE IInv'
  OBVIOUS
<1>1. /\ pc = "merging" /\ pc' = pc /\ heap # {} /\ ~Stale(symbols, Top(heap))
      /\ symbols' = Merged(symbols, Top(heap))
      /\ heap' = (heap \ {Top(heap)}) \cup
                  NewCandidates(vocab, word, symbols', Top(heap).left)
      /\ UNCHANGED <<vocab, text, begin, i, length, word, ids, code>>
  BY DEF Merge
<1>2. vocab \in Vocabularies /\ word \in Seq(Character)
  BY DEF IInv, TypeInv
<1>3. Merging(vocab, word, symbols', heap')
  <2>1. Merging(vocab, word, symbols, heap) /\ Top(heap) \in heap
    BY <1>1, TopIsQueued
  <2> DEFINE m == Merged(symbols, Top(heap))
  <2>2. Merging(vocab, word, m,
                (heap \ {Top(heap)}) \cup NewCandidates(vocab, word, m, Top(heap).left))
    BY <1>1, <1>2, <2>1, MergeKeeps
  <2> QED BY <1>1, <2>2
<1> QED BY <1>1, <1>3, MergingGoesOn

(* The word is emitted, and its tokens stand for the segment. *)
LEMMA EmitWordPreserves == IInv /\ EmitWord => IInv'
<1> SUFFICES ASSUME IInv, EmitWord PROVE IInv'
  OBVIOUS
<1> DEFINE emitted == WordIds(vocab, word, symbols, Chain(symbols))
<1>1. /\ pc = "merging" /\ pc' = "appending" /\ ids' = ids \o emitted
      /\ UNCHANGED <<vocab, text, begin, i, length, word, heap, code>>
  BY DEF EmitWord, Live
<1>2. TypeInv /\ SegmentInv /\ RestoreInv /\ Sound(vocab, word, symbols)
  BY <1>1 DEF IInv, MergeInv, Merging
<1>3. /\ vocab \in Vocabularies /\ word \in Seq(Character) /\ text \in Seq(Character)
      /\ ids \in Seq(Ids(vocab)) /\ Len(text) \in Nat
  BY <1>2, LenProperties DEF TypeInv
<1>4. /\ begin \in 1 .. Len(text) + 1 /\ i - 1 \in begin - 1 .. Len(text)
      /\ begin - 1 \in 0 .. Len(text) /\ i \in 1 .. Len(text) + 1 /\ begin \in 1 .. i
  BY <1>2, <1>3 DEF TypeInv
<1>5. word = Normalized(SubSeq(text, begin, i - 1))
  BY <1>1, <1>2 DEF SegmentInv
<1>6. /\ Space \notin Range(word)
      /\ Metaspace \in Range(word) => Metaspace \in Range(text) \/ Space \in Range(text)
  BY <1>3, <1>4, <1>5, WordHasNoSpace
<1>7. /\ emitted \in Seq(Ids(vocab))
      /\ \A tokens \in Seq(Ids(vocab)) : \A s :
           Restores(vocab, tokens, s) /\ NoSpecial(vocab, emitted) /\ Spaced(vocab, word) =>
             Restores(vocab, tokens \o emitted, s \o WithSpaces(word))
  BY <1>2, <1>3, <1>6, WordRestores
<1> HIDE DEF emitted
<1>8. ids' \in Seq(Ids(vocab))
  BY <1>1, <1>3, <1>7, ConcatProperties
<1>9. TypeInv'
  BY <1>1, <1>2, <1>8 DEF TypeInv
<1>10. SegmentInv' /\ MergeInv'
  BY <1>1, <1>2 DEF SegmentInv, MergeInv
<1>11. RestoreInv'
  <2> SUFFICES ASSUME code = "ok", SpacesAreDistinct, NoSpecial(vocab, ids \o emitted)
               PROVE  Restores(vocab, ids \o emitted, SubSeq(text, 1, i - 1))
    <3>1. Encoded' = i - 1
      BY <1>1 DEF Encoded
    <3>2. SpacesAreDistinct' <=> SpacesAreDistinct
      BY <1>1 DEF SpacesAreDistinct
    <3> QED BY <1>1, <3>1, <3>2 DEF RestoreInv
  <2>1. NoSpecial(vocab, ids) /\ NoSpecial(vocab, emitted)
    BY <1>3, <1>7, NoSpecialInParts
  <2>2. Encoded = begin - 1
    BY <1>1 DEF Encoded
  <2>3. Restores(vocab, ids, SubSeq(text, 1, begin - 1))
    BY <1>2, <2>1, <2>2 DEF RestoreInv
  <2>4. Spaced(vocab, word)
    BY <1>6 DEF Spaced, SpacesAreDistinct
  <2>5. Restores(vocab, ids \o emitted, SubSeq(text, 1, begin - 1) \o WithSpaces(word))
    BY <1>3, <1>7, <2>1, <2>3, <2>4
  <2>6. WithSpaces(word) = SubSeq(text, begin, i - 1)
    BY <1>3, <1>4, <1>5, SpacesComeBack DEF SpacesAreDistinct
  <2>7. SubSeq(text, 1, begin - 1) \o SubSeq(text, begin, i - 1) = SubSeq(text, 1, i - 1)
    <3>1. PICK k \in 0 .. Len(text) : k = begin - 1
      BY <1>4
    <3>2. PICK n \in k .. Len(text) : n = i - 1
      BY <1>4, <3>1
    <3>3. 1 \in 1 .. Len(text) + 1 /\ k \in 1 - 1 .. Len(text) /\ k + 1 = begin
      BY <1>3, <1>4, <3>1
    <3>4. SubSeq(text, 1, k) \o SubSeq(text, k + 1, n) = SubSeq(text, 1, n)
      BY <1>3, <3>3, ConcatAdjacentSubSeq
    <3> QED BY <3>1, <3>2, <3>3, <3>4
  <2> QED BY <2>5, <2>6, <2>7
<1> QED BY <1>9, <1>10, <1>11 DEF IInv

(* The added token stands for the text that it was found at. *)
LEMMA AppendAddedPreserves == IInv /\ AppendAdded => IInv'
<1> SUFFICES ASSUME IInv, AppendAdded PROVE IInv'
  OBVIOUS
<1> DEFINE id == MatchAddedToken(vocab, text, i)
<1>1. /\ pc = "appending" /\ pc' = "scanning" /\ length > 0 /\ ids' = Append(ids, id)
      /\ i' = i + length /\ begin' = i + length
      /\ UNCHANGED <<vocab, text, length, word, code>>
  BY DEF AppendAdded
<1>2. TypeInv /\ SegmentInv /\ RestoreInv
  BY DEF IInv
<1>3. /\ vocab \in Vocabularies /\ text \in Seq(Character)
      /\ ids \in Seq(Ids(vocab)) /\ Len(text) \in Nat /\ i \in 1 .. Len(text) + 1
  BY <1>2, LenProperties DEF TypeInv
<1>4. i \in 1 .. Len(text) /\ Matches(vocab, text, i) # {} /\ length = Len(vocab.piece[id])
  <2>1. ~(i > Len(text))
    BY <1>1, <1>2 DEF SegmentInv
  <2>2. Matches(vocab, text, i) # {} /\ length = Len(vocab.piece[id])
    BY <1>1, <1>2, <2>1 DEF SegmentInv
  <2> QED BY <1>3, <2>1, <2>2
<1>5. /\ id \in Ids(vocab) /\ vocab.kind[id] \in {"normal", "special"}
      /\ length \in 1 .. Len(text) - i + 1 /\ vocab.piece[id] \in Seq(Character)
      /\ vocab.piece[id] = SubSeq(text, i, i + length - 1)
  BY <1>3, <1>4, FoundToken
<1> HIDE DEF id
<1>6. TypeInv'
  <2>1. Append(ids, id) \in Seq(Ids(vocab))
    BY <1>3, <1>5, AppendProperties
  <2>2. i + length \in 1 .. Len(text) + 1 /\ i + length \in 1 .. i + length
    BY <1>3, <1>4, <1>5
  <2> QED BY <1>1, <1>2, <2>1, <2>2 DEF TypeInv
<1>7. SegmentInv' /\ MergeInv'
  BY <1>1, <1>2 DEF SegmentInv, MergeInv
<1>8. RestoreInv'
  <2>1. PICK to \in i .. Len(text) : to = i + length - 1
    <3>1. length \in 1 .. Len(text) - i + 1 /\ i \in 1 .. Len(text) /\ Len(text) \in Nat
      BY <1>3, <1>4, <1>5
    <3>2. i + length - 1 \in i .. Len(text)
      BY <3>1
    <3> QED BY <3>2
  <2> SUFFICES ASSUME code = "ok", SpacesAreDistinct, NoSpecial(vocab, Append(ids, id))
               PROVE  Restores(vocab, Append(ids, id), SubSeq(text, 1, to))
    <3>1. Encoded' = to
      <4>1. Encoded' = (i + length) - 1
        BY <1>1 DEF Encoded
      <4> QED BY <1>3, <1>5, <2>1, <4>1
    <3>2. SpacesAreDistinct' <=> SpacesAreDistinct
      BY <1>1 DEF SpacesAreDistinct
    <3> QED BY <1>1, <3>1, <3>2 DEF RestoreInv
  <2>2. NoSpecial(vocab, ids) /\ vocab.kind[id] = "normal"
    <3>1. <<id>> \in Seq(Ids(vocab)) /\ Append(ids, id) = ids \o <<id>>
      BY <1>3, <1>5, AppendIsConcat
    <3>2. NoSpecial(vocab, ids) /\ NoSpecial(vocab, <<id>>)
      <4>1. PICK last \in Seq(Ids(vocab)) : last = <<id>>
        BY <3>1
      <4>2. NoSpecial(vocab, ids \o last)
        BY <3>1, <4>1
      <4>3. NoSpecial(vocab, ids) /\ NoSpecial(vocab, last)
        BY <1>3, <4>2, NoSpecialInParts
      <4> QED BY <4>1, <4>3
    <3>3. 1 \in 1 .. Len(<<id>>) /\ <<id>>[1] = id
      OBVIOUS
    <3> QED BY <1>5, <3>2, <3>3 DEF NoSpecial
  <2>3. Encoded = i - 1
    BY <1>1 DEF Encoded
  <2>4. Restores(vocab, ids, SubSeq(text, 1, i - 1))
    BY <1>2, <2>2, <2>3 DEF RestoreInv
  <2>5. Restores(vocab, Append(ids, id), SubSeq(text, 1, i - 1) \o WithSpaces(vocab.piece[id]))
    BY <1>3, <1>5, <2>2, <2>4, NormalTokenRestores
  <2>6. WithSpaces(SubSeq(text, i, to)) = SubSeq(text, i, to)
    <3>1. i \in 1 .. Len(text) + 1 /\ to \in i - 1 .. Len(text)
      BY <1>3, <1>4
    <3> QED BY <1>3, <3>1, SpacesComeBack DEF SpacesAreDistinct
  <2>7. SubSeq(text, 1, i - 1) \o SubSeq(text, i, to) = SubSeq(text, 1, to)
    <3>1. PICK k \in 0 .. Len(text) : k = i - 1
      BY <1>3, <1>4
    <3>2. 1 \in 1 .. Len(text) + 1 /\ k \in 1 - 1 .. Len(text) /\ k + 1 = i /\ to \in k .. Len(text)
      BY <1>3, <1>4, <3>1
    <3>3. SubSeq(text, 1, k) \o SubSeq(text, k + 1, to) = SubSeq(text, 1, to)
      BY <1>3, <3>2, ConcatAdjacentSubSeq
    <3> QED BY <3>1, <3>2, <3>3
  <2> QED BY <1>5, <2>1, <2>5, <2>6, <2>7
<1> QED BY <1>6, <1>7, <1>8 DEF IInv

(* At the end the whole text is encoded. *)
LEMMA FinishEncodePreserves == IInv /\ FinishEncode => IInv'
<1> SUFFICES ASSUME IInv, FinishEncode PROVE IInv'
  OBVIOUS
<1>1. /\ pc = "appending" /\ pc' = "returned" /\ length = 0
      /\ UNCHANGED <<vocab, text, begin, i, length, word, ids, code>>
  BY DEF FinishEncode
<1>2. TypeInv /\ SegmentInv /\ RestoreInv
  BY DEF IInv
<1>3. i > Len(text)
  <2> SUFFICES ASSUME ~(i > Len(text)) PROVE FALSE
    OBVIOUS
  <2>1. Matches(vocab, text, i) # {} /\ length = Len(vocab.piece[MatchAddedToken(vocab, text, i)])
    BY <1>1, <1>2 DEF SegmentInv
  <2>2. vocab \in Vocabularies /\ text \in Seq(Character) /\ i \in 1 .. Len(text)
    BY <1>2, LenProperties DEF TypeInv
  <2>3. Len(vocab.piece[MatchAddedToken(vocab, text, i)]) \in 1 .. Len(text) - i + 1
    BY <2>1, <2>2, FoundToken
  <2> QED BY <1>1, <2>1, <2>3
<1>4. TypeInv'
  BY <1>1, <1>2 DEF TypeInv
<1>5. SegmentInv' /\ MergeInv'
  BY <1>1, <1>3 DEF SegmentInv, MergeInv
<1>6. RestoreInv'
  <2>1. Encoded' = Encoded
    BY <1>1 DEF Encoded
  <2> QED BY <1>1, <1>2, <2>1, RestoreUnchanged
<1> QED BY <1>4, <1>5, <1>6 DEF IInv

(* A step that changes nothing. *)
LEMMA StutterPreserves == IInv /\ UNCHANGED vars => IInv'
<1> SUFFICES ASSUME IInv, UNCHANGED vars PROVE IInv'
  OBVIOUS
<1>1. UNCHANGED <<vocab, text, pc, begin, i, length, word, symbols, heap, ids, code>>
  BY DEF vars
<1>2. TypeInv' /\ SegmentInv'
  BY <1>1 DEF IInv, TypeInv, SegmentInv
<1>3. MergeInv'
  BY <1>1 DEF IInv, MergeInv
<1>4. RestoreInv'
  <2>1. Encoded' = Encoded
    BY <1>1 DEF Encoded
  <2> QED BY <1>1, <2>1, RestoreUnchanged DEF IInv
<1> QED BY <1>2, <1>3, <1>4 DEF IInv

(* While Encode runs, the symbols that were not merged away lie side by    *)
(* side over the word with the tokens of what they span, the heap has      *)
(* every pair of neighbours, and the ids stand for the text so far.        *)
THEOREM EncodeIsInductive == Spec => []IInv
<1>1. IInv /\ [Next]_vars => IInv'
  BY ScanPreserves, CutSegmentPreserves, SplitWordPreserves, DropStalePreserves,
     MergePreserves, EmitWordPreserves, AppendAddedPreserves, FinishEncodePreserves,
     StutterPreserves DEF Next
<1> QED BY <1>1, InitEstablishes, PTL DEF Spec

(* Decode gives back the text that Encode was called with: for any text    *)
(* and any vocabulary, with merged pieces, added tokens, spaces and        *)
(* characters that are encoded as bytes.                                   *)
THEOREM TextIsRestored == Spec => []DecodeRestoresText
<1>1. IInv => DecodeRestoresText
  <2> SUFFICES ASSUME IInv, pc = "returned", code = "ok", SpacesAreDistinct,
                      \A k \in 1 .. Len(ids) : vocab.kind[ids[k]] # "special"
               PROVE  Decode(vocab, ids) = text
    BY DEF DecodeRestoresText
  <2>1. Restores(vocab, ids, SubSeq(text, 1, i - 1))
    BY DEF IInv, RestoreInv, Encoded, NoSpecial
  <2>2. text \in Seq(Character) /\ i - 1 = Len(text)
    BY LenProperties DEF IInv, TypeInv, SegmentInv
  <2>3. SubSeq(text, 1, Len(text)) = text
    BY <2>2, SubSeqFull
  <2> QED BY <2>1, <2>2, <2>3, RestoredIsDecoded
<1> QED BY <1>1, EncodeIsInductive, PTL

(* Each merge takes the highest pair of neighbours there is and joins      *)
(* these two only, and none is left when the word is emitted, although the *)
(* heap keeps candidates for symbols that have changed since.              *)
THEOREM PairsMergeInOrder == Spec => MergesHighestPair
<1> DEFINE A == pc = "merging" =>
       /\ pc' = "appending" => Available = {}
       /\ pc' = "merging" /\ symbols' # symbols =>
            \E p \in 1 .. Len(Live) - 1 : \E best \in MergeOf(p) :
              /\ \A other \in Available \ {best} : Higher(best, other)
              /\ Live' = RemoveAt(Live, p + 1)
              /\ symbols'[Live[p]].id = best.id
              /\ \A k \in Range(Live') \ {Live[p]} :
                   /\ symbols'[k].id = symbols[k].id
                   /\ symbols'[k].size = symbols[k].size
<1>1. ASSUME IInv, [Next]_vars
      PROVE  A
  <2> SUFFICES ASSUME pc = "merging"
               PROVE  /\ pc' = "appending" => Available = {}
                      /\ pc' = "merging" /\ symbols' # symbols =>
                           \E p \in 1 .. Len(Live) - 1 : \E best \in MergeOf(p) :
                             /\ \A other \in Available \ {best} : Higher(best, other)
                             /\ Live' = RemoveAt(Live, p + 1)
                             /\ symbols'[Live[p]].id = best.id
                             /\ \A k \in Range(Live') \ {Live[p]} :
                                  /\ symbols'[k].id = symbols[k].id
                                  /\ symbols'[k].size = symbols[k].size
    OBVIOUS
  <2>1. /\ vocab \in Vocabularies /\ word \in Seq(Character)
        /\ Merging(vocab, word, symbols, heap)
    BY <1>1 DEF IInv, TypeInv, MergeInv
  <2>2. DropStale \/ Merge \/ EmitWord \/ UNCHANGED vars
    BY <1>1 DEF Next, Scan, CutSegment, SplitWord, AppendAdded, FinishEncode
  <2>3. CASE DropStale \/ UNCHANGED vars
    BY <2>3 DEF DropStale, vars
  <2>4. CASE EmitWord
    <3>1. heap = {} /\ pc' # "merging"
      BY <2>4 DEF EmitWord
    <3>2. \A p \in 1 .. Len(Live) - 1 : MergeOf(p) \subseteq heap
      BY <2>1, PairsAreQueued DEF Live, MergeOf
    <3>3. Available = {}
      BY <3>1, <3>2 DEF Available
    <3> QED BY <3>1, <3>3
  <2>5. CASE Merge
    <3>1. /\ pc' # "appending" /\ heap # {} /\ ~Stale(symbols, Top(heap))
          /\ symbols' = Merged(symbols, Top(heap))
      BY <2>5 DEF Merge
    <3> DEFINE top == Top(heap)
               m == Merged(symbols, top)
               c == Chain(symbols)
               d == Chain(m)
               Of(p) == MakeCandidate(vocab, word, symbols, c[p], c[p + 1])
               all == UNION {Of(q) : q \in 1 .. Len(c) - 1}
    <3>2. \E p \in 1 .. Len(c) - 1 :
            /\ top \in Of(p)
            /\ \A other \in all \ {top} : Higher(top, other)
            /\ d = RemoveAt(c, p + 1)
            /\ m[c[p]].id = top.id
            /\ \A k \in Range(d) \ {c[p]} : m[k].id = symbols[k].id /\ m[k].size = symbols[k].size
      BY <2>1, <3>1, TopIsHighestPair
    <3>3. Live = c /\ Live' = d /\ symbols' = m /\ Available = all
      BY <3>1 DEF Live, Available, MergeOf
    <3>4. \A p \in 1 .. Len(c) - 1 : MergeOf(p) = Of(p)
      BY DEF Live, MergeOf
    <3> HIDE DEF top, m, c, d, Of, all
    <3> QED BY <3>1, <3>2, <3>3, <3>4
  <2> QED BY <2>2, <2>3, <2>4, <2>5
<1>2. Spec => [][A]_vars
  <2> HIDE DEF A
  <2> QED BY <1>1, EncodeIsInductive, PTL DEF Spec
<1> QED BY <1>2 DEF MergesHighestPair
=============================================================================
