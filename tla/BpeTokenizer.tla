---------------------------- MODULE BpeTokenizer ----------------------------
(***************************************************************************)
(* BpeTokenizer::Impl::Encode and Decode, for vocabularies of characters   *)
(* (normalizer metaspace, no pre-tokenizer): the text is cut at added      *)
(* tokens, what lies between is merged pair by pair from a heap whose      *)
(* candidates may be out of date, and unknown characters become bytes.     *)
(*                                                                         *)
(* Text is a sequence of code points and positions count from 1, so that a *)
(* symbol's size is its chars too.  The piece of a byte token is its byte: *)
(* a text that spells out the name of one, "<0x0A>", is left out.          *)
(***************************************************************************)
EXTENDS Integers, SequencesExt

CONSTANTS
  Character,
  Byte,
  Texts,
  Vocabularies,   \* records of the tables that a tokenizer file holds:
                  \*   piece[id], kind[id], score[id]
                  \*   hash, added   ids in the vocabulary's hash and in the trie
                  \*   merge_priority, byte_fallback
                  \*   rules         [id, left, rank] for merge_priority "rank"
  Utf8,           \* Utf8[c]: the bytes of the characters without a token
  Space, Metaspace, Replacement,
  MaxRank

Ids(v) == DOMAIN v.piece

(* What Init demands of a file; a byte, or a character for which Utf8 has  *)
(* no bytes, is a token wherever it may be looked for.                     *)
WellFormed(v) ==
  /\ v.piece \in Seq(Seq(Character \cup Byte) \ {<<>>})
  /\ v.hash \cup v.added \subseteq Ids(v)
  /\ \A id \in Ids(v) :
       /\ v.kind[id] \in {"normal", "byte", "special"}
       /\ v.score[id] \in Int
       /\ IF v.kind[id] = "byte" THEN \E b \in Byte : v.piece[id] = <<b>>
          ELSE v.piece[id] \in Seq(Character)
  /\ \A id, other \in v.hash : v.piece[id] = v.piece[other] => id = other
  /\ v.byte_fallback =>
       \A c \in DOMAIN Utf8 : \A b \in Range(Utf8[c]) :
         \E id \in Ids(v) : v.kind[id] = "byte" /\ v.piece[id] = <<b>>
  /\ v.byte_fallback =>
       \A c \in Character \ ({Space} \cup DOMAIN Utf8) :
         \E id \in v.hash : v.kind[id] = "normal" /\ v.piece[id] = <<c>>
  /\ \A id, other \in Ids(v) :
       v.kind[id] = "byte" /\ v.kind[other] = "byte" /\ v.piece[id] = v.piece[other] =>
         id = other
  /\ v.merge_priority \in {"score", "rank"}
  /\ \A r \in v.rules : r.id \in Ids(v) /\ r.rank \in 0 .. MaxRank
  /\ \A r \in v.rules : r.left \in 1 .. Len(v.piece[r.id]) - 1
  /\ \A r, s \in v.rules : r.id = s.id /\ r.left = s.left => r = s
  /\ v.merge_priority = "score" => v.rules = {}

(* In UTF-8 what follows the first byte of a character begins no other. *)
Utf8IsSuffixFree ==
  \A c, d \in DOMAIN Utf8 : \A n \in 1 .. Len(Utf8[c]) :
    SubSeq(Utf8[c], n, Len(Utf8[c])) = Utf8[d] => c = d

ASSUME TokenizerAssumption ==
  /\ Texts \subseteq Seq(Character)
  /\ Byte \cap Character = {}
  /\ {Space, Metaspace} \subseteq Character /\ Space # Metaspace
  /\ DOMAIN Utf8 \subseteq Character
  /\ \A c \in DOMAIN Utf8 : Utf8[c] \in Seq(Byte) \ {<<>>}
  /\ Utf8IsSuffixFree
  /\ MaxRank \in Nat
  /\ \A v \in Vocabularies : WellFormed(v)

VARIABLES
  vocab,
  text,
  pc,
  begin,     \* where the segment begins
  i,
  length,    \* of the added token found at i
  word,      \* the normalized segment
  symbols,
  heap,
  ids,
  code

vars == <<vocab, text, pc, begin, i, length, word, symbols, heap, ids, code>>

Init ==
  /\ vocab \in Vocabularies
  /\ text \in Texts
  /\ pc = "scanning"
  /\ begin = 1
  /\ i = 1
  /\ length = 0
  /\ word = <<>>
  /\ symbols = <<>>
  /\ heap = {}
  /\ ids = <<>>
  /\ code = "ok"

-----------------------------------------------------------------------------
(* The vocabulary *)

Lookup(v, bytes) == {id \in v.hash : v.piece[id] = bytes}

(* The token that a code point is on its own. *)
Unit(v, c) == {id \in Lookup(v, <<c>>) : v.kind[id] = "normal"}

ByteId(v, b) == CHOOSE id \in Ids(v) : v.kind[id] = "byte" /\ v.piece[id] = <<b>>

(* The added tokens that s continues with at position p. *)
Matches(v, s, p) == {id \in v.added : IsPrefix(v.piece[id], SubSeq(s, p, Len(s)))}

(* The longest of them. *)
MatchAddedToken(v, s, p) ==
  CHOOSE id \in Matches(v, s, p) :
    \A other \in Matches(v, s, p) : Len(v.piece[other]) <= Len(v.piece[id])

Normalized(s) == [k \in 1 .. Len(s) |-> IF s[k] = Space THEN Metaspace ELSE s[k]]

-----------------------------------------------------------------------------
(* Candidates *)

(* The priorities that merging a left symbol of so many characters into    *)
(* the token id may have.                                                  *)
Priority(v, id, left_chars) ==
  IF v.merge_priority = "score"
  THEN {v.score[id]}
  ELSE {MaxRank - r.rank : r \in {r \in v.rules : r.id = id /\ r.left = left_chars}}

(* MakeCandidate: no candidate, or one, as a set; w is the word. *)
MakeCandidate(v, w, table, left, right) ==
  IF left = -1 \/ right = -1 \/ table[left].id = -1 \/ table[right].id = -1
  THEN {}
  ELSE LET a == table[left]
           b == table[right]
       IN  UNION {{[priority |-> p, left_chars |-> a.size, right_chars |-> b.size,
                    left |-> left, right |-> right, size |-> a.size + b.size, id |-> id] :
                     p \in Priority(v, id, a.size)} :
                     id \in Lookup(v, SubSeq(w, a.start, a.start + a.size + b.size - 1))}

(* Greater priority first, then the longer left, the longer right, the     *)
(* smaller id and the place further left.                                  *)
Higher(a, b) ==
  \/ a.priority > b.priority
  \/ /\ a.priority = b.priority
     /\ \/ a.left_chars > b.left_chars
        \/ /\ a.left_chars = b.left_chars
           /\ \/ a.right_chars > b.right_chars
              \/ /\ a.right_chars = b.right_chars
                 /\ a.id < b.id \/ (a.id = b.id /\ a.left < b.left)

Top(queue) == CHOOSE c \in queue : \A other \in queue \ {c} : Higher(c, other)

(* Mutant: sizes are not compared. *)
StaleByLinks(table, c) ==
  \/ table[c.left].size = 0
  \/ table[c.right].size = 0
  \/ table[c.left].next # c.right

(* A symbol of c was merged away, has another neighbour now or has grown. *)
Stale(table, c) ==
  \/ table[c.left].size = 0
  \/ table[c.right].size = 0
  \/ table[c.left].next # c.right
  \/ table[c.left].size + table[c.right].size # c.size

(* The table after top is merged: the left symbol grows over the right. *)
Merged(table, top) ==
  LET next == table[top.right].next
      grown == [table EXCEPT ![top.left].size = top.size,
                             ![top.left].id = top.id,
                             ![top.left].next = next,
                             ![top.right].size = 0]
  IN  IF next = -1 THEN grown ELSE [grown EXCEPT ![next].prev = top.left]

(* A symbol for each character of the word, and the first candidates. *)
Characters(v, w) ==
  [k \in 1 .. Len(w) |->
     [start |-> k, size |-> 1, prev |-> IF k = 1 THEN -1 ELSE k - 1,
      next |-> IF k = Len(w) THEN -1 ELSE k + 1,
      id |-> IF Unit(v, w[k]) = {} THEN -1 ELSE CHOOSE id \in Unit(v, w[k]) : TRUE]]

FirstCandidates(v, w, table) ==
  UNION {MakeCandidate(v, w, table, k - 1, k) : k \in 2 .. Len(w)}

(* The candidates of a symbol that has grown. *)
NewCandidates(v, w, table, k) ==
  MakeCandidate(v, w, table, table[k].prev, k) \cup
  MakeCandidate(v, w, table, k, table[k].next)

(* The symbols that the list in table reaches, from left to right. *)
Chain(table) ==
  LET from[k \in 1 .. Len(table)] ==
        IF table[k].next = -1 THEN <<k>> ELSE <<k>> \o from[table[k].next]
  IN  from[1]

(* The tokens of a symbol: its own, or those of its character's bytes. *)
SymbolIds(v, w, symbol) ==
  IF symbol.id # -1
  THEN <<symbol.id>>
  ELSE LET bytes == Utf8[w[symbol.start]]
       IN  [j \in 1 .. Len(bytes) |-> ByteId(v, bytes[j])]

WordIds(v, w, table, live) ==
  FlattenSeq([k \in 1 .. Len(live) |-> SymbolIds(v, w, table[live[k]])])

-----------------------------------------------------------------------------
(* Encode *)

Scan ==
  /\ pc = "scanning"
  /\ i <= Len(text) /\ Matches(vocab, text, i) = {}
  /\ i' = i + 1
  /\ UNCHANGED <<vocab, text, pc, begin, length, word, symbols, heap, ids, code>>

(* EncodeSegment: at an added token, or at the end, the text before it. *)
CutSegment ==
  /\ pc = "scanning"
  /\ i > Len(text) \/ Matches(vocab, text, i) # {}
  /\ length' = IF i > Len(text) THEN 0
               ELSE Len(vocab.piece[MatchAddedToken(vocab, text, i)])
  /\ word' = Normalized(SubSeq(text, begin, i - 1))
  /\ pc' = IF begin = i THEN "appending" ELSE "splitting"
  /\ UNCHANGED <<vocab, text, begin, i, symbols, heap, ids, code>>

(* MergeWord: without byte fallback every character must have a token. *)
SplitWord ==
  /\ pc = "splitting"
  /\ IF ~vocab.byte_fallback /\ \E k \in 1 .. Len(word) : Unit(vocab, word[k]) = {}
     THEN /\ pc' = "returned"
          /\ code' = "invalid_input"
          /\ ids' = <<>>
          /\ UNCHANGED <<symbols, heap>>
     ELSE /\ pc' = "merging"
          /\ symbols' = Characters(vocab, word)
          /\ heap' = FirstCandidates(vocab, word, symbols')
          /\ UNCHANGED <<ids, code>>
  /\ UNCHANGED <<vocab, text, begin, i, length, word>>

DropStale ==
  /\ pc = "merging" /\ heap # {}
  /\ Stale(symbols, Top(heap))
  /\ heap' = heap \ {Top(heap)}
  /\ UNCHANGED <<vocab, text, pc, begin, i, length, word, symbols, ids, code>>

Merge ==
  /\ pc = "merging" /\ heap # {}
  /\ ~Stale(symbols, Top(heap))
  /\ symbols' = Merged(symbols, Top(heap))
  /\ heap' = (heap \ {Top(heap)}) \cup
              NewCandidates(vocab, word, symbols', Top(heap).left)
  /\ UNCHANGED <<vocab, text, pc, begin, i, length, word, ids, code>>

Live == Chain(symbols)

EmitWord ==
  /\ pc = "merging" /\ heap = {}
  /\ ids' = ids \o WordIds(vocab, word, symbols, Live)
  /\ symbols' = <<>>
  /\ pc' = "appending"
  /\ UNCHANGED <<vocab, text, begin, i, length, word, heap, code>>

(* Mutant: the next segment begins at the added token. *)
AppendAddedKeepBegin ==
  /\ pc = "appending" /\ length > 0
  /\ ids' = Append(ids, MatchAddedToken(vocab, text, i))
  /\ i' = i + length
  /\ begin' = i
  /\ pc' = "scanning"
  /\ UNCHANGED <<vocab, text, length, word, symbols, heap, code>>

AppendAdded ==
  /\ pc = "appending" /\ length > 0
  /\ ids' = Append(ids, MatchAddedToken(vocab, text, i))
  /\ i' = i + length
  /\ begin' = i + length
  /\ pc' = "scanning"
  /\ UNCHANGED <<vocab, text, length, word, symbols, heap, code>>

FinishEncode ==
  /\ pc = "appending" /\ length = 0
  /\ pc' = "returned"
  /\ UNCHANGED <<vocab, text, begin, i, length, word, symbols, heap, ids, code>>

Next ==
  \/ Scan
  \/ CutSegment
  \/ SplitWord
  \/ DropStale
  \/ Merge
  \/ EmitWord
  \/ AppendAdded
  \/ FinishEncode

Spec == Init /\ [][Next]_vars
-----------------------------------------------------------------------------
(* Decode *)

(* The characters that a run of bytes is the UTF-8 of: one way, or none. *)
Readings(run) ==
  {s \in SeqOf(DOMAIN Utf8, Len(run)) :
     FlattenSeq([k \in 1 .. Len(s) |-> Utf8[s[k]]]) = run}

(* flush_run: a run that is no UTF-8 gives a replacement for every byte. *)
Flushed(partial) ==
  partial.text \o IF Readings(partial.run) = {}
                  THEN [k \in 1 .. Len(partial.run) |-> Replacement]
                  ELSE CHOOSE s \in Readings(partial.run) : TRUE

WithSpaces(piece) ==
  [k \in 1 .. Len(piece) |-> IF piece[k] = Metaspace THEN Space ELSE piece[k]]

DecodeNext(v, partial, id) ==
  IF v.kind[id] = "special" THEN partial
  ELSE IF v.kind[id] = "byte"
  THEN [text |-> partial.text, run |-> partial.run \o v.piece[id]]
  ELSE [text |-> Flushed(partial) \o WithSpaces(v.piece[id]), run |-> <<>>]

(* What the loop over tokens has before it flushes the last run. *)
Partial(v, tokens) ==
  LET partial[k \in 0 .. Len(tokens)] ==
        IF k = 0 THEN [text |-> <<>>, run |-> <<>>]
        ELSE DecodeNext(v, partial[k - 1], tokens[k])
  IN  partial[Len(tokens)]

Decode(v, tokens) == Flushed(Partial(v, tokens))

-----------------------------------------------------------------------------
(* Properties *)

(* The pairs of neighbours that may be merged now, by the tables alone. *)
MergeOf(p) == MakeCandidate(vocab, word, symbols, Live[p], Live[p + 1])

Available == UNION {MergeOf(p) : p \in 1 .. Len(Live) - 1}

(* The word is merged as byte-pair encoding defines it, whatever the heap  *)
(* holds: each merge takes the highest pair of neighbours there is and     *)
(* joins these two only, and the word is emitted when no pair is left.     *)
MergesHighestPair ==
  [][pc = "merging" =>
       /\ pc' = "appending" => Available = {}
       /\ pc' = "merging" /\ symbols' # symbols =>
            \E p \in 1 .. Len(Live) - 1 : \E best \in MergeOf(p) :
              /\ \A other \in Available \ {best} : Higher(best, other)
              /\ Live' = RemoveAt(Live, p + 1)
              /\ symbols'[Live[p]].id = best.id
              /\ \A k \in Range(Live') \ {Live[p]} :
                   /\ symbols'[k].id = symbols[k].id
                   /\ symbols'[k].size = symbols[k].size]_vars

(* A space can be told from the character that stands for one: the text   *)
(* does not have that character, and where a space has no token it is not  *)
(* encoded as the bytes of that character, which Decode leaves as it is.   *)
SpacesAreDistinct ==
  /\ Metaspace \notin Range(text)
  /\ Space \in Range(text) => Unit(vocab, Metaspace) # {}

(* Encoding loses and invents nothing: Decode gives back the text, with    *)
(* added tokens, merged pieces, spaces and characters without a token,     *)
(* unless spaces are lost or a token is one that Decode leaves out.        *)
DecodeRestoresText ==
  pc = "returned" /\ code = "ok" /\ SpacesAreDistinct
    /\ (\A k \in 1 .. Len(ids) : vocab.kind[ids[k]] # "special") =>
      Decode(vocab, ids) = text
=============================================================================
