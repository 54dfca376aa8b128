-------------------------- MODULE SharedRuntimeProofs -------------------------
(***************************************************************************)
(* Machine-checked proofs about SharedRuntime: for any threads, outputs,   *)
(* depths and batches, no lease is lost and no block has two owners, each  *)
(* pool is used as a queue, and Process delivers all or nothing.           *)
(***************************************************************************)
EXTENDS SharedRuntime, FiniteSetTheorems, SequenceTheorems, TLAPS

-----------------------------------------------------------------------------
(* The inductive invariant *)

(* Before it is open the runtime has no callers and no leases, and a pool  *)
(* that exists is full.                                                    *)
NotYetUsed ==
  /\ stage = "new" => made = 0
  /\ stage \in {"new", "pools"} => \A t \in Thread : pc[t] = "idle" /\ Leased(t) = {}
  /\ stage = "pools" => \A o \in 1 .. made : free[o] = [i \in 1 .. Depth |-> <<o, i>>]
  /\ stage = "open" => made = Outputs

ThreadsAreApart == \A t, u \in Thread : t # u => Leased(t) \cap Leased(u) = {}

(* What a thread has is in one place. *)
InOnePlace(t) ==
  /\ kept[t] \cap Values(t) = {}
  /\ Held(t) \cap (tracked[t] \cup staged[t]) = {}
  /\ tracked[t] \cap staged[t] = {}
  /\ \A j, k \in DOMAIN values[t] :
       values[t][j] = values[t][k] /\ values[t][j] # NoBlock => j = k

Working == {"decoding", "acquiring", "executing", "encoding", "publishing"}

(* The blocks acquired for the slots i .. j. *)
Acquired(t, i, j) == {acquired[t][k] : k \in i .. j}

(* Between its check and its end a call has what it acquired, each block   *)
(* once: the first ones staged, the others tracked by the guard.  At other *)
(* times it has nothing, unless it unwinds.                                *)
CallFits(t) ==
  /\ pc[t] \in Working =>
       /\ stage = "open"
       /\ Values(t) = {}
       /\ \A k \in DOMAIN request[t].slots : request[t].slots[k].output \in Output
       /\ \A i, j \in DOMAIN acquired[t] : acquired[t][i] = acquired[t][j] => i = j
       /\ IsFiniteSet(staged[t]) /\ Cardinality(staged[t]) <= Len(acquired[t])
       /\ staged[t] = Acquired(t, 1, Cardinality(staged[t]))
       /\ tracked[t] = Acquired(t, Cardinality(staged[t]) + 1, Len(acquired[t]))
  /\ pc[t] \in Working \ {"publishing"} => staged[t] = {}
  /\ pc[t] \notin Working \cup {"unwinding"} =>
       acquired[t] = <<>> /\ tracked[t] = {} /\ staged[t] = {}
  /\ pc[t] = "decoding" => acquired[t] = <<>>

IInv ==
  /\ TypeOK
  /\ NotYetUsed
  /\ EveryBlockHasOneOwner
  /\ ThreadsAreApart
  /\ \A t \in Thread : InOnePlace(t) /\ CallFits(t)

-----------------------------------------------------------------------------
(* What a step does to leases: it moves none, a thread takes the longest   *)
(* free block of a pool, or a thread gives a block back.                   *)
LeasesRest ==
  UNCHANGED <<stage, free>> /\ \A u \in Thread : Leased(u)' = Leased(u)

Takes(t, o) ==
  /\ stage = "open" /\ stage' = stage /\ free[o] # <<>>
  /\ free' = [free EXCEPT ![o] = Tail(@)]
  /\ Leased(t)' = Leased(t) \cup {Head(free[o])}
  /\ \A u \in Thread \ {t} : Leased(u)' = Leased(u)

Gives(t, b) ==
  /\ b \in Leased(t) /\ GiveBack(b) /\ stage' = stage
  /\ Leased(t)' = Leased(t) \ {b}
  /\ \A u \in Thread \ {t} : Leased(u)' = Leased(u)

-----------------------------------------------------------------------------
(* Blocks and pools *)

LEMMA BlockFacts ==
  /\ \A b \in AnyBlock : b[1] \in Output /\ b \in BlocksOf(b[1])
  /\ \A o \in Output : \A b \in BlocksOf(o) : b \in AnyBlock /\ b[1] = o
  /\ NoBlock \notin AnyBlock
BY RuntimeAssumption DEF AnyBlock, BlocksOf

LEMMA LeasedAreBlocks ==
  ASSUME TypeOK, NEW t \in Thread
  PROVE  Values(t) \subseteq AnyBlock /\ Leased(t) \subseteq AnyBlock
<1>1. values[t] \in Seq(AnyBlock \cup {NoBlock})
  BY DEF TypeOK
<1>2. \A k \in DOMAIN values[t] : values[t][k] \in AnyBlock \cup {NoBlock}
  BY <1>1, ElementOfSeq, LenProperties
<1>3. Values(t) \subseteq AnyBlock
  BY <1>2 DEF Values
<1> QED BY <1>3 DEF TypeOK, Leased, Held

(* A queue that has blocks of one pool, each once, is no longer than deep. *)
LEMMA QueueIsBounded ==
  ASSUME NEW o \in Output, NEW s \in Seq(AnyBlock),
         \A i \in DOMAIN s : s[i] \in BlocksOf(o) /\ \A j \in DOMAIN s : s[i] = s[j] => i = j
  PROVE  Len(s) <= Depth
<1> DEFINE place == [i \in 1 .. Len(s) |-> s[i][2]]
<1>1. Len(s) \in Nat /\ DOMAIN s = 1 .. Len(s)
  BY LenProperties
<1>2. \A i \in 1 .. Len(s) : s[i] = <<o, s[i][2]>> /\ s[i][2] \in 1 .. Depth
  BY <1>1 DEF BlocksOf
<1>3. place \in Injection(1 .. Len(s), 1 .. Depth)
  <2>1. place \in [1 .. Len(s) -> 1 .. Depth]
    BY <1>2
  <2>2. ASSUME NEW i \in 1 .. Len(s), NEW j \in 1 .. Len(s), place[i] = place[j]
        PROVE  i = j
    <3>1. s[i] = s[j]
      BY <1>2, <2>2
    <3> QED BY <1>1, <3>1
  <2> QED BY <2>1, <2>2 DEF Injection, IsInjective
<1>4. Depth \in Int /\ Len(s) \in Int /\ 1 \in Int /\ Depth > 0
  BY <1>1, RuntimeAssumption
<1>5. IsFiniteSet(1 .. Depth) /\ Cardinality(1 .. Depth) = Depth
  BY <1>4, FS_Interval
<1>6. Cardinality(1 .. Len(s)) = Len(s)
  <2>1. \A n \in Nat : Cardinality(1 .. n) = n
    <3> TAKE n \in Nat
    <3>1. Cardinality(1 .. n) = IF 1 > n THEN 0 ELSE n - 1 + 1
      BY FS_Interval
    <3> QED BY <3>1
  <2> QED BY <1>1, <2>1
<1> HIDE DEF place
<1>7. Cardinality(1 .. Len(s)) <= Cardinality(1 .. Depth)
  BY <1>3, <1>5, FS_Injection
<1> QED BY <1>5, <1>6, <1>7

(* Nobody takes or gives back a block. *)
LEMMA LeasesStay ==
  ASSUME IInv, UNCHANGED <<stage, free>>, \A u \in Thread : Leased(u)' = Leased(u)
  PROVE  EveryBlockHasOneOwner' /\ ThreadsAreApart'
BY DEF IInv, EveryBlockHasOneOwner, ThreadsAreApart

(* A thread takes the first block of a pool. *)
LEMMA TakeKeepsOwners ==
  ASSUME IInv, NEW t \in Thread, NEW o \in Output, stage = "open", free[o] # <<>>,
         free' = [free EXCEPT ![o] = Tail(@)], stage' = stage,
         Leased(t)' = Leased(t) \cup {Head(free[o])},
         \A u \in Thread \ {t} : Leased(u)' = Leased(u)
  PROVE  /\ EveryBlockHasOneOwner' /\ ThreadsAreApart'
         /\ free' \in [Output -> Seq(AnyBlock)] /\ \A p \in Output : Len(free'[p]) <= Depth
<1> DEFINE q == free[o]
           m == Len(q)
<1>1. free \in [Output -> Seq(AnyBlock)] /\ \A p \in Output : Len(free[p]) <= Depth
  BY DEF IInv, TypeOK
<1>2. /\ Tail(q) \in Seq(AnyBlock) /\ Len(Tail(q)) = m - 1 /\ Head(q) = q[1]
      /\ m \in Nat \ {0} /\ DOMAIN q = 1 .. m /\ DOMAIN Tail(q) = 1 .. m - 1
      /\ \A i \in 1 .. m - 1 : Tail(q)[i] = q[i + 1]
  <2>1. q \in Seq(AnyBlock) /\ q # <<>>
    BY <1>1
  <2>2. Tail(q) \in Seq(AnyBlock) /\ Len(Tail(q)) = m - 1
    BY <2>1, HeadTailProperties
  <2>3. m \in Nat \ {0} /\ DOMAIN q = 1 .. m
    BY <2>1, LenProperties, EmptySeq
  <2>4. DOMAIN Tail(q) = 1 .. m - 1
    BY <2>2, LenProperties
  <2> QED BY <2>1, <2>2, <2>3, <2>4, HeadTailProperties DEF Head
<1>3. /\ free'[o] = Tail(q) /\ \A p \in Output \ {o} : free'[p] = free[p]
      /\ free' \in [Output -> Seq(AnyBlock)]
  BY <1>1, <1>2
<1>4. \A p \in Output : Len(free'[p]) <= Depth
  <2>1. m <= Depth /\ Depth \in Nat
    BY <1>1, RuntimeAssumption
  <2> QED BY <1>1, <1>2, <1>3, <2>1
<1>5. /\ \A i \in DOMAIN q : /\ q[i] \in BlocksOf(o)
                             /\ \A j \in DOMAIN q : q[i] = q[j] => i = j
                             /\ \A u \in Thread : q[i] \notin Leased(u)
  BY DEF IInv, EveryBlockHasOneOwner
<1>6. 1 \in DOMAIN q /\ q[1] \in BlocksOf(o) /\ \A u \in Thread : q[1] \notin Leased(u)
  BY <1>2, <1>5
<1>7. \A i \in DOMAIN Tail(q) : i + 1 \in DOMAIN q /\ Tail(q)[i] = q[i + 1] /\ i + 1 # 1
  BY <1>2
<1>8. \A i \in DOMAIN q : i = 1 \/ \E j \in DOMAIN Tail(q) : Tail(q)[j] = q[i]
  <2> SUFFICES ASSUME NEW i \in DOMAIN q, i # 1
               PROVE  \E j \in DOMAIN Tail(q) : Tail(q)[j] = q[i]
    OBVIOUS
  <2>1. i - 1 \in DOMAIN Tail(q) /\ i - 1 + 1 = i
    BY <1>2
  <2> QED BY <1>2, <2>1
<1> HIDE DEF q, m
<1>9. \A i \in DOMAIN Tail(q) :
        /\ Tail(q)[i] \in BlocksOf(o)
        /\ \A j \in DOMAIN Tail(q) : Tail(q)[i] = Tail(q)[j] => i = j
        /\ \A u \in Thread : Tail(q)[i] \notin Leased(u) /\ Tail(q)[i] # q[1]
  <2>1. ASSUME NEW i \in DOMAIN Tail(q), NEW j \in DOMAIN Tail(q), Tail(q)[i] = Tail(q)[j]
        PROVE  i = j
    <3>1. i + 1 = j + 1
      BY <1>5, <1>7, <2>1
    <3> QED BY <1>2, <2>1, <3>1
  <2> QED BY <1>5, <1>6, <1>7, <2>1
<1>10. ThreadsAreApart'
  BY <1>2, <1>6 DEF IInv, ThreadsAreApart, q
<1>11. EveryBlockHasOneOwner'
  <2>1. ASSUME NEW p \in Output, NEW b \in BlocksOf(p)
        PROVE  \/ \E i \in DOMAIN free'[p] : free'[p][i] = b
               \/ \E u \in Thread : b \in Leased(u)'
    <3>1. \/ \E i \in DOMAIN free[p] : free[p][i] = b
          \/ \E u \in Thread : b \in Leased(u)
      BY DEF IInv, EveryBlockHasOneOwner
    <3>2. CASE \E u \in Thread : b \in Leased(u)
      BY <3>2
    <3>3. CASE p # o /\ \E i \in DOMAIN free[p] : free[p][i] = b
      BY <1>3, <3>3
    <3>4. CASE p = o /\ \E i \in DOMAIN free[p] : free[p][i] = b
      BY <1>2, <1>3, <1>8, <3>4 DEF q
    <3> QED BY <3>1, <3>2, <3>3, <3>4
  <2>2. ASSUME NEW p \in Output, NEW i \in DOMAIN free'[p]
        PROVE  /\ free'[p][i] \in BlocksOf(p)
               /\ \A j \in DOMAIN free'[p] : free'[p][i] = free'[p][j] => i = j
               /\ \A u \in Thread : free'[p][i] \notin Leased(u)'
    <3>1. CASE p = o
      BY <1>2, <1>3, <1>9, <3>1 DEF q
    <3>2. CASE p # o
      <4>1. free'[p] = free[p] /\ free[p][i] \in BlocksOf(p)
        BY <1>3, <3>2 DEF IInv, EveryBlockHasOneOwner
      <4>2. free[p][i] # q[1]
        BY <1>6, <3>2, <4>1, BlockFacts
      <4> QED BY <1>2, <4>1, <4>2 DEF IInv, EveryBlockHasOneOwner, q
    <3> QED BY <3>1, <3>2
  <2> QED BY <2>1, <2>2 DEF EveryBlockHasOneOwner
<1> QED BY <1>3, <1>4, <1>10, <1>11

(* A thread gives a block back to the end of its pool. *)
LEMMA GiveKeepsOwners ==
  ASSUME IInv, NEW t \in Thread, NEW b \in Leased(t), GiveBack(b), stage' = stage,
         Leased(t)' = Leased(t) \ {b},
         \A u \in Thread \ {t} : Leased(u)' = Leased(u)
  PROVE  /\ EveryBlockHasOneOwner' /\ ThreadsAreApart'
         /\ free' \in [Output -> Seq(AnyBlock)] /\ \A p \in Output : Len(free'[p]) <= Depth
<1> DEFINE o == b[1]
           q == free[o]
           m == Len(q)
<1>1. free \in [Output -> Seq(AnyBlock)] /\ \A p \in Output : Len(free[p]) <= Depth
  BY DEF IInv, TypeOK
<1>2. b \in AnyBlock /\ o \in Output /\ b \in BlocksOf(o)
  BY LeasedAreBlocks, BlockFacts DEF IInv
<1>3. ThreadsAreApart'
  BY DEF IInv, ThreadsAreApart
<1>4. CASE stage # "open"
  <2>1. free' = free
    BY <1>4 DEF GiveBack
  <2> QED BY <1>1, <1>3, <1>4, <2>1 DEF EveryBlockHasOneOwner
<1>5. CASE stage = "open"
  <2>1. /\ q \in Seq(AnyBlock) /\ m \in Nat /\ DOMAIN q = 1 .. m
        /\ Append(q, b) \in Seq(AnyBlock) /\ Len(Append(q, b)) = m + 1
        /\ \A i \in 1 .. m : Append(q, b)[i] = q[i]
        /\ Append(q, b)[m + 1] = b
    BY <1>1, <1>2, AppendProperties, LenProperties
  <2>2. DOMAIN Append(q, b) = 1 .. m + 1
    BY <2>1, LenProperties
  <2>3. free' = [free EXCEPT ![o] = Append(q, b)]
    BY <1>5 DEF GiveBack
  <2>4. /\ free'[o] = Append(q, b) /\ \A p \in Output \ {o} : free'[p] = free[p]
        /\ free' \in [Output -> Seq(AnyBlock)]
    BY <1>1, <1>2, <2>1, <2>3
  <2>5. \A i \in DOMAIN q : /\ q[i] \in BlocksOf(o) /\ q[i] # b
                            /\ \A j \in DOMAIN q : q[i] = q[j] => i = j
                            /\ \A u \in Thread : q[i] \notin Leased(u)
    BY <1>2, <1>5 DEF IInv, EveryBlockHasOneOwner
  <2>6. \A u \in Thread : b \notin Leased(u)'
    BY DEF IInv, ThreadsAreApart
  <2>7. \A i \in DOMAIN Append(q, b) :
          \/ i \in DOMAIN q /\ Append(q, b)[i] = q[i]
          \/ i = m + 1 /\ Append(q, b)[i] = b
    <3> HIDE DEF q, m, o
    <3>1. \A i \in 1 .. m + 1 : i \in 1 .. m \/ i = m + 1
      BY <2>1
    <3> QED BY <2>1, <2>2, <3>1
  <2>8. /\ m + 1 \in DOMAIN Append(q, b) /\ Append(q, b)[m + 1] = b
        /\ \A i \in DOMAIN q : i \in DOMAIN Append(q, b) /\ Append(q, b)[i] = q[i]
    BY <2>1, <2>2
  <2> HIDE DEF q, m
  <2>9. \A i \in DOMAIN Append(q, b) :
          /\ Append(q, b)[i] \in BlocksOf(o)
          /\ \A j \in DOMAIN Append(q, b) : Append(q, b)[i] = Append(q, b)[j] => i = j
          /\ \A u \in Thread : Append(q, b)[i] \notin Leased(u)'
    <3>1. ASSUME NEW i \in DOMAIN Append(q, b), NEW j \in DOMAIN Append(q, b),
                 Append(q, b)[i] = Append(q, b)[j]
          PROVE  i = j
      BY <2>5, <2>7, <3>1
    <3>2. ASSUME NEW i \in DOMAIN Append(q, b)
          PROVE  /\ Append(q, b)[i] \in BlocksOf(o)
                 /\ \A u \in Thread : Append(q, b)[i] \notin Leased(u)'
      BY <1>2, <2>5, <2>6, <2>7, <3>2
    <3> QED BY <3>1, <3>2
  <2>10. EveryBlockHasOneOwner'
    <3>1. ASSUME NEW p \in Output, NEW c \in BlocksOf(p)
          PROVE  \/ \E i \in DOMAIN free'[p] : free'[p][i] = c
                 \/ \E u \in Thread : c \in Leased(u)'
      <4>1. \/ \E i \in DOMAIN free[p] : free[p][i] = c
            \/ \E u \in Thread : c \in Leased(u)
        BY <1>5 DEF IInv, EveryBlockHasOneOwner
      <4>2. CASE c = b
        <5>1. p = o
          BY <4>2, BlockFacts
        <5> QED BY <2>4, <2>8, <4>2, <5>1
      <4>3. CASE c # b /\ \E u \in Thread : c \in Leased(u)
        BY <4>3
      <4>4. CASE \E i \in DOMAIN free[p] : free[p][i] = c
        BY <2>4, <2>8, <4>4 DEF q
      <4> QED BY <4>1, <4>2, <4>3, <4>4
    <3>2. ASSUME NEW p \in Output, NEW i \in DOMAIN free'[p]
          PROVE  /\ free'[p][i] \in BlocksOf(p)
                 /\ \A j \in DOMAIN free'[p] : free'[p][i] = free'[p][j] => i = j
                 /\ \A u \in Thread : free'[p][i] \notin Leased(u)'
      <4>1. CASE p = o
        BY <2>4, <2>9, <4>1
      <4>2. CASE p # o
        <5>1. free'[p] = free[p]
          BY <2>4, <4>2
        <5> QED BY <1>5, <5>1 DEF IInv, EveryBlockHasOneOwner
      <4> QED BY <4>1, <4>2
    <3> QED BY <3>1, <3>2 DEF EveryBlockHasOneOwner
  <2>11. \A p \in Output : Len(free'[p]) <= Depth
    <3>1. Len(free'[o]) <= Depth
      <4> DEFINE s == Append(q, b)
      <4>1. s \in Seq(AnyBlock) /\ free'[o] = s
        BY <2>1, <2>4 DEF q
      <4>2. \A i \in DOMAIN s : s[i] \in BlocksOf(o) /\ \A j \in DOMAIN s : s[i] = s[j] => i = j
        BY <2>9
      <4> HIDE DEF s, o
      <4>3. o \in Output
        BY <1>2
      <4> QED BY <4>1, <4>2, <4>3, QueueIsBounded
    <3> QED BY <1>1, <2>4, <3>1
  <2> QED BY <1>3, <2>4, <2>10, <2>11
<1> QED BY <1>4, <1>5

-----------------------------------------------------------------------------
(* Steps of the host and of calls *)

(* What a step of one thread has to keep. *)
LEMMA ThreadMoves ==
  ASSUME IInv, NEW t \in Thread, stage \in {"open", "closed"},
         UNCHANGED <<stage, made>>,
         \A u \in Thread \ {t} :
           /\ pc'[u] = pc[u] /\ request'[u] = request[u] /\ values'[u] = values[u]
           /\ kept'[u] = kept[u] /\ acquired'[u] = acquired[u]
           /\ tracked'[u] = tracked[u] /\ staged'[u] = staged[u],
         TypeOK', EveryBlockHasOneOwner', ThreadsAreApart', InOnePlace(t)', CallFits(t)'
  PROVE  IInv'
<1>1. NotYetUsed'
  BY DEF IInv, NotYetUsed
<1>2. ASSUME NEW u \in Thread \ {t}
      PROVE  InOnePlace(u)' /\ CallFits(u)'
  <2>1. Values(u)' = Values(u)
    BY DEF Values
  <2>2. InOnePlace(u)'
    BY <2>1 DEF IInv, InOnePlace, Held
  <2>3. CallFits(u)'
    BY <2>1 DEF IInv, CallFits, Acquired
  <2> QED BY <2>2, <2>3
<1> QED BY <1>1, <1>2 DEF IInv

(* A thread that calls or has leases is a sign of a runtime that was open. *)
LEMMA UsedIsOpened ==
  ASSUME IInv, NEW t \in Thread, pc[t] # "idle" \/ Leased(t) # {}
  PROVE  stage \in {"open", "closed"}
BY DEF IInv, NotYetUsed, TypeOK

LEMMA OthersKeepLeases ==
  ASSUME NEW t \in Thread, NEW u \in Thread \ {t},
         values'[u] = values[u], kept'[u] = kept[u],
         tracked'[u] = tracked[u], staged'[u] = staged[u]
  PROVE  Leased(u)' = Leased(u)
BY DEF Leased, Held, Values

(* Steps that move no lease. *)
LEMMA QuietStep ==
  ASSUME IInv, NEW t \in Thread, pc[t] # "idle" \/ stage \in {"open", "closed"},
         UNCHANGED <<poolVars, kept, tracked, staged>>, TypeOK', CallFits(t)',
         \A u \in Thread \ {t} :
           /\ pc'[u] = pc[u] /\ request'[u] = request[u] /\ values'[u] = values[u]
           /\ acquired'[u] = acquired[u],
         \/ values'[t] = values[t]
         \/ Values(t) = {} /\ Values(t)' = {}
  PROVE  IInv' /\ LeasesRest
<1>1. UNCHANGED <<stage, made, free>>
  BY DEF poolVars
<1>2. Values(t)' = Values(t) /\ Leased(t)' = Leased(t)
  BY DEF Values, Leased, Held
<1>3. \A u \in Thread : Leased(u)' = Leased(u)
  BY <1>2, OthersKeepLeases
<1>4. EveryBlockHasOneOwner' /\ ThreadsAreApart'
  BY <1>1, <1>3, LeasesStay
<1>5. InOnePlace(t)'
  <2>1. CASE values'[t] = values[t]
    BY <1>2, <2>1 DEF IInv, InOnePlace, Held
  <2>2. CASE Values(t)' = {}
    <3>1. \A k \in DOMAIN values'[t] : values'[t][k] = NoBlock
      BY <2>2 DEF Values
    <3> QED BY <1>2, <3>1 DEF IInv, InOnePlace, Held
  <2> QED BY <2>1, <2>2
<1>6. stage \in {"open", "closed"}
  BY UsedIsOpened
<1>7. LeasesRest
  BY <1>1, <1>3 DEF LeasesRest
<1> QED BY <1>1, <1>4, <1>5, <1>6, <1>7, ThreadMoves

(* Steps that change only where a thread is, or the mutex. *)
LEMMA ControlStep ==
  ASSUME IInv, NEW t \in Thread, pc[t] # "idle" \/ stage \in {"open", "closed"},
         UNCHANGED <<poolVars, hostVars, tracked, staged>>,
         NEW where \in {"idle", "calling", "calling_control"} \cup Inside,
         pc' = [pc EXCEPT ![t] = where],
         owner' \in Thread \cup {NoThread},
         \/ acquired' = acquired
         \/ acquired' = [acquired EXCEPT ![t] = <<>>],
         result' = result \/
           \E code \in {"none", "kOk", "kInvalidState", "kInvalidInput", "kInvalidOutput",
                        "kPoolMissing", "decode", "execution", "encode",
                        "kInternalException", "control"} : result' = [result EXCEPT ![t] = code],
         CallFits(t)'
  PROVE  IInv' /\ LeasesRest
<1>1. TypeOK'
  <2>1. UNCHANGED <<stage, made, free, close_result, request, values, kept, tracked, staged>>
    BY DEF poolVars, hostVars
  <2>2. acquired' \in [Thread -> Seq(AnyBlock)]
    <3>1. <<>> \in Seq(AnyBlock)
      BY EmptySeq
    <3> QED BY <3>1 DEF IInv, TypeOK
  <2>3. pc' \in [Thread -> {"idle", "calling", "calling_control"} \cup Inside]
    BY DEF IInv, TypeOK
  <2>4. result' \in [Thread -> {"none", "kOk", "kInvalidState", "kInvalidInput",
                               "kInvalidOutput", "kPoolMissing", "decode",
                               "execution", "encode", "kInternalException", "control"}]
    BY DEF IInv, TypeOK
  <2> QED BY <2>1, <2>2, <2>3, <2>4 DEF IInv, TypeOK
<1>2. \A u \in Thread \ {t} :
        /\ pc'[u] = pc[u] /\ request'[u] = request[u] /\ values'[u] = values[u]
        /\ acquired'[u] = acquired[u]
  BY DEF IInv, TypeOK, hostVars
<1> QED BY <1>1, <1>2, QuietStep DEF hostVars

LEMMA CallProcessKeeps ==
  ASSUME IInv, NEW t \in Thread, CallProcess(t)
  PROVE  IInv' /\ LeasesRest
<1>1. /\ stage \in {"open", "closed"} /\ pc[t] = "idle"
      /\ pc' = [pc EXCEPT ![t] = "calling"]
      /\ result' = [result EXCEPT ![t] = "none"]
      /\ UNCHANGED <<poolVars, owner, kept, callVars>>
  BY DEF CallProcess
<1>2. CASE UNCHANGED <<request, values>>
  <2>1. CallFits(t)'
    BY <1>1, <1>2 DEF IInv, CallFits, TypeOK, callVars, poolVars, Working
  <2> QED BY <1>1, <1>2, <2>1, ControlStep DEF IInv, TypeOK, hostVars, callVars
<1>3. CASE /\ Values(t) = {}
           /\ \E r \in Request :
                /\ request' = [request EXCEPT ![t] = r]
                /\ values' = [values EXCEPT ![t] = [k \in 1 .. Len(r.slots) |-> NoBlock]]
  <2>1. PICK r \in Request :
          /\ request' = [request EXCEPT ![t] = r]
          /\ values' = [values EXCEPT ![t] = [k \in 1 .. Len(r.slots) |-> NoBlock]]
    BY <1>3
  <2>2. r \in Batch /\ Len(r.slots) \in Nat
    BY RuntimeAssumption, LenProperties DEF Batch
  <2>3. [k \in 1 .. Len(r.slots) |-> NoBlock] \in Seq(AnyBlock \cup {NoBlock})
    BY <2>2, IsASeq
  <2>4. TypeOK'
    BY <1>1, <2>1, <2>2, <2>3 DEF IInv, TypeOK, poolVars, callVars
  <2>5. values'[t] = [k \in 1 .. Len(r.slots) |-> NoBlock]
    BY <2>1 DEF IInv, TypeOK
  <2>6. Values(t)' = {}
    BY <2>5 DEF Values
  <2>7. CallFits(t)'
    BY <1>1 DEF IInv, CallFits, TypeOK, callVars, Working
  <2>8. \A u \in Thread \ {t} :
          /\ pc'[u] = pc[u] /\ request'[u] = request[u] /\ values'[u] = values[u]
          /\ acquired'[u] = acquired[u]
    BY <1>1, <2>1 DEF IInv, TypeOK, callVars
  <2> QED BY <1>1, <1>3, <2>4, <2>6, <2>7, <2>8, QuietStep DEF callVars
<1> QED BY <1>2, <1>3 DEF CallProcess

LEMMA CallControlKeeps ==
  ASSUME IInv, NEW t \in Thread, CallControl(t)
  PROVE  IInv' /\ LeasesRest
<1>1. CallFits(t)'
  BY DEF CallControl, IInv, CallFits, TypeOK, callVars, Working
<1> QED BY <1>1, ControlStep DEF CallControl, IInv, TypeOK, callVars

(* A call begins to work only with an empty batch and pools to acquire from. *)
LEMMA EnterProcessKeeps ==
  ASSUME IInv, NEW t \in Thread, EnterProcess(t)
  PROVE  IInv' /\ LeasesRest
<1>1. /\ pc[t] = "calling" /\ owner' = t
      /\ UNCHANGED <<poolVars, hostVars, callVars>>
      /\ acquired[t] = <<>> /\ tracked[t] = {} /\ staged[t] = {}
  BY DEF EnterProcess, IInv, CallFits, Working
<1>2. CASE /\ Rejection(t) = "none"
           /\ pc' = [pc EXCEPT ![t] = "decoding"]
           /\ UNCHANGED result
  <2>1. stage = "open" /\ Values(t) = {} /\ SlotsAreValid(request[t])
    BY <1>2 DEF Rejection
  <2>2. UNCHANGED <<stage, request, values, acquired, tracked, staged>>
    BY <1>1 DEF poolVars, hostVars, callVars
  <2>3. pc'[t] = "decoding"
    BY <1>2 DEF IInv, TypeOK
  <2>4. /\ Len(acquired'[t]) = 0 /\ DOMAIN acquired'[t] = {}
        /\ IsFiniteSet(staged'[t]) /\ Cardinality(staged'[t]) = 0
    <3>1. acquired'[t] = <<>> /\ staged'[t] = {}
      BY <1>1, <2>2
    <3>2. Len(<<>>) = 0 /\ DOMAIN <<>> = {}
      BY EmptySeq
    <3>3. IsFiniteSet({}) /\ Cardinality({}) = 0
      BY FS_EmptySet
    <3> QED BY <3>1, <3>2, <3>3
  <2>5. Values(t)' = {}
    BY <2>1, <2>2 DEF Values
  <2>6. \A k \in DOMAIN request[t].slots : request[t].slots[k].output \in Output
    BY <2>1 DEF SlotsAreValid
  <2>7. CallFits(t)'
    <3>1. staged'[t] = {} /\ tracked'[t] = {} /\ acquired'[t] = <<>>
      BY <1>1, <2>2
    <3>2. /\ staged'[t] = Acquired(t, 1, Cardinality(staged[t]))'
          /\ tracked'[t] = Acquired(t, Cardinality(staged[t]) + 1, Len(acquired[t]))'
      BY <2>4, <3>1 DEF Acquired
    <3> QED BY <2>1, <2>2, <2>3, <2>4, <2>5, <2>6, <3>1, <3>2 DEF CallFits
  <2> QED BY <1>1, <1>2, <2>7, ControlStep DEF callVars, Inside, ProcessPhase
<1>3. CASE /\ pc' = [pc EXCEPT ![t] = "unwinding"]
           /\ result' = [result EXCEPT ![t] = Rejection(t)]
           /\ Rejection(t) # "none"
  <2>1. Rejection(t) \in {"kInvalidState", "kInvalidInput", "kInvalidOutput"}
    BY <1>3 DEF Rejection
  <2>2. CallFits(t)'
    BY <1>3 DEF IInv, TypeOK, CallFits, Working
  <2> QED BY <1>1, <1>3, <2>1, <2>2, ControlStep DEF callVars, Inside, ProcessPhase
<1> QED BY <1>2, <1>3 DEF EnterProcess

LEMMA EnterControlKeeps ==
  ASSUME IInv, NEW t \in Thread, EnterControl(t)
  PROVE  IInv' /\ LeasesRest
<1>1. pc'[t] \in {"controlling", "idle"}
  BY DEF EnterControl, IInv, TypeOK
<1>2. CallFits(t)'
  BY <1>1 DEF EnterControl, IInv, CallFits, callVars, Working
<1> QED BY <1>2, ControlStep DEF EnterControl, IInv, TypeOK, callVars, Inside

LEMMA LeaveControlKeeps ==
  ASSUME IInv, NEW t \in Thread, LeaveControl(t)
  PROVE  IInv' /\ LeasesRest
<1>1. CallFits(t)'
  BY DEF LeaveControl, IInv, TypeOK, CallFits, callVars, Working
<1> QED BY <1>1, ControlStep DEF LeaveControl, callVars

(* A call that fails unwinds: nothing is demanded of it but its leases. *)
LEMMA FailKeeps ==
  ASSUME IInv, NEW t \in Thread, pc[t] # "idle",
         NEW code \in {"decode", "execution", "encode", "kPoolMissing"}, Fail(t, code),
         UNCHANGED <<poolVars, owner, hostVars, callVars>>
  PROVE  IInv' /\ LeasesRest
<1>1. CallFits(t)'
  BY DEF Fail, IInv, TypeOK, CallFits, Working
<1> QED BY <1>1, ControlStep DEF Fail, IInv, TypeOK, callVars, Inside, ProcessPhase

LEMMA AdvanceKeeps ==
  ASSUME IInv, NEW t \in Thread, pc[t] \in Working \ {"publishing"},
         NEW to \in Working \ {"decoding"}, Advance(t, to),
         UNCHANGED <<poolVars, owner, hostVars, callVars>>
  PROVE  IInv' /\ LeasesRest
<1>1. pc'[t] = to /\ UNCHANGED <<stage, request, values, acquired, tracked, staged>>
  BY DEF Advance, IInv, TypeOK, poolVars, hostVars, callVars
<1>2. Values(t)' = Values(t) /\ \A i, j : Acquired(t, i, j)' = Acquired(t, i, j)
  BY <1>1 DEF Values, Acquired
<1>3. CallFits(t)'
  BY <1>1, <1>2 DEF IInv, CallFits, Working
<1> QED BY <1>3, ControlStep
        DEF Advance, IInv, TypeOK, callVars, Working, Inside, ProcessPhase

LEMMA WorkKeeps ==
  ASSUME IInv, NEW t \in Thread, Decode(t) \/ AllAcquired(t) \/ Execute(t) \/ Encode(t)
  PROVE  IInv' /\ LeasesRest
BY AdvanceKeeps, FailKeeps DEF Decode, AllAcquired, Execute, Encode, Working

LEMMA LeaveKeeps ==
  ASSUME IInv, NEW t \in Thread, Leave(t)
  PROVE  IInv' /\ LeasesRest
<1>1. pc'[t] = "idle" /\ acquired'[t] = <<>> /\ UNCHANGED <<tracked, staged>>
  BY DEF Leave, IInv, TypeOK
<1>2. CallFits(t)'
  BY <1>1 DEF Leave, CallFits, Working
<1> QED BY <1>2, ControlStep DEF Leave

-----------------------------------------------------------------------------
(* Steps that move leases *)

LEMMA KeepOutputsKeeps ==
  ASSUME IInv, NEW t \in Thread, KeepOutputs(t)
  PROVE  IInv' /\ LeasesRest
<1>1. /\ pc[t] = "idle" /\ Values(t) # {}
      /\ UNCHANGED <<stage, made, free, close_result, owner, pc, request, acquired, tracked,
                     staged, result>>
  BY DEF KeepOutputs, poolVars, callVars
<1>2. /\ kept'[t] = kept[t] \cup Values(t)
      /\ values'[t] = [k \in DOMAIN values[t] |-> NoBlock]
      /\ \A u \in Thread \ {t} : values'[u] = values[u] /\ kept'[u] = kept[u]
  BY DEF KeepOutputs, IInv, TypeOK
<1>3. TypeOK'
  <2>1. values[t] \in Seq(AnyBlock \cup {NoBlock})
    BY DEF IInv, TypeOK
  <2>2. Len(values[t]) \in Nat /\ DOMAIN values[t] = 1 .. Len(values[t])
    BY <2>1, LenProperties
  <2>3. [k \in 1 .. Len(values[t]) |-> NoBlock] \in Seq(AnyBlock \cup {NoBlock})
    BY <2>2, IsASeq
  <2>4. values' \in [Thread -> Seq(AnyBlock \cup {NoBlock})]
    BY <2>2, <2>3 DEF KeepOutputs, IInv, TypeOK
  <2>5. kept' \in [Thread -> SUBSET AnyBlock]
    BY LeasedAreBlocks DEF KeepOutputs, IInv, TypeOK
  <2> QED BY <1>1, <2>4, <2>5 DEF IInv, TypeOK
<1>4. Values(t)' = {}
  BY <1>2 DEF Values
<1>5. Held(t)' = Held(t) /\ Leased(t)' = Leased(t)
  BY <1>1, <1>2, <1>4 DEF Held, Leased
<1>6. \A u \in Thread : Leased(u)' = Leased(u)
  BY <1>1, <1>2, <1>5, OthersKeepLeases
<1>7. EveryBlockHasOneOwner' /\ ThreadsAreApart'
  BY <1>1, <1>6, LeasesStay
<1>8. InOnePlace(t)'
  BY <1>1, <1>2, <1>4, <1>5 DEF IInv, InOnePlace
<1>9. CallFits(t)'
  BY <1>1 DEF IInv, CallFits, Working
<1>10. stage \in {"open", "closed"}
  <2>1. Leased(t) # {}
    BY <1>1 DEF Leased, Held
  <2> QED BY <2>1, UsedIsOpened
<1>11. LeasesRest
  BY <1>1, <1>6 DEF LeasesRest
<1> QED BY <1>1, <1>2, <1>3, <1>7, <1>8, <1>9, <1>10, <1>11, ThreadMoves

LEMMA ReleaseKeeps ==
  ASSUME IInv, NEW t \in Thread, NEW b \in kept[t], Release(t, b)
  PROVE  IInv' /\ Gives(t, b)
<1>1. /\ pc[t] = "idle" /\ b \in Leased(t) /\ GiveBack(b)
      /\ UNCHANGED <<stage, made, close_result, owner, pc, request, values, acquired, tracked,
                     staged, result>>
  BY DEF Release, Leased, Held, callVars
<1>2. /\ kept'[t] = kept[t] \ {b} /\ kept' \in [Thread -> SUBSET AnyBlock]
      /\ \A u \in Thread \ {t} : kept'[u] = kept[u]
  BY DEF Release, IInv, TypeOK
<1>3. Values(t)' = Values(t) /\ b \notin Values(t) /\ b \notin tracked[t] \cup staged[t]
  BY <1>1 DEF IInv, InOnePlace, Values, Held
<1>4. Held(t)' = Held(t) \ {b} /\ Leased(t)' = Leased(t) \ {b}
  BY <1>1, <1>2, <1>3 DEF Held, Leased
<1>5. \A u \in Thread \ {t} : Leased(u)' = Leased(u)
  BY <1>1, <1>2, OthersKeepLeases
<1>6. /\ EveryBlockHasOneOwner' /\ ThreadsAreApart'
      /\ free' \in [Output -> Seq(AnyBlock)] /\ \A p \in Output : Len(free'[p]) <= Depth
  BY <1>1, <1>4, <1>5, GiveKeepsOwners
<1>7. TypeOK'
  BY <1>1, <1>2, <1>6 DEF IInv, TypeOK
<1>8. InOnePlace(t)'
  BY <1>1, <1>2, <1>3, <1>4 DEF IInv, InOnePlace
<1>9. CallFits(t)'
  BY <1>1 DEF IInv, CallFits, Working
<1>10. stage \in {"open", "closed"}
  BY <1>1, UsedIsOpened
<1>11. Gives(t, b)
  BY <1>1, <1>4, <1>5 DEF Gives
<1> QED BY <1>1, <1>2, <1>6, <1>7, <1>8, <1>9, <1>10, <1>11, ThreadMoves

(* What a call gives back it has not twice. *)
LEMMA CallGives ==
  ASSUME IInv, NEW t \in Thread, NEW b \in tracked[t] \cup staged[t], GiveBack(b),
         UNCHANGED <<stage, made, close_result, owner, request, values, kept, acquired>>,
         pc[t] # "idle", pc' = [pc EXCEPT ![t] = "unwinding"],
         \/ result' = result
         \/ result' = [result EXCEPT ![t] = "kInternalException"],
         tracked' = [tracked EXCEPT ![t] = @ \ {b}],
         \/ staged' = [staged EXCEPT ![t] = @ \ {b}]
         \/ staged' = staged /\ b \notin staged[t]
  PROVE  IInv' /\ Gives(t, b)
<1>1. /\ tracked'[t] = tracked[t] \ {b} /\ staged'[t] = staged[t] \ {b}
      /\ tracked' \in [Thread -> SUBSET AnyBlock] /\ staged' \in [Thread -> SUBSET AnyBlock]
      /\ \A u \in Thread \ {t} : tracked'[u] = tracked[u] /\ staged'[u] = staged[u]
  <2>1. /\ tracked \in [Thread -> SUBSET AnyBlock] /\ staged \in [Thread -> SUBSET AnyBlock]
    BY DEF IInv, TypeOK
  <2> QED BY <2>1
<1>2. Values(t)' = Values(t) /\ Held(t)' = Held(t) /\ b \notin Held(t)
  BY DEF IInv, InOnePlace, Values, Held
<1>3. b \in Leased(t) /\ Leased(t)' = Leased(t) \ {b}
  BY <1>1, <1>2 DEF Leased
<1>4. \A u \in Thread \ {t} : Leased(u)' = Leased(u)
  BY <1>1, OthersKeepLeases
<1>5. /\ EveryBlockHasOneOwner' /\ ThreadsAreApart'
      /\ free' \in [Output -> Seq(AnyBlock)] /\ \A p \in Output : Len(free'[p]) <= Depth
  BY <1>3, <1>4, GiveKeepsOwners
<1>6. /\ pc' \in [Thread -> {"idle", "calling", "calling_control"} \cup Inside]
      /\ pc'[t] = "unwinding" /\ \A u \in Thread \ {t} : pc'[u] = pc[u]
  BY DEF IInv, TypeOK, Inside, ProcessPhase
<1>7. TypeOK'
  BY <1>1, <1>5, <1>6 DEF IInv, TypeOK
<1>8. InOnePlace(t)'
  BY <1>1, <1>2 DEF IInv, InOnePlace
<1>9. CallFits(t)'
  BY <1>6 DEF CallFits, Working
<1>10. stage \in {"open", "closed"}
  BY UsedIsOpened
<1>11. Gives(t, b)
  BY <1>3, <1>4 DEF Gives
<1> QED BY <1>1, <1>5, <1>6, <1>7, <1>8, <1>9, <1>10, <1>11, ThreadMoves

LEMMA RollBackKeeps ==
  ASSUME IInv, NEW t \in Thread, RollBack(t)
  PROVE  IInv' /\ \E b \in Leased(t) : Gives(t, b)
<1>1. PICK b \in tracked[t] \cup staged[t] :
        /\ GiveBack(b)
        /\ staged' = [staged EXCEPT ![t] = @ \ {b}]
        /\ tracked' = [tracked EXCEPT ![t] = @ \ {b}]
  BY DEF RollBack
<1>2. /\ pc[t] = "unwinding" /\ pc' = pc
      /\ UNCHANGED <<stage, made, close_result, owner, request, values, kept, acquired, result>>
  BY DEF RollBack, hostVars
<1>3. pc' = [pc EXCEPT ![t] = "unwinding"]
  BY <1>2 DEF IInv, TypeOK
<1>4. b \in Leased(t)
  BY DEF Leased
<1> QED BY <1>1, <1>2, <1>3, <1>4, CallGives

(* The next block to stage is one the guard tracks and the copy has not.   *)
LEMMA NextIsTracked ==
  ASSUME IInv, NEW t \in Thread, pc[t] = "publishing",
         Cardinality(staged[t]) < Len(acquired[t])
  PROVE  LET c == Cardinality(staged[t])
             x == NextToStage(t)
         IN  /\ c \in Nat /\ Len(acquired[t]) \in Nat /\ x \in AnyBlock
             /\ x \in tracked[t] /\ x \notin staged[t]
             /\ staged[t] \cup {x} = Acquired(t, 1, c + 1)
             /\ tracked[t] \ {x} = Acquired(t, c + 2, Len(acquired[t]))
<1> DEFINE c == Cardinality(staged[t])
           n == Len(acquired[t])
           x == NextToStage(t)
<1>1. acquired[t] \in Seq(AnyBlock)
  BY DEF IInv, TypeOK
<1>2. n \in Nat /\ DOMAIN acquired[t] = 1 .. n /\ c \in Nat /\ c < n
  BY <1>1, LenProperties, FS_CardinalityType DEF IInv, CallFits, Working
<1>3. /\ staged[t] = Acquired(t, 1, c) /\ tracked[t] = Acquired(t, c + 1, n)
      /\ \A i, j \in 1 .. n : acquired[t][i] = acquired[t][j] => i = j
  BY <1>2 DEF IInv, CallFits, Working
<1>4. x = acquired[t][c + 1]
  BY DEF NextToStage
<1> HIDE DEF c, n, x
<1>5. c + 1 \in 1 .. n /\ x \in AnyBlock
  BY <1>1, <1>2, <1>4, ElementOfSeq DEF n
<1>6. /\ \A i \in 1 .. c : i \in 1 .. n /\ i # c + 1
      /\ \A i \in c + 2 .. n : i \in 1 .. n /\ i # c + 1
      /\ 1 .. c + 1 = (1 .. c) \cup {c + 1}
      /\ c + 1 .. n = {c + 1} \cup (c + 2 .. n)
  BY <1>2
<1>7. x \in tracked[t]
  BY <1>2, <1>3, <1>4, <1>6 DEF Acquired
<1>8. x \notin staged[t]
  BY <1>3, <1>4, <1>5, <1>6 DEF Acquired
<1>9. staged[t] \cup {x} = Acquired(t, 1, c + 1)
  BY <1>3, <1>4, <1>6 DEF Acquired
<1>10. tracked[t] \ {x} = Acquired(t, c + 2, n)
  <2>1. tracked[t] = {x} \cup Acquired(t, c + 2, n)
    BY <1>3, <1>4, <1>6 DEF Acquired
  <2>2. x \notin Acquired(t, c + 2, n)
    BY <1>3, <1>4, <1>5, <1>6 DEF Acquired
  <2> QED BY <2>1, <2>2
<1> QED BY <1>2, <1>5, <1>7, <1>8, <1>9, <1>10 DEF c, n, x

LEMMA StageFailsKeeps ==
  ASSUME IInv, NEW t \in Thread, StageFails(t)
  PROVE  IInv' /\ \E b \in Leased(t) : Gives(t, b)
<1> DEFINE x == NextToStage(t)
<1>1. pc[t] = "publishing" /\ Cardinality(staged[t]) < Len(acquired[t])
  BY DEF StageFails
<1>2. x \in tracked[t] /\ x \notin staged[t]
  BY <1>1, NextIsTracked
<1>3. /\ GiveBack(x) /\ tracked' = [tracked EXCEPT ![t] = @ \ {x}]
      /\ pc' = [pc EXCEPT ![t] = "unwinding"]
      /\ result' = [result EXCEPT ![t] = "kInternalException"]
      /\ UNCHANGED <<stage, made, close_result, owner, request, values, kept, acquired, staged>>
  BY DEF StageFails, Fail, hostVars
<1> HIDE DEF x
<1>4. x \in Leased(t)
  BY <1>2 DEF Leased
<1> QED BY <1>1, <1>2, <1>3, <1>4, CallGives

LEMMA StageOutputKeeps ==
  ASSUME IInv, NEW t \in Thread, StageOutput(t)
  PROVE  IInv' /\ LeasesRest
<1> DEFINE x == NextToStage(t)
           c == Cardinality(staged[t])
           n == Len(acquired[t])
<1>1. /\ pc[t] = "publishing" /\ c < n
      /\ tracked' = [tracked EXCEPT ![t] = @ \ {x}]
      /\ staged' = [staged EXCEPT ![t] = @ \cup {x}]
      /\ UNCHANGED <<stage, made, free, close_result, owner, pc, request, values, kept,
                     acquired, result>>
  BY DEF StageOutput, poolVars, hostVars
<1>2. /\ c \in Nat /\ n \in Nat /\ x \in AnyBlock /\ x \in tracked[t] /\ x \notin staged[t]
      /\ staged[t] \cup {x} = Acquired(t, 1, c + 1)
      /\ tracked[t] \ {x} = Acquired(t, c + 2, n)
  BY <1>1, NextIsTracked
<1>3. /\ tracked'[t] = tracked[t] \ {x} /\ staged'[t] = staged[t] \cup {x}
      /\ \A u \in Thread \ {t} : tracked'[u] = tracked[u] /\ staged'[u] = staged[u]
      /\ TypeOK'
  BY <1>1, <1>2 DEF IInv, TypeOK
<1>4. IsFiniteSet(staged'[t]) /\ Cardinality(staged'[t]) = c + 1
  <2>1. IsFiniteSet(staged[t])
    BY <1>1 DEF IInv, CallFits, Working
  <2>2. staged'[t] = staged[t] \cup {x} /\ x \notin staged[t]
    BY <1>2, <1>3
  <2> HIDE DEF x
  <2>3. IsFiniteSet(staged[t] \cup {x}) /\ Cardinality(staged[t] \cup {x}) = c + 1
    BY <2>1, <2>2, FS_AddElement
  <2> QED BY <2>2, <2>3
<1>5. Values(t)' = Values(t) /\ Held(t)' = Held(t)
  BY <1>1 DEF Values, Held
<1>6. tracked'[t] \cup staged'[t] = tracked[t] \cup staged[t]
  BY <1>2, <1>3
<1>7. \A u \in Thread : Leased(u)' = Leased(u)
  <2>1. Leased(t)' = Leased(t)
    BY <1>5, <1>6 DEF Leased
  <2> QED BY <1>1, <1>3, <2>1, OthersKeepLeases
<1>8. EveryBlockHasOneOwner' /\ ThreadsAreApart'
  BY <1>1, <1>7, LeasesStay
<1>9. InOnePlace(t)'
  BY <1>1, <1>2, <1>3, <1>5, <1>6 DEF IInv, InOnePlace
<1>10. CallFits(t)'
  <2>1. /\ stage = "open" /\ Values(t) = {}
        /\ \A k \in DOMAIN request[t].slots : request[t].slots[k].output \in Output
        /\ \A i, j \in DOMAIN acquired[t] : acquired[t][i] = acquired[t][j] => i = j
    BY <1>1 DEF IInv, CallFits, Working
  <2>2. c + 1 <= n /\ c + 1 + 1 = c + 2
    BY <1>1, <1>2
  <2> HIDE DEF c, n, x
  <2>3. /\ staged'[t] = {acquired'[t][k] : k \in 1 .. c + 1}
        /\ tracked'[t] = {acquired'[t][k] : k \in c + 2 .. n}
    BY <1>1, <1>2, <1>3 DEF Acquired
  <2>4. /\ staged'[t] = {acquired'[t][k] : k \in 1 .. Cardinality(staged'[t])}
        /\ tracked'[t] = {acquired'[t][k] : k \in Cardinality(staged'[t]) + 1 .. n}
        /\ Cardinality(staged'[t]) <= n
    BY <1>4, <2>2, <2>3
  <2>5. Len(acquired'[t]) = n
    BY <1>1 DEF n
  <2> QED BY <1>1, <1>4, <1>5, <2>1, <2>4, <2>5 DEF CallFits, Working, Acquired
<1>11. stage \in {"open", "closed"}
  BY <1>1, UsedIsOpened
<1>12. LeasesRest
  BY <1>1, <1>7 DEF LeasesRest
<1> QED BY <1>1, <1>3, <1>8, <1>9, <1>10, <1>11, <1>12, ThreadMoves

(* What was staged is the batch: every block moves from the copy to a slot. *)
LEMMA DeliverKeeps ==
  ASSUME IInv, NEW t \in Thread, Deliver(t)
  PROVE  IInv' /\ LeasesRest
<1> DEFINE n == Len(acquired[t])
<1>1. /\ pc[t] = "publishing" /\ Cardinality(staged[t]) = n
      /\ values' = [values EXCEPT ![t] = acquired[t]]
      /\ staged' = [staged EXCEPT ![t] = {}]
      /\ tracked' = [tracked EXCEPT ![t] = {}]
      /\ result' = [result EXCEPT ![t] = "kOk"]
      /\ pc' = [pc EXCEPT ![t] = "idle"]
      /\ owner' = NoThread
      /\ acquired' = [acquired EXCEPT ![t] = <<>>]
      /\ UNCHANGED <<stage, made, free, close_result, request, kept>>
  BY DEF Deliver, poolVars
<1>2. acquired[t] \in Seq(AnyBlock) /\ n \in Nat /\ DOMAIN acquired[t] = 1 .. n
  BY LenProperties DEF IInv, TypeOK
<1>3. /\ Values(t) = {}
      /\ \A i, j \in 1 .. n : acquired[t][i] = acquired[t][j] => i = j
      /\ staged[t] = Acquired(t, 1, n) /\ tracked[t] = Acquired(t, n + 1, n)
  BY <1>1, <1>2 DEF IInv, CallFits, Working
<1>4. tracked[t] = {}
  BY <1>2, <1>3 DEF Acquired
<1>5. \A k \in 1 .. n : acquired[t][k] \in AnyBlock /\ acquired[t][k] # NoBlock
  BY <1>2, ElementOfSeq, BlockFacts
<1>6. /\ values'[t] = acquired[t] /\ staged'[t] = {} /\ tracked'[t] = {}
      /\ acquired'[t] = <<>> /\ pc'[t] = "idle" /\ kept'[t] = kept[t]
      /\ \A u \in Thread \ {t} :
           /\ pc'[u] = pc[u] /\ values'[u] = values[u] /\ acquired'[u] = acquired[u]
           /\ tracked'[u] = tracked[u] /\ staged'[u] = staged[u]
  BY <1>1 DEF IInv, TypeOK
<1>7. Values(t)' = staged[t]
  BY <1>2, <1>3, <1>5, <1>6 DEF Values, Acquired
<1>8. Held(t)' = kept[t] \cup staged[t] /\ Leased(t)' = Leased(t)
  BY <1>3, <1>4, <1>6, <1>7 DEF Held, Leased
<1>9. \A u \in Thread : Leased(u)' = Leased(u)
  BY <1>1, <1>6, <1>8, OthersKeepLeases
<1>10. EveryBlockHasOneOwner' /\ ThreadsAreApart'
  BY <1>1, <1>9, LeasesStay
<1>11. TypeOK'
  <2>1. <<>> \in Seq(AnyBlock) /\ acquired[t] \in Seq(AnyBlock \cup {NoBlock})
    BY <1>2, EmptySeq, SeqMonotonic
  <2>2. values' \in [Thread -> Seq(AnyBlock \cup {NoBlock})]
    BY <1>1, <2>1 DEF IInv, TypeOK
  <2>3. acquired' \in [Thread -> Seq(AnyBlock)]
    BY <1>1, <2>1 DEF IInv, TypeOK
  <2>4. pc' \in [Thread -> {"idle", "calling", "calling_control"} \cup Inside]
    BY <1>1 DEF IInv, TypeOK
  <2>5. tracked' \in [Thread -> SUBSET AnyBlock] /\ staged' \in [Thread -> SUBSET AnyBlock]
    BY <1>1 DEF IInv, TypeOK
  <2>6. result' \in [Thread -> {"none", "kOk", "kInvalidState", "kInvalidInput",
                               "kInvalidOutput", "kPoolMissing", "decode",
                               "execution", "encode", "kInternalException", "control"}]
    BY <1>1 DEF IInv, TypeOK
  <2>7. /\ stage' \in {"new", "pools", "open", "closed"} /\ made' \in 0 .. Outputs
        /\ free' \in [Output -> Seq(AnyBlock)] /\ \A p \in Output : Len(free'[p]) <= Depth
        /\ owner' \in Thread \cup {NoThread} /\ request' \in [Thread -> Batch]
        /\ kept' \in [Thread -> SUBSET AnyBlock]
        /\ close_result' \in {"none", "kOk", "kInvalidState"}
    BY <1>1 DEF IInv, TypeOK
  <2> QED BY <2>2, <2>3, <2>4, <2>5, <2>6, <2>7 DEF TypeOK
<1>12. InOnePlace(t)'
  <2>1. kept[t] \cap staged[t] = {}
    BY DEF IInv, InOnePlace, Held
  <2>2. \A j, k \in DOMAIN values'[t] : values'[t][j] = values'[t][k] => j = k
    BY <1>2, <1>3, <1>6
  <2> QED BY <1>6, <1>7, <2>1, <2>2 DEF InOnePlace
<1>13. CallFits(t)'
  BY <1>6 DEF CallFits, Working
<1>14. stage \in {"open", "closed"}
  <2>1. pc[t] # "idle"
    BY DEF Deliver
  <2> QED BY <2>1, UsedIsOpened
<1>15. LeasesRest
  BY <1>1, <1>9 DEF LeasesRest
<1> QED BY <1>1, <1>6, <1>10, <1>11, <1>12, <1>13, <1>14, <1>15, ThreadMoves

(* A range grows at its end by one number. *)
LEMMA OneMore ==
  ASSUME NEW n \in Nat
  PROVE  1 .. n + 1 = (1 .. n) \cup {n + 1} /\ n + 1 \notin 1 .. n
  OBVIOUS

(* A call that waits for a slot's block gets the first free one.            *)
LEMMA SlotIsAcquired ==
  ASSUME IInv, NEW t \in Thread, pc[t] = "acquiring", NEW o \in Output,
         free[o] # <<>>,
         acquired' = [acquired EXCEPT ![t] = Append(@, Head(free[o]))],
         tracked' = [tracked EXCEPT ![t] = @ \cup {Head(free[o])}],
         free' = [free EXCEPT ![o] = Tail(@)],
         UNCHANGED <<stage, made, close_result, owner, pc, request, values, kept,
                     staged, result>>
  PROVE  IInv' /\ Takes(t, o)
<1> DEFINE n == Len(acquired[t])
           a == acquired'[t]
<1> PICK b : b = Head(free[o])
  OBVIOUS
<1>1. /\ stage = "open" /\ Values(t) = {} /\ staged[t] = {}
      /\ \A i, j \in DOMAIN acquired[t] : acquired[t][i] = acquired[t][j] => i = j
      /\ tracked[t] = Acquired(t, Cardinality(staged[t]) + 1, n)
      /\ CallFits(t)
  BY DEF IInv, CallFits, Working
<1>2. acquired[t] \in Seq(AnyBlock) /\ n \in Nat /\ DOMAIN acquired[t] = 1 .. n
  BY LenProperties DEF IInv, TypeOK
<1>3. \A i, j \in 1 .. n : acquired[t][i] = acquired[t][j] => i = j
  BY <1>1, <1>2
<1>4. tracked[t] = Acquired(t, 1, n)
  <2>1. Cardinality(staged[t]) + 1 = 1
    BY <1>1, FS_EmptySet
  <2> QED BY <1>1, <2>1
<1>5. free[o] \in Seq(AnyBlock)
  <2>1. free \in [Output -> Seq(AnyBlock)]
    BY DEF IInv, TypeOK
  <2> QED BY <2>1
<1>6. b \in AnyBlock /\ b = free[o][1] /\ 1 \in DOMAIN free[o]
  BY <1>5, HeadTailProperties, LenProperties, EmptySeq
<1>7. \A u \in Thread : b \notin Leased(u)
  BY <1>1, <1>3, <1>6 DEF IInv, EveryBlockHasOneOwner
<1>8. /\ acquired'[t] = Append(acquired[t], b) /\ acquired' \in [Thread -> Seq(AnyBlock)]
      /\ tracked'[t] = tracked[t] \cup {b} /\ tracked' \in [Thread -> SUBSET AnyBlock]
      /\ \A u \in Thread \ {t} : acquired'[u] = acquired[u] /\ tracked'[u] = tracked[u]
  <2>1. Append(acquired[t], b) \in Seq(AnyBlock)
    BY <1>2, <1>6, AppendProperties
  <2>2. /\ acquired \in [Thread -> Seq(AnyBlock)]
        /\ tracked \in [Thread -> SUBSET AnyBlock]
    BY DEF IInv, TypeOK
  <2> QED BY <1>6, <2>1, <2>2
<1>9. Values(t)' = Values(t) /\ Held(t)' = Held(t)
  BY DEF Values, Held
<1>10. Leased(t)' = Leased(t) \cup {b}
  BY <1>8, <1>9 DEF Leased
<1>11. \A u \in Thread \ {t} : Leased(u)' = Leased(u)
  BY <1>8, OthersKeepLeases
<1>12. /\ EveryBlockHasOneOwner' /\ ThreadsAreApart'
      /\ free' \in [Output -> Seq(AnyBlock)] /\ \A p \in Output : Len(free'[p]) <= Depth
  BY <1>1, <1>3, <1>10, <1>11, TakeKeepsOwners
<1>13. TypeOK'
  BY <1>8, <1>12 DEF IInv, TypeOK
<1>14. InOnePlace(t)'
  BY <1>1, <1>3, <1>7, <1>8, <1>9 DEF IInv, InOnePlace, Leased
<1>15. /\ a \in Seq(AnyBlock) /\ Len(a) = n + 1 /\ DOMAIN a = 1 .. n + 1
       /\ \A i \in 1 .. n : a[i] = acquired[t][i]
       /\ a[n + 1] = b
  <2>1. /\ a \in Seq(AnyBlock) /\ Len(a) = n + 1
        /\ \A i \in 1 .. n : a[i] = acquired[t][i]
        /\ a[n + 1] = b
    BY <1>2, <1>6, <1>8, AppendProperties
  <2> QED BY <2>1, LenProperties
<1>16. \A i \in 1 .. n : acquired[t][i] # b
  <2>1. \A i \in 1 .. n : acquired[t][i] \in Leased(t)
    BY <1>4 DEF Acquired, Leased
  <2> QED BY <1>7, <2>1
<1> HIDE DEF a, n
<1>17. 1 .. n + 1 = (1 .. n) \cup {n + 1} /\ n + 1 \notin 1 .. n
  BY <1>2, OneMore
<1>18. \A i, j \in DOMAIN a : a[i] = a[j] => i = j
  BY <1>1, <1>3, <1>15, <1>16, <1>17
<1>19. tracked'[t] = {a[k] : k \in 1 .. n + 1}
  <2>1. tracked[t] = {a[k] : k \in 1 .. n}
    BY <1>4, <1>15 DEF Acquired
  <2>2. {a[k] : k \in 1 .. n + 1} = {a[k] : k \in 1 .. n} \cup {a[n + 1]}
    BY <1>17
  <2> QED BY <1>8, <1>15, <2>1, <2>2
<1>20. staged'[t] = {} /\ IsFiniteSet(staged'[t]) /\ Cardinality(staged'[t]) = 0
  BY <1>1, <1>3, FS_EmptySet
<1>21. /\ tracked'[t] = {a[k] : k \in Cardinality(staged'[t]) + 1 .. Len(a)}
       /\ staged'[t] = {a[k] : k \in 1 .. Cardinality(staged'[t])}
       /\ Cardinality(staged'[t]) <= Len(a)
  <2> DEFINE Blocks(i, j) == {a[k] : k \in i .. j}
  <2>1. Cardinality(staged'[t]) + 1 = 1 /\ n + 1 >= 0
    BY <1>2, <1>20
  <2>2. Blocks(1, 0) = {}
    OBVIOUS
  <2>3. tracked'[t] = Blocks(1, n + 1)
    BY <1>19
  <2> HIDE DEF Blocks
  <2>4. /\ tracked'[t] = Blocks(Cardinality(staged'[t]) + 1, Len(a))
        /\ staged'[t] = Blocks(1, Cardinality(staged'[t]))
        /\ Cardinality(staged'[t]) <= Len(a)
    BY <1>15, <1>20, <2>1, <2>2, <2>3
  <2> QED BY <2>4 DEF Blocks
<1>22. CallFits(t)'
  BY <1>1, <1>3, <1>9, <1>18, <1>20, <1>21 DEF CallFits, Working, Acquired, a
<1>23. /\ stage \in {"open", "closed"} /\ UNCHANGED <<stage, made>>
       /\ \A u \in Thread \ {t} :
            /\ pc'[u] = pc[u] /\ request'[u] = request[u] /\ values'[u] = values[u]
            /\ kept'[u] = kept[u] /\ acquired'[u] = acquired[u]
            /\ tracked'[u] = tracked[u] /\ staged'[u] = staged[u]
  BY <1>1, <1>3, <1>8, Zenon
<1>24. Takes(t, o)
  BY <1>1, <1>10, <1>11 DEF Takes
<1> QED BY <1>12, <1>13, <1>14, <1>22, <1>23, <1>24, ThreadMoves, Zenon

(* A slot gets a free block of its output, or the call fails.              *)
LEMMA AcquireSlotKeeps ==
  ASSUME IInv, NEW t \in Thread, AcquireSlot(t)
  PROVE  IInv' /\ (LeasesRest \/ \E o \in Output : Takes(t, o))
<1> DEFINE n == Len(acquired[t])
           o == request[t].slots[n + 1].output
<1>1. pc[t] = "acquiring" /\ n + 1 <= Len(request[t].slots)
  BY DEF AcquireSlot
<1>2. acquired[t] \in Seq(AnyBlock) /\ n \in Nat /\ DOMAIN acquired[t] = 1 .. n
  BY LenProperties DEF IInv, TypeOK
<1>3. \A k \in DOMAIN request[t].slots : request[t].slots[k].output \in Output
  BY <1>1, Zenon DEF IInv, CallFits, Working
<1>4. o \in Output
  <2>1. request[t].slots \in Seq([row : Nat, output : Nat])
    BY DEF IInv, TypeOK, Batch
  <2> HIDE DEF n
  <2>2. DOMAIN request[t].slots = 1 .. Len(request[t].slots)
    BY <2>1, LenProperties, Zenon
  <2>3. Len(request[t].slots) \in Nat
    BY <2>1, LenProperties, Zenon
  <2>4. n + 1 \in DOMAIN request[t].slots
    BY <1>1, <1>2, <2>2, <2>3
  <2> QED BY <1>3, <2>4
<1>5. /\ \/ /\ Fail(t, "kPoolMissing")
            /\ UNCHANGED <<free, acquired, tracked>>
         \/ /\ free[o] # <<>>
            /\ acquired' = [acquired EXCEPT ![t] = Append(@, Head(free[o]))]
            /\ tracked' = [tracked EXCEPT ![t] = @ \cup {Head(free[o])}]
            /\ free' = [free EXCEPT ![o] = Tail(@)]
            /\ UNCHANGED <<pc, result>>
      /\ UNCHANGED <<stage, made, close_result, owner, hostVars, staged>>
  BY DEF AcquireSlot
<1> HIDE DEF n, o
<1>6. CASE /\ Fail(t, "kPoolMissing")
           /\ UNCHANGED <<free, acquired, tracked>>
  <2>1. UNCHANGED <<poolVars, owner, hostVars, callVars>>
    BY <1>5, <1>6, Zenon DEF poolVars, callVars
  <2>2. pc[t] # "idle" /\ Fail(t, "kPoolMissing")
    BY <1>1, <1>6, Zenon
  <2> QED BY <2>1, <2>2, FailKeeps, Zenon
<1>7. CASE /\ free[o] # <<>>
           /\ acquired' = [acquired EXCEPT ![t] = Append(@, Head(free[o]))]
           /\ tracked' = [tracked EXCEPT ![t] = @ \cup {Head(free[o])}]
           /\ free' = [free EXCEPT ![o] = Tail(@)]
           /\ UNCHANGED <<pc, result>>
  <2>1. UNCHANGED <<stage, made, close_result, owner, pc, request, values, kept,
                    staged, result>>
    BY <1>5, <1>7, Zenon DEF hostVars
  <2> QED BY <1>1, <1>4, <1>7, <2>1, SlotIsAcquired, Zenon
<1> QED BY <1>5, <1>6, <1>7, Zenon

-----------------------------------------------------------------------------
(* Steps of the runtime as a whole *)

(* Steps in which no thread takes part. *)
LEMMA RuntimeStep ==
  ASSUME IInv, UNCHANGED <<owner, pc, hostVars, callVars, result>>, TypeOK', NotYetUsed',
         EveryBlockHasOneOwner',
         \A t \in Thread : pc[t] \notin Working \/ stage' = stage
  PROVE  IInv'
<1>1. UNCHANGED <<request, values, kept, acquired, tracked, staged>>
  BY DEF hostVars, callVars
<1>2. \A t \in Thread : /\ Values(t)' = Values(t) /\ Held(t)' = Held(t) /\ Leased(t)' = Leased(t)
                        /\ \A i, j : Acquired(t, i, j)' = Acquired(t, i, j)
  BY <1>1 DEF Values, Held, Leased, Acquired
<1>3. ThreadsAreApart'
  BY <1>2 DEF IInv, ThreadsAreApart
<1>4. \A t \in Thread : InOnePlace(t)'
  BY <1>1, <1>2 DEF IInv, InOnePlace
<1>5. \A t \in Thread : CallFits(t)'
  BY <1>1, <1>2 DEF IInv, CallFits
<1> QED BY <1>3, <1>4, <1>5 DEF IInv

LEMMA NothingLeased ==
  ASSUME UNCHANGED <<hostVars, callVars>>
  PROVE  \A t \in Thread : Leased(t)' = Leased(t)
BY DEF Leased, Held, Values, hostVars, callVars

LEMMA BuildPipelineKeeps == ASSUME IInv, BuildPipeline PROVE IInv'
<1>1. /\ stage = "new" /\ stage' = "pools" /\ made = 0
      /\ UNCHANGED <<made, free, close_result, owner, pc, hostVars, callVars, result>>
  BY DEF BuildPipeline, IInv, NotYetUsed
<1>2. \A t \in Thread : pc[t] = "idle" /\ Leased(t)' = {}
  BY <1>1, NothingLeased DEF IInv, NotYetUsed
<1>3. TypeOK' /\ NotYetUsed' /\ EveryBlockHasOneOwner'
  BY <1>1, <1>2 DEF IInv, TypeOK, NotYetUsed, EveryBlockHasOneOwner, hostVars, callVars
<1> QED BY <1>1, <1>2, <1>3, RuntimeStep DEF Working

(* A new pool is full. *)
LEMMA CreatePoolKeeps == ASSUME IInv, CreatePool PROVE IInv'
<1> DEFINE o == made + 1
           q == [i \in 1 .. Depth |-> <<o, i>>]
<1>1. /\ stage = "pools" /\ stage' = "pools" /\ made < Outputs /\ made' = o
      /\ free' = [free EXCEPT ![o] = q]
      /\ UNCHANGED <<close_result, owner, pc, hostVars, callVars, result>>
  BY DEF CreatePool
<1>2. made \in Nat /\ o \in Output /\ Depth \in Nat /\ Outputs \in Nat
  BY <1>1, RuntimeAssumption DEF IInv, TypeOK, Output
<1>3. q \in Seq(AnyBlock) /\ Len(q) = Depth
  <2>1. \A i \in 1 .. Depth : <<o, i>> \in AnyBlock
    BY <1>2 DEF AnyBlock
  <2> HIDE DEF o
  <2>2. q \in Seq(AnyBlock)
    BY <1>2, <2>1, IsASeq
  <2> QED BY <1>2, <2>2, LenProperties
<1>4. /\ free'[o] = q /\ \A p \in Output \ {o} : free'[p] = free[p]
      /\ free' \in [Output -> Seq(AnyBlock)]
  BY <1>1, <1>2, <1>3 DEF IInv, TypeOK
<1>5. \A t \in Thread : pc[t] = "idle" /\ Leased(t)' = {}
  BY <1>1, NothingLeased DEF IInv, NotYetUsed
<1>6. TypeOK'
  <2>1. o \in 0 .. Outputs
    BY <1>2 DEF Output
  <2>2. \A p \in Output : Len(free'[p]) <= Depth
    <3>1. Len(free'[o]) <= Depth
      BY <1>2, <1>3, <1>4
    <3>2. \A p \in Output : Len(free[p]) <= Depth
      BY DEF IInv, TypeOK
    <3> HIDE DEF o, q
    <3> QED BY <1>4, <3>1, <3>2
  <2> QED BY <1>1, <1>4, <2>1, <2>2 DEF IInv, TypeOK, hostVars, callVars
<1>7. NotYetUsed'
  <2>1. \A p \in 1 .. o : p = o \/ (p \in 1 .. made /\ p \in Output \ {o})
    BY <1>2 DEF Output
  <2>2. \A p \in 1 .. o : free'[p] = [i \in 1 .. Depth |-> <<p, i>>]
    BY <1>1, <1>4, <2>1 DEF IInv, NotYetUsed
  <2> QED BY <1>1, <1>5, <2>2 DEF NotYetUsed
<1>8. EveryBlockHasOneOwner'
  BY <1>1 DEF EveryBlockHasOneOwner
<1> QED BY <1>1, <1>5, <1>6, <1>7, <1>8, RuntimeStep DEF Working

LEMMA CreateFailsKeeps == ASSUME IInv, CreateFails PROVE IInv'
<1>1. /\ stage = "pools" /\ stage' = "new" /\ made' = 0
      /\ free' = [o \in Output |-> <<>>]
      /\ UNCHANGED <<close_result, owner, pc, hostVars, callVars, result>>
  BY DEF CreateFails
<1>2. \A t \in Thread : pc[t] = "idle" /\ Leased(t)' = {}
  BY <1>1, NothingLeased DEF IInv, NotYetUsed
<1>3. TypeOK'
  BY <1>1, RuntimeAssumption, EmptySeq DEF IInv, TypeOK, hostVars, callVars
<1>4. NotYetUsed' /\ EveryBlockHasOneOwner'
  BY <1>1, <1>2 DEF NotYetUsed, EveryBlockHasOneOwner
<1> QED BY <1>1, <1>2, <1>3, <1>4, RuntimeStep DEF Working

(* When the runtime opens, every block is free, once. *)
LEMMA FinishCreateKeeps == ASSUME IInv, FinishCreate PROVE IInv'
<1>1. /\ stage = "pools" /\ stage' = "open" /\ made = Outputs
      /\ UNCHANGED <<made, free, close_result, owner, pc, hostVars, callVars, result>>
  BY DEF FinishCreate
<1>2. \A t \in Thread : pc[t] = "idle" /\ Leased(t)' = {}
  BY <1>1, NothingLeased DEF IInv, NotYetUsed
<1>3. \A o \in Output : free[o] = [i \in 1 .. Depth |-> <<o, i>>]
  BY <1>1 DEF IInv, NotYetUsed, Output
<1>4. EveryBlockHasOneOwner'
  <2>1. ASSUME NEW o \in Output, NEW b \in BlocksOf(o)
        PROVE  \E i \in DOMAIN free[o] : free[o][i] = b
    <3>1. PICK i \in 1 .. Depth : b = <<o, i>>
      BY DEF BlocksOf
    <3> QED BY <1>3, <3>1
  <2>2. ASSUME NEW o \in Output, NEW i \in DOMAIN free[o]
        PROVE  /\ free[o][i] \in BlocksOf(o)
               /\ \A j \in DOMAIN free[o] : free[o][i] = free[o][j] => i = j
    <3>1. DOMAIN free[o] = 1 .. Depth /\ \A k \in 1 .. Depth : free[o][k] = <<o, k>>
      BY <1>3
    <3>2. \A j, k \in 1 .. Depth : <<o, j>> = <<o, k>> => j = k
      OBVIOUS
    <3>3. \A k \in 1 .. Depth : <<o, k>> \in BlocksOf(o)
      BY DEF BlocksOf
    <3>4. i \in 1 .. Depth /\ free[o][i] = <<o, i>>
      BY <3>1
    <3>5. ASSUME NEW j \in DOMAIN free[o], free[o][i] = free[o][j]
          PROVE  i = j
      <4>1. j \in 1 .. Depth /\ free[o][j] = <<o, j>>
        BY <3>1
      <4> QED BY <3>2, <3>4, <3>5, <4>1
    <3> QED BY <3>3, <3>4, <3>5
  <2> QED BY <1>1, <1>2, <2>1, <2>2 DEF EveryBlockHasOneOwner
<1>5. TypeOK' /\ NotYetUsed'
  BY <1>1 DEF IInv, TypeOK, NotYetUsed, hostVars, callVars
<1> QED BY <1>1, <1>2, <1>4, <1>5, RuntimeStep DEF Working

LEMMA CloseKeeps == ASSUME IInv, Close PROVE IInv'
<1>1. /\ stage' = "closed" /\ made' = 0
      /\ free' = [o \in Output |-> <<>>]
      /\ close_result' \in {"kOk", "kInvalidState"}
      /\ \A t \in Thread : pc[t] = "idle"
      /\ UNCHANGED <<owner, pc, hostVars, callVars, result>>
  BY DEF Close
<1>2. TypeOK'
  BY <1>1, RuntimeAssumption, EmptySeq DEF IInv, TypeOK, hostVars, callVars
<1>3. NotYetUsed' /\ EveryBlockHasOneOwner'
  BY <1>1 DEF NotYetUsed, EveryBlockHasOneOwner
<1> QED BY <1>1, <1>2, <1>3, RuntimeStep DEF Working

-----------------------------------------------------------------------------
LEMMA InitIInv == Init => IInv
<1> SUFFICES ASSUME Init PROVE IInv
  OBVIOUS
<1>1. \A t \in Thread : Values(t) = {} /\ Leased(t) = {}
  BY DEF Init, Values, Held, Leased
<1>2. TypeOK
  <2>1. \A S : <<>> \in Seq(S)
    BY EmptySeq
  <2>2. NoBatch \in Batch
    BY <2>1 DEF NoBatch, Batch
  <2>3. Len(<<>>) <= Depth /\ 0 \in 0 .. Outputs
    BY RuntimeAssumption, EmptySeq
  <2> QED BY <2>1, <2>2, <2>3 DEF Init, TypeOK
<1>3. NotYetUsed /\ EveryBlockHasOneOwner /\ ThreadsAreApart
  BY <1>1 DEF Init, NotYetUsed, EveryBlockHasOneOwner, ThreadsAreApart
<1>4. \A t \in Thread : InOnePlace(t)
  BY <1>1 DEF Init, InOnePlace
<1>5. \A t \in Thread : CallFits(t)
  BY DEF Init, CallFits, Working
<1> QED BY <1>2, <1>3, <1>4, <1>5 DEF IInv

LEMMA StepKeepsInvariant ==
  ASSUME IInv, [Next]_vars
  PROVE  IInv'
<1>1. ASSUME NEW t \in Thread, HostStep(t)
      PROVE  IInv'
  BY <1>1, CallProcessKeeps, CallControlKeeps, KeepOutputsKeeps, ReleaseKeeps DEF HostStep
<1>2. ASSUME NEW t \in Thread, ProcessStep(t)
      PROVE  IInv'
  BY <1>2, WorkKeeps, AcquireSlotKeeps, StageOutputKeeps, StageFailsKeeps, DeliverKeeps,
     RollBackKeeps, LeaveKeeps DEF ProcessStep
<1>3. CASE UNCHANGED vars
  <2>1. UNCHANGED <<stage, made, free, close_result, owner, pc, hostVars, callVars, result>>
    BY <1>3 DEF vars, poolVars
  <2>2. \A t \in Thread : Leased(t)' = Leased(t)
    BY <2>1, NothingLeased
  <2>3. TypeOK'
    BY <2>1 DEF IInv, TypeOK, hostVars, callVars
  <2>4. NotYetUsed'
    BY <2>1, <2>2 DEF IInv, NotYetUsed
  <2>5. EveryBlockHasOneOwner'
    BY <2>1, <2>2 DEF IInv, EveryBlockHasOneOwner
  <2> QED BY <2>1, <2>3, <2>4, <2>5, RuntimeStep
<1> QED BY <1>1, <1>2, <1>3, EnterProcessKeeps, EnterControlKeeps, LeaveControlKeeps,
           BuildPipelineKeeps, CreatePoolKeeps, CreateFailsKeeps, FinishCreateKeeps,
           CloseKeeps DEF Next

(* Of a runtime's leases all are accounted for, and what a call has is     *)
(* what it acquired.                                                       *)
THEOREM RuntimeInvariant == Spec => []IInv
<1>1. IInv /\ [Next]_vars => IInv'
  BY StepKeepsInvariant
<1> QED BY <1>1, InitIInv, PTL DEF Spec

(* Every variable keeps its type, and no pool has more blocks than it made. *)
THEOREM RuntimeTypes == Spec => []TypeOK
<1>1. IInv => TypeOK
  BY DEF IInv
<1> QED BY <1>1, RuntimeInvariant, PTL

(* No block is lost and no block has two owners, however a Process fails   *)
(* and whatever the host keeps meanwhile.                                  *)
THEOREM LeasesAreConserved == Spec => []LeaseConservation
<1>1. IInv => LeaseConservation
  BY DEF IInv, ThreadsAreApart, InOnePlace, LeaseConservation, LeasesAreDisjoint
<1> QED BY <1>1, RuntimeInvariant, PTL

-----------------------------------------------------------------------------
(* Pools as queues *)

(* What LeasePool sees of pool o. *)
Queue(o) == IF stage = "open" THEN free[o] ELSE <<>>
PoolLeases(o) == [t \in Thread |-> {b \in Leased(t) : b[1] = o}]
Status == IF stage = "pools" THEN "new" ELSE stage

(* A step that moves no lease is none of any pool. *)
LEMMA RestIsNoPoolStep ==
  ASSUME LeasesRest, NEW o \in Output
  PROVE  [Pool(o)!Next]_(Pool(o)!leasePoolVars)
BY DEF LeasesRest, Pool!leasePoolVars

(* A block that is taken comes from the head of its own pool's queue.      *)
LEMMA TakeIsPoolStep ==
  ASSUME IInv, NEW t \in Thread, NEW p \in Output, Takes(t, p), NEW o \in Output
  PROVE  [Pool(o)!Next]_(Pool(o)!leasePoolVars)
<1>1. Head(free[p]) \in BlocksOf(p) /\ Head(free[p])[1] = p
  <2>1. free[p] \in Seq(AnyBlock) /\ free[p] # <<>>
    BY DEF IInv, TypeOK, Takes
  <2>2. Head(free[p]) = free[p][1] /\ 1 \in DOMAIN free[p]
    BY <2>1, HeadTailProperties, LenProperties, EmptySeq
  <2>3. Head(free[p]) \in BlocksOf(p)
    BY <2>2 DEF IInv, EveryBlockHasOneOwner, Takes
  <2> QED BY <2>3, BlockFacts
<1>2. CASE o = p
  <2>1. PoolLeases(o)' = [PoolLeases(o) EXCEPT ![t] = @ \cup {Head(free[o])}]
    <3>1. PoolLeases(o)'[t] = PoolLeases(o)[t] \cup {Head(free[o])}
      BY <1>1, <1>2 DEF Takes, PoolLeases
    <3>2. \A u \in Thread \ {t} : PoolLeases(o)'[u] = PoolLeases(o)[u]
      BY DEF Takes, PoolLeases
    <3> QED BY <3>1, <3>2 DEF PoolLeases
  <2>2. Queue(o) = free[o] /\ Queue(o)' = Tail(free[o]) /\ Status = "open" /\ Status' = Status
    BY <1>2 DEF Takes, Queue, Status, IInv, TypeOK
  <2>3. Queue(o) # <<>>
    BY <1>2, <2>2 DEF Takes
  <2>4. Pool(o)!Take(t)
    BY <2>1, <2>2, <2>3 DEF Pool!Take, Queue, PoolLeases, Status
  <2> QED BY <2>4 DEF Pool!Next
<1>3. CASE o # p
  <2>1. PoolLeases(o)' = PoolLeases(o)
    <3>1. \A u \in Thread : {b \in Leased(u)' : b[1] = o} = {b \in Leased(u) : b[1] = o}
      BY <1>1, <1>3 DEF Takes
    <3> QED BY <3>1 DEF PoolLeases
  <2>2. Queue(o)' = Queue(o) /\ Status' = Status
    BY <1>3 DEF Takes, Queue, Status, IInv, TypeOK
  <2> QED BY <2>1, <2>2 DEF Pool!leasePoolVars, Queue, PoolLeases, Status
<1> QED BY <1>2, <1>3

(* A block that is given back goes to the end of its own pool's queue, or  *)
(* nowhere when the pool is closed.                                        *)
LEMMA GiveIsPoolStep ==
  ASSUME IInv, NEW t \in Thread, NEW b \in Leased(t), Gives(t, b), NEW o \in Output
  PROVE  [Pool(o)!Next]_(Pool(o)!leasePoolVars)
<1>1. b \in AnyBlock /\ b \in BlocksOf(b[1]) /\ b[1] \in Output
  BY LeasedAreBlocks, BlockFacts DEF IInv
<1>2. Status' = Status /\ (Status = "open" <=> stage = "open")
  BY DEF Gives, Status
<1>3. CASE o = b[1]
  <2>1. PoolLeases(o)' = [PoolLeases(o) EXCEPT ![t] = @ \ {b}]
    <3>1. PoolLeases(o)'[t] = PoolLeases(o)[t] \ {b}
      BY DEF Gives, PoolLeases
    <3>2. \A u \in Thread \ {t} : PoolLeases(o)'[u] = PoolLeases(o)[u]
      BY DEF Gives, PoolLeases
    <3> QED BY <3>1, <3>2 DEF PoolLeases
  <2>2. Queue(o)' = IF Status = "open" THEN Append(Queue(o), b) ELSE Queue(o)
    BY <1>2, <1>3 DEF Gives, GiveBack, Queue, IInv, TypeOK
  <2>3. b \in PoolLeases(o)[t] /\ b \in BlocksOf(o)
    BY <1>1, <1>3 DEF PoolLeases
  <2>4. Pool(o)!Give(t, b)
    BY <1>2, <2>1, <2>2, <2>3 DEF Pool!Give, Queue, PoolLeases, Status
  <2> QED BY <2>3, <2>4 DEF Pool!Next
<1>4. CASE o # b[1]
  <2>1. PoolLeases(o)' = PoolLeases(o)
    <3>1. \A u \in Thread : {x \in Leased(u)' : x[1] = o} = {x \in Leased(u) : x[1] = o}
      BY <1>4 DEF Gives
    <3> QED BY <3>1 DEF PoolLeases
  <2>2. Queue(o)' = Queue(o)
    BY <1>1, <1>4 DEF Gives, GiveBack, Queue, IInv, TypeOK
  <2> QED BY <1>2, <2>1, <2>2 DEF Pool!leasePoolVars, Queue, PoolLeases, Status
<1> QED BY <1>3, <1>4

(* A runtime that is made opens all its pools at once, each with its own   *)
(* blocks; what it had made before is no pool's step, and Close closes all. *)
LEMMA LifeIsPoolStep ==
  ASSUME IInv, BuildPipeline \/ CreatePool \/ CreateFails \/ FinishCreate \/ Close,
         NEW o \in Output
  PROVE  [Pool(o)!Next]_(Pool(o)!leasePoolVars)
<1>1. PoolLeases(o)' = PoolLeases(o)
  <2>1. UNCHANGED <<hostVars, callVars>>
    BY DEF BuildPipeline, CreatePool, CreateFails, FinishCreate, Close
  <2> QED BY <2>1, NothingLeased DEF PoolLeases
<1>2. CASE BuildPipeline \/ CreatePool \/ CreateFails
  <2>1. Queue(o)' = Queue(o) /\ Status' = Status
    BY <1>2 DEF BuildPipeline, CreatePool, CreateFails, Queue, Status
  <2> QED BY <1>1, <2>1 DEF Pool!leasePoolVars, Queue, PoolLeases, Status
<1>3. CASE FinishCreate
  <2>1. /\ stage = "pools" /\ stage' = "open" /\ made = Outputs /\ free' = free
        /\ Outputs \in Nat /\ Depth \in Nat
    BY <1>3, RuntimeAssumption DEF FinishCreate
  <2>2. free[o] = [i \in 1 .. Depth |-> <<o, i>>]
    BY <2>1 DEF IInv, NotYetUsed, Output
  <2>3. free[o] \in Seq(BlocksOf(o))
    <3>1. \A i \in 1 .. Depth : <<o, i>> \in BlocksOf(o)
      BY DEF BlocksOf
    <3> QED BY <2>1, <2>2, <3>1, IsASeq
  <2>4. \A i, j \in DOMAIN free[o] : free[o][i] = free[o][j] => i = j
    BY <2>2
  <2>5. Pool(o)!Open
    BY <1>1, <2>1, <2>3, <2>4 DEF Pool!Open, PoolLeases
  <2> QED BY <2>5 DEF Pool!Next
<1>4. CASE Close
  <2>1. stage \in {"open", "closed"} /\ stage' = "closed"
    BY <1>4 DEF Close
  <2>2. CASE stage = "open"
    <3>1. Pool(o)!Close
      BY <1>1, <2>1, <2>2 DEF Pool!Close, PoolLeases
    <3> QED BY <3>1 DEF Pool!Next
  <2>3. CASE stage = "closed"
    BY <1>1, <2>1, <2>3 DEF Pool!leasePoolVars, PoolLeases
  <2> QED BY <2>1, <2>2, <2>3
<1> QED BY <1>2, <1>3, <1>4

LEMMA EveryStepIsPoolStep ==
  ASSUME IInv, [Next]_vars, NEW o \in Output
  PROVE  [Pool(o)!Next]_(Pool(o)!leasePoolVars)
<1>1. ASSUME NEW t \in Thread, HostStep(t)
      PROVE  [Pool(o)!Next]_(Pool(o)!leasePoolVars)
  <2>1. CASE CallProcess(t) \/ CallControl(t) \/ KeepOutputs(t)
    BY <2>1, CallProcessKeeps, CallControlKeeps, KeepOutputsKeeps, RestIsNoPoolStep
  <2>2. ASSUME NEW b \in kept[t], Release(t, b)
        PROVE  [Pool(o)!Next]_(Pool(o)!leasePoolVars)
    <3>1. Gives(t, b) /\ b \in Leased(t)
      BY <2>2, ReleaseKeeps DEF Gives
    <3> QED BY <3>1, GiveIsPoolStep
  <2> QED BY <1>1, <2>1, <2>2 DEF HostStep
<1>2. ASSUME NEW t \in Thread, ProcessStep(t)
      PROVE  [Pool(o)!Next]_(Pool(o)!leasePoolVars)
  <2>1. CASE AcquireSlot(t)
    BY <2>1, AcquireSlotKeeps, TakeIsPoolStep, RestIsNoPoolStep
  <2>2. CASE StageFails(t) \/ RollBack(t)
    BY <2>2, StageFailsKeeps, RollBackKeeps, GiveIsPoolStep
  <2>3. CASE \/ Decode(t) \/ AllAcquired(t) \/ Execute(t) \/ Encode(t)
             \/ StageOutput(t) \/ Deliver(t) \/ Leave(t)
    BY <2>3, WorkKeeps, StageOutputKeeps, DeliverKeeps, LeaveKeeps, RestIsNoPoolStep
  <2> QED BY <1>2, <2>1, <2>2, <2>3 DEF ProcessStep
<1>3. ASSUME NEW t \in Thread, EnterProcess(t) \/ EnterControl(t) \/ LeaveControl(t)
      PROVE  [Pool(o)!Next]_(Pool(o)!leasePoolVars)
  BY <1>3, EnterProcessKeeps, EnterControlKeeps, LeaveControlKeeps, RestIsNoPoolStep
<1>4. CASE UNCHANGED vars
  <2>1. LeasesRest
    BY <1>4, NothingLeased DEF vars, poolVars, LeasesRest
  <2> QED BY <2>1, RestIsNoPoolStep
<1> QED BY <1>1, <1>2, <1>3, <1>4, LifeIsPoolStep DEF Next

(* Every pool is used as the queue that LeasePool promises, whichever      *)
(* thread takes, publishes, rolls back or drops what it holds.             *)
THEOREM PoolsAreQueues == Spec => UsesPoolsAsQueues
<1>1. Init => \A o \in Output : Pool(o)!Init
  BY DEF Init, Pool!Init, Leased, Held, Values
<1>2. IInv /\ [Next]_vars => [\A o \in Output : [Pool(o)!Next]_(Pool(o)!leasePoolVars)]_vars
  BY EveryStepIsPoolStep
<1> QED BY <1>1, <1>2, RuntimeInvariant, PTL DEF Spec, UsesPoolsAsQueues

-----------------------------------------------------------------------------
(* All or nothing *)

(* What a call has acquired so far is, slot by slot, a block of that slot's *)
(* output; it is complete once the pipeline runs, and a call that unwinds  *)
(* has its error already.                                                  *)
CallIsOnCourse(t) ==
  /\ pc[t] \in Working =>
       /\ Len(acquired[t]) <= Len(request[t].slots)
       /\ \A k \in 1 .. Len(acquired[t]) :
            acquired[t][k] \in BlocksOf(request[t].slots[k].output)
  /\ pc[t] \in {"executing", "encoding", "publishing"} =>
       Len(acquired[t]) = Len(request[t].slots)
  /\ pc[t] = "unwinding" => result[t] # "kOk"

CallsAreOnCourse == \A t \in Thread : CallIsOnCourse(t)

LEMMA SlotsAreSequences ==
  ASSUME TypeOK, NEW t \in Thread
  PROVE  /\ Len(request[t].slots) \in Nat
         /\ DOMAIN request[t].slots = 1 .. Len(request[t].slots)
         /\ acquired[t] \in Seq(AnyBlock) /\ Len(acquired[t]) \in Nat
         /\ DOMAIN acquired[t] = 1 .. Len(acquired[t])
<1>1. request[t].slots \in Seq([row : Nat, output : Nat])
  BY DEF TypeOK, Batch
<1>2. acquired[t] \in Seq(AnyBlock)
  BY DEF TypeOK
<1> QED BY <1>1, <1>2, LenProperties

(* A slot that is acquired gets a block of its own output.                 *)
LEMMA AcquireStaysOnCourse ==
  ASSUME IInv, NEW t \in Thread, CallIsOnCourse(t), AcquireSlot(t)
  PROVE  CallIsOnCourse(t)'
<1> DEFINE n == Len(acquired[t])
           o == request[t].slots[n + 1].output
<1>1. /\ n \in Nat /\ acquired[t] \in Seq(AnyBlock) /\ n + 1 <= Len(request[t].slots)
      /\ Len(request[t].slots) \in Nat /\ n + 1 \in DOMAIN request[t].slots
  <2>1. n \in Nat /\ n + 1 <= Len(request[t].slots) /\ Len(request[t].slots) \in Nat
    BY SlotsAreSequences DEF IInv, AcquireSlot
  <2>2. DOMAIN request[t].slots = 1 .. Len(request[t].slots)
    BY SlotsAreSequences DEF IInv
  <2> QED BY <2>1, <2>2, SlotsAreSequences DEF IInv
<1>2. pc[t] = "acquiring" /\ stage = "open" /\ o \in Output
  BY <1>1 DEF IInv, AcquireSlot, CallFits, Working
<1>3. request' = request
  BY DEF AcquireSlot, hostVars
<1>4. CASE Fail(t, "kPoolMissing")
  BY <1>4 DEF Fail, CallIsOnCourse, Working, IInv, TypeOK
<1>5. CASE /\ free[o] # <<>>
           /\ acquired' = [acquired EXCEPT ![t] = Append(@, Head(free[o]))]
           /\ UNCHANGED <<pc, result>>
  <2>1. Head(free[o]) \in BlocksOf(o)
    <3>1. free[o] \in Seq(AnyBlock)
      BY <1>2 DEF IInv, TypeOK
    <3>2. Head(free[o]) = free[o][1] /\ 1 \in DOMAIN free[o]
      BY <1>5, <3>1, HeadTailProperties, LenProperties, EmptySeq
    <3> QED BY <1>2, <3>2 DEF IInv, EveryBlockHasOneOwner
  <2>2. acquired'[t] = Append(acquired[t], Head(free[o]))
    BY <1>5 DEF IInv, TypeOK
  <2>3. Head(free[o]) \in AnyBlock
    BY <1>2, <2>1, BlockFacts
  <2>4. /\ Len(acquired'[t]) = n + 1
        /\ \A k \in 1 .. n : acquired'[t][k] = acquired[t][k]
        /\ acquired'[t][n + 1] = Head(free[o])
    <3>1. \A s \in Seq(AnyBlock), b \in AnyBlock :
            /\ Len(Append(s, b)) = Len(s) + 1
            /\ \A k \in 1 .. Len(s) : Append(s, b)[k] = s[k]
            /\ Append(s, b)[Len(s) + 1] = b
      BY AppendProperties
    <3>2. PICK b \in AnyBlock : b = Head(free[o])
      BY <2>3, Zenon
    <3>3. PICK s \in Seq(AnyBlock) : s = acquired[t]
      BY <1>1, Zenon
    <3>4. acquired'[t] = Append(s, b) /\ n = Len(s)
      BY <2>2, <3>2, <3>3, Zenon
    <3>5. /\ Len(Append(s, b)) = Len(s) + 1
          /\ \A k \in 1 .. Len(s) : Append(s, b)[k] = s[k]
          /\ Append(s, b)[Len(s) + 1] = b
      BY <3>1, Zenon
    <3> HIDE DEF n, o
    <3> QED BY <3>2, <3>3, <3>4, <3>5, Zenon
  <2>5. \A k \in 1 .. n : acquired[t][k] \in BlocksOf(request[t].slots[k].output)
    BY <1>2 DEF CallIsOnCourse, Working
  <2>6. \A k \in 1 .. n + 1 : k \in 1 .. n \/ k = n + 1
    BY <1>1
  <2> HIDE DEF n
  <2>7. \A k \in 1 .. n + 1 : acquired'[t][k] \in BlocksOf(request'[t].slots[k].output)
    BY <1>3, <2>1, <2>4, <2>5, <2>6
  <2> QED BY <1>1, <1>2, <1>3, <1>5, <2>4, <2>7 DEF CallIsOnCourse
<1> QED BY <1>4, <1>5 DEF AcquireSlot

LEMMA CallStaysOnCourse ==
  ASSUME IInv, CallsAreOnCourse, [Next]_vars, NEW t \in Thread
  PROVE  CallIsOnCourse(t)'
<1>1. CallIsOnCourse(t) /\ TypeOK
  BY DEF CallsAreOnCourse, IInv
<1>2. CASE AcquireSlot(t)
  BY <1>1, <1>2, AcquireStaysOnCourse
<1>3. CASE AllAcquired(t)
  BY <1>1, <1>3 DEF AllAcquired, Advance, TypeOK, CallIsOnCourse, Working, hostVars, callVars
<1>4. CASE EnterProcess(t)
  <2>1. acquired'[t] = <<>> /\ Len(request'[t].slots) \in Nat
    BY <1>4, SlotsAreSequences
       DEF EnterProcess, IInv, CallFits, Working, hostVars, callVars
  <2>2. Len(<<>>) = 0 /\ 1 .. 0 = {}
    OBVIOUS
  <2>3. \/ pc'[t] = "decoding"
        \/ pc'[t] = "unwinding" /\ result'[t] = Rejection(t)
    BY <1>1, <1>4 DEF EnterProcess, TypeOK
  <2>4. Rejection(t) # "kOk"
    BY DEF Rejection
  <2> QED BY <2>1, <2>2, <2>3, <2>4 DEF CallIsOnCourse
<1>5. CASE StageOutput(t)
  BY <1>1, <1>5 DEF StageOutput, CallIsOnCourse, hostVars
<1>6. CASE Decode(t) \/ Execute(t) \/ Encode(t) \/ StageFails(t)
  BY <1>1, <1>6 DEF Decode, Execute, Encode, StageFails, Advance, Fail, TypeOK,
                    CallIsOnCourse, Working, hostVars, callVars
<1>7. CASE Deliver(t) \/ Leave(t) \/ EnterControl(t) \/ LeaveControl(t)
  BY <1>1, <1>7 DEF Deliver, Leave, EnterControl, LeaveControl, TypeOK,
                    CallIsOnCourse, Working
<1>8. CASE RollBack(t)
  BY <1>1, <1>8 DEF RollBack, CallIsOnCourse, Working
<1>9. CASE HostStep(t)
  <2>1. pc'[t] \in {"idle", "calling", "calling_control"}
    BY <1>1, <1>9 DEF HostStep, CallProcess, CallControl, KeepOutputs, Release, TypeOK
  <2> QED BY <2>1 DEF CallIsOnCourse, Working
<1>10. CASE \/ BuildPipeline \/ CreatePool \/ CreateFails \/ FinishCreate \/ Close
            \/ UNCHANGED vars
  <2>1. UNCHANGED <<pc, request, acquired, result>>
    BY <1>10 DEF BuildPipeline, CreatePool, CreateFails, FinishCreate, Close, vars,
                 hostVars, callVars
  <2> QED BY <1>1, <2>1 DEF CallIsOnCourse
<1>11. ASSUME NEW u \in Thread \ {t},
              \/ HostStep(u) \/ EnterProcess(u) \/ ProcessStep(u)
              \/ EnterControl(u) \/ LeaveControl(u)
       PROVE  CallIsOnCourse(t)'
  <2>1. /\ pc'[t] = pc[t] /\ request'[t] = request[t]
        /\ acquired'[t] = acquired[t] /\ result'[t] = result[t]
    <3>1. CASE HostStep(u)
      BY <1>1, <3>1 DEF HostStep, CallProcess, CallControl, KeepOutputs, Release, TypeOK,
                        hostVars, callVars
    <3>2. CASE EnterProcess(u) \/ EnterControl(u) \/ LeaveControl(u)
      BY <1>1, <3>2 DEF EnterProcess, EnterControl, LeaveControl, TypeOK, hostVars, callVars
    <3>3. CASE Decode(u) \/ AllAcquired(u) \/ Execute(u) \/ Encode(u)
      BY <1>1, <3>3 DEF Decode, AllAcquired, Execute, Encode, Advance, Fail, TypeOK,
                        hostVars, callVars
    <3>4. CASE AcquireSlot(u)
      BY <1>1, <3>4 DEF AcquireSlot, Fail, TypeOK, hostVars
    <3>5. CASE StageOutput(u) \/ StageFails(u) \/ Deliver(u) \/ RollBack(u) \/ Leave(u)
      BY <1>1, <3>5 DEF StageOutput, StageFails, Deliver, RollBack, Leave, Fail, TypeOK,
                        hostVars
    <3> QED BY <1>11, <3>1, <3>2, <3>3, <3>4, <3>5 DEF ProcessStep
  <2> QED BY <1>1, <2>1 DEF CallIsOnCourse
<1> QED BY <1>2, <1>3, <1>4, <1>5, <1>6, <1>7, <1>8, <1>9, <1>10, <1>11 DEF Next, ProcessStep

LEMMA StepIsAllOrNothing ==
  ASSUME IInv, CallsAreOnCourse, [Next]_vars
  PROVE  AllOrNothing
<1> SUFFICES ASSUME NEW t \in Thread, pc[t] \in ProcessPhase
             PROVE  IF pc'[t] = "idle" /\ result'[t] = "kOk"
                    THEN /\ tracked'[t] = {} /\ staged'[t] = {}
                         /\ DOMAIN values'[t] = DOMAIN request[t].slots
                         /\ \A k \in DOMAIN values'[t] :
                              values'[t][k] \in BlocksOf(request[t].slots[k].output)
                    ELSE /\ values'[t] = values[t]
                         /\ pc'[t] = "idle" => tracked'[t] = {} /\ staged'[t] = {}
  BY DEF AllOrNothing
<1>1. CallIsOnCourse(t) /\ TypeOK
  BY DEF CallsAreOnCourse, IInv
<1>2. CASE Deliver(t)
  <2>1. /\ pc'[t] = "idle" /\ result'[t] = "kOk" /\ tracked'[t] = {} /\ staged'[t] = {}
        /\ values'[t] = acquired[t] /\ pc[t] = "publishing"
    BY <1>1, <1>2 DEF Deliver, TypeOK
  <2>2. /\ Len(acquired[t]) = Len(request[t].slots)
        /\ \A k \in 1 .. Len(acquired[t]) :
             acquired[t][k] \in BlocksOf(request[t].slots[k].output)
    BY <1>1, <2>1 DEF CallIsOnCourse, Working
  <2>3. /\ DOMAIN acquired[t] = 1 .. Len(acquired[t])
        /\ DOMAIN request[t].slots = 1 .. Len(request[t].slots)
    BY <1>1, SlotsAreSequences
  <2> QED BY <2>1, <2>2, <2>3
<1>3. CASE Leave(t)
  BY <1>1, <1>3 DEF Leave, TypeOK, CallIsOnCourse, hostVars
<1>4. CASE \/ Decode(t) \/ AcquireSlot(t) \/ AllAcquired(t) \/ Execute(t) \/ Encode(t)
           \/ StageOutput(t) \/ StageFails(t) \/ RollBack(t)
  <2>1. values'[t] = values[t]
    BY <1>4 DEF Decode, AcquireSlot, AllAcquired, Execute, Encode, StageOutput, StageFails,
                RollBack, hostVars
  <2>2. pc'[t] # "idle"
    <3>1. CASE Decode(t) \/ AllAcquired(t) \/ Execute(t) \/ Encode(t)
      BY <1>1, <3>1 DEF Decode, AllAcquired, Execute, Encode, Advance, Fail, TypeOK
    <3>2. CASE AcquireSlot(t) \/ StageOutput(t) \/ StageFails(t) \/ RollBack(t)
      BY <1>1, <3>2 DEF AcquireSlot, StageOutput, StageFails, RollBack, Fail, TypeOK
    <3> QED BY <1>4, <3>1, <3>2
  <2> QED BY <2>1, <2>2
<1>5. CASE HostStep(t) \/ EnterProcess(t) \/ EnterControl(t) \/ LeaveControl(t)
  <2>1. pc[t] \notin {"idle", "calling", "calling_control", "controlling"}
    BY DEF ProcessPhase
  <2>2. pc[t] \in {"idle", "calling", "calling_control", "controlling"}
    BY <1>5 DEF HostStep, CallProcess, CallControl, KeepOutputs, Release, EnterProcess,
                EnterControl, LeaveControl
  <2> QED BY <2>1, <2>2
<1>6. CASE \/ BuildPipeline \/ CreatePool \/ CreateFails \/ FinishCreate \/ Close
           \/ UNCHANGED vars
  <2>1. UNCHANGED <<pc, values>> /\ pc[t] # "idle"
    BY <1>6 DEF BuildPipeline, CreatePool, CreateFails, FinishCreate, Close, vars,
                hostVars, ProcessPhase
  <2> QED BY <2>1
<1>7. ASSUME NEW u \in Thread \ {t},
             \/ HostStep(u) \/ EnterProcess(u) \/ ProcessStep(u)
             \/ EnterControl(u) \/ LeaveControl(u)
      PROVE  pc'[t] = pc[t] /\ values'[t] = values[t]
  <2>1. CASE HostStep(u)
    BY <1>1, <2>1 DEF HostStep, CallProcess, CallControl, KeepOutputs, Release, TypeOK,
                      hostVars
  <2>2. CASE EnterProcess(u) \/ EnterControl(u) \/ LeaveControl(u)
    BY <1>1, <2>2 DEF EnterProcess, EnterControl, LeaveControl, TypeOK, hostVars
  <2>3. CASE Decode(u) \/ AllAcquired(u) \/ Execute(u) \/ Encode(u)
    BY <1>1, <2>3 DEF Decode, AllAcquired, Execute, Encode, Advance, Fail, TypeOK, hostVars
  <2>4. CASE AcquireSlot(u)
    BY <1>1, <2>4 DEF AcquireSlot, Fail, TypeOK, hostVars
  <2>5. CASE StageOutput(u) \/ StageFails(u) \/ Deliver(u) \/ RollBack(u) \/ Leave(u)
    BY <1>1, <2>5 DEF StageOutput, StageFails, Deliver, RollBack, Leave, Fail, TypeOK,
                      hostVars
  <2> QED BY <1>7, <2>1, <2>2, <2>3, <2>4, <2>5 DEF ProcessStep
<1>8. pc[t] # "idle"
  BY DEF ProcessPhase
<1> QED BY <1>2, <1>3, <1>4, <1>5, <1>6, <1>7, <1>8 DEF Next, ProcessStep

(* Process delivers a block of the right pool in every slot or fails with  *)
(* the batch untouched and no lease of its own left, for any batch.        *)
THEOREM ProcessDeliversAllOrNothing == Spec => DeliversAllOrNothing
<1>1. Init => CallsAreOnCourse
  BY DEF Init, CallsAreOnCourse, CallIsOnCourse, Working
<1>2. IInv /\ CallsAreOnCourse /\ [Next]_vars => CallsAreOnCourse'
  BY CallStaysOnCourse DEF CallsAreOnCourse
<1>3. IInv /\ CallsAreOnCourse /\ [Next]_vars => AllOrNothing
  BY StepIsAllOrNothing
<1> QED BY <1>1, <1>2, <1>3, RuntimeInvariant, PTL DEF Spec, DeliversAllOrNothing
=============================================================================
