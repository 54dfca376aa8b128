--------------------------- MODULE OutputPoolProofs --------------------------
(***************************************************************************)
(* Machine-checked proofs about OutputPool, for every depth, every set of  *)
(* blocks and every set of clients.                                        *)
(***************************************************************************)
EXTENDS OutputPool, FiniteSetTheorems, SequenceTheorems, TLAPS

-----------------------------------------------------------------------------
(* Arithmetic of the ring *)

(* The slot reached from the head within one turn is a slot of the ring. *)
LEMMA IndexInRing ==
  ASSUME TypeOK
  PROVE  \A k \in 0 .. Depth : RingIndex(k) \in Slot
<1> SUFFICES ASSUME NEW k \in 0 .. Depth
             PROVE  RingIndex(k) \in Slot
  OBVIOUS
<1>1. Depth \in Nat \ {0} /\ free_head \in 0 .. Depth - 1
  BY PoolAssumption DEF TypeOK, Slot
<1>2. QED
  BY <1>1, SMT DEF RingIndex, Slot

(* Different distances below one turn reach different slots. *)
LEMMA IndexInjective ==
  ASSUME TypeOK
  PROVE  \A j, k \in 0 .. Depth - 1 : RingIndex(j) = RingIndex(k) => j = k
<1> SUFFICES ASSUME NEW j \in 0 .. Depth - 1, NEW k \in 0 .. Depth - 1,
                    RingIndex(j) = RingIndex(k)
             PROVE  j = k
  OBVIOUS
<1>1. Depth \in Nat \ {0} /\ free_head \in 0 .. Depth - 1
  BY PoolAssumption DEF TypeOK, Slot
<1>2. (free_head + j) % Depth = (free_head + k) % Depth
  BY DEF RingIndex
<1>3. QED
  BY <1>1, <1>2, SMT

(* The slot k behind the advanced head is the slot k + 1 behind the head. *)
LEMMA IndexAdvance ==
  ASSUME TypeOK, free_head' = (free_head + 1) % Depth
  PROVE  /\ free_head' \in Slot
         /\ \A k \in 0 .. Depth - 1 : RingIndex(k)' = RingIndex(k + 1)
<1>1. Depth \in Nat \ {0} /\ free_head \in 0 .. Depth - 1
  BY PoolAssumption DEF TypeOK, Slot
<1>2. free_head' \in Slot
  BY <1>1, SMT DEF Slot
<1>3. ASSUME NEW k \in 0 .. Depth - 1
      PROVE  RingIndex(k)' = RingIndex(k + 1)
  <2>1. CASE free_head + 1 < Depth
    <3>1. free_head' = free_head + 1
      BY <1>1, <2>1, SMT
    <3>2. QED
      BY <1>1, <3>1, SMT DEF RingIndex
  <2>2. CASE free_head + 1 = Depth
    <3>1. free_head' = 0
      BY <1>1, <2>2, SMT
    <3>2. RingIndex(k)' = k
      BY <1>1, <3>1, SMT DEF RingIndex
    <3>3. (Depth + k) % Depth = k
      BY <1>1, SMT
    <3>4. RingIndex(k + 1) = (Depth + k) % Depth
      BY <1>1, <2>2 DEF RingIndex
    <3>5. QED
      BY <3>2, <3>3, <3>4
  <2>3. QED
    BY <1>1, <2>1, <2>2
<1>4. QED
  BY <1>2, <1>3

-----------------------------------------------------------------------------
(* The inductive invariant *)

(* While the pool is being created, the ring slots filled so far hold the  *)
(* blocks allocated so far, each of them once, and the ledger calls        *)
(* exactly these free.                                                     *)
AllocationInv ==
  phase = "allocating" =>
    /\ ~closing
    /\ free_head = 0
    /\ Cardinality(all_blocks) <= Depth
    /\ Free = all_blocks
    /\ CheckedOut = {}
    /\ \A i \in 0 .. Cardinality(all_blocks) - 1 : free_ring[i] \in all_blocks
    /\ \A i, j \in 0 .. Cardinality(all_blocks) - 1 :
         free_ring[i] = free_ring[j] => i = j
    /\ \A b \in all_blocks :
         \E i \in 0 .. Cardinality(all_blocks) - 1 : free_ring[i] = b

(* Nobody uses a pool that Create has not handed out. *)
UnpublishedInv ==
  phase # "ready" => \A c \in Client : held[c] = {}

IInv ==
  /\ TypeOK
  /\ AllocationInv
  /\ UnpublishedInv
  /\ ExclusiveLease
  /\ RingMatchesLedger
  /\ LedgerMatchesHolders

LEMMA InitInv == Init => IInv
<1> SUFFICES ASSUME Init PROVE IInv
  OBVIOUS
<1> USE PoolAssumption DEF Init
<1>1. TypeOK
  <2>1. 0 \in Slot /\ 0 \in 0 .. Depth
    BY DEF Slot
  <2>2. QED
    BY <2>1 DEF TypeOK
<1>2. AllocationInv
  <2>1. Cardinality(all_blocks) = 0
    BY FS_EmptySet
  <2>2. QED
    BY <2>1 DEF AllocationInv, Free, CheckedOut
<1>3. UnpublishedInv /\ ExclusiveLease
  BY DEF UnpublishedInv, ExclusiveLease
<1>4. RingMatchesLedger /\ LedgerMatchesHolders
  BY DEF RingMatchesLedger, LedgerMatchesHolders, Open
<1>5. QED
  BY <1>1, <1>2, <1>3, <1>4 DEF IInv

(* A step that leaves the pool, the phase and the leases alone. *)
LEMMA ClientStepInv ==
  ASSUME IInv, UNCHANGED <<phase, poolVars, held>>,
         pc' \in [Client -> {"idle", "waiting", "woken"}],
         result' \in [Client -> {"none", "kOk", "kPoolClosed", "kPoolCorrupt"}]
  PROVE  IInv'
BY DEF IInv, poolVars, TypeOK, AllocationInv, UnpublishedInv, ExclusiveLease,
       RingMatchesLedger, LedgerMatchesHolders, Open, Free, CheckedOut,
       RingIndex

LEMMA AllocateBlockInv ==
  ASSUME IInv, NEW b \in Block, AllocateBlock(b)
  PROVE  IInv'
<1> DEFINE n == Cardinality(all_blocks)
<1> USE PoolAssumption DEF IInv
<1>1. /\ IsFiniteSet(all_blocks)
      /\ n \in Nat
      /\ Cardinality(all_blocks') = n + 1
  BY FS_Subset, FS_CardinalityType, FS_AddElement DEF TypeOK, AllocateBlock
<1>2. n \in 0 .. Depth - 1
  BY <1>1 DEF AllocateBlock
<1>3. TypeOK'
  BY <1>2 DEF TypeOK, AllocateBlock, clientVars, Slot
<1>4. AllocationInv'
  <2>1. Free' = Free \cup {b} /\ CheckedOut' = {}
    BY DEF AllocateBlock, AllocationInv, Free, CheckedOut, TypeOK
  <2>2. \A i \in Slot : free_ring'[i] = IF i = n THEN b ELSE free_ring[i]
    BY <1>2 DEF AllocateBlock, TypeOK
  <2>3. 0 .. Cardinality(all_blocks') - 1 = (0 .. n - 1) \cup {n}
    BY <1>1, <1>2
  <2>4. 0 .. n - 1 \subseteq Slot /\ n \in Slot /\ n \notin 0 .. n - 1
    BY <1>1, <1>2 DEF Slot
  <2>5. all_blocks' = all_blocks \cup {b} /\ b \notin all_blocks
    BY DEF AllocateBlock
  <2>6. \A i \in 0 .. n - 1 : free_ring'[i] \in all_blocks
    BY <2>2, <2>4 DEF AllocateBlock, AllocationInv
  <2>7. free_ring'[n] = b
    BY <2>2, <2>4
  <2>8. \A i, j \in 0 .. n : free_ring'[i] = free_ring'[j] => i = j
    <3> SUFFICES ASSUME NEW i \in 0 .. n, NEW j \in 0 .. n,
                        free_ring'[i] = free_ring'[j]
                 PROVE  i = j
      OBVIOUS
    <3>1. CASE i = n \/ j = n
      BY <3>1, <2>5, <2>6, <2>7, <1>1
    <3>2. CASE i # n /\ j # n
      <4>1. i \in 0 .. n - 1 /\ j \in 0 .. n - 1
        BY <3>2, <1>1
      <4>2. free_ring[i] = free_ring[j]
        BY <4>1, <2>2, <2>4
      <4>3. QED
        BY <4>1, <4>2 DEF AllocateBlock, AllocationInv
    <3>3. QED
      BY <3>1, <3>2
  <2>9. \A c \in all_blocks' :
          \E i \in 0 .. Cardinality(all_blocks') - 1 : free_ring'[i] = c
    BY <2>2, <2>3, <2>4, <2>5, <2>7 DEF AllocateBlock, AllocationInv
  <2>10. 0 .. Cardinality(all_blocks') - 1 = 0 .. n
    BY <1>1
  <2>11. \A i \in 0 .. n : free_ring'[i] \in all_blocks'
    BY <2>3, <2>5, <2>6, <2>7, <2>10
  <2>12. ~closing' /\ free_head' = 0 /\ Cardinality(all_blocks') <= Depth
    BY <1>1, <1>2 DEF AllocateBlock, AllocationInv
  <2>13. Free' = all_blocks'
    BY <2>1, <2>5 DEF AllocateBlock, AllocationInv
  <2>14. QED
    BY <2>1, <2>8, <2>9, <2>10, <2>11, <2>12, <2>13 DEF AllocationInv
<1>5. UnpublishedInv' /\ ExclusiveLease'
  BY DEF AllocateBlock, clientVars, UnpublishedInv, ExclusiveLease
<1>6. RingMatchesLedger' /\ LedgerMatchesHolders'
  BY DEF AllocateBlock, RingMatchesLedger, LedgerMatchesHolders, Open
<1>7. QED
  BY <1>3, <1>4, <1>5, <1>6

LEMMA FinishCreateInv ==
  ASSUME IInv, FinishCreate
  PROVE  IInv'
<1> USE PoolAssumption DEF IInv
<1>1. TypeOK'
  <2>1. 0 \in Slot /\ 0 \in 0 .. Depth /\ Depth \in 0 .. Depth
    BY DEF Slot
  <2>2. QED
    BY <2>1 DEF TypeOK, FinishCreate, clientVars
<1>2. AllocationInv' /\ UnpublishedInv'
  BY DEF FinishCreate, AllocationInv, UnpublishedInv
<1>3. ExclusiveLease'
  BY DEF FinishCreate, ExclusiveLease, clientVars
<1>4. Free' = all_blocks /\ CheckedOut' = {}
  BY DEF FinishCreate, AllocationInv, Free, CheckedOut
<1>5. \A k \in 0 .. Depth - 1 : RingIndex(k)' = k
  <2> SUFFICES ASSUME NEW k \in 0 .. Depth - 1
               PROVE  RingIndex(k)' = k
    OBVIOUS
  <2>1. free_head' = 0 /\ Depth \in Nat \ {0}
    BY DEF FinishCreate
  <2>2. QED
    BY <2>1, SMT DEF RingIndex
<1>6. RingMatchesLedger'
  <2>1. free_ring' = free_ring /\ free_count' = Depth
        /\ Cardinality(all_blocks) = Depth
    BY DEF FinishCreate
  <2>2. QED
    BY <1>4, <1>5, <2>1 DEF FinishCreate, AllocationInv, RingMatchesLedger
<1>7. LedgerMatchesHolders'
  <2>1. Cardinality(CheckedOut') = 0
    BY <1>4, FS_EmptySet
  <2>2. UNION {held'[c] : c \in Client} = {}
    BY DEF FinishCreate, clientVars, UnpublishedInv
  <2>3. checked_out_count' = 0 /\ free_count' = Depth
    BY DEF FinishCreate
  <2>4. QED
    BY <1>4, <2>1, <2>2, <2>3 DEF LedgerMatchesHolders
<1>8. QED
  BY <1>1, <1>2, <1>3, <1>6, <1>7

(* Destroying the blocks leaves a closed pool. *)
LEMMA DestroyInv ==
  ASSUME IInv, DestroyAndClear, UNCHANGED <<held, result>>,
         phase' \in {"ready", "failed"}, phase = "ready" => phase' = "ready"
  PROVE  IInv'
<1> USE PoolAssumption DEF IInv
<1>1. TypeOK'
  BY DEF TypeOK, DestroyAndClear, NotifyAll, Slot
<1>2. UnpublishedInv' /\ AllocationInv' /\ ExclusiveLease'
  BY DEF UnpublishedInv, AllocationInv, ExclusiveLease
<1>3. RingMatchesLedger' /\ LedgerMatchesHolders'
  BY DEF DestroyAndClear, RingMatchesLedger, LedgerMatchesHolders, Open
<1>4. QED
  BY <1>1, <1>2, <1>3

LEMMA CloseAndDrainInv ==
  ASSUME IInv, CloseAndDrain
  PROVE  IInv'
<1> USE DEF IInv
<1>1. TypeOK'
  BY DEF TypeOK, CloseAndDrain, NotifyAll
<1>2. UnpublishedInv' /\ AllocationInv' /\ ExclusiveLease'
  BY DEF UnpublishedInv, AllocationInv, ExclusiveLease, CloseAndDrain
<1>3. RingMatchesLedger' /\ LedgerMatchesHolders'
  BY DEF CloseAndDrain, RingMatchesLedger, LedgerMatchesHolders, Open
<1>4. QED
  BY <1>1, <1>2, <1>3

(* In an open pool with a free block, the tests of Acquire succeed. *)
LEMMA HeadIsFree ==
  ASSUME IInv, Open, free_count > 0
  PROVE  /\ free_ring[free_head] \in Block
         /\ block_states[free_ring[free_head]] = "Free"
<1>1. Depth \in Nat \ {0} /\ free_head \in 0 .. Depth - 1
  BY PoolAssumption DEF IInv, TypeOK, Slot
<1>2. RingIndex(0) = free_head
  BY <1>1, SMT DEF RingIndex
<1>3. 0 \in 0 .. free_count - 1
  BY DEF IInv, TypeOK
<1>4. free_ring[RingIndex(0)] \in Free
  BY <1>3 DEF IInv, RingMatchesLedger
<1>5. QED
  BY <1>2, <1>4 DEF Free

LEMMA AcquireBlockInv ==
  ASSUME IInv, NEW c \in Client, AcquireBlock(c)
  PROVE  IInv'
<1> DEFINE block == free_ring[free_head]
<1> USE PoolAssumption DEF IInv
<1>1. Open /\ free_count > 0
  BY DEF AcquireBlock, Open
<1>2. block \in Block /\ block_states[block] = "Free"
  BY <1>1, HeadIsFree
<1>3. /\ free_head' = (free_head + 1) % Depth
      /\ free_count' = free_count - 1
      /\ block_states' = [block_states EXCEPT ![block] = "CheckedOut"]
      /\ checked_out_count' = checked_out_count + 1
      /\ held' = [held EXCEPT ![c] = @ \cup {block}]
      /\ result' = [result EXCEPT ![c] = "kOk"]
      /\ pc' = [pc EXCEPT ![c] = "idle"]
      /\ UNCHANGED <<phase, all_blocks, free_ring, closing>>
  BY <1>2 DEF AcquireBlock
<1>4. /\ free_head' \in Slot
      /\ \A k \in 0 .. Depth - 1 : RingIndex(k)' = RingIndex(k + 1)
  BY <1>3, IndexAdvance
<1>5. free_count' \in 0 .. Depth - 1 /\ free_count \in 1 .. Depth
  BY <1>1, <1>3 DEF TypeOK
<1>6. free_count + checked_out_count = Depth /\ checked_out_count \in 0 .. Depth
  BY <1>1 DEF LedgerMatchesHolders, TypeOK
<1>7. TypeOK'
  <2>1. checked_out_count' \in 0 .. Depth /\ free_count' \in 0 .. Depth
    BY <1>3, <1>5, <1>6
  <2>2. QED
    BY <1>2, <1>3, <1>4, <2>1 DEF TypeOK
<1>8. AllocationInv' /\ UnpublishedInv'
  BY <1>1, <1>3 DEF Open, AllocationInv, UnpublishedInv
<1>9. CheckedOut' = CheckedOut \cup {block} /\ Free' = Free \ {block}
  BY <1>2, <1>3 DEF CheckedOut, Free, TypeOK
<1>10. \A d \in Client : block \notin held[d]
  BY <1>1, <1>2 DEF LedgerMatchesHolders, CheckedOut
<1>11. ExclusiveLease'
  BY <1>3, <1>10 DEF ExclusiveLease, TypeOK
<1>12. RingMatchesLedger'
  <2>1. RingIndex(0) = free_head
    <3>1. Depth \in Nat \ {0} /\ free_head \in 0 .. Depth - 1
      BY DEF TypeOK, Slot
    <3>2. QED
      BY <3>1, SMT DEF RingIndex
  <2>2. \A k \in 0 .. free_count' - 1 :
          /\ k + 1 \in 0 .. free_count - 1
          /\ k + 1 # 0
          /\ RingIndex(k)' = RingIndex(k + 1)
    BY <1>3, <1>4, <1>5
  <2>3. 0 \in 0 .. free_count - 1
    BY <1>5
  <2>4. \A k \in 0 .. free_count' - 1 : free_ring'[RingIndex(k)'] \in Free'
    BY <1>1, <1>3, <1>9, <2>1, <2>2, <2>3 DEF RingMatchesLedger
  <2>5. ASSUME NEW j \in 0 .. free_count' - 1, NEW k \in 0 .. free_count' - 1,
               free_ring'[RingIndex(j)'] = free_ring'[RingIndex(k)']
        PROVE  j = k
    <3>1. free_ring[RingIndex(j + 1)] = free_ring[RingIndex(k + 1)]
      BY <1>3, <2>2, <2>5
    <3>2. j + 1 = k + 1
      BY <1>1, <2>2, <3>1 DEF RingMatchesLedger
    <3>3. QED
      BY <3>2
  <2>6. ASSUME NEW b \in Free'
        PROVE  \E k \in 0 .. free_count' - 1 : free_ring'[RingIndex(k)'] = b
    <3>1. PICK k \in 0 .. free_count - 1 : free_ring[RingIndex(k)] = b
      BY <1>1, <1>9 DEF RingMatchesLedger
    <3>2. k # 0
      BY <1>9, <2>1, <3>1
    <3>3. k - 1 \in 0 .. free_count' - 1 /\ (k - 1) + 1 = k
      BY <1>3, <1>5, <3>2
    <3>4. free_ring'[RingIndex(k - 1)'] = b
      BY <1>3, <2>2, <3>1, <3>3
    <3>5. QED
      BY <3>3, <3>4
  <2>7. QED
    BY <2>4, <2>5, <2>6 DEF RingMatchesLedger
<1>13. LedgerMatchesHolders'
  <2>1. IsFiniteSet(CheckedOut) /\ block \notin CheckedOut
    BY <1>2, FS_Subset DEF CheckedOut
  <2>2. Cardinality(CheckedOut') = Cardinality(CheckedOut) + 1
    BY <1>9, <2>1, FS_AddElement
  <2>3. UNION {held'[d] : d \in Client} = (UNION {held[d] : d \in Client}) \cup {block}
    BY <1>3 DEF TypeOK
  <2>4. free_count' + checked_out_count' = Depth
    BY <1>3, <1>5, <1>6
  <2>5. CheckedOut' = UNION {held'[d] : d \in Client}
    BY <1>1, <1>9, <2>3 DEF LedgerMatchesHolders
  <2>6. checked_out_count' = Cardinality(CheckedOut')
    BY <1>1, <1>3, <2>2 DEF LedgerMatchesHolders
  <2>7. QED
    BY <2>4, <2>5, <2>6 DEF LedgerMatchesHolders
<1>14. QED
  BY <1>7, <1>8, <1>11, <1>12, <1>13

LEMMA NotifyOneType ==
  ASSUME TypeOK, NotifyOne
  PROVE  pc' \in [Client -> {"idle", "waiting", "woken"}]
BY DEF TypeOK, NotifyOne, Sleeping

(* A return the ledger rejects changes nothing in the pool. *)
LEMMA StrayReturnInv ==
  ASSUME IInv, NEW b \in Block, StrayReturn(b)
  PROVE  IInv'
<1>1. ~ReturnAccepted(b)
  BY DEF StrayReturn, ReturnAccepted, IInv, LedgerMatchesHolders, Open,
         CheckedOut
<1>2. UNCHANGED <<phase, poolVars, held, pc, result>>
  BY <1>1 DEF StrayReturn, ReturnBlock
<1>3. QED
  BY <1>2, ClientStepInv DEF IInv, TypeOK

LEMMA GiveBackInv ==
  ASSUME IInv, NEW c \in Client, NEW b \in Block, GiveBack(c, b)
  PROVE  IInv'
<1> USE PoolAssumption DEF IInv
<1>1. /\ phase = "ready" /\ phase' = "ready" /\ result' = result
      /\ b \in held[c]
      /\ held' = [held EXCEPT ![c] = @ \ {b}]
      /\ ReturnBlock(b)
  BY DEF GiveBack
<1>2. AllocationInv' /\ UnpublishedInv' /\ ExclusiveLease'
  BY <1>1 DEF AllocationInv, UnpublishedInv, ExclusiveLease, TypeOK
<1>3. CASE closing
  <2>1. UNCHANGED <<poolVars, pc>>
    BY <1>1, <1>3 DEF ReturnBlock, ReturnAccepted
  <2>2. TypeOK'
    BY <1>1, <2>1 DEF TypeOK, poolVars
  <2>3. RingMatchesLedger' /\ LedgerMatchesHolders'
    BY <1>3, <2>1 DEF poolVars, RingMatchesLedger, LedgerMatchesHolders, Open
  <2>4. QED
    BY <1>2, <2>2, <2>3
<1>4. CASE ~closing
  <2>1. Open
    BY <1>1, <1>4 DEF Open
  <2>2. block_states[b] = "CheckedOut" /\ b \in CheckedOut
    BY <1>1, <2>1 DEF LedgerMatchesHolders, CheckedOut
  <2>3. IsFiniteSet(CheckedOut)
    BY FS_Subset DEF CheckedOut
  <2>4. checked_out_count > 0
    BY <2>1, <2>2, <2>3, FS_EmptySet DEF LedgerMatchesHolders, TypeOK
  <2>5. free_count + checked_out_count = Depth /\ free_count \in 0 .. Depth - 1
    BY <2>1, <2>4 DEF LedgerMatchesHolders, TypeOK
  <2>6. /\ block_states' = [block_states EXCEPT ![b] = "Free"]
        /\ checked_out_count' = checked_out_count - 1
        /\ free_ring' = [free_ring EXCEPT ![RingIndex(free_count)] = b]
        /\ free_count' = free_count + 1
        /\ NotifyOne
        /\ UNCHANGED <<all_blocks, free_head, closing>>
    BY <1>1, <1>4, <2>2, <2>4, <2>5 DEF ReturnBlock, ReturnAccepted
  <2>7. /\ RingIndex(free_count) \in Slot
        /\ \A k \in 0 .. free_count - 1 :
             RingIndex(k) \in Slot /\ RingIndex(k) # RingIndex(free_count)
    BY <2>5, IndexInRing, IndexInjective
  <2>8. \A k \in 0 .. Depth : RingIndex(k)' = RingIndex(k)
    BY <2>6 DEF RingIndex
  <2>9. TypeOK'
    <3>1. free_count' \in 0 .. Depth /\ checked_out_count' \in 0 .. Depth
      BY <2>4, <2>5, <2>6 DEF TypeOK
    <3>2. pc' \in [Client -> {"idle", "waiting", "woken"}]
      BY <2>6, NotifyOneType
    <3>3. QED
      BY <1>1, <2>6, <2>7, <3>1, <3>2 DEF TypeOK
  <2>10. CheckedOut' = CheckedOut \ {b} /\ Free' = Free \cup {b} /\ b \notin Free
    BY <2>2, <2>6 DEF CheckedOut, Free, TypeOK
  <2>11. RingMatchesLedger'
    <3>1. /\ free_ring'[RingIndex(free_count)] = b
          /\ \A k \in 0 .. free_count - 1 :
               free_ring'[RingIndex(k)] = free_ring[RingIndex(k)]
      BY <2>6, <2>7 DEF TypeOK
    <3>2. /\ 0 .. free_count' - 1 = 0 .. free_count
          /\ \A k \in 0 .. free_count : RingIndex(k)' = RingIndex(k)
          /\ \A k \in 0 .. free_count : k = free_count \/ k \in 0 .. free_count - 1
          /\ free_count \in 0 .. free_count
          /\ \A k \in 0 .. free_count - 1 : k \in 0 .. free_count
      BY <2>5, <2>6, <2>8
    <3>3. \A k \in 0 .. free_count - 1 : free_ring[RingIndex(k)] \in Free
      BY <2>1 DEF RingMatchesLedger
    <3>4. \A k \in 0 .. free_count : free_ring'[RingIndex(k)'] \in Free'
      BY <2>10, <3>1, <3>2, <3>3
    <3>5. ASSUME NEW j \in 0 .. free_count, NEW k \in 0 .. free_count,
                 free_ring'[RingIndex(j)'] = free_ring'[RingIndex(k)']
          PROVE  j = k
      <4>1. free_ring'[RingIndex(j)] = free_ring'[RingIndex(k)]
        BY <3>2, <3>5
      <4>2. CASE j = free_count \/ k = free_count
        BY <2>10, <3>1, <3>2, <3>3, <4>1, <4>2
      <4>3. CASE j # free_count /\ k # free_count
        <5>1. j \in 0 .. free_count - 1 /\ k \in 0 .. free_count - 1
          BY <3>2, <4>3
        <5>2. free_ring[RingIndex(j)] = free_ring[RingIndex(k)]
          BY <3>1, <4>1, <5>1
        <5>3. QED
          BY <2>1, <5>1, <5>2 DEF RingMatchesLedger
      <4>4. QED
        BY <4>2, <4>3
    <3>6. ASSUME NEW a \in Free'
          PROVE  \E k \in 0 .. free_count : free_ring'[RingIndex(k)'] = a
      <4>1. CASE a = b
        BY <3>1, <3>2, <4>1
      <4>2. CASE a # b
        <5>1. PICK k \in 0 .. free_count - 1 : free_ring[RingIndex(k)] = a
          BY <2>1, <2>10, <4>2 DEF RingMatchesLedger
        <5>2. QED
          BY <3>1, <3>2, <5>1
      <4>3. QED
        BY <4>1, <4>2
    <3>7. QED
      BY <3>2, <3>4, <3>5, <3>6 DEF RingMatchesLedger
  <2>12. LedgerMatchesHolders'
    <3>1. Cardinality(CheckedOut') = Cardinality(CheckedOut) - 1
      BY <2>2, <2>3, <2>10, FS_RemoveElement
    <3>2. \A d \in Client : d # c => b \notin held[d]
      BY <1>1 DEF ExclusiveLease
    <3>3. UNION {held'[d] : d \in Client} = (UNION {held[d] : d \in Client}) \ {b}
      BY <1>1, <3>2 DEF TypeOK
    <3>4. CheckedOut' = UNION {held'[d] : d \in Client}
      BY <2>1, <2>10, <3>3 DEF LedgerMatchesHolders
    <3>5. checked_out_count' = Cardinality(CheckedOut')
      BY <2>1, <2>6, <3>1 DEF LedgerMatchesHolders
    <3>6. free_count' + checked_out_count' = Depth
      BY <2>5, <2>6 DEF TypeOK
    <3>7. QED
      BY <3>4, <3>5, <3>6 DEF LedgerMatchesHolders
  <2>13. QED
    BY <1>2, <2>9, <2>11, <2>12
<1>5. QED
  BY <1>3, <1>4

LEMMA NextInv ==
  ASSUME IInv, [Next]_vars
  PROVE  IInv'
<1>1. ASSUME NEW b \in Block, AllocateBlock(b)
      PROVE  IInv'
  BY <1>1, AllocateBlockInv
<1>2. ASSUME NEW b \in Block, StrayReturn(b)
      PROVE  IInv'
  BY <1>2, StrayReturnInv
<1>3. CASE FinishCreate
  BY <1>3, FinishCreateInv
<1>4. CASE FailCreate
  BY <1>4, DestroyInv DEF FailCreate
<1>5. ASSUME NEW c \in Client, Sleep(c) \/ SpuriousWake(c) \/ AcquireClosed(c)
      PROVE  IInv'
  <2>1. UNCHANGED <<phase, poolVars, held>>
    BY <1>5 DEF Sleep, SpuriousWake, AcquireClosed
  <2>2. /\ pc' \in [Client -> {"idle", "waiting", "woken"}]
        /\ result' \in [Client -> {"none", "kOk", "kPoolClosed", "kPoolCorrupt"}]
    BY <1>5 DEF Sleep, SpuriousWake, AcquireClosed, IInv, TypeOK
  <2>3. QED
    BY <2>1, <2>2, ClientStepInv
<1>6. ASSUME NEW c \in Client, AcquireBlock(c)
      PROVE  IInv'
  BY <1>6, AcquireBlockInv
<1>7. ASSUME NEW c \in Client, NEW b \in Block, GiveBack(c, b)
      PROVE  IInv'
  BY <1>7, GiveBackInv
<1>8. CASE CloseAndDrain
  BY <1>8, CloseAndDrainInv
<1>9. CASE DestroyBlocks
  BY <1>9, DestroyInv DEF DestroyBlocks
<1>10. CASE UNCHANGED vars
  BY <1>10, ClientStepInv DEF vars, clientVars, IInv, TypeOK
<1>11. QED
  BY <1>1, <1>2, <1>3, <1>4, <1>5, <1>6, <1>7, <1>8, <1>9, <1>10 DEF Next

(* IInv is an invariant of the pool. *)
LEMMA InvariantHolds == Spec => []IInv
<1>1. Init => IInv
  BY InitInv
<1>2. IInv /\ [Next]_vars => IInv'
  BY NextInv
<1>3. QED
  BY <1>1, <1>2, PTL DEF Spec

-----------------------------------------------------------------------------
(* The theorems *)

(* Every variable of the pool keeps its type, so free_head_ stays inside   *)
(* the ring and neither counter of the pool underflows or passes Depth.    *)
THEOREM TypeCorrect == Spec => []TypeOK
<1>1. IInv => TypeOK
  BY DEF IInv
<1>2. QED
  BY <1>1, InvariantHolds, PTL

(* No output block is ever on lease to two holders. *)
THEOREM LeasesAreExclusive == Spec => []ExclusiveLease
<1>1. IInv => ExclusiveLease
  BY DEF IInv
<1>2. QED
  BY <1>1, InvariantHolds, PTL

(* The ring holds exactly the blocks the ledger calls free, once each. *)
THEOREM RingIsConsistent == Spec => []RingMatchesLedger
<1>1. IInv => RingMatchesLedger
  BY DEF IInv
<1>2. QED
  BY <1>1, InvariantHolds, PTL

(* Ledger, counter and holders agree while the pool is open: no lease is   *)
(* lost, and what CloseAndDrain reports as not returned is exact.          *)
THEOREM LedgerIsExact == Spec => []LedgerMatchesHolders
<1>1. IInv => LedgerMatchesHolders
  BY DEF IInv
<1>2. QED
  BY <1>1, InvariantHolds, PTL

-----------------------------------------------------------------------------
(* No lost wake-up *)

(* Before the pool is handed out nobody can wait for it. *)
WakeupInv ==
  /\ NoLostWakeup
  /\ phase # "ready" => Sleeping = {}

LEMMA WokenCardinality ==
  ASSUME TypeOK
  PROVE  IsFiniteSet(Woken) /\ Cardinality(Woken) \in Nat
BY PoolAssumption, FS_Subset, FS_CardinalityType DEF Woken

LEMMA WakeupStep ==
  ASSUME IInv, IInv', WakeupInv, [Next]_vars
  PROVE  WakeupInv'
<1> USE DEF WakeupInv, NoLostWakeup
<1>0. TypeOK /\ TypeOK'
  BY DEF IInv
<1>a. IsFiniteSet(Woken) /\ Cardinality(Woken) \in Nat
  BY <1>0, WokenCardinality
<1>1. CASE (\E b \in Block : AllocateBlock(b)) \/ FinishCreate
  <2>1. UNCHANGED pc /\ phase = "allocating"
    BY <1>1 DEF AllocateBlock, FinishCreate, clientVars
  <2>2. Sleeping' = {}
    BY <2>1 DEF Sleeping
  <2>3. QED
    BY <2>2
<1>2. CASE FailCreate \/ DestroyBlocks \/ CloseAndDrain
  <2>1. NotifyAll
    BY <1>2 DEF FailCreate, DestroyBlocks, CloseAndDrain, DestroyAndClear
  <2>2. Sleeping' = {}
    BY <2>1 DEF NotifyAll, Sleeping
  <2>3. QED
    BY <2>2
<1>3. ASSUME NEW c \in Client, Sleep(c)
      PROVE  WakeupInv'
  <2>1. ~closing' /\ free_count' = 0 /\ phase' = "ready"
    BY <1>0, <1>3 DEF Sleep, Available, poolVars, TypeOK
  <2>2. IsFiniteSet(Woken') /\ Cardinality(Woken') \in Nat
    BY PoolAssumption, FS_Subset, FS_CardinalityType DEF Woken
  <2>3. QED
    BY <2>1, <2>2
<1>4. ASSUME NEW c \in Client, SpuriousWake(c)
      PROVE  WakeupInv'
  <2>1. Woken' = Woken \cup {c} /\ c \notin Woken /\ Sleeping' = Sleeping \ {c}
    BY <1>0, <1>4 DEF SpuriousWake, Woken, Sleeping, TypeOK
  <2>2. Cardinality(Woken') = Cardinality(Woken) + 1
    BY <1>a, <2>1, FS_AddElement
  <2>3. UNCHANGED <<phase, closing, free_count>> /\ free_count \in Nat
    BY <1>0, <1>4 DEF SpuriousWake, poolVars, TypeOK
  <2>4. QED
    BY <1>a, <2>1, <2>2, <2>3
<1>5. ASSUME NEW c \in Client, AcquireClosed(c)
      PROVE  WakeupInv'
  <2>1. Sleeping = {} /\ Sleeping' = {}
    BY <1>0, <1>5 DEF AcquireClosed, Sleeping, TypeOK
  <2>2. QED
    BY <2>1
<1>6. ASSUME NEW c \in Client, AcquireBlock(c)
      PROVE  WakeupInv'
  <2>1. Open /\ free_count > 0 /\ phase = "ready"
    BY <1>6 DEF AcquireBlock, Open
  <2>2. /\ pc[c] \in {"idle", "woken"}
        /\ pc' = [pc EXCEPT ![c] = "idle"]
        /\ free_count' = free_count - 1
        /\ UNCHANGED <<phase, closing>>
    BY <1>6, <2>1, HeadIsFree DEF AcquireBlock
  <2>3. Woken' = Woken \ {c} /\ Sleeping' = Sleeping
    BY <1>0, <2>2 DEF Woken, Sleeping, TypeOK
  <2>4. Cardinality(Woken') >= Cardinality(Woken) - 1 /\ Cardinality(Woken') \in Nat
    <3>1. Cardinality(Woken \ {c})
            = IF c \in Woken THEN Cardinality(Woken) - 1 ELSE Cardinality(Woken)
      BY <1>a, FS_RemoveElement
    <3>2. Cardinality(Woken') \in Nat
      BY <1>a, <2>3, FS_RemoveElement, FS_CardinalityType
    <3>3. QED
      BY <1>a, <2>3, <3>1, <3>2
  <2>5. free_count \in Nat
    BY <1>0 DEF TypeOK
  <2>6. QED
    BY <1>a, <2>1, <2>2, <2>3, <2>4, <2>5
<1>7. ASSUME NEW b \in Block, StrayReturn(b)
      PROVE  WakeupInv'
  <2>1. UNCHANGED <<phase, closing, free_count, pc>>
    BY <1>7 DEF StrayReturn, ReturnBlock, ReturnAccepted, IInv,
       LedgerMatchesHolders, Open, CheckedOut, poolVars
  <2>2. QED
    BY <2>1 DEF Woken, Sleeping
<1>8. ASSUME NEW c \in Client, NEW b \in Block, GiveBack(c, b)
      PROVE  WakeupInv'
  <2>1. phase' = "ready" /\ phase = "ready" /\ ReturnBlock(b)
    BY <1>8 DEF GiveBack
  <2>2. CASE ~ReturnAccepted(b)
    <3>1. UNCHANGED <<closing, free_count, pc>>
      BY <2>1, <2>2 DEF ReturnBlock, poolVars
    <3>2. QED
      BY <2>1, <3>1 DEF Woken, Sleeping
  <2>3. CASE ReturnAccepted(b)
    <3>1. closing' = closing /\ ~closing /\ NotifyOne
          /\ free_count' \in {free_count, free_count + 1}
      BY <2>1, <2>3 DEF ReturnBlock, ReturnAccepted
    <3>2. CASE Sleeping = {}
      <4>1. Sleeping' = {}
        BY <3>1, <3>2 DEF NotifyOne, Sleeping
      <4>2. QED
        BY <2>1, <4>1
    <3>3. CASE Sleeping # {}
      <4>1. PICK d \in Sleeping : pc' = [pc EXCEPT ![d] = "woken"]
        BY <3>1, <3>3 DEF NotifyOne
      <4>2. Woken' = Woken \cup {d} /\ d \notin Woken
        BY <1>0, <4>1 DEF Woken, Sleeping, TypeOK
      <4>3. Cardinality(Woken') = Cardinality(Woken) + 1
        BY <1>a, <4>2, FS_AddElement
      <4>4. free_count \in Nat
        BY <1>0 DEF TypeOK
      <4>5. QED
        BY <1>a, <2>1, <3>1, <3>3, <4>3, <4>4
    <3>4. QED
      BY <3>2, <3>3
  <2>4. QED
    BY <2>2, <2>3
<1>9. CASE UNCHANGED vars
  BY <1>9 DEF vars, clientVars, poolVars, Woken, Sleeping
<1>10. QED
  BY <1>1, <1>2, <1>3, <1>4, <1>5, <1>6, <1>7, <1>8, <1>9 DEF Next

(* One notify_one per returned block is enough: a thread never sleeps in   *)
(* Acquire while more blocks are free than threads are about to look.      *)
THEOREM WakeupsAreNotLost == Spec => []NoLostWakeup
<1>1. Init => WakeupInv
  BY DEF Init, WakeupInv, NoLostWakeup, Sleeping
<1>2. IInv /\ IInv' /\ WakeupInv /\ [Next]_vars => WakeupInv'
  BY WakeupStep
<1>3. WakeupInv => NoLostWakeup
  BY DEF WakeupInv
<1>4. QED
  BY <1>1, <1>2, <1>3, InvariantHolds, PTL DEF Spec

-----------------------------------------------------------------------------
(* Refinement *)

(* The queue LeasePool sees has free_count blocks, read off the ring, each *)
(* of them once.                                                           *)
QueueFacts ==
  /\ FreeQueue \in Seq(Block)
  /\ Len(FreeQueue) = free_count
  /\ DOMAIN FreeQueue = 1 .. free_count
  /\ \A i \in 1 .. free_count : FreeQueue[i] = free_ring[RingIndex(i - 1)]
  /\ \A i, j \in 1 .. free_count : FreeQueue[i] = FreeQueue[j] => i = j

LEMMA QueueContents == IInv /\ Open => QueueFacts
<1> SUFFICES ASSUME IInv, Open
             PROVE  QueueFacts
  OBVIOUS
<1>1. FreeQueue = [k \in 1 .. free_count |-> free_ring[RingIndex(k - 1)]]
  BY DEF FreeQueue
<1>2. free_count \in Nat
  BY DEF IInv, TypeOK
<1>3. \A k \in 1 .. free_count : k - 1 \in 0 .. free_count - 1
  BY <1>2
<1>4. \A k \in 1 .. free_count : free_ring[RingIndex(k - 1)] \in Block
  BY <1>3 DEF IInv, RingMatchesLedger, Free
<1>5. FreeQueue \in Seq(Block) /\ Len(FreeQueue) = free_count
  BY <1>1, <1>2, <1>4
<1>6. ASSUME NEW i \in 1 .. free_count, NEW j \in 1 .. free_count,
             FreeQueue[i] = FreeQueue[j]
      PROVE  i = j
  <2>1. i - 1 = j - 1
    BY <1>1, <1>3, <1>6 DEF IInv, RingMatchesLedger
  <2>2. QED
    BY <1>2, <2>1
<1>7. QED
  BY <1>1, <1>5, <1>6 DEF QueueFacts

LEMMA QueueContentsNext == IInv' /\ Open' => QueueFacts'
BY QueueContents, PTL

LEMMA TakeRefined ==
  ASSUME IInv, IInv', NEW c \in Client, AcquireBlock(c)
  PROVE  Abstract!Take(c)
<1>1. Open /\ free_count > 0
  BY DEF AcquireBlock, Open
<1>2. /\ free_head' = (free_head + 1) % Depth
      /\ free_count' = free_count - 1
      /\ held' = [held EXCEPT ![c] = @ \cup {free_ring[free_head]}]
      /\ UNCHANGED <<phase, free_ring, closing>>
  BY <1>1, HeadIsFree DEF AcquireBlock
<1>3. TypeOK /\ Depth \in Nat \ {0} /\ free_head \in 0 .. Depth - 1
      /\ free_count \in 1 .. Depth
  BY <1>1, PoolAssumption DEF IInv, TypeOK, Slot
<1>4. Open'
  BY <1>1, <1>2 DEF Open
<1>5. Head(FreeQueue) = free_ring[free_head] /\ FreeQueue # <<>>
  <2>1. RingIndex(0) = free_head
    BY <1>3, SMT DEF RingIndex
  <2>2. 1 \in 1 .. free_count /\ 1 - 1 = 0
    BY <1>3
  <2>3. QED
    BY <1>1, <2>1, <2>2, <1>3, QueueContents DEF QueueFacts
<1>6. FreeQueue' = Tail(FreeQueue)
  <2>1. /\ FreeQueue' \in Seq(Block)
        /\ Len(FreeQueue') = free_count'
        /\ \A i \in 1 .. free_count' : FreeQueue'[i] = free_ring'[RingIndex(i - 1)']
    BY <1>4, QueueContentsNext DEF QueueFacts
  <2>2. /\ Tail(FreeQueue) \in Seq(Block)
        /\ Len(Tail(FreeQueue)) = free_count - 1
        /\ \A i \in 1 .. free_count - 1 : Tail(FreeQueue)[i] = FreeQueue[i + 1]
    BY <1>1, <1>5, QueueContents, HeadTailProperties DEF QueueFacts
  <2>3. \A i \in 1 .. free_count - 1 : FreeQueue'[i] = Tail(FreeQueue)[i]
    <3> SUFFICES ASSUME NEW i \in 1 .. free_count - 1
                 PROVE  FreeQueue'[i] = Tail(FreeQueue)[i]
      OBVIOUS
    <3>1. /\ i - 1 \in 0 .. Depth - 1 /\ (i - 1) + 1 = i
          /\ i + 1 \in 1 .. free_count /\ (i + 1) - 1 = i
      BY <1>3
    <3>2. RingIndex(i - 1)' = RingIndex(i)
      BY <1>2, <1>3, <3>1, IndexAdvance
    <3>3. FreeQueue[i + 1] = free_ring[RingIndex(i)]
      BY <1>1, <3>1, QueueContents DEF QueueFacts
    <3>4. QED
      BY <1>2, <2>1, <2>2, <3>2, <3>3
  <2>4. QED
    BY <1>2, <2>1, <2>2, <2>3, SeqEqual
<1>7. Status = "open" /\ Status' = "open"
  BY <1>1, <1>4 DEF Status, Open
<1>8. QED
  BY <1>2, <1>5, <1>6, <1>7 DEF Abstract!Take

LEMMA GiveRefined ==
  ASSUME IInv, IInv', NEW c \in Client, NEW b \in Block, GiveBack(c, b)
  PROVE  Abstract!Give(c, b)
<1>1. /\ phase = "ready" /\ phase' = "ready" /\ b \in held[c]
      /\ held' = [held EXCEPT ![c] = @ \ {b}]
      /\ ReturnBlock(b)
  BY DEF GiveBack
<1>2. CASE closing
  <2>1. UNCHANGED poolVars
    BY <1>1, <1>2 DEF ReturnBlock, ReturnAccepted
  <2>2. FreeQueue = <<>> /\ FreeQueue' = <<>> /\ Status = "closed" /\ Status' = "closed"
    BY <1>1, <1>2, <2>1 DEF FreeQueue, Status, Open, poolVars
  <2>3. QED
    BY <1>1, <2>2 DEF Abstract!Give
<1>3. CASE ~closing
  <2>1. Open
    BY <1>1, <1>3 DEF Open
  <2>2. b \in CheckedOut /\ IsFiniteSet(CheckedOut)
    BY <1>1, <2>1, PoolAssumption, FS_Subset
       DEF IInv, LedgerMatchesHolders, CheckedOut
  <2>3. checked_out_count > 0
    BY <2>1, <2>2, FS_EmptySet DEF IInv, LedgerMatchesHolders, TypeOK
  <2>4. free_count \in 0 .. Depth - 1 /\ Depth \in Nat \ {0}
    BY <2>1, <2>3, PoolAssumption DEF IInv, LedgerMatchesHolders, TypeOK
  <2>5. /\ free_ring' = [free_ring EXCEPT ![RingIndex(free_count)] = b]
        /\ free_count' = free_count + 1
        /\ UNCHANGED <<free_head, closing>>
    BY <1>1, <1>3, <2>2, <2>3, <2>4 DEF ReturnBlock, ReturnAccepted, CheckedOut
  <2>6. Open' /\ Status = "open" /\ Status' = "open"
    BY <1>1, <1>3, <2>5 DEF Open, Status
  <2>7. /\ RingIndex(free_count) \in Slot
        /\ \A k \in 0 .. free_count - 1 :
             RingIndex(k) \in Slot /\ RingIndex(k) # RingIndex(free_count)
    BY <2>4, IndexInRing, IndexInjective DEF IInv
  <2>8. \A k \in 0 .. Depth : RingIndex(k)' = RingIndex(k)
    BY <2>5 DEF RingIndex
  <2>9. FreeQueue' = Append(FreeQueue, b)
    <3>1. /\ FreeQueue' \in Seq(Block)
          /\ Len(FreeQueue') = free_count'
          /\ \A i \in 1 .. free_count' : FreeQueue'[i] = free_ring'[RingIndex(i - 1)']
      BY <2>6, QueueContentsNext DEF QueueFacts
    <3>2. /\ FreeQueue \in Seq(Block)
          /\ Len(FreeQueue) = free_count
          /\ \A i \in 1 .. free_count : FreeQueue[i] = free_ring[RingIndex(i - 1)]
      BY <2>1, QueueContents DEF QueueFacts
    <3>3. /\ Append(FreeQueue, b) \in Seq(Block)
          /\ Len(Append(FreeQueue, b)) = free_count + 1
          /\ \A i \in 1 .. free_count : Append(FreeQueue, b)[i] = FreeQueue[i]
          /\ Append(FreeQueue, b)[free_count + 1] = b
      BY <3>2, AppendProperties
    <3>4. \A i \in 1 .. free_count + 1 : FreeQueue'[i] = Append(FreeQueue, b)[i]
      <4> SUFFICES ASSUME NEW i \in 1 .. free_count + 1
                   PROVE  FreeQueue'[i] = Append(FreeQueue, b)[i]
        OBVIOUS
      <4>1. FreeQueue'[i] = free_ring'[RingIndex(i - 1)]
        BY <2>4, <2>5, <2>8, <3>1
      <4>2. CASE i = free_count + 1
        <5>1. i - 1 = free_count
          BY <2>4, <4>2
        <5>2. QED
          BY <2>5, <2>7, <3>3, <4>1, <4>2, <5>1 DEF IInv, TypeOK
      <4>3. CASE i # free_count + 1
        <5>1. i \in 1 .. free_count /\ i - 1 \in 0 .. free_count - 1
          BY <2>4, <4>3
        <5>2. free_ring'[RingIndex(i - 1)] = free_ring[RingIndex(i - 1)]
          BY <2>5, <2>7, <5>1 DEF IInv, TypeOK
        <5>3. QED
          BY <3>2, <3>3, <4>1, <5>1, <5>2
      <4>4. QED
        BY <4>2, <4>3
    <3>5. QED
      BY <2>5, <3>1, <3>3, <3>4, SeqEqual
  <2>10. QED
    BY <1>1, <2>6, <2>9 DEF Abstract!Give
<1>4. QED
  BY <1>2, <1>3

(* A step that leaves the ring, the phase and the leases alone is a        *)
(* stuttering step of LeasePool.                                           *)
LEMMA StutterRefined ==
  ASSUME UNCHANGED <<phase, closing, free_ring, free_head, free_count, held>>
  PROVE  UNCHANGED Abstract!leasePoolVars
BY DEF Abstract!leasePoolVars, FreeQueue, Status, Open, RingIndex

LEMMA StepRefined ==
  ASSUME IInv, IInv', [Next]_vars
  PROVE  [Abstract!Next]_(Abstract!leasePoolVars)
<1>1. ASSUME NEW b \in Block, AllocateBlock(b)
      PROVE  UNCHANGED Abstract!leasePoolVars
  BY <1>1 DEF AllocateBlock, clientVars, Abstract!leasePoolVars, FreeQueue,
     Status, Open
<1>2. ASSUME NEW b \in Block, StrayReturn(b)
      PROVE  UNCHANGED Abstract!leasePoolVars
  BY <1>2, StutterRefined DEF StrayReturn, ReturnBlock, ReturnAccepted, IInv,
     LedgerMatchesHolders, Open, CheckedOut, poolVars
<1>3. CASE FinishCreate
  <2>1. Open' /\ ~Open /\ Status = "new" /\ Status' = "open"
    BY <1>3 DEF FinishCreate, Open, Status
  <2>2. /\ FreeQueue' \in Seq(Block)
        /\ DOMAIN FreeQueue' = 1 .. free_count'
        /\ \A i, j \in 1 .. free_count' : FreeQueue'[i] = FreeQueue'[j] => i = j
    BY <2>1, QueueContentsNext DEF QueueFacts
  <2>3. \A i, j \in DOMAIN FreeQueue' : FreeQueue'[i] = FreeQueue'[j] => i = j
    BY <2>2
  <2>4. QED
    BY <1>3, <2>1, <2>2, <2>3 DEF FinishCreate, clientVars, Abstract!Open,
       Abstract!Next
<1>4. CASE FailCreate
  BY <1>4 DEF FailCreate, Abstract!leasePoolVars, FreeQueue, Status, Open
<1>5. ASSUME NEW c \in Client, Sleep(c) \/ SpuriousWake(c) \/ AcquireClosed(c)
      PROVE  UNCHANGED Abstract!leasePoolVars
  BY <1>5, StutterRefined DEF Sleep, SpuriousWake, AcquireClosed, poolVars
<1>6. ASSUME NEW c \in Client, AcquireBlock(c)
      PROVE  Abstract!Next
  BY <1>6, TakeRefined DEF Abstract!Next
<1>7. ASSUME NEW c \in Client, NEW b \in Block, GiveBack(c, b)
      PROVE  Abstract!Next
  BY <1>7, GiveRefined DEF Abstract!Next
<1>8. CASE CloseAndDrain \/ DestroyBlocks
  <2>1. phase = "ready" /\ closing' /\ UNCHANGED <<phase, held>>
    BY <1>8 DEF CloseAndDrain, DestroyBlocks, DestroyAndClear
  <2>2. Status' = "closed" /\ FreeQueue' = <<>>
    BY <2>1 DEF Status, FreeQueue, Open
  <2>3. CASE closing
    BY <2>1, <2>2, <2>3 DEF Status, FreeQueue, Open, Abstract!leasePoolVars
  <2>4. CASE ~closing
    BY <2>1, <2>2, <2>4 DEF Status, Abstract!Close, Abstract!Next
  <2>5. QED
    BY <2>3, <2>4
<1>9. CASE UNCHANGED vars
  BY <1>9, StutterRefined DEF vars, poolVars, clientVars
<1>10. QED
  BY <1>1, <1>2, <1>3, <1>4, <1>5, <1>6, <1>7, <1>8, <1>9 DEF Next

(* The pool's ring, ledger and condition variable implement the first-in   *)
(* first-out lease queue of LeasePool.                                     *)
THEOREM PoolRefinesLeasePool == Spec => ImplementsLeasePool
<1>1. Init => Abstract!Init
  BY DEF Init, Abstract!Init, FreeQueue, Status, Open
<1>2. IInv /\ IInv' /\ [Next]_vars => [Abstract!Next]_(Abstract!leasePoolVars)
  BY StepRefined
<1>3. QED
  BY <1>1, <1>2, InvariantHolds, PTL DEF Spec, ImplementsLeasePool, Abstract!Spec
=============================================================================
