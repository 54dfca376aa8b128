------------------------------ MODULE OutputPool -----------------------------
(***************************************************************************)
(* One OutputPoolState (src/adapter/operator/operator_output_pool.{h,cpp}):*)
(* a fixed number of preallocated output blocks in a ring of free blocks,  *)
(* a ledger that says of every block whether it is free or checked out, a  *)
(* checked-out counter, and a condition variable for threads that find the *)
(* ring empty.                                                             *)
(*                                                                         *)
(* Every public member runs under the pool's mutex from its first access   *)
(* to its last, except that Acquire gives the mutex up while it waits; so  *)
(* each member is one action, and Acquire is an entry that may go to sleep *)
(* and a wake-up that tests the predicate again.  Client stands for the    *)
(* threads and holders of leases.                                          *)
(***************************************************************************)
EXTENDS Integers, FiniteSets, Sequences

CONSTANTS
  Depth,    \* effective_depth: the blocks a pool is created with
  Block,    \* the addresses allocate_external may return
  Client,   \* the threads that acquire blocks and hold leases
  NoBlock   \* nullptr

ASSUME PoolAssumption ==
  /\ Depth \in Nat \ {0}
  /\ IsFiniteSet(Block)
  /\ IsFiniteSet(Client)
  /\ NoBlock \notin Block

VARIABLES
  phase,              \* Create's progress: "allocating", "ready" or "failed"
  all_blocks,         \* blocks allocated and not destroyed
  block_states,       \* the ledger; "Absent" for an address it has no entry for
  free_ring,          \* ring slots, nullptr where no block was ever put
  free_head,
  free_count,
  checked_out_count,
  closing,
  pc,                 \* where a client is in Acquire
  held,               \* blocks a client holds a lease on
  result              \* what a client's last Acquire returned

poolVars == <<all_blocks, block_states, free_ring, free_head, free_count,
              checked_out_count, closing>>
clientVars == <<pc, held, result>>
vars == <<phase, poolVars, clientVars>>

Slot == 0 .. Depth - 1

(* The ring slot k places behind the head. *)
RingIndex(k) == (free_head + k) % Depth

CheckedOut == {b \in Block : block_states[b] = "CheckedOut"}
Free == {b \in Block : block_states[b] = "Free"}
Sleeping == {c \in Client : pc[c] = "waiting"}
Woken == {c \in Client : pc[c] = "woken"}

Init ==
  /\ phase = "allocating"
  /\ all_blocks = {}
  /\ block_states = [b \in Block |-> "Absent"]
  /\ free_ring = [i \in Slot |-> NoBlock]
  /\ free_head = 0
  /\ free_count = 0
  /\ checked_out_count = 0
  /\ closing = FALSE
  /\ pc = [c \in Client |-> "idle"]
  /\ held = [c \in Client |-> {}]
  /\ result = [c \in Client |-> "none"]

-----------------------------------------------------------------------------
(* Create *)

(* One round of the allocation loop: allocate_external returns a block that *)
(* is not in use, which enters the ledger as free and the next ring slot.   *)
AllocateBlock(b) ==
  /\ phase = "allocating"
  /\ Cardinality(all_blocks) < Depth
  /\ b \notin all_blocks
  /\ block_states' = [block_states EXCEPT ![b] = "Free"]
  /\ free_ring' = [free_ring EXCEPT ![Cardinality(all_blocks)] = b]
  /\ all_blocks' = all_blocks \cup {b}
  /\ UNCHANGED <<phase, free_head, free_count, checked_out_count, closing,
                 clientVars>>

(* The loop is over: the counters are set and the pool is handed out. *)
FinishCreate ==
  /\ phase = "allocating"
  /\ Cardinality(all_blocks) = Depth
  /\ phase' = "ready"
  /\ free_head' = 0
  /\ free_count' = Depth
  /\ checked_out_count' = 0
  /\ closing' = FALSE
  /\ UNCHANGED <<all_blocks, block_states, free_ring, clientVars>>

(* Wakes every sleeping client. *)
NotifyAll ==
  pc' = [c \in Client |-> IF pc[c] = "waiting" THEN "woken" ELSE pc[c]]

(* What DestroyBlocks does to the pool itself. *)
DestroyAndClear ==
  /\ closing' = TRUE
  /\ NotifyAll
  /\ all_blocks' = {}
  /\ free_ring' = [i \in Slot |-> NoBlock]
  /\ free_head' = 0
  /\ free_count' = 0
  /\ block_states' = [b \in Block |-> "Absent"]
  /\ checked_out_count' = 0

(* allocate_external fails: the blocks already made are destroyed, and the *)
(* caller gets no pool.                                                    *)
FailCreate ==
  /\ phase = "allocating"
  /\ Cardinality(all_blocks) < Depth
  /\ phase' = "failed"
  /\ DestroyAndClear
  /\ UNCHANGED <<held, result>>

-----------------------------------------------------------------------------
(* Acquire *)

(* The predicate Acquire waits for. *)
Available == closing \/ free_count > 0

(* Acquire finds nothing to take and the pool open: the caller sleeps.     *)
Sleep(c) ==
  /\ phase = "ready"
  /\ pc[c] \in {"idle", "woken"}
  /\ ~Available
  /\ pc' = [pc EXCEPT ![c] = "waiting"]
  /\ UNCHANGED <<phase, poolVars, held, result>>

(* A condition variable may return from its wait without a notification.   *)
SpuriousWake(c) ==
  /\ pc[c] = "waiting"
  /\ pc' = [pc EXCEPT ![c] = "woken"]
  /\ UNCHANGED <<phase, poolVars, held, result>>

AcquireClosed(c) ==
  /\ phase = "ready"
  /\ pc[c] \in {"idle", "woken"}
  /\ closing
  /\ pc' = [pc EXCEPT ![c] = "idle"]
  /\ result' = [result EXCEPT ![c] = "kPoolClosed"]
  /\ UNCHANGED <<phase, poolVars, held>>

(* Mutant: the head is advanced without wrapping around. *)
AcquireNoWrap(c) ==
  LET block == free_ring[free_head] IN
  /\ phase = "ready"
  /\ pc[c] \in {"idle", "woken"}
  /\ ~closing
  /\ free_count > 0
  /\ pc' = [pc EXCEPT ![c] = "idle"]
  /\ free_head' = free_head + 1
  /\ free_count' = free_count - 1
  /\ block_states' = [block_states EXCEPT ![block] = "CheckedOut"]
  /\ checked_out_count' = checked_out_count + 1
  /\ held' = [held EXCEPT ![c] = @ \cup {block}]
  /\ result' = [result EXCEPT ![c] = "kOk"]
  /\ UNCHANGED <<phase, all_blocks, free_ring, closing>>

(* Mutant: the head is handed out but neither advanced nor marked. *)
AcquireUnmarked(c) ==
  LET block == free_ring[free_head] IN
  /\ phase = "ready"
  /\ pc[c] \in {"idle", "woken"}
  /\ ~closing
  /\ free_count > 0
  /\ pc' = [pc EXCEPT ![c] = "idle"]
  /\ held' = [held EXCEPT ![c] = @ \cup {block}]
  /\ result' = [result EXCEPT ![c] = "kOk"]
  /\ UNCHANGED <<phase, poolVars>>

(* Acquire takes the block at the head.  It tests the slot and the ledger  *)
(* before it changes either.                                               *)
AcquireBlock(c) ==
  LET block == free_ring[free_head] IN
  /\ phase = "ready"
  /\ pc[c] \in {"idle", "woken"}
  /\ ~closing
  /\ free_count > 0
  /\ pc' = [pc EXCEPT ![c] = "idle"]
  /\ IF block \in Block /\ block_states[block] = "Free"
     THEN /\ free_head' = (free_head + 1) % Depth
          /\ free_count' = free_count - 1
          /\ block_states' = [block_states EXCEPT ![block] = "CheckedOut"]
          /\ checked_out_count' = checked_out_count + 1
          /\ held' = [held EXCEPT ![c] = @ \cup {block}]
          /\ result' = [result EXCEPT ![c] = "kOk"]
          /\ UNCHANGED <<phase, all_blocks, free_ring, closing>>
     ELSE /\ result' = [result EXCEPT ![c] = "kPoolCorrupt"]
          /\ UNCHANGED <<phase, poolVars, held>>

-----------------------------------------------------------------------------
(* ReturnBlock *)

(* notify_one: some sleeping client wakes, if one sleeps. *)
NotifyOne ==
  IF Sleeping = {}
  THEN UNCHANGED pc
  ELSE \E c \in Sleeping : pc' = [pc EXCEPT ![c] = "woken"]

(* The tests ReturnBlock makes before it believes its caller. *)
ReturnAccepted(b) ==
  /\ ~closing
  /\ block_states[b] = "CheckedOut"
  /\ checked_out_count > 0

(* Pushes b on slot i of the ring; the four mutants below share it. *)
PushFree(b, i) ==
  /\ block_states' = [block_states EXCEPT ![b] = "Free"]
  /\ free_ring' = [free_ring EXCEPT ![i] = b]
  /\ free_count' = free_count + 1

(* Mutant: the block is written one slot past the tail. *)
ReturnPastTail(b) ==
  IF ReturnAccepted(b)
  THEN /\ PushFree(b, RingIndex(free_count + 1))
       /\ checked_out_count' = checked_out_count - 1
       /\ NotifyOne
       /\ UNCHANGED <<all_blocks, free_head, closing>>
  ELSE UNCHANGED <<poolVars, pc>>

(* Mutant: the checked-out counter is left alone. *)
ReturnKeepsCount(b) ==
  IF ReturnAccepted(b)
  THEN /\ PushFree(b, RingIndex(free_count))
       /\ NotifyOne
       /\ UNCHANGED <<all_blocks, free_head, closing, checked_out_count>>
  ELSE UNCHANGED <<poolVars, pc>>

(* Mutant: waiters are notified only when the ring was empty. *)
ReturnNotifiesWhenEmpty(b) ==
  IF ReturnAccepted(b)
  THEN /\ PushFree(b, RingIndex(free_count))
       /\ checked_out_count' = checked_out_count - 1
       /\ IF free_count = 0 THEN NotifyOne ELSE UNCHANGED pc
       /\ UNCHANGED <<all_blocks, free_head, closing>>
  ELSE UNCHANGED <<poolVars, pc>>

(* Mutant: the block goes back to the head, last in first out. *)
ReturnToHead(b) ==
  IF ReturnAccepted(b)
  THEN /\ PushFree(b, RingIndex(Depth - 1))
       /\ free_head' = RingIndex(Depth - 1)
       /\ checked_out_count' = checked_out_count - 1
       /\ NotifyOne
       /\ UNCHANGED <<all_blocks, closing>>
  ELSE UNCHANGED <<poolVars, pc>>

(* What ReturnBlock(b) does to the pool.  Resetting the block may throw;   *)
(* the exception is swallowed and the block goes back all the same.        *)
ReturnBlock(b) ==
  IF ReturnAccepted(b)
  THEN /\ block_states' = [block_states EXCEPT ![b] = "Free"]
       /\ checked_out_count' = checked_out_count - 1
       /\ IF free_count < Depth
          THEN /\ free_ring' = [free_ring EXCEPT ![RingIndex(free_count)] = b]
               /\ free_count' = free_count + 1
          ELSE UNCHANGED <<free_ring, free_count>>
       /\ NotifyOne
       /\ UNCHANGED <<all_blocks, free_head, closing>>
  ELSE UNCHANGED <<poolVars, pc>>

(* The deleter of a published value, or a lease guard that rolls back,     *)
(* gives back a block its owner holds.                                     *)
GiveBack(c, b) ==
  /\ phase = "ready"
  /\ b \in held[c]
  /\ held' = [held EXCEPT ![c] = @ \ {b}]
  /\ ReturnBlock(b)
  /\ UNCHANGED <<phase, result>>

(* A block nobody has on lease is returned: twice by a careless host, or   *)
(* an address the pool never made.                                         *)
StrayReturn(b) ==
  /\ phase = "ready"
  /\ \A c \in Client : b \notin held[c]
  /\ ReturnBlock(b)
  /\ UNCHANGED <<phase, held, result>>

-----------------------------------------------------------------------------
(* CloseAndDrain and DestroyBlocks *)

(* Mutant: one waiter is notified instead of all of them. *)
CloseNotifiesOne ==
  /\ phase = "ready"
  /\ closing' = TRUE
  /\ NotifyOne
  /\ UNCHANGED <<phase, all_blocks, block_states, free_ring, free_head,
                 free_count, checked_out_count, held, result>>

CloseAndDrain ==
  /\ phase = "ready"
  /\ closing' = TRUE
  /\ NotifyAll
  /\ UNCHANGED <<phase, all_blocks, block_states, free_ring, free_head,
                 free_count, checked_out_count, held, result>>

DestroyBlocks ==
  /\ phase = "ready"
  /\ DestroyAndClear
  /\ UNCHANGED <<phase, held, result>>

-----------------------------------------------------------------------------
Next ==
  \/ \E b \in Block : AllocateBlock(b) \/ StrayReturn(b)
  \/ FinishCreate
  \/ FailCreate
  \/ \E c \in Client :
       \/ Sleep(c)
       \/ SpuriousWake(c)
       \/ AcquireClosed(c)
       \/ AcquireBlock(c)
       \/ \E b \in Block : GiveBack(c, b)
  \/ CloseAndDrain
  \/ DestroyBlocks

Spec == Init /\ [][Next]_vars

(* A client the condition variable has woken runs again, and the predicate *)
(* it tests is then true or false.                                         *)
Resume(c) == pc[c] = "woken" /\ (Sleep(c) \/ AcquireClosed(c) \/ AcquireBlock(c))

FairSpec == Spec /\ \A c \in Client : WF_vars(Resume(c))
-----------------------------------------------------------------------------
(* Properties *)

(* Every variable has its type; the head stays inside the ring although it *)
(* only ever moves forward (free_head_ is advanced modulo the ring size).  *)
TypeOK ==
  /\ phase \in {"allocating", "ready", "failed"}
  /\ all_blocks \in SUBSET Block
  /\ block_states \in [Block -> {"Absent", "Free", "CheckedOut"}]
  /\ free_ring \in [Slot -> Block \cup {NoBlock}]
  /\ free_head \in Slot
  /\ free_count \in 0 .. Depth
  /\ checked_out_count \in 0 .. Depth
  /\ closing \in BOOLEAN
  /\ pc \in [Client -> {"idle", "waiting", "woken"}]
  /\ held \in [Client -> SUBSET Block]
  /\ result \in [Client -> {"none", "kOk", "kPoolClosed", "kPoolCorrupt"}]

(* No block is on lease to two holders: whatever the interleaving of       *)
(* Acquire, ReturnBlock, duplicate returns and closing, a thread that      *)
(* writes into its output block is the only one that has it.               *)
ExclusiveLease ==
  \A c, d \in Client : c # d => held[c] \cap held[d] = {}

Open == phase = "ready" /\ ~closing

(* The free_count_ slots from free_head_ on hold the blocks the ledger     *)
(* calls free, each of them once, so that the tests Acquire makes before   *)
(* it takes a block (kPoolCorrupt) never fail.                             *)
RingMatchesLedger ==
  Open =>
    /\ \A k \in 0 .. free_count - 1 : free_ring[RingIndex(k)] \in Free
    /\ \A j, k \in 0 .. free_count - 1 :
         free_ring[RingIndex(j)] = free_ring[RingIndex(k)] => j = k
    /\ \A b \in Free :
         \E k \in 0 .. free_count - 1 : free_ring[RingIndex(k)] = b

(* While the pool is open, what the ledger and the counter say is checked  *)
(* out is what holders really have, so CloseAndDrain reports the number of *)
(* blocks that were not given back and no block is ever lost to the pool.  *)
LedgerMatchesHolders ==
  Open =>
    /\ CheckedOut = UNION {held[c] : c \in Client}
    /\ checked_out_count = Cardinality(CheckedOut)
    /\ free_count + checked_out_count = Depth

(* A thread never sleeps in Acquire beside a block it could have: there is *)
(* a woken thread for every free block as long as one sleeps, and nobody   *)
(* sleeps in a closed pool.  notify_one per return is enough for this even *)
(* if a third thread acquires between the return and the wake-up.          *)
NoLostWakeup ==
  Sleeping # {} => ~closing /\ free_count <= Cardinality(Woken)

(* The ring read from its head, and the pool's state as its users see it. *)
FreeQueue ==
  IF Open THEN [k \in 1 .. free_count |-> free_ring[RingIndex(k - 1)]] ELSE <<>>

Status ==
  IF phase # "ready" THEN "new" ELSE IF closing THEN "closed" ELSE "open"

Abstract == INSTANCE LeasePool WITH
  free <- FreeQueue, leased <- held, status <- Status

(* The pool with its ring, ledger, waiters and defensive tests behaves as  *)
(* the first-in first-out queue of LeasePool.                              *)
ImplementsLeasePool == Abstract!Spec

(* Closing the pool releases every thread that sleeps in Acquire, as the   *)
(* comment on CloseAndDrain says.                                          *)
CloseReleasesWaiters ==
  closing ~> \A c \in Client : pc[c] = "idle"
=============================================================================
