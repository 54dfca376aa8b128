---------------------------- MODULE SharedRuntime ----------------------------
(***************************************************************************)
(* One SharedAlgorithmRuntime (src/adapter/shared_algorithm_runtime.cpp)   *)
(* and the host threads that use it: creation, Process with its output     *)
(* leases, Control, Close, and the host that keeps and drops its outputs.  *)
(*                                                                         *)
(* Each output of the plan has a pool, here the queue that LeasePool       *)
(* promises and OutputPool implements.  mutex_ is held for the whole of    *)
(* Process and Control, also while Process waits for a free block; the     *)
(* host drops outputs without it, so only the pools' steps interleave.     *)
(***************************************************************************)
EXTENDS Integers, FiniteSets, Sequences

CONSTANTS
  Thread,       \* host threads
  NoThread,     \* the owner of a mutex that is free
  Outputs,      \* outputs of the plan: the indices 1 .. Outputs
  Required,     \* the indices of the outputs every row must select
  Depth,        \* output_pool_depth
  BatchCap,     \* kMaxProcessBatchSize
  Request,      \* the batches the host may pass
  NoBlock,      \* a null value in an output slot
  KeepLimit     \* the leases a host thread keeps when it calls Process

Output == 1 .. Outputs
BlocksOf(o) == {o} \X (1 .. Depth)
AnyBlock == Output \X (1 .. Depth)

(* A batch: its input rows, whether its input views have the types of the  *)
(* plan, its output rows, and the output slots of all rows, row by row.    *)
Batch == [inputs : Nat, views_match : BOOLEAN, rows : Nat,
          slots : Seq([row : Nat, output : Nat])]

NoBatch == [inputs |-> 0, views_match |-> TRUE, rows |-> 0, slots |-> <<>>]

ASSUME RuntimeAssumption ==
  /\ NoThread \notin Thread
  /\ Outputs \in Nat \ {0}
  /\ Required \in SUBSET Output
  /\ Depth \in Nat \ {0}
  /\ BatchCap \in Nat \ {0}
  /\ Request \in SUBSET Batch
  /\ NoBlock \notin AnyBlock
  /\ KeepLimit \in Nat

VARIABLES
  stage,     \* of the runtime: "new", "pools" (being created), "open", "closed"
  made,      \* output_pools_: how many of them exist
  free,      \* free[o]: the blocks pool o can lease, first in first out
  owner,     \* the thread that holds mutex_
  pc,        \* where a thread is
  request,   \* the batch a thread passed last
  values,    \* values[t][k]: what slot k of that batch holds
  kept,      \* the leases a thread has moved out of its batch
  acquired,  \* Process: the blocks acquired so far, slot by slot
  tracked,   \* Process: the leases its ScopedOutputLeaseGuard will return
  staged,    \* PublishRuntimeOutputs: the leases the staged copy owns
  result,    \* what a thread's last call returned, "none" during a call
  close_result

poolVars == <<stage, made, free, close_result>>
hostVars == <<request, values, kept>>
callVars == <<acquired, tracked, staged>>
vars == <<poolVars, owner, pc, hostVars, callVars, result>>

Values(t) == {values[t][k] : k \in DOMAIN values[t]} \ {NoBlock}

(* What the host has of a thread's calls, and what the call itself has. *)
Held(t) == kept[t] \cup Values(t)
Leased(t) == Held(t) \cup tracked[t] \cup staged[t]

ProcessPhase == {"decoding", "acquiring", "executing", "encoding",
                 "publishing", "unwinding"}
Inside == ProcessPhase \cup {"controlling"}

Init ==
  /\ stage = "new"
  /\ made = 0
  /\ free = [o \in Output |-> <<>>]
  /\ owner = NoThread
  /\ pc = [t \in Thread |-> "idle"]
  /\ request = [t \in Thread |-> NoBatch]
  /\ values = [t \in Thread |-> <<>>]
  /\ kept = [t \in Thread |-> {}]
  /\ acquired = [t \in Thread |-> <<>>]
  /\ tracked = [t \in Thread |-> {}]
  /\ staged = [t \in Thread |-> {}]
  /\ result = [t \in Thread |-> "none"]
  /\ close_result = "none"

-----------------------------------------------------------------------------
(* CreateFromIoPlan *)

BuildPipeline ==
  /\ stage = "new"
  /\ stage' = "pools"
  /\ UNCHANGED <<made, free, close_result, owner, pc, hostVars, callVars, result>>

(* The next output gets its pool, full of blocks. *)
CreatePool ==
  /\ stage = "pools"
  /\ made < Outputs
  /\ made' = made + 1
  /\ free' = [free EXCEPT ![made + 1] = [i \in 1 .. Depth |-> <<made + 1, i>>]]
  /\ UNCHANGED <<stage, close_result, owner, pc, hostVars, callVars, result>>

(* A pool cannot be created: the half-made runtime is destroyed, with the  *)
(* pools it has, and the host may try again.                               *)
CreateFails ==
  /\ stage = "pools"
  /\ made < Outputs
  /\ stage' = "new"
  /\ made' = 0
  /\ free' = [o \in Output |-> <<>>]
  /\ UNCHANGED <<close_result, owner, pc, hostVars, callVars, result>>

FinishCreate ==
  /\ stage = "pools"
  /\ made = Outputs
  /\ stage' = "open"
  /\ UNCHANGED <<made, free, close_result, owner, pc, hostVars, callVars, result>>

-----------------------------------------------------------------------------
(* The host *)

(* A thread calls Process: with a new batch once the last one is empty, or *)
(* once more with the batch it has.                                        *)
CallProcess(t) ==
  /\ stage \in {"open", "closed"}
  /\ pc[t] = "idle"
  /\ Cardinality(Held(t)) <= KeepLimit
  /\ pc' = [pc EXCEPT ![t] = "calling"]
  /\ \/ /\ Values(t) = {}
        /\ \E r \in Request :
             /\ request' = [request EXCEPT ![t] = r]
             /\ values' = [values EXCEPT ![t] =
                             [k \in 1 .. Len(r.slots) |-> NoBlock]]
     \/ UNCHANGED <<request, values>>
  /\ result' = [result EXCEPT ![t] = "none"]
  /\ UNCHANGED <<poolVars, owner, kept, callVars>>

CallControl(t) ==
  /\ stage \in {"open", "closed"}
  /\ pc[t] = "idle"
  /\ Cardinality(Held(t)) <= KeepLimit
  /\ pc' = [pc EXCEPT ![t] = "calling_control"]
  /\ result' = [result EXCEPT ![t] = "none"]
  /\ UNCHANGED <<poolVars, owner, hostVars, callVars>>

(* The host moves the outputs out of the batch. *)
KeepOutputs(t) ==
  /\ pc[t] = "idle"
  /\ Values(t) # {}
  /\ kept' = [kept EXCEPT ![t] = @ \cup Values(t)]
  /\ values' = [values EXCEPT ![t] = [k \in DOMAIN @ |-> NoBlock]]
  /\ UNCHANGED <<poolVars, owner, pc, request, callVars, result>>

(* The pool of b gets b back; a pool that is closed drops it. *)
GiveBack(b) ==
  free' = IF stage = "open" THEN [free EXCEPT ![b[1]] = Append(@, b)] ELSE free

(* The host drops an output: its deleter returns the block. *)
Release(t, b) ==
  /\ pc[t] = "idle"
  /\ b \in kept[t]
  /\ kept' = [kept EXCEPT ![t] = @ \ {b}]
  /\ GiveBack(b)
  /\ UNCHANGED <<stage, made, close_result, owner, pc, request, values,
                 callVars, result>>

-----------------------------------------------------------------------------
(* Process *)

ProcessBatchLimit == IF Depth < BatchCap THEN Depth ELSE BatchCap

(* The rows of a batch that name an output twice, or miss a required one. *)
SlotsAreValid(r) ==
  /\ \A k \in DOMAIN r.slots : r.slots[k].output \in Output
  /\ \A j, k \in DOMAIN r.slots : r.slots[j] = r.slots[k] => j = k
  /\ \A row \in 1 .. r.rows : \A o \in Required :
       \E k \in DOMAIN r.slots : r.slots[k] = [row |-> row, output |-> o]

(* Mutant: the batch is not compared with the effective limit. *)
RejectionUnlimited(t) ==
  LET r == request[t] IN
  IF stage # "open" THEN "kInvalidState"
  ELSE IF r.inputs = 0 THEN "kInvalidInput"
  ELSE IF r.rows # r.inputs THEN "kInvalidOutput"
  ELSE IF ~r.views_match THEN "kInvalidInput"
  ELSE IF Values(t) # {} \/ ~SlotsAreValid(r) THEN "kInvalidOutput"
  ELSE "none"

(* Why Process turns a call down before it changes anything. *)
Rejection(t) ==
  LET r == request[t] IN
  IF stage # "open" THEN "kInvalidState"
  ELSE IF r.inputs > ProcessBatchLimit \/ r.inputs = 0 THEN "kInvalidInput"
  ELSE IF r.rows # r.inputs THEN "kInvalidOutput"
  ELSE IF ~r.views_match THEN "kInvalidInput"
  ELSE IF Values(t) # {} \/ ~SlotsAreValid(r) THEN "kInvalidOutput"
  ELSE "none"

(* The mutex is free and Process takes it, checks the batch and the slots. *)
EnterProcess(t) ==
  /\ pc[t] = "calling"
  /\ owner = NoThread
  /\ owner' = t
  /\ IF Rejection(t) = "none"
     THEN /\ pc' = [pc EXCEPT ![t] = "decoding"]
          /\ UNCHANGED result
     ELSE /\ pc' = [pc EXCEPT ![t] = "unwinding"]
          /\ result' = [result EXCEPT ![t] = Rejection(t)]
  /\ UNCHANGED <<poolVars, hostVars, callVars>>

(* Process leaves its body with an error; the scope's destructors follow. *)
Fail(t, code) ==
  /\ pc' = [pc EXCEPT ![t] = "unwinding"]
  /\ result' = [result EXCEPT ![t] = code]

Advance(t, to) ==
  /\ pc' = [pc EXCEPT ![t] = to]
  /\ UNCHANGED result

(* The decoders fill the request's context, or one of them fails. *)
Decode(t) ==
  /\ pc[t] = "decoding"
  /\ Advance(t, "acquiring") \/ Fail(t, "decode")
  /\ UNCHANGED <<poolVars, owner, hostVars, callVars>>

(* AcquireRuntimeOutputBlocks: the next slot gets a block of its pool, or  *)
(* the thread waits there until the pool has one.                          *)
AcquireSlot(t) ==
  LET k == Len(acquired[t]) + 1
      o == request[t].slots[k].output
  IN
  /\ pc[t] = "acquiring"
  /\ k <= Len(request[t].slots)
  /\ IF o > made
     THEN /\ Fail(t, "kPoolMissing")
          /\ UNCHANGED <<free, acquired, tracked>>
     ELSE /\ free[o] # <<>>
          /\ acquired' = [acquired EXCEPT ![t] = Append(@, Head(free[o]))]
          /\ tracked' = [tracked EXCEPT ![t] = @ \cup {Head(free[o])}]
          /\ free' = [free EXCEPT ![o] = Tail(@)]
          /\ UNCHANGED <<pc, result>>
  /\ UNCHANGED <<stage, made, close_result, owner, hostVars, staged>>

AllAcquired(t) ==
  /\ pc[t] = "acquiring"
  /\ Len(acquired[t]) = Len(request[t].slots)
  /\ Advance(t, "executing")
  /\ UNCHANGED <<poolVars, owner, hostVars, callVars>>

(* Pipeline::Execute *)
Execute(t) ==
  /\ pc[t] = "executing"
  /\ Advance(t, "encoding") \/ Fail(t, "execution")
  /\ UNCHANGED <<poolVars, owner, hostVars, callVars>>

(* Every encoder writes its blocks, or one fails or writes too few. *)
Encode(t) ==
  /\ pc[t] = "encoding"
  /\ Advance(t, "publishing") \/ Fail(t, "encode")
  /\ UNCHANGED <<poolVars, owner, hostVars, callVars>>

-----------------------------------------------------------------------------
(* PublishRuntimeOutputs *)

NextToStage(t) == acquired[t][Cardinality(staged[t]) + 1]

(* Mutant: the block goes straight into the caller's slot. *)
StageIntoBatch(t) ==
  /\ pc[t] = "publishing"
  /\ Cardinality(staged[t]) < Len(acquired[t])
  /\ tracked' = [tracked EXCEPT ![t] = @ \ {NextToStage(t)}]
  /\ staged' = [staged EXCEPT ![t] = @ \cup {NextToStage(t)}]
  /\ values' = [values EXCEPT ![t][Cardinality(staged[t]) + 1] = NextToStage(t)]
  /\ UNCHANGED <<poolVars, owner, pc, request, kept, acquired, result>>

(* The guard gives up the next block and a shared_ptr in the staged copy   *)
(* takes it over.                                                          *)
StageOutput(t) ==
  /\ pc[t] = "publishing"
  /\ Cardinality(staged[t]) < Len(acquired[t])
  /\ tracked' = [tracked EXCEPT ![t] = @ \ {NextToStage(t)}]
  /\ staged' = [staged EXCEPT ![t] = @ \cup {NextToStage(t)}]
  /\ UNCHANGED <<poolVars, owner, pc, hostVars, acquired, result>>

(* Mutant: the guard still tracks the block when the shared_ptr's          *)
(* constructor throws and its deleter returns it.                          *)
StageFailsTracked(t) ==
  /\ pc[t] = "publishing"
  /\ Cardinality(staged[t]) < Len(acquired[t])
  /\ GiveBack(NextToStage(t))
  /\ Fail(t, "kInternalException")
  /\ UNCHANGED <<stage, made, close_result, owner, hostVars, acquired, tracked,
                 staged>>

(* The shared_ptr's control block cannot be allocated: the constructor     *)
(* calls the deleter on the block, which the guard no longer tracks.       *)
StageFails(t) ==
  /\ pc[t] = "publishing"
  /\ Cardinality(staged[t]) < Len(acquired[t])
  /\ tracked' = [tracked EXCEPT ![t] = @ \ {NextToStage(t)}]
  /\ GiveBack(NextToStage(t))
  /\ Fail(t, "kInternalException")
  /\ UNCHANGED <<stage, made, close_result, owner, hostVars, acquired, staged>>

(* All blocks are staged: they move to the caller's slots and Process is   *)
(* done.  Nothing can fail any more.                                       *)
Deliver(t) ==
  /\ pc[t] = "publishing"
  /\ Cardinality(staged[t]) = Len(acquired[t])
  /\ values' = [values EXCEPT ![t] = acquired[t]]
  /\ staged' = [staged EXCEPT ![t] = {}]
  /\ tracked' = [tracked EXCEPT ![t] = {}]
  /\ result' = [result EXCEPT ![t] = "kOk"]
  /\ pc' = [pc EXCEPT ![t] = "idle"]
  /\ owner' = NoThread
  /\ acquired' = [acquired EXCEPT ![t] = <<>>]
  /\ UNCHANGED <<poolVars, request, kept>>

(* A destructor returns a lease: the staged copy's values go first, then   *)
(* those the guard tracks.                                                 *)
RollBack(t) ==
  /\ pc[t] = "unwinding"
  /\ \E b \in IF staged[t] # {} THEN staged[t] ELSE tracked[t] :
       /\ GiveBack(b)
       /\ staged' = [staged EXCEPT ![t] = @ \ {b}]
       /\ tracked' = [tracked EXCEPT ![t] = @ \ {b}]
  /\ UNCHANGED <<stage, made, close_result, owner, pc, hostVars, acquired,
                 result>>

(* Mutant: the guard does not roll back what it tracks. *)
LeaveWithLeases(t) ==
  /\ pc[t] = "unwinding"
  /\ staged[t] = {}
  /\ tracked' = [tracked EXCEPT ![t] = {}]
  /\ pc' = [pc EXCEPT ![t] = "idle"]
  /\ owner' = NoThread
  /\ acquired' = [acquired EXCEPT ![t] = <<>>]
  /\ UNCHANGED <<poolVars, hostVars, staged, result>>

(* The last destructor unlocks the mutex and Process returns its error. *)
Leave(t) ==
  /\ pc[t] = "unwinding"
  /\ staged[t] = {}
  /\ tracked[t] = {}
  /\ pc' = [pc EXCEPT ![t] = "idle"]
  /\ owner' = NoThread
  /\ acquired' = [acquired EXCEPT ![t] = <<>>]
  /\ UNCHANGED <<poolVars, hostVars, tracked, staged, result>>

-----------------------------------------------------------------------------
(* ExecuteControl and Close *)

EnterControl(t) ==
  /\ pc[t] = "calling_control"
  /\ owner = NoThread
  /\ IF stage = "open"
     THEN /\ pc' = [pc EXCEPT ![t] = "controlling"]
          /\ owner' = t
          /\ UNCHANGED result
     ELSE /\ pc' = [pc EXCEPT ![t] = "idle"]
          /\ result' = [result EXCEPT ![t] = "kInvalidState"]
          /\ UNCHANGED owner
  /\ UNCHANGED <<poolVars, hostVars, callVars>>

(* Pipeline::Control has run, with either outcome. *)
LeaveControl(t) ==
  /\ pc[t] = "controlling"
  /\ \E code \in {"kOk", "control"} : result' = [result EXCEPT ![t] = code]
  /\ pc' = [pc EXCEPT ![t] = "idle"]
  /\ owner' = NoThread
  /\ UNCHANGED <<poolVars, hostVars, callVars>>

(* Every block a pool made and does not have. *)
CheckedOutCount(o) == Depth - Len(free[o])

(* The host has waited for its calls to return, as the comment in Close    *)
(* asks of it.  The pools are drained, counted and destroyed; a second     *)
(* Close finds none.                                                       *)
Close ==
  /\ stage \in {"open", "closed"}
  /\ \A t \in Thread : pc[t] = "idle"
  /\ stage' = "closed"
  /\ close_result' = IF \E o \in 1 .. made : CheckedOutCount(o) > 0
                     THEN "kInvalidState" ELSE "kOk"
  /\ made' = 0
  /\ free' = [o \in Output |-> <<>>]
  /\ UNCHANGED <<owner, pc, hostVars, callVars, result>>

-----------------------------------------------------------------------------
ProcessStep(t) ==
  \/ Decode(t)
  \/ AcquireSlot(t)
  \/ AllAcquired(t)
  \/ Execute(t)
  \/ Encode(t)
  \/ StageOutput(t)
  \/ StageFails(t)
  \/ Deliver(t)
  \/ RollBack(t)
  \/ Leave(t)

HostStep(t) ==
  \/ CallProcess(t)
  \/ CallControl(t)
  \/ KeepOutputs(t)
  \/ \E b \in kept[t] : Release(t, b)

Next ==
  \/ BuildPipeline
  \/ CreatePool
  \/ CreateFails
  \/ FinishCreate
  \/ Close
  \/ \E t \in Thread :
       \/ HostStep(t)
       \/ EnterProcess(t)
       \/ ProcessStep(t)
       \/ EnterControl(t)
       \/ LeaveControl(t)

Spec == Init /\ [][Next]_vars

(* A thread inside the runtime keeps running.  Nothing is assumed of who   *)
(* gets the mutex next, nor of the host: it may keep what it has for ever. *)
FairSpec ==
  /\ Spec
  /\ \A t \in Thread : WF_vars(ProcessStep(t) \/ LeaveControl(t))
-----------------------------------------------------------------------------
(* Properties *)

(* Every variable has its type, and a pool never has more blocks to lease  *)
(* than it made.                                                           *)
TypeOK ==
  /\ stage \in {"new", "pools", "open", "closed"}
  /\ made \in 0 .. Outputs
  /\ free \in [Output -> Seq(AnyBlock)]
  /\ \A o \in Output : Len(free[o]) <= Depth
  /\ owner \in Thread \cup {NoThread}
  /\ pc \in [Thread -> {"idle", "calling", "calling_control"} \cup Inside]
  /\ request \in [Thread -> Batch]
  /\ values \in [Thread -> Seq(AnyBlock \cup {NoBlock})]
  /\ kept \in [Thread -> SUBSET AnyBlock]
  /\ acquired \in [Thread -> Seq(AnyBlock)]
  /\ tracked \in [Thread -> SUBSET AnyBlock]
  /\ staged \in [Thread -> SUBSET AnyBlock]
  /\ result \in [Thread -> {"none", "kOk", "kInvalidState", "kInvalidInput",
                            "kInvalidOutput", "kPoolMissing", "decode",
                            "execution", "encode", "kInternalException",
                            "control"}]
  /\ close_result \in {"none", "kOk", "kInvalidState"}

(* No block is lost and no block has two owners: while the runtime is open *)
(* each block of a pool is either in that pool's queue, once, or in one    *)
(* thread's hands, there in exactly one of the guard, the staged copy, a   *)
(* slot of the batch and what the host keeps.  It is what makes a failed   *)
(* Process, at whatever step it fails, cost the host nothing.              *)
EveryBlockHasOneOwner ==
  stage = "open" =>
    \A o \in Output :
      /\ \A b \in BlocksOf(o) :
           \/ \E i \in DOMAIN free[o] : free[o][i] = b
           \/ \E t \in Thread : b \in Leased(t)
      /\ \A i \in DOMAIN free[o] :
           /\ free[o][i] \in BlocksOf(o)
           /\ \A j \in DOMAIN free[o] : free[o][i] = free[o][j] => i = j
           /\ \A t \in Thread : free[o][i] \notin Leased(t)

(* No block is in two hands: not two threads', nor two places of one.      *)
LeasesAreDisjoint ==
  /\ \A t, u \in Thread : t # u => Leased(t) \cap Leased(u) = {}
  /\ \A t \in Thread :
       /\ kept[t] \cap Values(t) = {}
       /\ Held(t) \cap (tracked[t] \cup staged[t]) = {}
       /\ tracked[t] \cap staged[t] = {}
       /\ \A j, k \in DOMAIN values[t] :
            values[t][j] = values[t][k] /\ values[t][j] # NoBlock => j = k

(* Both together: leases are conserved through Process and its failures.   *)
LeaseConservation == EveryBlockHasOneOwner /\ LeasesAreDisjoint

(* Process delivers all or nothing: it returns kOk with a block of the     *)
(* right pool in every slot, or an error with the host's batch untouched   *)
(* and no lease left behind; and it never touches the batch before.        *)
AllOrNothing ==
  \A t \in Thread :
    pc[t] \in ProcessPhase =>
      IF pc'[t] = "idle" /\ result'[t] = "kOk"
      THEN /\ tracked'[t] = {} /\ staged'[t] = {}
           /\ DOMAIN values'[t] = DOMAIN request[t].slots
           /\ \A k \in DOMAIN values'[t] :
                values'[t][k] \in BlocksOf(request[t].slots[k].output)
      ELSE /\ values'[t] = values[t]
           /\ pc'[t] = "idle" => tracked'[t] = {} /\ staged'[t] = {}

(* Every step of every Process obeys AllOrNothing. *)
DeliversAllOrNothing == [][AllOrNothing]_vars

(* Each pool, seen from the runtime, is used as the queue of LeasePool: a  *)
(* thread's leases only grow by taking the longest free block and only     *)
(* shrink by giving one back, also through publication and rollback.       *)
Pool(o) == INSTANCE LeasePool WITH
  Block <- BlocksOf(o),
  Client <- Thread,
  free <- IF stage = "open" THEN free[o] ELSE <<>>,
  leased <- [t \in Thread |-> {b \in Leased(t) : b[1] = o}],
  status <- IF stage = "pools" THEN "new" ELSE stage

(* The refinement itself, for every pool at once. *)
UsesPoolsAsQueues ==
  /\ \A o \in Output : Pool(o)!Init
  /\ [][\A o \in Output : [Pool(o)!Next]_(Pool(o)!leasePoolVars)]_vars

(* Somebody on the host's side has an output of an earlier call.           *)
HostHoldsOutputs == \E t \in Thread : Held(t) # {}

(* A call that has the mutex returns, unless the host has outputs for      *)
(* ever: Process never waits for a block that only its own batch could     *)
(* free, because the batch limit is at most the depth and no row names an  *)
(* output twice, and a failed call leaves nothing for the next to wait for.*)
CallReturns ==
  \A t \in Thread : owner = t ~> (owner # t \/ []HostHoldsOutputs)
=============================================================================
