--------------------------- MODULE OperatorHandles ---------------------------
(***************************************************************************)
(* The operator shell's table of live handles                              *)
(* (src/adapter/operator/mock/operator_adapter.cpp, OperatorHandleManager  *)
(* and the functions of the operator table that use it).                   *)
(*                                                                         *)
(* A handle is the address of an OperatorHandle object, so an address can  *)
(* come back after its object is freed.  The table is locked for each      *)
(* lookup only: a call goes on to use the object unlocked, and the host    *)
(* promises (doc/dev_guide/operator_output_allocation.md) to wait for its  *)
(* calls before it destroys a handle and to run DeInit alone; these are    *)
(* the guards Processing, Destroying, QuietLibrary and NoDeInit.  It also  *)
(* forbids to use a consumed handle again, which this host may do.         *)
(***************************************************************************)
EXTENDS Naturals, FiniteSets

CONSTANTS
  Thread,
  Address,
  MaxOperators,  \* bound: how many operators are ever created
  Nothing

Operator == 1 .. MaxOperators

ASSUME HandlesAssumption ==
  /\ MaxOperators \in Nat
  /\ Nothing \notin Operator \cup Address
  /\ IsFiniteSet(Address)

VARIABLES
  object,          \* object[a]: the operator whose OperatorHandle is at a
  active_handles,  \* the manager's table
  created,         \* how many operators have been created
  state,           \* state[op]: its SharedAlgorithmRuntime
  held_outputs,    \* the operators the host holds an output of
  known,           \* known[a]: the operator the host last got at a
  pc,              \* pc[t]: the next step of t's call
  arg,             \* arg[t]: the handle it is called with, or creates
  means,           \* means[t]: the operator the host wants to reach
  to_destroy,      \* to_destroy[t]: what DestroyAll has taken
  call_result      \* call_result[t]: what t's Close or DestroyAll reports

tableVars == <<object, active_handles, created, state>>
hostVars == <<held_outputs, known>>
callVars == <<pc, arg, means, to_destroy, call_result>>
handlesVars == <<tableVars, hostVars, callVars>>

HandlesInit ==
  /\ object = [a \in Address |-> Nothing]
  /\ active_handles = {}
  /\ created = 0
  /\ state = [op \in Operator |-> "none"]
  /\ held_outputs = {}
  /\ known = [a \in Address |-> Nothing]
  /\ pc = [t \in Thread |-> "idle"]
  /\ arg = [t \in Thread |-> Nothing]
  /\ means = [t \in Thread |-> Nothing]
  /\ to_destroy = [t \in Thread |-> {}]
  /\ call_result = [t \in Thread |-> "none"]

GoTo(t, step) == pc' = [pc EXCEPT ![t] = step]

(* The host gets call_result[t]; nothing is kept of a finished call.       *)
Return(t) ==
  /\ GoTo(t, "idle")
  /\ arg' = [arg EXCEPT ![t] = Nothing]
  /\ means' = [means EXCEPT ![t] = Nothing]
  /\ call_result' = [call_result EXCEPT ![t] = "none"]

(* delete handle: the object's address can be allocated again. *)
Free(a) ==
  /\ object' = [object EXCEPT ![a] = Nothing]
  /\ state' = [state EXCEPT ![object[a]] = "deleted"]

Processing(a) == \E t \in Thread : pc[t] \in {"validating", "running"} /\ arg[t] = a
Destroying(a) == \E t \in Thread : pc[t] = "extracting" /\ arg[t] = a
QuietLibrary == \A t \in Thread : pc[t] = "idle"
NoDeInit == \A t \in Thread : pc[t] \notin {"swapping", "destroying"}

-----------------------------------------------------------------------------
(* Operator_Create *)

CallCreate(t) ==
  /\ pc[t] = "idle" /\ NoDeInit
  /\ GoTo(t, "allocating")
  /\ UNCHANGED <<tableVars, hostVars, arg, means, to_destroy, call_result>>

(* make_unique<OperatorHandle>: some free address.  The host does not      *)
(* retry a consumed handle while its address may come back (Processing,    *)
(* Destroying).                                                            *)
Allocate(t, a) ==
  /\ pc[t] = "allocating"
  /\ object[a] = Nothing /\ ~Processing(a) /\ ~Destroying(a)
  /\ created < MaxOperators
  /\ created' = created + 1
  /\ object' = [object EXCEPT ![a] = created + 1]
  /\ GoTo(t, "creating")
  /\ arg' = [arg EXCEPT ![t] = a]
  /\ UNCHANGED <<active_handles, state, hostVars, means, to_destroy, call_result>>

(* Invalid parameters, or no memory. *)
CreateRejected(t) ==
  /\ pc[t] = "allocating"
  /\ Return(t)
  /\ UNCHANGED <<tableVars, hostVars, to_destroy>>

CreateRuntime(t) ==
  /\ pc[t] = "creating"
  /\ state' = [state EXCEPT ![object[arg[t]]] = "open"]
  /\ GoTo(t, "registering")
  /\ UNCHANGED <<object, active_handles, created, hostVars, arg, means,
                 to_destroy, call_result>>

(* SharedAlgorithmRuntime::Create fails, or Register throws: the           *)
(* unique_ptr takes the object, and the runtime closes in its destructor.  *)
CreateFails(t) ==
  /\ pc[t] \in {"creating", "registering"}
  /\ Free(arg[t])
  /\ Return(t)
  /\ UNCHANGED <<active_handles, created, hostVars, to_destroy>>

Register(t) ==
  /\ pc[t] = "registering"
  /\ active_handles' = active_handles \cup {arg[t]}
  /\ known' = [known EXCEPT ![arg[t]] = object[arg[t]]]
  /\ Return(t)
  /\ UNCHANGED <<object, created, state, held_outputs, to_destroy>>

-----------------------------------------------------------------------------
(* Operator_Process and Operator_Control *)

(* A host calls with a handle it got, possibly one it has destroyed since. *)
CallProcess(t, a) ==
  /\ pc[t] = "idle" /\ NoDeInit
  /\ known[a] # Nothing /\ ~Destroying(a)
  /\ object[a] \in {known[a], Nothing}
  /\ GoTo(t, "validating")
  /\ arg' = [arg EXCEPT ![t] = a]
  /\ means' = [means EXCEPT ![t] = known[a]]
  /\ UNCHANGED <<tableVars, hostVars, to_destroy, call_result>>

(* Mutant: any handle that is not null is valid. *)
ValidateNothing(t) ==
  /\ pc[t] = "validating"
  /\ GoTo(t, "running")
  /\ UNCHANGED <<tableVars, hostVars, arg, means, to_destroy, call_result>>

(* IsValid looks up the table; only then is the handle used as an object. *)
Validate(t) ==
  /\ pc[t] = "validating"
  /\ IF arg[t] \in active_handles
     THEN GoTo(t, "running") /\ UNCHANGED <<arg, means, call_result>>
     ELSE Return(t)
  /\ UNCHANGED <<tableVars, hostVars, to_destroy>>

(* The call on the runtime: it may give the host an output, or fail. *)
Run(t) ==
  /\ pc[t] = "running"
  /\ \/ held_outputs' = held_outputs \cup {object[arg[t]]}
     \/ UNCHANGED held_outputs
  /\ Return(t)
  /\ UNCHANGED <<tableVars, known, to_destroy>>

DropOutputs(op) ==
  /\ op \in held_outputs
  /\ held_outputs' = held_outputs \ {op}
  /\ UNCHANGED <<tableVars, known, callVars>>

-----------------------------------------------------------------------------
(* Operator_Destroy *)

CallDestroy(t, a) ==
  /\ pc[t] = "idle" /\ NoDeInit
  /\ known[a] # Nothing /\ ~Processing(a)
  /\ object[a] \in {known[a], Nothing}
  /\ GoTo(t, "extracting")
  /\ arg' = [arg EXCEPT ![t] = a]
  /\ means' = [means EXCEPT ![t] = known[a]]
  /\ UNCHANGED <<tableVars, hostVars, to_destroy, call_result>>

(* Mutant: the handle stays in the table until it is deleted. *)
ExtractWithoutErase(t) ==
  /\ pc[t] = "extracting"
  /\ IF arg[t] \in active_handles
     THEN GoTo(t, "closing") /\ UNCHANGED <<arg, means, call_result>>
     ELSE Return(t)
  /\ UNCHANGED <<tableVars, hostVars, to_destroy>>

(* ExtractForDestroy: lookup and erasure in one critical section. *)
ExtractForDestroy(t) ==
  /\ pc[t] = "extracting"
  /\ IF arg[t] \in active_handles
     THEN /\ active_handles' = active_handles \ {arg[t]}
          /\ GoTo(t, "closing")
          /\ UNCHANGED <<arg, means, call_result>>
     ELSE UNCHANGED active_handles /\ Return(t)
  /\ UNCHANGED <<object, created, state, hostVars, to_destroy>>

(* Close reports outputs that are still out, and closes all the same. *)
CloseResult(op) == IF op \in held_outputs THEN "error" ELSE "ok"

(* Close closes the runtime whatever it reports. *)
CloseRuntime(t) ==
  /\ pc[t] = "closing"
  /\ state' = [state EXCEPT ![object[arg[t]]] = "closed"]
  /\ call_result' = [call_result EXCEPT ![t] = CloseResult(object[arg[t]])]
  /\ GoTo(t, "deleting")
  /\ UNCHANGED <<object, active_handles, created, hostVars, arg, means, to_destroy>>

Delete(t) ==
  /\ pc[t] = "deleting"
  /\ Free(arg[t])
  /\ Return(t)
  /\ UNCHANGED <<active_handles, created, hostVars, to_destroy>>

-----------------------------------------------------------------------------
(* Operator_DeInit *)

CallDeInit(t) ==
  /\ QuietLibrary
  /\ GoTo(t, "swapping")
  /\ UNCHANGED <<tableVars, hostVars, arg, means, to_destroy, call_result>>

(* DestroyAll takes the whole table in one critical section. *)
Swap(t) ==
  /\ pc[t] = "swapping"
  /\ to_destroy' = [to_destroy EXCEPT ![t] = active_handles]
  /\ active_handles' = {}
  /\ call_result' = [call_result EXCEPT ![t] = "ok"]
  /\ GoTo(t, "destroying")
  /\ UNCHANGED <<object, created, state, hostVars, arg, means>>

(* Mutant: the first error ends the loop. *)
DestroyUntilError(t, a) ==
  /\ pc[t] = "destroying"
  /\ a \in to_destroy[t]
  /\ IF CloseResult(object[a]) = "ok"
     THEN /\ to_destroy' = [to_destroy EXCEPT ![t] = @ \ {a}]
          /\ UNCHANGED call_result
     ELSE /\ to_destroy' = [to_destroy EXCEPT ![t] = {}]
          /\ call_result' = [call_result EXCEPT ![t] = "error"]
  /\ Free(a)
  /\ UNCHANGED <<active_handles, created, hostVars, pc, arg, means>>

(* Each handle taken is closed and deleted, in the order of the hash set;  *)
(* the first error is kept and does not stop the loop.                     *)
DestroyNext(t, a) ==
  /\ pc[t] = "destroying"
  /\ a \in to_destroy[t]
  /\ to_destroy' = [to_destroy EXCEPT ![t] = @ \ {a}]
  /\ call_result' = [call_result EXCEPT ![t] =
                  IF @ = "ok" THEN CloseResult(object[a]) ELSE @]
  /\ Free(a)
  /\ UNCHANGED <<active_handles, created, hostVars, pc, arg, means>>

FinishDeInit(t) ==
  /\ pc[t] = "destroying"
  /\ to_destroy[t] = {}
  /\ Return(t)
  /\ UNCHANGED <<tableVars, hostVars, to_destroy>>

-----------------------------------------------------------------------------
HostCall(t) ==
  \/ CallCreate(t)
  \/ \E a \in Address : CallProcess(t, a) \/ CallDestroy(t, a)
  \/ CallDeInit(t)

CallStep(t) ==
  \/ \E a \in Address : Allocate(t, a)
  \/ CreateRejected(t)
  \/ CreateRuntime(t)
  \/ CreateFails(t)
  \/ Register(t)
  \/ Validate(t)
  \/ Run(t)
  \/ ExtractForDestroy(t)
  \/ CloseRuntime(t)
  \/ Delete(t)
  \/ Swap(t)
  \/ \E a \in Address : DestroyNext(t, a)
  \/ FinishDeInit(t)

HandlesNext ==
  \/ \E t \in Thread : HostCall(t) \/ CallStep(t)
  \/ \E op \in Operator : DropOutputs(op)

HandlesSpec == HandlesInit /\ [][HandlesNext]_handlesVars

(* Threads inside a call are scheduled; whether a host calls, drops its    *)
(* outputs or shuts the library down is up to the host.                    *)
FairHandlesSpec == HandlesSpec /\ \A t \in Thread : WF_handlesVars(CallStep(t))
-----------------------------------------------------------------------------
(* Properties *)

(* Every variable has its type; a call that needs a handle has one. *)
TypeOK ==
  /\ object \in [Address -> Operator \cup {Nothing}]
  /\ active_handles \in SUBSET Address
  /\ created \in 0 .. MaxOperators
  /\ state \in [Operator -> {"none", "open", "closed", "deleted"}]
  /\ held_outputs \in SUBSET Operator
  /\ known \in [Address -> Operator \cup {Nothing}]
  /\ pc \in [Thread -> {"idle", "allocating", "creating", "registering",
                        "validating", "running", "extracting", "closing",
                        "deleting", "swapping", "destroying"}]
  /\ arg \in [Thread -> Address \cup {Nothing}]
  /\ \A t \in Thread :
       pc[t] \in {"creating", "registering", "validating", "running",
                  "extracting", "closing", "deleting"} => arg[t] # Nothing
  /\ means \in [Thread -> Operator \cup {Nothing}]
  /\ to_destroy \in [Thread -> SUBSET Address]
  /\ call_result \in [Thread -> {"none", "ok", "error"}]

(* An address has an owner exactly when an object is there, and never two: *)
(* the table, the Create that has not registered it, the Destroy that      *)
(* extracted it or the DeInit that took it.  So no object is leaked and    *)
(* none is deleted twice, however Create, Destroy, a second Destroy of the *)
(* same handle and DeInit follow each other, and an address in the table   *)
(* is never a freed one.                                                   *)
Owns(t) ==
  to_destroy[t] \cup
    {a \in {arg[t]} : pc[t] \in {"creating", "registering", "closing", "deleting"}}

OneOwner ==
  /\ \A a \in Address :
       object[a] # Nothing <=> a \in active_handles \/ \E t \in Thread : a \in Owns(t)
  /\ \A t \in Thread : Owns(t) \cap active_handles = {}
  /\ \A t, u \in Thread : t # u => Owns(t) \cap Owns(u) = {}

(* A call past its check runs on the operator its host means, open, and    *)
(* never on a freed object or on a later operator at the same address.     *)
CallsReachTheirOperator ==
  \A t \in Thread :
    pc[t] = "running" =>
      /\ object[arg[t]] = means[t]
      /\ state[means[t]] = "open"

(* DeInit destroys every operator, also after one of them reported an      *)
(* error.                                                                  *)
DeInitDestroysAll ==
  \A t \in Thread :
    pc[t] = "swapping" ~> pc[t] = "idle" /\ active_handles = {} /\
                          \A a \in Address : object[a] = Nothing
=============================================================================
