-------------------------- MODULE PipelineExecutor ---------------------------
(***************************************************************************)
(* Pipeline::Execute (src/core/pipeline.cpp) on its ThreadPool             *)
(* (include/core/thread_pool.h) with the request's AlgContext              *)
(* (include/core/alg_context.h).                                           *)
(*                                                                         *)
(* The caller walks the layers of the plan.  A layer of one node runs on   *)
(* the caller's thread, and so does every layer of a pipeline without      *)
(* workers; the nodes of a longer layer are submitted to the workers and   *)
(* their futures are collected in the layer's order.  Requests follow one  *)
(* another, each with a context of its own, until the pool is destroyed.   *)
(***************************************************************************)
EXTENDS Naturals, Sequences, FiniteSets

CONSTANTS
  Node,
  Layers,   \* topological_layers: a sequence of sequences of nodes
  Deps,     \* Deps[n]: the nodes whose outputs n reads
  Worker,   \* threads of the pool; none if max_parallel_workers <= 1
  Caller,   \* the thread that calls Execute
  None

Thread == Worker \cup {Caller}
NodesOf(layer) == {layer[i] : i \in DOMAIN layer}

ASSUME PlanAssumption ==
  /\ Layers \in Seq(Seq(Node) \ {<<>>})
  /\ \A n \in Node : \E l \in DOMAIN Layers : n \in NodesOf(Layers[l])
  /\ \A l, m \in DOMAIN Layers : \A i \in DOMAIN Layers[l] : \A j \in DOMAIN Layers[m] :
       Layers[l][i] = Layers[m][j] => l = m /\ i = j
  /\ \A m \in DOMAIN Layers : \A n \in NodesOf(Layers[m]) : \A d \in Deps[n] :
       \E l \in 1 .. m - 1 : d \in NodesOf(Layers[l])
  /\ IsFiniteSet(Worker)
  /\ Caller \notin Worker
  /\ Node \cap {None, "ok", "submission", "exception"} = {}
  /\ None \notin {"ok", "submission", "exception"}
  /\ None \notin [ok : BOOLEAN, message : Node \cup {None}]

VARIABLES
  \* ThreadPool
  wpc,          \* a worker: "unborn", "testing", "sleeping", "busy", "exited"
  tasks,        \* tasks_: the nodes queued
  stop,
  \* Execute
  epc,          \* where the caller is
  layer,        \* the layer being executed
  next,         \* the position in it to execute, submit or collect next
  submitted,    \* futures.size()
  first_error,  \* the node whose failure Execute will return, or "submission"
  ret,          \* how Execute ended
  \* nodes
  running,      \* the node a thread is in
  future,       \* future[n]: the result of ExecuteNodeSafely, or None
  \* AlgContext
  published,    \* nodes that published their outputs
  err,          \* err_code_ and err_msg_: who called SetError last
  thread_errors \* thread_errors_: the message a thread has pending

poolVars == <<wpc, tasks, stop>>
executeVars == <<epc, layer, next, submitted, first_error, ret>>
contextVars == <<published, err, thread_errors>>
vars == <<poolVars, executeVars, running, future, contextVars>>

Sleeping == {w \in Worker : wpc[w] = "sleeping"}
Ok(n) == future[n] # None /\ future[n].ok

Init ==
  /\ wpc = [w \in Worker |-> "unborn"]
  /\ tasks = <<>>
  /\ stop = FALSE
  /\ epc = "constructing"
  /\ layer = 1
  /\ next = 1
  /\ submitted = 0
  /\ first_error = None
  /\ ret = None
  /\ running = [t \in Thread |-> None]
  /\ future = [n \in Node |-> None]
  /\ published = {}
  /\ err = None
  /\ thread_errors = [t \in Thread |-> None]

-----------------------------------------------------------------------------
(* ThreadPool: construction, workers and destruction *)

SpawnWorker(w) ==
  /\ epc = "constructing"
  /\ wpc[w] = "unborn"
  /\ wpc' = [wpc EXCEPT ![w] = "testing"]
  /\ UNCHANGED <<tasks, stop, executeVars, running, future, contextVars>>

FinishConstruction ==
  /\ epc = "constructing"
  /\ \A w \in Worker : wpc[w] # "unborn"
  /\ epc' = "ready"
  /\ UNCHANGED <<poolVars, layer, next, submitted, first_error, ret, running,
                 future, contextVars>>

NotifyAll ==
  wpc' = [w \in Worker |-> IF wpc[w] = "sleeping" THEN "testing" ELSE wpc[w]]

NotifyOne ==
  IF Sleeping = {}
  THEN UNCHANGED wpc
  ELSE \E w \in Sleeping : wpc' = [wpc EXCEPT ![w] = "testing"]

(* Mutant: stopping wakes one worker. *)
StopOne ==
  /\ stop' = TRUE
  /\ NotifyOne
  /\ epc' = "joining"
  /\ UNCHANGED <<tasks, layer, next, submitted, first_error, ret, running,
                 future, contextVars>>

(* StopAndJoin up to the joins. *)
Stop ==
  /\ stop' = TRUE
  /\ NotifyAll
  /\ epc' = "joining"
  /\ UNCHANGED <<tasks, layer, next, submitted, first_error, ret, running,
                 future, contextVars>>

(* A thread cannot be started: those that were are stopped. *)
SpawnFails ==
  /\ epc = "constructing"
  /\ \E w \in Worker : wpc[w] = "unborn"
  /\ Stop

Destroy ==
  /\ epc = "ready"
  /\ Stop

Join ==
  /\ epc = "joining"
  /\ \A w \in Worker : wpc[w] \in {"unborn", "exited"}
  /\ epc' = "gone"
  /\ UNCHANGED <<poolVars, layer, next, submitted, first_error, ret, running,
                 future, contextVars>>

(* A thread enters ExecuteNodeSafely: what it has pending is thrown away.  *)
StartNode(t, n) ==
  /\ running' = [running EXCEPT ![t] = n]
  /\ thread_errors' = [thread_errors EXCEPT ![t] = None]

TakeTask(w) ==
  /\ wpc[w] = "testing"
  /\ tasks # <<>>
  /\ StartNode(w, Head(tasks))
  /\ tasks' = Tail(tasks)
  /\ wpc' = [wpc EXCEPT ![w] = "busy"]
  /\ UNCHANGED <<stop, executeVars, future, published, err>>

Sleep(w) ==
  /\ wpc[w] = "testing"
  /\ tasks = <<>>
  /\ ~stop
  /\ wpc' = [wpc EXCEPT ![w] = "sleeping"]
  /\ UNCHANGED <<tasks, stop, executeVars, running, future, contextVars>>

SpuriousWake(w) ==
  /\ wpc[w] = "sleeping"
  /\ wpc' = [wpc EXCEPT ![w] = "testing"]
  /\ UNCHANGED <<tasks, stop, executeVars, running, future, contextVars>>

Exit(w) ==
  /\ wpc[w] = "testing"
  /\ tasks = <<>>
  /\ stop
  /\ wpc' = [wpc EXCEPT ![w] = "exited"]
  /\ UNCHANGED <<tasks, stop, executeVars, running, future, contextVars>>

-----------------------------------------------------------------------------
(* A node on thread t.  Its Process publishes its outputs, notes an error  *)
(* in the context or does neither, and returns or throws.                  *)

Publish(t) ==
  /\ running[t] # None
  /\ running[t] \notin published
  /\ published' = published \cup {running[t]}
  /\ UNCHANGED <<poolVars, executeVars, running, future, err, thread_errors>>

SetError(t) ==
  /\ running[t] # None
  /\ thread_errors[t] = None
  /\ err' = running[t]
  /\ thread_errors' = [thread_errors EXCEPT ![t] = running[t]]
  /\ UNCHANGED <<poolVars, executeVars, running, future, published>>

(* What ExecuteNodeSafely may return: success, once the node has published *)
(* its outputs; failure with the message the node left in this thread, if  *)
(* it left one; or failure by an exception.                                *)
Results(t) ==
  {[ok |-> FALSE, message |-> thread_errors[t]], [ok |-> FALSE, message |-> None]}
    \cup (IF running[t] \in published THEN {[ok |-> TRUE, message |-> None]} ELSE {})

FinishNode(t) ==
  /\ running[t] # None
  /\ \E result \in Results(t) : future' = [future EXCEPT ![running[t]] = result]
  /\ running' = [running EXCEPT ![t] = None]
  /\ thread_errors' = [thread_errors EXCEPT ![t] = None]
  /\ wpc' = [w \in Worker |-> IF w = t THEN "testing" ELSE wpc[w]]
  /\ UNCHANGED <<tasks, stop, executeVars, published, err>>

-----------------------------------------------------------------------------
(* Execute *)

(* A request with a new context. *)
BeginRequest ==
  /\ epc = "ready"
  /\ epc' = "layer"
  /\ layer' = 1
  /\ ret' = None
  /\ future' = [n \in Node |-> None]
  /\ published' = {}
  /\ err' = None
  /\ thread_errors' = [t \in Thread |-> None]
  /\ UNCHANGED <<poolVars, next, submitted, first_error, running>>

BeginLayer ==
  /\ epc = "layer"
  /\ layer <= Len(Layers)
  /\ epc' = IF Len(Layers[layer]) = 1 \/ Worker = {} THEN "sequential"
            ELSE "submitting"
  /\ next' = 1
  /\ submitted' = 0
  /\ first_error' = None
  /\ UNCHANGED <<poolVars, layer, ret, running, future, contextVars>>

(* Execute sets the final error and returns it. *)
ReturnError(who) ==
  /\ epc' = "returned"
  /\ ret' = who
  /\ err' = who
  /\ UNCHANGED <<published, thread_errors>>

ReturnOk ==
  /\ epc = "layer"
  /\ layer > Len(Layers)
  /\ epc' = "returned"
  /\ ret' = "ok"
  /\ UNCHANGED <<poolVars, layer, next, submitted, first_error, running, future,
                 contextVars>>

RunOnCaller ==
  /\ epc = "sequential"
  /\ next <= Len(Layers[layer])
  /\ running[Caller] = None
  /\ future[Layers[layer][next]] = None
  /\ StartNode(Caller, Layers[layer][next])
  /\ UNCHANGED <<poolVars, executeVars, future, published, err>>

(* The node has returned on the caller's thread. *)
AfterNode ==
  LET n == Layers[layer][next] IN
  /\ epc = "sequential"
  /\ next <= Len(Layers[layer])
  /\ future[n] # None
  /\ IF Ok(n)
     THEN /\ next' = next + 1
          /\ UNCHANGED <<epc, ret, contextVars>>
     ELSE /\ ReturnError(n)
          /\ UNCHANGED next
  /\ UNCHANGED <<poolVars, layer, submitted, first_error, running, future>>

EndSequentialLayer ==
  /\ epc = "sequential"
  /\ next > Len(Layers[layer])
  /\ epc' = "layer"
  /\ layer' = layer + 1
  /\ UNCHANGED <<poolVars, next, submitted, first_error, ret, running, future,
                 contextVars>>

(* Submit queues the task under the queue's mutex and notifies after it.   *)
Submit ==
  /\ epc = "submitting"
  /\ next <= Len(Layers[layer])
  /\ tasks' = Append(tasks, Layers[layer][next])
  /\ epc' = "notifying"
  /\ UNCHANGED <<wpc, stop, layer, next, submitted, first_error, ret, running,
                 future, contextVars>>

(* Mutant: Submit does not notify. *)
NoNotify ==
  /\ epc = "notifying"
  /\ epc' = "submitting"
  /\ next' = next + 1
  /\ submitted' = submitted + 1
  /\ UNCHANGED <<wpc, tasks, stop, layer, first_error, ret, running, future,
                 contextVars>>

Notify ==
  /\ epc = "notifying"
  /\ NotifyOne
  /\ epc' = "submitting"
  /\ next' = next + 1
  /\ submitted' = submitted + 1
  /\ UNCHANGED <<tasks, stop, layer, first_error, ret, running, future, contextVars>>

(* A task cannot be queued: the rest of the layer is not submitted. *)
SubmitFails ==
  /\ epc = "submitting"
  /\ next <= Len(Layers[layer])
  /\ first_error' = "submission"
  /\ epc' = "collecting"
  /\ next' = 1
  /\ UNCHANGED <<poolVars, layer, submitted, ret, running, future, contextVars>>

(* Mutant: Execute goes on without collecting the futures. *)
SkipCollecting ==
  /\ epc = "submitting"
  /\ next > Len(Layers[layer])
  /\ epc' = "layer"
  /\ layer' = layer + 1
  /\ UNCHANGED <<poolVars, next, submitted, first_error, ret, running, future,
                 contextVars>>

AllSubmitted ==
  /\ epc = "submitting"
  /\ next > Len(Layers[layer])
  /\ epc' = "collecting"
  /\ next' = 1
  /\ UNCHANGED <<poolVars, layer, submitted, first_error, ret, running, future,
                 contextVars>>

(* Mutant: a node that fails later in the layer replaces an earlier one. *)
CollectLast ==
  LET n == Layers[layer][next] IN
  /\ epc = "collecting"
  /\ next <= submitted
  /\ future[n] # None
  /\ first_error' = IF ~Ok(n) THEN n ELSE first_error
  /\ next' = next + 1
  /\ UNCHANGED <<poolVars, epc, layer, submitted, ret, running, future, contextVars>>

(* futures[next].get(): a node's failure precedes a failed submission, and *)
(* an earlier node's failure precedes a later one's.                       *)
Collect ==
  LET n == Layers[layer][next] IN
  /\ epc = "collecting"
  /\ next <= submitted
  /\ future[n] # None
  /\ first_error' = IF ~Ok(n) /\ first_error \in {None, "submission"}
                    THEN n ELSE first_error
  /\ next' = next + 1
  /\ UNCHANGED <<poolVars, epc, layer, submitted, ret, running, future, contextVars>>

(* The layer is over. *)
EndParallelLayer ==
  /\ epc = "collecting"
  /\ next > submitted
  /\ IF first_error = None
     THEN /\ epc' = "layer"
          /\ layer' = layer + 1
          /\ UNCHANGED <<ret, contextVars>>
     ELSE /\ ReturnError(first_error)
          /\ UNCHANGED layer
  /\ UNCHANGED <<poolVars, next, submitted, first_error, running, future>>

(* Building a diagnostic throws while tasks may still run. *)
Throw ==
  /\ epc \in {"submitting", "collecting"}
  /\ epc' = "unwinding"
  /\ UNCHANGED <<poolVars, layer, next, submitted, first_error, ret, running,
                 future, contextVars>>

(* So does noting the error of a failed node in a sequential layer, where  *)
(* no other task runs: the exception leaves Execute at once.               *)
ThrowInSequence ==
  LET n == Layers[layer][next] IN
  /\ epc = "sequential"
  /\ next <= Len(Layers[layer])
  /\ future[n] # None
  /\ ~Ok(n)
  /\ epc' = "returned"
  /\ ret' = "exception"
  /\ UNCHANGED <<poolVars, layer, next, submitted, first_error, running, future,
                 contextVars>>

(* Mutant: the exception leaves Execute at once. *)
UnwindAtOnce ==
  /\ epc = "unwinding"
  /\ epc' = "returned"
  /\ ret' = "exception"
  /\ UNCHANGED <<poolVars, layer, next, submitted, first_error, running, future,
                 contextVars>>

(* The guard waits for every task submitted; the exception goes on. *)
Unwind ==
  /\ epc = "unwinding"
  /\ \A i \in 1 .. submitted : future[Layers[layer][i]] # None
  /\ epc' = "returned"
  /\ ret' = "exception"
  /\ UNCHANGED <<poolVars, layer, next, submitted, first_error, running, future,
                 contextVars>>

(* The caller has taken the result; the context is gone. *)
EndRequest ==
  /\ epc = "returned"
  /\ epc' = "ready"
  /\ UNCHANGED <<poolVars, layer, next, submitted, first_error, ret, running,
                 future, contextVars>>

-----------------------------------------------------------------------------
WorkerStep(w) == TakeTask(w) \/ Sleep(w) \/ Exit(w)

CallerStep ==
  \/ BeginLayer
  \/ ReturnOk
  \/ RunOnCaller
  \/ AfterNode
  \/ EndSequentialLayer
  \/ Submit
  \/ Notify
  \/ SubmitFails
  \/ AllSubmitted
  \/ Collect
  \/ EndParallelLayer
  \/ Unwind
  \/ Join

Next ==
  \/ CallerStep
  \/ FinishConstruction
  \/ SpawnFails
  \/ BeginRequest
  \/ Throw
  \/ ThrowInSequence
  \/ EndRequest
  \/ Destroy
  \/ \E w \in Worker : SpawnWorker(w) \/ WorkerStep(w) \/ SpuriousWake(w)
  \/ \E t \in Thread : Publish(t) \/ SetError(t) \/ FinishNode(t)

Spec == Init /\ [][Next]_vars

(* The caller and the workers are scheduled, and a node's Process returns. *)
FairSpec ==
  /\ Spec
  /\ WF_vars(CallerStep)
  /\ \A w \in Worker : WF_vars(WorkerStep(w))
  /\ \A t \in Thread : WF_vars(FinishNode(t))
-----------------------------------------------------------------------------
(* Properties *)

(* Every variable has its type: workers, queue, futures and context of one *)
(* request stay inside the plan, and layer ends one past its last.         *)
TypeOK ==
  /\ wpc \in [Worker -> {"unborn", "testing", "sleeping", "busy", "exited"}]
  /\ tasks \in Seq(Node)
  /\ stop \in BOOLEAN
  /\ epc \in {"constructing", "ready", "layer", "sequential", "submitting",
              "notifying", "collecting", "unwinding", "returned", "joining",
              "gone"}
  /\ layer \in 1 .. Len(Layers) + 1
  /\ next \in Nat
  /\ submitted \in Nat
  /\ first_error \in Node \cup {None, "submission"}
  /\ ret \in Node \cup {None, "ok", "submission", "exception"}
  /\ running \in [Thread -> Node \cup {None}]
  /\ future \in [Node -> [ok : BOOLEAN, message : Node \cup {None}] \cup {None}]
  /\ published \in SUBSET Node
  /\ err \in Node \cup {None, "submission"}
  /\ thread_errors \in [Thread -> Node \cup {None}]

(* No task outlives the call that submitted it, however Execute ends: when *)
(* the caller is free to destroy its context nothing is queued or running. *)
NoTaskOutlivesRequest ==
  epc \in {"ready", "returned", "joining", "gone"} =>
    tasks = <<>> /\ \A t \in Thread : running[t] = None

(* The error does not depend on how the workers interleave: Execute fails  *)
(* with the first failed node in the order of the plan, the context says   *)
(* the same, and whatever comes before that node has succeeded; nor is a   *)
(* node's message ever one that another node left in the shared context.   *)
ErrorIsDeterministic ==
  epc = "returned" =>
    /\ ret \in Node => err = ret
    /\ \A l \in DOMAIN Layers : \A i \in DOMAIN Layers[l] :
         ret = Layers[l][i] =>
           /\ ~Ok(ret)
           /\ \A m \in 1 .. l - 1 : \A n \in NodesOf(Layers[m]) : Ok(n)
           /\ \A j \in 1 .. i - 1 : Ok(Layers[l][j])
    /\ ret = "ok" => \A n \in Node : Ok(n)
    /\ \A n \in Node : future[n] # None => future[n].message \in {n, None}

NodeState(n) ==
  IF future[n] # None THEN IF future[n].ok THEN "ok" ELSE "failed"
  ELSE IF \E t \in Thread : running[t] = n THEN "running" ELSE "pending"

Dag == INSTANCE DagExecution WITH
  state <- [n \in Node |-> NodeState(n)],
  verdict <- IF ret = None THEN "open" ELSE IF ret = "ok" THEN "ok" ELSE "failed"

(* Layers, queue, workers and futures execute the graph as DagExecution    *)
(* says: a node starts when those it depends on have succeeded, not when   *)
(* they have merely been started or submitted, and at most once.           *)
ImplementsDag == Dag!Spec

(* Execute returns: no task waits beside a sleeping worker for ever, and   *)
(* the caller never waits for a task that nobody will run.                 *)
ExecuteReturns == epc = "layer" ~> epc = "returned"

(* Destruction, also after a failed construction, joins every worker. *)
PoolStops == stop ~> epc = "gone"
=============================================================================
