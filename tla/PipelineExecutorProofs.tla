----------------------- MODULE PipelineExecutorProofs ------------------------
(***************************************************************************)
(* Machine-checked proofs about PipelineExecutor, for every plan, any      *)
(* number of workers and any number of requests.                           *)
(***************************************************************************)
EXTENDS PipelineExecutor, SequenceTheorems, TLAPS

-----------------------------------------------------------------------------
(* The plan, with positions in place of layers as sets *)

PlanLayer == 1 .. Len(Layers)
Positions(l) == 1 .. Len(Layers[l])

PlanFacts ==
  /\ Len(Layers) \in Nat /\ DOMAIN Layers = PlanLayer
  /\ \A l \in PlanLayer :
       /\ Len(Layers[l]) \in Nat \ {0} /\ DOMAIN Layers[l] = Positions(l)
       /\ \A i \in Positions(l) : Layers[l][i] \in Node
  /\ \A n \in Node : \E l \in PlanLayer : \E i \in Positions(l) : Layers[l][i] = n
  /\ \A l, m \in PlanLayer : \A i \in Positions(l) : \A j \in Positions(m) :
       Layers[l][i] = Layers[m][j] => l = m /\ i = j
  /\ \A m \in PlanLayer : \A i \in Positions(m) : \A d \in Deps[Layers[m][i]] :
       \E l \in 1 .. m - 1 : \E j \in Positions(l) : Layers[l][j] = d
  /\ Caller \notin Worker
  /\ Node \cap {None, "ok", "submission", "exception"} = {}
  /\ None \notin {"ok", "submission", "exception"}

LEMMA PlanIsLayered == PlanFacts
<1>1. Len(Layers) \in Nat /\ DOMAIN Layers = PlanLayer
  BY PlanAssumption, LenProperties DEF PlanLayer
<1>2. \A l \in PlanLayer : Layers[l] \in Seq(Node) /\ Layers[l] # <<>>
  BY <1>1, PlanAssumption, ElementOfSeq DEF PlanLayer
<1>3. ASSUME NEW l \in PlanLayer
      PROVE  /\ Len(Layers[l]) \in Nat \ {0}
             /\ DOMAIN Layers[l] = Positions(l)
             /\ \A i \in Positions(l) : Layers[l][i] \in Node
  BY <1>2, LenProperties, EmptySeq, ElementOfSeq DEF Positions
<1>4. \A l \in PlanLayer : NodesOf(Layers[l]) = {Layers[l][i] : i \in Positions(l)}
  BY <1>3 DEF NodesOf
<1>5. \A n \in Node : \E l \in PlanLayer : \E i \in Positions(l) : Layers[l][i] = n
  BY <1>1, <1>4, PlanAssumption
<1>6. \A l, m \in PlanLayer : \A i \in Positions(l) : \A j \in Positions(m) :
        Layers[l][i] = Layers[m][j] => l = m /\ i = j
  BY <1>1, <1>3, PlanAssumption
<1>7. ASSUME NEW m \in PlanLayer, NEW i \in Positions(m), NEW d \in Deps[Layers[m][i]]
      PROVE  \E l \in 1 .. m - 1 : \E j \in Positions(l) : Layers[l][j] = d
  <2>1. Layers[m][i] \in NodesOf(Layers[m])
    BY <1>4
  <2>2. PICK l \in 1 .. m - 1 : d \in NodesOf(Layers[l])
    BY <1>1, <2>1, PlanAssumption
  <2>3. l \in PlanLayer
    BY <1>1, <2>2 DEF PlanLayer
  <2> QED BY <1>4, <2>2, <2>3
<1> QED BY <1>1, <1>3, <1>5, <1>6, <1>7, PlanAssumption DEF PlanFacts

-----------------------------------------------------------------------------
(* The inductive invariant *)

InParallel == {"submitting", "notifying", "collecting", "unwinding"}
Executing == {"layer", "sequential"} \cup InParallel

(* The tasks of the layer that were queued, and their nodes.               *)
Sent == IF epc = "notifying" THEN submitted + 1 ELSE submitted
SentNodes == {Layers[layer][i] : i \in 1 .. Sent}

(* Outside a parallel layer the pool is idle, and the caller runs at most  *)
(* the next node of a sequential layer.                                    *)
PoolIsQuiet ==
  /\ epc \notin InParallel => tasks = <<>> /\ \A w \in Worker : running[w] = None
  /\ running[Caller] # None =>
       /\ epc = "sequential"
       /\ next <= Len(Layers[layer])
       /\ running[Caller] = Layers[layer][next]

(* A task is queued once or run by one thread, and it has no result yet.   *)
TasksAreDistinct ==
  /\ \A i, j \in DOMAIN tasks : tasks[i] = tasks[j] => i = j
  /\ \A i \in DOMAIN tasks : tasks[i] \in SentNodes /\ future[tasks[i]] = None
  /\ \A i \in DOMAIN tasks : \A t \in Thread : running[t] # tasks[i]
  /\ \A w \in Worker : running[w] # None => running[w] \in SentNodes
  /\ \A t \in Thread : running[t] # None => future[running[t]] = None
  /\ \A t, u \in Thread : running[t] # None /\ running[t] = running[u] => t = u

(* A message is the node's whose thread notes it.                          *)
MessagesAreOwn ==
  /\ \A t \in Thread : running[t] # None => thread_errors[t] \in {running[t], None}
  /\ \A n \in Node : future[n] # None => future[n].message \in {n, None}

(* Layers before the current one have succeeded, later ones not begun.     *)
LayersInOrder ==
  epc \in Executing =>
    /\ ret = None
    /\ \A l \in PlanLayer : \A i \in Positions(l) :
         /\ l < layer => Ok(Layers[l][i])
         /\ l > layer => future[Layers[l][i]] = None
    /\ epc = "layer" /\ layer \in PlanLayer =>
         \A i \in Positions(layer) : future[Layers[layer][i]] = None
    /\ epc # "layer" => layer \in PlanLayer

(* So is it with the nodes of a sequential layer.                          *)
SequentialInOrder ==
  epc = "sequential" =>
    /\ next \in 1 .. Len(Layers[layer]) + 1
    /\ \A i \in Positions(layer) :
         /\ i < next => Ok(Layers[layer][i])
         /\ i > next => future[Layers[layer][i]] = None

(* In a parallel layer, what was not queued has no result, and the first   *)
(* error is that of the first node collected that failed.                  *)
CollectsInOrder ==
  epc \in InParallel =>
    /\ Sent <= Len(Layers[layer])
    /\ \A i \in Positions(layer) : i > Sent => future[Layers[layer][i]] = None
    /\ epc \in {"submitting", "notifying"} => next = submitted + 1 /\ first_error = None
    /\ epc = "collecting" =>
         /\ next \in 1 .. submitted + 1
         /\ \A i \in 1 .. next - 1 : future[Layers[layer][i]] # None
         /\ first_error = None => submitted = Len(Layers[layer])
         /\ first_error \in {None, "submission"} =>
              \A i \in 1 .. next - 1 : Ok(Layers[layer][i])
         /\ first_error \notin {None, "submission"} =>
              \E i \in 1 .. next - 1 :
                /\ first_error = Layers[layer][i]
                /\ ~Ok(first_error)
                /\ \A j \in 1 .. i - 1 : Ok(Layers[layer][j])

(* What a request that has ended leaves behind.                            *)
EndIsTrue ==
  /\ epc = "returned" => ret # None /\ ErrorIsDeterministic
  /\ epc \notin Executing /\ ret = None => \A n \in Node : future[n] = None

IInv ==
  /\ TypeOK
  /\ PoolIsQuiet
  /\ TasksAreDistinct
  /\ MessagesAreOwn
  /\ LayersInOrder
  /\ SequentialInOrder
  /\ CollectsInOrder
  /\ EndIsTrue

-----------------------------------------------------------------------------
(* Lemmas *)

(* A node that a thread is in belongs to the current layer: it is the next *)
(* one of a sequential layer, or one that was queued.                      *)
LEMMA RunningIsInLayer ==
  ASSUME IInv, NEW t \in Thread, running[t] # None
  PROVE  /\ epc \in {"sequential"} \cup InParallel
         /\ layer \in PlanLayer
         /\ future[running[t]] = None
         /\ \E i \in Positions(layer) :
              /\ running[t] = Layers[layer][i]
              /\ epc = "sequential" => i = next
              /\ epc \in InParallel => i <= Sent
<1>1. epc \in {"sequential"} \cup InParallel
  BY DEF IInv, PoolIsQuiet, Thread
<1>2. layer \in PlanLayer
  BY <1>1 DEF IInv, LayersInOrder, Executing, InParallel
<1>3. future[running[t]] = None
  BY DEF IInv, TasksAreDistinct
<1>4. CASE epc = "sequential"
  <2>1. t = Caller /\ next <= Len(Layers[layer]) /\ running[t] = Layers[layer][next]
    BY <1>4 DEF IInv, PoolIsQuiet, Thread, InParallel
  <2>2. next \in Positions(layer)
    BY <1>2, <1>4, <2>1, PlanIsLayered DEF IInv, SequentialInOrder, PlanFacts, Positions
  <2> QED BY <1>1, <1>2, <1>3, <1>4, <2>1, <2>2 DEF InParallel
<1>5. CASE epc \in InParallel
  <2>1. running[t] \in SentNodes
    BY <1>5 DEF IInv, PoolIsQuiet, TasksAreDistinct, Thread, InParallel
  <2>2. Sent <= Len(Layers[layer]) /\ Sent \in Nat
    BY <1>5 DEF IInv, TypeOK, CollectsInOrder, Sent
  <2>3. \A i \in 1 .. Sent : i \in Positions(layer) /\ i <= Sent
    BY <1>2, <2>2, PlanIsLayered DEF PlanFacts, Positions
  <2> QED BY <1>1, <1>2, <1>3, <1>5, <2>1, <2>3 DEF SentNodes, InParallel
<1> QED BY <1>1, <1>4, <1>5

(* When every task has its result, the pool is idle. *)
LEMMA AllCollected ==
  ASSUME IInv, epc \in {"collecting", "unwinding"},
         \A i \in 1 .. submitted : future[Layers[layer][i]] # None
  PROVE  tasks = <<>> /\ \A t \in Thread : running[t] = None
<1>1. \A n \in SentNodes : future[n] # None
  BY DEF SentNodes, Sent
<1>2. DOMAIN tasks = {}
  BY <1>1 DEF IInv, TasksAreDistinct
<1>3. tasks = <<>>
  BY <1>2 DEF IInv, TypeOK
<1>4. \A w \in Worker : running[w] = None
  BY <1>1 DEF IInv, TasksAreDistinct, Thread
<1>5. running[Caller] = None
  BY DEF IInv, PoolIsQuiet
<1> QED BY <1>3, <1>4, <1>5 DEF Thread

(* The next node to run, to queue or to collect is in the plan. *)
LEMMA NextIsNode ==
  ASSUME IInv,
         \/ epc \in {"sequential", "submitting"} /\ next <= Len(Layers[layer])
         \/ epc = "collecting" /\ next <= submitted
  PROVE  /\ layer \in PlanLayer
         /\ next \in Positions(layer)
         /\ Layers[layer][next] \in Node
<1>1. layer \in PlanLayer
  BY DEF IInv, LayersInOrder, Executing, InParallel
<1>2. Len(Layers[layer]) \in Nat /\ submitted \in Nat
  BY <1>1, PlanIsLayered DEF IInv, TypeOK, PlanFacts
<1>3. next \in Nat /\ next >= 1
  BY <1>2 DEF IInv, TypeOK, SequentialInOrder, CollectsInOrder, InParallel
<1>4. next <= Len(Layers[layer])
  BY <1>2, <1>3 DEF IInv, CollectsInOrder, InParallel, Sent
<1>5. next \in Positions(layer)
  BY <1>2, <1>3, <1>4 DEF Positions
<1> QED BY <1>1, <1>5, PlanIsLayered DEF PlanFacts

(* A layer whose nodes have succeeded gives way to the next one.           *)
LEMMA LayerGivesWay ==
  ASSUME IInv, epc \in Executing \ {"layer"},
         \A i \in Positions(layer) : Ok(Layers[layer][i]),
         epc' = "layer", layer' = layer + 1, UNCHANGED <<ret, future>>
  PROVE  LayersInOrder'
<1>1. /\ ret = None /\ layer \in PlanLayer
      /\ \A l \in PlanLayer : \A i \in Positions(l) :
           /\ l < layer => Ok(Layers[l][i])
           /\ l > layer => future[Layers[l][i]] = None
  BY DEF IInv, LayersInOrder, Executing
<1>2. ASSUME NEW l \in PlanLayer, NEW i \in Positions(l), l < layer'
      PROVE  Ok(Layers[l][i])'
  <2>1. l < layer => Ok(Layers[l][i])
    BY <1>1
  <2>2. l = layer => Ok(Layers[l][i])
    OBVIOUS
  <2>3. l < layer \/ l = layer
    BY <1>1, <1>2 DEF PlanLayer
  <2> QED BY <2>1, <2>2, <2>3 DEF Ok
<1>3. ASSUME NEW l \in PlanLayer, NEW i \in Positions(l), l = layer' \/ l > layer'
      PROVE  future'[Layers[l][i]] = None
  <2>1. l > layer => future[Layers[l][i]] = None
    BY <1>1
  <2>2. l > layer
    BY <1>1, <1>3 DEF PlanLayer
  <2> QED BY <2>1, <2>2
<1>4. ret' = None /\ epc' = "layer"
  BY <1>1
<1> QED BY <1>2, <1>3, <1>4 DEF LayersInOrder

(* Execute that returns the first failure it meets is right about it.      *)
LEMMA FailureIsFirst ==
  ASSUME IInv, epc \in Executing, layer \in PlanLayer, NEW i \in Positions(layer),
         ~Ok(Layers[layer][i]),
         \A j \in 1 .. i - 1 : Ok(Layers[layer][j]),
         ret' = Layers[layer][i], err' = ret', future' = future
  PROVE  ErrorIsDeterministic'
<1>1. ret' \in Node /\ ret' # "ok"
  BY PlanIsLayered DEF PlanFacts
<1>2. ASSUME NEW l \in PlanLayer, NEW k \in Positions(l), ret' = Layers[l][k]
      PROVE  l = layer /\ k = i
  <2>1. \A m \in PlanLayer : \A j \in Positions(m) :
          Layers[l][k] = Layers[m][j] => l = m /\ k = j
    BY PlanIsLayered DEF PlanFacts
  <2> QED BY <1>2, <2>1
<1>3. ASSUME NEW m \in 1 .. layer - 1, NEW n \in NodesOf(Layers[m])
      PROVE  Ok(n)
  <2>1. m \in PlanLayer /\ m < layer
    BY PlanIsLayered DEF PlanFacts, PlanLayer
  <2>2. \E j \in Positions(m) : n = Layers[m][j]
    BY <2>1, PlanIsLayered DEF PlanFacts, NodesOf
  <2> QED BY <2>1, <2>2 DEF IInv, LayersInOrder
<1>4. \A n \in Node : future[n] # None => future[n].message \in {n, None}
  BY DEF IInv, MessagesAreOwn
<1>5. \A n : Ok(n)' = Ok(n)
  BY DEF Ok
<1>6. DOMAIN Layers = PlanLayer /\ \A l \in PlanLayer : DOMAIN Layers[l] = Positions(l)
  BY PlanIsLayered DEF PlanFacts
<1>7. ASSUME NEW l \in PlanLayer, NEW k \in Positions(l), ret' = Layers[l][k]
      PROVE  /\ ~Ok(ret)'
             /\ \A m \in 1 .. l - 1 : \A n \in NodesOf(Layers[m]) : Ok(n)'
             /\ \A j \in 1 .. k - 1 : Ok(Layers[l][j])'
  <2>1. l = layer /\ k = i
    BY <1>2, <1>7
  <2>2. ~Ok(ret)'
    BY DEF Ok
  <2> QED BY <1>3, <1>5, <2>1, <2>2
<1> QED BY <1>1, <1>4, <1>6, <1>7 DEF ErrorIsDeterministic

(* An end that blames no node says nothing of any.                         *)
LEMMA EndWithoutBlame ==
  ASSUME IInv, ret' \in {"submission", "exception"}, future' = future
  PROVE  ErrorIsDeterministic'
<1>1. ret' \notin Node /\ ret' # "ok"
  BY PlanIsLayered DEF PlanFacts
<1>2. \A n \in Node : future[n] # None => future[n].message \in {n, None}
  BY DEF IInv, MessagesAreOwn
<1>3. \A l \in DOMAIN Layers : \A i \in DOMAIN Layers[l] : ret' # Layers[l][i]
  BY <1>1, PlanIsLayered DEF PlanFacts
<1> QED BY <1>1, <1>2, <1>3 DEF ErrorIsDeterministic

-----------------------------------------------------------------------------
(* Each step keeps the invariant: first the pool's own *)

LEMMA SpawnWorkerKeeps ==
  ASSUME IInv, NEW w \in Worker, SpawnWorker(w)
  PROVE  IInv'
BY DEF Thread, NodesOf, executeVars, contextVars, Ok, SpawnWorker, TypeOK,
   ErrorIsDeterministic, InParallel, Executing, Sent, SentNodes, PoolIsQuiet,
   TasksAreDistinct, MessagesAreOwn, LayersInOrder, SequentialInOrder,
   CollectsInOrder, EndIsTrue, IInv

LEMMA FinishConstructionKeeps ==
  ASSUME IInv, FinishConstruction
  PROVE  IInv'
BY DEF Thread, NodesOf, poolVars, contextVars, Ok, FinishConstruction,
   TypeOK, ErrorIsDeterministic, InParallel, Executing, Sent, SentNodes,
   PoolIsQuiet, TasksAreDistinct, MessagesAreOwn, LayersInOrder,
   SequentialInOrder, CollectsInOrder, EndIsTrue, IInv

LEMMA SpawnFailsKeeps ==
  ASSUME IInv, SpawnFails
  PROVE  IInv'
BY DEF Thread, NodesOf, contextVars, Ok, NotifyAll, Stop, SpawnFails, TypeOK,
   ErrorIsDeterministic, InParallel, Executing, Sent, SentNodes, PoolIsQuiet,
   TasksAreDistinct, MessagesAreOwn, LayersInOrder, SequentialInOrder,
   CollectsInOrder, EndIsTrue, IInv

LEMMA DestroyKeeps ==
  ASSUME IInv, Destroy
  PROVE  IInv'
BY DEF Thread, NodesOf, contextVars, Ok, NotifyAll, Stop, Destroy, TypeOK,
   ErrorIsDeterministic, InParallel, Executing, Sent, SentNodes, PoolIsQuiet,
   TasksAreDistinct, MessagesAreOwn, LayersInOrder, SequentialInOrder,
   CollectsInOrder, EndIsTrue, IInv

LEMMA JoinKeeps ==
  ASSUME IInv, Join
  PROVE  IInv'
BY DEF Thread, NodesOf, poolVars, contextVars, Ok, Join, TypeOK,
   ErrorIsDeterministic, InParallel, Executing, Sent, SentNodes, PoolIsQuiet,
   TasksAreDistinct, MessagesAreOwn, LayersInOrder, SequentialInOrder,
   CollectsInOrder, EndIsTrue, IInv

(* The worker is the only one to have the task it takes from the queue.    *)
LEMMA TakeTaskKeeps ==
  ASSUME IInv, NEW w \in Worker, TakeTask(w)
  PROVE  IInv'
<1>1. TypeOK' /\ LayersInOrder' /\ SequentialInOrder' /\ CollectsInOrder' /\ EndIsTrue'
  <2>1. TypeOK'
    BY DEF Thread, NodesOf, executeVars, StartNode, TakeTask, TypeOK, IInv
  <2>2. LayersInOrder' /\ SequentialInOrder'
    BY DEF Thread, NodesOf, executeVars, Ok, StartNode, TakeTask, TypeOK,
       InParallel, Executing, Sent, LayersInOrder, SequentialInOrder, IInv
  <2>3. CollectsInOrder' /\ EndIsTrue'
    BY DEF Thread, NodesOf, executeVars, Ok, StartNode, TakeTask, TypeOK,
       ErrorIsDeterministic, InParallel, Executing, Sent, CollectsInOrder, EndIsTrue, IInv
  <2> QED BY <2>1, <2>2, <2>3
<1>2. PoolIsQuiet'
  BY PlanIsLayered DEF executeVars, StartNode, TakeTask, PlanLayer,
     Positions, PlanFacts, InParallel, PoolIsQuiet, IInv
<1>3. TasksAreDistinct'
  <2> DEFINE n == Head(tasks)
  <2>1. n = tasks[1] /\ 1 \in DOMAIN tasks /\ n \in Node
    BY DEF IInv, TypeOK, TakeTask
  <2>2. \A i \in DOMAIN tasks' : i + 1 \in DOMAIN tasks /\ i + 1 # 1 /\ tasks'[i] = tasks[i + 1]
    BY DEF IInv, TypeOK, TakeTask
  <2>3. \A i, j \in DOMAIN tasks' : i + 1 = j + 1 => i = j
    BY DEF IInv, TypeOK, TakeTask
  <2>4. \A i \in DOMAIN tasks' : tasks'[i] # n
    BY <2>1, <2>2 DEF IInv, TasksAreDistinct
  <2>5. \A t \in Thread : running'[t] = IF t = w THEN n ELSE running[t]
    BY DEF IInv, TypeOK, TakeTask, StartNode
  <2>6. \A t \in Thread : running[t] # n
    BY <2>1 DEF IInv, TasksAreDistinct
  <2>7. SentNodes' = SentNodes /\ n \in SentNodes /\ future' = future /\ future[n] = None
    BY <2>1 DEF IInv, TasksAreDistinct, TakeTask, executeVars, SentNodes, Sent
  <2>8. \A i, j \in DOMAIN tasks' : tasks'[i] = tasks'[j] => i = j
    BY <2>2, <2>3 DEF IInv, TasksAreDistinct
  <2>9. \A i \in DOMAIN tasks' :
          /\ tasks'[i] \in SentNodes /\ future[tasks'[i]] = None
          /\ \A t \in Thread : running[t] # tasks'[i]
    BY <2>2 DEF IInv, TasksAreDistinct
  <2>10. \A u \in Worker : running[u] # None => running[u] \in SentNodes
    BY DEF IInv, TasksAreDistinct
  <2>11. \A t \in Thread : running[t] # None => future[running[t]] = None
    BY DEF IInv, TasksAreDistinct
  <2>12. \A t, u \in Thread : running[t] # None /\ running[t] = running[u] => t = u
    BY DEF IInv, TasksAreDistinct
  <2> HIDE DEF n
  <2> QED BY <2>4, <2>5, <2>6, <2>7, <2>8, <2>9, <2>10, <2>11, <2>12
  DEF TasksAreDistinct, Thread
<1>4. MessagesAreOwn'
  BY DEF Thread, executeVars, StartNode, TakeTask, TypeOK, MessagesAreOwn,
     IInv
<1> QED BY <1>1, <1>2, <1>3, <1>4 DEF IInv

LEMMA SleepKeeps ==
  ASSUME IInv, NEW w \in Worker, Sleep(w)
  PROVE  IInv'
BY DEF Thread, NodesOf, executeVars, contextVars, Ok, Sleep, TypeOK,
   ErrorIsDeterministic, InParallel, Executing, Sent, SentNodes, PoolIsQuiet,
   TasksAreDistinct, MessagesAreOwn, LayersInOrder, SequentialInOrder,
   CollectsInOrder, EndIsTrue, IInv

LEMMA SpuriousWakeKeeps ==
  ASSUME IInv, NEW w \in Worker, SpuriousWake(w)
  PROVE  IInv'
BY DEF Thread, NodesOf, executeVars, contextVars, Ok, SpuriousWake, TypeOK,
   ErrorIsDeterministic, InParallel, Executing, Sent, SentNodes, PoolIsQuiet,
   TasksAreDistinct, MessagesAreOwn, LayersInOrder, SequentialInOrder,
   CollectsInOrder, EndIsTrue, IInv

LEMMA ExitKeeps ==
  ASSUME IInv, NEW w \in Worker, Exit(w)
  PROVE  IInv'
BY DEF Thread, NodesOf, executeVars, contextVars, Ok, Exit, TypeOK,
   ErrorIsDeterministic, InParallel, Executing, Sent, SentNodes, PoolIsQuiet,
   TasksAreDistinct, MessagesAreOwn, LayersInOrder, SequentialInOrder,
   CollectsInOrder, EndIsTrue, IInv

-----------------------------------------------------------------------------
(* Each step keeps the invariant: the nodes *)

LEMMA PublishKeeps ==
  ASSUME IInv, NEW t \in Thread, Publish(t)
  PROVE  IInv'
BY DEF Thread, NodesOf, poolVars, executeVars, Ok, Publish, TypeOK,
   ErrorIsDeterministic, InParallel, Executing, Sent, SentNodes, PoolIsQuiet,
   TasksAreDistinct, MessagesAreOwn, LayersInOrder, SequentialInOrder,
   CollectsInOrder, EndIsTrue, IInv

LEMMA SetErrorKeeps ==
  ASSUME IInv, NEW t \in Thread, SetError(t)
  PROVE  IInv'
<1>1. TypeOK' /\ PoolIsQuiet' /\ TasksAreDistinct' /\ MessagesAreOwn'
     /\ LayersInOrder' /\ SequentialInOrder' /\ CollectsInOrder'
  BY DEF Thread, poolVars, executeVars, Ok, SetError, TypeOK, InParallel,
     Executing, Sent, SentNodes, PoolIsQuiet, TasksAreDistinct,
     MessagesAreOwn, LayersInOrder, SequentialInOrder, CollectsInOrder, IInv
<1>2. EndIsTrue'
  <2>1. epc # "returned" /\ epc' = epc /\ ret' = ret /\ future' = future
    BY RunningIsInLayer DEF SetError, executeVars, InParallel
  <2> QED BY <2>1 DEF IInv, EndIsTrue
<1> QED BY <1>1, <1>2 DEF IInv

(* A result is new only for the node that ends, which is of the current    *)
(* layer; so nothing said of other layers or of other tasks changes.       *)
LEMMA FinishNodeKeeps ==
  ASSUME IInv, NEW t \in Thread, FinishNode(t)
  PROVE  IInv'
<1>1. PoolIsQuiet' /\ MessagesAreOwn'
  BY DEF Thread, executeVars, Results, FinishNode, InParallel, PoolIsQuiet,
     MessagesAreOwn, IInv
<1>2. TypeOK'
  <2>1. running[t] \in Node /\ thread_errors[t] \in Node \cup {None}
    BY DEF IInv, TypeOK, FinishNode
  <2>2. PICK result \in Results(t) : future' = [future EXCEPT ![running[t]] = result]
    BY DEF FinishNode
  <2>3. result \in [ok : BOOLEAN, message : Node \cup {None}]
    <3>1. \/ result = [ok |-> FALSE, message |-> thread_errors[t]]
          \/ result = [ok |-> FALSE, message |-> None]
          \/ result = [ok |-> TRUE, message |-> None]
      BY <2>2 DEF Results
    <3>2. [ok |-> FALSE, message |-> thread_errors[t]] \in
             [ok : BOOLEAN, message : Node \cup {None}]
      BY <2>1
    <3>3. \A b \in BOOLEAN : [ok |-> b, message |-> None] \in
             [ok : BOOLEAN, message : Node \cup {None}]
      OBVIOUS
    <3> QED BY <3>1, <3>2, <3>3, Zenon
  <2>4. future' \in [Node -> [ok : BOOLEAN, message : Node \cup {None}] \cup {None}]
    BY <2>2, <2>3 DEF IInv, TypeOK
  <2> QED BY <2>4 DEF IInv, TypeOK, FinishNode, executeVars
<1>3. TasksAreDistinct'
  <2> DEFINE n == running[t]
  <2>1. \A m \in Node \ {n} : future'[m] = future[m]
    BY DEF IInv, TypeOK, FinishNode
  <2>2. \A u \in Thread : running'[u] = IF u = t THEN None ELSE running[u]
    BY DEF IInv, TypeOK, FinishNode
  <2>3. \A u \in Thread \ {t} : running[u] # None => running[u] \in Node \ {n}
    BY DEF IInv, TypeOK, TasksAreDistinct, FinishNode
  <2>4. \A i \in DOMAIN tasks : tasks[i] \in Node \ {n}
    BY DEF IInv, TypeOK, TasksAreDistinct
  <2>5. tasks' = tasks /\ SentNodes' = SentNodes
    BY DEF FinishNode, executeVars, SentNodes, Sent
  <2> HIDE DEF n
  <2>6. \A i \in DOMAIN tasks :
          /\ tasks[i] \in SentNodes /\ future'[tasks[i]] = None
          /\ \A u \in Thread : running'[u] # tasks[i]
    BY <2>1, <2>2, <2>4, PlanIsLayered DEF IInv, TasksAreDistinct, PlanFacts
  <2>7. \A u \in Thread : running'[u] # None => future'[running'[u]] = None
    BY <2>1, <2>2, <2>3 DEF IInv, TasksAreDistinct
  <2>8. \A u, x \in Thread : running'[u] # None /\ running'[u] = running'[x] => u = x
    BY <2>2 DEF IInv, TasksAreDistinct
  <2>9. \A w \in Worker : running'[w] # None => running'[w] \in SentNodes
    BY <2>2 DEF IInv, TasksAreDistinct, Thread
  <2>10. \A i, j \in DOMAIN tasks : tasks[i] = tasks[j] => i = j
    BY DEF IInv, TasksAreDistinct
  <2> QED BY <2>5, <2>6, <2>7, <2>8, <2>9, <2>10 DEF TasksAreDistinct
<1>4. LayersInOrder'
  <2>1. PICK i \in Positions(layer) :
          /\ running[t] = Layers[layer][i]
          /\ epc = "sequential" => i = next
          /\ epc \in InParallel => i <= Sent
    BY RunningIsInLayer DEF FinishNode
  <2>2. layer \in PlanLayer /\ \A l \in PlanLayer \ {layer} : \A j \in Positions(l) :
          Layers[l][j] # running[t] /\ Layers[l][j] \in Node
    BY <2>1, RunningIsInLayer, PlanIsLayered DEF PlanFacts, FinishNode
  <2>3. \A n \in Node \ {running[t]} : future'[n] = future[n]
    BY DEF IInv, TypeOK, FinishNode
  <2>4. epc # "layer" /\ UNCHANGED <<epc, ret, layer>>
    BY RunningIsInLayer DEF FinishNode, executeVars, InParallel
  <2>5. \A l \in PlanLayer \ {layer} : \A j \in Positions(l) :
          future'[Layers[l][j]] = future[Layers[l][j]]
    BY <2>2, <2>3
  <2>6. layer \in Int /\ \A l \in PlanLayer : l < layer \/ l > layer => l \in PlanLayer \ {layer}
    BY DEF IInv, TypeOK, PlanLayer
  <2> QED BY <2>4, <2>5, <2>6 DEF IInv, LayersInOrder, Ok
<1>5. SequentialInOrder'
  <2>1. PICK i \in Positions(layer) :
          /\ running[t] = Layers[layer][i]
          /\ epc = "sequential" => i = next
          /\ epc \in InParallel => i <= Sent
    BY RunningIsInLayer DEF FinishNode
  <2>2. \A j \in Positions(layer) \ {i} : Layers[layer][j] \in Node \ {running[t]}
    BY <2>1, RunningIsInLayer, PlanIsLayered DEF PlanFacts, FinishNode
  <2>3. \A n \in Node \ {running[t]} : future'[n] = future[n]
    BY DEF IInv, TypeOK, FinishNode
  <2>4. \A j \in Positions(layer) \ {i} : future'[Layers[layer][j]] = future[Layers[layer][j]]
    BY <2>2, <2>3
  <2>5. i \in Int /\ next \in Int /\ UNCHANGED <<epc, layer, next>>
    BY DEF IInv, TypeOK, FinishNode, executeVars, Positions
  <2> QED BY <2>1, <2>4, <2>5 DEF IInv, SequentialInOrder, Ok, Positions
<1>6. CollectsInOrder'
  <2>1. PICK i \in Positions(layer) :
          /\ running[t] = Layers[layer][i]
          /\ epc = "sequential" => i = next
          /\ epc \in InParallel => i <= Sent
    BY RunningIsInLayer DEF FinishNode
  <2>2. \A j \in Positions(layer) \ {i} : Layers[layer][j] \in Node \ {running[t]}
    BY <2>1, RunningIsInLayer, PlanIsLayered DEF PlanFacts, FinishNode
  <2>3. \A n \in Node \ {running[t]} : future'[n] = future[n]
    BY DEF IInv, TypeOK, FinishNode
  <2>4. \A j \in Positions(layer) \ {i} : future'[Layers[layer][j]] = future[Layers[layer][j]]
    BY <2>2, <2>3
  <2>5. UNCHANGED <<epc, layer, next, submitted, first_error>> /\ Sent' = Sent
    BY DEF FinishNode, executeVars, Sent
  <2>6. SUFFICES ASSUME epc \in InParallel PROVE CollectsInOrder'
    BY <2>5 DEF CollectsInOrder
  <2>7. \A j \in Positions(layer) : j > Sent => future'[Layers[layer][j]] = None
    <3>1. i <= Sent /\ i \in Int /\ Sent \in Int
      BY <2>1, <2>6 DEF IInv, TypeOK, Sent, Positions
    <3>2. \A j \in Positions(layer) : j > Sent => j # i
      BY <3>1 DEF Positions
    <3> QED BY <2>4, <2>6, <3>2 DEF IInv, CollectsInOrder
  <2>8. CASE epc # "collecting"
    BY <2>5, <2>6, <2>7, <2>8 DEF IInv, CollectsInOrder
  <2>9. CASE epc = "collecting"
    <3>1. \A j \in 1 .. next - 1 : j \in Positions(layer) \ {i}
      <4>1. \A j \in 1 .. next - 1 : j \in Positions(layer)
        BY <2>9, RunningIsInLayer, PlanIsLayered
        DEF IInv, TypeOK, FinishNode, CollectsInOrder, InParallel, Sent, PlanFacts, Positions
      <4>2. \A j \in 1 .. next - 1 : future[Layers[layer][j]] # None
        BY <2>6, <2>9 DEF IInv, CollectsInOrder
      <4>3. future[Layers[layer][i]] = None
        BY <2>1, RunningIsInLayer DEF FinishNode
      <4> QED BY <4>1, <4>2, <4>3
    <3>2. \A j \in 1 .. next - 1 : /\ future'[Layers[layer][j]] = future[Layers[layer][j]]
                                  /\ Ok(Layers[layer][j])' = Ok(Layers[layer][j])
      BY <2>4, <2>5, <3>1 DEF Ok
    <3>3. next \in Int
      BY DEF IInv, TypeOK
    <3>4. \A j \in 1 .. next - 1 : \A k \in 1 .. j - 1 : k \in 1 .. next - 1
      BY <3>3
    <3>5. \A j \in 1 .. next - 1 : first_error = Layers[layer][j] =>
            Ok(first_error)' = Ok(first_error)
      BY <2>5, <3>2
    <3> QED BY <2>5, <2>6, <2>7, <2>9, <3>2, <3>4, <3>5 DEF IInv, CollectsInOrder
  <2> QED BY <2>8, <2>9
<1>7. EndIsTrue'
  <2>1. epc \in Executing /\ epc # "returned" /\ UNCHANGED epc
    BY RunningIsInLayer DEF FinishNode, executeVars, Executing, InParallel
  <2> QED BY <2>1 DEF EndIsTrue, Executing, InParallel
<1> QED BY <1>1, <1>2, <1>3, <1>4, <1>5, <1>6, <1>7 DEF IInv

-----------------------------------------------------------------------------
(* Each step keeps the invariant: Execute *)

LEMMA BeginRequestKeeps ==
  ASSUME IInv, BeginRequest
  PROVE  IInv'
<1>1. TypeOK' /\ PoolIsQuiet' /\ TasksAreDistinct' /\ MessagesAreOwn'
     /\ SequentialInOrder' /\ CollectsInOrder' /\ EndIsTrue'
  BY DEF Thread, NodesOf, poolVars, Ok, BeginRequest, TypeOK,
     ErrorIsDeterministic, InParallel, Executing, Sent, SentNodes,
     PoolIsQuiet, TasksAreDistinct, MessagesAreOwn, SequentialInOrder,
     CollectsInOrder, EndIsTrue, IInv
<1>2. LayersInOrder'
  BY PlanIsLayered DEF Thread, poolVars, Ok, BeginRequest, PlanLayer,
     Positions, PlanFacts, InParallel, Executing, LayersInOrder, IInv
<1> QED BY <1>1, <1>2 DEF IInv

LEMMA BeginLayerKeeps ==
  ASSUME IInv, BeginLayer
  PROVE  IInv'
<1>1. TypeOK' /\ PoolIsQuiet' /\ TasksAreDistinct' /\ MessagesAreOwn' /\ EndIsTrue'
  BY DEF Thread, NodesOf, poolVars, contextVars, Ok, BeginLayer, TypeOK,
     ErrorIsDeterministic, InParallel, Executing, Sent, SentNodes,
     PoolIsQuiet, TasksAreDistinct, MessagesAreOwn, EndIsTrue, IInv
<1>2. LayersInOrder'
  <2>1. epc = "layer" /\ epc' \in {"sequential", "submitting"} /\ UNCHANGED <<layer, ret, future>>
    BY DEF BeginLayer
  <2>2. layer \in PlanLayer
    BY PlanIsLayered DEF IInv, TypeOK, BeginLayer, PlanFacts, PlanLayer
  <2> QED BY <2>1, <2>2 DEF IInv, LayersInOrder, Executing, Ok
<1>3. SequentialInOrder'
  BY DEF poolVars, contextVars, Ok, BeginLayer, TypeOK, PlanLayer, Positions,
     InParallel, Executing, LayersInOrder, SequentialInOrder, IInv
<1>4. CollectsInOrder'
  BY DEF poolVars, contextVars, Ok, BeginLayer, TypeOK, PlanLayer, Positions,
     InParallel, Executing, Sent, LayersInOrder, CollectsInOrder, IInv
<1> QED BY <1>1, <1>2, <1>3, <1>4 DEF IInv

(* Past the last layer every node has succeeded. *)
LEMMA ReturnOkKeeps ==
  ASSUME IInv, ReturnOk
  PROVE  IInv'
<1>1. TypeOK' /\ PoolIsQuiet' /\ TasksAreDistinct' /\ MessagesAreOwn'
     /\ LayersInOrder' /\ SequentialInOrder' /\ CollectsInOrder'
  BY DEF Thread, poolVars, contextVars, Ok, ReturnOk, TypeOK, InParallel,
     Executing, Sent, SentNodes, PoolIsQuiet, TasksAreDistinct,
     MessagesAreOwn, LayersInOrder, SequentialInOrder, CollectsInOrder, IInv
<1>2. EndIsTrue'
  <2>1. \A n \in Node : Ok(n)
    BY PlanIsLayered
    DEF IInv, TypeOK, LayersInOrder, Executing, ReturnOk, PlanFacts, PlanLayer
  <2>2. ret' = "ok" /\ epc' = "returned" /\ future' = future
    BY DEF ReturnOk
  <2>3. ret' \notin Node /\ ret' # None
    BY <2>2, PlanIsLayered DEF PlanFacts
  <2>4. \A l \in DOMAIN Layers : \A i \in DOMAIN Layers[l] : ret' # Layers[l][i]
    BY <2>3, PlanIsLayered DEF PlanFacts
  <2> QED BY <2>1, <2>2, <2>3, <2>4
  DEF IInv, MessagesAreOwn, EndIsTrue, ErrorIsDeterministic, Ok
<1> QED BY <1>1, <1>2 DEF IInv

LEMMA RunOnCallerKeeps ==
  ASSUME IInv, RunOnCaller
  PROVE  IInv'
<1>1. LayersInOrder' /\ SequentialInOrder' /\ CollectsInOrder' /\ EndIsTrue'
  BY DEF NodesOf, poolVars, executeVars, Ok, StartNode, RunOnCaller,
     ErrorIsDeterministic, InParallel, Executing, Sent, LayersInOrder,
     SequentialInOrder, CollectsInOrder, EndIsTrue, IInv
<1>2. TypeOK'
  <2>1. Layers[layer][next] \in Node
    BY NextIsNode DEF RunOnCaller
  <2> QED BY <2>1 DEF IInv, TypeOK, RunOnCaller, StartNode, poolVars, executeVars
<1>3. PoolIsQuiet'
  BY PlanIsLayered DEF poolVars, executeVars, StartNode, RunOnCaller,
     PlanLayer, Positions, PlanFacts, InParallel, PoolIsQuiet, IInv
<1>4. TasksAreDistinct'
  BY PlanIsLayered DEF Thread, poolVars, executeVars, StartNode, RunOnCaller,
     PlanLayer, Positions, PlanFacts, InParallel, Sent, SentNodes,
     PoolIsQuiet, TasksAreDistinct, IInv
<1>5. MessagesAreOwn'
  BY DEF Thread, poolVars, executeVars, StartNode, RunOnCaller, TypeOK,
     MessagesAreOwn, IInv
<1> QED BY <1>1, <1>2, <1>3, <1>4, <1>5 DEF IInv

(* The first failure of a sequential layer ends the request. *)
LEMMA AfterNodeKeeps ==
  ASSUME IInv, AfterNode
  PROVE  IInv'
<1>1. PoolIsQuiet' /\ TasksAreDistinct' /\ MessagesAreOwn' /\ LayersInOrder'
     /\ CollectsInOrder'
  BY DEF Thread, poolVars, contextVars, Ok, ReturnError, AfterNode,
     InParallel, Executing, Sent, SentNodes, PoolIsQuiet, TasksAreDistinct,
     MessagesAreOwn, LayersInOrder, CollectsInOrder, IInv
<1>2. TypeOK'
  <2>1. Layers[layer][next] \in Node
    BY NextIsNode DEF AfterNode
  <2> QED BY <2>1 DEF IInv, TypeOK, AfterNode, ReturnError, poolVars, contextVars
<1>3. SequentialInOrder'
  <2>1. layer \in PlanLayer /\ next \in Positions(layer)
    BY NextIsNode DEF AfterNode
  <2>2. Len(Layers[layer]) \in Nat
    BY <2>1, PlanIsLayered DEF PlanFacts
  <2>3. CASE Ok(Layers[layer][next])
    <3>1. next' = next + 1 /\ UNCHANGED <<epc, layer, future>>
      BY <2>3 DEF AfterNode
    <3> QED BY <2>1, <2>2, <2>3, <3>1 DEF IInv, SequentialInOrder, AfterNode, Ok, Positions
  <2>4. CASE ~Ok(Layers[layer][next])
    BY <2>4 DEF AfterNode, ReturnError, SequentialInOrder
  <2> QED BY <2>3, <2>4
<1>4. EndIsTrue'
  <2>1. layer \in PlanLayer /\ epc \in Executing
    BY DEF IInv, LayersInOrder, AfterNode, Executing
  <2>2. next \in Positions(layer) /\ \A i \in 1 .. next - 1 : Ok(Layers[layer][i])
    BY <2>1, PlanIsLayered, SMTT(30) DEF IInv, SequentialInOrder, AfterNode, PlanFacts, Positions
  <2>3. CASE Ok(Layers[layer][next])
    BY <2>3 DEF AfterNode, EndIsTrue, Executing
  <2>4. CASE ~Ok(Layers[layer][next])
    <3>1. /\ epc' = "returned" /\ ret' = Layers[layer][next]
          /\ err' = ret' /\ future' = future
      BY <2>4 DEF AfterNode, ReturnError
    <3>2. ErrorIsDeterministic'
      BY <2>1, <2>2, <2>4, <3>1, FailureIsFirst
    <3>3. ret' # None
      BY <2>1, <2>2, <3>1, PlanIsLayered DEF PlanFacts
    <3> QED BY <3>1, <3>2, <3>3 DEF EndIsTrue
  <2> QED BY <2>3, <2>4
<1> QED BY <1>1, <1>2, <1>3, <1>4 DEF IInv

LEMMA EndSequentialLayerKeeps ==
  ASSUME IInv, EndSequentialLayer
  PROVE  IInv'
<1>1. TasksAreDistinct' /\ MessagesAreOwn' /\ SequentialInOrder' /\ CollectsInOrder'
     /\ EndIsTrue'
  BY DEF Thread, NodesOf, poolVars, contextVars, Ok, EndSequentialLayer,
     ErrorIsDeterministic, InParallel, Executing, Sent, SentNodes,
     PoolIsQuiet, TasksAreDistinct, MessagesAreOwn, SequentialInOrder,
     CollectsInOrder, EndIsTrue, IInv
<1>2. TypeOK'
  BY DEF Thread, poolVars, contextVars, Ok, EndSequentialLayer, TypeOK,
     PlanLayer, Positions, InParallel, Executing, LayersInOrder, IInv
<1>3. PoolIsQuiet'
  BY DEF poolVars, contextVars, EndSequentialLayer, TypeOK, InParallel,
     PoolIsQuiet, IInv
<1>4. LayersInOrder'
  <2>1. layer \in PlanLayer /\ epc \in Executing \ {"layer"}
    BY DEF IInv, LayersInOrder, EndSequentialLayer, Executing
  <2>2. \A i \in Positions(layer) : Ok(Layers[layer][i])
    BY <2>1, PlanIsLayered
    DEF IInv, TypeOK, SequentialInOrder, EndSequentialLayer, PlanFacts, Positions
  <2> QED BY <2>1, <2>2, LayerGivesWay DEF EndSequentialLayer
<1> QED BY <1>1, <1>2, <1>3, <1>4 DEF IInv

(* The node queued was not queued before: its position is beyond those of  *)
(* the nodes sent, and the plan has it once.                               *)
LEMMA SubmitKeeps ==
  ASSUME IInv, Submit
  PROVE  IInv'
<1>1. PoolIsQuiet' /\ MessagesAreOwn' /\ LayersInOrder' /\ SequentialInOrder'
     /\ EndIsTrue'
  BY DEF Thread, NodesOf, contextVars, Ok, Submit, ErrorIsDeterministic,
     InParallel, Executing, PoolIsQuiet, MessagesAreOwn, LayersInOrder,
     SequentialInOrder, EndIsTrue, IInv
<1>2. TypeOK'
  <2>1. Layers[layer][next] \in Node
    BY NextIsNode DEF Submit
  <2>2. tasks' \in Seq(Node)
    BY <2>1, AppendProperties DEF IInv, TypeOK, Submit
  <2> QED BY <2>2 DEF IInv, TypeOK, Submit, contextVars
<1>3. TasksAreDistinct'
  <2> DEFINE n == Layers[layer][next]
  <2>1. /\ layer \in PlanLayer /\ next = submitted + 1 /\ next \in Positions(layer)
        /\ submitted \in Nat
    BY PlanIsLayered
    DEF IInv, TypeOK, LayersInOrder, CollectsInOrder, InParallel, Executing, Submit, PlanFacts,
        Positions
  <2>2. \A i \in 1 .. submitted : i \in Positions(layer) /\ i # next
    BY <2>1, PlanIsLayered DEF PlanFacts, Positions
  <2>3. SentNodes = {Layers[layer][i] : i \in 1 .. submitted} /\ n \notin SentNodes
    BY <2>1, <2>2, PlanIsLayered DEF SentNodes, Sent, Submit, PlanFacts
  <2>4. SentNodes' = SentNodes \cup {n}
    <3>1. 1 .. submitted + 1 = (1 .. submitted) \cup {next}
      BY <2>1
    <3>2. SentNodes' = {Layers[layer][i] : i \in 1 .. submitted + 1}
      BY DEF SentNodes, Sent, Submit
    <3> QED BY <2>3, <3>1, <3>2
  <2>5. future[n] = None /\ n # None
    BY <2>1, PlanIsLayered
    DEF IInv, CollectsInOrder, InParallel, Sent, Submit, PlanFacts, Positions
  <2>6. /\ DOMAIN tasks = 1 .. Len(tasks) /\ Len(tasks) \in Nat
        /\ DOMAIN tasks' = 1 .. Len(tasks) + 1
        /\ \A i \in DOMAIN tasks' : tasks'[i] = IF i = Len(tasks) + 1 THEN n ELSE tasks[i]
        /\ \A i \in DOMAIN tasks' : i # Len(tasks) + 1 => i \in DOMAIN tasks
    <3>1. tasks \in Seq(Node) /\ n \in Node
      BY <2>1, PlanIsLayered DEF IInv, TypeOK, PlanFacts
    <3> HIDE DEF n
    <3>2. tasks' = Append(tasks, n)
      BY DEF Submit, n
    <3> QED BY <3>1, <3>2, AppendProperties, LenProperties
  <2>7. \A t \in Thread : running[t] # n
    <3>1. \A w \in Worker : running[w] # n
      BY <2>3, <2>5 DEF IInv, TasksAreDistinct
    <3>2. running[Caller] = None
      BY DEF IInv, PoolIsQuiet, Submit
    <3> QED BY <2>5, <3>1, <3>2 DEF Thread
  <2>8. \A i \in DOMAIN tasks : tasks[i] # n
    BY <2>3 DEF IInv, TasksAreDistinct
  <2>9. UNCHANGED <<running, future>>
    BY DEF Submit
  <2> HIDE DEF n
  <2>10. \A i, j \in DOMAIN tasks' : tasks'[i] = tasks'[j] => i = j
    BY <2>6, <2>8 DEF IInv, TasksAreDistinct
  <2>11. \A i \in DOMAIN tasks' :
           /\ tasks'[i] \in SentNodes' /\ future[tasks'[i]] = None
           /\ \A t \in Thread : running[t] # tasks'[i]
    BY <2>4, <2>5, <2>6, <2>7 DEF IInv, TasksAreDistinct
  <2> QED BY <2>4, <2>9, <2>10, <2>11 DEF IInv, TasksAreDistinct
<1>4. CollectsInOrder'
  BY DEF contextVars, Ok, Submit, TypeOK, PlanLayer, Positions, InParallel,
     Sent, CollectsInOrder, IInv
<1> QED BY <1>1, <1>2, <1>3, <1>4 DEF IInv

LEMMA NotifyKeeps ==
  ASSUME IInv, Notify
  PROVE  IInv'
<1>1. TypeOK'
  <2>1. wpc' \in [Worker -> {"unborn", "testing", "sleeping", "busy", "exited"}]
    BY DEF Sleeping, NotifyOne, Notify, TypeOK, IInv
  <2> QED BY <2>1 DEF contextVars, Notify, TypeOK, IInv
<1>2. PoolIsQuiet' /\ TasksAreDistinct' /\ MessagesAreOwn' /\ LayersInOrder' /\ SequentialInOrder'
  BY DEF Thread, contextVars, Ok, Notify, InParallel, Executing, Sent, SentNodes,
     PoolIsQuiet, TasksAreDistinct, MessagesAreOwn, LayersInOrder, SequentialInOrder, IInv
<1>3. CollectsInOrder' /\ EndIsTrue'
  BY DEF contextVars, Ok, Notify, InParallel, Executing, Sent, CollectsInOrder, EndIsTrue, IInv
<1> QED BY <1>1, <1>2, <1>3 DEF IInv

LEMMA SubmitFailsKeeps ==
  ASSUME IInv, SubmitFails
  PROVE  IInv'
<1>1. TypeOK' /\ PoolIsQuiet' /\ TasksAreDistinct' /\ MessagesAreOwn'
     /\ LayersInOrder' /\ SequentialInOrder' /\ EndIsTrue'
  BY DEF Thread, NodesOf, poolVars, contextVars, Ok, SubmitFails, TypeOK,
     ErrorIsDeterministic, InParallel, Executing, Sent, SentNodes,
     PoolIsQuiet, TasksAreDistinct, MessagesAreOwn, LayersInOrder,
     SequentialInOrder, EndIsTrue, IInv
<1>2. CollectsInOrder'
  <2>1. /\ epc = "submitting" /\ epc' = "collecting" /\ next' = 1
        /\ first_error' = "submission" /\ UNCHANGED <<layer, submitted, future>>
    BY DEF SubmitFails
  <2>2. submitted \in Nat /\ submitted <= Len(Layers[layer])
    BY <2>1 DEF IInv, TypeOK, CollectsInOrder, InParallel, Sent
  <2>3. \A i \in Positions(layer) : i > submitted => future[Layers[layer][i]] = None
    BY <2>1 DEF IInv, CollectsInOrder, InParallel, Sent
  <2>4. first_error' \in {None, "submission"} /\ first_error' # None /\ next' - 1 = 0
    BY <2>1, PlanIsLayered DEF PlanFacts
  <2> QED BY <2>1, <2>2, <2>3, <2>4 DEF CollectsInOrder, InParallel, Sent
<1> QED BY <1>1, <1>2 DEF IInv

LEMMA AllSubmittedKeeps ==
  ASSUME IInv, AllSubmitted
  PROVE  IInv'
<1>1. TypeOK' /\ PoolIsQuiet' /\ TasksAreDistinct' /\ MessagesAreOwn'
     /\ LayersInOrder' /\ SequentialInOrder' /\ EndIsTrue'
  BY DEF Thread, NodesOf, poolVars, contextVars, Ok, AllSubmitted, TypeOK,
     ErrorIsDeterministic, InParallel, Executing, Sent, SentNodes,
     PoolIsQuiet, TasksAreDistinct, MessagesAreOwn, LayersInOrder,
     SequentialInOrder, EndIsTrue, IInv
<1>2. CollectsInOrder'
  BY DEF poolVars, contextVars, Ok, AllSubmitted, TypeOK, InParallel, Sent,
     CollectsInOrder, IInv
<1> QED BY <1>1, <1>2 DEF IInv

(* The first failure met in the layer's order stays. *)
LEMMA CollectKeeps ==
  ASSUME IInv, Collect
  PROVE  IInv'
<1>1. PoolIsQuiet' /\ TasksAreDistinct' /\ MessagesAreOwn' /\ LayersInOrder'
     /\ SequentialInOrder' /\ EndIsTrue'
  BY DEF Thread, NodesOf, poolVars, contextVars, Ok, Collect,
     ErrorIsDeterministic, InParallel, Executing, Sent, SentNodes,
     PoolIsQuiet, TasksAreDistinct, MessagesAreOwn, LayersInOrder,
     SequentialInOrder, EndIsTrue, IInv
<1>2. TypeOK'
  <2>1. Layers[layer][next] \in Node
    BY NextIsNode DEF Collect
  <2> QED BY <2>1 DEF IInv, TypeOK, Collect, poolVars, contextVars
<1>3. CollectsInOrder'
  <2> DEFINE n == Layers[layer][next]
  <2>1. /\ layer \in PlanLayer /\ submitted \in Nat /\ next \in 1 .. submitted
        /\ next \in Positions(layer) /\ epc = "collecting" /\ Sent = submitted
        /\ UNCHANGED <<epc, layer, submitted, future>> /\ next' = next + 1
        /\ Sent' = Sent /\ future[n] # None
    BY PlanIsLayered
    DEF IInv, TypeOK, LayersInOrder, CollectsInOrder, InParallel, Executing, Collect, Sent,
        PlanFacts, Positions
  <2>2. n \in Node /\ n \notin {None, "submission"} /\ \A m : Ok(m)' = Ok(m)
    BY <2>1, PlanIsLayered DEF PlanFacts, Ok
  <2>3. /\ 1 .. next' - 1 = (1 .. next - 1) \cup {next}
        /\ \A i \in 1 .. next - 1 : i \in 1 .. next' - 1
        /\ next \in 1 .. next' - 1
        /\ next' \in 1 .. submitted + 1
    BY <2>1
  <2>4. /\ Sent <= Len(Layers[layer])
        /\ \A i \in Positions(layer) : i > Sent => future[Layers[layer][i]] = None
        /\ \A i \in 1 .. next - 1 : future[Layers[layer][i]] # None
        /\ first_error = None => submitted = Len(Layers[layer])
        /\ first_error \in {None, "submission"} =>
             \A i \in 1 .. next - 1 : Ok(Layers[layer][i])
        /\ first_error \notin {None, "submission"} =>
             \E i \in 1 .. next - 1 :
               /\ first_error = Layers[layer][i]
               /\ ~Ok(first_error)
               /\ \A j \in 1 .. i - 1 : Ok(Layers[layer][j])
    BY <2>1 DEF IInv, CollectsInOrder, InParallel
  <2>5. CASE ~Ok(n) /\ first_error \in {None, "submission"}
    <3>1. first_error' = n
      BY <2>5 DEF Collect
    <3> QED BY <2>1, <2>2, <2>3, <2>4, <2>5, <3>1 DEF CollectsInOrder
  <2>6. CASE ~(~Ok(n) /\ first_error \in {None, "submission"})
    <3>1. first_error' = first_error
      BY <2>6 DEF Collect
    <3> HIDE DEF n
    <3>2. first_error \in {None, "submission"} => Ok(n)
      BY <2>6
    <3> QED BY <2>1, <2>2, <2>3, <2>4, <3>1, <3>2 DEF CollectsInOrder, n
  <2> QED BY <2>5, <2>6
<1> QED BY <1>1, <1>2, <1>3 DEF IInv

(* A parallel layer ends when all it sent has been collected. *)
LEMMA EndParallelLayerKeeps ==
  ASSUME IInv, EndParallelLayer
  PROVE  IInv'
<1>1. MessagesAreOwn' /\ SequentialInOrder' /\ CollectsInOrder'
  BY DEF Thread, poolVars, contextVars, Ok, ReturnError, EndParallelLayer,
     InParallel, Sent, MessagesAreOwn, SequentialInOrder, CollectsInOrder,
     IInv
<1>2. TypeOK'
  BY DEF Thread, poolVars, contextVars, Ok, ReturnError, EndParallelLayer,
     TypeOK, PlanLayer, Positions, InParallel, Executing, LayersInOrder, IInv
<1>3. PoolIsQuiet'
  <2>1. \A i \in 1 .. submitted : future[Layers[layer][i]] # None
    BY DEF IInv, TypeOK, CollectsInOrder, InParallel, EndParallelLayer
  <2>2. tasks = <<>> /\ \A t \in Thread : running[t] = None
    BY <2>1, AllCollected DEF EndParallelLayer
  <2> QED BY <2>2 DEF EndParallelLayer, PoolIsQuiet, poolVars, Thread
<1>4. TasksAreDistinct'
  <2>1. \A i \in 1 .. submitted : future[Layers[layer][i]] # None
    BY DEF IInv, TypeOK, CollectsInOrder, InParallel, EndParallelLayer
  <2>2. tasks = <<>> /\ \A t \in Thread : running[t] = None
    BY <2>1, AllCollected DEF EndParallelLayer
  <2> QED BY <2>2 DEF EndParallelLayer, TasksAreDistinct, poolVars, Thread
<1>5. LayersInOrder'
  <2>1. layer \in PlanLayer /\ epc \in Executing \ {"layer"}
    BY DEF IInv, LayersInOrder, EndParallelLayer, Executing, InParallel
  <2>2. CASE first_error = None
    <3>1. \A i \in Positions(layer) : Ok(Layers[layer][i])
      BY <2>1, <2>2, PlanIsLayered
      DEF IInv, TypeOK, CollectsInOrder, EndParallelLayer, InParallel, PlanFacts, Positions
    <3> QED BY <2>1, <2>2, <3>1, LayerGivesWay DEF EndParallelLayer
  <2>3. CASE first_error # None
    BY <2>3 DEF EndParallelLayer, ReturnError, LayersInOrder, Executing, InParallel
  <2> QED BY <2>2, <2>3
<1>6. EndIsTrue'
  <2>1. layer \in PlanLayer /\ epc \in Executing
    BY DEF IInv, LayersInOrder, EndParallelLayer, Executing, InParallel
  <2>2. CASE first_error = None
    BY <2>2 DEF EndParallelLayer, EndIsTrue, Executing
  <2>3. CASE first_error # None
    <3>1. /\ epc' = "returned" /\ ret' = first_error
          /\ err' = ret' /\ future' = future
      BY <2>3 DEF EndParallelLayer, ReturnError
    <3>2. CASE first_error = "submission"
      BY <3>1, <3>2, EndWithoutBlame, PlanIsLayered DEF EndIsTrue, PlanFacts
    <3>3. CASE first_error # "submission"
      <4>1. PICK i \in 1 .. next - 1 :
              /\ first_error = Layers[layer][i]
              /\ ~Ok(first_error)
              /\ \A j \in 1 .. i - 1 : Ok(Layers[layer][j])
        BY <2>3, <3>3 DEF IInv, CollectsInOrder, EndParallelLayer, InParallel
      <4>2. i \in Positions(layer)
        BY <2>1, PlanIsLayered
       
        DEF IInv, TypeOK, CollectsInOrder, EndParallelLayer, InParallel, Sent, PlanFacts, Positions
      <4>3. ErrorIsDeterministic'
        BY <2>1, <3>1, <4>1, <4>2, FailureIsFirst
      <4> QED BY <2>3, <3>1, <4>3 DEF EndIsTrue
    <3> QED BY <3>2, <3>3
  <2> QED BY <2>2, <2>3
<1> QED BY <1>1, <1>2, <1>3, <1>4, <1>5, <1>6 DEF IInv

LEMMA ThrowKeeps ==
  ASSUME IInv, Throw
  PROVE  IInv'
BY DEF Thread, NodesOf, poolVars, contextVars, Ok, Throw, TypeOK,
   ErrorIsDeterministic, InParallel, Executing, Sent, SentNodes, PoolIsQuiet,
   TasksAreDistinct, MessagesAreOwn, LayersInOrder, SequentialInOrder,
   CollectsInOrder, EndIsTrue, IInv

(* A sequential layer has nothing running once its node has a result.      *)
LEMMA ThrowInSequenceKeeps ==
  ASSUME IInv, ThrowInSequence
  PROVE  IInv'
<1>1. TypeOK' /\ TasksAreDistinct' /\ MessagesAreOwn' /\ LayersInOrder'
     /\ SequentialInOrder' /\ CollectsInOrder'
  BY DEF Thread, poolVars, contextVars, Ok, ThrowInSequence, TypeOK, InParallel,
     Executing, Sent, SentNodes, TasksAreDistinct, MessagesAreOwn,
     LayersInOrder, SequentialInOrder, CollectsInOrder, IInv
<1>2. PoolIsQuiet'
  <2>1. running[Caller] = None
    BY DEF IInv, PoolIsQuiet, TasksAreDistinct, Thread, ThrowInSequence
  <2> QED BY <2>1
          DEF IInv, PoolIsQuiet, InParallel, Thread, poolVars, ThrowInSequence
<1>3. EndIsTrue'
  <2>1. ret' = "exception" /\ epc' = "returned" /\ future' = future
    BY DEF ThrowInSequence
  <2> QED BY <2>1, EndWithoutBlame, PlanIsLayered DEF EndIsTrue, PlanFacts
<1> QED BY <1>1, <1>2, <1>3 DEF IInv

(* An exception leaves Execute when all that was sent has its result.      *)
LEMMA UnwindKeeps ==
  ASSUME IInv, Unwind
  PROVE  IInv'
<1>1. TypeOK' /\ TasksAreDistinct' /\ MessagesAreOwn' /\ LayersInOrder'
     /\ SequentialInOrder' /\ CollectsInOrder'
  BY DEF Thread, poolVars, contextVars, Ok, Unwind, TypeOK, InParallel,
     Executing, Sent, SentNodes, TasksAreDistinct, MessagesAreOwn,
     LayersInOrder, SequentialInOrder, CollectsInOrder, IInv
<1>2. PoolIsQuiet'
  <2>1. \A i \in 1 .. submitted : future[Layers[layer][i]] # None
    BY DEF Unwind
  <2>2. tasks = <<>> /\ \A t \in Thread : running[t] = None
    BY <2>1, AllCollected DEF Unwind
  <2> QED BY <2>2 DEF Unwind, PoolIsQuiet, poolVars, Thread
<1>3. EndIsTrue'
  <2>1. ret' = "exception" /\ epc' = "returned" /\ future' = future
    BY DEF Unwind
  <2> QED BY <2>1, EndWithoutBlame, PlanIsLayered DEF EndIsTrue, PlanFacts
<1> QED BY <1>1, <1>2, <1>3 DEF IInv

LEMMA EndRequestKeeps ==
  ASSUME IInv, EndRequest
  PROVE  IInv'
BY DEF Thread, NodesOf, poolVars, contextVars, Ok, EndRequest, TypeOK,
   ErrorIsDeterministic, InParallel, Executing, Sent, SentNodes, PoolIsQuiet,
   TasksAreDistinct, MessagesAreOwn, LayersInOrder, SequentialInOrder,
   CollectsInOrder, EndIsTrue, IInv

-----------------------------------------------------------------------------
(* The invariant *)

LEMMA InitIInv == Init => IInv
<1> SUFFICES ASSUME Init PROVE IInv
  OBVIOUS
<1>1. TypeOK
  <2>1. layer \in 1 .. Len(Layers) + 1 /\ next \in Nat /\ submitted \in Nat
    BY PlanIsLayered DEF Init, PlanFacts
  <2>2. tasks \in Seq(Node)
    BY DEF Init
  <2> QED BY <2>1, <2>2, Zenon DEF Init, TypeOK
<1>2. PoolIsQuiet /\ TasksAreDistinct /\ MessagesAreOwn
  BY DEF Init, PoolIsQuiet, TasksAreDistinct, MessagesAreOwn, Thread
<1>3. LayersInOrder /\ SequentialInOrder /\ CollectsInOrder /\ EndIsTrue
  BY
  DEF Init, LayersInOrder, SequentialInOrder, CollectsInOrder, EndIsTrue, InParallel, Executing
<1> QED BY <1>1, <1>2, <1>3 DEF IInv

LEMMA StutterKeeps ==
  ASSUME IInv, UNCHANGED vars
  PROVE  IInv'
BY DEF vars, poolVars, executeVars, contextVars, NodesOf, Ok, TypeOK,
   ErrorIsDeterministic, Sent, SentNodes, PoolIsQuiet, TasksAreDistinct,
   MessagesAreOwn, LayersInOrder, SequentialInOrder, CollectsInOrder, EndIsTrue, IInv

LEMMA StepKeepsInvariant ==
  ASSUME IInv, [Next]_vars
  PROVE  IInv'
<1>1. CASE CallerStep
  BY <1>1, BeginLayerKeeps, ReturnOkKeeps, RunOnCallerKeeps, AfterNodeKeeps,
     EndSequentialLayerKeeps, SubmitKeeps, NotifyKeeps, SubmitFailsKeeps, AllSubmittedKeeps,
     CollectKeeps, EndParallelLayerKeeps, UnwindKeeps, JoinKeeps DEF CallerStep
<1>2. CASE \/ FinishConstruction \/ SpawnFails \/ BeginRequest
           \/ Throw \/ ThrowInSequence \/ EndRequest \/ Destroy
  BY <1>2, FinishConstructionKeeps, SpawnFailsKeeps, BeginRequestKeeps, ThrowKeeps,
     ThrowInSequenceKeeps, EndRequestKeeps, DestroyKeeps
<1>3. ASSUME NEW w \in Worker, SpawnWorker(w) \/ WorkerStep(w) \/ SpuriousWake(w)
      PROVE  IInv'
  BY <1>3, SpawnWorkerKeeps, TakeTaskKeeps, SleepKeeps, ExitKeeps, SpuriousWakeKeeps
  DEF WorkerStep
<1>4. ASSUME NEW t \in Thread, Publish(t) \/ SetError(t) \/ FinishNode(t)
      PROVE  IInv'
  BY <1>4, PublishKeeps, SetErrorKeeps, FinishNodeKeeps
<1>5. CASE UNCHANGED vars
  BY <1>5, StutterKeeps
<1> QED BY <1>1, <1>2, <1>3, <1>4, <1>5 DEF Next

(* Execute keeps the layers in order, each task in one place, and the      *)
(* first error so far, whatever the workers do.                            *)
THEOREM ExecutorInvariant == Spec => []IInv
<1>1. IInv /\ [Next]_vars => IInv'
  BY StepKeepsInvariant
<1> QED BY <1>1, InitIInv, PTL DEF Spec

(* Every variable has its type. *)
THEOREM ExecutorTypes == Spec => []TypeOK
<1>1. IInv => TypeOK
  BY DEF IInv
<1> QED BY <1>1, ExecutorInvariant, PTL

(* No task outlives the call that submitted it: when Execute has returned, *)
(* also by an exception or with a submission that failed, the queue is     *)
(* empty and no thread is in a node.                                       *)
THEOREM TasksEndWithTheirRequest == Spec => []NoTaskOutlivesRequest
<1>1. IInv => NoTaskOutlivesRequest
  BY DEF IInv, PoolIsQuiet, NoTaskOutlivesRequest, InParallel, Thread
<1> QED BY <1>1, ExecutorInvariant, PTL

(* Execute returns the error of the first node that failed in the order of *)
(* the plan, however the workers interleave.                               *)
THEOREM ErrorsAreDeterministic == Spec => []ErrorIsDeterministic
<1>1. IInv => ErrorIsDeterministic
  BY DEF IInv, EndIsTrue, ErrorIsDeterministic
<1> QED BY <1>1, ExecutorInvariant, PTL

-----------------------------------------------------------------------------
(* The refinement *)

(* A worker that is in a node has left the queue. *)
WorkersAreBusy == \A w \in Worker : running[w] # None => wpc[w] = "busy"

LEMMA StepKeepsWorkersBusy ==
  ASSUME IInv, WorkersAreBusy, [Next]_vars
  PROVE  WorkersAreBusy'
<1>1. running \in [Thread -> Node \cup {None}] /\ DOMAIN wpc = Worker /\ Worker \subseteq Thread
  BY DEF IInv, TypeOK, Thread
<1>2. CASE CallerStep
  <2>1. running' = running \/ \E n : running' = [running EXCEPT ![Caller] = n]
    BY <1>2 DEF CallerStep, BeginLayer, ReturnOk, RunOnCaller, StartNode, AfterNode,
       EndSequentialLayer, Submit, Notify, SubmitFails, AllSubmitted, Collect,
       EndParallelLayer, Unwind, Join
  <2>2. \A w \in Worker : running'[w] = running[w]
    BY <1>1, <2>1, PlanIsLayered DEF PlanFacts
  <2>3. wpc' = wpc \/ NotifyOne
    BY <1>2 DEF CallerStep, BeginLayer, ReturnOk, RunOnCaller, AfterNode,
       EndSequentialLayer, Submit, Notify, SubmitFails, AllSubmitted, Collect,
       EndParallelLayer, Unwind, Join, poolVars
  <2>4. \A w \in Worker : wpc[w] = "busy" => wpc'[w] = "busy"
    BY <1>1, <2>3 DEF NotifyOne, Sleeping
  <2> QED BY <2>2, <2>4 DEF WorkersAreBusy
<1>3. CASE \/ FinishConstruction \/ SpawnFails \/ BeginRequest
           \/ Throw \/ ThrowInSequence \/ EndRequest \/ Destroy
  <2>1. running' = running /\ (wpc' = wpc \/ NotifyAll)
    BY <1>3 DEF FinishConstruction, SpawnFails, BeginRequest, Throw, ThrowInSequence,
       EndRequest, Destroy, Stop, poolVars
  <2> QED BY <1>1, <2>1 DEF NotifyAll, WorkersAreBusy
<1>4. ASSUME NEW w \in Worker, SpawnWorker(w) \/ WorkerStep(w) \/ SpuriousWake(w)
      PROVE  WorkersAreBusy'
  <2>1. CASE TakeTask(w)
    BY <1>1, <2>1 DEF TakeTask, StartNode, WorkersAreBusy
  <2>2. CASE SpawnWorker(w) \/ Sleep(w) \/ Exit(w) \/ SpuriousWake(w)
    <3>1. /\ running' = running /\ wpc[w] # "busy"
          /\ \E s : wpc' = [wpc EXCEPT ![w] = s]
      BY <2>2 DEF SpawnWorker, Sleep, Exit, SpuriousWake
    <3> QED BY <1>1, <3>1 DEF WorkersAreBusy
  <2> QED BY <1>4, <2>1, <2>2 DEF WorkerStep
<1>5. ASSUME NEW t \in Thread, Publish(t) \/ SetError(t) \/ FinishNode(t)
      PROVE  WorkersAreBusy'
  <2>1. CASE Publish(t) \/ SetError(t)
    BY <2>1 DEF Publish, SetError, poolVars, WorkersAreBusy
  <2>2. CASE FinishNode(t)
    BY <1>1, <2>2 DEF FinishNode, WorkersAreBusy
  <2> QED BY <1>5, <2>1, <2>2
<1>6. CASE UNCHANGED vars
  BY <1>6 DEF vars, poolVars, WorkersAreBusy
<1> QED BY <1>2, <1>3, <1>4, <1>5, <1>6 DEF Next

(* What DagExecution sees of a step that leaves nodes and verdict alone.   *)
LEMMA DagStutters ==
  ASSUME UNCHANGED <<running, future, ret>>
  PROVE  UNCHANGED Dag!dagVars
BY DEF Dag!dagVars, NodeState

(* A node of the current layer depends on nodes that have succeeded.       *)
LEMMA DependenciesAreOk ==
  ASSUME IInv, epc \in Executing, layer \in PlanLayer, NEW i \in Positions(layer),
         NEW d \in Deps[Layers[layer][i]]
  PROVE  d \in Node /\ Ok(d)
<1>1. PICK l \in 1 .. layer - 1 : \E j \in Positions(l) : Layers[l][j] = d
  <2>1. \A m \in PlanLayer : \A k \in Positions(m) : \A e \in Deps[Layers[m][k]] :
          \E l \in 1 .. m - 1 : \E j \in Positions(l) : Layers[l][j] = e
    BY PlanIsLayered DEF PlanFacts
  <2> QED BY <2>1, Zenon
<1>2. l \in PlanLayer /\ l < layer
  BY <1>1, PlanIsLayered DEF PlanFacts, PlanLayer
<1>3. \A j \in Positions(l) : Layers[l][j] \in Node
  BY <1>2, PlanIsLayered DEF PlanFacts
<1> QED BY <1>1, <1>2, <1>3 DEF IInv, LayersInOrder

(* An idle thread that enters a node of the current layer starts it.       *)
LEMMA EnteringStarts ==
  ASSUME IInv, epc \in Executing, layer \in PlanLayer, NEW i \in Positions(layer),
         NEW t \in Thread, running[t] = None,
         future[Layers[layer][i]] = None,
         \A u \in Thread : running[u] # Layers[layer][i],
         running' = [running EXCEPT ![t] = Layers[layer][i]],
         UNCHANGED <<future, ret>>
  PROVE  Dag!Next
<1> DEFINE n == Layers[layer][i]
<1>1. n \in Node /\ None \notin Node
  BY PlanIsLayered DEF PlanFacts
<1>2. \A d \in Deps[n] : d \in Node /\ NodeState(d) = "ok"
  BY DependenciesAreOk DEF NodeState, Ok
<1>3. NodeState(n) = "pending"
  BY DEF NodeState
<1>4. ret = None
  BY DEF IInv, LayersInOrder
<1> HIDE DEF n
<1>5. \A u \in Thread : running'[u] = IF u = t THEN n ELSE running[u]
  BY DEF IInv, TypeOK, n
<1>6. \A m \in Node : NodeState(m)' = IF m = n THEN "running" ELSE NodeState(m)
  <2> SUFFICES ASSUME NEW m \in Node
               PROVE  NodeState(m)' = IF m = n THEN "running" ELSE NodeState(m)
    OBVIOUS
  <2>1. CASE m = n
    <3>1. future'[n] = None /\ running'[t] = n
      BY <1>5 DEF n
    <3> QED BY <2>1, <3>1 DEF NodeState
  <2>2. CASE m # n
    <3>1. (\E u \in Thread : running'[u] = m) <=> (\E u \in Thread : running[u] = m)
      BY <1>1, <1>5, <2>2
    <3> QED BY <2>2, <3>1 DEF NodeState
  <2> QED BY <2>1, <2>2
<1>7. [m \in Node |-> NodeState(m)]' = [[m \in Node |-> NodeState(m)] EXCEPT ![n] = "running"]
  BY <1>6
<1>8. Dag!Start(n)
  BY <1>1, <1>2, <1>3, <1>4, <1>7 DEF Dag!Start
<1> QED BY <1>1, <1>8 DEF Dag!Next

LEMMA TakeTaskStarts ==
  ASSUME IInv, WorkersAreBusy, NEW w \in Worker, TakeTask(w)
  PROVE  Dag!Next
<1>1. 1 \in DOMAIN tasks /\ Head(tasks) = tasks[1]
  BY DEF IInv, TypeOK, TakeTask
<1>2. epc \in InParallel
  BY DEF IInv, PoolIsQuiet, TakeTask
<1>3. layer \in PlanLayer /\ epc \in Executing
  BY <1>2 DEF IInv, LayersInOrder, Executing, InParallel
<1>4. Sent <= Len(Layers[layer]) /\ Sent \in Nat
  BY <1>2 DEF IInv, TypeOK, CollectsInOrder, Sent
<1>5. PICK i \in 1 .. Sent : tasks[1] = Layers[layer][i]
  BY <1>1 DEF IInv, TasksAreDistinct, SentNodes
<1>6. i \in Positions(layer)
  BY <1>3, <1>4, <1>5, PlanIsLayered DEF PlanFacts, Positions
<1>7. future[tasks[1]] = None /\ \A t \in Thread : running[t] # tasks[1]
  BY <1>1 DEF IInv, TasksAreDistinct
<1>8. w \in Thread /\ running[w] = None
  BY DEF WorkersAreBusy, TakeTask, Thread
<1>9. running' = [running EXCEPT ![w] = tasks[1]] /\ UNCHANGED <<future, ret>>
  BY <1>1 DEF TakeTask, StartNode, executeVars
<1> QED BY <1>3, <1>5, <1>6, <1>7, <1>8, <1>9, EnteringStarts

LEMMA RunOnCallerStarts ==
  ASSUME IInv, RunOnCaller
  PROVE  Dag!Next
<1>1. layer \in PlanLayer /\ next \in Positions(layer) /\ Layers[layer][next] \in Node
  BY NextIsNode DEF RunOnCaller
<1>2. \A t \in Thread : running[t] = None
  BY DEF IInv, PoolIsQuiet, RunOnCaller, InParallel, Thread
<1>3. \A t \in Thread : running[t] # Layers[layer][next]
  BY <1>1, <1>2, PlanIsLayered DEF PlanFacts
<1>4. Caller \in Thread /\ epc \in Executing
  BY DEF RunOnCaller, Thread, Executing
<1>5. running' = [running EXCEPT ![Caller] = Layers[layer][next]] /\ UNCHANGED <<future, ret>>
  BY DEF RunOnCaller, StartNode, executeVars
<1>6. future[Layers[layer][next]] = None /\ running[Caller] = None
  BY DEF RunOnCaller
<1> QED BY <1>1, <1>3, <1>4, <1>5, <1>6, EnteringStarts

(* The result of a node ends it, well or badly. *)
LEMMA FinishNodeFinishes ==
  ASSUME IInv, NEW t \in Thread, FinishNode(t)
  PROVE  Dag!Next
<1> DEFINE n == running[t]
<1>1. n \in Node /\ future[n] = None
  BY DEF IInv, TypeOK, TasksAreDistinct, FinishNode
<1>2. NodeState(n) = "running"
  BY <1>1 DEF NodeState
<1>3. PICK result \in Results(t) : future' = [future EXCEPT ![n] = result]
  BY DEF FinishNode
<1>4. result \in [ok : BOOLEAN, message : Node \cup {None}]
  <2>1. thread_errors[t] \in Node \cup {None}
    BY DEF IInv, TypeOK
  <2>2. \/ result = [ok |-> FALSE, message |-> thread_errors[t]]
        \/ result = [ok |-> FALSE, message |-> None]
        \/ result = [ok |-> TRUE, message |-> None]
    BY <1>3 DEF Results
  <2>3. [ok |-> FALSE, message |-> thread_errors[t]] \in [ok : BOOLEAN, message : Node \cup {None}]
    BY <2>1
  <2>4. \A b \in BOOLEAN :
          [ok |-> b, message |-> None] \in [ok : BOOLEAN, message : Node \cup {None}]
    OBVIOUS
  <2> QED BY <2>2, <2>3, <2>4, Zenon
<1>5. result # None
  BY <1>4, PlanAssumption
<1>6. \A u \in Thread : running'[u] = IF u = t THEN None ELSE running[u]
  BY DEF IInv, TypeOK, FinishNode
<1> HIDE DEF n
<1>7. \A m \in Node : future'[m] = IF m = n THEN result ELSE future[m]
  BY <1>3 DEF IInv, TypeOK
<1> DEFINE outcome == IF result.ok THEN "ok" ELSE "failed"
<1>8. \A m \in Node : NodeState(m)' = IF m = n THEN outcome ELSE NodeState(m)
  <2> SUFFICES ASSUME NEW m \in Node
               PROVE  NodeState(m)' = IF m = n THEN outcome ELSE NodeState(m)
    OBVIOUS
  <2>1. CASE m = n
    BY <1>5, <1>7, <2>1 DEF NodeState
  <2>2. CASE m # n
    <3>1. (\E u \in Thread : running'[u] = m) <=> (\E u \in Thread : running[u] = m)
      BY <1>6, <2>2, PlanIsLayered DEF PlanFacts, n
    <3> QED BY <1>7, <2>2, <3>1 DEF NodeState
  <2> QED BY <2>1, <2>2
<1>9. [m \in Node |-> NodeState(m)]' = [[m \in Node |-> NodeState(m)] EXCEPT ![n] = outcome]
  BY <1>8
<1>10. ret' = ret
  BY DEF FinishNode, executeVars
<1>11. outcome \in {"ok", "failed"}
  OBVIOUS
<1> HIDE DEF outcome
<1>12. Dag!Finish(n)
  BY <1>1, <1>2, <1>9, <1>10, <1>11 DEF Dag!Finish
<1> QED BY <1>1, <1>12 DEF Dag!Next

(* Execute returns once when no thread is in a node; well only if every    *)
(* node has succeeded.                                                     *)
LEMMA EndingReturns ==
  ASSUME ret = None, ret' # None,
         \A t \in Thread : running[t] = None,
         ret' = "ok" => \A n \in Node : Ok(n),
         UNCHANGED <<running, future>>
  PROVE  Dag!Next
<1>1. \A n \in Node : NodeState(n) # "running"
  BY PlanIsLayered DEF NodeState, PlanFacts
<1>2. \A n \in Node : Ok(n) => NodeState(n) = "ok"
  BY DEF Ok, NodeState
<1>3. [n \in Node |-> NodeState(n)]' = [n \in Node |-> NodeState(n)]
  BY DEF NodeState
<1>4. Dag!Return
  BY <1>1, <1>2, <1>3 DEF Dag!Return
<1> QED BY <1>4 DEF Dag!Next

LEMMA EndRefined ==
  ASSUME IInv, ReturnOk \/ AfterNode \/ EndParallelLayer \/ Unwind \/ ThrowInSequence
  PROVE  Dag!Next \/ UNCHANGED Dag!dagVars
<1>1. ret = None /\ layer \in Nat /\ UNCHANGED <<running, future>>
  BY DEF IInv, TypeOK, LayersInOrder, Executing, InParallel, ReturnOk, AfterNode,
     EndParallelLayer, Unwind, ThrowInSequence
<1>2. CASE ret' = ret
  BY <1>1, <1>2, DagStutters
<1>3. CASE ReturnOk
  <2>1. \A t \in Thread : running[t] = None
    BY <1>3 DEF IInv, PoolIsQuiet, ReturnOk, InParallel, Thread
  <2>2. \A n \in Node : Ok(n)
    <3>1. \A l \in PlanLayer : \A i \in Positions(l) : l < layer => Ok(Layers[l][i])
      BY <1>3 DEF IInv, LayersInOrder, Executing, ReturnOk
    <3>2. \A l \in PlanLayer : l < layer
      BY <1>1, <1>3, PlanIsLayered DEF ReturnOk, PlanFacts, PlanLayer
    <3> QED BY <3>1, <3>2, PlanIsLayered DEF PlanFacts
  <2>3. ret' # None
    BY <1>3, PlanIsLayered DEF ReturnOk, PlanFacts
  <2> QED BY <1>1, <2>1, <2>2, <2>3, EndingReturns
<1>4. CASE AfterNode /\ ret' # ret
  <2>1. Layers[layer][next] \in Node /\ future[Layers[layer][next]] # None
    BY <1>4, NextIsNode DEF AfterNode
  <2>2. ret' = Layers[layer][next]
    BY <1>4 DEF AfterNode, ReturnError
  <2>3. running[Caller] = None
    BY <2>1 DEF IInv, PoolIsQuiet, TasksAreDistinct, Thread
  <2>4. \A t \in Thread : running[t] = None
    BY <1>4, <2>3 DEF IInv, PoolIsQuiet, AfterNode, InParallel, Thread
  <2>5. ret' # None /\ ret' # "ok"
    BY <2>1, <2>2, PlanIsLayered DEF PlanFacts
  <2> QED BY <1>1, <2>4, <2>5, EndingReturns
<1>5. CASE EndParallelLayer /\ ret' # ret
  <2>1. ret' = first_error /\ first_error # None
    BY <1>5 DEF EndParallelLayer, ReturnError
  <2>2. \A i \in 1 .. submitted : i \in 1 .. next - 1
    BY <1>5 DEF IInv, TypeOK, EndParallelLayer
  <2>3. \A i \in 1 .. submitted : future[Layers[layer][i]] # None
    BY <1>5, <2>2 DEF IInv, CollectsInOrder, EndParallelLayer, InParallel
  <2>4. \A t \in Thread : running[t] = None
    BY <1>5, <2>3, AllCollected DEF EndParallelLayer
  <2>5. ret' # "ok"
    BY <2>1, PlanIsLayered DEF IInv, TypeOK, PlanFacts
  <2> QED BY <1>1, <2>1, <2>4, <2>5, EndingReturns
<1>6. CASE Unwind
  <2>1. \A t \in Thread : running[t] = None
    BY <1>6, AllCollected DEF Unwind
  <2>2. ret' # None /\ ret' # "ok"
    BY <1>6, PlanIsLayered DEF Unwind, PlanFacts
  <2> QED BY <1>1, <2>1, <2>2, EndingReturns
<1>7. CASE ThrowInSequence
  <2>1. running[Caller] = None
    BY <1>7 DEF IInv, PoolIsQuiet, TasksAreDistinct, Thread, ThrowInSequence
  <2>2. \A t \in Thread : running[t] = None
    BY <1>7, <2>1 DEF IInv, PoolIsQuiet, ThrowInSequence, InParallel, Thread
  <2>3. ret' # None /\ ret' # "ok"
    BY <1>7, PlanIsLayered DEF ThrowInSequence, PlanFacts
  <2> QED BY <1>1, <2>2, <2>3, EndingReturns
<1> QED BY <1>1, <1>2, <1>3, <1>4, <1>5, <1>6, <1>7

(* A new request: every node is pending again. *)
LEMMA BeginRefined ==
  ASSUME IInv, BeginRequest
  PROVE  Dag!Next \/ UNCHANGED Dag!dagVars
<1>1. \A t \in Thread : running[t] = None
  BY DEF IInv, PoolIsQuiet, BeginRequest, InParallel, Thread
<1>2. \A n \in Node : NodeState(n)' = "pending"
  <2>1. running' = running /\ \A n \in Node : future'[n] = None
    BY DEF BeginRequest
  <2> QED BY <1>1, <2>1, PlanIsLayered DEF NodeState, PlanFacts
<1>3. [n \in Node |-> NodeState(n)]' = [n \in Node |-> "pending"] /\ ret' = None
  BY <1>2 DEF BeginRequest
<1>4. CASE ret = None
  <2>1. \A n \in Node : NodeState(n) = "pending"
    BY <1>1, <1>4, PlanIsLayered
    DEF IInv, EndIsTrue, BeginRequest, Executing, InParallel, NodeState, PlanFacts
  <2>2. [n \in Node |-> NodeState(n)]' = [n \in Node |-> NodeState(n)]
    BY <1>3, <2>1
  <2> QED BY <1>3, <1>4, <2>2 DEF Dag!dagVars
<1>5. CASE ret # None
  BY <1>3, <1>5 DEF Dag!NextRequest, Dag!Next
<1> QED BY <1>4, <1>5

LEMMA StepRefined ==
  ASSUME IInv, WorkersAreBusy, [Next]_vars
  PROVE  Dag!Next \/ UNCHANGED Dag!dagVars
<1>1. CASE \/ BeginLayer \/ EndSequentialLayer \/ Submit \/ Notify \/ SubmitFails
           \/ AllSubmitted \/ Collect \/ Join
  BY <1>1, DagStutters
  DEF BeginLayer, EndSequentialLayer, Submit, Notify, SubmitFails, AllSubmitted, Collect, Join
<1>2. CASE FinishConstruction \/ SpawnFails \/ Throw \/ EndRequest \/ Destroy
  BY <1>2, DagStutters DEF FinishConstruction, SpawnFails, Throw, EndRequest, Destroy, Stop
<1>3. ASSUME NEW w \in Worker, SpawnWorker(w) \/ WorkerStep(w) \/ SpuriousWake(w)
      PROVE  Dag!Next \/ UNCHANGED Dag!dagVars
  <2>1. CASE TakeTask(w)
    BY <2>1, TakeTaskStarts
  <2>2. CASE SpawnWorker(w) \/ Sleep(w) \/ Exit(w) \/ SpuriousWake(w)
    BY <2>2, DagStutters DEF SpawnWorker, Sleep, Exit, SpuriousWake, executeVars
  <2> QED BY <1>3, <2>1, <2>2 DEF WorkerStep
<1>4. ASSUME NEW t \in Thread, Publish(t) \/ SetError(t) \/ FinishNode(t)
      PROVE  Dag!Next \/ UNCHANGED Dag!dagVars
  <2>1. CASE Publish(t) \/ SetError(t)
    BY <2>1, DagStutters DEF Publish, SetError, executeVars
  <2>2. CASE FinishNode(t)
    BY <2>2, FinishNodeFinishes
  <2> QED BY <1>4, <2>1, <2>2
<1>5. CASE CallerStep
  BY <1>1, <1>5, RunOnCallerStarts, EndRefined DEF CallerStep
<1>6. CASE BeginRequest
  BY <1>6, BeginRefined
<1>8. CASE ThrowInSequence
  BY <1>8, EndRefined
<1>7. CASE UNCHANGED vars
  BY <1>7, DagStutters DEF vars, executeVars
<1> QED BY <1>2, <1>3, <1>4, <1>5, <1>6, <1>7, <1>8 DEF Next

(* Layers, queue, workers and futures implement DagExecution: a node       *)
(* starts at most once and only when those it depends on have succeeded,   *)
(* and a request ends when no node runs.                                   *)
THEOREM ExecutorRefinesDag == Spec => ImplementsDag
<1>1. Init => Dag!Init
  BY PlanIsLayered DEF Init, Dag!Init, NodeState, PlanFacts
<1>2. Init => WorkersAreBusy
  BY DEF Init, WorkersAreBusy, Thread
<1>3. IInv /\ WorkersAreBusy /\ [Next]_vars => WorkersAreBusy'
  BY StepKeepsWorkersBusy
<1>4. IInv /\ WorkersAreBusy /\ [Next]_vars => [Dag!Next]_(Dag!dagVars)
  BY StepRefined
<1> QED BY <1>1, <1>2, <1>3, <1>4, ExecutorInvariant, PTL DEF Spec, ImplementsDag, Dag!Spec
=============================================================================
