----------------------------- MODULE PipelinePlan ----------------------------
(***************************************************************************)
(* How the validator turns a configuration into the layers that            *)
(* Pipeline::Execute runs (src/core/pipeline_validator.cpp): every input   *)
(* taken from a node becomes a dependency, Kahn's algorithm builds the     *)
(* topological layers, and with more than one worker each layer is split   *)
(* so that what may not run in parallel runs alone.                        *)
(*                                                                         *)
(* One action is one iteration of a loop.  The checks of parameters, ports *)
(* and models that only add diagnostics are left out.                      *)
(***************************************************************************)
EXTENDS Naturals, Sequences, FiniteSets, SequencesExt

CONSTANTS
  NodeList,  \* parsed.nodes: the nodes, in the order of the configuration
  Model,     \* models whose effective concurrency is kSerialized
  Unknown,   \* a name that no node has
  Configs    \* the configurations to plan: records as in ConfigType

Node == ToSet(NodeList)

ConfigType ==
  [depends_on : [Node -> Seq(Node \cup {Unknown})],
   sources : [Node -> SUBSET (Node \cup {Unknown})],
   parallel_safe : SUBSET Node,
   models : [Node -> SUBSET Model],
   workers : Nat]

ASSUME PlanningAssumption ==
  /\ NodeList \in Seq(Node)
  /\ IsInjective(NodeList)
  /\ Unknown \notin Node
  /\ Configs \subseteq ConfigType

VARIABLES
  config,      \* the configuration that is planned
  phase,
  pos,         \* the position in the list that the running loop is at
  depends_on,  \* depends_on with the nodes' data dependencies
  errors,      \* is there a diagnostic?
  degrees,     \* degrees[n]: dependencies of n that are not resolved
  current,     \* the layer that is resolved
  next,        \* the layer after it, so far
  layers,      \* report.topological_layers
  order,       \* report.topological_order
  parallel,    \* of the layer that is split: the nodes that stay together,
  sequential,  \* those that get a layer each,
  used_models, \* and the serialized models that the former use
  scheduled    \* the layers after the split, so far

loopVars == <<phase, pos>>
kahnVars == <<degrees, current, next, layers, order>>
splitVars == <<parallel, sequential, used_models, scheduled>>
vars == <<config, loopVars, depends_on, errors, kahnVars, splitVars>>

Init ==
  /\ config \in Configs
  /\ phase = "sources"
  /\ pos = 1
  /\ depends_on = config.depends_on
  /\ errors = FALSE
  /\ degrees = [n \in Node |-> 0]
  /\ current = <<>>
  /\ next = <<>>
  /\ layers = <<>>
  /\ order = <<>>
  /\ parallel = <<>>
  /\ sequential = <<>>
  /\ used_models = {}
  /\ scheduled = <<>>

-----------------------------------------------------------------------------
(* Data dependencies *)

(* Mutant: a node with explicit dependencies gets no others. *)
AddOnlyMissingList ==
  LET n == NodeList[pos] sources == config.sources[n] IN
  /\ phase = "sources"
  /\ pos <= Len(NodeList)
  /\ errors' = (errors \/ Unknown \in sources \/ n \in sources)
  /\ depends_on' =
       IF depends_on[n] # <<>> THEN depends_on
       ELSE [depends_on EXCEPT ![n] = SetToSeq(sources \ {Unknown, n})]
  /\ pos' = pos + 1
  /\ UNCHANGED <<config, phase, kahnVars, splitVars>>

(* Each source of a node's inputs that is another node becomes a           *)
(* dependency, unless it is one already.                                   *)
AddDataDependencies ==
  LET n == NodeList[pos] sources == config.sources[n] IN
  /\ phase = "sources"
  /\ pos <= Len(NodeList)
  /\ errors' = (errors \/ Unknown \in sources \/ n \in sources)
  /\ depends_on' = [depends_on EXCEPT ![n] =
       @ \o SetToSeq(sources \ (ToSet(@) \cup {Unknown, n}))]
  /\ pos' = pos + 1
  /\ UNCHANGED <<config, phase, kahnVars, splitVars>>

-----------------------------------------------------------------------------
(* ResolveTopology *)

(* The positions of depends_on[n] that count: not n itself, known, and not *)
(* seen before.                                                            *)
Counted(n) ==
  {d \in DOMAIN depends_on[n] :
     /\ depends_on[n][d] \in Node \ {n}
     /\ \A e \in 1 .. d - 1 : depends_on[n][e] # depends_on[n][d]}

Dependencies(n) == {depends_on[n][d] : d \in Counted(n)}

Children(d) == {n \in Node : d \in Dependencies(n)}

(* The nodes of S as a loop over the configuration meets them: the k-th of *)
(* them has k - 1 before it.                                               *)
InOrder(S) ==
  LET at == {i \in DOMAIN NodeList : NodeList[i] \in S}
      place(k) == CHOOSE i \in at : Cardinality({j \in at : j < i}) = k - 1
  IN [k \in 1 .. Cardinality(at) |-> NodeList[place(k)]]

invalid_reference == \E n \in Node : Counted(n) # DOMAIN depends_on[n]

CountDegrees ==
  /\ phase = "sources"
  /\ pos > Len(NodeList)
  /\ degrees' = [n \in Node |-> Cardinality(Counted(n))]
  /\ current' = InOrder({n \in Node : degrees'[n] = 0})
  /\ phase' = "layers"
  /\ UNCHANGED <<config, pos, depends_on, errors, next, layers, order, splitVars>>

PushLayer ==
  /\ phase = "layers"
  /\ current # <<>>
  /\ layers' = Append(layers, current)
  /\ next' = <<>>
  /\ pos' = 1
  /\ phase' = "resolving"
  /\ UNCHANGED <<config, depends_on, errors, degrees, current, order, splitVars>>

(* A node is resolved: its children have one dependency less, and those    *)
(* that have none left join the next layer.                                *)
Resolve ==
  LET id == current[pos] IN
  /\ phase = "resolving"
  /\ pos <= Len(current)
  /\ order' = Append(order, id)
  /\ degrees' = [n \in Node |->
       IF n \in Children(id) THEN degrees[n] - 1 ELSE degrees[n]]
  /\ next' = next \o InOrder({n \in Children(id) : degrees[n] = 1})
  /\ pos' = pos + 1
  /\ UNCHANGED <<config, phase, depends_on, errors, current, layers, splitVars>>

NextLayer ==
  /\ phase = "resolving"
  /\ pos > Len(current)
  /\ current' = next
  /\ phase' = "layers"
  /\ UNCHANGED <<config, pos, depends_on, errors, degrees, next, layers, order, splitVars>>

(* Mutant: a cycle is not noticed. *)
ResolvedUnlessInvalid ==
  /\ phase = "layers"
  /\ current = <<>>
  /\ errors' = (errors \/ invalid_reference)
  /\ phase' = IF invalid_reference THEN "rejected"
              ELSE IF config.workers > 1 THEN "splitting" ELSE "planned"
  /\ pos' = 1
  /\ UNCHANGED <<config, depends_on, kahnVars, splitVars>>

(* Nothing is left to resolve.  Nodes that were not resolved are on, or    *)
(* behind, a cycle.  A plan with errors of its topology goes no further.   *)
Resolved ==
  LET invalid == invalid_reference \/ Len(order) # Len(NodeList) IN
  /\ phase = "layers"
  /\ current = <<>>
  /\ errors' = (errors \/ invalid)
  /\ phase' = IF invalid THEN "rejected"
              ELSE IF config.workers > 1 THEN "splitting" ELSE "planned"
  /\ pos' = 1
  /\ UNCHANGED <<config, depends_on, kahnVars, splitVars>>

-----------------------------------------------------------------------------
(* The split for parallel execution *)

Layer == layers[1]

SharesModel(n) == config.models[n] \cap used_models # {}

(* Mutant: the models of the nodes that stay together are not collected. *)
SplitNodeForgetful ==
  LET n == Layer[pos] IN
  /\ phase = "splitting"
  /\ layers # <<>> /\ pos <= Len(Layer)
  /\ IF n \notin config.parallel_safe \/ SharesModel(n)
     THEN /\ sequential' = Append(sequential, n)
          /\ UNCHANGED <<parallel, used_models>>
     ELSE /\ parallel' = Append(parallel, n)
          /\ used_models' = config.models[n]
          /\ UNCHANGED sequential
  /\ pos' = pos + 1
  /\ UNCHANGED <<config, phase, depends_on, errors, kahnVars, scheduled>>

SplitNode ==
  LET n == Layer[pos] IN
  /\ phase = "splitting"
  /\ layers # <<>> /\ pos <= Len(Layer)
  /\ IF n \notin config.parallel_safe \/ SharesModel(n)
     THEN /\ sequential' = Append(sequential, n)
          /\ UNCHANGED <<parallel, used_models>>
     ELSE /\ parallel' = Append(parallel, n)
          /\ used_models' = used_models \cup config.models[n]
          /\ UNCHANGED sequential
  /\ pos' = pos + 1
  /\ UNCHANGED <<config, phase, depends_on, errors, kahnVars, scheduled>>

(* The layer becomes one of the nodes that stay together, then one for     *)
(* each of the others.                                                     *)
EndSplit ==
  /\ phase = "splitting"
  /\ layers # <<>> /\ pos > Len(Layer)
  /\ scheduled' = scheduled \o (IF parallel = <<>> THEN <<>> ELSE <<parallel>>)
                            \o [i \in DOMAIN sequential |-> <<sequential[i]>>]
  /\ layers' = Tail(layers)
  /\ parallel' = <<>>
  /\ sequential' = <<>>
  /\ used_models' = {}
  /\ pos' = 1
  /\ UNCHANGED <<config, phase, depends_on, errors, degrees, current, next, order>>

Scheduled ==
  /\ phase = "splitting"
  /\ layers = <<>>
  /\ layers' = scheduled
  /\ order' = FlattenSeq(scheduled)
  /\ phase' = "planned"
  /\ UNCHANGED <<config, pos, depends_on, errors, degrees, current, next, splitVars>>

-----------------------------------------------------------------------------
Next ==
  \/ AddDataDependencies
  \/ CountDegrees
  \/ PushLayer
  \/ Resolve
  \/ NextLayer
  \/ Resolved
  \/ SplitNode
  \/ EndSplit
  \/ Scheduled

Spec == Init /\ [][Next]_vars
-----------------------------------------------------------------------------
(* Properties *)

(* What a node has to wait for, read off the configuration. *)
Needs(n) == (ToSet(config.depends_on[n]) \cup config.sources[n]) \ {Unknown}

(* Reference: n is on a cycle when it is among the nodes it waits for,     *)
(* directly or through others.                                             *)
Reach[k \in 0 .. Len(NodeList)] ==
  IF k = 0 THEN [n \in Node |-> Needs(n)]
  ELSE [n \in Node |-> Reach[k - 1][n] \cup UNION {Reach[k - 1][m] : m \in Reach[k - 1][n]}]

Acyclic == \A n \in Node : n \notin Reach[Len(NodeList)][n]

WellFormed ==
  /\ \A n \in Node :
       /\ Unknown \notin ToSet(config.depends_on[n]) \cup config.sources[n]
       /\ IsInjective(config.depends_on[n])
  /\ Acyclic

(* The validator accepts exactly the configurations whose names exist,     *)
(* whose dependencies are declared once and whose graph of data and        *)
(* control dependencies has no cycle: Kahn's algorithm with its degrees,   *)
(* duplicate and unknown names included, decides that and nothing else.    *)
AcceptsExactlyDags ==
  /\ phase = "planned" => (~errors <=> WellFormed)
  /\ phase = "rejected" => errors /\ ~WellFormed

(* An accepted plan is what Pipeline::Execute and PipelineExecutor assume: *)
(* every node once, and whatever it reads from in an earlier layer, also   *)
(* when only an input and no declared dependency says so; the order is     *)
(* that of the layers.                                                     *)
PlanRespectsDependencies ==
  phase = "planned" /\ ~errors =>
    /\ order = FlattenSeq(layers)
    /\ IsInjective(order) /\ ToSet(order) = Node
    /\ \A l \in DOMAIN layers :
         /\ layers[l] # <<>>
         /\ \A n \in ToSet(layers[l]) : \A d \in Needs(n) :
              \E m \in 1 .. l - 1 : d \in ToSet(layers[m])

(* Nodes of one layer may run at once: with more than one worker, each     *)
(* node of a layer of two or more is declared safe, and no two of them     *)
(* share a model that allows one caller at a time.                         *)
LayersMayRunInParallel ==
  phase = "planned" /\ config.workers > 1 =>
    \A l \in DOMAIN layers : \A i, j \in DOMAIN layers[l] :
      i # j =>
        /\ layers[l][i] \in config.parallel_safe
        /\ config.models[layers[l][i]] \cap config.models[layers[l][j]] = {}
=============================================================================
