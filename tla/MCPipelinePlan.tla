---------------------------- MODULE MCPipelinePlan ---------------------------
(***************************************************************************)
(* Four nodes.  Three families of configurations: every graph of inputs    *)
(* from earlier nodes with every choice of unsafe nodes and shared models; *)
(* every such graph with declared dependencies as well; and every          *)
(* configuration in which each node names at most one other, itself, an    *)
(* unknown one or one twice, which contains all cycles of up to four.      *)
(***************************************************************************)
EXTENDS PipelinePlan

CONSTANTS a, b, c, d, m1, m2

MCNodeList == <<a, b, c, d>>
MCModel == {m1, m2}

(* Graphs whose edges go to earlier nodes: inB, inC and inD are what b, c  *)
(* and d may be given.                                                     *)
Forward(inB, inC, inD) ==
  {a :> {} @@ b :> x @@ c :> y @@ d :> z :
     x \in SUBSET inB, y \in SUBSET inC, z \in SUBSET inD}

NoDeclared == [n \in Node |-> <<>>]
NoModels == [n \in Node |-> {}]

(* What keeps a node from running beside others: a model, both, or itself. *)
Traits == {"free", "m1", "both", "unsafe"}

TraitModels(t) ==
  CASE t = "m1" -> {m1} [] t = "both" -> {m1, m2} [] OTHER -> {}

Split ==
  {[depends_on |-> NoDeclared, sources |-> f,
    parallel_safe |-> {n \in Node : t[n] # "unsafe"},
    models |-> [n \in Node |-> TraitModels(t[n])], workers |-> 2]
     : f \in Forward({}, {a, b}, {b, c}), t \in [Node -> Traits]}

Declared ==
  {[depends_on |-> [n \in Node |-> SetToSeq(f[n])], sources |-> g,
    parallel_safe |-> Node, models |-> NoModels, workers |-> 1]
     : f \in Forward({a}, {}, {a, b, c}), g \in Forward({}, {a, b}, {a, b, c})}

Defective ==
  {[depends_on |-> f, sources |-> [NoModels EXCEPT ![a] = s],
    parallel_safe |-> {}, models |-> NoModels, workers |-> 2]
     : f \in [Node -> {<<>>, <<b, b>>} \cup {<<n>> : n \in Node \cup {Unknown}}],
       s \in {{}, {a}, {d}, {Unknown}}}

MCConfigs == Split \cup Declared \cup Defective
=============================================================================
