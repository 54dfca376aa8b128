-------------------------- MODULE PipelineValidation --------------------------
(***************************************************************************)
(* PipelineValidator (src/core/pipeline_validator.cpp): what is wrong with *)
(* a configuration that was read, and the plan that a Pipeline is built    *)
(* from.  PipelinePlan shows the planning of layers loop by loop; here it  *)
(* is part of the whole.                                                   *)
(*                                                                         *)
(* A key of the blackboard is <<name, port>>, the name a Node's or         *)
(* "input".  The boundary is [inputs, outputs]: the ports that the input   *)
(* converters publish and that the output converters read, each with its   *)
(* key.  pass holds what is known of a configuration before its Nodes are  *)
(* gone through.                                                           *)
(***************************************************************************)
EXTENDS NodeCatalog, ModelRuntime, PipelineConfig

Diagnostic(code, subject, path) == [code |-> code, subject |-> subject, path |-> path]
Unless(condition, code, subject, path) ==
  IF condition THEN <<>> ELSE <<Diagnostic(code, subject, path)>>
ForEach(diagnostics) == FlattenSeq([i \in DOMAIN diagnostics |-> diagnostics[i]])

ValidateConfigFields(fields, json, subject) ==
  SetToSeq({Diagnostic(ConfigFieldErrorCode(error.kind), subject, error.path) :
              error \in NormalizeConfigObject(fields, json, <<>>).errors})

-----------------------------------------------------------------------------
(* Models *)

(* What is registered: the Nodes of Snapshot, models and backends. *)
Catalog == [nodes |-> Snapshot, models |-> BuiltInModels, backends |-> BuiltInBackends]

RegisteredTypes(catalog) ==
  {catalog.models[impl_name].model_type : impl_name \in DOMAIN catalog.models}
Selected(catalog, type, backend_type) ==
  FindImplementation(catalog.models, catalog.backends, type, backend_type)
Implementation(catalog, model) ==
  CHOOSE impl_name \in Selected(catalog, model.type, model.backend_type) : TRUE

ParseParameters(fields, json, subject, Valid(_)) ==
  LET Accepts(params) == params.ok /\ Valid(params.value)
      After(errors) ==
        IF errors # <<>> THEN errors
        ELSE Unless(Accepts(Parse(fields, json)), "invalid_combination", subject, <<>>)
  IN After(ValidateConfigFields(fields, json, subject))

ModelDiagnostics(catalog, model) ==
  LET Stop(code) == <<Diagnostic(code, model.name, <<>>)>>
      Of(impl_names, impl_name) ==
        IF impl_names = {} THEN Stop("backend_protocol_mismatch")
        ELSE IF impl_names # {impl_name} THEN Stop("registry_conflict")
        ELSE ParseParameters(catalog.models[impl_name].fields, model.params, model.name,
               LAMBDA params : ModelParametersValid(impl_name, params))
             \o ParseParameters(catalog.backends[model.backend_type].fields,
                  model.backend_params, model.name, LAMBDA params : TRUE)
  IN IF model.type \notin RegisteredTypes(catalog) THEN Stop("unknown_model_type")
     ELSE IF model.backend_type \notin DOMAIN catalog.backends THEN Stop("unknown_backend")
     ELSE Of(Selected(catalog, model.type, model.backend_type), Implementation(catalog, model))

(* A model is concurrent if both its definition and its backend are. *)
ModelPlan(catalog, model, impl_name) ==
  LET definition == catalog.models[impl_name]
      backend == catalog.backends[model.backend_type]
      Normalized(fields, json) == NormalizeConfigObject(fields, json, <<>>).value
  IN [name |-> model.name, impl_name |-> impl_name,
      backend_type |-> model.backend_type, model_file |-> model.file,
      model_params |-> Normalized(definition.fields, model.params),
      backend_params |-> Normalized(backend.fields, model.backend_params),
      concurrency |-> IF Serialized \in {definition.concurrency, backend.concurrency}
                      THEN Serialized ELSE Concurrent]

-----------------------------------------------------------------------------
(* Nodes by themselves *)

NodeNames(pass) == Range(Column(pass.config.nodes, "name"))
NodeOf(pass, name) == SelectSeq(pass.config.nodes, LAMBDA n : n.name = name)[1]
KnownType(pass, node) == node.type \in DOMAIN pass.catalog.nodes.entries
FindNode(pass, node) == pass.catalog.nodes.entries[node.type]

(* The model that a Node names for a slot, "" for none. *)
BoundModel(node, slot) ==
  LET json == node.params.value[slot.field]
  IN IF Has(node.params, slot.field) /\ json.type = "string" THEN json.value ELSE ""

ModelReferences(pass, node) ==
  LET Meant(slot) == SelectSeq(pass.config.models, LAMBDA m : m.name = BoundModel(node, slot))
      Reference(slot) ==
        IF Meant(slot) = <<>>
        THEN <<Diagnostic("unknown_model_reference", node.name, <<slot.field>>)>>
        ELSE LET type == Meant(slot)[1].type
             IN Unless(type = slot.type \/ type \notin RegisteredTypes(pass.catalog),
                       "model_type_mismatch", node.name, <<slot.field>>)
      slots == FindNode(pass, node).models
  IN ForEach([s \in DOMAIN slots |-> Reference(slots[s])])

NodeDiagnostics(pass, node) ==
  IF ~KnownType(pass, node) THEN <<Diagnostic("unknown_node_type", node.name, <<>>)>>
  ELSE ValidateConfigFields(ConfigFields(FindNode(pass, node)), node.params, node.name)
       \o ModelReferences(pass, node)

UsedModels(pass) ==
  UNION {{BoundModel(node, slot) : slot \in Range(FindNode(pass, node).models)} :
           node \in Range(pass.config.nodes)}

(* Nothing is said of models while some Node is not known. *)
UnusedModels(pass) ==
  IF \E node \in Range(pass.config.nodes) : ~KnownType(pass, node) THEN <<>>
  ELSE LET models == pass.config.models
       IN ForEach([m \in DOMAIN models |->
            Unless(models[m].name \in UsedModels(pass), "unused_model", models[m].name, <<>>)])

-----------------------------------------------------------------------------
(* Sources *)

(* What a key promises of what is under it. *)
Contract(port) == [type |-> port.type, flow |-> port.flow]

(* Lifetimes are followed later. *)
Contracts(pass) ==
  LET known == {node \in Range(pass.config.nodes) : KnownType(pass, node)}
      Outputs(node) ==
        [key \in {<<node.name, o.name>> : o \in Range(FindNode(pass, node).outputs)} |->
           Contract(Named(FindNode(pass, node).outputs, key[2]))]
      inputs == pass.boundary.inputs
  IN [key \in Range(Column(inputs, "key")) |->
        Contract(SelectSeq(inputs, LAMBDA p : p.key = key)[1])]
     @@ FoldFunctionOnSet(LAMBDA f, g : f @@ g, <<>>, [node \in known |-> Outputs(node)], known)

(* Why a source cannot be resolved; "unresolved": its Node's fault. *)
SourceCode(pass, key) ==
  IF Len(key) # 2 \/ "" \in Range(key) THEN "field_type"
  ELSE IF key[1] \notin {"input"} \cup NodeNames(pass) THEN "unknown_node_reference"
  ELSE IF key[1] # "input" /\ ~KnownType(pass, NodeOf(pass, key[1])) THEN "unresolved"
  ELSE IF key \notin DOMAIN pass.contracts THEN "unknown_port_reference" ELSE ""

DeclaredInput(pass, node, port) ==
  port \in Range(Column(FindNode(pass, node).inputs, "name"))

InputCode(pass, node, port) ==
  LET key == node.inputs[port]
  IN Ask(DeclaredInput(pass, node, port), "unknown_field")
     ?? SourceCode(pass, key) ?? Ask(key[1] # node.name, "dag_cycle")

SourceDiagnostics(pass, node) ==
  LET ports == SetToSeq(DOMAIN node.inputs) IN
  IF ~KnownType(pass, node) THEN <<>>
  ELSE ForEach([p \in DOMAIN ports |->
         Unless(InputCode(pass, node, ports[p]) \in {"", "unresolved"},
                InputCode(pass, node, ports[p]), node.name, <<ports[p]>>)])

BoundarySource(pass, consumer) ==
  IF consumer.key = Unbound
  THEN Unless(~consumer.required, "missing_output_producer", "output", <<consumer.name>>)
  ELSE Unless(SourceCode(pass, consumer.key) \in {"", "unresolved"},
              SourceCode(pass, consumer.key), "output", <<consumer.name>>)

ReferencedKeys(pass) ==
  {key \in
     UNION {{node.inputs[port] :
               port \in {q \in DOMAIN node.inputs : DeclaredInput(pass, node, q)}} :
              node \in {n \in Range(pass.config.nodes) : KnownType(pass, n)}}
     \cup Range(Column(pass.boundary.outputs, "key")) :
   SourceCode(pass, key) = ""}

-----------------------------------------------------------------------------
(* Topology *)

(* depends_on, and the Nodes that inputs are taken from. *)
DependsOn(pass, node) ==
  LET data == {node.inputs[port][1] :
                 port \in {q \in DOMAIN node.inputs : InputCode(pass, node, q) = ""}}
  IN node.depends_on \o (IF KnownType(pass, node)
                         THEN SetToSeq(data \ ({"input"} \cup Range(node.depends_on))) ELSE <<>>)

DependencyDiagnostics(pass, name, names) ==
  LET Code(d) == Ask(names[d] # name, "dag_cycle")
                 ?? Ask(names[d] \in NodeNames(pass), "invalid_dependency")
                 ?? Ask(names[d] \notin Range(SubSeq(names, 1, d - 1)), "duplicate_dependency")
  IN ForEach([d \in DOMAIN names |-> Unless(Code(d) = "", Code(d), name, <<names[d]>>)])

(* A layer is followed by the Nodes whose last dependency is in it; needs  *)
(* are the dependencies that there are, by name.                           *)
Needs(pass) ==
  [name \in NodeNames(pass) |-> (Range(pass.depends[name]) \ {name}) \cap NodeNames(pass)]
NextLayer(names, needs, done, current) ==
  LET Freed(c) == LET past == done \cup Range(SubSeq(current, 1, c)) IN
        SelectSeq(names, LAMBDA n : current[c] \in needs[n] /\ needs[n] \subseteq past)
  IN ForEach([c \in DOMAIN current |-> Freed(c)])

TopologicalLayers(names, needs) ==
  LET Add(layers, next) == IF next = <<>> THEN layers ELSE Append(layers, next)
      Step(layers, n) ==
        LET done == UNION {Range(layer) : layer \in Range(Front(layers))}
        IN IF layers = <<>> THEN <<>>
           ELSE Add(layers, NextLayer(names, needs, done, Last(layers)))
  IN FoldLeft(Step, Add(<<>>, SelectSeq(names, LAMBDA n : needs[n] = {})), names)

TopologyDiagnostics(pass) ==
  LET names == Column(pass.config.nodes, "name") IN
  ForEach([n \in DOMAIN names |-> DependencyDiagnostics(pass, names[n], pass.depends[names[n]])])
  \o Unless(Len(ForEach(pass.layers)) = Len(names), "dag_cycle", "", <<>>)

(* What may not run beside others of its layer gets a layer of its own. *)
SplitLayer(pass, models, layer) ==
  LET serialized == {m.name : m \in {p \in Range(models) : p.concurrency = Serialized}}
      Declaration(name) == FindNode(pass, NodeOf(pass, name))
      Locked(name) == serialized \cap
        {BoundModel(NodeOf(pass, name), slot) : slot \in Range(Declaration(name).models)}
      Step(split, name) ==
        IF Declaration(name).parallel_safe /\ Locked(name) \cap split.used = {}
        THEN [split EXCEPT !.parallel = Append(@, name), !.used = @ \cup Locked(name)]
        ELSE [split EXCEPT !.sequential = Append(@, <<name>>)]
      Layers(split) ==
        (IF split.parallel = <<>> THEN <<>> ELSE <<split.parallel>>) \o split.sequential
  IN Layers(FoldLeft(Step, [parallel |-> <<>>, sequential |-> <<>>, used |-> {}], layer))

-----------------------------------------------------------------------------
(* How many items a request has under a key *)

PerRequestShape == [kind |-> "per_request", origin |-> <<>>]
Multi(origin) == [kind |-> "multi", origin |-> origin]
UnknownShape == [kind |-> "unknown", origin |-> <<>>]

BoundaryShape(port) ==
  IF port.flow.cardinality = "1:1" THEN PerRequestShape ELSE Multi(port.key)


NodeOutputShape(output, item_shape, origin) ==
  CASE output.flow.cardinality = "1:1" -> item_shape
    [] output.flow.cardinality = "1:N" -> Multi(origin)
    [] output.flow.cardinality = "N:1" -> PerRequestShape
    [] OTHER -> UnknownShape

(* The shape of the inputs that are taken item by item: they must agree.   *)
ItemShape(shapes) ==
  LET Step(item, shape) ==
        LET known == UnknownShape \notin {item.shape, shape}
            differ == known /\ item.shape # shape
        IN [shape |-> IF known /\ ~differ THEN shape ELSE UnknownShape,
            agree |-> item.agree /\ ~differ]
  IN FoldLeft(Step, [shape |-> IF shapes = <<>> THEN PerRequestShape ELSE shapes[1], agree |-> TRUE],
              IF shapes = <<>> THEN <<>> ELSE Tail(shapes))

ProvenanceCompatible(producer, consumer) ==
  consumer \in {"preserve", "aggregate"} \/ producer = consumer
LifetimeCompatible(producer, consumer) == producer = "session" \/ consumer = "request"

ValidatePortFlowContract(producer, consumer, subject, path) ==
  Unless(ProvenanceCompatible(producer.flow.provenance, consumer.flow.provenance),
         "port_provenance_mismatch", subject, path)
  \o Unless(LifetimeCompatible(producer.flow.lifetime, consumer.flow.lifetime),
            "port_lifetime_mismatch", subject, path)

-----------------------------------------------------------------------------
(* Nodes in their order: a step adds the Node's plan, the shapes and       *)
(* lifetimes of its outputs, and what is wrong with its ports.             *)

(* A Node that takes its own output does not know its shape yet. *)
ShapeOf(walk, key) == IF key \in DOMAIN walk.shapes THEN walk.shapes[key] ELSE UnknownShape

Source(node, input) == node.inputs[input.name]
Missing(node, input) ==
  Unless(~input.required \/ input.name \in DOMAIN node.inputs,
         "missing_input_producer", node.name, <<input.name>>)
Found(walk, node, input) ==
  /\ Source(node, input) \in DOMAIN walk.contracts
  /\ walk.contracts[Source(node, input)].type = input.type
Mismatch(walk, node, input) ==
  LET path == <<input.name>> IN
  IF Source(node, input) \notin DOMAIN walk.contracts THEN <<>>
  ELSE IF ~Found(walk, node, input)
  THEN <<Diagnostic("port_type_mismatch", node.name, path)>>
  ELSE ValidatePortFlowContract(walk.contracts[Source(node, input)], input, node.name, path)

(* Parameters are parsed again for what is asked of all of them together. *)
ParametersAreValid(node, fields, connected) ==
  LET given == Names(fields) \cap DOMAIN node.params.value
      Valid(params) == params.ok /\ ValidateState(node.type, params.value, connected)
  IN Valid(Parse(fields, JsonObject(Restrict(node.params.value, given))))

ConnectionDiagnostics(node, definition, errors, connected) ==
  Unless(PortConstraints(node.type, connected), "invalid_combination", node.name, <<>>)
  \o Unless(errors # {} \/ ParametersAreValid(node, definition.params, connected),
            "invalid_combination", node.name, <<"params">>)

(* found: the inputs that have a source of their type.  An output that     *)
(* follows one of them lives as long as it does.                           *)
NodePlan(pass, walk, node, definition, found, params) ==
  LET Port(port, key) == [key |-> key, type |-> port.type]
      Lifetime(input) == walk.contracts[Source(node, input)].flow.lifetime
      read == {o \in Range(definition.outputs) : <<node.name, o.name>> \in pass.referenced}
  IN [name |-> node.name, node_type |-> node.type, params |-> params,
      models |-> [slot \in Range(Column(definition.models, "slot")) |->
        LET m == SelectSeq(definition.models, LAMBDA d : d.slot = slot)[1]
        IN [model |-> BoundModel(node, m), type |-> m.type]],
      session |-> {i.name : i \in {j \in found : Lifetime(j) = "session"}},
      connected |-> Range(Column(definition.inputs, "name")) \cap DOMAIN node.inputs,
      ports |->
        [input |-> [port \in {i.name : i \in found} |->
           Port(Named(definition.inputs, port), node.inputs[port])],
         output |-> [port \in {o.name : o \in read} |->
           Port(Named(definition.outputs, port), <<node.name, port>>)]]]
OutputContract(walk, node, definition, found, name) ==
  LET output == Named(definition.outputs, name)
      follows == output.flow.follows
  IN IF follows \in {i.name : i \in found}
     THEN [Contract(output) EXCEPT !.flow.lifetime =
             walk.contracts[node.inputs[follows]].flow.lifetime]
     ELSE Contract(output)

PlanBound(pass, walk, node, definition, bound) ==
  LET found == {input \in Range(bound) : Found(walk, node, input)}
      connected == Range(Column(bound, "name"))
      keys == {<<node.name, o.name>> : o \in Range(definition.outputs)}
      inputs == definition.inputs
      itemwise == SelectSeq(bound, LAMBDA i : i.flow.cardinality = "1:1")
      Planned(item, normalized) ==
        [contracts |-> [key \in keys |-> OutputContract(walk, node, definition, found, key[2])]
                       @@ walk.contracts,
         shapes |-> [key \in keys |->
           NodeOutputShape(Named(definition.outputs, key[2]), item.shape, key)] @@ walk.shapes,
         plans |-> node.name :> NodePlan(pass, walk, node, definition, found, normalized.value)
                   @@ walk.plans,
         diagnostics |-> walk.diagnostics
           \o ForEach([i \in DOMAIN inputs |-> Missing(node, inputs[i])])
           \o ForEach([i \in DOMAIN bound |-> Mismatch(walk, node, bound[i])])
           \o Unless(item.agree, "port_cardinality_mismatch", node.name, <<>>)
           \o ConnectionDiagnostics(node, definition, normalized.errors, connected)]
  IN Planned(ItemShape([i \in DOMAIN itemwise |->
                 IF itemwise[i] \in found THEN ShapeOf(walk, Source(node, itemwise[i]))
                 ELSE UnknownShape]),
             NormalizeConfigObject(ConfigFields(definition), node.params, <<>>))

PlanNode(pass, walk, node) ==
  LET definition == FindNode(pass, node) IN
  PlanBound(pass, walk, node, definition,
            SelectSeq(definition.inputs, LAMBDA i : i.name \in DOMAIN node.inputs))

(* What the output converters read. *)
BoundaryDiagnostics(walk, consumer) ==
  LET key == consumer.key
      producer == walk.contracts[key]
  IN IF key = Unbound \/ key \notin DOMAIN walk.contracts THEN <<>>
     ELSE IF producer.type # consumer.type
     THEN <<Diagnostic("port_type_mismatch", "output", <<consumer.name>>)>>
     ELSE ValidatePortFlowContract(producer, consumer, "output", <<consumer.name>>)
          \o Unless(~(consumer.flow.cardinality = "1:1" /\ ShapeOf(walk, key).kind = "multi"),
                    "port_cardinality_mismatch", "output", <<consumer.name>>)

-----------------------------------------------------------------------------

(* What is known before the Nodes are gone through, in steps. *)
Known(catalog, config, boundary) ==
  LET Promised(pass) == [pass EXCEPT !.contracts = Contracts(pass)]
      Referenced(pass) == [pass EXCEPT !.referenced = ReferencedKeys(pass)]
      Depending(pass) ==
        [pass EXCEPT !.depends = [n \in NodeNames(pass) |-> DependsOn(pass, NodeOf(pass, n))]]
      Layered(pass) ==
        [pass EXCEPT !.layers = TopologicalLayers(Column(config.nodes, "name"), Needs(pass))]
  IN Layered(Depending(Referenced(Promised(
       [catalog |-> catalog, config |-> config, boundary |-> boundary,
        contracts |-> <<>>, referenced |-> {}, depends |-> <<>>, layers |-> <<>>]))))

DiagnosticsBefore(pass) ==
  LET config == pass.config
      consumers == pass.boundary.outputs
  IN Unless(~pass.catalog.nodes.has_conflict, "registry_conflict", "", <<>>)
     \o ForEach([m \in DOMAIN config.models |-> ModelDiagnostics(pass.catalog, config.models[m])])
     \o ForEach([n \in DOMAIN config.nodes |-> NodeDiagnostics(pass, config.nodes[n])])
     \o UnusedModels(pass)
     \o Unless(IsInjective(Column(pass.boundary.inputs, "key")),
               "duplicate_port_producer", "input", <<>>)
     \o ForEach([n \in DOMAIN config.nodes |-> SourceDiagnostics(pass, config.nodes[n])])
     \o ForEach([o \in DOMAIN consumers |-> BoundarySource(pass, consumers[o])])

WalkNodes(pass) ==
  LET inputs == pass.boundary.inputs
      start ==
        [contracts |-> pass.contracts, plans |-> <<>>, diagnostics |-> <<>>,
         shapes |-> [key \in Range(Column(inputs, "key")) |->
           BoundaryShape(SelectSeq(inputs, LAMBDA p : p.key = key)[1])]]
      known == SelectSeq(ForEach(pass.layers), LAMBDA name : KnownType(pass, NodeOf(pass, name)))
  IN FoldLeft(LAMBDA walk, name : PlanNode(pass, walk, NodeOf(pass, name)), start, known)
DiagnosticsAfter(pass, walk) ==
  LET consumers == pass.boundary.outputs
  IN walk.diagnostics
     \o ForEach([o \in DOMAIN consumers |-> BoundaryDiagnostics(walk, consumers[o])])

Plan(pass, walk) ==
  LET config == pass.config
      layers == pass.layers
      Split(models) ==
        [diagnostics |-> <<>>, models |-> models,
         layers |-> IF config.workers = 1 THEN layers
                    ELSE ForEach([l \in DOMAIN layers |-> SplitLayer(pass, models, layers[l])]),
         workers |-> config.workers, nodes |-> walk.plans, shapes |-> walk.shapes,
         input_ports |-> Range(Column(pass.boundary.inputs, "key")) \cap pass.referenced]
  IN Split([m \in DOMAIN config.models |->
       ModelPlan(pass.catalog, config.models[m], Implementation(pass.catalog, config.models[m]))])

PlanUnless(diagnostics, pass, walk) ==
  IF diagnostics = <<>> THEN Plan(pass, walk)
  ELSE [diagnostics |-> diagnostics, models |-> <<>>, layers |-> <<>>, nodes |-> <<>>,
        shapes |-> <<>>, input_ports |-> {}]
(* An order that cannot be found ends the pass. *)
Conclude(pass, topology, walk) ==
  PlanUnless(DiagnosticsBefore(pass) \o
               IF topology # <<>> THEN topology ELSE DiagnosticsAfter(pass, walk), pass, walk)
ValidateKnown(pass) == Conclude(pass, TopologyDiagnostics(pass), WalkNodes(pass))

(* [diagnostics, models, layers, workers, nodes, shapes, input_ports]:     *)
(* nodes are the plans, input_ports the keys of the input that are read.   *)
ValidateAndPlan(catalog, config, boundary) == ValidateKnown(Known(catalog, config, boundary))
=============================================================================
