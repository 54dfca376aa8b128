------------------------------ MODULE AuthorNode -----------------------------
(***************************************************************************)
(* What include/nodes/function_node.h makes of a NodeSpec: which ports,    *)
(* models and Control commands a Node may declare, how Init binds them to  *)
(* the plan, and what ProcessNode reads from and publishes to the          *)
(* blackboard of a request.  Plans and boards are functions on keys.       *)
(***************************************************************************)
EXTENDS TraceableBatch

CONSTANT Unbound  \* the empty blackboard key

(* A NodeSpec is a record:                                                 *)
(*   inputs     sequence of [name, type, required, allow_missing, flow]    *)
(*   outputs    sequence of [name, type, member, anchor, flow], "" for no  *)
(*              anchor                                                     *)
(*   models     sequence of [slot, field, type]                            *)
(*   parameters the names bound in Parameters                              *)
(*   commands   sequence of [id, name, fields]                             *)

(* A flow is what the validator is told of a port: how its items relate to *)
(* those of a request, and how long they live, as long as an input's if it *)
(* follows one.                                                            *)
PortFlow(cardinality, provenance) ==
  [cardinality |-> cardinality, provenance |-> provenance,
   lifetime |-> "request", follows |-> ""]
PreserveByRequest == PortFlow("1:1", "preserve")
AggregateByRequest == PortFlow("N:1", "aggregate")
GenerateSubId == PortFlow("1:N", "generate_sub_id")
WithFlow(port, flow) == [port EXCEPT !.flow = flow]

Required(name, type) ==
  [name |-> name, type |-> type, required |-> TRUE, allow_missing |-> FALSE,
   flow |-> PreserveByRequest]
Optional(name, type) == [Required(name, type) EXCEPT !.required = FALSE]
OptionalValue(name, type) == [Optional(name, type) EXCEPT !.allow_missing = TRUE]

ProducedBatch(name, type, member) ==
  [name |-> name, type |-> type, member |-> member, anchor |-> "",
   flow |-> PreserveByRequest]
PreservedOutput(name, type, member, anchor) ==
  [ProducedBatch(name, type, member) EXCEPT !.anchor = anchor]

Named(ports, name) == ports[Min({i \in DOMAIN ports : ports[i].name = name})]

-----------------------------------------------------------------------------
(* Declaring: a constructor throws unless its part holds. *)

OutputsOf(outputs) ==
  /\ IsInjective(Column(outputs, "name"))
  /\ IsInjective(Column(outputs, "member"))

CheckAnchors(spec) ==
  \A o \in Range(spec.outputs) :
    o.anchor # "" => o.anchor \in Range(Column(spec.inputs, "name"))

ModelsOf(models) ==
  IsInjective(Column(models, "slot")) /\ IsInjective(Column(models, "field"))

ValidateControlCommands(spec) ==
  /\ \A c \in Range(spec.commands) :
       /\ c.id > 0 /\ c.name # ""
       /\ c.fields # <<>> /\ IsInjective(c.fields)
       /\ Range(c.fields) \subseteq spec.parameters \ Range(Column(spec.models, "field"))
  /\ IsInjective(Column(spec.commands, "id"))
  /\ IsInjective(Column(spec.commands, "name"))

NodeSpec(spec) ==
  /\ OutputsOf(spec.outputs) /\ CheckAnchors(spec)
  /\ ModelsOf(spec.models) /\ ValidateControlCommands(spec)

(* The published definition: the model slots are config fields as well,    *)
(* and a command's schema lists the fields it may replace.                 *)
BuildDefinition(spec) ==
  [inputs |-> spec.inputs,
   outputs |-> spec.outputs,
   config_fields |-> spec.parameters \cup Range(Column(spec.models, "field")),
   model_dependencies |-> spec.models,
   control_commands |-> [c \in Range(Column(spec.commands, "id")) |->
     Range(SelectSeq(spec.commands, LAMBDA d : d.id = c)[1].fields)]]

-----------------------------------------------------------------------------
(* InitNode.  plan.ports[dir][name] is the key and type that the plan      *)
(* gives a port, plan.models[slot] the model; a name may have neither.     *)

FindPort(plan, dir, name) ==
  IF name \in DOMAIN plan.ports[dir] THEN plan.ports[dir][name]
  ELSE [key |-> Unbound, type |-> ""]

PortBindingStatus(plan, dir, port) ==
  LET binding == FindPort(plan, dir, port.name) IN
  IF binding.key = Unbound THEN "unbound"
  ELSE IF binding.type # port.type THEN "type_mismatch" ELSE "bound"

BindInputs(plan, spec) ==
  \A port \in Range(spec.inputs) :
    LET status == PortBindingStatus(plan, "input", port) IN
    status # "type_mismatch" /\ (port.required => status = "bound")

BindOutputs(plan, spec) ==
  \A port \in Range(spec.outputs) :
    PortBindingStatus(plan, "output", port) # "type_mismatch"

(* Loaded[name] is the interface of a model of the session. *)
BindModels(plan, spec, Loaded) ==
  \A m \in Range(spec.models) :
    /\ m.slot \in DOMAIN plan.models
    /\ LET binding == plan.models[m.slot] IN
         /\ binding.model # "" /\ binding.type = m.type
         /\ binding.model \in DOMAIN Loaded /\ Loaded[binding.model] = m.type

(* The parameters are valid by themselves, and with the models.            *)
InitNode(plan, spec, Loaded, ParametersValid, ModelsFit) ==
  /\ BindInputs(plan, spec)
  /\ BindOutputs(plan, spec)
  /\ ParametersValid
  /\ BindModels(plan, spec, Loaded)
  /\ ModelsFit

-----------------------------------------------------------------------------
(* ProcessNode.  board[key] is [type, batch]. *)

(* What a port reads: its batch, Null, or why the Node fails. *)
PopulateInput(plan, port, board) ==
  LET key == FindPort(plan, "input", port.name).key IN
  IF key = Unbound
  THEN IF port.required THEN Failure("not_bound", Null, "missing_input")
       ELSE Success(Null)
  ELSE IF key \in DOMAIN board /\ board[key].type # port.type
  THEN Failure("type_mismatch", Null, "missing_input")
  ELSE IF key \in DOMAIN board THEN Success(board[key].batch)
  ELSE IF port.allow_missing THEN Success(Null)
  ELSE Failure("missing", Null, "missing_input")

InputsReady(plan, spec, board) ==
  \A port \in Range(spec.inputs) : PopulateInput(plan, port, board).ok

PopulateInputs(plan, spec, board) ==
  [name \in Range(Column(spec.inputs, "name")) |->
     PopulateInput(plan, Named(spec.inputs, name), board).value]

(* Does an output line up with the input it is said to preserve? *)
OutputAlignment(inputs, port, batch) ==
  IF port.anchor = "" THEN "none"
  ELSE IF inputs[port.anchor] = Null
  THEN IF batch = <<>> THEN "none" ELSE "count_mismatch"
  ELSE Alignment(inputs[port.anchor], batch)

(* value[member] is a batch.  "none", or the first output's mismatch. *)
ValidateOutputs(spec, inputs, value) ==
  LET Of(o) == OutputAlignment(inputs, spec.outputs[o], value[spec.outputs[o].member])
      bad == {o \in DOMAIN spec.outputs : Of(o) # "none"}
  IN IF bad = {} THEN "none" ELSE Of(Min(bad))

(* The outputs that go to the board; one without a key goes nowhere.  A    *)
(* key that is taken makes Publish throw, after the outputs before it.     *)
Publish(plan, spec, value, board) ==
  LET KeyOf(o) == FindPort(plan, "output", spec.outputs[o].name).key
      bound == {o \in DOMAIN spec.outputs : KeyOf(o) # Unbound}
      taken == {o \in bound : \/ KeyOf(o) \in DOMAIN board
                             \/ \E p \in bound : p < o /\ KeyOf(p) = KeyOf(o)}
      placed == {o \in bound : \A t \in taken : o < t}
      Placed(key) == spec.outputs[CHOOSE o \in placed : KeyOf(o) = key]
  IN [code |-> IF taken = {} THEN "ok" ELSE "internal_exception",
      board |-> [key \in DOMAIN board \cup {KeyOf(o) : o \in placed} |->
        IF key \in DOMAIN board THEN board[key]
        ELSE [type |-> Placed(key).type, batch |-> value[Placed(key).member]]]]

(* Mutant: the outputs are published before they are validated. *)
FinishRunPublishFirst(plan, spec, inputs, result, board) ==
  IF ~result.ok
  THEN [code |-> IF result.code = "" THEN "business_error" ELSE result.code,
        board |-> board]
  ELSE LET verdict == ValidateOutputs(spec, inputs, result.value)
           published == Publish(plan, spec, result.value, board)
       IN IF verdict # "none" THEN [published EXCEPT !.code = OutputFailure(verdict)]
          ELSE published

(* What a Node makes of its Run function's result: nothing is published    *)
(* unless all outputs are as declared.                                     *)
FinishRun(plan, spec, inputs, result, board) ==
  IF ~result.ok
  THEN [code |-> IF result.code = "" THEN "business_error" ELSE result.code,
        board |-> board]
  ELSE LET verdict == ValidateOutputs(spec, inputs, result.value) IN
       IF verdict # "none" THEN [code |-> OutputFailure(verdict), board |-> board]
       ELSE Publish(plan, spec, result.value, board)
=============================================================================
