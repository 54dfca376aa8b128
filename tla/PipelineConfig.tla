---------------------------- MODULE PipelineConfig ----------------------------
(***************************************************************************)
(* ParsePipelineConfig (src/core/pipeline_config.cpp): the JSON document   *)
(* of a Pipeline becomes its models and Nodes, or the code of the first    *)
(* thing that is wrong with it, in the order in which it is read.          *)
(*                                                                         *)
(* A name is a TLA+ string, the source of an input the sequence of its     *)
(* parts between the dots.                                                 *)
(***************************************************************************)
EXTENDS Parameters

CONSTANTS MaxModels, MaxNodes, MaxDependencies, MaxWorkers \* limits of the structure

(* The first of two codes that is one. *)
a ?? b == IF a # "" THEN a ELSE b
FirstError(codes) ==
  LET bad == {i \in DOMAIN codes : codes[i] # ""} IN IF bad = {} THEN "" ELSE codes[Min(bad)]
Ask(condition, code) == IF condition THEN "" ELSE code

Has(object, field) == field \in DOMAIN object.value
HasType(object, field, type) == Has(object, field) => object.value[field].type = type
Given(object, field, default) == IF Has(object, field) THEN object.value[field].value ELSE default

(* An object with all required fields and no others than those allowed. *)
CheckObject(object, required, allowed) ==
  Ask(object.type = "object", "field_type")
  ?? Ask(DOMAIN object.value \subseteq required \cup allowed, "unknown_field")
  ?? Ask(required \subseteq DOMAIN object.value, "missing_field")

ReadString(object, field) ==
  Ask(object.value[field].type = "string", "field_type")
  ?? Ask(object.value[field].value # "", "field_range")

Repeats(items, field, i) ==
  \E j \in 1 .. i - 1 : items[j].value[field].value = items[i].value[field].value

-----------------------------------------------------------------------------
(* Models *)

ModelError(items, i) ==
  LET item == items[i]
      backend == item.value["backend"]
  IN CheckObject(item, {"type", "name", "file", "backend"}, {"params"})
     ?? ReadString(item, "type") ?? ReadString(item, "name") ?? ReadString(item, "file")
     ?? CheckObject(backend, {"type"}, {"params"}) ?? ReadString(backend, "type")
     ?? Ask(~Repeats(items, "name", i), "duplicate_model_name")
     ?? Ask(HasType(item, "params", "object") /\ HasType(backend, "params", "object"),
            "field_type")

ModelsError(root) ==
  LET items == root.value["models"].value IN
  IF ~Has(root, "models") THEN ""
  ELSE Ask(root.value["models"].type = "array", "field_type")
       ?? Ask(Len(items) <= MaxModels, "field_range")
       ?? FirstError([i \in DOMAIN items |-> ModelError(items, i)])

ParsedModel(item) ==
  LET backend == item.value["backend"]
      Params(object) == JsonObject(Given(object, "params", <<>>))
  IN [type |-> item.value["type"].value, name |-> item.value["name"].value,
      file |-> item.value["file"].value, params |-> Params(item),
      backend_type |-> backend.value["type"].value, backend_params |-> Params(backend)]

-----------------------------------------------------------------------------
(* Nodes *)

ReservedNames == {"input", "output"}

NameError(item, field) ==
  Ask(Has(item, field), "missing_field") ?? ReadString(item, field)

DependenciesError(item) ==
  LET names == item.value["depends_on"].value
      Name(d) == Ask(names[d].type = "string", "field_type")
                 ?? Ask(names[d].value # "", "field_range")
  IN IF ~Has(item, "depends_on") THEN ""
     ELSE Ask(HasType(item, "depends_on", "array"), "field_type")
          ?? Ask(Len(names) <= MaxDependencies, "field_range")
          ?? FirstError([d \in DOMAIN names |-> Name(d)])

NodeError(items, i) ==
  LET item == items[i]
      inputs == item.value["inputs"].value
  IN Ask(item.type = "object", "field_type")
     ?? Ask(DOMAIN item.value \subseteq {"type", "name", "params", "inputs", "depends_on"},
            "unknown_field")
     ?? NameError(item, "type") ?? NameError(item, "name")
     ?? Ask(item.value["name"].value \notin ReservedNames, "invalid_node_name")
     ?? Ask(~Repeats(items, "name", i), "duplicate_node_name")
     ?? Ask(HasType(item, "params", "object") /\ HasType(item, "inputs", "object"),
            "field_type")
     ?? Ask(Has(item, "inputs") => \A port \in DOMAIN inputs : inputs[port].type = "string",
            "field_type")
     ?? DependenciesError(item)

NodesError(root) ==
  LET items == root.value["pipeline"].value IN
  Ask(Has(root, "pipeline"), "missing_field")
  ?? Ask(HasType(root, "pipeline", "array"), "field_type")
  ?? Ask(Len(items) \in 1 .. MaxNodes, "field_range")
  ?? FirstError([i \in DOMAIN items |-> NodeError(items, i)])

ParsedNode(item) ==
  LET Values(parts) == [k \in DOMAIN parts |-> parts[k].value] IN
  [type |-> item.value["type"].value, name |-> item.value["name"].value,
   params |-> JsonObject(Given(item, "params", <<>>)),
   inputs |-> Values(Given(item, "inputs", <<>>)),
   depends_on |-> Values(Given(item, "depends_on", <<>>))]

-----------------------------------------------------------------------------

WorkersError(root) ==
  LET workers == root.value["max_parallel_workers"] IN
  IF ~Has(root, "max_parallel_workers") THEN ""
  ELSE Ask(workers.type = "integer", "field_type")
       ?? Ask(workers.value \in 1 .. MaxWorkers, "field_range")

DocumentError(root) ==
  Ask(root.type = "object", "root_type")
  ?? Ask(DOMAIN root.value \subseteq {"comment", "max_parallel_workers", "models", "pipeline"},
         "unknown_field")
  ?? Ask(HasType(root, "comment", "string"), "field_type")
  ?? WorkersError(root) ?? ModelsError(root) ?? NodesError(root)

(* [code, config]: the code is "" for a document that is read. *)
ParsePipelineConfig(root) ==
  LET models == Given(root, "models", <<>>)
      nodes == root.value["pipeline"].value
  IN IF DocumentError(root) # "" THEN [code |-> DocumentError(root), config |-> Null]
     ELSE [code |-> "",
           config |->
             [workers |-> Given(root, "max_parallel_workers", 1),
              models |-> [i \in DOMAIN models |-> ParsedModel(models[i])],
              nodes |-> [i \in DOMAIN nodes |-> ParsedNode(nodes[i])]]]
=============================================================================
