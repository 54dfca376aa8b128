------------------------------ MODULE Deployment ------------------------------
(***************************************************************************)
(* From the document that a deployment is configured with to a validated   *)
(* plan (src/adapter): its io entries name converters, whose ports become  *)
(* the boundary that the Pipeline is validated against.                    *)
(***************************************************************************)
EXTENDS PipelineValidation, Converters

CONSTANTS
  OutsideFiles,  \* names of files that are not under the document's directory
  MaxPayload     \* the most bytes that a binding gives a response

-----------------------------------------------------------------------------
(* The document *)

EntryError(entry, side) ==
  LET inputs == entry.value["inputs"]
      allowed == {"params"} \cup (IF side = "output" THEN {"inputs"} ELSE {})
  IN Ask(/\ CheckObject(entry, {"type", "name"}, allowed) = ""
         /\ ReadString(entry, "type") = "" /\ ReadString(entry, "name") = ""
         /\ HasType(entry, "params", "object"), "deployment_error")
     ?? Ask(Has(entry, "inputs") =>
              /\ inputs.type = "object"
              /\ \A port \in DOMAIN inputs.value : inputs.value[port].type = "string",
            "field_type")

SideError(root, side) ==
  LET entries == root.value["io"].value[side] IN
  Ask(entries.type = "array" /\ entries.value # <<>>, "deployment_error")
  ?? FirstError([i \in DOMAIN entries.value |-> EntryError(entries.value[i], side)])

DocumentFields == {"comment", "max_parallel_workers", "models"}
SplitError(root) ==
  Ask(/\ CheckObject(root, {"io", "pipeline"}, DocumentFields) = ""
      /\ CheckObject(root.value["io"], {"input", "output"}, {}) = "", "deployment_error")
  ?? SideError(root, "input") ?? SideError(root, "output")

(* The entries of a side, and the document of the Pipeline alone. *)
Entries(root, side) ==
  LET entries == root.value["io"].value[side].value
      Sources(inputs) == [port \in DOMAIN inputs |-> inputs[port].value]
  IN [i \in DOMAIN entries |->
        [key |-> <<entries[i].value["type"].value, entries[i].value["name"].value>>,
         params |-> JsonObject(Given(entries[i], "params", <<>>)),
         inputs |-> Sources(Given(entries[i], "inputs", <<>>))]]
NeutralPipeline(root) == JsonObject(Restrict(root.value, DOMAIN root.value \ {"io"}))

(* Files are looked at only where the model's parameters can be known.     *)
Resolvable(catalog, item) ==
  LET backend == item.value["backend"] IN
  /\ item.type = "object"
  /\ \A field \in {"type", "name", "file"} : Has(item, field) /\ HasType(item, field, "string")
  /\ item.value["name"].value # "" /\ HasType(item, "params", "object")
  /\ Has(item, "backend") /\ backend.type = "object"
  /\ Has(backend, "type") /\ HasType(backend, "type", "string")
  /\ HasType(backend, "params", "object")
  /\ Cardinality(Selected(catalog, item.value["type"].value, backend.value["type"].value)) = 1

ResolveModelFiles(catalog, root) ==
  LET models == Given(root, "models", <<>>)
      FilesIn(object, fields) ==
        LET params == Given(object, "params", <<>>)
            files == {f.name : f \in {g \in Range(fields) : g.file}} \cap DOMAIN params
        IN {params[f].value : f \in {g \in files : params[g].type = "string"}}
      FilesOf(item, model) ==
        {model.file} \cup FilesIn(item, catalog.models[Implementation(catalog, model)].fields)
          \cup FilesIn(item.value["backend"], catalog.backends[model.backend_type].fields)
  IN Ask(Has(root, "models") /\ HasType(root, "models", "array") =>
           \A item \in Range(models) : Resolvable(catalog, item) =>
             FilesOf(item, ParsedModel(item)) \cap OutsideFiles = {},
         "invalid_file_path")

-----------------------------------------------------------------------------
(* Converters, by type and name *)

RegisterDefinition(entries, converter) ==
  LET key == <<converter.type, converter.name>> IN
  IF "" \in Range(key) \/ key \in DOMAIN entries.of
  THEN [entries EXCEPT !.has_conflict = TRUE]
  ELSE [entries EXCEPT !.of = key :> converter @@ @]
Registered(converters) ==
  FoldLeft(RegisterDefinition, [of |-> <<>>, has_conflict |-> FALSE], converters)

InputConverters ==
  Registered(<<AuditInput, DocQueryInput, AudioInput, TranslateJsonInput, FrameInput,
               QueryInput, EntityInput, KeywordInput, RerankInput>>)
OutputConverters ==
  Registered(<<KeywordResult, TranslationJson, StructuredDocument, RerankResult,
               AudioResult, InvoiceResult, DocAnswer, AuditResult>>)

(* A response is as long as the converter's parameter allows, which the    *)
(* binding limits.                                                         *)
JsonOutputParameters ==
  << InRange(DefaultField("result_json_max_bytes", "int64", 8191), 1, Null) >>
OutputConverterParameterFields ==
  << InRange(JsonOutputParameters[1], 1, MaxPayload) >>

AuditDefinition(converter) ==
  /\ converter.ports # <<>> /\ IsInjective(Column(converter.ports, "name"))
  /\ \A port \in Range(converter.ports) : port.name # "" /\ port.type # ""
ConverterAudit ==
  /\ ~InputConverters.has_conflict /\ ~OutputConverters.has_conflict
  /\ ValidateConfigFieldDefinitions(JsonOutputParameters)
  /\ JsonOutputParameters[1].default.value \in 1 .. MaxPayload
  /\ \A c \in Range(InputConverters.of) \cup Range(OutputConverters.of) : AuditDefinition(c)

-----------------------------------------------------------------------------
(* What the entries select *)

FieldsError(fields, json) ==
  LET First(diagnostics) == IF diagnostics = <<>> THEN "" ELSE diagnostics[1].code
  IN First(ValidateConfigFields(fields, json, "io"))

RepeatedType(entries, i) == \E j \in 1 .. i - 1 : entries[j].key[1] = entries[i].key[1]
PortNames(converter) == Range(Column(converter.ports, "name"))

InputError(converters, entries, i) ==
  LET key == entries[i].key IN
  Ask(~RepeatedType(entries, i), "duplicate_io_entry")
  ?? Ask(key \in DOMAIN converters, "unknown_converter")
  ?? FieldsError(<<>>, entries[i].params)
  ?? Ask(PortNames(converters[key]) \cap
           UNION {PortNames(converters[entries[j].key]) : j \in 1 .. i - 1} = {},
         "duplicate_port_producer")

OutputError(converters, entries, i) ==
  LET key == entries[i].key IN
  Ask(~RepeatedType(entries, i), "duplicate_io_entry")
  ?? Ask(key \in DOMAIN converters, "unknown_converter")
  ?? FieldsError(OutputConverterParameterFields, entries[i].params)
  ?? Ask(DOMAIN entries[i].inputs \subseteq PortNames(converters[key]), "unknown_field")

(* A selected converter has the keys of its ports, an output the room that *)
(* a response has.                                                         *)
SelectInput(converter, entry) ==
  [key |-> entry.key, ports |-> [name \in PortNames(converter) |-> <<"input", name>>],
   published |-> [p \in DOMAIN converter.ports |->
     converter.ports[p] @@ [key |-> <<"input", converter.ports[p].name>>]]]
SelectOutput(converter, entry) ==
  LET ports == [name \in PortNames(converter) |->
        IF name \in DOMAIN entry.inputs THEN entry.inputs[name] ELSE Unbound]
  IN [key |-> entry.key, ports |-> ports,
      room |-> Parse(JsonOutputParameters, entry.params).value.result_json_max_bytes,
      consumed |-> [p \in DOMAIN converter.ports |->
        converter.ports[p] @@ [key |-> ports[converter.ports[p].name]]]]

(* [code, inputs, outputs, boundary, config] *)
Prepared(error, inputs, outputs, parsed) ==
  IF error # "" \/ parsed.code # "" THEN [code |-> error ?? parsed.code]
  ELSE [code |-> "", config |-> parsed.config, inputs |-> inputs, outputs |-> outputs,
        boundary |-> [inputs |-> FlattenSeq(Column(inputs, "published")),
                      outputs |-> FlattenSeq(Column(outputs, "consumed"))]]
SelectConverters(catalog, root, sources, sinks, ins, outs) ==
  Prepared(FirstError([i \in DOMAIN ins |-> InputError(sources, ins, i)])
             ?? FirstError([o \in DOMAIN outs |-> OutputError(sinks, outs, o)])
             ?? ResolveModelFiles(catalog, root),
           [i \in DOMAIN ins |-> SelectInput(sources[ins[i].key], ins[i])],
           [o \in DOMAIN outs |-> SelectOutput(sinks[outs[o].key], outs[o])],
           ParsePipelineConfig(NeutralPipeline(root)))
PrepareDeploymentDocument(catalog, root) ==
  IF SplitError(root) # "" THEN [code |-> SplitError(root)]
  ELSE IF ~ConverterAudit THEN [code |-> "registry_conflict"]
  ELSE SelectConverters(catalog, root, InputConverters.of, OutputConverters.of,
                        Entries(root, "input"), Entries(root, "output"))

(* [code, inputs, outputs, plan]: the first diagnostic is the one that is  *)
(* reported; an input that nothing reads is not published.                 *)
IoPlan(prepared, plan) ==
  LET Kept(input) ==
        [input EXCEPT !.ports = [name \in DOMAIN @ |->
           IF @[name] \in plan.input_ports THEN @[name] ELSE Unbound]]
  IN IF plan.diagnostics # <<>> THEN [code |-> plan.diagnostics[1].code]
     ELSE [code |-> "", plan |-> plan, outputs |-> prepared.outputs,
           inputs |-> [i \in DOMAIN prepared.inputs |-> Kept(prepared.inputs[i])]]
Resolved(catalog, prepared) ==
  IF prepared.code # "" THEN [code |-> prepared.code]
  ELSE IoPlan(prepared, ValidateAndPlan(catalog, prepared.config, prepared.boundary))
ResolveFromPipelineJson(catalog, root) ==
  Resolved(catalog, PrepareDeploymentDocument(catalog, root))
===============================================================================
