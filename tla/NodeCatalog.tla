----------------------------- MODULE NodeCatalog -----------------------------
(***************************************************************************)
(* The Node types a build knows: which definitions NodeRegistry accepts,   *)
(* those of src/common_nodes, src/custom_nodes and the batch starters, and *)
(* for each type what its parameters must satisfy and what its Run is.     *)
(*                                                                         *)
(* A definition is a NodeSpec with its type, the schema of its parameters  *)
(* and whether its Nodes may run beside others.                            *)
(***************************************************************************)
EXTENDS StarterNodes

NodeDefinition(node_type, spec, fields, parallel_safe) ==
  spec @@ [node_type |-> node_type, params |-> fields, parallel_safe |-> parallel_safe]

(* The slots of models are required strings of the schema. *)
ModelFields(definition) ==
  [m \in DOMAIN definition.models |-> RequiredField(definition.models[m].field, "string")]
ConfigFields(definition) == definition.params \o ModelFields(definition)

-----------------------------------------------------------------------------
(* Registering *)

ValidCardinalities == {"1:1", "1:N", "N:1", "N:M"}
ValidProvenance == {"preserve", "generate_sub_id", "aggregate", "independent"}
ValidLifetimes == {"request", "session"}

ValidatePortDefinitions(ports) ==
  /\ IsInjective(Column(ports, "name"))
  /\ \A port \in Range(ports) :
       /\ port.name # "" /\ port.type # ""
       /\ port.flow.cardinality \in ValidCardinalities
       /\ port.flow.provenance \in ValidProvenance
       /\ port.flow.lifetime \in ValidLifetimes

(* An input follows no lifetime, an output only an input's. *)
FlowsAreLocal(definition) ==
  /\ \A input \in Range(definition.inputs) : input.flow.follows = ""
  /\ \A output \in Range(definition.outputs) :
       output.flow.follows \in {""} \cup Range(Column(definition.inputs, "name"))

ValidateNodeDefinitionStructure(definition) ==
  /\ definition.node_type # ""
  /\ ValidatePortDefinitions(definition.inputs)
  /\ ValidatePortDefinitions(definition.outputs)
  /\ NodeSpec(definition)
  /\ ValidateConfigFieldDefinitions(ConfigFields(definition))
  /\ FlowsAreLocal(definition)
  /\ \A m \in Range(definition.models) : "" \notin {m.slot, m.field, m.type}

(* A command belongs to one type. *)
CheckCrossNodeControlConflict(definition, entries) ==
  \A other \in Range(entries) :
    Range(Column(definition.commands, "id")) \cap Range(Column(other.commands, "id")) = {}

(* A definition that is not accepted leaves a mark for the validator. *)
Register(registry, definition) ==
  IF /\ ValidateNodeDefinitionStructure(definition)
     /\ Declared(definition.params)
     /\ definition.node_type \notin DOMAIN registry.entries
     /\ CheckCrossNodeControlConflict(definition, registry.entries)
  THEN [registry EXCEPT !.entries = definition.node_type :> definition @@ @]
  ELSE [registry EXCEPT !.has_conflict = TRUE]

Snapshot ==
  FoldLeft(Register, [entries |-> <<>>, has_conflict |-> FALSE],
    << NodeDefinition("text_chunk", TextChunkSpec, TextChunkFields, TRUE),
       NodeDefinition("vector_top_k", VectorTopKSpec, VectorTopKFields, TRUE),
       NodeDefinition("text_embedding", TextEmbeddingSpec, <<>>, TRUE),
       NodeDefinition("text_rerank", TextRerankSpec, TextRerankFields, TRUE),
       NodeDefinition("text_template", TextTemplateSpec, TextTemplateFields, TRUE),
       NodeDefinition("text_rule_match", TextRuleMatchSpec, TextRuleMatchFields, TRUE),
       NodeDefinition("structured_json_parse", StructuredJsonParseSpec,
                      StructuredJsonParseFields, TRUE),
       NodeDefinition("llm_generate", LlmGenerateSpec, LlmGenerateFields, TRUE),
       NodeDefinition("prompt_guided_llm", PromptGuidedSpec, PromptGuidedFields, TRUE),
       NodeDefinition("asr_transcribe", AsrTranscribeSpec, AsrTranscribeFields, TRUE),
       NodeDefinition("ocr_detect", OcrDetectSpec, <<>>, TRUE),
       NodeDefinition("text_corpus_source", TextCorpusSourceSpec, TextCorpusSourceFields, TRUE),
       NodeDefinition("starter_batch", StarterBatchSpec, <<>>, FALSE),
       NodeDefinition("starter_multi_model", StarterMultiModelSpec, <<>>, FALSE),
       NodeDefinition("starter_batch_join", StarterBatchJoinSpec, <<>>, FALSE),
       NodeDefinition("starter_batch_group", StarterBatchGroupSpec, <<>>, FALSE),
       NodeDefinition("starter_batch_select_scatter", StarterSelectScatterSpec,
                      StarterSelectScatterFields, FALSE) >>)

-----------------------------------------------------------------------------
(* Of each type *)

(* The only group of ports of which one must be connected. *)
PortConstraints(node_type, connected) ==
  node_type = "text_template" =>
    {"primary", "context", "matches", "document"} \cap connected # {}

(* What is asked of parameters that fit the schema: validators that are    *)
(* included, what is prepared of them, what they say of themselves and of  *)
(* the ports that are connected.                                           *)
ValidateState(node_type, params, connected) ==
  CASE node_type = "text_chunk" -> OverlapIsSmaller(params)
    [] node_type = "text_template" -> PrepareTemplate(params, connected)
    [] node_type = "text_rule_match" -> RulesCompile(params)
    [] node_type = "structured_json_parse" -> FallbackIsValid(params)
    [] node_type = "llm_generate" -> EndpointsReady(params) /\ RejectEmptyStopWords(params)
    [] node_type = "prompt_guided_llm" ->
         RejectEmptyStopWords(params) /\ PrepareGuidedPrompt(params, connected)
    [] node_type = "asr_transcribe" -> LanguageIsGiven(params)
    [] OTHER -> TRUE

(* What is asked of them with the models. *)
ModelsFit(node_type, params, models) ==
  node_type = "asr_transcribe" => LanguageIsSpoken(params, models)

(* A Node is [node_type, params, models, session]: session are the inputs  *)
(* that live as long as the session.                                       *)
Cached(node) == "text" \in node.session
Shared(node) == "candidates" \in node.session

(* Run: a NodeResult of the batches by the members of the Node's value. *)
RunNode(node, in, cache) ==
  LET params == node.params
      models == node.models
  IN CASE node.node_type = "text_chunk" -> TextChunk(in, params)
       [] node.node_type = "vector_top_k" -> OneOutput(VectorTopK(in, params, Shared(node)))
       [] node.node_type = "text_embedding" ->
            OneOutput(TextEmbedding(in, Cached(node), models, cache))
       [] node.node_type = "text_rerank" -> OneOutput(TextRerank(in, params, models))
       [] node.node_type = "text_template" -> OneOutput(TextTemplate(in, params))
       [] node.node_type = "text_rule_match" -> OneOutput(TextRuleMatch(in, params))
       [] node.node_type = "structured_json_parse" -> OneOutput(StructuredJsonParse(in, params))
       [] node.node_type = "llm_generate" -> LlmGenerate(in, params, models)
       [] node.node_type = "prompt_guided_llm" -> OneOutput(PromptGuidedLlm(in, params, models))
       [] node.node_type = "asr_transcribe" -> OneOutput(AsrTranscribe(in, params, models))
       [] node.node_type = "ocr_detect" -> OcrDetect(in, models)
       [] node.node_type = "text_corpus_source" -> OneOutput(TextCorpusSource(params))
       [] node.node_type = "starter_batch" -> OneOutput(StarterBatch(in, models))
       [] node.node_type = "starter_multi_model" -> OneOutput(StarterMultiModel(in, models))
       [] node.node_type = "starter_batch_join" -> OneOutput(StarterBatchJoin(in, models))
       [] node.node_type = "starter_batch_group" -> OneOutput(StarterBatchGroup(in, models))
       [] node.node_type = "starter_batch_select_scatter" ->
            OneOutput(StarterSelectScatter(in, params, models))

(* The session's cache after the Run. *)
CacheAfter(node, in, cache, result) ==
  IF node.node_type # "text_embedding" THEN cache
  ELSE Remember(in, Cached(node), node.models, cache,
                IF result.ok THEN Success(result.value.value) ELSE result)
=============================================================================
