---------------------------- MODULE ModelRuntime -----------------------------
(***************************************************************************)
(* How a model of a Pipeline comes to be: the registries of models and     *)
(* backends, ModelRuntimeFactory, the models' parameters, and the          *)
(* ModelManager in which a session keeps them (src/engine).                *)
(*                                                                         *)
(* A registry is a function from names to definitions.  A spec is          *)
(*   [backend_type, impl_name, model_file, target, model_params,           *)
(*    backend_params]                                                      *)
(* with JSON objects for the parameters.  Null is no model.                *)
(***************************************************************************)
EXTENDS EncoderModels

CONSTANT DefaultPrompt  \* kPrompt of vision_document

ModelDefinition(model_type, protocol, fields) ==
  [model_type |-> model_type, protocol |-> protocol, fields |-> fields,
   concurrency |-> Serialized, fixture_backends |-> <<>>]

-----------------------------------------------------------------------------
(* The models' parameters.  A tokenizer's file is a name, other texts are  *)
(* code points.                                                            *)

BgeEmbeddingFields ==
  << File(RequiredField("tokenizer_file", "string")),
     DefaultField("do_lower_case", "bool", TRUE),
     InRange(OptionalField("max_tokens", "int64"), 2, 4096),
     OneOf(DefaultField("pooling", "string", "cls"), <<"cls", "mean">>),
     DefaultField("output_name", "string", "last_hidden_state"),
     InRange(OptionalField("embedding_dim", "int64"), 1, 65536),
     DefaultField("normalize", "bool", TRUE) >>
BgeEmbeddingDefinition ==
  ModelDefinition("embedding", "tensor_graph", BgeEmbeddingFields)

BgeRerankerFields ==
  << File(RequiredField("tokenizer_file", "string")),
     DefaultField("do_lower_case", "bool", TRUE),
     InRange(OptionalField("max_tokens", "int64"), 3, 4096),
     DefaultField("output_name", "string", "logits"),
     OneOf(DefaultField("score_activation", "string", "sigmoid"), <<"sigmoid", "identity">>) >>
BgeRerankerDefinition == ModelDefinition("rerank", "tensor_graph", BgeRerankerFields)

GeneratedFields ==
  << InRange(RequiredField("embedding_dim", "int"), 1, 65536),
     InRange(DefaultField("max_tokens", "int", 1), 1, 64),
     OneOf(DefaultField("pooling", "string", "last"), <<"last", "mean">>),
     DefaultField("normalize", "bool", TRUE),
     DefaultField("prompt_prefix", "string", <<>>),
     DefaultField("prompt_suffix", "string", <<>>),
     DefaultField("add_bos", "bool", FALSE) >>
GeneratedTextEmbeddingDefinition ==
  ModelDefinition("embedding", "generated_token_embedding", GeneratedFields)

WhisperAsrFields ==
  << InRange(DefaultField("max_audio_seconds", "int", 30), 1, 60),
     InRange(DefaultField("max_output_bytes", "int", 65536), 1, 65536) >>
WhisperAsrDefinition == ModelDefinition("asr", "audio_transcription", WhisperAsrFields)

VisionFields ==
  << DefaultField("prompt", "string", DefaultPrompt),
     InRange(DefaultField("patch_size", "int", 16), 1, 256),
     InRange(DefaultField("max_pixels", "int", 4194304), 1, 16777216),
     InRange(DefaultField("max_tokens", "int", 512), 1, 4096) >>
VisionDocumentDefinition == ModelDefinition("ocr", "image_text_generation", VisionFields)
PromptIsText(params) == params.prompt # <<>> /\ 0 \notin Range(params.prompt)

QwenFields == << DefaultField("add_bos", "bool", FALSE) >>
QwenCausalLmDefinition == ModelDefinition("llm", "text_generation", QwenFields)

(* The validator of a model's parameters. *)
ModelParametersValid(impl_name, params) ==
  CASE impl_name \in {"bge_embedding", "bge_reranker"} ->
         params.tokenizer_file # "" /\ params.output_name # ""
    [] impl_name = "vision_document" -> PromptIsText(params)
    [] OTHER -> TRUE

-----------------------------------------------------------------------------
(* The registries *)

Protocols == {"tensor_graph", "text_generation", "image_text_generation",
              "generated_token_embedding", "audio_transcription", "fixture"}
Concurrencies == {Serialized, Concurrent}

(* A definition that may not be registered, or is there already, leaves    *)
(* the registry as it is.                                                  *)
RegisterModel(models, impl_name, definition) ==
  IF /\ impl_name # "" /\ definition.model_type # ""
     /\ definition.protocol \in Protocols /\ definition.concurrency \in Concurrencies
     /\ (definition.protocol = "fixture") = (definition.fixture_backends # <<>>)
     /\ "" \notin Range(definition.fixture_backends)
     /\ IsInjective(definition.fixture_backends)
     /\ Declared(definition.fields)
     /\ impl_name \notin DOMAIN models
  THEN impl_name :> definition @@ models ELSE models

RegisterBackend(backends, backend_type, definition) ==
  IF /\ backend_type # ""
     /\ definition.protocols # {} /\ definition.protocols \subseteq Protocols
     /\ definition.concurrency \in Concurrencies
     /\ Declared(definition.fields)
     /\ backend_type \notin DOMAIN backends
  THEN backend_type :> definition @@ backends ELSE backends

BuiltInModels ==
  FoldLeft(LAMBDA models, d : RegisterModel(models, d[1], d[2]), <<>>,
    << <<"bge_embedding", BgeEmbeddingDefinition>>,
       <<"bge_reranker", BgeRerankerDefinition>>,
       <<"generated_text_embedding", GeneratedTextEmbeddingDefinition>>,
       <<"whisper_asr", WhisperAsrDefinition>>,
       <<"vision_document", VisionDocumentDefinition>>,
       <<"qwen_causal_lm", QwenCausalLmDefinition>> >>)
BuiltInBackends ==
  FoldLeft(LAMBDA backends, d : RegisterBackend(backends, d[1], d[2]), <<>>,
    << <<"onnxruntime", OnnxDefinition>>, <<"whisper_cpp", WhisperDefinition>>,
       <<"inferlet", InferletDefinition>> >>)

Compatible(model, backend_type, backend) ==
  /\ model.protocol \in backend.protocols
  /\ model.protocol = "fixture" => backend_type \in Range(model.fixture_backends)

(* The models that a Pipeline may mean by a type and a backend: Audit asks *)
(* that there be no two.                                                   *)
FindImplementation(models, backends, model_type, backend_type) ==
  {impl_name \in DOMAIN models :
     /\ backend_type \in DOMAIN backends
     /\ models[impl_name].model_type = model_type
     /\ Compatible(models[impl_name], backend_type, backends[backend_type])}

-----------------------------------------------------------------------------
(* ModelRuntimeFactory *)

BackendParameters(backend, config) == Parse(backend.fields, config)

Load(backend_type, spec) ==
  CASE backend_type = "onnxruntime" -> OnnxLoad(spec)
    [] backend_type = "whisper_cpp" -> WhisperLoad(spec)
    [] backend_type = "inferlet" -> InferletLoad(spec)

CreateModel(impl_name, session, params) ==
  CASE impl_name = "bge_embedding" -> CreateBgeEmbedding(session, params)
    [] impl_name = "bge_reranker" -> CreateBgeReranker(session, params)
    [] impl_name = "generated_text_embedding" -> CreateGeneratedTextEmbedding(session, params)
    [] impl_name = "whisper_asr" -> CreateWhisperAsr(session, params)
    [] impl_name = "vision_document" -> CreateVisionDocument(session, params)
    [] impl_name = "qwen_causal_lm" -> CreateQwenCausalLm(session, params)

IsConcurrencyCompatible(declared, actual) == declared = Concurrent => actual = Concurrent

(* Everything that can be seen of the definitions is checked before a      *)
(* backend loads anything; then what it loaded must be what it declared.   *)
OfInterface(created, interface) ==
  IF created # Null /\ created.interface = interface THEN created ELSE Null
CreateLoaded(spec, model, backend, session, params) ==
  IF /\ session # Null
     /\ session.backend = spec.backend_type
     /\ IsConcurrencyCompatible(backend.concurrency, session.concurrency)
     /\ session.protocol = model.protocol
     /\ ValidPolicy(session.policy)
  THEN OfInterface(CreateModel(spec.impl_name, session, params), model.model_type) ELSE Null
LoadAndCreate(spec, model, backend, model_params, backend_params) ==
  IF /\ model_params.ok /\ ModelParametersValid(spec.impl_name, model_params.value)
     /\ backend_params.ok
  THEN CreateLoaded(spec, model, backend,
         Load(spec.backend_type,
           [protocol |-> model.protocol, model_file |-> spec.model_file,
            params |-> backend_params.value, target |-> spec.target]), model_params.value)
  ELSE Null

ModelRuntimeCreate(models, backends, spec) ==
  LET backend == backends[spec.backend_type]
      model == models[spec.impl_name]
  IN IF /\ spec.backend_type \in DOMAIN backends /\ spec.impl_name \in DOMAIN models
        /\ Compatible(model, spec.backend_type, backend)
     THEN LoadAndCreate(spec, model, backend, Parse(model.fields, spec.model_params),
                        BackendParameters(backend, spec.backend_params))
     ELSE Null

-----------------------------------------------------------------------------
(* ModelManager: all models of a Pipeline or none; [name, model] each. *)

RegisterBatch(manager, batch) ==
  IF /\ \A entry \in Range(batch) : entry.name # "" /\ entry.model # Null
     /\ IsInjective(Column(batch, "name"))
     /\ Range(Column(batch, "name")) \cap DOMAIN manager = {}
  THEN Success([name \in Range(Column(batch, "name")) |->
         SelectSeq(batch, LAMBDA entry : entry.name = name)[1].model] @@ manager)
  ELSE Failure("models", Null, "")

(* The interface of each model, by which Nodes ask for it. *)
Interfaces(manager) == [name \in DOMAIN manager |-> manager[name].interface]
=============================================================================
