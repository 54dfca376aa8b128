------------------------------- MODULE Backends -------------------------------
(***************************************************************************)
(* The backends of src/engine/backends: what each may load, and what its   *)
(* session makes of one call of the library underneath, which is external. *)
(*                                                                         *)
(* A session is [backend, protocol, concurrency, policy, file] and, for    *)
(* tensor graphs, its inputs and outputs, each [name, type, shape] with    *)
(* -1 for a dimension that is not static.  A text is a sequence of code    *)
(* points; -1 is bytes that are no UTF-8.                                  *)
(***************************************************************************)
EXTENDS Parameters

CONSTANTS
  MaxSize,            \* the largest size_t
  WhisperRate, WhisperMinSamples, WhisperMaxSamples, \* what whisper_cpp takes
  Files,              \* file: what the library finds in it
  OrtRun(_, _),       \* file, tensors: [code, outputs], in the graph's order
  WhisperRun(_, _, _),\* file, samples, language: [code, segments]
  InferletEncode(_, _, _), \* file, prompt, add_bos: [status, tokens]
  InferletDecode(_, _),    \* file, tokens: [status, text]
  InferletRun(_, _, _)     \* file, task, options: [status, tokens, embeddings]

Concurrent == "concurrent"
Serialized == "serialized"
Target(platform, device) == [platform |-> platform, device |-> device]
Definition(protocols, concurrency, fields) ==
  [protocols |-> protocols, concurrency |-> concurrency, fields |-> fields]
Session(backend, protocol, concurrency, file) ==
  [backend |-> backend, protocol |-> protocol, concurrency |-> concurrency,
   policy |-> [max |-> 1, fixed |-> 0], file |-> file]

(* A target that names no other device than the CPU, in any case. *)
ValidateExecutionTarget(target, devices) ==
  /\ target.platform \in {"", "UNKNOWN", "CPU"}
  /\ target.device = Null \/ target.device \in devices

-----------------------------------------------------------------------------
(* Tensors: [type, shape, data, bytes, aligned] *)

ElementTypeByteSize(type) ==
  CASE type = "int64" -> 8 [] type \in {"float32", "int32"} -> 4 [] type = "uint8" -> 1
    [] OTHER -> 0
(* Null: a dimension is not known, or the size is no size_t. *)
ComputeTensorByteSize(shape, element_size) ==
  LET Times(count, dim) ==
        IF count = Null \/ dim < 0 THEN Null
        ELSE IF dim # 0 /\ count > MaxSize \div dim THEN Null ELSE count * dim
      count == FoldLeft(Times, 1, shape)
  IN IF element_size = 0 \/ count = Null \/ count > MaxSize \div element_size THEN Null
     ELSE count * element_size
CreateHostTensor(type, shape) ==
  ElementTypeByteSize(type) # 0
  /\ ComputeTensorByteSize(shape, ElementTypeByteSize(type)) # Null
HostTensor(type, shape, data) ==
  [type |-> type, shape |-> shape, data |-> data, aligned |-> TRUE,
   bytes |-> ComputeTensorByteSize(shape, ElementTypeByteSize(type))]
TensorIsReadable(tensor, type) ==
  /\ tensor.type = type /\ tensor.aligned
  /\ tensor.bytes = ComputeTensorByteSize(tensor.shape, ElementTypeByteSize(type))

-----------------------------------------------------------------------------
(* ONNX Runtime *)

(* The shape of a tensor agrees with what is static in its declaration. *)
ShapeFits(shape, declared) ==
  /\ Len(shape) = Len(declared)
  /\ \A d \in DOMAIN declared :
       shape[d] >= 0 /\ (declared[d] >= 0 => shape[d] = declared[d])

ValidateInputTensor(tensor, spec, policy) ==
  /\ tensor.data # Null
  /\ tensor.type = spec.type
  /\ ShapeFits(tensor.shape, spec.shape)
  /\ tensor.shape # <<>> =>
       /\ tensor.shape[1] > 0 /\ tensor.shape[1] <= policy.max
       /\ policy.fixed > 0 => tensor.shape[1] = policy.fixed
  /\ CreateHostTensor(tensor.type, tensor.shape)
  /\ tensor.bytes = ComputeTensorByteSize(tensor.shape, ElementTypeByteSize(tensor.type))

ValidateOutputMetadata(output, spec, expected_batch) ==
  /\ output.type = spec.type
  /\ ShapeFits(output.shape, spec.shape)
  /\ expected_batch > 0 => output.shape # <<>> /\ output.shape[1] = expected_batch
  /\ CreateHostTensor(output.type, output.shape)
  /\ ComputeTensorByteSize(output.shape, 1) = Len(output.data)

(* A static batch dimension, which all tensors must agree on, fixes the    *)
(* batch; Null when there is no policy.                                    *)
InferBatchPolicy(specs, configured_max_batch) ==
  LET static == {s.shape[1] : s \in {s \in specs : s.shape # <<>> /\ s.shape[1] > 0}}
      batch == CHOOSE b \in static : TRUE
  IN IF \/ configured_max_batch = 0 \/ Cardinality(static) > 1
        \/ \E s \in specs : s.shape = <<>> \/ s.shape[1] = 0
     THEN Null
     ELSE IF static = {} THEN [max |-> configured_max_batch, fixed |-> 0]
     ELSE [max |-> batch, fixed |-> batch]

OnnxFields ==
  << InRange(DefaultField("max_batch_size", "int", 4), 1, 1024),
     InRange(DefaultField("intra_op_num_threads", "int", 2), 1, 64),
     InRange(DefaultField("inter_op_num_threads", "int", 1), 1, 64),
     OneOf(DefaultField("graph_optimization_level", "string", "all"),
           <<"none", "basic", "extended", "all">>) >>
OnnxDefinition == Definition({"tensor_graph"}, Concurrent, OnnxFields)

TryMapOnnxElementType(type) ==
  IF type \in {"float32", "int32", "int64", "uint8"} THEN type ELSE Null

(* Null is no session. *)
OnnxLoad(spec) ==
  LET graph == Files[spec.model_file]
      specs == Range(graph.inputs) \cup Range(graph.outputs)
      policy == InferBatchPolicy(specs, spec.params.max_batch_size)
  IN IF /\ spec.protocol = "tensor_graph"
        /\ ValidateExecutionTarget(spec.target, {0})
        /\ spec.model_file # "" /\ spec.model_file \in DOMAIN Files
        /\ \A s \in specs : /\ s.name # "" /\ TryMapOnnxElementType(s.type) # Null
                            /\ s.shape # <<>>
        /\ policy # Null
     THEN [Session("onnxruntime", "tensor_graph", Concurrent, spec.model_file)
             EXCEPT !.policy = policy]
          @@ [inputs |-> graph.inputs, outputs |-> graph.outputs]
     ELSE Null

(* What the graph gave, by name; a failure leaves no output. *)
NoOutput(code) == [code |-> code, outputs |-> <<>>]
NamedOutputs(declared, ran, expected_batch) ==
  LET Host(output) == HostTensor(output.type, output.shape, output.data)
      Of(name) == Host(ran.outputs[CHOOSE i \in DOMAIN declared : declared[i].name = name])
  IN IF ran.code # "" THEN NoOutput("inference_failed")
     ELSE IF Len(ran.outputs) # Len(declared) THEN NoOutput("output_count_mismatch")
     ELSE IF \E i \in DOMAIN declared :
               \/ TryMapOnnxElementType(ran.outputs[i].type) = Null
               \/ ~ValidateOutputMetadata(ran.outputs[i], declared[i], expected_batch)
     THEN NoOutput("invalid_output")
     ELSE [code |-> "", outputs |-> [name \in Range(Column(declared, "name")) |-> Of(name)]]

(* tensors[name] is an input's. *)
Run(session, tensors) ==
  LET batch == IF session.inputs = <<>> THEN 0 ELSE tensors[session.inputs[1].name].shape[1]
      Usable(tensor, input) ==
        ValidateInputTensor(tensor, input, session.policy) /\ tensor.shape[1] = batch
  IN IF \A input \in Range(session.inputs) :
          input.name \in DOMAIN tensors /\ Usable(tensors[input.name], input)
     THEN NamedOutputs(session.outputs, OrtRun(session.file, tensors), batch)
     ELSE NoOutput("invalid_input")

Fail(code) == [code |-> code, text |-> <<>>]

-----------------------------------------------------------------------------
(* whisper.cpp.  A file says whether its model is multilingual.            *)

WhisperFields == << InRange(DefaultField("n_threads", "int", 4), 1, 64) >>
WhisperDefinition == Definition({"audio_transcription"}, Serialized, WhisperFields)

WhisperLoad(spec) ==
  IF /\ spec.protocol = "audio_transcription"
     /\ ValidateExecutionTarget(spec.target, {0})
     /\ spec.model_file # "" /\ spec.model_file \in DOMAIN Files
     /\ Files[spec.model_file].readable
  THEN Session("whisper_cpp", "audio_transcription", Serialized, spec.model_file)
  ELSE Null

SupportsLanguage(session, language) ==
  language \in {"en", "auto"} \/ (language = "zh" /\ Files[session.file].multilingual)

(* Segments are added up until they are too long. *)
Utf8Width(cp) == IF cp < 128 THEN 1 ELSE IF cp < 2048 THEN 2 ELSE IF cp < 65536 THEN 3 ELSE 4
ByteCount(text) == FoldLeft(LAMBDA sum, cp : sum + Utf8Width(cp), 0, text)

TranscribeAudio(session, audio, language, max_output_bytes) ==
  LET spoken == IF language = "auto" /\ ~Files[session.file].multilingual THEN "en"
                ELSE language
      Heard(code, text) ==
        IF code # "" THEN Fail("inference_failed")
        ELSE IF ByteCount(text) > max_output_bytes THEN Fail("invalid_output")
        ELSE [code |-> "", text |-> text]
      Of(ran) == Heard(ran.code, FlattenSeq(ran.segments))
  IN IF audio.sample_rate # WhisperRate THEN Fail("invalid_input")
     ELSE IF audio.samples = <<>> THEN [code |-> "", text |-> <<>>]
     ELSE IF Len(audio.samples) \notin WhisperMinSamples .. WhisperMaxSamples
     THEN Fail("invalid_input")
     ELSE Of(WhisperRun(session.file, audio.samples, spoken))

-----------------------------------------------------------------------------
(* Inferlet *)

Member(json, name) ==
  IF json.type = "object" /\ name \in DOMAIN json.value THEN json.value[name]
  ELSE Json("null", Null)

InferletFields == << File(OptionalField("run_config_file", "string")) >>
InferletProtocols ==
  {"text_generation", "image_text_generation", "generated_token_embedding"}
InferletDefinition == Definition(InferletProtocols, Serialized, InferletFields)

(* Only what forces another device than the CPU is looked at. *)
ValidateCpuRunConfig(config) ==
  LET layers == Member(Member(config, "model"), "gpu_layers")
  IN layers.type \in {"integer", "number"} => layers.value <= 0

(* A run config is a file of JSON; images need a projector in it. *)
InferletLoad(spec) ==
  LET given == spec.params.run_config_file # Null
      config == IF given THEN Files[spec.params.run_config_file] ELSE JsonObject(<<>>)
      vision == Member(config, "vision")
      projector == Member(vision, "mmproj")
  IN IF /\ spec.protocol \in InferletProtocols
        /\ ValidateExecutionTarget(spec.target, {-1, 0})
        /\ spec.model_file # "" /\ spec.model_file \in DOMAIN Files
        /\ given => spec.params.run_config_file \in DOMAIN Files
        /\ config.type = "object" /\ ValidateCpuRunConfig(config)
        /\ spec.protocol = "image_text_generation" => "vision" \in DOMAIN config.value
        /\ "vision" \in DOMAIN config.value =>
             projector.type = "string" /\ projector.value \in DOMAIN Files \ {""}
        /\ Files[spec.model_file].readable
     THEN Session("inferlet", spec.protocol, Serialized, spec.model_file)
     ELSE Null

(* The text up to the first stop word. *)
CutAtStop(text, stop_words) ==
  LET At(i, word) == SubSeq(text, i, i + Len(word) - 1) = word
      stops == {i \in DOMAIN text : \E word \in Range(stop_words) : At(i, word)}
  IN IF stops = {} THEN text ELSE SubSeq(text, 1, Min(stops) - 1)
DropIncomplete(text) == IF text # <<>> /\ Last(text) = -1 THEN Front(text) ELSE text

(* GenerateOptions, its decimals in hundredths. *)
Greedy(max_tokens) ==
  [system_prompt |-> <<>>, max_tokens |-> max_tokens, temperature |-> 0, top_k |-> 0,
   top_p |-> 100, repetition_penalty |-> 100, stop_words |-> <<>>, random_seed |-> -1]
ValidOptions(options) ==
  /\ options.max_tokens > 0 /\ options.temperature \in 0 .. 200 /\ options.top_k >= 0
  /\ options.top_p \in 1 .. 100 /\ options.repetition_penalty \in 1 .. 10000
  /\ <<>> \notin Range(options.stop_words)

Tokens(code, tokens) == [code |-> code, tokens |-> tokens]
PreparePrompt(session, prompt, add_bos) ==
  LET Of(encoded) ==
        IF encoded.status # "ok" THEN Tokens("inference_failed", <<>>)
        ELSE IF encoded.tokens = <<>> THEN Tokens("invalid_output", <<>>)
        ELSE Tokens("", encoded.tokens)
  IN IF prompt = <<>> THEN Tokens("invalid_input", <<>>)
     ELSE Of(InferletEncode(session.file, prompt, add_bos))

(* 0 is no limit to the framework, the library's default to the library. *)
ExecuteTask(session, task, options) ==
  InferletRun(session.file, task, [options EXCEPT !.top_k = IF @ = 0 THEN MaxInt ELSE @])

RunTask(session, task, options) ==
  LET Decoded(decoded) ==
        IF decoded.status # "ok" THEN Fail("inference_failed")
        ELSE [code |-> "", text |-> DropIncomplete(CutAtStop(decoded.text, options.stop_words))]
      Of(ran) == IF ran.status # "ok" THEN Fail("inference_failed")
                 ELSE IF ran.tokens = <<>> THEN [code |-> "", text |-> <<>>]
                 ELSE Decoded(InferletDecode(session.file, ran.tokens))
  IN Of(ExecuteTask(session, task, options))

InferletGenerate(session, prompt, add_bos, options) ==
  LET Of(prepared) == IF prepared.code # "" THEN Fail(prepared.code)
                      ELSE RunTask(session, prepared.tokens, options)
  IN IF prompt = <<>> THEN Fail("invalid_input")
     ELSE IF ~ValidOptions(options) THEN Fail("invalid_argument")
     ELSE Of(PreparePrompt(session, prompt, add_bos))

(* An image is [prompt, width, height, patch_size, size], size its bytes. *)
InferletDescribe(session, image, options) ==
  IF \/ image.prompt = <<>> \/ 0 \in Range(image.prompt)
     \/ image.width <= 0 \/ image.height <= 0 \/ image.patch_size <= 0
     \/ image.width % image.patch_size # 0 \/ image.height % image.patch_size # 0
     \/ image.size > 67108864 \/ image.width * image.height * 3 # image.size
  THEN Fail("invalid_input")
  ELSE IF ~ValidOptions(options) THEN Fail("invalid_argument")
  ELSE RunTask(session, image, options)

(* Finite numbers for each of the tokens that follow the prompt. *)
GenerateEmbeddings(session, prompt, add_bos, max_tokens) ==
  LET Refused(code) == [code |-> code, values |-> <<>>]
      Ran(ran) ==
        IF ran.status # "ok" THEN Refused("inference_failed")
        ELSE IF \/ Len(ran.tokens) > max_tokens \/ Len(ran.embeddings) # Len(ran.tokens)
                \/ \E v \in Range(ran.embeddings) : v = <<>> \/ Null \in Range(v)
                \/ \E t \in Range(ran.tokens) : t < 0
        THEN Refused("invalid_output") ELSE [code |-> "", values |-> ran.embeddings]
      Of(prepared) == IF prepared.code # "" THEN Refused(prepared.code)
                      ELSE Ran(ExecuteTask(session, prepared.tokens, Greedy(max_tokens)))
  IN IF max_tokens \notin 1 .. 64 THEN Refused("invalid_argument")
     ELSE Of(PreparePrompt(session, prompt, add_bos))

=============================================================================
