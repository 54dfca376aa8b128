---------------------------- MODULE EncoderModels ----------------------------
(***************************************************************************)
(* The models of src/engine/models that embed, rerank, transcribe and      *)
(* recognize: how they are made from what a backend's session tells of     *)
(* itself, and how a batch becomes slices of rows for the session and its  *)
(* answers a batch again.                                                  *)
(*                                                                         *)
(* A text is a sequence of code points; -1 is bytes that are no UTF-8.     *)
(* The id of a token in the vocabulary is the token itself.  An embedding  *)
(* is a vector of integers, with Null for NaN and infinity.  An answer is  *)
(* [code, outputs], and code "" is success.                                *)
(***************************************************************************)
EXTENDS Backends

CONSTANTS
  Vocabulary,        \* lines of the tokenizer's file
  MaxWordBytes,      \* kMaxCharsPerWord
  ImStart, ImEnd, SystemRole, UserRole, AssistantRole, \* what ChatML adds to a prompt
  Unit(_)            \* a vector other than zero: divided by its norm

Answer(outputs) == [code |-> "", outputs |-> outputs]
Refuse(code) == [code |-> code, outputs |-> <<>>]
Prefix(text, n) == SubSeq(text, 1, Min({n, Len(text)}))

-----------------------------------------------------------------------------
(* BERT WordPiece *)

PAD == <<-2>>
UNK == <<-3>>
CLS == <<-4>>
SEP == <<-5>>
InitializeVocab == IsInjective(Vocabulary) /\ {PAD, UNK, CLS, SEP} \subseteq Range(Vocabulary)

IsWhitespace(cp) ==
  cp \in {9, 10, 13, 32, 160, 5760, 8232, 8233, 8239, 8287, 12288} \cup 8192 .. 8202
IsControl(cp) == cp \in (0 .. 31 \cup 127 .. 159) \ {9, 10, 13}
IsPunctuation(cp) ==
  \/ cp \in 33 .. 47 \cup 58 .. 64 \cup 91 .. 96 \cup 123 .. 126
  \/ cp \in 8192 .. 8303 \cup 12288 .. 12351
  \/ cp \in 65280 .. 65295 \cup 65306 .. 65312 \cup 65339 .. 65344 \cup 65371 .. 65381
IsCJK(cp) ==
  \/ cp \in 19968 .. 40959 \/ cp \in 13312 .. 19903
  \/ cp \in 131072 .. 173791 \/ cp \in 173824 .. 178207
  \/ cp \in 178208 .. 183983 \/ cp \in 63744 .. 64255 \/ cp \in 194560 .. 195103
LowerCase(cp) ==
  CASE cp \in 65 .. 90 -> cp + 32
    [] cp \in 65313 .. 65338 -> cp - 65313 + 97
    [] cp \in 65345 .. 65370 -> cp - 65345 + 97
    [] OTHER -> cp

(* The words of a text, or Null.  A CJK character or punctuation is a word. *)
BasicTokenize(text, do_lower_case) ==
  LET Step(words, char) ==
        LET cp == IF do_lower_case THEN LowerCase(char) ELSE char IN
        IF char \in {0, 65533} \/ IsControl(char) THEN words
        ELSE IF IsWhitespace(char) THEN Append(words, <<>>)
        ELSE IF IsCJK(cp) \/ IsPunctuation(cp) THEN words \o << <<cp>>, <<>> >>
        ELSE Append(Front(words), Append(Last(words), cp))
  IN IF -1 \in Range(text) THEN Null
     ELSE SelectSeq(FoldLeft(Step, << <<>> >>, text), LAMBDA word : word # <<>>)

(* The longest pieces from the left; UNK when there is none somewhere. *)
WordPiece(word) ==
  LET n == Len(word)
      Piece(i, j) == (IF i > 1 THEN <<35, 35>> ELSE <<>>) \o SubSeq(word, i, j)
      Ends(i) == {j \in i .. n : Piece(i, j) \in Range(Vocabulary)}
      Split[i \in 1 .. n + 1] ==
        IF i = n + 1 THEN <<>>
        ELSE IF Ends(i) = {} THEN Null
        ELSE LET rest == Split[Max(Ends(i)) + 1]
             IN IF rest = Null THEN Null ELSE <<Piece(i, Max(Ends(i)))>> \o rest
      pieces == Split[1]
  IN IF ByteCount(word) > MaxWordBytes \/ pieces = Null THEN <<UNK>> ELSE pieces

WordPieceTokenize(words) == FlattenSeq([w \in DOMAIN words |-> WordPiece(words[w])])

Padded(row, filler, max_tokens) == [i \in 1 .. max_tokens |-> IF i <= Len(row) THEN row[i] ELSE filler]
Row(ids, segment, max_tokens) ==
  [ids |-> Padded(ids, PAD, max_tokens),
   mask |-> Padded([i \in DOMAIN ids |-> 1], 0, max_tokens),
   types |-> Padded(segment, 0, max_tokens)]

Encode(model, text) ==
  LET Of(words) ==
        IF words = Null THEN Null
        ELSE Row(<<CLS>> \o Prefix(WordPieceTokenize(words), model.max_tokens - 2) \o <<SEP>>,
                 <<>>, model.max_tokens)
  IN Of(BasicTokenize(text, model.do_lower_case))

(* The longer of the two loses its last token until both fit. *)
Truncate(query, candidate, room) ==
  LET excess == Len(query) + Len(candidate) - room
      Step(kept, k) == IF kept[1] > kept[2] THEN <<kept[1] - 1, kept[2]>>
                       ELSE <<kept[1], kept[2] - 1>>
      kept == FoldLeft(Step, <<Len(query), Len(candidate)>>, [k \in 1 .. excess |-> k])
  IN <<Prefix(query, kept[1]), Prefix(candidate, kept[2])>>

EncodePair(model, query, candidate) ==
  LET Both(first, second) ==
        Row(first \o second, [i \in DOMAIN first |-> 0] \o [i \in DOMAIN second |-> 1],
            model.max_tokens)
      Kept(kept) == Both(<<CLS>> \o kept[1] \o <<SEP>>, Append(kept[2], SEP))
      Of(q, c) ==
        IF q = Null \/ c = Null THEN Null
        ELSE Kept(Truncate(WordPieceTokenize(q), WordPieceTokenize(c), model.max_tokens - 3))
  IN Of(BasicTokenize(query, model.do_lower_case), BasicTokenize(candidate, model.do_lower_case))

-----------------------------------------------------------------------------
(* What goes into a tensor graph, and what comes out *)

ValidateRuntimeBatchTensor(tensor, batch, min_rank, max_rank) ==
  /\ Len(tensor.shape) \in min_rank .. max_rank
  /\ \A d \in DOMAIN tensor.shape : tensor.shape[d] > 0
  /\ tensor.shape[1] = batch

ValidateEmbeddingOutput(tensor, batch, model) ==
  /\ ValidateRuntimeBatchTensor(tensor, batch, 2, 3)
  /\ Len(tensor.shape) = 3 => tensor.shape[2] = model.max_tokens
  /\ Last(tensor.shape) = model.embedding_dim
  /\ TensorIsReadable(tensor, "float32")
  /\ Null \notin Range(tensor.data)

ValidateRerankOutput(tensor, batch) ==
  /\ ValidateRuntimeBatchTensor(tensor, batch, 1, 2)
  /\ Len(tensor.shape) = 2 => tensor.shape[2] = 1
  /\ TensorIsReadable(tensor, "float32")

(* The tensors of the rows, by name; the last one only if it is declared. *)
BertInputTensors(session, rows, max_tokens) ==
  LET shape == <<Len(rows), max_tokens>>
      Ids(part) == HostTensor("int64", shape, Column(rows, part))
      always == "input_ids" :> Ids("ids") @@ "attention_mask" :> Ids("mask")
  IN IF "token_type_ids" \in Range(Column(session.inputs, "name"))
     THEN "token_type_ids" :> Ids("types") @@ always ELSE always

(* Rows through the graph: what becomes of the output that is named. *)
InferRows(model, rows, Valid(_), Of(_)) ==
  LET Ran(ran) ==
        IF ran.code # "" THEN Refuse(ran.code)
        ELSE IF model.output_name \in DOMAIN ran.outputs /\ Valid(ran.outputs[model.output_name])
        THEN Of(ran.outputs[model.output_name]) ELSE Refuse("invalid_output")
  IN IF ~CreateHostTensor("int64", <<Len(rows), model.max_tokens>>) THEN Refuse("allocation_failed")
     ELSE IF Null \in Range(rows) THEN Refuse("invalid_input")
     ELSE Ran(Run(model.session, BertInputTensors(model.session, rows, model.max_tokens)))

-----------------------------------------------------------------------------
(* FixedBatchExecutor: a policy is [max, fixed]; fixed 0 is a dynamic      *)
(* batch.  A slice of a fixed batch is filled up with rows of nothing.     *)

ValidPolicy(policy) == policy.max # 0 /\ (policy.fixed # 0 => policy.fixed = policy.max)

BatchSlices(inputs, policy) ==
  LET total == Len(inputs)
      Offset(k) == (k - 1) * policy.max
      Valid(k) == Min({policy.max, total - Offset(k)})
      count == (total + policy.max - 1) \div policy.max
  IN [k \in 1 .. count |->
        [offset |-> Offset(k), valid_count |-> Valid(k),
         execution_count |-> IF policy.fixed > 0 THEN policy.fixed ELSE Valid(k)]]

(* Mutant: every slice is taken from the first inputs. *)
SliceInputOfBatch(inputs, slice, i) == inputs[i].data

(* What row i of a slice is made of. *)
SliceInput(inputs, slice, i) == inputs[slice.offset + i].data

(* answers[k] is what the model makes of slice k.  The first failure is    *)
(* the whole batch's, and no output is kept.                               *)
Execute(inputs, policy, answers) ==
  LET slices == BatchSlices(inputs, policy)
      Wrong(k) == Len(answers[k].outputs) # slices[k].execution_count
      bad == {k \in DOMAIN slices : answers[k].code # "" \/ Wrong(k)}
      first == answers[Min(bad)]
      Traced(k) == [i \in 1 .. slices[k].valid_count |->
        [inputs[slices[k].offset + i] EXCEPT !.data = answers[k].outputs[i]]]
  IN IF inputs = <<>> THEN Answer(<<>>)
     ELSE IF ~ValidPolicy(policy) THEN Refuse("invalid_batch_policy")
     ELSE IF bad # {}
     THEN Refuse(IF first.code # "" THEN first.code ELSE "output_count_mismatch")
     ELSE Answer(FlattenSeq([k \in DOMAIN slices |-> Traced(k)]))

(* results[i] is [code, value] of one input. *)
ExecuteItems(inputs, policy, results) ==
  LET slices == BatchSlices(inputs, policy)
      Of(slice) ==
        LET mine == [i \in 1 .. slice.valid_count |-> results[slice.offset + i]]
            bad == {i \in DOMAIN mine : mine[i].code # ""}
        IN IF bad # {} THEN Refuse(mine[Min(bad)].code) ELSE Answer(Column(mine, "value"))
  IN IF inputs # <<>> /\ policy.fixed # 0 THEN Refuse("invalid_batch_policy")
     ELSE Execute(inputs, policy, [k \in DOMAIN slices |-> Of(slices[k])])

-----------------------------------------------------------------------------
(* Vectors *)

SquaredNorm(vector) == FoldLeft(LAMBDA sum, v : sum + v * v, 0, vector)

(* The embedding of a pooled vector, or Null: there is no unit vector of   *)
(* direction zero.                                                         *)
FinalizeEmbeddingVector(vector, normalize) ==
  IF vector = <<>> \/ Null \in Range(vector) THEN Null
  ELSE IF ~normalize THEN vector
  ELSE IF SquaredNorm(vector) = 0 THEN Null ELSE Unit(vector)

(* Vectors are in units in which their means are whole numbers. *)
Sum(vectors, dim) ==
  [d \in 1 .. dim |-> FoldLeft(LAMBDA sum, v : sum + v[d], 0, vectors)]
Mean(vectors, dim) == [d \in 1 .. dim |-> Sum(vectors, dim)[d] \div Len(vectors)]

-----------------------------------------------------------------------------
(* BgeEmbeddingModel *)

(* The vector of row b: the tensor's rows follow each other in its data,   *)
(* as the tokens of a row do.                                              *)
PooledRow(model, tensor, row, b) ==
  LET dim == Last(tensor.shape)
      length == IF Len(tensor.shape) = 3 THEN tensor.shape[2] ELSE 1
      Token(s) == SubSeq(tensor.data, ((b - 1) * length + s - 1) * dim + 1,
                         ((b - 1) * length + s) * dim)
      kept == SelectSeq([s \in 1 .. length |-> s], LAMBDA s : row.mask[s] > 0)
  IN IF Len(tensor.shape) = 2 \/ model.pooling = "cls" THEN Token(1)
     ELSE IF kept = <<>> THEN [d \in 1 .. dim |-> 0]
     ELSE Mean([k \in DOMAIN kept |-> Token(kept[k])], dim)

EmbedRows(model, rows) ==
  LET Vectors(vectors) == IF Null \in Range(vectors) THEN Refuse("invalid_output")
                          ELSE Answer(vectors)
      Of(tensor) == Vectors([b \in DOMAIN rows |->
        FinalizeEmbeddingVector(PooledRow(model, tensor, rows[b], b), model.normalize)])
  IN InferRows(model, rows, LAMBDA t : ValidateEmbeddingOutput(t, Len(rows), model), Of)

RawEmbedSlice(model, inputs, slice) ==
  LET Source(i) == IF i <= slice.valid_count THEN SliceInput(inputs, slice, i) ELSE <<>>
  IN EmbedRows(model, [i \in 1 .. slice.execution_count |-> Encode(model, Source(i))])

BgeEmbed(model, inputs) ==
  LET slices == BatchSlices(inputs, model.session.policy)
  IN Execute(inputs, model.session.policy,
             [k \in DOMAIN slices |-> RawEmbedSlice(model, inputs, slices[k])])

-----------------------------------------------------------------------------
(* BgeRerankerModel: the activation keeps the order of the scores, so they *)
(* are the logits here.                                                    *)

ScoreRows(model, rows) ==
  LET Valid(tensor) == ValidateRerankOutput(tensor, Len(rows)) /\ Null \notin Range(tensor.data)
      Of(tensor) == Answer([b \in DOMAIN rows |-> [num |-> tensor.data[b], den |-> 1]])
  IN InferRows(model, rows, Valid, Of)

RawScoreSlice(model, inputs, slice) ==
  LET nothing == [query |-> <<>>, candidate |-> <<>>]
      Source(i) == IF i <= slice.valid_count THEN SliceInput(inputs, slice, i) ELSE nothing
  IN ScoreRows(model, [i \in 1 .. slice.execution_count |->
       EncodePair(model, Source(i).query, Source(i).candidate)])

BgeScore(model, inputs) ==
  LET slices == BatchSlices(inputs, model.session.policy)
  IN Execute(inputs, model.session.policy,
             [k \in DOMAIN slices |-> RawScoreSlice(model, inputs, slices[k])])

-----------------------------------------------------------------------------
(* The models that take one input at a time *)

Done(value) == [code |-> "", value |-> value]
Fault(code) == [code |-> code, value |-> Null]

PoolTokens(model, values) ==
  LET dim == model.embedding_dim
      Vector(vector) == IF vector = Null THEN Fault("invalid_output") ELSE Done(vector)
  IN IF \/ Len(values) \notin 1 .. model.max_tokens
        \/ \E v \in Range(values) : Len(v) # dim \/ Null \in Range(v)
     THEN Fault("invalid_output")
     ELSE Vector(FinalizeEmbeddingVector(
            IF model.pooling = "mean" THEN Mean(values, dim) ELSE Last(values), model.normalize))

GeneratedEmbed(model, inputs) ==
  LET Of(tokens) == IF tokens.code # "" THEN Fault(tokens.code) ELSE PoolTokens(model, tokens.values)
      Prompt(text) == model.prompt_prefix \o text \o model.prompt_suffix
      One(text) == IF text = <<>> THEN Fault("invalid_input")
                   ELSE Of(GenerateEmbeddings(model.session, Prompt(text), model.add_bos,
                                              model.max_tokens))
  IN ExecuteItems(inputs, model.session.policy,
                  [i \in DOMAIN inputs |-> One(inputs[i].data)])

(* An audio is [sample_rate, samples], a sample a number or Null for NaN.  *)
(* All of the batch is validated before any is transcribed; empty audio is *)
(* text of no length.                                                      *)
AudioIsUsable(model, audio) ==
  /\ audio.sample_rate = WhisperRate
  /\ audio.samples # <<>> =>
       /\ Len(audio.samples) \in WhisperMinSamples .. model.max_audio_seconds * WhisperRate
       /\ \A i \in DOMAIN audio.samples :
            audio.samples[i] # Null /\ audio.samples[i] \in -1 .. 1

TrimAscii(text) ==
  LET solid == {i \in DOMAIN text : text[i] \notin {9, 10, 13, 32}}
  IN IF solid = {} THEN <<>> ELSE SubSeq(text, Min(solid), Max(solid))

WhisperTranscribe(model, audio, language) ==
  LET Text(text) == IF ByteCount(text) > model.max_output_bytes THEN Fault("invalid_output")
                    ELSE Done(text)
      Of(heard) == IF heard.code # "" THEN Fault(heard.code)
                   ELSE IF 0 \in Range(heard.text) THEN Fault("invalid_output")
                   ELSE IF -1 \in Range(heard.text) THEN Fault("invalid_utf8")
                   ELSE Text(TrimAscii(heard.text))
      One(item) == IF item.samples = <<>> THEN Done(<<>>)
                   ELSE Of(TranscribeAudio(model.session, item, language, model.max_output_bytes))
  IN IF \E item \in Range(audio) : ~AudioIsUsable(model, item.data) THEN Refuse("invalid_input")
     ELSE ExecuteItems(audio, model.session.policy,
                       [i \in DOMAIN audio |-> One(audio[i].data)])

(* An image is [width, height, stride, data], bytes by row; Null when it   *)
(* is none or too large.  Sides are filled up with white to whole patches. *)
PrepareDocumentImage(model, image) ==
  LET Whole(side) == ((side + model.patch_size - 1) \div model.patch_size) * model.patch_size
      width == Whole(image.width)
      height == Whole(image.height)
      Pixel(c, y, x) == IF y < image.height /\ x < image.width
                        THEN image.data[y * image.stride + x * 3 + c + 1] ELSE 255
  IN IF \/ image.width <= 0 \/ image.height <= 0
        \/ image.width * image.height > model.max_pixels
        \/ image.stride < image.width * 3
        \/ Len(image.data) # image.stride * image.height
        \/ width > model.max_pixels \div height
     THEN Null
     ELSE [prompt |-> model.prompt, width |-> width, height |-> height,
           patch_size |-> model.patch_size, size |-> 3 * width * height,
           rgb |-> [c \in 0 .. 2 |-> [y \in 0 .. height - 1 |-> [x \in 0 .. width - 1 |->
                     Pixel(c, y, x)]]]]

VisionRecognize(model, images) ==
  LET Of(read) == IF read.code # "" THEN Fault(read.code)
                  ELSE IF read.text = <<>> THEN Fault("invalid_output")
                  ELSE Done([combined_text |-> read.text, boxes |-> <<>>])
      Asked(request) ==
        IF request = Null THEN Fault("invalid_input")
        ELSE Of(InferletDescribe(model.session, request, Greedy(model.max_tokens)))
  IN ExecuteItems(images, model.session.policy, [i \in DOMAIN images |->
       Asked(PrepareDocumentImage(model, images[i].data))])

(* QwenCausalLmModel: marks of the chat are code points of their own here. *)
ApplyChatTemplate(prompt, system_prompt) ==
  LET Turn(role, text) == <<ImStart, role, 10>> \o text
  IN (IF system_prompt = <<>> THEN <<>>
      ELSE Turn(SystemRole, system_prompt) \o <<ImEnd, 10>>)
     \o Turn(UserRole, prompt) \o <<ImEnd, 10, ImStart, AssistantRole, 10>>

(* The session takes no seed. *)
QwenGenerate(model, prompts, options) ==
  LET Of(written) == IF written.code # "" THEN Fault(written.code)
                     ELSE Done(DropIncomplete(written.text))
      Chat(prompt) == ApplyChatTemplate(prompt, options.system_prompt)
      One(prompt) ==
        IF prompt = <<>> THEN Fault("invalid_input")
        ELSE Of(InferletGenerate(model.session, Chat(prompt), model.add_bos, options))
  IN IF prompts = <<>> THEN Answer(<<>>)
     ELSE IF model.session.policy.max = 0 \/ model.session.policy.fixed # 0
     THEN Refuse("invalid_batch_policy")
     ELSE ExecuteItems(prompts, model.session.policy,
                       [i \in DOMAIN prompts |-> One(prompts[i].data)])

-----------------------------------------------------------------------------
(* Making a model: a session is [protocol, policy, inputs, outputs], its   *)
(* inputs and outputs [name, type, shape], with -1 for a dimension that is *)
(* not static.  A parameter that is not given is Null.  None is no model.  *)

(* What is configured must agree with what the model says of itself. *)
ResolveFromModel(configured, detected, fallback) ==
  IF configured # Null /\ detected # Null /\ configured # detected THEN Null
  ELSE IF configured # Null THEN configured
  ELSE IF detected # Null THEN detected ELSE fallback

(* The last dimension of an output, the length of the input sequences. *)
StaticOutputDim(session, output_name) ==
  LET static == SelectSeq(session.outputs, LAMBDA o :
                  o.name = output_name /\ o.shape # <<>> /\ Last(o.shape) > 0)
  IN IF static = <<>> THEN Null ELSE Last(static[1].shape)
StaticSequenceLength(session) ==
  LET static == SelectSeq(session.inputs, LAMBDA i : Len(i.shape) = 2 /\ i.shape[2] > 0)
  IN IF static = <<>> THEN Null ELSE static[1].shape[2]

ValidateTensorBatchDimension(dimension, policy) ==
  dimension > 0 =>
    /\ policy.fixed > 0 => dimension = policy.fixed
    /\ dimension <= policy.max

ValidateBertInputMetadata(session, max_tokens) ==
  LET names == Column(session.inputs, "name") IN
  /\ IsInjective(names)
  /\ Range(names) \subseteq {"input_ids", "attention_mask", "token_type_ids"}
  /\ {"input_ids", "attention_mask"} \subseteq Range(names)
  /\ \A input \in Range(session.inputs) :
       /\ input.type = "int64" /\ Len(input.shape) = 2
       /\ input.shape[1] # 0 /\ input.shape[2] # 0
       /\ input.shape[2] > 0 => input.shape[2] = max_tokens
       /\ ValidateTensorBatchDimension(input.shape[1], session.policy)

(* The output of that name, or Null when it is not as it must be. *)
RequireFloatOutputMetadata(session, output_name, min_rank, max_rank) ==
  LET found == SelectSeq(session.outputs, LAMBDA o : o.name = output_name)
      output == found[1]
  IN IF /\ found # <<>> /\ output.type = "float32"
        /\ Len(output.shape) \in min_rank .. max_rank
        /\ output.shape[1] # 0
        /\ ValidateTensorBatchDimension(output.shape[1], session.policy)
     THEN output ELSE Null

ValidateEmbeddingOutputMetadata(session, output_name, max_tokens, embedding_dim) ==
  LET Agrees(output) ==
        /\ output # Null
        /\ Last(output.shape) # 0
        /\ Last(output.shape) > 0 => Last(output.shape) = embedding_dim
        /\ Len(output.shape) = 3 =>
             /\ output.shape[2] # 0
             /\ output.shape[2] > 0 => output.shape[2] = max_tokens
  IN Agrees(RequireFloatOutputMetadata(session, output_name, 2, 3))

(* params holds every parameter of the model, those that are given for     *)
(* embedding_dim and max_tokens.                                           *)
CreateBgeEmbedding(session, params) ==
  LET Make(dim, tokens) ==
        IF /\ session.protocol = "tensor_graph"
           /\ dim # Null /\ tokens # Null
           /\ tokens \in 2 .. 4096 /\ dim \in 1 .. 65536
           /\ ValidateBertInputMetadata(session, tokens)
           /\ ValidateEmbeddingOutputMetadata(session, params.output_name, tokens, dim)
           /\ InitializeVocab
        THEN [params EXCEPT !.embedding_dim = dim, !.max_tokens = tokens]
             @@ [session |-> session, interface |-> "embedding"]
        ELSE Null
  IN Make(ResolveFromModel(params.embedding_dim, StaticOutputDim(session, params.output_name), Null),
          ResolveFromModel(params.max_tokens, StaticSequenceLength(session), 512))

CreateBgeReranker(session, params) ==
  LET Make(tokens, output) ==
        IF /\ session.protocol = "tensor_graph"
           /\ tokens # Null /\ tokens \in 3 .. 4096
           /\ ValidateBertInputMetadata(session, tokens)
           /\ output # Null
           /\ Len(output.shape) = 2 => output.shape[2] = 1 \/ output.shape[2] < 0
           /\ InitializeVocab
        THEN [params EXCEPT !.max_tokens = tokens]
             @@ [session |-> session, interface |-> "rerank"]
        ELSE Null
  IN Make(ResolveFromModel(params.max_tokens, StaticSequenceLength(session), 512),
          RequireFloatOutputMetadata(session, params.output_name, 1, 2))

(* These take one input at a time, a text generator any number. *)
OneByOne(session, protocol, params, interface) ==
  IF session.protocol = protocol /\ session.policy = [max |-> 1, fixed |-> 0]
  THEN params @@ [session |-> session, interface |-> interface] ELSE Null
CreateGeneratedTextEmbedding(session, params) ==
  OneByOne(session, "generated_token_embedding", params, "embedding")
CreateWhisperAsr(session, params) == OneByOne(session, "audio_transcription", params, "asr")
CreateVisionDocument(session, params) == OneByOne(session, "image_text_generation", params, "ocr")
CreateQwenCausalLm(session, params) ==
  IF session.protocol = "text_generation" /\ session.policy.max # 0 /\ session.policy.fixed = 0
  THEN params @@ [session |-> session, interface |-> "llm"] ELSE Null

=============================================================================
