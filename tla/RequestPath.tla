------------------------------ MODULE RequestPath -----------------------------
(***************************************************************************)
(* A deployment from its document to the responses: the document is        *)
(* resolved to a plan, the Pipeline is built from it, and batches of       *)
(* requests are decoded, taken through the layers of Nodes and encoded     *)
(* (shared_algorithm_runtime.cpp, core/pipeline.cpp).  It composes the     *)
(* modules on documents, validation, Nodes, models, backends and           *)
(* converters; the output pools, the locks and the threads have modules of *)
(* their own.                                                              *)
(*                                                                         *)
(* A call is [requests, board, layer, results]: the numbers of the         *)
(* scenario's requests, the blackboard, the layer that is executed and     *)
(* what its Nodes returned so far.  history holds the calls that ended.    *)
(***************************************************************************)
EXTENDS Deployment

CONSTANTS
  Scenarios,         \* name: [document, target, room, requests, calls]
  ProcessBatchLimit, \* requests of a call
  MaxCalls,          \* bound: calls of a behaviour
  CodePoint          \* character: its code point

VARIABLES scenario, state, io, pipeline, call, cache, history
vars == <<scenario, state, io, pipeline, call, cache, history>>

-----------------------------------------------------------------------------
(* A Node calls a model by its interface.  Nodes write texts in characters, *)
(* models in code points.                                                  *)

Points(text) == [i \in DOMAIN text |-> CodePoint[text[i]]]
Characters(points) ==
  [i \in DOMAIN points |-> CHOOSE char \in DOMAIN CodePoint : CodePoint[char] = points[i]]
MapData(batch, Of(_)) == [i \in DOMAIN batch |-> [batch[i] EXCEPT !.data = Of(@)]]
InCharacters(answer) == [answer EXCEPT !.outputs = MapData(@, Characters)]

GenerateBy(model, prompts, options) ==
  InCharacters(QwenGenerate(model, MapData(prompts, Points),
    [options EXCEPT !.system_prompt = Points(@),
                    !.stop_words = [w \in DOMAIN @ |-> Points(@[w])]]))
EmbedBy(model, texts) ==
  IF model.session.protocol = "tensor_graph" THEN BgeEmbed(model, MapData(texts, Points))
  ELSE GeneratedEmbed(model, MapData(texts, Points))
ScoreBy(model, pairs) ==
  LET Both(pair) == [query |-> Points(pair.query), candidate |-> Points(pair.candidate)]
  IN BgeScore(model, MapData(pairs, Both))
TranscribeBy(model, audio, language) ==
  InCharacters(WhisperTranscribe(model, audio, language))
RecognizeBy(model, images) ==
  LET Document(document) == [document EXCEPT !.combined_text = Characters(@)]
      answer == VisionRecognize(model, images)
  IN [answer EXCEPT !.outputs = MapData(@, Document)]
SpeaksBy(model, language) == SupportsLanguage(model.session, language)

-----------------------------------------------------------------------------
(* Building: all models, then all Nodes. *)

MaterializeModels(catalog, plan, target) ==
  LET Together(staged) ==
        IF Null \in Range(Column(staged, "model"))
        THEN Failure("models", Null, "model_materialization_failed")
        ELSE RegisterBatch(<<>>, staged)
  IN Together([m \in DOMAIN plan.models |->
       [name |-> plan.models[m].name,
        model |-> ModelRuntimeCreate(catalog.models, catalog.backends,
                                     [target |-> target] @@ plan.models[m])]])

(* The Node of a plan, or Null when its Init fails. *)
MaterializeNode(plan, definition, manager) ==
  LET own == Names(definition.params) \cap DOMAIN plan.params.value
      models == [slot \in DOMAIN plan.models |-> manager[plan.models[slot].model]]
      Made(params) ==
        IF InitNode(plan, definition, Interfaces(manager),
                    params.ok /\ ValidateState(plan.node_type, params.value, plan.connected),
                    ModelsFit(plan.node_type, params.value, models))
        THEN [node_type |-> plan.node_type, spec |-> definition, params |-> params.value,
              models |-> models, session |-> plan.session, ports |-> plan.ports]
        ELSE Null
  IN Made(Parse(definition.params, JsonObject(Restrict(plan.params.value, own))))

MaterializeNodes(catalog, plan, manager) ==
  LET All(nodes) == IF Null \in Range(nodes) THEN Failure("nodes", Null, "node_init_failed")
                    ELSE Success(nodes)
      DefinitionOf(node) == catalog.nodes.entries[node.node_type]
  IN All([name \in DOMAIN plan.nodes |->
       MaterializeNode(plan.nodes[name], DefinitionOf(plan.nodes[name]), manager)])

BuildFromPlan(catalog, plan, target) ==
  Then(MaterializeModels(catalog, plan, target),
       LAMBDA manager : MaterializeNodes(catalog, plan, manager))

-----------------------------------------------------------------------------
(* A call *)

Label(converter) == <<converter.type, converter.name>>

(* decode_fn of the converter that an input entry selects. *)
DecodeFn(key, values, ports, board) ==
  CASE key = Label(AuditInput) -> DecodeAuditInput(values, ports, board)
    [] key = Label(DocQueryInput) -> DecodeDocQueryInput(values, ports, board)
    [] key = Label(AudioInput) -> DecodeAudioInput(values, ports, board)
    [] key = Label(TranslateJsonInput) -> DecodeTranslateJson(values, ports, board)
    [] key = Label(FrameInput) -> DecodeFrameInput(values, ports, board)
    [] key = Label(QueryInput) -> DecodeQueryInput(values, ports, board)
    [] key = Label(RerankInput) -> DecodeRerankInput(values, ports, board)
    [] key \in {Label(EntityInput), Label(KeywordInput)} -> DecodeSentences(values, ports, board)

EncodeFn(key, board, ports, destination) ==
  CASE key = Label(KeywordResult) -> EncodeKeywordResult(board, ports, destination)
    [] key = Label(TranslationJson) -> EncodeTranslationJson(board, ports, destination)
    [] key = Label(StructuredDocument) -> EncodeStructuredDocument(board, ports, destination)
    [] key = Label(RerankResult) -> EncodeRerankResult(board, ports, destination)
    [] key = Label(AudioResult) -> EncodeAudioResult(board, ports, destination)
    [] key = Label(InvoiceResult) -> EncodeInvoiceResult(board, ports, destination)
    [] key = Label(DocAnswer) -> EncodeDocAnswer(board, ports, destination)
    [] key = Label(AuditResult) -> EncodeAuditResult(board, ports, destination)

(* The inputs in their order, up to the first that cannot be decoded. *)
DecodeAll(inputs, requests) ==
  LET Values(i) == [r \in DOMAIN requests |-> Scenarios[scenario].requests[requests[r]][i]]
      Decode(decoded, i) ==
        IF decoded.code # "ok" THEN decoded
        ELSE DecodeFn(inputs[i].key, Values(i), inputs[i].ports, decoded.board)
  IN FoldLeft(Decode, [code |-> "ok", board |-> <<>>], [i \in DOMAIN inputs |-> i])

(* Every request has leased a response of each output. *)
EncodeAll(outputs, requests, board) ==
  LET Leased(output) == [required |-> TRUE, slots |-> [r \in DOMAIN requests |-> output.room]]
      Encoded(encoded) ==
        LET bad == {o \in DOMAIN outputs : encoded[o].code # "ok"} IN
        IF bad # {} THEN [code |-> encoded[Min(bad)].code, rows |-> <<>>]
        ELSE [code |-> "ok",
              rows |-> [r \in DOMAIN requests |-> [o \in DOMAIN outputs |-> encoded[o].rows[r]]]]
  IN Encoded([o \in DOMAIN outputs |->
       EncodeFn(outputs[o].key, board, outputs[o].ports, Leased(outputs[o]))])

(* ProcessNode: [code, board, cache]. *)
PublishRun(node, in, result, board) ==
  FinishRun(node, node.spec, in, result, board) @@ [cache |-> CacheAfter(node, in, cache, result)]
RunWith(node, in, board) == PublishRun(node, in, RunNode(node, in, cache), board)
ProcessNode(node, board) ==
  IF InputsReady(node, node.spec, board)
  THEN RunWith(node, PopulateInputs(node, node.spec, board), board)
  ELSE [code |-> "missing_input", board |-> board, cache |-> cache]

-----------------------------------------------------------------------------

Init ==
  /\ scenario \in DOMAIN Scenarios
  /\ state = "empty" /\ io = Null /\ pipeline = Null
  /\ call = Null /\ cache = <<>> /\ history = <<>>

Resolve ==
  /\ state = "empty" /\ io = Null
  /\ io' = ResolveFromPipelineJson(Catalog, Scenarios[scenario].document)
  /\ state' = IF io'.code = "" THEN state ELSE "refused"
  /\ UNCHANGED <<scenario, pipeline, call, cache, history>>

BuildPipeline ==
  /\ state = "empty" /\ io # Null
  /\ \E built \in {BuildFromPlan(Catalog, io.plan, Scenarios[scenario].target)} :
       IF built.ok THEN state' = "ready" /\ pipeline' = built.value
       ELSE state' = "failed" /\ pipeline' = pipeline
  /\ UNCHANGED <<scenario, io, call, cache, history>>

End(requests, code, rows) ==
  /\ call' = Null
  /\ history' = Append(history, [requests |-> requests, code |-> code, rows |-> rows])

(* Process: the call begins when all inputs are decoded. *)
Receive(requests) ==
  /\ state = "ready" /\ call = Null /\ Len(history) < MaxCalls
  /\ IF Len(requests) > ProcessBatchLimit THEN End(requests, "invalid_input", <<>>)
     ELSE \E decoded \in {DecodeAll(io.inputs, requests)} :
            IF decoded.code # "ok" THEN End(requests, decoded.code, <<>>)
            ELSE /\ call' = [requests |-> requests, board |-> decoded.board, layer |-> 1,
                             results |-> <<>>]
                 /\ UNCHANGED history
  /\ UNCHANGED <<scenario, state, io, pipeline, cache>>

Executing == state = "ready" /\ call # Null /\ call.layer <= Len(io.plan.layers)
Layer == io.plan.layers[call.layer]
Parallel == io.plan.workers > 1 /\ Len(Layer) > 1
Failed(results) == {name \in DOMAIN results : results[name] # "ok"}

(* Nodes that run beside each other end in any order; in sequence, none is *)
(* run after one that failed.                                              *)
ExecuteNode(name) ==
  /\ name \notin DOMAIN call.results
  /\ ~Parallel => /\ name = Layer[Cardinality(DOMAIN call.results) + 1]
                  /\ Failed(call.results) = {}
  /\ \E processed \in {ProcessNode(pipeline[name], call.board)} :
       /\ call' = [call EXCEPT !.board = processed.board,
                               !.results = name :> processed.code @@ @]
       /\ cache' = processed.cache
  /\ UNCHANGED <<scenario, state, io, pipeline, history>>

(* The first failure of a layer, in the order of the plan, is the call's.  *)
EndLayer ==
  /\ Executing
  /\ \/ DOMAIN call.results = Range(Layer)
     \/ ~Parallel /\ Failed(call.results) # {}
  /\ LET first == SelectSeq(Layer, LAMBDA name : name \in Failed(call.results))
     IN IF first # <<>> THEN End(call.requests, call.results[first[1]], <<>>)
        ELSE /\ call' = [call EXCEPT !.layer = @ + 1, !.results = <<>>]
             /\ UNCHANGED history
  /\ UNCHANGED <<scenario, state, io, pipeline, cache>>

Respond ==
  /\ state = "ready" /\ call # Null /\ call.layer > Len(io.plan.layers)
  /\ \E encoded \in {EncodeAll(io.outputs, call.requests, call.board)} :
       End(call.requests, encoded.code, encoded.rows)
  /\ UNCHANGED <<scenario, state, io, pipeline, cache>>

Next ==
  \/ Resolve \/ BuildPipeline \/ EndLayer \/ Respond
  \/ \E requests \in Scenarios[scenario].calls : Receive(requests)
  \/ Executing /\ \E name \in Range(Layer) : ExecuteNode(name)

Spec == Init /\ [][Next]_vars

-----------------------------------------------------------------------------
(* Correctness *)

(* What a request is answered does not depend on the requests that are in  *)
(* its batch with it, on their order, or on the calls before: a batch of   *)
(* some requests of one that succeeded succeeds as well, and the same      *)
(* request gets the same response in both.  Slices of a batch for the      *)
(* model, padding, keys, groups and the session's cache must not mix up    *)
(* requests.                                                               *)
RequestsAreIndependent ==
  \A c, d \in Range(history) :
    /\ c.code = "ok" /\ Range(d.requests) \subseteq Range(c.requests)
       /\ Len(d.requests) <= ProcessBatchLimit => d.code = "ok"
    /\ c.code = "ok" /\ d.code = "ok" =>
         \A i \in DOMAIN c.requests, j \in DOMAIN d.requests :
           c.requests[i] = d.requests[j] => c.rows[i] = d.rows[j]

(* What Nodes rank is traced to where it comes from: each request's ranks  *)
(* are 1, 2, ... with scores that do not increase, and every entry has the *)
(* text of the candidate it names, its own request's or, of a corpus that  *)
(* requests share, the corpus'.                                            *)
Rankers == {name \in DOMAIN pipeline : pipeline[name].node_type \in {"vector_top_k", "text_rerank"}}
RankedResultsNameTheirSource ==
  state = "ready" /\ call # Null =>
  \A name \in Rankers : <<name, "ranked">> \in DOMAIN call.board =>
    LET node == pipeline[name]
        ranked == call.board[<<name, "ranked">>].batch
        Of(port) == call.board[node.ports.input[port].key].batch
        TextOf(candidate) == IF node.node_type = "text_rerank" THEN candidate.data.text
                             ELSE Match(candidate, Of("candidate_texts")).data
        Origin(item) ==
          LET own == OfRequest(Of("candidates"), item.req)
              req == IF own = <<>> THEN 0 ELSE item.req
          IN Match([req |-> req, sub |-> item.data.original_sub_id], Of("candidates"))
        Ranks(req) == DataOf(ranked, req)
    IN /\ \A item \in Range(ranked) :
            Origin(item) # Null /\ TextOf(Origin(item)) = item.data.text
       /\ \A req \in Range(Column(ranked, "req")) : \A k \in DOMAIN Ranks(req) :
            /\ Ranks(req)[k].rank = k
            /\ k > 1 => AtLeast(Ranks(req)[k - 1].score, Ranks(req)[k].score)


(* A Node's 1:1 output has one item for each item of the inputs that it    *)
(* takes item by item; one for each request only when none is connected    *)
(* (doc/dev_guide/custom_node_concepts.md:286).                            *)
OneToOneOutputsFollowInputs ==
  state = "ready" /\ call # Null =>
  \A name \in DOMAIN pipeline :
    LET node == pipeline[name]
        Flow(ports, port) == Named(ports, port).flow.cardinality
        Taken == {port \in DOMAIN node.ports.input : Flow(node.spec.inputs, port) = "1:1"}
    IN \A port \in DOMAIN node.ports.output :
         LET key == node.ports.output[port].key IN
         Flow(node.spec.outputs, port) = "1:1" /\ key \in DOMAIN call.board =>
           \A input \in Taken :
             KeySet(call.board[key].batch) = KeySet(call.board[node.ports.input[input].key].batch)
===============================================================================
