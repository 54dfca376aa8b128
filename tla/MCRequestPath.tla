---------------------------- MODULE MCRequestPath ----------------------------
(***************************************************************************)
(* The deployments of src/configs in small: their wiring, with texts of a  *)
(* few characters, models that count characters and a language model that  *)
(* answers with its prompt.  Others use the batch starters, or cannot be   *)
(* deployed.                                                               *)
(***************************************************************************)
EXTENDS RequestPath

-----------------------------------------------------------------------------
(* Documents *)

S(value) == Json("string", value)
A(values) == Json("array", values)
I(number) == Json("integer", number)

In(type, name) == JsonObject([type |-> S(type), name |-> S(name)])
Out(name, inputs) ==
  JsonObject([type |-> S("json_out"), name |-> S(name),
              inputs |-> JsonObject([p \in DOMAIN inputs |-> S(inputs[p])])])
Model(type, name, file, params, backend, backend_params) ==
  JsonObject([type |-> S(type), name |-> S(name), file |-> S(file), params |-> JsonObject(params),
              backend |-> JsonObject([type |-> S(backend), params |-> JsonObject(backend_params)])])
Node(type, name, params, inputs) ==
  JsonObject([type |-> S(type), name |-> S(name), params |-> JsonObject(params),
              inputs |-> JsonObject([p \in DOMAIN inputs |-> S(inputs[p])])])
Document(ins, outs, models, nodes) ==
  JsonObject([io |-> JsonObject([input |-> A(ins), output |-> A(outs)]),
              models |-> A(models), pipeline |-> A(nodes)])
(* Two workers. *)
Wide(document) == JsonObject([max_parallel_workers |-> I(2)] @@ document.value)

V(name) == <<"{", "{", name, "}", "}">>
Words(texts) == A([t \in DOMAIN texts |-> S(texts[t])])
Bind(model) == [bind_model |-> S(model)]

EmbedModel ==
  Model("embedding", "embed_model", "fixed.onnx",
        [tokenizer_file |-> S("vocab.txt"), embedding_dim |-> I(2)], "onnxruntime", <<>>)
MeanModel ==
  Model("embedding", "embed_model", "tokens.onnx",
        [tokenizer_file |-> S("vocab.txt"), embedding_dim |-> I(2), max_tokens |-> I(5),
         pooling |-> S("mean")], "onnxruntime", [max_batch_size |-> I(2)])
GeneratedModel ==
  Model("embedding", "embed_model", "qwen_embed.gguf", [embedding_dim |-> I(2)], "inferlet", <<>>)
RerankModel ==
  Model("rerank", "rerank_model", "rerank.onnx", [tokenizer_file |-> S("vocab.txt"), max_tokens |-> I(9)],
        "onnxruntime", [max_batch_size |-> I(2)])
LlmModel(name) ==
  Model("llm", name, "qwen.gguf", <<>>, "inferlet", [run_config_file |-> S("run.json")])
VisionModel ==
  Model("ocr", "ocr_model", "vision.gguf", [patch_size |-> I(2), max_pixels |-> I(4)],
        "inferlet", [run_config_file |-> S("vision.json")])
AsrModel(file) == Model("asr", "asr_model", file, <<>>, "whisper_cpp", <<>>)

Embedding(name, from) == Node("text_embedding", name, Bind("embed_model"), [text |-> from])
Llm(name, model, endpoints, from) ==
  Node("llm_generate", name, Bind(model) @@ [endpoints |-> JsonObject(endpoints)], [input |-> from])
Once == [answer |-> JsonObject(<<>>)]

-----------------------------------------------------------------------------
(* The wirings *)

(* pipeline_doc_qa_rerank_default.json *)
DocQa(embed_model, chunk, top_k) ==
  Document(<<In("doc_in", "doc_qa")>>,
    <<Out("doc_qa", [answer_text |-> <<"generate_answer", "text">>,
                     intent |-> <<"match_intent", "matches">>,
                     chunk_count |-> <<"chunk_docs", "chunk_counts">>])>>,
    <<embed_model, RerankModel, LlmModel("llm_model")>>,
    << Node("text_chunk", "chunk_docs", chunk, [text |-> <<"input", "doc_text">>]),
       Embedding("embed_query", <<"input", "query_text">>),
       Embedding("embed_chunks", <<"chunk_docs", "chunks">>),
       Node("vector_top_k", "retrieve", [top_k |-> I(top_k)],
            [queries |-> <<"embed_query", "embedding">>,
             candidates |-> <<"embed_chunks", "embedding">>,
             candidate_texts |-> <<"chunk_docs", "chunks">>]),
       Node("text_rerank", "rerank_contexts", Bind("rerank_model"),
            [queries |-> <<"input", "query_text">>, candidates |-> <<"retrieve", "ranked">>]),
       Node("text_template", "build_prompt", [template |-> S(V("context") \o <<":">> \o V("primary"))],
            [primary |-> <<"input", "query_text">>, context |-> <<"rerank_contexts", "ranked">>]),
       Node("text_rule_match", "match_intent",
            [default_category |-> S(<<"q">>),
             categories |-> JsonObject("b" :> Words(<< <<"b">>, <<"a", "b">> >>))],
            [text |-> <<"input", "query_text">>]),
       Llm("generate_answer", "llm_model", Once, <<"build_prompt", "text">>) >>)

(* pipeline_dialogue_audit_default.json *)
DialogueAudit ==
  Document(<<In("audit_in", "dialogue_audit")>>,
    <<Out("dialogue_audit", [verdict |-> <<"parse_verdict", "document">>,
                             matched_policy |-> <<"rerank_policies", "ranked">>])>>,
    <<EmbedModel, RerankModel, LlmModel("audit_llm")>>,
    << Node("text_rule_match", "match_rules",
            [categories |-> JsonObject("b" :> Words(<< <<"b">> >>))],
            [text |-> <<"input", "channel_name">>]),
       Node("text_corpus_source", "policy_corpus",
            [corpus |-> Words(<< <<"a", "a">>, <<"b">>, <<"a", " ", "b">> >>)], <<>>),
       Embedding("embed_dialogue", <<"input", "user_text">>),
       Embedding("embed_policies", <<"policy_corpus", "corpus">>),
       Node("vector_top_k", "retrieve_policies", [top_k |-> I(3)],
            [queries |-> <<"embed_dialogue", "embedding">>,
             candidates |-> <<"embed_policies", "embedding">>,
             candidate_texts |-> <<"policy_corpus", "corpus">>]),
       Node("text_rerank", "rerank_policies", Bind("rerank_model"),
            [queries |-> <<"input", "user_text">>, candidates |-> <<"retrieve_policies", "ranked">>]),
       Node("text_template", "build_prompt",
            [template |-> S(V("primary") \o V("context") \o V("matches"))],
            [primary |-> <<"input", "user_text">>, context |-> <<"rerank_policies", "ranked">>,
             matches |-> <<"match_rules", "matches">>]),
       Llm("generate_verdict", "audit_llm", Once, <<"build_prompt", "text">>),
       Node("structured_json_parse", "parse_verdict",
            [failure_policy |-> S("fail"),
             required_fields |-> A(<<S("risk_level"), S("risk_score")>>)],
            [text |-> <<"generate_verdict", "text">>]) >>)

(* pipeline_ocr_invoice_qa_kite.json *)
InvoiceQa ==
  Document(<<In("frame", "ocr_invoice_qa"), In("string", "ocr_invoice_qa")>>,
    <<Out("ocr_invoice_qa", [result |-> <<"parse_invoice", "document">>,
                             document |-> <<"read_invoice", "document">>])>>,
    <<VisionModel, LlmModel("llm_model")>>,
    << Node("ocr_detect", "read_invoice", Bind("ocr_model"), [images |-> <<"input", "image">>]),
       Node("text_template", "build_prompt", [template |-> S(V("primary") \o V("document"))],
            [primary |-> <<"input", "question">>, document |-> <<"read_invoice", "document">>]),
       Llm("generate_invoice", "llm_model", Once, <<"build_prompt", "text">>),
       Node("structured_json_parse", "parse_invoice", [failure_policy |-> S("fail")],
            [text |-> <<"generate_invoice", "text">>]) >>)

(* pipeline_audio_asr_intent_cpu.json *)
AudioIntent(file, language) ==
  Document(<<In("audio_in", "audio_asr_intent")>>,
    <<Out("audio_asr_intent", [transcribed_text |-> <<"transcribe_audio", "text">>,
                               intent_slot |-> <<"match_intent", "matches">>])>>,
    <<AsrModel(file)>>,
    << Node("asr_transcribe", "transcribe_audio", Bind("asr_model") @@ [language |-> S(language)],
            [audio |-> <<"input", "audio">>]),
       Node("text_rule_match", "match_intent",
            [categories |-> JsonObject("a" :> Words(<< <<"a", "b">> >>))],
            [text |-> <<"transcribe_audio", "text">>]) >>)

(* pipeline_keyword_match_rules.json, with rules as well *)
Rule(strategy, pattern, category) ==
  JsonObject([strategy |-> S(strategy), pattern |-> S(pattern), category |-> S(category),
              constants |-> JsonObject([source |-> S(<<"c">>)])])
KeywordMatch(rules) ==
  Document(<<In("keyword_in", "keyword_match")>>,
    <<Out("keyword_match", [matches |-> <<"match_keywords", "matches">>])>>, <<>>,
    << Node("text_rule_match", "match_keywords",
            [categories |-> JsonObject("q" :> Words(<< <<"c">> >>)), rules |-> A(rules)],
            [text |-> <<"input", "sentence_text">>]) >>)

(* pipeline_entity_extract_inferlet.json *)
EntityExtract(params) ==
  Document(<<In("entity_in", "entity_extract")>>,
    <<Out("entity_extract", [entities |-> <<"parse_entities", "document">>])>>,
    <<LlmModel("entity_llm")>>,
    << Node("text_template", "build_prompt", [template |-> S(<<"a">> \o V("primary"))],
            [primary |-> <<"input", "sentence_text">>]),
       Llm("generate_entities", "entity_llm", Once, <<"build_prompt", "text">>),
       Node("structured_json_parse", "parse_entities",
            params @@ [field_types |-> JsonObject([query |-> S("string")])],
            [text |-> <<"generate_entities", "text">>]) >>)

(* pipeline_cross_rerank_cpu.json *)
CrossRerank ==
  Document(<<In("rerank_in", "cross_rerank")>>,
    <<Out("cross_rerank", [ranked |-> <<"rank_candidates", "ranked">>])>>, <<RerankModel>>,
    << Node("text_rerank", "rank_candidates", Bind("rerank_model") @@ [top_k |-> I(8)],
            [queries |-> <<"input", "query_text">>, candidates |-> <<"input", "candidates">>]) >>)

(* pipeline_translate_cpu.json, with what takes the place of its Node *)
Translation(models, nodes) ==
  Document(<<In("entity_in", "translate")>>,
    <<Out("translate", [translation |-> <<"translate_text", "text">>])>>, models, nodes)
Translate(params, endpoints) ==
  Translation(<<LlmModel("translate_llm")>>,
    << Node("llm_generate", "translate_text",
            Bind("translate_llm") @@ params @@ [endpoints |-> JsonObject(endpoints)],
            [input |-> <<"input", "query">>]) >>)

(* The batch starters, over the two texts of doc_in *)
StarterDocument(models, node, output) ==
  Document(<<In("doc_in", "doc_qa")>>, <<Out("translate", [translation |-> output])>>, models, node)
Starter(type, params, inputs, models) ==
  StarterDocument(models, <<Node(type, "starter", params, inputs)>>, <<"starter", "output">>)
BothTexts(first, second) == first :> <<"input", "query_text">> @@ second :> <<"input", "doc_text">>

-----------------------------------------------------------------------------
(* Characters, JSON and regular expressions *)

Plain ==
  <<"\n", " ", "quote", "(", ")", ",", ":", "a", "b", "c", "q", "[", "]", "{", "}",
    "backslash", "fence", "fence_json", "zhong", "[POLISH]", "attr: ", "dimensions",
    "2", "50", "SAFE", "answer", "summary", "query", "risk_level", "risk_score">>
Code == <<10, 32, 34, 40, 41, 44, 58, 97, 98, 99, 113, 91, 93, 123, 125,
          92, 1001, 1002, 20013, 1003, 1004, 1005, 50, 1006, 1007, 1008, 1009, 1010, 1011, 1012>>
MCCodePoint ==
  "bad" :> -1 @@ [char \in Range(Plain) |-> Code[CHOOSE i \in DOMAIN Plain : Plain[i] = char]]
MCWidth(char) == IF char = "zhong" THEN 3 ELSE 1

Query(text) == [query |-> S(text)]
Fallback == [fallback |-> JsonObject(Query(<<"q">>))]
Verdict == [risk_level |-> S(<<"SAFE">>), risk_score |-> Json("number", 50)]
MCDump(document) ==
  LET Written(json) == IF json.type = "string" THEN json.value ELSE <<ToString(json.value)>>
      fields == SetToSeq(DOMAIN document)
  IN <<"{">> \o FlattenSeq([f \in DOMAIN fields |-> <<fields[f]>> \o Written(document[fields[f]])])
     \o <<"}">>
Documents ==
  {Verdict} \cup {Query(t) : t \in {<<"a">>, <<"b", "a">>, <<"bad">>, <<"a", "[POLISH]">>, <<>>}}
MCParseJson(text) ==
  LET found == {d \in Documents : MCDump(d) = text}
  IN IF found = {} THEN Null ELSE CHOOSE d \in found : TRUE

MCCompiles(pattern) == "[" \notin Range(pattern)
MCSearch(pattern, text) ==
  IF "bad" \in Range(text) THEN [status |-> "error", captures |-> <<>>]
  ELSE IF Finds(text, pattern)
  THEN [status |-> "matched", captures |-> [matched |-> S(pattern)]]
  ELSE [status |-> "not_matched", captures |-> <<>>]

MCSize(response) == IF "translated" \in DOMAIN response THEN Len(response.translated) ELSE 1

-----------------------------------------------------------------------------
(* Models: embeddings and scores count tokens. *)

Tensor(name, type, shape) == [name |-> name, type |-> type, shape |-> shape]
MCFiles ==
  "fixed.onnx" :> [inputs |-> <<Tensor("input_ids", "int64", <<2, 4>>),
                                Tensor("attention_mask", "int64", <<2, 4>>)>>,
                   outputs |-> <<Tensor("last_hidden_state", "float32", <<2, 2>>)>>]
  @@ "tokens.onnx" :> [inputs |-> <<Tensor("input_ids", "int64", <<-1, -1>>),
                                    Tensor("attention_mask", "int64", <<-1, -1>>)>>,
                       outputs |-> <<Tensor("last_hidden_state", "float32", <<-1, -1, 2>>)>>]
  @@ "rerank.onnx" :> [inputs |-> <<Tensor("input_ids", "int64", <<-1, -1>>),
                                    Tensor("attention_mask", "int64", <<-1, -1>>),
                                    Tensor("token_type_ids", "int64", <<-1, -1>>)>>,
                       outputs |-> <<Tensor("logits", "float32", <<-1, 1>>)>>]
  @@ [file \in {"qwen.gguf", "qwen_embed.gguf", "vision.gguf", "mmproj.gguf"} |->
        [readable |-> TRUE]]
  @@ "whisper.bin" :> [readable |-> TRUE, multilingual |-> TRUE]
  @@ "whisper_en.bin" :> [readable |-> TRUE, multilingual |-> FALSE]
  @@ "run.json" :> JsonObject([model |-> JsonObject([gpu_layers |-> I(0)])])
  @@ "gpu.json" :> JsonObject([model |-> JsonObject([gpu_layers |-> I(9)])])
  @@ "vision.json" :> JsonObject([vision |-> JsonObject([mmproj |-> S("mmproj.gguf")])])

MCVocabulary ==
  <<PAD, UNK, CLS, SEP, <<97>>, <<98>>, <<97, 98>>, <<35, 35, 97>>, <<113>>, <<20013>>>>
CountOf(tokens, token) == Len(SelectSeq(tokens, LAMBDA t : t = token))
CountVector(tokens) == <<1 + CountOf(tokens, <<97>>), 1 + CountOf(tokens, <<98>>)>>
TokenVector(token) == <<IF token = <<97>> THEN 60 ELSE 0, IF token = <<98>> THEN 120 ELSE 60>>

MCOrtRun(file, tensors) ==
  LET ids == tensors["input_ids"].data
      Output(shape, data) == [type |-> "float32", shape |-> shape, data |-> data]
      Second(r) == {i \in DOMAIN ids[r] : tensors["token_type_ids"].data[r][i] = 1}
      Logit(r) == Cardinality({i \in Second(r) : ids[r][i] # SEP /\
                    \E j \in DOMAIN ids[r] \ Second(r) : ids[r][j] = ids[r][i]})
      Ok(output) == [code |-> "", outputs |-> <<output>>]
  IN CASE file = "fixed.onnx" ->
            Ok(Output(<<Len(ids), 2>>,
                      FlattenSeq([r \in DOMAIN ids |-> CountVector(ids[r])])))
       [] file = "tokens.onnx" ->
            Ok(Output(<<Len(ids), Len(ids[1]), 2>>,
                      FlattenSeq([r \in DOMAIN ids |->
                        FlattenSeq([i \in DOMAIN ids[r] |-> TokenVector(ids[r][i])])])))
       [] file = "rerank.onnx" ->
            Ok(Output(<<Len(ids), 1>>, [r \in DOMAIN ids |-> Logit(r)]))

(* A vector of integers in the same direction. *)
MCUnit(vector) ==
  LET Divides(d) == \A i \in DOMAIN vector : vector[i] % d = 0
      d == Max({k \in 1 .. 120 : Divides(k)})
  IN [i \in DOMAIN vector |-> vector[i] \div d]

(* The answer to a chat is what its last turn asked, the answer to an      *)
(* image its first byte.                                                   *)
MCInferletEncode(file, prompt, add_bos) ==
  IF -1 \in Range(prompt) THEN [status |-> "error", tokens |-> <<>>]
  ELSE [status |-> "ok", tokens |-> prompt]
MCInferletDecode(file, tokens) == [status |-> "ok", text |-> tokens]
MCInferletRun(file, task, options) ==
  LET from == Max({i \in DOMAIN task : task[i] = UserRole}) + 2
      to == Min({i \in DOMAIN task : i >= from /\ task[i] = ImEnd}) - 1
      Reply(tokens) == [status |-> "ok", tokens |-> tokens, embeddings |-> <<>>]
  IN CASE file = "vision.gguf" -> Reply(<<task.rgb[0][0][0]>>)
       [] file = "qwen_embed.gguf" ->
            [status |-> "ok", tokens |-> <<97>>,
             embeddings |-> <<CountVector([i \in DOMAIN task |-> <<task[i]>>])>>]
       [] OTHER -> Reply(SubSeq(task, from, to))

MCWhisperRun(file, samples, language) ==
  [code |-> "", segments |-> << <<32>>, [i \in DOMAIN samples |->
                IF samples[i] > 0 THEN 97 ELSE IF samples[i] < 0 THEN 98 ELSE 32] >>]

-----------------------------------------------------------------------------
(* Scenarios *)

MCDefaultPrompt == <<97>>
MCOutsideFiles == {"../qwen.gguf"}
Cpu == Target("CPU", 0)
SomeCalls == {<<1, 2, 3>>, <<2, 1>>, <<3>>, <<1, 1, 3, 2>>}
AllCalls == SomeCalls \cup {<<1>>, <<2>>, <<2, 3>>, <<3, 2, 2>>}
Scenario(document, requests, calls) ==
  [document |-> document, target |-> Cpu, requests |-> requests, calls |-> calls]
(* One input a request. *)
Each(values) == [r \in DOMAIN values |-> <<values[r]>>]
Undeployable(document) == Scenario(document, <<>>, {})

Pair(first, second, texts) ==
  Each([r \in DOMAIN texts |-> first :> texts[r][1] @@ second :> texts[r][2]])
Questions ==
  Pair("doc_text", "query_text",
       << << <<"a", "a", "b", "b", "q">>, <<"b">> >>,
          << <<"zhong", "b", "a">>, <<"a", "b">> >>,
          << <<>>, <<"q">> >> >>)
Dialogues ==
  Pair("user_text", "channel_name",
       << << MCDump(Verdict), <<"b">> >>,
          << MCDump(Verdict) \o <<"b">>, <<"q">> >>,
          << <<"a">>, <<>> >> >>)
Image(byte, width, height) ==
  [width |-> width, height |-> height, stride |-> 3 * width,
   data |-> [i \in 1 .. 3 * width * height |-> byte]]
Invoices ==
  << <<Image(97, 1, 1), MCDump(Query(<<"a">>))>>,
     <<Image(98, 2, 1), <<"fence_json">> \o MCDump(Query(<<"b", "a">>)) \o <<"fence">> >>,
     <<Image(98, 3, 3), <<"a">> >> >>
Audio(rate, samples) == [sample_rate |-> rate, samples |-> samples]
Sounds == Each(<<Audio(2, <<1, -1>>), Audio(2, <<>>), Audio(2, <<0, 1, 0>>)>>)
Sentences == Each(<< <<"a", "b", "c">>, <<"b">>, <<"bad">> >>)
Entities == Each(<<MCDump(Query(<<"a">>)), MCDump(Query(<<"b", "a">>)) \o <<"c">>, <<"a", "b">> >>)
Passages ==
  Each(<<[query_text |-> <<"a", " ", "b">>,
          candidate_passages |-> << <<"q">>, <<"b">>, <<"a", " ", "b">> >>],
         [query_text |-> <<"b">>, candidate_passages |-> << <<"b">>, <<"a">> >>],
         [query_text |-> <<"q">>, candidate_passages |-> << <<"a">> >>]>>)
Sources == Each(<<MCDump(Query(<<"a">>)), MCDump(Query(<<"b", "a">>)),
                  MCDump(Query(<<"a", "[POLISH]">>))>>)

Starters ==
  LET docs == <<"input", "doc_text">>
      asked == <<"input", "query_text">>
      chunks == <<"chunk_docs", "chunks">>
      llm == <<LlmModel("llm_model")>>
      Served(document) == Scenario(document, Questions, SomeCalls)
      chunk == Node("text_chunk", "chunk_docs", [chunk_size |-> I(2)], [text |-> docs])
      OfChunks(type, first, second) ==
        StarterDocument(llm,
          <<chunk, Node(type, "starter", Bind("llm_model"), first :> asked @@ second :> chunks)>>,
          <<"starter", "output">>)
  IN "starter_batch" :> Served(OfChunks("starter_batch", "questions", "context"))
     @@ "starter_group" :> Served(OfChunks("starter_batch_group", "queries", "references"))
     @@ "starter_join" :>
          Served(Starter("starter_batch_join", Bind("llm_model"), BothTexts("questions", "attributes"), llm))
     @@ "starter_multi_model" :>
          Served(Starter("starter_multi_model",
                      [bind_llm |-> S("llm_model"), bind_embedding |-> S("embed_model")],
                      "questions" :> asked, <<LlmModel("llm_model"), MeanModel>>))
     @@ "starter_scatter" :>
          Scenario(Translation(<<LlmModel("llm_model"), LlmModel("polish_model")>>,
                     << Node("starter_batch_select_scatter", "starter",
                             Bind("llm_model") @@ [polish_model |-> S("polish_model")],
                             [input |-> <<"input", "query">>]),
                        Node("llm_generate", "translate_text",
                             Bind("llm_model") @@ [endpoints |-> JsonObject(Once)],
                             [input |-> <<"starter", "output">>]) >>), Sources, AllCalls)
     @@ "guided" :>
          Scenario(StarterDocument(llm,
                     <<chunk, Node("prompt_guided_llm", "starter",
                         Bind("llm_model") @@
                           [prompt_template |-> S(<<"fence", "\n">> \o V("context") \o V("input")),
                            strip_markdown |-> Json("boolean", TRUE), stop_words |-> Words(<< <<"c">> >>)],
                         [input |-> asked, context |-> chunks])>>,
                     <<"starter", "output">>), Questions, AllCalls)

(* What the build refuses, for a reason each. *)
Refusals ==
  LET Renamed(document, with) == JsonObject(with @@ document.value)
      asked == <<"input", "query">>
      Echo(inputs, params) == Node("llm_generate", "translate_text",
        params @@ Bind("llm_model") @@ [endpoints |-> JsonObject(Once)], inputs)
      With(models, node) == Undeployable(Translation(models, <<node>>))
      echo == Echo([input |-> asked], <<>>)
  IN "language" :> Undeployable(AudioIntent("whisper_en.bin", "zh"))
     @@ "dimension" :>
          Undeployable(DocQa(Model("embedding", "embed_model", "fixed.onnx",
            [tokenizer_file |-> S("vocab.txt"), embedding_dim |-> I(3)], "onnxruntime", <<>>), <<>>, 1))
     @@ "protocol" :> With(<<Model("llm", "llm_model", "fixed.onnx", <<>>, "onnxruntime", <<>>)>>, echo)
     @@ "file" :> With(<<Model("llm", "llm_model", "no.gguf", <<>>, "inferlet", <<>>)>>, echo)
     @@ "outside" :> With(<<Model("llm", "llm_model", "../qwen.gguf", <<>>, "inferlet", <<>>)>>, echo)
     @@ "gpu" :> With(<<Model("llm", "llm_model", "qwen.gguf", <<>>, "inferlet",
                              [run_config_file |-> S("gpu.json")])>>, echo)
     @@ "unused" :> With(<<LlmModel("llm_model"), EmbedModel>>, echo)
     @@ "model" :> With(<<LlmModel("other")>>, echo)
     @@ "model_type" :> With(<<Model("embedding", "llm_model", "qwen_embed.gguf",
                                     [embedding_dim |-> I(2)], "inferlet", <<>>)>>, echo)
     @@ "twice" :> With(<<LlmModel("llm_model"), LlmModel("llm_model")>>, echo)
     @@ "field" :> With(<<LlmModel("llm_model")>>, Echo([input |-> asked], [seed |-> I(1)]))
     @@ "range" :> With(<<LlmModel("llm_model")>>, Echo([input |-> asked], [max_tokens |-> I(0)]))
     @@ "stop_word" :> With(<<LlmModel("llm_model")>>, Echo([input |-> asked], [stop_words |-> Words(<< <<>> >>)]))
     @@ "node_input" :> With(<<LlmModel("llm_model")>>, Echo(<<>>, <<>>))
     @@ "port" :> With(<<LlmModel("llm_model")>>, Echo([input |-> <<"input", "text">>], <<>>))
     @@ "cycle" :> With(<<LlmModel("llm_model")>>, Echo([input |-> <<"translate_text", "text">>], <<>>))
     @@ "variable" :>
          Undeployable(Translation(<<LlmModel("llm_model")>>,
            << Node("text_template", "build_prompt", [template |-> S(V("context"))],
                    [primary |-> asked]),
               Echo([input |-> <<"build_prompt", "text">>], <<>>) >>))
     @@ "many" :>
          Undeployable(StarterDocument(<<>>,
            << Node("text_chunk", "chunk_docs", [chunk_size |-> I(2)],
                    [text |-> <<"input", "doc_text">>]) >>, <<"chunk_docs", "chunks">>))
     @@ "mixed" :>
          Undeployable(StarterDocument(<<LlmModel("llm_model")>>,
            << Node("text_chunk", "chunk_docs", <<>>, [text |-> <<"input", "doc_text">>]),
               Node("starter_batch_join", "starter", Bind("llm_model"),
                    [questions |-> <<"input", "query_text">>, attributes |-> <<"chunk_docs", "chunks">>]) >>,
            <<"starter", "output">>))
     @@ "converter" :>
          Undeployable(Renamed(Translate(<<>>, Once),
            [io |-> JsonObject([input |-> A(<<In("entity_in", "keyword")>>),
                                output |-> A(<<In("json_out", "translate")>>)])]))
     @@ "workers" :> Undeployable(Renamed(Translate(<<>>, Once), [max_parallel_workers |-> I(0)]))
     @@ "fallback" :> Undeployable(EntityExtract(<<>>))
     @@ "rule" :> Undeployable(KeywordMatch(<<Rule("regex", <<"[">>, <<>>)>>))

MCScenarios ==
  "doc_qa" :> Scenario(DocQa(EmbedModel, [chunk_size |-> I(2)], 4), Questions, AllCalls)
  @@ "doc_qa_wide" :>
       Scenario(Wide(DocQa(MeanModel, [chunk_size |-> I(3), overlap |-> I(1)], 1)), Questions,
                {<<1, 2>>, <<2>>})
  @@ "doc_qa_generated" :>
       Scenario(DocQa(GeneratedModel, [chunk_size |-> I(2)], 2), Questions, SomeCalls)
  @@ "dialogue_audit" :> Scenario(DialogueAudit, Dialogues, {<<1, 2>>, <<2>>, <<3, 1>>})
  @@ "invoice_qa" :> Scenario(InvoiceQa, Invoices, {<<1, 2>>, <<2>>, <<3, 1>>})
  @@ "audio_intent" :> Scenario(AudioIntent("whisper.bin", "zh"), Sounds, AllCalls)
  @@ "keyword_match" :>
       Scenario(KeywordMatch(<<Rule("regex", <<"b">>, <<>>), Rule("exact", <<"b">>, <<"q">>)>>),
                Sentences, AllCalls)
  @@ "entity_extract" :> Scenario(EntityExtract([failure_policy |-> S("fail")]), Entities, AllCalls)
  @@ "entity_fallback" :> Scenario(EntityExtract(Fallback), Entities, AllCalls)
  @@ "entity_diagnosed" :>
       Scenario(EntityExtract([failure_policy |-> S("emit_diagnostic")] @@ Fallback), Entities, SomeCalls)
  @@ "cross_rerank" :> Scenario(CrossRerank, Passages, AllCalls)
  @@ "translate" :>
       Scenario(Translate([system_prompt |-> S(<<"q">>)], Once), Sources, AllCalls)
  @@ "translate_twice" :>
       Scenario(Translate(<<>>, Once @@ [summary |-> JsonObject(<<>>)]), Sources, SomeCalls)
  @@ Starters @@ Refusals

(* A template over a corpus of no texts and what requests match, cut into  *)
(* chunks.                                                                 *)
MCEmptyCorpus ==
  LET corpus == Node("text_corpus_source", "phrases", [corpus |-> Words(<<>>)], <<>>)
      write == Node("text_template", "write", [template |-> S(V("primary") \o V("matches"))],
                    [primary |-> <<"phrases", "corpus">>,
                     matches |-> <<"match_keywords", "matches">>])
      chunk == Node("text_chunk", "chunk_written", <<>>, [text |-> <<"write", "text">>])
      document == [KeywordMatch(<<>>).value EXCEPT
                     !.pipeline = A(@.value \o <<corpus, write, chunk>>)]
  IN "empty_corpus" :> Scenario(JsonObject(document), Sentences, {<<1, 2>>})
=============================================================================
