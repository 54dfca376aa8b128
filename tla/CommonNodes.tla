----------------------------- MODULE CommonNodes -----------------------------
(***************************************************************************)
(* The other Nodes of src/common_nodes, and prompt_guided_llm of           *)
(* src/custom_nodes.  A map is gone through in some fixed order.           *)
(***************************************************************************)
EXTENDS RetrievalNodes

-----------------------------------------------------------------------------
(* text_rule_match.  A map's key is a text of one character.               *)

RuleFields ==
  << RequiredField("pattern", "string"),
     DefaultField("id", "string", ""),
     OneOf(DefaultField("strategy", "string", "contains"), <<"contains", "exact", "regex">>),
     DefaultField("category", "string", <<>>),
     InRange(DefaultField("score", "float", 1), 0, 1),
     Items(DefaultField("constants", "map", <<>>), Field("", "json")) >>
TextRuleMatchFields ==
  << DefaultField("default_category", "string", <<>>),
     InRange(DefaultField("default_score", "float", 1), 0, 1),
     Items(DefaultField("categories", "map", <<>>),
           Items(Field("", "array"), Field("", "string"))),
     Items(DefaultField("rules", "array", <<>>), Struct(RuleFields)) >>
TextRuleMatchSpec ==
  [inputs |-> <<Required("text", "TextBatch")>>,
   outputs |-> <<PreservedOutput("matches", "RuleMatchBatch", "value", "text")>>,
   models |-> <<>>,
   parameters |-> Names(TextRuleMatchFields),
   commands |-> << [id |-> 1, name |-> "update_rules",
                    fields |-> <<"categories", "rules">>] >>]

RulesCompile(params) ==
  \A rule \in Range(params.rules) :
    rule.strategy = "regex" /\ rule.pattern # <<>> => Compiles(rule.pattern)

Hit(source, category, id, pattern, score) ==
  [source |-> source, category |-> category, id |-> id, pattern |-> pattern,
   score |-> score]

(* The first hit with a category names the result; until then the last. *)
RecordHit(item, category, word, score, id) ==
  IF item.category # <<>> THEN [item EXCEPT !.is_hit = TRUE]
  ELSE [item EXCEPT !.is_hit = TRUE, !.category = category, !.word = word,
                    !.score = score, !.rule_id = id]

RuleSearch(rule, sentence) ==
  IF rule.strategy = "regex"
  THEN IF rule.pattern = <<>> THEN [status |-> "not_matched", captures |-> <<>>]
       ELSE Search(rule.pattern, sentence)
  ELSE [status |-> IF \/ rule.strategy = "exact" /\ sentence = rule.pattern
                      \/ rule.strategy = "contains" /\ Finds(sentence, rule.pattern)
                   THEN "matched" ELSE "not_matched",
        captures |-> <<>>]

MatchSentence(params, sentence) ==
  LET categories == SetToSeq(DOMAIN params.categories)
      nothing == [is_hit |-> FALSE, category |-> <<>>, rule_id |-> "", word |-> <<>>,
                  score |-> 0, matches |-> <<>>, slots |-> <<>>]
      Keywords(item, category) ==
        LET found == SelectSeq(params.categories[category],
                               LAMBDA w : w # <<>> /\ Finds(sentence, w))
            Record(i, w) ==
              [RecordHit(i, <<category>>, w, 1, "") EXCEPT
                 !.matches = Append(@, Hit("keyword", <<category>>, "", w, 1))]
        IN FoldLeft(Record, item, found)
      Rule(item, rule) ==
        LET found == RuleSearch(rule, sentence) IN
        IF found.status # "matched" THEN item
        ELSE [RecordHit(item, rule.category, rule.pattern, rule.score, rule.id) EXCEPT
                !.slots = rule.constants @@ found.captures @@ @,
                !.matches = Append(@, Hit("rule", rule.category, rule.id,
                                          rule.pattern, rule.score))]
      matched == FoldLeft(Rule, FoldLeft(Keywords, nothing, categories), params.rules)
  IN IF \E rule \in Range(params.rules) : RuleSearch(rule, sentence).status = "error"
     THEN Failure("regex", Null, "regex_execution_failed")
     ELSE IF ~matched.is_hit /\ params.default_category # <<>>
     THEN Success([RecordHit(matched, params.default_category, <<>>, params.default_score, "")
                   EXCEPT !.slots = "raw_query" :> Json("string", sentence)])
     ELSE Success(matched)

TextRuleMatch(in, params) ==
  MapPayloads(in.text, [i \in DOMAIN in.text |-> MatchSentence(params, in.text[i].data)])

-----------------------------------------------------------------------------
(* structured_json_parse.  "fence_json", "fence", "quote" and "backslash" are   *)
(* single characters here.                                                 *)

StructuredJsonParseFields ==
  << [Field("fallback", "json") EXCEPT !.default = JsonObject(<<>>)],
     DefaultField("extract_json_block", "bool", TRUE),
     Items(DefaultField("required_fields", "array", <<>>), Field("", "string")),
     Items(DefaultField("field_types", "map", <<>>),
           OneOf(Field("", "string"), <<"string", "number", "boolean", "object", "array">>)),
     OneOf(DefaultField("failure_policy", "string", "configured_fallback"),
           <<"fail", "emit_diagnostic", "configured_fallback">>) >>
StructuredJsonParseSpec ==
  [inputs |-> <<Required("text", "TextBatch")>>,
   outputs |-> <<PreservedOutput("document", "StructuredDocumentBatch", "value", "text")>>,
   models |-> <<>>,
   parameters |-> Names(StructuredJsonParseFields),
   commands |-> <<>>]

ValidateStructuredFields(params, document) ==
  /\ Range(params.required_fields) \subseteq DOMAIN document
  /\ \A field \in DOMAIN params.field_types :
       /\ field \in DOMAIN document
       /\ Matches(params.field_types[field], document[field].type)

FallbackIsValid(params) ==
  /\ "" \notin Range(params.required_fields)
  /\ params.failure_policy = "fail" \/ ValidateStructuredFields(params, params.fallback.value)

(* The first outer container: its delimiters must match, and none in a     *)
(* string counts.  0 when it is not closed.                                *)
ContainerEnd(input, start) ==
  LET Step(scan, pos) ==
        LET char == input[pos] IN
        IF scan.stop THEN scan
        ELSE IF scan.quoted
        THEN [scan EXCEPT !.escaped = ~@ /\ char = "backslash",
                          !.quoted = scan.escaped \/ char # "quote"]
        ELSE IF char = "quote" THEN [scan EXCEPT !.quoted = TRUE]
        ELSE IF char \in {"[", "{"} THEN [scan EXCEPT !.open = Append(@, char)]
        ELSE IF char \notin {"]", "}"} THEN scan
        ELSE IF Last(scan.open) # (IF char = "]" THEN "[" ELSE "{")
        THEN [scan EXCEPT !.stop = TRUE]
        ELSE [scan EXCEPT !.open = Front(@), !.stop = Len(scan.open) = 1,
                          !.end = IF Len(scan.open) = 1 THEN pos ELSE 0]
  IN FoldLeft(Step,
              [open |-> <<>>, quoted |-> FALSE, escaped |-> FALSE, stop |-> FALSE, end |-> 0],
              [i \in 1 .. Len(input) - start + 1 |-> start + i - 1]).end

(* The text to parse as JSON when the whole input is none; Null for no     *)
(* such text.  A fence that is there decides, however bad its content.     *)
ExtractJson(input) ==
  LET fences == {i \in DOMAIN input : input[i] = "fence_json"}
      open == Min(fences)
      closes == {i \in open + 1 .. Len(input) : input[i] \in {"fence", "fence_json"}}
      containers == {i \in DOMAIN input : input[i] \in {"[", "{"}}
      end == ContainerEnd(input, Min(containers))
  IN IF fences # {}
     THEN IF closes = {} THEN Null ELSE SubSeq(input, open + 1, Min(closes) - 1)
     ELSE IF containers = {} \/ end = 0 THEN Null
     ELSE SubSeq(input, Min(containers), end)

JsonItem(payload, valid, status, document) ==
  [payload |-> payload, valid |-> valid, status |-> status, structured |-> document]

ParseOrExtractJson(params, input) ==
  LET Written(document, status) ==
        IF document = Null THEN Null ELSE JsonItem(Dump(document), TRUE, status, document)
      Inner(text) == IF text = Null THEN Null ELSE ParseJson(text)
      Or(whole) ==
        IF whole # Null \/ ~params.extract_json_block THEN Written(whole, "ok")
        ELSE Written(Inner(ExtractJson(input)),
               IF "fence_json" \in Range(input) THEN "extracted_from_markdown" ELSE "ok")
  IN IF input = <<>> THEN Null ELSE Or(ParseJson(input))

(* What is not a document with the required fields goes by the policy. *)
DocumentOr(params, fallback, item) ==
  IF item # Null /\ ValidateStructuredFields(params, item.structured) THEN Success(item)
  ELSE CASE params.failure_policy = "fail" -> Failure("json", Null, "json_parse")
         [] params.failure_policy = "emit_diagnostic" ->
              Success(JsonItem(Dump(fallback), FALSE, "failed", fallback))
         [] params.failure_policy = "configured_fallback" ->
              Success(JsonItem(Dump(fallback), TRUE, "fallback_applied", fallback))
ParseDocument(params, input) ==
  DocumentOr(params, params.fallback.value, ParseOrExtractJson(params, input))

StructuredJsonParse(in, params) ==
  MapPayloads(in.text, [i \in DOMAIN in.text |-> ParseDocument(params, in.text[i].data)])

-----------------------------------------------------------------------------
(* llm_generate *)

LlmGenerateFields ==
  << Items([Field("endpoints", "map") EXCEPT !.required = TRUE],
           Struct(<<DefaultField("prompt", "string", <<"{", "{", "input", "}", "}">>)>>)) >>
  \o GenerateParameters

LlmGenerateSpec ==
  [inputs |-> <<Required("input", "TextBatch")>>,
   outputs |-> <<PreservedOutput("text", "TextBatch", "text", "input"),
                 PreservedOutput("document", "StructuredDocumentBatch", "document", "input")>>,
   models |-> << [slot |-> "generator", field |-> "bind_model", type |-> "llm"] >>,
   parameters |-> Names(LlmGenerateFields), commands |-> <<>>]

EndpointsReady(params) ==
  /\ DOMAIN params.endpoints # {}
  /\ \A name \in DOMAIN params.endpoints :
       LET tokens == ParseTextTemplate(params.endpoints[name].prompt)
       IN tokens # Null /\ Variables(tokens) \subseteq {<<"input">>}

(* fields[i]: what the endpoints answered to item i, by their names. *)
AnswerBatches(input, fields, single) ==
  LET Encodes(i) == \A f \in DOMAIN fields[i] : "bad" \notin Range(fields[i][f].value)
      Document(i) == IF Encodes(i) THEN JsonItem(Dump(fields[i]), TRUE, "ok", fields[i])
                     ELSE JsonItem(<<>>, FALSE, "failed", fields[i])
      Answer(i) == IF single THEN (CHOOSE json \in Range(fields[i]) : TRUE).value
                   ELSE Dump(fields[i])
  IN IF ~single /\ \E i \in DOMAIN input : ~Encodes(i)
     THEN Failure("exception", Null, "internal_exception")
     ELSE Success([document |-> [i \in DOMAIN input |-> [input[i] EXCEPT !.data = Document(i)]],
                   text |-> [i \in DOMAIN input |-> [input[i] EXCEPT !.data = Answer(i)]]])
AnswersOf(input, results) ==
  LET failed == {name \in DOMAIN results : ~results[name].ok}
  IN IF failed # {} THEN results[CHOOSE name \in failed : TRUE]
     ELSE AnswerBatches(input,
            [i \in DOMAIN input |->
               [name \in DOMAIN results |-> Json("string", results[name].value[i].data)]],
            Cardinality(DOMAIN results) = 1)

LlmGenerate(in, params, models) ==
  LET Prompts(tokens) ==
        [i \in DOMAIN in.input |-> [in.input[i] EXCEPT !.data =
           RenderTextTemplate(tokens, <<"input">> :> @)]]
  IN AnswersOf(in.input,
       [name \in DOMAIN params.endpoints |->
          LlmCall(models.generator, Prompts(ParseTextTemplate(params.endpoints[name].prompt)),
                  GenerateOptions(params))])

-----------------------------------------------------------------------------
(* prompt_guided_llm *)

PromptGuidedFields ==
  << DefaultField("prompt_template", "string", <<"{", "{", "input", "}", "}">>),
     DefaultField("strip_markdown", "bool", FALSE) >> \o GenerateParameters
PromptGuidedSpec ==
  [inputs |-> <<Required("input", "TextBatch"),
                WithFlow(OptionalValue("context", "TextBatch"), AggregateByRequest)>>,
   outputs |-> <<PreservedOutput("output", "TextBatch", "value", "input")>>,
   models |-> << [slot |-> "generator", field |-> "bind_model", type |-> "llm"] >>,
   parameters |-> Names(PromptGuidedFields), commands |-> <<>>]

UsesContext(params) == <<"context">> \in Variables(ParseTextTemplate(params.prompt_template))

PrepareGuidedPrompt(params, connected) ==
  LET tokens == ParseTextTemplate(params.prompt_template) IN
  /\ params.prompt_template # <<>> /\ tokens # Null
  /\ Variables(tokens) \subseteq {<<"input">>, <<"context">>}
  /\ UsesContext(params) => "context" \in connected

(* An opening fence takes the rest of its line with it. *)
StripMarkdownCodeFence(text) ==
  LET blank == {" ", "\n"}
      trimmed == Trim(text, blank)
      fenced == trimmed # <<>> /\ trimmed[1] \in {"fence", "fence_json"}
      lines == {i \in DOMAIN trimmed : trimmed[i] = "\n"}
      body == IF ~fenced THEN trimmed
              ELSE IF lines = {} THEN <<>> ELSE SubSeq(trimmed, Min(lines) + 1, Len(trimmed))
  IN Trim(IF body # <<>> /\ Last(body) = "fence" THEN Front(body) ELSE body, blank)

GuidedPrompts(in, tokens) ==
  LET Lined(context, entry) ==
        context \o (IF context = <<>> THEN <<>> ELSE <<"\n">>) \o entry
      Context(req) == FoldLeft(Lined, <<>>, DataOf(Text(in.context), req))
      Prompt(item) ==
        RenderTextTemplate(tokens, <<"input">> :> item.data @@ <<"context">> :> Context(item.req))
  IN [i \in DOMAIN in.input |-> [in.input[i] EXCEPT !.data = Prompt(in.input[i])]]
StripMarkdown(batch, strip) ==
  IF strip THEN Success([i \in DOMAIN batch |-> [batch[i] EXCEPT !.data = StripMarkdownCodeFence(@)]])
  ELSE Success(batch)

PromptGuidedLlm(in, params, models) ==
  IF in.input = <<>> THEN Success(<<>>)
  ELSE IF UsesContext(params) /\ in.context = Null
  THEN Failure("no_context", Null, "missing_input")
  ELSE Then(LlmCall(models.generator, GuidedPrompts(in, ParseTextTemplate(params.prompt_template)),
                    GenerateOptions(params)),
            LAMBDA answers : StripMarkdown(answers, params.strip_markdown))

-----------------------------------------------------------------------------
(* asr_transcribe, ocr_detect and text_corpus_source *)

AsrTranscribeFields == << DefaultField("language", "string", "zh") >>
AsrTranscribeSpec ==
  [inputs |-> <<Required("audio", "AudioPcmBatch")>>,
   outputs |-> <<PreservedOutput("text", "TextBatch", "value", "audio")>>,
   models |-> << [slot |-> "transcriber", field |-> "bind_model", type |-> "asr"] >>,
   parameters |-> Names(AsrTranscribeFields), commands |-> <<>>]

LanguageIsGiven(params) == params.language # ""
LanguageIsSpoken(params, models) == Speaks(models.transcriber, params.language)
AsrTranscribe(in, params, models) == AsrCall(models.transcriber, in.audio, params.language)

OcrDetectSpec ==
  [inputs |-> <<Required("images", "ImageFrameBatch")>>,
   outputs |-> <<PreservedOutput("document", "OcrDocumentBatch", "document", "images"),
                 PreservedOutput("text", "TextBatch", "text", "images")>>,
   models |-> << [slot |-> "detector", field |-> "bind_model", type |-> "ocr"] >>,
   parameters |-> {}, commands |-> <<>>]

OcrDetect(in, models) ==
  LET Combined(item) == Item(item.req, item.sub, item.data.combined_text)
  IN Then(OcrCall(models.detector, in.images),
          LAMBDA documents :
            Success([document |-> documents,
                     text |-> [i \in DOMAIN documents |-> Combined(documents[i])]]))

TextCorpusSourceFields ==
  << Items([Field("corpus", "array") EXCEPT !.required = TRUE], Field("", "string")) >>
TextCorpusSourceSpec ==
  [inputs |-> <<>>,
   outputs |-> <<WithFlow(ProducedBatch("corpus", "TextBatch", "value"),
                          [GenerateSubId EXCEPT !.lifetime = "session"])>>,
   models |-> <<>>, parameters |-> Names(TextCorpusSourceFields), commands |-> <<>>]

(* The same for every request: session lifetime. *)
TextCorpusSource(params) ==
  Success([i \in DOMAIN params.corpus |-> Item(0, i - 1, params.corpus[i])])

=============================================================================
