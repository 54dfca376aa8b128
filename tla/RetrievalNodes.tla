--------------------------- MODULE RetrievalNodes ---------------------------
(***************************************************************************)
(* The Nodes of src/common_nodes that cut, embed, rank and render texts:   *)
(* what each Run makes of its input batches, and what its Spec declares.   *)
(*                                                                         *)
(* A text is a sequence of characters; the character "bad" is bytes that   *)
(* are no UTF-8.  A JSON document is a function from its top-level fields  *)
(* to JSON values; one that is no object has no fields.  Models, regular   *)
(* expressions and the JSON library are external.                          *)
(***************************************************************************)
EXTENDS AuthorNode, Parameters

CONSTANTS
  Generate(_, _, _),   \* model, prompts, options: an answer [code, outputs]
  Embed(_, _),         \* model, texts
  Score(_, _),         \* model, pairs of a query and a candidate
  Transcribe(_, _, _), \* model, audio, language
  Recognize(_, _),     \* model, images
  Speaks(_, _),        \* model, language
  ParseJson(_),        \* text: a document, or Null
  Dump(_),             \* document: its text
  Compiles(_),         \* pattern
  Search(_, _),        \* pattern, text: [status, captures]
  Width(_)             \* character: its bytes

Text(batch) == IF batch = Null THEN <<>> ELSE batch
Finds(text, word) ==
  \E i \in 1 .. Len(text) - Len(word) + 1 : SubSeq(text, i, i + Len(word) - 1) = word
Join(texts, separator) ==
  FoldLeft(LAMBDA joined, i : joined \o (IF i = 1 THEN <<>> ELSE separator) \o texts[i],
           <<>>, [i \in DOMAIN texts |-> i])
DataOf(batch, req) == LET items == OfRequest(batch, req) IN Column(items, "data")
OneOutput(result) == IF result.ok THEN Success([value |-> result.value]) ELSE result

(* The options are the parameters of generation, or their defaults. *)
GenerateOptions(params) == [field \in DOMAIN DefaultOptions |-> params[field]]
LlmCall(model, prompts, options) ==
  InvokeAlignedModel(prompts, model, Generate(model, prompts, options))
EmbeddingCall(model, texts) == InvokeAlignedModel(texts, model, Embed(model, texts))
RerankCall(model, pairs) == InvokeAlignedModel(pairs, model, Score(model, pairs))
AsrCall(model, audio, language) ==
  InvokeAlignedModel(audio, model, Transcribe(model, audio, language))
OcrCall(model, images) == InvokeAlignedModel(images, model, Recognize(model, images))

-----------------------------------------------------------------------------
(* Templates: {{name}} is a variable, everything else stands for itself.   *)

Identifier(name) == name # <<>> /\ Range(name) \cap {"{", "}", " ", "bad"} = {}
Trim(text, blank) ==
  LET solid == {i \in DOMAIN text : text[i] \notin blank}
  IN IF solid = {} THEN <<>> ELSE SubSeq(text, Min(solid), Max(solid))
Literal(char) == [variable |-> FALSE, value |-> <<char>>]

(* The tokens of a pattern, or Null when it does not compile. *)
ParseTextTemplate(pattern) ==
  LET n == Len(pattern)
      At(i) == IF i <= n THEN pattern[i] ELSE ""
      Close(i) == {c \in i .. n - 1 : pattern[c] = "}" /\ pattern[c + 1] = "}"}
      Tokens[i \in 1 .. n + 1] ==
        IF i = n + 1 THEN <<>>
        ELSE IF At(i) # "{" \/ At(i + 1) # "{"
        THEN LET rest == Tokens[i + 1]
             IN IF rest = Null THEN Null ELSE <<Literal(pattern[i])>> \o rest
        ELSE IF Close(i + 2) = {} THEN Null
        ELSE LET close == Min(Close(i + 2))
                 name == Trim(SubSeq(pattern, i + 2, close - 1), {" "})
                 rest == Tokens[close + 2]
             IN IF ~Identifier(name) \/ rest = Null THEN Null
                ELSE <<[variable |-> TRUE, value |-> name]>> \o rest
  IN Tokens[1]

Variables(tokens) == {tokens[i].value : i \in {i \in DOMAIN tokens : tokens[i].variable}}
RenderTextTemplate(tokens, values) ==
  FlattenSeq([i \in DOMAIN tokens |->
    IF tokens[i].variable THEN values[tokens[i].value] ELSE tokens[i].value])

-----------------------------------------------------------------------------
(* text_chunk *)

TextChunkFields == << InRange(DefaultField("chunk_size", "int", 100), 1, 1000000),
                      InRange(DefaultField("overlap", "int", 0), 0, 100000) >>
OverlapIsSmaller(params) == params.overlap < params.chunk_size
TextChunkSpec ==
  [inputs |-> <<Required("text", "TextBatch")>>,
   outputs |-> <<WithFlow(ProducedBatch("chunks", "TextBatch", "children"), GenerateSubId),
                 PreservedOutput("chunk_counts", "Int32Batch", "counts", "text")>>,
   models |-> <<>>, parameters |-> Names(TextChunkFields), commands |-> <<>>]

SplitText(text, chunk_size, overlap) ==
  LET n == Len(text)
      step == IF chunk_size > overlap THEN chunk_size - overlap ELSE chunk_size
      Start(k) == (k - 1) * step + 1
      End(k) == IF Start(k) + chunk_size - 1 < n THEN Start(k) + chunk_size - 1 ELSE n
      count == CHOOSE k \in 1 .. n : End(k) = n /\ \A j \in 1 .. k - 1 : End(j) # n
  IN IF text = <<>> THEN Success(<< <<>> >>)
     ELSE IF "bad" \in Range(text) THEN Failure("split", Null, "invalid_utf8")
     ELSE Success([k \in 1 .. count |-> SubSeq(text, Start(k), End(k))])

TextChunk(in, params) ==
  SplitPayloads(in.text, [p \in DOMAIN in.text |->
    SplitText(in.text[p].data, params.chunk_size, params.overlap)])

-----------------------------------------------------------------------------
(* vector_top_k *)

VectorTopKFields ==
  << InRange(DefaultField("top_k", "int", 1), 1, 1000),
     InRange(DefaultField("min_score", "float", 0), -100, 100),
     OneOf(DefaultField("metric", "string", "cosine"), <<"cosine", "dot_product">>) >>
CandidateFlow == PortFlow("N:1", "preserve")
VectorTopKSpec ==
  [inputs |-> <<Required("queries", "EmbeddingBatch"),
                WithFlow(Required("candidates", "EmbeddingBatch"), CandidateFlow),
                WithFlow(Required("candidate_texts", "TextBatch"), CandidateFlow)>>,
   outputs |-> <<WithFlow(ProducedBatch("ranked", "RankedTextBatch", "value"), GenerateSubId)>>,
   models |-> <<>>, parameters |-> Names(VectorTopKFields), commands |-> <<>>]

DotProduct(u, v) == FoldLeft(LAMBDA sum, i : sum + u[i] * v[i], 0, [i \in DOMAIN u |-> i])

(* Scores are fractions.  Cosines are compared by their signed squares,    *)
(* which are in the same order.                                            *)
AtLeast(a, b) == a.num * b.den >= b.num * a.den
CosineSimilarity(u, v) ==
  LET dot == DotProduct(u, v)
      norms == DotProduct(u, u) * DotProduct(v, v)
  IN IF norms = 0 THEN [num |-> 0, den |-> 1]
     ELSE [num |-> IF dot < 0 THEN -dot * dot ELSE dot * dot, den |-> norms]
Similarity(metric, u, v) ==
  IF metric = "dot_product" THEN [num |-> DotProduct(u, v), den |-> 1]
  ELSE CosineSimilarity(u, v)

Finite(vector) == \A i \in DOMAIN vector : vector[i] # Null

(* Best first; what std::sort does of equal scores depends on the list     *)
(* alone.  The best are numbered from 0 and ranked from 1.                 *)
Best(req, scored, top_k) ==
  LET sorted == SortSeq(scored, LAMBDA a, b : ~AtLeast(b.score, a.score))
      count == Min({top_k, Len(scored)})
  IN [k \in 1 .. count |->
        Item(req, k - 1,
             [text |-> sorted[k].text, score |-> sorted[k].score, rank |-> k,
              original_sub_id |-> sorted[k].sub])]

(* Mutant: a query is compared with every candidate of the batch. *)
CandidatesOfAny(in, shared, query) == in.candidates

(* A query is compared with its own request's candidates or, if it has     *)
(* none and they are shared, with those of request 0.                      *)
CandidatesOf(in, shared, query) ==
  LET own == OfRequest(in.candidates, query.req)
  IN IF own = <<>> /\ shared THEN OfRequest(in.candidates, 0) ELSE own

Comparable(query, candidate) ==
  /\ query.data # <<>> /\ Len(query.data) = Len(candidate.data)
  /\ Finite(query.data) /\ Finite(candidate.data)
Scored(query, candidates, texts, params) ==
  SelectSeq([i \in DOMAIN candidates |->
               [sub |-> candidates[i].sub, text |-> Match(candidates[i], texts),
                score |-> Similarity(params.metric, query.data, candidates[i].data)]],
            LAMBDA s : AtLeast(s.score, [num |-> params.min_score, den |-> 1]))

(* scored[q]: what query q is compared with and comes close enough. *)
RankScored(queries, scored, top_k) ==
  LET Known(list) == [i \in DOMAIN list |-> [list[i] EXCEPT !.text = @.data]]
  IN IF \E q \in DOMAIN queries : Null \in Range(Column(scored[q], "text"))
     THEN Failure("candidate_text", Null, "invalid_input")
     ELSE Success(FlattenSeq([q \in DOMAIN queries |->
            Best(queries[q].req, Known(scored[q]), top_k)]))

VectorTopK(in, params, shared) ==
  LET Candidates(query) == CandidatesOf(in, shared, query)
  IN IF \/ ~IsInjective(Column(in.queries, "req"))
        \/ shared /\ Range(Column(in.candidates, "req")) \notin {{}, {0}}
        \/ \E query \in Range(in.queries) :
             \E candidate \in Range(Candidates(query)) : ~Comparable(query, candidate)
     THEN Failure("vector_top_k", Null, "invalid_input")
     ELSE RankScored(in.queries,
            [q \in DOMAIN in.queries |->
               Scored(in.queries[q], Candidates(in.queries[q]), in.candidate_texts, params)],
            params.top_k)

-----------------------------------------------------------------------------
(* text_embedding and text_rerank *)

TextEmbeddingSpec ==
  [inputs |-> <<Required("text", "TextBatch")>>,
   outputs |-> <<WithFlow(PreservedOutput("embedding", "EmbeddingBatch", "value", "text"),
                          [PreserveByRequest EXCEPT !.follows = "text"])>>,
   models |-> << [slot |-> "encoder", field |-> "bind_model", type |-> "embedding"] >>,
   parameters |-> {}, commands |-> <<>>]

ConstructSessionCacheKey(model, items) == <<model, items>>

(* A batch of session lifetime is embedded once; a failure is not kept.    *)
TextEmbedding(in, cached, models, cache) ==
  LET key == ConstructSessionCacheKey(models.encoder, in.text)
  IN IF in.text # <<>> /\ cached /\ key \in DOMAIN cache THEN Success(cache[key])
     ELSE EmbeddingCall(models.encoder, in.text)

Remember(in, cached, models, cache, result) ==
  LET key == ConstructSessionCacheKey(models.encoder, in.text)
  IN IF in.text # <<>> /\ cached /\ result.ok /\ key \notin DOMAIN cache
     THEN key :> result.value @@ cache ELSE cache

TextRerankFields == << InRange(DefaultField("top_k", "int", 1), 1, 1000) >>
TextRerankSpec ==
  [inputs |-> <<Required("queries", "TextBatch"),
                WithFlow(Required("candidates", "RankedTextBatch"), CandidateFlow)>>,
   outputs |-> <<WithFlow(ProducedBatch("ranked", "RankedTextBatch", "value"), GenerateSubId)>>,
   models |-> << [slot |-> "reranker", field |-> "bind_model", type |-> "rerank"] >>,
   parameters |-> Names(TextRerankFields), commands |-> <<>>]

(* Requests come out in ascending order; a candidate is named by its place *)
(* in the batch that is reranked.                                          *)
RankByRequest(candidates, scores, top_k) ==
  LET requests == SetToSortSeq(Range(Column(candidates, "req")), <)
      Of(req) == SelectSeq([i \in DOMAIN candidates |-> i], LAMBDA i : candidates[i].req = req)
      List(mine) ==
        [k \in DOMAIN mine |->
           [sub |-> candidates[mine[k]].sub, text |-> candidates[mine[k]].data.text,
            score |-> scores[mine[k]].data]]
  IN Success(FlattenSeq([r \in DOMAIN requests |->
       Best(requests[r], List(Of(requests[r])), top_k)]))

TextRerank(in, params, models) ==
  LET Query(req) == OfRequest(in.queries, req)[1].data
      Pair(c) == Item(c.req, c.sub, [query |-> Query(c.req), candidate |-> c.data.text])
  IN IF \/ ~IsInjective(Column(in.queries, "req"))
        \/ \E c \in Range(in.candidates) : OfRequest(in.queries, c.req) = <<>>
     THEN Failure("no_single_query", Null, "")
     ELSE Then(RerankCall(models.reranker,
                          [i \in DOMAIN in.candidates |-> Pair(in.candidates[i])]),
               LAMBDA scores : RankByRequest(in.candidates, scores, params.top_k))

-----------------------------------------------------------------------------
(* text_template *)

TextTemplateFields ==
  << DefaultField("template", "string", <<"{", "{", "primary", "}", "}">>),
     DefaultField("separator", "string", <<"\n">>),
     InRange(DefaultField("max_length", "int64", 65536), 1, 1048576),
     OneOf(DefaultField("overflow_policy", "string", "fail"), <<"fail", "truncate">>) >>
TextTemplateSpec ==
  [inputs |-> <<OptionalValue("primary", "TextBatch"),
                WithFlow(OptionalValue("context", "RankedTextBatch"), AggregateByRequest),
                WithFlow(OptionalValue("matches", "RuleMatchBatch"), AggregateByRequest),
                WithFlow(OptionalValue("document", "OcrDocumentBatch"), AggregateByRequest)>>,
   outputs |-> <<ProducedBatch("text", "TextBatch", "value")>>,
   models |-> <<>>,
   parameters |-> Names(TextTemplateFields),
   commands |-> << [id |-> 2, name |-> "update_prompt", fields |-> <<"template">>] >>]

PrepareTemplate(params, connected) ==
  LET tokens == ParseTextTemplate(params.template) IN
  /\ tokens # Null
  /\ Variables(tokens) \subseteq
       {<<"primary">>, <<"context">>, <<"matches">>, <<"document">>}
  /\ \A name \in Variables(tokens) : name[1] \in connected

MatchText(match) ==
  IF match.category # <<>> /\ match.word # <<>>
  THEN match.category \o <<" ", "(">> \o match.word \o <<")">>
  ELSE match.category \o match.word

(* Samples: the keys of primary or, when there is none, item 0 of every    *)
(* request that has anything to aggregate.                                 *)
Samples(in) ==
  LET primary == Text(in.primary)
      First(i) == \A j \in 1 .. i - 1 : Key(primary[j]) # Key(primary[i])
      firsts == SelectSeq([i \in DOMAIN primary |-> i], First)
      aggregated == Text(in.context) \o Text(in.matches) \o Text(in.document)
      requests == SetToSortSeq(Range(Column(aggregated, "req")), <)
  IN IF primary # <<>> THEN [k \in DOMAIN firsts |-> Key(primary[firsts[k]])]
     ELSE [r \in DOMAIN requests |-> <<requests[r], 0>>]

(* Longest prefix of whole characters within max_length bytes. *)
Bytes(text) == FoldLeft(LAMBDA sum, char : sum + Width(char), 0, text)
Truncated(text, max_length) ==
  SubSeq(text, 1, Max({k \in 0 .. Len(text) : Bytes(SubSeq(text, 1, k)) <= max_length}))

Fitted(text, params) ==
  IF Bytes(text) <= params.max_length THEN Success(text)
  ELSE IF params.overflow_policy = "fail"
  THEN Failure("too_long", Null, "rendered_output_too_long")
  ELSE IF "bad" \in Range(text) THEN Failure("utf8", Null, "invalid_utf8")
  ELSE Success(Truncated(text, params.max_length))

(* What a sample's variables stand for. *)
TemplateValues(in, key, separator) ==
  LET Primary(item) == IF item = Null THEN <<>> ELSE item.data
      Of(port) == DataOf(Text(in[port]), key[1])
      Matched(matches) == SelectSeq([i \in DOMAIN matches |-> MatchText(matches[i])],
                                    LAMBDA text : text # <<>>)
  IN <<"primary">> :> Primary(Match([req |-> key[1], sub |-> key[2]], Text(in.primary)))
     @@ <<"context">> :> Join(Column(Of("context"), "text"), separator)
     @@ <<"matches">> :> Join(Matched(Of("matches")), <<",", " ">>)
     @@ <<"document">> :> Join(Column(Of("document"), "combined_text"), separator)

RenderSamples(in, params, samples, tokens) ==
  LET Sampled(k) == [req |-> samples[k][1], sub |-> samples[k][2], data |-> Null]
  IN MapPayloads([k \in DOMAIN samples |-> Sampled(k)],
       [k \in DOMAIN samples |->
          Fitted(RenderTextTemplate(tokens, TemplateValues(in, samples[k], params.separator)),
                 params)])
TextTemplate(in, params) ==
  RenderSamples(in, params, Samples(in), ParseTextTemplate(params.template))

=============================================================================
