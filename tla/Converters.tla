----------------------------- MODULE Converters -----------------------------
(***************************************************************************)
(* The converters of src/adapter: what an input converter makes of the     *)
(* values of a batch of requests, and the responses an output converter    *)
(* makes of the Nodes' results.                                            *)
(*                                                                         *)
(* values[i] is what the binding reads for request i - 1, or Null when it  *)
(* cannot be read.  ports gives the blackboard key of a logical port, or   *)
(* Unbound.  A destination is [required, slots]: slots[i] is how many      *)
(* bytes the leased value of request i - 1 has room for, or Null for none. *)
(* A response is the JSON object, as a record.                             *)
(***************************************************************************)
EXTENDS StarterNodes

CONSTANTS
  MaxTextBytes,                 \* input_limits::kMaxTextBytes
  MinSampleRate, MaxSampleRate, \* input_limits
  Size(_)                       \* response: the bytes of its JSON

Port(name, type) ==
  [name |-> name, type |-> type, required |-> TRUE, flow |-> PreserveByRequest]
PortOfMany(name, type) == WithFlow(Port(name, type), PortFlow("N:1", "preserve"))
Converter(type, name, ports) == [type |-> type, name |-> name, ports |-> ports]

-----------------------------------------------------------------------------
(* Decoding.  What is published is [code, board]. *)

Invalid == Failure("request", Null, "invalid_input")

(* A port that is not bound takes nothing; a key is published once. *)
PublishContextValue(state, key, type, batch) ==
  IF state.code # "ok" \/ key = Unbound THEN state
  ELSE IF key \in DOMAIN state.board THEN [state EXCEPT !.code = "invalid_input"]
  ELSE [state EXCEPT !.board = key :> [type |-> type, batch |-> batch] @@ @]

ValidateDecodeRequest(values) == values # <<>>
Readable(values) == ValidateDecodeRequest(values) /\ Null \notin Range(values)

PerRequest(payloads) == [i \in DOMAIN payloads |-> Item(i - 1, 0, payloads[i])]

(* results[i] is what the callback makes of request i - 1; nothing is      *)
(* published unless all are good.                                          *)
DecodeRequestRows(values, results, ports, port, board) ==
  IF ~Readable(values) \/ \E i \in DOMAIN values : ~results[i].ok
  THEN [code |-> "invalid_input", board |-> board]
  ELSE PublishContextValue([code |-> "ok", board |-> board], ports[port.name], port.type,
                           PerRequest(Column(results, "value")))

DecodeTextPair(values, ports, first, second, board) ==
  LET Texts(port) == PerRequest(Column(values, port.name))
      begin == [code |-> "ok", board |-> board]
      one == PublishContextValue(begin, ports[first.name], "TextBatch", Texts(first))
  IN IF ~Readable(values) THEN [code |-> "invalid_input", board |-> board]
     ELSE PublishContextValue(one, ports[second.name], "TextBatch", Texts(second))

AuditInput ==
  Converter("audit_in", "dialogue_audit",
            <<Port("user_text", "TextBatch"), Port("channel_name", "TextBatch")>>)
DecodeAuditInput(values, ports, board) ==
  DecodeTextPair(values, ports, AuditInput.ports[1], AuditInput.ports[2], board)

DocQueryInput ==
  Converter("doc_in", "doc_qa",
            <<Port("doc_text", "TextBatch"), Port("query_text", "TextBatch")>>)
DecodeDocQueryInput(values, ports, board) ==
  DecodeTextPair(values, ports, DocQueryInput.ports[1], DocQueryInput.ports[2], board)

AudioInput == Converter("audio_in", "audio_asr_intent", <<Port("audio", "AudioPcmBatch")>>)
DecodeAudio(input) ==
  IF input.sample_rate \in MinSampleRate .. MaxSampleRate THEN Success(input) ELSE Invalid
DecodeAudioInput(values, ports, board) ==
  DecodeRequestRows(values, [i \in DOMAIN values |-> DecodeAudio(values[i])],
                    ports, AudioInput.ports[1], board)

TranslateJsonInput == Converter("entity_in", "translate", <<Port("query", "TextBatch")>>)
ParseTranslateQuery(text) ==
  LET document == ParseJson(text) IN
  IF document # Null /\ "query" \in DOMAIN document /\ document["query"].type = "string"
  THEN Success(document["query"].value) ELSE Invalid
DecodeTranslateJson(values, ports, board) ==
  DecodeRequestRows(values, [i \in DOMAIN values |-> ParseTranslateQuery(values[i])],
                    ports, TranslateJsonInput.ports[1], board)

FrameInput == Converter("frame", "ocr_invoice_qa", <<Port("image", "ImageFrameBatch")>>)
DecodeFrameInput(values, ports, board) ==
  DecodeRequestRows(values, [i \in DOMAIN values |-> Success(values[i])],
                    ports, FrameInput.ports[1], board)
QueryInput == Converter("string", "ocr_invoice_qa", <<Port("question", "TextBatch")>>)
DecodeQueryInput(values, ports, board) ==
  DecodeRequestRows(values, [i \in DOMAIN values |-> Success(values[i])],
                    ports, QueryInput.ports[1], board)

EntityInput == Converter("entity_in", "entity_extract", <<Port("sentence_text", "TextBatch")>>)
KeywordInput == Converter("keyword_in", "keyword_match", <<Port("sentence_text", "TextBatch")>>)
DecodeSentences(values, ports, board) ==
  DecodeRequestRows(values, [i \in DOMAIN values |-> Success(values[i])],
                    ports, KeywordInput.ports[1], board)

RerankInput ==
  Converter("rerank_in", "cross_rerank",
            <<Port("query_text", "TextBatch"), PortOfMany("candidates", "RankedTextBatch")>>)
DecodeRerankInput(values, ports, board) ==
  LET Passages(i) == values[i].candidate_passages
      Candidates(i) == [c \in DOMAIN Passages(i) |->
        Item(i - 1, c - 1, [text |-> Passages(i)[c], score |-> [num |-> 0, den |-> 1],
                            rank |-> c, original_sub_id |-> c - 1])]
      Usable(i) == /\ Passages(i) # <<>>
                   /\ \A c \in DOMAIN Passages(i) : Bytes(Passages(i)[c]) <= MaxTextBytes
      one == PublishContextValue([code |-> "ok", board |-> board], ports["query_text"],
               "TextBatch", PerRequest(Column(values, "query_text")))
  IN IF ~Readable(values) \/ \E i \in DOMAIN values : ~Usable(i)
     THEN [code |-> "invalid_input", board |-> board]
     ELSE PublishContextValue(one, ports["candidates"], "RankedTextBatch",
            FlattenSeq([i \in DOMAIN values |-> Candidates(i)]))

-----------------------------------------------------------------------------
(* Encoding.  What is written is [code, rows]: a row is a response or, when *)
(* nothing was written to it, Null.  written_count is given for "ok" only. *)

ReadOutputValue(board, ports, port) ==
  LET key == ports[port.name] IN
  IF key = Unbound \/ key \notin DOMAIN board THEN Null
  ELSE IF board[key].type # port.type THEN Null ELSE board[key].batch

(* Every item names a request; every request has an item 0 and, unless the *)
(* items are ranked, no other.                                             *)
IndexResults(batch, count, ranked) ==
  /\ IsInjective(Keys(batch))
  /\ \A item \in Range(batch) : item.req < count /\ (ranked \/ item.sub = 0)
  /\ \A req \in 0 .. count - 1 : <<req, 0>> \in KeySet(batch)
Ordered(batch, i) == Match([req |-> i - 1, sub |-> 0], batch).data

IsSuccessfulDocument(document) ==
  document.valid /\ document.status \notin {"failed", "fallback_applied"}

(* A response with bytes that are no UTF-8 cannot be dumped. *)
Dumped(response, texts) ==
  IF \E text \in texts : "bad" \in Range(text)
  THEN Failure("exception", Null, "internal_exception") ELSE Success(response)

(* The rows before the first that fails are written; no row is reported.   *)
WriteOutputRows(destination, count, results) ==
  LET Leased(i) == destination.slots[i] # Null
      skipped == {i \in 1 .. count : ~Leased(i) /\ ~destination.required}
      Code(i) == IF ~results[i].ok THEN results[i].code
                 ELSE IF ~Leased(i) \/ Size(results[i].value) > destination.slots[i]
                 THEN "invalid_output" ELSE "ok"
      bad == {i \in 1 .. count \ skipped : Code(i) # "ok"}
  IN [code |-> IF bad = {} THEN "ok" ELSE Code(Min(bad)),
      rows |-> [i \in DOMAIN destination.slots |->
        IF i \in 1 .. count \ skipped /\ (\A b \in bad : i < b)
        THEN results[i].value ELSE Null]]

Unwritten(code, destination) ==
  [code |-> code, rows |-> [i \in DOMAIN destination.slots |-> Null]]

(* batches[1] has a row for each request; results[i] is made of row i.     *)
EncodeRows(batches, ranked, destination, results) ==
  LET count == Len(destination.slots) IN
  IF Null \in Range(batches) THEN Unwritten("invalid_input", destination)
  ELSE IF ~ranked[1] /\ count < Len(batches[1]) THEN Unwritten("invalid_output", destination)
  ELSE IF \E b \in DOMAIN batches : ~IndexResults(batches[b], count, ranked[b])
  THEN Unwritten("invalid_input", destination)
  ELSE WriteOutputRows(destination, count, results)

EncodeResultRows(batch, destination, results) ==
  EncodeRows(<<batch>>, <<FALSE>>, destination, results)

(* JSON of a rule match, and the texts in it. *)
BuildRuleMatchResponse(result) ==
  LET Entry(hit) ==
        IF hit.source = "rule"
        THEN [category |-> hit.category, rule_id |-> hit.id, pattern |-> hit.pattern,
              score |-> hit.score]
        ELSE [category |-> hit.category, matched_word |-> hit.pattern]
      matches == [matches |-> [h \in DOMAIN result.matches |-> Entry(result.matches[h])]]
  IN IF ~result.is_hit \/ result.category = <<>> THEN matches
     ELSE [intent |-> result.category, matched_word |-> result.word,
           confidence |-> result.score, slots |-> result.slots] @@ matches
Slots(result) ==
  LET texts == {name \in DOMAIN result.slots : result.slots[name].type = "string"}
  IN {result.slots[name].value : name \in texts}

KeywordResult == Converter("json_out", "keyword_match", <<Port("matches", "RuleMatchBatch")>>)
EncodeKeyword(result) ==
  Dumped([is_hit |-> result.is_hit] @@ BuildRuleMatchResponse(result), Slots(result))
EncodeKeywordResult(board, ports, destination) ==
  LET matches == ReadOutputValue(board, ports, KeywordResult.ports[1])
  IN EncodeResultRows(matches, destination,
       [i \in DOMAIN destination.slots |-> EncodeKeyword(Ordered(matches, i))])

TranslationJson == Converter("json_out", "translate", <<Port("translation", "TextBatch")>>)
EncodeTranslationJson(board, ports, destination) ==
  LET texts == ReadOutputValue(board, ports, TranslationJson.ports[1])
      Response(text) == Dumped([translated |-> text], {text})
  IN EncodeResultRows(texts, destination,
       [i \in DOMAIN destination.slots |-> Response(Ordered(texts, i))])

StructuredDocument ==
  Converter("json_out", "entity_extract", <<Port("entities", "StructuredDocumentBatch")>>)
EncodeDocument(result) ==
  IF IsSuccessfulDocument(result) THEN Success([payload |-> result.payload]) ELSE Invalid
EncodeStructuredDocument(board, ports, destination) ==
  LET documents == ReadOutputValue(board, ports, StructuredDocument.ports[1])
  IN EncodeResultRows(documents, destination,
       [i \in DOMAIN destination.slots |-> EncodeDocument(Ordered(documents, i))])

RerankResult == Converter("json_out", "cross_rerank", <<PortOfMany("ranked", "RankedTextBatch")>>)
EncodeRerankResult(board, ports, destination) ==
  LET ranked == ReadOutputValue(board, ports, RerankResult.ports[1])
      Sorted(req) == SortSeq(DataOf(ranked, req), LAMBDA a, b : a.rank < b.rank)
      Numbered(list) == \A k \in DOMAIN list : list[k].rank = k
      Response(list) ==
        Success([scores |-> Column(list, "score"),
                 sorted_indices |-> Column(list, "original_sub_id"), count |-> Len(list)])
      encoded == EncodeRows(<<ranked>>, <<TRUE>>, destination,
        [i \in DOMAIN destination.slots |-> Response(Sorted(i - 1))])
  IN IF /\ ranked # Null /\ IndexResults(ranked, Len(destination.slots), TRUE)
        /\ \E i \in DOMAIN destination.slots : ~Numbered(Sorted(i - 1))
     THEN Unwritten("invalid_input", destination) ELSE encoded

AudioResult ==
  Converter("json_out", "audio_asr_intent",
            <<Port("transcribed_text", "TextBatch"), Port("intent_slot", "RuleMatchBatch")>>)
EncodeAudioResult(board, ports, destination) ==
  LET read == [p \in 1 .. 2 |-> ReadOutputValue(board, ports, AudioResult.ports[p])]
      Response(text, match) ==
        Dumped([transcribed_text |-> text, intent_slot |-> BuildRuleMatchResponse(match)],
               {text} \cup Slots(match))
  IN EncodeRows(read, <<FALSE, FALSE>>, destination,
       [i \in DOMAIN destination.slots |->
          Response(Ordered(read[1], i), Ordered(read[2], i))])

InvoiceResult ==
  Converter("json_out", "ocr_invoice_qa",
            <<Port("result", "StructuredDocumentBatch"), Port("document", "OcrDocumentBatch")>>)
EncodeInvoiceResult(board, ports, destination) ==
  LET read == [p \in 1 .. 2 |-> ReadOutputValue(board, ports, InvoiceResult.ports[p])]
      Response(result, document) ==
        IF ~IsSuccessfulDocument(result) THEN Invalid
        ELSE Success([detected_box_count |-> Len(document.boxes),
                      result |-> ParseJson(result.payload)])
  IN EncodeRows(read, <<FALSE, FALSE>>, destination,
       [i \in DOMAIN destination.slots |->
          Response(Ordered(read[1], i), Ordered(read[2], i))])

DocAnswer ==
  Converter("json_out", "doc_qa",
            <<Port("answer_text", "TextBatch"), Port("intent", "RuleMatchBatch"),
              Port("chunk_count", "Int32Batch")>>)
EncodeDocAnswer(board, ports, destination) ==
  LET read == [p \in 1 .. 3 |-> ReadOutputValue(board, ports, DocAnswer.ports[p])]
      Response(answer, intent, chunks) ==
        Dumped([intent_name |-> intent.category, confidence |-> intent.score,
                answer_text |-> answer, chunk_count |-> chunks],
               {answer})
  IN EncodeRows(read, <<FALSE, FALSE, FALSE>>, destination,
       [i \in DOMAIN destination.slots |->
          Response(Ordered(read[1], i), Ordered(read[2], i), Ordered(read[3], i))])

(* A number of a verdict is in hundredths. *)
AuditResult ==
  Converter("json_out", "dialogue_audit",
            <<Port("verdict", "StructuredDocumentBatch"),
              PortOfMany("matched_policy", "RankedTextBatch")>>)
EncodeAuditResult(board, ports, destination) ==
  LET read == [p \in 1 .. 2 |-> ReadOutputValue(board, ports, AuditResult.ports[p])]
      Holds(document, field, type) == field \in DOMAIN document /\ document[field].type = type
      Acceptable(verdict, policy) ==
        /\ policy.rank = 1 /\ IsSuccessfulDocument(verdict)
        /\ Holds(verdict.structured, "risk_level", "string")
        /\ Holds(verdict.structured, "risk_score", "number")
        /\ verdict.structured["risk_score"].value \in 0 .. 100
        /\ verdict.structured["risk_level"].value \in
             {<<"SAFE">>, <<"LOW_RISK">>, <<"MEDIUM_RISK">>, <<"HIGH_RISK">>}
      Response(verdict, policy) ==
        IF ~Acceptable(verdict, policy) THEN Invalid
        ELSE Dumped([risk_level |-> verdict.structured["risk_level"].value,
                     risk_score |-> verdict.structured["risk_score"].value,
                     matched_policy_clause |-> policy.text,
                     audit_verdict |-> ParseJson(verdict.payload)], {policy.text})
  IN IF Null \notin Range(read) /\ Len(read[2]) < Len(read[1])
     THEN Unwritten(IF Len(destination.slots) < Len(read[1]) THEN "invalid_output"
                    ELSE "invalid_input", destination)
     ELSE EncodeRows(read, <<FALSE, TRUE>>, destination,
            [i \in DOMAIN destination.slots |->
               Response(Ordered(read[1], i), Ordered(read[2], i))])

=============================================================================
