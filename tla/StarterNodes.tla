---------------------------- MODULE StarterNodes ----------------------------
(***************************************************************************)
(* The batch starters of dev_support/node_authoring, which authors of      *)
(* Nodes copy: they join, group, and select and scatter the batches of     *)
(* many requests around a call of a model.                                 *)
(***************************************************************************)
EXTENDS CommonNodes

GeneratorSlot == [slot |-> "generator", field |-> "bind_model", type |-> "llm"]
StarterSpec(inputs, anchor, models) ==
  [inputs |-> inputs,
   outputs |-> <<PreservedOutput("output", "TextBatch", "value", anchor)>>,
   models |-> models, parameters |-> {}, commands |-> <<>>]

-----------------------------------------------------------------------------
(* starter_batch: every question is preceded by its request's contexts. *)

StarterBatchSpec ==
  StarterSpec(<<Required("questions", "TextBatch"),
                WithFlow(Optional("context", "TextBatch"), AggregateByRequest)>>,
              "questions", <<GeneratorSlot>>)

Lines(batch) == FlattenSeq([i \in DOMAIN batch |-> Append(batch[i].data, "\n")])

StarterBatch(in, models) ==
  LlmCall(models.generator,
    [i \in DOMAIN in.questions |->
       LET question == in.questions[i]
       IN [question EXCEPT !.data = Lines(OfRequest(Text(in.context), question.req)) \o @]],
    DefaultOptions)

-----------------------------------------------------------------------------
(* starter_multi_model: the questions are embedded first. *)

StarterMultiModelSpec ==
  StarterSpec(<<Required("questions", "TextBatch")>>, "questions",
              << [GeneratorSlot EXCEPT !.field = "bind_llm"],
                 [slot |-> "encoder", field |-> "bind_embedding", type |-> "embedding"] >>)

AskOfDimensions(questions, embeddings, models) ==
  LET Prompt(i) == questions[i].data \o
                   <<"\n", "dimensions", ToString(Len(embeddings[i].data))>>
  IN IF \E i \in DOMAIN questions : embeddings[i].data = <<>>
     THEN Failure("embedding_is_empty", Null, "")
     ELSE LlmCall(models.generator,
            [i \in DOMAIN questions |-> [questions[i] EXCEPT !.data = Prompt(i)]],
            DefaultOptions)
StarterMultiModel(in, models) ==
  Then(EmbeddingCall(models.encoder, in.questions),
       LAMBDA embeddings : AskOfDimensions(in.questions, embeddings, models))

-----------------------------------------------------------------------------
(* starter_batch_join: a question has at most one attribute. *)

StarterBatchJoinSpec ==
  StarterSpec(<<Required("questions", "TextBatch"), Optional("attributes", "TextBatch")>>,
              "questions", <<GeneratorSlot>>)

StarterBatchJoin(in, models) ==
  LET Prompt(row) ==
        Item(row.left.req, row.left.sub,
             IF row.right = Null THEN row.left.data
             ELSE row.left.data \o <<" ", "[", "attr: ">> \o row.right.data \o <<"]">>)
  IN IF in.questions = <<>> THEN Success(<<>>)
     ELSE Then(JoinByItem(in.questions, Text(in.attributes), "left"),
               LAMBDA rows : LlmCall(models.generator,
                               [i \in DOMAIN rows |-> Prompt(rows[i])], DefaultOptions))

-----------------------------------------------------------------------------
(* starter_batch_group: as starter_batch, but a reference of a request     *)
(* without a query is an error.                                            *)

StarterBatchGroupSpec ==
  StarterSpec(<<Required("queries", "TextBatch"),
                WithFlow(Optional("references", "TextBatch"), AggregateByRequest)>>,
              "queries", <<GeneratorSlot>>)

StarterBatchGroup(in, models) ==
  LET Prompts(groups) ==
        [i \in DOMAIN in.queries |-> [in.queries[i] EXCEPT !.data =
           Lines(SelectSeq(groups, LAMBDA g : g.req = in.queries[i].req)[1].members) \o @]]
  IN IF in.queries = <<>> THEN Success(<<>>)
     ELSE Then(GroupByRequest(in.queries, Text(in.references)),
               LAMBDA groups : LlmCall(models.generator, Prompts(groups), DefaultOptions))

-----------------------------------------------------------------------------
(* starter_batch_select_scatter: drafts with the tag are polished by a     *)
(* second model and put back in their places.                              *)

StarterSelectScatterFields == << DefaultField("polish_tag", "string", <<"[POLISH]">>) >>
StarterSelectScatterSpec ==
  [StarterSpec(<<Required("input", "TextBatch")>>, "input",
               <<GeneratorSlot,
                 [slot |-> "polisher", field |-> "polish_model", type |-> "llm"]>>)
   EXCEPT !.parameters = Names(StarterSelectScatterFields)]

PolishSelected(selection, models) ==
  IF selection.selected = <<>> THEN Success(selection.anchor)
  ELSE Then(LlmCall(models.polisher, Materialize(selection), DefaultOptions),
            LAMBDA polished : ScatterReplace(selection, polished))
PolishDrafts(drafts, tag, models) ==
  Then(SelectBatch(drafts, [i \in DOMAIN drafts |-> Finds(drafts[i].data, tag)]),
       LAMBDA selection : PolishSelected(selection, models))
StarterSelectScatter(in, params, models) ==
  IF in.input = <<>> THEN Success(<<>>)
  ELSE Then(LlmCall(models.generator, in.input, DefaultOptions),
            LAMBDA drafts : PolishDrafts(drafts, params.polish_tag, models))

=============================================================================
