---------------------------- MODULE TextGeneration ----------------------------
(***************************************************************************)
(* Text generation for a batch of prompts:                                 *)
(* QwenCausalLmModel::Generate over FixedBatchExecutor::ExecuteItems, the  *)
(* sessions of the backends and, for llama.cpp, the loop of                *)
(* CommonAutoregressiveGenerator over LlamaCppDecoder.                     *)
(*                                                                         *)
(* The threads share one session, which serves one prompt at a time.       *)
(* Inference, sampling and the vendors' libraries may answer anything, or  *)
(* fail.  Text is a sequence of bytes of which only the role in UTF-8 and  *)
(* in stop words is kept.                                                  *)
(***************************************************************************)
EXTENDS Integers, SequencesExt

CONSTANTS
  Thread,
  Backends,      \* the backends considered: of "llama_cpp", "kite", "inferlet"
  Batches,       \* sequences of items [req_id, sub_id, data] that callers give
  PromptSizes,   \* PromptSizes[data]: how many tokens a prompt may encode to
  OptionSets,    \* records [max_tokens, stop_words]
  Token,
  EndToken,
  Piece,         \* Piece[tok]: the bytes of a token
  MaxContext,
  DecodeBatch,   \* decode_batch_size
  MaxBatch,      \* max_batch_size of the policy: 1 for these sessions, 64 for the tests' mock
  None

(* A byte of this width starts a character of as many bytes; continuation  *)
(* bytes have width 0 and bytes that cannot start one 5.                   *)
Width == [ascii |-> 1, stop |-> 1, lead2 |-> 2, lead3 |-> 3, lead4 |-> 4,
          cont |-> 0, illegal |-> 5]

Data == DOMAIN PromptSizes
PromptItem == [req_id : Nat, sub_id : Nat, data : Data \cup {None}]

ASSUME GenerationAssumption ==
  /\ Batches \subseteq Seq(PromptItem)
  /\ PromptSizes \in [Data -> SUBSET Nat]
  /\ OptionSets \subseteq [max_tokens : Int, stop_words : SUBSET Seq(DOMAIN Width)]
  /\ Backends \subseteq {"llama_cpp", "kite", "inferlet"}
  /\ EndToken \in Token
  /\ Piece \in [Token -> Seq(DOMAIN Width)]
  /\ {MaxContext, DecodeBatch, MaxBatch} \subseteq Nat \ {0}
  /\ None \notin Thread \cup Data

VARIABLES
  backend,
  pc,         \* pc[t]: the next step of t's Generate
  items,      \* items[t]: its prompts
  options,    \* options[t]: its GenerateOptions
  outputs,    \* outputs[t]: what finished slices gave
  batch,      \* batch[t]: batch_outputs of the slice under way
  code,       \* code[t]: what it returns
  mutex,      \* generate_mutex_ or session_mutex_
  context,    \* the tokens that the decoder has evaluated
  pending,    \* the tokens that Evaluate still has to submit
  history,
  prompt,     \* prompt_tokens
  steps,
  text        \* output

callVars == <<pc, items, options, outputs, batch, code>>
generation == <<context, pending, history, prompt, steps, text>>
vars == <<backend, mutex, callVars, generation>>

Init ==
  /\ backend \in Backends
  /\ pc = [t \in Thread |-> "idle"]
  /\ items = [t \in Thread |-> <<>>]
  /\ options = [t \in Thread |-> None]
  /\ outputs = [t \in Thread |-> <<>>]
  /\ batch = [t \in Thread |-> <<>>]
  /\ code = [t \in Thread |-> "none"]
  /\ mutex = None
  /\ context = <<>> /\ pending = <<>> /\ history = <<>> /\ prompt = <<>>
  /\ steps = 0
  /\ text = <<>>

-----------------------------------------------------------------------------
(* Text *)

(* Where the words of stop_words occur in s. *)
Stops(s, stop_words) ==
  {i \in 1 .. Len(s) : \E word \in stop_words : IsPrefix(word, SubSeq(s, i, Len(s)))}

(* FindFirstStop, and the cut at the place it finds. *)
CutAtStop(s, stop_words) ==
  LET stops == Stops(s, stop_words)
  IN  IF stops = {} THEN s ELSE SubSeq(s, 1, Min(stops) - 1)

(* The number of continuation bytes that s ends in. *)
Trailing(s) ==
  Max({n \in 0 .. Len(s) : \A i \in Len(s) - n + 1 .. Len(s) : Width[s[i]] = 0})

(* Mutant: a last character that is cut short is kept. *)
StripTooLong(s) ==
  LET before == Len(s) - Trailing(s)
  IN  IF before > 0 /\ Trailing(s) >= Width[s[before]]
      THEN SubSeq(s, 1, before - 1)
      ELSE s

(* StripIncompleteSuffix looks at the last character only. *)
StripIncompleteSuffix(s) ==
  LET continuation_count == Trailing(s)
      before == Len(s) - continuation_count
      expected == Width[s[before]]
  IN  IF before = 0 THEN <<>>
      ELSE IF expected = 1 THEN SubSeq(s, 1, before)
      ELSE IF continuation_count + 1 = expected THEN s
      ELSE SubSeq(s, 1, before - 1)

(* What the caller gets: the generator, or a vendor's RunTask, strips the  *)
(* text, and GenerateOne does so again.                                    *)
Answer == StripIncompleteSuffix(StripIncompleteSuffix(text))

Bytes(tokens) == FlattenSeq([i \in 1 .. Len(tokens) |-> Piece[tokens[i]]])

-----------------------------------------------------------------------------
(* The batch: FixedBatchExecutor::ExecuteItems *)

GoTo(t, step) == pc' = [pc EXCEPT ![t] = step]

Current(t) == items[t][Len(outputs[t]) + Len(batch[t]) + 1]

(* Leaving the session: the guard unlocks, and the decoder with its        *)
(* context, or the vendor's task, is freed.                                *)
Leave(t) ==
  IF mutex # t THEN UNCHANGED <<mutex, generation>>
  ELSE /\ mutex' = None
       /\ context' = <<>> /\ pending' = <<>> /\ history' = <<>> /\ prompt' = <<>>
       /\ steps' = 0
       /\ text' = <<>>

(* An error of one item clears what the others gave. *)
Fail(t, error) ==
  /\ GoTo(t, "returned")
  /\ code' = [code EXCEPT ![t] = error]
  /\ outputs' = [outputs EXCEPT ![t] = <<>>]
  /\ batch' = [batch EXCEPT ![t] = <<>>]
  /\ Leave(t)
  /\ UNCHANGED <<backend, items, options>>

CallGenerate(t, prompts, generate_options) ==
  /\ pc[t] = "idle"
  /\ items' = [items EXCEPT ![t] = prompts]
  /\ options' = [options EXCEPT ![t] = generate_options]
  /\ GoTo(t, IF prompts = <<>> THEN "returned" ELSE "item")
  /\ code' = [code EXCEPT ![t] = "ok"]
  /\ UNCHANGED <<backend, mutex, outputs, batch, generation>>

ValidOptions(t) == options[t].max_tokens > 0 /\ <<>> \notin options[t].stop_words

(* GenerateOne: an empty prompt is an error before the session is asked.   *)
(* The vendors' sessions test the options before they lock, llama.cpp      *)
(* leaves it to the generator.                                             *)
BeginItem(t) ==
  /\ pc[t] = "item"
  /\ \/ Current(t).data = None /\ Fail(t, "invalid_input")
     \/ /\ Current(t).data # None /\ backend # "llama_cpp" /\ ~ValidOptions(t)
        /\ Fail(t, "invalid_argument")
     \/ /\ Current(t).data # None /\ (backend = "llama_cpp" \/ ValidOptions(t))
        /\ GoTo(t, "locking")
        /\ UNCHANGED <<backend, mutex, items, options, outputs, batch, code, generation>>

Lock(t) ==
  /\ pc[t] = "locking"
  /\ mutex = None
  /\ mutex' = t
  /\ GoTo(t, IF backend = "llama_cpp" THEN "creating" ELSE "preparing")
  /\ UNCHANGED <<backend, items, options, outputs, batch, code, generation>>

(* Mutant: the ids are looked up by the position in the slice. *)
TracedBySlice(t, offset, i, data) ==
  [req_id |-> items[t][i].req_id, sub_id |-> items[t][i].sub_id, data |-> data]

(* What the i-th answer of a slice becomes: it takes its item's ids. *)
Traced(t, offset, i, data) ==
  [req_id |-> items[t][offset + i].req_id, sub_id |-> items[t][offset + i].sub_id,
   data |-> data]

(* The item is done: its text joins the slice, and a full slice joins the  *)
(* outputs under the ids of the items it was made for.  A text stands in   *)
(* the outputs for the prompt it continues.                                *)
Store(t) ==
  /\ pc[t] = "finishing"
  /\ Leave(t)
  /\ LET offset == Len(outputs[t])
         slice == Append(batch[t], prompt[1])
         valid_count == Min({MaxBatch, Len(items[t]) - offset})
     IN  IF Len(slice) < valid_count
         THEN /\ batch' = [batch EXCEPT ![t] = slice]
              /\ GoTo(t, "item")
              /\ UNCHANGED outputs
         ELSE /\ batch' = [batch EXCEPT ![t] = <<>>]
              /\ outputs' = [outputs EXCEPT ![t] =
                   @ \o [i \in 1 .. valid_count |-> Traced(t, offset, i, slice[i])]]
              /\ GoTo(t, IF offset + valid_count = Len(items[t]) THEN "returned" ELSE "item")
  /\ UNCHANGED <<backend, items, options, code>>

Return(t) ==
  /\ pc[t] = "returned"
  /\ GoTo(t, "idle")
  /\ items' = [items EXCEPT ![t] = <<>>]
  /\ options' = [options EXCEPT ![t] = None]
  /\ outputs' = [outputs EXCEPT ![t] = <<>>]
  /\ code' = [code EXCEPT ![t] = "none"]
  /\ UNCHANGED <<backend, mutex, batch, generation>>
-----------------------------------------------------------------------------
(* llama.cpp: a context of its own for every prompt *)

CreateContext(t) ==
  /\ pc[t] = "creating"
  /\ \/ Fail(t, "allocation_failed")
     \/ /\ GoTo(t, "encoding")
        /\ UNCHANGED <<backend, mutex, items, options, outputs, batch, code, generation>>

(* Mutant: a prompt that leaves no room for an answer is accepted. *)
EncodeUpToContext(t) ==
  /\ pc[t] = "encoding" /\ ValidOptions(t)
  /\ \E n \in PromptSizes[Current(t).data] \ {0} :
       /\ n <= MaxContext
       /\ prompt' = [i \in 1 .. n |-> Current(t).data]
       /\ steps' = options[t].max_tokens
  /\ history' = prompt' /\ pending' = prompt'
  /\ GoTo(t, "evaluating")
  /\ UNCHANGED <<backend, mutex, items, options, outputs, batch, code, context, text>>

(* The prompt must leave the context a token at least, and the answer may  *)
(* fill the context.                                                       *)
EncodePrompt(t) ==
  /\ pc[t] = "encoding"
  /\ \/ ~ValidOptions(t) /\ Fail(t, "invalid_argument")
     \/ ValidOptions(t) /\ Fail(t, "inference_failed")
     \/ /\ ValidOptions(t)
        /\ \E n \in PromptSizes[Current(t).data] :
             \/ n = 0 /\ Fail(t, "invalid_output")
             \/ n > 0 /\ (MaxContext < 2 \/ n >= MaxContext) /\ Fail(t, "invalid_input")
             \/ /\ n > 0 /\ MaxContext >= 2 /\ n < MaxContext
                /\ prompt' = [i \in 1 .. n |-> Current(t).data]
                /\ history' = prompt' /\ pending' = prompt'
                /\ steps' = Min({options[t].max_tokens, MaxContext - n})
                /\ GoTo(t, "evaluating")
                /\ UNCHANGED <<backend, mutex, items, options, outputs, batch, code,
                               context, text>>

(* LlamaCppDecoder::Evaluate refuses what does not fit, and submits the    *)
(* rest in chunks.  The logits are those after the last token.             *)
Evaluate(t) ==
  /\ pc[t] = "evaluating"
  /\ \/ Len(pending) > MaxContext - Len(context) /\ Fail(t, "invalid_input")
     \/ /\ Len(pending) <= MaxContext - Len(context)
        /\ GoTo(t, "decoding")
        /\ UNCHANGED <<backend, mutex, items, options, outputs, batch, code, generation>>

DecodeChunk(t) ==
  /\ pc[t] = "decoding"
  /\ LET chunk == Min({DecodeBatch, Len(pending)})
     IN  \/ Fail(t, "inference_failed")
         \/ /\ context' = context \o SubSeq(pending, 1, chunk)
            /\ pending' = SubSeq(pending, chunk + 1, Len(pending))
            /\ IF pending' = <<>> THEN GoTo(t, "sampling") ELSE UNCHANGED pc
            /\ UNCHANGED <<backend, mutex, items, options, outputs, batch, code,
                           history, prompt, steps, text>>

(* ValidateLogits or the sampling itself may refuse the logits. *)
RejectLogits(t) ==
  /\ pc[t] = "sampling"
  /\ Fail(t, "invalid_output")

SampleEnd(t) ==
  /\ pc[t] = "sampling"
  /\ GoTo(t, "finishing")
  /\ UNCHANGED <<backend, mutex, items, options, outputs, batch, code, generation>>

DecodeTokenFails(t) ==
  /\ pc[t] = "sampling"
  /\ Fail(t, "inference_failed")

(* Mutant: stop words are looked for in the new piece alone. *)
SampleTokenStopInPiece(t, token) ==
  /\ pc[t] = "sampling"
  /\ text' = text \o CutAtStop(Piece[token], options[t].stop_words)
  /\ history' = Append(history, token)
  /\ IF \/ Stops(Piece[token], options[t].stop_words) # {}
        \/ Len(history') - Len(prompt) >= steps
     THEN GoTo(t, "finishing") /\ UNCHANGED pending
     ELSE GoTo(t, "evaluating") /\ pending' = <<token>>
  /\ UNCHANGED <<backend, mutex, items, options, outputs, batch, code, context,
                 prompt, steps>>

(* The text is searched as a whole, so that a stop word may span tokens;   *)
(* the last token is not evaluated.                                        *)
SampleToken(t, token) ==
  /\ pc[t] = "sampling"
  /\ text' = CutAtStop(text \o Piece[token], options[t].stop_words)
  /\ history' = Append(history, token)
  /\ IF \/ Stops(text \o Piece[token], options[t].stop_words) # {}
        \/ Len(history') - Len(prompt) >= steps
     THEN GoTo(t, "finishing") /\ UNCHANGED pending
     ELSE GoTo(t, "evaluating") /\ pending' = <<token>>
  /\ UNCHANGED <<backend, mutex, items, options, outputs, batch, code, context,
                 prompt, steps>>

-----------------------------------------------------------------------------
(* kiteLLM and Inferlet: the vendor runs the whole task *)

(* Tokenize, allocate the task and set its prompt. *)
PreparePrompt(t) ==
  /\ pc[t] = "preparing"
  /\ \/ \E error \in {"inference_failed", "allocation_failed", "invalid_output"} :
          Fail(t, error)
     \/ \E n \in PromptSizes[Current(t).data] \ {0} :
          /\ prompt' = [i \in 1 .. n |-> Current(t).data]
          /\ GoTo(t, "running")
          /\ UNCHANGED <<backend, mutex, items, options, outputs, batch, code,
                         context, pending, history, steps, text>>

(* ExecuteTask sets the options and runs; any tokens, at most max_tokens,  *)
(* come back.                                                              *)
ExecuteTask(t) ==
  /\ pc[t] = "running"
  /\ \/ \E error \in {"inference_failed", "invalid_output"} : Fail(t, error)
     \/ \E n \in 0 .. options[t].max_tokens :
        \E generated \in [1 .. n -> Token \ {EndToken}] :
          /\ history' = prompt \o generated
          /\ GoTo(t, "reading")
          /\ UNCHANGED <<backend, mutex, items, options, outputs, batch, code,
                         context, pending, prompt, steps, text>>

(* RunTask decodes the tokens together and cuts the text once. *)
ReadOutput(t) ==
  /\ pc[t] = "reading"
  /\ LET generated == SubSeq(history, Len(prompt) + 1, Len(history))
     IN  \/ \E error \in {"inference_failed", "invalid_output"} : Fail(t, error)
         \/ /\ text' = CutAtStop(Bytes(generated), options[t].stop_words)
            /\ GoTo(t, "finishing")
            /\ UNCHANGED <<backend, mutex, items, options, outputs, batch, code,
                           context, pending, history, prompt, steps>>

-----------------------------------------------------------------------------
SessionStep(t) ==
  \/ Lock(t)
  \/ CreateContext(t)
  \/ EncodePrompt(t)
  \/ Evaluate(t)
  \/ DecodeChunk(t)
  \/ RejectLogits(t)
  \/ SampleEnd(t)
  \/ DecodeTokenFails(t)
  \/ \E token \in Token \ {EndToken} : SampleToken(t, token)
  \/ PreparePrompt(t)
  \/ ExecuteTask(t)
  \/ ReadOutput(t)

Next ==
  \E t \in Thread :
    \/ \E prompts \in Batches, generate_options \in OptionSets :
         CallGenerate(t, prompts, generate_options)
    \/ BeginItem(t)
    \/ SessionStep(t)
    \/ Store(t)
    \/ Return(t)

Spec == Init /\ [][Next]_vars
-----------------------------------------------------------------------------
(* Properties *)

(* Every answer goes to the prompt it continues: a call that succeeds has  *)
(* one answer for each item, in order and under the item's ids, across     *)
(* slices and whoever else uses the session; a call that fails has none.   *)
AnswersMatchPrompts ==
  \A t \in Thread :
    /\ IF pc[t] = "returned" /\ code[t] = "ok"
       THEN outputs[t] = items[t]
       ELSE IsPrefix(outputs[t], items[t])
    /\ code[t] \notin {"ok", "none"} => outputs[t] = <<>>

(* What the decoder has evaluated and is about to evaluate is the history  *)
(* in its order, each token once, and the number of steps keeps it within  *)
(* the context: Evaluate never has to refuse.                              *)
ContextFollowsHistory ==
  \A t \in Thread :
    pc[t] \in {"evaluating", "decoding", "sampling"} =>
      /\ context \o pending = history
      /\ Len(history) <= MaxContext

(* A character is a byte that starts one and the continuation bytes it     *)
(* asks for; IsWhole holds of a sequence of characters.                    *)
IsCharacter(s) ==
  s # <<>> /\ Width[s[1]] = Len(s) /\ \A i \in 2 .. Len(s) : Width[s[i]] = 0

IsWhole(s) ==
  \A i \in 1 .. Len(s) :
    \E first \in 1 .. i, last \in i .. Len(s) : IsCharacter(SubSeq(s, first, last))

WholePrefix(s) == SubSeq(s, 1, Max({n \in 0 .. Len(s) : IsWhole(SubSeq(s, 1, n))}))

(* A limit on tokens may cut a character; the answer is then the text      *)
(* without that character, and a text of whole characters is left alone.   *)
AnswerIsWhole ==
  \A t \in Thread :
    pc[t] = "finishing" =>
      LET rest == SubSeq(text, Len(WholePrefix(text)) + 1, Len(text))
          cut_short == /\ rest # <<>>
                       /\ Len(rest) < Width[rest[1]] /\ Width[rest[1]] # 5
                       /\ \A i \in 2 .. Len(rest) : Width[rest[i]] = 0
      IN  rest = <<>> \/ cut_short => Answer = WholePrefix(text)

(* What the comment on StripIncompleteSuffix says: whole characters before *)
(* the suffix that is removed stay.                                        *)
WholeCharactersStay ==
  \A t \in Thread : pc[t] = "finishing" => IsPrefix(WholePrefix(text), Answer)

(* The text is that of the tokens up to the first stop word that begins in *)
(* it, wherever tokens end, and no token is generated after a stop word.   *)
StopWordsEndText ==
  \A t \in Thread :
    pc[t] \in {"sampling", "finishing"} =>
      LET generated == SubSeq(history, Len(prompt) + 1, Len(history))
          all == Bytes(generated)
          stops == Stops(all, options[t].stop_words)
      IN  /\ pc[t] = "sampling" => text = all /\ stops = {}
          /\ IsPrefix(text, all)
          /\ Stops(text, options[t].stop_words) = {}
          /\ text # all => Len(text) + 1 \in stops
=============================================================================
