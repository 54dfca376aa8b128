--------------------------- MODULE MCTextGeneration ---------------------------
(* Two threads with batches of up to three prompts.  The stop word ends in  *)
(* a byte that another token begins.                                        *)
EXTENDS TextGeneration

CONSTANTS t1, t2

MCThread == {t1, t2}
MCBackends == {"llama_cpp", "kite", "inferlet"}

Item(req, sub, data) == [req_id |-> req, sub_id |-> sub, data |-> data]
MCBatches == {
  <<>>,
  <<Item(1, 0, "p"), Item(1, 1, "q"), Item(2, 0, "p")>>,
  <<Item(1, 0, "q"), Item(2, 0, None)>> }
MCPromptSizes == [p |-> {1, 3}, q |-> {0, 2, 4}]
MCOptionSets == {
  [max_tokens |-> 3, stop_words |-> {<<"ascii", "stop">>, <<"stop", "stop">>}],
  [max_tokens |-> 0, stop_words |-> {}] }

MCToken == {"a", "as", "s", "lead", "wide", "cont", "bad", "end"}
MCPiece == [a |-> <<"ascii">>, as |-> <<"ascii", "ascii", "stop">>, s |-> <<"stop">>,
            lead |-> <<"lead3", "cont">>, wide |-> <<"lead4", "cont", "cont">>,
            cont |-> <<"cont">>,
            bad |-> <<"illegal">>, end |-> <<>>]
MCSymmetry == Permutations(MCThread)
=============================================================================
