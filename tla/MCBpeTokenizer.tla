---------------------------- MODULE MCBpeTokenizer ----------------------------
(* All texts of up to six characters, of which one, "e", has no token, with *)
(* a vocabulary of equal scores, one of ranked rules that reach a token in  *)
(* two ways, one without byte fallback and one without a token for spaces.  *)
(* Added tokens overlap.                                                    *)
EXTENDS BpeTokenizer

CONSTANT MaxLength

MCCharacter == {"a", "b", " ", "e", "_"}
MCByte == {"e1", "m1", "x2"}
MCUtf8 == ("e" :> <<"e1", "x2">>) @@ ("_" :> <<"m1", "x2">>)
MCTexts == SeqOf({"a", "b", " ", "e"}, MaxLength)

Piece == << <<"a">>, <<"b">>, <<"_">>, <<"a", "b">>, <<"b", "a">>, <<"a", "b", "a">>,
            <<"a", "a">>, <<"_", "a", "b">>, <<"e1">>, <<"x2">>,
            <<"b", "b">>, <<"b", "b", "a", " ">>, <<"m1">> >>
Kind == [id \in 1 .. 13 |-> IF id \in {9, 10, 13} THEN "byte"
                            ELSE IF id = 12 THEN "special" ELSE "normal"]

Scored == [piece |-> Piece, kind |-> Kind, score |-> <<0, 0, 0, 2, 2, 3, 2, 1, 0, 0, 0, 0, 0>>,
           hash |-> 1 .. 8, added |-> {11, 12}, merge_priority |-> "score",
           byte_fallback |-> TRUE, rules |-> {}]
Rule(id, left, rank) == [id |-> id, left |-> left, rank |-> rank]
Ranked == [Scored EXCEPT !.merge_priority = "rank",
             !.rules = {Rule(7, 1, 3), Rule(5, 1, 2), Rule(4, 1, 4), Rule(6, 1, 1),
                        Rule(6, 2, 6), Rule(8, 1, 5)}]
NoFallback == [Scored EXCEPT !.byte_fallback = FALSE, !.added = {11}]
NoSpace == [Scored EXCEPT !.hash = @ \ {3, 8}]
MCVocabularies == {Scored, Ranked, NoFallback, NoSpace}
===============================================================================
