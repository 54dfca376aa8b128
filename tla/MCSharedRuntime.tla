--------------------------- MODULE MCSharedRuntime ---------------------------
(***************************************************************************)
(* Two host threads, a required and an optional output, pools of two       *)
(* blocks.  The batches: one row with both outputs, two rows that exhaust  *)
(* the first pool and name the outputs in another order, one batch above   *)
(* the limit, and one that names an output twice; each of the last two     *)
(* would need more blocks than its pool has.                               *)
(***************************************************************************)
EXTENDS SharedRuntime, TLC

CONSTANTS t1, t2

MCThread == {t1, t2}

MCBatch(n, m, s) == [inputs |-> n, views_match |-> TRUE, rows |-> m, slots |-> s]
MCSlot(r, o) == [row |-> r, output |-> o]

MCBoth == MCBatch(1, 1, <<MCSlot(1, 2), MCSlot(1, 1)>>)
MCTwoRows == MCBatch(2, 2, <<MCSlot(1, 1), MCSlot(1, 2), MCSlot(2, 1)>>)
MCTooMany == MCBatch(3, 3, <<MCSlot(1, 1), MCSlot(2, 1), MCSlot(3, 1)>>)
MCTwice == MCBatch(2, 2, <<MCSlot(1, 1), MCSlot(1, 1), MCSlot(2, 1)>>)

MCRequest == {MCBoth, MCTwoRows, MCTooMany, MCTwice}
=============================================================================
