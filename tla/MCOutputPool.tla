---------------------------- MODULE MCOutputPool -----------------------------
(***************************************************************************)
(* A pool of two blocks and three clients: enough for two of them to sleep *)
(* while one holds everything, for a barging third thread, for the ring to *)
(* wrap around and for a third address the pool never handed out.          *)
(***************************************************************************)
EXTENDS OutputPool

CONSTANTS b1, b2, b3, c1, c2, c3

MCBlock == {b1, b2, b3}
MCClient == {c1, c2, c3}
=============================================================================
