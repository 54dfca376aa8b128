-------------------------- MODULE MCSessionResources -------------------------
(***************************************************************************)
(* Two threads, a dictionary whose factory asks for a revision, and a      *)
(* second type for the dictionary's name: a maker and a joiner or a late   *)
(* caller can meet on one flight, and each of them ask for the revision.   *)
(***************************************************************************)
EXTENDS SessionResources, TLC

CONSTANTS t1, t2, dictionary, revision, A, B, v1, v2

MCThread == {t1, t2}
MCNeeds == dictionary :> {revision} @@ revision :> {}
MCCalls == {<<dictionary, A>>, <<dictionary, B>>, <<revision, A>>}
=============================================================================
