-------------------------- MODULE MCOperatorHandles --------------------------
(* Three threads and two addresses that three operators take turns at.      *)
EXTENDS OperatorHandles

CONSTANTS t1, t2, t3, a1, a2

MCThread == {t1, t2, t3}
MCAddress == {a1, a2}
=============================================================================
