------------------------------ MODULE MCQueue ------------------------------
(***************************************************************************)
(* Model values for Queue.                                                 *)
(***************************************************************************)
EXTENDS Queue

CONSTANTS t1, t2, t3, n1, n2, n3, n4, d1, d2

MCThread == {t1, t2, t3}
MCNode == {n1, n2, n3, n4}
MCData == {d1, d2}
=============================================================================
