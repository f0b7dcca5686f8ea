----------------------------- MODULE MCCpuTimes -----------------------------
(***************************************************************************)
(* Model values for CpuTimes.                                              *)
(***************************************************************************)
EXTENDS CpuTimes

CONSTANTS p1, p2, n1, n2

MCProcess == {p1, p2}
MCNode == {n1, n2}
=============================================================================
