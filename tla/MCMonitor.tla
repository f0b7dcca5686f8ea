----------------------------- MODULE MCMonitor -----------------------------
(***************************************************************************)
(* Model values for Monitor.                                               *)
(***************************************************************************)
EXTENDS Monitor

CONSTANT t1

MCTask == {t1}
=============================================================================
