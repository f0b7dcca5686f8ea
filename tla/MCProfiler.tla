----------------------------- MODULE MCProfiler -----------------------------
(***************************************************************************)
(* Model values for Profiler.                                              *)
(***************************************************************************)
EXTENDS Profiler

CONSTANTS t1, t2

MCTask == {t1, t2}
=============================================================================
