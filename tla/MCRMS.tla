------------------------------- MODULE MCRMS -------------------------------
(***************************************************************************)
(* Three applications for RMS: a short, a middle and a long period.  The   *)
(* first two together exceed the bound.  The product of the third          *)
(* overflows to a small number, so that it is admitted with either of them.*)
(***************************************************************************)
EXTENDS RMS

CONSTANTS a1, a2, a3

MCApp == {a1, a2, a3}
MCTwo == {a1, a2}
MCPeriod == [a \in App |-> CASE a = a1 -> 2 [] a = a2 -> 4 [] OTHER -> 8]
MCTime == [a \in App |-> CASE a = a1 -> 1 [] a = a2 -> 2 [] OTHER -> 6]
ShortTime == [a \in App |-> 1]
=============================================================================
