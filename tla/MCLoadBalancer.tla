--------------------------- MODULE MCLoadBalancer ---------------------------
(***************************************************************************)
(* Bounds on the reports of the state managers for LoadBalancer.           *)
(***************************************************************************)
EXTENDS LoadBalancer

OneTwo == [p \in {"client", "server"} |-> IF p = "client" THEN 1 ELSE 2]
TwoEach == [p \in {"client", "server"} |-> 2]
Unlimited == [p \in {"client", "server"} |-> 0]
=============================================================================
