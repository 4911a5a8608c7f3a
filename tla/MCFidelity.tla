---------------------------- MODULE MCFidelity ----------------------------
(* Instance of FidelityLoop: the start request and two clients, the second *)
(* of them in the same process or in another.                              *)
EXTENDS FidelityLoop

CONSTANTS c1, c2, p1, p2

MCDeployments ==
  {[t \in Threads |-> p1], [t \in Threads |-> IF t = c2 THEN p2 ELSE p1]}
===========================================================================
