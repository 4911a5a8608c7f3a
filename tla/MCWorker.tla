----------------------------- MODULE MCWorker -----------------------------
(* Instances of WorkerRuntime: requests are interchangeable, and so are    *)
(* the processes they launch.                                              *)
EXTENDS WorkerRuntime, TLC

CONSTANTS c1, c2, c3, c4, p1, p2

MCSymmetry == Permutations(Clients) \cup Permutations(Processes)
=============================================================================
