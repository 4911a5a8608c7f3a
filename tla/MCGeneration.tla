---------------------------- MODULE MCGeneration ----------------------------
(* Instances of GenerationJobs: one job of the project and the jobs that   *)
(* two requests create.                                           *)
EXTENDS GenerationJobs

MCTurn == [r \in Requests |-> IF r = "r1" THEN 1 ELSE 2]
=============================================================================
