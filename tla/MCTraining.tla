---------------------------- MODULE MCTraining ----------------------------
(* Instances of TrainingExecutor.  Two executors and two workers are       *)
(* enough for a race to create one too many of either.                     *)
EXTENDS TrainingExecutor, TLC

CONSTANTS e1, e2, w1, w2, m1

MCSymmetry == Permutations(Executors) \cup Permutations(Workers)
=============================================================================
