--------------------------- MODULE MCProjectStore ---------------------------
(* Instance of TrainingAssets with the project files: two requests at a    *)
(* time, a project of an older version, a name that PROJECT_ID_PATTERN     *)
(* refuses and one that it takes, and one row.                             *)
EXTENDS TrainingAssets, TLC

CONSTANTS r1, r2

MCSymmetry == Permutations(Requests)
=============================================================================
