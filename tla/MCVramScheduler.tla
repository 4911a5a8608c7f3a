-------------------------- MODULE MCVramScheduler --------------------------
(* Two or three small models, budgets in units of 4 GB or so: two models   *)
(* never fit together with a third, and one of the sizes alone fills VRAM. *)
EXTENDS VramScheduler, TLC

CONSTANTS m1, m2, m3

MCVramSizes == {1, 2, 4}
MCRamSizes == {1}
MCIdleOffload == [m \in Models |-> 1]
MCColdOffload == [m \in Models |-> 2]
ModelSymmetry == Permutations(Models)
=============================================================================
