----------------------------- MODULE BestSoFar -----------------------------
(***************************************************************************)
(* What the fidelity loop promises, whoever drives it: a history of        *)
(* critiques in which every new image is a refinement of the best one so   *)
(* far, ended by the last critique alone (spec.md 5.15, "loop              *)
(* controller").  Position i + 1 of the history is round i; round 0 is the *)
(* critique of the root image and does not count against MaxRounds.        *)
(***************************************************************************)
EXTENDS Naturals, Sequences

CONSTANTS MaxRounds,  \* refinements allowed
          Verdicts    \* critiques: how many checks pass, fail, are unverified

VARIABLES history,    \* rounds: the image that was refined, and its critique
          outcome     \* "open", or why the loop ended

Init == history = <<>> /\ outcome = "open"

\* The round to refine: of those with most passes the last.
Best(h) ==
  CHOOSE i \in 1..Len(h) :
    /\ \A j \in 1..Len(h) : h[j].verdict.pass <= h[i].verdict.pass
    /\ \A j \in (i + 1)..Len(h) : h[j].verdict.pass < h[i].verdict.pass

Ending(v, round) ==
  IF v.fail = 0
  THEN IF v.unverified = 0 THEN "passed" ELSE "stopped_unverified"
  ELSE IF round < MaxRounds THEN "open" ELSE "stopped_max_rounds"

Judge(v) ==
  /\ outcome = "open"
  /\ history' = Append(history, [parent |-> IF history = <<>> THEN 0 ELSE Best(history) - 1,
                                 verdict |-> v])
  /\ outcome' = Ending(v, Len(history))

Fail ==
  /\ outcome = "open"
  /\ outcome' = "failed"
  /\ UNCHANGED history

Next == Fail \/ \E v \in Verdicts : Judge(v)

Spec == Init /\ [][Next]_<<history, outcome>>
=============================================================================
