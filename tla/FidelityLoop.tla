---------------------------- MODULE FidelityLoop ----------------------------
(***************************************************************************)
(* One character-fidelity refine loop: its row and its rounds in           *)
(* memory.sqlite (core/consultant/fidelity_store.py), the request that     *)
(* starts it and the requests that advance it                              *)
(* (core/consultant/fidelity_service.py), and the decision after each      *)
(* critique (core/consultant/fidelity_loop.py).                            *)
(*                                                                         *)
(* Requests are threads, of one process or of several.  Each holds a copy  *)
(* of the row, read when the request began; save_loop() writes that copy.  *)
(* An image is named by its number: 0 is the root, i the i-th refinement.  *)
(* Mask builder, refine job and critic return or raise (their own states   *)
(* are in GenerationJobs).  Loops share nothing, so one is enough.         *)
(***************************************************************************)
EXTENDS Naturals, Sequences, FiniteSets

CONSTANTS Clients,     \* requests that call advance(), one after the other
          Starter,     \* the request that calls start_loop()
          Processes,
          Deployments, \* which process may serve which request
          None,
          MaxRounds,   \* FidelityLoop.max_rounds
          Checks,      \* length of the checklist
          MaxRows,     \* bound on rounds recorded before another advance()
          MaxCrashes   \* bound on crashes

ASSUME FidelityAssumption ==
  /\ Starter \notin Clients
  /\ Deployments \subseteq [Clients \cup {Starter} -> Processes]
  /\ None \notin Clients
  /\ MaxRounds \in Nat \ {0}
  /\ {Checks, MaxRows, MaxCrashes} \subseteq Nat

VARIABLES row,      \* the fidelity_loops row
          rounds,   \* the fidelity_loop_rounds rows as they were inserted
          images,   \* number of refined images
          lock,     \* _loop_locks[loop_id] of each process: its holder
          pc,
          loop,     \* the row as the request knows it
          work,     \* the round a request works on
          auto,     \* FidelityLoop.auto_continue
          processOf, \* the process that serves each request
          guard,    \* iterations of _run_auto_continue()
          crashes,
          broken,   \* history: a failure nothing recorded, or a crash
          stale     \* history: a round was claimed with an old copy of the row

historyVars == <<crashes, broken, stale>>
vars == <<row, rounds, images, lock, pc, loop, work, auto, processOf, guard, historyVars>>

Threads == Clients \cup {Starter}
Awaiting == {"awaiting_user", "stopped_regression_recovered"}
Terminal == {"passed", "stopped_max_rounds", "stopped_unverified", "failed"}
InRound == {"pending_critique", "building_mask", "refining", "critiquing"}

Verdicts == {v \in [pass : 0..Checks, fail : 0..Checks, unverified : 0..Checks] :
               v.pass + v.fail + v.unverified = Checks}
NoVerdict == [pass |-> 0, fail |-> 0, unverified |-> 0]
NoRow == [status |-> "absent", round |-> 0, best |-> 0, bestPass |-> 0]
NoWork == [index |-> 0, image |-> 0, parent |-> 0, verdict |-> NoVerdict]

Init ==
  /\ row = NoRow
  /\ rounds = <<>>
  /\ images = 0
  /\ lock = [p \in Processes |-> None]
  /\ pc = [t \in Threads |-> "idle"]
  /\ loop = [t \in Threads |-> NoRow]
  /\ work = [t \in Threads |-> NoWork]
  /\ auto \in BOOLEAN
  /\ processOf \in Deployments
  /\ guard = 0
  /\ crashes = 0
  /\ broken = FALSE
  /\ stale = FALSE

Step(t, from, to) ==
  /\ pc[t] = from
  /\ pc' = [pc EXCEPT ![t] = to]

\* save_loop(): the whole row, as this request knows it.
Save(t, new) ==
  /\ loop' = [loop EXCEPT ![t] = new]
  /\ row' = new

SaveStatus(t, status) == Save(t, [loop[t] EXCEPT !.status = status])

\* Where an exception leaves a request: advance() still holds the lock.
Raised(t) == IF t = Starter THEN "lost" ELSE "leave"

-----------------------------------------------------------------------------
\* start_loop(): the row is created ...
CreateLoop ==
  /\ Step(Starter, "idle", "baseline")
  /\ Save(Starter, [NoRow EXCEPT !.status = "pending_critique"])
  /\ UNCHANGED <<rounds, images, lock, work, auto, processOf, guard, historyVars>>

\* ... and the root image is critiqued.
BaselineCritiqued ==
  /\ Step(Starter, "baseline", "record")
  /\ \E v \in Verdicts : work' = [work EXCEPT ![Starter] = [NoWork EXCEPT !.verdict = v]]
  /\ UNCHANGED <<row, rounds, images, lock, loop, auto, processOf, guard, historyVars>>

\* advance(): reads the row ...
ReadLoop(c) ==
  /\ Step(c, "idle", "lock")
  /\ pc[Starter] = "done"
  /\ row.status \in Awaiting
  /\ Len(rounds) < MaxRows
  /\ loop' = [loop EXCEPT ![c] = row]
  /\ UNCHANGED <<row, rounds, images, lock, work, auto, processOf, guard, historyVars>>

\* ... takes the lock of this process if it is free ...
TakeLock(c) ==
  LET p == processOf[c] IN
  /\ Step(c, "lock", IF lock[p] = None THEN "claim" ELSE "idle")
  /\ lock' = IF lock[p] = None THEN [lock EXCEPT ![p] = c] ELSE lock
  /\ UNCHANGED <<row, rounds, images, loop, work, auto, processOf, guard, historyVars>>

\* (mutant) The UPDATE has no condition on the status.
ClaimableUnchecked == TRUE

Claimable == row.status \in Awaiting

\* ... and claims the round in the database.  The copy is not read again.
ClaimRound(c) ==
  /\ Step(c, "claim", IF Claimable THEN "plan" ELSE "leave")
  /\ row' = IF Claimable THEN [row EXCEPT !.status = "building_mask"] ELSE row
  /\ stale' = (stale \/ (Claimable /\ loop[c] # row))
  /\ UNCHANGED <<rounds, images, lock, loop, work, auto, processOf, guard, crashes, broken>>

-----------------------------------------------------------------------------
\* latest_round(): of rows with the same round_index any.
LatestRounds ==
  {r \in 1..Len(rounds) : \A s \in 1..Len(rounds) : rounds[s].index <= rounds[r].index}

\* (mutant) The regressed image is refined.
SourceRoundsLatest(t) == LatestRounds

\* The round to plan from, and whose image to refine: after a regression the
\* round of the best image.
SourceRounds(t) ==
  IF loop[t].status = "stopped_regression_recovered"
  THEN {r \in 1..Len(rounds) : rounds[r].image = loop[t].best}
  ELSE LatestRounds

\* plan_round() picks confirmed fails to repair.
PlanRound(t) ==
  /\ Step(t, "plan", "mask")
  /\ \E r \in SourceRounds(t) :
       /\ rounds[r].verdict.fail > 0
       /\ work' = [work EXCEPT ![t] = [NoWork EXCEPT !.index = loop[t].round + 1,
                                                    !.parent = rounds[r].image]]
  /\ UNCHANGED <<row, rounds, images, lock, loop, auto, processOf, guard, historyVars>>

BeginMask(t) ==
  /\ Step(t, "mask", "building")
  /\ SaveStatus(t, "building_mask")
  /\ UNCHANGED <<rounds, images, lock, work, auto, processOf, guard, historyVars>>

MaskBuilt(t) ==
  /\ Step(t, "building", "refining")
  /\ SaveStatus(t, "refining")
  /\ UNCHANGED <<rounds, images, lock, work, auto, processOf, guard, historyVars>>

Refined(t) ==
  /\ Step(t, "refining", "critiquing")
  /\ SaveStatus(t, "critiquing")
  /\ images' = images + 1
  /\ work' = [work EXCEPT ![t].image = images + 1]
  /\ UNCHANGED <<rounds, lock, auto, processOf, guard, historyVars>>

Critiqued(t) ==
  /\ Step(t, "critiquing", "record")
  /\ \E v \in Verdicts : work' = [work EXCEPT ![t].verdict = v]
  /\ UNCHANGED <<row, rounds, images, lock, loop, auto, processOf, guard, historyVars>>

\* append_round()
RecordRound(t) ==
  /\ Step(t, "record", "apply")
  /\ rounds' = Append(rounds, work[t])
  /\ UNCHANGED <<row, images, lock, loop, work, auto, processOf, guard, historyVars>>

ReachedCap(round) == round >= MaxRounds

NextStatus(w, regressed) ==
  IF w.verdict.fail = 0
  THEN IF w.verdict.unverified = 0 THEN "passed" ELSE "stopped_unverified"
  ELSE IF ReachedCap(w.index) THEN "stopped_max_rounds"
  ELSE IF regressed THEN "stopped_regression_recovered" ELSE "awaiting_user"

\* (mutant) A regression keeps the image but not its count.
OutcomeForgetsCount(w, best, bestPass) ==
  [status |-> NextStatus(w, w.verdict.pass < bestPass), round |-> w.index,
   best |-> IF w.verdict.pass < bestPass THEN best ELSE w.image,
   bestPass |-> w.verdict.pass]

\* decide_round_outcome(): the best image so far is kept on a regression, which a
\* critique that passes everything never is.
Outcome(w, best, bestPass) ==
  LET regressed == w.verdict.pass < bestPass IN
  [status |-> NextStatus(w, regressed), round |-> w.index,
   best |-> IF regressed THEN best ELSE w.image,
   bestPass |-> IF regressed THEN bestPass ELSE w.verdict.pass]

\* (mutant) The automatic mode does not go on after a regression.
GoesOnAwaitingOnly(status) == auto /\ status = "awaiting_user" /\ guard <= MaxRounds

\* _run_auto_continue(): start_loop() runs rounds itself, without lock or claim.
GoesOn(status) == auto /\ status \in Awaiting /\ guard <= MaxRounds

\* _apply_outcome().  Nothing is worse than round 0 when it is decided.
ApplyOutcome(t) ==
  LET w == work[t]
      new == Outcome(w, loop[t].best, IF w.index = 0 THEN 0 ELSE loop[t].bestPass)
      again == t = Starter /\ GoesOn(new.status) IN
  /\ Step(t, "apply", IF again THEN "plan" ELSE IF t = Starter THEN "done" ELSE "leave")
  /\ Save(t, new)
  /\ guard' = IF again THEN guard + 1 ELSE guard
  /\ work' = [work EXCEPT ![t] = NoWork]
  /\ UNCHANGED <<rounds, images, lock, auto, processOf, historyVars>>

\* finally: lock.release()
Leave(c) ==
  /\ Step(c, "leave", "idle")
  /\ lock' = [lock EXCEPT ![processOf[c]] = None]
  /\ loop' = [loop EXCEPT ![c] = NoRow]
  /\ work' = [work EXCEPT ![c] = NoWork]
  /\ UNCHANGED <<row, rounds, images, auto, processOf, guard, historyVars>>

-----------------------------------------------------------------------------
\* An exception of the mask builder, the refine job or the critic: FAILED is saved.
StepRaises(t) ==
  /\ pc[t] \in {"baseline", "mask", "building", "refining", "critiquing"}
  /\ pc' = [pc EXCEPT ![t] = Raised(t)]
  /\ SaveStatus(t, "failed")
  /\ UNCHANGED <<rounds, images, lock, work, auto, processOf, guard, historyVars>>

\* An exception of _load_checks(), latest_round() or _read_asset_image(), after the
\* claim and before the first save: nothing records it.
PlanRaises(t) ==
  /\ Step(t, "plan", Raised(t))
  /\ broken' = TRUE
  /\ UNCHANGED <<row, rounds, images, lock, loop, work, auto, processOf, guard, crashes, stale>>

\* A write raises (SQLite busy for 5 seconds, disk full), and so does saving FAILED
\* where that is tried.
WriteRaises(t) ==
  /\ pc[t] \in {"claim", "baseline", "mask", "building", "refining", "critiquing",
                "record", "apply"}
  /\ pc' = [pc EXCEPT ![t] = Raised(t)]
  /\ broken' = TRUE
  /\ UNCHANGED <<row, rounds, images, lock, loop, work, auto, processOf, guard, crashes, stale>>

\* A process dies with its threads and its locks; nothing looks at the loops when
\* it is started again.  A client is never told the id of a loop whose start died.
Crash(p) ==
  /\ crashes < MaxCrashes
  /\ crashes' = crashes + 1
  /\ broken' = TRUE
  /\ pc' = [t \in Threads |->
              CASE processOf[t] # p -> pc[t]
                [] processOf[t] = p /\ t # Starter -> "idle"
                [] OTHER -> IF pc[t] \in {"idle", "done"} THEN pc[t] ELSE "lost"]
  /\ lock' = [lock EXCEPT ![p] = None]
  /\ loop' = [t \in Threads |-> IF processOf[t] = p THEN NoRow ELSE loop[t]]
  /\ work' = [t \in Threads |-> IF processOf[t] = p THEN NoWork ELSE work[t]]
  /\ UNCHANGED <<row, rounds, images, auto, processOf, guard, stale>>

-----------------------------------------------------------------------------
RoundStep(t) ==
  \/ PlanRound(t) \/ BeginMask(t) \/ MaskBuilt(t) \/ Refined(t) \/ Critiqued(t)
  \/ RecordRound(t) \/ ApplyOutcome(t)
  \/ StepRaises(t) \/ PlanRaises(t) \/ WriteRaises(t)

StartStep == CreateLoop \/ BaselineCritiqued

Next ==
  \/ StartStep
  \/ \E c \in Clients : ReadLoop(c) \/ TakeLock(c) \/ ClaimRound(c) \/ Leave(c)
  \/ \E t \in Threads : RoundStep(t)
  \/ \E p \in Processes : Crash(p)

Spec == Init /\ [][Next]_vars

\* Threads are scheduled; nobody has to ask for another round.
Fairness ==
  /\ WF_vars(BaselineCritiqued)
  /\ \A c \in Clients : WF_vars(TakeLock(c) \/ ClaimRound(c) \/ Leave(c))
  /\ \A t \in Threads : WF_vars(RoundStep(t))

FairSpec == Spec /\ Fairness

-----------------------------------------------------------------------------
Rows == [status : Awaiting \cup Terminal \cup InRound \cup {"absent"},
         round : 0..MaxRounds, best : Nat, bestPass : 0..Checks]
Rounds == [index : 0..MaxRounds, image : Nat, parent : Nat,
           verdict : Verdicts \cup {NoVerdict}]

TypeOK ==
  /\ row \in Rows
  /\ rounds \in Seq(Rounds)
  /\ images \in Nat
  /\ lock \in [Processes -> Clients \cup {None}]
  /\ pc \in [Threads -> {"idle", "baseline", "lock", "claim", "plan", "mask", "building",
                         "refining", "critiquing", "record", "apply", "leave", "done", "lost"}]
  /\ loop \in [Threads -> Rows]
  /\ work \in [Threads -> Rounds]
  /\ auto \in BOOLEAN
  /\ processOf \in Deployments
  /\ guard \in 0..MaxRounds + 1
  /\ crashes \in 0..MaxCrashes
  /\ {broken, stale} \subseteq BOOLEAN

Working == {"plan", "mask", "building", "refining", "critiquing", "record", "apply"}

(***************************************************************************)
(* No two requests are inside a round at once, of one process or of two,   *)
(* whatever raised or died before (fidelity_service.py:168-179).           *)
(***************************************************************************)
OneRoundAtATime ==
  \A t, u \in Threads : pc[t] \in Working /\ pc[u] \in Working => t = u

(***************************************************************************)
(* A loop that ended stays as it is: no advance() that read the row before *)
(* it ended, and no late save, reopens it (fidelity_service.py:49-59).     *)
(***************************************************************************)
EndIsFinal == [][row.status \in Terminal => row' = row]_vars

(***************************************************************************)
(* best_asset_id and best_pass_count belong together: once round 0 is      *)
(* decided, some recorded round gave that image that many passes, in spite *)
(* of stale copies, failing writes and crashes (fidelity_loop.py:579-597). *)
(***************************************************************************)
BestMatchesItsRound ==
  row.status \in Awaiting \cup {"passed", "stopped_max_rounds", "stopped_unverified"} =>
    \E r \in 1..Len(rounds) : /\ rounds[r].image = row.best
                              /\ rounds[r].verdict.pass = row.bestPass

(***************************************************************************)
(* With auto_continue the start request alone brings the loop to an end,   *)
(* after regressions too (spec.md 5.15, "until a terminal state"), unless  *)
(* a failure went unrecorded.                                              *)
(***************************************************************************)
AutoRunsToTheEnd == auto /\ row.status # "absent" ~> broken \/ row.status \in Terminal

(***************************************************************************)
(* The loop implements BestSoFar: rounds are numbered without gaps or      *)
(* repetition and never exceed MaxRounds, every refinement starts from the *)
(* best image so far, and the last critique alone ends the loop, until a   *)
(* failure goes unrecorded or a round is claimed with an old copy of the   *)
(* row.  A round counts once its outcome is saved.                         *)
(***************************************************************************)
Decided ==
  IF row.status \in {"absent", "pending_critique"} \/ rounds = <<>>
  THEN <<>>
  ELSE [i \in 1..(row.round + 1) |->
          [parent |-> rounds[i].parent, verdict |-> rounds[i].verdict]]
Loop == INSTANCE BestSoFar
          WITH history <- Decided,
               outcome <- IF row.status \in Terminal THEN row.status ELSE "open"
ImplementsBestSoFar ==
  Loop!Init /\ [][broken' \/ stale' \/ [Loop!Next]_<<Decided, row.status \in Terminal>>]_vars
=============================================================================
