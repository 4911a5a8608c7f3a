--------------------------- MODULE FidelityProofs ---------------------------
(***************************************************************************)
(* Proofs about FidelityLoop: for any number of clients, processes,        *)
(* rounds, checks and crashes, rounds do not overlap, an end is final, the *)
(* best image is the one of a recorded round, and the loop implements      *)
(* BestSoFar.                                                              *)
(***************************************************************************)
EXTENDS FidelityLoop, TLAPS

-----------------------------------------------------------------------------
(***************************************************************************)
(* Type correctness needs that a round is only planned below the cap.      *)
(***************************************************************************)
BelowCap ==
  /\ row.status \in Awaiting => row.round < MaxRounds
  /\ \A t \in Threads : pc[t] \in {"lock", "claim", "plan"} => loop[t].round < MaxRounds

TypeInv == TypeOK /\ BelowCap

LEMMA ThreadsAndDeployments ==
  /\ Starter \in Threads
  /\ \A c \in Clients : c \in Threads /\ c # Starter /\ c # None
  /\ MaxRounds \in Nat /\ MaxRounds > 0 /\ Checks \in Nat
  /\ \A d \in Deployments, t \in Threads : d[t] \in Processes
BY FidelityAssumption DEF Threads

LEMMA EmptyRecordsHaveType == NoRow \in Rows /\ NoWork \in Rounds
BY ThreadsAndDeployments DEF NoRow, NoWork, Rows, Rounds

\* What decide_round_outcome() returns is a row, and open only below the cap.
LEMMA OutcomeHasType ==
  ASSUME NEW w \in Rounds, NEW best \in Nat, NEW bestPass \in 0..Checks
  PROVE  /\ Outcome(w, best, bestPass) \in Rows
         /\ Outcome(w, best, bestPass).status \in Awaiting =>
              Outcome(w, best, bestPass).round < MaxRounds
BY ThreadsAndDeployments
DEF Outcome, NextStatus, ReachedCap, Rows, Rounds, Verdicts, NoVerdict, Awaiting, Terminal, InRound

LEMMA TypeInitial == Init => TypeInv
<1> SUFFICES ASSUME Init PROVE TypeInv
  OBVIOUS
<1>1. TypeOK
  <2>1. {broken, stale} \subseteq BOOLEAN /\ auto \in BOOLEAN
    BY DEF Init
  <2>2. /\ row \in Rows /\ loop \in [Threads -> Rows] /\ work \in [Threads -> Rounds]
        /\ rounds \in Seq(Rounds) /\ images \in Nat
    BY EmptyRecordsHaveType DEF Init
  <2>3. guard \in 0..MaxRounds + 1 /\ crashes \in 0..MaxCrashes
    BY FidelityAssumption DEF Init
  <2> QED
    BY <2>1, <2>2, <2>3 DEF Init, TypeOK
<1>2. BelowCap
  BY ThreadsAndDeployments DEF Init, BelowCap, NoRow, Awaiting
<1> QED
  BY <1>1, <1>2 DEF TypeInv

LEMMA TypeStep == TypeInv /\ [Next]_vars => TypeInv'
<1> SUFFICES ASSUME TypeInv, [Next]_vars PROVE TypeInv'
  OBVIOUS
<1> USE DEF TypeInv
<1>1. CASE CreateLoop
  BY <1>1, ThreadsAndDeployments, EmptyRecordsHaveType
  DEF CreateLoop, Step, Save, TypeOK, BelowCap, historyVars, NoRow, Rows, Awaiting, InRound
<1>2. CASE BaselineCritiqued
  <2>1. PICK v \in Verdicts : work' = [work EXCEPT ![Starter] = [NoWork EXCEPT !.verdict = v]]
    BY <1>2 DEF BaselineCritiqued
  <2>2. [NoWork EXCEPT !.verdict = v] \in Rounds
    BY <2>1, EmptyRecordsHaveType, ThreadsAndDeployments DEF NoWork, Rounds
  <2> QED
    BY <1>2, <2>1, <2>2, ThreadsAndDeployments
    DEF BaselineCritiqued, Step, TypeOK, BelowCap, historyVars
<1>3. ASSUME NEW c \in Clients, ReadLoop(c) PROVE TypeInv'
  BY <1>3, ThreadsAndDeployments DEF ReadLoop, Step, TypeOK, BelowCap, historyVars
<1>4. ASSUME NEW c \in Clients, TakeLock(c) PROVE TypeInv'
  BY <1>4, ThreadsAndDeployments DEF TakeLock, Step, TypeOK, BelowCap, historyVars
<1>5. ASSUME NEW c \in Clients, ClaimRound(c) PROVE TypeInv'
  <2>1. row' \in Rows /\ (row'.status \in Awaiting => row'.round < MaxRounds)
    BY <1>5 DEF ClaimRound, TypeOK, BelowCap, Rows, InRound, Awaiting
  <2>2. stale' \in BOOLEAN
    BY <1>5 DEF ClaimRound, TypeOK
  <2> QED
    BY <1>5, <2>1, <2>2, ThreadsAndDeployments DEF ClaimRound, Step, TypeOK, BelowCap, Claimable
<1>6. ASSUME NEW c \in Clients, Leave(c) PROVE TypeInv'
  BY <1>6, ThreadsAndDeployments, EmptyRecordsHaveType
  DEF Leave, Step, TypeOK, BelowCap, historyVars, NoRow
<1>7. ASSUME NEW t \in Threads, RoundStep(t) PROVE TypeInv'
  <2>1. CASE PlanRound(t)
    <3>1. PICK r \in SourceRounds(t) :
             work' = [work EXCEPT ![t] = [NoWork EXCEPT !.index = loop[t].round + 1,
                                                       !.parent = rounds[r].image]]
      BY <2>1 DEF PlanRound
    <3>2. rounds[r] \in Rounds
      BY <3>1 DEF SourceRounds, LatestRounds, TypeOK
    <3>3. loop[t].round + 1 \in 0..MaxRounds
      <4>1. loop[t].round < MaxRounds
        BY <2>1 DEF PlanRound, Step, BelowCap
      <4>2. loop[t] \in Rows
        BY DEF TypeOK
      <4>3. loop[t].round \in 0..MaxRounds
        BY <4>2 DEF Rows
      <4> QED
        BY <4>1, <4>3, ThreadsAndDeployments
    <3>4. rounds[r].image \in Nat
      BY <3>2 DEF Rounds
    <3>5. [NoWork EXCEPT !.index = loop[t].round + 1, !.parent = rounds[r].image] \in Rounds
      BY <3>3, <3>4, EmptyRecordsHaveType DEF Rounds
    <3> QED
      BY <2>1, <3>1, <3>5 DEF PlanRound, Step, TypeOK, BelowCap, historyVars
  <2>2. CASE BeginMask(t)
    BY <2>2 DEF BeginMask, Step, SaveStatus, Save, TypeOK, BelowCap, historyVars, Rows, InRound,
                Awaiting
  <2>3. CASE MaskBuilt(t)
    BY <2>3 DEF MaskBuilt, Step, SaveStatus, Save, TypeOK, BelowCap, historyVars, Rows, InRound,
                Awaiting
  <2>4. CASE Refined(t)
    <3>1. images' \in Nat /\ images' = images + 1
      BY <2>4 DEF Refined, TypeOK
    <3>2. [work[t] EXCEPT !.image = images + 1] \in Rounds
      BY <3>1 DEF TypeOK, Rounds
    <3>3. work' \in [Threads -> Rounds]
      BY <2>4, <3>2 DEF Refined, TypeOK
    <3> QED
      BY <2>4, <3>1, <3>3 DEF Refined, Step, SaveStatus, Save, TypeOK, BelowCap, historyVars, Rows,
                        InRound, Awaiting
  <2>5. CASE Critiqued(t)
    <3>1. work' \in [Threads -> Rounds]
      BY <2>5 DEF Critiqued, TypeOK, Rounds
    <3> QED
      BY <2>5, <3>1 DEF Critiqued, Step, TypeOK, BelowCap, historyVars
  <2>6. CASE RecordRound(t)
    BY <2>6 DEF RecordRound, Step, TypeOK, BelowCap, historyVars
  <2>7. CASE ApplyOutcome(t)
    <3> DEFINE w == work[t]
               new == Outcome(w, loop[t].best, IF w.index = 0 THEN 0 ELSE loop[t].bestPass)
    <3>1. w \in Rounds /\ loop[t].best \in Nat /\ loop[t].bestPass \in 0..Checks
      BY DEF TypeOK, Rows
    <3>2. new \in Rows /\ (new.status \in Awaiting => new.round < MaxRounds)
      BY <3>1, OutcomeHasType, ThreadsAndDeployments
    <3>3. guard' \in 0..MaxRounds + 1
      BY <2>7, ThreadsAndDeployments DEF ApplyOutcome, GoesOn, TypeOK
    <3>4. pc'[t] \in {"lock", "claim", "plan"} => new.status \in Awaiting
      BY <2>7 DEF ApplyOutcome, Step, GoesOn, TypeOK
    <3>5. loop' = [loop EXCEPT ![t] = new] /\ row' = new
      BY <2>7 DEF ApplyOutcome, Save
    <3>6. pc' = [pc EXCEPT ![t] = pc'[t]] /\ pc'[t] \in {"plan", "done", "leave"}
      BY <2>7 DEF ApplyOutcome, Step, TypeOK
    <3>7. work' \in [Threads -> Rounds]
      BY <2>7, EmptyRecordsHaveType DEF ApplyOutcome, TypeOK
    <3> HIDE DEF new
    <3>8. TypeOK'
      BY <2>7, <3>2, <3>3, <3>5, <3>6, <3>7 DEF ApplyOutcome, TypeOK, historyVars
    <3>9. BelowCap'
      BY <3>2, <3>4, <3>5, <3>6 DEF BelowCap, TypeOK
    <3> QED
      BY <3>8, <3>9
  <2>8. CASE StepRaises(t)
    BY <2>8 DEF StepRaises, Raised, SaveStatus, Save, TypeOK, BelowCap, historyVars, Rows,
                Terminal, Awaiting
  <2>9. CASE PlanRaises(t)
    BY <2>9 DEF PlanRaises, Step, Raised, TypeOK, BelowCap
  <2>10. CASE WriteRaises(t)
    BY <2>10 DEF WriteRaises, Raised, TypeOK, BelowCap
  <2> QED
    BY <1>7, <2>1, <2>2, <2>3, <2>4, <2>5, <2>6, <2>7, <2>8, <2>9, <2>10 DEF RoundStep
<1>8. ASSUME NEW p \in Processes, Crash(p) PROVE TypeInv'
  <2>1. /\ loop' \in [Threads -> Rows] /\ work' \in [Threads -> Rounds]
        /\ lock' \in [Processes -> Clients \cup {None}] /\ crashes' \in 0..MaxCrashes
    BY <1>8, EmptyRecordsHaveType, FidelityAssumption DEF Crash, TypeOK
  <2>2. /\ pc' \in [Threads -> {pc[t] : t \in Threads} \cup {"idle", "lost"}]
        /\ \A t \in Threads : pc'[t] \in {"lock", "claim", "plan"} =>
             pc[t] = pc'[t] /\ loop'[t] = loop[t]
    <3>1. \A t \in Threads :
            /\ processOf[t] # p => pc'[t] = pc[t] /\ loop'[t] = loop[t]
            /\ processOf[t] = p => pc'[t] = "idle" \/ (pc'[t] = pc[t] /\ pc[t] \in {"idle", "done"})
                                   \/ pc'[t] = "lost"
      BY <1>8 DEF Crash
    <3>2. pc' = [t \in Threads |-> pc'[t]]
      BY <1>8 DEF Crash
    <3> QED
      BY <3>1, <3>2
  <2>3. pc' \in [Threads -> {"idle", "baseline", "lock", "claim", "plan", "mask", "building",
                            "refining", "critiquing", "record", "apply", "leave", "done", "lost"}]
    BY <2>2 DEF TypeOK
  <2> QED
    BY <1>8, <2>1, <2>2, <2>3 DEF Crash, TypeOK, BelowCap
<1>9. CASE UNCHANGED vars
  BY <1>9 DEF vars, historyVars, TypeOK, BelowCap
<1> QED
  BY <1>1, <1>2, <1>3, <1>4, <1>5, <1>6, <1>7, <1>8, <1>9 DEF Next, StartStep

(***************************************************************************)
(* Every variable keeps its type; in particular no round is numbered       *)
(* beyond max_rounds, whatever stale copies are claimed with.              *)
(***************************************************************************)
THEOREM TypeCorrect == Spec => []TypeOK
<1>1. TypeInv => TypeOK
  BY DEF TypeInv
<1> QED
  BY <1>1, TypeInitial, TypeStep, PTL DEF Spec

-----------------------------------------------------------------------------
(***************************************************************************)
(* Who is inside a round.  A row in a round is claimed by nobody else; a   *)
(* start request works alone, because no client knows the loop before it   *)
(* has returned; and whoever works has a row that has not ended.           *)
(***************************************************************************)
ClientsWait == pc[Starter] # "done" => \A c \in Clients : pc[c] = "idle"

ClientsInRound == \A c \in Clients : pc[c] \in Working => row.status \in InRound

StarterOpen ==
  /\ pc[Starter] = "idle" => row.status = "absent"
  /\ pc[Starter] \in Working \cup {"baseline"} => row.status \notin Terminal

PlacesKnown ==
  /\ pc[Starter] \notin {"lock", "claim", "leave"}
  /\ \A c \in Clients : pc[c] \notin {"baseline", "done", "lost"}

Order == ClientsWait /\ ClientsInRound /\ StarterOpen /\ PlacesKnown /\ OneRoundAtATime

RoundInv == TypeInv /\ Order

LEMMA StatusesDiffer ==
  /\ Awaiting \cap Terminal = {} /\ Awaiting \cap InRound = {} /\ Terminal \cap InRound = {}
  /\ "absent" \notin Awaiting \cup Terminal \cup InRound
BY DEF Awaiting, Terminal, InRound

\* A thread at work goes on to `to`: it stays at work or stops, and its row does not
\* end while it works.
GoesTo(t, to) ==
  /\ pc[t] \in Working \cup {"baseline"}
  /\ pc' = [pc EXCEPT ![t] = to]
  /\ IF t = Starter THEN to \in Working \cup {"baseline", "done", "lost"}
                    ELSE to \in Working \cup {"leave"}
  /\ to \in Working \cup {"baseline"} =>
       row'.status \in InRound \/ (t = Starter /\ row'.status \notin Terminal)

\* That disturbs nobody.
LEMMA WorkerStep ==
  ASSUME RoundInv, NEW t \in Threads, NEW to, GoesTo(t, to)
  PROVE  Order'
<1> USE DEF GoesTo
<1>1. pc = [u \in Threads |-> pc[u]]
  BY DEF RoundInv, TypeInv, TypeOK
<1>2. \A u \in Threads : pc'[u] = IF u = t THEN to ELSE pc[u]
  BY <1>1
<1>3. t # Starter => pc[Starter] = "done" /\ pc[t] \in Working
  BY ThreadsAndDeployments DEF RoundInv, Order, ClientsWait, PlacesKnown, Working, Threads
<1>4. \A c \in Clients : t = Starter => pc[c] = "idle"
  BY ThreadsAndDeployments DEF RoundInv, Order, ClientsWait, Working
<1>5. \A u \in Threads : u # t => pc[u] \notin Working
  <2>1. CASE t = Starter
    BY <2>1, <1>4 DEF Threads, Working
  <2>2. CASE t # Starter
    BY <2>2, <1>3 DEF RoundInv, Order, OneRoundAtATime
  <2> QED
    BY <2>1, <2>2
<1>6. ClientsWait' /\ PlacesKnown'
  BY <1>2, <1>3, <1>4, ThreadsAndDeployments
  DEF ClientsWait, PlacesKnown, RoundInv, Order, Working, Threads
<1>7. ClientsInRound'
  BY <1>2, <1>4, <1>5, ThreadsAndDeployments DEF ClientsInRound, Threads, Working
<1>8. StarterOpen'
  BY <1>2, <1>3, StatusesDiffer, ThreadsAndDeployments DEF StarterOpen, Working
<1>9. OneRoundAtATime'
  BY <1>2, <1>5 DEF OneRoundAtATime
<1> QED
  BY <1>6, <1>7, <1>8, <1>9 DEF Order

\* Saving a status writes that status.
LEMMA SavedStatus ==
  ASSUME TypeInv, NEW t \in Threads, NEW status, SaveStatus(t, status)
  PROVE  row'.status = status
BY DEF SaveStatus, Save, TypeInv, TypeOK, Rows

\* A step of the round of t is one of those above.
LEMMA RoundStepIsWorkerStep ==
  ASSUME RoundInv, NEW t \in Threads, RoundStep(t),
         ~(WriteRaises(t) /\ pc[t] = "claim")
  PROVE  \E to : GoesTo(t, to)
<1> USE DEF RoundInv, GoesTo
<1>0. pc[t] \in Working => row.status \in InRound \/ (t = Starter /\ row.status \notin Terminal)
  BY DEF Order, ClientsInRound, StarterOpen, Threads
<1>1. CASE PlanRound(t)
  BY <1>0, <1>1 DEF PlanRound, Step, Working
<1>2. CASE BeginMask(t)
  BY <1>2, SavedStatus DEF BeginMask, Step, Working, InRound
<1>3. CASE MaskBuilt(t)
  BY <1>3, SavedStatus DEF MaskBuilt, Step, Working, InRound
<1>4. CASE Refined(t)
  BY <1>4, SavedStatus DEF Refined, Step, Working, InRound
<1>5. CASE Critiqued(t)
  BY <1>0, <1>5 DEF Critiqued, Step, Working
<1>6. CASE RecordRound(t)
  BY <1>0, <1>6 DEF RecordRound, Step, Working
<1>7. CASE ApplyOutcome(t)
  <2> DEFINE w == work[t]
             new == Outcome(w, loop[t].best, IF w.index = 0 THEN 0 ELSE loop[t].bestPass)
             again == t = Starter /\ GoesOn(new.status)
             to == IF again THEN "plan" ELSE IF t = Starter THEN "done" ELSE "leave"
  <2>1. pc[t] = "apply" /\ pc' = [pc EXCEPT ![t] = to] /\ row' = new
    BY <1>7 DEF ApplyOutcome, Step, Save
  <2>2. again => row'.status \notin Terminal
    BY <2>1, StatusesDiffer DEF GoesOn
  <2>3. GoesTo(t, to)
    BY <2>1, <2>2 DEF Working
  <2> QED
    BY <2>3
<1>8. CASE StepRaises(t)
  <2>1. GoesTo(t, Raised(t))
    BY <1>8 DEF StepRaises, Raised, Working
  <2> QED
    BY <2>1
<1>9. CASE PlanRaises(t)
  <2>1. GoesTo(t, Raised(t))
    BY <1>9 DEF PlanRaises, Step, Raised, Working
  <2> QED
    BY <2>1
<1>10. CASE WriteRaises(t) /\ pc[t] # "claim"
  <2>1. GoesTo(t, Raised(t))
    BY <1>10 DEF WriteRaises, Raised, Working
  <2> QED
    BY <2>1
<1> QED
  BY <1>1, <1>2, <1>3, <1>4, <1>5, <1>6, <1>7, <1>8, <1>9, <1>10 DEF RoundStep

LEMMA RoundInvInitial == Init => RoundInv
<1> SUFFICES ASSUME Init PROVE Order
  BY TypeInitial DEF RoundInv
<1> QED
  BY ThreadsAndDeployments
  DEF Init, Order, ClientsWait, ClientsInRound, StarterOpen, PlacesKnown, OneRoundAtATime, Working,
      NoRow

LEMMA RoundInvStep == RoundInv /\ [Next]_vars => RoundInv'
<1> SUFFICES ASSUME RoundInv, [Next]_vars PROVE Order'
  BY TypeStep DEF RoundInv
<1>0. pc = [t \in Threads |-> pc[t]]
  BY DEF RoundInv, TypeInv, TypeOK
<1> USE ThreadsAndDeployments
<1>1. CASE CreateLoop
  BY <1>0, <1>1, StatusesDiffer
  DEF CreateLoop, Step, Save, RoundInv, Order, ClientsWait, ClientsInRound, StarterOpen,
      PlacesKnown, OneRoundAtATime, Working, NoRow, Terminal, Threads
<1>2. CASE BaselineCritiqued
  <2>1. pc[Starter] = "baseline" /\ pc' = [pc EXCEPT ![Starter] = "record"] /\ row' = row
    BY <1>2 DEF BaselineCritiqued, Step
  <2>2. row'.status \notin Terminal
    BY <2>1 DEF RoundInv, Order, StarterOpen
  <2> QED
    BY <2>1, <2>2, WorkerStep DEF Working, GoesTo
<1>3. ASSUME NEW c \in Clients, ReadLoop(c) \/ TakeLock(c) \/ Leave(c) PROVE Order'
  <2>1. PICK to \in {"lock", "claim", "idle"} :
          /\ pc' = [pc EXCEPT ![c] = to]
          /\ pc[c] \in {"idle", "lock", "leave"}
          /\ to # "idle" => pc[Starter] = "done" \/ pc[c] # "idle"
    BY <1>3 DEF ReadLoop, TakeLock, Leave, Step
  <2>2. row' = row
    BY <1>3 DEF ReadLoop, TakeLock, Leave
  <2>3. \A t \in Threads : pc'[t] = IF t = c THEN to ELSE pc[t]
    BY <1>0, <2>1
  <2> QED
    BY <2>1, <2>2, <2>3
    DEF RoundInv, Order, ClientsWait, ClientsInRound, StarterOpen, PlacesKnown, OneRoundAtATime,
        Working, Threads
<1>4. ASSUME NEW c \in Clients, ClaimRound(c) PROVE Order'
  <2>1. pc[c] = "claim" /\ pc[Starter] = "done"
    BY <1>4 DEF ClaimRound, Step, RoundInv, Order, ClientsWait
  <2>2. CASE ~Claimable
    BY <1>0, <1>4, <2>1, <2>2
    DEF ClaimRound, Step, RoundInv, Order, ClientsWait, ClientsInRound, StarterOpen, PlacesKnown,
        OneRoundAtATime, Working, Threads
  <2>3. CASE Claimable
    <3>1. \A t \in Threads : pc[t] \notin Working
      BY <2>1, <2>3, StatusesDiffer
      DEF Claimable, RoundInv, Order, ClientsInRound, Threads, Working
    <3>2. row'.status = "building_mask"
      BY <1>4, <2>3 DEF ClaimRound, RoundInv, TypeInv, TypeOK, Rows
    <3>3. \A t \in Threads : pc'[t] = IF t = c THEN "plan" ELSE pc[t]
      BY <1>0, <1>4, <2>3 DEF ClaimRound, Step
    <3> QED
      BY <2>1, <3>1, <3>2, <3>3
      DEF RoundInv, Order, ClientsWait, ClientsInRound, StarterOpen, PlacesKnown, OneRoundAtATime,
          Working, Threads, InRound
  <2> QED
    BY <2>2, <2>3
<1>5. ASSUME NEW t \in Threads, RoundStep(t) PROVE Order'
  <2>1. CASE WriteRaises(t) /\ pc[t] = "claim"
    <3>1. t \in Clients /\ pc' = [pc EXCEPT ![t] = "leave"] /\ row' = row
      BY <2>1 DEF WriteRaises, Raised, RoundInv, Order, PlacesKnown, Threads
    <3>2. \A u \in Threads : pc'[u] = IF u = t THEN "leave" ELSE pc[u]
      BY <1>0, <3>1
    <3> QED
      BY <2>1, <3>1, <3>2
      DEF RoundInv, Order, ClientsWait, ClientsInRound, StarterOpen, PlacesKnown, OneRoundAtATime,
          Working, Threads
  <2>2. CASE ~(WriteRaises(t) /\ pc[t] = "claim")
    BY <1>5, <2>2, RoundStepIsWorkerStep, WorkerStep
  <2> QED
    BY <2>1, <2>2
<1>6. ASSUME NEW p \in Processes, Crash(p) PROVE Order'
  <2>1. \A t \in Threads : \/ pc'[t] = pc[t]
                           \/ t # Starter /\ pc'[t] = "idle"
                           \/ t = Starter /\ pc'[t] = "lost" /\ pc[t] \notin {"idle", "done"}
    BY <1>6 DEF Crash
  <2>2. row' = row
    BY <1>6 DEF Crash
  <2> QED
    BY <2>1, <2>2
    DEF RoundInv, Order, ClientsWait, ClientsInRound, StarterOpen, PlacesKnown, OneRoundAtATime,
        Working, Threads
<1>7. CASE UNCHANGED vars
  BY <1>7
  DEF vars, RoundInv, Order, ClientsWait, ClientsInRound, StarterOpen, PlacesKnown, OneRoundAtATime
<1> QED
  BY <1>1, <1>2, <1>3, <1>4, <1>5, <1>6, <1>7 DEF Next, StartStep

(***************************************************************************)
(* Rounds of one loop never overlap, for any number of clients and         *)
(* processes, whatever raised or died before.                              *)
(***************************************************************************)
THEOREM RoundsExclude == Spec => []OneRoundAtATime
<1>1. RoundInv => OneRoundAtATime
  BY DEF RoundInv, Order
<1> QED
  BY <1>1, RoundInvInitial, RoundInvStep, PTL DEF Spec

-----------------------------------------------------------------------------
\* Nobody writes a row that has ended.
LEMMA EndedRowStays ==
  RoundInv /\ [Next]_vars => (row.status \in Terminal => row' = row)
<1> SUFFICES ASSUME RoundInv, [Next]_vars, row.status \in Terminal PROVE row' = row
  OBVIOUS
<1>1. \A t \in Threads : pc[t] \notin Working \cup {"baseline"}
  BY StatusesDiffer, ThreadsAndDeployments
  DEF RoundInv, Order, ClientsInRound, StarterOpen, PlacesKnown, Threads
<1>2. pc[Starter] # "idle"
  BY StatusesDiffer DEF RoundInv, Order, StarterOpen
<1>3. CASE StartStep
  BY <1>1, <1>2, <1>3, ThreadsAndDeployments
  DEF StartStep, CreateLoop, BaselineCritiqued, Step
<1>4. ASSUME NEW c \in Clients, ReadLoop(c) \/ TakeLock(c) \/ ClaimRound(c) \/ Leave(c)
      PROVE  row' = row
  BY <1>4, StatusesDiffer DEF ReadLoop, TakeLock, ClaimRound, Claimable, Leave
<1>5. ASSUME NEW t \in Threads, RoundStep(t) PROVE row' = row
  BY <1>1, <1>5
  DEF RoundStep, PlanRound, BeginMask, MaskBuilt, Refined, Critiqued, RecordRound, ApplyOutcome,
      StepRaises, PlanRaises, WriteRaises, Step, Working
<1>6. ASSUME NEW p \in Processes, Crash(p) PROVE row' = row
  BY <1>6 DEF Crash
<1>7. CASE UNCHANGED vars
  BY <1>7 DEF vars
<1> QED
  BY <1>3, <1>4, <1>5, <1>6, <1>7 DEF Next

(***************************************************************************)
(* A loop that ended stays as it is: no stale advance() and no late save   *)
(* reopens it.                                                             *)
(***************************************************************************)
THEOREM EndsAreFinal == Spec => EndIsFinal
<1>1. RoundInv /\ [Next]_vars => [row.status \in Terminal => row' = row]_vars
  BY EndedRowStays
<1> QED
  BY <1>1, RoundInvInitial, RoundInvStep, PTL DEF Spec, EndIsFinal

-----------------------------------------------------------------------------
(***************************************************************************)
(* The best image and its count.  Whoever saves a row whose outcome is     *)
(* decided has a copy that a recorded round backs: a client has read it    *)
(* from a start request that was through, the start request has decided    *)
(* it itself.  Rounds are only ever added, so what is backed stays backed, *)
(* however old the copy is.                                                *)
(***************************************************************************)
Backs(h, r) == \E i \in 1..Len(h) : h[i].image = r.best /\ h[i].verdict.pass = r.bestPass

Decides == Awaiting \cup {"passed", "stopped_max_rounds", "stopped_unverified"}

RowBacked ==
  /\ row.status \in Decides => Backs(rounds, row)
  /\ pc[Starter] = "done" => Backs(rounds, row)

CopiesBacked ==
  /\ \A c \in Clients : pc[c] # "idle" => Backs(rounds, loop[c])
  /\ pc[Starter] \in Working =>
       \/ Backs(rounds, loop[Starter])
       \/ pc[Starter] \in {"record", "apply"} /\ work[Starter].index = 0

AppliedIsRecorded ==
  \A t \in Threads : pc[t] = "apply" => \E i \in 1..Len(rounds) : rounds[i] = work[t]

BestInv == RowBacked /\ CopiesBacked /\ AppliedIsRecorded

\* Recording a round takes none away.
LEMMA RoundsGrow ==
  ASSUME TypeInv, [Next]_vars
  PROVE  /\ Len(rounds) \in Nat
         /\ Len(rounds') \in Nat /\ Len(rounds) <= Len(rounds')
         /\ \A i \in 1..Len(rounds) : rounds'[i] = rounds[i]
<1>1. rounds' = rounds \/ \E t \in Threads : rounds' = Append(rounds, work[t])
  BY DEF Next, StartStep, CreateLoop, BaselineCritiqued, ReadLoop, TakeLock, ClaimRound, Leave,
         RoundStep, PlanRound, BeginMask, MaskBuilt, Refined, Critiqued, RecordRound, ApplyOutcome,
         StepRaises, PlanRaises, WriteRaises, Crash, vars
<1>2. rounds \in Seq(Rounds) /\ \A t \in Threads : work[t] \in Rounds
  BY DEF TypeInv, TypeOK
<1> QED
  BY <1>1, <1>2

\* What a round backs stays backed, for every row with the same image and count.
LEMMA BackingStays ==
  ASSUME TypeInv, [Next]_vars, NEW r, NEW s, Backs(rounds, r), s.best = r.best, s.bestPass = r.bestPass
  PROVE  Backs(rounds', s)
<1>1. PICK i \in 1..Len(rounds) : rounds[i].image = r.best /\ rounds[i].verdict.pass = r.bestPass
  BY DEF Backs
<1>2. i \in 1..Len(rounds') /\ rounds'[i] = rounds[i]
  BY <1>1, RoundsGrow
<1> QED
  BY <1>1, <1>2 DEF Backs

\* A save of the status alone leaves the rest of the row.
LEMMA SavedRest ==
  ASSUME TypeInv, NEW t \in Threads, NEW status, SaveStatus(t, status)
  PROVE  /\ row' = loop'[t] /\ \A u \in Threads : u # t => loop'[u] = loop[u]
         /\ loop'[t].best = loop[t].best /\ loop'[t].bestPass = loop[t].bestPass
         /\ loop'[t].round = loop[t].round /\ loop'[t].status = status
BY DEF SaveStatus, Save, TypeInv, TypeOK, Rows

\* The round whose outcome is decided backs the decision, or the copy did.
LEMMA OutcomeBacked ==
  ASSUME TypeInv, NEW t \in Threads,
         \E i \in 1..Len(rounds) : rounds[i] = work[t],
         Backs(rounds, loop[t]) \/ work[t].index = 0
  PROVE  Backs(rounds, Outcome(work[t], loop[t].best, IF work[t].index = 0 THEN 0 ELSE loop[t].bestPass))
<1> DEFINE w == work[t]
           bestPass == IF w.index = 0 THEN 0 ELSE loop[t].bestPass
           new == Outcome(w, loop[t].best, bestPass)
<1>1. w.verdict.pass \in Nat
  BY ThreadsAndDeployments DEF TypeInv, TypeOK, Rounds, Verdicts, NoVerdict
<1>2. CASE w.verdict.pass < bestPass
  <2>1. Backs(rounds, loop[t]) /\ new.best = loop[t].best /\ new.bestPass = loop[t].bestPass
    BY <1>1, <1>2 DEF Outcome
  <2> QED
    BY <2>1 DEF Backs
<1>3. CASE ~(w.verdict.pass < bestPass)
  <2>1. new.best = w.image /\ new.bestPass = w.verdict.pass
    BY <1>3 DEF Outcome
  <2> QED
    BY <2>1 DEF Backs
<1> QED
  BY <1>2, <1>3

LEMMA BestInvInitial == Init => BestInv
BY ThreadsAndDeployments
DEF Init, BestInv, RowBacked, CopiesBacked, AppliedIsRecorded, NoRow, Decides, Awaiting, Working,
    Threads

\* One thread t goes on to `to`; its copy is backed afterwards if it has to be, and
\* the row is as it was, or as the copy is.
LEMMA BestInvMove ==
  ASSUME RoundInv, BestInv, [Next]_vars, NEW t \in Threads, NEW to, pc' = [pc EXCEPT ![t] = to],
         \A u \in Threads : u # t => loop'[u] = loop[u] /\ work'[u] = work[u],
         t # Starter /\ to # "idle" => Backs(rounds', loop'[t]),
         t = Starter /\ to \in Working =>
           Backs(rounds', loop'[t]) \/ (to \in {"record", "apply"} /\ work'[t].index = 0),
         to = "apply" => (\E i \in 1..Len(rounds) : rounds[i] = work[t])',
         \/ /\ row'.best = row.best /\ row'.bestPass = row.bestPass
            /\ row'.status \in Decides => row.status \in Decides
            /\ t = Starter => to # "done"
         \/ t # Starter /\ row'.best = loop'[t].best /\ row'.bestPass = loop'[t].bestPass
                        /\ to # "idle"
         \/ t = Starter /\ to # "done" /\ row'.status \notin Decides
         \/ t = Starter /\ Backs(rounds', row')
  PROVE  BestInv'
<1> USE DEF RoundInv
<1>1. \A u \in Threads : pc'[u] = IF u = t THEN to ELSE pc[u]
  BY DEF TypeInv, TypeOK
<1>2. \A c \in Clients : t = Starter => pc[c] = "idle" \/ pc[Starter] = "done"
  BY DEF Order, ClientsWait
<1>3. RowBacked'
  BY <1>1, BackingStays, ThreadsAndDeployments DEF BestInv, RowBacked, Backs
<1>4. CopiesBacked'
  BY <1>1, BackingStays, ThreadsAndDeployments DEF BestInv, CopiesBacked, Threads
<1>5. AppliedIsRecorded'
  BY <1>1, RoundsGrow DEF BestInv, AppliedIsRecorded
<1> QED
  BY <1>3, <1>4, <1>5 DEF BestInv

LEMMA BestInvRoundStep ==
  ASSUME RoundInv, BestInv, [Next]_vars, NEW t \in Threads, RoundStep(t)
  PROVE  BestInv'
<1> USE DEF RoundInv
<1>0. /\ pc[t] \in Working => Backs(rounds, loop[t])
                              \/ (t = Starter /\ pc[t] \in {"record", "apply"} /\ work[t].index = 0)
      /\ t # Starter /\ pc[t] # "idle" => Backs(rounds, loop[t])
      /\ t = Starter => pc[t] # "claim"
  BY DEF BestInv, CopiesBacked, Threads, Working, Order, PlacesKnown
<1>1. CASE PlanRound(t)
  <2>1. pc' = [pc EXCEPT ![t] = "mask"] /\ row' = row /\ loop' = loop /\ pc[t] = "plan"
        /\ \A u \in Threads : u # t => work'[u] = work[u]
    BY <1>1 DEF PlanRound, Step, TypeInv, TypeOK
  <2>2. Backs(rounds', loop'[t])
    BY <1>0, <2>1, BackingStays DEF Working
  <2> QED
    BY <2>1, <2>2, BestInvMove
<1>2. ASSUME NEW to, NEW status, SaveStatus(t, status), pc' = [pc EXCEPT ![t] = to],
             \A u \in Threads : u # t => work'[u] = work[u], pc[t] # "idle",
             pc[t] \in Working \/ t = Starter, pc[t] \notin {"record", "apply"},
             to \notin {"idle", "apply", "done", "record"}, status \notin Decides,
             to \in Working => pc[t] \in Working
      PROVE  BestInv'
  <2>1. row' = loop'[t] /\ (\A u \in Threads : u # t => loop'[u] = loop[u])
        /\ row'.status \notin Decides
        /\ loop'[t].best = loop[t].best /\ loop'[t].bestPass = loop[t].bestPass
    BY <1>2, SavedRest
  <2>2. pc[t] \in Working \/ t # Starter => Backs(rounds', loop'[t])
    <3> SUFFICES ASSUME pc[t] \in Working \/ t # Starter PROVE Backs(rounds', loop'[t])
      OBVIOUS
    <3>1. Backs(rounds, loop[t])
      BY <1>0, <1>2
    <3> QED
      BY <2>1, <3>1, BackingStays
  <2> QED
    BY <1>2, <2>1, <2>2, BestInvMove
<1>3. CASE BeginMask(t)
  BY <1>2, <1>3 DEF BeginMask, Step, Working, Decides, Awaiting
<1>4. CASE MaskBuilt(t)
  BY <1>2, <1>4 DEF MaskBuilt, Step, Working, Decides, Awaiting
<1>5. CASE Refined(t)
  BY <1>2, <1>5 DEF Refined, Step, Working, Decides, Awaiting, TypeInv, TypeOK
<1>6. CASE StepRaises(t)
  BY <1>2, <1>6 DEF StepRaises, Raised, Working, Decides, Awaiting, Threads, Order, PlacesKnown
<1>7. ASSUME NEW to, pc' = [pc EXCEPT ![t] = to], row' = row, loop' = loop,
             \A u \in Threads : u # t => work'[u] = work[u],
             pc[t] \in Working, to \notin {"idle", "done"},
             to \in Working => work'[t].index = work[t].index,
             to \in Working => pc[t] \notin {"record", "apply"} \/ to \in {"record", "apply"},
             to = "apply" => (\E i \in 1..Len(rounds) : rounds[i] = work[t])'
      PROVE  BestInv'
  <2>1. Backs(rounds, loop[t]) => Backs(rounds', loop'[t])
    BY <1>7, BackingStays
  <2> QED
    BY <1>0, <1>7, <2>1, BestInvMove
<1>8. CASE Critiqued(t)
  <2>1. /\ pc[t] = "critiquing" /\ pc' = [pc EXCEPT ![t] = "record"]
        /\ row' = row /\ loop' = loop
        /\ \A u \in Threads : u # t => work'[u] = work[u]
    BY <1>8 DEF Critiqued, Step, TypeInv, TypeOK
  <2>2. work'[t].index = work[t].index
    BY <1>8 DEF Critiqued, TypeInv, TypeOK, Rounds
  <2>3. pc[t] \in Working
    BY <2>1 DEF Working
  <2>4. /\ "record" \notin {"idle", "done"} /\ "record" # "apply"
        /\ pc[t] \notin {"record", "apply"}
    BY <2>1
  <2> QED
    BY <1>7, <2>1, <2>2, <2>3, <2>4, Zenon
<1>9. CASE RecordRound(t)
  <2>1. rounds' = Append(rounds, work[t]) /\ work' = work
    BY <1>9 DEF RecordRound
  <2>2. Len(rounds) + 1 \in 1..Len(rounds') /\ rounds'[Len(rounds) + 1] = work[t]
    BY <2>1 DEF TypeInv, TypeOK
  <2>3. /\ pc[t] = "record" /\ pc' = [pc EXCEPT ![t] = "apply"]
        /\ row' = row /\ loop' = loop
    BY <1>9 DEF RecordRound, Step
  <2>4. (\E i \in 1..Len(rounds) : rounds[i] = work[t])'
    BY <2>1, <2>2
  <2>5. /\ pc[t] \in Working /\ work'[t].index = work[t].index
        /\ "apply" \notin {"idle", "done"} /\ "apply" \in {"record", "apply"}
    BY <2>1, <2>3 DEF Working
  <2> QED
    BY <1>7, <2>1, <2>3, <2>4, <2>5, Zenon
<1>10. CASE PlanRaises(t)
  <2>1. /\ pc[t] = "plan" /\ pc' = [pc EXCEPT ![t] = Raised(t)]
        /\ row' = row /\ loop' = loop /\ work' = work
        /\ Raised(t) \notin Working \cup {"idle", "done", "apply"}
    BY <1>10 DEF PlanRaises, Step, Raised, Working
  <2> QED
    BY <1>7, <2>1 DEF Working
<1>11. CASE WriteRaises(t)
  <2>1. /\ pc' = [pc EXCEPT ![t] = Raised(t)] /\ row' = row /\ loop' = loop /\ work' = work
        /\ pc[t] # "idle" /\ Raised(t) \notin Working \cup {"idle", "done"}
    BY <1>11 DEF WriteRaises, Raised, Working
  <2>2. t # Starter => Backs(rounds', loop'[t])
    BY <1>0, <2>1, BackingStays
  <2> QED
    BY <2>1, <2>2, BestInvMove DEF Working
<1>12. CASE ApplyOutcome(t)
  <2> DEFINE new == Outcome(work[t], loop[t].best,
                            IF work[t].index = 0 THEN 0 ELSE loop[t].bestPass)
             to == IF t = Starter /\ GoesOn(new.status) THEN "plan"
                   ELSE IF t = Starter THEN "done" ELSE "leave"
  <2>1. /\ pc[t] = "apply" /\ pc' = [pc EXCEPT ![t] = to]
        /\ row' = new /\ loop' = [loop EXCEPT ![t] = new]
        /\ work' = [work EXCEPT ![t] = NoWork]
    BY <1>12 DEF ApplyOutcome, Step, Save
  <2>2. \E i \in 1..Len(rounds) : rounds[i] = work[t]
    BY <2>1 DEF BestInv, AppliedIsRecorded
  <2>3. Backs(rounds, new)
    BY <1>0, <2>1, <2>2, OutcomeBacked DEF Working
  <2>4. Backs(rounds', new)
    BY <2>3, BackingStays
  <2>5. loop'[t] = new /\ \A u \in Threads : u # t => loop'[u] = loop[u] /\ work'[u] = work[u]
    BY <2>1 DEF TypeInv, TypeOK
  <2>6. to \in {"plan", "done", "leave"} /\ (t # Starter => to = "leave")
    OBVIOUS
  <2> HIDE DEF new, to
  <2>7. Backs(rounds', loop'[t]) /\ Backs(rounds', row')
    BY <2>1, <2>4, <2>5
  <2> QED
    BY <2>1, <2>5, <2>6, <2>7, BestInvMove
<1> QED
  BY <1>1, <1>3, <1>4, <1>5, <1>6, <1>8, <1>9, <1>10, <1>11, <1>12 DEF RoundStep

LEMMA BestInvStep == RoundInv /\ BestInv /\ [Next]_vars => BestInv'
<1> SUFFICES ASSUME RoundInv, BestInv, [Next]_vars PROVE BestInv'
  OBVIOUS
<1> USE ThreadsAndDeployments DEF RoundInv
<1>1. CASE CreateLoop
  <2>1. /\ pc' = [pc EXCEPT ![Starter] = "baseline"] /\ work' = work
        /\ \A u \in Threads : u # Starter => loop'[u] = loop[u]
        /\ row'.status = "pending_critique"
    BY <1>1 DEF CreateLoop, Step, Save, NoRow, TypeInv, TypeOK
  <2> QED
    BY <2>1, BestInvMove DEF Working, Decides, Awaiting
<1>2. CASE BaselineCritiqued
  <2>1. /\ pc' = [pc EXCEPT ![Starter] = "record"] /\ row' = row /\ loop' = loop
        /\ work'[Starter].index = 0 /\ \A u \in Threads : u # Starter => work'[u] = work[u]
    BY <1>2 DEF BaselineCritiqued, Step, NoWork, TypeInv, TypeOK
  <2> QED
    BY <2>1, BestInvMove
<1>3. ASSUME NEW c \in Clients, ReadLoop(c) PROVE BestInv'
  <2>1. /\ pc' = [pc EXCEPT ![c] = "lock"] /\ row' = row /\ work' = work /\ pc[Starter] = "done"
        /\ loop'[c] = row /\ \A u \in Threads : u # c => loop'[u] = loop[u]
    BY <1>3 DEF ReadLoop, Step, TypeInv, TypeOK
  <2>2. Backs(rounds', row')
    BY <2>1, BackingStays DEF BestInv, RowBacked
  <2>3. Backs(rounds', loop'[c])
    BY <2>1, <2>2 DEF Backs
  <2> QED
    BY <2>1, <2>3, BestInvMove
<1>4. ASSUME NEW c \in Clients, TakeLock(c) PROVE BestInv'
  <2>1. PICK to \in {"claim", "idle"} :
          pc' = [pc EXCEPT ![c] = to] /\ row' = row /\ work' = work /\ loop' = loop /\ pc[c] = "lock"
    BY <1>4 DEF TakeLock, Step
  <2>2. Backs(rounds', loop'[c])
    BY <2>1, BackingStays DEF BestInv, CopiesBacked
  <2> QED
    BY <2>1, <2>2, BestInvMove
<1>5. ASSUME NEW c \in Clients, ClaimRound(c) PROVE BestInv'
  <2>1. PICK to \in {"plan", "leave"} :
          /\ pc' = [pc EXCEPT ![c] = to] /\ work' = work /\ loop' = loop /\ pc[c] = "claim"
          /\ row'.best = row.best /\ row'.bestPass = row.bestPass
          /\ row'.status \in Decides => row.status \in Decides
    BY <1>5 DEF ClaimRound, Step, Decides, Awaiting, TypeInv, TypeOK, Rows
  <2>2. Backs(rounds', loop'[c])
    BY <2>1, BackingStays DEF BestInv, CopiesBacked
  <2> QED
    BY <2>1, <2>2, BestInvMove
<1>6. ASSUME NEW c \in Clients, Leave(c) PROVE BestInv'
  <2>1. /\ pc' = [pc EXCEPT ![c] = "idle"] /\ row' = row
        /\ \A u \in Threads : u # c => loop'[u] = loop[u] /\ work'[u] = work[u]
    BY <1>6 DEF Leave, Step, TypeInv, TypeOK
  <2> QED
    BY <2>1, BestInvMove
<1>7. ASSUME NEW t \in Threads, RoundStep(t) PROVE BestInv'
  BY <1>7, BestInvRoundStep
<1>8. ASSUME NEW p \in Processes, Crash(p) PROVE BestInv'
  <2>1. /\ row' = row /\ rounds' = rounds
        /\ \A t \in Threads : \/ pc'[t] = pc[t] /\ loop'[t] = loop[t] /\ work'[t] = work[t]
                              \/ pc'[t] \in {"idle", "lost"} /\ (t # Starter => pc'[t] = "idle")
                              \/ t = Starter /\ pc'[t] = pc[t] /\ pc[t] = "done"
    BY <1>8 DEF Crash
  <2>2. RowBacked'
    BY <2>1 DEF BestInv, RowBacked, Backs
  <2>3. CopiesBacked'
    BY <2>1 DEF BestInv, CopiesBacked, Backs, Working, Threads
  <2>4. AppliedIsRecorded'
    BY <2>1 DEF BestInv, AppliedIsRecorded
  <2> QED
    BY <2>2, <2>3, <2>4 DEF BestInv
<1>9. CASE UNCHANGED vars
  BY <1>9 DEF vars, BestInv, RowBacked, CopiesBacked, AppliedIsRecorded, Backs
<1> QED
  BY <1>1, <1>2, <1>3, <1>4, <1>5, <1>6, <1>7, <1>8, <1>9 DEF Next, StartStep

(***************************************************************************)
(* In spite of stale copies, failing writes and crashes, best_asset_id and *)
(* best_pass_count belong to one recorded round whenever an outcome has    *)
(* been decided.                                                           *)
(***************************************************************************)
THEOREM BestIsRecorded == Spec => []BestMatchesItsRound
<1>1. BestInv => BestMatchesItsRound
  BY DEF BestInv, RowBacked, Backs, Decides, BestMatchesItsRound
<1>2. Init => BestInv
  BY BestInvInitial
<1> QED
  BY <1>1, <1>2, BestInvStep, RoundInvInitial, RoundInvStep, PTL DEF Spec

-----------------------------------------------------------------------------
(***************************************************************************)
(* The refinement of BestSoFar.  Until a failure goes unrecorded or a      *)
(* round is claimed with an old copy of the row, everything is known of    *)
(* the one round under way: rounds and images are numbered as they were    *)
(* made, the copy of the row is the row but for its status, and the best   *)
(* image is the one an observer of the rounds would name.                  *)
(***************************************************************************)
InBaseline == pc[Starter] \in {"baseline", "record", "apply"} /\ work[Starter].index = 0
InRefinement(t) == pc[t] \in Working /\ ~(t = Starter /\ InBaseline)
Undecided == {"absent", "pending_critique"}

Numbered == \A i \in 1..Len(rounds) : rounds[i].index = i - 1 /\ rounds[i].image = i - 1

BaselineKnown ==
  /\ pc[Starter] \in {"idle", "baseline"} =>
       rounds = <<>> /\ images = 0 /\ work[Starter] = NoWork
  /\ InBaseline => /\ row.status = "pending_critique" /\ images = 0
                   /\ work[Starter].image = 0 /\ work[Starter].parent = 0
                   /\ rounds = IF pc[Starter] = "apply" THEN <<work[Starter]>> ELSE <<>>

BestKnown ==
  row.status \notin Undecided /\ rounds # <<>> =>
    /\ row.best <= row.round /\ row.round < Len(rounds)
    /\ rounds[row.best + 1].verdict.pass = row.bestPass
    /\ \A j \in 1..row.round + 1 : /\ rounds[j].verdict.pass <= row.bestPass
                                   /\ j > row.best + 1 => rounds[j].verdict.pass < row.bestPass

\* A row between two rounds: it has not regressed, or it says so.
Between(r) == r.status \in Awaiting /\ (r.status = "awaiting_user" => r.best = r.round)

RowSettled ==
  row.status \in Awaiting => Between(row) /\ Len(rounds) = row.round + 1 /\ images = row.round

Imaged == {"critiquing", "record", "apply"}

Held(t) ==
  /\ row.status \notin Undecided
  /\ loop[t].round = row.round /\ loop[t].best = row.best /\ loop[t].bestPass = row.bestPass
  /\ Len(rounds) = IF pc[t] = "apply" THEN row.round + 2 ELSE row.round + 1
  /\ images = IF pc[t] \in Imaged THEN row.round + 1 ELSE row.round
  /\ pc[t] = "plan" => Between(loop[t])
  /\ pc[t] # "plan" => work[t].index = row.round + 1 /\ work[t].parent = row.best
  /\ pc[t] \in Imaged => work[t].image = images
  /\ pc[t] = "apply" => rounds[Len(rounds)] = work[t]

HeldKnown == \A t \in Threads : InRefinement(t) => Held(t)

Judged == \A t \in Threads : pc[t] \in {"record", "apply"} => work[t].verdict \in Verdicts

Tidy == Numbered /\ BaselineKnown /\ BestKnown /\ RowSettled /\ HeldKnown /\ Judged

TidyInv == broken \/ stale \/ Tidy

\* What went unrecorded, or was claimed with an old copy, is not forgotten.
LEMMA FlagsStay ==
  ASSUME TypeOK, [Next]_vars
  PROVE  (broken => broken') /\ (stale => stale')
<1>1. broken' = broken \/ broken' = TRUE
  BY DEF Next, StartStep, CreateLoop, BaselineCritiqued, ReadLoop, TakeLock, ClaimRound, Leave,
         RoundStep, PlanRound, BeginMask, MaskBuilt, Refined, Critiqued, RecordRound, ApplyOutcome,
         StepRaises, PlanRaises, WriteRaises, Crash, vars, historyVars
<1>2. stale' = stale \/ \E c \in Clients : stale' = (stale \/ (Claimable /\ loop[c] # row))
  BY DEF Next, StartStep, CreateLoop, BaselineCritiqued, ReadLoop, TakeLock, ClaimRound, Leave,
         RoundStep, PlanRound, BeginMask, MaskBuilt, Refined, Critiqued, RecordRound, ApplyOutcome,
         StepRaises, PlanRaises, WriteRaises, Crash, vars, historyVars
<1>3. broken => broken'
  BY <1>1
<1>4. ASSUME stale = TRUE PROVE stale' = TRUE
  BY <1>2, <1>4
<1>5. stale \in BOOLEAN
  BY DEF TypeOK
<1> QED
  BY <1>3, <1>4, <1>5

\* A thread that works works alone.
LEMMA WorksAlone ==
  ASSUME RoundInv, NEW t \in Threads, pc[t] \in Working \cup {"baseline"}
  PROVE  /\ \A u \in Threads : u # t => pc[u] \notin Working \cup {"baseline"}
         /\ t # Starter => pc[Starter] = "done"
<1>1. CASE t = Starter
  <2>1. \A c \in Clients : pc[c] = "idle"
    BY <1>1 DEF RoundInv, Order, ClientsWait, Working
  <2> QED
    BY <1>1, <2>1 DEF Threads, Working
<1>2. CASE t # Starter
  <2>1. pc[t] \in Working /\ pc[Starter] = "done"
    BY <1>2, ThreadsAndDeployments DEF RoundInv, Order, PlacesKnown, ClientsWait, Threads, Working
  <2> QED
    BY <1>2, <2>1 DEF RoundInv, Order, OneRoundAtATime, PlacesKnown, Threads, Working
<1> QED
  BY <1>1, <1>2

LEMMA TidyInitial == Init => Tidy
<1> SUFFICES ASSUME Init PROVE Tidy
  OBVIOUS
<1>1. rounds = <<>> /\ Len(rounds) = 0 /\ row = NoRow /\ images = 0
      /\ \A t \in Threads : pc[t] = "idle" /\ work[t] = NoWork
  BY DEF Init
<1>2. Numbered /\ BaselineKnown /\ BestKnown
  BY <1>1, ThreadsAndDeployments DEF Numbered, BaselineKnown, BestKnown, InBaseline
<1>3. RowSettled /\ HeldKnown /\ Judged
  BY <1>1, StatusesDiffer DEF RowSettled, HeldKnown, Judged, InRefinement, Working, NoRow
<1> QED
  BY <1>2, <1>3 DEF Tidy

\* A step outside the rounds: nobody enters one, and those who are inside keep theirs.
LEMMA TidyAside ==
  ASSUME RoundInv, Tidy, NEW c \in Clients, NEW to,
         pc' = [pc EXCEPT ![c] = to], pc[c] \notin Working, to \notin Working,
         \A u \in Threads : u # c => loop'[u] = loop[u] /\ work'[u] = work[u],
         row' = row, rounds' = rounds, images' = images
  PROVE  Tidy'
<1>1. \A u \in Threads : pc'[u] = IF u = c THEN to ELSE pc[u]
  BY DEF RoundInv, TypeInv, TypeOK
<1>2. InBaseline' = InBaseline
  BY <1>1, ThreadsAndDeployments DEF InBaseline
<1>3. \A u \in Threads : InRefinement(u)' => u # c /\ InRefinement(u)
  BY <1>1, <1>2 DEF InRefinement
<1>4. HeldKnown'
  BY <1>1, <1>3 DEF Tidy, HeldKnown, Held, Between
<1>5. BaselineKnown'
  BY <1>1, <1>2, ThreadsAndDeployments DEF Tidy, BaselineKnown
<1>6. Judged'
  BY <1>1 DEF Tidy, Judged, Working
<1>7. Numbered' /\ BestKnown' /\ RowSettled'
  BY DEF Tidy, Numbered, BestKnown, RowSettled, Between
<1> QED
  BY <1>4, <1>5, <1>6, <1>7 DEF Tidy

\* A step of the refinement round of t: of the others nothing is asked.
LEMMA TidyWork ==
  ASSUME RoundInv, Tidy, NEW t \in Threads, NEW to,
         InRefinement(t), pc' = [pc EXCEPT ![t] = to], to \notin {"idle", "baseline"},
         \A u \in Threads : u # t => work'[u] = work[u],
         t = Starter => to \in Working \ {"record", "apply"} \/ work'[t].index # 0 \/ to \notin Working,
         Numbered', BestKnown', RowSettled',
         to \in Working => Held(t)',
         to \in {"record", "apply"} => work'[t].verdict \in Verdicts
  PROVE  Tidy'
<1>1. \A u \in Threads : pc'[u] = IF u = t THEN to ELSE pc[u]
  BY DEF RoundInv, TypeInv, TypeOK
<1>2. /\ \A u \in Threads : u # t => pc[u] \notin Working \cup {"baseline"}
      /\ t # Starter => pc[Starter] = "done"
  BY WorksAlone DEF InRefinement
<1>3. ~InBaseline' /\ pc'[Starter] \notin {"idle", "baseline"}
  BY <1>1, <1>2, ThreadsAndDeployments DEF InBaseline, Working
<1>4. BaselineKnown'
  BY <1>3 DEF BaselineKnown
<1>5. HeldKnown'
  BY <1>1, <1>2 DEF HeldKnown, InRefinement
<1>6. Judged'
  BY <1>1, <1>2 DEF Judged, Working
<1> QED
  BY <1>4, <1>5, <1>6 DEF Tidy

\* Saving a status that is neither open nor undecided disturbs nothing but the status.
LEMMA TidySave ==
  ASSUME RoundInv, Tidy, NEW t \in Threads, NEW status, SaveStatus(t, status),
         InRefinement(t), rounds' = rounds, status \notin Awaiting \cup Undecided
  PROVE  /\ Numbered' /\ BestKnown' /\ RowSettled'
         /\ row' = loop'[t] /\ row'.status = status
         /\ row'.round = row.round /\ row'.best = row.best /\ row'.bestPass = row.bestPass
<1>1. /\ row' = loop'[t] /\ row'.status = status
      /\ loop'[t].round = loop[t].round /\ loop'[t].best = loop[t].best
      /\ loop'[t].bestPass = loop[t].bestPass
  BY SavedRest DEF RoundInv
<1>2. /\ row.status \notin Undecided
      /\ loop[t].round = row.round /\ loop[t].best = row.best /\ loop[t].bestPass = row.bestPass
  BY DEF Tidy, HeldKnown, Held
<1>3. Numbered' /\ RowSettled'
  BY <1>1 DEF Tidy, Numbered, RowSettled
<1>4. BestKnown'
  BY <1>1, <1>2 DEF Tidy, BestKnown
<1> QED
  BY <1>1, <1>2, <1>3, <1>4

\* What a claim or a plan finds below the row: the round is numbered and typed.
LEMMA RoundKnown ==
  ASSUME TypeInv
  PROVE  /\ row.round \in Nat /\ row.best \in Nat /\ row.bestPass \in Nat /\ images \in Nat
         /\ Len(rounds) \in Nat
         /\ \A i \in 1..Len(rounds) : rounds[i] \in Rounds /\ rounds[i].verdict.pass \in Nat
         /\ \A t \in Threads : work[t] \in Rounds /\ work[t].verdict.pass \in Nat
                               /\ work[t].index \in Nat /\ work[t].image \in Nat
<1>1. \A w \in Rounds : w.verdict.pass \in Nat /\ w.index \in Nat /\ w.image \in Nat
  BY ThreadsAndDeployments DEF Rounds, Verdicts, NoVerdict
<1>2. row \in Rows /\ rounds \in Seq(Rounds) /\ images \in Nat /\ work \in [Threads -> Rounds]
  BY DEF TypeInv, TypeOK
<1>3. row.round \in Nat /\ row.best \in Nat /\ row.bestPass \in Nat
  BY <1>2, ThreadsAndDeployments DEF Rows
<1> QED
  BY <1>1, <1>2, <1>3

\* plan_round() starts from the best image so far: after a regression from the round
\* that has it, otherwise from the last round, which has it then.
LEMMA PlanStartsFromBest ==
  ASSUME RoundInv, Tidy, NEW t \in Threads, InRefinement(t), pc[t] = "plan",
         NEW r \in SourceRounds(t)
  PROVE  rounds[r].image = row.best
<1> USE DEF RoundInv
<1>1. Held(t) /\ Len(rounds) = row.round + 1 /\ Between(loop[t])
  BY DEF Tidy, HeldKnown, Held
<1>2. CASE loop[t].status = "stopped_regression_recovered"
  BY <1>1, <1>2 DEF SourceRounds, Held
<1>3. CASE loop[t].status # "stopped_regression_recovered"
  <2>1. loop[t].status = "awaiting_user" /\ row.best = row.round
    BY <1>1, <1>3 DEF Between, Awaiting, Held
  <2>2. r \in 1..Len(rounds) /\ \A s \in 1..Len(rounds) : rounds[s].index <= rounds[r].index
    BY <1>3 DEF SourceRounds, LatestRounds
  <2>3. r = Len(rounds)
    <3>1. Len(rounds) \in Nat /\ Len(rounds) \in 1..Len(rounds)
      BY <1>1, RoundKnown
    <3>2. \A s \in 1..Len(rounds) : rounds[s].index = s - 1
      BY DEF Tidy, Numbered
    <3>3. rounds[Len(rounds)].index = Len(rounds) - 1 /\ rounds[r].index = r - 1
      BY <2>2, <3>1, <3>2
    <3>4. rounds[Len(rounds)].index <= rounds[r].index
      BY <2>2, <3>1
    <3> QED
      BY ONLY <2>2, <3>1, <3>3, <3>4
  <2> QED
    BY <1>1, <2>1, <2>3, RoundKnown DEF Tidy, Numbered
<1> QED
  BY <1>2, <1>3

LEMMA TidyPlan ==
  ASSUME RoundInv, Tidy, NEW t \in Threads, InRefinement(t), PlanRound(t)
  PROVE  Tidy'
<1> USE DEF RoundInv
<1>1. PICK r \in SourceRounds(t) :
        work' = [work EXCEPT ![t] = [NoWork EXCEPT !.index = loop[t].round + 1,
                                                  !.parent = rounds[r].image]]
  BY DEF PlanRound
<1>2. /\ pc[t] = "plan" /\ pc' = [pc EXCEPT ![t] = "mask"] /\ pc'[t] = "mask"
      /\ row' = row /\ rounds' = rounds /\ images' = images /\ loop' = loop
      /\ \A u \in Threads : u # t => work'[u] = work[u]
  BY DEF PlanRound, Step, TypeInv, TypeOK
<1>3. rounds[r].image = row.best /\ Held(t)
  BY <1>1, <1>2, PlanStartsFromBest DEF Tidy, HeldKnown
<1>4. work'[t].index = loop[t].round + 1 /\ work'[t].parent = rounds[r].image
  BY <1>1 DEF NoWork, TypeInv, TypeOK
<1>5. Held(t)' /\ work'[t].index # 0
  BY <1>2, <1>3, <1>4, RoundKnown DEF Held, Imaged
<1>6. Numbered' /\ BestKnown' /\ RowSettled'
  BY <1>2 DEF Tidy, Numbered, BestKnown, RowSettled, Between
<1> QED
  BY <1>2, <1>5, <1>6, TidyWork

\* The steps that save a status on the way.
LEMMA TidySteps ==
  ASSUME RoundInv, Tidy, NEW t \in Threads, InRefinement(t),
         BeginMask(t) \/ MaskBuilt(t) \/ Refined(t)
  PROVE  Tidy'
<1> USE DEF RoundInv
<1>0. Held(t) /\ pc[t] \in Working
  BY DEF Tidy, HeldKnown, InRefinement
<1>1. ASSUME BeginMask(t) \/ MaskBuilt(t) PROVE Tidy'
  <2>1. PICK to \in {"building", "refining"}, status \in {"building_mask", "refining"} :
          /\ pc' = [pc EXCEPT ![t] = to] /\ pc'[t] = to /\ pc[t] \in {"mask", "building"}
          /\ SaveStatus(t, status) /\ rounds' = rounds /\ images' = images /\ work' = work
    BY <1>1 DEF BeginMask, MaskBuilt, Step, TypeInv, TypeOK
  <2>2. status \notin Awaiting \cup Undecided
    BY DEF Awaiting, Undecided
  <2>3. /\ Numbered' /\ BestKnown' /\ RowSettled' /\ row' = loop'[t] /\ row'.status = status
        /\ row'.round = row.round /\ row'.best = row.best /\ row'.bestPass = row.bestPass
    BY <2>1, <2>2, TidySave
  <2>4. Held(t)' /\ work'[t].index # 0
    BY <1>0, <2>1, <2>2, <2>3, RoundKnown DEF Held, Imaged
  <2>5. to \in Working \ {"record", "apply"}
    BY <2>1 DEF Working
  <2> QED
    BY <2>1, <2>3, <2>4, <2>5, TidyWork
<1>2. CASE Refined(t)
  <2>1. /\ pc' = [pc EXCEPT ![t] = "critiquing"] /\ pc'[t] = "critiquing" /\ pc[t] = "refining"
        /\ SaveStatus(t, "critiquing") /\ rounds' = rounds /\ images' = images + 1
        /\ \A u \in Threads : u # t => work'[u] = work[u]
    BY <1>2 DEF Refined, Step, TypeInv, TypeOK
  <2>2. work'[t].image = images + 1 /\ work'[t].index = work[t].index
        /\ work'[t].parent = work[t].parent
    BY <1>2 DEF Refined, TypeInv, TypeOK, Rounds
  <2>3. "critiquing" \notin Awaiting \cup Undecided
    BY DEF Awaiting, Undecided
  <2>4. /\ Numbered' /\ BestKnown' /\ RowSettled' /\ row' = loop'[t] /\ row'.status = "critiquing"
        /\ row'.round = row.round /\ row'.best = row.best /\ row'.bestPass = row.bestPass
    BY <2>1, <2>3, TidySave
  <2>5. Held(t)' /\ work'[t].index # 0
    BY <1>0, <2>1, <2>2, <2>3, <2>4, RoundKnown DEF Held, Imaged
  <2> QED
    BY <2>1, <2>4, <2>5, TidyWork DEF Working
<1> QED
  BY <1>1, <1>2

LEMMA TidyCritique ==
  ASSUME RoundInv, Tidy, NEW t \in Threads, InRefinement(t), Critiqued(t)
  PROVE  Tidy'
<1> USE DEF RoundInv
<1>1. /\ pc[t] = "critiquing" /\ pc' = [pc EXCEPT ![t] = "record"] /\ pc'[t] = "record"
      /\ row' = row /\ rounds' = rounds /\ images' = images /\ loop' = loop
      /\ \A u \in Threads : u # t => work'[u] = work[u]
  BY DEF Critiqued, Step, TypeInv, TypeOK
<1>2. /\ work'[t].verdict \in Verdicts /\ work'[t].image = work[t].image
      /\ work'[t].index = work[t].index /\ work'[t].parent = work[t].parent
  BY DEF Critiqued, TypeInv, TypeOK, Rounds
<1>3. Held(t)
  BY DEF Tidy, HeldKnown
<1>4. Held(t)' /\ work'[t].index # 0
  BY <1>1, <1>2, <1>3, RoundKnown DEF Held, Imaged
<1>5. Numbered' /\ BestKnown' /\ RowSettled'
  BY <1>1 DEF Tidy, Numbered, BestKnown, RowSettled, Between
<1> QED
  BY <1>1, <1>2, <1>4, <1>5, TidyWork

LEMMA TidyRecord ==
  ASSUME RoundInv, Tidy, NEW t \in Threads, InRefinement(t), RecordRound(t)
  PROVE  Tidy'
<1> USE DEF RoundInv
<1>1. /\ pc[t] = "record" /\ pc' = [pc EXCEPT ![t] = "apply"] /\ pc'[t] = "apply"
      /\ row' = row /\ rounds' = Append(rounds, work[t]) /\ images' = images /\ loop' = loop
      /\ work' = work
  BY DEF RecordRound, Step, TypeInv, TypeOK
<1>2. Held(t) /\ row.status \notin Awaiting
  <2>1. Held(t) /\ (row.status \in Awaiting => images = row.round)
    BY DEF Tidy, HeldKnown, RowSettled
  <2> QED
    BY <1>1, <2>1, RoundKnown DEF Held, Imaged
<1>3. /\ Len(rounds') = Len(rounds) + 1 /\ rounds'[Len(rounds) + 1] = work[t]
      /\ \A i \in 1..Len(rounds) : rounds'[i] = rounds[i]
  BY <1>1 DEF TypeInv, TypeOK
<1>4. Held(t)' /\ work'[t].index # 0 /\ work'[t].verdict \in Verdicts
  BY <1>1, <1>2, <1>3, RoundKnown DEF Held, Imaged, Tidy, Judged
<1>5. Numbered'
  BY <1>1, <1>2, <1>3, RoundKnown DEF Tidy, Numbered, Held, Imaged
<1>6. BestKnown'
  <2>1. rounds # <<>>
    BY <1>1, <1>2, RoundKnown DEF Held
  <2> QED
    BY <1>1, <1>3, <2>1, RoundKnown DEF Tidy, BestKnown
<1>7. RowSettled'
  BY <1>1, <1>2 DEF RowSettled
<1> QED
  BY <1>1, <1>4, <1>5, <1>6, <1>7, TidyWork

\* The decision after a round: the best image is kept or replaced by the last one.
LEMMA DecisionKnown ==
  ASSUME RoundInv, Tidy, NEW t \in Threads, ApplyOutcome(t)
  PROVE  /\ Numbered' /\ BestKnown' /\ RowSettled' /\ row'.status \notin Undecided
         /\ rounds' = rounds /\ images' = images /\ loop'[t] = row'
         /\ row'.round = work[t].index /\ Len(rounds) = row'.round + 1
         /\ rounds[Len(rounds)] = work[t]
         /\ row'.status = "awaiting_user" => row'.best = row'.round
         /\ images = row'.round
<1> USE DEF RoundInv
<1> DEFINE w == work[t]
           bestPass == IF w.index = 0 THEN 0 ELSE loop[t].bestPass
           new == Outcome(w, loop[t].best, bestPass)
<1>1. /\ pc[t] = "apply" /\ row' = new /\ loop'[t] = new
      /\ rounds' = rounds /\ images' = images
  BY DEF ApplyOutcome, Step, Save, TypeInv, TypeOK
<1>2. /\ new.round = w.index
      /\ new.best = IF w.verdict.pass < bestPass THEN loop[t].best ELSE w.image
      /\ new.bestPass = IF w.verdict.pass < bestPass THEN bestPass ELSE w.verdict.pass
      /\ new.status \notin Undecided
      /\ new.status = "awaiting_user" => ~(w.verdict.pass < bestPass)
  BY DEF Outcome, NextStatus, Undecided
<1> HIDE DEF new
<1>3. CASE t = Starter /\ InBaseline
  <2>1. /\ rounds = <<w>> /\ w.index = 0 /\ w.image = 0 /\ images = 0 /\ bestPass = 0
        /\ Len(rounds) = 1 /\ rounds[1] = w
    BY <1>1, <1>3 DEF Tidy, BaselineKnown, InBaseline
  <2>2. new.best = 0 /\ new.bestPass = w.verdict.pass /\ new.round = 0
    BY <1>2, <2>1, RoundKnown
  <2>3. BestKnown'
    BY <1>1, <2>1, <2>2, RoundKnown DEF BestKnown
  <2>4. RowSettled'
    BY <1>1, <2>1, <2>2 DEF RowSettled, Between
  <2>5. Numbered'
    BY <1>1 DEF Tidy, Numbered
  <2> QED
    BY <1>1, <1>2, <2>1, <2>2, <2>3, <2>4, <2>5
<1>4. CASE ~(t = Starter /\ InBaseline)
  <2>1. Held(t)
    BY <1>1, <1>4 DEF Tidy, HeldKnown, InRefinement, Working
  <2>2. /\ Len(rounds) = row.round + 2 /\ images = row.round + 1 /\ w.image = row.round + 1
        /\ w.index = row.round + 1 /\ loop[t].best = row.best /\ loop[t].bestPass = row.bestPass
        /\ rounds[Len(rounds)] = w /\ bestPass = row.bestPass
    BY <1>1, <2>1, RoundKnown DEF Held, Imaged
  <2>3. /\ row.best <= row.round /\ rounds[row.best + 1].verdict.pass = row.bestPass
        /\ \A j \in 1..row.round + 1 : /\ rounds[j].verdict.pass <= row.bestPass
                                       /\ j > row.best + 1 => rounds[j].verdict.pass < row.bestPass
    BY <2>1, <2>2, RoundKnown DEF Tidy, BestKnown, Held
  <2>4. BestKnown'
    <3>1. CASE w.verdict.pass < row.bestPass
      <4>1. new.best = row.best /\ new.bestPass = row.bestPass /\ new.round = row.round + 1
        BY <1>2, <2>2, <3>1
      <4>2. ASSUME NEW j \in 1..row.round + 2
            PROVE  /\ rounds[j].verdict.pass <= row.bestPass
                   /\ j > row.best + 1 => rounds[j].verdict.pass < row.bestPass
        <5>1. CASE j = row.round + 2
          <6>1. rounds[j] = w /\ w.verdict.pass \in Nat /\ row.bestPass \in Nat
            BY <2>2, <5>1, RoundKnown
          <6> QED
            BY <3>1, <6>1
        <5>2. CASE j # row.round + 2
          <6>1. j \in 1..row.round + 1
            BY <5>2, RoundKnown
          <6> QED
            BY <2>3, <6>1
        <5> QED
          BY <5>1, <5>2
      <4> QED
        BY <1>1, <2>2, <2>3, <4>1, <4>2, RoundKnown DEF BestKnown
    <3>2. CASE ~(w.verdict.pass < row.bestPass)
      <4>1. /\ new.best = row.round + 1 /\ new.bestPass = w.verdict.pass
            /\ new.round = row.round + 1
        BY <1>2, <2>2, <3>2
      <4>2. ASSUME NEW j \in 1..row.round + 2
            PROVE  rounds[j].verdict.pass <= w.verdict.pass
        <5>1. CASE j = row.round + 2
          BY <2>2, <5>1, RoundKnown
        <5>2. CASE j # row.round + 2
          <6>1. j \in 1..row.round + 1 /\ j \in 1..Len(rounds)
            BY <2>2, <5>2, RoundKnown
          <6>2. /\ rounds[j].verdict.pass \in Nat /\ w.verdict.pass \in Nat
                /\ row.bestPass \in Nat /\ rounds[j].verdict.pass <= row.bestPass
            BY <2>3, <6>1, RoundKnown
          <6> QED
            BY <3>2, <6>2
        <5> QED
          BY <5>1, <5>2
      <4> QED
        BY <1>1, <2>2, <4>1, <4>2, RoundKnown DEF BestKnown
    <3> QED
      BY <3>1, <3>2
  <2>5. new.status = "awaiting_user" => new.best = new.round
    BY <1>2, <2>2
  <2>6. RowSettled'
    BY <1>1, <1>2, <2>2, <2>5, RoundKnown DEF RowSettled, Between
  <2>7. Numbered'
    BY <1>1 DEF Tidy, Numbered
  <2> QED
    BY <1>1, <1>2, <2>2, <2>4, <2>5, <2>6, <2>7, RoundKnown
<1> QED
  BY <1>3, <1>4

LEMMA TidyApply ==
  ASSUME RoundInv, Tidy, NEW t \in Threads, ApplyOutcome(t)
  PROVE  Tidy'
<1> USE DEF RoundInv
<1> DEFINE new == Outcome(work[t], loop[t].best,
                          IF work[t].index = 0 THEN 0 ELSE loop[t].bestPass)
           to == IF t = Starter /\ GoesOn(new.status) THEN "plan"
                 ELSE IF t = Starter THEN "done" ELSE "leave"
<1>1. /\ pc[t] = "apply" /\ pc' = [pc EXCEPT ![t] = to] /\ row' = new
      /\ \A u \in Threads : u # t => work'[u] = work[u] /\ loop'[u] = loop[u]
  BY DEF ApplyOutcome, Step, Save, TypeInv, TypeOK
<1>2. /\ to = "plan" => row'.status \in Awaiting
      /\ to \in {"plan", "done", "leave"} /\ (t = Starter <=> to # "leave")
  BY <1>1 DEF GoesOn
<1> HIDE DEF new, to
<1>3. \A u \in Threads : pc'[u] = IF u = t THEN to ELSE pc[u]
  BY <1>1 DEF TypeInv, TypeOK
<1>4. /\ \A u \in Threads : u # t => pc[u] \notin Working \cup {"baseline"}
      /\ t # Starter => pc[Starter] = "done"
  BY <1>1, WorksAlone DEF Working
<1>5. ~InBaseline' /\ pc'[Starter] \notin {"idle", "baseline"}
  BY <1>2, <1>3, <1>4, ThreadsAndDeployments DEF InBaseline
<1>6. Held(t)' \/ to # "plan"
  BY <1>2, <1>3, DecisionKnown, StatusesDiffer DEF Held, Between, Imaged
<1>7. HeldKnown'
  BY <1>2, <1>3, <1>4, <1>6 DEF HeldKnown, InRefinement, Working
<1>8. BaselineKnown' /\ Judged'
  BY <1>2, <1>3, <1>4, <1>5 DEF BaselineKnown, Judged, Working
<1> QED
  BY <1>7, <1>8, DecisionKnown DEF Tidy

LEMMA TidyRaise ==
  ASSUME RoundInv, Tidy, NEW t \in Threads, StepRaises(t)
  PROVE  Tidy'
<1> USE DEF RoundInv
<1>1. /\ pc' = [pc EXCEPT ![t] = Raised(t)] /\ SaveStatus(t, "failed")
      /\ rounds' = rounds /\ images' = images /\ work' = work
      /\ pc[t] \in {"baseline", "mask", "building", "refining", "critiquing"}
      /\ Raised(t) \in {"lost", "leave"} /\ (t = Starter => Raised(t) = "lost")
  BY DEF StepRaises, Raised
<1>2. "failed" \notin Awaiting \cup Undecided
  BY DEF Awaiting, Undecided
<1>3. CASE InRefinement(t)
  <2>1. Numbered' /\ BestKnown' /\ RowSettled'
    BY <1>1, <1>2, <1>3, TidySave
  <2> QED
    BY <1>1, <1>3, <2>1, TidyWork DEF Working
<1>4. CASE ~InRefinement(t)
  <2>1. t = Starter /\ InBaseline /\ rounds = <<>> /\ pc[t] = "baseline"
    <3>1. pc[t] = "baseline" \/ (t = Starter /\ InBaseline)
      BY <1>1, <1>4 DEF InRefinement, Working
    <3>2. t = Starter
      BY <3>1 DEF Order, PlacesKnown, Threads
    <3>3. pc[t] = "baseline"
      BY <1>1, <3>1, <3>2 DEF InBaseline
    <3>4. work[Starter].index = 0
      BY <3>2, <3>3 DEF Tidy, BaselineKnown, NoWork
    <3> QED
      BY <3>2, <3>3, <3>4 DEF InBaseline, Tidy, BaselineKnown
  <2>2. row'.status = "failed" /\ pc'[t] = "lost"
    BY <1>1, <2>1, SavedRest DEF TypeInv, TypeOK
  <2>3. \A u \in Threads : pc'[u] \notin Working
    BY <1>1, <2>1, WorksAlone DEF Working, TypeInv, TypeOK
  <2>4. HeldKnown' /\ Judged' /\ BaselineKnown' /\ RowSettled'
    BY <1>2, <2>1, <2>2, <2>3
    DEF HeldKnown, InRefinement, Judged, Working, BaselineKnown, InBaseline, RowSettled
  <2>5. Numbered' /\ BestKnown'
    BY <1>1, <2>1 DEF Numbered, BestKnown
  <2> QED
    BY <2>4, <2>5 DEF Tidy
<1> QED
  BY <1>3, <1>4

LEMMA TidyStart ==
  ASSUME RoundInv, Tidy, StartStep
  PROVE  Tidy'
<1> USE ThreadsAndDeployments DEF RoundInv
<1>1. CASE CreateLoop
  <2>1. /\ pc[Starter] = "idle" /\ pc' = [pc EXCEPT ![Starter] = "baseline"]
        /\ rounds' = rounds /\ images' = images /\ work' = work /\ rounds = <<>> /\ images = 0
        /\ work[Starter] = NoWork /\ row'.status = "pending_critique"
    BY <1>1 DEF CreateLoop, Step, Save, NoRow, Tidy, BaselineKnown
  <2>2. \A c \in Clients : pc[c] = "idle"
    BY <2>1 DEF Order, ClientsWait
  <2>3. \A t \in Threads : pc'[t] = IF t = Starter THEN "baseline" ELSE "idle"
    BY <2>1, <2>2 DEF Threads, TypeInv, TypeOK
  <2>4. HeldKnown' /\ Judged' /\ BaselineKnown'
    BY <2>1, <2>3
    DEF HeldKnown, InRefinement, Judged, Working, BaselineKnown, InBaseline, NoWork
  <2>5. Numbered' /\ BestKnown' /\ RowSettled'
    BY <2>1, StatusesDiffer DEF Numbered, BestKnown, RowSettled, Undecided, Awaiting
  <2> QED
    BY <2>4, <2>5 DEF Tidy
<1>2. CASE BaselineCritiqued
  <2>1. PICK v \in Verdicts : work' = [work EXCEPT ![Starter] = [NoWork EXCEPT !.verdict = v]]
    BY <1>2 DEF BaselineCritiqued
  <2>2. /\ pc[Starter] = "baseline" /\ pc' = [pc EXCEPT ![Starter] = "record"]
        /\ pc'[Starter] = "record"
        /\ row' = row /\ rounds' = rounds /\ images' = images /\ rounds = <<>> /\ images = 0
        /\ work[Starter].index = 0
    BY <1>2 DEF BaselineCritiqued, Step, Tidy, BaselineKnown, NoWork, TypeInv, TypeOK
  <2>3. /\ work'[Starter].index = 0 /\ work'[Starter].image = 0 /\ work'[Starter].parent = 0
        /\ work'[Starter].verdict \in Verdicts
    BY <2>1 DEF NoWork, TypeInv, TypeOK
  <2>4. \A u \in Threads : u # Starter => pc'[u] = pc[u] /\ pc[u] \notin Working
    BY <2>2, WorksAlone DEF TypeInv, TypeOK
  <2>5. row.status = "pending_critique"
    BY <2>2 DEF InBaseline, Tidy, BaselineKnown
  <2>6. HeldKnown' /\ Judged' /\ BaselineKnown'
    BY <2>2, <2>3, <2>4, <2>5
    DEF HeldKnown, InRefinement, Judged, Working, BaselineKnown, InBaseline
  <2>7. Numbered' /\ BestKnown' /\ RowSettled'
    BY <2>2, <2>5 DEF Numbered, BestKnown, RowSettled, Undecided, Awaiting
  <2> QED
    BY <2>6, <2>7 DEF Tidy
<1> QED
  BY <1>1, <1>2 DEF StartStep

LEMMA TidyBaselineRecord ==
  ASSUME RoundInv, Tidy, NEW t \in Threads, RecordRound(t), ~InRefinement(t)
  PROVE  Tidy'
<1> USE ThreadsAndDeployments DEF RoundInv
<1>1. /\ pc[t] = "record" /\ pc' = [pc EXCEPT ![t] = "apply"] /\ pc'[t] = "apply"
      /\ row' = row /\ rounds' = Append(rounds, work[t]) /\ images' = images /\ work' = work
  BY DEF RecordRound, Step, TypeInv, TypeOK
<1>2. t = Starter /\ InBaseline /\ rounds = <<>> /\ row.status = "pending_critique"
      /\ work[t].index = 0 /\ images = 0 /\ work[t].image = 0 /\ work[t].parent = 0
  BY <1>1 DEF InRefinement, Working, Tidy, BaselineKnown, InBaseline
<1>3. rounds' = <<work[t]>> /\ Len(rounds') = 1 /\ rounds'[1] = work[t]
  BY <1>1, <1>2
<1>4. \A u \in Threads : u # t => pc'[u] = pc[u] /\ pc[u] \notin Working
  BY <1>1, WorksAlone DEF TypeInv, TypeOK, Working
<1>5. HeldKnown' /\ Judged' /\ BaselineKnown'
  BY <1>1, <1>2, <1>3, <1>4
  DEF HeldKnown, InRefinement, Judged, Working, BaselineKnown, InBaseline, Tidy
<1>6. Numbered' /\ BestKnown' /\ RowSettled'
  BY <1>1, <1>2, <1>3 DEF Numbered, BestKnown, RowSettled, Undecided, Awaiting
<1> QED
  BY <1>5, <1>6 DEF Tidy

LEMMA TidyClaim ==
  ASSUME RoundInv, Tidy, NEW c \in Clients, ClaimRound(c), ~stale'
  PROVE  Tidy'
<1> USE ThreadsAndDeployments DEF RoundInv
<1>1. /\ pc[c] = "claim" /\ pc' = [pc EXCEPT ![c] = IF Claimable THEN "plan" ELSE "leave"]
      /\ rounds' = rounds /\ images' = images /\ work' = work /\ loop' = loop
  BY DEF ClaimRound, Step
<1>2. CASE ~Claimable
  <2>1. row' = row /\ pc' = [pc EXCEPT ![c] = "leave"]
    BY <1>1, <1>2 DEF ClaimRound
  <2> QED
    BY <1>1, <2>1, TidyAside DEF Working
<1>3. CASE Claimable
  <2>1. loop[c] = row /\ row.status \in Awaiting
    BY <1>3, Zenon DEF ClaimRound, Claimable
  <2>2. /\ row' = [row EXCEPT !.status = "building_mask"] /\ row'.status = "building_mask"
        /\ row'.round = row.round /\ row'.best = row.best /\ row'.bestPass = row.bestPass
    BY <1>3 DEF ClaimRound, TypeInv, TypeOK, Rows
  <2>3. \A u \in Threads : pc'[u] = IF u = c THEN "plan" ELSE pc[u]
    BY <1>1, <1>3 DEF TypeInv, TypeOK
  <2>4. pc[Starter] = "done" /\ \A u \in Threads : pc[u] \notin Working
    BY <1>1, <2>1, StatusesDiffer
    DEF Order, ClientsWait, ClientsInRound, Threads, Working
  <2>5. row.status \notin Undecided /\ Between(row) /\ Len(rounds) = row.round + 1
        /\ images = row.round
    BY <2>1 DEF Tidy, RowSettled, Awaiting, Undecided
  <2>6. Held(c)'
    BY <1>1, <2>1, <2>2, <2>3, <2>5 DEF Held, Undecided, Imaged, Between
  <2>7. HeldKnown' /\ Judged' /\ BaselineKnown'
    <3>1. HeldKnown'
      BY <2>3, <2>4, <2>6 DEF HeldKnown, InRefinement
    <3>2. Judged'
      BY <2>3, <2>4 DEF Judged, Working
    <3>3. pc'[Starter] = "done"
      BY <2>3, <2>4
    <3>4. BaselineKnown'
      BY <3>3 DEF BaselineKnown, InBaseline
    <3> QED
      BY <3>1, <3>2, <3>4
  <2>8. Numbered' /\ BestKnown' /\ RowSettled'
    BY <1>1, <2>2, <2>5 DEF Tidy, Numbered, BestKnown, RowSettled, Awaiting
  <2> QED
    BY <2>7, <2>8 DEF Tidy
<1> QED
  BY <1>2, <1>3

\* Inside a step of a round that is not the baseline, the thread refines.
LEMMA TidyRoundStep ==
  ASSUME RoundInv, Tidy, NEW t \in Threads, RoundStep(t), ~broken'
  PROVE  Tidy'
<1>1. CASE PlanRound(t)
  <2>1. InRefinement(t)
    BY <1>1 DEF PlanRound, Step, InRefinement, InBaseline, Working
  <2> QED
    BY <1>1, <2>1, TidyPlan
<1>2. CASE BeginMask(t) \/ MaskBuilt(t) \/ Refined(t)
  <2>1. InRefinement(t)
    BY <1>2 DEF BeginMask, MaskBuilt, Refined, Step, InRefinement, InBaseline, Working
  <2> QED
    BY <1>2, <2>1, TidySteps
<1>3. CASE Critiqued(t)
  <2>1. InRefinement(t)
    BY <1>3 DEF Critiqued, Step, InRefinement, InBaseline, Working
  <2> QED
    BY <1>3, <2>1, TidyCritique
<1>4. CASE RecordRound(t)
  BY <1>4, TidyRecord, TidyBaselineRecord
<1>5. CASE ApplyOutcome(t)
  BY <1>5, TidyApply
<1>6. CASE StepRaises(t)
  BY <1>6, TidyRaise
<1>7. CASE PlanRaises(t) \/ WriteRaises(t)
  BY <1>7 DEF PlanRaises, WriteRaises
<1> QED
  BY <1>1, <1>2, <1>3, <1>4, <1>5, <1>6, <1>7 DEF RoundStep

LEMMA TidyStep ==
  ASSUME RoundInv, Tidy, [Next]_vars, ~broken', ~stale'
  PROVE  Tidy'
<1> USE DEF RoundInv
<1>1. CASE StartStep
  BY <1>1, TidyStart
<1>2. ASSUME NEW c \in Clients, ReadLoop(c) \/ TakeLock(c) \/ Leave(c) PROVE Tidy'
  <2>1. PICK to \in {"lock", "claim", "idle"} :
          /\ pc' = [pc EXCEPT ![c] = to] /\ pc[c] \in {"idle", "lock", "leave"}
          /\ \A u \in Threads : u # c => loop'[u] = loop[u] /\ work'[u] = work[u]
          /\ row' = row /\ rounds' = rounds /\ images' = images
    BY <1>2 DEF ReadLoop, TakeLock, Leave, Step, TypeInv, TypeOK
  <2> QED
    BY <2>1, TidyAside DEF Working
<1>3. ASSUME NEW c \in Clients, ClaimRound(c) PROVE Tidy'
  BY <1>3, TidyClaim
<1>4. ASSUME NEW t \in Threads, RoundStep(t) PROVE Tidy'
  BY <1>4, TidyRoundStep
<1>5. ASSUME NEW p \in Processes, Crash(p) PROVE Tidy'
  BY <1>5 DEF Crash
<1>6. CASE UNCHANGED vars
  <2>0. /\ row' = row /\ rounds' = rounds /\ images' = images /\ pc' = pc /\ loop' = loop
        /\ work' = work
    BY <1>6 DEF vars
  <2>1. HeldKnown' /\ Judged' /\ BaselineKnown'
    <3>1. HeldKnown'
      BY <2>0 DEF Tidy, HeldKnown, InRefinement, InBaseline, Held, Between
    <3>2. Judged' /\ BaselineKnown'
      BY <2>0 DEF Tidy, Judged, BaselineKnown, InBaseline
    <3> QED
      BY <3>1, <3>2
  <2>2. Numbered' /\ BestKnown' /\ RowSettled'
    BY <2>0 DEF Tidy, Numbered, BestKnown, RowSettled, Between
  <2> QED
    BY <2>1, <2>2 DEF Tidy
<1> QED
  BY <1>1, <1>2, <1>3, <1>4, <1>5, <1>6 DEF Next

LEMMA TidyInvStep == RoundInv /\ TidyInv /\ [Next]_vars => TidyInv'
<1> SUFFICES ASSUME RoundInv, TidyInv, [Next]_vars, ~broken', ~stale' PROVE Tidy'
  BY DEF TidyInv
<1>1. ~broken /\ ~stale
  BY FlagsStay DEF RoundInv, TypeInv
<1> QED
  BY <1>1, TidyStep DEF TidyInv

-----------------------------------------------------------------------------
\* An observer of the rounds names one best round: the last of those with most passes.
LEMMA BestIsUnique ==
  ASSUME NEW h, NEW n \in Nat, Len(h) = n, \A i \in 1..n : h[i].verdict.pass \in Nat,
         NEW b \in 1..n,
         \A j \in 1..n : h[j].verdict.pass <= h[b].verdict.pass,
         \A j \in 1..n : j > b => h[j].verdict.pass < h[b].verdict.pass
  PROVE  Loop!Best(h) = b
<1> DEFINE Is(i) == /\ \A j \in 1..n : h[j].verdict.pass <= h[i].verdict.pass
                    /\ \A j \in (i + 1)..n : h[j].verdict.pass < h[i].verdict.pass
<1>1. Is(b)
  OBVIOUS
<1>2. ASSUME NEW i \in 1..n, Is(i) PROVE i = b
  <2>1. ~(i < b)
    <3> SUFFICES ASSUME i < b PROVE FALSE
      OBVIOUS
    <3>1. b \in (i + 1)..n
      OBVIOUS
    <3>2. h[b].verdict.pass < h[i].verdict.pass /\ h[i].verdict.pass <= h[b].verdict.pass
      BY <1>2, <3>1
    <3> QED
      BY <3>2
  <2>2. ~(i > b)
    <3> SUFFICES ASSUME i > b PROVE FALSE
      OBVIOUS
    <3>1. h[i].verdict.pass < h[b].verdict.pass /\ h[b].verdict.pass <= h[i].verdict.pass
      BY <1>2
    <3> QED
      BY <3>1
  <2> QED
    BY <2>1, <2>2
<1>3. Loop!Best(h) = CHOOSE i \in 1..n : Is(i)
  BY DEF Loop!Best
<1> HIDE DEF Is
<1> QED
  BY <1>1, <1>2, <1>3

\* It is the one the row keeps.
LEMMA BestIsTheRows ==
  ASSUME RoundInv, Tidy, Decided # <<>>
  PROVE  Loop!Best(Decided) = row.best + 1
<1>1. /\ row.status \notin Undecided /\ rounds # <<>>
      /\ Decided = [i \in 1..row.round + 1 |-> [parent |-> rounds[i].parent,
                                                verdict |-> rounds[i].verdict]]
  BY DEF Decided, Undecided
<1>2. /\ row.best <= row.round /\ row.round < Len(rounds)
      /\ rounds[row.best + 1].verdict.pass = row.bestPass
      /\ \A j \in 1..row.round + 1 : /\ rounds[j].verdict.pass <= row.bestPass
                                     /\ j > row.best + 1 => rounds[j].verdict.pass < row.bestPass
  BY <1>1 DEF Tidy, BestKnown
<1>3. row.round \in Nat /\ row.best \in Nat /\ row.bestPass \in Nat
      /\ \A i \in 1..row.round + 1 : rounds[i].verdict.pass \in Nat
  BY <1>2, RoundKnown DEF RoundInv
<1>4. /\ Len(Decided) = row.round + 1 /\ row.best + 1 \in 1..row.round + 1
      /\ \A i \in 1..row.round + 1 : Decided[i].verdict.pass = rounds[i].verdict.pass
  BY <1>1, <1>2, <1>3
<1>5. PICK n \in Nat : n = row.round + 1
  BY <1>3
<1>6. PICK best \in 1..n : best = row.best + 1
  BY <1>4, <1>5
<1>7. /\ Len(Decided) = n
      /\ \A i \in 1..n : Decided[i].verdict.pass \in Nat
      /\ \A j \in 1..n : Decided[j].verdict.pass <= Decided[best].verdict.pass
      /\ \A j \in 1..n : j > best => Decided[j].verdict.pass < Decided[best].verdict.pass
  BY <1>2, <1>3, <1>4, <1>5, <1>6
<1>8. Loop!Best(Decided) = best
  BY <1>7, BestIsUnique
<1> QED
  BY <1>6, <1>8

\* A decision is a judgement of the abstract loop ...
LEMMA DecisionIsJudge ==
  ASSUME RoundInv, Tidy, NEW t \in Threads, ApplyOutcome(t)
  PROVE  Loop!Judge(work[t].verdict) /\ work[t].verdict \in Verdicts
<1> USE DEF RoundInv
<1> DEFINE w == work[t]
           n == Len(rounds)
<1>1. /\ pc[t] = "apply" /\ w.verdict \in Verdicts /\ row.status \notin Terminal
  <2>1. pc[t] = "apply"
    BY DEF ApplyOutcome, Step
  <2> QED
    BY <2>1, StatusesDiffer, ThreadsAndDeployments
    DEF Tidy, Judged, Order, StarterOpen, ClientsInRound, Working, Threads
<1>2. /\ row'.status \notin Undecided /\ rounds' = rounds
      /\ row'.round = w.index /\ n = w.index + 1 /\ rounds[n] = w
  BY DecisionKnown
<1>3. n \in Nat /\ w.index \in Nat /\ row.round \in Nat
  BY RoundKnown
<1>4. Decided' = [i \in 1..n |-> [parent |-> rounds[i].parent, verdict |-> rounds[i].verdict]]
  <2>1. rounds' # <<>>
    BY <1>2, <1>3
  <2> QED
    BY <1>2, <2>1 DEF Decided, Undecided
<1>5. /\ Len(Decided) = n - 1
      /\ Decided = [i \in 1..n - 1 |-> [parent |-> rounds[i].parent, verdict |-> rounds[i].verdict]]
      /\ w.parent = IF Decided = <<>> THEN 0 ELSE Loop!Best(Decided) - 1
  <2>1. CASE t = Starter /\ InBaseline
    <3>1. row.status = "pending_critique" /\ w.parent = 0 /\ w.index = 0
      BY <2>1 DEF Tidy, BaselineKnown, InBaseline
    <3>2. Decided = <<>> /\ n = 1
      BY <1>2, <3>1 DEF Decided
    <3> QED
      BY <3>1, <3>2
  <2>2. CASE ~(t = Starter /\ InBaseline)
    <3>1. Held(t)
      BY <1>1, <2>2 DEF Tidy, HeldKnown, InRefinement, Working
    <3>2. /\ row.status \notin Undecided /\ n = row.round + 2 /\ w.parent = row.best
      BY <1>1, <3>1 DEF Held
    <3>3. Decided = [i \in 1..n - 1 |-> [parent |-> rounds[i].parent,
                                         verdict |-> rounds[i].verdict]]
      <4>1. rounds # <<>> /\ row.round + 1 = n - 1
        BY <1>3, <3>2
      <4> QED
        BY <3>2, <4>1 DEF Decided, Undecided
    <3>4. Len(Decided) = n - 1 /\ Decided # <<>>
      BY <1>3, <3>2, <3>3
    <3>5. Loop!Best(Decided) - 1 = row.best
      BY <3>4, BestIsTheRows, RoundKnown
    <3> QED
      BY <3>2, <3>3, <3>4, <3>5
  <2> QED
    BY <2>1, <2>2
<1>6. Decided' = Append(Decided, [parent |-> IF Decided = <<>> THEN 0 ELSE Loop!Best(Decided) - 1,
                                  verdict |-> w.verdict])
  BY <1>2, <1>3, <1>4, <1>5
<1>7. (IF row'.status \in Terminal THEN row'.status ELSE "open")
        = Loop!Ending(w.verdict, Len(Decided))
  <2>1. row'.status = NextStatus(w, w.verdict.pass < IF w.index = 0 THEN 0 ELSE loop[t].bestPass)
    BY DEF ApplyOutcome, Save, Outcome
  <2>2. Len(Decided) = w.index
    BY <1>2, <1>3, <1>5
  <2> QED
    BY <1>3, <2>1, <2>2, ThreadsAndDeployments
    DEF NextStatus, ReachedCap, Loop!Ending, Terminal
<1>8. (IF row.status \in Terminal THEN row.status ELSE "open") = "open"
  BY <1>1
<1> HIDE DEF w
<1>9. Loop!Judge(w.verdict)
  BY <1>6, <1>7, <1>8 DEF Loop!Judge
<1> QED
  BY <1>1, <1>9 DEF w

\* ... an exception that is recorded is a failure of it ...
LEMMA RaiseIsFail ==
  ASSUME RoundInv, Tidy, NEW t \in Threads, StepRaises(t)
  PROVE  Loop!Fail
<1> USE DEF RoundInv
<1>1. /\ pc[t] \in Working \cup {"baseline"} /\ SaveStatus(t, "failed")
      /\ rounds' = rounds
  BY DEF StepRaises, Working
<1>2. row'.status = "failed" /\ row'.round = loop[t].round
  BY <1>1, SavedRest
<1>3. row.status \notin Terminal
  BY <1>1, StatusesDiffer, ThreadsAndDeployments
  DEF Order, StarterOpen, ClientsInRound, PlacesKnown, Threads
<1>4. Decided' = Decided
  <2>1. CASE InRefinement(t)
    <3>1. row.status \notin Undecided /\ loop[t].round = row.round
      BY <2>1 DEF Tidy, HeldKnown, Held
    <3> QED
      BY <1>1, <1>2, <3>1 DEF Decided, Undecided
  <2>2. CASE ~InRefinement(t)
    <3>1. t = Starter /\ pc[t] \in {"baseline", "record", "apply"}
      BY <1>1, <2>2 DEF InRefinement, InBaseline, Working, Order, PlacesKnown, Threads
    <3>2. pc[t] = "baseline"
      BY <3>1 DEF StepRaises
    <3>3. rounds = <<>>
      BY <3>1, <3>2 DEF Tidy, BaselineKnown
    <3> QED
      BY <1>1, <3>3 DEF Decided
  <2> QED
    BY <2>1, <2>2
<1> QED
  BY <1>2, <1>3, <1>4 DEF Loop!Fail, Terminal

\* ... and every other step is none, as long as nothing goes wrong unnoticed.
LEMMA OtherwiseUndecided ==
  ASSUME RoundInv, Tidy, [Next]_vars, ~broken', ~stale',
         \A t \in Threads : ~ApplyOutcome(t) /\ ~StepRaises(t)
  PROVE  Decided' = Decided /\ (row'.status \in Terminal <=> row.status \in Terminal)
<1> USE DEF RoundInv
<1>1. ASSUME rounds' = rounds, row'.round = row.round,
             row'.status \in Undecided <=> row.status \in Undecided
      PROVE  Decided' = Decided
  BY <1>1 DEF Decided, Undecided
<1>2. CASE CreateLoop
  <2>1. row'.status = "pending_critique" /\ pc[Starter] = "idle"
    BY <1>2 DEF CreateLoop, Step, Save, NoRow
  <2>2. row.status = "absent"
    BY <2>1 DEF Order, StarterOpen
  <2> QED
    BY <2>1, <2>2 DEF Decided, Terminal
<1>3. CASE \/ BaselineCritiqued
           \/ \E c \in Clients : ReadLoop(c) \/ TakeLock(c) \/ Leave(c)
           \/ \E t \in Threads : PlanRound(t) \/ Critiqued(t)
           \/ UNCHANGED vars
  <2>1. rounds' = rounds /\ row' = row
    BY <1>3 DEF BaselineCritiqued, ReadLoop, TakeLock, Leave, PlanRound, Critiqued, vars
  <2> QED
    BY <1>1, <2>1
<1>4. ASSUME NEW c \in Clients, ClaimRound(c)
      PROVE  Decided' = Decided /\ (row'.status \in Terminal <=> row.status \in Terminal)
  <2>1. CASE row' = row
    BY <1>1, <1>4, <2>1 DEF ClaimRound
  <2>2. CASE row' # row
    <3>1. /\ row.status \in Awaiting /\ row'.status = "building_mask" /\ row'.round = row.round
          /\ rounds' = rounds
      BY <1>4, <2>2 DEF ClaimRound, Claimable, TypeInv, TypeOK, Rows
    <3>2. Decided' = Decided
      BY <1>1, <3>1 DEF Undecided, Awaiting
    <3> QED
      BY <3>1, <3>2, StatusesDiffer DEF Terminal
  <2> QED
    BY <2>1, <2>2
<1>5. ASSUME NEW t \in Threads, BeginMask(t) \/ MaskBuilt(t) \/ Refined(t)
      PROVE  Decided' = Decided /\ (row'.status \in Terminal <=> row.status \in Terminal)
  <2>1. PICK status \in {"building_mask", "refining", "critiquing"} :
          SaveStatus(t, status) /\ rounds' = rounds /\ pc[t] \in {"mask", "building", "refining"}
    BY <1>5 DEF BeginMask, MaskBuilt, Refined, Step
  <2>2. InRefinement(t) /\ pc[t] \in Working
    BY <2>1 DEF InRefinement, InBaseline, Working
  <2>3. row.status \notin Undecided /\ loop[t].round = row.round
    BY <2>2 DEF Tidy, HeldKnown, Held
  <2>4. row'.status = status /\ row'.round = row.round
    BY <2>1, <2>3, SavedRest
  <2>5. row.status \notin Terminal
    BY <2>2, StatusesDiffer DEF Order, StarterOpen, ClientsInRound, Threads
  <2>6. Decided' = Decided
    BY <1>1, <2>1, <2>3, <2>4 DEF Undecided
  <2> QED
    BY <2>4, <2>5, <2>6 DEF Terminal
<1>6. ASSUME NEW t \in Threads, RecordRound(t)
      PROVE  Decided' = Decided /\ (row'.status \in Terminal <=> row.status \in Terminal)
  <2>1. /\ rounds' = Append(rounds, work[t]) /\ row' = row /\ pc[t] = "record"
        /\ \A i \in 1..Len(rounds) : rounds'[i] = rounds[i]
    BY <1>6 DEF RecordRound, Step, TypeInv, TypeOK
  <2>2. CASE row.status \in Undecided
    BY <2>1, <2>2 DEF Decided, Undecided
  <2>3. CASE row.status \notin Undecided
    <3>1. InRefinement(t)
      BY <2>1, <2>3 DEF InRefinement, Working, Tidy, BaselineKnown, Undecided
    <3>2. Len(rounds) = row.round + 1 /\ row.round \in Nat
      BY <2>1, <3>1, RoundKnown DEF Tidy, HeldKnown, Held
    <3>3. rounds # <<>> /\ rounds' # <<>>
      <4>1. Len(rounds') = Len(rounds) + 1
        BY <2>1 DEF TypeInv, TypeOK
      <4> QED
        BY <3>2, <4>1
    <3>4. Decided = [i \in 1..row.round + 1 |-> [parent |-> rounds[i].parent,
                                                verdict |-> rounds[i].verdict]]
      BY <2>3, <3>3 DEF Decided, Undecided
    <3>5. Decided' = [i \in 1..row.round + 1 |-> [parent |-> rounds'[i].parent,
                                                 verdict |-> rounds'[i].verdict]]
      BY <2>1, <2>3, <3>3 DEF Decided, Undecided
    <3> QED
      BY <2>1, <3>2, <3>4, <3>5
  <2> QED
    BY <2>1, <2>2, <2>3
<1>7. ASSUME NEW t \in Threads, PlanRaises(t) \/ WriteRaises(t) PROVE FALSE
  BY <1>7 DEF PlanRaises, WriteRaises
<1>8. ASSUME NEW p \in Processes, Crash(p) PROVE FALSE
  BY <1>8 DEF Crash
<1> QED
  BY <1>2, <1>3, <1>4, <1>5, <1>6, <1>7, <1>8, Zenon DEF Next, StartStep, RoundStep

(***************************************************************************)
(* The loop implements BestSoFar for any number of clients, processes and  *)
(* rounds: numbered without gaps, each refinement starting from the best   *)
(* image so far, ended by the last critique alone, until a failure goes    *)
(* unrecorded or a round is claimed with an old copy of the row.           *)
(***************************************************************************)
THEOREM LoopImplementsBestSoFar == Spec => ImplementsBestSoFar
<1>1. Init => Loop!Init
  BY DEF Init, Loop!Init, Decided, NoRow, Terminal
<1>2. Init => TidyInv
  BY TidyInitial DEF TidyInv
<1>3. RoundInv /\ TidyInv /\ [Next]_vars =>
        [broken' \/ stale' \/ [Loop!Next]_<<Decided, row.status \in Terminal>>]_vars
  <2> SUFFICES ASSUME RoundInv, TidyInv, [Next]_vars, ~broken', ~stale'
               PROVE  [Loop!Next]_<<Decided, row.status \in Terminal>>
    OBVIOUS
  <2>1. Tidy
    BY FlagsStay DEF RoundInv, TypeInv, TidyInv
  <2>2. ASSUME NEW t \in Threads, ApplyOutcome(t) PROVE Loop!Next
    BY <2>1, <2>2, DecisionIsJudge DEF Loop!Next
  <2>3. ASSUME NEW t \in Threads, StepRaises(t) PROVE Loop!Next
    BY <2>1, <2>3, RaiseIsFail DEF Loop!Next
  <2>4. CASE \A t \in Threads : ~ApplyOutcome(t) /\ ~StepRaises(t)
    BY <2>1, <2>4, OtherwiseUndecided
  <2> QED
    BY <2>2, <2>3, <2>4
<1> QED
  BY <1>1, <1>2, <1>3, TidyInvStep, RoundInvInitial, RoundInvStep, PTL
  DEF Spec, ImplementsBestSoFar
=============================================================================
