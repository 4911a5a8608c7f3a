------------------------ MODULE VramSchedulerProofs ------------------------
(***************************************************************************)
(* Proofs about VramScheduler for every set of models, footprints and      *)
(* budgets: type correctness, the two memory budgets, the impossibility of *)
(* a failed eviction, and the mutual exclusion of training and models.     *)
(***************************************************************************)
EXTENDS VramScheduler, FiniteSetTheorems, FunctionTheorems, TLAPS

Sizes == [Models -> 0..MaxMb]
MegabytesOf(S, size) == {p \in S \X (1..MaxMb) : p[2] <= size[p[1]]}

-----------------------------------------------------------------------------
(***************************************************************************)
(* The megabytes of a set of models are finitely many.                     *)
(***************************************************************************)
LEMMA MegabytesFinite ==
  ASSUME NEW S \in SUBSET Models, NEW size
  PROVE  /\ IsFiniteSet(MegabytesOf(S, size))
         /\ Megabytes(S, size) = Cardinality(MegabytesOf(S, size))
         /\ Megabytes(S, size) \in Nat
<1>1. IsFiniteSet(S)
  BY FS_Subset, ModelAssumption
<1>2. IsFiniteSet(1..MaxMb)
  BY FS_Interval, FootprintAssumption
<1>3. IsFiniteSet(S \X (1..MaxMb))
  BY <1>1, <1>2, FS_Product
<1>4. MegabytesOf(S, size) \in SUBSET (S \X (1..MaxMb))
  BY DEF MegabytesOf
<1>5. IsFiniteSet(MegabytesOf(S, size))
  BY <1>3, <1>4, FS_Subset
<1>6. Megabytes(S, size) = Cardinality(MegabytesOf(S, size))
  BY DEF Megabytes, MegabytesOf
<1> QED
  BY <1>5, <1>6, FS_CardinalityType

(***************************************************************************)
(* Fewer models, each of the same size, occupy no more megabytes.          *)
(***************************************************************************)
LEMMA MegabytesMonotonic ==
  ASSUME NEW S \in SUBSET Models, NEW T \in SUBSET Models, S \subseteq T,
         NEW size \in Sizes, NEW size2 \in Sizes,
         \A m \in S : size[m] = size2[m]
  PROVE  Megabytes(S, size) <= Megabytes(T, size2)
<1>1. MegabytesOf(S, size) \in SUBSET MegabytesOf(T, size2)
  BY DEF MegabytesOf, Sizes
<1>2. IsFiniteSet(MegabytesOf(T, size2))
  BY MegabytesFinite
<1>3. Cardinality(MegabytesOf(S, size)) <= Cardinality(MegabytesOf(T, size2))
  BY <1>1, <1>2, FS_Subset
<1> QED
  BY <1>3, MegabytesFinite

(***************************************************************************)
(* One model occupies as many megabytes as its size says.                  *)
(***************************************************************************)
LEMMA MegabytesOfOne ==
  ASSUME NEW m \in Models, NEW size \in Sizes
  PROVE  Megabytes({m}, size) = size[m]
<1> DEFINE n == size[m]
           f == [i \in 1..n |-> <<m, i>>]
           T == MegabytesOf({m}, size)
<1>1. n \in Nat /\ n <= MaxMb /\ MaxMb \in Nat
  BY FootprintAssumption DEF Sizes
<1>2. \A i \in 1..n : <<m, i>> \in T
  BY <1>1 DEF MegabytesOf
<1>3. f \in [1..n -> T]
  BY <1>2
<1>4. \A i, j \in 1..n : f[i] = f[j] => i = j
  OBVIOUS
<1>5. ASSUME NEW p \in T
      PROVE  \E i \in 1..n : f[i] = p
  <2>1. p \in {m} \X (1..MaxMb) /\ p[2] <= size[p[1]]
    BY <1>5 DEF MegabytesOf
  <2>2. p[1] = m /\ p[2] \in 1..n /\ p = <<m, p[2]>>
    BY <2>1, <1>1
  <2> QED
    BY <2>2
<1>6. f \in Bijection(1..n, T)
  BY <1>3, <1>4, <1>5, Fun_IsBij
<1>7. ExistsBijection(1..n, T)
  BY <1>6, Fun_ExistsBij
<1>8. IsFiniteSet(1..n) /\ Cardinality(1..n) = n
  <2>1. \A k \in Nat : IsFiniteSet(1..k) /\ Cardinality(1..k) = k
    BY FS_Interval
  <2> QED
    BY <1>1, <2>1
<1>9. Cardinality(T) = n
  BY <1>7, <1>8, FS_Bijection
<1> QED
  BY <1>9, MegabytesFinite

(***************************************************************************)
(* Adding one model adds at most its size.                                 *)
(***************************************************************************)
LEMMA MegabytesAddOne ==
  ASSUME NEW S \in SUBSET Models, NEW m \in Models, NEW size \in Sizes
  PROVE  Megabytes(S \cup {m}, size) <= Megabytes(S, size) + size[m]
<1> DEFINE A == MegabytesOf(S, size)
           B == MegabytesOf({m}, size)
<1>1. MegabytesOf(S \cup {m}, size) = A \cup B
  BY DEF MegabytesOf
<1>2. IsFiniteSet(A) /\ IsFiniteSet(B)
  BY MegabytesFinite
<1>3. Cardinality(A \cup B) = Cardinality(A) + Cardinality(B) - Cardinality(A \cap B)
  BY <1>2, FS_Union
<1>4. IsFiniteSet(A \cap B)
  BY <1>2, FS_Intersection
<1>5. Cardinality(A \cap B) \in Nat /\ Cardinality(A) \in Nat /\ Cardinality(B) \in Nat
  BY <1>2, <1>4, FS_CardinalityType
<1>6. Cardinality(B) = size[m]
  BY MegabytesFinite, MegabytesOfOne
<1>7. Cardinality(A \cup B) <= Cardinality(A) + size[m]
  BY <1>3, <1>5, <1>6
<1>8. S \cup {m} \in SUBSET Models
  OBVIOUS
<1> QED
  BY <1>1, <1>7, <1>8, MegabytesFinite

-----------------------------------------------------------------------------
(***************************************************************************)
(* Each variable keeps its type, for every set of models and all sizes.    *)
(***************************************************************************)
THEOREM TypeCorrect == Spec => []TypeOK
<1>1. Init => TypeOK
  <2> SUFFICES ASSUME Init PROVE TypeOK
    OBVIOUS
  <2>1. direct \in BOOLEAN /\ replaced \in SUBSET Models
    BY DEF Init
  <2>2. /\ registry \in Seq(Models)
        /\ scan \in 0..Len(registry)
    BY DEF Init
  <2> QED
    BY <2>1, <2>2, FootprintAssumption DEF Init, TypeOK, Tiers
<1>2. ASSUME TypeOK, [Next]_vars
      PROVE  TypeOK'
  <2> USE <1>2 DEF TypeOK
  <2>1. ASSUME NEW m \in Models, NEW v \in VramSizes, NEW r \in RamSizes,
               Register(m, v, r)
        PROVE  TypeOK'
    <3>1. registry' \in Seq(Models) /\ Len(registry') >= Len(registry)
      BY <2>1 DEF Register
    <3>2. v \in 0..MaxMb /\ r \in 0..MaxMb
      BY FootprintAssumption
    <3> QED
      BY <2>1, <3>1, <3>2 DEF Register, LockFree, Tiers
  <2>2. ASSUME NEW m \in Models, BeginAcquire(m)
        PROVE  TypeOK'
    BY <2>2 DEF BeginAcquire, modelVars, history
  <2>3. ASSUME NEW m \in Models, Demote(m) \/ Evict(m)
        PROVE  TypeOK'
    BY <2>3 DEF Demote, Evict, modelVars, history, Record, DemotedTier, Tiers
  <2>4. CASE EvictForRoom
    BY <2>4 DEF EvictForRoom, modelVars, history, Record, DemotedTier, Tiers,
                EvictionCandidates, Active, InTier
  <2>5. CASE FinishAcquire
    BY <2>5 DEF FinishAcquire, modelVars, history, Record, Tiers
  <2>6. CASE BeginTick
    BY <2>6 DEF BeginTick, modelVars, history
  <2>7. CASE TickModel
    <3>1. registry[scan] \in Models
      BY <2>7 DEF TickModel
    <3>2. state' \in [Models -> Tiers] /\ placed' \in [Models -> Tiers]
      BY <2>7, <3>1 DEF TickModel, Record, DemotedTier, Tiers
    <3>3. registry' = registry /\ scan' \in 0..Len(registry')
      <4>1. Len(registry) \in Nat
        OBVIOUS
      <4> QED
        BY <2>7, <4>1 DEF TickModel, NextScan, modelVars
    <3> QED
      BY <2>7, <3>2, <3>3 DEF TickModel, modelVars, history
  <2>8. CASE Advance
    BY <2>8 DEF Advance, modelVars, history
  <2>9. ASSUME NEW h \in Holders, BeginTraining(h) \/ TryBeginTraining(h)
        PROVE  TypeOK'
    BY <2>9 DEF BeginTraining, TryBeginTraining, TakeLock, modelVars
  <2>10. CASE EndTraining
    BY <2>10 DEF EndTraining, TakeLock, modelVars
  <2>11. CASE UNCHANGED vars
    BY <2>11 DEF vars
  <2> QED
    BY <2>1, <2>2, <2>3, <2>4, <2>5, <2>6, <2>7, <2>8, <2>9, <2>10, <2>11
       DEF Next
<1> QED
  BY <1>1, <1>2, PTL DEF Spec

-----------------------------------------------------------------------------
(***************************************************************************)
(* The inductive invariant of the budgets.  Beside the two budgets it says *)
(* that register() admitted only models that fit alone and that only       *)
(* registered models are acquired or leave the COLD state.                 *)
(***************************************************************************)
FitsAlone == \A m \in Models : vram[m] <= VramBudget
UnknownIsCold == \A m \in Models \ Known : state[m] = "cold"
AcquiringIsKnown == acquiring # None => acquiring \in Known

MemoryInv ==
  /\ VramWithinBudget
  /\ RamWithinBudget
  /\ FitsAlone
  /\ UnknownIsCold
  /\ AcquiringIsKnown

(***************************************************************************)
(* The entries of the registry are models.                                 *)
(***************************************************************************)
LEMMA KnownAreModels == TypeOK => Known \in SUBSET Models
  BY DEF TypeOK, Known

(***************************************************************************)
(* A model that leaves VRAM through demote() keeps both budgets: the tier  *)
(* is chosen against what the Warm tier holds at that moment.              *)
(***************************************************************************)
LEMMA DemotionKeepsBudgets ==
  ASSUME TypeOK, VramWithinBudget, RamWithinBudget, UNCHANGED <<vram, ram>>,
         NEW m \in Models, NEW t \in {DemotedTier(m), "cold"}, Record(m, t)
  PROVE  VramWithinBudget' /\ RamWithinBudget'
<1>1. t \in {"warm", "cold"} /\ state' = [state EXCEPT ![m] = t]
  BY DEF DemotedTier, Record
<1>2. vram \in Sizes /\ ram \in Sizes /\ vram' = vram /\ ram' = ram
  BY DEF TypeOK, Sizes
<1>3. Active \in SUBSET Models /\ Active' \in SUBSET Models /\ Active' \subseteq Active
  BY <1>1 DEF TypeOK, Active, InTier
<1>4. VramWithinBudget'
  <2>1. Megabytes(Active', vram) <= Megabytes(Active, vram)
    BY <1>2, <1>3, MegabytesMonotonic
  <2>2. Megabytes(Active', vram) \in Nat /\ Megabytes(Active, vram) \in Nat
    BY <1>3, MegabytesFinite
  <2>3. VramUsed' = Megabytes(Active', vram)
    BY <1>2 DEF VramUsed, Megabytes
  <2> QED
    BY <2>1, <2>2, <2>3, BudgetAssumption DEF VramWithinBudget, VramUsed
<1>5. RamWithinBudget'
  <2> DEFINE W == InTier("warm")
             WNew == InTier("warm")'
  <2>1. W \in SUBSET Models /\ WNew \in SUBSET Models
    BY DEF InTier
  <2>2. Megabytes(W, ram) \in Nat /\ Megabytes(WNew, ram) \in Nat
    BY <2>1, MegabytesFinite
  <2>3. RamUsed = Megabytes(W, ram) /\ RamUsed' = Megabytes(WNew, ram)
    BY <1>2 DEF RamUsed, Megabytes
  <2>4. CASE t = "cold"
    <3>1. WNew \subseteq W
      BY <1>1, <2>4 DEF TypeOK, InTier
    <3>2. Megabytes(WNew, ram) <= Megabytes(W, ram)
      BY <3>1, <2>1, <1>2, MegabytesMonotonic
    <3> QED
      BY <3>2, <2>2, <2>3, BudgetAssumption DEF RamWithinBudget
  <2>5. CASE t = "warm"
    <3>1. RamUsed + ram[m] <= RamBudget
      BY <2>5 DEF DemotedTier
    <3>2. WNew \subseteq W \cup {m} /\ W \cup {m} \in SUBSET Models
      BY <1>1, <2>1 DEF TypeOK, InTier
    <3>3. Megabytes(WNew, ram) <= Megabytes(W \cup {m}, ram)
      BY <3>2, <2>1, <1>2, MegabytesMonotonic
    <3>4. Megabytes(W \cup {m}, ram) <= Megabytes(W, ram) + ram[m]
      BY <2>1, <1>2, MegabytesAddOne
    <3>5. Megabytes(W \cup {m}, ram) \in Nat /\ ram[m] \in Nat
      BY <3>2, <1>2, MegabytesFinite, FootprintAssumption DEF Sizes
    <3> QED
      BY <3>1, <3>3, <3>4, <3>5, <2>2, <2>3, BudgetAssumption
         DEF RamWithinBudget
  <2> QED
    BY <2>4, <2>5, <1>1
<1> QED
  BY <1>4, <1>5

(***************************************************************************)
(* Every step of the scheduler preserves MemoryInv.                        *)
(***************************************************************************)
LEMMA MemoryInvStep ==
  ASSUME TypeOK, TypeOK', MemoryInv, [Next]_vars
  PROVE  MemoryInv'
<1> USE DEF MemoryInv
<1>0. Known \in SUBSET Models
  BY KnownAreModels
<1>1. ASSUME NEW m \in Models, NEW v \in VramSizes, NEW r \in RamSizes,
             Register(m, v, r)
      PROVE  MemoryInv'
  <2>1. Known' = Known \cup {m}
    <3>1. CASE m \in Known
      BY <1>1, <3>1 DEF Register, Known
    <3>2. CASE m \notin Known
      <4>1. registry' = Append(registry, m)
        BY <1>1, <3>2 DEF Register
      <4>2. Len(registry') = Len(registry) + 1 /\ Len(registry) \in Nat
        BY <4>1 DEF TypeOK
      <4>3. \A i \in 1..Len(registry) : registry'[i] = registry[i]
        BY <4>1 DEF TypeOK
      <4>4. registry'[Len(registry) + 1] = m
        BY <4>1 DEF TypeOK
      <4>5. 1..Len(registry') = 1..Len(registry) \cup {Len(registry) + 1}
        BY <4>2
      <4> QED
        BY <4>3, <4>4, <4>5 DEF Known
    <3> QED
      BY <3>1, <3>2
  <2>2. /\ vram \in Sizes /\ vram' \in Sizes
        /\ ram \in Sizes /\ ram' \in Sizes
    BY DEF TypeOK, Sizes
  <2>3. /\ Active' \subseteq Active
        /\ InTier("warm")' \subseteq InTier("warm")
        /\ \A n \in Active' : vram'[n] = vram[n]
        /\ \A n \in InTier("warm")' : ram'[n] = ram[n]
    BY <1>1 DEF Register, TypeOK, Active, InTier
  <2>4. /\ Active \in SUBSET Models /\ Active' \in SUBSET Models
        /\ InTier("warm") \in SUBSET Models /\ InTier("warm")' \in SUBSET Models
    BY DEF Active, InTier
  <2>5. VramWithinBudget'
    <3>1. Megabytes(Active', vram') <= Megabytes(Active, vram)
      BY <2>2, <2>3, <2>4, MegabytesMonotonic
    <3>2. VramUsed' = Megabytes(Active', vram')
      BY DEF VramUsed, Megabytes
    <3> QED
      BY <3>1, <3>2, <2>4, MegabytesFinite, BudgetAssumption
         DEF VramWithinBudget, VramUsed
  <2>6. RamWithinBudget'
    <3>1. Megabytes(InTier("warm")', ram') <= Megabytes(InTier("warm"), ram)
      BY <2>2, <2>3, <2>4, MegabytesMonotonic
    <3>2. RamUsed' = Megabytes(InTier("warm")', ram')
      BY DEF RamUsed, Megabytes
    <3> QED
      BY <3>1, <3>2, <2>4, MegabytesFinite, BudgetAssumption
         DEF RamWithinBudget, RamUsed
  <2>7. FitsAlone' /\ UnknownIsCold' /\ AcquiringIsKnown'
    BY <1>1, <2>1 DEF Register, Admissible, TypeOK, FitsAlone, UnknownIsCold,
                      AcquiringIsKnown
  <2> QED
    BY <2>5, <2>6, <2>7
<1>2. ASSUME UNCHANGED <<vram, ram, state>>
      PROVE  VramWithinBudget' /\ RamWithinBudget' /\ FitsAlone'
  BY <1>2 DEF VramWithinBudget, VramUsed, RamWithinBudget, RamUsed, Active,
              InTier, Megabytes, FitsAlone
<1>3. ASSUME NEW m \in Known, NEW t \in {DemotedTier(m), "cold"}, Record(m, t),
             UNCHANGED <<registry, vram, ram, acquiring>>
      PROVE  MemoryInv'
  <2>1. VramWithinBudget' /\ RamWithinBudget'
    BY <1>0, <1>3, DemotionKeepsBudgets
  <2>2. FitsAlone' /\ UnknownIsCold' /\ AcquiringIsKnown'
    BY <1>3 DEF Record, TypeOK, Known, FitsAlone, UnknownIsCold,
                AcquiringIsKnown
  <2> QED
    BY <2>1, <2>2
<1>4. ASSUME NEW m \in Models, BeginAcquire(m)
      PROVE  MemoryInv'
  BY <1>2, <1>4 DEF BeginAcquire, modelVars, Known, UnknownIsCold,
                    AcquiringIsKnown
<1>5. ASSUME NEW m \in Models, Demote(m) \/ Evict(m)
      PROVE  MemoryInv'
  BY <1>3, <1>5 DEF Demote, Evict, modelVars
<1>6. CASE EvictForRoom
  <2>1. PICK m \in EvictionCandidates : Record(m, DemotedTier(m))
    BY <1>6 DEF EvictForRoom
  <2>2. m \in Known
    BY <2>1 DEF EvictionCandidates, Active, InTier, UnknownIsCold
  <2> QED
    BY <1>3, <1>6, <2>1, <2>2 DEF EvictForRoom, modelVars
<1>7. CASE FinishAcquire
  <2> DEFINE a == acquiring
  <2>1. a \in Models /\ a \in Known
    BY <1>0, <1>7 DEF FinishAcquire, AcquiringIsKnown
  <2>2. state' = [state EXCEPT ![a] = "active"] /\ vram' = vram /\ ram' = ram
        /\ registry' = registry /\ acquiring' = None
    BY <1>7 DEF FinishAcquire, Record, modelVars
  <2>3. Active' = Active \cup {a}
    BY <2>1, <2>2 DEF Active, InTier, TypeOK
  <2>4. VramWithinBudget'
    BY <1>7, <2>2, <2>3 DEF FinishAcquire, Fits, VramWithinBudget, VramUsed,
                            Megabytes
  <2>5. RamWithinBudget'
    <3> DEFINE W == InTier("warm")
               WNew == InTier("warm")'
    <3>1. W \in SUBSET Models /\ WNew \in SUBSET Models /\ WNew \subseteq W
      BY <2>1, <2>2 DEF InTier, TypeOK
    <3>2. Megabytes(WNew, ram) <= Megabytes(W, ram)
      BY <3>1, MegabytesMonotonic DEF TypeOK, Sizes
    <3>3. RamUsed = Megabytes(W, ram) /\ RamUsed' = Megabytes(WNew, ram)
      BY <2>2 DEF RamUsed, Megabytes
    <3> QED
      BY <3>1, <3>2, <3>3, MegabytesFinite, BudgetAssumption
         DEF RamWithinBudget
  <2>6. FitsAlone' /\ UnknownIsCold' /\ AcquiringIsKnown'
    BY <2>1, <2>2 DEF Known, FitsAlone, UnknownIsCold, AcquiringIsKnown, TypeOK
  <2> QED
    BY <2>4, <2>5, <2>6
<1>8. CASE TickModel
  <2> DEFINE m == registry[scan]
  <2>1. m \in Known
    <3>1. scan \in 1..Len(registry)
      <4>1. scan \in 0..Len(registry) /\ scan # 0 /\ Len(registry) \in Nat
        BY <1>8 DEF TickModel, TypeOK
      <4> QED
        BY <4>1
    <3> QED
      BY <3>1 DEF Known
  <2>2. CASE OverdueActive(m) /\ Record(m, DemotedTier(m))
    BY <1>3, <1>8, <2>1, <2>2 DEF TickModel, modelVars
  <2>3. CASE OverdueWarm(m) /\ Record(m, "cold")
    BY <1>3, <1>8, <2>1, <2>3 DEF TickModel, modelVars
  <2>4. CASE UNCHANGED <<state, placed>>
    BY <1>2, <1>8, <2>4 DEF TickModel, modelVars, Known, UnknownIsCold,
                            AcquiringIsKnown
  <2> QED
    BY <1>8, <2>2, <2>3, <2>4 DEF TickModel
<1>9. ASSUME \/ BeginTick
             \/ Advance
             \/ \E h \in Holders : BeginTraining(h) \/ TryBeginTraining(h)
             \/ EndTraining
             \/ UNCHANGED vars
      PROVE  MemoryInv'
  <2>1. UNCHANGED <<registry, vram, ram, state, acquiring>>
    BY <1>9 DEF BeginTick, Advance, BeginTraining, TryBeginTraining,
                EndTraining, TakeLock, modelVars, vars
  <2> QED
    BY <1>2, <2>1 DEF Known, UnknownIsCold, AcquiringIsKnown
<1> QED
  BY <1>1, <1>4, <1>5, <1>6, <1>7, <1>8, <1>9 DEF Next

(***************************************************************************)
(* MemoryInv holds in every reachable state.                               *)
(***************************************************************************)
THEOREM MemoryInvariant == Spec => []MemoryInv
<1>1. Init => MemoryInv
  <2> SUFFICES ASSUME Init PROVE MemoryInv
    OBVIOUS
  <2>1. \A t \in {"active", "warm"} : InTier(t) = {}
    BY DEF Init, InTier
  <2>2. \A size : Megabytes({}, size) = 0
    <3>1. \A size : MegabytesOf({}, size) = {}
      BY DEF MegabytesOf
    <3> QED
      BY <3>1, FS_EmptySet DEF Megabytes, MegabytesOf
  <2>3. VramWithinBudget /\ RamWithinBudget
    BY <2>1, <2>2, BudgetAssumption
       DEF VramWithinBudget, VramUsed, RamWithinBudget, RamUsed, Active
  <2>4. FitsAlone /\ UnknownIsCold /\ AcquiringIsKnown
    BY BudgetAssumption DEF Init, FitsAlone, UnknownIsCold, AcquiringIsKnown
  <2> QED
    BY <2>3, <2>4 DEF MemoryInv
<1>2. TypeOK /\ TypeOK' /\ MemoryInv /\ [Next]_vars => MemoryInv'
  BY MemoryInvStep
<1> QED
  BY <1>1, <1>2, TypeCorrect, PTL DEF Spec

(***************************************************************************)
(* Whatever models are registered and acquired, the ACTIVE ones fit the    *)
(* VRAM budget and the WARM ones the RAM budget at every moment.           *)
(***************************************************************************)
THEOREM BudgetsHold == Spec => []WithinBudgets
<1>1. MemoryInv => WithinBudgets
  BY DEF MemoryInv, WithinBudgets
<1> QED
  BY <1>1, MemoryInvariant, PTL

(***************************************************************************)
(* acquire() never runs out of models to evict: a model that does not fit  *)
(* although it fits alone shares VRAM with another one.                    *)
(***************************************************************************)
THEOREM EvictionAlwaysSuffices == Spec => []EvictionSuffices
<1>1. TypeOK /\ MemoryInv => EvictionSuffices
  <2> SUFFICES ASSUME TypeOK, MemoryInv, acquiring # None, EvictionCandidates = {}
               PROVE  Fits(acquiring)
    BY DEF EvictionSuffices
  <2>1. acquiring \in Models
    BY DEF TypeOK
  <2>2. Active \cup {acquiring} = {acquiring}
    BY DEF EvictionCandidates
  <2>3. Megabytes({acquiring}, vram) = vram[acquiring]
    BY <2>1, MegabytesOfOne DEF TypeOK, Sizes
  <2> QED
    BY <2>1, <2>2, <2>3 DEF Fits, MemoryInv, FitsAlone
<1> QED
  BY <1>1, TypeCorrect, MemoryInvariant, PTL

-----------------------------------------------------------------------------
(***************************************************************************)
(* The inductive invariant of the two-way hard lock: an acquire() inside   *)
(* the scheduler's lock saw the training lock free, and it stays free      *)
(* until the acquire() ends.                                               *)
(***************************************************************************)
AcquireExcludesTraining == acquiring # None => holder = None

ExclusionInv == TrainingExcludesModels /\ AcquireExcludesTraining

(***************************************************************************)
(* Only FinishAcquire puts a model into VRAM, and only the acquired one.   *)
(***************************************************************************)
LEMMA ActivationIsAcquire ==
  ASSUME TypeOK, [Next]_vars
  PROVE  \/ Active' \subseteq Active
         \/ /\ acquiring \in Models
            /\ Active' = Active \cup {acquiring}
            /\ holder' = holder
            /\ acquiring' = None
<1>1. ASSUME NEW m \in Models, NEW v \in VramSizes, NEW r \in RamSizes,
             Register(m, v, r)
      PROVE  Active' \subseteq Active
  BY <1>1 DEF Register, Active, InTier, TypeOK
<1>2. ASSUME NEW m, NEW t \in {DemotedTier(m), "cold"}, Record(m, t)
      PROVE  Active' \subseteq Active
  BY <1>2 DEF Record, DemotedTier, Active, InTier, TypeOK
<1>3. ASSUME NEW m \in Models, Demote(m) \/ Evict(m)
      PROVE  Active' \subseteq Active
  BY <1>2, <1>3 DEF Demote, Evict
<1>4. CASE EvictForRoom
  BY <1>2, <1>4 DEF EvictForRoom
<1>5. CASE FinishAcquire
  BY <1>5 DEF FinishAcquire, Record, Active, InTier, TypeOK
<1>6. CASE TickModel
  <2>1. CASE UNCHANGED state
    BY <2>1 DEF Active, InTier
  <2> QED
    BY <1>2, <1>6, <2>1 DEF TickModel
<1>7. ASSUME \/ \E m \in Models : BeginAcquire(m)
             \/ BeginTick
             \/ Advance
             \/ \E h \in Holders : BeginTraining(h) \/ TryBeginTraining(h)
             \/ EndTraining
             \/ UNCHANGED vars
      PROVE  Active' \subseteq Active
  <2>1. UNCHANGED state
    BY <1>7 DEF BeginAcquire, BeginTick, Advance, BeginTraining,
                TryBeginTraining, EndTraining, TakeLock, vars
  <2> QED
    BY <2>1 DEF Active, InTier
<1> QED
  BY <1>1, <1>3, <1>4, <1>5, <1>6, <1>7 DEF Next

(***************************************************************************)
(* The guarded lock is taken or released only between two methods, and     *)
(* taken only when nothing is ACTIVE.                                      *)
(***************************************************************************)
LEMMA HolderChange ==
  ASSUME TypeOK, UnknownIsCold, [Next]_vars, GuardedHolder' # GuardedHolder
  PROVE  /\ UNCHANGED state
         /\ GuardedHolder' # None => Active = {}
<1>1. ASSUME NEW h \in Holders, TryBeginTraining(h)
      PROVE  UNCHANGED state /\ Active = {}
  <2>1. \A m \in Models : state[m] # "active"
    BY <1>1 DEF TryBeginTraining, UnknownIsCold
  <2> QED
    BY <1>1, <2>1 DEF TryBeginTraining, TakeLock, Active, InTier
<1>2. ASSUME EndTraining \/ \E h \in Holders : BeginTraining(h)
      PROVE  UNCHANGED state /\ GuardedHolder' = None
  BY <1>2 DEF EndTraining, BeginTraining, TakeLock, GuardedHolder
<1>3. ASSUME \/ \E m \in Models, v \in VramSizes, r \in RamSizes : Register(m, v, r)
             \/ \E m \in Models : BeginAcquire(m) \/ Demote(m) \/ Evict(m)
             \/ EvictForRoom \/ FinishAcquire \/ BeginTick \/ TickModel
             \/ Advance \/ UNCHANGED vars
      PROVE  UNCHANGED <<holder, direct>>
  BY <1>3 DEF Register, BeginAcquire, Demote, Evict, EvictForRoom,
              FinishAcquire, BeginTick, TickModel, Advance, vars, history
<1>4. UNCHANGED <<holder, direct>> => FALSE
  BY DEF GuardedHolder
<1> QED
  BY <1>1, <1>2, <1>3, <1>4 DEF Next

(***************************************************************************)
(* An acquire() starts only while nobody trains.                           *)
(***************************************************************************)
LEMMA AcquireStart ==
  ASSUME [Next]_vars, acquiring' # acquiring, acquiring' # None
  PROVE  holder = None /\ holder' = holder
  BY DEF Next, Register, BeginAcquire, AcquireAllowed, Demote, Evict, EvictForRoom,
         FinishAcquire, BeginTick, TickModel, Advance, BeginTraining,
         TryBeginTraining, EndTraining, TakeLock, vars

(***************************************************************************)
(* The training lock does not change inside a method.                      *)
(***************************************************************************)
LEMMA AcquireExclusionStep ==
  ASSUME AcquireExcludesTraining, [Next]_vars
  PROVE  AcquireExcludesTraining'
<1> SUFFICES ASSUME acquiring' # None
             PROVE  holder' = None
  BY DEF AcquireExcludesTraining
<1>1. CASE acquiring' # acquiring
  BY <1>1, AcquireStart
<1>2. CASE acquiring' = acquiring
  <2>1. holder = None /\ ~LockFree
    BY <1>2 DEF AcquireExcludesTraining, LockFree
  <2>2. holder' = holder
    BY <2>1 DEF Next, Register, BeginAcquire, Demote, Evict, EvictForRoom,
           FinishAcquire, BeginTick, TickModel, Advance, BeginTraining,
           TryBeginTraining, EndTraining, vars
  <2> QED
    BY <2>1, <2>2
<1> QED
  BY <1>1, <1>2

LEMMA ExclusionStep ==
  ASSUME TypeOK, UnknownIsCold, ExclusionInv, [Next]_vars
  PROVE  ExclusionInv'
<1>1. AcquireExcludesTraining'
  BY AcquireExclusionStep DEF ExclusionInv
<1>2. TrainingExcludesModels'
  <2> SUFFICES ASSUME GuardedHolder' # None PROVE Active' = {}
    BY DEF TrainingExcludesModels
  <2>1. CASE GuardedHolder' # GuardedHolder
    BY <2>1, HolderChange DEF Active, InTier
  <2>2. CASE GuardedHolder' = GuardedHolder
    <3>1. Active = {} /\ acquiring = None
      BY <2>2 DEF ExclusionInv, TrainingExcludesModels, AcquireExcludesTraining,
                  GuardedHolder
    <3> QED
      BY <3>1, ActivationIsAcquire, ModelAssumption
  <2> QED
    BY <2>1, <2>2
<1> QED
  BY <1>1, <1>2 DEF ExclusionInv

(***************************************************************************)
(* The scheduler is the two-way hard lock for whoever trains through       *)
(* try_begin_training(): training and models never share VRAM.             *)
(***************************************************************************)
THEOREM TrainingExclusion == Spec => []TrainingExcludesModels
<1>1. Init => ExclusionInv
  BY DEF Init, ExclusionInv, TrainingExcludesModels, AcquireExcludesTraining,
         GuardedHolder
<1>2. TypeOK /\ MemoryInv /\ ExclusionInv /\ [Next]_vars => ExclusionInv'
  BY ExclusionStep DEF MemoryInv
<1>3. ExclusionInv => TrainingExcludesModels
  BY DEF ExclusionInv
<1> QED
  BY <1>1, <1>2, <1>3, TypeCorrect, MemoryInvariant, PTL DEF Spec

(***************************************************************************)
(* Every step of the scheduler is a step of VramAdmission or changes       *)
(* neither the set of ACTIVE models nor the lock.                          *)
(***************************************************************************)
THEOREM SchedulerImplementsAdmission == Spec => ImplementsAdmission
<1>1. Init => Admission!Init
  BY DEF Init, Admission!Init, Active, InTier, GuardedHolder
<1>2. ASSUME TypeOK, TypeOK', MemoryInv, ExclusionInv, [Next]_vars
      PROVE  [Admission!Next]_(Admission!admissionVars)
  <2>1. CASE GuardedHolder' # GuardedHolder
    <3>1. Active' = Active /\ (GuardedHolder' # None => Active = {})
      BY <1>2, <2>1, HolderChange DEF MemoryInv, Active, InTier
    <3>2. GuardedHolder' \in Holders \cup {None}
      BY <1>2 DEF TypeOK, GuardedHolder
    <3> QED
      BY <3>1, <3>2 DEF Admission!Next, Admission!TryBegin, Admission!End
  <2>2. CASE GuardedHolder' = GuardedHolder /\ ~(Active' \subseteq Active)
    <3>1. /\ acquiring \in Models
          /\ Active' = Active \cup {acquiring}
      BY <1>2, <2>2, ActivationIsAcquire
    <3>2. GuardedHolder = None /\ acquiring \notin Active
      BY <1>2, <2>2, <3>1, ModelAssumption
         DEF ExclusionInv, AcquireExcludesTraining, GuardedHolder
    <3> QED
      BY <2>2, <3>1, <3>2 DEF Admission!Next, Admission!Activate
  <2>3. CASE GuardedHolder' = GuardedHolder /\ Active' \subseteq Active
    <3>1. ASSUME Active' # Active
          PROVE  \E m \in Active : Active' = Active \ {m}
      <4>1. ASSUME NEW m \in Models, NEW t \in Tiers,
                   state' = [state EXCEPT ![m] = t]
            PROVE  \E n \in Active : Active' = Active \ {n}
        BY <1>2, <2>3, <3>1, <4>1 DEF TypeOK, Active, InTier
      <4>2. UNCHANGED state => FALSE
        BY <3>1 DEF Active, InTier
      <4>3. \E m \in Models, t \in Tiers : state' = [state EXCEPT ![m] = t]
        <5>1. ASSUME NEW m \in Models, NEW v \in VramSizes, NEW r \in RamSizes,
                     Register(m, v, r)
              PROVE  state' = [state EXCEPT ![m] = "cold"]
          BY <5>1 DEF Register
        <5>2. ASSUME NEW m \in Models, Demote(m) \/ Evict(m)
              PROVE  \E t \in Tiers : state' = [state EXCEPT ![m] = t]
          BY <5>2 DEF Demote, Evict, Record, DemotedTier, Tiers
        <5>3. CASE EvictForRoom
          BY <5>3 DEF EvictForRoom, EvictionCandidates, Active, InTier, Record,
                      DemotedTier, Tiers
        <5>4. CASE FinishAcquire
          BY <1>2, <5>4 DEF FinishAcquire, Record, TypeOK, Tiers
        <5>5. CASE TickModel
          <6>1. registry[scan] \in Models
            BY <1>2, <5>5 DEF TypeOK, TickModel
          <6> QED
            BY <4>2, <5>5, <6>1 DEF TickModel, Record, DemotedTier, Tiers
        <5>6. ASSUME \/ \E m \in Models : BeginAcquire(m)
                     \/ BeginTick
                     \/ Advance
                     \/ \E h \in Holders : BeginTraining(h) \/ TryBeginTraining(h)
                     \/ EndTraining
                     \/ UNCHANGED vars
              PROVE  UNCHANGED state
          BY <5>6 DEF BeginAcquire, BeginTick, Advance, BeginTraining,
                      TryBeginTraining, EndTraining, TakeLock, vars
        <5> QED
          BY <1>2, <4>2, <5>1, <5>2, <5>3, <5>4, <5>5, <5>6 DEF Next, Tiers
      <4> QED
        BY <4>1, <4>3
    <3>2. Active \subseteq Models
      BY DEF Active, InTier
    <3> QED
      BY <2>3, <3>1, <3>2
         DEF Admission!Next, Admission!Deactivate, Admission!admissionVars
  <2> QED
    BY <2>1, <2>2, <2>3
<1>3. Init => ExclusionInv
  BY DEF Init, ExclusionInv, TrainingExcludesModels, AcquireExcludesTraining,
         GuardedHolder
<1>4. TypeOK /\ MemoryInv /\ ExclusionInv /\ [Next]_vars => ExclusionInv'
  BY ExclusionStep DEF MemoryInv
<1> QED
  BY <1>1, <1>2, <1>3, <1>4, TypeCorrect, MemoryInvariant, PTL
     DEF Spec, ImplementsAdmission, Admission!Spec

(***************************************************************************)
(* However the training lock is taken, begin_training() included, no step  *)
(* puts a model into VRAM while it is held.                                *)
(***************************************************************************)
THEOREM LockedMeansNoActivation == Spec => TrainingBlocksActivation
<1>1. Init => AcquireExcludesTraining
  BY DEF Init, AcquireExcludesTraining
<1>2. AcquireExcludesTraining /\ [Next]_vars => AcquireExcludesTraining'
  BY AcquireExclusionStep
<1>3. TypeOK /\ AcquireExcludesTraining /\ [Next]_vars
        => [holder # None => Active' \subseteq Active]_vars
  <2> SUFFICES ASSUME TypeOK, AcquireExcludesTraining, [Next]_vars, holder # None
               PROVE  Active' \subseteq Active
    OBVIOUS
  <2>1. acquiring = None
    BY DEF AcquireExcludesTraining
  <2> QED
    BY <2>1, ActivationIsAcquire, ModelAssumption
<1> QED
  BY <1>1, <1>2, <1>3, TypeCorrect, PTL DEF Spec, TrainingBlocksActivation

(***************************************************************************)
(* But for the names registered again while they were loaded, replaying    *)
(* the event log gives the placement the scheduler accounts with.          *)
(***************************************************************************)
PlacedIsState == \A m \in Models \ replaced : placed[m] = state[m]

THEOREM LogReplayExact == Spec => []LogReplayMatchesState
<1>1. Init => PlacedIsState
  BY DEF Init, PlacedIsState
<1>2. ASSUME TypeOK, MemoryInv, PlacedIsState, [Next]_vars
      PROVE  PlacedIsState'
  <2> USE <1>2 DEF PlacedIsState
  <2>1. ASSUME NEW m \in Models, NEW v \in VramSizes, NEW r \in RamSizes,
               Register(m, v, r)
        PROVE  PlacedIsState'
    BY <2>1 DEF Register, TypeOK
  <2>2. ASSUME NEW m, NEW t, Record(m, t), UNCHANGED replaced
        PROVE  PlacedIsState'
    <3>1. CASE state[m] = t
      <4>1. [state EXCEPT ![m] = t] = state
        BY <3>1 DEF TypeOK
      <4> QED
        BY <2>2, <3>1, <4>1 DEF Record
    <3>2. CASE state[m] # t
      BY <2>2, <3>2 DEF Record, TypeOK
    <3> QED
      BY <3>1, <3>2
  <2>3. ASSUME \/ \E m \in Models : Demote(m) \/ Evict(m)
               \/ EvictForRoom \/ FinishAcquire \/ TickModel
        PROVE  PlacedIsState'
    <3>1. /\ UNCHANGED replaced
          /\ \/ \E m, t : Record(m, t)
             \/ UNCHANGED <<state, placed>>
      BY <2>3 DEF Demote, Evict, EvictForRoom, FinishAcquire, TickModel, history
    <3> QED
      BY <2>2, <3>1
  <2>4. ASSUME \/ \E m \in Models : BeginAcquire(m)
               \/ BeginTick \/ Advance
               \/ \E h \in Holders : BeginTraining(h) \/ TryBeginTraining(h)
               \/ EndTraining \/ UNCHANGED vars
        PROVE  PlacedIsState'
    BY <2>4 DEF BeginAcquire, BeginTick, Advance, BeginTraining,
                TryBeginTraining, EndTraining, TakeLock, history, vars
  <2> QED
    BY <2>1, <2>3, <2>4 DEF Next
<1>3. TypeOK /\ PlacedIsState => LogReplayMatchesState
  BY KnownAreModels DEF PlacedIsState, LogReplayMatchesState
<1> QED
  BY <1>1, <1>2, <1>3, TypeCorrect, MemoryInvariant, PTL DEF Spec
=============================================================================
