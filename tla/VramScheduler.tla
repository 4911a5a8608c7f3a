--------------------------- MODULE VramScheduler ---------------------------
(***************************************************************************)
(* ModelScheduler of core/scheduler/vram.py: Active / Warm / Cold          *)
(* placement of in-process models under a VRAM and a RAM budget, and the   *)
(* exclusive training lock.                                                *)
(*                                                                         *)
(* Every public method runs under one re-entrant lock.  Methods without a  *)
(* loop are one action.  acquire() and tick() loop over models, demoting   *)
(* them one after the other with the RAM tier re-examined each time; they  *)
(* are modelled iteration by iteration, with `acquiring` and `scan` saying *)
(* that the method is inside the lock: no other method runs until it ends. *)
(***************************************************************************)
EXTENDS Integers, Sequences, FiniteSets

CONSTANTS Models,          \* model names
          Holders,         \* training lock holders (job ids)
          None,            \* no model / no holder
          VramBudget,      \* SchedulerBudget.vram_budget_mb
          RamBudget,       \* SchedulerBudget.ram_budget_mb
          WarmTierMinRam,  \* WARM_TIER_MIN_RAM_MB
          VramSizes,       \* vram_mb values callers register
          RamSizes,        \* ram_mb values callers register
          MaxMb,           \* bound on one model's footprint
          IdleOffload,     \* idle_offload_sec of each model
          ColdOffload,     \* cold_offload_sec of each model
          MaxTime          \* bound on the injected clock

ASSUME BudgetAssumption == VramBudget \in Nat /\ RamBudget \in Nat
ASSUME FootprintAssumption ==
  /\ MaxMb \in Nat
  /\ VramSizes \subseteq 0..MaxMb
  /\ RamSizes \subseteq 0..MaxMb
ASSUME ModelAssumption ==
  /\ IsFiniteSet(Models)
  /\ None \notin Models
  /\ None \notin Holders
ASSUME TimeAssumption ==
  /\ IdleOffload \in [Models -> Nat]
  /\ ColdOffload \in [Models -> Nat]
  /\ MaxTime \in Nat
ASSUME WarmTierAssumption == WarmTierMinRam \in Nat

VARIABLES registry,   \* keys of _models in insertion order
          state,      \* RuntimeState of each model
          vram,       \* vram_mb of the registered object
          ram,        \* ram_mb of the registered object
          lastUsed,   \* last_used_at
          holder,     \* _training_lock_holder
          placed,     \* placement reached by replaying the TransitionEvent log
          now,        \* the injected clock
          acquiring,  \* model whose acquire() holds the lock, or None
          scan,       \* position of the tick() that holds the lock, or 0
          direct,     \* history: the lock was taken by begin_training()
          replaced    \* history: names registered again while not COLD

modelVars == <<registry, vram, ram>>
history == <<direct, replaced>>
vars == <<registry, state, vram, ram, lastUsed, holder, placed, now,
          acquiring, scan, direct, replaced>>

Tiers == {"active", "warm", "cold"}

Known == {registry[i] : i \in 1..Len(registry)}
InTier(t) == {m \in Models : state[m] = t}
Active == InTier("active")

\* Megabytes the models of S occupy, when model m occupies size[m].
Megabytes(S, size) == Cardinality({p \in S \X (1..MaxMb) : p[2] <= size[p[1]]})

VramUsed == Megabytes(Active, vram)
RamUsed == Megabytes(InTier("warm"), ram)

WarmTierEnabled == RamBudget >= WarmTierMinRam

LockFree == acquiring = None /\ scan = 0

Init == /\ registry = <<>>
        /\ state = [m \in Models |-> "cold"]
        /\ vram = [m \in Models |-> 0]
        /\ ram = [m \in Models |-> 0]
        /\ lastUsed = [m \in Models |-> 0]
        /\ holder = None
        /\ placed = [m \in Models |-> "cold"]
        /\ now = 0
        /\ acquiring = None
        /\ scan = 0
        /\ direct = FALSE
        /\ replaced = {}

\* (mutant) Evictions to Cold leave no event.
RecordWithoutColdEvents(m, to) ==
  /\ state' = [state EXCEPT ![m] = to]
  /\ placed' = IF state[m] = to \/ to = "cold" THEN placed
               ELSE [placed EXCEPT ![m] = to]

\* _record: the state change and the event, which is emitted on a change only.
Record(m, to) ==
  /\ state' = [state EXCEPT ![m] = to]
  /\ placed' = IF state[m] = to THEN placed ELSE [placed EXCEPT ![m] = to]

\* (mutant) The RAM pressure test is dropped.
DemotedTierIgnoringRam(m) == IF WarmTierEnabled THEN "warm" ELSE "cold"

\* Where demote() sends an Active model: Warm when that tier exists and has room.
DemotedTier(m) ==
  IF WarmTierEnabled /\ RamUsed + ram[m] <= RamBudget THEN "warm" ELSE "cold"

-----------------------------------------------------------------------------
\* (mutant) No size check in register().
AdmissibleAnySize(v) == TRUE

Admissible(v) == v <= VramBudget

\* register(): a fresh ManagedModel (COLD, never used) replaces whatever the
\* name stood for, without an event; its key keeps its place in the dict.
Register(m, v, r) ==
  /\ LockFree
  /\ Admissible(v)
  /\ registry' = IF m \in Known THEN registry ELSE Append(registry, m)
  /\ vram' = [vram EXCEPT ![m] = v]
  /\ ram' = [ram EXCEPT ![m] = r]
  /\ state' = [state EXCEPT ![m] = "cold"]
  /\ lastUsed' = [lastUsed EXCEPT ![m] = 0]
  /\ replaced' = IF state[m] = "cold" THEN replaced ELSE replaced \cup {m}
  /\ UNCHANGED <<holder, placed, now, acquiring, scan, direct>>

\* (mutant) acquire() does not look at the training lock.
AcquireNeverRefused == TRUE

AcquireAllowed == holder = None

\* acquire() past its training-lock check.
BeginAcquire(m) ==
  /\ LockFree
  /\ AcquireAllowed
  /\ m \in Known
  /\ acquiring' = m
  /\ UNCHANGED <<modelVars, state, lastUsed, holder, placed, now, scan,
                 history>>

\* The incoming model next to everything Active; its own residency is not
\* counted twice when it already is Active.
Fits(m) == Megabytes(Active \cup {m}, vram) <= VramBudget

EvictionCandidates == Active \ {acquiring}

\* Order of the candidates: least recently used first, ties in dict order.
EvictedBefore(m, n) ==
  \/ lastUsed[m] < lastUsed[n]
  \/ /\ lastUsed[m] = lastUsed[n]
     /\ \E i, j \in 1..Len(registry) : i < j /\ registry[i] = m /\ registry[j] = n

\* One iteration of the loop of _free_vram_for().
EvictForRoom ==
  /\ acquiring # None
  /\ ~Fits(acquiring)
  /\ \E m \in EvictionCandidates :
       /\ \A n \in EvictionCandidates \ {m} : EvictedBefore(m, n)
       /\ Record(m, DemotedTier(m))
  /\ UNCHANGED <<modelVars, lastUsed, holder, now, acquiring, scan, history>>

FinishAcquire ==
  /\ acquiring # None
  /\ Fits(acquiring)
  /\ Record(acquiring, "active")
  /\ lastUsed' = [lastUsed EXCEPT ![acquiring] = now]
  /\ acquiring' = None
  /\ UNCHANGED <<modelVars, holder, now, scan, history>>

\* demote() called from outside.
Demote(m) ==
  /\ LockFree
  /\ m \in Known
  /\ state[m] = "active"
  /\ Record(m, DemotedTier(m))
  /\ UNCHANGED <<modelVars, lastUsed, holder, now, acquiring, scan, history>>

\* evict() called from outside.
Evict(m) ==
  /\ LockFree
  /\ m \in Known
  /\ state[m] # "cold"
  /\ Record(m, "cold")
  /\ UNCHANGED <<modelVars, lastUsed, holder, now, acquiring, scan, history>>

-----------------------------------------------------------------------------
Idle(m) == now - lastUsed[m]

OverdueActive(m) == state[m] = "active" /\ Idle(m) >= IdleOffload[m]
OverdueWarm(m) == state[m] = "warm" /\ Idle(m) >= ColdOffload[m]

BeginTick ==
  /\ LockFree
  /\ registry # <<>>
  /\ scan' = 1
  /\ UNCHANGED <<modelVars, state, lastUsed, holder, placed, now, acquiring,
                 history>>

NextScan == IF scan = Len(registry) THEN 0 ELSE scan + 1

\* One iteration of tick(); a model demoted to Warm is not looked at again.
TickModel ==
  /\ scan # 0
  /\ LET m == registry[scan] IN
       \/ OverdueActive(m) /\ Record(m, DemotedTier(m))
       \/ OverdueWarm(m) /\ Record(m, "cold")
       \/ ~OverdueActive(m) /\ ~OverdueWarm(m) /\ UNCHANGED <<state, placed>>
  /\ scan' = NextScan
  /\ UNCHANGED <<modelVars, lastUsed, holder, now, acquiring, history>>

\* The clock is read in seconds; it does not advance inside a method.
Advance ==
  /\ LockFree
  /\ now < MaxTime
  /\ now' = now + 1
  /\ UNCHANGED <<modelVars, state, lastUsed, holder, placed, acquiring, scan,
                 history>>

-----------------------------------------------------------------------------
TakeLock(h) ==
  /\ holder' = h
  /\ UNCHANGED <<modelVars, state, lastUsed, placed, now, acquiring, scan,
                 replaced>>

\* begin_training(): takes the lock without looking at the models.
BeginTraining(h) ==
  /\ LockFree
  /\ direct' = TRUE
  /\ TakeLock(h)

\* (mutant) The ACTIVE scan and the lock-take are not one atomic call.
TryBeginTrainingUnlocked(h) ==
  /\ \A m \in Known : state[m] # "active"
  /\ direct' = FALSE
  /\ TakeLock(h)

\* try_begin_training() when the scan finds nothing ACTIVE; otherwise it only
\* returns the names.  An existing holder is overwritten.
TryBeginTraining(h) ==
  /\ LockFree
  /\ \A m \in Known : state[m] # "active"
  /\ direct' = FALSE
  /\ TakeLock(h)

EndTraining ==
  /\ LockFree
  /\ direct' = FALSE
  /\ TakeLock(None)

Next ==
  \/ \E m \in Models, v \in VramSizes, r \in RamSizes : Register(m, v, r)
  \/ \E m \in Models : BeginAcquire(m) \/ Demote(m) \/ Evict(m)
  \/ EvictForRoom
  \/ FinishAcquire
  \/ BeginTick
  \/ TickModel
  \/ Advance
  \/ \E h \in Holders : BeginTraining(h) \/ TryBeginTraining(h)
  \/ EndTraining

Spec == Init /\ [][Next]_vars

-----------------------------------------------------------------------------
TypeOK ==
  /\ registry \in Seq(Models)
  /\ state \in [Models -> Tiers]
  /\ vram \in [Models -> 0..MaxMb]
  /\ ram \in [Models -> 0..MaxMb]
  /\ lastUsed \in [Models -> Nat]
  /\ holder \in Holders \cup {None}
  /\ placed \in [Models -> Tiers]
  /\ now \in Nat
  /\ acquiring \in Models \cup {None}
  /\ scan \in 0..Len(registry)
  /\ direct \in BOOLEAN
  /\ replaced \in SUBSET Models

VramWithinBudget == VramUsed <= VramBudget
RamWithinBudget == RamUsed <= RamBudget

(***************************************************************************)
(* The models accounted as ACTIVE never exceed the VRAM budget, in the     *)
(* middle of an acquire() included (vram.py:23, :266), and the WARM ones   *)
(* never the RAM budget, however many demotions one acquire() or tick()    *)
(* chains (vram.py:317-330).                                               *)
(***************************************************************************)
WithinBudgets == VramWithinBudget /\ RamWithinBudget

(***************************************************************************)
(* The error path at vram.py:308-312 is dead: as register() refuses a      *)
(* model larger than the budget, an acquire() that lacks room always has   *)
(* another ACTIVE model to demote, so it never gives up after evicting.    *)
(***************************************************************************)
EvictionSuffices ==
  acquiring # None /\ ~Fits(acquiring) => EvictionCandidates # {}

\* The holder that looked at the models before it took the lock.
GuardedHolder == IF direct THEN None ELSE holder

(***************************************************************************)
(* Spec 7.3 direction (a) and (b): while a training that came in through   *)
(* try_begin_training() holds the lock no managed model occupies VRAM.     *)
(***************************************************************************)
TrainingExcludesModels == GuardedHolder # None => Active = {}

(***************************************************************************)
(* No step puts a model into VRAM while the training lock is held, however *)
(* the lock was taken (vram.py:106-112).                                   *)
(***************************************************************************)
TrainingBlocksActivation == [][holder # None => Active' \subseteq Active]_vars

(***************************************************************************)
(* A caller that moves weights as the TransitionEvent log says (vram.py:   *)
(* 100-103) has every model where the scheduler accounts for it, but for   *)
(* the names it registered again while they were loaded.                   *)
(***************************************************************************)
LogReplayMatchesState == \A m \in Known \ replaced : placed[m] = state[m]

(***************************************************************************)
(* The scheduler implements the two-way hard lock.                         *)
(***************************************************************************)
Admission ==
  INSTANCE VramAdmission WITH active <- Active, holder <- GuardedHolder
ImplementsAdmission == Admission!Spec
=============================================================================
