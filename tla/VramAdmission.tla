--------------------------- MODULE VramAdmission ---------------------------
(***************************************************************************)
(* What the VRAM scheduler promises the rest of the application (spec 7.3, *)
(* the "two-way hard lock"): a set of models resident in VRAM and one      *)
(* exclusive training lock that exclude each other.  A model may enter     *)
(* VRAM only while nobody trains, training may start only while no model   *)
(* is in VRAM.  How models are chosen for eviction, tiers and budgets are  *)
(* matters of VramScheduler, which implements this specification.          *)
(***************************************************************************)
CONSTANTS Models,    \* names of the managed models
          Holders,   \* identifiers a training lock can be held under
          None       \* nobody holds the lock

VARIABLES active,    \* models resident in VRAM
          holder     \* holder of the training lock, or None

admissionVars == <<active, holder>>

Init == /\ active = {}
        /\ holder = None

Activate(m) == /\ holder = None
               /\ m \notin active
               /\ active' = active \cup {m}
               /\ UNCHANGED holder

\* A model leaves VRAM: by eviction, idle demotion or replacement.
Deactivate(m) == /\ m \in active
                 /\ active' = active \ {m}
                 /\ UNCHANGED holder

\* The ACTIVE scan and the lock-take in one indivisible step.  The lock is
\* not queued for: a second taker becomes the holder of record.
TryBegin(h) == /\ active = {}
               /\ holder' = h
               /\ UNCHANGED active

End == /\ holder' = None
       /\ UNCHANGED active

Next == \/ \E m \in Models : Activate(m) \/ Deactivate(m)
        \/ \E h \in Holders : TryBegin(h)
        \/ End

Spec == Init /\ [][Next]_admissionVars

(***************************************************************************)
(* While a training job holds the lock no managed model occupies VRAM.     *)
(***************************************************************************)
TrainingExcludesModels == holder # None => active = {}
=============================================================================
