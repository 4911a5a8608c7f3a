------------------------- MODULE CrossProjectProofs -------------------------
(***************************************************************************)
(* Proofs about FileLock and CrossProject, for any number of threads,      *)
(* processes, references, changes and faults: threads of one process       *)
(* exclude each other, entries of origins.json are not lost, and each has  *)
(* its copy, which is the one its entry names unless something disturbed   *)
(* the request.                                                            *)
(***************************************************************************)
EXTENDS CrossProject, WellFoundedInduction, TLAPS

-----------------------------------------------------------------------------
(***************************************************************************)
(* The lock.  A thread that is not done with it holds the lock of its      *)
(* process.                                                                *)
(***************************************************************************)
LockShape ==
  /\ processOf \in [Clients -> Processes]
  /\ threadLock = [p \in Processes |-> threadLock[p]]
  /\ lockPc = [c \in Clients |-> lockPc[c]]

HoldersLock == \A c \in Clients : lockPc[c] # "free" => threadLock[processOf[c]] = c

LockInv == LockShape /\ HoldersLock

LockStep(c) == OpenLock(c) \/ Flock(c) \/ FlockTimeout(c) \/ Unlock(c) \/ CloseLock(c)

LEMMA LockInvInitial == LockInit => LockInv
BY DEF LockInit, LockInv, LockShape, HoldersLock

LEMMA LockInvExcludes == LockInv => ThreadsExclude
BY DEF LockInv, HoldersLock, ThreadsExclude

\* A step of one thread.
LEMMA LockInvStep ==
  ASSUME LockInv, NEW c \in Clients, LockStep(c)
  PROVE  /\ LockInv'
         /\ processOf' = processOf
         /\ \A d \in Clients \ {c} : lockPc'[d] = lockPc[d]
<1>1. CASE OpenLock(c)
  <2>1. threadLock[processOf[c]] = None /\ c # None
    BY <1>1, LockAssumption DEF OpenLock, ThreadLockFree
  <2>2. \A d \in Clients : processOf[d] = processOf[c] => lockPc[d] = "free"
    BY <2>1, LockAssumption DEF LockInv, HoldersLock
  <2> QED
    BY <1>1, <2>2 DEF OpenLock, LockInv, LockShape, HoldersLock
<1>2. CASE Flock(c) \/ FlockTimeout(c) \/ Unlock(c)
  BY <1>2 DEF Flock, FlockTimeout, Unlock, LockInv, LockShape, HoldersLock
<1>3. CASE CloseLock(c)
  <2>1. \A d \in Clients : processOf[d] = processOf[c] /\ d # c => lockPc[d] = "free"
    BY <1>3 DEF CloseLock, LockInv, HoldersLock
  <2> QED
    BY <1>3, <2>1 DEF CloseLock, LockInv, LockShape, HoldersLock
<1> QED
  BY <1>1, <1>2, <1>3 DEF LockStep

\* The end of a process.
LEMMA LockInvEnd ==
  ASSUME LockInv, NEW p \in Processes, EndProcess(p)
  PROVE  /\ LockInv'
         /\ processOf' = processOf
         /\ \A d \in Clients : lockPc'[d] = IF processOf[d] = p THEN "free" ELSE lockPc[d]
BY DEF EndProcess, LockInv, LockShape, HoldersLock

-----------------------------------------------------------------------------
(***************************************************************************)
(* Shapes of the variables the proofs follow.                              *)
(***************************************************************************)
Shape ==
  /\ copy = [r \in Refs |-> copy[r]]
  /\ origins = [r \in Refs |-> origins[r]]
  /\ pc = [c \in Clients |-> pc[c]]
  /\ todo \in [Clients -> Seq(Refs)]
  /\ target \in [Clients -> Refs \cup {None}]
  /\ hashed = [c \in Clients |-> hashed[c]]
  /\ view = [c \in Clients |-> view[c]]
  /\ \A c \in Clients : view[c] = [r \in Refs |-> view[c][r]]

\* A request in the middle of a reference has a target and its hash; one that is at
\* its next reference has one.
Hashing == {"copy", "copying", "copied", "origins", "record"}
RequestKnown ==
  \A c \in Clients : /\ pc[c] \in Hashing \cup {"hash"} => target[c] \in Refs
                     /\ pc[c] \in Hashing => hashed[c] # Missing
                     /\ pc[c] = "resolve" => todo[c] # <<>>

ShapeInv == Shape /\ RequestKnown /\ LockInv

LEMMA ShapeInvInitial == CrossInit => ShapeInv
<1> SUFFICES ASSUME CrossInit PROVE ShapeInv
  OBVIOUS
<1>1. LockInv
  BY LockInvInitial DEF CrossInit
<1>2. Shape /\ RequestKnown
  BY DEF CrossInit, Shape, RequestKnown, Hashing, NoOrigins
<1> QED
  BY <1>1, <1>2 DEF ShapeInv

LEMMA RefsAreRefs == Order \in Seq(Refs) /\ \A refs \in RefLists : refs \in Seq(Refs)
<1>1. \A r \in Refs : <<r>> \in Seq(Refs)
  OBVIOUS
<1> QED
  BY <1>1, RefAssumption DEF RefLists

\* Where a request goes next.
LEMMA RemainingIs ==
  ASSUME NEW rest PROVE /\ Remaining(rest) \in {"done", "resolve"}
                        /\ Remaining(rest) = "resolve" => rest # <<>>
BY DEF Remaining

LEMMA ShapeInvStep == ShapeInv /\ [CrossNext]_vars => ShapeInv'
<1> SUFFICES ASSUME ShapeInv, [CrossNext]_vars PROVE ShapeInv'
  OBVIOUS
<1> USE DEF ShapeInv
<1>1. ASSUME NEW c \in Clients, NEW refs \in RefLists, Begin(c, refs) PROVE ShapeInv'
  BY <1>1, RefsAreRefs, RemainingIs
  DEF Begin, Step, Shape, RequestKnown, Hashing, projectVars, lockVars, LockInv, LockShape,
      HoldersLock
<1>2. ASSUME NEW c \in Clients, ResolveNext(c) PROVE ShapeInv'
  <2>1. todo[c] \in Seq(Refs) /\ todo[c] # <<>>
    BY <1>2 DEF ResolveNext, Shape, RequestKnown
  <2>2. Head(todo[c]) \in Refs /\ Tail(todo[c]) \in Seq(Refs)
    BY <2>1
  <2>3. /\ pc' = [pc EXCEPT ![c] = pc'[c]]
        /\ pc'[c] = "hash" \/ pc'[c] = Remaining(Tail(todo[c]))
    BY <1>2 DEF ResolveNext, Shape
  <2>4. /\ target' = [target EXCEPT ![c] = Head(todo[c])]
        /\ todo' = [todo EXCEPT ![c] = Tail(todo[c])]
        /\ copy' = [s \in Refs |-> copy'[s]]
        /\ UNCHANGED <<lockVars, origins, hashed, view>>
    BY <1>2 DEF ResolveNext
  <2>5. Shape'
    BY <2>2, <2>3, <2>4 DEF Shape
  <2>6. RequestKnown'
    BY <2>1, <2>2, <2>3, <2>4, RemainingIs DEF Shape, RequestKnown, Hashing
  <2> QED
    BY <2>4, <2>5, <2>6 DEF LockInv, LockShape, HoldersLock, lockVars
<1>3. ASSUME NEW c \in Clients, HashSource(c) PROVE ShapeInv'
  BY <1>3
  DEF HashSource, Step, Shape, RequestKnown, Hashing, projectVars, lockVars, LockInv, LockShape,
      HoldersLock
<1>4. ASSUME NEW c \in Clients, TakeLock(c) PROVE ShapeInv'
  BY <1>4, LockInvStep
  DEF TakeLock, LockStep, Shape, RequestKnown, projectVars, requestVars, workVars
<1>5. ASSUME NEW c \in Clients, LockFails(c) PROVE ShapeInv'
  <2>1. LockInv'
    BY <1>5, LockInvStep DEF LockFails, LockStep, LockInv, LockShape, HoldersLock, lockVars
  <2>2. /\ pc' = [pc EXCEPT ![c] = pc'[c]]
        /\ pc'[c] \in {"raised", "done"} \/ pc'[c] = Remaining(todo[c])
    BY <1>5 DEF LockFails, AfterException, Shape
  <2> QED
    BY <1>5, <2>1, <2>2, RemainingIs
    DEF LockFails, Shape, RequestKnown, Hashing, projectVars, workVars
<1>6. ASSUME NEW c \in Clients, BeginCopy(c) PROVE ShapeInv'
  BY <1>6
  DEF BeginCopy, Step, Shape, RequestKnown, Hashing, lockVars, LockInv, LockShape, HoldersLock
<1>7. ASSUME NEW c \in Clients, FinishCopy(c) PROVE ShapeInv'
  <2>1. copy' = [s \in Refs |-> copy'[s]]
    BY <1>7 DEF FinishCopy, Shape
  <2> QED
    BY <1>7, <2>1
    DEF FinishCopy, Step, Shape, RequestKnown, Hashing, lockVars, LockInv, LockShape, HoldersLock
<1>8. ASSUME NEW c \in Clients, ReadOrigins(c) PROVE ShapeInv'
  <2>1. /\ view' = [d \in Clients |-> view'[d]]
        /\ \A d \in Clients : view'[d] = [r \in Refs |-> view'[d][r]]
    <3>1. \A d \in Clients : view'[d] \in {view[d], origins, NoOrigins}
      BY <1>8 DEF ReadOrigins, Shape
    <3>2. view' = [d \in Clients |-> view'[d]]
      BY <1>8 DEF ReadOrigins, Shape
    <3> QED
      BY <3>1, <3>2 DEF Shape, NoOrigins
  <2>2. Shape'
    BY <1>8, <2>1 DEF ReadOrigins, Step, Shape, projectVars
  <2>3. RequestKnown'
    BY <1>8 DEF ReadOrigins, Step, Shape, RequestKnown, Hashing
  <2>4. UNCHANGED <<processOf, threadLock, lockPc>>
    BY <1>8 DEF ReadOrigins, lockVars
  <2> QED
    BY <2>2, <2>3, <2>4 DEF LockInv, LockShape, HoldersLock
<1>9. ASSUME NEW c \in Clients, WriteOrigins(c) PROVE ShapeInv'
  <2>1. origins' = [r \in Refs |-> origins'[r]]
    BY <1>9 DEF WriteOrigins, Shape
  <2>2. /\ view' = [d \in Clients |-> view'[d]]
        /\ \A d \in Clients : view'[d] = [r \in Refs |-> view'[d][r]]
    <3>1. \A d \in Clients : view'[d] = IF d = c THEN NoOrigins ELSE view[d]
      BY <1>9 DEF WriteOrigins, Shape
    <3>2. view' = [d \in Clients |-> view'[d]]
      BY <1>9 DEF WriteOrigins, Shape
    <3> QED
      BY <3>1, <3>2 DEF Shape, NoOrigins
  <2>3. UNCHANGED <<processOf, threadLock, lockPc>>
    BY <1>9 DEF WriteOrigins, lockVars
  <2>4. RequestKnown'
    BY <1>9 DEF WriteOrigins, Step, Shape, RequestKnown, Hashing
  <2>5. Shape'
    BY <1>9, <2>1, <2>2 DEF WriteOrigins, Step, Shape
  <2> QED
    BY <2>3, <2>4, <2>5 DEF LockInv, LockShape, HoldersLock
<1>10. ASSUME NEW c \in Clients, LeaveLock(c) PROVE ShapeInv'
  <2>1. LockInv'
    BY <1>10, LockInvStep DEF LeaveLock, LockStep
  <2>2. /\ pc' = [pc EXCEPT ![c] = pc'[c]]
        /\ \/ pc'[c] = pc[c]
           \/ pc[c] = "copied" /\ pc'[c] = "origins"
           \/ pc'[c] \in {"done", Remaining(todo[c])}
    BY <1>10 DEF LeaveLock, Leaving, AfterSection, AfterException, Shape
  <2> QED
    BY <1>10, <2>1, <2>2, RemainingIs
    DEF LeaveLock, Shape, RequestKnown, Hashing, projectVars, workVars
<1>11. ASSUME NEW r \in Refs, SourceChanges(r) PROVE ShapeInv'
  BY <1>11
  DEF SourceChanges, Shape, RequestKnown, lockVars, requestVars, workVars, LockInv, LockShape,
      HoldersLock
<1>12. ASSUME NEW p \in Processes, Crash(p) PROVE ShapeInv'
  <2>1. LockInv'
    BY <1>12, LockInvEnd DEF Crash
  <2>2. /\ pc' = [c \in Clients |-> pc'[c]]
        /\ \A c \in Clients : pc'[c] \in {"done", pc[c]}
    BY <1>12 DEF Crash
  <2> QED
    BY <1>12, <2>1, <2>2 DEF Crash, Shape, RequestKnown, Hashing, projectVars, workVars
<1>13. CASE UNCHANGED vars
  BY <1>13
  DEF vars, lockVars, projectVars, requestVars, workVars, Shape, RequestKnown, LockInv, LockShape,
      HoldersLock
<1> QED
  BY <1>1, <1>2, <1>3, <1>4, <1>5, <1>6, <1>7, <1>8, <1>9, <1>10, <1>11, <1>12, <1>13
  DEF CrossNext, Serve

(***************************************************************************)
(* Two threads of one process are never inside the lock at once, whoever   *)
(* crashes, times out or unlinks the lock file.                            *)
(***************************************************************************)
THEOREM LockExcludesThreads == CrossSpec => []ThreadsExclude
<1>1. ShapeInv => ThreadsExclude
  BY LockInvExcludes DEF ShapeInv
<1> QED
  BY <1>1, ShapeInvInitial, ShapeInvStep, PTL DEF CrossSpec

-----------------------------------------------------------------------------
(***************************************************************************)
(* Types.  A file of the source project is of a revision up to the last    *)
(* change, and a request that is past the resolution has the version whose *)
(* file it reads.                                                          *)
(***************************************************************************)
Revised == \A r \in Refs : source[r] # Missing => source[r][2] <= changes

Points == {"idle", "resolve", "hash", "recorded", "raised", "done"} \cup Halfway

PathKnown == \A c \in Clients : pc[c] \in Hashing \cup {"hash"} => path[c] \in Refs

TypeInv == ShapeInv /\ CrossTypeOK /\ Revised /\ PathKnown

\* FirstIn() is what its name says.
LEMMA FirstIsFirst ==
  ASSUME NEW s \in Seq(Refs), NEW S
  PROVE  \/ FirstIn(s, S) = None /\ \A i \in 1..Len(s) : s[i] \notin S
         \/ \E i \in 1..Len(s) : /\ FirstIn(s, S) = s[i] /\ s[i] \in S
                                 /\ \A j \in 1..Len(s) : s[j] \in S => i <= j
<1> DEFINE hits == {i \in 1..Len(s) : s[i] \in S}
<1>1. CASE hits # {}
  <2>1. \E i \in hits : \A j \in hits : i <= j
    <3> DEFINE less == OpToRel(<, Nat)
    <3>1. hits \subseteq Nat
      OBVIOUS
    <3>2. IsWellFoundedOn(less, Nat)
      BY NatLessThanWellFounded
    <3>3. \A x, y \in Nat : y < x => <<y, x>> \in less
      BY DEF OpToRel
    <3> HIDE DEF less, hits
    <3>4. PICK x \in hits : \A y \in hits : <<y, x>> \notin less
      BY <1>1, <3>1, <3>2, WFMin
    <3>5. ASSUME NEW y \in hits PROVE x <= y
      <4>1. x \in Nat /\ y \in Nat /\ ~(y < x)
        BY <3>1, <3>3, <3>4
      <4> QED
        BY <4>1
    <3> QED
      BY <3>5
  <2> DEFINE i == CHOOSE i \in hits : \A j \in hits : i <= j
  <2>2. i \in hits /\ \A j \in hits : i <= j
    BY <2>1
  <2>3. FirstIn(s, S) = s[i]
    BY <1>1 DEF FirstIn
  <2> HIDE DEF i
  <2>4. i \in 1..Len(s) /\ s[i] \in S /\ \A j \in 1..Len(s) : s[j] \in S => i <= j
    BY <2>2
  <2> QED
    BY <2>3, <2>4
<1>2. CASE hits = {}
  BY <1>2 DEF FirstIn
<1> QED
  BY <1>1, <1>2

LEMMA FirstIsMember ==
  ASSUME NEW s \in Seq(Refs), NEW S
  PROVE  FirstIn(s, S) \in Refs \cup {None}
BY FirstIsFirst

LEMMA FoundIsMember ==
  ASSUME NEW live, NEW r \in Refs
  PROVE  Found(live, r) \in Refs \cup {None}
BY FirstIsMember, RefAssumption DEF Found

\* A change of the source project is the next revision of one file, or removes files.
LEMMA NextRevision ==
  ASSUME source \in [Refs -> Contents \cup {Missing}], changes \in 0..MaxChanges, Revised,
         NEW r \in Refs, SourceChanges(r)
  PROVE  source' \in [Refs -> Contents \cup {Missing}] /\ Revised' /\ changes' \in 0..MaxChanges
<1>1. \A content \in Contents : content[2] \in 0..MaxChanges
  BY DEF Contents
<1>2. MaxChanges \in Nat /\ changes \in Nat /\ changes < MaxChanges /\ changes' = changes + 1
  BY RefAssumption DEF SourceChanges
<1>3. source[r] \in Contents /\ source[r][2] \in 0..MaxChanges /\ source[r][2] <= changes
  BY <1>1 DEF SourceChanges, Revised
<1>4. source[r][2] + 1 \in 0..MaxChanges /\ source[r][2] + 1 <= changes'
  <2> DEFINE n == source[r][2]
  <2>1. n \in 0..MaxChanges /\ n <= changes
    BY <1>3
  <2> HIDE DEF n
  <2> QED
    BY <1>2, <2>1 DEF n
<1>5. <<r, source[r][2] + 1>> \in Contents
  BY <1>4 DEF Contents
<1>6. \A s \in Refs : source'[s] \in {Missing, source[s], <<r, source[r][2] + 1>>}
  BY DEF SourceChanges
<1>7. source' \in [Refs -> Contents \cup {Missing}]
  BY <1>5 DEF SourceChanges
<1>8. ASSUME NEW s \in Refs, source'[s] # Missing PROVE source'[s][2] <= changes'
  <2>1. CASE source'[s] = <<r, source[r][2] + 1>>
    BY <1>4, <2>1
  <2>2. CASE source'[s] = source[s]
    <3> DEFINE n == source[s][2]
    <3>1. n \in 0..MaxChanges /\ n <= changes
      BY <1>1, <1>8, <2>2 DEF Revised
    <3>2. n <= changes'
      <4> HIDE DEF n
      <4> QED
        BY <1>2, <3>1
    <3> QED
      BY <2>2, <3>2
  <2> QED
    BY <1>6, <1>8, <2>1, <2>2
<1> QED
  BY <1>2, <1>7, <1>8 DEF Revised

LEMMA LockTyped ==
  ASSUME LockTypeOK, \/ \E c \in Clients : LockStep(c)
                     \/ \E p \in Processes : EndProcess(p)
  PROVE  LockTypeOK'
<1>1. ASSUME NEW c \in Clients, OpenLock(c) PROVE LockTypeOK'
  <2>1. handle'[c] \in Files /\ handle' = [handle EXCEPT ![c] = handle'[c]] /\ lockFile' \in Files
    BY <1>1 DEF OpenLock, LockTypeOK, Unused
  <2> QED
    BY <1>1, <2>1 DEF OpenLock, LockTypeOK
<1>2. ASSUME NEW c \in Clients, Flock(c) \/ FlockTimeout(c) \/ Unlock(c) PROVE LockTypeOK'
  BY <1>2 DEF Flock, FlockTimeout, Unlock, LockTypeOK
<1>3. ASSUME NEW c \in Clients, CloseLock(c) PROVE LockTypeOK'
  BY <1>3 DEF CloseLock, LockTypeOK
<1>4. ASSUME NEW p \in Processes, EndProcess(p) PROVE LockTypeOK'
  BY <1>4 DEF EndProcess, LockTypeOK
<1> QED
  BY <1>1, <1>2, <1>3, <1>4 DEF LockStep

LEMMA CrossTypeInitial == CrossInit => TypeInv
<1> SUFFICES ASSUME CrossInit PROVE TypeInv
  OBVIOUS
<1>1. LockTypeOK
  BY DEF CrossInit, LockInit, LockTypeOK
<1>2. CrossTypeOK
  <2>1. /\ source \in [Refs -> Contents \cup {Missing}]
        /\ copy \in [Refs -> Contents \cup {Missing, Partial}]
        /\ origins \in [Refs -> Contents \cup {Missing}]
    BY RefAssumption DEF CrossInit, NoOrigins, Contents
  <2>2. /\ hashed \in [Clients -> Contents \cup {Missing}]
        /\ opened \in [Clients -> Contents \cup {Missing}]
        /\ view \in [Clients -> [Refs -> Contents \cup {Missing}]]
    BY DEF CrossInit, NoOrigins
  <2>3. /\ added \in Seq(Refs)
        /\ todo \in [Clients -> Seq(Refs)]
        /\ viewAdded \in [Clients -> Seq(Refs)]
        /\ target \in [Clients -> Refs \cup {None}]
        /\ path \in [Clients -> Refs \cup {None}]
    BY DEF CrossInit
  <2>4. changes \in 0..MaxChanges /\ faults \in 0..MaxFaults
    BY RefAssumption DEF CrossInit
  <2> QED
    BY <1>1, <2>1, <2>2, <2>3, <2>4 DEF CrossInit, CrossTypeOK
<1>3. Revised /\ PathKnown
  BY DEF CrossInit, Revised, PathKnown, Hashing, Missing
<1> QED
  BY <1>2, <1>3, ShapeInvInitial DEF TypeInv

\* What is left of a list of references is a list of references.
LEMMA HeadAndTail ==
  ASSUME NEW refs \in Seq(Refs), refs # <<>>
  PROVE  Head(refs) \in Refs /\ Tail(refs) \in Seq(Refs)
OBVIOUS

LEMMA CrossTypeStep == TypeInv /\ [CrossNext]_vars => TypeInv'
<1> SUFFICES ASSUME TypeInv, [CrossNext]_vars PROVE (CrossTypeOK /\ Revised /\ PathKnown)'
  BY ShapeInvStep DEF TypeInv
<1> USE RefAssumption DEF TypeInv, CrossTypeOK, Revised, PathKnown, Points
<1> DEFINE T == (CrossTypeOK /\ Revised /\ PathKnown)'
<1>1. ASSUME NEW c \in Clients, NEW refs \in RefLists, Begin(c, refs) PROVE T
  <2>1. Remaining(refs) \in {"done", "resolve"} /\ refs \in Seq(Refs)
    BY RefsAreRefs, RemainingIs
  <2> QED
    BY <1>1, <2>1
    DEF Begin, Step, projectVars, lockVars, historyVars, LockTypeOK, Hashing, Halfway
<1>2. ASSUME NEW c \in Clients, ResolveNext(c) PROVE T
  <2> DEFINE r == Head(todo[c])
  <2>1. todo[c] \in Seq(Refs) /\ todo[c] # <<>>
    BY <1>2 DEF ResolveNext, ShapeInv, Shape, RequestKnown
  <2>2. r \in Refs /\ Tail(todo[c]) \in Seq(Refs)
    BY ONLY <2>1, HeadAndTail DEF r
  <2>3. /\ pc'[c] \in {"hash", "done", "resolve"}
        /\ pc' = [pc EXCEPT ![c] = pc'[c]]
        /\ pc'[c] = "hash" => path'[c] # None
    BY <1>2, RemainingIs DEF ResolveNext
  <2>4. path'[c] \in Refs \cup {None} /\ path' = [path EXCEPT ![c] = path'[c]]
    BY <1>2, <2>2, FoundIsMember DEF ResolveNext
  <2>5. stripped' \subseteq Refs /\ copy' \in [Refs -> Contents \cup {Missing, Partial}]
    <3>1. Within[r] \subseteq Refs
      BY ONLY <2>2, PathAssumption DEF r
    <3>2. Removed(c, r) \subseteq Refs
      BY <3>1 DEF Removed
    <3> QED
      BY <1>2, <2>2, <3>2 DEF ResolveNext
  <2>6. /\ target' = [target EXCEPT ![c] = r]
        /\ todo' = [todo EXCEPT ![c] = Tail(todo[c])]
        /\ UNCHANGED <<lockVars, source, origins, added, kind, hashed, opened, view, viewAdded,
                       changes, faults, disturbed, reset, overlapped>>
    BY <1>2 DEF ResolveNext
  <2>7. LockTypeOK'
    BY <2>6 DEF LockTypeOK, lockVars
  <2>8. PathKnown'
    BY <2>3, <2>4 DEF Hashing
  <2> HIDE DEF r
  <2> QED
    BY <2>2, <2>3, <2>4, <2>5, <2>6, <2>7, <2>8
<1>3. ASSUME NEW c \in Clients, HashSource(c) PROVE T
  <2>1. path[c] \in Refs
    BY <1>3 DEF HashSource
  <2>2. hashed' \in [Clients -> Contents \cup {Missing}]
    BY <1>3, <2>1 DEF HashSource
  <2>3. /\ pc' \in [Clients -> Points]
        /\ PathKnown'
    BY <1>3, <2>1 DEF HashSource, Step, Hashing, Halfway
  <2> QED
    BY <1>3, <2>2, <2>3 DEF HashSource, projectVars, lockVars, historyVars, LockTypeOK
<1>4. ASSUME NEW c \in Clients, TakeLock(c) PROVE T
  <2>1. LockTypeOK'
    BY <1>4, LockTyped DEF TakeLock, LockStep
  <2>2. overlapped' \in BOOLEAN
    BY <1>4 DEF TakeLock, Overlapping
  <2> QED
    BY <1>4, <2>1, <2>2 DEF TakeLock, projectVars, requestVars, workVars
<1>5. ASSUME NEW S \in SUBSET Clients PROVE InWork(S) \subseteq Refs
  <2>1. \A c \in Clients : pc[c] \in Halfway => target[c] \in Refs
    BY DEF ShapeInv, RequestKnown, Hashing, Halfway
  <2>2. \A r \in InWork(S) : \E c \in Clients : pc[c] \in Halfway /\ target[c] = r
    BY DEF InWork
  <2> QED
    BY ONLY <2>1, <2>2
<1>6. ASSUME NEW c \in Clients, LockFails(c) PROVE T
  <2>1. LockTypeOK'
    BY <1>6, LockTyped DEF LockFails, LockStep, LockTypeOK, lockVars
  <2>2. /\ pc' = [pc EXCEPT ![c] = pc'[c]]
        /\ pc'[c] \in {"raised", "done", "resolve"}
    BY <1>6, RemainingIs DEF LockFails, AfterException
  <2>3. PathKnown'
    BY <1>6, <2>2 DEF LockFails, workVars, Hashing
  <2>4. disturbed' \subseteq Refs
    <3>1. InWork({c}) \subseteq Refs
      BY <1>5
    <3> QED
      BY <1>6, <3>1 DEF LockFails
  <2> QED
    BY <1>6, <2>1, <2>2, <2>3, <2>4 DEF LockFails, projectVars, workVars
<1>7. ASSUME NEW c \in Clients, BeginCopy(c) PROVE T
  <2>1. path[c] \in Refs
    BY <1>7 DEF BeginCopy, Hashing
  <2>2. /\ copy' \in [Refs -> Contents \cup {Missing, Partial}]
        /\ opened' \in [Clients -> Contents \cup {Missing}]
    BY <1>7, <2>1 DEF BeginCopy
  <2>3. /\ pc' = [pc EXCEPT ![c] = pc'[c]]
        /\ pc[c] = "copy" /\ pc'[c] \in {"raised", "copying"}
        /\ path' = path
    BY <1>7 DEF BeginCopy, Step
  <2>4. pc' \in [Clients -> Points]
    BY <2>3 DEF Hashing, Halfway
  <2>5. PathKnown'
    <3>1. \A d \in Clients : pc'[d] \in Hashing \cup {"hash"} => pc[d] \in Hashing \cup {"hash"}
      BY <2>3 DEF Hashing
    <3> QED
      BY <2>3, <3>1
  <2> QED
    BY <1>7, <2>2, <2>4, <2>5 DEF BeginCopy, lockVars, historyVars, LockTypeOK
<1>8. ASSUME NEW c \in Clients, FinishCopy(c) PROVE T
  <2>1. path[c] \in Refs
    BY <1>8 DEF FinishCopy, Step, Hashing
  <2>2. CopyRead(c) \subseteq Contents
    BY <2>1 DEF CopyRead
  <2>3. copy' \in [Refs -> Contents \cup {Missing, Partial}]
    BY <1>8, <2>2 DEF FinishCopy
  <2>4. /\ pc' \in [Clients -> Points]
        /\ PathKnown'
    BY <1>8, <2>1 DEF FinishCopy, Step, Hashing, Halfway
  <2>5. opened' \in [Clients -> Contents \cup {Missing}]
    BY <1>8 DEF FinishCopy
  <2>6. UNCHANGED <<lockVars, source, origins, added, kind, todo, target, path, hashed, view,
                    viewAdded, historyVars>>
    BY <1>8 DEF FinishCopy
  <2> QED
    BY <2>3, <2>4, <2>5, <2>6 DEF lockVars, historyVars, LockTypeOK
<1>9. ASSUME NEW c \in Clients, ReadOrigins(c) PROVE T
  <2>1. /\ view' \in [Clients -> [Refs -> Contents \cup {Missing}]]
        /\ viewAdded' \in [Clients -> Seq(Refs)]
        /\ faults' \in 0..MaxFaults
        /\ reset' \in BOOLEAN
    <3>1. CASE view' = [view EXCEPT ![c] = origins] /\ viewAdded' = [viewAdded EXCEPT ![c] = added]
               /\ UNCHANGED <<faults, reset>>
      BY <3>1
    <3>2. CASE /\ faults < MaxFaults /\ faults' = faults + 1
               /\ view' = [view EXCEPT ![c] = NoOrigins]
               /\ viewAdded' = [viewAdded EXCEPT ![c] = <<>>] /\ reset' = TRUE
      <4>1. NoOrigins \in [Refs -> Contents \cup {Missing}]
        BY DEF NoOrigins
      <4>2. faults' \in 0..MaxFaults
        BY <3>2
      <4>3. <<>> \in Seq(Refs)
        OBVIOUS
      <4>4. view' \in [Clients -> [Refs -> Contents \cup {Missing}]]
        BY <3>2, <4>1
      <4>5. viewAdded' \in [Clients -> Seq(Refs)]
        BY <3>2, <4>3
      <4> QED
        BY <3>2, <4>2, <4>4, <4>5
    <3> QED
      BY <1>9, <3>1, <3>2 DEF ReadOrigins
  <2>2. /\ pc' \in [Clients -> Points]
        /\ PathKnown'
    BY <1>9 DEF ReadOrigins, Step, Hashing, Halfway
  <2>3. UNCHANGED <<lockVars, projectVars, kind, todo, target, path, hashed, opened, changes,
                    disturbed, stripped, overlapped>>
    BY <1>9 DEF ReadOrigins
  <2>4. LockTypeOK' /\ Revised'
    BY <2>3 DEF lockVars, projectVars, LockTypeOK
  <2>5. UNCHANGED <<source, copy, origins, added>>
    BY <2>3 DEF projectVars
  <2>6. {reset', overlapped'} \subseteq BOOLEAN
    BY <2>1, <2>3
  <2>7. CrossTypeOK'
    BY <2>1, <2>2, <2>3, <2>4, <2>5, <2>6
  <2> QED
    BY <2>2, <2>4, <2>7
<1>10. ASSUME NEW c \in Clients, WriteOrigins(c) PROVE T
  <2>1. target[c] \in Refs
    BY <1>10 DEF WriteOrigins, Step, ShapeInv, RequestKnown, Hashing
  <2>2. /\ origins' \in [Refs -> Contents \cup {Missing}]
        /\ added' \in Seq(Refs)
        /\ view' \in [Clients -> [Refs -> Contents \cup {Missing}]]
        /\ viewAdded' \in [Clients -> Seq(Refs)]
    <3>1. NoOrigins \in [Refs -> Contents \cup {Missing}] /\ <<>> \in Seq(Refs)
      BY DEF NoOrigins
    <3>2. origins' \in [Refs -> Contents \cup {Missing}]
      BY <1>10, <2>1 DEF WriteOrigins
    <3>5. viewAdded[c] \in Seq(Refs)
      OBVIOUS
    <3>3. Append(viewAdded[c], target[c]) \in Seq(Refs)
      BY <2>1, <3>5
    <3>4. added' \in Seq(Refs)
      BY <1>10, <3>3, <3>5 DEF WriteOrigins
    <3> QED
      BY <1>10, <3>1, <3>2, <3>4 DEF WriteOrigins
  <2>3. /\ pc' \in [Clients -> Points]
        /\ PathKnown'
    BY <1>10 DEF WriteOrigins, Step, Hashing, Halfway
  <2>4. hashed' \in [Clients -> Contents \cup {Missing}]
    BY <1>10 DEF WriteOrigins
  <2>5. UNCHANGED <<lockVars, source, copy, kind, todo, target, path, opened, historyVars>>
    BY <1>10 DEF WriteOrigins
  <2> QED
    BY <2>2, <2>3, <2>4, <2>5 DEF lockVars, historyVars, LockTypeOK
<1>11. ASSUME NEW c \in Clients, LeaveLock(c) PROVE T
  <2>1. LockTypeOK'
    BY <1>11, LockTyped DEF LeaveLock, LockStep
  <2>2. /\ pc' = [pc EXCEPT ![c] = pc'[c]]
        /\ \/ pc'[c] = pc[c]
           \/ pc[c] = "copied" /\ pc'[c] = "origins"
           \/ pc'[c] \in {"done", "resolve"}
    BY <1>11, RemainingIs DEF LeaveLock, Leaving, AfterSection, AfterException
  <2>3. /\ pc' \in [Clients -> Points]
        /\ PathKnown'
    <3>1. pc'[c] \in Points /\ (pc'[c] \in Hashing \cup {"hash"} => pc[c] \in Hashing \cup {"hash"})
      BY <2>2 DEF Hashing, Halfway
    <3>2. path' = path
      BY <1>11 DEF LeaveLock, workVars
    <3>3. pc' \in [Clients -> Points]
      BY <2>2, <3>1
    <3> QED
      BY <2>2, <3>1, <3>2, <3>3
  <2> QED
    BY <1>11, <2>1, <2>3 DEF LeaveLock, projectVars, workVars, historyVars
<1>12. ASSUME NEW r \in Refs, SourceChanges(r) PROVE T
  <2>3. source' \in [Refs -> Contents \cup {Missing}] /\ Revised' /\ changes' \in 0..MaxChanges
    BY <1>12, NextRevision
  <2>4. disturbed' \subseteq Refs
    BY <1>5, <1>12 DEF SourceChanges
  <2> QED
    BY <1>12, <2>3, <2>4
    DEF SourceChanges, lockVars, requestVars, workVars, LockTypeOK
<1>13. ASSUME NEW p \in Processes, Crash(p) PROVE T
  <2>1. LockTypeOK'
    BY <1>13, LockTyped DEF Crash
  <2>2. disturbed' \subseteq Refs
    BY <1>5, <1>13 DEF Crash
  <2>3. faults' \in 0..MaxFaults
    BY <1>13 DEF Crash
  <2>4. /\ pc' \in [Clients -> Points]
        /\ PathKnown'
    BY <1>13 DEF Crash, workVars, Hashing, Halfway
  <2> QED
    BY <1>13, <2>1, <2>2, <2>3, <2>4 DEF Crash, projectVars, workVars
<1>14. CASE UNCHANGED vars
  BY <1>14
  DEF vars, lockVars, projectVars, requestVars, workVars, historyVars, LockTypeOK
<1> QED
  BY <1>1, <1>2, <1>3, <1>4, <1>6, <1>7, <1>8, <1>9, <1>10, <1>11, <1>12, <1>13, <1>14
  DEF CrossNext, Serve

(***************************************************************************)
(* Type correctness of the lock, the two projects and the requests.        *)
(***************************************************************************)
THEOREM TypeCorrect == CrossSpec => []CrossTypeOK
<1>1. TypeInv => CrossTypeOK
  BY DEF TypeInv
<1> QED
  BY <1>1, CrossTypeInitial, CrossTypeStep, PTL DEF CrossSpec

-----------------------------------------------------------------------------
(***************************************************************************)
(* What origins.json, or a request that will write it, knows of a          *)
(* reference is backed: the copy is there, or an export removed it.  A     *)
(* request backs its target before it writes the entry, and what is backed *)
(* stays so.                                                               *)
(***************************************************************************)
Backed(r) == copy[r] # Missing \/ r \in stripped

BackedInv ==
  /\ \A r \in Refs : origins[r] # Missing => Backed(r)
  /\ \A c \in Clients, r \in Refs : view[c][r] # Missing => Backed(r)
  /\ \A c \in Clients : pc[c] \in Hashing \ {"copy"} => Backed(target[c])

LEMMA BackedStays ==
  ASSUME ShapeInv, [CrossNext]_vars, NEW r \in Refs, Backed(r)
  PROVE  Backed(r)'
<1> USE DEF ShapeInv
<1>1. ASSUME NEW c \in Clients, ResolveNext(c) PROVE Backed(r)'
  BY <1>1 DEF ResolveNext, Backed
<1>2. ASSUME NEW c \in Clients, BeginCopy(c) PROVE Backed(r)'
  <2>1. Partial # Missing
    BY DEF Partial, Missing
  <2> QED
    BY <1>2, <2>1 DEF BeginCopy, Backed, historyVars, Shape
<1>3. ASSUME NEW c \in Clients, FinishCopy(c) PROVE Backed(r)'
  BY <1>3 DEF FinishCopy, CopyRead, Backed, historyVars, Shape
<1>4. CASE UNCHANGED <<copy, stripped>>
  BY <1>4 DEF Backed
<1>5. ASSUME NEW c \in Clients, NEW refs \in RefLists, Begin(c, refs)
      PROVE  UNCHANGED <<copy, stripped>>
  BY <1>5 DEF Begin, projectVars, historyVars
<1>6. ASSUME NEW c \in Clients,
             HashSource(c) \/ TakeLock(c) \/ LockFails(c) \/ ReadOrigins(c) \/ WriteOrigins(c)
               \/ LeaveLock(c)
      PROVE  UNCHANGED <<copy, stripped>>
  BY <1>6
  DEF HashSource, TakeLock, LockFails, ReadOrigins, WriteOrigins, LeaveLock, projectVars, historyVars
<1>7. ASSUME NEW s \in Refs, SourceChanges(s) PROVE UNCHANGED <<copy, stripped>>
  BY <1>7 DEF SourceChanges
<1>8. ASSUME NEW p \in Processes, Crash(p) PROVE UNCHANGED <<copy, stripped>>
  BY <1>8 DEF Crash, projectVars
<1>9. CASE UNCHANGED vars
  BY <1>9 DEF vars, projectVars, historyVars, Backed
<1> QED
  BY <1>1, <1>2, <1>3, <1>4, <1>5, <1>6, <1>7, <1>8, <1>9 DEF CrossNext, Serve

LEMMA BackedInvInitial == CrossInit => BackedInv
BY DEF CrossInit, BackedInv, NoOrigins, Hashing

\* Where a request comes to have a target that must be backed, and who writes what.
LEMMA BackedInvStep == ShapeInv /\ BackedInv /\ [CrossNext]_vars => BackedInv'
<1> SUFFICES ASSUME ShapeInv, BackedInv, [CrossNext]_vars PROVE BackedInv'
  OBVIOUS
<1>0. \A r \in Refs : Backed(r) => Backed(r)'
  BY BackedStays
<1>1. ShapeInv'
  BY ShapeInvStep
<1> DEFINE Steady ==
      /\ \A r \in Refs : origins'[r] \in {origins[r], Missing}
      /\ \A c \in Clients, r \in Refs : view'[c][r] \in {view[c][r], origins[r], Missing}
      /\ \A c \in Clients : pc'[c] \in Hashing \ {"copy"} =>
           pc[c] \in Hashing \ {"copy"} /\ target'[c] = target[c]
<1>2. CASE Steady
  <2>1. \A c \in Clients : pc[c] \in Hashing => target[c] \in Refs
    BY DEF ShapeInv, RequestKnown
  <2>2. \A r \in Refs : origins'[r] # Missing => Backed(r)'
    BY <1>0, <1>2 DEF BackedInv
  <2>3. \A c \in Clients, r \in Refs : view'[c][r] # Missing => Backed(r)'
    BY <1>0, <1>2 DEF BackedInv
  <2>4. \A c \in Clients : pc'[c] \in Hashing \ {"copy"} =>
          copy'[target'[c]] # Missing \/ target'[c] \in stripped'
    BY <1>0, <1>2, <2>1 DEF BackedInv, Backed
  <2> QED
    BY <2>2, <2>3, <2>4 DEF BackedInv, Backed
<1> HIDE DEF Steady
<1>3. ASSUME NEW c \in Clients, NEW refs \in RefLists, Begin(c, refs) PROVE Steady
  BY <1>3, RemainingIs DEF Begin, Step, Steady, Shape, ShapeInv, Hashing, projectVars
<1>4. ASSUME NEW c \in Clients, ResolveNext(c) PROVE Steady
  <2>1. /\ pc' = [pc EXCEPT ![c] = pc'[c]]
        /\ pc'[c] = "hash" \/ pc'[c] = Remaining(Tail(todo[c]))
    BY <1>4 DEF ResolveNext, Shape, ShapeInv
  <2>2. UNCHANGED <<origins, view>> /\ target' = [target EXCEPT ![c] = target'[c]]
    BY <1>4 DEF ResolveNext, Shape, ShapeInv
  <2> QED
    BY <2>1, <2>2, RemainingIs DEF Steady, Shape, ShapeInv, Hashing
<1>5. ASSUME NEW c \in Clients, HashSource(c) \/ TakeLock(c) PROVE Steady
  BY <1>5 DEF HashSource, TakeLock, Step, Steady, Shape, ShapeInv, Hashing, projectVars,
              requestVars, workVars
<1>6. ASSUME NEW c \in Clients, LockFails(c) PROVE Steady
  <2>1. /\ pc' = [pc EXCEPT ![c] = pc'[c]]
        /\ pc'[c] \in {"raised", "done"} \/ pc'[c] = Remaining(todo[c])
    BY <1>6 DEF LockFails, AfterException, Shape, ShapeInv
  <2> QED
    BY <1>6, <2>1, RemainingIs DEF LockFails, Steady, Shape, ShapeInv, Hashing, projectVars, workVars
<1>7. ASSUME NEW c \in Clients, FinishCopy(c) PROVE Steady
  BY <1>7 DEF FinishCopy, Step, Steady, Shape, ShapeInv, Hashing
<1>8. ASSUME NEW c \in Clients, ReadOrigins(c) PROVE Steady
  <2>1. \A d \in Clients : view'[d] \in {view[d], origins, NoOrigins}
    BY <1>8 DEF ReadOrigins, Shape, ShapeInv
  <2>2. UNCHANGED <<origins, target>> /\ pc' = [pc EXCEPT ![c] = "record"] /\ pc[c] = "origins"
    BY <1>8 DEF ReadOrigins, Step, projectVars
  <2>3. \A d \in Clients, r \in Refs : view'[d][r] \in {view[d][r], origins[r], Missing}
    BY <2>1 DEF NoOrigins
  <2>4. \A d \in Clients : pc'[d] \in Hashing \ {"copy"} => pc[d] \in Hashing \ {"copy"}
    BY <2>2 DEF Shape, ShapeInv, Hashing
  <2> QED
    BY <2>2, <2>3, <2>4 DEF Steady
<1>9. ASSUME NEW c \in Clients, LeaveLock(c) PROVE Steady
  <2>1. /\ pc' = [pc EXCEPT ![c] = pc'[c]]
        /\ \/ pc'[c] = pc[c]
           \/ pc[c] = "copied" /\ pc'[c] = "origins"
           \/ pc'[c] \in {"done", Remaining(todo[c])}
    BY <1>9 DEF LeaveLock, Leaving, AfterSection, AfterException, Shape, ShapeInv
  <2>2. UNCHANGED <<origins, view, target>>
    BY <1>9 DEF LeaveLock, projectVars, workVars
  <2>3. \A d \in Clients : d # c => pc'[d] = pc[d]
    BY <2>1 DEF Shape, ShapeInv
  <2>4. pc'[c] \in Hashing \ {"copy"} => pc[c] \in Hashing \ {"copy"}
    BY <2>1, RemainingIs DEF Hashing
  <2> QED
    BY <2>2, <2>3, <2>4 DEF Steady
<1>10. ASSUME NEW r \in Refs, SourceChanges(r) PROVE Steady
  BY <1>10 DEF SourceChanges, Steady, requestVars, workVars
<1>11. ASSUME NEW p \in Processes, Crash(p) PROVE Steady
  BY <1>11 DEF Crash, Steady, Hashing, projectVars, workVars
<1>12. ASSUME UNCHANGED vars PROVE Steady
  BY <1>12 DEF vars, projectVars, requestVars, workVars, Steady
<1>13. ASSUME NEW c \in Clients, BeginCopy(c) PROVE BackedInv'
  <2>1. UNCHANGED <<origins, view, target>>
    BY <1>13 DEF BeginCopy
  <2>2. \A d \in Clients \ {c} : pc'[d] = pc[d]
    BY <1>13 DEF BeginCopy, Step, ShapeInv, Shape
  <2>3. pc'[c] = "raised" \/ (pc'[c] = "copying" /\ copy'[target[c]] = Partial)
    BY <1>13 DEF BeginCopy, Step, ShapeInv, Shape, RequestKnown, Hashing
  <2>4. Partial # Missing
    BY DEF Partial, Missing
  <2>5. \A d \in Clients : pc[d] \in Hashing => target[d] \in Refs
    BY DEF ShapeInv, RequestKnown
  <2>6. \A d \in Clients : pc'[d] \in Hashing \ {"copy"} =>
          copy'[target[d]] # Missing \/ target[d] \in stripped'
    BY <1>0, <2>2, <2>3, <2>4, <2>5 DEF BackedInv, Backed, Hashing
  <2> QED
    BY <1>0, <2>1, <2>6 DEF BackedInv, Backed
<1>14. ASSUME NEW c \in Clients, WriteOrigins(c) PROVE BackedInv'
  <2>1. target[c] \in Refs /\ Backed(target[c])
    BY <1>14 DEF WriteOrigins, Step, ShapeInv, RequestKnown, BackedInv, Hashing
  <2>2. \A r \in Refs : origins'[r] = view[c][r] \/ r = target[c]
    BY <1>14 DEF WriteOrigins, ShapeInv, Shape
  <2>3. \A d \in Clients : view'[d] = IF d = c THEN NoOrigins ELSE view[d]
    BY <1>14 DEF WriteOrigins, ShapeInv, Shape
  <2>4. UNCHANGED <<target, copy, stripped>> /\ pc' = [pc EXCEPT ![c] = "recorded"]
    BY <1>14 DEF WriteOrigins, Step, historyVars
  <2>5. \A r \in Refs : origins'[r] # Missing => Backed(r)'
    BY <1>0, <2>1, <2>2 DEF BackedInv
  <2>6. \A d \in Clients, r \in Refs : view'[d][r] # Missing => Backed(r)'
    BY <1>0, <2>3 DEF BackedInv, NoOrigins
  <2>7. \A d \in Clients : pc'[d] \in Hashing \ {"copy"} =>
          copy'[target'[d]] # Missing \/ target'[d] \in stripped'
    BY <2>4 DEF BackedInv, Backed, Hashing, ShapeInv, Shape
  <2> QED
    BY <2>5, <2>6, <2>7 DEF BackedInv, Backed
<1> QED
  BY <1>2, <1>3, <1>4, <1>5, <1>6, <1>7, <1>8, <1>9, <1>10, <1>11, <1>12, <1>13, <1>14
  DEF CrossNext, Serve

(***************************************************************************)
(* An entry of origins.json has its copy, unless an export removed it,     *)
(* whatever crashes, times out or overlaps in between, for the lock is not *)
(* needed for that.                                                        *)
(***************************************************************************)
THEOREM EntriesHaveCopies == CrossSpec => []EntryHasCopy
<1>1. BackedInv => EntryHasCopy
  BY DEF BackedInv, Backed, EntryHasCopy
<1> QED
  BY <1>1, ShapeInvInitial, ShapeInvStep, BackedInvInitial, BackedInvStep, PTL DEF CrossSpec

-----------------------------------------------------------------------------
(***************************************************************************)
(* Who writes origins.json holds the lock and, as long as no two processes *)
(* were inside it at once, has read every entry there is.                  *)
(***************************************************************************)
WriterHolds == \A c \in Clients : pc[c] = "record" => lockPc[c] = "held"

OverlapKnown == ~overlapped => ~Overlapping

ViewsAreWhole ==
  ~overlapped /\ ~reset =>
    \A c \in Clients, r \in Refs : pc[c] = "record" /\ origins[r] # Missing => view[c][r] # Missing

WriterInv == WriterHolds /\ OverlapKnown /\ ViewsAreWhole

LEMMA WriterInvInitial == CrossInit => WriterInv
BY DEF CrossInit, LockInit, WriterInv, WriterHolds, OverlapKnown, Overlapping, ViewsAreWhole

\* Without an overlap one thread at a time writes.
LEMMA OneWriter ==
  ASSUME ShapeInv, WriterInv, ~overlapped,
         NEW c \in Clients, NEW d \in Clients, pc[c] = "record", pc[d] = "record"
  PROVE  c = d
<1>1. lockPc[c] = "held" /\ lockPc[d] = "held"
  BY DEF WriterInv, WriterHolds
<1>2. CASE processOf[c] = processOf[d]
  BY <1>1, <1>2, LockInvExcludes DEF ThreadsExclude, ShapeInv
<1>3. CASE processOf[c] # processOf[d]
  BY <1>1, <1>3 DEF WriterInv, OverlapKnown, Overlapping
<1> QED
  BY <1>2, <1>3

\* A step that does not read or write origins.json.
LEMMA WriterInvSame ==
  ASSUME WriterInv, UNCHANGED <<origins, view>>,
         \A c \in Clients : pc'[c] = "record" => pc[c] = "record" /\ lockPc'[c] = lockPc[c],
         overlapped => overlapped', reset => reset',
         ~overlapped' => ~Overlapping'
  PROVE  WriterInv'
BY DEF WriterInv, WriterHolds, OverlapKnown, ViewsAreWhole

\* Nobody else enters the lock while it is left, or its process ends.
LEMMA LeavingDoesNotOverlap ==
  ASSUME ~Overlapping, processOf' = processOf,
         \A c \in Clients : lockPc'[c] = "held" => lockPc[c] = "held"
  PROVE  ~Overlapping'
BY DEF Overlapping

LEMMA WriterInvStep == ShapeInv /\ WriterInv /\ [CrossNext]_vars => WriterInv'
<1> SUFFICES ASSUME ShapeInv, WriterInv, [CrossNext]_vars PROVE WriterInv'
  OBVIOUS
<1>1. ASSUME NEW c \in Clients, NEW refs \in RefLists, Begin(c, refs) PROVE WriterInv'
  <2>1. \A d \in Clients : pc'[d] = "record" => pc[d] = "record"
    BY <1>1, RemainingIs DEF Begin, Step, ShapeInv, Shape
  <2> QED
    BY <1>1, <2>1, WriterInvSame
    DEF Begin, projectVars, lockVars, historyVars, Overlapping, WriterInv, OverlapKnown
<1>2. ASSUME NEW c \in Clients, ResolveNext(c) PROVE WriterInv'
  <2>1. \A d \in Clients : pc'[d] = "record" => pc[d] = "record"
    <3>1. /\ pc' = [pc EXCEPT ![c] = pc'[c]]
          /\ pc'[c] = "hash" \/ pc'[c] = Remaining(Tail(todo[c]))
      BY <1>2 DEF ResolveNext, Shape, ShapeInv
    <3> QED
      BY <3>1, RemainingIs DEF Shape, ShapeInv
  <2> QED
    BY <1>2, <2>1, WriterInvSame
    DEF ResolveNext, lockVars, Overlapping, WriterInv, OverlapKnown
<1>3. ASSUME NEW c \in Clients, HashSource(c) \/ BeginCopy(c) \/ FinishCopy(c) PROVE WriterInv'
  <2>1. \A d \in Clients : pc'[d] = "record" => pc[d] = "record"
    BY <1>3 DEF HashSource, BeginCopy, FinishCopy, Step, ShapeInv, Shape
  <2>2. UNCHANGED <<origins, view, lockVars, historyVars>>
    BY <1>3 DEF HashSource, BeginCopy, FinishCopy, projectVars
  <2> QED
    BY <2>1, <2>2, WriterInvSame DEF lockVars, historyVars, Overlapping, WriterInv, OverlapKnown
<1>4. ASSUME NEW c \in Clients, TakeLock(c) PROVE WriterInv'
  <2>1. \A d \in Clients : d # c => lockPc'[d] = lockPc[d]
    BY <1>4, LockInvStep DEF TakeLock, LockStep, ShapeInv
  <2>2. UNCHANGED <<origins, view, pc, reset>> /\ pc[c] # "record"
    BY <1>4 DEF TakeLock, Locking, projectVars, requestVars, workVars
  <2>3. overlapped' = (overlapped \/ Overlapping')
    BY <1>4 DEF TakeLock
  <2> QED
    BY <2>1, <2>2, <2>3, WriterInvSame
<1>5. ASSUME NEW c \in Clients, LockFails(c) \/ LeaveLock(c) PROVE WriterInv'
  <2>1. pc[c] # "record" /\ pc' = [pc EXCEPT ![c] = pc'[c]]
    BY <1>5 DEF LockFails, LeaveLock, Locking, Leaving, ShapeInv, Shape
  <2>2. pc'[c] # "record"
    <3>1. pc'[c] \in {pc[c], "raised", "done", "origins"} \/ pc'[c] = Remaining(todo[c])
      BY <1>5 DEF LockFails, LeaveLock, Leaving, AfterSection, AfterException, ShapeInv, Shape
    <3> QED
      BY <2>1, <3>1, RemainingIs
  <2>3. \/ UNCHANGED lockVars
        \/ FlockTimeout(c) \/ Unlock(c) \/ CloseLock(c)
    BY <1>5 DEF LockFails, LeaveLock
  <2>4. processOf' = processOf /\ \A d \in Clients : lockPc'[d] = lockPc[d]
                                                     \/ (d = c /\ lockPc'[d] # "held")
    BY <2>3 DEF FlockTimeout, Unlock, CloseLock, lockVars, ShapeInv, LockInv, LockShape
  <2>5. UNCHANGED <<origins, view, overlapped, reset>>
    BY <1>5 DEF LockFails, LeaveLock, projectVars, workVars, historyVars
  <2>6. ~overlapped' => ~Overlapping'
    BY <2>4, <2>5, LeavingDoesNotOverlap DEF WriterInv, OverlapKnown
  <2>7. \A d \in Clients : pc'[d] = "record" => pc[d] = "record" /\ lockPc'[d] = lockPc[d]
    BY <2>1, <2>2, <2>4 DEF ShapeInv, Shape
  <2> QED
    BY <2>5, <2>6, <2>7, WriterInvSame
<1>6. ASSUME NEW c \in Clients, ReadOrigins(c) PROVE WriterInv'
  <2>1. UNCHANGED <<origins, lockVars, overlapped>> /\ lockPc[c] = "held"
    BY <1>6 DEF ReadOrigins, projectVars
  <2>2. pc' = [pc EXCEPT ![c] = "record"] /\ (reset => reset')
    BY <1>6 DEF ReadOrigins, Step
  <2>3. ~reset' => view' = [view EXCEPT ![c] = origins]
    BY <1>6 DEF ReadOrigins
  <2>4. WriterHolds' /\ OverlapKnown'
    BY <2>1, <2>2
    DEF WriterInv, WriterHolds, OverlapKnown, Overlapping, lockVars, ShapeInv, Shape
  <2>5. ViewsAreWhole'
    BY <2>1, <2>2, <2>3 DEF WriterInv, ViewsAreWhole, ShapeInv, Shape
  <2> QED
    BY <2>4, <2>5 DEF WriterInv
<1>7. ASSUME NEW c \in Clients, WriteOrigins(c) PROVE WriterInv'
  <2>1. /\ UNCHANGED <<lockVars, historyVars>>
        /\ pc[c] = "record" /\ pc' = [pc EXCEPT ![c] = "recorded"]
    BY <1>7 DEF WriteOrigins, Step
  <2>2. WriterHolds' /\ OverlapKnown'
    BY <2>1
    DEF WriterInv, WriterHolds, OverlapKnown, Overlapping, lockVars, historyVars, ShapeInv, Shape
  <2>3. ~overlapped => \A d \in Clients : pc'[d] # "record"
    BY <2>1, OneWriter DEF ShapeInv, Shape
  <2>4. ViewsAreWhole'
    BY <2>1, <2>3 DEF ViewsAreWhole, historyVars
  <2> QED
    BY <2>2, <2>4 DEF WriterInv
<1>8. ASSUME NEW r \in Refs, SourceChanges(r) PROVE WriterInv'
  BY <1>8, WriterInvSame
  DEF SourceChanges, requestVars, workVars, lockVars, Overlapping, WriterInv, OverlapKnown
<1>9. ASSUME NEW p \in Processes, Crash(p) PROVE WriterInv'
  <2>1. /\ processOf' = processOf
        /\ \A d \in Clients : lockPc'[d] = IF processOf[d] = p THEN "free" ELSE lockPc[d]
    BY <1>9, LockInvEnd DEF Crash, ShapeInv
  <2>2. \A d \in Clients : pc'[d] = "record" => pc[d] = "record" /\ processOf[d] # p
    BY <1>9 DEF Crash
  <2>3. UNCHANGED <<origins, view, overlapped, reset>>
    BY <1>9 DEF Crash, projectVars, workVars
  <2>4. ~overlapped' => ~Overlapping'
    BY <2>1, <2>3, LeavingDoesNotOverlap DEF WriterInv, OverlapKnown
  <2> QED
    BY <2>1, <2>2, <2>3, <2>4, WriterInvSame
<1>10. CASE UNCHANGED vars
  BY <1>10, WriterInvSame
  DEF vars, projectVars, requestVars, workVars, lockVars, historyVars, Overlapping, WriterInv,
      OverlapKnown
<1> QED
  BY <1>1, <1>2, <1>3, <1>4, <1>5, <1>6, <1>7, <1>8, <1>9, <1>10 DEF CrossNext, Serve

LEMMA EntriesStay ==
  ShapeInv /\ WriterInv /\ [CrossNext]_vars =>
    (~reset' /\ ~overlapped' => \A r \in Refs : origins[r] # Missing => origins'[r] # Missing)
<1> SUFFICES ASSUME ShapeInv, WriterInv, [CrossNext]_vars, ~reset', ~overlapped',
                    NEW r \in Refs, origins[r] # Missing
             PROVE  origins'[r] # Missing
  OBVIOUS
<1>1. ASSUME NEW c \in Clients, WriteOrigins(c) PROVE origins'[r] # Missing
  <2>1. pc[c] = "record" /\ ~overlapped /\ ~reset
    BY <1>1 DEF WriteOrigins, Step, historyVars
  <2>2. view[c][r] # Missing /\ hashed[c] # Missing
    BY <2>1 DEF WriterInv, ViewsAreWhole, ShapeInv, RequestKnown, Hashing
  <2>3. origins' = [view[c] EXCEPT ![target[c]] = hashed[c]]
    BY <1>1 DEF WriteOrigins
  <2> QED
    BY <2>2, <2>3 DEF ShapeInv, Shape
<1>2. CASE origins' = origins
  BY <1>2
<1>3. ASSUME NEW c \in Clients, NEW refs \in RefLists, Begin(c, refs) PROVE origins' = origins
  BY <1>3 DEF Begin, projectVars
<1>4. ASSUME NEW c \in Clients,
             ResolveNext(c) \/ HashSource(c) \/ TakeLock(c) \/ LockFails(c) \/ BeginCopy(c)
               \/ FinishCopy(c) \/ ReadOrigins(c) \/ LeaveLock(c)
      PROVE  origins' = origins
  BY <1>4
  DEF ResolveNext, HashSource, TakeLock, LockFails, BeginCopy, FinishCopy, ReadOrigins, LeaveLock,
      projectVars
<1>5. ASSUME NEW s \in Refs, SourceChanges(s) PROVE origins' = origins
  BY <1>5 DEF SourceChanges
<1>6. ASSUME NEW p \in Processes, Crash(p) PROVE origins' = origins
  BY <1>6 DEF Crash, projectVars
<1>7. CASE UNCHANGED vars
  BY <1>7 DEF vars, projectVars
<1> QED
  BY <1>1, <1>2, <1>3, <1>4, <1>5, <1>6, <1>7 DEF CrossNext, Serve

(***************************************************************************)
(* No request loses the entry another one recorded, unless origins.json    *)
(* could not be read or two processes were inside the lock at once; with   *)
(* one server process that never happens, whatever its threads do.         *)
(***************************************************************************)
THEOREM EntriesStayRecorded == CrossSpec => EntriesAreKept
<1>1. ShapeInv /\ WriterInv /\ [CrossNext]_vars =>
        [~reset' /\ ~overlapped' =>
           \A r \in Refs : origins[r] # Missing => origins'[r] # Missing]_vars
  BY EntriesStay
<1> QED
  BY <1>1, ShapeInvInitial, ShapeInvStep, WriterInvInitial, WriterInvStep, PTL
  DEF CrossSpec, EntriesAreKept

-----------------------------------------------------------------------------
(***************************************************************************)
(* What a reference resolves to, and when it goes on resolving to it.      *)
(***************************************************************************)
LEMMA FirstStays ==
  ASSUME NEW s \in Seq(Refs), NEW S, NEW T \in SUBSET S, FirstIn(s, S) \in T, FirstIn(s, S) # None
  PROVE  FirstIn(s, T) = FirstIn(s, S)
<1>1. PICK i \in 1..Len(s) : /\ FirstIn(s, S) = s[i]
                             /\ \A j \in 1..Len(s) : s[j] \in S => i <= j
  BY FirstIsFirst
<1>2. s[i] \in T
  BY <1>1
<1>3. PICK k \in 1..Len(s) : /\ FirstIn(s, T) = s[k] /\ s[k] \in T
                             /\ \A j \in 1..Len(s) : s[j] \in T => k <= j
  BY <1>2, FirstIsFirst
<1>4. i <= k /\ k <= i
  BY <1>1, <1>2, <1>3
<1>5. i = k
  BY <1>4
<1> QED
  BY <1>1, <1>3, <1>5

LEMMA FoundIs ==
  ASSUME NEW live, NEW r \in Refs, Found(live, r) # None
  PROVE  Found(live, r) \in Siblings(r) /\ live[Found(live, r)] # Missing
<1>1. r \in Siblings(r) /\ Order \in Seq(Refs)
  BY RefAssumption DEF Siblings
<1>2. CASE live[r] = Missing
  <2>1. Found(live, r) \in {s \in Siblings(r) : live[s] # Missing}
    BY <1>1, <1>2, FirstIsFirst DEF Found
  <2> QED
    BY <2>1
<1> QED
  BY <1>1, <1>2 DEF Found

\* Files only go away: the one that was found is found as long as it is there.
LEMMA FoundStays ==
  ASSUME NEW live, NEW later, NEW r \in Refs,
         \A s \in Refs : later[s] # Missing => live[s] # Missing,
         Found(live, r) # None, later[Found(live, r)] # Missing
  PROVE  Found(later, r) = Found(live, r)
<1>1. CASE live[r] # Missing
  BY <1>1 DEF Found
<1>2. CASE live[r] = Missing
  <2> DEFINE S == {s \in Siblings(r) : live[s] # Missing}
             T == {s \in Siblings(r) : later[s] # Missing}
  <2>1. T \in SUBSET S /\ later[r] = Missing /\ Order \in Seq(Refs)
    BY <1>2, RefAssumption DEF Siblings
  <2>2. Found(live, r) = FirstIn(Order, S) /\ Found(later, r) = FirstIn(Order, T)
    BY <1>2, <2>1 DEF Found
  <2>3. FirstIn(Order, S) \in T
    BY <2>2, FoundIs
  <2> QED
    BY <2>1, <2>2, <2>3, FirstStays
<1> QED
  BY <1>1, <1>2

\* And it depends on the versions of the asset alone.
LEMMA FoundSame ==
  ASSUME NEW live, NEW later, NEW r \in Refs, \A s \in Siblings(r) : later[s] = live[s]
  PROVE  Found(later, r) = Found(live, r)
<1>1. {s \in Siblings(r) : later[s] # Missing} = {s \in Siblings(r) : live[s] # Missing}
  OBVIOUS
<1>2. later[r] = live[r]
  BY DEF Siblings
<1> QED
  BY <1>1, <1>2 DEF Found

-----------------------------------------------------------------------------
(***************************************************************************)
(* A request that nothing disturbs has hashed the file its reference finds *)
(* now, copies that one, and has copied it unless another one is about to  *)
(* copy it again.  So when the last request is done with a reference, the  *)
(* copy is what the entry says.                                            *)
(***************************************************************************)
Sound(r) == r \notin disturbed \cup stripped

Copied == {"copied", "origins", "record"}

Current(c) == path[c] = Found(source, target[c])

PathCurrent == \A c \in Clients : pc[c] = "hash" /\ source[path[c]] # Missing => Current(c)

Faithful(c) ==
  /\ Current(c)
  /\ hashed[c] = source[path[c]]
  /\ pc[c] = "copying" => opened[c] = hashed[c]
  /\ pc[c] \in Copied => \/ copy[target[c]] = hashed[c]
                         \/ \E d \in Clients : pc[d] = "copying" /\ target[d] = target[c]

WorkFaithful == \A c \in Clients : pc[c] \in Halfway /\ Sound(target[c]) => Faithful(c)

CopiesMatch ==
  ~overlapped =>
    \A r \in Refs \ InWork(Clients) : Sound(r) /\ origins[r] # Missing => copy[r] = origins[r]

FaithInv == PathCurrent /\ WorkFaithful /\ CopiesMatch

LEMMA FaithInitial == CrossInit => FaithInv
BY DEF CrossInit, FaithInv, PathCurrent, WorkFaithful, CopiesMatch, NoOrigins, Halfway

LEMMA WorkIs ==
  ASSUME NEW r
  PROVE  r \in InWork(Clients) <=> \E c \in Clients : pc[c] \in Halfway /\ target[c] = r
BY DEF InWork

\* A step after which no request is halfway that was not, and none stops halfway
\* without disturbing its reference.
LEMMA FaithQuiet ==
  ASSUME FaithInv, UNCHANGED <<source, origins>>, overlapped => overlapped',
         \A r \in Refs : Sound(r)' => Sound(r) /\ copy'[r] = copy[r],
         \A c \in Clients : pc[c] \in Halfway => target[c] \in Refs,
         \A c \in Clients : pc'[c] \in Halfway =>
           /\ pc[c] \in Halfway
           /\ target'[c] = target[c] /\ path'[c] = path[c]
           /\ hashed'[c] = hashed[c] /\ opened'[c] = opened[c]
           /\ pc'[c] = "copying" => pc[c] = "copying"
           /\ pc'[c] \in Copied => pc[c] \in Copied,
         \A c \in Clients : pc[c] \in Halfway =>
           \/ target[c] \in disturbed'
           \/ /\ pc'[c] \in Halfway /\ target'[c] = target[c]
              /\ pc[c] = "copying" => pc'[c] = "copying",
         \A c \in Clients : pc'[c] = "hash" =>
           \/ path'[c] = Found(source, target'[c])
           \/ pc[c] = "hash" /\ target'[c] = target[c] /\ path'[c] = path[c]
  PROVE  FaithInv'
<1> USE DEF FaithInv
<1>0. /\ PathCurrent /\ WorkFaithful /\ CopiesMatch
      /\ \A r : Sound(r)' <=> r \notin disturbed' /\ r \notin stripped'
  BY DEF Sound
<1>1. ASSUME NEW c \in Clients, pc'[c] = "hash", source'[path'[c]] # Missing
      PROVE  path'[c] = Found(source', target'[c])
  BY <1>0, <1>1 DEF PathCurrent, Current
<1>2. ASSUME NEW c \in Clients, pc'[c] \in Halfway, target'[c] \notin disturbed' \cup stripped'
      PROVE  /\ path'[c] = Found(source', target'[c])
             /\ hashed'[c] = source'[path'[c]]
             /\ pc'[c] = "copying" => opened'[c] = hashed'[c]
             /\ pc'[c] \in Copied => \/ copy'[target'[c]] = hashed'[c]
                                     \/ \E d \in Clients : pc'[d] = "copying" /\ target'[d] = target'[c]
  <2>1. /\ pc[c] \in Halfway /\ target'[c] = target[c] /\ target[c] \in Refs
        /\ path'[c] = path[c] /\ hashed'[c] = hashed[c] /\ opened'[c] = opened[c]
        /\ pc'[c] = "copying" => pc[c] = "copying"
        /\ pc'[c] \in Copied => pc[c] \in Copied
    BY <1>2
  <2>2. Sound(target[c]) /\ copy'[target[c]] = copy[target[c]]
    BY <1>0, <1>2, <2>1
  <2>3. Faithful(c)
    BY <1>0, <2>1, <2>2 DEF WorkFaithful
  <2>4. ASSUME NEW d \in Clients, pc[d] = "copying", target[d] = target[c]
        PROVE  pc'[d] = "copying" /\ target'[d] = target'[c]
    BY <1>2, <2>1, <2>4 DEF Halfway
  <2> QED
    BY <2>1, <2>2, <2>3, <2>4 DEF Faithful, Current
<1>3. ASSUME ~overlapped', NEW r \in Refs, r \notin InWork(Clients)', Sound(r)', origins'[r] # Missing
      PROVE  copy'[r] = origins'[r]
  <2>1. \A c \in Clients : ~(pc'[c] \in Halfway /\ target'[c] = r)
    BY <1>3 DEF InWork
  <2>2. r \notin InWork(Clients)
    BY <1>0, <1>3, <2>1, WorkIs
  <2> QED
    BY <1>0, <1>3, <2>2 DEF CopiesMatch
<1>4. PathCurrent'
  BY <1>1 DEF PathCurrent, Current
<1>5. WorkFaithful'
  BY <1>2 DEF WorkFaithful, Faithful, Current, Sound
<1>6. CopiesMatch'
  BY <1>3 DEF CopiesMatch
<1> QED
  BY <1>4, <1>5, <1>6

\* What a writer holds of another entry is that entry, or nothing.
ViewsAreCurrent ==
  ~overlapped =>
    \A c \in Clients, r \in Refs : pc[c] = "record" => view[c][r] \in {origins[r], Missing}

LEMMA ViewsStep ==
  ASSUME ShapeInv, WriterInv, ViewsAreCurrent, [CrossNext]_vars
  PROVE  ViewsAreCurrent'
<1> USE DEF ShapeInv, Shape
<1>0. CASE /\ UNCHANGED <<origins, view>> /\ (overlapped => overlapped')
           /\ \A c \in Clients : pc'[c] = "record" => pc[c] = "record"
  BY <1>0 DEF ViewsAreCurrent
<1>1. ASSUME NEW c \in Clients, NEW refs \in RefLists, Begin(c, refs) PROVE ViewsAreCurrent'
  BY <1>0, <1>1, RemainingIs DEF Begin, Step, projectVars, historyVars
<1>2. ASSUME NEW c \in Clients, ResolveNext(c) PROVE ViewsAreCurrent'
  <2>1. /\ pc' = [pc EXCEPT ![c] = pc'[c]]
        /\ pc'[c] = "hash" \/ pc'[c] = Remaining(Tail(todo[c]))
    BY <1>2 DEF ResolveNext
  <2> QED
    BY <1>0, <1>2, <2>1, RemainingIs DEF ResolveNext
<1>3. ASSUME NEW c \in Clients, HashSource(c) \/ BeginCopy(c) \/ FinishCopy(c) PROVE ViewsAreCurrent'
  BY <1>0, <1>3 DEF HashSource, BeginCopy, FinishCopy, Step, projectVars, historyVars
<1>4. ASSUME NEW c \in Clients, TakeLock(c) PROVE ViewsAreCurrent'
  BY <1>0, <1>4 DEF TakeLock, projectVars, requestVars, workVars
<1>5. ASSUME NEW c \in Clients, LockFails(c) \/ LeaveLock(c) PROVE ViewsAreCurrent'
  <2>1. pc[c] # "record" /\ pc' = [pc EXCEPT ![c] = pc'[c]]
    BY <1>5 DEF LockFails, LeaveLock, Locking, Leaving
  <2>2. pc'[c] \in {pc[c], "raised", "done", "origins"} \/ pc'[c] = Remaining(todo[c])
    BY <1>5 DEF LockFails, LeaveLock, Leaving, AfterSection, AfterException
  <2>3. UNCHANGED <<origins, view, overlapped>>
    BY <1>5 DEF LockFails, LeaveLock, projectVars, workVars, historyVars
  <2>4. pc'[c] # "record"
    BY <2>1, <2>2, RemainingIs
  <2> QED
    BY <1>0, <2>1, <2>3, <2>4
<1>6. ASSUME NEW c \in Clients, ReadOrigins(c) PROVE ViewsAreCurrent'
  <2>1. UNCHANGED <<origins, overlapped>> /\ pc' = [pc EXCEPT ![c] = "record"]
    BY <1>6 DEF ReadOrigins, Step, projectVars
  <2>2. view' = [view EXCEPT ![c] = origins] \/ view' = [view EXCEPT ![c] = NoOrigins]
    BY <1>6 DEF ReadOrigins
  <2>3. \A r \in Refs : view'[c][r] \in {origins[r], Missing}
    BY <2>2 DEF NoOrigins
  <2>4. \A d \in Clients : d # c => view'[d] = view[d] /\ pc'[d] = pc[d]
    BY <2>1, <2>2
  <2> QED
    BY <2>1, <2>3, <2>4 DEF ViewsAreCurrent
<1>7. ASSUME NEW c \in Clients, WriteOrigins(c) PROVE ViewsAreCurrent'
  <2>1. pc[c] = "record" /\ pc' = [pc EXCEPT ![c] = "recorded"] /\ overlapped' = overlapped
    BY <1>7 DEF WriteOrigins, Step, historyVars
  <2>2. ~overlapped => \A d \in Clients : pc'[d] # "record"
    BY <2>1, OneWriter
  <2> QED
    BY <2>1, <2>2 DEF ViewsAreCurrent
<1>8. ASSUME NEW r \in Refs, SourceChanges(r) PROVE ViewsAreCurrent'
  BY <1>0, <1>8 DEF SourceChanges, requestVars, workVars
<1>9. ASSUME NEW p \in Processes, Crash(p) PROVE ViewsAreCurrent'
  BY <1>0, <1>9 DEF Crash, projectVars, workVars
<1>10. CASE UNCHANGED vars
  BY <1>0, <1>10 DEF vars, projectVars, requestVars, workVars, historyVars
<1> QED
  BY <1>1, <1>2, <1>3, <1>4, <1>5, <1>6, <1>7, <1>8, <1>9, <1>10 DEF CrossNext, Serve

\* The steps after which every reference is as faithful as before.
LEMMA FaithStepQuiet ==
  ASSUME TypeInv, FaithInv, NEW c \in Clients,
         \/ \E refs \in RefLists : Begin(c, refs)
         \/ ResolveNext(c) \/ TakeLock(c) \/ LockFails(c) \/ ReadOrigins(c) \/ LeaveLock(c)
  PROVE  FaithInv'
<1> USE DEF TypeInv, ShapeInv, Shape
<1>0. \A d \in Clients : pc[d] \in Halfway => target[d] \in Refs
  BY DEF RequestKnown, Hashing, Halfway
<1> DEFINE Elsewhere == \A d \in Clients \ {c} :
             /\ pc'[d] = pc[d] /\ target'[d] = target[d] /\ path'[d] = path[d]
             /\ hashed'[d] = hashed[d] /\ opened'[d] = opened[d]
           Same == UNCHANGED <<source, origins, copy, stripped>> /\ (overlapped => overlapped')
<1>1. ASSUME Elsewhere, Same, disturbed \subseteq disturbed',
             pc'[c] \notin Halfway \cup {"hash"}, pc[c] \in Halfway => target[c] \in disturbed'
      PROVE  FaithInv'
  <2>1. \A r \in Refs : Sound(r)' => Sound(r) /\ copy'[r] = copy[r]
    BY <1>1 DEF Sound
  <2> QED
    BY <1>0, <1>1, <2>1, FaithQuiet
<1>2. ASSUME Elsewhere, Same, disturbed' = disturbed, UNCHANGED <<target, path, hashed, opened>>,
             pc[c] \in Halfway, pc'[c] \in Halfway, pc[c] = "copying" <=> pc'[c] = "copying",
             pc'[c] \in Copied => pc[c] \in Copied
      PROVE  FaithInv'
  <2>1. \A r \in Refs : Sound(r)' => Sound(r) /\ copy'[r] = copy[r]
    BY <1>2 DEF Sound
  <2>2. pc'[c] # "hash"
    BY <1>2 DEF Halfway
  <2> QED
    BY <1>0, <1>2, <2>1, <2>2, FaithQuiet
<1>3. ASSUME NEW refs \in RefLists, Begin(c, refs) PROVE FaithInv'
  <2>1. Elsewhere /\ Same /\ disturbed' = disturbed
    BY <1>3 DEF Begin, Step, projectVars, historyVars
  <2>2. pc[c] = "idle" /\ pc'[c] \in {"done", "resolve"}
    BY <1>3, RemainingIs DEF Begin, Step
  <2> QED
    BY <1>1, <2>1, <2>2 DEF Halfway
<1>4. CASE ResolveNext(c)
  <2>1. /\ pc[c] = "resolve" /\ pc'[c] \in {"hash", "done", "resolve"}
        /\ UNCHANGED <<source, origins, disturbed, overlapped>>
        /\ \A d \in Clients \ {c} : /\ pc'[d] = pc[d] /\ target'[d] = target[d] /\ path'[d] = path[d]
                                    /\ hashed'[d] = hashed[d] /\ opened'[d] = opened[d]
    BY <1>4, RemainingIs DEF ResolveNext
  <2>2. pc'[c] \notin Halfway /\ pc[c] \notin Halfway
    BY <2>1 DEF Halfway
  <2>3. path'[c] = Found(source, target'[c])
    BY <1>4 DEF ResolveNext, CrossTypeOK
  <2>4. \A r \in Refs : Sound(r)' => Sound(r) /\ copy'[r] = copy[r]
    BY <1>4 DEF ResolveNext, Sound
  <2> QED
    BY <1>0, <2>1, <2>2, <2>3, <2>4, FaithQuiet
<1>5. CASE TakeLock(c)
  <2>1. Elsewhere /\ Same /\ disturbed' = disturbed /\ UNCHANGED <<pc, target, path, hashed, opened>>
    BY <1>5 DEF TakeLock, projectVars, requestVars, workVars
  <2>2. pc[c] \in {"copy", "origins"}
    BY <1>5 DEF TakeLock, Locking
  <2> QED
    BY <1>2, <2>1, <2>2 DEF Halfway
<1>6. CASE LockFails(c)
  <2>1. Elsewhere /\ Same /\ disturbed' = disturbed \cup InWork({c})
    BY <1>6 DEF LockFails, projectVars, workVars
  <2>2. pc[c] \in {"copy", "origins"} /\ pc'[c] \in {"raised", "done", "resolve"}
    BY <1>6, RemainingIs DEF LockFails, Locking, AfterException
  <2>3. target[c] \in InWork({c})
    BY <2>2 DEF InWork, Halfway
  <2> QED
    BY <1>1, <2>1, <2>2, <2>3 DEF Halfway
<1>7. CASE ReadOrigins(c)
  <2>1. Elsewhere /\ Same /\ disturbed' = disturbed /\ UNCHANGED <<target, path, hashed, opened>>
    BY <1>7 DEF ReadOrigins, Step, projectVars
  <2>2. pc[c] = "origins" /\ pc'[c] = "record"
    BY <1>7 DEF ReadOrigins, Step
  <2> QED
    BY <1>2, <2>1, <2>2 DEF Halfway, Copied
<1>8. CASE LeaveLock(c)
  <2>1. Elsewhere /\ Same /\ disturbed' = disturbed /\ UNCHANGED <<target, path, hashed, opened>>
    BY <1>8 DEF LeaveLock, projectVars, workVars, historyVars
  <2>2. \/ pc[c] = "copied" /\ pc'[c] \in {"copied", "origins"}
        \/ pc[c] \in {"recorded", "raised"} /\ pc'[c] \in {"recorded", "raised", "done", "resolve"}
    BY <1>8, RemainingIs DEF LeaveLock, Leaving, AfterSection, AfterException
  <2>3. CASE pc[c] = "copied" /\ pc'[c] \in {"copied", "origins"}
    BY <1>2, <2>1, <2>3 DEF Halfway, Copied
  <2>4. CASE pc[c] \in {"recorded", "raised"} /\ pc'[c] \in {"recorded", "raised", "done", "resolve"}
    BY <1>1, <2>1, <2>4 DEF Halfway
  <2> QED
    BY <2>2, <2>3, <2>4
<1> QED
  BY <1>3, <1>4, <1>5, <1>6, <1>7, <1>8

LEMMA FaithHash ==
  ASSUME TypeInv, FaithInv, NEW c \in Clients, HashSource(c)
  PROVE  FaithInv'
<1> USE DEF TypeInv, ShapeInv, Shape
<1>1. /\ UNCHANGED <<source, origins, copy, stripped, disturbed, overlapped, target, path, opened>>
      /\ pc[c] = "hash"
      /\ \A d \in Clients \ {c} : pc'[d] = pc[d] /\ hashed'[d] = hashed[d]
  BY DEF HashSource, Step, projectVars, historyVars
<1>2. CASE source[path[c]] = Missing
  <2>1. pc'[c] = "done"
    BY <1>2 DEF HashSource, Step
  <2>2. \A d \in Clients : pc[d] \in Halfway => target[d] \in Refs /\ d # c
    BY <1>1 DEF RequestKnown, Hashing, Halfway
  <2>3. \A d \in Clients : pc'[d] \in Halfway => d # c
    BY <2>1 DEF Halfway
  <2> QED
    BY <1>1, <2>1, <2>2, <2>3, FaithQuiet DEF Sound
<1>3. CASE source[path[c]] # Missing
  <2>1. pc'[c] = "copy" /\ hashed'[c] = source[path[c]]
    BY <1>3 DEF HashSource, Step
  <2>2. Current(c)
    BY <1>1, <1>3 DEF FaithInv, PathCurrent
  <2>3. \A d \in Clients : pc[d] = "copying" => pc'[d] = "copying"
    BY <1>1
  <2>4. PathCurrent'
    BY <1>1, <2>1 DEF FaithInv, PathCurrent, Current
  <2>5. ASSUME NEW d \in Clients, pc'[d] \in Halfway, Sound(target[d]) PROVE Faithful(d)'
    <3>1. CASE d = c
      BY <1>1, <2>1, <2>2, <3>1 DEF Faithful, Current, Copied
    <3>2. CASE d # c
      <4>1. pc[d] \in Halfway /\ Faithful(d)
        BY <1>1, <2>5, <3>2 DEF FaithInv, WorkFaithful
      <4> QED
        BY <1>1, <2>3, <3>2, <4>1 DEF Faithful, Current
    <3> QED
      BY <3>1, <3>2
  <2>6. WorkFaithful'
    BY <1>1, <2>5 DEF WorkFaithful, Sound
  <2>7. \A r : r \notin InWork(Clients)' => r \notin InWork(Clients)
    BY <1>1 DEF InWork, Halfway
  <2>8. CopiesMatch'
    BY <1>1, <2>7 DEF FaithInv, CopiesMatch, Sound
  <2> QED
    BY <2>4, <2>6, <2>8 DEF FaithInv
<1> QED
  BY <1>2, <1>3

LEMMA FaithBegin ==
  ASSUME TypeInv, FaithInv, NEW c \in Clients, BeginCopy(c)
  PROVE  FaithInv'
<1> USE DEF TypeInv, ShapeInv, Shape
<1>1. /\ UNCHANGED <<source, origins, stripped, disturbed, overlapped, target, path, hashed>>
      /\ pc[c] = "copy" /\ target[c] \in Refs /\ hashed[c] # Missing
      /\ \A d \in Clients \ {c} : pc'[d] = pc[d] /\ opened'[d] = opened[d]
  <2>1. /\ UNCHANGED <<source, origins, stripped, disturbed, overlapped, target, path, hashed>>
        /\ pc[c] = "copy"
    BY DEF BeginCopy, Step, historyVars
  <2>2. \A d \in Clients \ {c} : pc'[d] = pc[d]
    BY DEF BeginCopy, Step
  <2>3. opened \in [Clients -> Contents \cup {Missing}]
    BY DEF CrossTypeOK
  <2>4. \A d \in Clients \ {c} : opened'[d] = opened[d]
    BY <2>3 DEF BeginCopy
  <2> QED
    BY <2>1, <2>2, <2>4 DEF RequestKnown, Hashing
<1>2. CASE source[path[c]] = Missing
  <2>1. pc'[c] = "raised" /\ UNCHANGED <<copy, opened>>
    BY <1>2 DEF BeginCopy, Step
  <2>2. ~Sound(target[c])
    BY <1>1, <1>2 DEF FaithInv, WorkFaithful, Faithful, Halfway
  <2>3. PathCurrent'
    BY <1>1, <2>1 DEF FaithInv, PathCurrent, Current
  <2>4. ASSUME NEW d \in Clients, pc'[d] \in Halfway, Sound(target[d]) PROVE Faithful(d)'
    <3>1. d # c /\ Faithful(d)
      BY <1>1, <2>1, <2>4 DEF FaithInv, WorkFaithful, Halfway
    <3>2. \A e \in Clients : pc[e] = "copying" => pc'[e] = "copying"
      BY <1>1
    <3> QED
      BY <1>1, <2>1, <3>1, <3>2 DEF Faithful, Current
  <2>5. WorkFaithful'
    BY <1>1, <2>4 DEF WorkFaithful, Sound
  <2>6. \A r : Sound(r) /\ r \notin InWork(Clients)' => r \notin InWork(Clients)
    BY <1>1, <2>2 DEF InWork
  <2>7. CopiesMatch'
    BY <1>1, <2>1, <2>6 DEF FaithInv, CopiesMatch, Sound
  <2> QED
    BY <2>3, <2>5, <2>7 DEF FaithInv
<1>3. CASE source[path[c]] # Missing
  <2>1. pc'[c] = "copying" /\ opened'[c] = source[path[c]]
    BY <1>3 DEF BeginCopy, Step, CrossTypeOK
  <2>2. \A r \in Refs : r # target[c] => copy'[r] = copy[r]
    BY <1>3 DEF BeginCopy
  <2>3. PathCurrent'
    BY <1>1, <2>1 DEF FaithInv, PathCurrent, Current
  <2>4. ASSUME NEW d \in Clients, pc'[d] \in Halfway, Sound(target[d]) PROVE Faithful(d)'
    <3>1. pc[d] \in Halfway /\ Faithful(d) /\ target[d] \in Refs
      BY <1>1, <2>4 DEF FaithInv, WorkFaithful, RequestKnown, Hashing, Halfway
    <3>2. CASE d = c
      BY <1>1, <2>1, <3>1, <3>2 DEF Faithful, Current, Copied
    <3>3. CASE d # c
      <4>1. \A e \in Clients : pc[e] = "copying" => pc'[e] = "copying"
        BY <1>1
      <4>2. /\ path'[d] = Found(source', target'[d]) /\ hashed'[d] = source'[path'[d]]
            /\ pc'[d] = "copying" => opened'[d] = hashed'[d]
        BY <1>1, <3>1, <3>3 DEF Faithful, Current
      <4>3. pc'[d] \in Copied => \/ copy'[target'[d]] = hashed'[d]
                                 \/ \E e \in Clients : pc'[e] = "copying" /\ target'[e] = target'[d]
        BY <1>1, <2>1, <2>2, <3>1, <3>3, <4>1 DEF Faithful
      <4> QED
        BY <4>2, <4>3 DEF Faithful, Current
    <3> QED
      BY <3>2, <3>3
  <2>5. WorkFaithful'
    BY <1>1, <2>4 DEF WorkFaithful, Sound
  <2>6. ASSUME NEW r, r \notin InWork(Clients)' PROVE r \notin InWork(Clients) /\ r # target[c]
    <3>1. \A d \in Clients : ~(pc'[d] \in Halfway /\ target'[d] = r)
      BY <2>6 DEF InWork
    <3>2. \A d \in Clients : pc[d] \in Halfway => pc'[d] \in Halfway
      BY <1>1, <2>1 DEF Halfway
    <3>3. pc'[c] \in Halfway
      BY <2>1 DEF Halfway
    <3> QED
      BY <1>1, <3>1, <3>2, <3>3, WorkIs
  <2>7. CopiesMatch'
    BY <1>1, <2>2, <2>6 DEF FaithInv, CopiesMatch, Sound
  <2> QED
    BY <2>3, <2>5, <2>7 DEF FaithInv
<1> QED
  BY <1>2, <1>3

LEMMA FaithFinish ==
  ASSUME TypeInv, BackedInv, FaithInv, NEW c \in Clients, FinishCopy(c)
  PROVE  FaithInv'
<1> USE DEF TypeInv, ShapeInv, Shape
<1>1. /\ UNCHANGED <<source, origins, stripped, disturbed, overlapped, target, path, hashed>>
      /\ pc[c] = "copying" /\ pc'[c] = "copied" /\ target[c] \in Refs
      /\ \A d \in Clients \ {c} : pc'[d] = pc[d] /\ opened'[d] = opened[d]
      /\ \A r \in Refs : r # target[c] => copy'[r] = copy[r]
  BY DEF FinishCopy, Step, historyVars, RequestKnown, Hashing
<1>2. ASSUME Sound(target[c]) PROVE copy'[target[c]] = hashed[c] /\ Current(c) /\ hashed[c] = source[path[c]]
  <2>1. Faithful(c)
    BY <1>1, <1>2 DEF FaithInv, WorkFaithful, Halfway
  <2>2. copy[target[c]] # Missing
    BY <1>1, <1>2 DEF BackedInv, Backed, Sound, Hashing
  <2>3. opened[c] = hashed[c] /\ hashed[c] = source[path[c]]
    BY <1>1, <2>1 DEF Faithful
  <2>4. \A content \in CopyRead(c) : content = hashed[c]
    BY <2>3 DEF CopyRead
  <2> QED
    BY <1>1, <2>1, <2>2, <2>3, <2>4 DEF FinishCopy, Faithful
<1>3. PathCurrent'
  BY <1>1 DEF FaithInv, PathCurrent, Current
<1>4. ASSUME NEW d \in Clients, pc'[d] \in Halfway, Sound(target[d]) PROVE Faithful(d)'
  <2>1. CASE d = c
    BY <1>1, <1>2, <1>4, <2>1 DEF Faithful, Current
  <2>2. CASE d # c
    <3>1. pc[d] \in Halfway /\ Faithful(d) /\ target[d] \in Refs
      BY <1>1, <1>4, <2>2 DEF FaithInv, WorkFaithful, RequestKnown, Hashing, Halfway
    <3>2. /\ path'[d] = Found(source', target'[d]) /\ hashed'[d] = source'[path'[d]]
          /\ pc'[d] = "copying" => opened'[d] = hashed'[d]
      BY <1>1, <2>2, <3>1 DEF Faithful, Current
    <3>3. CASE target[d] = target[c]
      <4>1. path[d] = path[c] /\ hashed[d] = hashed[c]
        BY <1>2, <1>4, <3>1, <3>3 DEF Faithful, Current
      <4> QED
        BY <1>1, <1>2, <1>4, <3>2, <3>3, <4>1 DEF Faithful, Current
    <3>4. CASE target[d] # target[c]
      <4>1. \A e \in Clients : pc[e] = "copying" /\ target[e] = target[d] => pc'[e] = "copying"
        BY <1>1, <3>4
      <4> QED
        BY <1>1, <2>2, <3>1, <3>2, <3>4, <4>1 DEF Faithful, Current
    <3> QED
      BY <3>3, <3>4
  <2> QED
    BY <2>1, <2>2
<1>5. WorkFaithful'
  BY <1>1, <1>4 DEF WorkFaithful, Sound
<1>6. ASSUME NEW r, r \notin InWork(Clients)' PROVE r \notin InWork(Clients) /\ r # target[c]
  <2>1. \A d \in Clients : ~(pc'[d] \in Halfway /\ target'[d] = r)
    BY <1>6 DEF InWork
  <2>2. \A d \in Clients : pc[d] \in Halfway => pc'[d] \in Halfway
    BY <1>1 DEF Halfway
  <2>3. pc'[c] \in Halfway
    BY <1>1 DEF Halfway
  <2> QED
    BY <1>1, <2>1, <2>2, <2>3, WorkIs
<1>7. CopiesMatch'
  BY <1>1, <1>6 DEF FaithInv, CopiesMatch, Sound
<1> QED
  BY <1>3, <1>5, <1>7 DEF FaithInv

LEMMA FaithWrite ==
  ASSUME TypeInv, ViewsAreCurrent, FaithInv, NEW c \in Clients, WriteOrigins(c)
  PROVE  FaithInv'
<1> USE DEF TypeInv, ShapeInv, Shape
<1>1. /\ UNCHANGED <<source, copy, stripped, disturbed, overlapped, target, path, opened>>
      /\ pc[c] = "record" /\ pc'[c] = "recorded" /\ target[c] \in Refs
      /\ \A d \in Clients \ {c} : pc'[d] = pc[d] /\ hashed'[d] = hashed[d]
      /\ origins'[target[c]] = hashed[c]
      /\ \A r \in Refs : r # target[c] => origins'[r] = view[c][r]
  BY DEF WriteOrigins, Step, historyVars, RequestKnown, Hashing
<1>2. \A d \in Clients : pc'[d] \in Halfway => d # c
  BY <1>1 DEF Halfway
<1>3. PathCurrent'
  BY <1>1 DEF FaithInv, PathCurrent, Current
<1>4. ASSUME NEW d \in Clients, pc'[d] \in Halfway, Sound(target[d]) PROVE Faithful(d)'
  <2>1. d # c /\ Faithful(d)
    BY <1>1, <1>2, <1>4 DEF FaithInv, WorkFaithful
  <2>2. \A e \in Clients : pc[e] = "copying" => pc'[e] = "copying"
    BY <1>1
  <2> QED
    BY <1>1, <2>1, <2>2 DEF Faithful, Current
<1>5. WorkFaithful'
  BY <1>1, <1>4 DEF WorkFaithful, Sound
<1>6. ASSUME ~overlapped, NEW r \in Refs, r \notin InWork(Clients)', Sound(r), origins'[r] # Missing
      PROVE  copy[r] = origins'[r]
  <2>1. \A d \in Clients : d # c => ~(pc[d] \in Halfway /\ target[d] = r)
    BY <1>1, <1>6 DEF InWork
  <2>2. CASE r = target[c]
    <3>1. Faithful(c) /\ pc[c] \in Copied
      BY <1>1, <1>6, <2>2 DEF FaithInv, WorkFaithful, Halfway, Copied
    <3>2. ~\E d \in Clients : pc[d] = "copying" /\ target[d] = target[c]
      BY <1>1, <2>1, <2>2 DEF Halfway
    <3> QED
      BY <1>1, <2>2, <3>1, <3>2 DEF Faithful
  <2>3. CASE r # target[c]
    <3>1. origins'[r] = origins[r]
      BY <1>1, <1>6, <2>3 DEF ViewsAreCurrent
    <3>2. r \notin InWork(Clients)
      BY <2>1, <2>3 DEF InWork
    <3> QED
      BY <1>6, <3>1, <3>2 DEF FaithInv, CopiesMatch
  <2> QED
    BY <2>2, <2>3
<1>7. CopiesMatch'
  BY <1>1, <1>6 DEF CopiesMatch, Sound
<1> QED
  BY <1>3, <1>5, <1>7 DEF FaithInv

LEMMA FaithSource ==
  ASSUME TypeInv, FaithInv, NEW v \in Refs, SourceChanges(v)
  PROVE  FaithInv'
<1> USE DEF TypeInv, ShapeInv, Shape
<1>1. /\ UNCHANGED <<origins, copy, stripped, overlapped, pc, target, path, hashed, opened>>
      /\ disturbed' = disturbed \cup
           {s \in InWork(Clients) : \E u \in Siblings(s) : source'[u] # source[u]}
  BY DEF SourceChanges, requestVars, workVars
<1>2. \A s \in Refs : source'[s] # Missing => source[s] # Missing
  BY DEF SourceChanges, CrossTypeOK
<1>3. \A d \in Clients : pc[d] \in Halfway \cup {"hash"} => target[d] \in Refs /\ path[d] \in Refs
  BY DEF RequestKnown, PathKnown, Hashing, Halfway
<1>4. ASSUME NEW d \in Clients, pc[d] = "hash", source'[path[d]] # Missing
      PROVE  path[d] = Found(source', target[d])
  <2>1. target[d] \in Refs /\ path[d] \in Refs /\ source[path[d]] # Missing
    BY <1>2, <1>3, <1>4
  <2>2. path[d] = Found(source, target[d])
    BY <1>4, <2>1 DEF FaithInv, PathCurrent, Current
  <2>3. path[d] # None
    BY <2>1, RefAssumption
  <2> QED
    BY <1>2, <1>4, <2>1, <2>2, <2>3, FoundStays
<1>5. ASSUME NEW d \in Clients, pc[d] \in Halfway, Sound(target[d])' PROVE Faithful(d)'
  <2>1. target[d] \in InWork(Clients) /\ target[d] \notin disturbed' /\ Sound(target[d])
    BY <1>1, <1>5 DEF InWork, Sound
  <2>2. \A u \in Siblings(target[d]) : source'[u] = source[u]
    BY <1>1, <2>1
  <2>3. Faithful(d) /\ target[d] \in Refs /\ path[d] \in Refs
    BY <1>3, <1>5, <2>1 DEF FaithInv, WorkFaithful
  <2>4. path[d] \in Siblings(target[d])
    <3>1. Found(source, target[d]) = path[d] /\ path[d] # None
      BY <2>3, RefAssumption DEF Faithful, Current
    <3> QED
      BY <2>3, <3>1, FoundIs
  <2>5. Found(source', target[d]) = Found(source, target[d])
    BY <2>2, <2>3, FoundSame
  <2>6. source'[path[d]] = source[path[d]]
    BY <2>2, <2>4
  <2> QED
    BY <1>1, <2>3, <2>5, <2>6 DEF Faithful, Current
<1>6. PathCurrent'
  BY <1>1, <1>4 DEF PathCurrent, Current
<1>7. WorkFaithful'
  BY <1>1, <1>5 DEF WorkFaithful
<1>8. InWork(Clients)' = InWork(Clients) /\ \A r : Sound(r)' => Sound(r)
  BY <1>1 DEF InWork, Sound
<1>9. CopiesMatch'
  BY <1>1, <1>8 DEF FaithInv, CopiesMatch
<1> QED
  BY <1>6, <1>7, <1>9 DEF FaithInv

LEMMA FaithStep == TypeInv /\ BackedInv /\ ViewsAreCurrent /\ FaithInv /\ [CrossNext]_vars => FaithInv'
<1> SUFFICES ASSUME TypeInv, BackedInv, ViewsAreCurrent, FaithInv, [CrossNext]_vars PROVE FaithInv'
  OBVIOUS
<1>0. \A d \in Clients : pc[d] \in Halfway => target[d] \in Refs
  BY DEF TypeInv, ShapeInv, RequestKnown, Hashing, Halfway
<1>1. ASSUME NEW p \in Processes, Crash(p) PROVE FaithInv'
  <2> DEFINE gone == {c \in Clients : processOf[c] = p}
  <2>1. /\ UNCHANGED <<source, origins, copy, stripped, overlapped, target, path, hashed, opened>>
        /\ disturbed' = disturbed \cup InWork(gone)
        /\ \A c \in Clients : pc'[c] = IF c \in gone /\ pc[c] # "idle" THEN "done" ELSE pc[c]
    BY <1>1 DEF Crash, projectVars, workVars
  <2>2. \A c \in gone : pc[c] \in Halfway => target[c] \in disturbed'
    BY <2>1 DEF InWork
  <2> HIDE DEF gone
  <2>3. \A r \in Refs : Sound(r)' => Sound(r) /\ copy'[r] = copy[r]
    BY <2>1 DEF Sound
  <2>4. \A c \in Clients : /\ pc'[c] \in Halfway => pc'[c] = pc[c]
                           /\ pc[c] \in Halfway => target[c] \in disturbed' \/ pc'[c] = pc[c]
                           /\ pc'[c] = "hash" => pc[c] = "hash"
    BY <2>1, <2>2 DEF Halfway
  <2> QED
    BY <1>0, <2>1, <2>3, <2>4, FaithQuiet
<1>2. CASE UNCHANGED vars
  <2>1. UNCHANGED <<source, origins, copy, stripped, disturbed, overlapped, pc, target, path, hashed, opened>>
    BY <1>2 DEF vars, projectVars, requestVars, workVars, historyVars
  <2> QED
    BY <1>0, <2>1, FaithQuiet DEF Sound
<1> QED
  BY <1>1, <1>2, FaithStepQuiet, FaithHash, FaithBegin, FaithFinish, FaithWrite, FaithSource
  DEF CrossNext, Serve

\* Without a source project the reference whose entry answers for it is served from
\* its copy.
LEMMA CopyResolves ==
  ASSUME NEW r \in Refs, copy[r] = origins[r], Answers(r)
  PROVE  Resolve(Gone, r) = "external"
<1>1. Found(Gone, r) = None
  <2>1. \A s \in Refs : Gone[s] = Missing
    BY DEF Gone
  <2>2. CASE Found(Gone, r) # None
    BY <2>1, <2>2, FoundIs DEF Siblings
  <2> QED
    BY <2>2
<1>2. Found(copy, r) = r /\ r # None
  BY RefAssumption DEF Found, Answers
<1>3. OriginOf(origins, added, r) = origins[r]
  BY <1>2 DEF OriginOf, Answers
<1>4. Resolve(Gone, r) = CopyStatus(copy[r], origins[r])
  BY <1>1, <1>2, <1>3 DEF Resolve
<1> QED
  BY <1>4 DEF CopyStatus

(***************************************************************************)
(* What was materialised outlives its source project, for any number of    *)
(* requests, assets, versions, changes and crashes, and however the paths  *)
(* of the assets begin: with the lock, the hash, the copy and the entry of *)
(* a reference that nothing disturbed are one, and when its entry is the   *)
(* first that its path finds, the copy is what it is compared with.        *)
(***************************************************************************)
THEOREM CopiesSurvive == CrossSpec => []MaterializedSurvives
<1> DEFINE Inv == TypeInv /\ BackedInv /\ WriterInv /\ ViewsAreCurrent /\ FaithInv
<1>1. CrossInit => Inv
  <2>1. CrossInit => ViewsAreCurrent
    BY DEF CrossInit, ViewsAreCurrent
  <2> QED
    BY <2>1, CrossTypeInitial, BackedInvInitial, WriterInvInitial, FaithInitial
<1>2. Inv /\ [CrossNext]_vars => Inv'
  <2> SUFFICES ASSUME Inv, [CrossNext]_vars PROVE Inv'
    OBVIOUS
  <2>1. ShapeInv
    BY DEF TypeInv
  <2> QED
    BY <2>1, CrossTypeStep, BackedInvStep, WriterInvStep, ViewsStep, FaithStep
<1>3. Inv => MaterializedSurvives
  <2> SUFFICES ASSUME Inv, ~overlapped, NEW r \in Settled, Answers(r)
               PROVE  Resolve(Gone, r) = "external"
    BY DEF MaterializedSurvives
  <2>1. r \in Refs /\ copy[r] = origins[r]
    BY DEF Settled, Answers, FaithInv, CopiesMatch, Sound
  <2> QED
    BY <2>1, CopyResolves
<1> HIDE DEF Inv
<1> QED
  BY <1>1, <1>2, <1>3, PTL DEF CrossSpec
=============================================================================
