---------------------------- MODULE CrossProject ----------------------------
(***************************************************************************)
(* Cross-project references (core/project/cross_project.py) of one         *)
(* consumer project to the assets of one source project: how a reference   *)
(* resolves, and how materialising it, or exporting the consumer project   *)
(* with its references (core/project/export.py), copies the file into      *)
(* _external/ and records its hash in _external/origins.json, each under   *)
(* the file lock.                                                          *)
(*                                                                         *)
(* A reference names one version of an asset; AssetOf is its asset path.   *)
(* Paths are compared in three ways: a file is looked for in the directory *)
(* of the asset (Siblings), a directory is removed with all it holds       *)
(* (Within), and an entry of origins.json is found by how its path begins  *)
(* (Prefixed), so that one for char2/ or char/x/ also answers for char.    *)
(* The content of a file is <<r, n>>: the n-th revision of version r.      *)
(***************************************************************************)
EXTENDS FileLock, Integers, Sequences

CONSTANTS Refs,         \* references, each @project/asset_path#version
          AssetOf,      \* the asset path of each
          Within,       \* those whose copy lies in the directory of its asset, at any depth
          Prefixed,     \* those whose entry has a path that begins with that of its asset
          Order,        \* sorted() of the files of a directory: a sequence of Refs
          Used,         \* those in the files of the consumer project, sorted
          MaxChanges,   \* bound on the changes of the source project
          MaxFaults     \* bound on the crashes and on the reads of origins.json that fail

ASSUME RefAssumption ==
  /\ DOMAIN AssetOf = Refs
  /\ Order \in Seq(Refs)
  /\ Refs = {Order[i] : i \in 1..Len(Order)}
  /\ Used \in Seq(Refs)
  /\ MaxChanges \in Nat
  /\ MaxFaults \in Nat
  /\ None \notin Refs

\* The references to the versions of the same asset, whose files share a directory.
Siblings(r) == {s \in Refs : AssetOf[s] = AssetOf[r]}

ASSUME PathAssumption ==
  \A r \in Refs :
    Siblings(r) \subseteq Within[r] /\ Within[r] \subseteq Prefixed[r] /\ Prefixed[r] \subseteq Refs

VARIABLES source,     \* file of each version in the source project
          copy,       \* file of each version in _external/
          origins,    \* sha256 of each entry of origins.json
          added,      \* origins.json lists its entries in the order they were added
          pc,
          kind,       \* "materialize" or "export"
          todo, target,
          path,       \* version whose file the target resolved to
          hashed,     \* content the entry will name
          opened,     \* content of the file when copy2() opened it
          view, viewAdded,
          changes, faults,
          disturbed,  \* history: the source changed, or the request ended, halfway
          stripped,   \* history: references whose copy an export removed
          reset,      \* history: origins.json could not be read and was begun anew
          overlapped  \* history: two processes were inside the lock at once

projectVars == <<source, copy, origins, added>>
workVars == <<kind, todo, target, path, hashed, opened, view, viewAdded>>
requestVars == <<pc, workVars>>
historyVars == <<changes, faults, disturbed, stripped, reset, overlapped>>
vars == <<lockVars, projectVars, requestVars, historyVars>>

Missing == <<>>
Partial == <<None>>
Contents == Refs \X (0..MaxChanges)

NoOrigins == [r \in Refs |-> Missing]

CrossInit ==
  /\ LockInit
  /\ source = [r \in Refs |-> <<r, 0>>]
  /\ copy = [r \in Refs |-> Missing]
  /\ origins = NoOrigins
  /\ added = <<>>
  /\ pc = [c \in Clients |-> "idle"]
  /\ kind \in [Clients -> {"materialize", "export"}]
  /\ todo = [c \in Clients |-> <<>>]
  /\ target = [c \in Clients |-> None]
  /\ path = target
  /\ hashed = [c \in Clients |-> Missing]
  /\ opened = hashed
  /\ view = [c \in Clients |-> NoOrigins]
  /\ viewAdded = [c \in Clients |-> <<>>]
  /\ changes = 0
  /\ faults = 0
  /\ disturbed = {}
  /\ stripped = {}
  /\ reset = FALSE
  /\ overlapped = FALSE

-----------------------------------------------------------------------------
\* The first element of s that is in S, or None.
FirstIn(s, S) ==
  LET hits == {i \in 1..Len(s) : s[i] \in S} IN
  IF hits = {} THEN None ELSE s[CHOOSE i \in hits : \A j \in hits : i <= j]

\* _find_asset_file() and _find_external_copy(): the version itself, or else the
\* first file in the directory of the asset.
Found(files, r) ==
  IF files[r] # Missing THEN r
  ELSE FirstIn(Order, {s \in Siblings(r) : files[s] # Missing})

\* (mutant) origins.json is searched from its end.
LastOriginOf(list, seq, r) ==
  LET back == [i \in 1..Len(seq) |-> seq[Len(seq) + 1 - i]]
      e == FirstIn(back, Prefixed[r]) IN
  IF e = None THEN Missing ELSE list[e]

\* The entry a hash is compared with: the first one whose path begins with the
\* path of the asset, whatever its version or its asset.
OriginOf(list, seq, r) ==
  LET e == FirstIn(seq, Prefixed[r]) IN IF e = None THEN Missing ELSE list[e]

CopyStatus(content, origin) ==
  IF origin # Missing /\ content # origin THEN "broken" ELSE "external"

\* resolve_reference() when the source project has files `live`.
Resolve(live, r) ==
  LET found == Found(live, r)
      external == Found(copy, r)
      origin == OriginOf(origins, added, r) IN
  IF found # None
  THEN IF origin # Missing /\ live[found] # origin THEN "outdated" ELSE "live"
  ELSE IF external # None THEN CopyStatus(copy[external], origin) ELSE "broken"

-----------------------------------------------------------------------------
Step(c, from, to) ==
  /\ pc[c] = from
  /\ pc' = [pc EXCEPT ![c] = to]

Remaining(rest) == IF rest = <<>> THEN "done" ELSE "resolve"

\* References whose hash was taken and whose entry is not yet written.
Halfway == {"copy", "copying", "copied", "origins", "record"}
InWork(S) == {target[c] : c \in {d \in S : pc[d] \in Halfway}}

\* materialize_project_refs() with the references a client names, and the export,
\* which refreshes those that the project uses.
Begin(c, refs) ==
  /\ kind[c] = "export" => refs = Used
  /\ Step(c, "idle", Remaining(refs))
  /\ todo' = [todo EXCEPT ![c] = refs]
  /\ UNCHANGED <<lockVars, projectVars, kind, target, path, hashed, opened, view, viewAdded,
                 historyVars>>

\* _remove_stale_external(): the directory of the asset, with all its versions and
\* the assets below it.
Removed(c, r) ==
  IF kind[c] = "export" /\ Resolve(source, r) = "broken" THEN Within[r] ELSE {}

\* A reference without a file in the source project is passed over: materialising
\* one that is served from its copy is refused, the export keeps it.
ResolveNext(c) ==
  /\ pc[c] = "resolve"
  /\ LET r == Head(todo[c])
         found == Found(source, r) IN
       /\ pc' = [pc EXCEPT ![c] = IF found # None THEN "hash" ELSE Remaining(Tail(todo[c]))]
       /\ target' = [target EXCEPT ![c] = r]
       /\ path' = [path EXCEPT ![c] = found]
       /\ copy' = [s \in Refs |-> IF s \in Removed(c, r) THEN Missing ELSE copy[s]]
       /\ stripped' = stripped \cup {s \in Removed(c, r) : copy[s] # Missing}
  /\ todo' = [todo EXCEPT ![c] = Tail(@)]
  /\ UNCHANGED <<lockVars, source, origins, added, kind, hashed, opened, view, viewAdded,
                 changes, faults, disturbed, reset, overlapped>>

\* A file that is gone by now raises, which ends the request.
HashSource(c) ==
  /\ pc[c] = "hash"
  /\ IF source[path[c]] = Missing
     THEN Step(c, "hash", "done") /\ UNCHANGED hashed
     ELSE /\ Step(c, "hash", "copy")
          /\ hashed' = [hashed EXCEPT ![c] = source[path[c]]]
  /\ UNCHANGED <<lockVars, projectVars, kind, todo, target, path, opened, view, viewAdded,
                 historyVars>>

\* Both critical sections are entered and left the same way.
Locking(c) == pc[c] \in {"copy", "origins"}
Leaving(c) == pc[c] \in {"copied", "recorded", "raised"}

TakeLock(c) ==
  /\ Locking(c)
  /\ OpenLock(c) \/ Flock(c)
  /\ overlapped' = (overlapped \/ Overlapping')
  /\ UNCHANGED <<projectVars, requestVars, changes, faults, disturbed, stripped, reset>>

\* The export goes on with the next reference.
AfterException(c) == IF kind[c] = "export" THEN Remaining(todo[c]) ELSE "done"

\* TimeoutError: no lock of the process, or no flock, within the timeout.
LockFails(c) ==
  /\ Locking(c)
  /\ \/ /\ lockPc[c] = "free"
        /\ ~ThreadLockFree(c)
        /\ pc' = [pc EXCEPT ![c] = AfterException(c)]
        /\ UNCHANGED lockVars
     \/ /\ FlockTimeout(c)
        /\ pc' = [pc EXCEPT ![c] = "raised"]
  /\ disturbed' = disturbed \cup InWork({c})
  /\ UNCHANGED <<projectVars, workVars, changes, faults, stripped, reset, overlapped>>

\* copy2() opens the source and truncates the copy; without a source it raises ...
BeginCopy(c) ==
  /\ pc[c] = "copy"
  /\ lockPc[c] = "held"
  /\ IF source[path[c]] = Missing
     THEN Step(c, "copy", "raised") /\ UNCHANGED <<copy, opened>>
     ELSE /\ Step(c, "copy", "copying")
          /\ copy' = [copy EXCEPT ![target[c]] = Partial]
          /\ opened' = [opened EXCEPT ![c] = source[path[c]]]
  /\ UNCHANGED <<lockVars, source, origins, added, kind, todo, target, path, hashed, view, viewAdded,
                 historyVars>>

\* What is read while the source may change under the open file.
CopyRead(c) == {opened[c], source[path[c]]} \ {Missing}

\* ... and writes what it reads, to nowhere if an export removed the copy meanwhile.
FinishCopy(c) ==
  /\ Step(c, "copying", "copied")
  /\ IF copy[target[c]] = Missing
     THEN UNCHANGED copy
     ELSE \E content \in CopyRead(c) : copy' = [copy EXCEPT ![target[c]] = content]
  /\ opened' = [opened EXCEPT ![c] = Missing]
  /\ UNCHANGED <<lockVars, source, origins, added, kind, todo, target, path, hashed, view,
                 viewAdded, historyVars>>

\* update_origins_json(): the list is read; an unreadable one is begun anew ...
ReadOrigins(c) ==
  /\ Step(c, "origins", "record")
  /\ lockPc[c] = "held"
  /\ \/ /\ view' = [view EXCEPT ![c] = origins]
        /\ viewAdded' = [viewAdded EXCEPT ![c] = added]
        /\ UNCHANGED <<faults, reset>>
     \/ /\ faults < MaxFaults
        /\ faults' = faults + 1
        /\ view' = [view EXCEPT ![c] = NoOrigins]
        /\ viewAdded' = [viewAdded EXCEPT ![c] = <<>>]
        /\ reset' = TRUE
  /\ UNCHANGED <<lockVars, projectVars, kind, todo, target, path, hashed, opened, changes, disturbed,
                 stripped, overlapped>>

\* ... and written with the entry replaced or appended.
WriteOrigins(c) ==
  LET r == target[c] IN
  /\ Step(c, "record", "recorded")
  /\ origins' = [view[c] EXCEPT ![r] = hashed[c]]
  /\ added' = IF view[c][r] # Missing THEN viewAdded[c] ELSE Append(viewAdded[c], r)
  /\ view' = [view EXCEPT ![c] = NoOrigins]
  /\ viewAdded' = [viewAdded EXCEPT ![c] = <<>>]
  /\ hashed' = [hashed EXCEPT ![c] = Missing]
  /\ UNCHANGED <<lockVars, source, copy, kind, todo, target, path, opened, historyVars>>

\* (mutant) A copy that failed is recorded like any other.
AfterSectionUnchecked(c) ==
  IF pc[c] = "recorded" THEN Remaining(todo[c]) ELSE "origins"

\* The copy, then its entry, then the next reference.
AfterSection(c) ==
  CASE pc[c] = "copied" -> "origins"
    [] pc[c] = "recorded" -> Remaining(todo[c])
    [] OTHER -> AfterException(c)

LeaveLock(c) ==
  /\ Leaving(c)
  /\ \/ /\ Unlock(c)
        /\ UNCHANGED pc
     \/ /\ CloseLock(c)
        /\ pc' = [pc EXCEPT ![c] = AfterSection(c)]
  /\ UNCHANGED <<projectVars, workVars, historyVars>>

Serve(c) ==
  \/ ResolveNext(c) \/ HashSource(c) \/ TakeLock(c) \/ LockFails(c) \/ BeginCopy(c)
  \/ FinishCopy(c) \/ ReadOrigins(c) \/ WriteOrigins(c) \/ LeaveLock(c)

\* The source project goes on working: a file changes or is removed, or the project
\* goes away.
SourceChanges(r) ==
  /\ source[r] # Missing
  /\ changes < MaxChanges
  /\ changes' = changes + 1
  /\ source' \in {[source EXCEPT ![r] = <<r, @[2] + 1>>], [source EXCEPT ![r] = Missing],
                  [s \in Refs |-> Missing]}
  /\ disturbed' = disturbed \cup
       {s \in InWork(Clients) : \E v \in Siblings(s) : source'[v] # source[v]}
  /\ UNCHANGED <<lockVars, copy, origins, added, requestVars, faults, stripped, reset, overlapped>>

Crash(p) ==
  LET gone == {c \in Clients : processOf[c] = p} IN
  /\ faults < MaxFaults
  /\ faults' = faults + 1
  /\ EndProcess(p)
  /\ disturbed' = disturbed \cup InWork(gone)
  /\ pc' = [c \in Clients |-> IF c \in gone /\ pc[c] # "idle" THEN "done" ELSE pc[c]]
  /\ UNCHANGED <<projectVars, workVars, changes, stripped, reset, overlapped>>

\* The lists a client may ask for: one reference, or all that the project uses.
RefLists == {<<r>> : r \in Refs} \cup {Used}

CrossNext ==
  \/ \E c \in Clients : Serve(c) \/ \E refs \in RefLists : Begin(c, refs)
  \/ \E r \in Refs : SourceChanges(r)
  \/ \E p \in Processes : Crash(p)

CrossSpec == CrossInit /\ [][CrossNext]_vars

-----------------------------------------------------------------------------
CrossTypeOK ==
  /\ LockTypeOK
  /\ source \in [Refs -> Contents \cup {Missing}]
  /\ copy \in [Refs -> Contents \cup {Missing, Partial}]
  /\ origins \in [Refs -> Contents \cup {Missing}]
  /\ pc \in [Clients -> {"idle", "resolve", "hash", "recorded", "raised", "done"} \cup Halfway]
  /\ kind \in [Clients -> {"materialize", "export"}]
  /\ todo \in [Clients -> Seq(Refs)]
  /\ target \in [Clients -> Refs \cup {None}]
  /\ path \in [Clients -> Refs \cup {None}]
  /\ {hashed, opened} \subseteq [Clients -> Contents \cup {Missing}]
  /\ view \in [Clients -> [Refs -> Contents \cup {Missing}]]
  /\ added \in Seq(Refs)
  /\ viewAdded \in [Clients -> Seq(Refs)]
  /\ changes \in 0..MaxChanges
  /\ faults \in 0..MaxFaults
  /\ disturbed \subseteq Refs
  /\ stripped \subseteq Refs
  /\ {reset, overlapped} \subseteq BOOLEAN

(***************************************************************************)
(* An entry of origins.json has its copy, unless an export removed it: the *)
(* file is copied first, and no crash, timeout or other request can part   *)
(* them (cross_project.py:881-901).                                        *)
(***************************************************************************)
EntryHasCopy == \A r \in Refs \ stripped : origins[r] # Missing => copy[r] # Missing

(***************************************************************************)
(* No request loses the entry another one recorded, unless origins.json    *)
(* could not be read or two processes were inside the lock at once         *)
(* (cross_project.py:313-365); two threads of one process never are.       *)
(***************************************************************************)
EntriesAreKept ==
  [][~reset' /\ ~overlapped' => \A r \in Refs : origins[r] # Missing => origins'[r] # Missing]_vars

(***************************************************************************)
(* What was materialised outlives its source: a reference whose entry is   *)
(* the one that answers for it, no earlier one having a path that begins   *)
(* with that of its asset, resolves to its copy when the source project is *)
(* gone, unless the source changed or the request ended between hash and   *)
(* entry, or an export removed the copy, or two processes were inside the  *)
(* lock at once, and one of them wrote an older entry back                 *)
(* (cross_project.py:52, :473-478, :503-544). What other copies there are  *)
(* does not matter.                                                        *)
(***************************************************************************)
Answers(r) == origins[r] # Missing /\ FirstIn(added, Prefixed[r]) = r
Settled == Refs \ (disturbed \cup stripped \cup InWork(Clients))
Gone == [s \in Refs |-> Missing]

MaterializedSurvives ==
  ~overlapped => \A r \in Settled : Answers(r) => Resolve(Gone, r) = "external"

(***************************************************************************)
(* An export keeps a copy that is what its entry says ("pinned versions    *)
(* preserved", export.py:71), at least when no other request is under way. *)
(***************************************************************************)
PinnedCopiesAreKept ==
  [][\A r \in Refs : InWork(Clients) = {} /\ origins[r] # Missing /\ copy[r] = origins[r]
       => copy'[r] # Missing]_vars
=============================================================================
