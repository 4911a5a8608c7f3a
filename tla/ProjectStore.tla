---------------------------- MODULE ProjectStore ----------------------------
(***************************************************************************)
(* The project files: ProjectManager (core/project/manager.py), the import *)
(* of an archive (core/project/portability.py) and the reading and writing *)
(* of JSON files (core/project/atomic_io.py).  Requests are threads of one *)
(* process and take no lock; an import blocks the event loop, so there is  *)
(* one at a time.                                                          *)
(*                                                                         *)
(* A project is named by its id, which is the name of its directory.  A    *)
(* write replaces the whole file or raises and leaves it; a read that      *)
(* fails twice gives what this process parsed last.                        *)
(***************************************************************************)
EXTENDS Naturals, Sequences, FiniteSets

CONSTANTS Requests,
          Ids,        \* project ids
          NonAscii,   \* ids with a letter that PROJECT_ID_PATTERN does not allow
          Legacy,     \* projects whose project.json has no id yet
          None,
          MaxCalls,   \* bound on the operations, together
          MaxFaults   \* bound on the reads and writes that fail

ASSUME StoreAssumption ==
  /\ NonAscii \subseteq Ids
  /\ Legacy \subseteq Ids \ NonAscii
  /\ None \notin Ids \cup Requests \cup {"create", "import", "user"}
  /\ MaxCalls \in Nat
  /\ MaxFaults \in Nat

VARIABLES maker,         \* what made each directory: "create", "import", "user", or None
          json,          \* project.json: NoJson or [hasId, loop]
          files,         \* what else is in the directory: "guide", "talk", "assets"
          talk,          \* conversation.json: who appended, in order
          snapshot,      \* the conversation as it was parsed last, or None
          selection,     \* .current_project.json
          pc, op,
          id,            \* the project a request works on
          viewJson, viewTalk,
          calls, faults,
          overlapped,    \* history: projects two requests worked on at once
          outdated       \* history: projects of which an old snapshot was served

diskVars == <<maker, json, files, talk, selection>>
requestVars == <<pc, op, id, viewJson, viewTalk>>
historyVars == <<calls, faults, overlapped, outdated>>
vars == <<diskVars, snapshot, requestVars, historyVars>>

NoJson == [hasId |-> FALSE, loop |-> "none"]
Operations == {"create", "import", "append", "settings", "select", "look"}
Listed == {d \in Ids : json[d] # NoJson}

Init ==
  /\ maker = [d \in Ids |-> IF d \in Legacy THEN "user" ELSE None]
  /\ json = [d \in Ids |-> IF d \in Legacy THEN [hasId |-> FALSE, loop |-> "off"] ELSE NoJson]
  /\ files = [d \in Ids |-> {}]
  /\ talk = [d \in Ids |-> <<>>]
  /\ snapshot = [d \in Ids |-> None]
  /\ selection \in Ids \cup {None}
  /\ pc = [r \in Requests |-> "idle"]
  /\ op = [r \in Requests |-> None]
  /\ id = [r \in Requests |-> None]
  /\ viewJson = [r \in Requests |-> NoJson]
  /\ viewTalk = [r \in Requests |-> <<>>]
  /\ calls = 0
  /\ faults = 0
  /\ overlapped = {}
  /\ outdated = {}

-----------------------------------------------------------------------------
Step(r, from, to) ==
  /\ pc[r] = from
  /\ pc' = [pc EXCEPT ![r] = to]

Busy(d) == {r \in Requests : pc[r] # "idle" /\ id[r] = d}

\* A request comes in.  get_project() opens only what PROJECT_ID_PATTERN allows and
\* has a project.json; create_project() and the import check names of their own.
Openable(d) == d \notin NonAscii /\ json[d] # NoJson

FirstStep(o) ==
  CASE o = "create" -> "make"
    [] o = "import" -> "choose"
    [] OTHER -> "load"

Admitted(r, o, d, first) ==
  /\ calls < MaxCalls
  /\ Step(r, "idle", first)
  /\ op' = [op EXCEPT ![r] = o]
  /\ id' = [id EXCEPT ![r] = d]
  /\ calls' = calls + 1
  /\ overlapped' = IF Busy(d) = {} THEN overlapped ELSE overlapped \cup {d}
  /\ UNCHANGED <<diskVars, snapshot, viewJson, viewTalk, faults, outdated>>

Arrive(r, o, d) ==
  /\ o \notin {"create", "import"} => Openable(d)
  /\ o = "import" => \A q \in Requests : pc[q] = "idle" \/ op[q] # "import"
  /\ Admitted(r, o, d, FirstStep(o))

SameView == UNCHANGED <<op, id, viewJson, viewTalk>>
SameHistory == UNCHANGED <<calls, faults, overlapped, outdated>>

\* A write of request r raises: its operation ends where it is.
WriteFails(r) ==
  /\ pc[r] \in {"describe", "guide", "talk", "point", "normalise", "store", "append"}
  /\ faults < MaxFaults
  /\ faults' = faults + 1
  /\ pc' = [pc EXCEPT ![r] = "idle"]
  /\ UNCHANGED <<diskVars, snapshot, op, id, viewJson, viewTalk, calls, overlapped, outdated>>

-----------------------------------------------------------------------------
\* (mutant) A directory that exists is taken over.
MayMakeAny(d) == TRUE

\* mkdir(exist_ok=False)
MayMake(d) == maker[d] = None

\* create_project(): the directory is claimed ...
MakeDirectory(r) ==
  /\ Step(r, "make", IF MayMake(id[r]) THEN "describe" ELSE "idle")
  /\ maker' = IF MayMake(id[r]) THEN [maker EXCEPT ![id[r]] = op[r]] ELSE maker
  /\ UNCHANGED <<json, files, talk, selection, snapshot>>
  /\ SameView /\ SameHistory

\* ... described, which lists it ...
Describe(r) ==
  /\ Step(r, "describe", IF op[r] = "create" THEN "guide" ELSE "idle")
  /\ json' = [json EXCEPT ![id[r]] = [hasId |-> TRUE, loop |-> "off"]]
  /\ UNCHANGED <<maker, files, talk, selection, snapshot>>
  /\ SameView /\ SameHistory

WriteGuide(r) ==
  /\ Step(r, "guide", "talk")
  /\ files' = [files EXCEPT ![id[r]] = @ \cup {"guide"}]
  /\ UNCHANGED <<maker, json, talk, selection, snapshot>>
  /\ SameView /\ SameHistory

\* ... and given an empty conversation.
BeginTalk(r) ==
  /\ Step(r, "talk", "current")
  /\ files' = [files EXCEPT ![id[r]] = @ \cup {"talk"}]
  /\ talk' = [talk EXCEPT ![id[r]] = <<>>]
  /\ UNCHANGED <<maker, json, selection, snapshot>>
  /\ SameView /\ SameHistory

\* get_current_project_id(): a selection of no project is stale, one that the pattern
\* refuses raises, and one of an old file is normalised.
ReadSelection(r) ==
  LET old == selection # None /\ Openable(selection) /\ ~json[selection].hasId IN
  /\ pc[r] = "current"
  /\ pc' = [pc EXCEPT ![r] =
       CASE selection = None -> "point"
         [] selection # None /\ ~old ->
              IF selection \notin NonAscii /\ json[selection] = NoJson THEN "clear" ELSE "idle"
         [] OTHER -> "normalise"]
  /\ IF old
     THEN /\ id' = [id EXCEPT ![r] = selection]
          /\ viewJson' = [viewJson EXCEPT ![r] = json[selection]]
          /\ overlapped' = IF Busy(selection) = {} THEN overlapped ELSE overlapped \cup {selection}
     ELSE UNCHANGED <<id, viewJson, overlapped>>
  /\ UNCHANGED <<diskVars, snapshot, op, viewTalk, calls, faults, outdated>>

ClearSelection(r) ==
  /\ Step(r, "clear", "point")
  /\ selection' = None
  /\ UNCHANGED <<maker, json, files, talk, snapshot>>
  /\ SameView /\ SameHistory

\* select_project(): raises on an id that cannot be opened.
PointedAt(d) == IF Openable(d) THEN d ELSE selection

Point(r) ==
  /\ Step(r, "point", "idle")
  /\ selection' = PointedAt(id[r])
  /\ UNCHANGED <<maker, json, files, talk, snapshot>>
  /\ SameView /\ SameHistory

-----------------------------------------------------------------------------
\* import_project_zip(): with a project of this id or name there, another id is made
\* up.  A directory that exists ends the import.
FreshIds(d) == IF d \in Listed THEN Ids \ (Listed \cup {d}) ELSE {d}

ChooseId(r) ==
  /\ pc[r] = "choose"
  /\ \/ \E d \in FreshIds(id[r]) :
          /\ id' = [id EXCEPT ![r] = d]
          /\ pc' = [pc EXCEPT ![r] = IF maker[d] = None THEN "claim" ELSE "idle"]
          /\ overlapped' = IF Busy(d) \subseteq {r} THEN overlapped ELSE overlapped \cup {d}
     \/ /\ FreshIds(id[r]) = {}
        /\ pc' = [pc EXCEPT ![r] = "idle"]
        /\ UNCHANGED <<id, overlapped>>
  /\ UNCHANGED <<diskVars, snapshot, op, viewJson, viewTalk, calls, faults, outdated>>

ClaimDirectory(r) ==
  /\ Step(r, "claim", IF MayMake(id[r]) THEN "extract" ELSE "idle")
  /\ maker' = IF MayMake(id[r]) THEN [maker EXCEPT ![id[r]] = op[r]] ELSE maker
  /\ UNCHANGED <<json, files, talk, selection, snapshot>>
  /\ SameView /\ SameHistory

\* (mutant) project.json is extracted like every other entry.
ExtractedJsonToo(d) == [json EXCEPT ![d] = [hasId |-> TRUE, loop |-> "off"]]

\* project.json is left out.
ExtractedJson(d) == json

\* The entries are extracted one after the other.
ExtractFirst(r) ==
  /\ Step(r, "extract", "extract rest")
  /\ files' = [files EXCEPT ![id[r]] = @ \cup {"guide"}]
  /\ json' = ExtractedJson(id[r])
  /\ UNCHANGED <<maker, talk, selection, snapshot>>
  /\ SameView /\ SameHistory

ExtractRest(r) ==
  /\ Step(r, "extract rest", "describe")
  /\ files' = [files EXCEPT ![id[r]] = @ \cup {"talk", "assets"}]
  /\ UNCHANGED <<maker, json, talk, selection, snapshot>>
  /\ SameView /\ SameHistory

\* An archive that is refused halfway takes its directory with it; any other
\* exception leaves it there.
ExtractFails(r) ==
  /\ pc[r] \in {"extract", "extract rest"}
  /\ pc' = [pc EXCEPT ![r] = "idle"]
  /\ \/ /\ maker' = [maker EXCEPT ![id[r]] = None]
        /\ json' = [json EXCEPT ![id[r]] = NoJson]
        /\ files' = [files EXCEPT ![id[r]] = {}]
        /\ talk' = [talk EXCEPT ![id[r]] = <<>>]
        /\ UNCHANGED faults
     \/ /\ faults < MaxFaults
        /\ faults' = faults + 1
        /\ UNCHANGED <<maker, json, files, talk>>
  /\ UNCHANGED <<selection, snapshot, op, id, viewJson, viewTalk, calls, overlapped, outdated>>

-----------------------------------------------------------------------------
\* What a request does with the project it has opened.
AfterLoad(o) ==
  CASE o = "append" -> "read"
    [] o = "settings" -> "store"
    [] o = "select" -> "point"
    [] OTHER -> "idle"

\* get_project() and list_projects() read project.json ...
Load(r) ==
  /\ Step(r, "load", IF json[id[r]].hasId THEN AfterLoad(op[r]) ELSE "normalise")
  /\ viewJson' = [viewJson EXCEPT ![r] = json[id[r]]]
  /\ UNCHANGED <<diskVars, snapshot, op, id, viewTalk>>
  /\ SameHistory

\* ... and give an old file its id.
Normalise(r) ==
  /\ Step(r, "normalise", AfterLoad(op[r]))
  /\ json' = [json EXCEPT ![id[r]] = [hasId |-> TRUE, loop |-> viewJson[r].loop]]
  /\ UNCHANGED <<maker, files, talk, selection, snapshot>>
  /\ SameView /\ SameHistory

\* update_settings()
Store(r) ==
  /\ Step(r, "store", "idle")
  /\ json' = [json EXCEPT ![id[r]] = [hasId |-> TRUE, loop |-> "on"]]
  /\ UNCHANGED <<maker, files, talk, selection, snapshot>>
  /\ SameView /\ SameHistory

\* append_conversation_entries(): the file as it is, or the last good copy of it when
\* it could not be read twice; without a copy that raises.
ReadTalk(r) ==
  LET d == id[r] IN
  /\ pc[r] = "read"
  /\ \/ /\ Step(r, "read", "append")
        /\ viewTalk' = [viewTalk EXCEPT ![r] = talk[d]]
        /\ snapshot' = IF "talk" \in files[d] THEN [snapshot EXCEPT ![d] = talk[d]] ELSE snapshot
        /\ UNCHANGED <<faults, outdated>>
     \/ /\ "talk" \in files[d]
        /\ faults < MaxFaults
        /\ faults' = faults + 1
        /\ Step(r, "read", IF snapshot[d] = None THEN "idle" ELSE "append")
        /\ viewTalk' = [viewTalk EXCEPT ![r] = IF snapshot[d] = None THEN <<>> ELSE snapshot[d]]
        /\ outdated' = IF snapshot[d] \in {None, talk[d]} THEN outdated ELSE outdated \cup {d}
        /\ UNCHANGED snapshot
  /\ UNCHANGED <<diskVars, op, id, viewJson, calls, overlapped>>

\* (mutant) Only the new entries are written.
MergedAnew(seen, r) == <<r>>

Merged(seen, r) == Append(seen, r)

WriteTalk(r) ==
  /\ Step(r, "append", "idle")
  /\ talk' = [talk EXCEPT ![id[r]] = Merged(viewTalk[r], r)]
  /\ files' = [files EXCEPT ![id[r]] = @ \cup {"talk"}]
  /\ UNCHANGED <<maker, json, selection, snapshot>>
  /\ SameView /\ SameHistory

Serve(r) ==
  \/ MakeDirectory(r) \/ Describe(r) \/ WriteGuide(r) \/ BeginTalk(r)
  \/ ReadSelection(r) \/ ClearSelection(r) \/ Point(r)
  \/ ChooseId(r) \/ ClaimDirectory(r) \/ ExtractFirst(r) \/ ExtractRest(r) \/ ExtractFails(r)
  \/ Load(r) \/ Normalise(r) \/ Store(r) \/ ReadTalk(r) \/ WriteTalk(r)
  \/ WriteFails(r)

Next ==
  \E r \in Requests : Serve(r) \/ \E o \in Operations, d \in Ids : Arrive(r, o, d)

Spec == Init /\ [][Next]_vars

-----------------------------------------------------------------------------
\* The operations and steps of TrainingAssets among them.
TypeOK ==
  /\ maker \in [Ids -> {"create", "import", "user", None}]
  /\ json \in [Ids -> [hasId : BOOLEAN, loop : {"none", "off", "on"}]]
  /\ files \in [Ids -> SUBSET {"guide", "talk", "assets"}]
  /\ talk \in [Ids -> Seq(Requests)]
  /\ snapshot \in [Ids -> Seq(Requests) \cup {None}]
  /\ selection \in Ids \cup {None}
  /\ pc \in [Requests -> {"idle", "make", "describe", "guide", "talk", "current", "clear",
                          "point", "choose", "claim", "extract", "extract rest", "load",
                          "normalise", "store", "read", "append",
                          "insert", "fetch", "update", "delete"}]
  /\ op \in [Requests -> Operations \cup {"asset", None}]
  /\ id \in [Requests -> Ids \cup {None}]
  /\ viewJson \in [Requests -> [hasId : BOOLEAN, loop : {"none", "off", "on"}]]
  /\ viewTalk \in [Requests -> Seq(Requests)]
  /\ calls \in 0..MaxCalls
  /\ faults \in 0..MaxFaults
  /\ overlapped \subseteq Ids
  /\ outdated \subseteq Ids

(***************************************************************************)
(* A listed project is whole: an import lists it only when everything is   *)
(* extracted, and no other request, failing write or refused archive       *)
(* leaves a listed directory that is not (portability.py:254-313).         *)
(***************************************************************************)
ListedIsWhole ==
  \A d \in Listed : maker[d] = "import" => {"guide", "talk", "assets"} \subseteq files[d]

(***************************************************************************)
(* No request takes a listed project away, by overwriting its directory or *)
(* by cleaning up after a failed import, however create and import of one  *)
(* name interleave (manager.py:78-81, portability.py:248-270, :298-300).   *)
(***************************************************************************)
ProjectsAreKept == [][Listed \subseteq Listed']_vars

(***************************************************************************)
(* The conversation only grows and a setting is only changed by its        *)
(* request, for every project that no two requests worked on at once and   *)
(* of which no old snapshot was served (manager.py:165-173, :215-228,      *)
(* atomic_io.py:222-232).                                                  *)
(***************************************************************************)
UpdatesAreKept ==
  [][\A d \in Ids \ (overlapped' \cup outdated') :
       /\ json[d] # NoJson => /\ Len(talk[d]) <= Len(talk'[d])
                              /\ SubSeq(talk'[d], 1, Len(talk[d])) = talk[d]
       /\ json[d].loop = "on" => json'[d].loop = "on"]_vars
=============================================================================
