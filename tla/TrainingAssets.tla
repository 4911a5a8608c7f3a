--------------------------- MODULE TrainingAssets ---------------------------
(***************************************************************************)
(* AssetStore (core/training/asset_store.py): the rows of one of its five  *)
(* tables in the memory.sqlite of every project, next to the project files *)
(* of ProjectStore.  The tables are kept the same way and differ in their  *)
(* columns.                                                                *)
(*                                                                         *)
(* A statement is atomic; an update is a SELECT and then, in another       *)
(* transaction, an UPDATE of every column.  A row names its project, and   *)
(* an archive carries the database with the rows as they are.              *)
(***************************************************************************)
EXTENDS ProjectStore

CONSTANTS Table,
          Records,   \* uuids
          Fields,    \* some of the columns that a patch may set
          Packed     \* rows that the imported archive carries

\* What a request may set in each table; the rest of a row is set by AssetStore.
CharacterSheet == {"name", "visual_anchors", "trigger_words", "forbidden_features",
                   "reference_image_refs", "sheet_source_path"}
DatasetPack == {"source", "cleaning_status", "tags", "license", "split_strategy", "members"}
TrainingRecipe == {"base_model", "rank", "epochs", "optimizer", "caption_strategy"}
LoraPreset == {"name", "layers"}
ImageToVideoRecipe == {"name", "workflow_kind", "frames", "fps", "motion_strength", "notes"}

ColumnsOf == [character_sheets |-> CharacterSheet, dataset_packs |-> DatasetPack,
              training_recipes |-> TrainingRecipe, lora_presets |-> LoraPreset,
              i2v_recipes |-> ImageToVideoRecipe]

ASSUME AssetAssumption ==
  /\ Table \in DOMAIN ColumnsOf
  /\ Fields \subseteq ColumnsOf[Table]
  /\ Packed \subseteq Records
  /\ None \notin Records

VARIABLES rows,      \* in each project's memory.sqlite
          record,    \* the row a request works on
          patch,     \* the fields it sets
          viewRow,   \* the row as it was read
          archive,   \* the project whose archive is imported
          touched    \* history: rows that two requests worked on at once

assetVars == <<rows, record, patch, viewRow, archive, touched>>
allVars == <<vars, assetVars>>

NoRow == [project |-> None, value |-> [f \in Fields |-> None]]
AssetSteps == {"insert", "fetch", "update", "delete"}
NoRows == [x \in Records |-> NoRow]

AssetsInit ==
  /\ Init
  /\ rows = [d \in Ids |-> NoRows]
  /\ record = [r \in Requests |-> None]
  /\ patch = [r \in Requests |-> {}]
  /\ viewRow = [r \in Requests |-> NoRow]
  /\ archive = [r \in Requests |-> None]
  /\ touched = {}

-----------------------------------------------------------------------------
\* get_*(): WHERE id=? AND project_id=?
Found(d, x) == IF rows[d][x].project = d THEN rows[d][x] ELSE NoRow

WorkingOn(d, x) == {r \in Requests : pc[r] \in AssetSteps /\ id[r] = d /\ record[r] = x}

\* The routes of the five entities.  (The first one for an old project gives its
\* project.json an id, which is a "look" before it.)
ArriveAsset(r, d, x, first, set) ==
  /\ Openable(d)
  /\ first = "insert" => set = Fields
  /\ first = "delete" => set = {}
  /\ Admitted(r, "asset", d, first)
  /\ record' = [record EXCEPT ![r] = x]
  /\ patch' = [patch EXCEPT ![r] = set]
  /\ touched' = IF WorkingOn(d, x) = {} THEN touched ELSE touched \cup {x}
  /\ UNCHANGED <<rows, viewRow, archive>>

SameFiles == UNCHANGED <<diskVars, snapshot, op, id, viewJson, viewTalk, historyVars>>
SameRequest == UNCHANGED <<record, patch, archive, touched>>

\* create_*(): a new uuid, every field of it set.
Insert(r) ==
  /\ Step(r, "insert", "idle")
  /\ \A d \in Ids : rows[d][record[r]] = NoRow
  /\ rows' = [rows EXCEPT ![id[r]][record[r]] =
                [project |-> id[r], value |-> [f \in Fields |-> r]]]
  /\ UNCHANGED viewRow
  /\ SameFiles /\ SameRequest

\* update_*(): the row is read, or there is none and the answer is 404, ...
Fetch(r) ==
  /\ Step(r, "fetch", IF Found(id[r], record[r]) = NoRow THEN "idle" ELSE "update")
  /\ viewRow' = [viewRow EXCEPT ![r] = Found(id[r], record[r])]
  /\ UNCHANGED rows
  /\ SameFiles /\ SameRequest

\* (mutant) What is not set is cleared.
PatchedOnly(seen, set, r) ==
  [seen EXCEPT !.value = [f \in Fields |-> IF f \in set THEN r ELSE None]]

\* What the request sets, and the rest as it was read.
Patched(seen, set, r) ==
  [seen EXCEPT !.value = [f \in Fields |-> IF f \in set THEN r ELSE seen.value[f]]]

\* (mutant) INSERT OR REPLACE
Replaced(d, x, row) == [rows EXCEPT ![d][x] = row]

\* UPDATE ... WHERE id=? AND project_id=?: of a row that is gone, nothing.
Updated(d, x, row) == IF Found(d, x) = NoRow THEN rows ELSE [rows EXCEPT ![d][x] = row]

\* ... and then every column of it is written.
Update(r) ==
  /\ Step(r, "update", "idle")
  /\ rows' = Updated(id[r], record[r], Patched(viewRow[r], patch[r], r))
  /\ UNCHANGED viewRow
  /\ SameFiles /\ SameRequest

\* delete_*()
Delete(r) ==
  /\ Step(r, "delete", "idle")
  /\ rows' = IF Found(id[r], record[r]) = NoRow THEN rows
             ELSE [rows EXCEPT ![id[r]][record[r]] = NoRow]
  /\ UNCHANGED viewRow
  /\ SameFiles /\ SameRequest

\* memory.sqlite is one of the entries of an archive, and goes with a directory that
\* is removed: the rows name the project that was exported.
Carried(r) ==
  CASE pc[r] = "extract rest" /\ pc'[r] = "describe" ->
         [rows EXCEPT ![id[r]] = [x \in Records |->
            IF x \in Packed THEN [project |-> archive[r], value |-> [f \in Fields |-> None]]
            ELSE NoRow]]
    [] pc[r] # "extract rest" \/ pc'[r] # "describe" ->
         [d \in Ids |-> IF maker'[d] = None THEN NoRows ELSE rows[d]]

\* The project files change as ProjectStore says.
FilesStep(r) ==
  /\ \/ Serve(r) /\ UNCHANGED archive
     \/ \E o \in Operations, d \in Ids :
          /\ Arrive(r, o, d)
          /\ archive' = [archive EXCEPT ![r] = IF o = "import" THEN d ELSE None]
  /\ rows' = Carried(r)
  /\ UNCHANGED <<record, patch, viewRow, touched>>

AssetStep(r) ==
  \/ Insert(r) \/ Fetch(r) \/ Update(r) \/ Delete(r)
  \/ \E d \in Ids, x \in Records, first \in {"insert", "fetch", "delete"}, set \in SUBSET Fields :
       ArriveAsset(r, d, x, first, set)

AssetsNext == \E r \in Requests : FilesStep(r) \/ AssetStep(r)

AssetsSpec == AssetsInit /\ [][AssetsNext]_allVars

-----------------------------------------------------------------------------
AssetsTypeOK ==
  /\ rows \in [Ids -> [Records -> [project : Ids \cup {None},
                                   value : [Fields -> Requests \cup {None}]]]]
  /\ record \in [Requests -> Records \cup {None}]
  /\ patch \in [Requests -> SUBSET Fields]
  /\ viewRow \in [Requests -> [project : Ids \cup {None},
                               value : [Fields -> Requests \cup {None}]]]
  /\ archive \in [Requests -> Ids \cup {None}]
  /\ touched \subseteq Records

(***************************************************************************)
(* A field changes only by a patch that sets it, however the other fields  *)
(* of the row are patched, for every row that no two requests worked on at *)
(* once (asset_store.py:225-259): an update writes back every column as it *)
(* was read.                                                               *)
(***************************************************************************)
FieldsAreKept ==
  [][\A d \in Ids, x \in Records \ touched', f \in Fields :
       /\ rows[d][x] # NoRow
       /\ rows'[d][x] # NoRow
       /\ rows'[d][x].value[f] # rows[d][x].value[f]
       => \E r \in Requests : rows'[d][x].value[f] = r /\ f \in patch[r]]_allVars

(***************************************************************************)
(* A row that was deleted does not come back, not by an update that read   *)
(* it before either: a row appears by its creation or with the archive of  *)
(* an import only (asset_store.py:246-257, :261-267).                      *)
(***************************************************************************)
DeletedIsGone ==
  [][\A d \in Ids, x \in Records :
       rows[d][x] = NoRow /\ rows'[d][x] # NoRow =>
         \E r \in Requests : /\ id[r] = d
                            /\ \/ pc[r] = "insert" /\ record[r] = x
                               \/ pc[r] = "extract rest"]_allVars
=============================================================================
