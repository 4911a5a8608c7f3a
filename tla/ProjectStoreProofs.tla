------------------------- MODULE ProjectStoreProofs -------------------------
(***************************************************************************)
(* Proofs about ProjectStore and TrainingAssets, for any projects,         *)
(* requests, rows, columns, calls and faults: no project is taken away, a  *)
(* listed project is whole, rows neither come back nor change beyond what  *)
(* was asked, and what a request writes to a project's conversation or     *)
(* settings is kept.                                                       *)
(***************************************************************************)
EXTENDS TrainingAssets, TLAPS

-----------------------------------------------------------------------------
Shape ==
  /\ maker = [d \in Ids |-> maker[d]]
  /\ json = [d \in Ids |-> json[d]]
  /\ files = [d \in Ids |-> files[d]]
  /\ pc = [r \in Requests |-> pc[r]]
  /\ op = [r \in Requests |-> op[r]]
  /\ id = [r \in Requests |-> id[r]]
  /\ selection \in Ids \cup {None}
  /\ \A r \in Requests : pc[r] # "idle" => id[r] \in Ids

(***************************************************************************)
(* A request that fills a directory owns it: nobody else does, and it is   *)
(* not listed yet.  A project that was opened stays listed.                *)
(***************************************************************************)
Owning == {"describe", "extract", "extract rest"}
Opened == {"load", "normalise", "store"} \cup AssetSteps
Whole == {"guide", "talk", "assets"}

UnmadeIsUnlisted == \A d \in Ids : maker[d] = None => json[d] = NoJson

KindKnown ==
  \A r \in Requests : /\ pc[r] = "make" => op[r] = "create"
                      /\ pc[r] \in {"choose", "claim", "extract", "extract rest"} => op[r] = "import"
                      /\ pc[r] = "describe" => op[r] \in {"create", "import"}

OwnerKnown ==
  /\ \A r \in Requests : pc[r] \in Owning => maker[id[r]] = op[r] /\ json[id[r]] = NoJson
  /\ \A q, r \in Requests : pc[q] \in Owning /\ pc[r] \in Owning /\ id[q] = id[r] => q = r

OpenedIsListed == \A r \in Requests : pc[r] \in Opened => json[id[r]] # NoJson

FilledSoFar ==
  \A r \in Requests : /\ pc[r] = "extract rest" => "guide" \in files[id[r]]
                      /\ pc[r] = "describe" /\ op[r] = "import" => Whole \subseteq files[id[r]]

StoreInv ==
  /\ Shape /\ UnmadeIsUnlisted /\ KindKnown /\ OwnerKnown /\ OpenedIsListed /\ FilledSoFar
  /\ ListedIsWhole

LEMMA StoreInvInitial == AssetsInit => StoreInv
<1> SUFFICES ASSUME AssetsInit PROVE StoreInv
  OBVIOUS
<1>1. Shape
  BY StoreAssumption DEF AssetsInit, Init, Shape
<1>2. UnmadeIsUnlisted /\ ListedIsWhole
  BY StoreAssumption DEF AssetsInit, Init, UnmadeIsUnlisted, ListedIsWhole, Listed
<1>3. KindKnown /\ OwnerKnown /\ OpenedIsListed /\ FilledSoFar
  BY DEF AssetsInit, Init, KindKnown, OwnerKnown, OpenedIsListed, FilledSoFar, Owning, Opened,
         AssetSteps
<1> QED
  BY <1>1, <1>2, <1>3 DEF StoreInv

\* Most steps of a request make no directory and list none.
Quiet(r) ==
  /\ pc' = [pc EXCEPT ![r] = pc'[r]]
  /\ id' = [id EXCEPT ![r] = id'[r]]
  /\ op' = [op EXCEPT ![r] = op'[r]]
  /\ maker' = maker
  /\ json' = [d \in Ids |-> json'[d]]
  /\ \A d \in Ids : json'[d] = NoJson <=> json[d] = NoJson
  /\ files' = [d \in Ids |-> files'[d]]
  /\ \A d \in Ids : files[d] \subseteq files'[d]
  /\ selection' \in Ids \cup {None}
  /\ pc'[r] \notin Owning
  /\ pc'[r] # "idle" => id'[r] \in Ids
  /\ pc'[r] \in Opened => json[id'[r]] # NoJson
  /\ pc'[r] = "make" => op'[r] = "create"
  /\ pc'[r] \in {"choose", "claim"} => op'[r] = "import"

LEMMA QuietStep ==
  ASSUME StoreInv, NEW r \in Requests, Quiet(r)
  PROVE  StoreInv' /\ Listed' = Listed
<1> USE DEF StoreInv, Quiet
<1>1. Shape'
  BY DEF Shape
<1>2. \A q \in Requests : q # r => pc'[q] = pc[q] /\ id'[q] = id[q] /\ op'[q] = op[q]
  BY DEF Shape
<1>3. UnmadeIsUnlisted' /\ ListedIsWhole' /\ Listed' = Listed
  BY DEF Shape, UnmadeIsUnlisted, ListedIsWhole, Listed
<1>4. KindKnown'
  BY <1>2 DEF Shape, KindKnown, Owning
<1>5. OwnerKnown'
  <2>1. \A q \in Requests : pc'[q] \in Owning =>
          pc[q] \in Owning /\ id'[q] = id[q] /\ op'[q] = op[q] /\ id[q] \in Ids
    BY <1>2 DEF Shape, Owning
  <2>2. \A q \in Requests : pc'[q] \in Owning => maker'[id'[q]] = op'[q] /\ json'[id'[q]] = NoJson
    BY <2>1 DEF OwnerKnown
  <2>3. \A p, q \in Requests : pc'[p] \in Owning /\ pc'[q] \in Owning /\ id'[p] = id'[q] => p = q
    BY <2>1 DEF OwnerKnown
  <2> QED
    BY <2>2, <2>3 DEF OwnerKnown
<1>6. OpenedIsListed'
  <2>1. \A q \in Requests : pc'[q] \in Opened =>
          id'[q] \in Ids /\ json[id'[q]] # NoJson
    BY <1>2 DEF Shape, OpenedIsListed, Opened, AssetSteps
  <2> QED
    BY <2>1 DEF OpenedIsListed
<1>7. FilledSoFar'
  BY <1>2 DEF Shape, FilledSoFar, Owning
<1> QED
  BY <1>1, <1>3, <1>4, <1>5, <1>6, <1>7

\* The steps that are quiet.
LEMMA StepsOfAssetsAreQuiet ==
  ASSUME StoreInv, NEW r \in Requests, AssetStep(r)
  PROVE  Quiet(r)
<1> USE DEF StoreInv
<1>1. ASSUME NEW d \in Ids, NEW x \in Records, NEW first \in {"insert", "fetch", "delete"},
             NEW set \in SUBSET Fields, ArriveAsset(r, d, x, first, set)
      PROVE  Quiet(r)
  <2>1. /\ pc' = [pc EXCEPT ![r] = first] /\ id' = [id EXCEPT ![r] = d]
        /\ op' = [op EXCEPT ![r] = "asset"]
        /\ UNCHANGED <<maker, json, files, selection>>
        /\ json[d] # NoJson
    BY <1>1 DEF ArriveAsset, Admitted, Step, diskVars, Openable
  <2> QED
    BY <2>1 DEF Quiet, Shape, Owning
<1>2. CASE Insert(r) \/ Update(r) \/ Delete(r)
  BY <1>2 DEF Insert, Update, Delete, Step, SameFiles, diskVars, Quiet, Shape, Owning, Opened, AssetSteps
<1>3. CASE Fetch(r)
  <2>1. /\ pc[r] = "fetch" /\ pc' = [pc EXCEPT ![r] = pc'[r]] /\ pc'[r] \in {"idle", "update"}
        /\ UNCHANGED <<maker, json, files, selection, id, op>>
    BY <1>3 DEF Fetch, Step, SameFiles, diskVars, Shape
  <2>2. json[id[r]] # NoJson /\ id[r] \in Ids
    BY <2>1 DEF OpenedIsListed, Opened, AssetSteps, Shape
  <2> QED
    BY <2>1, <2>2 DEF Quiet, Shape, Owning
<1> QED
  BY <1>1, <1>2, <1>3 DEF AssetStep

LEMMA ArrivalsAreQuiet ==
  ASSUME StoreInv, NEW r \in Requests, NEW o \in Operations, NEW d \in Ids, Arrive(r, o, d)
  PROVE  Quiet(r)
<1>1. /\ pc' = [pc EXCEPT ![r] = FirstStep(o)] /\ id' = [id EXCEPT ![r] = d]
      /\ op' = [op EXCEPT ![r] = o]
      /\ UNCHANGED <<maker, json, files, selection>>
      /\ o \notin {"create", "import"} => json[d] # NoJson
  BY DEF Arrive, Admitted, Step, diskVars, Openable
<1>2. /\ FirstStep(o) \in {"make", "choose", "load"}
      /\ FirstStep(o) = "make" => o = "create"
      /\ FirstStep(o) = "choose" => o = "import"
      /\ FirstStep(o) = "load" => o \notin {"create", "import"}
  BY DEF FirstStep, Operations
<1> QED
  BY <1>1, <1>2 DEF Quiet, StoreInv, Shape, Owning, Opened, AssetSteps

\* The steps of a request that has not claimed its directory yet, or is done with it.
LEMMA OtherStepsAreQuiet ==
  ASSUME StoreInv, NEW r \in Requests,
         \/ WriteGuide(r) \/ BeginTalk(r) \/ ReadSelection(r) \/ ClearSelection(r) \/ Point(r)
         \/ ChooseId(r) \/ Load(r) \/ Normalise(r) \/ Store(r) \/ ReadTalk(r) \/ WriteTalk(r)
         \/ WriteFails(r)
  PROVE  Quiet(r)
<1> USE DEF StoreInv
<1>1. CASE WriteGuide(r) \/ BeginTalk(r) \/ WriteTalk(r)
  <2>1. /\ pc' = [pc EXCEPT ![r] = pc'[r]] /\ pc'[r] \in {"talk", "current", "idle"}
        /\ UNCHANGED <<maker, json, selection, id, op>>
        /\ id[r] \in Ids
    BY <1>1 DEF WriteGuide, BeginTalk, WriteTalk, Step, SameView, Shape
  <2>2. files' = [d \in Ids |-> files'[d]] /\ \A d \in Ids : files[d] \subseteq files'[d]
    <3>1. PICK more : files' = [files EXCEPT ![id[r]] = @ \cup {more}]
      BY <1>1 DEF WriteGuide, BeginTalk, WriteTalk
    <3>2. files' = [d \in Ids |-> IF d = id[r] THEN files[d] \cup {more} ELSE files[d]]
      BY <3>1 DEF Shape
    <3> QED
      BY <3>2
  <2> QED
    BY <2>1, <2>2 DEF Quiet, Shape, Owning, Opened, AssetSteps
<1>2. CASE ReadSelection(r)
  <2>1. pc' = [pc EXCEPT ![r] = pc'[r]] /\ pc'[r] \in {"point", "clear", "idle", "normalise"}
    BY <1>2 DEF ReadSelection, Shape
  <2>2. UNCHANGED <<maker, json, files, selection, op>> /\ id' = [id EXCEPT ![r] = id'[r]]
    BY <1>2 DEF ReadSelection, diskVars, Shape
  <2>3. id'[r] \in Ids
    BY <1>2 DEF ReadSelection, Shape
  <2>4. pc'[r] = "normalise" => json[id'[r]] # NoJson
    BY <1>2 DEF ReadSelection, Shape, Openable
  <2> QED
    BY <2>1, <2>2, <2>3, <2>4 DEF Quiet, Shape, Owning, Opened, AssetSteps
<1>3. CASE ClearSelection(r) \/ Point(r)
  <2>1. /\ pc' = [pc EXCEPT ![r] = pc'[r]] /\ pc'[r] \in {"point", "idle"} /\ id[r] \in Ids
        /\ UNCHANGED <<maker, json, files, id, op>> /\ selection' \in Ids \cup {None}
    BY <1>3 DEF ClearSelection, Point, PointedAt, Step, SameView, Shape
  <2> QED
    BY <2>1 DEF Quiet, Shape, Owning, Opened, AssetSteps
<1>4. CASE ChooseId(r)
  <2>1. pc[r] = "choose" /\ pc' = [pc EXCEPT ![r] = pc'[r]] /\ pc'[r] \in {"claim", "idle"}
    BY <1>4 DEF ChooseId, Shape
  <2>2. id' = [id EXCEPT ![r] = id'[r]] /\ id'[r] \in Ids /\ op[r] = "import"
    BY <1>4, <2>1 DEF ChooseId, FreshIds, Shape, KindKnown
  <2>3. UNCHANGED <<maker, json, files, selection, op>>
    BY <1>4 DEF ChooseId, diskVars
  <2> QED
    BY <2>1, <2>2, <2>3 DEF Quiet, Shape, Owning, Opened, AssetSteps
<1>5. CASE Load(r)
  <2>1. /\ pc[r] = "load" /\ pc' = [pc EXCEPT ![r] = pc'[r]]
        /\ pc'[r] \in {"normalise", AfterLoad(op[r])}
        /\ UNCHANGED <<maker, json, files, selection, id, op>>
    BY <1>5 DEF Load, Step, diskVars, Shape
  <2>2. AfterLoad(op[r]) \in {"read", "store", "point", "idle"}
    BY DEF AfterLoad
  <2>3. id[r] \in Ids /\ json[id[r]] # NoJson
    BY <2>1 DEF Shape, OpenedIsListed, Opened
  <2> QED
    BY <2>1, <2>2, <2>3 DEF Quiet, Shape, Owning, Opened, AssetSteps
<1>6. CASE Normalise(r) \/ Store(r)
  <2>1. /\ pc[r] \in {"normalise", "store"} /\ pc' = [pc EXCEPT ![r] = pc'[r]]
        /\ pc'[r] \in {"idle", AfterLoad(op[r])}
        /\ UNCHANGED <<maker, files, selection, id, op>>
    BY <1>6 DEF Normalise, Store, Step, SameView, Shape
  <2>2. AfterLoad(op[r]) \in {"read", "store", "point", "idle"}
    BY DEF AfterLoad
  <2>3. id[r] \in Ids /\ json[id[r]] # NoJson
    BY <2>1 DEF Shape, OpenedIsListed, Opened
  <2>4. PICK l : json' = [json EXCEPT ![id[r]] = [hasId |-> TRUE, loop |-> l]]
    BY <1>6 DEF Normalise, Store
  <2>5. [hasId |-> TRUE, loop |-> l] # NoJson
    BY DEF NoJson
  <2>6. json' = [d \in Ids |-> json'[d]] /\ \A d \in Ids : json'[d] = NoJson <=> json[d] = NoJson
    BY <2>3, <2>4, <2>5 DEF Shape
  <2> QED
    BY <2>1, <2>2, <2>3, <2>6 DEF Quiet, Shape, Owning, Opened, AssetSteps
<1>7. CASE ReadTalk(r) \/ WriteFails(r)
  <2>1. /\ pc' = [pc EXCEPT ![r] = pc'[r]] /\ pc'[r] \in {"append", "idle"}
        /\ pc[r] # "idle"
        /\ UNCHANGED <<maker, json, files, selection, id, op>>
    BY <1>7 DEF ReadTalk, WriteFails, Step, diskVars, Shape
  <2> QED
    BY <2>1 DEF Quiet, Shape, Owning, Opened, AssetSteps
<1> QED
  BY <1>1, <1>2, <1>3, <1>4, <1>5, <1>6, <1>7

-----------------------------------------------------------------------------
\* The other steps claim a directory, fill it, list it or give it up.
Owns(r) ==
  /\ pc' = [pc EXCEPT ![r] = pc'[r]]
  /\ UNCHANGED <<id, op, selection>>
  /\ id[r] \in Ids
  /\ pc[r] \in Owning \/ maker[id[r]] = None
  /\ pc'[r] \in Owning \cup {"idle", "guide"}
  /\ maker' = [maker EXCEPT ![id[r]] = maker'[id[r]]]
  /\ json' = [json EXCEPT ![id[r]] = json'[id[r]]]
  /\ files' = [files EXCEPT ![id[r]] = files'[id[r]]]
  /\ pc'[r] \in Owning =>
       /\ maker'[id[r]] = op[r] /\ json'[id[r]] = NoJson
       /\ op[r] \in {"create", "import"} /\ (pc'[r] # "describe" => op[r] = "import")
       /\ pc'[r] = "extract rest" => "guide" \in files'[id[r]]
       /\ pc'[r] = "describe" /\ op[r] = "import" => Whole \subseteq files'[id[r]]
  /\ maker'[id[r]] = None => json'[id[r]] = NoJson
  /\ json'[id[r]] # NoJson /\ maker'[id[r]] = "import" => Whole \subseteq files'[id[r]]

\* They leave the requests at other directories alone.
LEMMA OwnerStep ==
  ASSUME StoreInv, NEW r \in Requests, Owns(r)
  PROVE  StoreInv' /\ Listed \subseteq Listed'
<1> USE DEF StoreInv, Owns
<1>1. Shape'
  BY DEF Shape, Owning
<1>2. \A q \in Requests : q # r => pc'[q] = pc[q] /\ (pc[q] \in Owning => id[q] # id[r])
  <2>1. \A q \in Requests : pc[q] \in Owning => maker[id[q]] # None
    BY StoreAssumption DEF OwnerKnown, KindKnown, Owning
  <2>2. \A q \in Requests : q # r => pc'[q] = pc[q]
    BY DEF Shape
  <2>3. \A q \in Requests : q # r /\ pc[q] \in Owning => id[q] # id[r]
    BY <2>1 DEF OwnerKnown
  <2> QED
    BY <2>2, <2>3
<1>3. \A d \in Ids : d # id[r] => maker'[d] = maker[d] /\ json'[d] = json[d] /\ files'[d] = files[d]
  BY DEF Shape
<1>4. json[id[r]] = NoJson
  BY DEF OwnerKnown, UnmadeIsUnlisted
<1>5. UnmadeIsUnlisted' /\ ListedIsWhole' /\ Listed \subseteq Listed'
  BY <1>3, <1>4 DEF UnmadeIsUnlisted, ListedIsWhole, Listed, Whole
<1>6. KindKnown'
  <2>1. pc'[r] \in Owning => op[r] \in {"create", "import"} /\ (pc'[r] # "describe" => op[r] = "import")
    OBVIOUS
  <2> QED
    BY <1>2, <2>1 DEF KindKnown, Owning
<1>7. OwnerKnown'
  <2>1. \A q \in Requests : pc'[q] \in Owning => maker'[id[q]] = op[q] /\ json'[id[q]] = NoJson
    <3>1. \A q \in Requests : q # r /\ pc'[q] \in Owning =>
            pc[q] \in Owning /\ id[q] # id[r] /\ id[q] \in Ids
      BY ONLY <1>2, Shape DEF Shape, Owning
    <3>2. \A q \in Requests : pc[q] \in Owning => maker[id[q]] = op[q] /\ json[id[q]] = NoJson
      BY DEF OwnerKnown
    <3>3. pc'[r] \in Owning => maker'[id[r]] = op[r] /\ json'[id[r]] = NoJson
      OBVIOUS
    <3> QED
      BY ONLY <1>3, <3>1, <3>2, <3>3
  <2>2. \A p, q \in Requests : pc'[p] \in Owning /\ pc'[q] \in Owning /\ id[p] = id[q] => p = q
    BY <1>2 DEF OwnerKnown
  <2> QED
    BY <2>1, <2>2 DEF OwnerKnown
<1>8. OpenedIsListed'
  <2>1. \A q \in Requests : pc'[q] \in Opened => q # r /\ pc[q] \in Opened
    BY <1>2 DEF Opened, Owning, AssetSteps
  <2>2. \A q \in Requests : pc'[q] \in Opened => id[q] # id[r] /\ id[q] \in Ids
    BY <2>1, <1>4 DEF OpenedIsListed, Shape, Opened, AssetSteps
  <2> QED
    BY <1>3, <2>1, <2>2 DEF OpenedIsListed
<1>9. FilledSoFar'
  <2>1. \A q \in Requests : q # r /\ pc'[q] \in {"extract rest", "describe"} =>
          pc[q] = pc'[q] /\ files'[id[q]] = files[id[q]]
    <3>1. \A q \in Requests : q # r /\ pc'[q] \in {"extract rest", "describe"} =>
            pc[q] = pc'[q] /\ id[q] # id[r] /\ id[q] \in Ids
      BY <1>2 DEF Shape, Owning
    <3> QED
      BY <1>3, <3>1
  <2> QED
    BY <2>1 DEF FilledSoFar, Owning
<1> QED
  BY <1>1, <1>5, <1>6, <1>7, <1>8, <1>9

LEMMA DirectoryStep ==
  ASSUME StoreInv, NEW r \in Requests,
         \/ MakeDirectory(r) \/ Describe(r) \/ ClaimDirectory(r) \/ ExtractFirst(r)
         \/ ExtractRest(r) \/ ExtractFails(r)
  PROVE  StoreInv' /\ Listed \subseteq Listed'
<1> USE DEF StoreInv
<1>1. CASE MakeDirectory(r) \/ ClaimDirectory(r)
  <2>1. pc[r] \in {"make", "claim"} /\ id[r] \in Ids
    BY <1>1 DEF MakeDirectory, ClaimDirectory, Step, Shape
  <2>2. op[r] \in {"create", "import"} /\ (pc[r] = "claim" => op[r] = "import")
    BY <2>1 DEF KindKnown
  <2>3. UNCHANGED <<id, op, selection, json, files>>
    BY <1>1 DEF MakeDirectory, ClaimDirectory, SameView
  <2>4. CASE MayMake(id[r])
    <3>1. /\ pc' = [pc EXCEPT ![r] = IF pc[r] = "make" THEN "describe" ELSE "extract"]
          /\ maker' = [maker EXCEPT ![id[r]] = op[r]]
      BY <1>1, <2>4 DEF MakeDirectory, ClaimDirectory, Step
    <3>2. json[id[r]] = NoJson /\ maker[id[r]] = None
      BY <2>1, <2>4 DEF MayMake, UnmadeIsUnlisted
    <3>3. pc[r] = "make" => op[r] = "create"
      BY DEF KindKnown
    <3>4. Owns(r)
      BY <2>1, <2>2, <2>3, <3>1, <3>2, <3>3, StoreAssumption DEF Owns, Owning, Shape
    <3> QED
      BY <3>4, OwnerStep
  <2>5. CASE ~MayMake(id[r])
    <3>1. Quiet(r)
      BY <1>1, <2>1, <2>3, <2>5
      DEF MakeDirectory, ClaimDirectory, Step, Quiet, Shape, Owning, Opened, AssetSteps
    <3> QED
      BY <3>1, QuietStep
  <2> QED
    BY <2>4, <2>5
<1>2. CASE Describe(r)
  <2>1. /\ pc[r] = "describe" /\ id[r] \in Ids
        /\ pc' = [pc EXCEPT ![r] = pc'[r]] /\ pc'[r] \in {"guide", "idle"}
        /\ json' = [json EXCEPT ![id[r]] = [hasId |-> TRUE, loop |-> "off"]]
        /\ UNCHANGED <<id, op, selection, maker, files>>
    BY <1>2 DEF Describe, Step, SameView, Shape
  <2>2. maker[id[r]] = op[r] /\ maker[id[r]] # None
    BY <2>1, StoreAssumption DEF OwnerKnown, KindKnown, Owning
  <2>3. op[r] = "import" => Whole \subseteq files[id[r]]
    BY <2>1 DEF FilledSoFar
  <2>4. Owns(r)
    BY <2>1, <2>2, <2>3 DEF Owns, Owning, Shape
  <2> QED
    BY <2>4, OwnerStep
<1>3. CASE ExtractFirst(r) \/ ExtractRest(r)
  <2>1. /\ pc[r] \in {"extract", "extract rest"} /\ id[r] \in Ids
        /\ pc' = [pc EXCEPT ![r] = IF pc[r] = "extract" THEN "extract rest" ELSE "describe"]
        /\ UNCHANGED <<id, op, selection, maker, json>>
    BY <1>3 DEF ExtractFirst, ExtractRest, ExtractedJson, Step, SameView, Shape
  <2>2. files' = [files EXCEPT ![id[r]] = @ \cup IF pc[r] = "extract" THEN {"guide"}
                                                 ELSE {"talk", "assets"}]
    BY <1>3 DEF ExtractFirst, ExtractRest, Step
  <2>3. op[r] = "import" /\ maker[id[r]] = op[r] /\ json[id[r]] = NoJson
    BY <2>1 DEF KindKnown, OwnerKnown, Owning
  <2>4. pc[r] = "extract rest" => "guide" \in files[id[r]]
    BY DEF FilledSoFar
  <2>5. /\ files' = [files EXCEPT ![id[r]] = files'[id[r]]]
        /\ pc[r] = "extract" => "guide" \in files'[id[r]]
        /\ pc[r] = "extract rest" => Whole \subseteq files'[id[r]]
    BY <2>1, <2>2, <2>4 DEF Shape, Whole
  <2>6. /\ pc' = [pc EXCEPT ![r] = pc'[r]]
        /\ pc'[r] = (IF pc[r] = "extract" THEN "extract rest" ELSE "describe")
        /\ maker' = [maker EXCEPT ![id[r]] = maker'[id[r]]] /\ maker'[id[r]] = op[r]
        /\ json' = [json EXCEPT ![id[r]] = json'[id[r]]] /\ json'[id[r]] = NoJson
        /\ maker'[id[r]] # None
    BY <2>1, <2>3, StoreAssumption DEF Shape
  <2>7. /\ pc[r] \in Owning /\ pc'[r] \in Owning
        /\ pc'[r] = "extract rest" => "guide" \in files'[id[r]]
        /\ pc'[r] = "describe" => Whole \subseteq files'[id[r]]
    <3>1. pc'[r] = (IF pc[r] = "extract" THEN "extract rest" ELSE "describe")
      BY <2>6
    <3>2. /\ pc[r] = "extract" => "guide" \in files'[id[r]]
          /\ pc[r] = "extract rest" => Whole \subseteq files'[id[r]]
      BY <2>5
    <3>3. pc[r] \in {"extract", "extract rest"}
      BY <2>1
    <3> QED
      BY ONLY <3>1, <3>2, <3>3 DEF Owning
  <2>8. Owns(r)
    BY <2>1, <2>3, <2>5, <2>6, <2>7 DEF Owns
  <2> QED
    BY <2>8, OwnerStep
<1>4. CASE ExtractFails(r)
  <2>1. /\ pc[r] \in {"extract", "extract rest"} /\ id[r] \in Ids
        /\ pc' = [pc EXCEPT ![r] = "idle"]
        /\ UNCHANGED <<id, op, selection>>
    BY <1>4 DEF ExtractFails, Shape
  <2>2. json[id[r]] = NoJson /\ maker[id[r]] # None
    BY <2>1, StoreAssumption DEF KindKnown, OwnerKnown, Owning
  <2>3. \/ /\ maker' = [maker EXCEPT ![id[r]] = None]
           /\ json' = [json EXCEPT ![id[r]] = NoJson]
           /\ files' = [files EXCEPT ![id[r]] = {}]
        \/ UNCHANGED <<maker, json, files>>
    BY <1>4 DEF ExtractFails
  <2>4. /\ maker' = [maker EXCEPT ![id[r]] = maker'[id[r]]]
        /\ json' = [json EXCEPT ![id[r]] = json'[id[r]]]
        /\ files' = [files EXCEPT ![id[r]] = files'[id[r]]]
        /\ json'[id[r]] = NoJson
    BY <2>1, <2>2, <2>3 DEF Shape
  <2>5. /\ pc' = [pc EXCEPT ![r] = pc'[r]] /\ pc'[r] = "idle" /\ pc[r] \in Owning
        /\ "idle" \notin Owning
    BY <2>1 DEF Shape, Owning
  <2>6. Owns(r)
    BY <2>1, <2>4, <2>5 DEF Owns
  <2> QED
    BY <2>6, OwnerStep
<1> QED
  BY <1>1, <1>2, <1>3, <1>4

LEMMA StoreInvStep == StoreInv /\ [AssetsNext]_allVars => StoreInv' /\ Listed \subseteq Listed'
<1> SUFFICES ASSUME StoreInv, [AssetsNext]_allVars PROVE StoreInv' /\ Listed \subseteq Listed'
  OBVIOUS
<1>1. ASSUME NEW r \in Requests, Serve(r) PROVE StoreInv' /\ Listed \subseteq Listed'
  BY <1>1, OtherStepsAreQuiet, QuietStep, DirectoryStep DEF Serve
<1>2. ASSUME NEW r \in Requests, NEW o \in Operations, NEW d \in Ids, Arrive(r, o, d)
      PROVE  StoreInv' /\ Listed \subseteq Listed'
  BY <1>2, ArrivalsAreQuiet, QuietStep
<1>3. ASSUME NEW r \in Requests, AssetStep(r) PROVE StoreInv' /\ Listed \subseteq Listed'
  BY <1>3, StepsOfAssetsAreQuiet, QuietStep
<1>4. CASE UNCHANGED allVars
  BY <1>4
  DEF allVars, vars, diskVars, requestVars, StoreInv, Shape, UnmadeIsUnlisted, KindKnown, OwnerKnown,
      OpenedIsListed, FilledSoFar, ListedIsWhole, Listed
<1> QED
  BY <1>1, <1>2, <1>3, <1>4 DEF AssetsNext, FilesStep

(***************************************************************************)
(* A project the list shows is whole, whatever imports, creations and      *)
(* failures overlap.                                                       *)
(***************************************************************************)
THEOREM ListedProjectsAreWhole == AssetsSpec => []ListedIsWhole
<1>1. StoreInv => ListedIsWhole
  BY DEF StoreInv
<1>2. StoreInv /\ [AssetsNext]_allVars => StoreInv'
  BY StoreInvStep
<1> QED
  BY <1>1, <1>2, StoreInvInitial, PTL DEF AssetsSpec

(***************************************************************************)
(* No request takes a listed project away, by overwriting its directory or *)
(* by cleaning up after a failed import.                                   *)
(***************************************************************************)
THEOREM ProjectsStay == AssetsSpec => ProjectsAreKept
<1>1. StoreInv /\ [AssetsNext]_allVars => StoreInv'
  BY StoreInvStep
<1>2. StoreInv /\ [AssetsNext]_allVars => [Listed \subseteq Listed']_vars
  BY StoreInvStep
<1> QED
  BY <1>1, <1>2, StoreInvInitial, PTL DEF AssetsSpec, ProjectsAreKept

-----------------------------------------------------------------------------
(***************************************************************************)
(* The rows: what a step can do to one of them.                            *)
(***************************************************************************)
RowShape == rows = [d \in Ids |-> [x \in Records |-> rows[d][x]]]

\* Steps that change at most one row, of the project of a request.
OneRow(r, row) ==
  rows' = [d \in Ids |-> [x \in Records |->
             IF d = id[r] /\ x = record[r] THEN row ELSE rows[d][x]]]

LEMMA RowWritten ==
  ASSUME RowShape, NEW r, NEW row, rows' = [rows EXCEPT ![id[r]][record[r]] = row]
  PROVE  OneRow(r, row)
BY DEF OneRow, RowShape

LEMMA AssetRows ==
  ASSUME RowShape, NEW r \in Requests, AssetStep(r)
  PROVE  \/ rows' = rows
         \/ Insert(r) /\ OneRow(r, [project |-> id[r], value |-> [f \in Fields |-> r]])
         \/ Delete(r) /\ OneRow(r, NoRow)
         \/ /\ Update(r) /\ Found(id[r], record[r]) # NoRow
            /\ OneRow(r, Patched(viewRow[r], patch[r], r))
<1>1. CASE Insert(r)
  <2>1. rows' = [rows EXCEPT ![id[r]][record[r]] =
                   [project |-> id[r], value |-> [f \in Fields |-> r]]]
    BY <1>1 DEF Insert
  <2> QED
    BY <1>1, <2>1, RowWritten
<1>2. CASE Delete(r)
  <2>1. rows' = rows \/ rows' = [rows EXCEPT ![id[r]][record[r]] = NoRow]
    BY <1>2 DEF Delete
  <2> QED
    BY <1>2, <2>1, RowWritten
<1>3. CASE Update(r)
  <2>1. \/ rows' = rows
        \/ /\ rows' = [rows EXCEPT ![id[r]][record[r]] = Patched(viewRow[r], patch[r], r)]
           /\ Found(id[r], record[r]) # NoRow
    BY <1>3 DEF Update, Updated
  <2>2. rows' = rows \/ OneRow(r, Patched(viewRow[r], patch[r], r))
    BY <2>1, RowWritten
  <2> QED
    BY <1>3, <2>1, <2>2
<1>4. ASSUME NEW d \in Ids, NEW x \in Records, NEW first \in {"insert", "fetch", "delete"},
             NEW set \in SUBSET Fields, ArriveAsset(r, d, x, first, set)
      PROVE  rows' = rows
  BY <1>4 DEF ArriveAsset
<1>5. CASE Fetch(r)
  BY <1>5 DEF Fetch
<1> QED
  BY <1>1, <1>2, <1>3, <1>4, <1>5 DEF AssetStep

\* Steps of the project files fill the rows of one directory or empty those of some.
Filled(r) ==
  /\ pc[r] = "extract rest"
  /\ rows' = [d \in Ids |-> IF d = id[r] THEN rows'[d] ELSE rows[d]]
  /\ rows'[id[r]] = [x \in Records |-> rows'[id[r]][x]]

Emptied == rows' = [d \in Ids |-> IF maker'[d] = None THEN NoRows ELSE rows[d]]

LEMMA FileRows ==
  ASSUME RowShape, NEW r \in Requests, FilesStep(r), pc[r] # "idle" => id[r] \in Ids
  PROVE  Filled(r) \/ (Emptied /\ ~(pc[r] = "extract rest" /\ pc'[r] = "describe"))
<1>1. rows' = Carried(r)
  BY DEF FilesStep
<1>2. CASE pc[r] = "extract rest" /\ pc'[r] = "describe"
  <2> DEFINE new == [x \in Records |->
                       IF x \in Packed
                       THEN [project |-> archive[r], value |-> [f \in Fields |-> None]]
                       ELSE NoRow]
  <2>1. rows' = [rows EXCEPT ![id[r]] = new]
    BY <1>1, <1>2 DEF Carried
  <2>2. new = [x \in Records |-> new[x]]
    OBVIOUS
  <2> HIDE DEF new
  <2>3. id[r] \in Ids
    BY <1>2
  <2>4. rows' = [d \in Ids |-> IF d = id[r] THEN new ELSE rows[d]]
    BY <2>1, <2>3 DEF RowShape
  <2>5. rows'[id[r]] = new
    BY <2>3, <2>4
  <2> QED
    BY <1>2, <2>2, <2>3, <2>4, <2>5 DEF Filled
<1>3. CASE ~(pc[r] = "extract rest" /\ pc'[r] = "describe")
  BY <1>1, <1>3 DEF Carried, Emptied
<1> QED
  BY <1>2, <1>3

LEMMA RowShapeStep ==
  ASSUME StoreInv, RowShape, [AssetsNext]_allVars
  PROVE  RowShape'
<1>1. ASSUME NEW r \in Requests, FilesStep(r) PROVE RowShape'
  <2>1. Filled(r) \/ Emptied
    BY <1>1, FileRows DEF StoreInv, Shape
  <2>2. CASE Filled(r)
    <3>1. rows' = [d \in Ids |-> rows'[d]]
      BY <2>2 DEF Filled
    <3>2. \A d \in Ids : rows[d] = [x \in Records |-> rows[d][x]]
      BY DEF RowShape
    <3>3. \A d \in Ids : rows'[d] = [x \in Records |-> rows'[d][x]]
      BY <2>2, <3>2 DEF Filled
    <3> QED
      BY <3>1, <3>3 DEF RowShape
  <2>3. CASE Emptied
    BY <2>3 DEF Emptied, RowShape, NoRows
  <2> QED
    BY <2>1, <2>2, <2>3
<1>2. ASSUME NEW r \in Requests, AssetStep(r) PROVE RowShape'
  <2>1. rows' = rows \/ \E row : OneRow(r, row)
    BY <1>2, AssetRows
  <2>2. ASSUME NEW row, OneRow(r, row) PROVE RowShape'
    BY <2>2 DEF OneRow, RowShape
  <2>3. CASE rows' = rows
    BY <2>3 DEF RowShape
  <2> QED
    BY <2>1, <2>2, <2>3
<1>3. CASE UNCHANGED allVars
  BY <1>3 DEF allVars, assetVars, RowShape
<1> QED
  BY <1>1, <1>2, <1>3 DEF AssetsNext

(***************************************************************************)
(* A row that was deleted does not come back: an update that read it       *)
(* before writes nothing.                                                  *)
(***************************************************************************)
THEOREM RowsStayDeleted == AssetsSpec => DeletedIsGone
<1> DEFINE Known == StoreInv /\ RowShape
           Appears == \A d \in Ids, x \in Records :
                        rows[d][x] = NoRow /\ rows'[d][x] # NoRow =>
                          \E r \in Requests : /\ id[r] = d
                                             /\ \/ pc[r] = "insert" /\ record[r] = x
                                                \/ pc[r] = "extract rest"
<1>1. AssetsInit => Known
  BY StoreInvInitial DEF AssetsInit, RowShape, NoRows
<1>2. Known /\ [AssetsNext]_allVars => Known'
  BY StoreInvStep, RowShapeStep
<1>3. Known /\ [AssetsNext]_allVars => [Appears]_allVars
  <2> SUFFICES ASSUME Known, AssetsNext, NEW d \in Ids, NEW x \in Records,
                      rows[d][x] = NoRow, rows'[d][x] # NoRow
               PROVE  \E r \in Requests : /\ id[r] = d
                                         /\ \/ pc[r] = "insert" /\ record[r] = x
                                            \/ pc[r] = "extract rest"
    OBVIOUS
  <2>1. ASSUME NEW r \in Requests, FilesStep(r) PROVE Filled(r) /\ id[r] = d
    <3>1. Filled(r) \/ Emptied
      BY <2>1, FileRows DEF StoreInv, Shape
    <3>2. CASE Filled(r)
      BY <3>2 DEF Filled
    <3>3. ~Emptied
      BY DEF Emptied, NoRows
    <3> QED
      BY <3>1, <3>2, <3>3
  <2>2. ASSUME NEW r \in Requests, AssetStep(r)
        PROVE  pc[r] = "insert" /\ id[r] = d /\ record[r] = x
    <3>1. rows' # rows
      OBVIOUS
    <3>2. ASSUME NEW row, OneRow(r, row) PROVE d = id[r] /\ x = record[r] /\ row # NoRow
      BY <3>2 DEF OneRow
    <3>3. Found(id[r], record[r]) # NoRow => rows[id[r]][record[r]] # NoRow
      BY DEF Found
    <3>4. Insert(r) => pc[r] = "insert"
      BY DEF Insert, Step
    <3> QED
      BY <2>2, <3>1, <3>2, <3>3, <3>4, AssetRows
  <2> QED
    BY <2>1, <2>2 DEF AssetsNext, Filled
<1> QED
  BY <1>1, <1>2, <1>3, PTL DEF AssetsSpec, DeletedIsGone

-----------------------------------------------------------------------------
(***************************************************************************)
(* Why a field is kept: a directory has no rows before it is listed, two   *)
(* requests at one row are known, and the others have the row as it is.    *)
(***************************************************************************)
IsRow(row) == row = [project |-> row.project, value |-> row.value]

RequestShape ==
  /\ record = [r \in Requests |-> record[r]]
  /\ viewRow = [r \in Requests |-> viewRow[r]]
  /\ \A r \in Requests : pc[r] \in AssetSteps => record[r] \in Records

RowsAreRows ==
  /\ \A d \in Ids, x \in Records : IsRow(rows[d][x])
  /\ \A r \in Requests : IsRow(viewRow[r])

EmptyUntilFilled ==
  /\ \A d \in Ids : maker[d] = None => rows[d] = NoRows
  /\ \A r \in Requests : pc[r] \in {"extract", "extract rest"} => rows[id[r]] = NoRows

WorkersKnown ==
  \A q, r \in Requests :
    /\ q # r /\ pc[q] \in AssetSteps /\ pc[r] \in AssetSteps
    /\ id[q] = id[r] /\ record[q] = record[r]
    => record[r] \in touched

ViewKnown ==
  \A r \in Requests : pc[r] = "update" /\ record[r] \notin touched =>
                        rows[id[r]][record[r]] = viewRow[r]

RowInv ==
  /\ StoreInv /\ RowShape /\ RequestShape /\ RowsAreRows
  /\ EmptyUntilFilled /\ WorkersKnown /\ ViewKnown

LEMMA RowInvInitial == AssetsInit => RowInv
<1> SUFFICES ASSUME AssetsInit PROVE RowInv
  OBVIOUS
<1>1. StoreInv
  BY StoreInvInitial
<1>2. RowShape /\ RequestShape
  BY DEF AssetsInit, Init, RowShape, RequestShape, NoRows, AssetSteps
<1>3. RowsAreRows
  BY DEF AssetsInit, RowsAreRows, IsRow, NoRows, NoRow
<1>4. EmptyUntilFilled /\ WorkersKnown /\ ViewKnown
  BY DEF AssetsInit, Init, EmptyUntilFilled, WorkersKnown, ViewKnown, AssetSteps
<1> QED
  BY <1>1, <1>2, <1>3, <1>4 DEF RowInv

\* A request for the project files stays away from the steps of the rows.
Elsewhere(r) ==
  /\ pc' = [pc EXCEPT ![r] = pc'[r]]
  /\ id' = [id EXCEPT ![r] = id'[r]]
  /\ pc[r] \notin AssetSteps
  /\ pc'[r] \notin AssetSteps
  /\ pc'[r] \in {"extract", "extract rest"} =>
       id' = id /\ (maker[id[r]] = None \/ pc[r] = "extract")
  /\ pc[r] = "extract rest" /\ pc'[r] = "describe" => UNCHANGED <<id, maker>>

LEMMA FilesStepsAreElsewhere ==
  ASSUME StoreInv, NEW r \in Requests, FilesStep(r)
  PROVE  Elsewhere(r)
<1> USE DEF Elsewhere, AssetSteps
<1>1. pc = [q \in Requests |-> pc[q]] /\ id = [q \in Requests |-> id[q]]
  BY DEF StoreInv, Shape
<1>2. CASE MakeDirectory(r) \/ ClaimDirectory(r)
  BY <1>1, <1>2 DEF MakeDirectory, ClaimDirectory, MayMake, Step, SameView
<1>3. CASE Describe(r) \/ WriteGuide(r) \/ BeginTalk(r)
  BY <1>1, <1>3 DEF Describe, WriteGuide, BeginTalk, Step, SameView
<1>4. CASE ReadSelection(r)
  BY <1>1, <1>4 DEF ReadSelection
<1>5. CASE ClearSelection(r) \/ Point(r)
  BY <1>1, <1>5 DEF ClearSelection, Point, Step, SameView
<1>6. CASE ChooseId(r)
  BY <1>1, <1>6 DEF ChooseId
<1>7. CASE ExtractFirst(r) \/ ExtractRest(r)
  BY <1>1, <1>7 DEF ExtractFirst, ExtractRest, Step, SameView
<1>8. CASE ExtractFails(r) \/ WriteFails(r)
  BY <1>1, <1>8 DEF ExtractFails, WriteFails
<1>9. CASE Load(r)
  BY <1>1, <1>9 DEF Load, AfterLoad, Step
<1>10. CASE Normalise(r) \/ Store(r) \/ WriteTalk(r)
  BY <1>1, <1>10 DEF Normalise, AfterLoad, Store, WriteTalk, Step, SameView
<1>11. CASE ReadTalk(r)
  BY <1>1, <1>11 DEF ReadTalk, Step
<1>12. ASSUME NEW o \in Operations, NEW d \in Ids, Arrive(r, o, d) PROVE Elsewhere(r)
  BY <1>1, <1>12 DEF Arrive, Admitted, FirstStep, Step
<1> QED
  BY <1>2, <1>3, <1>4, <1>5, <1>6, <1>7, <1>8, <1>9, <1>10, <1>11, <1>12 DEF FilesStep, Serve

\* What such a step leaves to the requests that are at rows.
LEMMA FilesKeepRows ==
  ASSUME RowInv, NEW r \in Requests, FilesStep(r), StoreInv', Listed \subseteq Listed'
  PROVE  RowInv'
<1> USE DEF RowInv
<1>1. Elsewhere(r) /\ (pc[r] # "idle" => id[r] \in Ids)
  BY FilesStepsAreElsewhere DEF StoreInv, Shape
<1>2. UNCHANGED <<record, patch, viewRow, touched>> /\ rows' = Carried(r)
  BY DEF FilesStep
<1>3. \/ Filled(r) /\ pc'[r] = "describe"
      \/ Emptied /\ ~(pc[r] = "extract rest" /\ pc'[r] = "describe")
  <2>1. pc[r] = "extract rest" /\ pc'[r] # "describe" => Emptied
    BY <1>2 DEF Carried, Emptied
  <2> QED
    BY <1>1, <2>1, FileRows DEF Filled
<1>4. \A q \in Requests : pc'[q] \in AssetSteps => q # r /\ pc'[q] = pc[q] /\ id'[q] = id[q]
  BY <1>1 DEF StoreInv, Shape, Elsewhere
<1>5. \A q \in Requests : q # r => pc'[q] = pc[q] /\ id'[q] = id[q]
  BY <1>1 DEF StoreInv, Shape, Elsewhere
<1>6. RowShape'
  BY RowShapeStep DEF AssetsNext
<1>7. RequestShape'
  BY <1>2, <1>4 DEF RequestShape
<1>8. RowsAreRows'
  <2>1. \A q \in Requests : IsRow(viewRow'[q])
    BY <1>2 DEF RowsAreRows
  <2>2. \A d \in Ids, x \in Records : IsRow(rows'[d][x])
    <3>1. CASE Emptied
      BY <3>1 DEF Emptied, RowsAreRows, NoRows, NoRow, IsRow
    <3>2. CASE pc[r] = "extract rest" /\ pc'[r] = "describe"
      BY <1>1, <1>2, <3>2 DEF Carried, RowShape, RowsAreRows, NoRow, IsRow
    <3> QED
      BY <1>3, <3>1, <3>2 DEF Filled
  <2> QED
    BY <2>1, <2>2 DEF RowsAreRows, IsRow
<1>9. EmptyUntilFilled'
  <2>1. \A d \in Ids : maker'[d] = None => rows'[d] = NoRows
    <3>1. CASE Emptied
      BY <3>1 DEF Emptied
    <3>2. CASE Filled(r) /\ pc'[r] = "describe"
      <4>1. pc[r] = "extract rest" /\ UNCHANGED <<id, maker>> /\ id[r] \in Ids
        BY <1>1, <3>2 DEF Filled, Elsewhere
      <4>2. maker[id[r]] # None
        BY <4>1, StoreAssumption DEF StoreInv, OwnerKnown, KindKnown, Owning
      <4> QED
        BY <3>2, <4>1, <4>2 DEF Filled, EmptyUntilFilled
    <3> QED
      BY <1>3, <3>1, <3>2
  <2>2. ASSUME NEW q \in Requests, pc'[q] \in {"extract", "extract rest"}
        PROVE  rows'[id'[q]] = NoRows
    <3>1. id'[q] = id[q] /\ id[q] \in Ids
      <4>1. CASE q = r
        BY <1>1, <2>2, <4>1 DEF Elsewhere, StoreInv, Shape
      <4>2. CASE q # r
        BY <1>5, <2>2, <4>2 DEF StoreInv, Shape
      <4> QED
        BY <4>1, <4>2
    <3>2. rows[id[q]] = NoRows
      <4>1. CASE q = r
        BY <1>1, <2>2, <3>1, <4>1 DEF Elsewhere, EmptyUntilFilled
      <4>2. CASE q # r
        BY <1>5, <2>2, <4>2 DEF EmptyUntilFilled
      <4> QED
        BY <4>1, <4>2
    <3>3. CASE Emptied
      BY <3>1, <3>2, <3>3 DEF Emptied
    <3>4. CASE Filled(r) /\ pc'[r] = "describe"
      <4>1. q # r /\ pc[q] \in Owning /\ pc[r] \in Owning
        BY <1>5, <2>2, <3>4 DEF Filled, Owning
      <4>2. id[q] # id[r]
        BY <4>1 DEF StoreInv, OwnerKnown
      <4> QED
        BY <3>1, <3>2, <3>4, <4>2 DEF Filled
    <3> QED
      BY <1>3, <3>3, <3>4
  <2> QED
    BY <2>1, <2>2 DEF EmptyUntilFilled
<1>10. WorkersKnown'
  BY <1>2, <1>4 DEF WorkersKnown
<1>11. ViewKnown'
  <2> SUFFICES ASSUME NEW q \in Requests, pc'[q] = "update", record'[q] \notin touched'
               PROVE  rows'[id'[q]][record'[q]] = viewRow'[q]
    BY DEF ViewKnown
  <2>1. pc[q] = "update" /\ id'[q] = id[q] /\ q # r
    BY <1>4 DEF AssetSteps
  <2>2. id[q] \in Ids /\ json[id[q]] # NoJson
    BY <2>1 DEF StoreInv, Shape, OpenedIsListed, Opened, AssetSteps
  <2>3. maker'[id[q]] # None
    BY <2>2 DEF StoreInv, UnmadeIsUnlisted, Listed
  <2>4. rows'[id[q]] = rows[id[q]]
    <3>1. CASE Emptied
      BY <2>2, <2>3, <3>1 DEF Emptied
    <3>2. CASE Filled(r)
      <4>1. id[r] # id[q]
        BY <2>2, <3>2 DEF Filled, StoreInv, OwnerKnown, Owning
      <4> QED
        BY <2>2, <3>2, <4>1 DEF Filled
    <3> QED
      BY <1>3, <3>1, <3>2
  <2> QED
    BY <1>2, <2>1, <2>4 DEF ViewKnown
<1> QED
  BY <1>6, <1>7, <1>8, <1>9, <1>10, <1>11

\* What a request at a row leaves to the others.
AtRow(r) ==
  /\ pc' = [pc EXCEPT ![r] = pc'[r]]
  /\ id' = [id EXCEPT ![r] = id'[r]]
  /\ record' = [record EXCEPT ![r] = record'[r]]
  /\ pc'[r] \in AssetSteps \cup {"idle"}
  /\ pc'[r] \in AssetSteps => record'[r] \in Records
  /\ touched \subseteq touched'
  /\ UNCHANGED maker
  /\ \/ /\ pc[r] = "idle" /\ rows' = rows /\ viewRow' = viewRow /\ pc'[r] # "update"
        /\ \A q \in Requests : q # r /\ pc[q] \in AssetSteps /\ id[q] = id'[r]
                               /\ record[q] = record'[r] => record[q] \in touched'
     \/ /\ pc[r] \in AssetSteps /\ UNCHANGED <<id, record, touched>>
        /\ viewRow' = [viewRow EXCEPT ![r] = viewRow'[r]]
        /\ IsRow(viewRow'[r])
        /\ pc'[r] = "update" => viewRow'[r] = rows[id[r]][record[r]]
        /\ \/ rows' = rows
           \/ \E row : OneRow(r, row) /\ IsRow(row) /\ pc'[r] # "update"

LEMMA AssetStepsAreAtRow ==
  ASSUME RowInv, NEW r \in Requests, AssetStep(r)
  PROVE  AtRow(r)
<1> USE DEF RowInv
<1>1. ASSUME NEW d \in Ids, NEW x \in Records, NEW first \in {"insert", "fetch", "delete"},
             NEW set \in SUBSET Fields, ArriveAsset(r, d, x, first, set)
      PROVE  AtRow(r)
  <2>1. /\ pc[r] = "idle" /\ pc' = [pc EXCEPT ![r] = first] /\ id' = [id EXCEPT ![r] = d]
        /\ record' = [record EXCEPT ![r] = x]
        /\ UNCHANGED <<maker, rows, viewRow>>
    BY <1>1 DEF ArriveAsset, Admitted, Step, diskVars
  <2>2. /\ touched \subseteq touched'
        /\ \A q \in Requests : pc[q] \in AssetSteps /\ id[q] = d /\ record[q] = x => x \in touched'
    BY <1>1 DEF ArriveAsset, WorkingOn
  <2>3. /\ pc'[r] = first /\ id'[r] = d /\ record'[r] = x
        /\ pc' = [pc EXCEPT ![r] = pc'[r]]
        /\ id' = [id EXCEPT ![r] = id'[r]]
        /\ record' = [record EXCEPT ![r] = record'[r]]
    BY <2>1 DEF StoreInv, Shape, RequestShape
  <2> QED
    BY <2>1, <2>2, <2>3 DEF AtRow, AssetSteps
<1>2. ASSUME Insert(r) \/ Update(r) \/ Delete(r) \/ Fetch(r)
      PROVE  AtRow(r)
  <2>1. /\ pc[r] \in AssetSteps /\ pc' = [pc EXCEPT ![r] = pc'[r]]
        /\ pc'[r] \in {"idle", "update"} /\ (pc'[r] = "update" => Fetch(r))
        /\ UNCHANGED <<maker, id, record, touched>>
    BY <1>2 DEF Insert, Update, Delete, Fetch, Step, SameFiles, SameRequest, diskVars, AssetSteps,
                StoreInv, Shape
  <2>2. /\ id' = [id EXCEPT ![r] = id'[r]] /\ record' = [record EXCEPT ![r] = record'[r]]
        /\ id[r] \in Ids /\ record[r] \in Records
    BY <2>1 DEF StoreInv, Shape, RequestShape, AssetSteps
  <2>3. IsRow(rows[id[r]][record[r]]) /\ IsRow(NoRow) /\ IsRow(viewRow[r])
    BY <2>2 DEF RowsAreRows, IsRow, NoRow
  <2>4. /\ viewRow' = [viewRow EXCEPT ![r] = viewRow'[r]] /\ IsRow(viewRow'[r])
        /\ pc'[r] = "update" => viewRow'[r] = rows[id[r]][record[r]]
    <3>1. CASE Fetch(r)
      <4>1. /\ viewRow' = [viewRow EXCEPT ![r] = Found(id[r], record[r])]
            /\ pc'[r] = (IF Found(id[r], record[r]) = NoRow THEN "idle" ELSE "update")
        BY <3>1 DEF Fetch, Step, StoreInv, Shape
      <4>2. Found(id[r], record[r]) \in {NoRow, rows[id[r]][record[r]]}
        BY DEF Found
      <4>3. viewRow'[r] = Found(id[r], record[r]) /\ viewRow' = [viewRow EXCEPT ![r] = viewRow'[r]]
        BY <4>1 DEF RequestShape
      <4> QED
        BY <2>3, <4>1, <4>2, <4>3
    <3>2. CASE viewRow' = viewRow /\ pc'[r] # "update"
      BY <2>3, <3>2 DEF RequestShape
    <3> QED
      BY <1>2, <2>1, <3>1, <3>2 DEF Insert, Update, Delete, Step, StoreInv, Shape
  <2>5. rows' = rows \/ \E row : OneRow(r, row) /\ IsRow(row) /\ pc'[r] # "update"
    <3>1. Insert(r) \/ Update(r) \/ Delete(r) => pc'[r] # "update"
      BY DEF Insert, Update, Delete, Step, StoreInv, Shape
    <3>2. /\ IsRow([project |-> id[r], value |-> [f \in Fields |-> r]])
          /\ IsRow(Patched(viewRow[r], patch[r], r))
      BY <2>3 DEF IsRow, Patched
    <3> QED
      BY <2>3, <3>1, <3>2, AssetRows
  <2>6. /\ pc'[r] \in AssetSteps \cup {"idle"} /\ record'[r] \in Records
        /\ touched \subseteq touched'
    <3>1. pc'[r] \in {"idle", "update"} /\ record' = record /\ touched' = touched
      BY <2>1
    <3>2. record[r] \in Records
      BY <2>2
    <3> QED
      BY ONLY <3>1, <3>2 DEF AssetSteps
  <2> QED
    BY <2>1, <2>2, <2>4, <2>5, <2>6 DEF AtRow
<1> QED
  BY <1>1, <1>2 DEF AssetStep

LEMMA RowsKeepRows ==
  ASSUME RowInv, NEW r \in Requests, AssetStep(r), StoreInv'
  PROVE  RowInv'
<1> USE DEF RowInv
<1>1. AtRow(r)
  BY AssetStepsAreAtRow
<1>2. \A q \in Requests : q # r => pc'[q] = pc[q] /\ id'[q] = id[q] /\ record'[q] = record[q]
  BY <1>1 DEF AtRow, StoreInv, Shape, RequestShape
<1>3. pc[r] \in AssetSteps => id[r] \in Ids /\ json[id[r]] # NoJson /\ record[r] \in Records
  BY DEF StoreInv, Shape, OpenedIsListed, Opened, AssetSteps, RequestShape
<1>4. rows' = rows \/ \E row : OneRow(r, row) /\ IsRow(row) /\ pc[r] \in AssetSteps
  BY <1>1 DEF AtRow
<1>5. \A d \in Ids, x \in Records : rows'[d][x] # rows[d][x] =>
        d = id[r] /\ x = record[r] /\ pc[r] \in AssetSteps
  BY <1>4 DEF OneRow
<1>6. RowShape'
  BY RowShapeStep DEF AssetsNext
<1>7. RequestShape'
  <2>1. record' = [q \in Requests |-> record'[q]] /\ viewRow' = [q \in Requests |-> viewRow'[q]]
    BY <1>1 DEF AtRow, RequestShape
  <2>2. \A q \in Requests : pc'[q] \in AssetSteps => record'[q] \in Records
    BY <1>1, <1>2 DEF AtRow, RequestShape
  <2> QED
    BY <2>1, <2>2 DEF RequestShape
<1>8. RowsAreRows'
  <2>1. \A q \in Requests : IsRow(viewRow'[q])
    <3>1. \A q \in Requests : viewRow'[q] = viewRow[q] \/ IsRow(viewRow'[q])
      BY <1>1 DEF AtRow, RequestShape
    <3> QED
      BY <3>1 DEF RowsAreRows
  <2>2. \A d \in Ids, x \in Records : IsRow(rows'[d][x])
    <3>1. \A d \in Ids, x \in Records : rows'[d][x] = rows[d][x] \/ IsRow(rows'[d][x])
      BY <1>4 DEF OneRow
    <3> QED
      BY <3>1 DEF RowsAreRows
  <2> QED
    BY <2>1, <2>2 DEF RowsAreRows, IsRow
<1>9. EmptyUntilFilled'
  <2>1. \A d \in Ids : json[d] = NoJson => rows'[d] = rows[d]
    BY <1>3, <1>4 DEF OneRow, RowShape
  <2>2. maker' = maker
    BY <1>1 DEF AtRow
  <2>3. \A d \in Ids : maker'[d] = None => rows'[d] = NoRows
    BY <2>1, <2>2 DEF StoreInv, UnmadeIsUnlisted, EmptyUntilFilled
  <2>4. ASSUME NEW q \in Requests, pc'[q] \in {"extract", "extract rest"}
        PROVE  rows'[id'[q]] = NoRows
    <3>1. q # r
      BY <1>1, <2>4 DEF AtRow, AssetSteps
    <3>2. pc[q] \in {"extract", "extract rest"} /\ id'[q] = id[q]
      BY <1>2, <2>4, <3>1
    <3>3. json[id[q]] = NoJson /\ rows[id[q]] = NoRows /\ id[q] \in Ids
      BY <3>2 DEF StoreInv, Shape, OwnerKnown, Owning, EmptyUntilFilled
    <3>4. rows'[id[q]] = rows[id[q]]
      BY <2>1, <3>3
    <3> QED
      BY <3>2, <3>3, <3>4
  <2> QED
    BY <2>3, <2>4 DEF EmptyUntilFilled
<1>10. WorkersKnown'
  <2> SUFFICES ASSUME NEW p \in Requests, NEW q \in Requests, p # q,
                      pc'[p] \in AssetSteps, pc'[q] \in AssetSteps,
                      id'[p] = id'[q], record'[p] = record'[q]
               PROVE  record'[q] \in touched'
    BY DEF WorkersKnown
  <2>1. CASE pc[r] \in AssetSteps
    <3>1. pc[p] \in AssetSteps /\ pc[q] \in AssetSteps /\ id[p] = id[q] /\ record[p] = record[q]
      BY <1>1, <1>2, <2>1 DEF AtRow, AssetSteps
    <3>2. record[q] \in touched /\ record'[q] = record[q] /\ touched \subseteq touched'
      BY <1>1, <2>1, <3>1 DEF AtRow, WorkersKnown, AssetSteps
    <3> QED
      BY <3>2
  <2>2. CASE pc[r] \notin AssetSteps
    <3>1. \A t \in Requests : t # r /\ pc[t] \in AssetSteps /\ id[t] = id'[r]
                              /\ record[t] = record'[r] => record[t] \in touched'
      BY <1>1, <2>2 DEF AtRow
    <3>2. CASE p = r
      BY <1>2, <3>1, <3>2
    <3>3. CASE q = r
      BY <1>2, <3>1, <3>3
    <3>4. CASE p # r /\ q # r
      BY <1>1, <1>2, <3>4 DEF AtRow, WorkersKnown
    <3> QED
      BY <3>2, <3>3, <3>4
  <2> QED
    BY <2>1, <2>2
<1>11. ViewKnown'
  <2> SUFFICES ASSUME NEW q \in Requests, pc'[q] = "update", record'[q] \notin touched'
               PROVE  rows'[id'[q]][record'[q]] = viewRow'[q]
    BY DEF ViewKnown
  <2>1. CASE q = r
    <3>1. pc[r] \in AssetSteps /\ id' = id /\ record' = record /\ rows' = rows
          /\ viewRow'[r] = rows[id[r]][record[r]]
      BY <1>1, <2>1 DEF AtRow
    <3> QED
      BY <2>1, <3>1
  <2>2. CASE q # r
    <3>1. pc[q] = "update" /\ id'[q] = id[q] /\ record'[q] = record[q] /\ viewRow'[q] = viewRow[q]
      BY <1>1, <1>2, <2>2 DEF AtRow, RequestShape
    <3>2. id[q] \in Ids /\ record[q] \in Records /\ record[q] \notin touched
      BY <1>1, <3>1 DEF AtRow, StoreInv, Shape, RequestShape, AssetSteps
    <3>3. rows[id[q]][record[q]] = viewRow[q]
      BY <3>1, <3>2 DEF ViewKnown
    <3>4. ~(pc[r] \in AssetSteps /\ id[r] = id[q] /\ record[r] = record[q])
      BY <2>2, <3>1, <3>2 DEF WorkersKnown, AssetSteps
    <3>5. rows'[id[q]][record[q]] = rows[id[q]][record[q]]
      BY <1>5, <3>2, <3>4
    <3> QED
      BY <3>1, <3>3, <3>5
  <2> QED
    BY <2>1, <2>2
<1> QED
  BY <1>6, <1>7, <1>8, <1>9, <1>10, <1>11

LEMMA RowInvStep == RowInv /\ [AssetsNext]_allVars => RowInv'
<1> SUFFICES ASSUME RowInv, [AssetsNext]_allVars PROVE RowInv'
  OBVIOUS
<1>1. StoreInv' /\ Listed \subseteq Listed'
  BY StoreInvStep DEF RowInv
<1>2. ASSUME NEW r \in Requests, FilesStep(r) PROVE RowInv'
  BY <1>1, <1>2, FilesKeepRows
<1>3. ASSUME NEW r \in Requests, AssetStep(r) PROVE RowInv'
  BY <1>1, <1>3, RowsKeepRows
<1>4. CASE UNCHANGED allVars
  BY <1>1, <1>4
  DEF allVars, vars, diskVars, requestVars, assetVars, RowInv, RowShape, RequestShape, RowsAreRows,
      IsRow, EmptyUntilFilled, WorkersKnown, ViewKnown
<1> QED
  BY <1>2, <1>3, <1>4 DEF AssetsNext

(***************************************************************************)
(* A field of a row that no two requests worked on at once changes by a    *)
(* patch that sets it only.                                                *)
(***************************************************************************)
THEOREM FieldsStay == AssetsSpec => FieldsAreKept
<1> DEFINE Kept == \A d \in Ids, x \in Records \ touched', f \in Fields :
                     /\ rows[d][x] # NoRow
                     /\ rows'[d][x] # NoRow
                     /\ rows'[d][x].value[f] # rows[d][x].value[f]
                     => \E r \in Requests : rows'[d][x].value[f] = r /\ f \in patch[r]
<1>1. RowInv /\ [AssetsNext]_allVars => RowInv'
  BY RowInvStep
<1>2. RowInv /\ [AssetsNext]_allVars => [Kept]_allVars
  <2> SUFFICES ASSUME RowInv, AssetsNext,
                      NEW d \in Ids, NEW x \in Records \ touched', NEW f \in Fields,
                      rows[d][x] # NoRow, rows'[d][x] # NoRow,
                      rows'[d][x].value[f] # rows[d][x].value[f]
               PROVE  \E r \in Requests : rows'[d][x].value[f] = r /\ f \in patch[r]
    OBVIOUS
  <2> USE DEF RowInv
  <2>1. ASSUME NEW r \in Requests, FilesStep(r) PROVE FALSE
    <3>1. Filled(r) \/ Emptied
      BY <2>1, FileRows DEF StoreInv, Shape
    <3>2. CASE Filled(r)
      <4>1. rows[id[r]] = NoRows
        BY <3>2 DEF Filled, EmptyUntilFilled
      <4>2. d # id[r]
        BY <4>1 DEF NoRows
      <4>3. rows'[d] = rows[d]
        BY <3>2, <4>2 DEF Filled
      <4> QED
        BY <4>3
    <3>3. CASE Emptied
      <4>1. rows'[d] = NoRows \/ rows'[d] = rows[d]
        BY <3>3 DEF Emptied
      <4>2. rows'[d][x] = NoRow \/ rows'[d] = rows[d]
        BY <4>1 DEF NoRows
      <4> QED
        BY <4>2
    <3> QED
      BY <3>1, <3>2, <3>3
  <2>2. ASSUME NEW r \in Requests, AssetStep(r)
        PROVE  rows'[d][x].value[f] = r /\ f \in patch[r]
    <3>1. rows' # rows
      OBVIOUS
    <3>2. ASSUME NEW row, OneRow(r, row)
          PROVE  d = id[r] /\ x = record[r] /\ rows'[d][x] = row /\ row # NoRow
      BY <3>2 DEF OneRow
    <3>3. ~(Insert(r) /\ d = id[r] /\ x = record[r])
      BY DEF Insert
    <3>4. /\ Update(r) /\ d = id[r] /\ x = record[r]
          /\ rows'[d][x] = Patched(viewRow[r], patch[r], r)
      BY <2>2, <3>1, <3>2, <3>3, AssetRows
    <3>5. pc[r] = "update" /\ touched' = touched
      BY <3>4 DEF Update, Step, SameRequest
    <3>6. viewRow[r] = rows[d][x] /\ IsRow(viewRow[r])
      BY <3>4, <3>5 DEF ViewKnown, RowsAreRows
    <3>7. rows'[d][x].value[f] = (IF f \in patch[r] THEN r ELSE viewRow[r].value[f])
      BY <3>4, <3>6 DEF Patched, IsRow
    <3> QED
      BY <3>6, <3>7
  <2> QED
    BY <2>1, <2>2 DEF AssetsNext
<1> QED
  BY <1>1, <1>2, RowInvInitial, PTL DEF AssetsSpec, FieldsAreKept

-----------------------------------------------------------------------------
(***************************************************************************)
(* Types, part by part.                                                    *)
(***************************************************************************)
JsonRecords == [hasId : BOOLEAN, loop : {"none", "off", "on"}]
Makers == {"create", "import", "user", None}
FileSteps == {"idle", "make", "describe", "guide", "talk", "current", "clear", "point", "choose",
              "claim", "extract", "extract rest", "load", "normalise", "store", "read", "append"}

DirectoriesTyped ==
  /\ maker \in [Ids -> Makers]
  /\ json \in [Ids -> JsonRecords]
  /\ files \in [Ids -> SUBSET Whole]
  /\ selection \in Ids \cup {None}

TalkTyped ==
  /\ talk \in [Ids -> Seq(Requests)]
  /\ snapshot \in [Ids -> Seq(Requests) \cup {None}]
  /\ viewTalk \in [Requests -> Seq(Requests)]

RequestsTyped ==
  /\ pc \in [Requests -> FileSteps \cup AssetSteps]
  /\ op \in [Requests -> Operations \cup {"asset", None}]
  /\ id \in [Requests -> Ids \cup {None}]
  /\ viewJson \in [Requests -> JsonRecords]

CountsTyped == calls \in 0..MaxCalls /\ faults \in 0..MaxFaults

HistoryTyped == overlapped \subseteq Ids /\ outdated \subseteq Ids

TypeParts ==
  DirectoriesTyped /\ TalkTyped /\ RequestsTyped /\ CountsTyped /\ HistoryTyped

LEMMA PartsAreTypeOK == TypeParts <=> TypeOK
<1>1. FileSteps \cup AssetSteps =
        {"idle", "make", "describe", "guide", "talk", "current", "clear",
         "point", "choose", "claim", "extract", "extract rest", "load",
         "normalise", "store", "read", "append",
         "insert", "fetch", "update", "delete"}
  BY DEF FileSteps, AssetSteps
<1> QED
  BY <1>1
  DEF TypeParts, DirectoriesTyped, TalkTyped, RequestsTyped, CountsTyped, HistoryTyped, TypeOK,
      JsonRecords, Makers, Whole

LEMMA JsonHasType ==
  NoJson \in JsonRecords
  /\ \A loop \in {"none", "off", "on"} : [hasId |-> TRUE, loop |-> loop] \in JsonRecords
BY DEF NoJson, JsonRecords

LEMMA PartsInitial == AssetsInit => TypeParts
<1> SUFFICES ASSUME AssetsInit PROVE TypeParts
  OBVIOUS
<1> USE DEF AssetsInit, Init
<1>1. DirectoriesTyped
  <2>1. [hasId |-> FALSE, loop |-> "off"] \in JsonRecords
    BY DEF JsonRecords
  <2> QED
    BY <2>1, JsonHasType DEF DirectoriesTyped, Makers
<1>2. TalkTyped
  BY DEF TalkTyped
<1>3. RequestsTyped
  BY JsonHasType DEF RequestsTyped, FileSteps
<1>4. CountsTyped /\ HistoryTyped
  BY StoreAssumption DEF CountsTyped, HistoryTyped
<1> QED
  BY <1>1, <1>2, <1>3, <1>4 DEF TypeParts

\* A counter is left alone or goes up by one, below its bound.
Counts ==
  /\ calls' = calls \/ (calls < MaxCalls /\ calls' = calls + 1)
  /\ faults' = faults \/ (faults < MaxFaults /\ faults' = faults + 1)

LEMMA CountsStep == CountsTyped /\ Counts => CountsTyped'
BY StoreAssumption DEF CountsTyped, Counts

\* A request that comes in, of the project files or of the rows.
LEMMA AdmittedKeepsParts ==
  ASSUME TypeParts, NEW r \in Requests, NEW o \in Operations \cup {"asset"}, NEW d \in Ids, NEW first,
         first \in {"make", "choose", "load", "insert", "fetch", "delete"},
         Admitted(r, o, d, first)
  PROVE  TypeParts'
<1> USE DEF TypeParts
<1>1. CountsTyped'
  BY CountsStep DEF Admitted, Counts
<1>2. DirectoriesTyped' /\ TalkTyped'
  BY DEF Admitted, diskVars, DirectoriesTyped, TalkTyped
<1>3. HistoryTyped'
  BY DEF Admitted, HistoryTyped
<1>4. RequestsTyped'
  BY DEF Admitted, Step, RequestsTyped, FileSteps, AssetSteps
<1> QED
  BY <1>1, <1>2, <1>3, <1>4

LEMMA ServedDirectories ==
  ASSUME TypeParts, StoreInv, NEW r \in Requests, Serve(r)
  PROVE  DirectoriesTyped'
<1> USE DEF TypeParts, DirectoriesTyped
<1>1. CASE MakeDirectory(r) \/ ClaimDirectory(r)
  <2>1. op[r] \in {"create", "import"}
    BY <1>1 DEF MakeDirectory, ClaimDirectory, Step, StoreInv, KindKnown
  <2>2. maker' \in [Ids -> Makers]
    BY <1>1, <2>1 DEF MakeDirectory, ClaimDirectory, Makers
  <2> QED
    BY <1>1, <2>2 DEF MakeDirectory, ClaimDirectory
<1>2. CASE Describe(r) \/ Store(r)
  <2>1. \E loop \in {"off", "on"} : json' = [json EXCEPT ![id[r]] = [hasId |-> TRUE, loop |-> loop]]
    BY <1>2 DEF Describe, Store
  <2>2. json' \in [Ids -> JsonRecords]
    BY <2>1, JsonHasType
  <2> QED
    BY <1>2, <2>2 DEF Describe, Store
<1>3. CASE WriteGuide(r) \/ BeginTalk(r) \/ ExtractRest(r) \/ WriteTalk(r)
  BY <1>3 DEF WriteGuide, BeginTalk, ExtractRest, WriteTalk, Whole
<1>4. CASE ExtractFirst(r)
  BY <1>4 DEF ExtractFirst, ExtractedJson, Whole
<1>5. CASE ClearSelection(r) \/ Point(r)
  <2>1. selection' \in Ids \cup {None}
    <3>1. Point(r) => id[r] \in Ids
      BY DEF Point, Step, StoreInv, Shape
    <3> QED
      BY <1>5, <3>1 DEF ClearSelection, Point, PointedAt
  <2> QED
    BY <1>5, <2>1 DEF ClearSelection, Point
<1>6. CASE ExtractFails(r)
  <2>1. maker' = maker \/ maker' = [maker EXCEPT ![id[r]] = None]
    BY <1>6 DEF ExtractFails
  <2>2. json' = json \/ json' = [json EXCEPT ![id[r]] = NoJson]
    BY <1>6 DEF ExtractFails
  <2>3. files' = files \/ files' = [files EXCEPT ![id[r]] = {}]
    BY <1>6 DEF ExtractFails
  <2>4. maker' \in [Ids -> Makers]
    BY <2>1 DEF Makers
  <2>5. json' \in [Ids -> JsonRecords]
    BY <2>2, JsonHasType
  <2>6. files' \in [Ids -> SUBSET Whole]
    BY <2>3
  <2> QED
    BY <1>6, <2>4, <2>5, <2>6 DEF ExtractFails
<1>7. CASE Normalise(r)
  <2>1. viewJson[r].loop \in {"none", "off", "on"}
    BY DEF RequestsTyped, JsonRecords
  <2>2. json' \in [Ids -> JsonRecords]
    BY <1>7, <2>1, JsonHasType DEF Normalise
  <2> QED
    BY <1>7, <2>2 DEF Normalise
<1>8. CASE ReadSelection(r) \/ ChooseId(r) \/ Load(r) \/ ReadTalk(r) \/ WriteFails(r)
  BY <1>8 DEF ReadSelection, ChooseId, Load, ReadTalk, WriteFails, diskVars
<1> QED
  BY <1>1, <1>2, <1>3, <1>4, <1>5, <1>6, <1>7, <1>8 DEF Serve

LEMMA ServedTalk ==
  ASSUME TypeParts, StoreInv, NEW r \in Requests, Serve(r)
  PROVE  TalkTyped'
<1> USE DEF TypeParts, TalkTyped
<1>1. CASE BeginTalk(r) \/ ExtractFails(r)
  <2>1. talk' = talk \/ talk' = [talk EXCEPT ![id[r]] = <<>>]
    BY <1>1 DEF BeginTalk, ExtractFails
  <2>2. talk' \in [Ids -> Seq(Requests)]
    <3>1. <<>> \in Seq(Requests)
      OBVIOUS
    <3> QED
      BY <2>1, <3>1
  <2> QED
    BY <1>1, <2>2 DEF BeginTalk, ExtractFails, SameView
<1>2. CASE WriteTalk(r)
  <2>1. viewTalk[r] \in Seq(Requests)
    OBVIOUS
  <2>2. Append(viewTalk[r], r) \in Seq(Requests)
    BY <2>1
  <2>3. talk' = [talk EXCEPT ![id[r]] = Append(viewTalk[r], r)]
    BY <1>2 DEF WriteTalk, Merged
  <2>4. talk' \in [Ids -> Seq(Requests)]
    BY <2>2, <2>3
  <2> QED
    BY <1>2, <2>4 DEF WriteTalk, SameView
<1>3. CASE ReadTalk(r)
  <2>1. id[r] \in Ids
    BY <1>3 DEF ReadTalk, StoreInv, Shape
  <2>2. /\ talk[id[r]] \in Seq(Requests)
        /\ snapshot[id[r]] # None => snapshot[id[r]] \in Seq(Requests)
        /\ <<>> \in Seq(Requests)
    BY <2>1
  <2>3. \E seen \in {talk[id[r]], snapshot[id[r]], <<>>} :
          /\ seen = snapshot[id[r]] => seen # None \/ seen = talk[id[r]] \/ seen = <<>>
          /\ viewTalk' = [viewTalk EXCEPT ![r] = seen]
    BY <1>3 DEF ReadTalk
  <2>4. viewTalk' \in [Requests -> Seq(Requests)]
    BY <2>2, <2>3
  <2>5. snapshot' = snapshot \/ snapshot' = [snapshot EXCEPT ![id[r]] = talk[id[r]]]
    BY <1>3 DEF ReadTalk
  <2>6. snapshot' \in [Ids -> Seq(Requests) \cup {None}]
    BY <2>2, <2>5
  <2> QED
    BY <1>3, <2>4, <2>6 DEF ReadTalk, diskVars
<1>4. CASE ReadSelection(r) \/ ChooseId(r) \/ Load(r) \/ WriteFails(r)
  BY <1>4 DEF ReadSelection, ChooseId, Load, WriteFails, diskVars
<1>5. CASE \/ MakeDirectory(r) \/ Describe(r) \/ WriteGuide(r) \/ ClearSelection(r) \/ Point(r)
           \/ ClaimDirectory(r) \/ ExtractFirst(r) \/ ExtractRest(r) \/ Normalise(r) \/ Store(r)
  BY <1>5
  DEF MakeDirectory, Describe, WriteGuide, ClearSelection, Point, ClaimDirectory, ExtractFirst,
      ExtractRest, Normalise, Store, SameView
<1> QED
  BY <1>1, <1>2, <1>3, <1>4, <1>5 DEF Serve

LEMMA ServedRequests ==
  ASSUME TypeParts, StoreInv, NEW r \in Requests, Serve(r)
  PROVE  RequestsTyped'
<1> USE DEF TypeParts, RequestsTyped
<1>1. /\ pc' = [pc EXCEPT ![r] = pc'[r]] /\ pc'[r] \in FileSteps
      /\ op' = op
  <2>1. AfterLoad(op[r]) \in FileSteps
    BY DEF AfterLoad, FileSteps
  <2>2. CASE ReadSelection(r) \/ ChooseId(r) \/ ReadTalk(r) \/ ExtractFails(r) \/ WriteFails(r)
    BY <2>2 DEF ReadSelection, ChooseId, ReadTalk, ExtractFails, WriteFails, Step, FileSteps
  <2>3. CASE Load(r) \/ Normalise(r)
    BY <2>1, <2>3 DEF Load, Normalise, Step, SameView, FileSteps
  <2>4. CASE \/ MakeDirectory(r) \/ Describe(r) \/ WriteGuide(r) \/ BeginTalk(r)
             \/ ClearSelection(r) \/ Point(r) \/ ClaimDirectory(r) \/ ExtractFirst(r)
             \/ ExtractRest(r) \/ Store(r) \/ WriteTalk(r)
    BY <2>4
    DEF MakeDirectory, Describe, WriteGuide, BeginTalk, ClearSelection, Point, ClaimDirectory,
        ExtractFirst, ExtractRest, Store, WriteTalk, Step, SameView, FileSteps
  <2> QED
    BY <2>2, <2>3, <2>4 DEF Serve
<1>2. id' \in [Requests -> Ids \cup {None}]
  <2>1. \/ id' = id
        \/ ReadSelection(r) /\ selection # None /\ id' = [id EXCEPT ![r] = selection]
        \/ \E d \in Ids : id' = [id EXCEPT ![r] = d]
    <3>1. CASE ReadSelection(r)
      BY <3>1 DEF ReadSelection
    <3>2. CASE ChooseId(r)
      <4>1. \A d \in FreshIds(id[r]) : d \in Ids
        BY <3>2 DEF ChooseId, FreshIds, StoreInv, Shape
      <4> QED
        BY <3>2, <4>1 DEF ChooseId
    <3>3. CASE Load(r) \/ ReadTalk(r) \/ ExtractFails(r) \/ WriteFails(r)
      BY <3>3 DEF Load, ReadTalk, ExtractFails, WriteFails
    <3>4. CASE \/ MakeDirectory(r) \/ Describe(r) \/ WriteGuide(r) \/ BeginTalk(r)
               \/ ClearSelection(r) \/ Point(r) \/ ClaimDirectory(r) \/ ExtractFirst(r)
               \/ ExtractRest(r) \/ Store(r) \/ WriteTalk(r) \/ Normalise(r)
      BY <3>4
      DEF MakeDirectory, Describe, WriteGuide, BeginTalk, ClearSelection, Point, ClaimDirectory,
          ExtractFirst, ExtractRest, Store, WriteTalk, Normalise, SameView
    <3> QED
      BY <3>1, <3>2, <3>3, <3>4 DEF Serve
  <2> QED
    BY <2>1 DEF DirectoriesTyped
<1>3. viewJson' \in [Requests -> JsonRecords]
  <2>1. viewJson' = viewJson \/ \E d \in Ids : viewJson' = [viewJson EXCEPT ![r] = json[d]]
    <3>1. CASE ReadSelection(r)
      BY <3>1 DEF ReadSelection, DirectoriesTyped
    <3>2. CASE Load(r)
      BY <3>2 DEF Load, Step, StoreInv, Shape
    <3>3. CASE ChooseId(r) \/ ReadTalk(r) \/ ExtractFails(r) \/ WriteFails(r)
      BY <3>3 DEF ChooseId, ReadTalk, ExtractFails, WriteFails
    <3>4. CASE \/ MakeDirectory(r) \/ Describe(r) \/ WriteGuide(r) \/ BeginTalk(r)
               \/ ClearSelection(r) \/ Point(r) \/ ClaimDirectory(r) \/ ExtractFirst(r)
               \/ ExtractRest(r) \/ Store(r) \/ WriteTalk(r) \/ Normalise(r)
      BY <3>4
      DEF MakeDirectory, Describe, WriteGuide, BeginTalk, ClearSelection, Point, ClaimDirectory,
          ExtractFirst, ExtractRest, Store, WriteTalk, Normalise, SameView
    <3> QED
      BY <3>1, <3>2, <3>3, <3>4 DEF Serve
  <2> QED
    BY <2>1 DEF DirectoriesTyped
<1> QED
  BY <1>1, <1>2, <1>3

LEMMA ServedHistory ==
  ASSUME TypeParts, StoreInv, NEW r \in Requests, Serve(r)
  PROVE  CountsTyped' /\ HistoryTyped'
<1> USE DEF TypeParts, HistoryTyped
<1>1. Counts /\ HistoryTyped'
  <2>1. CASE ReadSelection(r)
    BY <2>1 DEF ReadSelection, Counts, DirectoriesTyped
  <2>2. CASE ChooseId(r)
    <3>1. \A d \in FreshIds(id[r]) : d \in Ids
      BY <2>2 DEF ChooseId, FreshIds, StoreInv, Shape
    <3> QED
      BY <2>2, <3>1 DEF ChooseId, Counts
  <2>3. CASE ReadTalk(r)
    <3>1. id[r] \in Ids
      BY <2>3 DEF ReadTalk, StoreInv, Shape
    <3> QED
      BY <2>3, <3>1 DEF ReadTalk, Counts
  <2>4. CASE ExtractFails(r) \/ WriteFails(r)
    BY <2>4 DEF ExtractFails, WriteFails, Counts
  <2>5. CASE \/ MakeDirectory(r) \/ Describe(r) \/ WriteGuide(r) \/ BeginTalk(r)
             \/ ClearSelection(r) \/ Point(r) \/ ClaimDirectory(r) \/ ExtractFirst(r)
             \/ ExtractRest(r) \/ Store(r) \/ WriteTalk(r) \/ Normalise(r) \/ Load(r)
    BY <2>5
    DEF MakeDirectory, Describe, WriteGuide, BeginTalk, ClearSelection, Point, ClaimDirectory,
        ExtractFirst, ExtractRest, Store, WriteTalk, Normalise, Load, SameHistory, Counts
  <2> QED
    BY <2>1, <2>2, <2>3, <2>4, <2>5 DEF Serve
<1> QED
  BY <1>1, CountsStep

LEMMA PartsStep == StoreInv /\ TypeParts /\ [AssetsNext]_allVars => TypeParts'
<1> SUFFICES ASSUME StoreInv, TypeParts, [AssetsNext]_allVars PROVE TypeParts'
  OBVIOUS
<1>1. ASSUME NEW r \in Requests, FilesStep(r) PROVE TypeParts'
  <2>1. ASSUME NEW o \in Operations, NEW d \in Ids, Arrive(r, o, d) PROVE TypeParts'
    <3>1. FirstStep(o) \in {"make", "choose", "load"}
      BY DEF FirstStep
    <3> QED
      BY <2>1, <3>1, AdmittedKeepsParts DEF Arrive
  <2>2. ASSUME Serve(r) PROVE TypeParts'
    BY <2>2, ServedDirectories, ServedTalk, ServedRequests, ServedHistory DEF TypeParts
  <2> QED
    BY <1>1, <2>1, <2>2 DEF FilesStep
<1>2. ASSUME NEW r \in Requests, AssetStep(r) PROVE TypeParts'
  <2>1. ASSUME NEW d \in Ids, NEW x \in Records, NEW first \in {"insert", "fetch", "delete"},
               NEW set \in SUBSET Fields, ArriveAsset(r, d, x, first, set)
        PROVE  TypeParts'
    BY <2>1, AdmittedKeepsParts DEF ArriveAsset
  <2>2. ASSUME Insert(r) \/ Fetch(r) \/ Update(r) \/ Delete(r) PROVE TypeParts'
    <3>1. /\ pc' = [pc EXCEPT ![r] = pc'[r]] /\ pc'[r] \in FileSteps \cup AssetSteps
          /\ SameFiles
      BY <2>2
      DEF Insert, Fetch, Update, Delete, Step, TypeParts, RequestsTyped, FileSteps, AssetSteps
    <3>2. RequestsTyped'
      BY <3>1 DEF SameFiles, TypeParts, RequestsTyped
    <3>3. DirectoriesTyped' /\ TalkTyped' /\ CountsTyped' /\ HistoryTyped'
      BY <3>1
      DEF SameFiles, diskVars, historyVars, TypeParts, DirectoriesTyped, TalkTyped, CountsTyped,
          HistoryTyped
    <3> QED
      BY <3>2, <3>3 DEF TypeParts
  <2> QED
    BY <1>2, <2>1, <2>2 DEF AssetStep
<1>3. CASE UNCHANGED allVars
  BY <1>3
  DEF allVars, vars, diskVars, requestVars, historyVars, TypeParts, DirectoriesTyped, TalkTyped,
      RequestsTyped, CountsTyped, HistoryTyped
<1> QED
  BY <1>1, <1>2, <1>3 DEF AssetsNext

-----------------------------------------------------------------------------
RecordKnown == \A r \in Requests : pc[r] \in AssetSteps => record[r] \in Records

RowRecords == [project : Ids \cup {None}, value : [Fields -> Requests \cup {None}]]

RowsTyped ==
  /\ rows \in [Ids -> [Records -> RowRecords]]
  /\ record \in [Requests -> Records \cup {None}]
  /\ patch \in [Requests -> SUBSET Fields]
  /\ viewRow \in [Requests -> RowRecords]
  /\ archive \in [Requests -> Ids \cup {None}]
  /\ touched \subseteq Records

AssetsTypeInv == StoreInv /\ TypeParts /\ RowsTyped /\ RecordKnown

LEMMA AssetsTypeInitial == AssetsInit => AssetsTypeInv
<1> SUFFICES ASSUME AssetsInit PROVE RowsTyped /\ RecordKnown
  BY StoreInvInitial, PartsInitial DEF AssetsTypeInv
<1>1. NoRow \in RowRecords
  BY DEF NoRow, RowRecords
<1> QED
  BY <1>1 DEF AssetsInit, Init, RowsTyped, RecordKnown, NoRows, AssetSteps

\* Only the request that moves changes its place; the row of a request does not change
\* while it works on it.
LEMMA RecordStays ==
  ASSUME Shape, RecordKnown, NEW r \in Requests, pc' = [pc EXCEPT ![r] = pc'[r]],
         record' = record, pc'[r] \notin AssetSteps \/ record[r] \in Records
  PROVE  RecordKnown'
<1> DEFINE to == pc'[r]
<1>1. pc' = [pc EXCEPT ![r] = to]
  OBVIOUS
<1>2. pc = [q \in Requests |-> pc[q]]
  BY DEF Shape
<1> HIDE DEF to
<1>3. ASSUME NEW q \in Requests, q # r PROVE pc'[q] = pc[q]
  BY <1>1, <1>2, <1>3
<1> QED
  BY <1>3 DEF RecordKnown

LEMMA AssetsTypeStep == AssetsTypeInv /\ [AssetsNext]_allVars => AssetsTypeInv'
<1> SUFFICES ASSUME AssetsTypeInv, [AssetsNext]_allVars PROVE RowsTyped' /\ RecordKnown'
  BY StoreInvStep, PartsStep DEF AssetsTypeInv
<1> USE DEF AssetsTypeInv, RowsTyped, RecordKnown
<1>1. NoRow \in RowRecords
  BY DEF NoRow, RowRecords
<1>2. ASSUME NEW r \in Requests, FilesStep(r) PROVE RowsTyped' /\ RecordKnown'
  <2>1. /\ pc' = [pc EXCEPT ![r] = pc'[r]] /\ pc'[r] \notin AssetSteps
        /\ archive' \in [Requests -> Ids \cup {None}]
    <3>1. pc' = [pc EXCEPT ![r] = pc'[r]] /\ pc'[r] \notin AssetSteps
      BY <1>2, FilesStepsAreElsewhere DEF Elsewhere
    <3>2. archive' \in [Requests -> Ids \cup {None}]
      BY <1>2 DEF FilesStep
    <3> QED
      BY <3>1, <3>2
  <2>2. rows' \in [Ids -> [Records -> RowRecords]]
    <3>1. rows \in [Ids -> [Records -> RowRecords]] /\ NoRows \in [Records -> RowRecords]
      BY <1>1 DEF NoRows
    <3>2. [project |-> archive[r], value |-> [f \in Fields |-> None]] \in RowRecords
      BY DEF RowRecords
    <3>3. rows' = Carried(r)
      BY <1>2 DEF FilesStep
    <3>4. CASE pc[r] = "extract rest" /\ pc'[r] = "describe"
      <4> DEFINE new == [x \in Records |->
                           IF x \in Packed
                           THEN [project |-> archive[r], value |-> [f \in Fields |-> None]]
                           ELSE NoRow]
      <4>1. new \in [Records -> RowRecords]
        BY <1>1, <3>2
      <4>2. rows' = [rows EXCEPT ![id[r]] = new]
        BY <3>3, <3>4 DEF Carried
      <4> HIDE DEF new
      <4> QED
        BY <3>1, <4>1, <4>2
    <3>5. CASE ~(pc[r] = "extract rest" /\ pc'[r] = "describe")
      BY <3>1, <3>3, <3>5 DEF Carried
    <3> QED
      BY <3>4, <3>5
  <2>3. UNCHANGED <<record, patch, viewRow, touched>>
    BY <1>2 DEF FilesStep
  <2>4. RowsTyped'
    BY <2>1, <2>2, <2>3
  <2>5. RecordKnown'
    BY <2>1, <2>3, RecordStays DEF StoreInv
  <2> QED
    BY <2>4, <2>5
<1>3. ASSUME NEW r \in Requests, NEW d \in Ids, NEW x \in Records,
             NEW first \in {"insert", "fetch", "delete"}, NEW set \in SUBSET Fields,
             ArriveAsset(r, d, x, first, set)
      PROVE  RowsTyped' /\ RecordKnown'
  BY <1>3 DEF ArriveAsset, Admitted, Step
<1>4. ASSUME NEW r \in Requests, Insert(r) \/ Update(r) \/ Delete(r) \/ Fetch(r)
      PROVE  RowsTyped' /\ RecordKnown'
  <2>1. id[r] \in Ids /\ record[r] \in Records
    BY <1>4 DEF Insert, Update, Delete, Fetch, Step, AssetSteps, StoreInv, Shape
  <2>2. Found(id[r], record[r]) \in RowRecords
    BY <1>1, <2>1 DEF Found
  <2>3. viewRow' \in [Requests -> RowRecords]
    BY <1>4, <2>2 DEF Insert, Update, Delete, Fetch
  <2>4. Patched(viewRow[r], patch[r], r) \in RowRecords
    <3>1. viewRow[r] \in RowRecords
      OBVIOUS
    <3> QED
      BY <3>1 DEF Patched, RowRecords
  <2>5. [project |-> id[r], value |-> [f \in Fields |-> r]] \in RowRecords
    BY <2>1 DEF RowRecords
  <2>6. \/ rows' = rows
        \/ \E row \in RowRecords : rows' = [rows EXCEPT ![id[r]][record[r]] = row]
    <3>1. CASE Insert(r)
      BY <2>5, <3>1 DEF Insert
    <3>2. CASE Update(r)
      BY <2>4, <3>2 DEF Update, Updated
    <3>3. CASE Delete(r) \/ Fetch(r)
      BY <1>1, <3>3 DEF Delete, Fetch
    <3> QED
      BY <1>4, <3>1, <3>2, <3>3
  <2>7. rows' \in [Ids -> [Records -> RowRecords]]
    <3>1. CASE rows' = rows
      BY <3>1
    <3>2. ASSUME NEW row \in RowRecords, rows' = [rows EXCEPT ![id[r]][record[r]] = row]
          PROVE  rows' \in [Ids -> [Records -> RowRecords]]
      <4> DEFINE new == [rows[id[r]] EXCEPT ![record[r]] = row]
      <4>1. new \in [Records -> RowRecords]
        BY <2>1
      <4>2. rows' = [rows EXCEPT ![id[r]] = new]
        BY <3>2
      <4> HIDE DEF new
      <4> QED
        BY <2>1, <4>1, <4>2
    <3> QED
      BY <2>6, <3>1, <3>2
  <2>8. /\ pc' = [pc EXCEPT ![r] = pc'[r]]
        /\ UNCHANGED <<record, patch, archive, touched>>
    BY <1>4 DEF Insert, Update, Delete, Fetch, Step, SameRequest
  <2>9. RowsTyped'
    BY <2>3, <2>7, <2>8
  <2>10. RecordKnown'
    BY <2>1, <2>8, RecordStays DEF StoreInv
  <2> QED
    BY <2>9, <2>10
<1>5. CASE UNCHANGED allVars
  BY <1>5 DEF allVars, vars, requestVars, assetVars
<1> QED
  BY <1>2, <1>3, <1>4, <1>5 DEF AssetsNext, AssetStep

(***************************************************************************)
(* Type correctness of the project files, the rows and the requests.       *)
(***************************************************************************)
THEOREM TypeCorrect == AssetsSpec => [](TypeOK /\ AssetsTypeOK)
<1>1. AssetsTypeInv => TypeOK /\ AssetsTypeOK
  BY PartsAreTypeOK DEF AssetsTypeInv, RowsTyped, AssetsTypeOK, RowRecords
<1> QED
  BY <1>1, AssetsTypeInitial, AssetsTypeStep, PTL DEF AssetsSpec

-----------------------------------------------------------------------------
(***************************************************************************)
(* Why updates are kept: a request that is alone at a project writes back  *)
(* what it read there, and a project that is not listed has no             *)
(* conversation yet.                                                       *)
(***************************************************************************)
Talking == {"guide", "talk", "read", "append"}

Alone ==
  \A d \in Ids \ overlapped : \A q, r \in Requests :
    pc[q] # "idle" /\ pc[r] # "idle" /\ id[q] = d /\ id[r] = d => q = r

TalkersListed == \A r \in Requests : pc[r] \in Talking => json[id[r]] # NoJson

UnlistedIsSilent == \A d \in Ids : json[d] = NoJson => talk[d] = <<>>

ViewIs(r) ==
  /\ pc[r] = "append" => viewTalk[r] = talk[id[r]]
  /\ pc[r] = "normalise" => viewJson[r] = json[id[r]]
  /\ pc[r] \in {"guide", "talk"} => talk[id[r]] = <<>>

ViewsKept ==
  \A r \in Requests : pc[r] # "idle" /\ id[r] \notin overlapped \cup outdated => ViewIs(r)

TalkInv ==
  StoreInv /\ TypeParts /\ Alone /\ TalkersListed /\ UnlistedIsSilent /\ ViewsKept

LEMMA TalkInvInitial == AssetsInit => TalkInv
<1> SUFFICES ASSUME AssetsInit PROVE TalkInv
  OBVIOUS
<1>1. StoreInv /\ TypeParts
  BY StoreInvInitial, PartsInitial
<1>2. Alone /\ TalkersListed /\ UnlistedIsSilent /\ ViewsKept
  BY DEF AssetsInit, Init, Alone, TalkersListed, UnlistedIsSilent, ViewsKept, Talking
<1> QED
  BY <1>1, <1>2 DEF TalkInv

\* What a step leaves of project d.
Kept(d) ==
  /\ json[d] # NoJson => /\ Len(talk[d]) <= Len(talk'[d])
                         /\ SubSeq(talk'[d], 1, Len(talk[d])) = talk[d]
  /\ json[d].loop = "on" => json'[d].loop = "on"

LEMMA AppendKeeps ==
  ASSUME NEW s \in Seq(Requests), NEW x \in Requests
  PROVE  /\ Len(s) <= Len(Append(s, x)) /\ SubSeq(Append(s, x), 1, Len(s)) = s
         /\ SubSeq(s, 1, Len(s)) = s /\ Len(s) <= Len(s)
OBVIOUS

LEMMA UntouchedIsKept ==
  ASSUME TypeParts, NEW d \in Ids, talk'[d] = talk[d], json'[d] = json[d]
  PROVE  Kept(d)
<1>1. talk[d] \in Seq(Requests)
  BY DEF TypeParts, TalkTyped
<1>2. Len(talk[d]) <= Len(talk[d]) /\ SubSeq(talk[d], 1, Len(talk[d])) = talk[d]
  BY <1>1
<1> QED
  BY <1>2 DEF Kept

\* A step of one request: it changes the project it is at, and what it says there.
Turn(r) ==
  /\ \A q \in Requests \ {r} : /\ pc'[q] = pc[q] /\ id'[q] = id[q]
                              /\ viewTalk'[q] = viewTalk[q] /\ viewJson'[q] = viewJson[q]
  /\ overlapped \subseteq overlapped' /\ outdated \subseteq outdated'
  /\ pc'[r] # "idle" =>
       \/ pc[r] # "idle" /\ id'[r] = id[r]
       \/ \A q \in Requests \ {r} : pc[q] # "idle" /\ id[q] = id'[r] => id'[r] \in overlapped'
  /\ \A d \in Ids : pc[r] = "idle" \/ d # id[r] => talk'[d] = talk[d] /\ json'[d] = json[d]
  /\ pc[r] # "idle" /\ json'[id[r]] = NoJson => talk'[id[r]] = <<>>
  /\ pc'[r] \in Talking => json'[id'[r]] # NoJson
  /\ pc'[r] # "idle" /\ id'[r] \notin overlapped' \cup outdated' => ViewIs(r)'
  /\ pc[r] # "idle" /\ id[r] \notin overlapped \cup outdated' => Kept(id[r])

LEMMA TurnKeeps ==
  ASSUME TalkInv, NEW r \in Requests, Turn(r), Listed \subseteq Listed'
  PROVE  /\ Alone' /\ TalkersListed' /\ UnlistedIsSilent' /\ ViewsKept'
         /\ \A d \in Ids \ (overlapped' \cup outdated') : Kept(d)
<1> USE DEF TalkInv
<1>1. \A q \in Requests : pc[q] # "idle" => id[q] \in Ids
  BY DEF StoreInv, Shape
<1>2. Alone'
  <2> SUFFICES ASSUME NEW d \in Ids \ overlapped', NEW p \in Requests, NEW q \in Requests,
                      pc'[p] # "idle", pc'[q] # "idle", id'[p] = d, id'[q] = d
               PROVE  p = q
    BY DEF Alone
  <2>1. d \in Ids \ overlapped
    BY DEF Turn
  <2>2. ASSUME p # r, q # r PROVE p = q
    BY <2>1, <2>2 DEF Turn, Alone
  <2>3. ASSUME NEW o \in Requests \ {r}, pc'[o] # "idle", id'[o] = d, pc'[r] # "idle", id'[r] = d
        PROVE  FALSE
    <3>1. pc[o] # "idle" /\ id[o] = d
      BY <2>3 DEF Turn
    <3>2. pc[r] # "idle" /\ id[r] = d
      BY <2>3, <3>1 DEF Turn
    <3> QED
      BY <2>1, <2>3, <3>1, <3>2 DEF Alone
  <2> QED
    BY <2>2, <2>3
<1>3. TalkersListed'
  <2> SUFFICES ASSUME NEW q \in Requests, pc'[q] \in Talking PROVE json'[id'[q]] # NoJson
    BY DEF TalkersListed
  <2>1. CASE q = r
    BY <2>1 DEF Turn
  <2>2. CASE q # r
    <3>1. id'[q] = id[q] /\ id[q] \in Listed
      BY <2>2, <1>1 DEF Turn, TalkersListed, Talking, Listed
    <3> QED
      BY <3>1 DEF Listed
  <2> QED
    BY <2>1, <2>2
<1>4. UnlistedIsSilent'
  BY <1>1 DEF UnlistedIsSilent, Turn
<1>5. ViewsKept'
  <2> SUFFICES ASSUME NEW q \in Requests, pc'[q] # "idle", id'[q] \notin overlapped' \cup outdated'
               PROVE  ViewIs(q)'
    BY DEF ViewsKept
  <2>1. CASE q = r
    BY <2>1 DEF Turn
  <2>2. CASE q # r
    <3>1. /\ pc'[q] = pc[q] /\ id'[q] = id[q]
          /\ viewTalk'[q] = viewTalk[q] /\ viewJson'[q] = viewJson[q]
          /\ id[q] \in Ids /\ id[q] \notin overlapped \cup outdated
      BY <2>2, <1>1 DEF Turn
    <3>2. pc[r] = "idle" \/ id[q] # id[r]
      BY <2>2, <3>1, <1>1 DEF Alone
    <3>3. talk'[id[q]] = talk[id[q]] /\ json'[id[q]] = json[id[q]]
      BY <3>1, <3>2 DEF Turn
    <3>4. ViewIs(q)
      BY <3>1 DEF ViewsKept
    <3> QED
      BY <3>1, <3>3, <3>4 DEF ViewIs
  <2> QED
    BY <2>1, <2>2
<1>6. ASSUME NEW d \in Ids \ (overlapped' \cup outdated') PROVE Kept(d)
  <2>1. CASE pc[r] = "idle" \/ d # id[r]
    BY <2>1, UntouchedIsKept DEF Turn
  <2>2. CASE pc[r] # "idle" /\ d = id[r]
    BY <2>2 DEF Turn
  <2> QED
    BY <2>1, <2>2
<1> QED
  BY <1>2, <1>3, <1>4, <1>5, <1>6

\* A step that leaves conversations and descriptions of projects alone.
Idling(r) ==
  /\ UNCHANGED <<talk, json, viewTalk, viewJson, overlapped, outdated>>
  /\ pc' = [pc EXCEPT ![r] = pc'[r]]
  /\ id' = id
  /\ pc[r] # "idle"
  /\ pc'[r] \in Talking => pc'[r] = "talk" /\ pc[r] = "guide"
  /\ pc'[r] # "normalise"

LEMMA IdlingTurn ==
  ASSUME TalkInv, NEW r \in Requests, Idling(r)
  PROVE  Turn(r)
<1> USE DEF TalkInv, Idling
<1>1. \A q \in Requests \ {r} : pc'[q] = pc[q]
  BY DEF StoreInv, Shape
<1>2. id[r] \in Ids
  BY DEF StoreInv, Shape
<1>3. Kept(id[r])
  BY <1>2, UntouchedIsKept
<1>4. pc'[r] \in Talking => json[id[r]] # NoJson
  BY DEF TalkersListed, Talking
<1>5. pc'[r] # "idle" /\ id[r] \notin overlapped \cup outdated => ViewIs(r)'
  <2>1. ASSUME pc'[r] = "talk", id[r] \notin overlapped \cup outdated PROVE talk[id[r]] = <<>>
    BY <2>1 DEF ViewsKept, ViewIs, Talking
  <2>2. pc'[r] \notin {"append", "normalise", "guide"}
    BY DEF Talking
  <2> QED
    BY <2>1, <2>2 DEF ViewIs
<1>6. json[id[r]] = NoJson => talk[id[r]] = <<>>
  BY <1>2 DEF UnlistedIsSilent
<1> QED
  BY <1>1, <1>2, <1>3, <1>4, <1>5, <1>6 DEF Turn

LEMMA IdlingSteps ==
  ASSUME TalkInv, NEW r \in Requests,
         \/ MakeDirectory(r) \/ WriteGuide(r) \/ ClearSelection(r) \/ Point(r)
         \/ ClaimDirectory(r) \/ ExtractFirst(r) \/ ExtractRest(r) \/ WriteFails(r)
         \/ Insert(r) \/ Fetch(r) \/ Update(r) \/ Delete(r)
  PROVE  Turn(r)
<1> USE DEF TalkInv, Idling, Talking
<1>1. pc = [q \in Requests |-> pc[q]]
  BY DEF StoreInv, Shape
<1>2. CASE MakeDirectory(r) \/ WriteGuide(r) \/ ClearSelection(r) \/ Point(r)
  BY <1>1, <1>2, IdlingTurn
  DEF MakeDirectory, WriteGuide, ClearSelection, Point, Step, SameView, SameHistory
<1>3. CASE ClaimDirectory(r) \/ ExtractFirst(r) \/ ExtractRest(r)
  BY <1>1, <1>3, IdlingTurn
  DEF ClaimDirectory, ExtractFirst, ExtractedJson, ExtractRest, Step, SameView, SameHistory
<1>4. CASE WriteFails(r)
  BY <1>1, <1>4, IdlingTurn DEF WriteFails, diskVars
<1>5. CASE Insert(r) \/ Fetch(r) \/ Update(r) \/ Delete(r)
  BY <1>1, <1>5, IdlingTurn
  DEF Insert, Fetch, Update, Delete, Step, SameFiles, diskVars, historyVars
<1> QED
  BY <1>2, <1>3, <1>4, <1>5

\* A request that comes in.
LEMMA AdmittedTurn ==
  ASSUME TalkInv, NEW r \in Requests, NEW o, NEW d \in Ids, NEW first,
         first \in {"make", "choose", "load", "insert", "fetch", "delete"},
         Admitted(r, o, d, first)
  PROVE  Turn(r)
<1> USE DEF TalkInv
<1>1. pc = [q \in Requests |-> pc[q]] /\ id = [q \in Requests |-> id[q]]
  BY DEF StoreInv, Shape
<1>2. /\ pc[r] = "idle" /\ pc' = [pc EXCEPT ![r] = first] /\ id' = [id EXCEPT ![r] = d]
      /\ UNCHANGED <<talk, json, viewTalk, viewJson, outdated>>
      /\ overlapped' = IF Busy(d) = {} THEN overlapped ELSE overlapped \cup {d}
  BY DEF Admitted, Step, diskVars
<1>3. pc'[r] = first /\ id'[r] = d /\ \A q \in Requests \ {r} : pc'[q] = pc[q] /\ id'[q] = id[q]
  BY <1>1, <1>2
<1>4. \A q \in Requests : pc[q] # "idle" /\ id[q] = d => d \in overlapped'
  BY <1>2 DEF Busy
<1>5. overlapped \subseteq overlapped'
  BY <1>2
<1>6. pc'[r] \notin Talking /\ ViewIs(r)'
  BY <1>3 DEF Talking, ViewIs
<1> QED
  BY <1>2, <1>3, <1>4, <1>5, <1>6 DEF Turn

\* The steps that write project.json.
Writes(r, loop, to) ==
  /\ pc' = [pc EXCEPT ![r] = to]
  /\ json' = [json EXCEPT ![id[r]] = [hasId |-> TRUE, loop |-> loop]]
  /\ UNCHANGED <<talk, id, viewTalk, viewJson, overlapped, outdated>>

LEMMA WritesTurn ==
  ASSUME TalkInv, NEW r \in Requests, NEW loop, NEW to, Writes(r, loop, to), pc[r] # "idle",
         to \in Talking => to = "read" \/ (to = "guide" /\ talk[id[r]] = <<>>),
         to # "normalise",
         json[id[r]].loop = "on" /\ id[r] \notin overlapped \cup outdated => loop = "on"
  PROVE  Turn(r)
<1> USE DEF TalkInv, Writes
<1>1. pc = [q \in Requests |-> pc[q]] /\ json = [d \in Ids |-> json[d]] /\ id[r] \in Ids
  BY DEF StoreInv, Shape
<1>2. /\ pc'[r] = to /\ \A q \in Requests \ {r} : pc'[q] = pc[q]
      /\ json'[id[r]] = [hasId |-> TRUE, loop |-> loop]
      /\ \A d \in Ids : d # id[r] => json'[d] = json[d]
  BY <1>1
<1>3. json'[id[r]] # NoJson
  BY <1>2 DEF NoJson
<1>4. talk[id[r]] \in Seq(Requests)
  BY <1>1 DEF TypeParts, TalkTyped
<1>5. SubSeq(talk[id[r]], 1, Len(talk[id[r]])) = talk[id[r]]
      /\ Len(talk[id[r]]) <= Len(talk[id[r]])
  BY <1>4
<1>6. id[r] \notin overlapped \cup outdated => Kept(id[r])
  BY <1>2, <1>5 DEF Kept
<1>7. ViewIs(r)'
  BY <1>2 DEF ViewIs, Talking
<1> QED
  BY <1>1, <1>2, <1>3, <1>6, <1>7 DEF Turn

LEMMA WritingSteps ==
  ASSUME TalkInv, NEW r \in Requests, Describe(r) \/ Normalise(r) \/ Store(r)
  PROVE  Turn(r)
<1> USE DEF TalkInv
<1>1. id[r] \in Ids
  BY DEF StoreInv, Shape, Describe, Normalise, Store, Step
<1>2. CASE Describe(r)
  <2>1. Writes(r, "off", IF op[r] = "create" THEN "guide" ELSE "idle") /\ pc[r] = "describe"
    BY <1>2 DEF Describe, Step, SameView, SameHistory, Writes
  <2>2. json[id[r]] = NoJson
    BY <2>1 DEF StoreInv, OwnerKnown, Owning
  <2>3. talk[id[r]] = <<>> /\ json[id[r]].loop # "on"
    BY <1>1, <2>2 DEF UnlistedIsSilent, NoJson
  <2> QED
    BY <2>1, <2>3, WritesTurn DEF Talking
<1>3. CASE Normalise(r)
  <2>1. Writes(r, viewJson[r].loop, AfterLoad(op[r])) /\ pc[r] = "normalise"
    BY <1>3 DEF Normalise, Step, SameView, SameHistory, Writes
  <2>2. AfterLoad(op[r]) \in {"read", "store", "point", "idle"}
    BY DEF AfterLoad
  <2>3. id[r] \notin overlapped \cup outdated => viewJson[r] = json[id[r]]
    BY <2>1 DEF ViewsKept, ViewIs
  <2> QED
    BY <2>1, <2>2, <2>3, WritesTurn DEF Talking
<1>4. CASE Store(r)
  <2>1. Writes(r, "on", "idle") /\ pc[r] = "store"
    BY <1>4 DEF Store, Step, SameView, SameHistory, Writes
  <2> QED
    BY <2>1, WritesTurn DEF Talking
<1> QED
  BY <1>2, <1>3, <1>4

\* The steps that write conversation.json.
LEMMA TalkSteps ==
  ASSUME TalkInv, NEW r \in Requests, BeginTalk(r) \/ WriteTalk(r)
  PROVE  Turn(r)
<1> USE DEF TalkInv
<1> DEFINE new == IF BeginTalk(r) THEN <<>> ELSE Append(viewTalk[r], r)
<1>1. pc = [q \in Requests |-> pc[q]] /\ id[r] \in Ids /\ talk = [d \in Ids |-> talk[d]]
  BY DEF StoreInv, Shape, BeginTalk, WriteTalk, Step, TypeParts, TalkTyped
<1>2. /\ pc[r] \in {"talk", "append"} /\ (BeginTalk(r) <=> pc[r] = "talk")
      /\ pc' = [pc EXCEPT ![r] = pc'[r]] /\ pc'[r] \in {"current", "idle"}
      /\ UNCHANGED <<json, id, viewTalk, viewJson, overlapped, outdated>>
  BY <1>1 DEF BeginTalk, WriteTalk, Step, SameView, SameHistory
<1>3. talk' = [talk EXCEPT ![id[r]] = new]
  BY <1>2 DEF BeginTalk, WriteTalk, Merged
<1>4. talk'[id[r]] = new /\ \A d \in Ids : d # id[r] => talk'[d] = talk[d]
  BY <1>1, <1>3
<1>5. \A q \in Requests \ {r} : pc'[q] = pc[q]
  BY <1>1, <1>2
<1>6. json[id[r]] # NoJson
  BY <1>2 DEF TalkersListed, Talking
<1>7. ASSUME id[r] \notin overlapped \cup outdated PROVE Kept(id[r])
  <2>1. talk[id[r]] \in Seq(Requests) /\ viewTalk[r] \in Seq(Requests)
    BY <1>1 DEF TypeParts, TalkTyped
  <2>2. BeginTalk(r) => talk[id[r]] = <<>>
    BY <1>2, <1>7 DEF ViewsKept, ViewIs
  <2>3. ~BeginTalk(r) => viewTalk[r] = talk[id[r]]
    BY <1>2, <1>7 DEF ViewsKept, ViewIs
  <2>4. CASE BeginTalk(r)
    <3>1. talk'[id[r]] = talk[id[r]]
      BY <1>4, <2>2, <2>4
    <3> QED
      BY <1>1, <1>2, <3>1, UntouchedIsKept
  <2>5. CASE ~BeginTalk(r)
    <3>1. talk'[id[r]] = Append(talk[id[r]], r)
      BY <1>4, <2>3, <2>5
    <3> HIDE DEF new
    <3>2. /\ Len(talk[id[r]]) <= Len(talk'[id[r]])
          /\ SubSeq(talk'[id[r]], 1, Len(talk[id[r]])) = talk[id[r]]
      BY <2>1, <3>1, AppendKeeps
    <3> QED
      BY <1>2, <3>2 DEF Kept
  <2> QED
    BY <2>4, <2>5
<1>8. pc'[r] \notin Talking /\ ViewIs(r)'
  BY <1>2 DEF Talking, ViewIs
<1> HIDE DEF new
<1> QED
  BY <1>2, <1>4, <1>5, <1>6, <1>7, <1>8 DEF Turn

\* A failed import goes from a directory that was not listed.
LEMMA ExtractFailsTurn ==
  ASSUME TalkInv, NEW r \in Requests, ExtractFails(r)
  PROVE  Turn(r)
<1> USE DEF TalkInv
<1>1. pc = [q \in Requests |-> pc[q]] /\ id[r] \in Ids /\ talk = [d \in Ids |-> talk[d]]
      /\ json = [d \in Ids |-> json[d]]
  BY DEF StoreInv, Shape, ExtractFails, TypeParts, TalkTyped
<1>2. /\ pc[r] \in {"extract", "extract rest"} /\ pc' = [pc EXCEPT ![r] = "idle"]
      /\ UNCHANGED <<id, viewTalk, viewJson, overlapped, outdated>>
  BY DEF ExtractFails
<1>3. json[id[r]] = NoJson /\ talk[id[r]] = <<>>
  BY <1>1, <1>2 DEF StoreInv, OwnerKnown, Owning, UnlistedIsSilent
<1>4. /\ json' = json \/ json' = [json EXCEPT ![id[r]] = NoJson]
      /\ talk' = talk \/ talk' = [talk EXCEPT ![id[r]] = <<>>]
  BY DEF ExtractFails
<1>5. json' = json
  BY <1>1, <1>3, <1>4
<1>6. talk' = talk
  BY <1>1, <1>3, <1>4
<1>7. pc'[r] = "idle"
  BY <1>1, <1>2
<1> QED
  BY <1>1, <1>2, <1>5, <1>6, <1>7, IdlingTurn DEF Idling, Talking

\* A request that goes on at another project: others that are there are noted.
LEMMA MovingSteps ==
  ASSUME TalkInv, NEW r \in Requests, ReadSelection(r) \/ ChooseId(r)
  PROVE  Turn(r)
<1> USE DEF TalkInv
<1>1. /\ pc = [q \in Requests |-> pc[q]] /\ id = [q \in Requests |-> id[q]]
      /\ viewJson = [q \in Requests |-> viewJson[q]] /\ id[r] \in Ids
  BY DEF StoreInv, Shape, ReadSelection, ChooseId, TypeParts, RequestsTyped
<1>2. /\ pc[r] \in {"current", "choose"} /\ pc' = [pc EXCEPT ![r] = pc'[r]]
      /\ pc'[r] \in {"point", "clear", "idle", "normalise", "claim"}
      /\ UNCHANGED <<talk, json, viewTalk, outdated>>
  BY <1>1 DEF ReadSelection, ChooseId, diskVars
<1>3. id' = [id EXCEPT ![r] = id'[r]] /\ viewJson' = [viewJson EXCEPT ![r] = viewJson'[r]]
  BY <1>1 DEF ReadSelection, ChooseId
<1>4. /\ overlapped \subseteq overlapped'
      /\ \/ id' = id
         \/ \A q \in Requests \ {r} : pc[q] # "idle" /\ id[q] = id'[r] => id'[r] \in overlapped'
  <2>1. CASE ReadSelection(r)
    <3>1. CASE UNCHANGED <<id, overlapped>>
      BY <3>1
    <3>2. CASE ~UNCHANGED <<id, overlapped>>
      <4>1. /\ id'[r] = selection
            /\ overlapped' = IF Busy(selection) = {} THEN overlapped ELSE overlapped \cup {selection}
        BY <1>1, <2>1, <3>2 DEF ReadSelection
      <4> QED
        BY <4>1 DEF Busy
    <3> QED
      BY <3>1, <3>2
  <2>2. CASE ChooseId(r)
    <3>1. CASE UNCHANGED <<id, overlapped>>
      BY <3>1
    <3>2. CASE ~UNCHANGED <<id, overlapped>>
      <4>1. PICK d : /\ id' = [id EXCEPT ![r] = d]
                     /\ overlapped' = IF Busy(d) \subseteq {r} THEN overlapped ELSE overlapped \cup {d}
        BY <2>2, <3>2 DEF ChooseId
      <4>2. id'[r] = d
        BY <1>1, <4>1
      <4> QED
        BY <4>1, <4>2 DEF Busy
    <3> QED
      BY <3>1, <3>2
  <2> QED
    BY <2>1, <2>2
<1>5. pc'[r] = "normalise" => viewJson'[r] = json[id'[r]]
  BY <1>1 DEF ReadSelection, ChooseId
<1>6. \A q \in Requests \ {r} : /\ pc'[q] = pc[q] /\ id'[q] = id[q] /\ viewJson'[q] = viewJson[q]
  BY <1>1, <1>2, <1>3
<1>7. json[id[r]] = NoJson => talk[id[r]] = <<>>
  BY <1>1 DEF UnlistedIsSilent
<1>8. Kept(id[r])
  BY <1>1, <1>2, UntouchedIsKept
<1>9. pc'[r] \notin Talking /\ ViewIs(r)'
  BY <1>2, <1>5 DEF Talking, ViewIs
<1> QED
  BY <1>2, <1>4, <1>6, <1>7, <1>8, <1>9 DEF Turn

LEMMA LoadTurn ==
  ASSUME TalkInv, NEW r \in Requests, Load(r)
  PROVE  Turn(r)
<1> USE DEF TalkInv
<1>1. /\ pc = [q \in Requests |-> pc[q]] /\ viewJson = [q \in Requests |-> viewJson[q]]
      /\ id[r] \in Ids
  BY DEF StoreInv, Shape, Load, Step, TypeParts, RequestsTyped
<1>2. /\ pc[r] = "load" /\ pc' = [pc EXCEPT ![r] = pc'[r]]
      /\ pc'[r] \in {"normalise", AfterLoad(op[r])}
      /\ UNCHANGED <<talk, json, id, viewTalk, overlapped, outdated>>
      /\ viewJson' = [viewJson EXCEPT ![r] = json[id[r]]]
  BY <1>1 DEF Load, Step, SameHistory, diskVars
<1>3. AfterLoad(op[r]) \in {"read", "store", "point", "idle"}
  BY DEF AfterLoad
<1>4. json[id[r]] # NoJson
  BY <1>2 DEF StoreInv, OpenedIsListed, Opened
<1>5. /\ viewJson'[r] = json[id[r]]
      /\ \A q \in Requests \ {r} : pc'[q] = pc[q] /\ viewJson'[q] = viewJson[q]
  BY <1>1, <1>2
<1>6. Kept(id[r])
  BY <1>1, <1>2, UntouchedIsKept
<1>7. ViewIs(r)'
  BY <1>2, <1>3, <1>5 DEF ViewIs
<1> QED
  BY <1>2, <1>4, <1>5, <1>6, <1>7 DEF Turn

\* The conversation is read, or an old copy of it, which is noted.
LEMMA ReadTalkTurn ==
  ASSUME TalkInv, NEW r \in Requests, ReadTalk(r)
  PROVE  Turn(r)
<1> USE DEF TalkInv
<1>1. /\ pc = [q \in Requests |-> pc[q]] /\ viewTalk = [q \in Requests |-> viewTalk[q]]
      /\ id[r] \in Ids
  BY DEF StoreInv, Shape, ReadTalk, TypeParts, TalkTyped
<1>2. /\ pc[r] = "read" /\ pc' = [pc EXCEPT ![r] = pc'[r]] /\ pc'[r] \in {"idle", "append"}
      /\ UNCHANGED <<talk, json, id, viewJson, overlapped>>
      /\ viewTalk' = [viewTalk EXCEPT ![r] = viewTalk'[r]]
  BY <1>1 DEF ReadTalk, Step, diskVars
<1>3. outdated \subseteq outdated'
  BY DEF ReadTalk
<1>4. pc'[r] = "append" /\ id[r] \notin outdated' => viewTalk'[r] = talk[id[r]]
  BY <1>1 DEF ReadTalk, Step
<1>5. \A q \in Requests \ {r} : pc'[q] = pc[q] /\ viewTalk'[q] = viewTalk[q]
  BY <1>1, <1>2
<1>6. json[id[r]] # NoJson
  BY <1>2 DEF TalkersListed, Talking
<1>7. Kept(id[r])
  BY <1>1, <1>2, UntouchedIsKept
<1>8. id'[r] \notin overlapped' \cup outdated' => ViewIs(r)'
  BY <1>2, <1>4 DEF ViewIs
<1> QED
  BY <1>2, <1>3, <1>5, <1>6, <1>7, <1>8 DEF Turn

LEMMA StepsAreTurns ==
  ASSUME TalkInv, NEW r \in Requests, FilesStep(r) \/ AssetStep(r)
  PROVE  Turn(r)
<1>1. ASSUME Serve(r) PROVE Turn(r)
  BY <1>1, IdlingSteps, WritingSteps, TalkSteps, ExtractFailsTurn, MovingSteps, LoadTurn, ReadTalkTurn
  DEF Serve
<1>2. ASSUME NEW o \in Operations, NEW d \in Ids, Arrive(r, o, d) PROVE Turn(r)
  <2>1. FirstStep(o) \in {"make", "choose", "load"}
    BY DEF FirstStep
  <2> QED
    BY <1>2, <2>1, AdmittedTurn DEF Arrive
<1>3. ASSUME NEW d \in Ids, NEW x \in Records, NEW first \in {"insert", "fetch", "delete"},
             NEW set \in SUBSET Fields, ArriveAsset(r, d, x, first, set)
      PROVE  Turn(r)
  BY <1>3, AdmittedTurn DEF ArriveAsset
<1> QED
  BY <1>1, <1>2, <1>3, IdlingSteps DEF FilesStep, AssetStep

LEMMA TalkInvStep ==
  TalkInv /\ [AssetsNext]_allVars =>
    TalkInv' /\ [\A d \in Ids \ (overlapped' \cup outdated') : Kept(d)]_vars
<1> SUFFICES ASSUME TalkInv, [AssetsNext]_allVars
             PROVE  TalkInv' /\ [\A d \in Ids \ (overlapped' \cup outdated') : Kept(d)]_vars
  OBVIOUS
<1>1. StoreInv' /\ TypeParts' /\ Listed \subseteq Listed'
  BY StoreInvStep, PartsStep DEF TalkInv
<1>2. ASSUME NEW r \in Requests, FilesStep(r) \/ AssetStep(r)
      PROVE  TalkInv' /\ [\A d \in Ids \ (overlapped' \cup outdated') : Kept(d)]_vars
  <2>1. /\ Alone' /\ TalkersListed' /\ UnlistedIsSilent' /\ ViewsKept'
        /\ \A d \in Ids \ (overlapped' \cup outdated') : Kept(d)
    BY <1>1, <1>2, StepsAreTurns, TurnKeeps
  <2> QED
    BY <1>1, <2>1 DEF TalkInv
<1>3. CASE UNCHANGED allVars
  <2>1. UNCHANGED vars
    BY <1>3 DEF allVars
  <2>2. Alone' /\ TalkersListed' /\ UnlistedIsSilent' /\ ViewsKept'
    BY <2>1
    DEF vars, diskVars, requestVars, historyVars, TalkInv, Alone, TalkersListed, UnlistedIsSilent,
        ViewsKept, ViewIs
  <2> QED
    BY <1>1, <2>1, <2>2 DEF TalkInv
<1> QED
  BY <1>2, <1>3 DEF AssetsNext

(***************************************************************************)
(* The conversation only grows and a setting is only changed by its        *)
(* request, for every project that no two requests worked on at once and   *)
(* of which no old snapshot was served: what a request wrote is not lost   *)
(* to one that read before it.                                             *)
(***************************************************************************)
THEOREM WritesAreKept == AssetsSpec => UpdatesAreKept
<1>1. TalkInv /\ [AssetsNext]_allVars => TalkInv'
  BY TalkInvStep
<1>2. TalkInv /\ [AssetsNext]_allVars =>
        [\A d \in Ids \ (overlapped' \cup outdated') :
           /\ json[d] # NoJson => /\ Len(talk[d]) <= Len(talk'[d])
                                  /\ SubSeq(talk'[d], 1, Len(talk[d])) = talk[d]
           /\ json[d].loop = "on" => json'[d].loop = "on"]_vars
  BY TalkInvStep DEF Kept
<1> QED
  BY <1>1, <1>2, TalkInvInitial, PTL DEF AssetsSpec, UpdatesAreKept
=============================================================================
