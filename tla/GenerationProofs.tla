-------------------------- MODULE GenerationProofs --------------------------
(***************************************************************************)
(* Proofs about GenerationJobs, for any number of requests, jobs and       *)
(* restarts: what COMPLETED promises is on disk however requests overlap,  *)
(* and requests that do not overlap lose nothing.                          *)
(***************************************************************************)
EXTENDS GenerationJobs, TLAPS

-----------------------------------------------------------------------------
\* Types: the job a request runs is one of the project.
TargetKnown == \A r \in Requests : pc[r] \in {"adapter", "complete"} => target[r] \in JobIds

KindKnown == \A r \in Requests : pc[r] # "idle" => kind[r] \in Kinds

TypeInv == TypeOK /\ TargetKnown /\ KindKnown

LEMMA RestartsAreBounded == MaxRestarts \in Nat
BY GenerationAssumption

LEMMA JobsHaveType ==
  /\ Absent \in JobRecords
  /\ \A status \in Statuses, reason \in Reasons : Job(status, reason) \in JobRecords
BY DEF Absent, Job, JobRecords, Statuses, Reasons

LEMMA ListsHaveType ==
  ASSUME NEW list \in [JobIds -> JobRecords], NEW j, NEW job \in JobRecords
  PROVE  WithJob(list, j, job) \in [JobIds -> JobRecords]
BY DEF WithJob

LEMMA RefreshedHasType ==
  ASSUME TypeOK, NEW job \in JobRecords
  PROVE  Refreshed(job) \in JobRecords
BY DEF TypeOK, Refreshed, WorkerReason, Job, JobRecords, Statuses, Reasons

LEMMA TypeInitial == Init => TypeInv
<1> SUFFICES ASSUME Init PROVE TypeInv
  OBVIOUS
<1>1. jobs \in [JobIds -> JobRecords]
  BY JobsHaveType DEF Init, Statuses, Reasons
<1>2. view \in [Requests -> [JobIds -> JobRecords]]
  BY JobsHaveType DEF Init
<1>3. assets \subseteq Entries /\ files \subseteq Entries /\ plans \subseteq PlanRecords
  BY DEF Init, Entries
<1>4. restarts \in 0..MaxRestarts
  BY RestartsAreBounded DEF Init
<1>5. {overlapped, broken} \subseteq BOOLEAN /\ training \in BOOLEAN
  BY DEF Init
<1> QED
  BY <1>1, <1>2, <1>3, <1>4, <1>5 DEF Init, TypeInv, TypeOK, TargetKnown, KindKnown

LEMMA TypeStep == TypeInv /\ [Next]_vars => TypeInv'
<1> SUFFICES ASSUME TypeInv, [Next]_vars PROVE TypeInv'
  OBVIOUS
<1> USE DEF TypeInv, TypeOK, TargetKnown, KindKnown, Step, fileVars, envVars, historyVars
<1>1. ASSUME NEW r \in Requests, Arrive(r) PROVE TypeInv'
  BY <1>1 DEF Arrive, Kinds
<1>2. ASSUME NEW r \in Requests, ReadJobs(r) \/ WriteRefreshed(r) PROVE TypeInv'
  <2>1. CASE ReadJobs(r)
    BY <2>1 DEF ReadJobs
  <2>2. CASE WriteRefreshed(r)
    BY <2>2 DEF WriteRefreshed, Writing
  <2> QED
    BY <1>2, <2>1, <2>2
<1>3. ASSUME NEW r \in Requests, Refresh(r) PROVE TypeInv'
  <2>1. [j \in JobIds |-> Refreshed(view[r][j])] \in [JobIds -> JobRecords]
    BY RefreshedHasType
  <2> QED
    BY <1>3, <2>1 DEF Refresh, Writing
<1>4. ASSUME NEW r \in Requests, ReadAssets(r) PROVE TypeInv'
  BY <1>4 DEF ReadAssets, AssetsOf
<1>5. ASSUME NEW r \in Requests, ReadPlans(r) PROVE TypeInv'
  <2>1. plans \cup (assets \cap {Legacy}) \in SUBSET PlanRecords
    BY DEF PlanRecords
  <2>2. kind[r] \in Kinds
    BY <1>5 DEF ReadPlans
  <2>3. AfterReading(kind[r]) \in {"list", "plan", "guard", "refresh", "refine", "import"}
    BY ONLY <2>2 DEF AfterReading, Kinds
  <2>4. PICK to \in {"done", "list", "plan", "guard", "refresh", "refine", "import"} :
          pc' = [pc EXCEPT ![r] = to]
    BY <1>5, <2>3 DEF ReadPlans
  <2>5. pc' \in [Requests -> {"idle", "read", "refresh", "assets", "plans", "guard", "adapter",
                              "done"} \cup Writing]
    BY <2>4 DEF Writing
  <2>6. /\ \A q \in Requests : pc'[q] \in {"adapter", "complete"} => pc'[q] = pc[q]
        /\ \A q \in Requests : pc'[q] # "idle" => pc[q] # "idle"
    BY <1>5, <2>4 DEF ReadPlans
  <2> HIDE DEF Step
  <2> QED
    BY <1>5, <2>1, <2>5, <2>6 DEF ReadPlans
<1>6. ASSUME NEW r \in Requests, AppendPlanned(r) PROVE TypeInv'
  <2>1. PICK reason \in Reasons :
          view' = [view EXCEPT ![r] =
             WithJob(view[r], r, Job(IF reason = "none" THEN "ready" ELSE "blocked", reason))]
    BY <1>6 DEF AppendPlanned, WorkerReason, Reasons
  <2>2. Job(IF reason = "none" THEN "ready" ELSE "blocked", reason) \in JobRecords
    BY JobsHaveType DEF Statuses
  <2>3. view' \in [Requests -> [JobIds -> JobRecords]]
    BY <2>1, <2>2, ListsHaveType
  <2> QED
    BY <1>6, <2>3 DEF AppendPlanned, Writing
<1>7. ASSUME NEW r \in Requests, RewriteAssets(r) \/ AppendPlan(r) PROVE TypeInv'
  BY <1>7 DEF RewriteAssets, AppendPlan, PlanRecords, Writing
<1>8. ASSUME NEW r \in Requests, AppendRefine(r) PROVE TypeInv'
  <2>1. PICK reason \in Reasons :
          jobs' = WithJob(view[r], r, Job(IF reason = "none" THEN "ready" ELSE "blocked", reason))
    BY <1>8 DEF AppendRefine, WorkerReason, Reasons
  <2>2. Job(IF reason = "none" THEN "ready" ELSE "blocked", reason) \in JobRecords
    BY JobsHaveType DEF Statuses
  <2> QED
    BY <1>8, <2>1, <2>2, ListsHaveType DEF AppendRefine
<1>9. ASSUME NEW r \in Requests, EditParent(r) PROVE TypeInv'
  BY <1>9 DEF EditParent, Entries, Writing
<1>10. ASSUME NEW r \in Requests, AppendEdit(r) PROVE TypeInv'
  <2>1. jobs' \in [JobIds -> JobRecords]
    BY <1>10, JobsHaveType, ListsHaveType DEF AppendEdit, Statuses, Reasons
  <2> QED
    BY <1>10, <2>1 DEF AppendEdit
<1>11. ASSUME NEW r \in Requests, StoreImport(r) PROVE TypeInv'
  BY <1>11 DEF StoreImport, Stored, Entries, Writing
<1>12. ASSUME NEW r \in Requests, Guard(r) PROVE TypeInv'
  BY <1>12 DEF Guard, Runnable, Writing
<1>13. ASSUME NEW r \in Requests, StartExecution(r) PROVE TypeInv'
  <2>1. PICK j \in todo[r] :
          /\ target' = [target EXCEPT ![r] = j]
          /\ todo' = [todo EXCEPT ![r] = @ \ {j}]
          /\ view' = [view EXCEPT ![r] = WithJob(@, j, Job("running", "none"))]
    BY <1>13 DEF StartExecution
  <2>2. WithJob(view[r], j, Job("running", "none")) \in [JobIds -> JobRecords]
    BY JobsHaveType, ListsHaveType DEF Statuses, Reasons
  <2>3. view' \in [Requests -> [JobIds -> JobRecords]]
    BY <2>1, <2>2
  <2>4. jobs' \in [JobIds -> JobRecords]
    BY <1>13, <2>3 DEF StartExecution
  <2> QED
    BY <1>13, <2>1, <2>3, <2>4 DEF StartExecution
<1>14. ASSUME NEW r \in Requests, ReportProgress(r) PROVE TypeInv'
  BY <1>14 DEF ReportProgress
<1>15. ASSUME NEW r \in Requests, AdapterRaises(r) \/ WriteCompleted(r) PROVE TypeInv'
  <2>1. view' \in [Requests -> [JobIds -> JobRecords]]
    BY <1>15, JobsHaveType, ListsHaveType DEF AdapterRaises, WriteCompleted, FailedJob, Statuses, Reasons
  <2>2. pc' \in [Requests -> {"done", "next", "index"} \cup {pc[q] : q \in Requests}]
    BY <1>15 DEF AdapterRaises, WriteCompleted, AfterJob
  <2> QED
    BY <1>15, <2>1, <2>2 DEF AdapterRaises, WriteCompleted, AfterJob, Writing
<1>16. ASSUME NEW r \in Requests, AdapterReturns(r) PROVE TypeInv'
  <2>1. <<r, target[r]>> \in Entries
    BY <1>16 DEF AdapterReturns, Entries
  <2> QED
    BY <1>16, <2>1 DEF AdapterReturns, Stored, EntriesAdded, Writing
<1>17. ASSUME NEW r \in Requests, WriteIndex(r) PROVE TypeInv'
  BY <1>17 DEF WriteIndex, AfterJob, Writing
<1>18. ASSUME NEW r \in Requests, WriteRaises(r) PROVE TypeInv'
  BY <1>18 DEF WriteRaises, Writing
<1>19. CASE WorkerChanges \/ TrainingChanges
  BY <1>19 DEF WorkerChanges, TrainingChanges, localVars
<1>20. CASE Restart
  <2>1. restarts' \in 0..MaxRestarts
    BY <1>20, RestartsAreBounded DEF Restart
  <2>2. broken' \in BOOLEAN
    BY <1>20 DEF Restart
  <2> QED
    BY <1>20, <2>1, <2>2 DEF Restart
<1>21. CASE UNCHANGED vars
  BY <1>21 DEF vars, localVars
<1> QED
  BY <1>1, <1>2, <1>3, <1>4, <1>5, <1>6, <1>7, <1>8, <1>9, <1>10, <1>11, <1>12, <1>13, <1>14,
     <1>15, <1>16, <1>17, <1>18, <1>19, <1>20, <1>21 DEF Next, Serve

(***************************************************************************)
(* The records, the entries and the steps of a request have their types.   *)
(***************************************************************************)
THEOREM TypeCorrect == Spec => []TypeOK
<1>1. TypeInv => TypeOK
  BY DEF TypeInv
<1> QED
  BY <1>1, TypeInitial, TypeStep, PTL DEF Spec
-----------------------------------------------------------------------------
\* What COMPLETED promises is on disk, in every list that was ever read.
CompletedIn(list, disk, kinds) ==
  \A j \in JobIds : list[j].status = "completed" =>
    \E r \in Requests : <<r, j>> \in disk \/ (r = j /\ kinds[r] = "refine")

OnDisk(entries, disk) ==
  \A entry \in entries : entry # Legacy /\ entry \notin disk => entry[2] = "edit"

Produced ==
  /\ CompletedIn(jobs, files, kind)
  /\ \A r \in Requests : CompletedIn(view[r], files, kind)
  /\ OnDisk(assets, files)
  /\ \A r \in Requests : OnDisk(index[r], files)
  /\ \A r \in Requests : pc[r] = "complete" => <<r, target[r]>> \in files
  /\ \A r \in Requests : pc[r] \in {"refine", "editJob"} => kind[r] = "refine"
  /\ \A r \in Requests : pc[r] = "idle" => kind[r] = None

LEMMA CompletedLasts ==
  ASSUME NEW list, NEW disk, NEW disk2, NEW kinds, NEW kinds2,
         CompletedIn(list, disk, kinds), disk \subseteq disk2,
         \A r \in Requests : kinds[r] = "refine" => kinds2[r] = "refine"
  PROVE  CompletedIn(list, disk2, kinds2)
BY DEF CompletedIn

LEMMA OnDiskLasts ==
  ASSUME NEW entries, NEW disk, NEW disk2, OnDisk(entries, disk), disk \subseteq disk2
  PROVE  OnDisk(entries, disk2)
BY DEF OnDisk

LEMMA OtherStatusAdds ==
  ASSUME NEW list \in [JobIds -> JobRecords], NEW j \in JobIds, NEW job \in JobRecords,
         NEW disk, NEW kinds, CompletedIn(list, disk, kinds), job.status # "completed"
  PROVE  CompletedIn(WithJob(list, j, job), disk, kinds)
BY DEF CompletedIn, WithJob

LEMMA CompletedAdds ==
  ASSUME NEW list \in [JobIds -> JobRecords], NEW j \in JobIds, NEW job \in JobRecords,
         NEW disk, NEW kinds, CompletedIn(list, disk, kinds),
         \E r \in Requests : <<r, j>> \in disk \/ (r = j /\ kinds[r] = "refine")
  PROVE  CompletedIn(WithJob(list, j, job), disk, kinds)
BY DEF CompletedIn, WithJob

LEMMA RefreshKeepsStatus ==
  ASSUME TypeOK, NEW job \in JobRecords
  PROVE  /\ Refreshed(job).status = "completed" => job.status = "completed"
         /\ job.status \in Settled \cup {"absent"} => Refreshed(job) = job
         /\ job.status \notin Settled \cup {"absent"} => Refreshed(job).status \notin Settled \cup {"absent"}
BY DEF TypeOK, Refreshed, WorkerReason, Job, JobRecords, Statuses, Reasons, Settled

LEMMA ProducedInitial == Init => Produced
<1> SUFFICES ASSUME Init PROVE Produced
  OBVIOUS
<1>1. \A j \in JobIds : jobs[j].status # "completed"
  BY DEF Init, Job, Absent
<1>2. \A r \in Requests, j \in JobIds : view[r][j].status # "completed"
  BY DEF Init, Job, Absent
<1> QED
  BY <1>1, <1>2 DEF Init, Produced, CompletedIn, OnDisk

\* A step that keeps the lists of jobs and of assets as they are.
LEMMA ProducedFrame ==
  ASSUME Produced, files \subseteq files',
         \A r \in Requests : kind[r] = "refine" => kind'[r] = "refine"
  PROVE  /\ CompletedIn(jobs, files', kind')
         /\ \A r \in Requests : CompletedIn(view[r], files', kind')
         /\ OnDisk(assets, files')
         /\ \A r \in Requests : OnDisk(index[r], files')
<1>1. CompletedIn(jobs, files', kind') /\ OnDisk(assets, files')
  BY CompletedLasts, OnDiskLasts DEF Produced
<1>2. ASSUME NEW r \in Requests
      PROVE  CompletedIn(view[r], files', kind') /\ OnDisk(index[r], files')
  BY CompletedLasts, OnDiskLasts DEF Produced
<1> QED
  BY <1>1, <1>2

LEMMA ProducedStep == TypeInv /\ Produced /\ [Next]_vars => Produced'
<1> SUFFICES ASSUME TypeInv, Produced, [Next]_vars PROVE Produced'
  OBVIOUS
<1> USE DEF TypeInv, TypeOK, TargetKnown, KindKnown, Step, fileVars, envVars, historyVars
<1>1. ASSUME NEW r \in Requests, Arrive(r) PROVE Produced'
  <2>1. \A q \in Requests : kind[q] = "refine" => kind'[q] = "refine"
    BY <1>1, GenerationAssumption DEF Arrive, Produced, Kinds
  <2>2. files' = files /\ jobs' = jobs /\ view' = view /\ assets' = assets /\ index' = index
    BY <1>1 DEF Arrive
  <2>3. /\ CompletedIn(jobs, files, kind') /\ OnDisk(assets, files)
        /\ \A q \in Requests : CompletedIn(view[q], files, kind') /\ OnDisk(index[q], files)
    BY <2>1, <2>2, ProducedFrame
  <2>4. \A q \in Requests : /\ q # r => pc'[q] = pc[q] /\ kind'[q] = kind[q] /\ target'[q] = target[q]
                           /\ pc'[r] = "read"
    BY <1>1 DEF Arrive
  <2> HIDE DEF Step
  <2> QED
    BY <2>2, <2>3, <2>4 DEF Produced
<1>2. ASSUME NEW r \in Requests, ReadJobs(r) PROVE Produced'
  BY <1>2 DEF ReadJobs, Produced
<1>3. ASSUME NEW r \in Requests, WriteRefreshed(r) PROVE Produced'
  BY <1>3 DEF WriteRefreshed, Produced
<1>4. ASSUME NEW r \in Requests, Refresh(r) PROVE Produced'
  <2>1. \A j \in JobIds : Refreshed(view[r][j]).status = "completed" => view[r][j].status = "completed"
    <3>1. ASSUME NEW j \in JobIds PROVE view[r][j] \in JobRecords
      OBVIOUS
    <3> QED
      BY <3>1, RefreshKeepsStatus
  <2>2. CompletedIn([j \in JobIds |-> Refreshed(view[r][j])], files, kind)
    BY ONLY <2>1, Produced, r \in Requests DEF Produced, CompletedIn
  <2> QED
    BY <1>4, <2>2 DEF Refresh, Produced
<1>5. ASSUME NEW r \in Requests, ReadAssets(r) PROVE Produced'
  <2>1. OnDisk(AssetsOf, files)
    BY DEF Produced, OnDisk, AssetsOf
  <2> QED
    BY <1>5, <2>1 DEF ReadAssets, Produced
<1>6. ASSUME NEW r \in Requests, ReadPlans(r) PROVE Produced'
  <2>1. kind[r] \in Kinds
    BY <1>6 DEF ReadPlans
  <2>2. AfterReading(kind[r]) \in {"refine", "editJob"} => kind[r] = "refine"
    BY ONLY <2>1 DEF AfterReading, Kinds
  <2>3. AfterReading(kind[r]) \notin {"complete", "idle"}
    BY ONLY <2>1 DEF AfterReading, Kinds
  <2> QED
    BY <1>6, <2>2, <2>3 DEF ReadPlans, Produced
<1>7. ASSUME NEW r \in Requests, AppendPlanned(r) PROVE Produced'
  <2>1. PICK reason \in Reasons :
          view' = [view EXCEPT ![r] =
             WithJob(view[r], r, Job(IF reason = "none" THEN "ready" ELSE "blocked", reason))]
    BY <1>7 DEF AppendPlanned, WorkerReason, Reasons
  <2> DEFINE job == Job(IF reason = "none" THEN "ready" ELSE "blocked", reason)
  <2>2. job \in JobRecords /\ job.status # "completed"
    BY JobsHaveType DEF Job, Statuses
  <2>3. r \in JobIds
    BY DEF JobIds
  <2>4. CompletedIn(WithJob(view[r], r, job), files, kind)
    BY <2>2, <2>3, OtherStatusAdds DEF Produced
  <2>5. jobs' = WithJob(view[r], r, job)
    BY <1>7, <2>1 DEF AppendPlanned
  <2> HIDE DEF job
  <2>6. \A q \in Requests : view'[q] = IF q = r THEN WithJob(view[r], r, job) ELSE view[q]
    BY <2>1 DEF job
  <2> QED
    BY <1>7, <2>4, <2>5, <2>6 DEF AppendPlanned, Produced
<1>8. ASSUME NEW r \in Requests, RewriteAssets(r) \/ AppendPlan(r) \/ WriteIndex(r) PROVE Produced'
  <2>1. CASE RewriteAssets(r)
    BY <2>1 DEF RewriteAssets, Produced
  <2>2. CASE AppendPlan(r)
    BY <2>2 DEF AppendPlan, Produced
  <2>3. CASE WriteIndex(r)
    BY <2>3 DEF WriteIndex, AfterJob, Produced
  <2> QED
    BY <1>8, <2>1, <2>2, <2>3
<1>9. ASSUME NEW r \in Requests, AppendRefine(r) PROVE Produced'
  <2>1. PICK reason \in Reasons :
          jobs' = WithJob(view[r], r, Job(IF reason = "none" THEN "ready" ELSE "blocked", reason))
    BY <1>9 DEF AppendRefine, WorkerReason, Reasons
  <2>2. /\ Job(IF reason = "none" THEN "ready" ELSE "blocked", reason) \in JobRecords
        /\ Job(IF reason = "none" THEN "ready" ELSE "blocked", reason).status # "completed"
    BY JobsHaveType DEF Job, Statuses
  <2>3. r \in JobIds
    BY DEF JobIds
  <2>4. CompletedIn(jobs', files, kind)
    BY <2>1, <2>2, <2>3, OtherStatusAdds DEF Produced
  <2> QED
    BY <1>9, <2>4 DEF AppendRefine, Produced
<1>10. ASSUME NEW r \in Requests, EditParent(r) PROVE Produced'
  <2>1. OnDisk(index[r] \cup {<<r, "edit">>}, files)
    BY DEF Produced, OnDisk
  <2> QED
    BY <1>10, <2>1 DEF EditParent, Produced
<1>11. ASSUME NEW r \in Requests, AppendEdit(r) PROVE Produced'
  <2>1. kind[r] = "refine" /\ r \in JobIds
    BY <1>11 DEF AppendEdit, Produced, JobIds
  <2>2. Job("completed", "none") \in JobRecords
    BY JobsHaveType DEF Statuses, Reasons
  <2>3. CompletedIn(WithJob(view[r], r, Job("completed", "none")), files, kind)
    BY <2>1, <2>2, CompletedAdds DEF Produced
  <2> QED
    BY <1>11, <2>3 DEF AppendEdit, Produced
<1>12. ASSUME NEW r \in Requests, StoreImport(r) PROVE Produced'
  <2>1. files' = files \cup {<<r, "import">>} /\ kind' = kind
    BY <1>12 DEF StoreImport, Stored
  <2>2. OnDisk(index[r] \cup {<<r, "import">>}, files')
    BY <2>1 DEF Produced, OnDisk
  <2>3. /\ CompletedIn(jobs, files', kind') /\ OnDisk(assets, files')
        /\ \A q \in Requests : CompletedIn(view[q], files', kind') /\ OnDisk(index[q], files')
    BY <2>1, ProducedFrame
  <2>4. \A q \in Requests : index'[q] = IF q = r THEN index[r] \cup {<<r, "import">>} ELSE index[q]
    BY <1>12 DEF StoreImport
  <2>5. /\ jobs' = jobs /\ view' = view /\ assets' = assets /\ target' = target
        /\ \A q \in Requests : pc'[q] = IF q = r THEN "index" ELSE pc[q]
    BY <1>12 DEF StoreImport
  <2> HIDE DEF Step
  <2> QED
    BY <2>1, <2>2, <2>3, <2>4, <2>5 DEF Produced
<1>13. ASSUME NEW r \in Requests, Guard(r) PROVE Produced'
  BY <1>13 DEF Guard, Produced
<1>14. ASSUME NEW r \in Requests, StartExecution(r) PROVE Produced'
  <2>1. PICK j \in todo[r] :
          /\ target' = [target EXCEPT ![r] = j]
          /\ view' = [view EXCEPT ![r] = WithJob(@, j, Job("running", "none"))]
    BY <1>14 DEF StartExecution
  <2>2. Job("running", "none") \in JobRecords /\ Job("running", "none").status # "completed"
    BY JobsHaveType DEF Job, Statuses, Reasons
  <2>3. CompletedIn(WithJob(view[r], j, Job("running", "none")), files, kind)
    BY <2>2, OtherStatusAdds DEF Produced
  <2>4. jobs' = WithJob(view[r], j, Job("running", "none"))
    BY <1>14, <2>1 DEF StartExecution
  <2>5. \A q \in Requests : view'[q] = IF q = r THEN WithJob(view[r], j, Job("running", "none"))
                                              ELSE view[q]
    BY <2>1
  <2>6. \A q \in Requests : pc'[q] = (IF q = r THEN "adapter" ELSE pc[q])
                           /\ target'[q] = (IF q = r THEN j ELSE target[q])
    BY <1>14, <2>1 DEF StartExecution
  <2> QED
    BY <1>14, <2>3, <2>4, <2>5, <2>6 DEF StartExecution, Produced
<1>15. ASSUME NEW r \in Requests, ReportProgress(r) PROVE Produced'
  BY <1>15 DEF ReportProgress, Produced
<1>16. ASSUME NEW r \in Requests, AdapterRaises(r) PROVE Produced'
  <2>1. target[r] \in JobIds
    BY <1>16 DEF AdapterRaises
  <2>2. FailedJob \in JobRecords /\ FailedJob.status # "completed"
    BY JobsHaveType DEF FailedJob, Job, Statuses, Reasons
  <2>3. CompletedIn(WithJob(view[r], target[r], FailedJob), files, kind)
    BY <2>1, <2>2, OtherStatusAdds DEF Produced
  <2>4. /\ jobs' = WithJob(view[r], target[r], FailedJob)
        /\ \A q \in Requests : view'[q] = IF q = r THEN WithJob(view[r], target[r], FailedJob)
                                            ELSE view[q]
    BY <1>16 DEF AdapterRaises
  <2> QED
    BY <1>16, <2>3, <2>4 DEF AdapterRaises, AfterJob, Produced
<1>17. ASSUME NEW r \in Requests, AdapterReturns(r) PROVE Produced'
  <2>1. files' = files \cup {<<r, target[r]>>} /\ kind' = kind
    BY <1>17 DEF AdapterReturns, Stored
  <2>2. OnDisk(index[r] \cup {<<r, target[r]>>}, files')
    BY <2>1 DEF Produced, OnDisk
  <2>3. /\ CompletedIn(jobs, files', kind') /\ OnDisk(assets, files')
        /\ \A q \in Requests : CompletedIn(view[q], files', kind') /\ OnDisk(index[q], files')
    BY <2>1, ProducedFrame
  <2>4. \A q \in Requests : index'[q] = IF q = r THEN index[r] \cup {<<r, target[r]>>} ELSE index[q]
    BY <1>17 DEF AdapterReturns, EntriesAdded
  <2>5. /\ jobs' = jobs /\ view' = view /\ assets' = assets /\ target' = target
        /\ \A q \in Requests : pc'[q] = IF q = r THEN "complete" ELSE pc[q]
    BY <1>17 DEF AdapterReturns
  <2> HIDE DEF Step
  <2> QED
    BY <2>1, <2>2, <2>3, <2>4, <2>5 DEF Produced
<1>18. ASSUME NEW r \in Requests, WriteCompleted(r) PROVE Produced'
  <2>1. target[r] \in JobIds /\ <<r, target[r]>> \in files
    BY <1>18 DEF WriteCompleted, Produced
  <2>2. Job("completed", "none") \in JobRecords
    BY JobsHaveType DEF Statuses, Reasons
  <2>3. CompletedIn(WithJob(view[r], target[r], Job("completed", "none")), files, kind)
    BY <2>1, <2>2, CompletedAdds DEF Produced
  <2>4. /\ jobs' = WithJob(view[r], target[r], Job("completed", "none"))
        /\ \A q \in Requests : view'[q] =
             IF q = r THEN WithJob(view[r], target[r], Job("completed", "none")) ELSE view[q]
    BY <1>18 DEF WriteCompleted
  <2> QED
    BY <1>18, <2>3, <2>4 DEF WriteCompleted, Produced
<1>19. ASSUME NEW r \in Requests, WriteRaises(r) PROVE Produced'
  BY <1>19 DEF WriteRaises, Produced, Writing
<1>20. CASE WorkerChanges \/ TrainingChanges
  BY <1>20 DEF WorkerChanges, TrainingChanges, localVars, Produced
<1>21. CASE Restart
  BY <1>21 DEF Restart, Produced
<1>22. CASE UNCHANGED vars
  BY <1>22 DEF vars, localVars, Produced
<1> QED
  BY <1>1, <1>2, <1>3, <1>4, <1>5, <1>6, <1>7, <1>8, <1>9, <1>10, <1>11, <1>12, <1>13, <1>14,
     <1>15, <1>16, <1>17, <1>18, <1>19, <1>20, <1>21, <1>22 DEF Next, Serve

(***************************************************************************)
(* COMPLETED is never written before the artifact is on disk, and no entry *)
(* of the asset index names a file that is not there, with any number of   *)
(* overlapping requests, failing writes and restarts (service.py:853-865). *)
(***************************************************************************)
THEOREM CompletedIsProduced == Spec => []CompletedMeansProduced
<1>1. Produced => CompletedMeansProduced
  BY DEF Produced, CompletedMeansProduced, CompletedIn, OnDisk
<1> QED
  BY <1>1, TypeInitial, TypeStep, ProducedInitial, ProducedStep, PTL DEF Spec
-----------------------------------------------------------------------------
\* What a request knows of the jobs it runs, however requests overlap: what it
\* has still to run can run, the job at the adapter is RUNNING in its list, and
\* what the adapter returned is among its assets.
Executing == {"next", "adapter", "complete", "index"}

KnowsIts(r, at, list, rest, job, entries) ==
  /\ at \in Executing => \A j \in rest : list[j].status \in {"ready", "planned"}
  /\ at \notin Executing \cup {"done"} => rest = {}
  /\ at \in {"adapter", "complete"} => list[job].status = "running"
  /\ at = "complete" => <<r, job>> \in entries

LocalInv ==
  \A r \in Requests : KnowsIts(r, pc[r], view[r], todo[r], target[r], index[r])

\* The job a request will create is in nobody's list yet.
Before == {"idle", "read", "refresh", "assets", "plans", "plan", "refine", "editJob"}

OwnJob ==
  \A r \in Requests : pc[r] \in Before =>
    jobs[r] = Absent /\ \A s \in Requests : view[s][r] = Absent

LEMMA LocalInitial == Init => LocalInv /\ OwnJob
<1> SUFFICES ASSUME Init PROVE LocalInv /\ OwnJob
  OBVIOUS
<1>1. LocalInv
  BY DEF Init, LocalInv, KnowsIts, Executing
<1>2. ASSUME NEW r \in Requests PROVE jobs[r] = Absent /\ \A s \in Requests : view[s][r] = Absent
  BY GenerationAssumption DEF Init, JobIds
<1> QED
  BY <1>1, <1>2 DEF OwnJob

LEMMA StatusOfJob ==
  /\ Absent.status = "absent"
  /\ \A status, reason : Job(status, reason).status = status
BY DEF Absent, Job

LEMMA OnlyOneMoves ==
  ASSUME LocalInv, NEW r \in Requests,
         \A q \in Requests : q # r => /\ pc'[q] = pc[q] /\ view'[q] = view[q] /\ todo'[q] = todo[q]
                                      /\ target'[q] = target[q] /\ index'[q] = index[q],
         KnowsIts(r, pc'[r], view'[r], todo'[r], target'[r], index'[r])
  PROVE  LocalInv'
BY DEF LocalInv

LEMMA LocalStep == TypeInv /\ LocalInv /\ [Next]_vars => LocalInv'
<1> SUFFICES ASSUME TypeInv, LocalInv, [Next]_vars PROVE LocalInv'
  OBVIOUS
<1> USE DEF TypeInv, TypeOK, TargetKnown, KindKnown, Step, fileVars, envVars, historyVars
<1>0. \A r \in Requests : KnowsIts(r, pc[r], view[r], todo[r], target[r], index[r])
  BY DEF LocalInv
<1>1. ASSUME NEW r \in Requests, Arrive(r) PROVE LocalInv'
  BY <1>0, <1>1, OnlyOneMoves DEF Arrive, KnowsIts, Executing
<1>2. ASSUME NEW r \in Requests, ReadJobs(r) PROVE LocalInv'
  BY <1>0, <1>2, OnlyOneMoves DEF ReadJobs, KnowsIts, Executing
<1>3. ASSUME NEW r \in Requests, WriteRefreshed(r) PROVE LocalInv'
  BY <1>0, <1>3, OnlyOneMoves DEF WriteRefreshed, KnowsIts, Executing
<1>4. ASSUME NEW r \in Requests, Refresh(r) PROVE LocalInv'
  BY <1>0, <1>4, OnlyOneMoves DEF Refresh, KnowsIts, Executing
<1>5. ASSUME NEW r \in Requests, ReadAssets(r) PROVE LocalInv'
  BY <1>0, <1>5, OnlyOneMoves DEF ReadAssets, KnowsIts, Executing
<1>6. ASSUME NEW r \in Requests, RewriteAssets(r) PROVE LocalInv'
  BY <1>0, <1>6, OnlyOneMoves DEF RewriteAssets, KnowsIts, Executing
<1>7. ASSUME NEW r \in Requests, AppendPlan(r) PROVE LocalInv'
  BY <1>0, <1>7, OnlyOneMoves DEF AppendPlan, KnowsIts, Executing
<1>8. ASSUME NEW r \in Requests, AppendPlanned(r) PROVE LocalInv'
  BY <1>0, <1>8, OnlyOneMoves DEF AppendPlanned, KnowsIts, Executing
<1>9. ASSUME NEW r \in Requests, AppendRefine(r) PROVE LocalInv'
  BY <1>0, <1>9, OnlyOneMoves DEF AppendRefine, KnowsIts, Executing
<1>10. ASSUME NEW r \in Requests, EditParent(r) PROVE LocalInv'
  BY <1>0, <1>10, OnlyOneMoves DEF EditParent, KnowsIts, Executing
<1>11. ASSUME NEW r \in Requests, AppendEdit(r) PROVE LocalInv'
  BY <1>0, <1>11, OnlyOneMoves DEF AppendEdit, KnowsIts, Executing
<1>12. ASSUME NEW r \in Requests, StoreImport(r) PROVE LocalInv'
  <2>1. KnowsIts(r, "index", view[r], todo[r], target[r], index[r] \cup {<<r, "import">>})
    BY <1>0, <1>12 DEF StoreImport, KnowsIts, Executing
  <2>2. /\ pc'[r] = "index" /\ index'[r] = index[r] \cup {<<r, "import">>}
        /\ view' = view /\ todo' = todo /\ target' = target
        /\ \A q \in Requests : q # r => pc'[q] = pc[q] /\ index'[q] = index[q]
    BY <1>12 DEF StoreImport
  <2>3. KnowsIts(r, pc'[r], view'[r], todo'[r], target'[r], index'[r])
    BY <2>1, <2>2 DEF KnowsIts
  <2> QED
    BY <2>2, <2>3, OnlyOneMoves
<1>13. ASSUME NEW r \in Requests, Guard(r) PROVE LocalInv'
  <2>1. /\ pc'[r] \in {"done", "next"} /\ todo'[r] \subseteq Runnable(r)
        /\ \A q \in Requests : q # r => pc'[q] = pc[q] /\ todo'[q] = todo[q]
        /\ view' = view /\ target' = target /\ index' = index
    BY <1>13 DEF Guard
  <2>2. KnowsIts(r, pc'[r], view'[r], todo'[r], target'[r], index'[r])
    BY <2>1 DEF KnowsIts, Executing, Runnable
  <2> QED
    BY <2>1, <2>2, OnlyOneMoves
<1>14. ASSUME NEW r \in Requests, ReportProgress(r) PROVE LocalInv'
  BY <1>0, <1>14, OnlyOneMoves DEF ReportProgress, KnowsIts, Executing
<1>15. ASSUME NEW r \in Requests, AdapterReturns(r) PROVE LocalInv'
  BY <1>0, <1>15, OnlyOneMoves DEF AdapterReturns, EntriesAdded, KnowsIts, Executing
<1>16. ASSUME NEW r \in Requests, WriteIndex(r) PROVE LocalInv'
  BY <1>0, <1>16, OnlyOneMoves DEF WriteIndex, AfterJob, KnowsIts, Executing
<1>17. ASSUME NEW r \in Requests, WriteRaises(r) PROVE LocalInv'
  BY <1>0, <1>17, OnlyOneMoves DEF WriteRaises, KnowsIts, Executing
<1>18. ASSUME NEW r \in Requests, ReadPlans(r) PROVE LocalInv'
  <2>1. kind[r] \in Kinds
    BY <1>18 DEF ReadPlans
  <2>2. AfterReading(kind[r]) \notin Executing
    BY ONLY <2>1 DEF AfterReading, Kinds, Executing
  <2> QED
    BY <1>0, <1>18, <2>2, OnlyOneMoves DEF ReadPlans, KnowsIts, Executing
<1>19. ASSUME NEW r \in Requests, StartExecution(r) PROVE LocalInv'
  <2>1. PICK j \in todo[r] :
          /\ target' = [target EXCEPT ![r] = j]
          /\ todo' = [todo EXCEPT ![r] = @ \ {j}]
          /\ view' = [view EXCEPT ![r] = WithJob(@, j, Job("running", "none"))]
    BY <1>19 DEF StartExecution
  <2>2. /\ \A k \in JobIds : k # j => WithJob(view[r], j, Job("running", "none"))[k] = view[r][k]
        /\ WithJob(view[r], j, Job("running", "none"))[j].status = "running"
    BY StatusOfJob DEF WithJob
  <2>3. KnowsIts(r, "adapter", WithJob(view[r], j, Job("running", "none")), todo[r] \ {j}, j, index[r])
    BY <1>0, <1>19, <2>2 DEF StartExecution, KnowsIts, Executing
  <2> QED
    BY <1>19, <2>1, <2>3, OnlyOneMoves DEF StartExecution
<1>20. ASSUME NEW r \in Requests, AdapterRaises(r) \/ WriteCompleted(r) PROVE LocalInv'
  <2>1. PICK job : view' = [view EXCEPT ![r] = WithJob(@, target[r], job)]
    BY <1>20 DEF AdapterRaises, WriteCompleted
  <2>2. target[r] \notin todo[r]
    BY <1>0, <1>20 DEF AdapterRaises, WriteCompleted, KnowsIts, Executing
  <2>3. \A k \in JobIds : k # target[r] => WithJob(view[r], target[r], job)[k] = view[r][k]
    BY DEF WithJob
  <2>4. \A to \in {"done", "next", "index"} :
          KnowsIts(r, to, WithJob(view[r], target[r], job), todo[r], target[r], index[r])
    BY <1>0, <1>20, <2>2, <2>3 DEF AdapterRaises, WriteCompleted, KnowsIts, Executing
  <2> QED
    BY <1>20, <2>1, <2>4, OnlyOneMoves DEF AdapterRaises, WriteCompleted, AfterJob
<1>21. CASE WorkerChanges \/ TrainingChanges
  BY <1>21 DEF WorkerChanges, TrainingChanges, localVars, LocalInv
<1>22. CASE Restart
  BY <1>0, <1>22 DEF Restart, LocalInv, KnowsIts, Executing
<1>23. CASE UNCHANGED vars
  BY <1>23 DEF vars, localVars, LocalInv
<1> QED
  BY <1>1, <1>2, <1>3, <1>4, <1>5, <1>6, <1>7, <1>8, <1>9, <1>10, <1>11, <1>12,
     <1>13, <1>14, <1>15, <1>16, <1>17, <1>18, <1>19, <1>20, <1>21, <1>22, <1>23 DEF Next, Serve

\* A request's list of jobs, changed nowhere before the request's own job.
LEMMA OwnStep == TypeInv /\ LocalInv /\ OwnJob /\ [Next]_vars => OwnJob'
<1> SUFFICES ASSUME TypeInv, LocalInv, OwnJob, [Next]_vars,
                    NEW q \in Requests, (pc[q] \in Before)'
             PROVE  (jobs[q] = Absent /\ \A s \in Requests : view[s][q] = Absent)'
  BY DEF OwnJob
<1> USE DEF TypeInv, TypeOK, TargetKnown, KindKnown, Step, fileVars, envVars, historyVars
<1>0. /\ \A r \in Requests : r \in JobIds
      /\ pc[q] \in Before => jobs[q] = Absent /\ \A s \in Requests : view[s][q] = Absent
      /\ \A r \in Requests : KnowsIts(r, pc[r], view[r], todo[r], target[r], index[r])
  BY DEF OwnJob, JobIds, LocalInv
<1> DEFINE Goal == jobs'[q] = Absent /\ \A s \in Requests : view'[s][q] = Absent
<1>1. ASSUME NEW r \in Requests, Arrive(r) PROVE Goal
  BY <1>0, <1>1 DEF Arrive, Before
<1>2. ASSUME NEW r \in Requests, ReadJobs(r) PROVE Goal
  BY <1>0, <1>2 DEF ReadJobs, Before
<1>3. ASSUME NEW r \in Requests, WriteRefreshed(r) PROVE Goal
  BY <1>0, <1>3 DEF WriteRefreshed, Before
<1>4. ASSUME NEW r \in Requests, Refresh(r) PROVE Goal
  <2>1. pc[q] \in Before
    BY <1>4 DEF Refresh, Before
  <2>2. Refreshed(view[r][q]) = Absent
    BY <1>0, <2>1, StatusOfJob DEF Refreshed
  <2>3. /\ jobs' = jobs
        /\ view' = [view EXCEPT ![r] = [j \in JobIds |-> Refreshed(view[r][j])]]
    BY <1>4 DEF Refresh
  <2> QED
    BY <1>0, <2>1, <2>2, <2>3
<1>5. ASSUME NEW r \in Requests, ReadAssets(r) \/ ReadPlans(r) PROVE Goal
  <2>1. CASE ReadAssets(r)
    BY <1>0, <2>1 DEF ReadAssets, Before
  <2>2. CASE ReadPlans(r)
    BY <1>0, <2>2 DEF ReadPlans, Before
  <2> QED
    BY <1>5, <2>1, <2>2
<1>6. ASSUME NEW r \in Requests, AppendPlanned(r) \/ AppendRefine(r) \/ AppendEdit(r) PROVE Goal
  <2>1. q # r /\ pc[q] \in Before
    BY <1>6 DEF AppendPlanned, AppendRefine, AppendEdit, Before
  <2>2. PICK job : /\ jobs' = WithJob(view[r], r, job)
                   /\ view' = view \/ view' = [view EXCEPT ![r] = WithJob(view[r], r, job)]
    BY <1>6 DEF AppendPlanned, AppendRefine, AppendEdit
  <2>3. WithJob(view[r], r, job)[q] = view[r][q]
    BY <1>0, <2>1 DEF WithJob
  <2> QED
    BY <1>0, <2>1, <2>2, <2>3
<1>7. ASSUME NEW r \in Requests, \/ RewriteAssets(r) \/ AppendPlan(r) \/ EditParent(r) \/ StoreImport(r)
                                 \/ Guard(r) \/ AdapterReturns(r) \/ WriteIndex(r) \/ WriteRaises(r)
      PROVE Goal
  <2>1. jobs' = jobs /\ view' = view
    BY <1>7 DEF RewriteAssets, AppendPlan, EditParent, StoreImport, Guard, AdapterReturns,
                WriteIndex, WriteRaises
  <2>2. pc[q] \in Before
    BY <1>7 DEF RewriteAssets, AppendPlan, EditParent, StoreImport, Guard, AdapterReturns,
                WriteIndex, WriteRaises, AfterJob, Before
  <2> QED
    BY <1>0, <2>1, <2>2
<1>8. ASSUME NEW r \in Requests, ReportProgress(r) PROVE Goal
  BY <1>0, <1>8 DEF ReportProgress, Before
<1>9. ASSUME NEW r \in Requests, StartExecution(r) \/ AdapterRaises(r) \/ WriteCompleted(r) PROVE Goal
  <2>1. pc[q] \in Before
    BY <1>9 DEF StartExecution, AdapterRaises, WriteCompleted, AfterJob, Before
  <2>2. \A j \in JobIds, job \in JobRecords :
          view[r][j].status \in {"ready", "planned", "running"} => WithJob(view[r], j, job)[q] = Absent
    <3> SUFFICES ASSUME NEW j \in JobIds, NEW job \in JobRecords,
                        view[r][j].status \in {"ready", "planned", "running"}
                 PROVE  WithJob(view[r], j, job)[q] = Absent
      OBVIOUS
    <3>1. q # j
      BY <1>0, <2>1, StatusOfJob
    <3> QED
      BY <1>0, <2>1, <3>1 DEF WithJob
  <2>3. view'[r][q] = Absent /\ \A s \in Requests : s # r => view'[s] = view[s]
    <3>1. CASE StartExecution(r)
      <4>1. PICK j \in todo[r] : view' = [view EXCEPT ![r] = WithJob(@, j, Job("running", "none"))]
        BY <3>1 DEF StartExecution
      <4>2. j \in JobIds /\ view[r][j].status \in {"ready", "planned"}
        BY <1>0, <3>1 DEF StartExecution, KnowsIts, Executing
      <4>3. Job("running", "none") \in JobRecords
        BY JobsHaveType DEF Statuses, Reasons
      <4>4. WithJob(view[r], j, Job("running", "none"))[q] = Absent
        BY <2>2, <4>2, <4>3
      <4> QED
        BY <4>1, <4>4
    <3>2. CASE AdapterRaises(r)
      <4>1. target[r] \in JobIds /\ view[r][target[r]].status = "running"
        BY <1>0, <3>2 DEF AdapterRaises, KnowsIts
      <4>2. FailedJob \in JobRecords
        BY JobsHaveType DEF FailedJob, Statuses, Reasons
      <4>3. WithJob(view[r], target[r], FailedJob)[q] = Absent
        BY <2>2, <4>1, <4>2
      <4> QED
        BY <3>2, <4>3 DEF AdapterRaises
    <3>3. CASE WriteCompleted(r)
      <4>1. target[r] \in JobIds /\ view[r][target[r]].status = "running"
        BY <1>0, <3>3 DEF WriteCompleted, KnowsIts
      <4>2. Job("completed", "none") \in JobRecords
        BY JobsHaveType DEF Statuses, Reasons
      <4>3. WithJob(view[r], target[r], Job("completed", "none"))[q] = Absent
        BY <2>2, <4>1, <4>2
      <4> QED
        BY <3>3, <4>3 DEF WriteCompleted
    <3> QED
      BY <1>9, <3>1, <3>2, <3>3
  <2>4. jobs' = view'[r]
    BY <1>9 DEF StartExecution, AdapterRaises, WriteCompleted
  <2> QED
    BY <1>0, <2>1, <2>3, <2>4
<1>10. CASE WorkerChanges \/ TrainingChanges
  BY <1>0, <1>10 DEF WorkerChanges, TrainingChanges, localVars
<1>11. CASE Restart
  BY <1>0, <1>11 DEF Restart, Before
<1>12. CASE UNCHANGED vars
  BY <1>0, <1>12 DEF vars, localVars
<1> HIDE DEF Goal
<1>13. ASSUME NEW r \in Requests,
              Arrive(r) \/ Serve(r) \/ ReportProgress(r) \/ AdapterRaises(r) \/ AdapterReturns(r)
       PROVE  Goal
  BY <1>1, <1>2, <1>3, <1>4, <1>5, <1>6, <1>7, <1>8, <1>9, <1>13 DEF Serve
<1> QED
  BY <1>10, <1>11, <1>12, <1>13 DEF Next, Goal
-----------------------------------------------------------------------------
\* What a request has read is not older than the files when it is alone.
Keeps(list, old) ==
  \A j \in JobIds : /\ old[j] # Absent => list[j] # Absent
                    /\ old[j].status \in {"completed", "failed"} => list[j] = old[j]

NothingNew(list, old) ==
  \A j \in JobIds : list[j].status = "completed" => old[j].status = "completed"

WithIndex == {"plans", "guard", "plan", "planAssets", "refine", "import"} \cup Executing
WithPlans == {"plan", "planAssets", "planPlans"}

Sees(r, at, list, entries, known, theJobs, theAssets, thePlans) ==
  /\ at \notin {"idle", "read", "done"} => Keeps(list, theJobs) /\ NothingNew(list, theJobs)
  /\ at \in WithIndex => theAssets \ {Legacy} \subseteq entries
  /\ at \in WithPlans => thePlans \subseteq known
  /\ at = "editJob" => <<r, "edit">> \in theAssets

Active(r) == pc[r] \notin {"idle", "done"}

Sole ==
  ~overlapped => \A r \in Requests :
    /\ Active(r) => \A s \in Requests : Active(s) => s = r
    /\ Sees(r, pc[r], view[r], index[r], planView[r], jobs, assets, plans)

\* What a step of a request keeps when it is alone.
Kept ==
  /\ Keeps(jobs', jobs)
  /\ AssetsOf \subseteq assets'
  /\ plans \subseteq plans'

LEMMA KeepsItself ==
  ASSUME NEW list
  PROVE  Keeps(list, list) /\ NothingNew(list, list)
BY DEF Keeps, NothingNew

LEMMA KeepsWith ==
  ASSUME NEW list \in [JobIds -> JobRecords], NEW old, NEW j \in JobIds, NEW job,
         Keeps(list, old), job # Absent, old[j].status \notin {"completed", "failed"}
  PROVE  Keeps(WithJob(list, j, job), old)
BY DEF Keeps, WithJob

LEMMA SoleInitial == Init => Sole
BY DEF Init, Sole, Active, Sees, WithIndex, WithPlans, Executing

LEMMA SoleActs ==
  ASSUME TypeInv, LocalInv, OwnJob, NEW r \in Requests,
         Sees(r, pc[r], view[r], index[r], planView[r], jobs, assets, plans),
         Serve(r) \/ ReportProgress(r) \/ AdapterRaises(r) \/ AdapterReturns(r)
  PROVE  /\ Kept
         /\ Sees(r, pc'[r], view'[r], index'[r], planView'[r], jobs', assets', plans')
<1> USE DEF TypeInv, TypeOK, TargetKnown, KindKnown, Step, fileVars, envVars, historyVars
<1> DEFINE Goal == /\ Kept
                   /\ Sees(r, pc'[r], view'[r], index'[r], planView'[r], jobs', assets', plans')
<1>0. /\ r \in JobIds
      /\ pc[r] \in Before => jobs[r] = Absent /\ view[r][r] = Absent
      /\ KnowsIts(r, pc[r], view[r], todo[r], target[r], index[r])
      /\ \A list : Keeps(list, list) /\ NothingNew(list, list)
  BY KeepsItself DEF OwnJob, JobIds, LocalInv
<1>1. CASE ReadJobs(r)
  BY <1>0, <1>1 DEF ReadJobs, Kept, Sees, AssetsOf, WithIndex, WithPlans, Executing
<1>2. CASE Refresh(r)
  <2> DEFINE new == [j \in JobIds |-> Refreshed(view[r][j])]
  <2>1. \A j \in JobIds : /\ view[r][j] \in JobRecords
                          /\ Refreshed(view[r][j]).status = "completed" => view[r][j].status = "completed"
                          /\ view[r][j].status \in Settled \cup {"absent"} => Refreshed(view[r][j]) = view[r][j]
                          /\ view[r][j].status \notin Settled \cup {"absent"}
                               => Refreshed(view[r][j]).status \notin Settled \cup {"absent"}
    <3>1. ASSUME NEW j \in JobIds PROVE view[r][j] \in JobRecords
      OBVIOUS
    <3> QED
      BY <3>1, RefreshKeepsStatus
  <2>2. Keeps(view[r], jobs) /\ NothingNew(view[r], jobs)
    BY <1>2 DEF Refresh, Sees
  <2>3. NothingNew(new, jobs)
    BY <2>1, <2>2 DEF NothingNew
  <2>4. ASSUME NEW j \in JobIds, jobs[j] # Absent PROVE new[j] # Absent
    <3>1. view[r][j] # Absent
      BY <2>2, <2>4 DEF Keeps
    <3> QED
      BY <2>1, <3>1, StatusOfJob
  <2>5. ASSUME NEW j \in JobIds, jobs[j].status \in {"completed", "failed"} PROVE new[j] = jobs[j]
    <3>1. view[r][j] = jobs[j]
      BY <2>2, <2>5 DEF Keeps
    <3> QED
      BY <2>1, <2>5, <3>1 DEF Settled
  <2>6. Keeps(new, jobs)
    BY <2>4, <2>5 DEF Keeps
  <2>7. view'[r] = new /\ pc'[r] \in {"list", "assets"} /\ UNCHANGED fileVars
    BY <1>2 DEF Refresh
  <2> HIDE DEF new
  <2> QED
    BY <1>0, <2>3, <2>6, <2>7 DEF Kept, Sees, AssetsOf, WithIndex, WithPlans, Executing
<1>3. CASE ReadAssets(r)
  BY <1>0, <1>3 DEF ReadAssets, Kept, Sees, AssetsOf, WithIndex, WithPlans, Executing
<1>4. CASE ReadPlans(r)
  <2>1. kind[r] \in Kinds
    BY <1>4 DEF ReadPlans
  <2>2. AfterReading(kind[r]) \notin {"planAssets", "planPlans", "editJob"}
    BY ONLY <2>1 DEF AfterReading, Kinds
  <2> QED
    BY <1>0, <1>4, <2>2 DEF ReadPlans, Kept, Sees, AssetsOf, WithIndex, WithPlans, Executing
<1>5. CASE WriteRefreshed(r)
  BY <1>0, <1>5 DEF WriteRefreshed, Kept, Sees, AssetsOf, WithIndex, WithPlans, Executing
<1>6. CASE AppendPlanned(r)
  <2>1. PICK reason \in Reasons :
          view' = [view EXCEPT ![r] =
             WithJob(view[r], r, Job(IF reason = "none" THEN "ready" ELSE "blocked", reason))]
    BY <1>6 DEF AppendPlanned, WorkerReason, Reasons
  <2> DEFINE job == Job(IF reason = "none" THEN "ready" ELSE "blocked", reason)
  <2>2. job # Absent /\ jobs[r].status \notin {"completed", "failed"} /\ Keeps(view[r], jobs)
    BY <1>0, <1>6, StatusOfJob DEF AppendPlanned, Before, Sees
  <2>3. Keeps(WithJob(view[r], r, job), jobs)
    BY <1>0, <2>2, KeepsWith
  <2>4. view'[r] = WithJob(view[r], r, job) /\ jobs' = WithJob(view[r], r, job)
    BY <1>6, <2>1 DEF AppendPlanned
  <2> HIDE DEF job
  <2> QED
    BY <1>0, <1>6, <2>3, <2>4 DEF AppendPlanned, Kept, Sees, AssetsOf, WithIndex, WithPlans, Executing
<1>7. CASE RewriteAssets(r)
  BY <1>0, <1>7 DEF RewriteAssets, Kept, Sees, AssetsOf, WithIndex, WithPlans, Executing
<1>8. CASE AppendPlan(r)
  BY <1>0, <1>8 DEF AppendPlan, Kept, Sees, AssetsOf, WithIndex, WithPlans, Executing
<1>9. CASE AppendRefine(r) \/ AppendEdit(r)
  <2>1. PICK job : jobs' = WithJob(view[r], r, job) /\ job # Absent
    <3>1. CASE AppendRefine(r)
      BY <3>1, StatusOfJob DEF AppendRefine
    <3>2. CASE AppendEdit(r)
      BY <3>2, StatusOfJob DEF AppendEdit
    <3> QED
      BY <1>9, <3>1, <3>2
  <2>2. jobs[r].status \notin {"completed", "failed"} /\ Keeps(view[r], jobs)
    BY <1>0, <1>9, StatusOfJob DEF AppendRefine, AppendEdit, Before, Sees
  <2>3. Keeps(WithJob(view[r], r, job), jobs)
    BY <1>0, <2>1, <2>2, KeepsWith
  <2>4. pc'[r] = "done" /\ assets' = assets /\ plans' = plans
    BY <1>9 DEF AppendRefine, AppendEdit
  <2> QED
    BY <2>1, <2>3, <2>4 DEF Kept, Sees, AssetsOf, WithIndex, WithPlans, Executing
<1>10. CASE EditParent(r)
  BY <1>0, <1>10 DEF EditParent, Kept, Sees, AssetsOf, WithIndex, WithPlans, Executing
<1>11. CASE StoreImport(r)
  BY <1>0, <1>11 DEF StoreImport, Kept, Sees, AssetsOf, WithIndex, WithPlans, Executing
<1>12. CASE Guard(r)
  BY <1>0, <1>12 DEF Guard, Kept, Sees, AssetsOf, WithIndex, WithPlans, Executing
<1>13. CASE StartExecution(r)
  <2>1. PICK j \in todo[r] : view' = [view EXCEPT ![r] = WithJob(@, j, Job("running", "none"))]
    BY <1>13 DEF StartExecution
  <2>2. j \in JobIds /\ view[r][j].status \in {"ready", "planned"} /\ Keeps(view[r], jobs)
    BY <1>0, <1>13 DEF StartExecution, KnowsIts, Executing, Sees
  <2>3. jobs[j].status \notin {"completed", "failed"} /\ Job("running", "none") # Absent
    BY <2>2, StatusOfJob DEF Keeps
  <2>4. Keeps(WithJob(view[r], j, Job("running", "none")), jobs)
    BY <2>2, <2>3, KeepsWith
  <2>5. /\ view'[r] = WithJob(view[r], j, Job("running", "none")) /\ jobs' = view'[r]
        /\ pc'[r] = "adapter" /\ pc[r] = "next"
        /\ assets' = assets /\ plans' = plans /\ index' = index
    BY <1>13, <2>1 DEF StartExecution
  <2> HIDE DEF Step
  <2> QED
    BY <1>0, <2>4, <2>5 DEF Kept, Sees, AssetsOf, WithIndex, WithPlans, Executing
<1>14. CASE ReportProgress(r)
  BY <1>0, <1>14 DEF ReportProgress, Kept, Sees, AssetsOf, WithIndex, WithPlans, Executing
<1>15. CASE AdapterRaises(r) \/ WriteCompleted(r)
  <2>1. PICK job : view'[r] = WithJob(view[r], target[r], job) /\ job # Absent
    <3>1. CASE AdapterRaises(r)
      BY <3>1, StatusOfJob DEF AdapterRaises, FailedJob
    <3>2. CASE WriteCompleted(r)
      BY <3>2, StatusOfJob DEF WriteCompleted
    <3> QED
      BY <1>15, <3>1, <3>2
  <2>2. /\ target[r] \in JobIds /\ view[r][target[r]].status = "running"
        /\ Keeps(view[r], jobs)
    BY <1>0, <1>15 DEF AdapterRaises, WriteCompleted, KnowsIts, Sees
  <2>3. jobs[target[r]].status \notin {"completed", "failed"}
    BY <2>2 DEF Keeps
  <2>4. Keeps(WithJob(view[r], target[r], job), jobs)
    BY <2>1, <2>2, <2>3, KeepsWith
  <2>5. /\ jobs' = view'[r] /\ assets' = assets /\ plans' = plans /\ index' = index
        /\ pc'[r] \in {"done", "next", "index"} /\ pc[r] \in {"adapter", "complete"}
    BY <1>15 DEF AdapterRaises, WriteCompleted, AfterJob
  <2> HIDE DEF Step
  <2> QED
    BY <1>0, <2>1, <2>4, <2>5 DEF Kept, Sees, AssetsOf, WithIndex, WithPlans, Executing
<1>16. CASE AdapterReturns(r)
  BY <1>0, <1>16 DEF AdapterReturns, EntriesAdded, Kept, Sees, AssetsOf, WithIndex, WithPlans, Executing
<1>17. CASE WriteIndex(r)
  BY <1>0, <1>17 DEF WriteIndex, AfterJob, Kept, Sees, AssetsOf, WithIndex, WithPlans, Executing
<1>18. CASE WriteRaises(r)
  BY <1>0, <1>18 DEF WriteRaises, Kept, Sees, AssetsOf, WithIndex, WithPlans, Executing
<1> HIDE DEF Goal
<1>19. Goal
  BY <1>1, <1>2, <1>3, <1>4, <1>5, <1>6, <1>7, <1>8, <1>9, <1>10, <1>11, <1>12, <1>13, <1>14,
     <1>15, <1>16, <1>17, <1>18 DEF Serve, Goal
<1> QED
  BY <1>19 DEF Goal

Acts(r) == Serve(r) \/ ReportProgress(r) \/ AdapterRaises(r) \/ AdapterReturns(r)

LEMMA OnlyActiveAct ==
  ASSUME TypeInv, NEW r \in Requests, Acts(r)
  PROVE  /\ Active(r)
         /\ overlapped' = overlapped
         /\ \A q \in Requests : q # r => pc'[q] = pc[q]
<1> USE DEF TypeInv, TypeOK, Step, envVars, historyVars, Active
<1>1. CASE ReadJobs(r) \/ Refresh(r) \/ ReadAssets(r) \/ ReadPlans(r) \/ WriteRefreshed(r)
  BY <1>1 DEF ReadJobs, Refresh, ReadAssets, ReadPlans, WriteRefreshed
<1>2. CASE AppendPlanned(r) \/ RewriteAssets(r) \/ AppendPlan(r) \/ AppendRefine(r)
  BY <1>2 DEF AppendPlanned, RewriteAssets, AppendPlan, AppendRefine
<1>3. CASE EditParent(r) \/ AppendEdit(r) \/ StoreImport(r) \/ Guard(r) \/ StartExecution(r)
  BY <1>3 DEF EditParent, AppendEdit, StoreImport, Guard, StartExecution
<1>4. CASE WriteCompleted(r) \/ WriteIndex(r) \/ WriteRaises(r)
  BY <1>4 DEF WriteCompleted, WriteIndex, WriteRaises, Writing
<1>5. CASE ReportProgress(r) \/ AdapterRaises(r) \/ AdapterReturns(r)
  BY <1>5 DEF ReportProgress, AdapterRaises, AdapterReturns
<1> QED
  BY <1>1, <1>2, <1>3, <1>4, <1>5 DEF Acts, Serve

LEMMA SoleStep ==
  TypeInv /\ LocalInv /\ OwnJob /\ Sole /\ [Next]_vars => Sole' /\ (~overlapped => Kept)
<1> SUFFICES ASSUME TypeInv, LocalInv, OwnJob, Sole, [Next]_vars
             PROVE  Sole' /\ (~overlapped => Kept)
  OBVIOUS
<1>0. \A list : Keeps(list, list)
  BY KeepsItself
<1>1. ASSUME NEW r \in Requests, Arrive(r) PROVE Sole' /\ Kept
  <2>1. /\ UNCHANGED <<fileVars, view, index, planView>>
        /\ pc[r] = "idle" /\ pc'[r] = "read"
        /\ \A q \in Requests : q # r => pc'[q] = pc[q]
        /\ overlapped' = (overlapped \/ \E s \in Requests : pc[s] \notin {"idle", "done"})
    BY <1>1 DEF Arrive, Step, TypeInv, TypeOK
  <2>2. Kept
    BY <1>0, <2>1 DEF Kept, fileVars, AssetsOf
  <2>3. ASSUME ~overlapped', NEW q \in Requests
        PROVE  /\ q # r => pc'[q] \in {"idle", "done"}
               /\ Sees(q, pc'[q], view'[q], index'[q], planView'[q], jobs', assets', plans')
    <3>1. pc'[q] \in {"idle", "done", "read"} /\ (q # r => pc'[q] \in {"idle", "done"})
      BY <2>1, <2>3
    <3> QED
      BY <3>1 DEF Sees, WithIndex, WithPlans, Executing
  <2>4. Sole'
    BY <2>3 DEF Sole, Active
  <2> QED
    BY <2>2, <2>4
<1>2. ASSUME NEW r \in Requests, Acts(r) PROVE Sole' /\ (~overlapped => Kept)
  <2> SUFFICES ASSUME ~overlapped PROVE Sole' /\ Kept
    BY <1>2, OnlyActiveAct DEF Sole
  <2>1. /\ Active(r) /\ overlapped' = overlapped
        /\ \A q \in Requests : q # r => pc'[q] = pc[q]
    BY <1>2, OnlyActiveAct
  <2>2. /\ Sees(r, pc[r], view[r], index[r], planView[r], jobs, assets, plans)
        /\ \A s \in Requests : Active(s) => s = r
    BY <2>1 DEF Sole
  <2>3. /\ Kept
        /\ Sees(r, pc'[r], view'[r], index'[r], planView'[r], jobs', assets', plans')
    BY <1>2, <2>2, SoleActs DEF Acts
  <2>4. ASSUME NEW q \in Requests, q # r
        PROVE  /\ pc'[q] \in {"idle", "done"}
               /\ Sees(q, pc'[q], view'[q], index'[q], planView'[q], jobs', assets', plans')
    <3>1. pc'[q] \in {"idle", "done"}
      BY <2>1, <2>2, <2>4 DEF Active
    <3> QED
      BY <3>1 DEF Sees, WithIndex, WithPlans, Executing
  <2>5. Sole'
    BY <2>3, <2>4 DEF Sole, Active
  <2> QED
    BY <2>3, <2>5
<1>3. CASE WorkerChanges \/ TrainingChanges \/ UNCHANGED vars
  <2>1. UNCHANGED <<fileVars, overlapped, localVars>>
    BY <1>3 DEF WorkerChanges, TrainingChanges, historyVars, vars, envVars
  <2> QED
    BY <1>0, <2>1 DEF Sole, Active, Kept, AssetsOf, fileVars, localVars
<1>4. CASE Restart
  <2>1. /\ \A q \in Requests : pc'[q] \in {"idle", "done"}
        /\ UNCHANGED fileVars
    BY <1>4 DEF Restart
  <2>2. \A q \in Requests : Sees(q, pc'[q], view'[q], index'[q], planView'[q], jobs', assets', plans')
    BY <2>1 DEF Sees, WithIndex, WithPlans, Executing
  <2>3. Sole'
    BY <2>1, <2>2 DEF Sole, Active
  <2> QED
    BY <1>0, <2>1, <2>3 DEF Kept, AssetsOf, fileVars
<1> QED
  BY <1>1, <1>2, <1>3, <1>4 DEF Next, Acts

(***************************************************************************)
(* The invariant of the module.                                            *)
(***************************************************************************)
IInv == TypeInv /\ LocalInv /\ OwnJob /\ Sole

LEMMA InvariantHolds == Spec => []IInv
<1>1. Init => IInv
  BY TypeInitial, LocalInitial, SoleInitial DEF IInv
<1>2. IInv /\ [Next]_vars => IInv'
  BY TypeStep, LocalStep, OwnStep, SoleStep DEF IInv
<1> QED
  BY <1>1, <1>2, PTL DEF Spec

(***************************************************************************)
(* Requests that do not overlap lose no record of jobs.json, of the asset  *)
(* index or of the plan index (but for an old plan in the asset index):    *)
(* not when a write raises or the process restarts between two of their    *)
(* writes either (service.py:76, :97-98, :208, :334, :363, :864-865).      *)
(***************************************************************************)
THEOREM RecordsStay == Spec => RecordsAreKept
<1>1. IInv /\ [Next]_vars =>
        [~overlapped => /\ \A j \in JobIds : jobs[j] # Absent => jobs'[j] # Absent
                        /\ AssetsOf \subseteq assets'
                        /\ plans \subseteq plans']_vars
  BY SoleStep DEF IInv, Kept, Keeps
<1> QED
  BY <1>1, InvariantHolds, PTL DEF Spec, RecordsAreKept

(***************************************************************************)
(* Requests that do not overlap take back no COMPLETED and no FAILED: the  *)
(* refresh leaves them alone, and no stale list is written over them       *)
(* (service.py:891-900).                                                   *)
(***************************************************************************)
THEOREM FinalStays == Spec => FinalStatusIsKept
<1>1. IInv /\ [Next]_vars =>
        [~overlapped =>
           \A j \in JobIds : jobs[j].status \in {"completed", "failed"} => jobs'[j] = jobs[j]]_vars
  BY SoleStep DEF IInv, Kept, Keeps
<1> QED
  BY <1>1, InvariantHolds, PTL DEF Spec, FinalStatusIsKept
-----------------------------------------------------------------------------
\* A COMPLETED job is in the asset index, or the request that wrote it is about
\* to write the index.
Accounted(j) ==
  \E q \in Requests : \/ <<q, j>> \in assets
                      \/ q = j /\ <<q, "edit">> \in assets
                      \/ pc[q] = "index" /\ <<q, j>> \in index[q]

Indexed ==
  ~overlapped /\ ~broken => \A j \in JobIds : jobs[j].status = "completed" => Accounted(j)

\* Who writes COMPLETED.
LEMMA Completes ==
  ASSUME TypeInv, NEW r \in Requests, Acts(r), NEW j \in JobIds,
         Sees(r, pc[r], view[r], index[r], planView[r], jobs, assets, plans),
         jobs'[j].status = "completed", jobs[j].status # "completed"
  PROVE  (AppendEdit(r) /\ j = r) \/ (WriteCompleted(r) /\ j = target[r])
<1> USE DEF TypeInv, TypeOK, TargetKnown, KindKnown, Step, envVars, historyVars
<1>1. pc[r] \notin {"idle", "read", "done"} => view[r][j].status # "completed"
  BY DEF Sees, NothingNew
<1>2. CASE \/ ReadJobs(r) \/ Refresh(r) \/ ReadAssets(r) \/ ReadPlans(r) \/ RewriteAssets(r) \/ AppendPlan(r)
  BY <1>2 DEF ReadJobs, Refresh, ReadAssets, ReadPlans, RewriteAssets, AppendPlan, fileVars
<1>3. CASE \/ EditParent(r) \/ StoreImport(r) \/ Guard(r) \/ AdapterReturns(r) \/ WriteIndex(r) \/ WriteRaises(r)
  BY <1>3 DEF EditParent, StoreImport, Guard, AdapterReturns, WriteIndex, WriteRaises, fileVars
<1>4. CASE WriteRefreshed(r) \/ ReportProgress(r)
  BY <1>1, <1>4 DEF WriteRefreshed, ReportProgress
<1>5. ASSUME NEW k, NEW job, jobs' = WithJob(view[r], k, job), job.status # "completed",
             pc[r] \notin {"idle", "read", "done"}
      PROVE  FALSE
  BY <1>1, <1>5 DEF WithJob
<1>6. ASSUME NEW k, NEW job, jobs' = WithJob(view[r], k, job), pc[r] \notin {"idle", "read", "done"}
      PROVE  j = k
  BY <1>1, <1>6 DEF WithJob
<1>7. CASE AppendPlanned(r) \/ AppendRefine(r)
  <2>1. PICK reason :
          jobs' = WithJob(view[r], r, Job(IF reason = "none" THEN "ready" ELSE "blocked", reason))
    <3>1. CASE AppendPlanned(r)
      <4>1. PICK reason :
              view' = [view EXCEPT ![r] =
                 WithJob(view[r], r, Job(IF reason = "none" THEN "ready" ELSE "blocked", reason))]
        BY <3>1 DEF AppendPlanned
      <4> QED
        BY <3>1, <4>1 DEF AppendPlanned
    <3>2. CASE AppendRefine(r)
      BY <3>2 DEF AppendRefine
    <3> QED
      BY <1>7, <3>1, <3>2
  <2>2. Job(IF reason = "none" THEN "ready" ELSE "blocked", reason).status # "completed"
    BY StatusOfJob
  <2>3. pc[r] \notin {"idle", "read", "done"}
    BY <1>7 DEF AppendPlanned, AppendRefine
  <2> QED
    BY <1>5, <2>1, <2>2, <2>3
<1>8. CASE StartExecution(r)
  <2>1. PICK k \in todo[r] : view' = [view EXCEPT ![r] = WithJob(@, k, Job("running", "none"))]
    BY <1>8 DEF StartExecution
  <2>2. jobs' = WithJob(view[r], k, Job("running", "none")) /\ pc[r] = "next"
    BY <1>8, <2>1 DEF StartExecution
  <2>3. Job("running", "none").status # "completed"
    BY StatusOfJob
  <2> QED
    BY <1>5, <2>2, <2>3
<1>9. CASE AdapterRaises(r)
  <2>1. jobs' = WithJob(view[r], target[r], FailedJob) /\ pc[r] = "adapter"
    BY <1>9 DEF AdapterRaises
  <2>2. FailedJob.status # "completed"
    BY StatusOfJob DEF FailedJob
  <2> QED
    BY <1>5, <2>1, <2>2
<1>10. CASE AppendEdit(r)
  <2>1. jobs' = WithJob(view[r], r, Job("completed", "none")) /\ pc[r] = "editJob"
    BY <1>10 DEF AppendEdit
  <2> QED
    BY <1>6, <1>10, <2>1
<1>11. CASE WriteCompleted(r)
  <2>1. jobs' = WithJob(view[r], target[r], Job("completed", "none")) /\ pc[r] = "complete"
    BY <1>11 DEF WriteCompleted
  <2> QED
    BY <1>6, <1>11, <2>1
<1> QED
  BY <1>2, <1>3, <1>4, <1>7, <1>8, <1>9, <1>10, <1>11 DEF Acts, Serve

LEMMA AccountedLasts ==
  ASSUME TypeInv, NEW r \in Requests, Acts(r), Kept, ~broken', NEW j \in JobIds, Accounted(j),
         \A s \in Requests : Active(s) => s = r
  PROVE  Accounted(j)'
<1> USE DEF TypeInv, TypeOK
<1>1. PICK q \in Requests : \/ <<q, j>> \in assets
                            \/ q = j /\ <<q, "edit">> \in assets
                            \/ pc[q] = "index" /\ <<q, j>> \in index[q]
  BY DEF Accounted
<1>2. CASE <<q, j>> \in assets
  BY <1>2 DEF Accounted, Kept, AssetsOf, Legacy
<1>3. CASE q = j /\ <<q, "edit">> \in assets
  BY <1>3 DEF Accounted, Kept, AssetsOf, Legacy
<1>4. CASE pc[q] = "index" /\ <<q, j>> \in index[q]
  <2>1. q = r /\ pc[r] = "index"
    BY <1>4 DEF Active
  <2>2. WriteIndex(r)
    <3>1. ~WriteRaises(r)
      BY DEF WriteRaises
    <3> QED
      BY <2>1, <3>1 DEF Acts, Serve, Step, ReadJobs, Refresh, ReadAssets, ReadPlans, WriteRefreshed,
         AppendPlanned, RewriteAssets, AppendPlan, AppendRefine, EditParent, AppendEdit, StoreImport,
         Guard, StartExecution, WriteCompleted, ReportProgress, AdapterRaises, AdapterReturns
  <2>3. assets' = index[r]
    BY <2>2 DEF WriteIndex
  <2> QED
    BY <1>4, <2>1, <2>3 DEF Accounted
<1> QED
  BY <1>1, <1>2, <1>3, <1>4

LEMMA IndexedStep == IInv /\ Indexed /\ [Next]_vars => Indexed'
<1> SUFFICES ASSUME IInv, Indexed, [Next]_vars, ~overlapped', ~broken',
                    NEW j \in JobIds, jobs'[j].status = "completed"
             PROVE  Accounted(j)'
  BY DEF Indexed, JobIds
<1>1. CASE \E r \in Requests : Acts(r)
  <2>1. PICK r \in Requests : Acts(r)
    BY <1>1
  <2>2. Active(r) /\ ~overlapped
    BY <2>1, OnlyActiveAct DEF IInv
  <2>3. /\ Sees(r, pc[r], view[r], index[r], planView[r], jobs, assets, plans)
        /\ \A s \in Requests : Active(s) => s = r
        /\ Kept
    BY <2>2, SoleStep DEF IInv, Sole
  <2>4. ~broken
    BY <2>1 DEF Acts, Serve, ReadJobs, Refresh, ReadAssets, ReadPlans, WriteRefreshed, WriteRaises,
       AppendPlanned, RewriteAssets, AppendPlan, AppendRefine, EditParent, AppendEdit, StoreImport,
       Guard, StartExecution, WriteCompleted, WriteIndex, ReportProgress, AdapterRaises,
       AdapterReturns, envVars, historyVars
  <2>5. CASE jobs[j].status = "completed"
    <3>1. Accounted(j)
      BY <2>2, <2>4, <2>5 DEF Indexed
    <3> QED
      BY <2>1, <2>3, <3>1, AccountedLasts DEF IInv
  <2>6. CASE jobs[j].status # "completed"
    <3>1. (AppendEdit(r) /\ j = r) \/ (WriteCompleted(r) /\ j = target[r])
      BY <2>1, <2>3, <2>6, Completes DEF IInv
    <3>2. CASE AppendEdit(r) /\ j = r
      BY <2>3, <3>2 DEF AppendEdit, Step, Sees, Accounted
    <3>3. CASE WriteCompleted(r) /\ j = target[r]
      <4>1. <<r, j>> \in index[r]
        BY <3>3 DEF WriteCompleted, Step, IInv, LocalInv, KnowsIts
      <4>2. pc'[r] = "index" /\ index' = index
        BY <3>3 DEF WriteCompleted, Step, IInv, TypeInv, TypeOK
      <4> QED
        BY <4>1, <4>2 DEF Accounted
    <3> QED
      BY <3>1, <3>2, <3>3
  <2> QED
    BY <2>5, <2>6
<1>2. CASE \E r \in Requests : Arrive(r)
  <2>1. PICK r \in Requests : Arrive(r)
    BY <1>2
  <2>2. ~overlapped /\ ~broken /\ UNCHANGED <<fileVars, index>>
    BY <2>1 DEF Arrive
  <2>3. \A q \in Requests : pc[q] = "index" => pc'[q] = "index"
    BY <2>1 DEF Arrive, Step, IInv, TypeInv, TypeOK
  <2> QED
    BY <2>2, <2>3 DEF Indexed, Accounted, fileVars
<1>3. CASE WorkerChanges \/ TrainingChanges \/ UNCHANGED vars
  <2>1. UNCHANGED <<fileVars, historyVars, localVars>>
    BY <1>3 DEF WorkerChanges, TrainingChanges, vars, envVars
  <2> QED
    BY <2>1 DEF Indexed, Accounted, fileVars, historyVars, localVars
<1>4. CASE Restart
  <2>1. ~overlapped /\ ~broken /\ UNCHANGED fileVars /\ \A q \in Requests : pc[q] \in {"idle", "done"}
    BY <1>4 DEF Restart
  <2> QED
    BY <2>1 DEF Indexed, Accounted, fileVars
<1> QED
  BY <1>1, <1>2, <1>3, <1>4 DEF Next, Acts

(***************************************************************************)
(* When nothing is under way, and nothing overlapped or broke off, what a  *)
(* COMPLETED job produced is in the asset index (service.py:853-865,       *)
(* :251-286).                                                              *)
(***************************************************************************)
THEOREM CompletedIsIndexed == Spec => []CompletedHasAsset
<1>1. Init => Indexed
  BY DEF Init, Indexed, Job, Absent
<1>2. Indexed => CompletedHasAsset
  BY DEF Indexed, Accounted, CompletedHasAsset, Quiet
<1> QED
  BY <1>1, <1>2, InvariantHolds, IndexedStep, PTL DEF Spec
=============================================================================
