--------------------------- MODULE GenerationJobs ---------------------------
(***************************************************************************)
(* GenerationService (core/generation/service.py): the jobs, assets and    *)
(* consultant plans of one project, under requests that FastAPI serves on  *)
(* several threads.                                                        *)
(*                                                                         *)
(* jobs.json, assets/index.json and the plan index are files that every    *)
(* operation reads as a whole and writes as a whole; there is no lock.     *)
(* What a request has read (view, index, planView) is its own copy, and it *)
(* keeps it for as long as the generation it started runs.                 *)
(*                                                                         *)
(* The job a request creates is named after the request, and so is what it *)
(* adds to the asset index: <<r, j>> is what r generated for job j, and    *)
(* <<r, "import">> and <<r, "edit">> what it imported and the metadata it  *)
(* changed.                                                                *)
(***************************************************************************)
EXTENDS Naturals, FiniteSets

CONSTANTS Requests,
          Turn,            \* requests are named in the order of their arrival
          InitialJobs,     \* jobs of the project, READY at the start
          None,
          DiskFails,       \* may writing a file raise?
          HasLegacyPlan,   \* does the asset index hold a plan of an old version?
          MaxRestarts      \* bound on restarts of the process

Kinds == {"list", "plan", "execute", "batch", "update", "refine", "import"}

ASSUME GenerationAssumption ==
  /\ {DiskFails, HasLegacyPlan} \subseteq BOOLEAN
  /\ MaxRestarts \in Nat
  /\ Turn \in [Requests -> Nat]
  /\ Requests \cap InitialJobs = {}
  /\ None \notin Requests \cup InitialJobs \cup Kinds

VARIABLES jobs,      \* jobs.json
          assets,    \* assets/index.json
          plans,     \* .cache/consultant/index.json
          files,     \* generated and imported files under assets/
          worker,    \* what the worker's readiness note says
          training,  \* is_training_locked()
          pc, kind, target, view, index, planView,
          todo,      \* jobs a batch has still to run
          restarts,
          overlapped, \* history: two requests were served at once
          broken      \* history: a request ended before its last step

localVars == <<pc, kind, target, view, index, planView, todo>>
fileVars == <<jobs, assets, plans, files>>
historyVars == <<overlapped, broken>>
envVars == <<worker, training, restarts, historyVars>>
vars == <<fileVars, envVars, localVars>>

JobIds == InitialJobs \cup Requests
Root == <<"root">>
Legacy == <<"legacy">>
PlanRecords == {Legacy} \cup {<<r>> : r \in Requests}
Entries == {Root, Legacy} \cup (Requests \X JobIds)
                          \cup (Requests \X {"import", "edit"})

\* Why a job is BLOCKED.  "worker" stands for the readiness notes that
\* _is_worker_blocking_reason() knows, "setup" for the others (dependencies not
\* installed or failed to, the last line of the startup log).
Reasons == {"none", "worker", "setup", "research", "mask", "error"}
Statuses == {"absent", "planned", "ready", "blocked", "running", "completed", "failed"}
JobRecords == [status : Statuses, reason : Reasons]
Job(status, reason) == [status |-> status, reason |-> reason]
Absent == Job("absent", "none")
Settled == {"running", "completed", "failed"}

Init ==
  /\ jobs = [j \in JobIds |-> IF j \in InitialJobs THEN Job("ready", "none") ELSE Absent]
  /\ assets = {Root} \cup (IF HasLegacyPlan THEN {Legacy} ELSE {})
  /\ plans = {}
  /\ files = {Root}
  /\ worker = "none"
  /\ training = FALSE
  /\ pc = [r \in Requests |-> "idle"]
  /\ kind = [r \in Requests |-> None]
  /\ target = [r \in Requests |-> None]
  /\ view = [r \in Requests |-> [j \in JobIds |-> Absent]]
  /\ index = [r \in Requests |-> {}]
  /\ planView = [r \in Requests |-> {}]
  /\ todo = [r \in Requests |-> {}]
  /\ restarts = 0
  /\ overlapped = FALSE
  /\ broken = FALSE

-----------------------------------------------------------------------------
\* _build_worker_blocking_reason(): the note itself, or nothing.
WorkerReason == worker

\* _is_worker_blocking_reason()
Recognised(reason) == reason = "worker"

\* (mutant) FAILED jobs are refreshed as well.
RefreshedFailedToo(job) ==
  IF job.status \in {"absent", "running", "completed"} THEN job
  ELSE IF WorkerReason # "none" THEN Job("blocked", WorkerReason)
  ELSE Job("ready", "none")

\* _refresh_jobs(), for one job.
Refreshed(job) ==
  CASE job.status \in Settled \cup {"absent"} -> job
    [] job.status \notin Settled \cup {"absent"} /\ WorkerReason # "none" ->
         IF job.status # "blocked" \/ Recognised(job.reason)
         THEN Job("blocked", WorkerReason) ELSE job
    [] OTHER -> IF Recognised(job.reason) THEN Job("ready", "none") ELSE job

\* (mutant) The list is begun anew.
OnlyJob(list, j, job) == [k \in JobIds |-> IF k = j THEN job ELSE Absent]

\* jobs.append(job), or the job of that index replaced.
WithJob(list, j, job) == [list EXCEPT ![j] = job]

-----------------------------------------------------------------------------
\* The steps of a request.
Step(r, from, to) ==
  /\ pc[r] = from
  /\ pc' = [pc EXCEPT ![r] = to]

Arrive(r) ==
  /\ \A s \in Requests : Turn[s] < Turn[r] => pc[s] # "idle"
  /\ Step(r, "idle", "read")
  /\ \E k \in Kinds, j \in JobIds \cup {None} :
       /\ (j # None) <=> (k \in {"execute", "update"})
       /\ kind' = [kind EXCEPT ![r] = k]
       /\ target' = [target EXCEPT ![r] = j]
  /\ overlapped' = (overlapped \/ \E s \in Requests : pc[s] \notin {"idle", "done"})
  /\ UNCHANGED <<fileVars, worker, training, restarts, broken, view, index,
                 planView, todo>>

\* _read_jobs(); the list is what list_workspace() and the two execute
\* operations refresh next.
ReadJobs(r) ==
  /\ Step(r, "read", IF kind[r] \in {"list", "execute", "batch"} THEN "refresh" ELSE "assets")
  /\ view' = [view EXCEPT ![r] = jobs]
  /\ UNCHANGED <<fileVars, envVars, kind, target, index, planView, todo>>

Refresh(r) ==
  /\ Step(r, "refresh", IF kind[r] \in {"list", "update"} THEN "list" ELSE "assets")
  /\ view' = [view EXCEPT ![r] = [j \in JobIds |-> Refreshed(view[r][j])]]
  /\ UNCHANGED <<fileVars, envVars, kind, target, index, planView, todo>>

\* _read_assets(): plans of an old version are not assets.
AssetsOf == assets \ {Legacy}

ReadAssets(r) ==
  /\ Step(r, "assets", "plans")
  /\ index' = [index EXCEPT ![r] = AssetsOf]
  /\ UNCHANGED <<fileVars, envVars, kind, target, view, planView, todo>>

AfterReading(k) ==
  CASE k \in {"execute", "batch"} -> "guard"
    [] k = "update" -> "refresh"
    [] OTHER -> k

\* _read_plans(): the plan index and the old plans in the asset index.
ReadPlans(r) ==
  /\ Step(r, "plans", IF kind[r] = "update" /\ view[r][target[r]] = Absent
                      THEN "done" ELSE AfterReading(kind[r]))
  /\ planView' = [planView EXCEPT ![r] = plans \cup (assets \cap {Legacy})]
  /\ UNCHANGED <<fileVars, envVars, kind, target, view, index, todo>>

\* list_workspace() and update_job() write the list they refreshed.
WriteRefreshed(r) ==
  /\ Step(r, "list", "done")
  /\ jobs' = view[r]
  /\ UNCHANGED <<assets, plans, files, envVars, kind, target, view, index, planView, todo>>

-----------------------------------------------------------------------------
\* record_plan(): the job, ...
AppendPlanned(r) ==
  /\ Step(r, "plan", "planAssets")
  /\ \E reason \in {"research", WorkerReason} :
       view' = [view EXCEPT ![r] =
                  WithJob(view[r], r, Job(IF reason = "none" THEN "ready" ELSE "blocked", reason))]
  /\ jobs' = view'[r]
  /\ UNCHANGED <<assets, plans, files, envVars, kind, target, index, planView, todo>>

\* ... the assets as they were read, ...
RewriteAssets(r) ==
  /\ Step(r, "planAssets", "planPlans")
  /\ assets' = index[r]
  /\ UNCHANGED <<jobs, plans, files, envVars, kind, target, view, index, planView, todo>>

\* ... and the plan.
AppendPlan(r) ==
  /\ Step(r, "planPlans", "done")
  /\ plans' = planView[r] \cup {<<r>>}
  /\ UNCHANGED <<jobs, assets, files, envVars, kind, target, view, index, planView, todo>>

\* refine_asset(): a job for the worker, blocked until the mask is painted, ...
AppendRefine(r) ==
  /\ Step(r, "refine", "done")
  /\ \E reason \in {"mask", WorkerReason} :
       jobs' = WithJob(view[r], r, Job(IF reason = "none" THEN "ready" ELSE "blocked", reason))
  /\ UNCHANGED <<assets, plans, files, envVars, kind, target, view, index, planView, todo>>

\* ... or only metadata: the parent's entry and then a job already COMPLETED.
EditParent(r) ==
  /\ Step(r, "refine", "editJob")
  /\ assets' = index[r] \cup {<<r, "edit">>}
  /\ UNCHANGED <<jobs, plans, files, envVars, kind, target, view, index, planView, todo>>

AppendEdit(r) ==
  /\ Step(r, "editJob", "done")
  /\ jobs' = WithJob(view[r], r, Job("completed", "none"))
  /\ UNCHANGED <<assets, plans, files, envVars, kind, target, view, index, planView, todo>>

\* (mutant) The content is not stored.
NotStored(entry) == files

\* _persist_generated_artifact() writes the file and returns its entry.
Stored(entry) == files \cup {entry}

\* import_asset()
StoreImport(r) ==
  /\ Step(r, "import", "index")
  /\ files' = Stored(<<r, "import">>)
  /\ index' = [index EXCEPT ![r] = @ \cup {<<r, "import">>}]
  /\ UNCHANGED <<jobs, assets, plans, envVars, kind, target, view, planView, todo>>

-----------------------------------------------------------------------------
\* execute_job() and execute_ready_jobs(): the training lock is looked at once,
\* then the statuses as they were read.
Runnable(r) == {j \in JobIds : view[r][j].status \in {"ready", "planned"}}

Guard(r) ==
  LET wanted == IF kind[r] = "execute" THEN {target[r]} ELSE JobIds
      run == IF training THEN {} ELSE Runnable(r) \cap wanted IN
  /\ Step(r, "guard", IF run = {} THEN "done" ELSE "next")
  /\ todo' = [todo EXCEPT ![r] = run]
  /\ UNCHANGED <<fileVars, envVars, kind, target, view, index, planView>>

\* _execute_job_in_memory(): RUNNING is written, ...
StartExecution(r) ==
  /\ Step(r, "next", "adapter")
  /\ \E j \in todo[r] :
       /\ target' = [target EXCEPT ![r] = j]
       /\ todo' = [todo EXCEPT ![r] = @ \ {j}]
       /\ view' = [view EXCEPT ![r] = WithJob(@, j, Job("running", "none"))]
  /\ jobs' = view'[r]
  /\ UNCHANGED <<assets, plans, files, envVars, kind, index, planView>>

\* ... each report_progress() writes the whole list again, ...
ReportProgress(r) ==
  /\ Step(r, "adapter", "adapter")
  /\ jobs' = view[r]
  /\ UNCHANGED <<assets, plans, files, envVars, kind, target, view, index, planView, todo>>

AfterJob(r) == IF todo[r] = {} THEN "done" ELSE "next"

\* (mutant) An exception leaves the status as it is.
StillRunning == Job("running", "none")

FailedJob == Job("failed", "error")

\* ... an exception of the adapter (or of report_progress(), or a worker that is
\* not running) fails the job, ...
AdapterRaises(r) ==
  /\ Step(r, "adapter", AfterJob(r))
  /\ view' = [view EXCEPT ![r] = WithJob(@, target[r], FailedJob)]
  /\ jobs' = view'[r]
  /\ UNCHANGED <<assets, plans, files, envVars, kind, target, index, planView, todo>>

\* (mutant) The new entries are not added to the list of assets.
EntriesKept(r, entry) == index[r]

EntriesAdded(r, entry) == index[r] \cup {entry}

\* ... otherwise what it returned is stored, ...
AdapterReturns(r) ==
  /\ Step(r, "adapter", "complete")
  /\ files' = Stored(<<r, target[r]>>)
  /\ index' = [index EXCEPT ![r] = EntriesAdded(r, <<r, target[r]>>)]
  /\ UNCHANGED <<jobs, assets, plans, envVars, kind, target, view, planView, todo>>

\* ... COMPLETED is written ...
WriteCompleted(r) ==
  /\ Step(r, "complete", "index")
  /\ view' = [view EXCEPT ![r] = WithJob(@, target[r], Job("completed", "none"))]
  /\ jobs' = view'[r]
  /\ UNCHANGED <<assets, plans, files, envVars, kind, target, index, planView, todo>>

\* ... and then the asset index.
WriteIndex(r) ==
  /\ Step(r, "index", AfterJob(r))
  /\ assets' = index[r]
  /\ UNCHANGED <<jobs, plans, files, envVars, kind, target, view, index, planView, todo>>

\* A write raises and ends the request; after the adapter has returned, so does
\* storing its artifacts.  (report_progress() is called by the adapter: what it
\* raises is caught, AdapterRaises.)
Writing == {"list", "plan", "planAssets", "planPlans", "refine", "editJob", "import",
            "next", "complete", "index"}
WriteRaises(r) ==
  /\ DiskFails
  /\ pc[r] \in Writing \cup {"adapter"}
  /\ pc' = [pc EXCEPT ![r] = "done"]
  /\ broken' = TRUE
  /\ UNCHANGED <<fileVars, worker, training, restarts, overlapped, kind, target, view, index, planView, todo>>

Serve(r) ==
  \/ ReadJobs(r) \/ Refresh(r) \/ ReadAssets(r) \/ ReadPlans(r) \/ WriteRefreshed(r)
  \/ AppendPlanned(r) \/ RewriteAssets(r) \/ AppendPlan(r)
  \/ AppendRefine(r) \/ EditParent(r) \/ AppendEdit(r) \/ StoreImport(r)
  \/ Guard(r) \/ StartExecution(r)
  \/ WriteCompleted(r) \/ WriteIndex(r) \/ WriteRaises(r)

-----------------------------------------------------------------------------
WorkerChanges ==
  /\ \E note \in {"none", "worker", "setup"} : note # worker /\ worker' = note
  /\ UNCHANGED <<fileVars, training, restarts, historyVars, localVars>>

\* The training executor takes and releases the lock; generation registers no
\* model with the scheduler, so nothing keeps try_begin_training() from it.
TrainingChanges ==
  /\ training' = ~training
  /\ UNCHANGED <<fileVars, worker, restarts, historyVars, localVars>>

Restart ==
  /\ restarts < MaxRestarts
  /\ restarts' = restarts + 1
  /\ training' = FALSE
  /\ pc' = [r \in Requests |-> IF pc[r] = "idle" THEN "idle" ELSE "done"]
  /\ broken' = (broken \/ \E r \in Requests : pc[r] \notin {"idle", "done"})
  /\ UNCHANGED <<fileVars, worker, overlapped, kind, target, view, index, planView, todo>>

Next ==
  \/ \E r \in Requests : \/ Arrive(r) \/ Serve(r)
                         \/ ReportProgress(r) \/ AdapterRaises(r) \/ AdapterReturns(r)
  \/ WorkerChanges
  \/ TrainingChanges
  \/ Restart

Spec == Init /\ [][Next]_vars

\* A request is served on, and a generation ends one way or the other.
Fairness == \A r \in Requests : /\ WF_vars(Serve(r))
                                /\ WF_vars(AdapterRaises(r) \/ AdapterReturns(r))

FairSpec == Spec /\ Fairness

-----------------------------------------------------------------------------
TypeOK ==
  /\ jobs \in [JobIds -> JobRecords]
  /\ assets \subseteq Entries
  /\ plans \subseteq PlanRecords
  /\ files \subseteq Entries
  /\ worker \in {"none", "worker", "setup"}
  /\ training \in BOOLEAN
  /\ pc \in [Requests -> {"idle", "read", "refresh", "assets", "plans", "guard", "adapter",
                          "done"} \cup Writing]
  /\ kind \in [Requests -> Kinds \cup {None}]
  /\ target \in [Requests -> JobIds \cup {None}]
  /\ view \in [Requests -> [JobIds -> JobRecords]]
  /\ index \in [Requests -> SUBSET Entries]
  /\ planView \in [Requests -> SUBSET PlanRecords]
  /\ todo \in [Requests -> SUBSET JobIds]
  /\ restarts \in 0..MaxRestarts
  /\ {overlapped, broken} \subseteq BOOLEAN

(***************************************************************************)
(* As long as no two requests overlap no record is ever lost, not by a     *)
(* failing write or a crash either: every list written to jobs.json, the   *)
(* asset index or the plan index holds what the file had, but for a plan   *)
(* of an old version in the asset index (service.py:76, :97-98, :208,      *)
(* :334, :363, :864-865).                                                  *)
(***************************************************************************)
RecordsAreKept ==
  [][~overlapped => /\ \A j \in JobIds : jobs[j] # Absent => jobs'[j] # Absent
                    /\ AssetsOf \subseteq assets'
                    /\ plans \subseteq plans']_vars

(***************************************************************************)
(* As long as no two requests overlap COMPLETED and FAILED are final: no   *)
(* refresh, patch or progress report takes them back (service.py:891-900). *)
(***************************************************************************)
FinalStatusIsKept ==
  [][~overlapped =>
       \A j \in JobIds : jobs[j].status \in {"completed", "failed"} => jobs'[j] = jobs[j]]_vars

Quiet == \A r \in Requests : pc[r] \in {"idle", "done"}

(***************************************************************************)
(* When nothing is under way, and nothing overlapped or broke off, a       *)
(* COMPLETED job has in the asset index what it produced, or the edit it   *)
(* made (service.py:853-865, :251-286).                                    *)
(***************************************************************************)
CompletedHasAsset ==
  Quiet /\ ~overlapped /\ ~broken =>
    \A j \in JobIds : jobs[j].status = "completed" =>
      \E r \in Requests : <<r, j>> \in assets \/ (r = j /\ <<r, "edit">> \in assets)

(***************************************************************************)
(* COMPLETED is never written before the artifact is on disk, and the      *)
(* index never names a file that is not there: not after a crash, a        *)
(* failing write or a list of another request either.                      *)
(***************************************************************************)
CompletedMeansProduced ==
  /\ \A j \in JobIds : jobs[j].status = "completed" =>
       \E r \in Requests : <<r, j>> \in files \/ (r = j /\ kind[r] = "refine")
  /\ \A entry \in assets : entry # Legacy /\ entry \notin files => entry[2] = "edit"

(***************************************************************************)
(* No job stays RUNNING for ever, unless a list was written over or a      *)
(* request broke off: "Job is already running." (service.py:122) would     *)
(* then be its answer for ever.                                            *)
(***************************************************************************)
RunningJobsSettle ==
  []<>(overlapped \/ broken \/ \A j \in JobIds : jobs[j].status # "running")
=============================================================================
