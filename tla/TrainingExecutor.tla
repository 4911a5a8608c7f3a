-------------------------- MODULE TrainingExecutor --------------------------
(***************************************************************************)
(* Training jobs from submission to their final status: the HTTP routes    *)
(* (core/main.py), TrainingService (core/training/service.py) and          *)
(* TrainingExecutor with its SubprocessRunner (core/training/executor.py), *)
(* composed with the scheduler's training lock (VramAdmission).            *)
(*                                                                         *)
(* Requests are handled by threads of one process.  Each job j has the     *)
(* thread that submits it (submitPc) and at most one request that cancels  *)
(* it (cancelPc).  jobs.json is read as a whole and written as a whole:    *)
(* whoever writes it writes the list it read before, with one job changed. *)
(* The executor does both under its _lock (mutex), submit_job() does not.  *)
(***************************************************************************)
EXTENDS Naturals, Sequences, FiniteSets

CONSTANTS Jobs,          \* one submission per job
          Executors,     \* TrainingExecutor objects the process may create
          Workers,       \* worker threads that may be spawned
          Models,        \* models managed by the scheduler
          None,
          SerialClient,  \* the client submits one job at a time
          WritesFail,    \* may writing jobs.json raise?
          MaxRestarts    \* bound on restarts of the process

ASSUME TrainingAssumption ==
  /\ {SerialClient, WritesFail} \subseteq BOOLEAN
  /\ MaxRestarts \in Nat
  /\ None \notin Jobs \cup Executors \cup Workers
  /\ Workers \cap ({"submit", "cancel"} \X Jobs) = {}
  /\ None \notin {"submit", "cancel"} \X Jobs

VARIABLES store,       \* jobs.json: status of every job
          globalExec,  \* main._training_executor
          serviceExec, \* training_service._executor
          queue,       \* _queue of each executor
          mutex,       \* thread inside _lock of each executor
          workerOf,    \* _worker_thread of each executor
          cancelSet,   \* runner._cancel_event
          process,     \* runner._process: the job whose process it is
          submitPc, submitExec, submitView,
          workerPc, workerExec, workerJob, workerView,
          raised,      \* is an exception on its way out of _run_job()?
          child,       \* the training process of a job
          cancelPc, cancelExec, cancelView,
          active, holder, \* the scheduler
          restarts

executorVars == <<globalExec, serviceExec, queue, workerOf>>
runnerVars == <<cancelSet, process, child>>
submitVars == <<submitPc, submitExec, submitView>>
workerVars == <<workerPc, workerExec, workerJob, workerView, raised>>
cancelVars == <<cancelPc, cancelExec, cancelView>>
lockVars == <<active, holder>>
vars == <<store, executorVars, mutex, runnerVars, submitVars, workerVars,
          cancelVars, lockVars, restarts>>

Admission == INSTANCE VramAdmission WITH Holders <- Jobs

Statuses == {"absent", "planned", "queued", "running", "completed", "failed"}
Terminal == {"completed", "failed"}
Stores == [Jobs -> Statuses]
Submitter(j) == <<"submit", j>>
Canceller(j) == <<"cancel", j>>

Init ==
  /\ store = [j \in Jobs |-> "absent"]
  /\ globalExec = None
  /\ serviceExec = None
  /\ queue = [e \in Executors |-> <<>>]
  /\ mutex = [e \in Executors |-> None]
  /\ workerOf = [e \in Executors |-> None]
  /\ cancelSet = [e \in Executors |-> FALSE]
  /\ process = [e \in Executors |-> None]
  /\ submitPc = [j \in Jobs |-> "idle"]
  /\ submitExec = [j \in Jobs |-> None]
  /\ submitView = [j \in Jobs |-> None]
  /\ workerPc = [w \in Workers |-> "none"]
  /\ workerExec = [w \in Workers |-> None]
  /\ workerJob = [w \in Workers |-> None]
  /\ workerView = [w \in Workers |-> None]
  /\ raised = [w \in Workers |-> FALSE]
  /\ child = [j \in Jobs |-> "none"]
  /\ cancelPc = [j \in Jobs |-> "idle"]
  /\ cancelExec = [j \in Jobs |-> None]
  /\ cancelView = [j \in Jobs |-> None]
  /\ Admission!Init
  /\ restarts = 0

\* _update_job: a job missing from the list stays missing.
Updated(view, j, status) ==
  IF view[j] = "absent" THEN view ELSE [view EXCEPT ![j] = status]

-----------------------------------------------------------------------------
\* POST .../training, in the thread of job j.
SubmitAt(j, from, to) ==
  /\ submitPc[j] = from
  /\ submitPc' = [submitPc EXCEPT ![j] = to]

\* _get_or_create_executor(): looks at the global ...
Arrive(j) ==
  /\ SerialClient => \A k \in Jobs : submitPc[k] \in {"idle", "done", "lost"}
  /\ SubmitAt(j, "idle", IF globalExec = None THEN "create" ELSE "read")
  /\ UNCHANGED <<store, executorVars, mutex, runnerVars, submitExec, submitView,
                 workerVars, cancelVars, lockVars, restarts>>

\* Executors some variable of the program still refers to.
Referenced ==
  {globalExec, serviceExec} \cup {submitExec[j] : j \in Jobs}
                            \cup {workerExec[w] : w \in Workers}

\* ... and assigns it later, whatever it is by then.
CreateExecutor(j) ==
  /\ SubmitAt(j, "create", "wire")
  /\ \E e \in Executors \ Referenced :
       /\ globalExec' = e
       /\ submitExec' = [submitExec EXCEPT ![j] = e]
  /\ UNCHANGED <<store, serviceExec, queue, workerOf, mutex, runnerVars,
                 submitView, workerVars, cancelVars, lockVars, restarts>>

\* set_executor() is given the global, which another request may have replaced.
WireExecutor(j) ==
  /\ SubmitAt(j, "wire", "read")
  /\ serviceExec' = globalExec
  /\ UNCHANGED <<store, globalExec, queue, workerOf, mutex, runnerVars,
                 submitExec, submitView, workerVars, cancelVars, lockVars,
                 restarts>>

\* submit_job(): reads the list without the executor's lock ...
ReadJobs(j) ==
  /\ SubmitAt(j, "read", "append")
  /\ submitView' = [submitView EXCEPT ![j] = store]
  /\ UNCHANGED <<store, executorVars, mutex, runnerVars, submitExec, workerVars,
                 cancelVars, lockVars, restarts>>

\* ... and writes it back with the new job.
AppendJob(j) ==
  /\ \/ /\ SubmitAt(j, "append", IF serviceExec = None THEN "done" ELSE "enqueue")
        /\ store' = [submitView[j] EXCEPT ![j] = "planned"]
        /\ submitExec' = [submitExec EXCEPT ![j] = serviceExec]
     \/ /\ WritesFail
        /\ SubmitAt(j, "append", "done")
        /\ UNCHANGED <<store, submitExec>>
  /\ UNCHANGED <<executorVars, mutex, runnerVars, submitView, workerVars,
                 cancelVars, lockVars, restarts>>

\* enqueue(): under the lock, reads ...
EnterEnqueue(j) ==
  LET e == submitExec[j] IN
  /\ SubmitAt(j, "enqueue", "mark")
  /\ mutex[e] = None
  /\ mutex' = [mutex EXCEPT ![e] = Submitter(j)]
  /\ submitView' = [submitView EXCEPT ![j] = store]
  /\ UNCHANGED <<store, executorVars, runnerVars, submitExec, workerVars,
                 cancelVars, lockVars, restarts>>

\* ... and writes QUEUED.
MarkQueued(j) ==
  /\ \/ /\ SubmitAt(j, "mark", "put")
        /\ store' = Updated(submitView[j], j, "queued")
     \/ /\ WritesFail
        /\ SubmitAt(j, "mark", "done")
        /\ UNCHANGED store
  /\ mutex' = [mutex EXCEPT ![submitExec[j]] = None]
  /\ UNCHANGED <<executorVars, runnerVars, submitExec, submitView, workerVars,
                 cancelVars, lockVars, restarts>>

\* is_alive()
WorkerAlive(e) == \E w \in Workers : w = workerOf[e] /\ workerPc[w] # "dead"

\* The job enters the FIFO; _ensure_worker_running() looks for a live worker ...
PutJob(j) ==
  LET e == submitExec[j] IN
  /\ SubmitAt(j, "put", IF WorkerAlive(e) THEN "done" ELSE "spawn")
  /\ queue' = [queue EXCEPT ![e] = Append(@, j)]
  /\ UNCHANGED <<store, globalExec, serviceExec, workerOf, mutex, runnerVars,
                 submitExec, submitView, workerVars, cancelVars, lockVars,
                 restarts>>

\* ... and starts one when it saw none.
SpawnWorker(j) ==
  LET e == submitExec[j] IN
  /\ SubmitAt(j, "spawn", "done")
  /\ \E w \in Workers :
       /\ workerPc[w] = "none"
       /\ workerOf' = [workerOf EXCEPT ![e] = w]
       /\ workerPc' = [workerPc EXCEPT ![w] = "get"]
       /\ workerExec' = [workerExec EXCEPT ![w] = e]
  /\ UNCHANGED <<store, globalExec, serviceExec, queue, mutex, runnerVars,
                 submitExec, submitView, workerJob, workerView, raised,
                 cancelVars, lockVars, restarts>>

SubmitStep(j) ==
  \/ CreateExecutor(j) \/ WireExecutor(j) \/ ReadJobs(j) \/ AppendJob(j)
  \/ EnterEnqueue(j) \/ MarkQueued(j) \/ PutJob(j) \/ SpawnWorker(j)

-----------------------------------------------------------------------------
\* The worker thread.
WorkerAt(w, from, to) ==
  /\ workerPc[w] = from
  /\ workerPc' = [workerPc EXCEPT ![w] = to]

TakeJob(w) ==
  LET e == workerExec[w] IN
  /\ WorkerAt(w, "get", "begin")
  /\ queue[e] # <<>>
  /\ workerJob' = [workerJob EXCEPT ![w] = Head(queue[e])]
  /\ queue' = [queue EXCEPT ![e] = Tail(@)]
  /\ UNCHANGED <<store, globalExec, serviceExec, workerOf, mutex, runnerVars,
                 submitVars, workerExec, workerView, raised, cancelVars,
                 lockVars, restarts>>

\* try_begin_training(): the lock is taken only when no model is ACTIVE.
BeginExclusive(w) ==
  /\ \/ /\ WorkerAt(w, "begin", "start")
        /\ Admission!TryBegin(workerJob[w])
     \/ /\ WorkerAt(w, "begin", "refuse")
        /\ active # {}
        /\ UNCHANGED lockVars
  /\ UNCHANGED <<store, executorVars, mutex, runnerVars, submitVars, workerExec,
                 workerJob, workerView, raised, cancelVars, restarts>>

\* Every change of jobs.json by the worker: _lock is taken, the list read ...
EnterLock(w) ==
  LET e == workerExec[w] IN
  /\ workerPc[w] \in {"refuse", "start", "progress", "finish", "abort"}
  /\ mutex[e] = None
  /\ mutex' = [mutex EXCEPT ![e] = w]
  /\ workerView' = [workerView EXCEPT ![w] = store]
  /\ UNCHANGED <<store, executorVars, runnerVars, submitVars, workerPc,
                 workerExec, workerJob, raised, cancelVars, lockVars, restarts>>

\* ... and written with one job changed, or the write raises; _lock is released.
WriteAndLeave(w, from, status, to, except) ==
  /\ workerPc[w] = from
  /\ mutex[workerExec[w]] = w
  /\ \/ /\ WorkerAt(w, from, to)
        /\ store' = Updated(workerView[w], workerJob[w], status)
        /\ UNCHANGED raised
     \/ /\ WritesFail
        /\ WorkerAt(w, from, except)
        /\ raised' = [raised EXCEPT ![w] = TRUE]
        /\ UNCHANGED store
  /\ mutex' = [mutex EXCEPT ![workerExec[w]] = None]

RefuseJob(w) ==
  /\ WriteAndLeave(w, "refuse", "failed", "get", "abort")
  /\ UNCHANGED <<executorVars, runnerVars, submitVars, workerExec, workerJob,
                 workerView, cancelVars, lockVars, restarts>>

\* (mutant) The status is not examined before the job is started.
StillQueuedUnchecked(w) == workerView[w][workerJob[w]] # "absent"

\* (mutant) The worker expects the status submit_job() wrote.
StillPlanned(w) == workerView[w][workerJob[w]] = "planned"

\* A job that is gone or no longer QUEUED is not started.
StillQueued(w) == workerView[w][workerJob[w]] = "queued"

StartJob(w) ==
  /\ workerPc[w] = "start"
  /\ mutex[workerExec[w]] = w
  /\ IF StillQueued(w)
     THEN WriteAndLeave(w, "start", "running", "resolve", "end")
     ELSE /\ WorkerAt(w, "start", "end")
          /\ mutex' = [mutex EXCEPT ![workerExec[w]] = None]
          /\ UNCHANGED <<store, raised>>
  /\ UNCHANGED <<executorVars, runnerVars, submitVars, workerExec, workerJob,
                 workerView, cancelVars, lockVars, restarts>>

\* _resolve_command(): raises when an entity, or the job itself, is missing.
ResolveCommand(w) ==
  /\ workerPc[w] = "resolve"
  /\ \/ /\ store[workerJob[w]] # "absent"
        /\ WorkerAt(w, "resolve", "launch")
        /\ UNCHANGED raised
     \/ /\ WorkerAt(w, "resolve", "end")
        /\ raised' = [raised EXCEPT ![w] = TRUE]
  /\ UNCHANGED <<store, executorVars, mutex, runnerVars, submitVars, workerExec,
                 workerJob, workerView, cancelVars, lockVars, restarts>>

\* SubprocessRunner.run(): forgets earlier cancellations ...
ClearCancel(w) ==
  /\ WorkerAt(w, "launch", "popen")
  /\ cancelSet' = [cancelSet EXCEPT ![workerExec[w]] = FALSE]
  /\ UNCHANGED <<store, executorVars, mutex, process, child, submitVars,
                 workerExec, workerJob, workerView, raised, cancelVars,
                 lockVars, restarts>>

\* ... and starts the process, or fails to.
LaunchProcess(w) ==
  LET e == workerExec[w] IN
  /\ \/ /\ WorkerAt(w, "popen", "run")
        /\ child' = [child EXCEPT ![workerJob[w]] = "alive"]
        /\ process' = [process EXCEPT ![e] = workerJob[w]]
        /\ UNCHANGED raised
     \/ /\ WorkerAt(w, "popen", "end")
        /\ process' = [process EXCEPT ![e] = None]
        /\ raised' = [raised EXCEPT ![w] = TRUE]
        /\ UNCHANGED child
  /\ UNCHANGED <<store, executorVars, mutex, cancelSet, submitVars, workerExec,
                 workerJob, workerView, cancelVars, lockVars, restarts>>

\* A line of output: progress to persist, or, after a cancel, the reason to
\* terminate the process.
ReadLine(w) ==
  /\ workerPc[w] = "run"
  /\ child[workerJob[w]] = "alive"
  /\ IF cancelSet[workerExec[w]]
     THEN /\ child' = [child EXCEPT ![workerJob[w]] = "bad"]
          /\ UNCHANGED workerPc
     ELSE /\ WorkerAt(w, "run", "progress")
          /\ UNCHANGED child
  /\ UNCHANGED <<store, executorVars, mutex, cancelSet, process, submitVars,
                 workerExec, workerJob, workerView, raised, cancelVars,
                 lockVars, restarts>>

\* on_progress(): the percentage is abstracted, the rewriting of the list is
\* not.  When it raises, run() forgets the process without ending it.
WriteProgress(w) ==
  LET e == workerExec[w] IN
  /\ workerPc[w] = "progress"
  /\ mutex[e] = w
  /\ mutex' = [mutex EXCEPT ![e] = None]
  /\ \/ /\ WorkerAt(w, "progress", "run")
        /\ store' = workerView[w]
        /\ UNCHANGED <<process, raised>>
     \/ /\ WritesFail
        /\ WorkerAt(w, "progress", "end")
        /\ process' = [process EXCEPT ![e] = None]
        /\ raised' = [raised EXCEPT ![w] = TRUE]
        /\ UNCHANGED store
  /\ UNCHANGED <<executorVars, cancelSet, child, submitVars, workerExec,
                 workerJob, workerView, cancelVars, lockVars, restarts>>

\* The training process ends by itself.
ChildExit(j) ==
  /\ child[j] = "alive"
  /\ \E r \in {"ok", "bad"} : child' = [child EXCEPT ![j] = r]
  /\ UNCHANGED <<store, executorVars, mutex, cancelSet, process, submitVars,
                 workerVars, cancelVars, lockVars, restarts>>

\* (mutant) run() returns without _process.wait().
NotWaited(w) == TRUE

ProcessEnded(w) == child[workerJob[w]] # "alive"

CollectExit(w) ==
  /\ WorkerAt(w, "run", "finish")
  /\ ProcessEnded(w)
  /\ process' = [process EXCEPT ![workerExec[w]] = None]
  /\ UNCHANGED <<store, executorVars, mutex, cancelSet, child, submitVars,
                 workerExec, workerJob, workerView, raised, cancelVars,
                 lockVars, restarts>>

\* (mutant) The exit code is not looked at.
OutcomeIgnoringExit(w) == "completed"

Outcome(w) == IF child[workerJob[w]] = "ok" THEN "completed" ELSE "failed"

FinishJob(w) ==
  /\ WriteAndLeave(w, "finish", Outcome(w), "end", "end")
  /\ UNCHANGED <<executorVars, runnerVars, submitVars, workerExec, workerJob,
                 workerView, cancelVars, lockVars, restarts>>

\* (mutant) The lock is released on the normal path only.
ReleasesLockOnSuccess(w) == ~raised[w]

\* finally: end_training(), on the normal and on the exceptional path.
ReleasesLock(w) == TRUE

EndExclusive(w) ==
  /\ WorkerAt(w, "end", IF raised[w] THEN "abort" ELSE "get")
  /\ IF ReleasesLock(w) THEN Admission!End ELSE UNCHANGED lockVars
  /\ UNCHANGED <<store, executorVars, mutex, runnerVars, submitVars, workerExec,
                 workerJob, workerView, raised, cancelVars, restarts>>

\* _process_item(): an exception of _run_job() fails the job; when that write
\* raises too, the exception ends the thread.
AbortJob(w) ==
  /\ workerPc[w] = "abort"
  /\ mutex[workerExec[w]] = w
  /\ mutex' = [mutex EXCEPT ![workerExec[w]] = None]
  /\ raised' = [raised EXCEPT ![w] = FALSE]
  /\ \/ /\ WorkerAt(w, "abort", "get")
        /\ store' = Updated(workerView[w], workerJob[w], "failed")
     \/ /\ WritesFail
        /\ WorkerAt(w, "abort", "dead")
        /\ UNCHANGED store
  /\ UNCHANGED <<executorVars, runnerVars, submitVars, workerExec, workerJob,
                 workerView, cancelVars, lockVars, restarts>>

WorkerStep(w) ==
  \/ TakeJob(w) \/ BeginExclusive(w) \/ EnterLock(w) \/ RefuseJob(w)
  \/ StartJob(w) \/ ResolveCommand(w) \/ ClearCancel(w) \/ LaunchProcess(w)
  \/ ReadLine(w) \/ WriteProgress(w) \/ CollectExit(w) \/ FinishJob(w)
  \/ EndExclusive(w) \/ AbortJob(w)

-----------------------------------------------------------------------------
\* POST .../training/{job_id}/cancel.
CancelQueued(j) ==
  LET e == serviceExec IN
  /\ cancelPc[j] = "idle"
  /\ e # None
  /\ mutex[e] = None
  /\ store[j] = "queued"
  /\ mutex' = [mutex EXCEPT ![e] = Canceller(j)]
  /\ cancelPc' = [cancelPc EXCEPT ![j] = "write"]
  /\ cancelExec' = [cancelExec EXCEPT ![j] = e]
  /\ cancelView' = [cancelView EXCEPT ![j] = store]
  /\ UNCHANGED <<store, executorVars, runnerVars, submitVars, workerVars,
                 lockVars, restarts>>

WriteCancelled(j) ==
  /\ cancelPc[j] = "write"
  /\ cancelPc' = [cancelPc EXCEPT ![j] = "done"]
  /\ mutex' = [mutex EXCEPT ![cancelExec[j]] = None]
  /\ \/ store' = Updated(cancelView[j], j, "failed")
     \/ WritesFail /\ UNCHANGED store
  /\ UNCHANGED <<executorVars, runnerVars, submitVars, workerVars, cancelExec,
                 cancelView, lockVars, restarts>>

\* runner.cancel(): sets the flag, and terminates the process if there is one.
CancelRunning(j) ==
  LET e == serviceExec IN
  /\ cancelPc[j] = "idle"
  /\ e # None
  /\ mutex[e] = None
  /\ store[j] = "running"
  /\ cancelPc' = [cancelPc EXCEPT ![j] = "done"]
  /\ cancelSet' = [cancelSet EXCEPT ![e] = TRUE]
  /\ child' = [k \in Jobs |-> IF k = process[e] /\ child[k] = "alive"
                              THEN "bad" ELSE child[k]]
  /\ UNCHANGED <<store, executorVars, mutex, process, submitVars, workerVars,
                 cancelExec, cancelView, lockVars, restarts>>

-----------------------------------------------------------------------------
\* Generation-side use of the scheduler.
MoveModel ==
  /\ \E m \in Models : Admission!Activate(m) \/ Admission!Deactivate(m)
  /\ UNCHANGED <<store, executorVars, mutex, runnerVars, submitVars, workerVars,
                 cancelVars, restarts>>

\* The process dies and is started again: jobs.json is what is left.  Training
\* processes are not children that die with it, they are just not known any more.
Restart ==
  /\ restarts < MaxRestarts
  /\ restarts' = restarts + 1
  /\ globalExec' = None
  /\ serviceExec' = None
  /\ queue' = [e \in Executors |-> <<>>]
  /\ mutex' = [e \in Executors |-> None]
  /\ workerOf' = [e \in Executors |-> None]
  /\ cancelSet' = [e \in Executors |-> FALSE]
  /\ process' = [e \in Executors |-> None]
  /\ submitPc' = [j \in Jobs |-> IF submitPc[j] \in {"idle", "done"}
                                 THEN submitPc[j] ELSE "lost"]
  /\ submitExec' = [j \in Jobs |-> None]
  /\ workerPc' = [w \in Workers |-> IF workerPc[w] = "none" THEN "none" ELSE "dead"]
  /\ workerExec' = [w \in Workers |-> None]
  /\ raised' = [w \in Workers |-> FALSE]
  /\ cancelPc' = [j \in Jobs |-> IF cancelPc[j] = "write" THEN "done" ELSE cancelPc[j]]
  /\ active' = {}
  /\ holder' = None
  /\ UNCHANGED <<store, child, submitView, workerJob, workerView,
                 cancelExec, cancelView>>

\* Nothing is left to do: every request was served and every worker waits.
Idle ==
  /\ \A j \in Jobs : submitPc[j] \in {"done", "lost"}
  /\ \A w \in Workers : workerPc[w] \in {"none", "dead", "get"}
  /\ UNCHANGED vars

Next ==
  \/ \E j \in Jobs : Arrive(j) \/ SubmitStep(j) \/ ChildExit(j)
  \/ \E w \in Workers : WorkerStep(w)
  \/ \E j \in Jobs : CancelQueued(j) \/ WriteCancelled(j) \/ CancelRunning(j)
  \/ MoveModel
  \/ Restart
  \/ Idle

Spec == Init /\ [][Next]_vars

\* Threads of the process are scheduled, and a training process ends some day.
Fairness ==
  /\ \A j \in Jobs : /\ WF_vars(SubmitStep(j))
                     /\ WF_vars(WriteCancelled(j))
                     /\ WF_vars(ChildExit(j))
  /\ \A w \in Workers : WF_vars(WorkerStep(w))

FairSpec == Spec /\ Fairness

-----------------------------------------------------------------------------
TypeOK ==
  /\ store \in Stores
  /\ {globalExec, serviceExec} \subseteq Executors \cup {None}
  /\ queue \in [Executors -> Seq(Jobs)]
  /\ mutex \in [Executors -> {None} \cup Workers \cup ({"submit", "cancel"} \X Jobs)]
  /\ workerOf \in [Executors -> Workers \cup {None}]
  /\ cancelSet \in [Executors -> BOOLEAN]
  /\ process \in [Executors -> Jobs \cup {None}]
  /\ submitPc \in [Jobs -> {"idle", "create", "wire", "read", "append", "enqueue",
                            "mark", "put", "spawn", "done", "lost"}]
  /\ submitExec \in [Jobs -> Executors \cup {None}]
  /\ submitView \in [Jobs -> Stores \cup {None}]
  /\ workerPc \in [Workers -> {"none", "get", "begin", "refuse", "start", "resolve",
                               "launch", "popen", "run", "progress", "finish",
                               "end", "abort", "dead"}]
  /\ workerExec \in [Workers -> Executors \cup {None}]
  /\ workerJob \in [Workers -> Jobs \cup {None}]
  /\ workerView \in [Workers -> Stores \cup {None}]
  /\ raised \in [Workers -> BOOLEAN]
  /\ child \in [Jobs -> {"none", "alive", "ok", "bad"}]
  /\ cancelPc \in [Jobs -> {"idle", "write", "done"}]
  /\ cancelExec \in [Jobs -> Executors \cup {None}]
  /\ cancelView \in [Jobs -> Stores \cup {None}]
  /\ active \subseteq Models
  /\ holder \in Jobs \cup {None}
  /\ restarts \in 0..MaxRestarts

(***************************************************************************)
(* Jobs run one at a time (executor.py:5, :274): no two training processes *)
(* are alive together.                                                     *)
(***************************************************************************)
OneAtATime ==
  \A j, k \in Jobs : child[j] = "alive" /\ child[k] = "alive" => j = k

(***************************************************************************)
(* The exclusive lock covers the life of the training process: as long as  *)
(* it runs its job is the holder and no managed model is in VRAM           *)
(* (executor.py:6-12).                                                     *)
(***************************************************************************)
ProcessHoldsLock ==
  \A j \in Jobs : child[j] = "alive" => holder = j /\ active = {}

(***************************************************************************)
(* The lock is never left behind: a live worker is working on the holder   *)
(* (executor.py:11, "released unconditionally").                           *)
(***************************************************************************)
Busy == {"start", "resolve", "launch", "popen", "run", "progress", "finish", "end"}
LockHasOwner ==
  holder # None => \E w \in Workers : workerJob[w] = holder /\ workerPc[w] \in Busy

(***************************************************************************)
(* Nothing takes a final status back but submit_job(), which writes a list *)
(* it read without the executor's lock (service.py:54-72).                 *)
(***************************************************************************)
RevivedOnlyBySubmit ==
  [][\A j \in Jobs : store[j] \in Terminal /\ store'[j] \notin Terminal
       => \E k \in Jobs : submitPc[k] = "append" /\ submitPc'[k] # "append"]_vars

(***************************************************************************)
(* COMPLETED is reported only of a job whose process exited with 0, across *)
(* restarts included.                                                      *)
(***************************************************************************)
CompletedMeansExitZero ==
  [][\A j \in Jobs : store[j] # "completed" /\ store'[j] = "completed"
       => child[j] = "ok"]_vars

(***************************************************************************)
(* A job in a FIFO reaches a final status, whatever a stale submit_job()   *)
(* writes over its status meanwhile; or a write of the executor that       *)
(* overlaps its submission has dropped it from jobs.json (service.py:54).  *)
(***************************************************************************)
InQueue(j) == \E e \in Executors : \E i \in DOMAIN queue[e] : queue[e][i] = j
QueuedJobsSettle ==
  \A j \in Jobs : InQueue(j) ~> store[j] \in Terminal \cup {"absent"}

(***************************************************************************)
(* Generation is not locked out for ever: the training lock is released.   *)
(***************************************************************************)
LockIsReleased == holder # None ~> holder = None
=============================================================================
