--------------------------- MODULE TrainingProofs ---------------------------
(***************************************************************************)
(* Proofs about TrainingExecutor, for any number of jobs, executors,       *)
(* workers, models and restarts.                                           *)
(***************************************************************************)
EXTENDS TrainingExecutor, SequenceTheorems, TLAPS

-----------------------------------------------------------------------------
\* What each kind of step leaves alone.
CancelStep(j) == CancelQueued(j) \/ WriteCancelled(j) \/ CancelRunning(j)

LEMMA SubmitLeaves ==
  ASSUME NEW j \in Jobs, Arrive(j) \/ SubmitStep(j)
  PROVE  UNCHANGED <<runnerVars, cancelVars, lockVars, restarts>>
BY DEF Arrive, SubmitStep, CreateExecutor, WireExecutor, ReadJobs, AppendJob, EnterEnqueue,
   MarkQueued, PutJob, SpawnWorker

LEMMA WorkerLeaves ==
  ASSUME NEW w \in Workers, WorkerStep(w)
  PROVE  UNCHANGED <<globalExec, serviceExec, workerOf, submitVars, cancelVars, workerExec, restarts>>
<1>1. CASE TakeJob(w) \/ BeginExclusive(w) \/ EnterLock(w) \/ ResolveCommand(w) \/ ClearCancel(w)
  BY <1>1 DEF TakeJob, BeginExclusive, EnterLock, ResolveCommand, ClearCancel, executorVars
<1>2. CASE RefuseJob(w) \/ StartJob(w) \/ FinishJob(w) \/ AbortJob(w) \/ WriteProgress(w)
  BY <1>2 DEF RefuseJob, StartJob, FinishJob, AbortJob, WriteProgress, executorVars
<1>3. CASE LaunchProcess(w) \/ ReadLine(w) \/ CollectExit(w) \/ EndExclusive(w)
  BY <1>3 DEF LaunchProcess, ReadLine, CollectExit, EndExclusive, executorVars
<1> QED
  BY <1>1, <1>2, <1>3 DEF WorkerStep

LEMMA CancelLeaves ==
  ASSUME NEW j \in Jobs, CancelStep(j)
  PROVE  UNCHANGED <<executorVars, process, submitVars, workerVars, lockVars, restarts>>
BY DEF CancelStep, CancelQueued, WriteCancelled, CancelRunning, runnerVars

LEMMA ChildLeaves ==
  ASSUME NEW j \in Jobs, ChildExit(j)
  PROVE  UNCHANGED <<store, executorVars, mutex, cancelSet, process, submitVars, workerVars,
                     cancelVars, lockVars, restarts>>
BY DEF ChildExit

-----------------------------------------------------------------------------
(***************************************************************************)
(* Types.  What a thread uses of its own variables is there when it uses   *)
(* it.                                                                     *)
(***************************************************************************)
SubmitTyped ==
  /\ submitPc \in [Jobs -> {"idle", "create", "wire", "read", "append", "enqueue",
                            "mark", "put", "spawn", "done", "lost"}]
  /\ submitExec \in [Jobs -> Executors \cup {None}]
  /\ submitView \in [Jobs -> Stores \cup {None}]
  /\ \A j \in Jobs : /\ submitPc[j] \in {"enqueue", "mark", "put", "spawn"} => submitExec[j] \in Executors
                     /\ submitPc[j] \in {"append", "mark"} => submitView[j] \in Stores

WorkerTyped ==
  /\ workerPc \in [Workers -> {"none", "get", "begin", "refuse", "start", "resolve",
                               "launch", "popen", "run", "progress", "finish",
                               "end", "abort", "dead"}]
  /\ workerExec \in [Workers -> Executors \cup {None}]
  /\ workerJob \in [Workers -> Jobs \cup {None}]
  /\ workerView \in [Workers -> Stores \cup {None}]
  /\ raised \in [Workers -> BOOLEAN]
  /\ \A w \in Workers : /\ workerPc[w] \notin {"none", "dead"} => workerExec[w] \in Executors
                        /\ workerPc[w] \notin {"none", "dead", "get"} => workerJob[w] \in Jobs

CancelTyped ==
  /\ cancelPc \in [Jobs -> {"idle", "write", "done"}]
  /\ cancelExec \in [Jobs -> Executors \cup {None}]
  /\ cancelView \in [Jobs -> Stores \cup {None}]
  /\ \A j \in Jobs : cancelPc[j] = "write" => cancelExec[j] \in Executors /\ cancelView[j] \in Stores

MutexTyped ==
  /\ mutex \in [Executors -> {None} \cup Workers \cup ({"submit", "cancel"} \X Jobs)]
  /\ \A e \in Executors, w \in Workers : mutex[e] = w => workerView[w] \in Stores

ExecutorTyped ==
  /\ {globalExec, serviceExec} \subseteq Executors \cup {None}
  /\ queue \in [Executors -> Seq(Jobs)]
  /\ workerOf \in [Executors -> Workers \cup {None}]

RunnerTyped ==
  /\ cancelSet \in [Executors -> BOOLEAN]
  /\ process \in [Executors -> Jobs \cup {None}]
  /\ child \in [Jobs -> {"none", "alive", "ok", "bad"}]

LockTyped == active \subseteq Models /\ holder \in Jobs \cup {None}

TypeInv ==
  /\ store \in Stores
  /\ SubmitTyped /\ WorkerTyped /\ CancelTyped /\ MutexTyped
  /\ ExecutorTyped /\ RunnerTyped /\ LockTyped
  /\ restarts \in 0..MaxRestarts

LEMMA UpdatedHasType ==
  ASSUME NEW view \in Stores, NEW j \in Jobs, NEW status \in Statuses
  PROVE  Updated(view, j, status) \in Stores
BY DEF Updated, Stores

LEMMA RestartsAreBounded == MaxRestarts \in Nat
BY TrainingAssumption

LEMMA TypeInitial == Init => TypeInv
<1> SUFFICES ASSUME Init PROVE TypeInv
  OBVIOUS
<1>1. store \in Stores /\ restarts \in 0..MaxRestarts
  BY RestartsAreBounded DEF Init, Stores, Statuses
<1>2. SubmitTyped /\ WorkerTyped /\ CancelTyped
  BY DEF Init, SubmitTyped, WorkerTyped, CancelTyped
<1>3. MutexTyped
  BY TrainingAssumption DEF Init, MutexTyped
<1>4. ExecutorTyped /\ RunnerTyped
  BY DEF Init, ExecutorTyped, RunnerTyped
<1>5. LockTyped
  BY DEF Init, Admission!Init, LockTyped
<1> QED
  BY <1>1, <1>2, <1>3, <1>4, <1>5 DEF TypeInv

LEMMA SubmitTypes == TypeInv /\ [Next]_vars => SubmitTyped'
<1> SUFFICES ASSUME TypeInv, [Next]_vars PROVE SubmitTyped'
  OBVIOUS
<1> USE DEF SubmitTyped, SubmitAt
<1>0. SubmitTyped /\ ExecutorTyped /\ store \in Stores
  BY DEF TypeInv
<1>1. ASSUME NEW j \in Jobs, Arrive(j) \/ SubmitStep(j) PROVE SubmitTyped'
  <2>1. CASE Arrive(j) \/ CreateExecutor(j) \/ WireExecutor(j) \/ ReadJobs(j)
    BY <1>0, <2>1 DEF Arrive, CreateExecutor, WireExecutor, ReadJobs
  <2>2. CASE AppendJob(j)
    <3>1. serviceExec \in Executors \cup {None}
      BY <1>0 DEF ExecutorTyped
    <3>2. CASE SubmitAt(j, "append", "done") /\ submitExec' = submitExec
      BY <1>0, <2>2, <3>2 DEF AppendJob
    <3>3. CASE /\ SubmitAt(j, "append", IF serviceExec = None THEN "done" ELSE "enqueue")
               /\ submitExec' = [submitExec EXCEPT ![j] = serviceExec]
      BY <1>0, <2>2, <3>1, <3>3 DEF AppendJob
    <3> QED
      BY <2>2, <3>2, <3>3 DEF AppendJob
  <2>3. CASE EnterEnqueue(j)
    BY <1>0, <2>3 DEF EnterEnqueue
  <2>4. CASE MarkQueued(j) \/ PutJob(j) \/ SpawnWorker(j)
    BY <1>0, <2>4 DEF MarkQueued, PutJob, SpawnWorker
  <2> QED
    BY <1>1, <2>1, <2>2, <2>3, <2>4 DEF SubmitStep
<1>2. CASE Restart
  BY <1>0, <1>2 DEF Restart
<1>3. CASE UNCHANGED submitVars
  BY <1>0, <1>3 DEF submitVars
<1>4. CASE MoveModel \/ UNCHANGED vars
  BY <1>3, <1>4 DEF MoveModel, vars
<1> QED
  BY <1>1, <1>2, <1>3, <1>4, WorkerLeaves, CancelLeaves, ChildLeaves DEF Next, Idle, CancelStep

LEMMA WorkerTypes == TypeInv /\ [Next]_vars => WorkerTyped'
<1> SUFFICES ASSUME TypeInv, [Next]_vars PROVE WorkerTyped'
  OBVIOUS
<1> USE DEF WorkerTyped, WorkerAt
<1>0. WorkerTyped /\ SubmitTyped /\ ExecutorTyped /\ store \in Stores
  BY DEF TypeInv
<1>1. ASSUME NEW j \in Jobs, Arrive(j) \/ SubmitStep(j) PROVE WorkerTyped'
  <2>1. CASE SpawnWorker(j)
    BY <1>0, <2>1 DEF SpawnWorker, SubmitAt, SubmitTyped
  <2>2. CASE ~SpawnWorker(j)
    <3>1. UNCHANGED workerVars
      BY <1>1, <2>2 DEF Arrive, SubmitStep, CreateExecutor, WireExecutor, ReadJobs, AppendJob,
         EnterEnqueue, MarkQueued, PutJob
    <3> QED
      BY <1>0, <3>1 DEF workerVars
  <2> QED
    BY <2>1, <2>2
<1>2. ASSUME NEW w \in Workers, WorkerStep(w) PROVE WorkerTyped'
  <2>1. CASE TakeJob(w)
    <3>1. Head(queue[workerExec[w]]) \in Jobs
      BY <1>0, <2>1, HeadTailProperties DEF TakeJob, ExecutorTyped
    <3> QED
      BY <1>0, <2>1, <3>1 DEF TakeJob
  <2>2. CASE BeginExclusive(w) \/ EnterLock(w) \/ ResolveCommand(w) \/ ClearCancel(w) \/ LaunchProcess(w)
    BY <1>0, <2>2 DEF BeginExclusive, EnterLock, ResolveCommand, ClearCancel, LaunchProcess
  <2>3. CASE RefuseJob(w) \/ FinishJob(w)
    BY <1>0, <2>3 DEF RefuseJob, FinishJob, WriteAndLeave
  <2>4. CASE StartJob(w)
    BY <1>0, <2>4 DEF StartJob, WriteAndLeave
  <2>5. CASE ReadLine(w) \/ WriteProgress(w) \/ CollectExit(w)
    BY <1>0, <2>5 DEF ReadLine, WriteProgress, CollectExit
  <2>6. CASE EndExclusive(w) \/ AbortJob(w)
    BY <1>0, <2>6 DEF EndExclusive, AbortJob
  <2> QED
    BY <1>2, <2>1, <2>2, <2>3, <2>4, <2>5, <2>6 DEF WorkerStep
<1>3. CASE Restart
  BY <1>0, <1>3 DEF Restart
<1>4. CASE UNCHANGED workerVars
  BY <1>0, <1>4 DEF workerVars
<1>5. CASE MoveModel \/ UNCHANGED vars
  BY <1>4, <1>5 DEF MoveModel, vars
<1> QED
  BY <1>1, <1>2, <1>3, <1>4, <1>5, CancelLeaves, ChildLeaves DEF Next, Idle, CancelStep

LEMMA CancelTypes == TypeInv /\ [Next]_vars => CancelTyped'
<1> SUFFICES ASSUME TypeInv, [Next]_vars PROVE CancelTyped'
  OBVIOUS
<1> USE DEF CancelTyped
<1>0. CancelTyped /\ ExecutorTyped /\ store \in Stores
  BY DEF TypeInv
<1>1. ASSUME NEW j \in Jobs, CancelStep(j) PROVE CancelTyped'
  <2>1. CASE CancelQueued(j)
    BY <1>0, <2>1 DEF CancelQueued, ExecutorTyped
  <2>2. CASE WriteCancelled(j) \/ CancelRunning(j)
    BY <1>0, <2>2 DEF WriteCancelled, CancelRunning
  <2> QED
    BY <1>1, <2>1, <2>2 DEF CancelStep
<1>2. CASE Restart
  BY <1>0, <1>2 DEF Restart
<1>3. CASE UNCHANGED cancelVars
  BY <1>0, <1>3 DEF cancelVars
<1>4. CASE MoveModel \/ UNCHANGED vars
  BY <1>3, <1>4 DEF MoveModel, vars
<1> QED
  BY <1>1, <1>2, <1>3, <1>4, SubmitLeaves, WorkerLeaves, ChildLeaves DEF Next, Idle, CancelStep

LEMMA MutexTypes == TypeInv /\ [Next]_vars => MutexTyped'
<1> SUFFICES ASSUME TypeInv, [Next]_vars PROVE MutexTyped'
  OBVIOUS
<1> USE TrainingAssumption DEF MutexTyped
<1>0. MutexTyped /\ store \in Stores /\ WorkerTyped
  BY DEF TypeInv
<1> DEFINE Others == {None} \cup ({"submit", "cancel"} \X Jobs)
<1>a. ASSUME UNCHANGED <<mutex, workerView>> PROVE MutexTyped'
  BY <1>0, <1>a
<1>b. ASSUME UNCHANGED workerView, NEW e, NEW x \in Others, mutex' = [mutex EXCEPT ![e] = x]
      PROVE  MutexTyped'
  BY <1>0, <1>b
<1>c. None \in Others /\ \A j \in Jobs : Submitter(j) \in Others /\ Canceller(j) \in Others
  BY DEF Submitter, Canceller
<1> HIDE DEF Others, MutexTyped
<1>2. ASSUME NEW j \in Jobs, Arrive(j) \/ SubmitStep(j) PROVE MutexTyped'
  <2>1. CASE EnterEnqueue(j) \/ MarkQueued(j)
    <3>1. /\ workerView' = workerView
          /\ \/ mutex' = [mutex EXCEPT ![submitExec[j]] = Submitter(j)]
             \/ mutex' = [mutex EXCEPT ![submitExec[j]] = None]
      BY <2>1 DEF EnterEnqueue, MarkQueued, workerVars
    <3> QED
      BY <1>b, <1>c, <3>1
  <2>2. CASE ~(EnterEnqueue(j) \/ MarkQueued(j))
    <3>1. UNCHANGED <<mutex, workerView>>
      BY <1>2, <2>2 DEF Arrive, SubmitStep, CreateExecutor, WireExecutor, ReadJobs, AppendJob,
         PutJob, SpawnWorker, workerVars
    <3> QED
      BY <1>a, <3>1
  <2> QED
    BY <2>1, <2>2
<1>3. ASSUME NEW w \in Workers, WorkerStep(w) PROVE MutexTyped'
  <2>1. CASE EnterLock(w)
    BY <1>0, <2>1 DEF EnterLock, WorkerTyped, MutexTyped
  <2>2. CASE RefuseJob(w) \/ FinishJob(w) \/ StartJob(w) \/ AbortJob(w) \/ WriteProgress(w)
    <3>1. workerView' = workerView /\ mutex' = [mutex EXCEPT ![workerExec[w]] = None]
      BY <2>2 DEF RefuseJob, FinishJob, StartJob, AbortJob, WriteProgress, WriteAndLeave
    <3> QED
      BY <1>b, <1>c, <3>1
  <2>3. CASE ~(EnterLock(w) \/ RefuseJob(w) \/ FinishJob(w) \/ StartJob(w) \/ AbortJob(w) \/ WriteProgress(w))
    <3>1. UNCHANGED <<mutex, workerView>>
      BY <1>3, <2>3 DEF WorkerStep, TakeJob, BeginExclusive, ResolveCommand, ClearCancel,
         LaunchProcess, ReadLine, CollectExit, EndExclusive
    <3> QED
      BY <1>a, <3>1
  <2> QED
    BY <2>1, <2>2, <2>3
<1>4. ASSUME NEW j \in Jobs, CancelStep(j) PROVE MutexTyped'
  <2>1. /\ workerView' = workerView
        /\ \/ UNCHANGED mutex
           \/ mutex' = [mutex EXCEPT ![serviceExec] = Canceller(j)]
           \/ mutex' = [mutex EXCEPT ![cancelExec[j]] = None]
    BY <1>4 DEF CancelStep, CancelQueued, WriteCancelled, CancelRunning, workerVars
  <2> QED
    BY <1>a, <1>b, <1>c, <2>1
<1>5. CASE Restart
  BY <1>0, <1>5 DEF Restart, MutexTyped
<1>6. CASE MoveModel \/ UNCHANGED vars \/ \E j \in Jobs : ChildExit(j)
  <2>1. UNCHANGED <<mutex, workerView>>
    BY <1>6 DEF MoveModel, vars, workerVars, ChildExit
  <2> QED
    BY <1>a, <2>1
<1> QED
  BY <1>2, <1>3, <1>4, <1>5, <1>6 DEF Next, Idle, CancelStep

LEMMA ExecutorTypes == TypeInv /\ [Next]_vars => ExecutorTyped'
<1> SUFFICES ASSUME TypeInv, [Next]_vars PROVE ExecutorTyped'
  OBVIOUS
<1> USE DEF ExecutorTyped, executorVars
<1>0. ExecutorTyped /\ SubmitTyped /\ WorkerTyped
  BY DEF TypeInv
<1>1. ASSUME NEW j \in Jobs, Arrive(j) \/ SubmitStep(j) PROVE ExecutorTyped'
  <2>1. CASE CreateExecutor(j) \/ WireExecutor(j)
    BY <1>0, <2>1 DEF CreateExecutor, WireExecutor
  <2>2. CASE PutJob(j)
    <3>1. submitExec[j] \in Executors
      BY <1>0, <2>2 DEF PutJob, SubmitAt, SubmitTyped
    <3>2. Append(queue[submitExec[j]], j) \in Seq(Jobs)
      BY <1>0, <3>1, AppendProperties
    <3> QED
      BY <1>0, <2>2, <3>2 DEF PutJob
  <2>3. CASE SpawnWorker(j)
    BY <1>0, <2>3 DEF SpawnWorker
  <2>4. CASE ~(CreateExecutor(j) \/ WireExecutor(j) \/ PutJob(j) \/ SpawnWorker(j))
    <3>1. UNCHANGED executorVars
      BY <1>1, <2>4 DEF Arrive, SubmitStep, ReadJobs, AppendJob, EnterEnqueue, MarkQueued
    <3> QED
      BY <1>0, <3>1
  <2> QED
    BY <2>1, <2>2, <2>3, <2>4
<1>2. ASSUME NEW w \in Workers, WorkerStep(w) PROVE ExecutorTyped'
  <2>1. CASE TakeJob(w)
    <3>1. workerExec[w] \in Executors
      BY <1>0, <2>1 DEF TakeJob, WorkerAt, WorkerTyped
    <3>2. Tail(queue[workerExec[w]]) \in Seq(Jobs)
      BY <1>0, <2>1, <3>1, HeadTailProperties DEF TakeJob
    <3> QED
      BY <1>0, <2>1, <3>2 DEF TakeJob
  <2>2. CASE ~TakeJob(w)
    <3>1. UNCHANGED executorVars
      BY <1>2, <2>2 DEF WorkerStep, BeginExclusive, EnterLock, RefuseJob, StartJob, ResolveCommand,
         ClearCancel, LaunchProcess, ReadLine, WriteProgress, CollectExit, FinishJob, EndExclusive,
         AbortJob
    <3> QED
      BY <1>0, <3>1
  <2> QED
    BY <2>1, <2>2
<1>3. CASE Restart
  BY <1>0, <1>3 DEF Restart
<1>4. CASE UNCHANGED executorVars
  BY <1>0, <1>4
<1>5. CASE MoveModel \/ UNCHANGED vars
  BY <1>4, <1>5 DEF MoveModel, vars
<1> QED
  BY <1>1, <1>2, <1>3, <1>4, <1>5, CancelLeaves, ChildLeaves DEF Next, Idle, CancelStep

LEMMA RunnerTypes == TypeInv /\ [Next]_vars => RunnerTyped'
<1> SUFFICES ASSUME TypeInv, [Next]_vars PROVE RunnerTyped'
  OBVIOUS
<1> USE DEF RunnerTyped, runnerVars
<1>0. RunnerTyped /\ WorkerTyped
  BY DEF TypeInv
<1>1. ASSUME NEW w \in Workers, WorkerStep(w) PROVE RunnerTyped'
  <2>1. CASE ClearCancel(w) \/ LaunchProcess(w)
    BY <1>0, <2>1 DEF ClearCancel, LaunchProcess, WorkerAt, WorkerTyped
  <2>2. CASE ReadLine(w) \/ WriteProgress(w) \/ CollectExit(w)
    BY <1>0, <2>2 DEF ReadLine, WriteProgress, CollectExit
  <2>3. CASE ~(ClearCancel(w) \/ LaunchProcess(w) \/ ReadLine(w) \/ WriteProgress(w) \/ CollectExit(w))
    <3>1. UNCHANGED runnerVars
      BY <1>1, <2>3 DEF WorkerStep, TakeJob, BeginExclusive, EnterLock, RefuseJob, StartJob,
         ResolveCommand, FinishJob, EndExclusive, AbortJob
    <3> QED
      BY <1>0, <3>1
  <2> QED
    BY <2>1, <2>2, <2>3
<1>2. ASSUME NEW j \in Jobs, CancelStep(j) \/ ChildExit(j) PROVE RunnerTyped'
  BY <1>0, <1>2 DEF CancelStep, CancelQueued, WriteCancelled, CancelRunning, ChildExit
<1>3. CASE Restart
  BY <1>0, <1>3 DEF Restart
<1>4. CASE UNCHANGED runnerVars
  BY <1>0, <1>4
<1>5. CASE MoveModel \/ UNCHANGED vars
  BY <1>4, <1>5 DEF MoveModel, vars
<1> QED
  BY <1>1, <1>2, <1>3, <1>4, <1>5, SubmitLeaves DEF Next, Idle, CancelStep

LEMMA LockTypes == TypeInv /\ [Next]_vars => LockTyped' /\ restarts' \in 0..MaxRestarts
<1> SUFFICES ASSUME TypeInv, [Next]_vars PROVE LockTyped' /\ restarts' \in 0..MaxRestarts
  OBVIOUS
<1> USE DEF LockTyped, lockVars
<1>0. LockTyped /\ WorkerTyped /\ restarts \in 0..MaxRestarts
  BY DEF TypeInv
<1>1. ASSUME NEW w \in Workers, WorkerStep(w) PROVE LockTyped' /\ restarts' = restarts
  <2>1. CASE BeginExclusive(w) \/ EndExclusive(w)
    BY <1>0, <2>1 DEF BeginExclusive, EndExclusive, Admission!TryBegin, Admission!End, WorkerAt, WorkerTyped
  <2>2. CASE ~(BeginExclusive(w) \/ EndExclusive(w))
    BY <1>0, <1>1, <2>2 DEF WorkerStep, TakeJob, EnterLock, RefuseJob, StartJob, ResolveCommand,
       ClearCancel, LaunchProcess, ReadLine, WriteProgress, CollectExit, FinishJob, AbortJob
  <2> QED
    BY <2>1, <2>2
<1>2. CASE MoveModel
  BY <1>0, <1>2 DEF MoveModel, Admission!Activate, Admission!Deactivate
<1>3. CASE Restart
  <2>1. LockTyped'
    BY <1>3 DEF Restart
  <2>2. restarts' \in 0..MaxRestarts
    BY <1>0, <1>3, RestartsAreBounded DEF Restart
  <2> QED
    BY <2>1, <2>2
<1>4. CASE UNCHANGED <<lockVars, restarts>>
  BY <1>0, <1>4
<1>5. CASE UNCHANGED vars
  BY <1>4, <1>5 DEF vars
<1> QED
  BY <1>0, <1>1, <1>2, <1>3, <1>4, <1>5, SubmitLeaves, CancelLeaves, ChildLeaves DEF Next, Idle, CancelStep

\* Who writes jobs.json, and what.
LEMMA StoreWrites ==
  ASSUME TypeInv, [Next]_vars, store' # store
  PROVE  /\ child' = child
         /\ \/ \E j \in Jobs : AppendJob(j) /\ store' = [submitView[j] EXCEPT ![j] = "planned"]
            \/ \E j \in Jobs : MarkQueued(j) /\ store' = Updated(submitView[j], j, "queued")
            \/ \E w \in Workers : /\ RefuseJob(w) \/ AbortJob(w)
                                  /\ store' = Updated(workerView[w], workerJob[w], "failed")
            \/ \E w \in Workers : /\ StartJob(w) /\ StillQueued(w)
                                  /\ store' = Updated(workerView[w], workerJob[w], "running")
            \/ \E w \in Workers : FinishJob(w) /\ store' = Updated(workerView[w], workerJob[w], Outcome(w))
            \/ \E w \in Workers : WriteProgress(w) /\ store' = workerView[w]
            \/ \E j \in Jobs : WriteCancelled(j) /\ store' = Updated(cancelView[j], j, "failed")
<1>1. ASSUME NEW j \in Jobs, Arrive(j) \/ SubmitStep(j)
      PROVE  /\ child' = child
             /\ \/ AppendJob(j) /\ store' = [submitView[j] EXCEPT ![j] = "planned"]
                \/ MarkQueued(j) /\ store' = Updated(submitView[j], j, "queued")
  BY <1>1 DEF Arrive, SubmitStep, CreateExecutor, WireExecutor, ReadJobs, AppendJob, EnterEnqueue,
     MarkQueued, PutJob, SpawnWorker, runnerVars
<1>2. ASSUME NEW w \in Workers, WorkerStep(w)
      PROVE  /\ child' = child
             /\ \/ (RefuseJob(w) \/ AbortJob(w)) /\ store' = Updated(workerView[w], workerJob[w], "failed")
                \/ StartJob(w) /\ StillQueued(w) /\ store' = Updated(workerView[w], workerJob[w], "running")
                \/ FinishJob(w) /\ store' = Updated(workerView[w], workerJob[w], Outcome(w))
                \/ WriteProgress(w) /\ store' = workerView[w]
  <2>1. CASE RefuseJob(w) \/ StartJob(w) \/ FinishJob(w) \/ AbortJob(w) \/ WriteProgress(w)
    BY <2>1 DEF RefuseJob, StartJob, FinishJob, AbortJob, WriteProgress, WriteAndLeave, runnerVars
  <2>2. CASE ~(RefuseJob(w) \/ StartJob(w) \/ FinishJob(w) \/ AbortJob(w) \/ WriteProgress(w))
    BY <1>2, <2>2 DEF WorkerStep, TakeJob, BeginExclusive, EnterLock, ResolveCommand, ClearCancel,
       LaunchProcess, ReadLine, CollectExit, EndExclusive
  <2> QED
    BY <2>1, <2>2
<1>3. ASSUME NEW j \in Jobs, CancelStep(j)
      PROVE  child' = child /\ WriteCancelled(j) /\ store' = Updated(cancelView[j], j, "failed")
  BY <1>3 DEF CancelStep, CancelQueued, WriteCancelled, CancelRunning, runnerVars
<1>4. ~MoveModel /\ ~Restart /\ ~(UNCHANGED vars) /\ \A j \in Jobs : ~ChildExit(j)
  BY DEF MoveModel, Restart, vars, ChildExit
<1> QED
  BY <1>1, <1>2, <1>3, <1>4 DEF Next, Idle, CancelStep

LEMMA StoreTypes == TypeInv /\ [Next]_vars => store' \in Stores
<1> SUFFICES ASSUME TypeInv, [Next]_vars, store' # store PROVE store' \in Stores
  BY DEF TypeInv
<1> USE DEF Statuses
<1>1. ASSUME NEW j \in Jobs, AppendJob(j), store' = [submitView[j] EXCEPT ![j] = "planned"]
      PROVE  store' \in Stores
  <2>1. submitView[j] \in Stores
    BY <1>1 DEF AppendJob, SubmitAt, TypeInv, SubmitTyped
  <2> QED
    BY <1>1, <2>1 DEF Stores
<1>2. ASSUME NEW j \in Jobs, MarkQueued(j), store' = Updated(submitView[j], j, "queued")
      PROVE  store' \in Stores
  <2>1. submitView[j] \in Stores
    BY <1>2 DEF MarkQueued, SubmitAt, TypeInv, SubmitTyped
  <2> QED
    BY <1>2, <2>1, UpdatedHasType
<1>3. ASSUME NEW w \in Workers, RefuseJob(w) \/ AbortJob(w) \/ StartJob(w) \/ FinishJob(w) \/ WriteProgress(w)
      PROVE  workerView[w] \in Stores /\ workerJob[w] \in Jobs
  <2>1. mutex[workerExec[w]] = w /\ workerPc[w] \in {"refuse", "abort", "start", "finish", "progress"}
    BY <1>3 DEF RefuseJob, AbortJob, StartJob, FinishJob, WriteProgress, WriteAndLeave, WorkerAt
  <2>2. workerExec[w] \in Executors /\ workerJob[w] \in Jobs
    BY <2>1 DEF TypeInv, WorkerTyped
  <2> QED
    BY <2>1, <2>2 DEF TypeInv, MutexTyped
<1>4. ASSUME NEW w \in Workers, NEW status \in Statuses,
             RefuseJob(w) \/ AbortJob(w) \/ StartJob(w) \/ FinishJob(w),
             store' = Updated(workerView[w], workerJob[w], status)
      PROVE  store' \in Stores
  BY <1>3, <1>4, UpdatedHasType
<1>5. ASSUME NEW j \in Jobs, WriteCancelled(j), store' = Updated(cancelView[j], j, "failed")
      PROVE  store' \in Stores
  <2>1. cancelView[j] \in Stores
    BY <1>5 DEF WriteCancelled, TypeInv, CancelTyped
  <2> QED
    BY <1>5, <2>1, UpdatedHasType
<1>6. \A w \in Workers : Outcome(w) \in Statuses
  BY DEF Outcome
<1> QED
  BY <1>1, <1>2, <1>3, <1>4, <1>5, <1>6, StoreWrites

LEMMA TypeStep == TypeInv /\ [Next]_vars => TypeInv'
BY SubmitTypes, WorkerTypes, CancelTypes, MutexTypes, ExecutorTypes, RunnerTypes, LockTypes, StoreTypes
   DEF TypeInv

(***************************************************************************)
(* The variables of every thread, executor and process have their types.   *)
(***************************************************************************)
THEOREM TypeCorrect == Spec => []TypeOK
<1>1. TypeInv => TypeOK
  BY DEF TypeInv, TypeOK, SubmitTyped, WorkerTyped, CancelTyped, MutexTyped, ExecutorTyped,
     RunnerTyped, LockTyped
<1> QED
  BY <1>1, TypeInitial, TypeStep, PTL DEF Spec

-----------------------------------------------------------------------------
\* What a worker's step does to the workers and to the lock.
LEMMA WorkerMoves ==
  ASSUME TypeInv, NEW w \in Workers, WorkerStep(w)
  PROVE  /\ \A v \in Workers : v # w => workerPc'[v] = workerPc[v] /\ workerJob'[v] = workerJob[v]
         /\ workerPc[w] \in Busy => /\ workerJob'[w] = workerJob[w]
                                    /\ workerPc'[w] \in Busy \/ EndExclusive(w)
         /\ \/ lockVars' = lockVars
            \/ EndExclusive(w)
            \/ /\ active = {} /\ active' = {} /\ holder' = workerJob[w]
               /\ workerPc[w] = "begin" /\ workerPc'[w] = "start" /\ workerJob' = workerJob
<1> USE DEF TypeInv, WorkerTyped, WorkerAt, Busy, lockVars
<1>1. CASE TakeJob(w) \/ EnterLock(w) \/ ResolveCommand(w) \/ ClearCancel(w) \/ LaunchProcess(w)
  BY <1>1 DEF TakeJob, EnterLock, ResolveCommand, ClearCancel, LaunchProcess
<1>2. CASE BeginExclusive(w)
  BY <1>2 DEF BeginExclusive, Admission!TryBegin
<1>3. CASE RefuseJob(w) \/ FinishJob(w)
  BY <1>3 DEF RefuseJob, FinishJob, WriteAndLeave
<1>4. CASE StartJob(w)
  BY <1>4 DEF StartJob, WriteAndLeave
<1>5. CASE AbortJob(w) \/ EndExclusive(w)
  BY <1>5 DEF AbortJob, EndExclusive
<1>6. CASE ReadLine(w) \/ WriteProgress(w) \/ CollectExit(w)
  BY <1>6 DEF ReadLine, WriteProgress, CollectExit
<1> QED
  BY <1>1, <1>2, <1>3, <1>4, <1>5, <1>6 DEF WorkerStep

\* Submitting spawns workers and does nothing else to them.
LEMMA SubmitMoves ==
  ASSUME TypeInv, NEW j \in Jobs, Arrive(j) \/ SubmitStep(j)
  PROVE  /\ workerJob' = workerJob
         /\ \A w \in Workers : \/ workerPc'[w] = workerPc[w]
                               \/ workerPc[w] = "none" /\ workerPc'[w] = "get" /\ SpawnWorker(j)
<1>1. CASE SpawnWorker(j)
  BY <1>1 DEF SpawnWorker, TypeInv, WorkerTyped
<1>2. CASE ~SpawnWorker(j)
  BY <1>2 DEF Arrive, SubmitStep, CreateExecutor, WireExecutor, ReadJobs, AppendJob, EnterEnqueue,
     MarkQueued, PutJob, workerVars
<1> QED
  BY <1>1, <1>2

LEMMA OwnerStep == TypeInv /\ LockHasOwner /\ [Next]_vars => LockHasOwner'
<1> SUFFICES ASSUME TypeInv, LockHasOwner, [Next]_vars, holder' # None
             PROVE  \E w \in Workers : workerJob'[w] = holder' /\ workerPc'[w] \in Busy
  BY DEF LockHasOwner
<1>1. ASSUME NEW j \in Jobs, Arrive(j) \/ SubmitStep(j)
      PROVE  \E w \in Workers : workerJob'[w] = holder' /\ workerPc'[w] \in Busy
  <2>1. holder' = holder
    BY <1>1, SubmitLeaves DEF lockVars
  <2>2. PICK w \in Workers : workerJob[w] = holder /\ workerPc[w] \in Busy
    BY <2>1 DEF LockHasOwner
  <2>3. workerJob'[w] = workerJob[w] /\ workerPc'[w] = workerPc[w]
    BY <1>1, <2>2, SubmitMoves DEF Busy
  <2> QED
    BY <2>1, <2>2, <2>3
<1>2. ASSUME NEW w \in Workers, WorkerStep(w)
      PROVE  \E v \in Workers : workerJob'[v] = holder' /\ workerPc'[v] \in Busy
  <2>1. ~EndExclusive(w)
    BY DEF EndExclusive, ReleasesLock, Admission!End
  <2>2. CASE holder' = holder
    <3>1. PICK v \in Workers : workerJob[v] = holder /\ workerPc[v] \in Busy
      BY <2>2 DEF LockHasOwner
    <3>2. workerJob'[v] = workerJob[v] /\ workerPc'[v] \in Busy
      BY <1>2, <2>1, <3>1, WorkerMoves
    <3> QED
      BY <2>2, <3>1, <3>2
  <2>3. CASE holder' # holder
    BY <1>2, <2>1, <2>3, WorkerMoves DEF lockVars, Busy
  <2> QED
    BY <2>2, <2>3
<1>3. CASE MoveModel \/ UNCHANGED vars \/ \E j \in Jobs : CancelStep(j) \/ ChildExit(j)
  <2>1. UNCHANGED <<holder, workerVars>>
    BY <1>3, CancelLeaves, ChildLeaves DEF MoveModel, vars, lockVars, Admission!Activate,
       Admission!Deactivate
  <2> QED
    BY <2>1 DEF LockHasOwner, workerVars
<1>4. CASE Restart
  BY <1>4 DEF Restart
<1> QED
  BY <1>1, <1>2, <1>3, <1>4 DEF Next, Idle, CancelStep

(***************************************************************************)
(* The training lock is never left behind: whoever holds it is the job of  *)
(* a live worker that will release it, with any number of executors, of    *)
(* failing writes and of restarts (executor.py:11, :556-558).              *)
(***************************************************************************)
THEOREM LockIsNeverLeft == Spec => []LockHasOwner
<1>1. Init => LockHasOwner
  BY DEF Init, Admission!Init, LockHasOwner
<1> QED
  BY <1>1, TypeInitial, TypeStep, OwnerStep, PTL DEF Spec

-----------------------------------------------------------------------------
(***************************************************************************)
(* A job is in one place before its process is started: with the request   *)
(* that submits it, in a FIFO, or with a worker.  So it is started once.   *)
(***************************************************************************)
Early == {"idle", "create", "wire", "read", "append", "enqueue", "mark", "put"}
Pre == {"begin", "refuse", "start", "resolve", "launch", "popen"}

Fetched(j) == \E w \in Workers : workerPc[w] \in Pre /\ workerJob[w] = j

OnePlace ==
  /\ \A j \in Jobs : submitPc[j] \in Early => ~InQueue(j) /\ ~Fetched(j)
  /\ \A e, f \in Executors : \A i \in DOMAIN queue[e], k \in DOMAIN queue[f] :
       queue[e][i] = queue[f][k] => e = f /\ i = k
  /\ \A w \in Workers : workerPc[w] \in Pre => ~InQueue(workerJob[w])
  /\ \A v, w \in Workers : workerPc[v] \in Pre /\ workerPc[w] \in Pre /\ workerJob[v] = workerJob[w] => v = w
  /\ \A j \in Jobs : child[j] # "none" => submitPc[j] \notin Early /\ ~InQueue(j) /\ ~Fetched(j)

LEMMA OnePlaceInitial == Init => OnePlace
BY DEF Init, OnePlace, Fetched, InQueue, Pre

\* Nothing new gets to a place.
LEMMA NothingArrives ==
  ASSUME OnePlace, queue' = queue,
         \A j \in Jobs : submitPc'[j] \in Early => submitPc[j] \in Early,
         \A w \in Workers : workerPc'[w] \in Pre => workerPc[w] \in Pre /\ workerJob'[w] = workerJob[w],
         \A j \in Jobs : child'[j] # "none" => child[j] # "none"
  PROVE  OnePlace'
<1>1. \A j : InQueue(j)' <=> InQueue(j)
  BY DEF InQueue
<1>2. \A j : Fetched(j)' => Fetched(j)
  BY DEF Fetched
<1> QED
  BY <1>1, <1>2 DEF OnePlace

LEMMA QueuesAreSequences ==
  ASSUME TypeInv, NEW e \in Executors
  PROVE  /\ queue[e] \in Seq(Jobs)
         /\ DOMAIN queue[e] = 1..Len(queue[e])
         /\ Len(queue[e]) \in Nat
BY DEF TypeInv, ExecutorTyped

LEMMA PutInOnePlace ==
  ASSUME TypeInv, OnePlace, NEW j \in Jobs, PutJob(j)
  PROVE  OnePlace'
<1> DEFINE e == submitExec[j]
           s == queue[e]
<1>1. e \in Executors /\ submitPc[j] = "put"
  BY DEF PutJob, SubmitAt, TypeInv, SubmitTyped
<1>2. s \in Seq(Jobs) /\ DOMAIN s = 1..Len(s) /\ Len(s) \in Nat
  BY <1>1, QueuesAreSequences
<1>3. /\ queue'[e] = Append(s, j)
      /\ \A f \in Executors : f # e => queue'[f] = queue[f]
      /\ submitPc'[j] \notin Early
      /\ \A k \in Jobs : k # j => submitPc'[k] = submitPc[k]
      /\ UNCHANGED <<child, workerPc, workerJob>>
  BY <1>1 DEF PutJob, SubmitAt, TypeInv, SubmitTyped, ExecutorTyped, Early, runnerVars,
       workerVars
<1> HIDE DEF e
<1>4. DOMAIN queue'[e] = 1..(Len(s) + 1)
  BY <1>2, <1>3, AppendProperties
<1>5. /\ \A i \in DOMAIN s : i \in DOMAIN queue'[e] /\ queue'[e][i] = s[i]
      /\ queue'[e][Len(s) + 1] = j
      /\ \A i \in DOMAIN queue'[e] : i \in DOMAIN s \/ i = Len(s) + 1
  BY <1>2, <1>3, <1>4, AppendProperties
<1>6. ~InQueue(j) /\ ~Fetched(j) /\ child[j] = "none"
  BY <1>1 DEF OnePlace, Early
<1>7. \A k \in Jobs : InQueue(k)' => InQueue(k) \/ k = j
  BY <1>1, <1>3, <1>5 DEF InQueue
<1>8. \A k : Fetched(k)' <=> Fetched(k)
  BY <1>3 DEF Fetched
<1>9. ASSUME NEW f \in Executors, NEW g \in Executors, NEW i \in DOMAIN queue'[f], NEW k \in DOMAIN queue'[g],
             queue'[f][i] = queue'[g][k]
      PROVE  f = g /\ i = k
  <2>1. \A h \in Executors : \A n \in DOMAIN queue'[h] :
          \/ n \in DOMAIN queue[h] /\ queue'[h][n] = queue[h][n] /\ queue[h][n] # j
          \/ h = e /\ n = Len(s) + 1 /\ queue'[h][n] = j
    BY <1>3, <1>5, <1>6 DEF InQueue
  <2> QED
    BY <1>9, <2>1 DEF OnePlace
<1>10. \A w \in Workers : workerPc[w] \in Pre => workerJob[w] \in Jobs /\ workerJob[w] # j
  BY <1>6 DEF Fetched, Pre, TypeInv, WorkerTyped
<1> QED
  BY <1>3, <1>6, <1>7, <1>8, <1>9, <1>10 DEF OnePlace

LEMMA TakenInOnePlace ==
  ASSUME TypeInv, OnePlace, NEW w \in Workers, TakeJob(w)
  PROVE  OnePlace'
<1> DEFINE e == workerExec[w]
           s == queue[e]
           j == Head(s)
<1>1. e \in Executors /\ s # <<>> /\ workerPc[w] = "get"
  BY DEF TakeJob, WorkerAt, TypeInv, WorkerTyped
<1>2. s \in Seq(Jobs) /\ DOMAIN s = 1..Len(s) /\ Len(s) \in Nat
  BY <1>1, QueuesAreSequences
<1>3. /\ queue'[e] = Tail(s)
      /\ \A f \in Executors : f # e => queue'[f] = queue[f]
      /\ workerPc'[w] = "begin" /\ workerJob'[w] = j
      /\ \A v \in Workers : v # w => workerPc'[v] = workerPc[v] /\ workerJob'[v] = workerJob[v]
      /\ UNCHANGED <<child, submitPc>>
  BY <1>1 DEF TakeJob, WorkerAt, TypeInv, WorkerTyped, ExecutorTyped, runnerVars, submitVars
<1>4. /\ j \in Jobs /\ s[1] = j /\ 1 \in DOMAIN s
      /\ DOMAIN queue'[e] = 1..(Len(s) - 1)
      /\ \A i \in DOMAIN queue'[e] : i + 1 \in DOMAIN s /\ queue'[e][i] = s[i + 1] /\ i + 1 # 1
  BY <1>1, <1>2, <1>3, HeadTailProperties
<1> HIDE DEF e, j
<1>5. InQueue(j)
  BY <1>1, <1>4 DEF InQueue
<1>6. ~Fetched(j) /\ submitPc[j] \notin Early /\ child[j] = "none"
  BY <1>4, <1>5 DEF OnePlace, Fetched
<1>7. \A k : InQueue(k)' => InQueue(k) /\ k # j
  <2>1. ASSUME NEW f \in Executors, NEW i \in DOMAIN queue'[f]
        PROVE  InQueue(queue'[f][i]) /\ queue'[f][i] # j
    <3>1. CASE f = e
      <4>1. queue[e][i + 1] # queue[e][1]
        BY <1>1, <1>4, <2>1, <3>1 DEF OnePlace
      <4> QED
        BY <1>1, <1>4, <2>1, <3>1, <4>1 DEF InQueue
    <3>2. CASE f # e
      BY <1>1, <1>3, <1>4, <2>1, <3>2 DEF InQueue, OnePlace
    <3> QED
      BY <3>1, <3>2
  <2> QED
    BY <2>1 DEF InQueue
<1>8. \A k : Fetched(k)' => Fetched(k) \/ k = j
  BY <1>3 DEF Fetched
<1>9. ASSUME NEW f \in Executors, NEW g \in Executors, NEW i \in DOMAIN queue'[f], NEW k \in DOMAIN queue'[g],
             queue'[f][i] = queue'[g][k]
      PROVE  f = g /\ i = k
  <2> DEFINE shift(h, n) == IF h = e THEN n + 1 ELSE n
  <2>1. \A h \in Executors : \A n \in DOMAIN queue'[h] :
          shift(h, n) \in DOMAIN queue[h] /\ queue'[h][n] = queue[h][shift(h, n)]
    BY <1>3, <1>4
  <2>2. f = g /\ shift(f, i) = shift(g, k)
    BY <1>9, <2>1 DEF OnePlace
  <2>3. f = e => i \in Int /\ k \in Int
    BY <1>4, <2>2
  <2> QED
    BY <2>2, <2>3
<1>10. ASSUME NEW v \in Workers, NEW u \in Workers, workerPc'[v] \in Pre, workerPc'[u] \in Pre,
              workerJob'[v] = workerJob'[u]
       PROVE  v = u
  BY <1>3, <1>6, <1>10 DEF OnePlace, Fetched
<1>11. ASSUME NEW v \in Workers, workerPc'[v] \in Pre
       PROVE  ~InQueue(workerJob[v])'
  <2>1. CASE v = w
    BY <1>3, <1>7, <2>1 DEF InQueue
  <2>2. CASE v # w
    BY <1>3, <1>7, <1>11, <2>2 DEF OnePlace, InQueue
  <2> QED
    BY <2>1, <2>2
<1> QED
  BY <1>3, <1>6, <1>7, <1>8, <1>9, <1>10, <1>11 DEF OnePlace

LEMMA LaunchedInOnePlace ==
  ASSUME TypeInv, OnePlace, NEW w \in Workers, LaunchProcess(w)
  PROVE  OnePlace' /\ \A j \in Jobs : child[j] # "none" => child'[j] = child[j]
<1> DEFINE j == workerJob[w]
<1>1. workerPc[w] \in Pre /\ j \in Jobs
  BY DEF LaunchProcess, WorkerAt, TypeInv, WorkerTyped, Pre
<1>2. /\ submitPc[j] \notin Early /\ ~InQueue(j) /\ child[j] = "none"
      /\ \A v \in Workers : workerPc[v] \in Pre /\ workerJob[v] = j => v = w
  BY <1>1 DEF OnePlace, Fetched
<1>3. /\ UNCHANGED <<queue, submitPc, workerJob>>
      /\ workerPc'[w] \notin Pre
      /\ \A v \in Workers : v # w => workerPc'[v] = workerPc[v]
      /\ \A k \in Jobs : k # j => child'[k] = child[k]
  BY DEF LaunchProcess, WorkerAt, TypeInv, WorkerTyped, RunnerTyped, Pre, executorVars, submitVars
<1> HIDE DEF j
<1>4. \A k : InQueue(k)' <=> InQueue(k)
  BY <1>3 DEF InQueue
<1>5. \A k : Fetched(k)' => Fetched(k) /\ k # j
  BY <1>2, <1>3 DEF Fetched
<1>6. \A v \in Workers : workerPc'[v] \in Pre => workerPc[v] \in Pre
  BY <1>3
<1>7. OnePlace'
  BY <1>2, <1>3, <1>4, <1>5, <1>6 DEF OnePlace
<1> QED
  BY <1>2, <1>3, <1>7

LEMMA OnePlaceStep == TypeInv /\ OnePlace /\ [Next]_vars => OnePlace'
<1> SUFFICES ASSUME TypeInv, OnePlace, [Next]_vars PROVE OnePlace'
  OBVIOUS
<1>1. ASSUME NEW j \in Jobs, Arrive(j) \/ SubmitStep(j), ~PutJob(j) PROVE OnePlace'
  <2>1. queue' = queue /\ child' = child
    BY <1>1 DEF Arrive, SubmitStep, CreateExecutor, WireExecutor, ReadJobs, AppendJob, EnterEnqueue,
       MarkQueued, SpawnWorker, executorVars, runnerVars
  <2>2. \A k \in Jobs : submitPc'[k] \in Early => submitPc[k] \in Early
    BY <1>1 DEF Arrive, SubmitStep, CreateExecutor, WireExecutor, ReadJobs, AppendJob, EnterEnqueue,
       MarkQueued, SpawnWorker, SubmitAt, TypeInv, SubmitTyped, Early
  <2>3. \A w \in Workers : workerPc'[w] \in Pre => workerPc[w] \in Pre /\ workerJob'[w] = workerJob[w]
    BY <1>1, SubmitMoves DEF Pre
  <2> QED
    BY <2>1, <2>2, <2>3, NothingArrives
<1>2. ASSUME NEW w \in Workers, WorkerStep(w), ~TakeJob(w), ~LaunchProcess(w) PROVE OnePlace'
  <2>1. queue' = queue /\ submitPc' = submitPc
    BY <1>2 DEF WorkerStep, BeginExclusive, EnterLock, RefuseJob, StartJob, ResolveCommand, ClearCancel,
       ReadLine, WriteProgress, CollectExit, FinishJob, EndExclusive, AbortJob, executorVars, submitVars
  <2>2. \A j \in Jobs : child'[j] # "none" => child[j] # "none"
    BY <1>2 DEF WorkerStep, BeginExclusive, EnterLock, RefuseJob, StartJob, ResolveCommand, ClearCancel,
       ReadLine, WriteProgress, CollectExit, FinishJob, EndExclusive, AbortJob, runnerVars, TypeInv,
       RunnerTyped
  <2>3. workerPc'[w] \in Pre => workerPc[w] \in Pre /\ workerJob'[w] = workerJob[w]
    BY <1>2 DEF WorkerStep, BeginExclusive, EnterLock, RefuseJob, StartJob, ResolveCommand, ClearCancel,
       ReadLine, WriteProgress, CollectExit, FinishJob, EndExclusive, AbortJob, WriteAndLeave, WorkerAt,
       TypeInv, WorkerTyped, Pre
  <2> QED
    BY <1>2, <2>1, <2>2, <2>3, NothingArrives, WorkerMoves
<1>3. ASSUME NEW j \in Jobs, CancelStep(j) \/ ChildExit(j) PROVE OnePlace'
  <2>1. UNCHANGED <<queue, submitPc, workerPc, workerJob>>
    BY <1>3, CancelLeaves, ChildLeaves DEF executorVars, submitVars, workerVars
  <2>2. \A k \in Jobs : child'[k] # "none" => child[k] # "none"
    BY <1>3 DEF CancelStep, CancelQueued, WriteCancelled, CancelRunning, ChildExit, runnerVars,
       TypeInv, RunnerTyped
  <2> QED
    BY <2>1, <2>2, NothingArrives
<1>4. CASE Restart
  <2>1. \A j \in Jobs : ~InQueue(j)'
    BY <1>4 DEF Restart, InQueue
  <2>2. \A j : ~Fetched(j)'
    BY <1>4 DEF Restart, Fetched, Pre
  <2>3. \A j \in Jobs : submitPc'[j] \in Early => submitPc[j] \in Early
    BY <1>4 DEF Restart, Early, TypeInv, SubmitTyped
  <2>4. child' = child /\ \A e \in Executors : DOMAIN queue'[e] = {}
    BY <1>4 DEF Restart
  <2>5. \A w \in Workers : workerPc'[w] \notin Pre
    BY <1>4 DEF Restart, Pre
  <2> QED
    BY <2>1, <2>2, <2>3, <2>4, <2>5 DEF OnePlace
<1>5. CASE MoveModel \/ UNCHANGED vars
  <2>1. UNCHANGED <<queue, submitPc, workerPc, workerJob, child>>
    BY <1>5 DEF MoveModel, vars, executorVars, submitVars, workerVars, runnerVars
  <2> QED
    BY <2>1, NothingArrives
<1> QED
  BY <1>1, <1>2, <1>3, <1>4, <1>5, PutInOnePlace, TakenInOnePlace, LaunchedInOnePlace
     DEF Next, Idle, CancelStep, SubmitStep, WorkerStep

-----------------------------------------------------------------------------
\* A list that reports COMPLETED only of jobs whose process exited with 0.
Honest(list, exits) == \A j \in Jobs : list[j] = "completed" => exits[j] = "ok"

ExitInv ==
  /\ Honest(store, child)
  /\ \A j \in Jobs : submitPc[j] \in {"append", "mark"} => Honest(submitView[j], child)
  /\ \A e \in Executors, w \in Workers : mutex[e] = w => Honest(workerView[w], child)
  /\ \A j \in Jobs : cancelPc[j] = "write" => Honest(cancelView[j], child)

LEMMA ExitInitial == Init => ExitInv
BY TrainingAssumption DEF Init, ExitInv, Honest

LEMMA HonestLasts ==
  ASSUME NEW list, NEW exits, NEW exits2, Honest(list, exits),
         \A j \in Jobs : exits[j] = "ok" => exits2[j] = "ok"
  PROVE  Honest(list, exits2)
BY DEF Honest

LEMMA HonestUpdate ==
  ASSUME NEW list \in Stores, NEW exits, NEW j \in Jobs, NEW status, Honest(list, exits),
         status = "completed" => exits[j] = "ok"
  PROVE  Honest(Updated(list, j, status), exits)
BY DEF Honest, Updated, Stores

\* An exit code, once there, stays.
LEMMA ExitsStay ==
  ASSUME TypeInv, OnePlace, [Next]_vars, NEW j \in Jobs, child[j] = "ok"
  PROVE  child'[j] = "ok"
<1>1. ASSUME NEW w \in Workers, WorkerStep(w) PROVE child'[j] = "ok"
  <2>1. CASE LaunchProcess(w)
    BY <2>1, LaunchedInOnePlace
  <2>2. CASE ~LaunchProcess(w)
    BY <1>1, <2>2 DEF WorkerStep, TakeJob, BeginExclusive, EnterLock, RefuseJob, StartJob, ResolveCommand,
       ClearCancel, ReadLine, WriteProgress, CollectExit, FinishJob, EndExclusive, AbortJob, runnerVars,
       TypeInv, RunnerTyped
  <2> QED
    BY <2>1, <2>2
<1>2. ASSUME NEW k \in Jobs, CancelStep(k) \/ ChildExit(k) PROVE child'[j] = "ok"
  BY <1>2 DEF CancelStep, CancelQueued, WriteCancelled, CancelRunning, ChildExit, runnerVars,
     TypeInv, RunnerTyped
<1>3. CASE Restart \/ MoveModel \/ UNCHANGED vars
  BY <1>3 DEF Restart, MoveModel, vars, runnerVars
<1> QED
  BY <1>1, <1>2, <1>3, SubmitLeaves DEF Next, Idle, CancelStep, runnerVars

LEMMA StoreStaysHonest == TypeInv /\ OnePlace /\ ExitInv /\ [Next]_vars => Honest(store', child')
<1> SUFFICES ASSUME TypeInv, OnePlace, ExitInv, [Next]_vars PROVE Honest(store', child')
  OBVIOUS
<1>1. CASE store' = store
  BY <1>1, HonestLasts, ExitsStay DEF ExitInv
<1>2. CASE store' # store
  <2> USE <1>2
  <2>1. ASSUME NEW j \in Jobs, AppendJob(j), store' = [submitView[j] EXCEPT ![j] = "planned"]
        PROVE  Honest(store', child)
    <3>1. submitView[j] \in Stores /\ Honest(submitView[j], child)
      BY <2>1 DEF AppendJob, SubmitAt, TypeInv, SubmitTyped, ExitInv
    <3> QED
      BY <2>1, <3>1 DEF Honest, Stores
  <2>2. ASSUME NEW j \in Jobs, MarkQueued(j), store' = Updated(submitView[j], j, "queued")
        PROVE  Honest(store', child)
    <3>1. submitView[j] \in Stores /\ Honest(submitView[j], child)
      BY <2>2 DEF MarkQueued, SubmitAt, TypeInv, SubmitTyped, ExitInv
    <3> QED
      BY <2>2, <3>1, HonestUpdate
  <2>3. ASSUME NEW w \in Workers,
               RefuseJob(w) \/ AbortJob(w) \/ StartJob(w) \/ FinishJob(w) \/ WriteProgress(w)
        PROVE  workerView[w] \in Stores /\ workerJob[w] \in Jobs /\ Honest(workerView[w], child)
    <3>1. mutex[workerExec[w]] = w /\ workerPc[w] \in {"refuse", "abort", "start", "finish", "progress"}
      BY <2>3 DEF RefuseJob, AbortJob, StartJob, FinishJob, WriteProgress, WriteAndLeave, WorkerAt
    <3>2. workerExec[w] \in Executors /\ workerJob[w] \in Jobs
      BY <3>1 DEF TypeInv, WorkerTyped
    <3> QED
      BY <3>1, <3>2 DEF TypeInv, MutexTyped, ExitInv
  <2>4. ASSUME NEW w \in Workers, NEW status, status = "completed" => child[workerJob[w]] = "ok",
               RefuseJob(w) \/ AbortJob(w) \/ StartJob(w) \/ FinishJob(w),
               store' = Updated(workerView[w], workerJob[w], status)
        PROVE  Honest(store', child)
    BY <2>3, <2>4, HonestUpdate
  <2>5. \A w \in Workers : Outcome(w) = "completed" => child[workerJob[w]] = "ok"
    BY DEF Outcome
  <2>6. ASSUME NEW w \in Workers, WriteProgress(w), store' = workerView[w]
        PROVE  Honest(store', child)
    BY <2>3, <2>6
  <2>7. ASSUME NEW j \in Jobs, WriteCancelled(j), store' = Updated(cancelView[j], j, "failed")
        PROVE  Honest(store', child)
    <3>1. cancelView[j] \in Stores /\ Honest(cancelView[j], child)
      BY <2>7 DEF WriteCancelled, TypeInv, CancelTyped, ExitInv
    <3> QED
      BY <2>7, <3>1, HonestUpdate
  <2>8. child' = child
    BY StoreWrites
  <2>9. Honest(store', child)
    BY <2>1, <2>2, <2>4, <2>5, <2>6, <2>7, StoreWrites
  <2> QED
    BY <2>8, <2>9
<1> QED
  BY <1>1, <1>2

\* A list that was read is one that was honest when it was read.
LEMMA ExitStep == TypeInv /\ OnePlace /\ ExitInv /\ [Next]_vars => ExitInv'
<1> SUFFICES ASSUME TypeInv, OnePlace, ExitInv, [Next]_vars PROVE ExitInv'
  OBVIOUS
<1> DEFINE Submits == \A j \in Jobs : submitPc'[j] \in {"append", "mark"} => Honest(submitView'[j], child)
           Works == \A e \in Executors, w \in Workers : mutex'[e] = w => Honest(workerView'[w], child)
           Cancels == \A j \in Jobs : cancelPc'[j] = "write" => Honest(cancelView'[j], child)
<1>0. /\ Honest(store, child)
      /\ \A j \in Jobs : submitPc[j] \in {"append", "mark"} => Honest(submitView[j], child)
      /\ \A e \in Executors, w \in Workers : mutex[e] = w => Honest(workerView[w], child)
      /\ \A j \in Jobs : cancelPc[j] = "write" => Honest(cancelView[j], child)
  BY DEF ExitInv
<1>1. ASSUME NEW j \in Jobs, Arrive(j) \/ SubmitStep(j) PROVE Submits
  <2>1. CASE ReadJobs(j) \/ EnterEnqueue(j)
    BY <1>0, <2>1 DEF ReadJobs, EnterEnqueue, SubmitAt, TypeInv, SubmitTyped
  <2>2. CASE Arrive(j) \/ CreateExecutor(j) \/ WireExecutor(j) \/ PutJob(j) \/ SpawnWorker(j)
    BY <1>0, <2>2
    DEF Arrive, CreateExecutor, WireExecutor, PutJob, SpawnWorker, SubmitAt, TypeInv, SubmitTyped
  <2>3. CASE AppendJob(j) \/ MarkQueued(j)
    BY <1>0, <2>3 DEF AppendJob, MarkQueued, SubmitAt, TypeInv, SubmitTyped
  <2> QED
    BY <1>1, <2>1, <2>2, <2>3 DEF SubmitStep
<1>2. ASSUME NEW j \in Jobs, Arrive(j) \/ SubmitStep(j) PROVE Works
  <2>1. UNCHANGED workerView
    BY <1>2 DEF Arrive, SubmitStep, CreateExecutor, WireExecutor, ReadJobs, AppendJob, EnterEnqueue,
       MarkQueued, PutJob, SpawnWorker, workerVars
  <2>2. \A e \in Executors, w \in Workers : mutex'[e] = w => mutex[e] = w
    <3>1. \/ mutex' = mutex
          \/ \E x \in {Submitter(j), None} : mutex' = [mutex EXCEPT ![submitExec[j]] = x]
      BY <1>2 DEF Arrive, SubmitStep, CreateExecutor, WireExecutor, ReadJobs, AppendJob,
         EnterEnqueue, MarkQueued, PutJob, SpawnWorker
    <3>2. \A w \in Workers : Submitter(j) # w /\ None # w
      BY TrainingAssumption DEF Submitter
    <3> QED
      BY <3>1, <3>2 DEF TypeInv, MutexTyped
  <2> QED
    BY <1>0, <2>1, <2>2
<1>3. ASSUME NEW w \in Workers, WorkerStep(w) PROVE Works
  <2>1. CASE EnterLock(w)
    BY <1>0, <2>1 DEF EnterLock, TypeInv, MutexTyped, WorkerTyped
  <2>2. CASE ~EnterLock(w)
    <3>1. UNCHANGED workerView
      BY <1>3, <2>2 DEF WorkerStep, TakeJob, BeginExclusive, RefuseJob, StartJob, ResolveCommand, ClearCancel,
         LaunchProcess, ReadLine, WriteProgress, CollectExit, FinishJob, EndExclusive, AbortJob
    <3>2. mutex' = mutex \/ mutex' = [mutex EXCEPT ![workerExec[w]] = None]
      BY <1>3, <2>2 DEF WorkerStep, TakeJob, BeginExclusive, RefuseJob, StartJob, ResolveCommand, ClearCancel,
         LaunchProcess, ReadLine, WriteProgress, CollectExit, FinishJob, EndExclusive, AbortJob,
         WriteAndLeave
    <3>3. \A e \in Executors, v \in Workers : mutex'[e] = v => mutex[e] = v
      BY <3>2, TrainingAssumption DEF TypeInv, MutexTyped
    <3> QED
      BY <1>0, <3>1, <3>3
  <2> QED
    BY <2>1, <2>2
<1>4. ASSUME NEW j \in Jobs, CancelStep(j) PROVE Works /\ Cancels
  <2>1. UNCHANGED workerView
    BY <1>4 DEF CancelStep, CancelQueued, WriteCancelled, CancelRunning, workerVars
  <2>2. \A e \in Executors, w \in Workers : mutex'[e] = w => mutex[e] = w
    BY <1>4, TrainingAssumption DEF CancelStep, CancelQueued, WriteCancelled, CancelRunning, Canceller,
       TypeInv, MutexTyped
  <2>3. Cancels
    BY <1>0, <1>4 DEF CancelStep, CancelQueued, WriteCancelled, CancelRunning, TypeInv, CancelTyped
  <2> QED
    BY <1>0, <2>1, <2>2, <2>3
<1>5. CASE Restart
  <2>1. \A j \in Jobs : submitPc'[j] \notin {"append", "mark"} /\ cancelPc'[j] # "write"
    BY <1>5 DEF Restart, TypeInv, CancelTyped
  <2>2. \A e \in Executors, w \in Workers : mutex'[e] # w
    BY <1>5, TrainingAssumption DEF Restart
  <2> QED
    BY <2>1, <2>2, StoreStaysHonest DEF ExitInv
<1>6. UNCHANGED submitVars => Submits
  BY <1>0 DEF submitVars
<1>7. UNCHANGED cancelVars => Cancels
  BY <1>0 DEF cancelVars
<1>8. UNCHANGED <<mutex, workerView>> => Works
  BY <1>0
<1>9. CASE Submits /\ Works /\ Cancels
  <2>1. \A j \in Jobs : child[j] = "ok" => child'[j] = "ok"
    BY ExitsStay
  <2>2. ASSUME NEW list, Honest(list, child) PROVE Honest(list, child')
    BY <2>1, <2>2, HonestLasts
  <2> QED
    BY <1>9, <2>2, StoreStaysHonest DEF ExitInv
<1>10. ASSUME NEW j \in Jobs, Arrive(j) \/ SubmitStep(j) PROVE ExitInv'
  BY <1>1, <1>2, <1>7, <1>9, <1>10, SubmitLeaves
<1>11. ASSUME NEW w \in Workers, WorkerStep(w) PROVE ExitInv'
  BY <1>3, <1>6, <1>7, <1>9, <1>11, WorkerLeaves
<1>12. ASSUME NEW j \in Jobs, CancelStep(j) PROVE ExitInv'
  BY <1>4, <1>6, <1>9, <1>12, CancelLeaves
<1>13. CASE MoveModel \/ UNCHANGED vars \/ \E j \in Jobs : ChildExit(j)
  <2>1. UNCHANGED <<submitVars, cancelVars, mutex, workerView>>
    BY <1>13, ChildLeaves DEF MoveModel, vars, workerVars
  <2> QED
    BY <1>6, <1>7, <1>8, <1>9, <2>1
<1> HIDE DEF Submits, Works, Cancels
<1> QED
  BY <1>5, <1>10, <1>11, <1>12, <1>13 DEF Next, Idle, CancelStep

(***************************************************************************)
(* COMPLETED is written only of a job whose process exited with 0: no      *)
(* stale list and no restart brings it about either, and no process is     *)
(* started again for a job that has it (executor.py:517-553).              *)
(***************************************************************************)
THEOREM CompletedIsEarned == Spec => CompletedMeansExitZero
<1>1. Init => TypeInv /\ OnePlace /\ ExitInv
  BY TypeInitial, OnePlaceInitial, ExitInitial
<1>2. TypeInv /\ OnePlace /\ ExitInv /\ [Next]_vars => (TypeInv /\ OnePlace /\ ExitInv)'
  BY TypeStep, OnePlaceStep, ExitStep
<1>3. TypeInv /\ OnePlace /\ ExitInv /\ [Next]_vars =>
        [\A j \in Jobs : store[j] # "completed" /\ store'[j] = "completed" => child[j] = "ok"]_vars
  <2> SUFFICES ASSUME TypeInv, OnePlace, ExitInv, [Next]_vars, NEW j \in Jobs,
                      store[j] # "completed", store'[j] = "completed"
               PROVE  child[j] = "ok"
    OBVIOUS
  <2> QED
    BY StoreStaysHonest, StoreWrites DEF Honest
<1> QED
  BY <1>1, <1>2, <1>3, PTL DEF Spec, CompletedMeansExitZero

-----------------------------------------------------------------------------
(***************************************************************************)
(* A client that submits one job at a time, in a process that neither      *)
(* restarts nor fails to write: one executor, one worker.                  *)
(***************************************************************************)
Serial == SerialClient /\ ~WritesFail /\ MaxRestarts = 0

Underway(j) == submitPc[j] \notin {"idle", "done", "lost"}

OneExecutor ==
  /\ \A j, k \in Jobs : Underway(j) /\ Underway(k) => j = k
  /\ \A j \in Jobs : submitPc[j] = "create" => globalExec = None
  /\ globalExec = None => /\ serviceExec = None
                          /\ \A j \in Jobs : submitPc[j] \in {"idle", "create"}
                          /\ \A w \in Workers : workerPc[w] = "none"
  /\ serviceExec \in {None, globalExec}
  /\ globalExec # None /\ serviceExec = None => /\ \E j \in Jobs : submitPc[j] = "wire"
                                                /\ \A j \in Jobs : submitPc[j] \in {"idle", "wire"}
  /\ \A j \in Jobs : submitPc[j] \in {"enqueue", "mark", "put", "spawn"} => submitExec[j] = globalExec

OneWorker ==
  /\ \A w \in Workers : workerPc[w] # "none" => /\ workerPc[w] # "dead"
                                                /\ workerExec[w] = globalExec
                                                /\ workerOf[globalExec] = w
  /\ \A j \in Jobs : submitPc[j] = "spawn" => \A w \in Workers : workerPc[w] = "none"

Covered ==
  /\ \A w \in Workers : workerPc[w] \in Busy => holder = workerJob[w] /\ active = {}
  /\ \A j \in Jobs : child[j] = "alive" =>
       \E w \in Workers : workerJob[w] = j /\ workerPc[w] \in {"run", "progress"}

SerialInv == OneExecutor /\ OneWorker /\ Covered

LEMMA SerialInitial == Init => SerialInv
BY DEF Init, Admission!Init, SerialInv, OneExecutor, OneWorker, Covered, Underway, Busy

LEMMA NoRestart ==
  ASSUME Serial, TypeInv
  PROVE  ~Restart
BY DEF Serial, TypeInv, Restart

LEMMA OneExecutorStep ==
  ASSUME Serial, TypeInv, OneExecutor, OneWorker, [Next]_vars
  PROVE  OneExecutor'
<1> USE DEF OneExecutor, Underway
<1>1. ASSUME NEW j \in Jobs, Arrive(j) \/ SubmitStep(j) PROVE OneExecutor'
  <2> USE DEF TypeInv, SubmitTyped, SubmitAt, executorVars, workerVars
  <2>1. CASE Arrive(j)
    BY <2>1 DEF Arrive, Serial
  <2>2. CASE CreateExecutor(j)
    <3>1. PICK e \in Executors \ Referenced : globalExec' = e
      BY <2>2 DEF CreateExecutor
    <3>2. e # None
      BY TrainingAssumption
    <3>3. globalExec = None /\ serviceExec' = None /\ submitPc[j] = "create"
      BY <2>2 DEF CreateExecutor
    <3>4. \A k \in Jobs : k # j => submitPc[k] = "idle" /\ submitPc'[k] = "idle"
      BY <2>2, <3>3 DEF CreateExecutor
    <3>5. submitPc'[j] = "wire"
      BY <2>2 DEF CreateExecutor
    <3> HIDE DEF SubmitAt
    <3> QED
      BY <3>1, <3>2, <3>3, <3>4, <3>5
  <2>3. CASE WireExecutor(j)
    <3>1. submitPc[j] = "wire" /\ serviceExec' = globalExec /\ globalExec' = globalExec
      BY <2>3 DEF WireExecutor
    <3>2. globalExec # None
      BY <3>1
    <3>3. /\ submitPc'[j] = "read" /\ submitExec' = submitExec
          /\ \A k \in Jobs : k # j => submitPc'[k] = submitPc[k]
      BY <2>3 DEF WireExecutor
    <3> HIDE DEF SubmitAt
    <3> QED
      BY <3>1, <3>2, <3>3
  <2>4. CASE ReadJobs(j) \/ EnterEnqueue(j) \/ MarkQueued(j) \/ PutJob(j)
    <3>1. /\ UNCHANGED <<globalExec, serviceExec, submitExec, workerPc>>
          /\ submitPc[j] \in {"read", "enqueue", "mark", "put"}
          /\ submitPc'[j] \in {"append", "mark", "put", "spawn", "done"}
          /\ submitPc[j] = "read" => submitPc'[j] = "append"
          /\ \A k \in Jobs : k # j => submitPc'[k] = submitPc[k]
      BY <2>4 DEF ReadJobs, EnterEnqueue, MarkQueued, PutJob
    <3> HIDE DEF SubmitAt
    <3> QED
      BY <3>1
  <2>5. CASE AppendJob(j)
    <3>1. /\ UNCHANGED <<globalExec, serviceExec, workerPc>>
          /\ submitPc[j] = "append"
          /\ submitPc'[j] = IF serviceExec = None THEN "done" ELSE "enqueue"
          /\ submitExec'[j] = serviceExec
          /\ \A k \in Jobs : k # j => submitPc'[k] = submitPc[k] /\ submitExec'[k] = submitExec[k]
      BY <2>5 DEF AppendJob, Serial
    <3> HIDE DEF SubmitAt
    <3> QED
      BY <3>1
  <2>6. CASE SpawnWorker(j)
    <3>1. /\ UNCHANGED <<globalExec, serviceExec, submitExec>>
          /\ submitPc[j] = "spawn" /\ submitPc'[j] = "done"
          /\ \A k \in Jobs : k # j => submitPc'[k] = submitPc[k]
      BY <2>6 DEF SpawnWorker
    <3> HIDE DEF SubmitAt
    <3> QED
      BY <3>1
  <2> QED
    BY <1>1, <2>1, <2>2, <2>3, <2>4, <2>5, <2>6 DEF SubmitStep
<1>2. ASSUME NEW w \in Workers, WorkerStep(w) PROVE OneExecutor'
  <2>1. UNCHANGED <<globalExec, serviceExec, submitVars>>
    BY <1>2, WorkerLeaves
  <2>2. globalExec # None
    BY <1>2 DEF WorkerStep, TakeJob, BeginExclusive, EnterLock, RefuseJob, StartJob, ResolveCommand,
       ClearCancel, LaunchProcess, ReadLine, WriteProgress, CollectExit, FinishJob, EndExclusive, AbortJob,
       WriteAndLeave, WorkerAt
  <2> QED
    BY <2>1, <2>2 DEF submitVars
<1>3. CASE MoveModel \/ UNCHANGED vars \/ \E j \in Jobs : CancelStep(j) \/ ChildExit(j)
  <2>1. UNCHANGED <<globalExec, serviceExec, submitVars, workerPc>>
    BY <1>3, CancelLeaves, ChildLeaves DEF MoveModel, vars, executorVars, workerVars
  <2> QED
    BY <2>1 DEF submitVars
<1> QED
  BY <1>1, <1>2, <1>3, NoRestart DEF Next, Idle, CancelStep

LEMMA OneWorkerStep ==
  ASSUME Serial, TypeInv, OneExecutor, OneWorker, [Next]_vars
  PROVE  OneWorker'
<1> USE DEF OneWorker
<1>1. ASSUME NEW j \in Jobs, Arrive(j) \/ SubmitStep(j) PROVE OneWorker'
  <2> USE DEF TypeInv, SubmitTyped, SubmitAt, executorVars, workerVars
  <2>1. CASE CreateExecutor(j)
    <3>1. \A w \in Workers : workerPc'[w] = "none"
      BY <2>1 DEF CreateExecutor, OneExecutor
    <3> QED
      BY <3>1
  <2>2. CASE SpawnWorker(j)
    <3>1. submitPc[j] = "spawn" /\ submitExec[j] = globalExec /\ globalExec \in Executors
      BY <2>2 DEF SpawnWorker, OneExecutor
    <3>2. PICK w \in Workers : /\ workerOf' = [workerOf EXCEPT ![globalExec] = w]
                               /\ workerPc' = [workerPc EXCEPT ![w] = "get"]
                               /\ workerExec' = [workerExec EXCEPT ![w] = globalExec]
      BY <2>2, <3>1 DEF SpawnWorker
    <3>3. /\ \A v \in Workers : v # w => workerPc'[v] = "none"
          /\ workerPc'[w] = "get" /\ workerExec'[w] = globalExec /\ workerOf'[globalExec] = w
      BY <3>1, <3>2 DEF WorkerTyped, ExecutorTyped
    <3>4. globalExec' = globalExec /\ \A k \in Jobs : submitPc'[k] # "spawn"
      BY <2>2, <3>1 DEF SpawnWorker, OneExecutor, Underway
    <3> HIDE DEF SubmitAt
    <3> QED
      BY <3>3, <3>4
  <2>3. CASE PutJob(j)
    <3>1. submitExec[j] = globalExec
      BY <2>3 DEF PutJob, OneExecutor
    <3>2. ~WorkerAlive(globalExec) => \A w \in Workers : workerPc[w] = "none"
      BY DEF WorkerAlive
    <3> QED
      BY <2>3, <3>1, <3>2 DEF PutJob
  <2>4. CASE Arrive(j) \/ WireExecutor(j) \/ ReadJobs(j) \/ AppendJob(j) \/ EnterEnqueue(j) \/ MarkQueued(j)
    BY <2>4 DEF Arrive, WireExecutor, ReadJobs, AppendJob, EnterEnqueue, MarkQueued
  <2> QED
    BY <1>1, <2>1, <2>2, <2>3, <2>4 DEF SubmitStep
<1>2. ASSUME NEW w \in Workers, WorkerStep(w) PROVE OneWorker'
  <2>1. UNCHANGED <<globalExec, workerOf, submitPc, workerExec>>
    BY <1>2, WorkerLeaves DEF submitVars
  <2>2. workerPc[w] # "none" /\ workerPc'[w] # "dead"
    BY <1>2 DEF WorkerStep, TakeJob, BeginExclusive, EnterLock, RefuseJob, StartJob, ResolveCommand,
       ClearCancel, LaunchProcess, ReadLine, WriteProgress, CollectExit, FinishJob, EndExclusive, AbortJob,
       WriteAndLeave, WorkerAt, Serial, TypeInv, WorkerTyped
  <2>3. \A v \in Workers : v # w => workerPc'[v] = workerPc[v]
    BY <1>2, WorkerMoves
  <2> QED
    BY <2>1, <2>2, <2>3
<1>3. CASE MoveModel \/ UNCHANGED vars \/ \E j \in Jobs : CancelStep(j) \/ ChildExit(j)
  <2>1. UNCHANGED <<globalExec, workerOf, submitVars, workerVars>>
    BY <1>3, CancelLeaves, ChildLeaves DEF MoveModel, vars, executorVars
  <2> QED
    BY <2>1 DEF submitVars, workerVars
<1> QED
  BY <1>1, <1>2, <1>3, NoRestart DEF Next, Idle, CancelStep

LEMMA CoveredStep ==
  ASSUME Serial, TypeInv, OneWorker, Covered, [Next]_vars
  PROVE  Covered'
<1>1. ASSUME NEW j \in Jobs, Arrive(j) \/ SubmitStep(j) PROVE Covered'
  <2>1. UNCHANGED <<holder, active, child>>
    BY <1>1, SubmitLeaves DEF lockVars, runnerVars
  <2>2. \A w \in Workers : /\ workerPc'[w] \in Busy => workerPc[w] \in Busy
                           /\ workerPc[w] \in {"run", "progress"} => workerPc'[w] = workerPc[w]
    BY <1>1, SubmitMoves DEF Busy
  <2>3. workerJob' = workerJob
    BY <1>1, SubmitMoves
  <2> QED
    BY <2>1, <2>2, <2>3 DEF Covered
<1>2. ASSUME NEW w \in Workers, WorkerStep(w) PROVE Covered'
  <2>1. workerPc[w] # "none"
    BY <1>2 DEF WorkerStep, TakeJob, BeginExclusive, EnterLock, RefuseJob, StartJob, ResolveCommand,
       ClearCancel, LaunchProcess, ReadLine, WriteProgress, CollectExit, FinishJob, EndExclusive, AbortJob,
       WriteAndLeave, WorkerAt
  <2>2. \A v \in Workers : v # w => workerPc[v] = "none" /\ workerPc'[v] = "none"
    BY <1>2, <2>1, WorkerMoves DEF OneWorker
  <2>3. workerPc'[w] \in Busy => holder' = workerJob'[w] /\ active' = {}
    <3>1. CASE workerPc[w] \in Busy /\ ~EndExclusive(w)
      BY <1>2, <3>1, WorkerMoves DEF Covered, lockVars, Busy
    <3>2. CASE EndExclusive(w)
      BY <3>2 DEF EndExclusive, WorkerAt, TypeInv, WorkerTyped, Busy
    <3>3. CASE workerPc[w] \notin Busy
      <4>1. workerPc[w] = "begin" \/ workerPc'[w] \notin Busy
        BY <1>2, <3>3
        DEF WorkerStep, TakeJob, BeginExclusive, EnterLock, RefuseJob, StartJob, ResolveCommand,
            ClearCancel, LaunchProcess, ReadLine, WriteProgress, CollectExit, FinishJob,
            EndExclusive, AbortJob, WriteAndLeave, WorkerAt, TypeInv, WorkerTyped, Busy
      <4>2. CASE workerPc[w] = "begin" /\ workerPc'[w] \in Busy
        <5>1. BeginExclusive(w)
          BY <1>2, <4>2, WorkerMoves
          DEF WorkerStep, TakeJob, EnterLock, RefuseJob, StartJob, ResolveCommand, ClearCancel,
              LaunchProcess, ReadLine, WriteProgress, CollectExit, FinishJob, EndExclusive, AbortJob,
              WriteAndLeave, WorkerAt
        <5> QED
          BY <4>2, <5>1 DEF BeginExclusive, WorkerAt, Admission!TryBegin, TypeInv, WorkerTyped, Busy
      <4> QED
        BY <4>1, <4>2
    <3> QED
      BY <3>1, <3>2, <3>3
  <2>4. ASSUME NEW j \in Jobs, child'[j] = "alive"
        PROVE  workerJob'[w] = j /\ workerPc'[w] \in {"run", "progress"}
    <3>1. CASE LaunchProcess(w)
      <4>1. child[j] # "alive"
        BY <2>2, <3>1 DEF LaunchProcess, WorkerAt, Covered
      <4> QED
        BY <2>4, <3>1, <4>1 DEF LaunchProcess, WorkerAt, TypeInv, WorkerTyped, RunnerTyped
    <3>2. CASE ~LaunchProcess(w)
      <4>1. child[j] = "alive"
        BY <1>2, <2>4, <3>2 DEF WorkerStep, TakeJob, BeginExclusive, EnterLock, RefuseJob, StartJob,
           ResolveCommand, ClearCancel, ReadLine, WriteProgress, CollectExit, FinishJob, EndExclusive,
           AbortJob, runnerVars, TypeInv, RunnerTyped
      <4>2. workerJob[w] = j /\ workerPc[w] \in {"run", "progress"}
        BY <2>2, <4>1 DEF Covered
      <4> QED
        BY <1>2, <3>2, <4>1, <4>2 DEF WorkerStep, TakeJob, BeginExclusive, EnterLock, RefuseJob, StartJob,
           ResolveCommand, ClearCancel, ReadLine, WriteProgress, CollectExit, ProcessEnded, FinishJob,
           EndExclusive, AbortJob, WriteAndLeave, WorkerAt, TypeInv, WorkerTyped, Serial
    <3> QED
      BY <3>1, <3>2
  <2> QED
    BY <2>2, <2>3, <2>4 DEF Covered, Busy
<1>3. CASE MoveModel
  <2>1. \A w \in Workers : workerPc[w] \in Busy => holder # None /\ active = {}
    BY TrainingAssumption DEF Covered, Busy, TypeInv, WorkerTyped
  <2>2. UNCHANGED <<holder, child, workerPc, workerJob>>
    BY <1>3 DEF MoveModel, Admission!Activate, Admission!Deactivate, runnerVars, workerVars
  <2>3. holder # None /\ active = {} => active' = {}
    BY <1>3 DEF MoveModel, Admission!Activate, Admission!Deactivate
  <2> QED
    BY <2>1, <2>2, <2>3 DEF Covered
<1>4. CASE UNCHANGED vars \/ \E j \in Jobs : CancelStep(j) \/ ChildExit(j)
  <2>1. UNCHANGED <<lockVars, workerVars>>
    BY <1>4, CancelLeaves, ChildLeaves DEF vars
  <2>2. \A k \in Jobs : child'[k] = "alive" => child[k] = "alive"
    BY <1>4 DEF vars, CancelStep, CancelQueued, WriteCancelled, CancelRunning, ChildExit, runnerVars,
       TypeInv, RunnerTyped
  <2> QED
    BY <2>1, <2>2 DEF Covered, lockVars, workerVars
<1> QED
  BY <1>1, <1>2, <1>3, <1>4, NoRestart DEF Next, Idle, CancelStep

LEMMA SerialInvHolds == Serial => (Spec => [](TypeInv /\ SerialInv))
<1> SUFFICES ASSUME Serial PROVE Spec => [](TypeInv /\ SerialInv)
  OBVIOUS
<1>1. Init => TypeInv /\ SerialInv
  BY TypeInitial, SerialInitial
<1>2. TypeInv /\ SerialInv /\ [Next]_vars => (TypeInv /\ SerialInv)'
  BY TypeStep, OneExecutorStep, OneWorkerStep, CoveredStep DEF SerialInv
<1> QED
  BY <1>1, <1>2, PTL DEF Spec

(***************************************************************************)
(* The lock covers the life of every training process, when the client     *)
(* submits one job at a time and nothing restarts or fails to write        *)
(* (executor.py:6-12).                                                     *)
(***************************************************************************)
THEOREM LockCoversProcess == Serial => (Spec => []ProcessHoldsLock)
<1> SUFFICES ASSUME Serial PROVE Spec => []ProcessHoldsLock
  OBVIOUS
<1>1. SerialInv => ProcessHoldsLock
  BY DEF SerialInv, Covered, ProcessHoldsLock, Busy
<1> QED
  BY <1>1, SerialInvHolds, PTL

(***************************************************************************)
(* "Jobs run one at a time" (executor.py:5) is true of such a client.      *)
(***************************************************************************)
THEOREM SerialJobsRunOneAtATime == Serial => (Spec => []OneAtATime)
<1> SUFFICES ASSUME Serial PROVE Spec => []OneAtATime
  OBVIOUS
<1>1. SerialInv => OneAtATime
  BY DEF SerialInv, OneWorker, Covered, OneAtATime
<1> QED
  BY <1>1, SerialInvHolds, PTL

-----------------------------------------------------------------------------
(***************************************************************************)
(* A list read under the lock of the one executor is written before any    *)
(* other locked write, so it misses nothing but what submit_job() wrote    *)
(* meanwhile, without the lock.                                            *)
(***************************************************************************)
Writing == {"refuse", "start", "progress", "finish", "abort"}

\* Who is between reading and writing the list has the lock.
LockInv ==
  /\ \A j \in Jobs : submitPc[j] = "mark" => mutex[submitExec[j]] = Submitter(j)
  /\ \A j \in Jobs : cancelPc[j] = "write" => /\ cancelExec[j] = globalExec
                                              /\ mutex[globalExec] = Canceller(j)
  /\ \A e \in Executors, w \in Workers : mutex[e] = w => e = workerExec[w] /\ workerPc[w] \in Writing

LEMMA TagsDiffer ==
  /\ \A j, k \in Jobs : /\ Submitter(j) = Submitter(k) => j = k
                        /\ Canceller(j) = Canceller(k) => j = k
                        /\ Submitter(j) # Canceller(k)
  /\ \A j \in Jobs : Submitter(j) # None /\ Canceller(j) # None
  /\ \A j \in Jobs, w \in Workers : Submitter(j) # w /\ Canceller(j) # w
  /\ None \notin Workers
BY TrainingAssumption DEF Submitter, Canceller

LEMMA LockInitial == Init => LockInv
BY TagsDiffer DEF Init, LockInv

LEMMA LockStep ==
  ASSUME Serial, TypeInv, SerialInv, LockInv, [Next]_vars
  PROVE  LockInv'
<1> USE TagsDiffer DEF LockInv
<1>a. /\ submitPc \in [Jobs -> {"idle", "create", "wire", "read", "append", "enqueue",
                               "mark", "put", "spawn", "done", "lost"}]
      /\ mutex \in [Executors -> {None} \cup Workers \cup ({"submit", "cancel"} \X Jobs)]
      /\ \A j \in Jobs : submitPc[j] \in {"enqueue", "mark", "put", "spawn"} => submitExec[j] \in Executors
      /\ \A j \in Jobs : cancelPc[j] = "write" => cancelExec[j] \in Executors
      /\ submitExec \in [Jobs -> Executors \cup {None}]
  BY DEF TypeInv, SubmitTyped, MutexTyped, CancelTyped
<1>1. ASSUME NEW j \in Jobs, Arrive(j) \/ SubmitStep(j) PROVE LockInv'
  <2>0. UNCHANGED cancelVars
    BY <1>1, SubmitLeaves
  <2>1. CASE Arrive(j) \/ WireExecutor(j) \/ ReadJobs(j) \/ PutJob(j)
    <3>1. UNCHANGED <<submitExec, mutex, globalExec, workerExec, workerPc>>
      BY <2>1 DEF Arrive, WireExecutor, ReadJobs, PutJob, executorVars, workerVars
    <3>2. \A k \in Jobs : submitPc'[k] = "mark" => submitPc[k] = "mark"
      BY <1>a, <2>1 DEF Arrive, WireExecutor, ReadJobs, PutJob, SubmitAt
    <3> QED
      BY <2>0, <3>1, <3>2 DEF cancelVars
  <2>2. CASE CreateExecutor(j)
    <3>1. \A k \in Jobs : cancelPc[k] # "write"
      BY <1>a, <2>2, TrainingAssumption DEF CreateExecutor, SubmitAt, SerialInv, OneExecutor
    <3>2. /\ UNCHANGED <<mutex, workerExec, workerPc>>
          /\ \A k \in Jobs : submitPc'[k] = "mark" => submitPc[k] = "mark" /\ submitExec'[k] = submitExec[k]
      BY <1>a, <2>2 DEF CreateExecutor, SubmitAt, workerVars
    <3> QED
      BY <2>0, <3>1, <3>2 DEF cancelVars
  <2>3. CASE AppendJob(j)
    <3>1. /\ UNCHANGED <<mutex, globalExec, workerExec, workerPc>>
          /\ \A k \in Jobs : submitPc'[k] = "mark" => submitPc[k] = "mark" /\ submitExec'[k] = submitExec[k]
      BY <1>a, <2>3 DEF AppendJob, SubmitAt, workerVars, executorVars
    <3> QED
      BY <2>0, <3>1 DEF cancelVars
  <2>4. CASE SpawnWorker(j)
    <3>1. PICK w \in Workers : /\ workerPc[w] = "none"
                               /\ workerPc' = [workerPc EXCEPT ![w] = "get"]
                               /\ workerExec' = [workerExec EXCEPT ![w] = submitExec[j]]
      BY <2>4 DEF SpawnWorker
    <3>2. /\ UNCHANGED <<mutex, globalExec, submitExec>>
          /\ \A k \in Jobs : submitPc'[k] = "mark" => submitPc[k] = "mark"
      BY <1>a, <2>4 DEF SpawnWorker, SubmitAt
    <3>3. \A v \in Workers : v # w => workerPc'[v] = workerPc[v] /\ workerExec'[v] = workerExec[v]
      BY <3>1 DEF TypeInv, WorkerTyped
    <3>4. \A f \in Executors : mutex[f] # w
      BY <3>1 DEF Writing
    <3> QED
      BY <2>0, <3>2, <3>3, <3>4 DEF cancelVars
  <2>5. CASE EnterEnqueue(j)
    <3> DEFINE e == submitExec[j]
    <3>1. /\ e \in Executors /\ mutex[e] = None /\ mutex'[e] = Submitter(j)
          /\ \A f : f \in Executors /\ f # e => mutex'[f] = mutex[f]
          /\ UNCHANGED <<globalExec, submitExec, workerExec, workerPc>>
          /\ \A k \in Jobs : k # j => submitPc'[k] = submitPc[k]
      BY <1>a, <2>5 DEF EnterEnqueue, SubmitAt, workerVars, executorVars
    <3> HIDE DEF e
    <3>2. ASSUME NEW k \in Jobs, submitPc'[k] = "mark"
          PROVE  mutex'[submitExec'[k]] = Submitter(k)
      BY <1>a, <3>1, <3>2 DEF e
    <3>3. ASSUME NEW k \in Jobs, cancelPc'[k] = "write"
          PROVE  cancelExec'[k] = globalExec' /\ mutex'[globalExec'] = Canceller(k)
      BY <1>a, <2>0, <3>1, <3>3 DEF cancelVars
    <3>4. ASSUME NEW f \in Executors, NEW w \in Workers, mutex'[f] = w
          PROVE  f = workerExec'[w] /\ workerPc'[w] \in Writing
      BY <1>a, <3>1, <3>4
    <3> QED
      BY <3>2, <3>3, <3>4
  <2>6. CASE MarkQueued(j)
    <3> DEFINE e == submitExec[j]
    <3>1. /\ e \in Executors /\ mutex[e] = Submitter(j) /\ mutex'[e] = None
          /\ \A f : f \in Executors /\ f # e => mutex'[f] = mutex[f]
          /\ UNCHANGED <<globalExec, submitExec, workerExec, workerPc>>
          /\ submitPc'[j] # "mark" /\ \A k \in Jobs : k # j => submitPc'[k] = submitPc[k]
      BY <1>a, <2>6 DEF MarkQueued, SubmitAt, workerVars, executorVars
    <3> HIDE DEF e
    <3>2. ASSUME NEW k \in Jobs, submitPc'[k] = "mark"
          PROVE  mutex'[submitExec'[k]] = Submitter(k)
      BY <1>a, <3>1, <3>2
    <3>3. ASSUME NEW k \in Jobs, cancelPc'[k] = "write"
          PROVE  cancelExec'[k] = globalExec' /\ mutex'[globalExec'] = Canceller(k)
      BY <1>a, <2>0, <3>1, <3>3 DEF cancelVars
    <3>4. ASSUME NEW f \in Executors, NEW w \in Workers, mutex'[f] = w
          PROVE  f = workerExec'[w] /\ workerPc'[w] \in Writing
      BY <1>a, <3>1, <3>4
    <3> QED
      BY <3>2, <3>3, <3>4
  <2> QED
    BY <1>1, <2>1, <2>2, <2>3, <2>4, <2>5, <2>6 DEF SubmitStep
<1>2. ASSUME NEW w \in Workers, WorkerStep(w) PROVE LockInv'
  <2>0. UNCHANGED <<globalExec, submitVars, cancelVars, workerExec>>
    BY <1>2, WorkerLeaves
  <2>1. \A v \in Workers : v # w => workerPc'[v] = workerPc[v]
    BY <1>2, WorkerMoves
  <2>2. CASE EnterLock(w)
    <3>1. /\ workerExec[w] \in Executors /\ mutex[workerExec[w]] = None /\ mutex'[workerExec[w]] = w
          /\ \A f \in Executors : f # workerExec[w] => mutex'[f] = mutex[f]
          /\ workerPc' = workerPc /\ workerPc[w] \in Writing
      BY <1>a, <2>2 DEF EnterLock, TypeInv, WorkerTyped, Writing
    <3> QED
      BY <1>a, <2>0, <3>1 DEF submitVars, cancelVars
  <2>3. CASE RefuseJob(w) \/ StartJob(w) \/ FinishJob(w) \/ AbortJob(w) \/ WriteProgress(w)
    <3>1. /\ mutex[workerExec[w]] = w /\ mutex' = [mutex EXCEPT ![workerExec[w]] = None]
          /\ workerPc[w] \in Writing
      BY <2>3 DEF RefuseJob, StartJob, FinishJob, AbortJob, WriteProgress, WriteAndLeave, WorkerAt, Writing
    <3>2. workerExec[w] \in Executors
      BY <3>1 DEF TypeInv, WorkerTyped, Writing
    <3>3. /\ mutex'[workerExec[w]] = None
          /\ \A f \in Executors : f # workerExec[w] => mutex'[f] = mutex[f]
      BY <1>a, <3>1, <3>2
    <3>4. ASSUME NEW f \in Executors, NEW v \in Workers, mutex'[f] = v
          PROVE  f = workerExec'[v] /\ workerPc'[v] \in Writing
      <4>1. f # workerExec[w] /\ mutex[f] = v
        BY <3>3, <3>4
      <4>2. v # w
        BY <4>1
      <4> QED
        BY <2>0, <2>1, <4>1, <4>2
    <3> QED
      BY <1>a, <2>0, <3>1, <3>3, <3>4 DEF submitVars, cancelVars
  <2>4. CASE ~(EnterLock(w) \/ RefuseJob(w) \/ StartJob(w) \/ FinishJob(w) \/ AbortJob(w) \/ WriteProgress(w))
    <3>1. mutex' = mutex /\ (workerPc[w] \in Writing => workerPc'[w] \in Writing)
      BY <1>2, <2>4 DEF WorkerStep, TakeJob, BeginExclusive, ResolveCommand, ClearCancel,
         LaunchProcess, ReadLine, CollectExit, EndExclusive, WorkerAt, Writing
    <3> QED
      BY <2>0, <2>1, <3>1 DEF submitVars, cancelVars
  <2> QED
    BY <2>2, <2>3, <2>4
<1>3. ASSUME NEW j \in Jobs, CancelStep(j) PROVE LockInv'
  <2>0. UNCHANGED <<executorVars, submitVars, workerVars>>
    BY <1>3, CancelLeaves
  <2>1. CASE CancelQueued(j)
    <3>1. /\ serviceExec = globalExec /\ globalExec \in Executors /\ mutex[globalExec] = None
          /\ mutex'[globalExec] = Canceller(j) /\ cancelExec'[j] = globalExec
          /\ \A f \in Executors : f # globalExec => mutex'[f] = mutex[f]
          /\ \A k \in Jobs : k # j => cancelPc'[k] = cancelPc[k] /\ cancelExec'[k] = cancelExec[k]
      BY <1>a, <2>1 DEF CancelQueued, SerialInv, OneExecutor, TypeInv, CancelTyped, ExecutorTyped
    <3> QED
      BY <1>a, <2>0, <3>1 DEF submitVars, workerVars, executorVars
  <2>2. CASE WriteCancelled(j)
    <3>1. /\ cancelExec[j] = globalExec /\ globalExec \in Executors /\ mutex[globalExec] = Canceller(j)
          /\ mutex'[globalExec] = None /\ cancelExec' = cancelExec /\ cancelPc'[j] = "done"
          /\ \A f \in Executors : f # globalExec => mutex'[f] = mutex[f]
          /\ \A k \in Jobs : k # j => cancelPc'[k] = cancelPc[k]
      BY <1>a, <2>2 DEF WriteCancelled, TypeInv, CancelTyped
    <3> QED
      BY <1>a, <2>0, <3>1 DEF submitVars, workerVars, executorVars
  <2>3. CASE CancelRunning(j)
    <3>1. UNCHANGED <<mutex, cancelExec>> /\ \A k \in Jobs : cancelPc'[k] = "write" => cancelPc[k] = "write"
      BY <2>3 DEF CancelRunning, TypeInv, CancelTyped
    <3> QED
      BY <2>0, <3>1 DEF submitVars, workerVars, executorVars
  <2> QED
    BY <1>3, <2>1, <2>2, <2>3 DEF CancelStep
<1>4. CASE MoveModel \/ UNCHANGED vars \/ \E j \in Jobs : ChildExit(j)
  <2>1. UNCHANGED <<executorVars, mutex, submitVars, workerVars, cancelVars>>
    BY <1>4 DEF MoveModel, vars, ChildExit
  <2> QED
    BY <2>1 DEF executorVars, submitVars, workerVars, cancelVars
<1> QED
  BY <1>1, <1>2, <1>3, <1>4, NoRestart DEF Next, Idle, CancelStep

(***************************************************************************)
(* Until its own request has queued it, nobody else changes a job.         *)
(***************************************************************************)
Unserved == Early \ {"put"}
Untouched(list, pcs) == \A j \in Jobs : pcs[j] \in Unserved => list[j] \in {"absent", "planned"}

FreshInv ==
  /\ Untouched(store, submitPc)
  /\ \A j \in Jobs : submitPc[j] \in {"append", "mark"} => Untouched(submitView[j], submitPc)
  /\ \A e \in Executors, w \in Workers : mutex[e] = w => Untouched(workerView[w], submitPc)
  /\ \A j \in Jobs : cancelPc[j] = "write" => /\ Untouched(cancelView[j], submitPc)
                                              /\ submitPc[j] \notin Unserved
  /\ \A w \in Workers : workerPc[w] \notin {"none", "dead", "get"} => submitPc[workerJob[w]] \notin Early

LEMMA FreshInitial == Init => FreshInv
BY TagsDiffer DEF Init, FreshInv, Untouched

LEMMA UntouchedLasts ==
  ASSUME NEW list, NEW pcs, NEW pcs2, Untouched(list, pcs),
         \A j \in Jobs : pcs2[j] \in Unserved => pcs[j] \in Unserved
  PROVE  Untouched(list, pcs2)
BY DEF Untouched

LEMMA UntouchedUpdate ==
  ASSUME NEW list \in Stores, NEW pcs, NEW j \in Jobs, NEW status, Untouched(list, pcs),
         pcs[j] \notin Unserved
  PROVE  Untouched(Updated(list, j, status), pcs)
BY DEF Untouched, Updated, Stores

\* A request never goes back.
LEMMA RequestsGoOn ==
  ASSUME Serial, TypeInv, [Next]_vars, NEW j \in Jobs
  PROVE  /\ submitPc'[j] \in Unserved => submitPc[j] \in Unserved
         /\ submitPc'[j] \in Early => submitPc[j] \in Early
<1>1. ASSUME NEW k \in Jobs, Arrive(k) \/ SubmitStep(k)
      PROVE  /\ submitPc'[j] \in Unserved => submitPc[j] \in Unserved
             /\ submitPc'[j] \in Early => submitPc[j] \in Early
  <2> USE DEF SubmitAt, TypeInv, SubmitTyped, Early, Unserved
  <2>1. CASE Arrive(k) \/ CreateExecutor(k) \/ WireExecutor(k) \/ ReadJobs(k) \/ AppendJob(k)
    BY <2>1 DEF Arrive, CreateExecutor, WireExecutor, ReadJobs, AppendJob
  <2>2. CASE EnterEnqueue(k) \/ MarkQueued(k) \/ PutJob(k) \/ SpawnWorker(k)
    BY <2>2 DEF EnterEnqueue, MarkQueued, PutJob, SpawnWorker
  <2> QED
    BY <1>1, <2>1, <2>2 DEF SubmitStep
<1>2. CASE MoveModel \/ UNCHANGED vars
  BY <1>2 DEF MoveModel, vars, submitVars
<1> QED
  BY <1>1, <1>2, NoRestart, WorkerLeaves, CancelLeaves, ChildLeaves DEF Next, Idle, CancelStep, submitVars

\* What the writers of the list write, and of which job.
LEMMA WorkerWrites ==
  ASSUME TypeInv, NEW w \in Workers,
         RefuseJob(w) \/ AbortJob(w) \/ StartJob(w) \/ FinishJob(w) \/ WriteProgress(w)
  PROVE  /\ workerExec[w] \in Executors /\ mutex[workerExec[w]] = w
         /\ workerPc[w] \in Writing
         /\ workerView[w] \in Stores /\ workerJob[w] \in Jobs
<1>1. mutex[workerExec[w]] = w /\ workerPc[w] \in Writing
  BY DEF RefuseJob, AbortJob, StartJob, FinishJob, WriteProgress, WriteAndLeave, WorkerAt, Writing
<1>2. workerExec[w] \in Executors /\ workerJob[w] \in Jobs
  BY <1>1 DEF TypeInv, WorkerTyped, Writing
<1> QED
  BY <1>1, <1>2 DEF TypeInv, MutexTyped

LEMMA StoreStaysFresh ==
  ASSUME Serial, TypeInv, FreshInv, [Next]_vars
  PROVE  Untouched(store', submitPc')
<1>0. \A list : Untouched(list, submitPc) => Untouched(list, submitPc')
  BY RequestsGoOn, UntouchedLasts
<1>1. CASE store' = store
  BY <1>0, <1>1 DEF FreshInv
<1>2. CASE store' # store
  <2> USE <1>2
  <2>1. ASSUME NEW j \in Jobs, AppendJob(j), store' = [submitView[j] EXCEPT ![j] = "planned"]
        PROVE  Untouched(store', submitPc)
    <3>1. submitView[j] \in Stores /\ Untouched(submitView[j], submitPc)
      BY <2>1 DEF AppendJob, SubmitAt, TypeInv, SubmitTyped, FreshInv
    <3> QED
      BY <2>1, <3>1 DEF Untouched, Stores
  <2>2. ASSUME NEW j \in Jobs, MarkQueued(j), store' = Updated(submitView[j], j, "queued")
        PROVE  Untouched(store', submitPc')
    <3>1. submitView[j] \in Stores /\ Untouched(submitView[j], submitPc')
      BY <1>0, <2>2 DEF MarkQueued, SubmitAt, TypeInv, SubmitTyped, FreshInv
    <3>2. submitPc'[j] \notin Unserved
      BY <2>2 DEF MarkQueued, SubmitAt, TypeInv, SubmitTyped, Unserved, Early
    <3> QED
      BY <2>2, <3>1, <3>2, UntouchedUpdate
  <2>3. ASSUME NEW w \in Workers,
               RefuseJob(w) \/ AbortJob(w) \/ StartJob(w) \/ FinishJob(w) \/ WriteProgress(w)
        PROVE  Untouched(workerView[w], submitPc) /\ submitPc[workerJob[w]] \notin Unserved
    BY <2>3, WorkerWrites DEF FreshInv, Writing, Unserved
  <2>4. ASSUME NEW w \in Workers, NEW status,
               RefuseJob(w) \/ AbortJob(w) \/ StartJob(w) \/ FinishJob(w),
               store' = Updated(workerView[w], workerJob[w], status)
        PROVE  Untouched(store', submitPc)
    BY <2>3, <2>4, WorkerWrites, UntouchedUpdate
  <2>5. ASSUME NEW w \in Workers, WriteProgress(w), store' = workerView[w]
        PROVE  Untouched(store', submitPc)
    BY <2>3, <2>5
  <2>6. ASSUME NEW j \in Jobs, WriteCancelled(j), store' = Updated(cancelView[j], j, "failed")
        PROVE  Untouched(store', submitPc)
    <3>1. /\ cancelView[j] \in Stores /\ Untouched(cancelView[j], submitPc)
          /\ submitPc[j] \notin Unserved
      BY <2>6 DEF WriteCancelled, TypeInv, CancelTyped, FreshInv
    <3> QED
      BY <2>6, <3>1, UntouchedUpdate
  <2> QED
    BY <1>0, <2>1, <2>2, <2>4, <2>5, <2>6, StoreWrites
<1> QED
  BY <1>1, <1>2

\* Who has the lock had it, unless it is taking it with the list as it is.
LEMMA WorkersLists ==
  ASSUME Serial, TypeInv, [Next]_vars,
         NEW e \in Executors, NEW w \in Workers, mutex'[e] = w
  PROVE  \/ mutex[e] = w /\ workerView'[w] = workerView[w]
         \/ workerView'[w] = store /\ store' = store
<1> USE TagsDiffer DEF TypeInv, MutexTyped
<1>1. ASSUME NEW j \in Jobs, Arrive(j) \/ SubmitStep(j)
      PROVE  mutex[e] = w /\ workerView' = workerView
  <2>1. \/ mutex' = mutex
        \/ \E x \in {Submitter(j), None} : mutex' = [mutex EXCEPT ![submitExec[j]] = x]
    BY <1>1 DEF Arrive, SubmitStep, CreateExecutor, WireExecutor, ReadJobs, AppendJob,
       EnterEnqueue, MarkQueued, PutJob, SpawnWorker
  <2>2. workerView' = workerView
    BY <1>1 DEF Arrive, SubmitStep, CreateExecutor, WireExecutor, ReadJobs, AppendJob,
       EnterEnqueue, MarkQueued, PutJob, SpawnWorker, workerVars
  <2> QED
    BY <2>1, <2>2
<1>2. ASSUME NEW v \in Workers, WorkerStep(v)
      PROVE  \/ mutex[e] = w /\ workerView'[w] = workerView[w]
             \/ workerView'[w] = store /\ store' = store
  <2>1. CASE EnterLock(v)
    BY <2>1 DEF EnterLock, WorkerTyped
  <2>2. CASE ~EnterLock(v)
    <3>1. /\ workerView' = workerView
          /\ mutex' = mutex \/ mutex' = [mutex EXCEPT ![workerExec[v]] = None]
      BY <1>2, <2>2 DEF WorkerStep, TakeJob, BeginExclusive, RefuseJob, StartJob, ResolveCommand,
         ClearCancel, LaunchProcess, ReadLine, WriteProgress, CollectExit, FinishJob, EndExclusive,
         AbortJob, WriteAndLeave
    <3> QED
      BY <3>1
  <2> QED
    BY <2>1, <2>2
<1>3. ASSUME NEW j \in Jobs, CancelStep(j)
      PROVE  mutex[e] = w /\ workerView' = workerView
  <2>1. \/ mutex' = mutex
        \/ \E x \in {Canceller(j), None}, f \in {serviceExec, cancelExec[j]} :
             mutex' = [mutex EXCEPT ![f] = x]
    BY <1>3 DEF CancelStep, CancelQueued, WriteCancelled, CancelRunning
  <2> QED
    BY <1>3, <2>1, CancelLeaves DEF workerVars
<1>4. CASE MoveModel \/ UNCHANGED vars \/ \E j \in Jobs : ChildExit(j)
  BY <1>4 DEF MoveModel, vars, ChildExit, workerVars
<1> QED
  BY <1>1, <1>2, <1>3, <1>4, NoRestart DEF Next, Idle, CancelStep

LEMMA SubmittersLists ==
  ASSUME Serial, TypeInv, [Next]_vars, NEW j \in Jobs, NEW at \in {"append", "mark"},
         submitPc'[j] = at
  PROVE  \/ submitPc[j] = at /\ submitView'[j] = submitView[j]
         \/ submitView'[j] = store /\ store' = store
<1>1. ASSUME NEW k \in Jobs, Arrive(k) \/ SubmitStep(k)
      PROVE  \/ submitPc[j] = at /\ submitView'[j] = submitView[j]
             \/ submitView'[j] = store /\ store' = store
  <2> USE DEF SubmitAt, TypeInv, SubmitTyped
  <2>1. CASE Arrive(k) \/ CreateExecutor(k) \/ WireExecutor(k) \/ ReadJobs(k) \/ AppendJob(k)
    BY <2>1 DEF Arrive, CreateExecutor, WireExecutor, ReadJobs, AppendJob
  <2>2. CASE EnterEnqueue(k) \/ MarkQueued(k) \/ PutJob(k) \/ SpawnWorker(k)
    BY <2>2 DEF EnterEnqueue, MarkQueued, PutJob, SpawnWorker
  <2> QED
    BY <1>1, <2>1, <2>2 DEF SubmitStep
<1>2. CASE MoveModel \/ UNCHANGED vars
  BY <1>2 DEF MoveModel, vars, submitVars
<1> QED
  BY <1>1, <1>2, NoRestart, WorkerLeaves, CancelLeaves, ChildLeaves DEF Next, Idle, CancelStep, submitVars

LEMMA CancellersLists ==
  ASSUME Serial, TypeInv, [Next]_vars, NEW j \in Jobs, cancelPc'[j] = "write"
  PROVE  \/ cancelPc[j] = "write" /\ cancelView'[j] = cancelView[j]
         \/ cancelView'[j] = store /\ store' = store /\ store[j] = "queued"
<1>1. ASSUME NEW k \in Jobs, CancelStep(k)
      PROVE  \/ cancelPc[j] = "write" /\ cancelView'[j] = cancelView[j]
             \/ cancelView'[j] = store /\ store' = store /\ store[j] = "queued"
  BY <1>1 DEF CancelStep, CancelQueued, WriteCancelled, CancelRunning, TypeInv, CancelTyped
<1>2. CASE MoveModel \/ UNCHANGED vars
  BY <1>2 DEF MoveModel, vars, cancelVars
<1> QED
  BY <1>1, <1>2, NoRestart, WorkerLeaves, SubmitLeaves, ChildLeaves DEF Next, Idle, CancelStep, cancelVars

LEMMA ServedJobs ==
  ASSUME Serial, TypeInv, OnePlace, FreshInv, [Next]_vars,
         NEW w \in Workers, workerPc'[w] \notin {"none", "dead", "get"}
  PROVE  submitPc'[workerJob'[w]] \notin Early
<1>0. workerPc[w] \notin {"none", "dead", "get"} =>
        workerJob[w] \in Jobs /\ submitPc[workerJob[w]] \notin Early
  BY DEF FreshInv, TypeInv, WorkerTyped
<1>1. CASE workerPc[w] \notin {"none", "dead", "get"} /\ workerJob'[w] = workerJob[w]
  BY <1>0, <1>1, RequestsGoOn
<1>2. CASE TakeJob(w)
  <2>1. workerExec[w] \in Executors /\ queue[workerExec[w]] # <<>>
    BY <1>2 DEF TakeJob, WorkerAt, TypeInv, WorkerTyped
  <2>2. workerJob'[w] = Head(queue[workerExec[w]])
    BY <1>2 DEF TakeJob, TypeInv, WorkerTyped
  <2>3. 1 \in DOMAIN queue[workerExec[w]] /\ workerJob'[w] = queue[workerExec[w]][1]
        /\ workerJob'[w] \in Jobs
    BY <2>1, <2>2, QueuesAreSequences, HeadTailProperties
  <2>4. InQueue(workerJob'[w])
    BY <2>1, <2>3 DEF InQueue
  <2> QED
    BY <2>3, <2>4, RequestsGoOn DEF OnePlace
<1>3. ASSUME NEW j \in Jobs, Arrive(j) \/ SubmitStep(j)
      PROVE  workerPc[w] \notin {"none", "dead", "get"} /\ workerJob' = workerJob
  BY <1>3, SubmitMoves
<1>4. ASSUME NEW v \in Workers, WorkerStep(v), ~TakeJob(w)
      PROVE  workerPc[w] \notin {"none", "dead", "get"} /\ workerJob'[w] = workerJob[w]
  <2>1. CASE v # w
    BY <1>4, <2>1, WorkerMoves
  <2>2. CASE v = w
    BY <1>4, <2>2 DEF WorkerStep, BeginExclusive, EnterLock, RefuseJob, StartJob, ResolveCommand,
       ClearCancel, LaunchProcess, ReadLine, WriteProgress, CollectExit, FinishJob, EndExclusive,
       AbortJob, WriteAndLeave, WorkerAt
  <2> QED
    BY <2>1, <2>2
<1>5. CASE MoveModel \/ UNCHANGED vars \/ \E j \in Jobs : CancelStep(j) \/ ChildExit(j)
  <2>1. workerPc' = workerPc /\ workerJob' = workerJob
    BY <1>5, CancelLeaves, ChildLeaves DEF MoveModel, vars, workerVars
  <2> QED
    BY <1>1, <2>1
<1> QED
  BY <1>1, <1>2, <1>3, <1>4, <1>5, NoRestart DEF Next, Idle, CancelStep, workerVars

LEMMA FreshStep ==
  ASSUME Serial, TypeInv, OnePlace, FreshInv, [Next]_vars
  PROVE  FreshInv'
<1>0. \A list : Untouched(list, submitPc) => Untouched(list, submitPc')
  BY RequestsGoOn, UntouchedLasts
<1>1. Untouched(store, submitPc')
  BY <1>0 DEF FreshInv
<1>2. ASSUME NEW j \in Jobs, submitPc'[j] \in {"append", "mark"}
      PROVE  Untouched(submitView'[j], submitPc')
  BY <1>0, <1>1, <1>2, SubmittersLists DEF FreshInv
<1>3. ASSUME NEW e \in Executors, NEW w \in Workers, mutex'[e] = w
      PROVE  Untouched(workerView'[w], submitPc')
  BY <1>0, <1>1, <1>3, WorkersLists DEF FreshInv
<1>4. ASSUME NEW j \in Jobs, cancelPc'[j] = "write"
      PROVE  Untouched(cancelView'[j], submitPc') /\ submitPc'[j] \notin Unserved
  <2>1. submitPc[j] \notin Unserved => submitPc'[j] \notin Unserved
    BY RequestsGoOn
  <2>2. store[j] = "queued" => submitPc[j] \notin Unserved
    BY DEF FreshInv, Untouched
  <2> QED
    BY <1>0, <1>1, <1>4, <2>1, <2>2, CancellersLists DEF FreshInv
<1> QED
  BY <1>2, <1>3, <1>4, ServedJobs, StoreStaysFresh DEF FreshInv

(***************************************************************************)
(* What submit_job() read has final statuses the list still has; what was  *)
(* read under the lock has those of the list.                              *)
(***************************************************************************)
Settles(old, new) == \A j \in Jobs : old[j] \in Terminal => new[j] \in Terminal

ListInv ==
  /\ \A j \in Jobs : submitPc[j] = "append" => Settles(submitView[j], store)
  /\ \A j \in Jobs : submitPc[j] = "mark" => Settles(store, submitView[j])
  /\ \A e \in Executors, w \in Workers : mutex[e] = w => Settles(store, workerView[w])
  /\ \A j \in Jobs : cancelPc[j] = "write" => Settles(store, cancelView[j])

SettleInv == LockInv /\ FreshInv /\ ListInv

LEMMA ListInitial == Init => ListInv
BY TagsDiffer DEF Init, ListInv

LEMMA SettlesUpdate ==
  ASSUME NEW old, NEW list \in Stores, NEW j \in Jobs, NEW status, Settles(old, list),
         status \in Terminal \/ old[j] \notin Terminal
  PROVE  Settles(old, Updated(list, j, status))
BY DEF Settles, Updated, Stores

LEMMA SettlesThrough ==
  ASSUME NEW a, NEW b, NEW c, Settles(a, b), Settles(b, c)
  PROVE  Settles(a, c)
BY DEF Settles

\* submit_job() makes no status final.
LEMMA AppendSettlesNothing ==
  ASSUME TypeInv, ListInv, NEW j \in Jobs, AppendJob(j), store' # store
  PROVE  Settles(store', store)
<1>1. /\ submitView[j] \in Stores /\ Settles(submitView[j], store)
      /\ store' = [submitView[j] EXCEPT ![j] = "planned"]
  BY DEF AppendJob, SubmitAt, TypeInv, SubmitTyped, ListInv
<1> QED
  BY <1>1 DEF Settles, Stores, Terminal

\* Every other writer keeps what is final, and gives the lock back.
LEMMA LockedWrite ==
  ASSUME Serial, TypeInv, SerialInv, SettleInv, [Next]_vars, store' # store,
         \A j \in Jobs : ~AppendJob(j)
  PROVE  Settles(store, store') /\ globalExec \in Executors /\ globalExec' = globalExec
         /\ mutex'[globalExec] = None
<1> USE DEF SettleInv
<1>0. mutex \in [Executors -> {None} \cup Workers \cup ({"submit", "cancel"} \X Jobs)]
  BY DEF TypeInv, MutexTyped
<1>1. ASSUME NEW j \in Jobs, MarkQueued(j), store' = Updated(submitView[j], j, "queued")
      PROVE  Settles(store, store') /\ globalExec \in Executors /\ globalExec' = globalExec
             /\ mutex'[globalExec] = None
  <2>1. submitPc[j] = "mark" /\ submitView[j] \in Stores /\ submitExec[j] \in Executors
        /\ submitExec[j] = globalExec
    BY <1>1 DEF MarkQueued, SubmitAt, TypeInv, SubmitTyped, SerialInv, OneExecutor
  <2>2. Settles(store, submitView[j])
    BY <2>1 DEF ListInv
  <2>3. store[j] \notin Terminal
    BY <2>1 DEF FreshInv, Untouched, Unserved, Early, Terminal
  <2>4. globalExec' = globalExec /\ mutex'[globalExec] = None
    BY <1>0, <1>1, <2>1 DEF MarkQueued, executorVars
  <2> QED
    BY <1>1, <2>1, <2>2, <2>3, <2>4, SettlesUpdate
<1>2. ASSUME NEW w \in Workers,
             RefuseJob(w) \/ AbortJob(w) \/ StartJob(w) \/ FinishJob(w) \/ WriteProgress(w)
      PROVE  /\ workerView[w] \in Stores /\ workerJob[w] \in Jobs /\ Settles(store, workerView[w])
             /\ globalExec \in Executors /\ globalExec' = globalExec /\ mutex'[globalExec] = None
  <2>1. /\ workerExec[w] \in Executors /\ mutex[workerExec[w]] = w /\ workerPc[w] \in Writing
        /\ workerView[w] \in Stores /\ workerJob[w] \in Jobs
    BY <1>2, WorkerWrites
  <2>2. workerExec[w] = globalExec
    BY <2>1 DEF SerialInv, OneWorker, Writing
  <2>3. mutex' = [mutex EXCEPT ![workerExec[w]] = None] /\ globalExec' = globalExec
    BY <1>2 DEF RefuseJob, AbortJob, StartJob, FinishJob, WriteProgress, WriteAndLeave, executorVars
  <2> QED
    BY <1>0, <2>1, <2>2, <2>3 DEF ListInv
<1>3. ASSUME NEW w \in Workers, NEW status \in Terminal,
             RefuseJob(w) \/ AbortJob(w) \/ FinishJob(w),
             store' = Updated(workerView[w], workerJob[w], status)
      PROVE  Settles(store, store')
  BY <1>2, <1>3, SettlesUpdate
<1>4. ASSUME NEW w \in Workers, StartJob(w), StillQueued(w),
             store' = Updated(workerView[w], workerJob[w], "running")
      PROVE  Settles(store, store')
  <2>1. store[workerJob[w]] \notin Terminal
    BY <1>2, <1>4 DEF StillQueued, Settles, Terminal
  <2> QED
    BY <1>2, <1>4, <2>1, SettlesUpdate
<1>5. ASSUME NEW w \in Workers, WriteProgress(w), store' = workerView[w]
      PROVE  Settles(store, store')
  BY <1>2, <1>5
<1>6. ASSUME NEW j \in Jobs, WriteCancelled(j), store' = Updated(cancelView[j], j, "failed")
      PROVE  Settles(store, store') /\ globalExec \in Executors /\ globalExec' = globalExec
             /\ mutex'[globalExec] = None
  <2>1. /\ cancelPc[j] = "write" /\ cancelExec[j] \in Executors /\ cancelView[j] \in Stores
        /\ cancelExec[j] = globalExec /\ Settles(store, cancelView[j])
    BY <1>6 DEF WriteCancelled, TypeInv, CancelTyped, LockInv, ListInv
  <2>2. globalExec' = globalExec /\ mutex'[globalExec] = None
    BY <1>0, <1>6, <2>1 DEF WriteCancelled, executorVars
  <2> QED
    BY <1>6, <2>1, <2>2, SettlesUpdate DEF Terminal
<1>7. \A w \in Workers : Outcome(w) \in Terminal
  BY DEF Outcome, Terminal
<1>8. "failed" \in Terminal
  BY DEF Terminal
<1> QED
  BY <1>1, <1>2, <1>3, <1>4, <1>5, <1>6, <1>7, <1>8, StoreWrites

LEMMA ListStep ==
  ASSUME Serial, TypeInv, SerialInv, SettleInv, [Next]_vars, SerialInv', LockInv'
  PROVE  ListInv'
<1> USE DEF SettleInv
<1>a. ASSUME NEW j \in Jobs, submitPc'[j] = "append" PROVE Settles(submitView'[j], store')
  <2>1. CASE submitPc[j] = "append" /\ submitView'[j] = submitView[j]
    <3>1. Settles(submitView[j], store)
      BY <2>1 DEF ListInv
    <3>2. \A k \in Jobs : ~AppendJob(k)
      BY <1>a, <2>1 DEF AppendJob, SubmitAt, SerialInv, OneExecutor, Underway, TypeInv, SubmitTyped
    <3>3. Settles(store, store')
      BY <3>2, LockedWrite DEF Settles
    <3> QED
      BY <2>1, <3>1, <3>3, SettlesThrough
  <2>2. CASE submitView'[j] = store /\ store' = store
    BY <2>2 DEF Settles
  <2> QED
    BY <1>a, <2>1, <2>2, SubmittersLists
<1>b. ASSUME NEW list, Settles(store, list),
             store' = store \/ \E j \in Jobs : AppendJob(j)
      PROVE  Settles(store', list)
  BY <1>b, AppendSettlesNothing, SettlesThrough
<1>c. CASE store' = store \/ \E j \in Jobs : AppendJob(j)
  <2>0. store' = store => Settles(store', store)
    BY DEF Settles
  <2>1. ASSUME NEW j \in Jobs, submitPc'[j] = "mark" PROVE Settles(store', submitView'[j])
    BY <1>b, <1>c, <2>0, <2>1, SubmittersLists DEF ListInv
  <2>2. ASSUME NEW e \in Executors, NEW w \in Workers, mutex'[e] = w
        PROVE  Settles(store', workerView'[w])
    BY <1>b, <1>c, <2>0, <2>2, WorkersLists DEF ListInv
  <2>3. ASSUME NEW j \in Jobs, cancelPc'[j] = "write" PROVE Settles(store', cancelView'[j])
    BY <1>b, <1>c, <2>0, <2>3, CancellersLists DEF ListInv
  <2> QED
    BY <1>a, <2>1, <2>2, <2>3 DEF ListInv
<1>d. CASE store' # store /\ \A j \in Jobs : ~AppendJob(j)
  <2>1. globalExec' \in Executors /\ mutex'[globalExec'] = None
    BY <1>d, LockedWrite
  <2>2. \A j \in Jobs : submitPc'[j] # "mark"
    BY <2>1, TagsDiffer DEF LockInv, SerialInv, OneExecutor
  <2>3. \A j \in Jobs : cancelPc'[j] # "write"
    BY <2>1, TagsDiffer DEF LockInv
  <2>4. \A e \in Executors, w \in Workers : mutex'[e] # w
    BY <2>1, TagsDiffer DEF LockInv, SerialInv, OneWorker, Writing
  <2> QED
    BY <1>a, <2>2, <2>3, <2>4 DEF ListInv
<1> QED
  BY <1>c, <1>d

LEMMA SettleInvHolds == Serial => (Spec => [](TypeInv /\ SerialInv /\ OnePlace /\ SettleInv))
<1> SUFFICES ASSUME Serial PROVE Spec => [](TypeInv /\ SerialInv /\ OnePlace /\ SettleInv)
  OBVIOUS
<1>1. Init => TypeInv /\ SerialInv /\ OnePlace /\ SettleInv
  BY TypeInitial, SerialInitial, OnePlaceInitial, LockInitial, FreshInitial, ListInitial DEF SettleInv
<1>2. TypeInv /\ SerialInv /\ OnePlace /\ SettleInv /\ [Next]_vars
        => (TypeInv /\ SerialInv /\ OnePlace /\ SettleInv)'
  <2> SUFFICES ASSUME TypeInv, SerialInv, OnePlace, SettleInv, [Next]_vars
               PROVE  TypeInv' /\ SerialInv' /\ OnePlace' /\ SettleInv'
    OBVIOUS
  <2>1. TypeInv' /\ OnePlace'
    BY TypeStep, OnePlaceStep
  <2>2. SerialInv'
    BY OneExecutorStep, OneWorkerStep, CoveredStep DEF SerialInv
  <2>3. LockInv' /\ FreshInv'
    BY LockStep, FreshStep DEF SettleInv
  <2>4. ListInv'
    BY <2>2, <2>3, ListStep
  <2> QED
    BY <2>1, <2>2, <2>3, <2>4 DEF SettleInv
<1> QED
  BY <1>1, <1>2, PTL DEF Spec

(***************************************************************************)
(* A client that submits one job at a time: a final status is taken back   *)
(* by a submit_job() that writes the list it read before the status was    *)
(* final (service.py:54-72), and by nothing else - not by the worker, not  *)
(* by a cancellation, and not by enqueue().                                *)
(***************************************************************************)
THEOREM OnlySubmitRevives == Serial => (Spec => RevivedOnlyBySubmit)
<1> SUFFICES ASSUME Serial PROVE Spec => RevivedOnlyBySubmit
  OBVIOUS
<1>1. TypeInv /\ SerialInv /\ OnePlace /\ SettleInv /\ [Next]_vars =>
        [\A j \in Jobs : store[j] \in Terminal /\ store'[j] \notin Terminal
           => \E k \in Jobs : submitPc[k] = "append" /\ submitPc'[k] # "append"]_vars
  <2> SUFFICES ASSUME TypeInv, SerialInv, SettleInv, [Next]_vars, NEW j \in Jobs,
                      store[j] \in Terminal, store'[j] \notin Terminal
               PROVE  \E k \in Jobs : submitPc[k] = "append" /\ submitPc'[k] # "append"
    OBVIOUS
  <2>1. store' # store /\ ~Settles(store, store')
    BY DEF Settles
  <2>2. PICK k \in Jobs : AppendJob(k)
    BY <2>1, LockedWrite
  <2>3. submitPc[k] = "append" /\ submitPc'[k] # "append"
    BY <2>2 DEF AppendJob, SubmitAt, TypeInv, SubmitTyped
  <2> QED
    BY <2>3
<1> QED
  BY <1>1, SettleInvHolds, PTL DEF Spec, RevivedOnlyBySubmit
=============================================================================
