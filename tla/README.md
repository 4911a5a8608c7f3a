# MisakaAssetGene: TLA+ models, model checking and proofs

MisakaAssetGene is a local desktop application that helps its user produce game assets. A FastAPI
service (`src/core`, Python) talks the user through what is wanted, plans generation jobs, runs
them on external workers (ComfyUI and others), refines images in a loop, trains LoRA and voice
models, and keeps it all in project directories that refer to one another and can be exported and
imported. A Vue frontend and a Tauri shell drive the service over HTTP. This directory holds TLA+
models of the parts of the service in which steps of several actors meet on shared state and of the
pure algorithms that are easy to get wrong, the TLC configurations that check them, and TLAPS proofs
of what matters most.

Two facts about the service shape all of it:

* Most of the routes in `core/main.py` are plain functions, which FastAPI runs on a thread pool.
  Requests of one project therefore **overlap**, in one process.
* Nearly all state is a JSON file or an SQLite row that is **read as a whole, changed in memory and
  written as a whole**. Single writes are atomic (`core/project/atomic_io.py` replaces the file);
  a read and the write that follows it are not.

Many of the obvious properties do not hold for that reason. Where one does not, the properties here
say what still holds, with the exact condition under which (a request that came at a bad time, a
copy that was out of date), and section 7 says what the code does otherwise.

Contents: [parts of the system](#1-parts-of-the-system) · [plan](#2-plan) ·
[modules](#3-modules) · [runs](#4-runs) · [fairness](#5-fairness) · [proofs](#6-proofs) ·
[disagreements](#7-where-the-code-and-what-is-said-of-it-disagree) ·
[not modelled](#8-what-is-not-modelled)

    tlasany M.tla                               parse a module
    tlc -workers 2 -config X.cfg M              run a configuration (section 4 has the pairs)
    tlapm VramSchedulerProofs.tla               check proofs (and ConsultantProofs, FidelityProofs,
                                                GenerationProofs, TrainingProofs, WorkerProofs,
                                                CrossProjectProofs, ProjectStoreProofs)

## 1. Parts of the system

### Modelled

**VRAM scheduler** (`core/scheduler/vram.py`, `ModelScheduler`).
*State*: the registered models with their sizes, their tier (Active in VRAM, Warm in RAM, Cold on
disk) and their last use, the log of transitions, the holder of the exclusive training lock.
*Operations*: `register`, `acquire` with its eviction loop, `demote`, `evict`, `tick` (idle
off-loading), `begin_training`, `try_begin_training`, `end_training`; one re-entrant lock around
each. *Used by*: the training executor, and the lock query of generation. *Hard*: one `acquire`
chains demotions, each of which looks at RAM pressure again; the scan for Active models and the
taking of the lock must be one step. *Correct when*: neither budget is ever exceeded, eviction
never gives up half-way, training and resident models exclude each other, the event log says where
everything is.

**Training** (`core/training/service.py`, `executor.py`, the routes in `core/main.py`).
*State*: `jobs.json` of the project; the executor singleton; its FIFO, worker thread, `_lock` and
runner (process, cancel flag); the scheduler's lock. *Operations*: submit, enqueue, the worker's
path from taking a job to its final status, cancel of a queued and of a running job. *Hard*: four
threads (two requests, a cancel, the worker) change one file; `submit_job()` does it outside
`_lock`; the singleton is created without a lock; exceptions at every step must release the lock;
the queue is in memory only. *Correct when*: one process trains at a time and under the lock, the
lock is always given back, `COMPLETED` means exit code 0, an accepted job reaches a final status.

**Generation** (`core/generation/service.py`).
*State*: `jobs.json`, the asset index, the plan index, the files of the artifacts. *Operations*:
record a plan, list and refresh, update, refine, import, execute one job or all ready ones.
*Interacts with*: the workers' readiness, the training lock (asked once per request), the adapters.
*Hard*: there is no lock; a request keeps the lists it read while the generation runs for minutes,
and writes them back at each progress report; a job spans three files. *Correct when*: no record
and no final status is lost, `COMPLETED` jobs have their assets on disk and in the index, `RUNNING`
ends.

**Fidelity refine loop** (`core/consultant/fidelity_service.py`, `fidelity_store.py`,
`fidelity_loop.py`).
*State*: a loop row and its round rows in `memory.sqlite`, a lock per loop and process.
*Operations*: `start_loop()` with or without `auto_continue`, `advance()`, the decision after each
critique. *Interacts with*: mask builder, generation and vision critic, which return or raise.
*Hard*: two clients, two processes; the row is read before the claim; a regression goes back to the
best image; the automatic mode runs without lock or claim. *Correct when*: rounds do not overlap,
each starts from the best image so far, the last critique alone ends the loop, an ended loop stays
ended.

**Consultant dialog** (`core/consultant/engine.py`, `state_machine.py`, `session_store.py`).
*State*: one row per session: modality, state, slots, plan. *Operations*: start (or resume) and
advance. *Hard*: nothing locks a session, the second writer replaces the row of the first; a
resumed session may change its modality. *Correct when*: transitions are legal, Summary is reached
with a complete checklist only, the plan exists from Generate on, answers are not asked again.

**Worker runtime** (`core/integration/workers.py`).
*State*: per worker a repository, an install file, a runtime file with the pid, a startup log; the
processes themselves, which outlive the service. *Operations*: install, start, stop, the activity
marks of generation jobs, the readiness note. *Hard*: files and processes are not changed
together, nothing locks a worker, the user may run a server of their own on the same port.
*Correct when*: every live process the service launched is in the runtime file, stop reaches it,
and a process that died by itself is explained by its log.

**Cross-project references** (`core/project/cross_project.py`, the refresh in `export.py`).
*State*: the source files, the copies under `_external/`, `origins.json` with their hashes, a lock
file. *Operations*: resolve, materialise a list of references, export with references.
*Hard*: the lock file is unlinked after the lock on it was given up; the copy and its entry are
written under two acquisitions; the source changes meanwhile; processes die; origins.json may be
unreadable. *Correct when*: an entry has a copy, no entry gets lost, what was materialised outlives
its source.

**Project store and import** (`core/project/manager.py`, `portability.py`, `atomic_io.py`).
*State*: the project directories with `project.json`, guide, conversation; the current selection;
the last good copy of each parsed file. *Operations*: create, list, open (which gives old files an
id), select, update, append to the conversation, import an archive. *Hard*: directories are claimed
in one step and filled in others; creations and imports race for a name; any write may raise; a
file that cannot be parsed is answered from an older copy. *Correct when*: what is listed is whole,
no project is taken over or removed, no update is lost.

**Training assets** (`core/training/asset_store.py`).
*State*: five tables in the `memory.sqlite` of each project. *Operations*: create, read, update,
delete, and what export and import carry of them. *Hard*: an update is a read and, in another
transaction, a write of every column. *Correct when*: a patch changes only the fields it sets, a
deleted row stays deleted.

**Algorithms**: the checklist of a character (`core/consultant/fidelity.py`), the mask of an edit
(`core/editor/mask.py`), loops of references (`cross_project.py`) and the version tree
(`generation/service.py`), the prompts of refined versions (`generation/refine.py`), the plan of a
refinement round (`fidelity_loop.py`), the gates of the vision critic (`core/llm/vision.py`,
`critic_support.py`). *Correct when*: they compute what their documentation says, for all small
inputs.

### How they meet

    frontend ── HTTP ──▶ main.py ──▶ consultant ──▶ generation ──▶ adapters ──▶ workers
                            │            │              │  ▲                      ▲
                            │            ▼              │  │ readiness, marks     │ start, stop
                            │      fidelity loop ───────┘  └── worker runtime ────┘
                            │            └─▶ vision critic, mask builder
                            ├──▶ training ──▶ executor ──▶ training process
                            │                     └──▶ VRAM scheduler ◀── lock query ── generation
                            └──▶ project store, training assets, references, import and export

All of them reach their state through the files of a project; the scheduler and the executor's queue
are the only state that is shared in memory.

### Outside the models

`PROJECT.json` lists every part with its sources and the reason: the local model server (one
process, downloads: the shape of the worker runtime), network status and request guards, planner and
question lists, training command builders, generation adapters, license report, memory store
(placeholder functions), frontend, desktop shell, scripts and quality gates. Section 8 says what is
left out of the modelled parts.

## 2. Plan

The order was that of importance: first what guards the GPU, then what changes the user's records,
then the files of projects, and the pure algorithms last.

| # | modules | status |
|---|---|---|
| 1 | `VramAdmission` (abstract), `VramScheduler`, `VramSchedulerProofs` | modelled, checked, proved |
| 2 | `TrainingExecutor`, composed with `VramAdmission`; `TrainingProofs` | modelled, checked, safety proved |
| 3 | `GenerationJobs`, `GenerationProofs` | modelled, checked, safety proved |
| 4 | `BestSoFar` (abstract), `FidelityLoop`, `FidelityProofs` | modelled, checked, safety and refinement proved |
| 5 | `ConsultantSession`, `ConsultantProofs` | modelled, checked, proved |
| 6 | `WorkerRuntime`, `WorkerProofs` | modelled, checked, proved |
| 7 | `FileLock`, `CrossProject` on top of it, `CrossProjectProofs` | modelled, checked, proved |
| 8 | `ProjectStore`, `TrainingAssets` on top of it, `ProjectStoreProofs` | modelled, checked, proved |
| 9 | `FidelityChecklist`, `MaskBuilder`, `ReferenceCycles`, `VersionTree`, `RefineLineage`, `RoundPlan`, `CriticGates`, driven by `Algorithms`; proofs in `ConsultantProofs` | modelled, checked, proved |

Every invariant, action property and refinement that a passing run checks has a theorem (the two
properties at the head of section 7 do not hold). What is left, in the order in which it is worth having:
a composition of `GenerationJobs` with the lock query of `VramAdmission`, should the code ever hold the
lock through a generation; a checklist of `FidelityLoop` that changes between rounds; the critic's boxes beyond the
image (section 7); the local model server, if it ever grows a second operation that changes state.

## 3. Modules

Conventions. A request, worker or client is a process with a program counter; one action is the
code between two accesses to shared state. What a thread has read is a variable of its own (`view`,
`index`, `loop`, `todo`): what it writes is computed from that copy and not from the file. A write
that may raise is an alternative of the action and ends where the code's `except` and `finally`
lead. Variables marked *history* in a module are read by no guard and change nothing; they say in a
property what went before. Formulas marked `(mutant)` are alternative definitions with a plausible
mistake in them; each makes one of the properties fail and is otherwise unused.

### VramAdmission

What the rest of the application relies on: a set `active` of resident models and the `holder` of
the training lock. A model enters VRAM only while nobody trains, training begins only while no
model is resident (spec 7.3, the two-way hard lock).

### VramScheduler (implements VramAdmission)

| state | code |
|---|---|
| `registry` | keys of `_models` in dict order (ties among eviction candidates) |
| `state`, `vram`, `ram`, `lastUsed` | the `ManagedModel` objects |
| `holder` | `_training_lock_holder` |
| `placed` | where a reader of the `TransitionEvent` log puts each model |
| `acquiring`, `scan` | the `acquire()` or `tick()` that is inside the lock |
| `direct`, `replaced` (history) | was the lock taken by `begin_training()`; which names were registered again while resident |

Each public method is an action. The loops of `acquire()` (`BeginAcquire`, `EvictForRoom`,
`FinishAcquire`) and `tick()` (`BeginTick`, `TickModel`) are modelled iteration by iteration, so
that the budgets are examined in the middle of them; `LockFree` keeps every other method out until
they end. In this version of the application the executor calls `try_begin_training()` and
`end_training()`, and nothing outside the tests registers a model: what is shown of the tiers is
about the class, ready for callers that do. Megabytes are counted as the cardinality of a set of
pairs, which needs no recursion and can be proved about.

### TrainingExecutor (with `Admission == INSTANCE VramAdmission`)

`store` is `jobs.json`; `globalExec` and `serviceExec` the two references to the executor in
`main.py` and `service.py`; `queue`, `mutex`, `workerOf`, `cancelSet`, `process` the fields of each
executor and its runner; `child` the training process of a job; `active`, `holder` the scheduler,
of which only what `VramAdmission` promises is used.

* A submission: `Arrive`, `CreateExecutor`, `WireExecutor` (`_get_or_create_executor()`, a test and
  an assignment apart), `ReadJobs`, `AppendJob` (`submit_job()`, without `_lock`), `EnterEnqueue`,
  `MarkQueued`, `PutJob`, `SpawnWorker` (`enqueue()`).
* The worker: `TakeJob`, `BeginExclusive` or `RefuseJob`, `StartJob`, `ResolveCommand`,
  `ClearCancel`, `LaunchProcess`, `ReadLine`, `WriteProgress`, `CollectExit`, `FinishJob`,
  `EndExclusive` (the `finally`), `AbortJob` (the exception handler of `_process_item()`).
  `EnterLock` reads the list under `_lock` for each of the writes.
* A cancellation: `CancelQueued` and `WriteCancelled`, or `CancelRunning`.
* Around it: `ChildExit`, `MoveModel` (other users of the scheduler), `Restart` (memory is lost,
  `jobs.json` and training processes are not), `Idle` (nothing left to do).

### GenerationJobs

`jobs`, `assets`, `plans` are the three index files and `files` the stored artifacts; `worker` and
`training` what the readiness note and the lock query answer, changed by the environment at any
time. A request picks a kind (list, plan, execute, batch, update, refine, import), reads the files
one after the other and continues with its part. Execution: `Guard` (lock and statuses, once),
`StartExecution` (`RUNNING` is written), `ReportProgress` (the whole list again), `AdapterRaises` or
`AdapterReturns`, `WriteCompleted`, `WriteIndex`, next job of the batch. `Refreshed` is
`_refresh_jobs()` for one job, including that it knows a blocking reason by its text only. History:
`overlapped` (a request came while another was served), `broken` (a request ended halfway).

### BestSoFar, FidelityLoop

`BestSoFar` is what the loop promises: a history of critiques in which each image refines the best
so far, ended by the last critique alone. `FidelityLoop` has the row, the rounds, the in-process
`lock`s, and per request its copy `loop` and the round `work` it is in. `start_loop()`:
`CreateLoop`, `BaselineCritiqued`, then, when automatic, rounds without lock and claim.
`advance()`: `ReadLoop`, `TakeLock`, `ClaimRound` (the conditional UPDATE), a round, `Leave`. A
round: `PlanRound`, `BeginMask`, `MaskBuilt`, `Refined`, `Critiqued`, `RecordRound`, `ApplyOutcome`
(`decide_round_outcome()`). `StepRaises`, `PlanRaises`, `WriteRaises` and `Crash` are the faults.
`Deployments` says which requests one process may serve. The refinement maps `history` to the rounds
whose outcome is saved. History: `broken` (a failure that no status records), `stale` (a round was
claimed with an old copy of the row).

### ConsultantSession

`row` is the sessions table. The rows a request will write are a function of what it read and what
it was sent, so `StartSession` and `AdvanceSession` compute them into `todo` and `WriteRow` writes
them one by one; between the two any other request may write. `stale` (history): has the row
changed since this request read or wrote it? A write that raises leaves the same rows as a request
that is delayed for ever. Slot values are `filled`, `blank` or `absent`, and the planner is reduced
to the modality its analysis is for.

### WorkerRuntime

One worker with a health check. `repo`, `install`, `runtime`, `log` and `written` are its files;
`process`, `listener` and `stopped` the processes, who answers on the port, and who was sent
SIGTERM. A request: `CloneRepository`, `InstallDependencies`, `ClearArtifacts`; `CheckStart`,
`LaunchWorker` (a fresh log and `Popen`), `RecordPid`, `PollHealth`; `SignalWorker`,
`ForgetWorker`; `ReadActivity`, `WriteActivity`. Around it: `ProcessServes`, `ProcessFails`,
`UserServer` and `Restart` of the service. `ReadinessNote` is what the page shows. History:
`careless` (a request overlapped another, or started or installed at a moment at which the code
cannot know of a live process), `broken` (a restart between launch and record).

### FileLock, CrossProject

`FileLock` is `_acquire_file_lock()`: a lock per process for its threads, then `flock()` on a file
that whoever is done unlinks by name. `flock()` locks the file that was opened and not its name, so
`lockFile` (what the name refers to) and `handle` (what each thread has opened) are different
variables, and two threads of different processes can be `held` at once (`Overlapping`).
`CrossProject` extends it: `source`, `copy` and `origins` with the order of its entries (`added`),
because the code takes the first entry whose path begins like the asset's. Of paths it keeps how the
code compares them: files are looked for in the directory of the asset (`Siblings`), `rmtree` takes
what lies in it at any depth (`Within`), and an entry is found by the beginning of its path, without a
slash behind it (`Prefixed`), so that one for `char/x` or `char2` answers for `char` too. `Used` are the
references in the files of the project, which an export refreshes. A request works through `todo`:
`ResolveNext` (with `Removed`, the `rmtree` of an export), `HashSource`, `TakeLock` or `LockFails`,
`BeginCopy` and `FinishCopy` (`copy2()` truncates, then writes), `LeaveLock`, the lock again, `ReadOrigins`,
`WriteOrigins`, `LeaveLock`. Around it: `SourceChanges` and `Crash`.

### ProjectStore, TrainingAssets

`ProjectStore` has for each id the directory (`maker`), `project.json` (`json`), what else is in it
(`files`), the conversation (`talk`) and the last parsed copy of it (`snapshot`). Operations:
create (`MakeDirectory`, `Describe`, `WriteGuide`, `BeginTalk`, `ReadSelection`, `ClearSelection`,
`Point`), import (`ChooseId`, `ClaimDirectory`, `ExtractFirst`, `ExtractRest`, `ExtractFails`,
`Describe`), open and look (`Load`, `Normalise`), settings (`Store`), select (`Point`), append
(`ReadTalk`, `WriteTalk`); `WriteFails` at every write. `TrainingAssets` adds the rows of one table
per project and the routes on them (`Insert`, `Fetch`, `Update`, `Delete`); `FilesStep` takes a
step of the project files along with what it does to the database in the directory. `ColumnsOf`
has what each of the five tables lets a request set. History: `overlapped`, `outdated`, `touched`.

### Algorithms and the modules it extends

* `FidelityChecklist`: `parse_character_checklist()` over lines reduced to what the parser tells
  apart. A bullet is the index of its line and its block the set of the indices of the deeper lines
  behind it, blank lines passed over, so a check is the set of lines it quotes. A bold sub-bullet
  (`label`) with a short label has the form of a state to the parser. `StatesAreExact` compares the checks
  with a definition that says for each bullet and mode which lines are asked about; it reads the file as
  the docstrings do, where a blank line ends the bullet (`Told`), and leaves bullets that go on behind one
  (`GoesOn`) and bullets with bold sub-bullets out (section 7).
* `MaskBuilder`: `build_mask_png()` in whole numbers, over sets of regions: their order does not
  matter, as the largest value counts. The reference (`Depth`) gives the value of a pixel from its distance
  to the outside of each dilated region as it was asked for: it knows nothing of the image, so that it says
  what a larger image would show. `CutShows` is where the code, which cuts a box off before it dilates it,
  differs, and is left out (section 7).
* `ReferenceCycles`: `detect_cycles()` as the calls it makes of itself, by how deep they are nested
  (`Calls`), and the paths that these report (`Cycles`). `VersionTree`: `build_version_tree()` over the
  chains of parents (`Chain`). Both against what can be reached: every path that is reported comes back to
  where it was, and every project on a loop that is led to is on one; what is shown of the versions is a
  forest, and no edge is cut that leads into no loop.
* `RefineLineage`: `plan_refine()`, `compose_prompt()`, `_resolve_effective_prompt()`.
* `RoundPlan` (extends `MaskBuilder` and `RefineLineage`): `plan_round()` with what
  `build_mask_png()` makes of its regions. The loops over results, boxes and tags are functions of how
  far they have come. Its assumption says of `NoBox` that it is no region.
* `CriticGates`: the five gates from two answers and a second opinion to a verdict. `FirstVerdict` is what
  the first four leave; `LeftOut` are the checks of which the second model says nothing although asked.
* `Algorithms` grows the input of one of them per behaviour, an element at a time (`InputsSpec`), and
  states one property of each. Its assumptions say what the code gives its functions: markers of render
  modes, dilations that are no negative numbers, a finite number of projects, boxes within the image.
  `Gone` is a project without a directory. A confidence is counted in tenths.

No module has a recursive operator: what the code does in a loop or by recursion is a recursive
function of a number, so that the modules can be proved about.

### MC modules

`MCVramScheduler`, `MCTraining`, `MCGeneration`, `MCFidelity`, `MCConsultant`, `MCWorker`,
`MCCrossProject`, `MCProjectStore`, `MCAlgorithms` extend the above with the constant functions and
symmetry sets of the configurations and nothing else.

## 4. Runs

Distinct states are those of a complete search. Symmetry is used in runs with safety properties
only.

| run | module, configuration | distinct states |
|---|---|---|
| `vram_tiers` | MCVramScheduler, VramTiers | 1 279 119 |
| `training_serial` | MCTraining, TrainingSerial | 140 790 |
| `training_restart` | MCTraining, TrainingRestart | 811 150 |
| `training_two_clients` | MCTraining, TrainingTwoClients | violation |
| `generation_requests` | MCGeneration, GenerationRequests | 822 552 |
| `fidelity` | MCFidelity, Fidelity | 143 206 |
| `consultant_concurrent` | MCConsultant, Consultant | 74 293 |
| `worker` | MCWorker, Worker | 222 844 |
| `cross_project` | MCCrossProject, CrossProject | 2 671 387 |
| `cross_export` | MCCrossProject, CrossExport | violation |
| `project_store` | MCProjectStore, ProjectStore | 1 095 039 |
| `algorithms` | MCAlgorithms, Algorithms | 118 289 |

**`vram_tiers`.** Three models whose sizes are chosen at registration from {1, 2, 4}, VRAM budget 3,
RAM budget 2: one size is refused, one or two models fit, one acquire may evict two models, and the
Warm tier has room for one or two. The clock runs to `MaxTime` = 2, so a model can be within, at and
past its windows (1 to leave VRAM, 2 to leave RAM). Names are registered again while resident, and
the lock is taken with and without a look at the models. Checks `WithinBudgets`, `EvictionSuffices`
(the error path at vram.py:308 is dead), `TrainingExcludesModels`, `LogReplayMatchesState`, and that
the scheduler implements `VramAdmission` (`ImplementsAdmission`).

**`training_serial`.** Two jobs of a client that submits the second after the first was answered,
cancellations and moving models, under fairness: `ProcessHoldsLock`, `RevivedOnlyBySubmit`,
`QueuedJobsSettle`, `LockIsReleased`. Two executors and workers are offered although one suffices:
that no second one is created is part of what is checked. Two jobs are the least with which a stale
list can hurt another job.

**`training_restart`.** Any write of `jobs.json` may raise, worker threads die of it, the process is
restarted once: `LockHasOwner` and `CompletedMeansExitZero`. One restart is enough to have jobs,
lists and processes of both lives.

**`generation_requests`.** Two requests of any kind, one after the other or overlapping, on a
project with a job and an old plan in its asset index, while worker and training change, writes
raise and the process restarts once. `RecordsAreKept` and `FinalStatusIsKept` speak of requests that
do not overlap, `CompletedHasAsset` and `RunningJobsSettle` of such that did not break off either;
`CompletedMeansProduced` has no such condition. The second request finds every state the first can
leave.

**`fidelity`.** The start request, automatic or not, and two clients, in one process or with the
second client in another; every step may raise, one process may die, two rounds of a checklist of
two: `OneRoundAtATime`, `BestMatchesItsRound`, `EndIsFinal`, `ImplementsBestSoFar`,
`AutoRunsToTheEnd`. Two rounds after the baseline give an improvement, a regression, a regression
after an improvement and the cap; two checks give verdicts that are better, equal and worse with and
without unverified ones. Two clients of one process meet at its lock, two of two processes at the
claim. `MaxRows` = 3 bounds how many rounds are recorded before another `advance()` begins.

**`consultant_concurrent`.** Two requests of any kind on one session, overlapping at each read and
write, with restarts; two modalities of which one treats a slot as optional that the other requires
and lacks the other's: `DialogsAreCoherent`, `AnswersAreKept`.

**`worker`.** Four requests of any kind, of which any may overlap, two processes, a server of the
user, one restart: `LaunchedIsRecorded`, `FailureIsExplained`, `StopReachesAll`. Four requests are
an installation, a start, something that disturbs it, and a stop or another start.

**`cross_project`.** Two requests that materialise or export, of one process or of two; the source changes
once, and one process dies or one read of `origins.json` fails. Two versions of the asset `char`, whose
files stand in for each other, one of `char/x`, which lies in its directory, and one of `char2`, whose path
only begins like it; the project uses one version of `char`, and `char/x`: `EntryHasCopy`,
`MaterializedSurvives`, `EntriesAreKept`. The second is about a reference whose own entry is the first one
that is found for it (`Answers`): section 7 says what becomes of one for which another entry answers. It
says nothing once two processes were inside the lock together (section 6). Two files suffice for the lock
file: one that is held by somebody although it has lost its name, and the one that has the name now.

**`project_store`.** Two requests at a time out of three operations on three ids: an old project
whose file has no id yet, one with a letter that the pattern of ids refuses, and a plain one; one
fault, one row with two fields: `ListedIsWhole`, `ProjectsAreKept`, `UpdatesAreKept`,
`FieldsAreKept`, `DeletedIsGone`. Three operations are what it takes for an older copy of a
conversation to be served and built upon.

**`algorithms`.** Sections of up to four lines, blank ones and bold sub-bullets among them, with or without
the file of weapons; masks of two regions and one to leave out on 4 × 3 pixels, with boxes that cross the
edges, lie outside and are inside out; every graph of three projects and one that is gone; three rounds of
refinement; up to
three results of a critic, with boxes that coincide, overlap, touch or lie apart; every pair of answers
for every region. A mask may be refused for an image that is too large and never for what the plan asks
to repaint or to leave out. Sizes are those at which the
branches meet: two bullets with a state each, three overlapping boxes, a loop reached over another
loop, a replacement between two additions.

**`training_two_clients`, `cross_export`.** Section 7.

Deadlock is checked in `vram_tiers`, the training runs, `generation_requests` and
`consultant_concurrent`, whose environment never stops or whose end is an explicit step (`Idle`). In
`fidelity`, `worker`, `project_store` and the runs of `MCCrossProject` and `MCAlgorithms` the system
really may stop: an ended loop is served by nobody, requests are served once, and inputs have a
bound.

Every property has a mutant: a mapped definition replaced by one with a plausible mistake, under
which TLC finds the property violated in the run that checks it (`PROJECT.json`).

## 5. Fairness

Weak fairness, of what the runtime or the outside does on its own:

* steps of a request or worker thread that has begun: the interpreter schedules its threads, and
  whoever holds `_lock` in the training module gives it back in its next step;
* a training process ends, an adapter returns or raises, a mask builder or critic returns or raises.
  The adapters have timeouts on their calls and a bounded number of polls (comfyui.py:441,
  ace_step.py:154); a training process has no limit, and its end is an assumption.

Nobody is obliged to send a request, cancel, advance a loop, change a worker, take the training lock
or restart the service. `training_serial` has no failing writes; `generation_requests` and
`fidelity` do have faults, and `RunningJobsSettle` and `AutoRunsToTheEnd` exempt the behaviours in
which one went unrecorded (`broken`): a job or loop then stays in its status, which is what the code
does. `QueuedJobsSettle` has no such exemption.

## 6. Proofs

Eight modules of proofs, each about the specification of its component for every value of its
constants under the assumptions that module names (`ConsultantProofs` also holds those about the
algorithms). Where a theorem and a run have the same property, the run was there first; the
strengthened invariants were found with TLC too.

`VramSchedulerProofs` (from `BudgetAssumption`, `FootprintAssumption`, `ModelAssumption`,
`TimeAssumption`, `WarmTierAssumption`):

* `TypeCorrect`; `MemoryInvariant`: the budgets are not inductive by themselves. `MemoryInv` adds that
  a single registered model fits (`register()` refuses others), that unregistered models are Cold, and
  that the model being acquired is registered. Lemmas about `Megabytes` (it grows with the set, and a
  model outside the set adds its own size) carry the steps. `BudgetsHold` and
  `EvictionAlwaysSuffices` follow.
* `TrainingExclusion`: `TrainingExcludesModels` with `AcquireExcludesTraining` (whoever is inside
  `acquire()` saw no holder, and nobody takes the lock meanwhile). It speaks of a holder that came in
  through `try_begin_training()`: `begin_training()` does not look at the models, and is not meant to.
* `SchedulerImplementsAdmission`: initial state and steps. `LockedMeansNoActivation`: however the lock
  was taken. `LogReplayExact`: for every name not registered again while resident, which resets its
  tier without an event.

`TrainingProofs` (from `TrainingAssumption`):

* `TypeCorrect`, `LockIsNeverLeft` (`LockHasOwner`), `CompletedIsEarned` (`CompletedMeansExitZero`) hold
  with overlapping clients, failing writes and restarts. The last needs `OnePlace` (a job is in one
  place: with its submitter, in one queue once, or with one worker, so that no process is launched
  twice) and `ExitInv` (no list that somebody holds says `COMPLETED` of a job whose process failed).
* `LockCoversProcess` (`ProcessHoldsLock`) and `SerialJobsRunOneAtATime` (`OneAtATime`) are proved under
  `Serial`: one client, writes that succeed, no restart. `OneExecutor`, `OneWorker` and `Covered` are
  the invariant; `training_two_clients` shows that the first condition is needed.
* `OnlySubmitRevives` (`RevivedOnlyBySubmit`), under `Serial` too, from three invariants on top of those.
  `LockInv`: who is between reading and writing `jobs.json` under `_lock` is whom `mutex` names.
  `FreshInv`: until its own request has queued a job, no list that somebody may still write says more
  of it than that it is planned; it is what lets a list read before a submission be written after it.
  `ListInv`: a list read under the lock has every final status of the file, and one that
  `submit_job()` read without the lock may lack some, which is the exception the property makes.

`GenerationProofs` (from `GenerationAssumption`): `TypeCorrect`; `CompletedIsProduced` from `Produced`,
which says the same of every list a request holds; `RecordsStay` and `FinalStays` from `IInv`, whose
part `Sole` says of the one request under way that what it holds is what the files have;
`CompletedIsIndexed` (`CompletedHasAsset`) from `Indexed`, which accounts for the artifact between its
storage and its entry.

`FidelityProofs` (from `FidelityAssumption`): `TypeCorrect` (`TypeInv` adds that a round in work is
below the cap), `RoundsExclude` (`OneRoundAtATime`) from `Order`: clients begin after the start request
is through, a client is inside a round only while the row says so, and the claim is taken only when it
does not. `EndsAreFinal` follows: who is not inside a round saves nothing.

* `BestIsRecorded` (`BestMatchesItsRound`) from `BestInv`: not only the row, every copy of it that may
  still be written names the image and the count of a recorded round, and a round that is about to be
  applied is one of those that are recorded.
* `LoopImplementsBestSoFar` (`ImplementsBestSoFar`): every step of the loop is a step of `BestSoFar` on
  the rounds whose outcome is saved, or changes none of them. `TidyInv` is what the mapping needs of the
  one round under way: rounds and images are numbered as they are made (`Numbered`), the request's copy
  of the row is the row but for its status (`HeldKnown`), and the best image is the one that an observer
  of the rounds would name (`BestKnown`). All of it holds until a failure goes unrecorded or a round is
  claimed with an old copy of the row, from where on the property asks nothing.

`ConsultantProofs` (from `ModalityAssumption`, `SlotAssumption`, `NoneAssumption`): `InvariantHolds`,
`TypeCorrect`, `DialogsStayCoherent`, `DialogsMoveLegally`, `AnswersStay`. The invariant `IInv` has to
speak about what is *going* to be written: every row on disk is consistent (`RowsGood`), so is every
row a request has still to write (`TodoGood`), and as long as the request is not stale its next row is
a legal successor of the row on disk (`TodoFollows`).

The algorithms (`ConsultantProofs`, second part; from the assumptions of `Algorithms` and of the modules
it extends). The six invariants of the run are theorems of `InputsSpec`, for any lines, regions, projects,
tags, boxes and answers and any bounds on their number. What is invariant is the form of the inputs
(`InputsAreGrown`, `ResultsAreGood`), and of refined prompts the link to what was said (`LineageInv`); the
rest is a theorem about the operators for every such input. What is done in a loop is a function of a
number, defined from its own value at the number before: `LeastNumber` (from the well-founded induction of
the library) gives `InductionOnNat`, `InductionUpTo`, and that such functions exist
(`RecursionOnNat`, `RecursionUpTo`), by stating the induction of a set of numbers and not of a formula.

* `VerdictsTrusted` (`VerdictsAreTrusted`) from `VerdictsHaveGround`, for all boxes, confidences, regions
  and sizes of the image: a pass has a place and confidence behind it, or a second opinion that says pass,
  or is of a check that the second model leaves out (`LeftOut`), which does pass.
  `GatesAreSound` says what the four gates before the second opinion leave of two answers.
* `RepaintIsLocal`: for any regions, a pixel within one that is not feathered further than it is dilated,
  and away from what is to be left out, is repainted in full; one beyond all dilated regions, or in a box
  that is to be left out, is not touched; and every value is one that a pixel can have. `MaskIsDistance`
  (`MaskIsAsDrawn`) adds what a feathered border is in between: `EdgesAre` and `NearIsCovered` turn the
  squares around a pixel into its distance to the four edges of the region as it was asked for,
  `ValueByDepth` their number into the ramp. The box cut off at the image gives the same value
  (`CutIsAsked`): it covers the same pixels there, and those near the frame have the full value in both
  (`FullAt`), as long as the feather is not wider than the dilation makes up for. Where it is, the two
  differ, which `CutShows` exempts.
* `LineageKept` (`LineageKeepsTags`) from `LineageInv`: what is recorded as said is of each key the first
  tag of the prompt. `DedupeIs` says what dropping repeated tags keeps of any prompt.
* `ChecklistExact` (`ChecklistIsExact`): what stands behind a bullet up to the first blank line is its block,
  unless the block goes on behind that line (`BlockIsTold`); blocks of different bullets are disjoint
  (`BlocksApart`), a line
  that is quoted belongs to a check of its own bullet (`QuotedAround`), and only the marked checks of a
  bullet that splits override anything.
* `CyclesExact`: a call remembers every project on its path but the last, once each (`CallsAre`), so that
  by the pigeonhole principle none is nested deeper than there are projects (`CallsEnd`); what calls report
  comes back to where it was (`ReportsAreLoops`); what is
  reachable is reached by some call (`CallsReach`), and the calls that
  come through a project on a loop cannot all go on without coming back to it (`LoopsReported`).
* `TreeExact`: a chain of parents that does not end within the number of versions repeats itself
  (`ChainRepeats`), a version is cut off exactly when its chain does, and what is shown is thereby a forest.
  `WalksExact` (`WalksAreExact`) has both.
* `ChoiceGreedy` from `ChoiceInv`, which holds after each check that is chosen; `RepairLocal`: what is left
  of a passed box is that box without the chosen ones (`ClipIs`, `KeptIs`), so nothing of a failed box is
  left out and all of a passed one that is another region is. `InstructionBounded`: chosen boxes do not
  overlap, so their areas add up to the number of pixels they cover (`AddedUp`). `PlanRepaired`
  (`PlanRepairs`) has the three.

`WorkerProofs` (from `WorkerAssumption`): `TypeCorrect`, `LaunchesAreRecorded`, `StopsReachAll`,
`FailuresAreExplained`. `WorkerInv` has two parts: who serves is who listens and a process that ended
has written to its log, always; and as long as no request was careless and no launch went unrecorded,
one request at a time is under way, it knows at each step which processes live (`StepKnows`), and the
log is the one of the recorded process.

`CrossProjectProofs` (from `LockAssumption`, `RefAssumption`, `PathAssumption`: a file of the asset lies in
its directory, and what lies there has a path that begins like it): `LockExcludesThreads` (`ThreadsExclude`;
who is past the lock of its process holds it), `TypeCorrect` (a file has at most as many revisions as
there were changes, and a request that hashes has resolved its target), `EntriesHaveCopies` from
`BackedInv` (not only the entries of the file have copies, those of every list read and the target of
every request past its copy have, too), `EntriesStayRecorded` from `WriterInv` (between read and write
of `origins.json` the writer holds the lock, so another list is read only by an overlap).

`CopiesSurvive` (`MaterializedSurvives`) adds `FaithInv`, which follows one copy through the two
acquisitions of the lock: as long as nothing disturbed a reference, a request that works on it hashed the
file that is there now, copies that one, and the copy is right unless another request is about to make it
again. `ViewsAreCurrent` says that a writer of `origins.json` has of every other entry what the file has,
or has lost it. A reference whose own entry is found first (`Answers`) is then compared with the
hash of what it copied, whatever the paths of the other assets. Stating the theorem for all constants
showed that the property needs `~overlapped`:
with two assets TLC finds two processes inside the lock, of which one materialises a new revision of a
reference while the other writes back the list with its older hash.

`ProjectStoreProofs` (from `StoreAssumption`, `AssetAssumption`): `ListedProjectsAreWhole` and
`ProjectsStay` from `StoreInv` (what fills a directory is its only owner and it is not listed yet);
`RowsStayDeleted`; `FieldsStay` from `RowInv` (a request that is about to write a row read it as it is,
unless two were working on it); `TypeCorrect`. `WritesAreKept` (`UpdatesAreKept`) from `TalkInv`: who is
alone at a project is known (`Alone`), what such a request has read is what the file still has
(`ViewsKept`), and a project that is not listed has no conversation (`UnlistedIsSilent`), so that the
empty one a creation writes takes nothing away. `Turn` says what a step of any request may do to its
project, `TurnKeeps` that the invariant needs no more than that, and one lemma per kind of step that it is
a `Turn`.

Only model-checked: liveness (`QueuedJobsSettle`, `LockIsReleased`, `RunningJobsSettle`,
`AutoRunsToTheEnd`): the prover has no fairness reasoning and no `ENABLED`. The type invariants are proved
and therefore in no run.

## 7. Where the code and what is said of it disagree

Two runs show a counterexample to what the repository says:

* `training_two_clients` (`OneAtATime`; executor.py:5, "ONE AT A TIME"). Two first submissions
  overlap in `_get_or_create_executor()` (main.py:344), or two `enqueue()` in
  `_ensure_worker_running()` (executor.py:417), and get an executor or a worker each.
  `try_begin_training()` does not look at the holder, so both train.
* `cross_export` (`PinnedCopiesAreKept`; export.py:71, "pinned versions preserved"). When a reference
  is broken, `_remove_stale_external()` (export.py:180) removes the directory of the asset with the
  copies of all its versions. A reference counts as broken already when another version of the asset has
  the first entry in `origins.json`, which is found by the beginning of its path (cross_project.py:473-478).

The others were met on the way and restrict what the runs can ask. Most are a note at their hazard in
`PROJECT.json`.

Training and generation:

* spec.md:1271 speaks of a two-way hard lock, but a generation looks at the lock once and registers
  nothing with the scheduler, so training may begin at any moment of it; a batch does not look again;
* a stale `submit_job()` writes a cancelled job back as QUEUED (service.py:54);
* a cancellation between `RUNNING` and the start of the process is forgotten (executor.py:185);
* a progress write that raises leaves a process running without the lock (executor.py:511);
* nothing resets jobs or loops that a crash left in RUNNING or inside a round;
* two execute requests that both read READY run one job twice; with two overlapping requests the
  asset index may lose an entry (service.py:833, :865);
* a job blocked by an installation note stays BLOCKED once the worker is there (service.py:932);
* old plans in the asset index are lost by an import or an execution (service.py:1044);
* two imports of one name overwrite each other's bytes (service.py:711);
* an explicit empty `negative` is not inherited by the version after next (service.py:683-697), and
  segments of an instruction that match no marker are dropped from its decomposition.

Dialog and refine loop:

* Summary goes to Generate whatever the checklist says (state_machine.py:31-33 speaks of readiness);
* the advance route analyses every dialog as text (main.py:647);
* two `advance()` requests can record the same round index (fidelity_service.py:182);
* blank lines do not close a bullet (fidelity.py:455), although the docstring at :448-450 says so: what is
  deeper behind one still belongs to it. A bold sub-bullet with a short label matches the pattern of a state
  (:375), so a bullet that has one may be split between render modes, which the docstring at :381-384
  excludes. `ChecklistIsExact` exempts both;
* a bullet whose sub-bullets are all states of two render modes stays one check of the first mode, and a
  bullet of nothing visible that overrides drops the default check too (fidelity.py);
* a check that the second model leaves out of its answer passes, as the parser answers for it
  (critic_support.py:69-72) and `_reconcile_second_opinion()` takes that for agreement: three answers that all
  leave a check out end as a confirmed pass. The docstring at vision.py:409-411 keeps such a check unverified;
  `VerdictsAreTrusted` exempts it;
* a fail asserted twice becomes a confirmed pass when its
  box is small and outside the band of its region; a pass without a box is downgraded although the prompt
  allows it; the prompt asks for boxes in the pixels of the image (critic_support.py:37), but
  `_parse_bbox()` takes any four numbers, and what the plan of a round makes of a box beyond the image or
  inside out is outside `BoxesAssumption`; a fail confirmed by a second opinion has no box, and when no
  chosen fail has one the mask builder raises and the loop FAILS;
* many passed regions can give more entries to leave out than a mask request takes, which FAILS the loop;
* a region that crosses the frame does fade out there, against the comment at mask.py:214-218, when its
  feather is wider than its dilation and a pixel more: the box is cut off at the image (:206-209) before its
  edges are taken, so that without dilation column 0 of a box from −1 to 2 with a feather of 2 has half the
  value. A region wholly outside paints a strip at the border when it is dilated. `MaskIsAsDrawn` exempts both.

Workers and projects:

* the entry a copy is compared with is found by the beginning of its path without a slash behind it
  (cross_project.py:473-478), so with `char/x` or `char2` materialised before `char` its hash is compared with
  theirs, and without its source `char` is broken, though its own copy and entry agree (:53 says "no usable
  copy"); `MaterializedSurvives` is about references that no earlier entry answers for;
* two processes can be inside the lock of the references at once, as the lock file is unlinked by name, and
  the later writer puts older entries back: a copy and its entry then differ (cross_project.py:503-544);
* a failed installation is shown although the live worker answers (workers.py; spec.md:926 puts the live
  answer first);
* project ids with letters that the pattern refuses (CJK names) are created and listed and can never be
  opened, although manager.py:15-20 says that any id it builds matches;
* `origin_id` of an imported project is dropped by the next change of its settings (portability.py:9, :131);
* rows of an imported database keep the project id they were exported with and are invisible under a new
  one; an export may leave out what is still in the write-ahead log;
* `already_external` is unreachable in `materialize_reference()` (cross_project.py:838-856 answers broken
  before it), and `detect_cycles()` returns the way that leads to a loop along with it.

## 8. What is not modelled

Parts: planner, question lists and suggestion texts, command builders, adapters, providers of language
models, local model server, network status and request guards, license report, memory store, frontend,
desktop shell, scripts and quality gates (section 1, and `PROJECT.json` with a reason each). They are
pure text or argument lists, clients of other programs whose outcomes the models take as any answer or
an exception, or read-only.

Within the modelled parts:

* training: the argv builders, event streams and checkpoint discovery;
* generation: the parameters of jobs and the version diff; file names and contents (two imports of one
  name, section 7);
* refine loop: the length of the checklist is one constant, though the code reads it anew each round;
* workers: one worker of the manifest; `smoke_worker()` and the snapshots only read;
* references: the text of a reference, reduced to asset and version; one source project;
* project store: texts of guide and conversation; validation and decompression budget of an archive
  (one failing step); the retry of a replace and the eviction of last good copies;
* algorithms: recognition of words, the PNG encoding, fractions (whole numbers of a scale).

A round of the refine loop and a generation job are two modules that are not composed: a round sees of
its job that it returns an image or raises, which is all the service looks at. The readiness note of a
worker, of which `WorkerRuntime` shows what it says, is likewise an input of `GenerationJobs`.
