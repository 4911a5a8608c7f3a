--------------------------- MODULE WorkerRuntime ---------------------------
(***************************************************************************)
(* WorkersService (core/integration/workers.py) for one worker with a      *)
(* health check: its repository, its install state, the process that the   *)
(* application launches, the runtime state file that remembers the pid,    *)
(* and the startup log.  Requests are served by threads without a lock;    *)
(* a worker process outlives the application, and the user may run a       *)
(* server of their own on the same port.                                   *)
(***************************************************************************)
EXTENDS Naturals, FiniteSets

CONSTANTS Clients,      \* requests, one each
          Processes,    \* worker processes that may be launched
          User,         \* the server the user runs
          None,
          MaxRestarts   \* bound on restarts of the application

ASSUME WorkerAssumption ==
  /\ None \notin Processes \cup Clients \cup {User, "no file"}
  /\ {User, "no file"} \cap Processes = {}
  /\ MaxRestarts \in Nat

VARIABLES repo,         \* workers/<directory>: absent, a clone, or something else
          install,      \* status in <worker>.install.json
          checkpoints,  \* where a checkpoint is found: in the clone, by the live server
          runtime,      \* <worker>.json: NoFile, or the recorded pid (None: no pid)
          log,          \* the process whose log <worker>.log is, or None
          written,      \* did that process write a line?
          process,      \* the processes launched
          listener,     \* who answers the health check
          stopped,      \* processes that were sent SIGTERM
          pc, child, view,
          restarts,
          careless,     \* history: a request came at a bad time (see Arrive)
          broken        \* history: a restart lost a process being recorded

fileVars == <<repo, install, runtime, log, written>>
processVars == <<process, listener, stopped>>
requestVars == <<pc, child, view>>
historyVars == <<restarts, careless, broken>>
vars == <<fileVars, checkpoints, processVars, requestVars, historyVars>>

NoFile == "no file"
Operations == {"install", "start", "autostart", "stop", "activity"}
Alive(p) == process[p] \in {"starting", "serving"}
Idle(c) == pc[c] \in {"idle", "done"}

Init ==
  /\ repo \in {"absent", "clone", "foreign"}
  /\ install = "none"
  /\ checkpoints \in SUBSET {"local", "live"}
  /\ runtime = NoFile
  /\ log = None
  /\ written = FALSE
  /\ process = [p \in Processes |-> "unused"]
  /\ listener = None
  /\ stopped = {}
  /\ pc = [c \in Clients |-> "idle"]
  /\ child = [c \in Clients |-> None]
  /\ view = [c \in Clients |-> NoFile]
  /\ restarts = 0
  /\ careless = FALSE
  /\ broken = FALSE

-----------------------------------------------------------------------------
\* What _build_snapshot() finds out.
IsRunning == listener # None
IsInstalled == repo = "clone"
InstallSucceeded == install = "success"

\* (mutant) The log counts only when no process is recorded.
StartupErrorUnrecorded == log # None /\ written /\ runtime = NoFile

\* _read_last_log_line()
StartupError == log # None /\ written

\* _build_readiness_note(), live first, but for a failed install.
ReadinessNote ==
  CASE install = "failed" -> "install failed"
    [] install # "failed" /\ IsRunning ->
         IF "live" \in checkpoints THEN "ready" ELSE "no checkpoint"
    [] install # "failed" /\ ~IsRunning /\ ~IsInstalled -> "not cloned"
    [] install # "failed" /\ ~IsRunning /\ IsInstalled /\ ~InstallSucceeded -> "no dependencies"
    [] OTHER -> IF "local" \notin checkpoints THEN "no checkpoint"
                ELSE IF StartupError THEN "startup failed" ELSE "not running"

-----------------------------------------------------------------------------
Step(c, from, to) ==
  /\ pc[c] = from
  /\ pc' = [pc EXCEPT ![c] = to]

\* The worker routes, the two marks of a generation job, and the start-up of the
\* development stack.  A request is careless when another one is being served,
\* when it starts while a launched process does not answer yet, or when it
\* installs while a launched process lives.
Arrive(c, o) ==
  /\ Step(c, "idle", o)
  /\ careless' = \/ careless
                 \/ \E d \in Clients : ~Idle(d)
                 \/ \E p \in Processes : /\ Alive(p)
                                         /\ \/ o \in {"start", "autostart"} /\ listener # p
                                            \/ o = "install"
  /\ UNCHANGED <<fileVars, checkpoints, processVars, child, view, restarts, broken>>

SameContext == UNCHANGED <<checkpoints, historyVars>>

\* install_worker(): a directory that is no clone is a conflict; git may fail,
\* which no handler catches.
CloneRepository(c) ==
  /\ \/ /\ repo = "foreign"
        /\ Step(c, "install", "done")
        /\ UNCHANGED repo
     \/ /\ repo # "foreign"
        /\ Step(c, "install", "dependencies")
        /\ repo' = "clone"
     \/ /\ repo # "foreign"
        /\ Step(c, "install", "done")
        /\ repo' \in {repo, "clone"}
  /\ UNCHANGED <<install, runtime, log, written, processVars, child, view>>
  /\ SameContext

\* The environment and the install command: either outcome is recorded.
InstallDependencies(c) ==
  /\ \/ /\ Step(c, "dependencies", "clear")
        /\ install' = "success"
     \/ /\ Step(c, "dependencies", "done")
        /\ install' = "failed"
  /\ UNCHANGED <<repo, runtime, log, written, processVars, child, view>>
  /\ SameContext

\* _clear_runtime_artifacts()
ClearArtifacts(c) ==
  /\ Step(c, "clear", "done")
  /\ runtime' = NoFile
  /\ log' = None
  /\ written' = FALSE
  /\ UNCHANGED <<repo, install, processVars, child, view>>
  /\ SameContext

\* (mutant) A running worker is started once more.
StartableAlways == IsInstalled /\ InstallSucceeded

\* What start_worker() demands; otherwise it answers with the snapshot, or 400.
Startable == ~IsRunning /\ IsInstalled /\ InstallSucceeded

CheckStart(c) ==
  /\ \E o \in {"start", "autostart"} : Step(c, o, IF Startable THEN "launch" ELSE "done")
  /\ UNCHANGED <<fileVars, processVars, child, view>>
  /\ SameContext

\* The log file begins anew.
FreshLog(p) == log' = p /\ written' = FALSE

\* The log is opened anew and the process launched; Popen may raise.
LaunchWorker(c) ==
  /\ \/ \E p \in Processes :
          /\ process[p] = "unused"
          /\ Step(c, "launch", "record")
          /\ process' = [process EXCEPT ![p] = "starting"]
          /\ child' = [child EXCEPT ![c] = p]
          /\ FreshLog(p)
     \/ /\ Step(c, "launch", "done")
        /\ log' = None
        /\ written' = FALSE
        /\ UNCHANGED <<process, child>>
  /\ UNCHANGED <<repo, install, runtime, listener, stopped, view>>
  /\ SameContext

RecordPid(c) ==
  /\ Step(c, "record", "poll")
  /\ runtime' = child[c]
  /\ UNCHANGED <<repo, install, log, written, processVars, child, view>>
  /\ SameContext

\* Up to 30 s for the worker to answer or to die; then the request ends anyway.
PollHealth(c) ==
  /\ Step(c, "poll", "done")
  /\ UNCHANGED <<fileVars, processVars, child, view>>
  /\ SameContext

\* (mutant) The pid is not signalled.
SignalledNone(pid) == stopped

Signalled(pid) == stopped \cup ({pid} \cap Processes)

\* stop_worker(): the recorded pid is signalled (an OSError is ignored) ...
SignalWorker(c) ==
  /\ Step(c, "stop", "forget")
  /\ stopped' = Signalled(runtime)
  /\ UNCHANGED <<fileVars, process, listener, child, view>>
  /\ SameContext

\* ... and forgotten.
ForgetWorker(c) ==
  /\ Step(c, "forget", "done")
  /\ runtime' = NoFile
  /\ UNCHANGED <<repo, install, log, written, processVars, child, view>>
  /\ SameContext

\* mark_worker_activity(): the state is read ...
ReadActivity(c) ==
  /\ Step(c, "activity", "mark")
  /\ view' = [view EXCEPT ![c] = runtime]
  /\ UNCHANGED <<fileVars, processVars, child>>
  /\ SameContext

\* The state as it was read, or a new one without a pid.
Marked(seen) == IF seen = NoFile THEN None ELSE seen

\* ... and written back with the mark.
WriteActivity(c) ==
  /\ Step(c, "mark", "done")
  /\ runtime' = Marked(view[c])
  /\ UNCHANGED <<repo, install, log, written, processVars, child, view>>
  /\ SameContext

Serve(c) ==
  \/ CloneRepository(c) \/ InstallDependencies(c) \/ ClearArtifacts(c)
  \/ CheckStart(c) \/ LaunchWorker(c) \/ RecordPid(c) \/ PollHealth(c)
  \/ SignalWorker(c) \/ ForgetWorker(c) \/ ReadActivity(c) \/ WriteActivity(c)

-----------------------------------------------------------------------------
\* A process that ends for a reason of its own says so in its log; what is
\* written to a log that was unlinked is lost.
WriteLog(p) == written' = (written \/ log = p)

ProcessServes(p) ==
  /\ process[p] = "starting"
  /\ listener = None
  /\ process' = [process EXCEPT ![p] = "serving"]
  /\ listener' = p
  /\ WriteLog(p)
  /\ UNCHANGED <<repo, install, runtime, log, checkpoints, stopped, requestVars, historyVars>>

ProcessFails(p) ==
  /\ Alive(p)
  /\ process' = [process EXCEPT ![p] = "ended"]
  /\ listener' = IF listener = p THEN None ELSE listener
  /\ WriteLog(p)
  /\ UNCHANGED <<repo, install, runtime, log, checkpoints, stopped, requestVars, historyVars>>

\* The user's server comes and goes.
UserServer ==
  /\ listener' = IF listener = None THEN User ELSE None
  /\ listener \in {None, User}
  /\ UNCHANGED <<fileVars, checkpoints, process, stopped, requestVars, historyVars>>

\* The application ends: the files and the processes stay.
Restart ==
  /\ restarts < MaxRestarts
  /\ restarts' = restarts + 1
  /\ broken' = (broken \/ \E c \in Clients : pc[c] = "record")
  /\ pc' = [c \in Clients |-> IF pc[c] = "idle" THEN "idle" ELSE "done"]
  /\ UNCHANGED <<fileVars, checkpoints, processVars, child, view, careless>>

Next ==
  \/ \E c \in Clients : Serve(c) \/ \E o \in Operations : Arrive(c, o)
  \/ \E p \in Processes : ProcessServes(p) \/ ProcessFails(p)
  \/ UserServer
  \/ Restart

Spec == Init /\ [][Next]_vars

-----------------------------------------------------------------------------
TypeOK ==
  /\ repo \in {"absent", "clone", "foreign"}
  /\ install \in {"none", "success", "failed"}
  /\ checkpoints \subseteq {"local", "live"}
  /\ runtime \in Processes \cup {None, NoFile}
  /\ log \in Processes \cup {None}
  /\ written \in BOOLEAN
  /\ process \in [Processes -> {"unused", "starting", "serving", "ended"}]
  /\ listener \in Processes \cup {User, None}
  /\ stopped \subseteq Processes
  /\ pc \in [Clients -> Operations \cup {"idle", "dependencies", "clear", "launch", "record",
                                         "poll", "forget", "mark", "done"}]
  /\ child \in [Clients -> Processes \cup {None}]
  /\ view \in [Clients -> Processes \cup {None, NoFile}]
  /\ restarts \in 0..MaxRestarts
  /\ {careless, broken} \subseteq BOOLEAN

(***************************************************************************)
(* The application can stop what it launched: a process that lives and was *)
(* not told to stop is in the runtime state file, or about to be, unless a *)
(* careless request came in or a restart fell between the launch and the   *)
(* record (workers.py:133-148, :157-171).                                  *)
(***************************************************************************)
LaunchedIsRecorded ==
  ~careless /\ ~broken =>
    \A p \in Processes \ stopped : Alive(p) =>
      runtime = p \/ \E c \in Clients : pc[c] = "record" /\ child[c] = p

(***************************************************************************)
(* When stop_worker() has returned, no process the application launched is *)
(* left that was not told to stop.                                         *)
(***************************************************************************)
StopReachesAll ==
  [][\A c \in Clients : pc[c] = "forget" /\ pc'[c] = "done" /\ ~careless /\ ~broken
       => (restarts' # restarts \/ \A p \in Processes : Alive(p) => p \in stopped)]_vars

(***************************************************************************)
(* When nothing is under way, a worker whose recorded process died by      *)
(* itself shows the last line of its log as the reason, not just that it   *)
(* is not running, unless a later launch failed (workers.py:436-443,       *)
(* :527-537).                                                              *)
(***************************************************************************)
FailureIsExplained ==
  ~careless /\ ~broken /\ (\A c \in Clients : Idle(c)) /\ runtime \in Processes /\ log # None =>
    (process[runtime] = "ended" => ReadinessNote # "not running")
=============================================================================
