---------------------------- MODULE WorkerProofs ----------------------------
(***************************************************************************)
(* Proofs about WorkerRuntime, for any number of requests, processes and   *)
(* restarts: what the application launched it can stop, a stop reaches     *)
(* everything, and a failed start is explained.                            *)
(***************************************************************************)
EXTENDS WorkerRuntime, TLAPS

-----------------------------------------------------------------------------
LEMMA RestartsAreBounded == MaxRestarts \in Nat
BY ONLY WorkerAssumption, Zenon DEF WorkerAssumption

LEMMA TypeInitial == Init => TypeOK
<1> SUFFICES ASSUME Init PROVE TypeOK
  OBVIOUS
<1>1. /\ repo \in {"absent", "clone", "foreign"} /\ install = "none"
      /\ checkpoints \subseteq {"local", "live"} /\ stopped \subseteq Processes
  BY DEF Init
<1>2. /\ pc \in [Clients -> {"idle"}] /\ child \in [Clients -> {None}]
      /\ view \in [Clients -> {NoFile}] /\ process \in [Processes -> {"unused"}]
  BY DEF Init
<1>3. {careless, broken} \subseteq BOOLEAN /\ written \in BOOLEAN
  BY DEF Init
<1>4. restarts \in 0..MaxRestarts
  BY RestartsAreBounded DEF Init
<1> QED
  BY <1>1, <1>2, <1>3, <1>4 DEF Init, TypeOK

LEMMA TypeStep == TypeOK /\ [Next]_vars => TypeOK'
<1> SUFFICES ASSUME TypeOK, [Next]_vars PROVE TypeOK'
  OBVIOUS
<1> USE DEF TypeOK, Step, SameContext, fileVars, processVars, requestVars, historyVars, Operations
<1>1. ASSUME NEW c \in Clients, NEW o \in Operations, Arrive(c, o) PROVE TypeOK'
  BY <1>1 DEF Arrive
<1>2. ASSUME NEW c \in Clients, CloneRepository(c) PROVE TypeOK'
  BY <1>2 DEF CloneRepository
<1>3. ASSUME NEW c \in Clients, InstallDependencies(c) \/ ClearArtifacts(c) PROVE TypeOK'
  BY <1>3 DEF InstallDependencies, ClearArtifacts
<1>4. ASSUME NEW c \in Clients, CheckStart(c) \/ PollHealth(c) PROVE TypeOK'
  BY <1>4 DEF CheckStart, PollHealth
<1>5. ASSUME NEW c \in Clients, LaunchWorker(c) PROVE TypeOK'
  <2>1. CASE pc'[c] = "record"
    <3>1. PICK p \in Processes : /\ process' = [process EXCEPT ![p] = "starting"]
                                /\ child' = [child EXCEPT ![c] = p]
                                /\ log' = p /\ written' = FALSE
      BY <1>5, <2>1 DEF LaunchWorker, FreshLog
    <3> QED
      BY <1>5, <2>1, <3>1 DEF LaunchWorker
  <2>2. CASE pc'[c] # "record"
    BY <1>5, <2>2 DEF LaunchWorker, FreshLog
  <2> QED
    BY <2>1, <2>2
<1>6. ASSUME NEW c \in Clients, RecordPid(c) PROVE TypeOK'
  BY <1>6 DEF RecordPid
<1>7. ASSUME NEW c \in Clients, SignalWorker(c) \/ ForgetWorker(c) PROVE TypeOK'
  BY <1>7 DEF SignalWorker, Signalled, ForgetWorker
<1>8. ASSUME NEW c \in Clients, ReadActivity(c) \/ WriteActivity(c) PROVE TypeOK'
  <2>1. CASE ReadActivity(c)
    <3>1. view' \in [Clients -> Processes \cup {None, NoFile}]
      BY <2>1 DEF ReadActivity
    <3>2. pc' \in [Clients -> Operations \cup {"idle", "dependencies", "clear", "launch",
                                               "record", "poll", "forget", "mark", "done"}]
      BY <2>1 DEF ReadActivity
    <3> QED
      BY <2>1, <3>1, <3>2 DEF ReadActivity
  <2>2. CASE WriteActivity(c)
    <3>1. runtime' \in Processes \cup {None, NoFile}
      BY <2>2 DEF WriteActivity, Marked
    <3>2. pc' \in [Clients -> Operations \cup {"idle", "dependencies", "clear", "launch",
                                               "record", "poll", "forget", "mark", "done"}]
      BY <2>2 DEF WriteActivity
    <3> QED
      BY <2>2, <3>1, <3>2 DEF WriteActivity
  <2> QED
    BY <1>8, <2>1, <2>2
<1>9. ASSUME NEW p \in Processes, ProcessServes(p) \/ ProcessFails(p) PROVE TypeOK'
  BY <1>9 DEF ProcessServes, ProcessFails, WriteLog, Alive
<1>10. CASE UserServer
  BY <1>10 DEF UserServer
<1>11. CASE Restart
  <2>1. restarts' \in 0..MaxRestarts
    BY <1>11, RestartsAreBounded DEF Restart
  <2>2. broken' \in BOOLEAN
    BY <1>11 DEF Restart
  <2> QED
    BY <1>11, <2>1, <2>2 DEF Restart
<1>12. CASE UNCHANGED vars
  BY <1>12 DEF vars
<1> QED
  BY <1>1, <1>2, <1>3, <1>4, <1>5, <1>6, <1>7, <1>8, <1>9, <1>10, <1>11, <1>12 DEF Next, Serve

(***************************************************************************)
(* The files, the processes and the requests have their types.             *)
(***************************************************************************)
THEOREM TypeCorrect == Spec => []TypeOK
BY TypeInitial, TypeStep, PTL DEF Spec

-----------------------------------------------------------------------------
(***************************************************************************)
(* As long as no request is careless and no restart comes at a bad moment  *)
(* one request is served at a time, and each step of it knows what lives.  *)
(***************************************************************************)
Calm == ~careless /\ ~broken

OneListens == \A p \in Processes : process[p] = "serving" <=> listener = p

Alone == \A c, d \in Clients : ~Idle(c) /\ ~Idle(d) => c = d

NobodyLives == \A p \in Processes : ~Alive(p)

StepKnows(c) ==
  /\ pc[c] \in {"start", "autostart"} => \A p \in Processes : Alive(p) => listener = p
  /\ pc[c] \in {"launch", "install", "dependencies", "clear"} => NobodyLives
  /\ pc[c] = "record" => child[c] = log /\ \A p \in Processes : Alive(p) => p = child[c]
  /\ pc[c] = "forget" => \A p \in Processes : Alive(p) => p \in stopped
  /\ pc[c] = "mark" => view[c] = runtime

\* The log is that of the process in the runtime file, and it tells of its end.
LogTells == \A p \in Processes : log = p /\ process[p] = "ended" => written

LogIsOfRecorded ==
  (\A c \in Clients : pc[c] # "record") /\ runtime \in Processes /\ log # None => runtime = log

WorkerInv ==
  /\ TypeOK /\ OneListens /\ LogTells
  /\ Calm => /\ Alone
             /\ \A c \in Clients : StepKnows(c)
             /\ LogIsOfRecorded
             /\ LaunchedIsRecorded

LEMMA WorkerInvInitial == Init => WorkerInv
<1> SUFFICES ASSUME Init PROVE WorkerInv
  OBVIOUS
<1>1. TypeOK
  BY TypeInitial
<1>2. OneListens /\ LogTells
  BY WorkerAssumption DEF Init, OneListens, LogTells
<1>3. Alone /\ \A c \in Clients : StepKnows(c)
  BY DEF Init, Alone, Idle, StepKnows
<1>4. LogIsOfRecorded /\ LaunchedIsRecorded
  BY DEF Init, LogIsOfRecorded, LaunchedIsRecorded, Alive
<1> QED
  BY <1>1, <1>2, <1>3, <1>4 DEF WorkerInv

\* A step of one request while nobody else is served.
LEMMA AloneStep ==
  ASSUME TypeOK, Alone, NEW c \in Clients, ~Idle(c), pc' = [pc EXCEPT ![c] = pc'[c]]
  PROVE  /\ Alone'
         /\ \A d \in Clients \ {c} : Idle(d) /\ Idle(d)' /\ StepKnows(d)'
<1>1. \A d \in Clients \ {c} : Idle(d) /\ pc'[d] = pc[d]
  BY DEF Alone, TypeOK
<1>2. \A d \in Clients \ {c} : Idle(d)'
  BY <1>1 DEF Idle
<1>3. \A d \in Clients \ {c} : StepKnows(d)'
  BY <1>1 DEF Idle, StepKnows
<1>4. Alone'
  BY <1>2 DEF Alone
<1> QED
  BY <1>1, <1>2, <1>3, <1>4

LEMMA OneListensStep ==
  ASSUME TypeOK, OneListens, LogTells, [Next]_vars
  PROVE  OneListens' /\ LogTells'
<1> USE DEF TypeOK, OneListens, LogTells
<1>1. CASE UNCHANGED <<process, listener, log, written>>
  BY <1>1
<1>2. ASSUME NEW c \in Clients, ClearArtifacts(c) PROVE OneListens' /\ LogTells'
  BY <1>2, WorkerAssumption DEF ClearArtifacts, processVars
<1>3. ASSUME NEW c \in Clients, LaunchWorker(c) PROVE OneListens' /\ LogTells'
  <2>1. CASE process' = process
    BY <1>3, <2>1, WorkerAssumption DEF LaunchWorker, FreshLog
  <2>2. CASE process' # process
    <3>1. PICK p \in Processes : /\ process[p] = "unused"
                                /\ process' = [process EXCEPT ![p] = "starting"]
                                /\ log' = p
      BY <1>3, <2>2 DEF LaunchWorker, FreshLog
    <3>2. listener' = listener
      BY <1>3 DEF LaunchWorker
    <3> QED
      BY <3>1, <3>2
  <2> QED
    BY <2>1, <2>2
<1>4. ASSUME NEW p \in Processes, ProcessServes(p) PROVE OneListens' /\ LogTells'
  BY <1>4, WorkerAssumption DEF ProcessServes, WriteLog
<1>5. ASSUME NEW p \in Processes, ProcessFails(p) PROVE OneListens' /\ LogTells'
  BY <1>5, WorkerAssumption DEF ProcessFails, WriteLog, Alive
<1>6. CASE UserServer
  BY <1>6, WorkerAssumption DEF UserServer, fileVars
<1>7. \/ UNCHANGED <<process, listener, log, written>>
      \/ \E c \in Clients : ClearArtifacts(c) \/ LaunchWorker(c)
      \/ \E p \in Processes : ProcessServes(p) \/ ProcessFails(p)
      \/ UserServer
  BY DEF Next, Serve, vars, fileVars, processVars, Arrive, CloneRepository, InstallDependencies,
         CheckStart, RecordPid, PollHealth, SignalWorker, ForgetWorker, ReadActivity,
         WriteActivity, Restart
<1> QED
  BY <1>1, <1>2, <1>3, <1>4, <1>5, <1>6, <1>7

LEMMA CalmComesOfCalm == TypeOK /\ [Next]_vars /\ Calm' => Calm
<1> SUFFICES ASSUME TypeOK, [Next]_vars, Calm' PROVE Calm
  OBVIOUS
<1>1. ASSUME NEW c \in Clients, Serve(c) PROVE Calm
  BY <1>1
  DEF Calm, Serve, historyVars, SameContext, CloneRepository, InstallDependencies, ClearArtifacts,
      CheckStart, LaunchWorker, RecordPid, PollHealth, SignalWorker, ForgetWorker, ReadActivity,
      WriteActivity
<1>2. ASSUME NEW c \in Clients, NEW o \in Operations, Arrive(c, o) PROVE Calm
  BY <1>2 DEF Arrive, Calm
<1>3. ASSUME NEW p \in Processes, ProcessServes(p) \/ ProcessFails(p) PROVE Calm
  BY <1>3 DEF ProcessServes, ProcessFails, Calm, historyVars
<1>4. CASE UserServer
  BY <1>4 DEF UserServer, Calm, historyVars
<1>5. CASE Restart
  BY <1>5 DEF Restart, Calm
<1>6. CASE UNCHANGED vars
  BY <1>6 DEF vars, historyVars, Calm
<1> QED
  BY <1>1, <1>2, <1>3, <1>4, <1>5, <1>6 DEF Next

Known ==
  /\ TypeOK /\ OneListens /\ Alone
  /\ \A c \in Clients : StepKnows(c)
  /\ LogIsOfRecorded /\ LaunchedIsRecorded /\ Calm

Keeps ==
  /\ Alone'
  /\ \A c \in Clients : StepKnows(c)'
  /\ LogIsOfRecorded' /\ LaunchedIsRecorded'

\* A request that changes neither the processes nor what is recorded of them.
Looks(c) ==
  /\ pc' = [pc EXCEPT ![c] = pc'[c]]
  /\ ~Idle(c)
  /\ {pc[c], pc'[c]} \cap {"record"} = {}
  /\ UNCHANGED <<process, listener, stopped, runtime, log>>

LEMMA LookingKeeps ==
  ASSUME Known, NEW c \in Clients, Looks(c), StepKnows(c)'
  PROVE  Keeps
<1>1. \A d \in Clients : pc[d] # "record" /\ pc'[d] # "record"
  BY DEF Known, Looks, Alone, Idle, TypeOK
<1>2. Alone' /\ \A d \in Clients : StepKnows(d)'
  BY AloneStep DEF Known, Looks
<1>3. LogIsOfRecorded'
  BY <1>1 DEF Known, Looks, LogIsOfRecorded
<1>4. LaunchedIsRecorded'
  BY <1>1 DEF Known, Looks, LaunchedIsRecorded, Calm, Alive
<1> QED
  BY <1>2, <1>3, <1>4 DEF Keeps

LEMMA LooksAre ==
  ASSUME Known, NEW c \in Clients,
         \/ CloneRepository(c) \/ InstallDependencies(c) \/ CheckStart(c) \/ PollHealth(c)
         \/ ReadActivity(c)
  PROVE  Looks(c) /\ StepKnows(c)'
<1> USE DEF Known, TypeOK, Step, processVars, fileVars
<1>1. pc[c] \in {"install", "dependencies", "start", "autostart", "poll", "activity"}
  BY DEF CloneRepository, InstallDependencies, CheckStart, PollHealth, ReadActivity
<1>2. UNCHANGED <<process, listener, stopped, runtime, log>>
  BY DEF CloneRepository, InstallDependencies, CheckStart, PollHealth, ReadActivity
<1>3. /\ pc' = [pc EXCEPT ![c] = pc'[c]]
      /\ \/ pc[c] \in {"install", "dependencies"} /\ pc'[c] \in {"dependencies", "clear", "done"}
         \/ pc[c] \in {"start", "autostart"} /\ pc'[c] = "launch" /\ Startable
         \/ pc[c] = "activity" /\ pc'[c] = "mark" /\ view'[c] = runtime
         \/ pc'[c] = "done"
  BY DEF CloneRepository, InstallDependencies, CheckStart, PollHealth, ReadActivity
<1>4. pc[c] \in {"install", "dependencies"} => NobodyLives
  BY DEF StepKnows
<1>5. pc[c] \in {"start", "autostart"} /\ Startable => NobodyLives
  BY WorkerAssumption DEF StepKnows, Startable, IsRunning, NobodyLives
<1>6. NobodyLives => NobodyLives'
  BY <1>2 DEF NobodyLives, Alive
<1>7. StepKnows(c)'
  BY <1>2, <1>3, <1>4, <1>5, <1>6 DEF StepKnows
<1> QED
  BY <1>1, <1>2, <1>3, <1>7 DEF Looks, Idle

\* The other steps of a request.
LEMMA ServingKeeps ==
  ASSUME Known, NEW c \in Clients, Serve(c), TypeOK'
  PROVE  Keeps
<1> USE DEF Known
<1>1. CASE \/ CloneRepository(c) \/ InstallDependencies(c) \/ CheckStart(c) \/ PollHealth(c)
           \/ ReadActivity(c)
  BY <1>1, LooksAre, LookingKeeps
<1>2. ASSUME ~Idle(c), pc' = [pc EXCEPT ![c] = pc'[c]], pc[c] # "record",
             StepKnows(c)', LogIsOfRecorded', LaunchedIsRecorded'
      PROVE  Keeps
  BY <1>2, AloneStep DEF Keeps
<1>3. \A d \in Clients : ~Idle(c) /\ d # c => pc[d] # "record"
  BY DEF Alone, Idle
<1>4. CASE ClearArtifacts(c)
  <2>1. /\ pc[c] = "clear" /\ pc' = [pc EXCEPT ![c] = pc'[c]] /\ pc'[c] = "done"
        /\ log' = None /\ UNCHANGED <<process, stopped>>
    BY <1>4 DEF ClearArtifacts, Step, processVars, TypeOK
  <2>2. NobodyLives
    BY <2>1 DEF StepKnows
  <2> QED
    BY <1>2, <2>1, <2>2
    DEF Idle, StepKnows, NobodyLives, LogIsOfRecorded, LaunchedIsRecorded, Alive
<1>5. CASE LaunchWorker(c)
  <2>1. pc[c] = "launch" /\ pc' = [pc EXCEPT ![c] = pc'[c]] /\ pc'[c] \in {"record", "done"}
    BY <1>5 DEF LaunchWorker, Step, TypeOK
  <2>2. NobodyLives
    BY <2>1 DEF StepKnows
  <2>3. CASE pc'[c] = "done"
    <3>1. log' = None /\ process' = process
      BY <1>5, <2>1, <2>3 DEF LaunchWorker, Step, TypeOK
    <3> QED
      BY <1>2, <2>1, <2>2, <2>3, <3>1
      DEF Idle, StepKnows, NobodyLives, LogIsOfRecorded, LaunchedIsRecorded, Alive
  <2>4. CASE pc'[c] = "record"
    <3>1. PICK p \in Processes : /\ process' = [process EXCEPT ![p] = "starting"]
                                /\ child' = [child EXCEPT ![c] = p]
                                /\ log' = p
      BY <1>5, <2>1, <2>4 DEF LaunchWorker, FreshLog, Step, TypeOK
    <3>2. child'[c] = p /\ \A q \in Processes : Alive(q)' => q = p
      BY <2>2, <3>1 DEF TypeOK, NobodyLives, Alive
    <3>3. StepKnows(c)' /\ LogIsOfRecorded' /\ LaunchedIsRecorded'
      BY <2>4, <3>1, <3>2 DEF StepKnows, LogIsOfRecorded, LaunchedIsRecorded
    <3> QED
      BY <1>2, <2>1, <3>3 DEF Idle
  <2> QED
    BY <2>1, <2>3, <2>4
<1>6. CASE RecordPid(c)
  <2>1. /\ pc[c] = "record" /\ pc' = [pc EXCEPT ![c] = pc'[c]] /\ pc'[c] = "poll"
        /\ runtime' = child[c] /\ UNCHANGED <<process, stopped, log, child>>
    BY <1>6 DEF RecordPid, Step, processVars, TypeOK
  <2>2. child[c] = log /\ \A p \in Processes : Alive(p) => p = child[c]
    BY <2>1 DEF StepKnows
  <2>3. StepKnows(c)' /\ LogIsOfRecorded' /\ LaunchedIsRecorded'
    BY <2>1, <2>2 DEF StepKnows, LogIsOfRecorded, LaunchedIsRecorded, Alive
  <2>4. Alone' /\ \A d \in Clients \ {c} : StepKnows(d)'
    BY <2>1, AloneStep DEF Idle
  <2> QED
    BY <2>3, <2>4 DEF Keeps
<1>7. CASE SignalWorker(c)
  <2>1. /\ pc[c] = "stop" /\ pc' = [pc EXCEPT ![c] = pc'[c]] /\ pc'[c] = "forget"
        /\ stopped' = stopped \cup ({runtime} \cap Processes)
        /\ UNCHANGED <<process, log, runtime>>
    BY <1>7 DEF SignalWorker, Signalled, Step, fileVars, TypeOK
  <2>2. \A p \in Processes : Alive(p)' => p \in stopped'
    BY <1>3, <2>1 DEF LaunchedIsRecorded, Calm, Alive, Idle
  <2>3. LogIsOfRecorded'
    BY <1>3, <2>1 DEF LogIsOfRecorded, Idle
  <2> QED
    BY <1>2, <2>1, <2>2, <2>3 DEF Idle, StepKnows, LaunchedIsRecorded
<1>8. CASE ForgetWorker(c)
  <2>1. /\ pc[c] = "forget" /\ pc' = [pc EXCEPT ![c] = pc'[c]] /\ pc'[c] = "done"
        /\ runtime' = NoFile /\ UNCHANGED <<process, log, stopped>>
    BY <1>8 DEF ForgetWorker, Step, processVars, TypeOK
  <2>2. \A p \in Processes : Alive(p)' => p \in stopped'
    BY <2>1 DEF StepKnows, Alive
  <2>3. LogIsOfRecorded'
    BY <2>1, WorkerAssumption DEF LogIsOfRecorded, NoFile
  <2> QED
    BY <1>2, <2>1, <2>2, <2>3 DEF Idle, StepKnows, LaunchedIsRecorded
<1>9. CASE WriteActivity(c)
  <2>1. /\ pc[c] = "mark" /\ pc' = [pc EXCEPT ![c] = pc'[c]] /\ pc'[c] = "done"
        /\ runtime' = Marked(view[c]) /\ UNCHANGED <<process, log, stopped>>
    BY <1>9 DEF WriteActivity, Step, processVars, TypeOK
  <2>2. runtime \in Processes => runtime' = runtime
    BY <2>1, WorkerAssumption DEF StepKnows, Marked, NoFile
  <2>3. runtime' \in Processes => runtime' = runtime
    BY <2>1, WorkerAssumption DEF StepKnows, Marked
  <2>4. LogIsOfRecorded'
    BY <1>3, <2>1, <2>3 DEF LogIsOfRecorded, Idle
  <2>5. LaunchedIsRecorded'
    BY <1>3, <2>1, <2>2 DEF LaunchedIsRecorded, Calm, Alive, Idle
  <2> QED
    BY <1>2, <2>1, <2>4, <2>5 DEF Idle, StepKnows
<1> QED
  BY <1>1, <1>4, <1>5, <1>6, <1>7, <1>8, <1>9 DEF Serve

LEMMA ArrivingKeeps ==
  ASSUME Known, NEW c \in Clients, NEW o \in Operations, Arrive(c, o), Calm'
  PROVE  Keeps
<1> USE DEF Known
<1>1. /\ \A d \in Clients : Idle(d)
      /\ o \in {"start", "autostart"} => \A p \in Processes : Alive(p) => listener = p
      /\ o = "install" => NobodyLives
  BY DEF Arrive, Calm, NobodyLives
<1>2. /\ pc' = [pc EXCEPT ![c] = o] /\ UNCHANGED <<process, listener, stopped, runtime, log>>
  BY DEF Arrive, Step, fileVars, processVars
<1>3. pc'[c] = o /\ \A d \in Clients : d # c => pc'[d] = pc[d]
  BY <1>2 DEF TypeOK
<1>4. Alone'
  BY <1>1, <1>3 DEF Alone, Idle
<1>5. \A d \in Clients : StepKnows(d)'
  BY <1>1, <1>2, <1>3 DEF StepKnows, Idle, Operations, NobodyLives, Alive
<1>6. LogIsOfRecorded' /\ LaunchedIsRecorded'
  <2>1. \A d \in Clients : pc[d] # "record" /\ pc'[d] # "record"
    BY <1>1, <1>3 DEF Idle, Operations
  <2> QED
    BY <1>2, <2>1 DEF LogIsOfRecorded, LaunchedIsRecorded, Calm, Alive
<1> QED
  BY <1>4, <1>5, <1>6 DEF Keeps

\* Processes live and end, the server of the user comes and goes.
LEMMA ProcessesKeep ==
  ASSUME Known, \/ \E p \in Processes : ProcessServes(p) \/ ProcessFails(p)
                \/ UserServer
  PROVE  Keeps
<1> USE DEF Known
<1>1. /\ UNCHANGED <<pc, child, view, runtime, log, stopped>>
      /\ \A p \in Processes : Alive(p)' => Alive(p)
      /\ \A p \in Processes : Alive(p)' /\ listener = p => listener' = p
      /\ \A p \in Processes : listener = p => listener # None /\ listener # User
  BY WorkerAssumption
  DEF ProcessServes, ProcessFails, UserServer, requestVars, fileVars, Alive, TypeOK
<1>2. Alone'
  BY <1>1 DEF Alone, Idle
<1>3. \A c \in Clients : StepKnows(c)'
  BY <1>1 DEF StepKnows, NobodyLives
<1>4. LogIsOfRecorded' /\ LaunchedIsRecorded'
  BY <1>1 DEF LogIsOfRecorded, LaunchedIsRecorded, Calm
<1> QED
  BY <1>2, <1>3, <1>4 DEF Keeps

LEMMA RestartKeeps ==
  ASSUME Known, Restart, Calm'
  PROVE  Keeps
<1> USE DEF Known
<1>1. /\ \A c \in Clients : pc[c] # "record" /\ pc'[c] \in {"idle", "done"}
      /\ UNCHANGED <<process, listener, stopped, runtime, log>>
  BY DEF Restart, Calm, fileVars, processVars
<1>2. Alone' /\ \A c \in Clients : StepKnows(c)'
  BY <1>1 DEF Alone, Idle, StepKnows
<1>3. LogIsOfRecorded' /\ LaunchedIsRecorded'
  BY <1>1 DEF LogIsOfRecorded, LaunchedIsRecorded, Calm, Alive
<1> QED
  BY <1>2, <1>3 DEF Keeps

LEMMA WorkerInvStep == WorkerInv /\ [Next]_vars => WorkerInv'
<1> SUFFICES ASSUME WorkerInv, [Next]_vars PROVE WorkerInv'
  OBVIOUS
<1>1. TypeOK' /\ OneListens' /\ LogTells'
  BY TypeStep, OneListensStep DEF WorkerInv
<1>2. ASSUME Calm' PROVE Keeps
  <2>1. Known
    BY <1>2, CalmComesOfCalm DEF WorkerInv, Known
  <2>2. ASSUME NEW c \in Clients, Serve(c) PROVE Keeps
    BY <1>1, <2>1, <2>2, ServingKeeps
  <2>3. ASSUME NEW c \in Clients, NEW o \in Operations, Arrive(c, o) PROVE Keeps
    BY <1>2, <2>1, <2>3, ArrivingKeeps
  <2>4. CASE UNCHANGED vars
    BY <2>1, <2>4
    DEF Known, Keeps, vars, fileVars, processVars, requestVars, historyVars, Alone, Idle,
        StepKnows, NobodyLives, LogIsOfRecorded, LaunchedIsRecorded, Alive
  <2> QED
    BY <1>2, <2>1, <2>2, <2>3, <2>4, ProcessesKeep, RestartKeeps DEF Next
<1> QED
  BY <1>1, <1>2 DEF WorkerInv, Keeps, Calm

(***************************************************************************)
(* A process that lives and was not told to stop is in the runtime file,   *)
(* as long as requests do not overlap and no restart comes between the     *)
(* launch and the record.                                                  *)
(***************************************************************************)
THEOREM LaunchesAreRecorded == Spec => []LaunchedIsRecorded
<1>1. WorkerInv => LaunchedIsRecorded
  BY DEF WorkerInv, Calm, LaunchedIsRecorded
<1> QED
  BY <1>1, WorkerInvInitial, WorkerInvStep, PTL DEF Spec

(***************************************************************************)
(* When a stop has returned, nothing the application launched is left that *)
(* was not told to stop.                                                   *)
(***************************************************************************)
THEOREM StopsReachAll == Spec => StopReachesAll
<1> DEFINE Reached == \A c \in Clients : pc[c] = "forget" /\ pc'[c] = "done" /\ ~careless /\ ~broken
                        => (restarts' # restarts \/ \A p \in Processes : Alive(p) => p \in stopped)
<1>1. WorkerInv /\ [Next]_vars => [Reached]_vars
  BY DEF WorkerInv, Calm, StepKnows
<1> QED
  BY <1>1, WorkerInvInitial, WorkerInvStep, PTL DEF Spec, StopReachesAll

(***************************************************************************)
(* A recorded process that died by itself is shown with the last line of   *)
(* its log as the reason.                                                  *)
(***************************************************************************)
THEOREM FailuresAreExplained == Spec => []FailureIsExplained
<1>1. WorkerInv => FailureIsExplained
  <2> SUFFICES ASSUME WorkerInv, Calm, \A c \in Clients : Idle(c), runtime \in Processes,
                      log # None, process[runtime] = "ended"
               PROVE  ReadinessNote # "not running"
    BY DEF FailureIsExplained, Calm
  <2>1. runtime = log
    BY DEF WorkerInv, LogIsOfRecorded, Idle
  <2>2. StartupError
    BY <2>1 DEF WorkerInv, LogTells, StartupError
  <2> QED
    BY <2>2 DEF ReadinessNote
<1> QED
  BY <1>1, WorkerInvInitial, WorkerInvStep, PTL DEF Spec
=============================================================================
