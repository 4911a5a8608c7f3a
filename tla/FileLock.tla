------------------------------ MODULE FileLock ------------------------------
(***************************************************************************)
(* _acquire_file_lock() of core/project/cross_project.py on POSIX: a lock  *)
(* of the process for its threads, then flock() on a lock file that is     *)
(* created when it is missing and unlinked by whoever is done with it.     *)
(* flock() locks the file that was opened, not its name.                   *)
(***************************************************************************)
EXTENDS FiniteSets

CONSTANTS Clients,     \* threads that take the lock
          Processes,
          Files,       \* files (inodes) the lock file may be
          None

ASSUME LockAssumption == None \notin Clients \cup Files

VARIABLES processOf,   \* the process of each thread: one server, or several
          threadLock,  \* holder of the lock of each process
          lockFile,    \* the file the name refers to, or None
          flocked,     \* holder of the flock of each file
          handle,      \* the file each thread has opened
          lockPc       \* "free", "open", "held" or "closing"

lockVars == <<processOf, threadLock, lockFile, flocked, handle, lockPc>>

LockInit ==
  /\ processOf \in [Clients -> Processes]
  /\ threadLock = [p \in Processes |-> None]
  /\ lockFile = None
  /\ flocked = [f \in Files |-> None]
  /\ handle = [c \in Clients |-> None]
  /\ lockPc = [c \in Clients |-> "free"]

\* Files nothing refers to any more.
Unused == Files \ ({lockFile} \cup {handle[c] : c \in Clients})

\* (mutant) The lock of the process is not waited for.
ThreadLockIgnored(c) == TRUE

ThreadLockFree(c) == threadLock[processOf[c]] = None

\* The lock of the process, then open(lock_path, "w").
OpenLock(c) ==
  /\ lockPc[c] = "free"
  /\ ThreadLockFree(c)
  /\ threadLock' = [threadLock EXCEPT ![processOf[c]] = c]
  /\ \E f \in IF lockFile = None THEN Unused ELSE {lockFile} :
       /\ handle' = [handle EXCEPT ![c] = f]
       /\ lockFile' = f
  /\ lockPc' = [lockPc EXCEPT ![c] = "open"]
  /\ UNCHANGED <<processOf, flocked>>

\* flock(LOCK_EX | LOCK_NB), retried until it succeeds ...
Flock(c) ==
  /\ lockPc[c] = "open"
  /\ flocked[handle[c]] = None
  /\ flocked' = [flocked EXCEPT ![handle[c]] = c]
  /\ lockPc' = [lockPc EXCEPT ![c] = "held"]
  /\ UNCHANGED <<processOf, threadLock, lockFile, handle>>

\* ... or until the deadline: TimeoutError.
FlockTimeout(c) ==
  /\ lockPc[c] = "open"
  /\ flocked[handle[c]] # None
  /\ lockPc' = [lockPc EXCEPT ![c] = "closing"]
  /\ UNCHANGED <<processOf, threadLock, lockFile, flocked, handle>>

Unlock(c) ==
  /\ lockPc[c] = "held"
  /\ flocked' = [flocked EXCEPT ![handle[c]] = None]
  /\ lockPc' = [lockPc EXCEPT ![c] = "closing"]
  /\ UNCHANGED <<processOf, threadLock, lockFile, handle>>

\* The name is unlinked whatever file it refers to by now; the lock of the
\* process is given up.
CloseLock(c) ==
  /\ lockPc[c] = "closing"
  /\ lockFile' = None
  /\ handle' = [handle EXCEPT ![c] = None]
  /\ threadLock' = [threadLock EXCEPT ![processOf[c]] = None]
  /\ lockPc' = [lockPc EXCEPT ![c] = "free"]
  /\ UNCHANGED <<processOf, flocked>>

\* A process ends: the system gives up its locks, the lock file stays.
EndProcess(p) ==
  LET gone == {c \in Clients : processOf[c] = p} IN
  /\ threadLock' = [threadLock EXCEPT ![p] = None]
  /\ flocked' = [f \in Files |-> IF flocked[f] \in gone THEN None ELSE flocked[f]]
  /\ handle' = [c \in Clients |-> IF c \in gone THEN None ELSE handle[c]]
  /\ lockPc' = [c \in Clients |-> IF c \in gone THEN "free" ELSE lockPc[c]]
  /\ UNCHANGED <<processOf, lockFile>>

LockTypeOK ==
  /\ processOf \in [Clients -> Processes]
  /\ threadLock \in [Processes -> Clients \cup {None}]
  /\ lockFile \in Files \cup {None}
  /\ flocked \in [Files -> Clients \cup {None}]
  /\ handle \in [Clients -> Files \cup {None}]
  /\ lockPc \in [Clients -> {"free", "open", "held", "closing"}]

(***************************************************************************)
(* Threads of one process exclude each other inside the lock               *)
(* (cross_project.py:84-85, :101-103).                                     *)
(***************************************************************************)
ThreadsExclude ==
  \A c, d \in Clients :
    lockPc[c] # "free" /\ lockPc[d] # "free" /\ processOf[c] = processOf[d] => c = d

\* Threads of two processes are inside the lock at once: whoever is done unlinks
\* the lock file, and the next one locks another.
Overlapping ==
  \E c, d \in Clients :
    processOf[c] # processOf[d] /\ lockPc[c] = "held" /\ lockPc[d] = "held"
=============================================================================
