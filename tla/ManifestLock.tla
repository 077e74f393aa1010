----------------------------- MODULE ManifestLock -----------------------------
(***************************************************************************)
(* The lock file of one manifest: FileManifestStore.#withLock,             *)
(* #removeStaleLock and #unlinkObserved.                                   *)
(*                                                                         *)
(* A process takes the lock by creating the file exclusively and then      *)
(* writes its pid into it.  A process that finds the file reads the pid,   *)
(* and when the pid is dead, or the file has had no pid for the lock       *)
(* timeout, it removes the file: it compares the inode at the path with    *)
(* the inode it has read, and then unlinks the path.  These are two system *)
(* calls, and the path may name another file by the second.                *)
(*                                                                         *)
(* An inode is not reused while a process still compares with it, as a     *)
(* remover holds the file it has read open.  A pid is not reused.          *)
(* Creating the file and writing the pid take less than the lock timeout.  *)
(***************************************************************************)
EXTENDS Integers

CONSTANTS
  Procs,                 \* processes that use the store
  Inodes,                \* inodes the file system gives out
  MaxCrashes, MaxFaults, \* bounds of a run
  None

ASSUME LockAssumption ==
  Inodes \subseteq Nat \ {0} /\ MaxCrashes \in Nat /\ MaxFaults \in Nat

(* A process that crashes comes back with another pid.                     *)
Pid == Procs \X Nat

File == [ino : Inodes, owner : Pid, written : BOOLEAN]

ASSUME NoneIsNoFile == None \notin File

LockPhase == {"idle", "open", "examine", "compare", "unlink", "write", "held",
              "release", "remove"}

VARIABLES
  lockFile,  \* the file at the lock path
  phase,     \* where each process is in #withLock
  observed,  \* the inode of the file each process has taken facts of, or 0
  lives,     \* how often each process has been started
  misfired,  \* an unlink has removed another file than the one compared
  losses     \* crashes and faults the run has spent

lock == <<lockFile, phase, observed, lives, misfired, losses>>

Me(p) == <<p, lives[p]>>
Running(pid) == lives[pid[1]] = pid[2]

LockInit ==
  /\ lockFile = None
  /\ phase = [p \in Procs |-> "idle"]
  /\ observed = [p \in Procs |-> 0]
  /\ lives = [p \in Procs |-> 0]
  /\ misfired = FALSE
  /\ losses = [crashes |-> 0, faults |-> 0]

(* To the next phase, with the facts taken so far or without them.         *)
GoTo(p, next) == phase' = [phase EXCEPT ![p] = next] /\ UNCHANGED observed
BackTo(p, next) ==
  phase' = [phase EXCEPT ![p] = next] /\ observed' = [observed EXCEPT ![p] = 0]

Want(p) ==
  /\ phase[p] = "idle" /\ GoTo(p, "open")
  /\ UNCHANGED <<lockFile, lives, misfired, losses>>

(* The least inode that no file and no comparison has.                     *)
Taken(ino) ==
  (lockFile # None /\ lockFile.ino = ino) \/ \E p \in Procs : observed[p] = ino
Fresh(ino) == ~Taken(ino) /\ \A n \in Inodes : n < ino => Taken(n)

(* open(lockPath, O_CREAT | O_EXCL).                                       *)
Open(p) ==
  /\ phase[p] = "open"
  /\ \/ /\ lockFile = None
        /\ \E ino \in Inodes :
             /\ Fresh(ino)
             /\ lockFile' = [ino |-> ino, owner |-> Me(p), written |-> FALSE]
             /\ observed' = [observed EXCEPT ![p] = ino]
        /\ phase' = [phase EXCEPT ![p] = "write"]
     \/ lockFile # None /\ GoTo(p, "examine") /\ UNCHANGED lockFile
  /\ UNCHANGED <<lives, misfired, losses>>

(* Mutant: whoever finds a lock file takes it for stale.                   *)
StaleAlways(file) == file.ino > 0

(* The pid in the file is of a process that is gone, or the file is empty  *)
(* and old.  A file whose creator is about to write its pid is not old.    *)
Stale(file) ==
  IF file.written THEN ~Running(file.owner)
  ELSE ~(Running(file.owner) /\ phase[file.owner[1]] = "write")

(* The first half of #removeStaleLock.  A lock that is not stale is waited *)
(* for: back to open, or to idle once the timeout has passed.              *)
Examine(p) ==
  /\ phase[p] = "examine"
  /\ \/ lockFile = None /\ BackTo(p, "open")
     \/ lockFile # None /\ ~Stale(lockFile) /\ BackTo(p, "open")
     \/ lockFile # None /\ ~Stale(lockFile) /\ BackTo(p, "idle")
     \/ /\ lockFile # None /\ Stale(lockFile)
        /\ observed' = [observed EXCEPT ![p] = lockFile.ino]
        /\ phase' = [phase EXCEPT ![p] = "compare"]
  /\ UNCHANGED <<lockFile, lives, misfired, losses>>

(* #unlinkObserved, the lstat: the path must still name the same file.     *)
Same(p) == lockFile # None /\ lockFile.ino = observed[p]

(* #unlinkObserved, the unlink: whatever the path names now.               *)
Unlink(p, after) ==
  /\ misfired' = (misfired \/ (lockFile # None /\ ~Same(p)))
  /\ lockFile' = None
  /\ BackTo(p, after)
  /\ UNCHANGED <<lives, losses>>

(* A file that is gone is as good as removed; another file is waited for.  *)
CompareStale(p) ==
  /\ phase[p] = "compare"
  /\ \/ Same(p) /\ GoTo(p, "unlink")
     \/ ~Same(p) /\ BackTo(p, "open")
     \/ ~Same(p) /\ lockFile # None /\ BackTo(p, "idle")
  /\ UNCHANGED <<lockFile, lives, misfired, losses>>

RemoveStale(p) == phase[p] = "unlink" /\ Unlink(p, "open")

(* The pid goes to the file this process has created, wherever it is now.  *)
WritePid(p) ==
  /\ phase[p] = "write"
  /\ lockFile' = IF Same(p) THEN [lockFile EXCEPT !.written = TRUE] ELSE lockFile
  /\ GoTo(p, "held")
  /\ UNCHANGED <<lives, misfired, losses>>

(* The write, the sync or the stat fails: nothing was observed, and the    *)
(* file stays, with a pid or without.                                      *)
FailToWritePid(p) ==
  /\ phase[p] = "write"
  /\ losses.faults < MaxFaults
  /\ losses' = [losses EXCEPT !.faults = @ + 1]
  /\ \/ UNCHANGED lockFile
     \/ Same(p) /\ lockFile' = [lockFile EXCEPT !.written = TRUE]
  /\ BackTo(p, "idle")
  /\ UNCHANGED <<lives, misfired>>

(* The operation under the lock ends, by a result or by an exception, and  *)
(* the lock is to be released; a fault is an exception of the file system. *)
Leave(p) ==
  phase[p] = "held" /\ GoTo(p, "release") /\ UNCHANGED <<lockFile, lives, misfired>>

Finish(p) == Leave(p) /\ UNCHANGED losses

FinishByFault(p) ==
  /\ Leave(p)
  /\ losses.faults < MaxFaults
  /\ losses' = [losses EXCEPT !.faults = @ + 1]

CompareOwn(p) ==
  /\ phase[p] = "release"
  /\ \/ Same(p) /\ GoTo(p, "remove")
     \/ ~Same(p) /\ BackTo(p, "idle")
  /\ UNCHANGED <<lockFile, lives, misfired, losses>>

RemoveOwn(p) == phase[p] = "remove" /\ Unlink(p, "idle")

Crash(p) ==
  /\ phase[p] # "idle"
  /\ losses.crashes < MaxCrashes
  /\ losses' = [losses EXCEPT !.crashes = @ + 1]
  /\ lives' = [lives EXCEPT ![p] = @ + 1]
  /\ BackTo(p, "idle")
  /\ UNCHANGED <<lockFile, misfired>>

(* Everything #withLock does around the operation.                         *)
Around(p) ==
  \/ Open(p) \/ Examine(p) \/ CompareStale(p) \/ RemoveStale(p)
  \/ WritePid(p) \/ FailToWritePid(p) \/ CompareOwn(p) \/ RemoveOwn(p)

LockNext ==
  \E p \in Procs :
    Want(p) \/ Around(p) \/ Finish(p) \/ FinishByFault(p) \/ Crash(p)

LockSpec == LockInit /\ [][LockNext]_lock

(***************************************************************************)
(* Properties.                                                             *)
(***************************************************************************)
LockTypeOK ==
  /\ lockFile \in File \union {None}
  /\ phase \in [Procs -> LockPhase]
  /\ observed \in [Procs -> Inodes \union {0}]
  /\ lives \in [Procs -> Nat]
  /\ misfired \in BOOLEAN
  /\ losses \in [crashes : Nat, faults : Nat]

(* Two processes never work on one manifest at a time, after any crash and *)
(* any removal of a stale lock, unless an unlink has hit a file created    *)
(* between the comparison and the unlink.                                  *)
OneHolder == \A p, q \in Procs : phase[p] = "held" /\ phase[q] = "held" => p = q

Exclusion == ~misfired => OneHolder
=============================================================================
