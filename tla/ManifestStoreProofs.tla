-------------------------- MODULE ManifestStoreProofs --------------------------
(***************************************************************************)
(* The safety of ManifestStore, for any number of processes, rows and      *)
(* requests and any number of calls, crashes and faults.                   *)
(*                                                                         *)
(* The store moves its lock as ManifestLock does, so that its lock is      *)
(* exclusive.  What a writer has read stays true while it works: WriteInv  *)
(* says for each stage of a write what the manifest is and what is to be   *)
(* installed, and the exclusion is what keeps it.  LoadInv says how old    *)
(* what a load has read may be, and LogInv what a process that appends,    *)
(* compacts or repairs relies on between its steps.                        *)
(***************************************************************************)
EXTENDS ManifestStore, FiniteSetTheorems, TLAPS

(***************************************************************************)
(* The lock, for any number of processes and inodes.  That two processes   *)
(* do not hold it says nothing of the processes about to remove it.        *)
(* LockInv says what a removal rests on: a process that has taken the lock *)
(* is the owner of the file at the path until it releases it, and a file   *)
(* that a remover has compared with success is stale, so that no process   *)
(* which works under the lock owns it.                                     *)
(***************************************************************************)
Owning == {"write", "held", "release", "remove"}

(* Who has taken the lock owns the file, and has put its pid there.        *)
Owns(p) ==
  /\ Same(p)
  /\ lockFile.owner = Me(p)
  /\ lockFile.written <=> phase[p] # "write"

(* A file at the path was created in a life its owner has begun.           *)
OwnerHasLived ==
  lockFile # None => lockFile.owner[2] <= lives[lockFile.owner[1]]

LockInv ==
  /\ LockTypeOK
  /\ OwnerHasLived
  /\ ~misfired =>
       /\ \A p \in Procs : phase[p] \in Owning => Owns(p)
       /\ \A q \in Procs : phase[q] \in {"compare", "unlink"} /\ Same(q)
                             => Stale(lockFile)

(* The facts a step of one process uses of the types.                      *)
LEMMA FileFacts ==
  ASSUME LockTypeOK, lockFile # None
  PROVE  /\ lockFile \in File /\ lockFile.ino \in Inodes
         /\ lockFile.owner \in Pid
         /\ lockFile.owner[1] \in Procs /\ lockFile.owner[2] \in Nat
         /\ lockFile.written \in BOOLEAN
BY DEF LockTypeOK, File, Pid

(* The lock of a process that works under it is not stale.                 *)
LEMMA OwnedIsNotStale ==
  ASSUME LockInv, ~misfired, NEW p \in Procs, phase[p] \in Owning
  PROVE  lockFile # None /\ ~Stale(lockFile) /\ lockFile.owner = Me(p)
<1>1. Owns(p)
  BY DEF LockInv
<1>2. lockFile # None /\ lockFile.owner = Me(p) /\ Running(lockFile.owner)
  BY <1>1 DEF Owns, Same, Me, Running
<1>3. lockFile.owner[1] = p
  BY <1>2 DEF Me
<1>. QED  BY <1>1, <1>2, <1>3, FileFacts DEF LockInv, Owns, Stale

(* At most one process works under the lock.                               *)
LEMMA OneOwner ==
  ASSUME LockInv, ~misfired, NEW p \in Procs, NEW q \in Procs,
         phase[p] \in Owning, phase[q] \in Owning
  PROVE  p = q
BY OwnedIsNotStale DEF Me

(* Of two that work under the lock, both would own the one file.           *)
LEMMA InvExcludes == LockInv => Exclusion
BY OneOwner DEF Exclusion, OneHolder, Owning

LEMMA InitInv == LockInit => LockInv
<1> SUFFICES ASSUME LockInit PROVE LockInv
  OBVIOUS
<1>1. misfired \in BOOLEAN
  BY Zenon DEF LockInit
<1>2. LockTypeOK
  BY <1>1, LockAssumption DEF LockInit, LockTypeOK, LockPhase
<1>3. lockFile = None /\ \A p \in Procs : phase[p] = "idle"
  BY DEF LockInit
<1>. QED  BY <1>2, <1>3 DEF LockInv, OwnerHasLived, Owning, Same

(***************************************************************************)
(* Steps.                                                                  *)
(***************************************************************************)
(* The types after a step of one process.                                  *)
LEMMA TypeStep ==
  ASSUME LockTypeOK, NEW p \in Procs, NEW next \in LockPhase,
         GoTo(p, next) \/ BackTo(p, next)
         \/ \E ino \in Inodes : /\ phase' = [phase EXCEPT ![p] = next]
                                /\ observed' = [observed EXCEPT ![p] = ino]
  PROVE  /\ phase' \in [Procs -> LockPhase]
         /\ observed' \in [Procs -> Inodes \union {0}]
         /\ phase'[p] = next
         /\ \A q \in Procs \ {p} : phase'[q] = phase[q] /\ observed'[q] = observed[q]
BY DEF LockTypeOK, GoTo, BackTo

(* A step of one process that leaves the file and all lives alone, and     *)
(* neither takes the lock nor starts a comparison, keeps LockInv.          *)
LEMMA MoveOn ==
  ASSUME LockInv, NEW p \in Procs, NEW next \in LockPhase,
         GoTo(p, next) \/ BackTo(p, next),
         next \in Owning => phase[p] \in {"held", "release"} /\ GoTo(p, next),
         next # "write",
         next \in {"compare", "unlink"} => phase[p] = "compare" /\ GoTo(p, next),
         UNCHANGED <<lockFile, lives, misfired>>,
         losses' \in [crashes : Nat, faults : Nat]
  PROVE  LockInv'
<1>1. LockTypeOK'
  <2>1. LockTypeOK
    BY DEF LockInv
  <2>. QED  BY <2>1, TypeStep DEF LockTypeOK
<1>2. OwnerHasLived'
  BY DEF LockInv, OwnerHasLived
<1>3. /\ phase'[p] = next
      /\ \A q \in Procs \ {p} : phase'[q] = phase[q] /\ observed'[q] = observed[q]
  BY TypeStep DEF LockInv
<1>4. ASSUME ~misfired', NEW q \in Procs, phase'[q] \in Owning
      PROVE  Owns(q)'
  <2>1. phase[q] \in Owning /\ observed'[q] = observed[q]
    BY <1>3, <1>4 DEF Owning, GoTo
  <2>2. phase'[q] = "write" <=> phase[q] = "write"
    BY <1>3, <1>4 DEF Owning
  <2>3. Owns(q)
    BY <1>4, <2>1 DEF LockInv
  <2>. QED  BY <2>1, <2>2, <2>3 DEF Owns, Same, Me
<1>5. ASSUME ~misfired', NEW q \in Procs, phase'[q] \in {"compare", "unlink"}, Same(q)'
      PROVE  Stale(lockFile)'
  <2>1. phase[q] \in {"compare", "unlink"} /\ observed'[q] = observed[q]
    BY <1>3, <1>5 DEF GoTo
  <2>2. Same(q) /\ Stale(lockFile)
    BY <1>5, <2>1 DEF LockInv, Same
  <2>3. lockFile.owner[1] \in Procs
    BY <2>2, FileFacts DEF LockInv, Same
  <2>4. phase'[lockFile.owner[1]] = "write" => phase[lockFile.owner[1]] = "write"
    BY <1>3, <2>3
  <2>. QED  BY <2>2, <2>4 DEF Stale, Running
<1>. QED  BY <1>1, <1>2, <1>4, <1>5 DEF LockInv

(* What a step does to a file it does not compare with: the claims on the  *)
(* file carry over when it is stale after the step if it was before.       *)
LEMMA OtherClaims ==
  ASSUME LockInv, NEW p \in Procs, NEW next \in LockPhase \ Owning,
         BackTo(p, next), next \notin {"compare", "unlink"},
         ~misfired' => ~misfired,
         lives' \in [Procs -> Nat],
         \A q \in Procs \ {p} : lives'[q] = lives[q]
  PROVE  \A q \in Procs :
           /\ phase'[q] \in Owning =>
                /\ q # p /\ phase[q] \in Owning /\ (Me(q))' = Me(q)
                /\ observed'[q] = observed[q] /\ phase'[q] = phase[q]
           /\ phase'[q] \in {"compare", "unlink"} =>
                q # p /\ phase'[q] = phase[q] /\ observed'[q] = observed[q]
<1>1. /\ phase'[p] = next
      /\ \A q \in Procs \ {p} : phase'[q] = phase[q] /\ observed'[q] = observed[q]
  BY TypeStep DEF LockInv
<1>. QED  BY <1>1 DEF Me

(* A removal.  Without a misfire it takes away the file that was compared, *)
(* and nobody else works under the lock.                                   *)
LEMMA RemovalStep ==
  ASSUME LockInv, NEW p \in Procs, NEW after \in {"open", "idle"},
         phase[p] \in {"unlink", "remove"}, Unlink(p, after)
  PROVE  LockInv'
<1>0. LockTypeOK /\ after \in LockPhase \ Owning /\ BackTo(p, after)
  BY DEF LockInv, LockPhase, Owning, Unlink
<1>1. misfired' \in BOOLEAN
  BY <1>0, Zenon DEF Unlink
<1>2. LockTypeOK'
  BY <1>0, <1>1, TypeStep DEF LockTypeOK, Unlink
<1>3. lockFile' = None
  BY DEF Unlink
<1>4. ~misfired' => ~misfired /\ (lockFile = None \/ Same(p))
  BY Zenon DEF Unlink
<1>5. lives' = lives /\ lives \in [Procs -> Nat]
  BY <1>0 DEF Unlink, LockTypeOK
<1>6. ASSUME ~misfired', NEW q \in Procs, phase'[q] \in Owning
      PROVE  FALSE
  <2>1. q # p /\ phase[q] \in Owning
    BY <1>0, <1>4, <1>5, <1>6, OtherClaims
  <2>2. lockFile # None /\ ~Stale(lockFile) /\ lockFile.owner = Me(q)
    BY <1>4, <1>6, <2>1, OwnedIsNotStale
  <2>3. Same(p)
    BY <1>4, <1>6, <2>2
  <2>4. CASE phase[p] = "unlink"
    BY <1>4, <1>6, <2>2, <2>3, <2>4 DEF LockInv
  <2>5. CASE phase[p] = "remove"
    BY <1>4, <1>6, <2>1, <2>5, OneOwner DEF Owning
  <2>. QED  BY <2>4, <2>5
<1>. QED  BY <1>2, <1>3, <1>6 DEF LockInv, OwnerHasLived, Same

(* The file a process creates has an inode nobody compares with.           *)
LEMMA CreationStep ==
  ASSUME LockInv, NEW p \in Procs, NEW ino \in Inodes, Fresh(ino),
         phase[p] = "open", lockFile = None,
         lockFile' = [ino |-> ino, owner |-> Me(p), written |-> FALSE],
         observed' = [observed EXCEPT ![p] = ino],
         phase' = [phase EXCEPT ![p] = "write"],
         UNCHANGED <<lives, misfired, losses>>
  PROVE  LockInv'
<1>1. LockTypeOK /\ "write" \in LockPhase
  BY DEF LockInv, LockPhase
<1>2. /\ phase' \in [Procs -> LockPhase]
      /\ observed' \in [Procs -> Inodes \union {0}]
      /\ phase'[p] = "write" /\ observed'[p] = ino
      /\ \A q \in Procs \ {p} : phase'[q] = phase[q] /\ observed'[q] = observed[q]
  BY <1>1, TypeStep DEF LockTypeOK
<1>3. Me(p) \in Pid /\ Me(p)[1] = p /\ Me(p)[2] = lives[p] /\ lives[p] \in Nat
  BY <1>1 DEF LockTypeOK, Me, Pid
<1>4. /\ lockFile' \in File /\ lockFile' # None
      /\ lockFile'.ino = ino /\ lockFile'.owner = Me(p) /\ ~lockFile'.written
  <2>1. lockFile' \in File
    BY <1>3 DEF File
  <2>2. ~lockFile'.written
    BY Zenon
  <2>. QED  BY <2>1, <2>2, NoneIsNoFile
<1>5. LockTypeOK'
  BY <1>1, <1>2, <1>4 DEF LockTypeOK
<1>6. OwnerHasLived'
  BY <1>3, <1>4 DEF OwnerHasLived
<1>7. ASSUME ~misfired, NEW q \in Procs \ {p}
      PROVE  phase[q] \notin Owning
  BY <1>7, OwnedIsNotStale
<1>8. ASSUME ~misfired', NEW q \in Procs, phase'[q] \in Owning
      PROVE  Owns(q)'
  <2>1. q = p
    BY <1>2, <1>7, <1>8
  <2>. QED  BY <1>2, <1>4, <2>1 DEF Owns, Same, Me
<1>9. ASSUME NEW q \in Procs, phase'[q] \in {"compare", "unlink"}
      PROVE  ~Same(q)'
  <2>1. q # p /\ observed'[q] = observed[q] /\ observed[q] # ino
    BY <1>2, <1>9 DEF Fresh, Taken
  <2>. QED  BY <1>4, <2>1 DEF Same
<1>. QED  BY <1>5, <1>6, <1>8, <1>9 DEF LockInv

(* A process starts to compare with a file it has found stale.             *)
LEMMA ExamineStep ==
  ASSUME LockInv, NEW p \in Procs, Examine(p)
  PROVE  LockInv'
<1>0. LockTypeOK /\ losses' \in [crashes : Nat, faults : Nat]
  BY DEF LockInv, LockTypeOK, Examine
<1>1. CASE BackTo(p, "open") \/ BackTo(p, "idle")
  BY <1>0, <1>1, MoveOn DEF Examine, LockPhase, Owning
<1>2. CASE /\ lockFile # None /\ Stale(lockFile)
           /\ observed' = [observed EXCEPT ![p] = lockFile.ino]
           /\ phase' = [phase EXCEPT ![p] = "compare"]
  <2>1. UNCHANGED <<lockFile, lives, misfired, losses>> /\ "compare" \in LockPhase
        /\ phase[p] = "examine"
    BY DEF Examine, LockPhase
  <2>2. lockFile.ino \in Inodes
    BY <1>0, <1>2, FileFacts
  <2>3. /\ phase' \in [Procs -> LockPhase]
        /\ observed' \in [Procs -> Inodes \union {0}]
        /\ phase'[p] = "compare"
        /\ \A q \in Procs \ {p} : phase'[q] = phase[q] /\ observed'[q] = observed[q]
    BY <1>0, <1>2, <2>1, <2>2, TypeStep
  <2>4. LockTypeOK' /\ OwnerHasLived'
    BY <1>0, <2>1, <2>3 DEF LockInv, LockTypeOK, OwnerHasLived
  <2>5. ASSUME ~misfired', NEW q \in Procs, phase'[q] \in Owning
        PROVE  Owns(q)'
    <3>1. q # p /\ phase[q] \in Owning
      BY <2>3, <2>5 DEF Owning
    <3>. QED  BY <2>1, <2>3, <2>5, <3>1 DEF LockInv, Owns, Same, Me
  <2>6. Stale(lockFile)'
    <3>1. lockFile.owner[1] \in Procs
      BY <1>0, <1>2, FileFacts
    <3>2. phase'[lockFile.owner[1]] = "write" => phase[lockFile.owner[1]] = "write"
      BY <2>3, <3>1
    <3>. QED  BY <1>2, <2>1, <3>2 DEF Stale, Running
  <2>. QED  BY <2>4, <2>5, <2>6 DEF LockInv
<1>. QED  BY <1>1, <1>2 DEF Examine

(* The pid goes to the owner's own file, whatever becomes of the owner.    *)
LEMMA PidStep ==
  ASSUME LockInv, NEW p \in Procs, phase[p] = "write",
         \/ WritePid(p)
         \/ /\ Same(p) /\ lockFile' = [lockFile EXCEPT !.written = TRUE]
            /\ BackTo(p, "idle") /\ UNCHANGED <<lives, misfired>>
            /\ losses' \in [crashes : Nat, faults : Nat]
  PROVE  LockInv'
<1>0. LockTypeOK /\ losses' \in [crashes : Nat, faults : Nat]
      /\ UNCHANGED <<lives, misfired>>
  BY DEF LockInv, LockTypeOK, WritePid
<1>1. PICK next \in {"held", "idle"} :
        /\ next = "held" => GoTo(p, next)
        /\ next = "idle" => BackTo(p, next) /\ Same(p)
  BY DEF WritePid
<1>2. /\ phase' \in [Procs -> LockPhase]
      /\ observed' \in [Procs -> Inodes \union {0}]
      /\ phase'[p] = next
      /\ \A q \in Procs \ {p} : phase'[q] = phase[q] /\ observed'[q] = observed[q]
  BY <1>0, <1>1, TypeStep DEF LockPhase
<1>3. \/ Same(p) /\ lockFile' = [lockFile EXCEPT !.written = TRUE]
      \/ ~Same(p) /\ lockFile' = lockFile
  BY DEF WritePid
<1>4. CASE Same(p) /\ lockFile' = [lockFile EXCEPT !.written = TRUE]
  <2>1. lockFile # None /\ lockFile \in File /\ lockFile.owner \in Pid
    BY <1>0, <1>4, FileFacts DEF Same
  <2>2. /\ lockFile' \in File /\ lockFile' # None
        /\ lockFile'.ino = lockFile.ino /\ lockFile'.owner = lockFile.owner
    BY <2>1, <1>4, NoneIsNoFile DEF File
  <2>3. lockFile'.written
    BY <2>1, <1>4 DEF File
  <2>4. LockTypeOK' /\ OwnerHasLived'
    BY <1>0, <1>2, <2>1, <2>2 DEF LockInv, LockTypeOK, OwnerHasLived
  <2>5. ASSUME ~misfired', NEW q \in Procs, phase'[q] \in Owning
        PROVE  Owns(q)'
    <3>1. q = p
      <4>1. q # p => phase[q] \in Owning
        BY <1>2, <2>5
      <4>. QED  BY <1>0, <2>5, <4>1, OneOwner DEF Owning
    <3>2. next = "held" /\ observed'[p] = observed[p]
      BY <1>1, <1>2, <2>5, <3>1 DEF Owning, GoTo
    <3>3. Owns(p)
      BY <1>0, <2>5 DEF LockInv, Owning
    <3>4. lockFile'.written <=> phase'[p] # "write"
      BY <1>2, <2>3, <3>2
    <3>5. Same(p)' /\ lockFile'.owner = (Me(p))'
      BY <1>0, <2>2, <3>2, <3>3 DEF Owns, Same, Me
    <3>. QED  BY <3>1, <3>4, <3>5 DEF Owns
  <2>6. ASSUME ~misfired', NEW q \in Procs, phase'[q] \in {"compare", "unlink"}
        PROVE  ~Same(q)'
    <3>1. q # p /\ phase[q] \in {"compare", "unlink"} /\ observed'[q] = observed[q]
      BY <1>2, <2>6
    <3>2. ~Same(q)
      BY <1>0, <2>6, <3>1, OwnedIsNotStale DEF LockInv, Owning
    <3>. QED  BY <2>1, <2>2, <3>1, <3>2 DEF Same
  <2>. QED  BY <2>4, <2>5, <2>6 DEF LockInv
<1>5. CASE ~Same(p) /\ lockFile' = lockFile
  <2>1. misfired
    BY <1>5 DEF LockInv, Owns, Owning
  <2>2. LockTypeOK' /\ OwnerHasLived'
    BY <1>0, <1>2, <1>5 DEF LockInv, LockTypeOK, OwnerHasLived
  <2>. QED  BY <1>0, <2>1, <2>2 DEF LockInv
<1>. QED  BY <1>3, <1>4, <1>5

(* A crash makes a file stale at most, and nobody else's.                  *)
LEMMA CrashStep ==
  ASSUME LockInv, NEW p \in Procs, Crash(p)
  PROVE  LockInv'
<1>0. LockTypeOK /\ "idle" \in LockPhase \ Owning /\ BackTo(p, "idle")
      /\ UNCHANGED <<lockFile, misfired>>
  BY DEF LockInv, Crash, LockPhase, Owning
<1>1. lives' = [lives EXCEPT ![p] = @ + 1] /\ losses' \in [crashes : Nat, faults : Nat]
  BY <1>0 DEF Crash, LockTypeOK
<1>2. /\ lives' \in [Procs -> Nat] /\ lives'[p] = lives[p] + 1 /\ lives[p] \in Nat
      /\ \A q \in Procs \ {p} : lives'[q] = lives[q]
  BY <1>0, <1>1 DEF LockTypeOK
<1>3. LockTypeOK'
  BY <1>0, <1>1, <1>2, TypeStep DEF LockTypeOK
<1>4. \A q \in Procs : lives[q] \in Nat /\ lives[q] <= lives'[q]
  BY <1>0, <1>2 DEF LockTypeOK
<1>5. OwnerHasLived'
  BY <1>0, <1>2, <1>4, FileFacts DEF LockInv, OwnerHasLived
<1>6. ASSUME ~misfired', NEW q \in Procs, phase'[q] \in Owning
      PROVE  Owns(q)'
  <2>1. /\ phase[q] \in Owning /\ (Me(q))' = Me(q)
        /\ observed'[q] = observed[q] /\ phase'[q] = phase[q]
    BY <1>0, <1>2, <1>6, OtherClaims
  <2>2. Owns(q)
    BY <1>0, <1>6, <2>1 DEF LockInv
  <2>. QED  BY <1>0, <2>1, <2>2 DEF Owns, Same
<1>7. ASSUME ~misfired', NEW q \in Procs, phase'[q] \in {"compare", "unlink"}, Same(q)'
      PROVE  Stale(lockFile)'
  <2>1. /\ phase[q] \in {"compare", "unlink"} /\ observed'[q] = observed[q]
    BY <1>0, <1>2, <1>7, OtherClaims
  <2>2. Same(q) /\ Stale(lockFile) /\ lockFile # None
    BY <1>0, <1>7, <2>1 DEF LockInv, Same
  <2>3. lockFile.owner[1] \in Procs /\ lockFile.owner[2] \in Nat
        /\ lockFile.owner[2] <= lives[lockFile.owner[1]]
    BY <1>0, <2>2, FileFacts DEF LockInv, OwnerHasLived
  <2>4. ~Running(lockFile.owner) => ~Running(lockFile.owner)'
    BY <1>0, <1>4, <1>2, <2>3 DEF Running
  <2>5. phase'[lockFile.owner[1]] = "write" => phase[lockFile.owner[1]] = "write"
    BY <1>0, <2>3, TypeStep
  <2>6. Stale(lockFile) => (Stale(lockFile))'
    BY <1>0, <2>4, <2>5, Zenon DEF Stale
  <2>. QED  BY <2>2, <2>6
<1>. QED  BY <1>3, <1>5, <1>6, <1>7 DEF LockInv

(* Every step keeps the invariant: the steps of one process by the lemmas  *)
(* above, a crash by CrashStep, a fault by those of the step it ends.      *)
LEMMA NextInv == LockInv /\ [LockNext]_lock => LockInv'
<1> SUFFICES ASSUME LockInv, [LockNext]_lock
             PROVE  LockInv'
  OBVIOUS
<1>0. LockTypeOK /\ losses \in [crashes : Nat, faults : Nat]
  BY DEF LockInv, LockTypeOK
<1>1. CASE UNCHANGED lock
  BY <1>1 DEF lock, LockInv, LockTypeOK, OwnerHasLived, Owns, Same, Me, Stale, Running
<1>2. CASE LockNext
  <2>1. PICK p \in Procs :
          Want(p) \/ Around(p) \/ Finish(p) \/ FinishByFault(p) \/ Crash(p)
    BY <1>2 DEF LockNext
  <2>2. CASE Want(p)
    BY <1>0, <2>2, MoveOn DEF Want, LockPhase, Owning
  <2>3. CASE Open(p)
    <3>1. CASE lockFile # None /\ GoTo(p, "examine") /\ UNCHANGED lockFile
      BY <1>0, <2>3, <3>1, MoveOn DEF Open, LockPhase, Owning
    <3>2. CASE lockFile = None
      <4>1. PICK ino \in Inodes :
              /\ Fresh(ino)
              /\ lockFile' = [ino |-> ino, owner |-> Me(p), written |-> FALSE]
              /\ observed' = [observed EXCEPT ![p] = ino]
        BY <2>3, <3>2 DEF Open
      <4>2. /\ phase[p] = "open" /\ phase' = [phase EXCEPT ![p] = "write"]
            /\ UNCHANGED <<lives, misfired, losses>>
        BY <2>3, <3>2 DEF Open
      <4>. QED  BY <3>2, <4>1, <4>2, CreationStep
    <3>. QED  BY <2>3, <3>1, <3>2 DEF Open
  <2>4. CASE Examine(p)
    BY <2>4, ExamineStep
  <2>5. CASE CompareStale(p)
    BY <1>0, <2>5, MoveOn DEF CompareStale, LockPhase, Owning
  <2>6. CASE RemoveStale(p)
    BY <2>6, RemovalStep DEF RemoveStale
  <2>7. CASE WritePid(p)
    BY <2>7, PidStep DEF WritePid
  <2>8. CASE FailToWritePid(p)
    <3>1. /\ phase[p] = "write" /\ BackTo(p, "idle") /\ UNCHANGED <<lives, misfired>>
          /\ losses' \in [crashes : Nat, faults : Nat]
      BY <1>0, <2>8 DEF FailToWritePid
    <3>2. CASE UNCHANGED lockFile
      BY <3>1, <3>2, MoveOn DEF LockPhase, Owning
    <3>3. CASE Same(p) /\ lockFile' = [lockFile EXCEPT !.written = TRUE]
      BY <3>1, <3>3, PidStep
    <3>. QED  BY <2>8, <3>2, <3>3 DEF FailToWritePid
  <2>9. CASE CompareOwn(p)
    BY <1>0, <2>9, MoveOn DEF CompareOwn, LockPhase, Owning
  <2>10. CASE RemoveOwn(p)
    BY <2>10, RemovalStep DEF RemoveOwn
  <2>11. CASE Finish(p) \/ FinishByFault(p)
    <3>1. Leave(p) /\ losses' \in [crashes : Nat, faults : Nat]
      BY <1>0, <2>11 DEF Finish, FinishByFault
    <3>. QED  BY <3>1, MoveOn DEF Leave, LockPhase, Owning
  <2>12. CASE Crash(p)
    BY <2>12, CrashStep
  <2>. QED  BY <2>1, <2>2, <2>3, <2>4, <2>5, <2>6, <2>7, <2>8, <2>9, <2>10, <2>11,
               <2>12 DEF Around
<1>. QED  BY <1>1, <1>2

(* Every variable of the lock has its type, and LockInv holds throughout.  *)
THEOREM LockInvariant == LockSpec => []LockInv
BY InitInv, NextInv, PTL DEF LockSpec

(* At most one process works on a manifest at a time, however many have    *)
(* died and however many stale locks were removed, unless an unlink has    *)
(* hit a file that was created between the comparison and the unlink.      *)
THEOREM LockExclusion == LockSpec => []Exclusion
BY LockInvariant, InvExcludes, PTL

(***************************************************************************)
(* The store under the lock.                                               *)
(***************************************************************************)

(* A call has its six parts, whatever they are.                            *)
IsCall(c) ==
  c \in [req : {c.req}, stage : {c.stage}, first : {c.first}, second : {c.second},
         record : {c.record}, doomed : {c.doomed}]

(* A writer has a manifest to install.                                     *)
Carries(c) == c.stage \in {"facts", "install", "rename"} => c.second \in Manifest

CallShape ==
  /\ call = [p \in Procs |-> call[p]]
  /\ \A p \in Procs :
       IsCall(call[p]) /\ call[p].req \in Requests \union {None} /\ Carries(call[p])

Queueing == {"open", "examine", "compare", "unlink", "write"}

(* A process that waits for the lock or holds it has a call.               *)
HasCall ==
  \A p \in Procs :
    /\ phase[p] \in Queueing => call[p].stage = "start" /\ call[p].req # None
    /\ phase[p] = "held" => call[p].stage # "none" /\ call[p].req # None

(* What a checkpoint is to install for one row.                            *)
OneRow(old, new, req) ==
  /\ req.to \in allowedTransitions(old.rows[req.row])
  /\ new.rows = [old.rows EXCEPT ![req.row] = req.to]

(* The manifest a writer is to replace, and what it is to replace it with. *)
WriterOK(p) ==
  LET c == call[p] IN
  c.stage \in {"facts", "install", "rename"} =>
    /\ c.req.op \in {"create", "checkpoint", "swap"}
    /\ IF c.req.op = "create"
       THEN /\ manifest = None
            /\ c.second.birth = made.births + 1 /\ c.second.version = 1
            /\ c.second.rows = [r \in Rows |-> "planned"]
       ELSE /\ manifest # None
            /\ manifest.version = c.req.expects
            /\ c.second.version = manifest.version + 1
            /\ c.second.birth = manifest.birth
            /\ c.req.op = "checkpoint" => OneRow(manifest, c.second, c.req)

MadeType == [files : Nat, births : Nat, calls : Nat]

WriteInv ==
  /\ LockInv
  /\ manifest \in Manifest \union {None}
  /\ made \in MadeType
  /\ CallShape
  /\ HasCall
  /\ ~misfired => \A p \in Procs : phase[p] = "held" => WriterOK(p)

(***************************************************************************)
(* The store moves its lock as ManifestLock does.                          *)
(***************************************************************************)
LEMMA StepMovesLock ==
  ASSUME NEW p \in Procs, Step(p)
  PROVE  [LockNext]_lock
<1>1. CASE Queue(p)
  BY <1>1 DEF Queue, LockNext
<1>2. CASE Die(p)
  BY <1>2 DEF Die, LockNext
<1>3. CASE Fail(p)
  BY <1>3 DEF Fail, LockNext
<1>4. Finish(p) => LockNext
  BY DEF LockNext
<1>5. CASE CreateReads(p) \/ CheckpointReads(p) \/ SwapReads(p) \/ SwapTakesFacts(p)
           \/ CompareFile(p) \/ Rename(p) \/ DiscardManifest(p) \/ DiscardRest(p)
  BY <1>4, <1>5 DEF CreateReads, CheckpointReads, SwapReads, SwapTakesFacts,
    CompareFile, Rename, DiscardManifest, DiscardRest, Continue, Return
<1>6. CASE Refuse(p) \/ QuarantineReads(p) \/ KeepConflicts(p) \/ AppendRecord(p)
           \/ CompactLog(p) \/ CompactSidecars(p) \/ RepairTail(p) \/ RepairSidecars(p)
  BY <1>4, <1>6 DEF Refuse, QuarantineReads, KeepConflicts, AppendRecord,
    CompactLog, CompactSidecars, RepairTail, RepairSidecars, Continue, Return
<1>7. CASE LoadSummary(p) \/ LoadRows(p) \/ LoadAgain(p) \/ LoadReturns(p)
  BY <1>7 DEF LoadSummary, LoadRows, LoadAgain, LoadReturns, Continue
<1>. QED  BY <1>1, <1>2, <1>3, <1>5, <1>6, <1>7 DEF Step

(* Every operation of the store moves the lock by one of its own steps or  *)
(* does not touch it.                                                      *)
LEMMA NextMovesLock == [Next]_vars => [LockNext]_lock
<1>1. CASE UNCHANGED vars
  BY <1>1 DEF vars
<1>2. ASSUME NEW p \in Procs, NEW request \in Requests, Invoke(p, request)
      PROVE  [LockNext]_lock
  BY <1>2 DEF Invoke, LockNext
<1>. QED  BY <1>1, <1>2, StepMovesLock DEF Next

(* The lock of the store is the lock of ManifestLock.                      *)
THEOREM StoreHasLock == Spec => LockSpec
<1>1. Init => LockInit
  BY DEF Init
<1>. QED  BY <1>1, NextMovesLock, PTL DEF Spec, LockSpec

(* Two processes never work on one manifest at a time, whatever operations *)
(* they are in, unless an unlink of a lock file has misfired.              *)
THEOREM StoreExclusion == Spec => []Exclusion
BY StoreHasLock, LockExclusion, PTL

(***************************************************************************)
(* Values.                                                                 *)
(***************************************************************************)
LEMMA NoCallShape ==
  IsCall(NoCall) /\ Carries(NoCall) /\ NoCall.req = None /\ NoCall.stage = "none"
BY DEF NoCall, IsCall, Carries

LEMMA CallUpdate ==
  ASSUME CallShape, NEW p \in Procs, NEW c, IsCall(c), Carries(c),
         c.req \in Requests \union {None}, call' = [call EXCEPT ![p] = c]
  PROVE  /\ CallShape'
         /\ call'[p] = c
         /\ \A q \in Procs \ {p} : call'[q] = call[q]
<1>1. call' = [q \in Procs |-> IF q = p THEN c ELSE call[q]]
  BY DEF CallShape
<1>. QED  BY <1>1 DEF CallShape

(* The parts of a call after a step to another stage.                      *)
LEMMA ToStage ==
  ASSUME NEW c, IsCall(c), NEW s
  PROVE  LET n == [c EXCEPT !.stage = s] IN
         /\ IsCall(n) /\ n.req = c.req /\ n.stage = s /\ n.second = c.second
BY DEF IsCall

LEMMA WithDoomed ==
  ASSUME NEW c, IsCall(c), NEW d
  PROVE  LET n == [c EXCEPT !.doomed = d] IN
         /\ IsCall(n) /\ n.req = c.req /\ n.stage = c.stage
BY DEF IsCall

LEMMA RequestFacts ==
  ASSUME NEW req \in Requests
  PROVE  /\ req # None
         /\ req.op = "checkpoint" => req.row \in Rows /\ req.to \in ImportCheckpoint
         /\ req.op = "swap" => req.to \in ImportCheckpoint
BY StoreAssumption DEF Request

LEMMA NextVersionFacts ==
  ASSUME manifest \in Manifest, NEW rows \in [Rows -> ImportCheckpoint]
  PROVE  /\ NextVersion(rows) \in Manifest
         /\ NextVersion(rows).version = manifest.version + 1
         /\ NextVersion(rows).birth = manifest.birth
         /\ NextVersion(rows).rows = rows
<1>1. \A v \in Nat : [manifest EXCEPT !.version = v, !.rows = rows] \in Manifest
  BY DEF Manifest
<1>2. manifest.version + 1 \in Nat
  BY DEF Manifest
<1>. QED  BY <1>1, <1>2 DEF NextVersion, Manifest

LEMMA FirstVersionFacts ==
  ASSUME made \in MadeType
  PROVE  /\ FirstVersion \in Manifest
         /\ FirstVersion.birth = made.births + 1 /\ FirstVersion.version = 1
         /\ FirstVersion.rows = [r \in Rows |-> "planned"]
BY DEF FirstVersion, Manifest, MadeType, ImportCheckpoint

(***************************************************************************)
(* Steps.                                                                  *)
(***************************************************************************)
(* A step of one process keeps what WriteInv says of the others: either    *)
(* the manifest stays, or nobody else works under the lock.                *)
LEMMA OwnStep ==
  ASSUME WriteInv, LockInv', NEW p \in Procs,
         manifest' \in Manifest \union {None}, made' \in MadeType, CallShape',
         \A q \in Procs \ {p} : call'[q] = call[q] /\ phase'[q] = phase[q],
         (manifest' = manifest /\ made'.births = made.births) \/ phase[p] = "held",
         ~misfired' => ~misfired,
         phase'[p] \in Queueing => call'[p].stage = "start" /\ call'[p].req # None,
         phase'[p] = "held" => call'[p].stage # "none" /\ call'[p].req # None,
         ~misfired' /\ phase'[p] = "held" => WriterOK(p)'
  PROVE  WriteInv'
<1>1. HasCall'
  BY DEF WriteInv, HasCall
<1>2. ASSUME ~misfired', NEW q \in Procs \ {p}, phase'[q] = "held"
      PROVE  WriterOK(q)'
  <2>1. phase[q] = "held" /\ call'[q] = call[q] /\ WriterOK(q)
    BY <1>2 DEF WriteInv
  <2>2. phase[p] # "held"
    BY <1>2, <2>1, OneOwner DEF WriteInv, Owning
  <2>3. manifest' = manifest /\ made'.births = made.births
    BY <2>2
  <2>. QED  BY <2>1, <2>3 DEF WriterOK, OneRow
<1>. QED  BY <1>1, <1>2 DEF WriteInv

(* Where a step of the lock takes a process.                               *)
LEMMA PhaseStep ==
  ASSUME LockTypeOK, NEW p \in Procs, NEW next, GoTo(p, next) \/ BackTo(p, next)
  PROVE  phase'[p] = next /\ \A q \in Procs \ {p} : phase'[q] = phase[q]
BY DEF LockTypeOK, GoTo, BackTo

LEMMA ReturnStep ==
  ASSUME WriteInv, LockInv', NEW p \in Procs,
         Finish(p) \/ FinishByFault(p) \/ Crash(p), call' = [call EXCEPT ![p] = NoCall],
         manifest' \in Manifest \union {None}, made' \in MadeType,
         (manifest' = manifest /\ made'.births = made.births) \/ phase[p] = "held"
  PROVE  WriteInv'
<1>1. PICK next \in {"release", "idle"} : GoTo(p, next) \/ BackTo(p, next)
  BY DEF Finish, FinishByFault, Crash, Leave
<1>2. phase'[p] \in {"release", "idle"} /\ \A q \in Procs \ {p} : phase'[q] = phase[q]
  BY <1>1, PhaseStep DEF WriteInv, LockInv
<1>3. CallShape' /\ \A q \in Procs \ {p} : call'[q] = call[q]
  BY CallUpdate, NoCallShape DEF WriteInv
<1>4. misfired' = misfired
  BY DEF Finish, FinishByFault, Crash, Leave
<1>. QED  BY <1>2, <1>3, <1>4, OwnStep DEF Queueing

LEMMA ContinueStep ==
  ASSUME WriteInv, LockInv', NEW p \in Procs, NEW c, Continue(p, c),
         IsCall(c), Carries(c), c.req \in Requests \union {None}, made' \in MadeType,
         manifest' \in Manifest \union {None},
         (manifest' = manifest /\ made'.births = made.births) \/ phase[p] = "held",
         phase[p] \notin Queueing,
         phase[p] = "held" => c.stage # "none" /\ c.req # None,
         ~misfired /\ phase[p] = "held" /\ call'[p] = c => WriterOK(p)'
  PROVE  WriteInv'
<1>1. phase' = phase /\ misfired' = misfired
  BY DEF Continue, lock
<1>2. CallShape' /\ call'[p] = c /\ \A q \in Procs \ {p} : call'[q] = call[q]
  BY CallUpdate DEF WriteInv, Continue
<1>. QED  BY <1>1, <1>2, OwnStep

(* The steps that write no manifest and prepare none.                      *)
LEMMA OtherSteps ==
  ASSUME WriteInv, LockInv', NEW p \in Procs,
         \/ Refuse(p) \/ Fail(p) \/ Die(p) \/ DiscardRest(p)
         \/ QuarantineReads(p) \/ KeepConflicts(p) \/ AppendRecord(p)
         \/ CompactLog(p) \/ CompactSidecars(p) \/ RepairTail(p) \/ RepairSidecars(p)
         \/ LoadSummary(p) \/ LoadRows(p) \/ LoadAgain(p) \/ LoadReturns(p)
  PROVE  WriteInv'
<1>0. /\ manifest \in Manifest \union {None} /\ made \in MadeType
      /\ IsCall(call[p]) /\ call[p].req \in Requests \union {None}
      /\ phase[p] = "held" => call[p].req # None
  BY DEF WriteInv, CallShape, HasCall
<1>1. manifest' = manifest /\ made' = made
  BY DEF Refuse, Fail, Die, TornTail, DiscardRest, QuarantineReads, KeepConflicts,
    AppendRecord, CompactLog, CompactSidecars, RepairTail, RepairSidecars,
    LoadSummary, LoadRows, LoadAgain, LoadReturns, store
<1>2. CASE Fail(p) \/ Die(p)
  BY <1>0, <1>1, <1>2, ReturnStep DEF Fail, Die
<1>3. CASE Return(p)
  BY <1>0, <1>1, <1>3, ReturnStep DEF Return
<1>4. ASSUME NEW c, Continue(p, c), IsCall(c), c.req \in {call[p].req, None},
             c.stage \notin {"facts", "install", "rename"},
             \/ phase[p] = "idle"
             \/ phase[p] = "held" /\ c.stage # "none" /\ c.req = call[p].req
      PROVE  WriteInv'
  <2>1. Carries(c) /\ (call'[p] = c => WriterOK(p)')
    BY <1>4 DEF WriterOK, Carries
  <2>. QED  BY <1>0, <1>1, <1>4, <2>1, ContinueStep DEF Queueing
<1>5. CASE UNCHANGED <<lock, call>>
  <2>1. UNCHANGED <<phase, misfired, call>>
    BY <1>5 DEF lock
  <2>2. CallShape' /\ HasCall'
    BY <2>1 DEF WriteInv, CallShape, HasCall
  <2>. QED  BY <1>0, <1>1, <2>1, <2>2 DEF WriteInv, WriterOK, OneRow
<1>6. CASE DiscardRest(p)
  BY <1>3, <1>5, <1>6 DEF DiscardRest
<1>7. CASE QuarantineReads(p)
  <2>1. CASE Continue(p, [call[p] EXCEPT !.stage = "sidecar", !.record = RecordFor(call[p].req)])
    <3> DEFINE n == [call[p] EXCEPT !.stage = "sidecar", !.record = RecordFor(call[p].req)]
    <3>1. IsCall(n) /\ n.req = call[p].req /\ n.stage = "sidecar"
      BY <1>0 DEF IsCall
    <3>2. Continue(p, n)
      BY <2>1
    <3>3. phase[p] \in {"idle", "held"}
      BY <1>7 DEF QuarantineReads, At
    <3> HIDE DEF n
    <3>. QED  BY <1>4, <3>1, <3>2, <3>3
  <2>. QED  BY <1>3, <1>7, <2>1 DEF QuarantineReads
<1>8. CASE KeepConflicts(p)
  BY <1>0, <1>4, <1>8, ToStage DEF KeepConflicts, At
<1>9. CASE AppendRecord(p) \/ RepairSidecars(p) \/ Refuse(p)
  BY <1>3, <1>9 DEF AppendRecord, RepairSidecars, Refuse
<1>10. CASE CompactLog(p)
  <2>1. ASSUME NEW d, Continue(p, [call[p] EXCEPT !.stage = "unlink", !.doomed = d])
        PROVE  WriteInv'
    <3> DEFINE n == [call[p] EXCEPT !.stage = "unlink", !.doomed = d]
    <3>1. IsCall(n) /\ n.req = call[p].req /\ n.stage = "unlink"
      BY <1>0 DEF IsCall
    <3>2. Continue(p, n)
      BY <2>1
    <3>3. phase[p] \in {"idle", "held"}
      BY <1>10 DEF CompactLog, At
    <3> HIDE DEF n
    <3>. QED  BY <1>4, <3>1, <3>2, <3>3
  <2>. QED  BY <1>3, <1>10, <2>1 DEF CompactLog
<1>11. CASE CompactSidecars(p)
  <2>1. ASSUME NEW d, Continue(p, [call[p] EXCEPT !.doomed = d])
        PROVE  WriteInv'
    <3>1. call[p].stage = "unlink" /\ phase[p] \in {"idle", "held"}
      BY <1>11 DEF CompactSidecars, At
    <3>. QED  BY <1>0, <1>4, <2>1, <3>1, WithDoomed
  <2>. QED  BY <1>3, <1>11, <2>1 DEF CompactSidecars
<1>12. CASE RepairTail(p)
  <2>1. CASE Continue(p, [call[p] EXCEPT !.stage = "tidy"])
    BY <1>0, <1>4, <1>12, <2>1, ToStage DEF RepairTail, At
  <2>. QED  BY <1>3, <1>12, <2>1 DEF RepairTail
<1>13. CASE LoadSummary(p) \/ LoadRows(p) \/ LoadAgain(p) \/ LoadReturns(p)
  <2>1. phase[p] = "idle"
    BY <1>13 DEF LoadSummary, LoadRows, LoadAgain, LoadReturns, At
  <2>2. CASE Continue(p, NoCall)
    BY <1>4, <2>1, <2>2, NoCallShape
  <2>3. CASE Continue(p, [call[p] EXCEPT !.stage = "rows", !.first = manifest])
    <3> DEFINE n == [call[p] EXCEPT !.stage = "rows", !.first = manifest]
    <3>1. IsCall(n) /\ n.req = call[p].req /\ n.stage = "rows"
      BY <1>0 DEF IsCall
    <3>2. Continue(p, n)
      BY <2>3
    <3> HIDE DEF n
    <3>. QED  BY <1>4, <2>1, <3>1, <3>2
  <2>4. CASE Continue(p, [call[p] EXCEPT !.stage = "again", !.second = manifest])
    <3> DEFINE n == [call[p] EXCEPT !.stage = "again", !.second = manifest]
    <3>1. IsCall(n) /\ n.req = call[p].req /\ n.stage = "again"
      BY <1>0 DEF IsCall
    <3>2. Continue(p, n)
      BY <2>4
    <3> HIDE DEF n
    <3>. QED  BY <1>4, <2>1, <3>1, <3>2
  <2>5. CASE Continue(p, [call[p] EXCEPT !.stage = "loaded"])
    BY <1>0, <1>4, <2>1, <2>5, ToStage
  <2>. QED  BY <1>13, <2>2, <2>3, <2>4, <2>5
            DEF LoadSummary, LoadRows, LoadAgain, LoadReturns
<1>. QED  BY <1>2, <1>6, <1>7, <1>8, <1>9, <1>10, <1>11, <1>12, <1>13

(* The steps of the lock take a call along until it holds the lock.        *)
LEMMA QueueStep ==
  ASSUME WriteInv, LockInv', NEW p \in Procs, Queue(p)
  PROVE  WriteInv'
<1>0. /\ manifest' \in Manifest \union {None} /\ made' \in MadeType
      /\ manifest' = manifest /\ made' = made /\ LockTypeOK /\ CallShape /\ HasCall
  BY DEF WriteInv, LockInv, Queue, store
<1>1. PICK next \in {"idle", "remove"} \union Queueing \union {"held"} :
        /\ \/ GoTo(p, next) \/ BackTo(p, next)
           \/ \E ino \in Inodes : /\ phase' = [phase EXCEPT ![p] = next]
                                  /\ observed' = [observed EXCEPT ![p] = ino]
        /\ next \in Queueing \union {"held"} => phase[p] \in Queueing
  <2>1. CASE Open(p)
    BY <2>1 DEF Open, Queueing
  <2>2. CASE Examine(p)
    <3>1. phase[p] = "examine" /\ (lockFile # None => lockFile.ino \in Inodes)
      BY <1>0, <2>2, FileFacts DEF Examine
    <3>. QED  BY <2>2, <3>1 DEF Examine, Queueing
  <2>3. CASE CompareStale(p) \/ RemoveStale(p)
    BY <2>3 DEF CompareStale, RemoveStale, Unlink, Queueing
  <2>4. CASE WritePid(p) \/ FailToWritePid(p)
    BY <2>4 DEF WritePid, FailToWritePid, Queueing
  <2>5. CASE CompareOwn(p) \/ RemoveOwn(p)
    BY <2>5 DEF CompareOwn, RemoveOwn, Unlink, Queueing
  <2>. QED  BY <2>1, <2>2, <2>3, <2>4, <2>5 DEF Queue, Around
<1>2. phase'[p] = next /\ \A q \in Procs \ {p} : phase'[q] = phase[q]
  BY <1>0, <1>1, TypeStep DEF LockPhase, Queueing
<1>3. ~misfired' => ~misfired
  BY Zenon DEF Queue, Around, Open, Examine, CompareStale, RemoveStale, WritePid,
    FailToWritePid, CompareOwn, RemoveOwn, Unlink
<1>4. /\ CallShape' /\ \A q \in Procs \ {p} : call'[q] = call[q]
      /\ next # "idle" => call' = call
  BY <1>0, <1>2, CallUpdate, NoCallShape DEF Queue, CallShape
<1>5. next \in Queueing \union {"held"} =>
        call'[p].stage = "start" /\ call'[p].req # None
  BY <1>0, <1>1, <1>4 DEF HasCall, Queueing
<1>6. phase'[p] = "held" => WriterOK(p)'
  BY <1>2, <1>5 DEF WriterOK
<1>. QED  BY <1>0, <1>2, <1>3, <1>4, <1>5, <1>6, OwnStep DEF Queueing

LEMMA InvokeStep ==
  ASSUME WriteInv, LockInv', NEW p \in Procs, NEW request \in Requests, Invoke(p, request)
  PROVE  WriteInv'
<1>0. /\ manifest \in Manifest \union {None} /\ manifest' = manifest
      /\ LockTypeOK /\ CallShape /\ made \in MadeType
  BY DEF WriteInv, LockInv, Invoke, store
<1>1. made' \in MadeType /\ made'.births = made.births
  BY <1>0 DEF Invoke, MadeType
<1> DEFINE n == [NoCall EXCEPT !.req = request, !.stage = "start"]
<1>2. IsCall(n) /\ Carries(n) /\ n.req = request /\ n.stage = "start"
  BY DEF NoCall, IsCall, Carries
<1>3. call' = [call EXCEPT ![p] = n] /\ request # None /\ phase[p] = "idle"
  BY RequestFacts DEF Invoke
<1> HIDE DEF n
<1>4. CallShape' /\ call'[p] = n /\ \A q \in Procs \ {p} : call'[q] = call[q]
  BY <1>0, <1>2, <1>3, CallUpdate
<1>5. /\ phase'[p] \in {"idle", "open"} /\ \A q \in Procs \ {p} : phase'[q] = phase[q]
      /\ misfired' = misfired
  <2>1. CASE UNCHANGED lock
    BY <1>3, <2>1 DEF lock
  <2>2. CASE Want(p)
    BY <1>0, <2>2, PhaseStep DEF Want
  <2>. QED  BY <2>1, <2>2 DEF Invoke
<1>. QED  BY <1>0, <1>1, <1>2, <1>3, <1>4, <1>5, OwnStep

(* What a process that has read the manifest is to install.                *)
LEMMA ReadSteps ==
  ASSUME WriteInv, LockInv', NEW p \in Procs,
         CreateReads(p) \/ CheckpointReads(p) \/ SwapReads(p) \/ SwapTakesFacts(p)
           \/ CompareFile(p)
  PROVE  WriteInv'
<1>0. /\ manifest \in Manifest \union {None} /\ made \in MadeType
      /\ IsCall(call[p]) /\ call[p].req \in Requests \union {None}
  BY DEF WriteInv, CallShape
<1>1. manifest' = manifest /\ made' = made
  BY DEF CreateReads, CheckpointReads, SwapReads, SwapTakesFacts, CompareFile, store
<1>2. CASE Return(p)
  BY <1>0, <1>1, <1>2, ReturnStep DEF Return
<1>3. phase[p] = "held" /\ call[p].req # None /\ call[p].req \in Requests
  <2>1. phase[p] = "held"
    BY DEF CreateReads, CheckpointReads, SwapReads, SwapTakesFacts, CompareFile, At
  <2>. QED  BY <1>0, <2>1 DEF WriteInv, HasCall
<1>4. ASSUME NEW n, Continue(p, n), IsCall(n), n.req = call[p].req, n.stage # "none",
             n.second \in Manifest, ~misfired /\ call'[p] = n => WriterOK(p)'
      PROVE  WriteInv'
  <2>1. Carries(n)
    BY <1>4 DEF Carries
  <2>. QED  BY <1>0, <1>1, <1>3, <1>4, <2>1, ContinueStep DEF Queueing
<1>5. ASSUME CreateReads(p), manifest = None
      PROVE  WriteInv'
  <2> DEFINE n == [call[p] EXCEPT !.stage = "install", !.second = FirstVersion]
  <2>1. IsCall(n) /\ n.req = call[p].req /\ n.stage = "install"
        /\ n.second = FirstVersion
    BY <1>0 DEF IsCall
  <2>2. Continue(p, n) /\ call[p].req.op = "create"
    BY <1>5 DEF CreateReads, At
  <2> HIDE DEF n
  <2>3. call'[p] = n => WriterOK(p)'
    BY <1>0, <1>1, <1>5, <2>1, <2>2, FirstVersionFacts DEF WriterOK
  <2>. QED  BY <1>0, <1>4, <2>1, <2>2, <2>3, FirstVersionFacts
<1>6. ASSUME CheckpointReads(p),
             call[p].req.to \in allowedTransitions(manifest.rows[call[p].req.row])
      PROVE  WriteInv'
  <2> DEFINE rows == [manifest.rows EXCEPT ![call[p].req.row] = call[p].req.to]
             n == [call[p] EXCEPT !.stage = "install", !.first = manifest,
                     !.second = NextVersion(rows)]
  <2>1. IsCall(n) /\ n.req = call[p].req /\ n.stage = "install"
        /\ n.second = NextVersion(rows)
    BY <1>0 DEF IsCall
  <2>2. Continue(p, n) /\ call[p].req.op = "checkpoint" /\ Expected(p)
    BY <1>6 DEF CheckpointReads, At
  <2>3. manifest \in Manifest /\ manifest # None
        /\ manifest.version = call[p].req.expects
    BY <1>0, <2>2 DEF Expected
  <2>4. rows \in [Rows -> ImportCheckpoint]
    BY <1>3, <2>2, <2>3, RequestFacts DEF Manifest
  <2>5. OneRow(manifest, NextVersion(rows), call[p].req)
    BY <1>6, <2>3, <2>4, NextVersionFacts DEF OneRow
  <2> HIDE DEF n, rows
  <2>6. call'[p] = n => WriterOK(p)'
    BY <1>1, <2>1, <2>2, <2>3, <2>4, <2>5, NextVersionFacts DEF WriterOK
  <2>. QED  BY <1>4, <2>1, <2>2, <2>3, <2>4, <2>6, NextVersionFacts
<1>7. ASSUME SwapReads(p)
      PROVE  WriteInv'
  <2> DEFINE rows == [r \in Rows |-> call[p].req.to]
             n == [call[p] EXCEPT !.stage = "facts", !.second = NextVersion(rows)]
  <2>1. IsCall(n) /\ n.req = call[p].req /\ n.stage = "facts"
        /\ n.second = NextVersion(rows)
    BY <1>0 DEF IsCall
  <2>2. Continue(p, n) /\ call[p].req.op = "swap" /\ Expected(p)
    BY <1>7 DEF SwapReads, At
  <2>3. manifest \in Manifest /\ manifest # None
        /\ manifest.version = call[p].req.expects
    BY <1>0, <2>2 DEF Expected
  <2>4. rows \in [Rows -> ImportCheckpoint]
    BY <1>3, <2>2, RequestFacts
  <2> HIDE DEF n, rows
  <2>5. call'[p] = n => WriterOK(p)'
    BY <1>1, <2>1, <2>2, <2>3, <2>4, NextVersionFacts DEF WriterOK
  <2>. QED  BY <1>4, <2>1, <2>2, <2>3, <2>4, <2>5, NextVersionFacts
<1>8. ASSUME SwapTakesFacts(p), manifest # None
      PROVE  WriteInv'
  <2> DEFINE n == [call[p] EXCEPT !.stage = "install", !.first = manifest]
  <2>1. IsCall(n) /\ n.req = call[p].req /\ n.stage = "install"
        /\ n.second = call[p].second
    BY <1>0 DEF IsCall
  <2>2. Continue(p, n) /\ call[p].stage = "facts"
    BY <1>8 DEF SwapTakesFacts, At
  <2> HIDE DEF n
  <2>3. ~misfired /\ call'[p] = n => WriterOK(p)'
    BY <1>1, <1>3, <2>1, <2>2 DEF WriteInv, WriterOK, OneRow
  <2>4. n.second \in Manifest
    BY <2>1, <2>2 DEF WriteInv, CallShape, Carries
  <2>. QED  BY <1>4, <2>1, <2>2, <2>3, <2>4
<1>9. ASSUME CompareFile(p), Unmoved(p)
      PROVE  WriteInv'
  <2> DEFINE n == [call[p] EXCEPT !.stage = "rename"]
  <2>1. IsCall(n) /\ n.req = call[p].req /\ n.stage = "rename"
        /\ n.second = call[p].second
    BY <1>0, ToStage
  <2>2. Continue(p, n) /\ call[p].stage = "install"
    BY <1>9 DEF CompareFile
  <2> HIDE DEF n
  <2>3. ~misfired /\ call'[p] = n => WriterOK(p)'
    BY <1>1, <1>3, <2>1, <2>2 DEF WriteInv, WriterOK, OneRow
  <2>4. n.second \in Manifest
    BY <2>1, <2>2 DEF WriteInv, CallShape, Carries
  <2>. QED  BY <1>4, <2>1, <2>2, <2>3, <2>4
<1>. QED  BY <1>2, <1>5, <1>6, <1>7, <1>8, <1>9
          DEF CreateReads, CheckpointReads, SwapTakesFacts, CompareFile

LEMMA WriteSteps ==
  ASSUME WriteInv, LockInv', NEW p \in Procs, Rename(p) \/ DiscardManifest(p)
  PROVE  WriteInv'
<1>0. /\ made \in MadeType /\ IsCall(call[p]) /\ call[p].req \in Requests \union {None}
      /\ phase[p] = "held" /\ call[p].req # None
  <2>1. phase[p] = "held"
    BY DEF Rename, DiscardManifest, At
  <2>. QED  BY <2>1 DEF WriteInv, CallShape, HasCall
<1>1. CASE Rename(p)
  <2>1. made.files + 1 \in Nat
    BY <1>0 DEF MadeType
  <2>2. call[p].second \in Manifest
    BY <1>1 DEF Rename, WriteInv, CallShape, Carries
  <2>3. manifest' \in Manifest
    BY <1>1, <2>1, <2>2 DEF Rename, Manifest
  <2>4. made' \in MadeType
    <3>1. \A f, b \in Nat : [made EXCEPT !.files = f, !.births = b] \in MadeType
      BY <1>0 DEF MadeType
    <3>2. made.births \in Nat /\ made.births + 1 \in Nat
      BY <1>0 DEF MadeType
    <3>. QED  BY <1>1, <2>1, <3>1, <3>2 DEF Rename
  <2>. QED  BY <1>0, <1>1, <2>3, <2>4, ReturnStep DEF Rename, Return
<1>2. CASE DiscardManifest(p)
  <2> DEFINE n == [call[p] EXCEPT !.stage = "sweep"]
  <2>1. IsCall(n) /\ n.req = call[p].req /\ n.stage = "sweep" /\ Carries(n)
    BY <1>0, ToStage DEF Carries
  <2>2. Continue(p, n) /\ manifest' = None /\ made' = made
    BY <1>2 DEF DiscardManifest
  <2> HIDE DEF n
  <2>3. call'[p] = n => WriterOK(p)'
    BY <2>1 DEF WriterOK
  <2>. QED  BY <1>0, <2>1, <2>2, <2>3, ContinueStep DEF Queueing
<1>. QED  BY <1>1, <1>2

LEMMA InitWriteInv == Init => WriteInv
<1> SUFFICES ASSUME Init PROVE WriteInv
  OBVIOUS
<1>1. LockInv
  BY InitInv DEF Init
<1>2. \A p \in Procs : phase[p] = "idle"
  BY DEF Init, LockInit
<1>3. /\ call = [p \in Procs |-> NoCall] /\ manifest = None
      /\ made = [files |-> 0, births |-> 0, calls |-> 0]
  BY DEF Init
<1>. QED  BY <1>1, <1>2, <1>3, NoCallShape DEF WriteInv, CallShape, HasCall, MadeType, Queueing

(* WriteInv is kept by every step of every operation.                      *)
LEMMA NextWriteInv == WriteInv /\ [Next]_vars => WriteInv'
<1> SUFFICES ASSUME WriteInv, [Next]_vars
             PROVE  WriteInv'
  OBVIOUS
<1>1. LockInv'
  BY NextMovesLock, NextInv DEF WriteInv
<1>2. CASE UNCHANGED vars
  <2>1. UNCHANGED <<phase, misfired, manifest, call, made>>
    BY <1>2 DEF vars, lock, store
  <2>2. CallShape' /\ HasCall'
    BY <2>1 DEF WriteInv, CallShape, HasCall
  <2>. QED  BY <1>1, <2>1, <2>2 DEF WriteInv, WriterOK, OneRow
<1>3. ASSUME NEW p \in Procs, Step(p)
      PROVE  WriteInv'
  BY <1>1, <1>3, OtherSteps, QueueStep, ReadSteps, WriteSteps DEF Step
<1>4. ASSUME NEW p \in Procs, NEW request \in Requests, Invoke(p, request)
      PROVE  WriteInv'
  BY <1>1, <1>4, InvokeStep
<1>. QED  BY <1>2, <1>3, <1>4 DEF Next

(***************************************************************************)
(* No update is lost.                                                      *)
(***************************************************************************)
(* Only a rename and a discard change the manifest.                        *)
LEMMA WhoWrites ==
  ASSUME [Next]_vars, manifest' # manifest
  PROVE  \E p \in Procs : Rename(p) \/ DiscardManifest(p)
<1>1. ~UNCHANGED vars
  BY DEF vars, store
<1>2. PICK p \in Procs : Step(p) \/ \E request \in Requests : Invoke(p, request)
  BY <1>1 DEF Next
<1>. QED  BY <1>2 DEF Step, Invoke, Refuse, Fail, Queue, Die, TornTail, CreateReads,
  CheckpointReads, SwapReads, SwapTakesFacts, CompareFile, DiscardRest, QuarantineReads,
  KeepConflicts, AppendRecord, CompactLog, CompactSidecars, RepairTail, RepairSidecars,
  LoadSummary, LoadRows, LoadAgain, LoadReturns, store

LEMMA FinalRows ==
  ASSUME NEW x \in ImportCheckpoint, NEW to \in allowedTransitions(x)
  PROVE  x \notin {"complete", "conflict"}
BY DEF allowedTransitions

(* A step that changes the manifest while no unlink has misfired is by a   *)
(* caller that expected its version, and installs the next one.            *)
LEMMA WriteIsExpected ==
  ASSUME WriteInv, ~misfired, manifest # None, NEW p \in Procs,
         Rename(p) \/ DiscardManifest(p)
  PROVE  ByExpectation /\ OneVersionOn
<1>0. /\ IsCall(call[p]) /\ call[p].req \in Requests /\ phase[p] = "held"
      /\ manifest \in Manifest
  <2>1. phase[p] = "held"
    BY DEF Rename, DiscardManifest, At
  <2>. QED  BY <2>1 DEF WriteInv, CallShape, HasCall
<1>1. CASE Rename(p)
  <2>1. /\ call[p].stage = "rename" /\ call'[p] # call[p]
        /\ call[p].second \in Manifest
        /\ manifest' = [call[p].second EXCEPT !.ino = made.files + 1]
    <3>1. call' = [call EXCEPT ![p] = NoCall] /\ call[p].stage = "rename"
      BY <1>1 DEF Rename, Return
    <3>2. call'[p] = NoCall
      BY <3>1, NoCallShape, CallUpdate DEF WriteInv
    <3>. QED  BY <1>1, <3>1, <3>2, NoCallShape DEF Rename, WriteInv, CallShape, Carries
  <2>2. /\ manifest'.birth = call[p].second.birth
        /\ manifest'.version = call[p].second.version
        /\ manifest'.rows = call[p].second.rows
    BY <2>1 DEF Manifest
  <2>3. /\ call[p].req.op \in {"checkpoint", "swap"}
        /\ manifest.version = call[p].req.expects
        /\ call[p].second.version = manifest.version + 1
        /\ call[p].second.birth = manifest.birth
        /\ call[p].req.op = "checkpoint" => OneRow(manifest, call[p].second, call[p].req)
    BY <1>0, <2>1 DEF WriteInv, WriterOK
  <2>4. ByExpectation
    BY <1>0, <2>1, <2>3 DEF ByExpectation
  <2>5. ASSUME ~Swapping
        PROVE  \E r \in Rows :
                 /\ manifest.rows[r] \notin {"complete", "conflict"}
                 /\ \A s \in Rows \ {r} : manifest'.rows[s] = manifest.rows[s]
    <3>1. call[p].req.op = "checkpoint"
      BY <1>0, <2>1, <2>3, <2>5 DEF Swapping, At
    <3>2. call[p].req.row \in Rows /\ OneRow(manifest, call[p].second, call[p].req)
      BY <1>0, <2>3, <3>1, RequestFacts
    <3>3. manifest.rows \in [Rows -> ImportCheckpoint]
      BY <1>0 DEF Manifest
    <3>4. manifest.rows[call[p].req.row] \notin {"complete", "conflict"}
      BY <3>2, <3>3, FinalRows DEF OneRow
    <3>. QED  BY <2>2, <3>2, <3>3, <3>4 DEF OneRow
  <2>. QED  BY <2>2, <2>3, <2>4, <2>5 DEF OneVersionOn
<1>2. CASE DiscardManifest(p)
  <2>1. /\ call[p].req.op = "discard" /\ call[p].stage = "start" /\ Expected(p)
        /\ manifest' = None /\ call' = [call EXCEPT ![p] = [call[p] EXCEPT !.stage = "sweep"]]
    BY <1>2 DEF DiscardManifest, At, Continue
  <2>2. call'[p].stage = "sweep"
    <3>1. IsCall([call[p] EXCEPT !.stage = "sweep"])
          /\ [call[p] EXCEPT !.stage = "sweep"].stage = "sweep"
          /\ [call[p] EXCEPT !.stage = "sweep"].req = call[p].req
      BY <1>0, ToStage
    <3>. QED  BY <1>0, <2>1, <3>1, CallUpdate DEF WriteInv, Carries
  <2>. QED  BY <1>0, <2>1, <2>2 DEF ByExpectation, OneVersionOn, Expected
<1>. QED  BY <1>1, <1>2

(* Every change of a manifest is made by a process whose caller expected   *)
(* the version it changes, and takes it to the next; a checkpoint changes  *)
(* one row, and none that is complete or in conflict.                      *)
THEOREM StoreLosesNoUpdate == Spec => NoLostUpdate
<1>1. WriteInv /\ [Next]_vars =>
        [~misfired /\ manifest # None => ByExpectation /\ OneVersionOn]_manifest
  BY WhoWrites, WriteIsExpected
<1>2. Spec => []WriteInv
  BY InitWriteInv, NextWriteInv, PTL DEF Spec
<1>3. Spec => [][~misfired /\ manifest # None => ByExpectation /\ OneVersionOn]_manifest
  BY <1>1, <1>2, PTL DEF Spec
<1>. QED  BY <1>3 DEF NoLostUpdate

(***************************************************************************)
(* What a load returns.                                                    *)
(***************************************************************************)
(* A manifest and what the same path may hold later: the same file, a      *)
(* later version of it, a later manifest, or nothing.                      *)
Since(old, now) ==
  now # None =>
    \/ now.birth > old.birth
    \/ now.birth = old.birth /\ (now.version > old.version \/ now = old)

Read(file) == file \in Manifest /\ file.birth <= made.births

LoadOK(p) ==
  LET c == call[p] IN
  /\ Loading(p) => phase[p] = "idle" /\ Read(c.first) /\ Since(c.first, manifest)
  /\ c.stage \in {"again", "loaded"} =>
       Read(c.second) /\ Since(c.first, c.second) /\ Since(c.second, manifest)
  /\ c.stage = "loaded" =>
       c.second = c.first \/ (manifest # None => manifest.birth > c.first.birth)

LoadInv ==
  ~misfired =>
    /\ manifest # None => manifest.birth <= made.births
    /\ \A p \in Procs : LoadOK(p)

(* The kinds of steps: of a writer, of a load, and all others, which leave *)
(* the manifest and the loads alone.                                       *)
Installs == \E p \in Procs : Rename(p) \/ DiscardManifest(p)
Loads == \E p \in Procs :
  LoadSummary(p) \/ LoadRows(p) \/ LoadAgain(p) \/ LoadReturns(p)
Apart(p) ==
  \/ call'[p] = call[p] /\ phase'[p] = phase[p]
  \/ ~Loading(p) /\ ~Loading(p)'
Elsewhere ==
  manifest' = manifest /\ made'.births = made.births /\ \A p \in Procs : Apart(p)

(* A load takes no lock.                                                   *)
PhaseOK == \A p \in Procs : Loading(p) => phase[p] = "idle"

(* A process moves nobody else's phase.                                    *)
LEMMA LockIsOwn ==
  ASSUME LockTypeOK, NEW p \in Procs,
         Want(p) \/ Around(p) \/ Finish(p) \/ FinishByFault(p) \/ Crash(p)
  PROVE  \A q \in Procs \ {p} : phase'[q] = phase[q]
<1>1. \E next : phase' = [phase EXCEPT ![p] = next]
  BY DEF Want, Around, Open, Examine, CompareStale, RemoveStale, WritePid, FailToWritePid,
    CompareOwn, RemoveOwn, Unlink, Finish, FinishByFault, Leave, Crash, GoTo, BackTo
<1>. QED  BY <1>1 DEF LockTypeOK

LEMMA StepIsOwn ==
  ASSUME LockTypeOK, NEW p \in Procs,
         Step(p) \/ \E request \in Requests : Invoke(p, request)
  PROVE  \A q \in Procs \ {p} : phase'[q] = phase[q]
<1>1. CASE UNCHANGED lock
  BY <1>1 DEF lock
<1>2. UNCHANGED lock \/ Want(p) \/ Around(p) \/ Finish(p) \/ FinishByFault(p) \/ Crash(p)
  BY DEF Step, Invoke, Refuse, Fail, Queue, Die, CreateReads, CheckpointReads, SwapReads,
    SwapTakesFacts, CompareFile, Rename, DiscardManifest, DiscardRest, QuarantineReads,
    KeepConflicts, AppendRecord, CompactLog, CompactSidecars, RepairTail, RepairSidecars,
    LoadSummary, LoadRows, LoadAgain, LoadReturns, Continue, Return
<1>. QED  BY <1>1, <1>2, LockIsOwn

LEMMA ApartStep ==
  ASSUME WriteInv, NEW p \in Procs, NEW c, call' = [call EXCEPT ![p] = c],
         \A q \in Procs \ {p} : phase'[q] = phase[q],
         ~Loading(p), c.stage \notin {"rows", "again", "loaded"}
  PROVE  \A q \in Procs : Apart(q)
BY DEF WriteInv, CallShape, Apart, Loading

(* A writer, a waiting process and an idle one without a call are not      *)
(* loading.                                                                *)
LEMMA Busy ==
  ASSUME WriteInv, PhaseOK, NEW p \in Procs, phase[p] # "idle" \/ call[p].stage = "none"
  PROVE  ~Loading(p)
BY DEF PhaseOK, Loading

LEMMA StepIsApart ==
  ASSUME WriteInv, PhaseOK, NEW p \in Procs,
         \/ Refuse(p) \/ Fail(p) \/ Queue(p) \/ Die(p)
         \/ CreateReads(p) \/ CheckpointReads(p) \/ SwapReads(p) \/ SwapTakesFacts(p)
         \/ CompareFile(p) \/ DiscardRest(p)
         \/ QuarantineReads(p) \/ KeepConflicts(p) \/ AppendRecord(p)
         \/ CompactLog(p) \/ CompactSidecars(p) \/ RepairTail(p) \/ RepairSidecars(p)
  PROVE  Elsewhere
<1>0. IsCall(call[p])
  BY DEF WriteInv, CallShape
<1>1. manifest' = manifest /\ made'.births = made.births
  BY DEF Refuse, Fail, Queue, Die, TornTail, CreateReads, CheckpointReads, SwapReads,
    SwapTakesFacts, CompareFile, DiscardRest, QuarantineReads, KeepConflicts,
    AppendRecord, CompactLog, CompactSidecars, RepairTail, RepairSidecars, store
<1>2. phase[p] # "idle"
  <2>1. CASE Queue(p)
    BY <2>1 DEF Queue, Around, Open, Examine, CompareStale, RemoveStale, WritePid,
      FailToWritePid, CompareOwn, RemoveOwn
  <2>2. CASE Refuse(p) \/ Fail(p) \/ Die(p)
    BY <2>2 DEF Refuse, Fail, Die, Crash, FinishByFault, Leave
  <2>3. CASE CreateReads(p) \/ CheckpointReads(p) \/ SwapReads(p) \/ SwapTakesFacts(p)
             \/ CompareFile(p) \/ DiscardRest(p)
    BY <2>3 DEF CreateReads, CheckpointReads, SwapReads, SwapTakesFacts, CompareFile,
      DiscardRest, At
  <2>4. CASE QuarantineReads(p) \/ KeepConflicts(p) \/ AppendRecord(p) \/ CompactLog(p)
             \/ CompactSidecars(p) \/ RepairTail(p) \/ RepairSidecars(p)
    BY <2>4 DEF QuarantineReads, KeepConflicts, AppendRecord, CompactLog, CompactSidecars,
      RepairTail, RepairSidecars, At
  <2>. QED  BY <2>1, <2>2, <2>3, <2>4
<1>3. ~Loading(p)
  BY <1>2, Busy
<1>own. \A q \in Procs \ {p} : phase'[q] = phase[q]
  <2>1. Step(p) /\ LockTypeOK
    BY Zenon DEF Step, WriteInv, LockInv
  <2>. QED  BY <2>1, StepIsOwn
<1>4. ASSUME NEW c, call' = [call EXCEPT ![p] = c], c.stage \notin {"rows", "again", "loaded"}
      PROVE  Elsewhere
  BY <1>own, <1>1, <1>3, <1>4, ApartStep DEF Elsewhere
<1>5. CASE call' = call
  BY <1>own, <1>1, <1>3, <1>5 DEF Elsewhere, Apart, Loading
<1>6. CASE call' = [call EXCEPT ![p] = NoCall]
  BY <1>4, <1>6, NoCallShape
<1>7. CASE Refuse(p) \/ Fail(p) \/ Queue(p) \/ Die(p) \/ DiscardRest(p) \/ AppendRecord(p)
           \/ RepairSidecars(p)
  BY <1>5, <1>6, <1>7 DEF Refuse, Fail, Queue, Die, DiscardRest, AppendRecord,
    RepairSidecars, Return
<1>8. ASSUME NEW n, Continue(p, n), n.stage \notin {"rows", "again", "loaded"}
      PROVE  Elsewhere
  BY <1>4, <1>8 DEF Continue
<1>9. CASE CreateReads(p)
  <2> DEFINE n == [call[p] EXCEPT !.stage = "install", !.second = FirstVersion]
  <2>1. n.stage = "install"
    BY <1>0 DEF IsCall
  <2> HIDE DEF n
  <2>2. Return(p) \/ Continue(p, n)
    BY <1>9 DEF CreateReads, n
  <2>. QED  BY <1>6, <1>8, <2>1, <2>2 DEF Return
<1>10. CASE CheckpointReads(p)
  <2> DEFINE n == [call[p] EXCEPT !.stage = "install", !.first = manifest,
                     !.second = NextVersion([manifest.rows EXCEPT
                                               ![call[p].req.row] = call[p].req.to])]
  <2>1. n.stage = "install"
    BY <1>0 DEF IsCall
  <2> HIDE DEF n
  <2>2. Return(p) \/ Continue(p, n)
    BY <1>10 DEF CheckpointReads, n
  <2>. QED  BY <1>6, <1>8, <2>1, <2>2 DEF Return
<1>11. CASE SwapReads(p)
  <2> DEFINE n == [call[p] EXCEPT !.stage = "facts",
                     !.second = NextVersion([r \in Rows |-> call[p].req.to])]
  <2>1. n.stage = "facts"
    BY <1>0 DEF IsCall
  <2> HIDE DEF n
  <2>2. Continue(p, n)
    BY <1>11 DEF SwapReads, n
  <2>. QED  BY <1>8, <2>1, <2>2
<1>12. CASE SwapTakesFacts(p)
  <2> DEFINE n == [call[p] EXCEPT !.stage = "install", !.first = manifest]
  <2>1. n.stage = "install"
    BY <1>0 DEF IsCall
  <2> HIDE DEF n
  <2>2. Return(p) \/ Continue(p, n)
    BY <1>12 DEF SwapTakesFacts, n
  <2>. QED  BY <1>6, <1>8, <2>1, <2>2 DEF Return
<1>13. CASE QuarantineReads(p)
  <2> DEFINE n == [call[p] EXCEPT !.stage = "sidecar", !.record = RecordFor(call[p].req)]
  <2>1. n.stage = "sidecar"
    BY <1>0 DEF IsCall
  <2> HIDE DEF n
  <2>2. Return(p) \/ Continue(p, n)
    BY <1>13 DEF QuarantineReads, n
  <2>. QED  BY <1>6, <1>8, <2>1, <2>2 DEF Return
<1>14. CASE CompactLog(p) \/ CompactSidecars(p)
  <2>1. ASSUME NEW d, Continue(p, [call[p] EXCEPT !.stage = "unlink", !.doomed = d])
        PROVE  Elsewhere
    BY <1>0, <1>8, <2>1 DEF IsCall
  <2>2. ASSUME NEW d, Continue(p, [call[p] EXCEPT !.doomed = d]), call[p].stage = "unlink"
        PROVE  Elsewhere
    BY <1>0, <1>8, <2>2, WithDoomed
  <2>. QED  BY <1>6, <1>14, <2>1, <2>2 DEF CompactLog, CompactSidecars, Return, At
<1>15. CASE CompareFile(p) \/ KeepConflicts(p) \/ RepairTail(p)
  <2>1. ASSUME NEW s \in {"rename", "append", "tidy"},
               Continue(p, [call[p] EXCEPT !.stage = s])
        PROVE  Elsewhere
    BY <1>0, <1>8, <2>1, ToStage
  <2>. QED  BY <1>6, <1>15, <2>1 DEF CompareFile, KeepConflicts, RepairTail, Return
<1>. QED  BY <1>7, <1>9, <1>10, <1>11, <1>12, <1>13, <1>14, <1>15

LEMMA InvokeIsApart ==
  ASSUME WriteInv, PhaseOK, NEW p \in Procs, NEW request \in Requests, Invoke(p, request)
  PROVE  Elsewhere
<1> DEFINE n == [NoCall EXCEPT !.req = request, !.stage = "start"]
<1>1. n.stage = "start"
  BY DEF NoCall
<1>2. call' = [call EXCEPT ![p] = n]
  BY DEF Invoke
<1> HIDE DEF n
<1>3. manifest' = manifest /\ made'.births = made.births
  BY DEF Invoke, store, WriteInv, MadeType
<1>4. ~Loading(p)
  BY Busy DEF Invoke
<1>5. \A q \in Procs \ {p} : phase'[q] = phase[q]
  BY StepIsOwn DEF WriteInv, LockInv
<1>. QED  BY <1>1, <1>2, <1>3, <1>4, <1>5, ApartStep DEF Elsewhere

LEMMA StepKinds ==
  ASSUME WriteInv, PhaseOK, [Next]_vars
  PROVE  Installs \/ Loads \/ Elsewhere
<1>1. CASE UNCHANGED vars
  BY <1>1 DEF vars, lock, store, Elsewhere, Apart
<1>. QED  BY <1>1, StepIsApart, InvokeIsApart DEF Next, Step, Installs, Loads

(* The manifest after a step.                                              *)
MovesOn ==
  \/ manifest' = manifest /\ made'.births = made.births
  \/ manifest # None /\ manifest' = None /\ made'.births = made.births
  \/ /\ manifest # None /\ manifest' \in Manifest
     /\ manifest'.birth = manifest.birth /\ manifest'.version = manifest.version + 1
     /\ made'.births = made.births
  \/ /\ manifest = None /\ manifest' \in Manifest
     /\ manifest'.birth = made.births + 1 /\ manifest'.version = 1
     /\ manifest'.rows = [r \in Rows |-> "planned"]
     /\ made'.births = made.births + 1

LEMMA InstallMovesOn ==
  ASSUME WriteInv, PhaseOK, ~misfired, NEW p \in Procs, Rename(p) \/ DiscardManifest(p)
  PROVE  MovesOn /\ \A q \in Procs : Apart(q)
<1>0. /\ made \in MadeType /\ IsCall(call[p]) /\ phase[p] = "held"
  <2>1. phase[p] = "held"
    BY DEF Rename, DiscardManifest, At
  <2>. QED  BY <2>1 DEF WriteInv, CallShape
<1>1. ~Loading(p)
  BY <1>0, Busy
<1>own. \A q \in Procs \ {p} : phase'[q] = phase[q]
  BY StepIsOwn DEF Step, WriteInv, LockInv
<1>2. CASE Rename(p)
  <2>1. call[p].stage = "rename" /\ call[p].second \in Manifest /\ WriterOK(p)
    BY <1>0, <1>2 DEF Rename, WriteInv, CallShape, Carries
  <2>2. manifest' = [call[p].second EXCEPT !.ino = made.files + 1]
        /\ call' = [call EXCEPT ![p] = NoCall]
        /\ made' = [made EXCEPT !.files = @ + 1,
                      !.births = IF call[p].req.op = "create" THEN @ + 1 ELSE @]
    BY <1>2 DEF Rename, Return
  <2>3. /\ manifest' \in Manifest /\ manifest'.birth = call[p].second.birth
        /\ manifest'.version = call[p].second.version
        /\ manifest'.rows = call[p].second.rows
    <3>1. made.files + 1 \in Nat
      BY <1>0 DEF MadeType
    <3>. QED  BY <2>1, <2>2, <3>1 DEF Manifest
  <2>4. made'.births = IF call[p].req.op = "create" THEN made.births + 1 ELSE made.births
    BY <1>0, <2>2 DEF MadeType
  <2>5. MovesOn
    BY <2>1, <2>3, <2>4 DEF MovesOn, WriterOK
  <2>6. \A q \in Procs : Apart(q)
    BY <1>own, <1>1, <2>2, ApartStep, NoCallShape
  <2>. QED  BY <2>5, <2>6
<1>3. CASE DiscardManifest(p)
  <2> DEFINE n == [call[p] EXCEPT !.stage = "sweep"]
  <2>1. n.stage = "sweep" /\ call' = [call EXCEPT ![p] = n]
    BY <1>0, <1>3, ToStage DEF DiscardManifest, Continue
  <2> HIDE DEF n
  <2>2. \A q \in Procs : Apart(q)
    BY <1>own, <1>1, <2>1, ApartStep
  <2>3. MovesOn
    BY <1>3 DEF DiscardManifest, Expected, MovesOn
  <2>. QED  BY <2>2, <2>3
<1>. QED  BY <1>2, <1>3
(* What was read before a step is as old after it.                         *)
LEMMA Ages ==
  ASSUME MovesOn, manifest \in Manifest \union {None}, made \in MadeType, NEW file, Read(file)
  PROVE  Read(file)' /\ (Since(file, manifest) => Since(file, manifest'))
<1>1. made'.births \in Nat /\ made'.births >= made.births /\ made.births \in Nat
      /\ file \in Manifest /\ file.birth \in Nat /\ file.version \in Nat
  BY DEF MovesOn, MadeType, Read, Manifest
<1>2. Read(file)'
  BY <1>1 DEF Read
<1>3. ASSUME Since(file, manifest)
      PROVE  Since(file, manifest')
  <2>1. CASE manifest' \in {manifest, None}
    BY <1>3, <2>1 DEF Since
  <2>2. CASE manifest # None /\ manifest'.birth = manifest.birth
             /\ manifest'.version = manifest.version + 1
    <3>1. manifest.version \in Nat /\ manifest.birth \in Nat
      BY <2>2 DEF Manifest
    <3>. QED  BY <1>1, <1>3, <2>2, <3>1 DEF Since
  <2>3. CASE manifest = None /\ manifest'.birth = made.births + 1
    BY <1>1, <2>3 DEF Since, Read
  <2>. QED  BY <2>1, <2>2, <2>3 DEF MovesOn
<1>. QED  BY <1>2, <1>3

(* A load that is left alone stays as good as it was.                      *)
LEMMA LoadAges ==
  ASSUME MovesOn, manifest \in Manifest \union {None}, made \in MadeType,
         NEW p \in Procs, LoadOK(p), Apart(p), manifest # None => manifest.birth <= made.births
  PROVE  LoadOK(p)'
<1>1. CASE ~Loading(p) /\ ~Loading(p)'
  BY <1>1 DEF LoadOK, Loading
<1>2. CASE call'[p] = call[p] /\ phase'[p] = phase[p]
  <2> DEFINE c == call[p]
  <2>1. Loading(p) => phase'[p] = "idle" /\ Read(c.first)' /\ Since(c.first, manifest')
    BY <1>2, Ages DEF LoadOK
  <2>2. c.stage \in {"again", "loaded"} =>
          Read(c.second)' /\ Since(c.first, c.second) /\ Since(c.second, manifest')
    BY <1>2, Ages DEF LoadOK
  <2>3. ASSUME c.stage = "loaded", c.second # c.first, manifest' # None
        PROVE  manifest'.birth > c.first.birth
    <3>1. Read(c.first) /\ (manifest # None => manifest.birth > c.first.birth)
      BY <2>3 DEF LoadOK, Loading
    <3>2. made.births \in Nat /\ c.first.birth \in Nat /\ c.first.birth <= made.births
      BY <3>1 DEF MadeType, Read, Manifest
    <3>. QED  BY <2>3, <3>1, <3>2 DEF MovesOn
  <2>. QED  BY <1>2, <2>1, <2>2, <2>3 DEF LoadOK, Loading
<1>. QED  BY <1>1, <1>2 DEF Apart

LEMMA BirthsAge ==
  ASSUME MovesOn, made \in MadeType, manifest # None => manifest.birth <= made.births
  PROVE  manifest' # None => manifest'.birth <= made'.births
BY DEF MovesOn, MadeType

(* The steps of a load, with what it reads.                                *)
LEMMA LoadStepOK ==
  ASSUME WriteInv, LoadInv, ~misfired, NEW p \in Procs,
         LoadSummary(p) \/ LoadRows(p) \/ LoadAgain(p) \/ LoadReturns(p)
  PROVE  /\ LoadOK(p)' /\ manifest' = manifest /\ made' = made /\ misfired' = misfired
         /\ \A q \in Procs \ {p} : call'[q] = call[q] /\ phase'[q] = phase[q]
<1>0. /\ manifest \in Manifest \union {None} /\ CallShape /\ IsCall(call[p])
      /\ manifest # None => Read(manifest)
      /\ LoadOK(p)
  BY DEF WriteInv, CallShape, LoadInv, Read
<1>1. /\ manifest' = manifest /\ made' = made /\ misfired' = misfired
      /\ phase' = phase /\ phase[p] = "idle"
  BY DEF LoadSummary, LoadRows, LoadAgain, LoadReturns, Continue, At, lock, store
<1>2. ASSUME NEW n, Continue(p, n)
      PROVE  call'[p] = n /\ \A q \in Procs \ {p} : call'[q] = call[q]
  BY <1>0, <1>2 DEF Continue, CallShape
<1>3. CASE Continue(p, NoCall)
  BY <1>1, <1>2, <1>3, NoCallShape DEF LoadOK, Loading
<1>4. CASE LoadSummary(p) /\ manifest # None
  <2> DEFINE n == [call[p] EXCEPT !.stage = "rows", !.first = manifest]
  <2>1. n.stage = "rows" /\ n.first = manifest
    BY <1>0 DEF IsCall
  <2> HIDE DEF n
  <2>2. Continue(p, n)
    BY <1>4 DEF LoadSummary, n
  <2>3. Since(manifest, manifest)
    BY DEF Since
  <2>. QED  BY <1>0, <1>1, <1>2, <1>4, <2>1, <2>2, <2>3 DEF LoadOK, Loading, Read
<1>5. CASE LoadRows(p) /\ manifest # None
  <2> DEFINE n == [call[p] EXCEPT !.stage = "again", !.second = manifest]
  <2>1. n.stage = "again" /\ n.first = call[p].first /\ n.second = manifest
    BY <1>0 DEF IsCall
  <2> HIDE DEF n
  <2>2. Continue(p, n) /\ Loading(p)
    BY <1>5 DEF LoadRows, At, Loading, n
  <2>3. Since(manifest, manifest)
    BY DEF Since
  <2>. QED  BY <1>0, <1>1, <1>2, <1>5, <2>1, <2>2, <2>3 DEF LoadOK, Loading, Read
<1>6. CASE LoadAgain(p) /\ SameVersion(p)
  <2> DEFINE n == [call[p] EXCEPT !.stage = "loaded"] c == call[p]
  <2>1. n.stage = "loaded" /\ n.first = c.first /\ n.second = c.second
    BY <1>0 DEF IsCall
  <2>2. Continue(p, n) /\ c.stage = "again" /\ Loading(p)
    BY <1>6 DEF LoadAgain, At, Loading
  <2> HIDE DEF n
  <2>3. /\ Read(c.first) /\ Since(c.first, manifest)
        /\ Read(c.second) /\ Since(c.first, c.second) /\ Since(c.second, manifest)
    BY <1>0, <2>2 DEF LoadOK
  <2>4. c.second = c.first \/ manifest.birth > c.first.birth
    <3>1. /\ c.first \in Manifest /\ c.second \in Manifest /\ manifest \in Manifest
          /\ manifest # None /\ manifest.version = c.first.version
      BY <1>0, <1>6, <2>3 DEF SameVersion, Read
    <3>2. /\ c.first.birth \in Nat /\ c.second.birth \in Nat /\ manifest.birth \in Nat
          /\ c.first.version \in Nat /\ c.second.version \in Nat
      BY <3>1 DEF Manifest
    <3>3. c.second # None
      BY <3>1, StoreAssumption
    <3>. QED  BY <2>3, <3>1, <3>2, <3>3 DEF Since
  <2>. QED  BY <1>1, <1>2, <2>1, <2>2, <2>3, <2>4 DEF LoadOK, Loading, Read
<1>. QED  BY <1>1, <1>2, <1>3, <1>4, <1>5, <1>6
          DEF LoadSummary, LoadRows, LoadAgain, LoadReturns

LEMMA InitLoadInv == Init => LoadInv
<1> SUFFICES ASSUME Init PROVE LoadInv
  OBVIOUS
<1>1. manifest = None /\ call = [p \in Procs |-> NoCall]
  BY DEF Init
<1>. QED  BY <1>1, NoCallShape DEF LoadInv, LoadOK, Loading

(* The loads are good while the lock is sound; a misfire is for good.      *)
LEMMA MisfireStays == WriteInv /\ [Next]_vars /\ misfired => misfired'
<1> SUFFICES ASSUME LockTypeOK, [LockNext]_lock, misfired PROVE misfired'
  BY NextMovesLock DEF WriteInv, LockInv
<1>. QED  BY DEF LockNext, lock, Want, Around, Open, Examine, CompareStale, RemoveStale,
  WritePid, FailToWritePid, CompareOwn, RemoveOwn, Unlink, Finish, FinishByFault, Leave,
  Crash

LEMMA NextLoadInv == WriteInv /\ LoadInv /\ [Next]_vars => LoadInv'
<1> SUFFICES ASSUME WriteInv, LoadInv, [Next]_vars, ~misfired'
             PROVE  LoadInv'
  BY DEF LoadInv
<1>0. /\ ~misfired /\ PhaseOK /\ made \in MadeType
      /\ manifest \in Manifest \union {None}
      /\ manifest # None => manifest.birth <= made.births
      /\ \A p \in Procs : LoadOK(p)
  BY MisfireStays DEF LoadInv, PhaseOK, LoadOK, WriteInv
<1>1. ASSUME MovesOn, \A p \in Procs : Apart(p)
      PROVE  LoadInv'
  BY <1>0, <1>1, LoadAges, BirthsAge DEF LoadInv
<1>2. CASE Installs
  BY <1>0, <1>1, <1>2, InstallMovesOn DEF Installs
<1>3. CASE Elsewhere
  BY <1>1, <1>3 DEF Elsewhere, MovesOn
<1>4. CASE Loads
  <2>1. PICK p \in Procs : LoadSummary(p) \/ LoadRows(p) \/ LoadAgain(p) \/ LoadReturns(p)
    BY <1>4 DEF Loads
  <2>2. /\ LoadOK(p)' /\ manifest' = manifest /\ made' = made
        /\ \A q \in Procs \ {p} : call'[q] = call[q] /\ phase'[q] = phase[q]
    BY <1>0, <2>1, LoadStepOK
  <2>3. MovesOn
    BY <2>2 DEF MovesOn
  <2>4. \A q \in Procs \ {p} : LoadOK(q)'
    BY <1>0, <2>2, <2>3, LoadAges DEF Apart
  <2>. QED  BY <1>0, <2>2, <2>4 DEF LoadInv
<1>. QED  BY <1>0, <1>2, <1>3, <1>4, StepKinds

LEMMA StoreKeeps == Spec => [](WriteInv /\ LoadInv)
BY InitWriteInv, NextWriteInv, InitLoadInv, NextLoadInv, PTL DEF Spec

(* A load returns the summary and the rows of one version of the manifest, *)
(* although it takes no lock and reads the path three times.               *)
THEOREM LoadsAreOneVersion == Spec => []LoadIsOneVersion
<1>1. WriteInv /\ LoadInv => LoadIsOneVersion
  <2> SUFFICES ASSUME WriteInv, LoadInv, NEW p \in Procs, ~misfired, At(p, "load", "loaded"),
                      manifest # None, manifest.birth = call[p].first.birth
               PROVE  call[p].second = call[p].first
    BY DEF LoadIsOneVersion
  <2>1. LoadOK(p) /\ call[p].stage = "loaded" /\ manifest \in Manifest
    BY DEF LoadInv, At, WriteInv
  <2>2. manifest.birth \in Nat
    BY <2>1 DEF Manifest
  <2>. QED  BY <2>1, <2>2 DEF LoadOK
<1>. QED  BY <1>1, StoreKeeps, PTL

(***************************************************************************)
(* The store implements VersionedStore.                                    *)
(***************************************************************************)
(* The state as VersionedStore sees it.                                    *)
Current == IF manifest = None THEN None ELSE Shown(manifest, manifest.rows)
View(p) == IF Loading(p) THEN Shown(call[p].first, call[p].first.rows) ELSE None
Answer(p) ==
  IF call[p].stage = "loaded" THEN Shown(call[p].first, call[p].second.rows) ELSE None
Views == [p \in Procs |-> View(p)]
Answers == [p \in Procs |-> Answer(p)]

LEMMA ShownFacts ==
  ASSUME NEW m \in Manifest, NEW n \in Manifest
  PROVE  /\ Shown(m, n.rows) \in Snapshot /\ Shown(m, n.rows) # None
         /\ Shown(m, n.rows).birth = m.birth /\ Shown(m, n.rows).version = m.version
         /\ Shown(m, n.rows).rows = n.rows
         /\ n.rows \in [Rows -> ImportCheckpoint]
<1>1. Shown(m, n.rows) \in Snapshot
  BY DEF Shown, Manifest, Snapshot
<1>2. Shown(m, n.rows) # None
  BY <1>1, StoreAssumption
<1>. QED  BY <1>1, <1>2 DEF Shown, Manifest

LEMMA ApartViews ==
  ASSUME \A p \in Procs : Apart(p)
  PROVE  Views' = Views /\ Answers' = Answers
<1>1. \A p \in Procs : View(p)' = View(p) /\ Answer(p)' = Answer(p)
  BY DEF Apart, View, Answer, Loading
<1>. QED  BY <1>1 DEF Views, Answers

LEMMA InitIsVersioned == Init => Versioned!Init
<1> SUFFICES ASSUME Init PROVE Versioned!Init
  OBVIOUS
<1>1. /\ manifest = None /\ call = [p \in Procs |-> NoCall] /\ misfired = FALSE
      /\ made.births = 0
  BY DEF Init, LockInit
<1>2. \A p \in Procs : ~Loading(p) /\ call[p].stage # "loaded"
  BY <1>1, NoCallShape DEF Loading
<1>. QED  BY <1>1, <1>2 DEF Versioned!Init

(* A writer's step is one of VersionedStore's, or changes nothing there.   *)
LEMMA InstallIsVersioned ==
  ASSUME WriteInv, MovesOn, \A p \in Procs : Apart(p), misfired' = misfired
  PROVE  Versioned!Next \/ UNCHANGED Versioned!versioned
<1>0. Views' = Views /\ Answers' = Answers /\ manifest \in Manifest \union {None}
      /\ None \notin Manifest
  BY ApartViews, StoreAssumption DEF WriteInv
<1>1. CASE manifest' = manifest /\ made'.births = made.births
  <2>1. Current' = Current
    BY <1>1 DEF Current
  <2>2. UNCHANGED Versioned!versioned
    BY <1>0, <1>1, <2>1 DEF Versioned!versioned, Current, Views, View, Answers, Answer
  <2>. QED  BY <2>2
<1>2. CASE manifest # None /\ manifest' = None /\ made'.births = made.births
  <2>1. Current # None /\ Current' = None
    BY <1>0, <1>2, ShownFacts DEF Current
  <2>2. Versioned!Discard
    BY <1>0, <1>2, <2>1
    DEF Versioned!Discard, Versioned!Loads, Current, Views, View, Answers, Answer
  <2>. QED  BY <2>2 DEF Versioned!Next
<1>3. CASE /\ manifest # None /\ manifest' \in Manifest
           /\ manifest'.birth = manifest.birth /\ manifest'.version = manifest.version + 1
           /\ made'.births = made.births
  <2>1. /\ Current # None /\ manifest'.rows \in [Rows -> ImportCheckpoint]
        /\ Current' = [birth |-> Current.birth, version |-> Current.version + 1,
                       rows |-> manifest'.rows]
    <3>1. manifest' # None /\ manifest'.rows \in [Rows -> ImportCheckpoint]
      BY <1>0, <1>3, ShownFacts
    <3>2. Current = Shown(manifest, manifest.rows) /\ Current # None
          /\ Current.birth = manifest.birth /\ Current.version = manifest.version
      BY <1>0, <1>3, ShownFacts DEF Current
    <3>3. Current' = [birth |-> manifest'.birth, version |-> manifest'.version,
                      rows |-> manifest'.rows]
      BY <3>1 DEF Current, Shown
    <3>. QED  BY <1>3, <3>1, <3>2, <3>3
  <2>2. Versioned!Change
    BY <1>0, <1>3, <2>1
    DEF Versioned!Change, Versioned!Loads, Current, Views, View, Answers, Answer
  <2>. QED  BY <2>2 DEF Versioned!Next
<1>4. CASE /\ manifest = None /\ manifest' \in Manifest
           /\ manifest'.birth = made.births + 1 /\ manifest'.version = 1
           /\ manifest'.rows = [r \in Rows |-> "planned"]
           /\ made'.births = made.births + 1
  <2>1. Current = None
        /\ Current' = [birth |-> made'.births, version |-> 1,
                       rows |-> [r \in Rows |-> "planned"]]
    BY <1>0, <1>4 DEF Current, Shown
  <2>2. Versioned!Create
    BY <1>0, <1>4, <2>1
    DEF Versioned!Create, Versioned!Loads, Current, Views, View, Answers, Answer
  <2>. QED  BY <2>2 DEF Versioned!Next
<1>. QED  BY <1>1, <1>2, <1>3, <1>4 DEF MovesOn

(* Everything else is nothing to it, unless the lock misfires.             *)
LEMMA ElsewhereIsVersioned ==
  ASSUME Elsewhere, misfired \in BOOLEAN, misfired' \in BOOLEAN, ~misfired
  PROVE  Versioned!Next \/ UNCHANGED Versioned!versioned
<1>1. Views' = Views /\ Answers' = Answers /\ Current' = Current
      /\ made'.births = made.births
  BY ApartViews DEF Elsewhere, Current
<1>2. CASE misfired'
  <2>1. Versioned!Unsound
    BY <1>1, <1>2
    DEF Versioned!Unsound, Versioned!Loads, Current, Views, View, Answers, Answer
  <2>. QED  BY <2>1 DEF Versioned!Next
<1>3. CASE misfired' = misfired
  BY <1>1, <1>3 DEF Versioned!versioned, Current, Views, View, Answers, Answer
<1>. QED  BY <1>2, <1>3

(* A load that looks, answers or ends.                                     *)
LEMMA LoadIsVersioned ==
  ASSUME WriteInv, LoadInv, ~misfired, NEW p \in Procs,
         LoadSummary(p) \/ LoadRows(p) \/ LoadAgain(p) \/ LoadReturns(p)
  PROVE  Versioned!Next \/ UNCHANGED Versioned!versioned
<1>0. /\ manifest \in Manifest \union {None} /\ CallShape /\ IsCall(call[p])
      /\ None \notin Manifest /\ LoadOK(p) /\ LoadOK(p)'
      /\ manifest' = manifest /\ made' = made /\ misfired' = misfired
      /\ \A q \in Procs \ {p} : call'[q] = call[q]
  BY LoadStepOK, StoreAssumption DEF WriteInv, CallShape, LoadInv
<1>1. Current' = Current
  BY <1>0 DEF Current
<1>2. ASSUME NEW q \in Procs \ {p}
      PROVE  View(q)' = View(q) /\ Answer(q)' = Answer(q)
  BY <1>0, <1>2 DEF View, Answer, Loading
<1>3. /\ Views' = [Views EXCEPT ![p] = View(p)']
      /\ Answers' = [Answers EXCEPT ![p] = Answer(p)']
      /\ Views[p] = View(p) /\ Answers[p] = Answer(p)
  BY <1>2 DEF Views, Answers
<1>4. Loading(p) => View(p) # None /\ call[p].first \in Manifest
  BY <1>0, ShownFacts DEF LoadOK, Read, View
<1>5. CASE View(p)' = View(p) /\ Answer(p)' = Answer(p)
  <2>1. Views' = Views /\ Answers' = Answers
    BY <1>2, <1>5 DEF Views, Answers
  <2>. QED  BY <1>0, <1>1, <2>1
            DEF Versioned!versioned, Current, Views, View, Answers, Answer
<1>6. ASSUME Loading(p), call' = [call EXCEPT ![p] = NoCall]
      PROVE  Versioned!Next
  <2>1. call'[p] = NoCall
    BY <1>0, <1>6 DEF CallShape
  <2>2. View(p)' = None /\ Answer(p)' = None
    BY <2>1, NoCallShape DEF View, Answer, Loading
  <2>3. Versioned!Leave(p)
    BY <1>0, <1>1, <1>3, <1>4, <1>6, <2>2
    DEF Versioned!Leave, Current, Views, View, Answers, Answer
  <2>. QED  BY <2>3 DEF Versioned!Next
<1>7. CASE LoadSummary(p)
  <2>1. call[p].stage = "start"
    BY <1>7 DEF LoadSummary, At
  <2>2. View(p) = None /\ Answer(p) = None
    BY <2>1 DEF View, Answer, Loading
  <2>3. CASE manifest = None
    <3>1. call'[p] = NoCall
      BY <1>0, <1>7, <2>3 DEF LoadSummary, Continue, CallShape
    <3>2. View(p)' = None /\ Answer(p)' = None
      BY <3>1, NoCallShape DEF View, Answer, Loading
    <3>. QED  BY <1>5, <2>2, <3>2
  <2>4. CASE manifest # None
    <3> DEFINE n == [call[p] EXCEPT !.stage = "rows", !.first = manifest]
    <3>1. n.stage = "rows" /\ n.first = manifest
      BY <1>0 DEF IsCall
    <3> HIDE DEF n
    <3>2. call'[p] = n
      BY <1>0, <1>7, <2>4 DEF LoadSummary, Continue, CallShape, n
    <3>3. View(p)' = Current /\ Answer(p)' = None
      BY <1>0, <2>4, <3>1, <3>2 DEF View, Answer, Loading, Current
    <3>4. Current # None
      BY <1>0, <2>4, ShownFacts DEF Current
    <3>5. Answers' = Answers
      BY <1>2, <2>2, <3>3 DEF Answers
    <3>6. Versioned!Look(p)
      BY <1>0, <1>1, <1>3, <2>2, <3>3, <3>4, <3>5
      DEF Versioned!Look, Current, Views, View, Answers, Answer
    <3>. QED  BY <3>6 DEF Versioned!Next
  <2>. QED  BY <2>3, <2>4
<1>8. CASE LoadRows(p)
  <2>1. call[p].stage = "rows" /\ Loading(p)
    BY <1>8 DEF LoadRows, At, Loading
  <2>2. CASE manifest = None
    BY <1>6, <1>8, <2>1, <2>2 DEF LoadRows, Continue
  <2>3. CASE manifest # None
    <3> DEFINE n == [call[p] EXCEPT !.stage = "again", !.second = manifest]
    <3>1. n.stage = "again" /\ n.first = call[p].first
      BY <1>0 DEF IsCall
    <3> HIDE DEF n
    <3>2. call'[p] = n
      BY <1>0, <1>8, <2>3 DEF LoadRows, Continue, CallShape, n
    <3>. QED  BY <1>5, <2>1, <3>1, <3>2 DEF View, Answer, Loading
  <2>. QED  BY <2>2, <2>3
<1>9. CASE LoadAgain(p)
  <2>1. call[p].stage = "again" /\ Loading(p)
    BY <1>9 DEF LoadAgain, At, Loading
  <2>2. CASE ~SameVersion(p)
    BY <1>6, <1>9, <2>1, <2>2 DEF LoadAgain, Continue
  <2>3. CASE SameVersion(p)
    <3> DEFINE n == [call[p] EXCEPT !.stage = "loaded"]  c == call[p]
    <3>1. n.stage = "loaded" /\ n.first = c.first /\ n.second = c.second
      BY <1>0 DEF IsCall
    <3>2. call'[p] = n
      BY <1>0, <1>9, <2>3 DEF LoadAgain, Continue, CallShape
    <3> HIDE DEF n
    <3>3. /\ View(p) = Shown(c.first, c.first.rows) /\ Answer(p) = None
          /\ View(p)' = View(p) /\ Answer(p)' = Shown(c.first, c.second.rows)
      BY <2>1, <3>1, <3>2 DEF View, Answer, Loading
    <3>4. /\ c.first \in Manifest /\ c.second \in Manifest
          /\ c.second = c.first \/ manifest.birth > c.first.birth
          /\ manifest # None
      BY <1>0, <2>1, <2>3, <3>1, <3>2 DEF LoadOK, Read, SameVersion
    <3>5. CASE c.second = c.first
      <4>1. Answer(p)' = View(p) /\ View(p) # None
        BY <1>4, <2>1, <3>3, <3>5
      <4>2. Views' = Views
        BY <1>2, <3>3 DEF Views
      <4>3. Versioned!Answer(p)
        BY <1>0, <1>1, <1>3, <3>3, <4>1, <4>2
        DEF Versioned!Answer, Current, Views, View, Answers, Answer
      <4>. QED  BY <4>3 DEF Versioned!Next
    <3>6. CASE manifest.birth > c.first.birth
      <4>1. /\ View(p).birth = c.first.birth /\ View(p).version = c.first.version
            /\ View(p) # None /\ c.second.rows \in [Rows -> ImportCheckpoint]
            /\ Current # None /\ Current.birth = manifest.birth
        BY <1>0, <3>3, <3>4, ShownFacts DEF Current
      <4>2. Answer(p)' = [birth |-> View(p).birth, version |-> View(p).version,
                          rows |-> c.second.rows]
        BY <3>3, <4>1 DEF Shown
      <4>3. Views' = Views
        BY <1>2, <3>3 DEF Views
      <4>4. Current.birth > View(p).birth
        BY <3>6, <4>1
      <4>5. Versioned!Superseded(p)
        BY <1>3, <4>1, <4>4 DEF Versioned!Superseded, Current, Views, View
      <4>6. Answers' = [Answers EXCEPT ![p] =
              [birth |-> Views[p].birth, version |-> Views[p].version,
               rows |-> c.second.rows]]
        BY <1>3, <4>2
      <4>7. Versioned!Answer(p)
        <5> DEFINE rows == c.second.rows
        <5>1. rows \in [Rows -> ImportCheckpoint] /\ Versioned!Superseded(p)
          BY <4>1, <4>5
        <5>2. /\ Views[p] # None /\ Answers[p] = None
              /\ Answers' = [Answers EXCEPT ![p] = [birth |-> Views[p].birth,
                              version |-> Views[p].version, rows |-> rows]]
          BY <1>3, <3>3, <4>1, <4>6
        <5> HIDE DEF rows
        <5>. QED  BY <1>0, <1>1, <4>3, <5>1, <5>2
                  DEF Versioned!Answer, Current, Views, View, Answers, Answer
      <4>. QED  BY <4>7 DEF Versioned!Next
    <3>. QED  BY <3>4, <3>5, <3>6
  <2>. QED  BY <2>2, <2>3
<1>10. CASE LoadReturns(p)
  <2>1. Loading(p)
    BY <1>10 DEF LoadReturns, At, Loading
  <2>. QED  BY <1>6, <1>10, <2>1 DEF LoadReturns, Continue
<1>. QED  BY <1>7, <1>8, <1>9, <1>10

LEMMA NextIsVersioned ==
  WriteInv /\ WriteInv' /\ LoadInv /\ [Next]_vars =>
    [~misfired => Versioned!Next]_(Versioned!versioned)
<1> SUFFICES ASSUME WriteInv, WriteInv', LoadInv, [Next]_vars, ~misfired
             PROVE  Versioned!Next \/ UNCHANGED Versioned!versioned
  OBVIOUS
<1>0. PhaseOK /\ misfired \in BOOLEAN /\ misfired' \in BOOLEAN
  BY DEF LoadInv, PhaseOK, LoadOK, WriteInv, LockInv, LockTypeOK
<1>1. CASE Loads
  BY <1>1, LoadIsVersioned DEF Loads
<1>2. CASE Elsewhere
  BY <1>0, <1>2, ElsewhereIsVersioned
<1>3. CASE Installs
  <2>1. PICK p \in Procs : Rename(p) \/ DiscardManifest(p)
    BY <1>3 DEF Installs
  <2>2. misfired' = misfired
    BY <2>1 DEF Rename, DiscardManifest, Return, Finish, Leave, Continue, lock
  <2>. QED  BY <1>0, <2>1, <2>2, InstallMovesOn, InstallIsVersioned
<1>. QED  BY <1>0, <1>1, <1>2, <1>3, StepKinds

(* The lock file, the manifest file and the reads of a load together are   *)
(* the store of VersionedStore: whatever processes do and wherever they    *)
(* crash, the manifest goes from version to version and a load answers     *)
(* with one of them, until an unlink of a lock file misfires.              *)
THEOREM StoreImplementsVersioned == Spec => StoreIsVersioned
<1>1. Spec => Versioned!Init
  BY InitIsVersioned DEF Spec
<1>2. Spec => [][~misfired => Versioned!Next]_(Versioned!versioned)
  BY StoreKeeps, NextIsVersioned, PTL DEF Spec
<1>. QED  BY <1>1, <1>2 DEF StoreIsVersioned, Versioned!Spec

(***************************************************************************)
(* The replay quarantine.                                                  *)
(***************************************************************************)
Sound ==
  \A i, j \in DOMAIN log : i < j =>
    /\ log[i] # Torn
    /\ log[j] # Torn => log[i].version < log[j].version /\ ~SameIdentity(log[i], log[j])

Covered == \A r \in Records : SidecarOf(r) \in sidecars

(* A record that may be appended.                                          *)
IsNext(r) ==
  /\ r \in Record /\ ~LogIsTorn
  /\ \A s \in Records : s.version < r.version /\ ~SameIdentity(s, r)

(* What a process that works on the log or its sidecars relies on.         *)
KeeperOK(p) ==
  LET c == call[p] IN
  /\ c.stage = "sweep" => manifest = None
  /\ c.stage \in {"sidecar", "append"} => manifest # None /\ IsNext(c.record)
  /\ c.stage = "append" => SidecarOf(c.record) \in sidecars
  /\ c.stage = "unlink" => \A r \in Records : SidecarOf(r) \notin c.doomed

(* Before the first manifest there is no log, and the records of the first *)
(* have their sidecars.                                                    *)
LogOK ==
  /\ log \in Seq(Record \union {Torn})
  /\ Sound
  /\ made.births = 0 => manifest = None /\ log = <<>>
  /\ manifest # None /\ made.births = 1 => Covered

LogInv ==
  ~misfired => LogOK /\ \A p \in Procs : phase[p] = "held" => KeeperOK(p)

(* The stages that KeeperOK says something of.                             *)
Keeping(c) == c.stage \in {"sweep", "sidecar", "append", "unlink"}

LEMMA LogFacts ==
  ASSUME log \in Seq(Record \union {Torn})
  PROVE  /\ Len(log) \in Nat /\ DOMAIN log = 1 .. Len(log)
         /\ \A i \in DOMAIN log : log[i] \in Record \/ log[i] = Torn
         /\ \A r \in Records : r \in Record /\ r # Torn /\ r.version \in Nat
         /\ \A r \in Records : \E i \in DOMAIN log : log[i] = r /\ log[i] # Torn
         /\ \A i \in DOMAIN log : log[i] # Torn => log[i] \in Records
<1>1. \A i \in DOMAIN log : log[i] \in Record \/ log[i] = Torn
  OBVIOUS
<1>2. \A r \in Records : \E i \in DOMAIN log : log[i] = r /\ log[i] # Torn
  BY DEF Records
<1>. QED  BY <1>1, <1>2 DEF Records, Record

(* The last complete record has the greatest version.                      *)
LEMMA LastIsGreatest ==
  ASSUME log \in Seq(Record \union {Torn}), Sound
  PROVE  LastVersion \in Nat /\ \A r \in Records : r.version <= LastVersion
<1>0. /\ Len(log) \in Nat /\ DOMAIN log = 1 .. Len(log)
      /\ \A r \in Records : r.version \in Nat
      /\ \A r \in Records : \E i \in DOMAIN log : log[i] = r /\ log[i] # Torn
      /\ \A i \in DOMAIN log : log[i] # Torn => log[i] \in Records
  BY LogFacts
<1>1. CASE Records = {}
  BY <1>1 DEF LastVersion
<1>2. CASE Records # {}
  <2> DEFINE n == Len(log)
  <2>1. PICK i \in DOMAIN log : log[i] # Torn
    BY <1>0, <1>2
  <2>2. PICK m \in DOMAIN log : log[m] # Torn /\ \A j \in DOMAIN log : j > m => log[j] = Torn
    <3>1. CASE log[n] # Torn
      <4>1. n \in DOMAIN log /\ \A j \in DOMAIN log : ~(j > n)
        BY <1>0, <2>1
      <4>. QED  BY <3>1, <4>1
    <3>2. CASE log[n] = Torn
      <4>1. n - 1 \in DOMAIN log /\ n \in DOMAIN log /\ n - 1 < n
        BY <1>0, <2>1, <3>2
      <4>2. log[n - 1] # Torn
        BY <4>1 DEF Sound
      <4>. QED  BY <1>0, <3>2, <4>1, <4>2
    <3>. QED  BY <3>1, <3>2
  <2>3. log[m] \in Records /\ log[m].version \in Nat
    BY <1>0, <2>2
  <2>4. ASSUME NEW r \in Records
        PROVE  r.version <= log[m].version
    <3>1. PICK k \in DOMAIN log : log[k] = r /\ log[k] # Torn
      BY <1>0
    <3>2. k = m \/ k < m
      BY <1>0, <2>2, <3>1
    <3>3. CASE k < m
      <4>1. log[k].version < log[m].version
        BY <2>2, <3>3 DEF Sound
      <4>. QED  BY <1>0, <2>3, <3>1, <4>1
    <3>. QED  BY <1>0, <2>3, <3>1, <3>2, <3>3
  <2>5. LastVersion \in {r.version : r \in Records}
        /\ \A r \in Records : r.version <= LastVersion
    BY <1>2, <2>3, <2>4 DEF LastVersion
  <2>. QED  BY <1>0, <2>5
<1>. QED  BY <1>1, <1>2

(* A line is added to a log without a torn one.                            *)
LEMMA AfterAppend ==
  ASSUME log \in Seq(Record \union {Torn}), Sound, ~LogIsTorn,
         NEW x \in Record \union {Torn}, x = Torn \/ IsNext(x), log' = Append(log, x)
  PROVE  /\ log' \in Seq(Record \union {Torn}) /\ Sound'
         /\ Records' \subseteq Records \union ({x} \ {Torn})
<1>1. /\ log' \in Seq(Record \union {Torn}) /\ DOMAIN log' = 1 .. Len(log) + 1
      /\ \A i \in 1 .. Len(log) : log'[i] = log[i]
      /\ log'[Len(log) + 1] = x
  BY LogFacts
<1>2. \A i \in DOMAIN log : log[i] # Torn /\ log[i] \in Records
  BY LogFacts DEF LogIsTorn
<1>3. ASSUME NEW i \in DOMAIN log', NEW j \in DOMAIN log', i < j
      PROVE  /\ log'[i] # Torn
             /\ log'[j] # Torn => /\ log'[i].version < log'[j].version
                                  /\ ~SameIdentity(log'[i], log'[j])
  <2>1. i \in DOMAIN log /\ log'[i] = log[i]
    BY <1>1, <1>3, LogFacts
  <2>2. CASE j \in DOMAIN log
    BY <1>1, <1>3, <2>1, <2>2, LogFacts DEF Sound
  <2>3. CASE j = Len(log) + 1
    BY <1>1, <1>2, <2>1, <2>3 DEF IsNext
  <2>. QED  BY <1>1, <2>2, <2>3, LogFacts
<1>4. Sound'
  BY <1>3 DEF Sound, SameIdentity
<1>5. ASSUME NEW r \in Records'
      PROVE  r \in Records \union ({x} \ {Torn})
  <2>1. PICK i \in DOMAIN log' : log'[i] = r /\ r # Torn
    BY <1>5 DEF Records
  <2>2. CASE i \in 1 .. Len(log)
    BY <1>1, <1>2, <2>1, <2>2, LogFacts
  <2>3. CASE i = Len(log) + 1
    BY <1>1, <2>1, <2>3
  <2>. QED  BY <1>1, <2>2, <2>3, <2>1, LogFacts
<1>. QED  BY <1>1, <1>4, <1>5

(* Lines are taken from the log, in the order they have.                   *)
LEMMA AfterChoice ==
  ASSUME log \in Seq(Record \union {Torn}), Sound, NEW n \in Nat,
         NEW places \in [1 .. n -> DOMAIN log], InOrder(places),
         log' = [k \in 1 .. n |-> log[places[k]]]
  PROVE  /\ log' \in Seq(Record \union {Torn}) /\ Sound'
         /\ \A r \in Records' : \E k \in 1 .. n : r = log[places[k]] /\ r # Torn
         /\ Records' \subseteq Records
<1>1. log' \in Seq(Record \union {Torn}) /\ DOMAIN log' = 1 .. n
      /\ \A k \in 1 .. n : log'[k] = log[places[k]] /\ places[k] \in DOMAIN log
  <2>1. \A k \in 1 .. n : log[places[k]] \in Record \union {Torn}
    BY LogFacts
  <2>. QED  BY <2>1
<1>2. ASSUME NEW i \in DOMAIN log', NEW j \in DOMAIN log', i < j
      PROVE  /\ log'[i] # Torn
             /\ log'[j] # Torn => /\ log'[i].version < log'[j].version
                                  /\ ~SameIdentity(log'[i], log'[j])
  <2>1. places[i] < places[j]
    BY <1>1, <1>2 DEF InOrder
  <2>. QED  BY <1>1, <2>1 DEF Sound
<1>3. Sound'
  BY <1>2 DEF Sound, SameIdentity
<1>4. ASSUME NEW r \in Records'
      PROVE  r \in Records /\ \E k \in 1 .. n : r = log[places[k]] /\ r # Torn
  <2>1. PICK k \in DOMAIN log' : log'[k] = r /\ r # Torn
    BY <1>4 DEF Records
  <2>. QED  BY <1>1, <2>1, LogFacts
<1>. QED  BY <1>1, <1>3, <1>4

(* Sidecars of later versions than the last are nobody's.                  *)
LEMMA AfterTidying ==
  ASSUME log \in Seq(Record \union {Torn}), Sound, Covered,
         log' = log, sidecars' = SidecarsUpTo(LastVersion)
  PROVE  Covered'
<1>1. Records' = Records
  BY DEF Records
<1>2. \A r \in Records : SidecarOf(r).version <= LastVersion
  BY LastIsGreatest DEF SidecarOf
<1>. QED  BY <1>1, <1>2 DEF Covered, SidecarsUpTo

(* A step of a process that works alone, or leaves the store alone, keeps  *)
(* what the others rely on.                                                *)
LEMMA KeeperAlone ==
  ASSUME WriteInv, LogInv, ~misfired, NEW p \in Procs,
         phase[p] = "held" \/ UNCHANGED store,
         \A q \in Procs \ {p} : call'[q] = call[q] /\ phase'[q] = phase[q],
         LogOK', phase'[p] = "held" => KeeperOK(p)'
  PROVE  LogInv'
<1>1. ASSUME NEW q \in Procs \ {p}, phase'[q] = "held"
      PROVE  KeeperOK(q)'
  <2>1. phase[q] = "held" /\ call'[q] = call[q] /\ KeeperOK(q)
    BY <1>1 DEF LogInv
  <2>2. phase[p] # "held"
    BY <1>1, <2>1, OneOwner DEF WriteInv, Owning
  <2>3. UNCHANGED <<manifest, log, sidecars>>
    BY <2>2 DEF store
  <2>. QED  BY <2>1, <2>3
            DEF KeeperOK, IsNext, Records, LogIsTorn, SidecarOf, SameIdentity
<1>. QED  BY <1>1 DEF LogInv

LEMMA StoreUnchanged ==
  ASSUME LogOK, UNCHANGED store, made'.births = made.births
  PROVE  LogOK'
BY DEF LogOK, Sound, Covered, Records, SidecarOf, SameIdentity, store

LEMMA Invoked ==
  ASSUME WriteInv, NEW p \in Procs, NEW request \in Requests, Invoke(p, request)
  PROVE  /\ phase'[p] # "held" /\ UNCHANGED store /\ made'.births = made.births
         /\ \A q \in Procs \ {p} : call'[q] = call[q]
<1>1. made'.births = made.births /\ UNCHANGED store
  BY DEF Invoke, WriteInv, MadeType
<1> DEFINE n == [NoCall EXCEPT !.req = request, !.stage = "start"]
<1>2. call' = [call EXCEPT ![p] = n] /\ phase[p] = "idle"
  BY DEF Invoke
<1> HIDE DEF n
<1>3. UNCHANGED lock => phase' = phase
  BY DEF lock
<1>4. Want(p) => phase'[p] = "open"
  BY PhaseStep DEF Want, WriteInv, LockInv
<1>5. phase'[p] # "held"
  BY <1>2, <1>3, <1>4 DEF Invoke
<1>. QED  BY <1>1, <1>2, <1>5 DEF WriteInv, CallShape

(* A process moves nobody else's call.                                     *)
LEMMA CallIsOwn ==
  ASSUME CallShape, NEW p \in Procs, Step(p)
  PROVE  \A q \in Procs \ {p} : call'[q] = call[q]
<1>1. CASE call' = call
  BY <1>1
<1>2. ASSUME NEW c, call' = [call EXCEPT ![p] = c]
      PROVE  \A q \in Procs \ {p} : call'[q] = call[q]
  BY <1>2 DEF CallShape
<1>3. CASE \E c : Continue(p, c)
  BY <1>2, <1>3 DEF Continue
<1>4. CASE Return(p)
  BY <1>2, <1>4 DEF Return
<1>5. CASE Refuse(p) \/ Fail(p) \/ Queue(p) \/ Die(p)
  BY <1>1, <1>2, <1>4, <1>5 DEF Refuse, Fail, Queue, Die
<1>6. CASE CreateReads(p) \/ CheckpointReads(p) \/ SwapReads(p) \/ SwapTakesFacts(p)
           \/ CompareFile(p) \/ Rename(p) \/ DiscardManifest(p) \/ DiscardRest(p)
  BY <1>1, <1>3, <1>4, <1>6 DEF CreateReads, CheckpointReads, SwapReads, SwapTakesFacts,
    CompareFile, Rename, DiscardManifest, DiscardRest
<1>7. CASE QuarantineReads(p) \/ KeepConflicts(p) \/ AppendRecord(p)
           \/ CompactLog(p) \/ CompactSidecars(p) \/ RepairTail(p) \/ RepairSidecars(p)
  BY <1>3, <1>4, <1>7 DEF QuarantineReads, KeepConflicts, AppendRecord, CompactLog,
    CompactSidecars, RepairTail, RepairSidecars
<1>8. CASE LoadSummary(p) \/ LoadRows(p) \/ LoadAgain(p) \/ LoadReturns(p)
  BY <1>3, <1>8 DEF LoadSummary, LoadRows, LoadAgain, LoadReturns
<1>. QED  BY <1>5, <1>6, <1>7, <1>8 DEF Step

LEMMA Returned ==
  ASSUME LockTypeOK, NEW p \in Procs, Return(p)
  PROVE  phase'[p] = "release" /\ misfired' = misfired
BY DEF Return, Finish, Leave, GoTo, LockTypeOK

(* The stage of a process that goes on.                                    *)
LEMMA Continued ==
  ASSUME WriteInv, NEW p \in Procs, NEW n, Continue(p, n)
  PROVE  call'[p] = n /\ phase' = phase
BY DEF WriteInv, CallShape, Continue, lock

(* The steps that leave the store alone lead to no stage of the keeper.    *)
LEMMA Unkept ==
  ASSUME WriteInv, NEW p \in Procs,
         \/ Refuse(p) \/ Queue(p) \/ CreateReads(p) \/ CheckpointReads(p) \/ SwapReads(p)
         \/ SwapTakesFacts(p) \/ CompareFile(p)
         \/ LoadSummary(p) \/ LoadRows(p) \/ LoadAgain(p) \/ LoadReturns(p)
  PROVE  phase'[p] = "held" => ~Keeping(call'[p])
<1>0. LockTypeOK /\ HasCall /\ IsCall(call[p])
  BY DEF WriteInv, LockInv, CallShape
<1>1. CASE Return(p)
  BY <1>0, <1>1, Returned
<1>2. ASSUME NEW n, Continue(p, n), ~Keeping(n)
      PROVE  ~Keeping(call'[p])
  BY <1>2, Continued
<1>3. CASE Queue(p)
  <2>1. ASSUME phase'[p] = "held" PROVE phase[p] = "write"
    BY <1>0, <1>3, <2>1 DEF Queue, Around, Open, Examine, CompareStale, RemoveStale,
      WritePid, FailToWritePid, CompareOwn, RemoveOwn, Unlink, GoTo, BackTo, LockTypeOK
  <2>2. phase'[p] = "held" => call' = call
    BY <1>3 DEF Queue
  <2>. QED  BY <1>0, <2>1, <2>2 DEF HasCall, Queueing, Keeping
<1>5. CASE LoadSummary(p) \/ LoadRows(p) \/ LoadAgain(p) \/ LoadReturns(p)
  BY <1>5 DEF LoadSummary, LoadRows, LoadAgain, LoadReturns, Continue, At, lock
<1>6. CASE CreateReads(p)
  <2> DEFINE n == [call[p] EXCEPT !.stage = "install", !.second = FirstVersion]
  <2>1. ~Keeping(n)
    BY <1>0 DEF IsCall, Keeping
  <2> HIDE DEF n
  <2>2. Return(p) \/ Continue(p, n)
    BY <1>6 DEF CreateReads, n
  <2>. QED  BY <1>1, <1>2, <2>1, <2>2
<1>7. CASE CheckpointReads(p)
  <2> DEFINE n == [call[p] EXCEPT !.stage = "install", !.first = manifest,
                     !.second = NextVersion([manifest.rows EXCEPT
                                               ![call[p].req.row] = call[p].req.to])]
  <2>1. ~Keeping(n)
    BY <1>0 DEF IsCall, Keeping
  <2> HIDE DEF n
  <2>2. Return(p) \/ Continue(p, n)
    BY <1>7 DEF CheckpointReads, n
  <2>. QED  BY <1>1, <1>2, <2>1, <2>2
<1>8. CASE SwapReads(p)
  <2> DEFINE n == [call[p] EXCEPT !.stage = "facts",
                     !.second = NextVersion([r \in Rows |-> call[p].req.to])]
  <2>1. ~Keeping(n)
    BY <1>0 DEF IsCall, Keeping
  <2> HIDE DEF n
  <2>2. Continue(p, n)
    BY <1>8 DEF SwapReads, n
  <2>. QED  BY <1>2, <2>1, <2>2
<1>9. CASE SwapTakesFacts(p)
  <2> DEFINE n == [call[p] EXCEPT !.stage = "install", !.first = manifest]
  <2>1. ~Keeping(n)
    BY <1>0 DEF IsCall, Keeping
  <2> HIDE DEF n
  <2>2. Return(p) \/ Continue(p, n)
    BY <1>9 DEF SwapTakesFacts, n
  <2>. QED  BY <1>1, <1>2, <2>1, <2>2
<1>10. CASE CompareFile(p)
  <2>1. ~Keeping([call[p] EXCEPT !.stage = "rename"])
    BY <1>0, ToStage DEF Keeping
  <2>. QED  BY <1>1, <1>2, <1>10, <2>1 DEF CompareFile
<1>11. CASE Refuse(p)
  BY <1>1, <1>11 DEF Refuse
<1>. QED  BY <1>3, <1>5, <1>6, <1>7, <1>8, <1>9, <1>10, <1>11

(* The steps that leave log and sidecars alone.                            *)
LEMMA LogIsLeft ==
  ASSUME WriteInv, WriteInv', LogInv, ~misfired, NEW p \in Procs,
         \/ Refuse(p) \/ Queue(p) \/ CreateReads(p) \/ CheckpointReads(p) \/ SwapReads(p)
         \/ SwapTakesFacts(p) \/ CompareFile(p)
         \/ LoadSummary(p) \/ LoadRows(p) \/ LoadAgain(p) \/ LoadReturns(p)
  PROVE  LogInv'
<1>1. UNCHANGED store /\ made'.births = made.births
  BY DEF Refuse, Queue, CreateReads, CheckpointReads, SwapReads, SwapTakesFacts,
    CompareFile, LoadSummary, LoadRows, LoadAgain, LoadReturns
<1>2. LogOK'
  BY <1>1, StoreUnchanged DEF LogInv
<1>3. \A q \in Procs \ {p} : call'[q] = call[q] /\ phase'[q] = phase[q]
  <2>1. Step(p)
    BY Zenon DEF Step
  <2>. QED  BY <2>1, CallIsOwn, StepIsOwn DEF WriteInv, LockInv
<1>4. phase'[p] = "held" => KeeperOK(p)'
  BY Unkept DEF KeeperOK, Keeping
<1>. QED  BY <1>1, <1>2, <1>3, <1>4, KeeperAlone

(* A step of a process that works under the lock, in the log's terms.      *)
LEMMA KeeperStep ==
  ASSUME WriteInv, LogInv, ~misfired, NEW p \in Procs, Step(p), phase[p] = "held",
         LogOK', phase'[p] = "held" => KeeperOK(p)'
  PROVE  LogInv'
<1>1. \A q \in Procs \ {p} : call'[q] = call[q] /\ phase'[q] = phase[q]
  BY CallIsOwn, StepIsOwn DEF WriteInv, LockInv
<1>. QED  BY <1>1, KeeperAlone

(* The manifest is installed or taken away.                                *)
LEMMA InstallLog ==
  ASSUME WriteInv, LogInv, ~misfired, NEW p \in Procs, Rename(p) \/ DiscardManifest(p)
  PROVE  LogInv'
<1>0. /\ LogOK /\ KeeperOK(p) /\ WriterOK(p) /\ phase[p] = "held" /\ IsCall(call[p])
      /\ made \in MadeType /\ LockTypeOK
  <2>1. phase[p] = "held"
    BY DEF Rename, DiscardManifest, At
  <2>. QED  BY <2>1 DEF LogInv, WriteInv, CallShape, LockInv
<1>1. log' = log /\ sidecars' = sidecars /\ Step(p)
  BY Zenon DEF Rename, DiscardManifest, Step
<1>2. log' \in Seq(Record \union {Torn}) /\ Sound' /\ Records' = Records
  BY <1>0, <1>1 DEF LogOK, Sound, SameIdentity, Records
<1>3. CASE Rename(p)
  <2>1. phase'[p] = "release"
    BY <1>0, <1>3, Returned DEF Rename
  <2>2. made'.births = IF call[p].req.op = "create" THEN made.births + 1 ELSE made.births
    BY <1>0, <1>3 DEF Rename, MadeType
  <2>3. call[p].req.op # "create" => manifest # None
    BY <1>0, <1>3 DEF WriterOK, Rename
  <2>4. made'.births # 0 /\ (made'.births = 1 => made.births = 0 \/ manifest # None)
    BY <1>0, <2>2, <2>3 DEF MadeType, LogOK
  <2>5. made.births = 0 => Records = {}
    BY <1>0 DEF LogOK, Records
  <2>6. made'.births = 1 => Covered
    BY <1>0, <2>2, <2>3, <2>5 DEF LogOK, Covered, MadeType
  <2>7. LogOK'
    BY <1>1, <1>2, <2>4, <2>6 DEF LogOK, Covered, SidecarOf
  <2>. QED  BY <1>0, <1>1, <2>1, <2>7, KeeperStep
<1>4. CASE DiscardManifest(p)
  <2> DEFINE n == [call[p] EXCEPT !.stage = "sweep"]
  <2>1. manifest' = None /\ made' = made /\ Continue(p, n)
    BY <1>4 DEF DiscardManifest
  <2>2. LogOK'
    BY <1>0, <1>1, <1>2, <2>1 DEF LogOK
  <2>4. n.stage = "sweep"
    BY <1>0, ToStage
  <2> HIDE DEF n
  <2>3. call'[p].stage = "sweep"
    BY <2>1, <2>4, Continued
  <2>5. KeeperOK(p)'
    BY <2>1, <2>3 DEF KeeperOK
  <2>. QED  BY <1>0, <1>1, <2>2, <2>5, KeeperStep
<1>. QED  BY <1>3, <1>4

(* A step that may fail, with a part of a line.                            *)
LEMMA FaultLog ==
  ASSUME WriteInv, LogInv, ~misfired, NEW p \in Procs, Fail(p) \/ Die(p)
  PROVE  LogInv'
<1>0. /\ LogOK /\ (phase[p] = "held" => KeeperOK(p)) /\ LockTypeOK /\ Step(p)
      /\ made' = made
  BY Zenon DEF LogInv, WriteInv, LockInv, Step, Fail, Die
<1>1. phase'[p] # "held"
  BY <1>0 DEF Fail, Die, FinishByFault, Crash, Leave, GoTo, BackTo, LockTypeOK
<1>2. \A q \in Procs \ {p} : call'[q] = call[q] /\ phase'[q] = phase[q]
  BY <1>0, CallIsOwn, StepIsOwn DEF WriteInv
<1>3. CASE UNCHANGED store
  BY <1>0, <1>1, <1>2, <1>3, StoreUnchanged, KeeperAlone
<1>4. CASE ~UNCHANGED store
  <2>1. /\ At(p, "quarantine", "append") /\ ~LogIsTorn
        /\ log' = Append(log, Torn) /\ UNCHANGED <<manifest, sidecars>>
    BY <1>4 DEF Fail, Die, TornTail
  <2>2. phase[p] = "held" /\ manifest # None
    BY <1>0, <2>1 DEF At, KeeperOK
  <2>3. log' \in Seq(Record \union {Torn}) /\ Sound' /\ Records' \subseteq Records
    BY <1>0, <2>1, AfterAppend DEF LogOK
  <2>4. LogOK'
    BY <1>0, <2>1, <2>2, <2>3 DEF LogOK, Covered, SidecarOf
  <2>. QED  BY <1>0, <1>1, <2>2, <2>4, KeeperStep
<1>. QED  BY <1>3, <1>4

(* The rest of a discarded manifest.                                       *)
LEMMA SweepLog ==
  ASSUME WriteInv, LogInv, ~misfired, NEW p \in Procs, DiscardRest(p)
  PROVE  LogInv'
<1>0. /\ LogOK /\ KeeperOK(p) /\ phase[p] = "held" /\ call[p].stage = "sweep"
      /\ LockTypeOK /\ Step(p) /\ manifest' = manifest /\ made' = made
  BY DEF LogInv, WriteInv, LockInv, Step, DiscardRest, At
<1>1. manifest = None
  BY <1>0 DEF KeeperOK
<1>2. log' = log \/ log' = <<>>
  BY DEF DiscardRest
<1>3. log' \in Seq(Record \union {Torn}) /\ Sound'
  <2>1. CASE log' = log
    BY <1>0, <2>1 DEF LogOK, Sound, SameIdentity
  <2>2. CASE log' = <<>>
    BY <2>2 DEF Sound
  <2>. QED  BY <1>2, <2>1, <2>2
<1>4. LogOK'
  BY <1>0, <1>1, <1>2, <1>3 DEF LogOK
<1>5. phase'[p] = "held" => KeeperOK(p)'
  <2>1. CASE Return(p)
    BY <1>0, <2>1, Returned
  <2>2. CASE call' = call
    BY <1>0, <1>1, <2>2 DEF KeeperOK
  <2>. QED  BY <2>1, <2>2 DEF DiscardRest
<1>. QED  BY <1>0, <1>4, <1>5, KeeperStep

(* The steps of an append.                                                 *)
LEMMA ReadLog ==
  ASSUME WriteInv, LogInv, ~misfired, NEW p \in Procs, QuarantineReads(p)
  PROVE  LogInv'
<1>0. /\ LogOK /\ phase[p] = "held" /\ IsCall(call[p]) /\ call[p].req \in Requests
      /\ call[p].req.op = "quarantine" /\ manifest # None
      /\ LockTypeOK /\ Step(p) /\ manifest' = manifest /\ log' = log /\ made' = made
  <2>1. phase[p] = "held" /\ call[p].req.op = "quarantine" /\ Expected(p)
    BY DEF QuarantineReads, At
  <2>2. LogOK /\ IsCall(call[p]) /\ call[p].req \in Requests /\ LockTypeOK
    BY <2>1 DEF LogInv, WriteInv, CallShape, HasCall, LockInv
  <2>. QED  BY <2>1, <2>2 DEF Step, QuarantineReads, Expected
<1>1. sidecars' = sidecars \/ sidecars' = SidecarsUpTo(LastVersion)
  BY DEF QuarantineReads
<1>2. LogOK'
  <2>1. Covered => Covered'
    <3>1. CASE sidecars' = sidecars
      <4>1. Records' = Records
        BY <1>0 DEF Records
      <4>. QED  BY <3>1, <4>1 DEF Covered
    <3>2. CASE sidecars' = SidecarsUpTo(LastVersion)
      BY <1>0, <3>2, AfterTidying DEF LogOK
    <3>. QED  BY <1>1, <3>1, <3>2
  <2>2. log' \in Seq(Record \union {Torn}) /\ Sound'
    BY <1>0 DEF LogOK, Sound, SameIdentity
  <2>. QED  BY <1>0, <2>1, <2>2 DEF LogOK
<1>3. CASE Return(p)
  BY <1>0, <1>2, <1>3, Returned, KeeperStep
<1>4. CASE ~Return(p)
  <2> DEFINE record == RecordFor(call[p].req)
             n == [call[p] EXCEPT !.stage = "sidecar", !.record = record]
  <2>1. ~LogIsTorn /\ ~IsDuplicate(record) /\ Continue(p, n)
    BY <1>4 DEF QuarantineReads
  <2>2. n.stage = "sidecar" /\ n.record = record
    BY <1>0 DEF IsCall
  <2>3. record \in Record /\ record.version = LastVersion + 1
    <3>1. call[p].req.expects \in Nat /\ call[p].req.replay \in Replays
          /\ call[p].req.at \in Times
      BY <1>0, StoreAssumption DEF Request
    <3>2. LastVersion + 1 \in Nat
      BY <1>0, LastIsGreatest DEF LogOK
    <3>. QED  BY <3>1, <3>2 DEF RecordFor, Record
  <2>4. ASSUME NEW s \in Records
        PROVE  s.version < record.version /\ ~SameIdentity(s, record)
    <3>1. s.version <= LastVersion /\ LastVersion \in Nat /\ s.version \in Nat
      BY <1>0, LastIsGreatest, LogFacts DEF LogOK
    <3>2. ~SameIdentity(record, s)
      BY <2>1 DEF IsDuplicate
    <3>3. s.version < record.version
      BY <2>3, <3>1
    <3>. QED  BY <3>2, <3>3 DEF SameIdentity
  <2>5. IsNext(record)
    BY <2>1, <2>3, <2>4 DEF IsNext
  <2> HIDE DEF record, n
  <2>6. call'[p] = n
    BY <2>1, Continued
  <2>7. Records' = Records /\ LogIsTorn' = LogIsTorn
    BY <1>0 DEF Records, LogIsTorn
  <2>8. IsNext(call[p].record)'
    BY <2>2, <2>5, <2>6, <2>7 DEF IsNext, SameIdentity
  <2>9. KeeperOK(p)'
    BY <1>0, <2>2, <2>6, <2>8 DEF KeeperOK
  <2>. QED  BY <1>0, <1>2, <2>9, KeeperStep
<1>. QED  BY <1>3, <1>4

LEMMA AppendLog ==
  ASSUME WriteInv, LogInv, ~misfired, NEW p \in Procs, KeepConflicts(p) \/ AppendRecord(p)
  PROVE  LogInv'
<1>0. /\ LogOK /\ KeeperOK(p) /\ phase[p] = "held" /\ IsCall(call[p])
      /\ call[p].stage \in {"sidecar", "append"}
      /\ LockTypeOK /\ Step(p) /\ manifest' = manifest /\ made' = made
  BY DEF LogInv, WriteInv, CallShape, LockInv, Step, KeepConflicts, AppendRecord, At
<1>1. manifest # None /\ IsNext(call[p].record) /\ made.births # 0
  BY <1>0 DEF KeeperOK, LogOK
<1>2. CASE KeepConflicts(p)
  <2> DEFINE n == [call[p] EXCEPT !.stage = "append"]
  <2>1. n.stage = "append" /\ n.record = call[p].record
    BY <1>0 DEF IsCall
  <2>2. /\ Continue(p, n) /\ log' = log
        /\ sidecars' = sidecars \union {SidecarOf(call[p].record)}
    BY <1>2 DEF KeepConflicts
  <2> HIDE DEF n
  <2>3. call'[p] = n
    BY <2>2, Continued
  <2>4. Records' = Records /\ LogIsTorn' = LogIsTorn
    BY <2>2 DEF Records, LogIsTorn
  <2>5. Covered => Covered'
    BY <2>2, <2>4 DEF Covered
  <2>6. log' \in Seq(Record \union {Torn}) /\ Sound'
    BY <1>0, <2>2 DEF LogOK, Sound, SameIdentity
  <2>7. LogOK'
    BY <1>0, <1>1, <2>5, <2>6 DEF LogOK
  <2>8. IsNext(call[p].record)'
    BY <1>1, <2>1, <2>3, <2>4 DEF IsNext, SameIdentity
  <2>9. KeeperOK(p)'
    BY <1>0, <1>1, <2>1, <2>2, <2>3, <2>8 DEF KeeperOK, SidecarOf
  <2>. QED  BY <1>0, <2>7, <2>9, KeeperStep
<1>3. CASE AppendRecord(p)
  <2> DEFINE record == call[p].record
  <2>1. /\ log' = Append(log, record) /\ sidecars' = sidecars /\ Return(p)
        /\ call[p].stage = "append"
    BY <1>3 DEF AppendRecord, At
  <2>2. record \in Record \union {Torn} /\ IsNext(record) /\ ~LogIsTorn
    BY <1>1 DEF IsNext
  <2>3. SidecarOf(record) \in sidecars
    BY <1>0, <2>1 DEF KeeperOK
  <2> HIDE DEF record
  <2>4. /\ log' \in Seq(Record \union {Torn}) /\ Sound'
        /\ Records' \subseteq Records \union ({record} \ {Torn})
    BY <1>0, <2>1, <2>2, AfterAppend DEF LogOK
  <2>5. Covered => Covered'
    BY <2>1, <2>3, <2>4 DEF Covered
  <2>6. LogOK'
    BY <1>0, <1>1, <2>4, <2>5 DEF LogOK
  <2>. QED  BY <1>0, <2>1, <2>6, Returned, KeeperStep
<1>. QED  BY <1>2, <1>3

(* The steps of a compaction.  What it unlinks is no sidecar of a record   *)
(* it retains, as no two records of a log have one version.                *)
LEMMA CompactionLog ==
  ASSUME WriteInv, LogInv, ~misfired, NEW p \in Procs, CompactLog(p)
  PROVE  LogInv'
<1>0. /\ LogOK /\ phase[p] = "held" /\ IsCall(call[p]) /\ manifest # None
      /\ made.births # 0 /\ LockTypeOK /\ Step(p)
      /\ manifest' = manifest /\ made' = made /\ sidecars' = sidecars
  <2>1. phase[p] = "held" /\ manifest # None
    BY DEF CompactLog, At, Expected
  <2>2. LogOK /\ IsCall(call[p]) /\ LockTypeOK
    BY DEF LogInv, WriteInv, CallShape, LockInv
  <2>. QED  BY <2>1, <2>2 DEF LogOK, Step, CompactLog
<1>1. CASE LogIsTorn
  <2>1. Return(p) /\ UNCHANGED store
    BY <1>0, <1>1 DEF CompactLog, store
  <2>2. LogOK'
    BY <1>0, <2>1, StoreUnchanged
  <2>. QED  BY <1>0, <2>1, <2>2, Returned, KeeperStep
<1>2. CASE ~LogIsTorn
  <2> DEFINE kept == Retained(call[p].req.since)
             doomed == {SidecarOf(log[i]) : i \in DOMAIN log \ kept}
             n == [call[p] EXCEPT !.stage = "unlink", !.doomed = doomed]
  <2>1. /\ Continue(p, n)
        /\ \E places \in [1 .. Cardinality(kept) -> kept] :
             InOrder(places) /\ log' = [k \in DOMAIN places |-> log[places[k]]]
    BY <1>2 DEF CompactLog
  <2>2. n.stage = "unlink" /\ n.doomed = doomed
    BY <1>0 DEF IsCall
  <2>3. kept \subseteq DOMAIN log /\ Cardinality(kept) \in Nat
    <3>1. kept \subseteq DOMAIN log
      BY DEF Retained
    <3>2. IsFiniteSet(DOMAIN log)
      BY <1>0, LogFacts, FS_Interval DEF LogOK
    <3>. QED  BY <3>1, <3>2, FS_Subset, FS_CardinalityType
  <2>4. ASSUME NEW i \in DOMAIN log \ kept, NEW j \in kept
        PROVE  SidecarOf(log[j]) # SidecarOf(log[i])
    <3>1. log[i] # Torn /\ log[j] # Torn /\ j \in DOMAIN log /\ i # j
      BY <1>2, <2>3, <2>4 DEF LogIsTorn
    <3>2. log[i].version \in Nat /\ log[j].version \in Nat
      BY <1>0, <2>4, <3>1, LogFacts DEF LogOK
    <3>3. log[i].version # log[j].version
      <4>1. CASE i < j
        BY <1>0, <2>4, <3>1, <3>2, <4>1 DEF LogOK, Sound
      <4>2. CASE j < i
        BY <1>0, <2>4, <3>1, <3>2, <4>2 DEF LogOK, Sound
      <4>3. i \in Nat /\ j \in Nat
        BY <1>0, <2>4, <3>1, LogFacts DEF LogOK
      <4>. QED  BY <3>1, <4>1, <4>2, <4>3
    <3>. QED  BY <3>3 DEF SidecarOf
  <2> HIDE DEF n
  <2>size. PICK size \in Nat : size = Cardinality(kept)
    BY <2>3
  <2>5. PICK places \in [1 .. size -> kept] :
          InOrder(places) /\ log' = [k \in DOMAIN places |-> log[places[k]]]
    BY <2>1, <2>size
  <2> HIDE DEF kept
  <2>6. /\ log' \in Seq(Record \union {Torn}) /\ Sound'
        /\ \A r \in Records' : \E k \in 1 .. size : r = log[places[k]] /\ r # Torn
        /\ Records' \subseteq Records
    <3>1. /\ places \in [1 .. size -> DOMAIN log]
          /\ log' = [k \in 1 .. size |-> log[places[k]]]
      BY <2>3, <2>5
    <3>2. log \in Seq(Record \union {Torn}) /\ Sound
      BY <1>0 DEF LogOK
    <3>. QED  BY <2>5, <3>1, <3>2, AfterChoice
  <2>7. \A r \in Records' : \E j \in kept : r = log[j]
    BY <2>5, <2>6
  <2>8. \A r \in Records' : SidecarOf(r) \notin doomed
    BY <2>4, <2>7
  <2>9. LogOK'
    BY <1>0, <2>6 DEF LogOK, Covered
  <2>10. call'[p] = n
    BY <2>1, Continued
  <2> HIDE DEF doomed
  <2>11. KeeperOK(p)'
    BY <2>2, <2>8, <2>10 DEF KeeperOK
  <2>. QED  BY <1>0, <2>9, <2>11, KeeperStep
<1>. QED  BY <1>1, <1>2

LEMMA UnlinkLog ==
  ASSUME WriteInv, LogInv, ~misfired, NEW p \in Procs, CompactSidecars(p)
  PROVE  LogInv'
<1>0. /\ LogOK /\ KeeperOK(p) /\ phase[p] = "held" /\ IsCall(call[p])
      /\ call[p].stage = "unlink" /\ LockTypeOK /\ Step(p)
      /\ manifest' = manifest /\ made' = made /\ log' = log
  BY DEF LogInv, WriteInv, CallShape, LockInv, Step, CompactSidecars, At
<1>1. Records' = Records /\ log' \in Seq(Record \union {Torn}) /\ Sound'
  BY <1>0 DEF LogOK, Sound, SameIdentity, Records
<1>2. CASE Return(p) /\ UNCHANGED sidecars
  <2>1. LogOK'
    BY <1>0, <1>1, <1>2 DEF LogOK, Covered
  <2>. QED  BY <1>0, <1>2, <2>1, Returned, KeeperStep
<1>3. ASSUME NEW s \in call[p].doomed, sidecars' = sidecars \ {s},
             Continue(p, [call[p] EXCEPT !.doomed = @ \ {s}])
      PROVE  LogInv'
  <2> DEFINE n == [call[p] EXCEPT !.doomed = call[p].doomed \ {s}]
  <2>1. n.stage = "unlink" /\ n.doomed = call[p].doomed \ {s}
    BY <1>0 DEF IsCall
  <2>2. Continue(p, n)
    BY <1>3
  <2> HIDE DEF n
  <2>3. call'[p] = n
    BY <2>2, Continued
  <2>4. \A r \in Records : SidecarOf(r) \notin call[p].doomed
    BY <1>0 DEF KeeperOK
  <2>5. LogOK'
    BY <1>0, <1>1, <1>3, <2>4 DEF LogOK, Covered
  <2>6. KeeperOK(p)'
    BY <1>1, <2>1, <2>3, <2>4 DEF KeeperOK
  <2>. QED  BY <1>0, <2>5, <2>6, KeeperStep
<1>. QED  BY <1>2, <1>3 DEF CompactSidecars

(* The steps of a repair.                                                  *)
LEMMA RepairLog ==
  ASSUME WriteInv, LogInv, ~misfired, NEW p \in Procs, RepairTail(p) \/ RepairSidecars(p)
  PROVE  LogInv'
<1>0. /\ LogOK /\ phase[p] = "held" /\ IsCall(call[p]) /\ LockTypeOK /\ Step(p)
      /\ manifest' = manifest /\ made' = made
  BY DEF LogInv, WriteInv, CallShape, LockInv, Step, RepairTail, RepairSidecars, At
<1>1. CASE RepairSidecars(p)
  <2>1. log' = log /\ sidecars' = SidecarsUpTo(LastVersion) /\ Return(p)
    BY <1>1 DEF RepairSidecars
  <2>2. Covered => Covered'
    BY <1>0, <2>1, AfterTidying DEF LogOK
  <2>3. log' \in Seq(Record \union {Torn}) /\ Sound'
    BY <1>0, <2>1 DEF LogOK, Sound, SameIdentity
  <2>4. LogOK'
    BY <1>0, <2>1, <2>2, <2>3 DEF LogOK
  <2>. QED  BY <1>0, <2>1, <2>4, Returned, KeeperStep
<1>2. CASE RepairTail(p) /\ ~TornAtTail
  <2>1. UNCHANGED store /\ Return(p)
    BY <1>2 DEF RepairTail, store
  <2>2. LogOK'
    BY <1>0, <2>1, StoreUnchanged
  <2>. QED  BY <1>0, <2>1, <2>2, Returned, KeeperStep
<1>3. CASE RepairTail(p) /\ TornAtTail
  <2> DEFINE m == Len(log) - 1
             places == [k \in 1 .. m |-> k]
             n == [call[p] EXCEPT !.stage = "tidy"]
  <2>1. log' = SubSeq(log, 1, m) /\ sidecars' = sidecars /\ Continue(p, n) /\ log # <<>>
    BY <1>3 DEF RepairTail, TornAtTail
  <2>2. m \in Nat /\ places \in [1 .. m -> DOMAIN log]
    BY <1>0, <2>1, LogFacts DEF LogOK
  <2>3. log' = [k \in 1 .. m |-> log[places[k]]]
    BY <1>0, <2>1, <2>2 DEF LogOK
  <2>4. InOrder(places)
    BY DEF InOrder
  <2>5. n.stage = "tidy"
    BY <1>0, ToStage
  <2> HIDE DEF n, m, places
  <2>6. log' \in Seq(Record \union {Torn}) /\ Sound' /\ Records' \subseteq Records
    BY <1>0, <2>2, <2>3, <2>4, AfterChoice DEF LogOK
  <2>7. made.births # 0
    BY <1>0, <1>3 DEF LogOK, RepairTail, Expected
  <2>8. LogOK'
    BY <1>0, <2>1, <2>6, <2>7 DEF LogOK, Covered
  <2>9. call'[p] = n
    BY <2>1, Continued
  <2>10. KeeperOK(p)'
    BY <2>5, <2>9 DEF KeeperOK
  <2>. QED  BY <1>0, <2>8, <2>10, KeeperStep
<1>. QED  BY <1>1, <1>2, <1>3

LEMMA InitLogInv == Init => LogInv
<1> SUFFICES ASSUME Init PROVE LogInv
  OBVIOUS
<1>1. phase = [p \in Procs |-> "idle"] /\ log = <<>> /\ manifest = None
  BY DEF Init, LockInit
<1>. QED  BY <1>1 DEF LogInv, LogOK, Sound

LEMMA NextLogInv == WriteInv /\ WriteInv' /\ LogInv /\ [Next]_vars => LogInv'
<1> SUFFICES ASSUME WriteInv, WriteInv', LogInv, [Next]_vars, ~misfired'
             PROVE  LogInv'
  BY DEF LogInv
<1>1. ~misfired
  BY MisfireStays
<1>2. CASE UNCHANGED vars
  <2>1. UNCHANGED store /\ UNCHANGED <<manifest, log, sidecars, call, phase, made>>
    BY <1>2 DEF vars, lock, store
  <2>2. LogOK'
    BY <1>1, <2>1, StoreUnchanged DEF LogInv
  <2>. QED  BY <1>1, <2>1, <2>2
            DEF LogInv, KeeperOK, IsNext, Records, LogIsTorn, SidecarOf, SameIdentity
<1>3. ASSUME NEW p \in Procs, NEW request \in Requests, Invoke(p, request)
      PROVE  LogInv'
  <2>1. LogOK'
    BY <1>1, <1>3, Invoked, StoreUnchanged DEF LogInv
  <2>2. \A q \in Procs \ {p} : call'[q] = call[q] /\ phase'[q] = phase[q]
    BY <1>3, Invoked, StepIsOwn DEF WriteInv, LockInv
  <2>. QED  BY <1>1, <1>3, <2>1, <2>2, Invoked, KeeperAlone
<1>4. ASSUME NEW p \in Procs, Step(p)
      PROVE  LogInv'
  BY <1>1, <1>4, LogIsLeft, InstallLog, FaultLog, SweepLog, ReadLog, AppendLog,
     CompactionLog, UnlinkLog, RepairLog DEF Step
<1>. QED  BY <1>2, <1>3, <1>4 DEF Next

LEMMA QuarantineKeeps == Spec => [](WriteInv /\ LogInv)
BY InitWriteInv, NextWriteInv, InitLogInv, NextLogInv, PTL DEF Spec

(* A torn line stays the last one, versions go up along the log, and each  *)
(* replay is in it once, whatever processes append, compact and repair and *)
(* wherever they crash.                                                    *)
THEOREM LogStaysSound == Spec => []LogIsSound
<1>1. WriteInv /\ LogInv => LogIsSound
  BY DEF LogInv, LogOK, Sound, LogIsSound
<1>. QED  BY <1>1, QuarantineKeeps, PTL

(* The conflicts of a record are on disk as long as the record is.         *)
THEOREM ConflictsStay == Spec => []RecordsHaveConflicts
<1>1. WriteInv /\ LogInv => RecordsHaveConflicts
  BY DEF LogInv, LogOK, Covered, RecordsHaveConflicts
<1>. QED  BY <1>1, QuarantineKeeps, PTL
=============================================================================
