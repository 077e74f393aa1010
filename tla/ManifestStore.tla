----------------------------- MODULE ManifestStore -----------------------------
(***************************************************************************)
(* One import manifest in a FileManifestStore and its replay quarantine:   *)
(* the manifest file, the quarantine log, and the conflict sidecars.       *)
(*                                                                         *)
(* Every operation that writes runs under the lock of ManifestLock and is  *)
(* guarded by the version its caller expects; it takes several steps, with *)
(* a crash possible between any two.  load takes no lock and reads the     *)
(* file three times.  A process is one call at a time.                     *)
(***************************************************************************)
EXTENDS ManifestLock, Sequences, FiniteSets

CONSTANTS
  Rows,       \* the row identities of the manifest
  Replays,    \* replays of the import that conflict with it
  Times,      \* values of recordedAt
  Requests,   \* what the host asks of the store
  MaxCalls    \* bound of a run

ImportCheckpoint ==
  {"planned", "publishing", "published_unsynced", "complete", "conflict", "failed"}

(* The operations a host may call, with the manifest version it expects.   *)
Request ==
  [op : {"create", "load"}]
    \union [op : {"checkpoint"}, expects : Nat, row : Rows, to : ImportCheckpoint]
    \union [op : {"swap"}, expects : Nat, to : ImportCheckpoint]
    \union [op : {"discard", "repair"}, expects : Nat]
    \union [op : {"quarantine"}, expects : Nat, replay : Replays, at : Times]
    \union [op : {"compact"}, expects : Nat, since : Times]

(* A manifest file.  "ino" names the file, and "birth" the create that the *)
(* manifest goes back to; neither is in the file.                          *)
Manifest ==
  [ino : Nat, birth : Nat, version : Nat, rows : [Rows -> ImportCheckpoint]]

(* What a caller sees of it.                                               *)
Snapshot == [birth : Nat, version : Nat, rows : [Rows -> ImportCheckpoint]]
Shown(file, rows) == [birth |-> file.birth, version |-> file.version, rows |-> rows]

(* A quarantine record.  Its identity hash is made of the replay and the   *)
(* manifest version the replay was compared with.                          *)
Record == [version : Nat, manifestVersion : Nat, replay : Replays, at : Times]
Torn == None

ASSUME StoreAssumption ==
  /\ Times \subseteq Nat
  /\ Requests \subseteq Request
  /\ MaxCalls \in Nat
  /\ None \notin Manifest /\ None \notin Record /\ None \notin Request
  /\ None \notin Snapshot

(* The sidecar of a record is named by the record's version and identity.  *)
SidecarOf(r) ==
  [version |-> r.version, manifestVersion |-> r.manifestVersion, replay |-> r.replay]

SameIdentity(r, s) == r.manifestVersion = s.manifestVersion /\ r.replay = s.replay

VARIABLES
  manifest,  \* the manifest file, or None
  log,       \* the lines of the quarantine log
  sidecars,  \* the conflict files
  call,      \* the call of each process
  made       \* files installed, manifests created, and calls made

store == <<manifest, log, sidecars>>
vars == <<lock, store, call, made>>

(* A call: the file it read first, what it is to install or append, and    *)
(* the sidecars it is to unlink.                                           *)
NoCall ==
  [req |-> None, stage |-> "none", first |-> None, second |-> None,
   record |-> None, doomed |-> {}]

Init ==
  /\ LockInit
  /\ manifest = None
  /\ log = <<>>
  /\ sidecars = {}
  /\ call = [p \in Procs |-> NoCall]
  /\ made = [files |-> 0, births |-> 0, calls |-> 0]

Records == {log[i] : i \in {j \in DOMAIN log : log[j] # Torn}}
LogIsTorn == \E i \in DOMAIN log : log[i] = Torn
LastVersion ==
  IF Records = {} THEN 0
  ELSE CHOOSE v \in {r.version : r \in Records} : \A r \in Records : r.version <= v

(***************************************************************************)
(* Calls.                                                                  *)
(***************************************************************************)
At(p, op, stage) ==
  /\ call[p].stage = stage /\ call[p].req.op = op
  /\ phase[p] = IF op = "load" THEN "idle" ELSE "held"

(* The operation goes on, or it is over: by a result or by an exception.   *)
Continue(p, next) == call' = [call EXCEPT ![p] = next] /\ UNCHANGED lock
Return(p) == Finish(p) /\ call' = [call EXCEPT ![p] = NoCall]

Invoke(p, request) ==
  /\ call[p].stage = "none" /\ phase[p] = "idle"
  /\ made.calls < MaxCalls
  /\ made' = [made EXCEPT !.calls = @ + 1]
  /\ call' = [call EXCEPT ![p] = [NoCall EXCEPT !.req = request, !.stage = "start"]]
  /\ IF request.op = "load" THEN UNCHANGED lock ELSE Want(p)
  /\ UNCHANGED store

(* Mutant: the version is taken for a lower bound.                         *)
ExpectedOrLater(p) == manifest # None /\ manifest.version >= call[p].req.expects

(* The manifest has the version the caller expects.                        *)
Expected(p) == manifest # None /\ manifest.version = call[p].req.expects

(* A mutating call that finds another version, or none.                    *)
Refuse(p) ==
  /\ phase[p] = "held"
  /\ call[p].stage = "start" /\ call[p].req.op # "create"
  /\ ~Expected(p)
  /\ Return(p)
  /\ UNCHANGED <<store, made>>

(* Any step under the lock may fail.  A write to the log that fails may    *)
(* leave a part of its line.                                               *)
TornTail(p) ==
  \/ UNCHANGED store
  \/ /\ At(p, "quarantine", "append") /\ ~LogIsTorn
     /\ log' = Append(log, Torn)
     /\ UNCHANGED <<manifest, sidecars>>

Fail(p) ==
  /\ FinishByFault(p)
  /\ call' = [call EXCEPT ![p] = NoCall]
  /\ TornTail(p)
  /\ UNCHANGED made

(* Getting and releasing the lock.  A call that gives up waiting is over.  *)
Queue(p) ==
  /\ Around(p)
  /\ call' = IF phase'[p] = "idle" THEN [call EXCEPT ![p] = NoCall] ELSE call
  /\ UNCHANGED <<store, made>>

Die(p) ==
  /\ Crash(p)
  /\ call' = [call EXCEPT ![p] = NoCall]
  /\ TornTail(p)
  /\ UNCHANGED made

(***************************************************************************)
(* Writing the manifest: create, checkpointRow and compareAndSwap.         *)
(***************************************************************************)
allowedTransitions(checkpoint) ==
  CASE checkpoint = "planned" -> {"publishing", "conflict", "failed"}
    [] checkpoint = "publishing" -> {"published_unsynced", "conflict", "failed"}
    [] checkpoint = "published_unsynced" -> {"complete", "conflict", "failed"}
    [] checkpoint = "failed" -> {"publishing", "conflict"}
    [] OTHER -> {}

(* Mutant: the rows are replaced under the version they had.               *)
SameVersionAgain(rows) == [manifest EXCEPT !.rows = rows]

(* The file to be installed: the manifest as read, its next version, and   *)
(* new rows.  A new inode comes with the rename.                           *)
NextVersion(rows) == [manifest EXCEPT !.version = @ + 1, !.rows = rows]

FirstVersion ==
  [ino |-> 0, birth |-> made.births + 1, version |-> 1,
   rows |-> [r \in Rows |-> "planned"]]

CreateReads(p) ==
  /\ At(p, "create", "start")
  /\ IF manifest = None
     THEN Continue(p, [call[p] EXCEPT !.stage = "install", !.second = FirstVersion])
     ELSE Return(p)
  /\ UNCHANGED <<store, made>>

(* checkpointRow reads through one handle and remembers its inode.         *)
CheckpointReads(p) ==
  LET req == call[p].req IN
  /\ At(p, "checkpoint", "start") /\ Expected(p)
  /\ IF req.to \in allowedTransitions(manifest.rows[req.row])
     THEN Continue(p, [call[p] EXCEPT !.stage = "install", !.first = manifest,
            !.second = NextVersion([manifest.rows EXCEPT ![req.row] = req.to])])
     ELSE Return(p)
  /\ UNCHANGED <<store, made>>

(* compareAndSwap leaves the rows to its caller's function, here one that  *)
(* gives every row one checkpoint.  It takes the inode after it has read.  *)
SwapReads(p) ==
  /\ At(p, "swap", "start") /\ Expected(p)
  /\ Continue(p, [call[p] EXCEPT !.stage = "facts",
       !.second = NextVersion([r \in Rows |-> call[p].req.to])])
  /\ UNCHANGED <<store, made>>

SwapTakesFacts(p) ==
  /\ At(p, "swap", "facts")
  /\ IF manifest = None THEN Return(p)
     ELSE Continue(p, [call[p] EXCEPT !.stage = "install", !.first = manifest])
  /\ UNCHANGED <<store, made>>

(* #installFinal: the path still names the file that was read, or none.    *)
Unmoved(p) ==
  IF call[p].first = None THEN manifest = None
  ELSE manifest # None /\ manifest.ino = call[p].first.ino

CompareFile(p) ==
  /\ phase[p] = "held" /\ call[p].stage = "install"
  /\ IF Unmoved(p) THEN Continue(p, [call[p] EXCEPT !.stage = "rename"])
     ELSE Return(p)
  /\ UNCHANGED <<store, made>>

Rename(p) ==
  /\ phase[p] = "held" /\ call[p].stage = "rename"
  /\ manifest' = [call[p].second EXCEPT !.ino = made.files + 1]
  /\ made' = [made EXCEPT !.files = @ + 1,
                !.births = IF call[p].req.op = "create" THEN @ + 1 ELSE @]
  /\ Return(p)
  /\ UNCHANGED <<log, sidecars>>

(* discardManifest: the manifest goes first, then what it leaves, one file *)
(* at a time and in the order of the directory.                            *)
DiscardManifest(p) ==
  /\ At(p, "discard", "start") /\ Expected(p)
  /\ manifest' = None
  /\ Continue(p, [call[p] EXCEPT !.stage = "sweep"])
  /\ UNCHANGED <<log, sidecars, made>>

DiscardRest(p) ==
  /\ At(p, "discard", "sweep")
  /\ \/ log # <<>> /\ log' = <<>> /\ UNCHANGED <<lock, call, sidecars>>
     \/ /\ \E s \in sidecars : sidecars' = sidecars \ {s}
        /\ UNCHANGED <<lock, call, log>>
     \/ log = <<>> /\ sidecars = {} /\ Return(p) /\ UNCHANGED <<log, sidecars>>
  /\ UNCHANGED <<manifest, made>>

(***************************************************************************)
(* The replay quarantine: compareAndAppendReplayQuarantine,                *)
(* compactReplayQuarantines and repairReplayQuarantineTail.                *)
(***************************************************************************)
RecordFor(req) ==
  [version |-> LastVersion + 1, manifestVersion |-> req.expects,
   replay |-> req.replay, at |-> req.at]

(* Mutant: the same replay is appended again.                              *)
IsDuplicateOfLast(r) == \E s \in Records : s.version = r.version /\ SameIdentity(r, s)

IsDuplicate(r) == \E s \in Records : SameIdentity(r, s)

(* Mutant: the sidecar of the last record is taken for a leftover.         *)
SidecarsBefore(version) == {s \in sidecars : s.version < version}

(* #removeConflictVersionsAfter: what a crash before the append has left.  *)
SidecarsUpTo(version) == {s \in sidecars : s.version <= version}

(* A torn log is refused; a replay that is in the log is not added again.  *)
QuarantineReads(p) ==
  LET record == RecordFor(call[p].req) IN
  /\ At(p, "quarantine", "start") /\ Expected(p)
  /\ IF LogIsTorn THEN Return(p) /\ UNCHANGED sidecars
     ELSE /\ sidecars' = SidecarsUpTo(LastVersion)
          /\ IF IsDuplicate(record) THEN Return(p)
             ELSE Continue(p, [call[p] EXCEPT !.stage = "sidecar", !.record = record])
  /\ UNCHANGED <<manifest, log, made>>

KeepConflicts(p) ==
  /\ At(p, "quarantine", "sidecar")
  /\ sidecars' = sidecars \union {SidecarOf(call[p].record)}
  /\ Continue(p, [call[p] EXCEPT !.stage = "append"])
  /\ UNCHANGED <<manifest, log, made>>

AppendRecord(p) ==
  /\ At(p, "quarantine", "append")
  /\ log' = Append(log, call[p].record)
  /\ Return(p)
  /\ UNCHANGED <<manifest, sidecars, made>>

(* The lines of the log that a compaction retains.                         *)
Retained(since) == {i \in DOMAIN log : log[i].at >= since}

InOrder(places) == \A i, j \in DOMAIN places : i < j => places[i] < places[j]

(* The retained records replace the log, in the order they have, then the  *)
(* sidecars of the others are unlinked one by one.                         *)
CompactLog(p) ==
  LET kept == Retained(call[p].req.since) IN
  /\ At(p, "compact", "start") /\ Expected(p)
  /\ IF LogIsTorn THEN Return(p) /\ UNCHANGED log
     ELSE /\ \E places \in [1 .. Cardinality(kept) -> kept] :
               InOrder(places) /\ log' = [k \in DOMAIN places |-> log[places[k]]]
          /\ Continue(p, [call[p] EXCEPT !.stage = "unlink",
               !.doomed = {SidecarOf(log[i]) : i \in DOMAIN log \ kept}])
  /\ UNCHANGED <<manifest, sidecars, made>>

CompactSidecars(p) ==
  /\ At(p, "compact", "unlink")
  /\ \/ \E s \in call[p].doomed :
          /\ sidecars' = sidecars \ {s}
          /\ Continue(p, [call[p] EXCEPT !.doomed = @ \ {s}])
     \/ call[p].doomed = {} /\ Return(p) /\ UNCHANGED sidecars
  /\ UNCHANGED <<manifest, log, made>>

(* The torn line is cut off; complete lines are left alone.                *)
TornAtTail == log # <<>> /\ log[Len(log)] = Torn

RepairTail(p) ==
  /\ At(p, "repair", "start") /\ Expected(p)
  /\ IF TornAtTail
     THEN /\ log' = SubSeq(log, 1, Len(log) - 1)
          /\ Continue(p, [call[p] EXCEPT !.stage = "tidy"])
     ELSE Return(p) /\ UNCHANGED log
  /\ UNCHANGED <<manifest, sidecars, made>>

RepairSidecars(p) ==
  /\ At(p, "repair", "tidy")
  /\ sidecars' = SidecarsUpTo(LastVersion)
  /\ Return(p)
  /\ UNCHANGED <<manifest, log, made>>

(***************************************************************************)
(* load: the summary, the rows, and the summary again, without the lock.   *)
(***************************************************************************)
LoadSummary(p) ==
  /\ At(p, "load", "start")
  /\ Continue(p, IF manifest = None THEN NoCall
                 ELSE [call[p] EXCEPT !.stage = "rows", !.first = manifest])
  /\ UNCHANGED <<store, made>>

LoadRows(p) ==
  /\ At(p, "load", "rows")
  /\ Continue(p, IF manifest = None THEN NoCall
                 ELSE [call[p] EXCEPT !.stage = "again", !.second = manifest])
  /\ UNCHANGED <<store, made>>

(* Mutant: load does not look at the summary again.                        *)
FoundAgain(p) == manifest # None

SameVersion(p) == manifest # None /\ manifest.version = call[p].first.version

LoadAgain(p) ==
  /\ At(p, "load", "again")
  /\ Continue(p, IF SameVersion(p) THEN [call[p] EXCEPT !.stage = "loaded"]
                 ELSE NoCall)
  /\ UNCHANGED <<store, made>>

(* The caller has the summary of the first file and the rows of the second.*)
LoadReturns(p) ==
  /\ At(p, "load", "loaded")
  /\ Continue(p, NoCall)
  /\ UNCHANGED <<store, made>>

Step(p) ==
  \/ Refuse(p) \/ Fail(p) \/ Queue(p) \/ Die(p)
  \/ CreateReads(p) \/ CheckpointReads(p) \/ SwapReads(p) \/ SwapTakesFacts(p)
  \/ CompareFile(p) \/ Rename(p) \/ DiscardManifest(p) \/ DiscardRest(p)
  \/ QuarantineReads(p) \/ KeepConflicts(p) \/ AppendRecord(p)
  \/ CompactLog(p) \/ CompactSidecars(p) \/ RepairTail(p) \/ RepairSidecars(p)
  \/ LoadSummary(p) \/ LoadRows(p) \/ LoadAgain(p) \/ LoadReturns(p)

Next ==
  \E p \in Procs : Step(p) \/ \E request \in Requests : Invoke(p, request)

Spec == Init /\ [][Next]_vars

(***************************************************************************)
(* Properties.  All but the last hold as long as no unlink of a lock file  *)
(* has misfired; the last is what that costs.                              *)
(***************************************************************************)
Swapping == \E p \in Procs : At(p, "swap", "rename")

(* The caller that changes the manifest has expected the version it had.   *)
ByExpectation ==
  \E p \in Procs :
    /\ phase[p] = "held" /\ call'[p] # call[p]
    /\ call[p].req.op \in {"checkpoint", "swap", "discard"}
    /\ call[p].req.expects = manifest.version

(* The manifest goes to its next version, and by a checkpoint only in one  *)
(* row.                                                                    *)
OneVersionOn ==
  manifest' # None =>
    /\ manifest'.birth = manifest.birth
    /\ manifest'.version = manifest.version + 1
    /\ ~Swapping => \E r \in Rows :
         /\ manifest.rows[r] \notin {"complete", "conflict"}
         /\ \A s \in Rows \ {r} : manifest'.rows[s] = manifest.rows[s]

(* Every change of the manifest is made by a caller that expected the      *)
(* version it changes, and takes it to the next one: no update is lost.    *)
(* But for compareAndSwap, whose caller decides, it changes one row, and   *)
(* no row that is complete or in conflict.                                 *)
NoLostUpdate ==
  [][~misfired /\ manifest # None => ByExpectation /\ OneVersionOn]_manifest

(* A record never enters the log before the conflicts it stands for are on *)
(* disk, and they stay as long as it does, through crashes of appends and  *)
(* compactions.  (A discard that crashed leaves records to the manifest    *)
(* that is next created under the id, maybe without their conflicts.)      *)
RecordsHaveConflicts ==
  ~misfired /\ manifest # None /\ made.births = 1 =>
    \A r \in Records : SidecarOf(r) \in sidecars

(* A torn line is never followed by another one, versions go up along the  *)
(* log, and a replay is in it once, however often it is repeated.          *)
LogIsSound ==
  ~misfired =>
    \A i, j \in DOMAIN log : i < j =>
      /\ log[i] # Torn
      /\ log[j] # Torn => log[i].version < log[j].version
                            /\ ~SameIdentity(log[i], log[j])

(* load returns the summary and the rows of one file, whatever was written *)
(* between its reads, unless the manifest it read has been discarded.      *)
LoadIsOneVersion ==
  \A p \in Procs :
    ~misfired /\ At(p, "load", "loaded") /\ manifest # None
      /\ manifest.birth = call[p].first.birth => call[p].second = call[p].first

Loading(p) == call[p].stage \in {"rows", "again", "loaded"}

Versioned ==
  INSTANCE VersionedStore WITH
    Callers <- Procs, Contents <- [Rows -> ImportCheckpoint],
    First <- [r \in Rows |-> "planned"],
    current <- IF manifest = None THEN None ELSE Shown(manifest, manifest.rows),
    births <- made.births,
    view <- [p \in Procs |-> IF Loading(p) THEN Shown(call[p].first, call[p].first.rows)
                             ELSE None],
    answer <- [p \in Procs |-> IF call[p].stage = "loaded"
                               THEN Shown(call[p].first, call[p].second.rows) ELSE None],
    sound <- ~misfired

(* The files, the lock and the three reads of a load amount to the store   *)
(* of VersionedStore.                                                      *)
StoreIsVersioned == Versioned!Spec

(* What a test of the store says it does after a process has died: it      *)
(* "recovers a dead-process lock without weakening compare-and-swap".      *)
OneWinnerPerVersion ==
  [][\A p \in Procs :
       phase[p] = "held" /\ call'[p] # call[p]
         /\ call[p].stage = "rename" /\ call[p].req.op # "create"
       => manifest # None /\ manifest.version = call[p].req.expects]_manifest
=============================================================================
