--------------------------- MODULE StreamingImport ---------------------------
(***************************************************************************)
(* Planning and replaying an import: planImportStream of the file store,   *)
(* planImportStream of the browser, and replayImport, each a call that     *)
(* reads a source row by row, sorts what it has spooled in a workspace     *)
(* (ExternalSort) and then commits to the store or throws.                 *)
(*                                                                         *)
(* One manifest id; one importer at a time, while the host checkpoints or  *)
(* discards the manifest and another store reaps abandoned workspaces.     *)
(* What the store does is one step here; ManifestStore has the steps.      *)
(***************************************************************************)
EXTENDS ExternalSort

CONSTANTS
  Sources,       \* the sources an import may have
  Codes,         \* orders base64url may give to the row identities
  Hosts,         \* "file" for a Node host, "browser" for a browser
  Current,       \* currentItems, by row identity
  GeneratedIds,  \* listing ids that may be generated
  MaxCalls, MaxHostSteps, MaxFaults,  \* bounds of a run
  None

(* A row of a source.  Listing, variant and SKU (0 for none) stand for     *)
(* their texts.  The facts are the columns all rows of a listing share; a  *)
(* listing id 0 has to be generated, and revision 0 is none.               *)
Facts == [listingId : Nat, revision : Nat, ended : {0, 1}, price : Nat]
CanonicalRow == [listing : Nat \ {0}, variant : Nat, sku : Nat, facts : Facts, quantity : Nat]

(* A source that is not whole ends in a row that cannot be parsed.         *)
Source == [rows : Seq(CanonicalRow), whole : BOOLEAN]

(* A row of a manifest, and a manifest, as the store keeps them.           *)
ImportAction == {"create", "update", "end", "unchanged", "conflict"}
ImportCheckpoint ==
  {"planned", "publishing", "published_unsynced", "complete", "conflict", "failed"}
PlannedImportRow ==
  [identity : Seq(Nat), hash : Seq(Nat), listing : Nat, listingId : Nat, generated : Nat,
   action : ImportAction, checkpoint : ImportCheckpoint]
ImportManifest == [version : Nat, rows : Seq(PlannedImportRow), source : Source]

ASSUME ImportAssumption ==
  /\ Sources \subseteq Source
  /\ Hosts \subseteq {"file", "browser"}
  /\ MaxCalls \in Nat /\ MaxHostSteps \in Nat /\ MaxFaults \in Nat
  /\ None \notin Source \union ImportManifest

VARIABLES
  setting,     \* the host and the order of the encoded identities
  manifest,    \* the manifest in the store, or None
  quarantine,  \* the replays the store has quarantined
  job,         \* the call of the importer
  spool,       \* the files of its workspace
  result,      \* what the last call has returned
  workspaces,  \* pids whose workspace exists
  pid,         \* the pid of the importer
  spent        \* what the run has used of its bounds

vars == <<sorter, setting, manifest, quarantine, job, spool, result, workspaces, pid, spent>>
world == <<setting, manifest, quarantine, workspaces, pid>>

Stage ==
  {"idle", "summary", "open", "parse", "index", "rows", "plan", "generated", "commit",
   "stream", "existing", "join", "record", "cleanup"}

NoJob ==
  [op |-> None, source |-> None, stage |-> "idle", at |-> 0,
   summary |-> None, listing |-> 0, generated |-> 0, outcome |-> None]

NoSpool ==
  [index |-> <<>>, rows |-> <<>>, planned |-> <<>>, generated |-> <<>>,
   existing |-> <<>>, conflicts |-> <<>>]

Init ==
  /\ SortInit
  /\ setting \in [host : Hosts, code : Codes]
  /\ manifest = None /\ quarantine = {}
  /\ job = NoJob /\ spool = NoSpool /\ result = None
  /\ workspaces = {} /\ pid = 1
  /\ spent = [calls |-> 0, host |-> 0, faults |-> 0]

(***************************************************************************)
(* Identities, hashes, and the lines of the spools.                        *)
(***************************************************************************)
ListingFactsHash(row) ==
  LET f == row.facts IN <<f.listingId, f.revision, f.ended, f.price>>
NormalizedHash(row) ==
  <<row.quantity>> \o ListingFactsHash(row) \o <<row.sku, row.variant, row.listing>>

(* The identity of a row; as a text it is compared like this tuple.        *)
RowIdentity(row) == <<row.listing, row.variant>>

(* An order of the encoded identities has a place for each of them, and    *)
(* two identities have two places.                                         *)
ASSUME IdentityAssumption ==
  /\ GeneratedIds \subseteq Nat \ {0}
  /\ \A code \in Codes :
       /\ \A source \in Sources : \A i \in DOMAIN source.rows :
            RowIdentity(source.rows[i]) \in DOMAIN code
       /\ \A a, b \in DOMAIN code : code[a] \in Nat /\ (code[a] = code[b] => a = b)

KindOrder == [H |-> 1, L |-> 2, S |-> 3, V |-> 4]

IndexLine(kind, key, value, n) ==
  [kind |-> kind, key |-> key, value |-> value,
   text |-> <<KindOrder[kind]>> \o key \o value \o <<n>>]

IndexLines(row, n) ==
  <<IndexLine("H", NormalizedHash(row), RowIdentity(row), n),
    IndexLine("V", RowIdentity(row), NormalizedHash(row), n),
    IndexLine("L", <<row.listing>>, ListingFactsHash(row), n)>>
  \o (IF row.sku = 0 THEN <<>> ELSE <<IndexLine("S", <<row.sku>>, RowIdentity(row), n)>>)

(* A line of canonical-rows; it starts with the listing's identity.        *)
CanonicalLine(row) ==
  [row |-> row, text |-> <<row.listing, row.variant, row.sku>> \o NormalizedHash(row)]

GeneratedLine(id, listing, n) ==
  [id |-> id, listing |-> listing, text |-> <<id, listing, n>>]

(* Mutant: the hash is written before the identity.                        *)
HashBeforeIdentity(identity, hash, n) ==
  [identity |-> identity, hash |-> hash, text |-> hash \o <<setting.code[identity], n>>]

(* A line of a replay index: the identity is written in base64url, which   *)
(* need not order it like its text.                                        *)
ReplayIndexLine(identity, hash, n) ==
  [identity |-> identity, hash |-> hash, text |-> <<setting.code[identity]>> \o hash \o <<n>>]

(* Mutant: the facts of a listing and the owner of a SKU are not compared. *)
ClashOfRows(a, b) == a.kind = b.kind /\ a.key = b.key /\ a.kind \in {"H", "V"}

(* Mutant: any key that occurs twice is a clash.                           *)
ClashOfKeys(a, b) == a.kind = b.kind /\ a.key = b.key

(* Two lines of the identity index that must not stand side by side.       *)
Clash(a, b) ==
  /\ a.kind = b.kind /\ a.key = b.key
  /\ a.kind \in {"H", "V"} \/ a.value # b.value

(* validateIdentityIndex: the places where it throws.                      *)
Clashes(s) == {i \in 1..Len(s) - 1 : Clash(s[i], s[i + 1])}

(* IdentityIndex.add: the browser compares a row with all rows before it.  *)
Collides(row, earlier) ==
  \/ NormalizedHash(row) = NormalizedHash(earlier)
  \/ RowIdentity(row) = RowIdentity(earlier)
  \/ row.listing = earlier.listing /\ ListingFactsHash(row) # ListingFactsHash(earlier)
  \/ row.sku # 0 /\ row.sku = earlier.sku /\ RowIdentity(row) # RowIdentity(earlier)

(***************************************************************************)
(* A call begins, reads its source, and ends.                              *)
(***************************************************************************)
At(stage) == job.stage = stage

(* Mutant: an empty file is taken for one that is not there yet.           *)
SortedWithLines(stage) == At(stage) /\ sorting = "sorted" /\ sorted # <<>>

SortedFor(stage) == At(stage) /\ sorting = "sorted"

GoTo(stage) == job' = [job EXCEPT !.stage = stage, !.at = 0]

Rest == UNCHANGED <<result, spent>> /\ UNCHANGED world
Leaves == UNCHANGED sorter /\ Rest

(* The call is over but for its finally clause.                            *)
End(outcome) == job' = [job EXCEPT !.outcome = outcome, !.stage = "cleanup"]

Operations == IF setting.host = "file" THEN {"file", "replay"} ELSE {"browser"}

Call(op, source) ==
  /\ At("idle") /\ op \in Operations
  /\ spent.calls < MaxCalls
  /\ spent' = [spent EXCEPT !.calls = @ + 1]
  /\ job' = [NoJob EXCEPT !.op = op, !.source = source,
               !.stage = IF op = "replay" THEN "summary"
                         ELSE IF op = "file" THEN "open" ELSE "parse"]
  /\ spool' = NoSpool /\ result' = None
  /\ UNCHANGED sorter /\ UNCHANGED world

(* replayImport reads the summary before it has a workspace.               *)
LoadSummary ==
  /\ At("summary")
  /\ IF manifest = None
       THEN End("manifest_conflict")
       ELSE job' = [job EXCEPT !.summary = manifest, !.stage = "open"]
  /\ UNCHANGED spool /\ Leaves

CreateWorkspace ==
  /\ At("open")
  /\ workspaces' = workspaces \union {pid}
  /\ GoTo("parse")
  /\ UNCHANGED <<sorter, spool, result, spent, setting, manifest, quarantine, pid>>

(* One row of the source.  The browser keeps it; the others spool a line   *)
(* of the row and the lines of its identities.                             *)
ParseRow ==
  /\ At("parse") /\ job.at < Len(job.source.rows)
  /\ LET n == job.at + 1
         row == job.source.rows[n]
         line == CASE job.op = "browser" -> [row |-> row]
                   [] job.op = "file" -> CanonicalLine(row)
                   [] OTHER -> ReplayIndexLine(RowIdentity(row), NormalizedHash(row), n)
     IN spool' = [spool EXCEPT !.rows = Append(@, line),
                               !.index = IF job.op = "browser" THEN @
                                         ELSE @ \o IndexLines(row, n)]
  /\ job' = [job EXCEPT !.at = @ + 1]
  /\ Leaves

(* A spool that is sorted is the input of the sort from then on.           *)
SortSpool(name, stage) ==
  /\ GoTo(stage)
  /\ BeginSort(spool[name])
  /\ spool' = [spool EXCEPT ![name] = <<>>]

(* The end of the source: an error, when its last row is malformed.        *)
ParseEnd ==
  /\ At("parse") /\ job.at = Len(job.source.rows)
  /\ \/ ~job.source.whole /\ End("malformed_csv") /\ UNCHANGED <<sorter, spool>>
     \/ /\ job.source.whole /\ job.op = "browser"
        /\ GoTo("plan") /\ UNCHANGED <<sorter, spool>>
     \/ job.source.whole /\ job.op # "browser" /\ SortSpool("index", "index")
  /\ Rest

(* The identity index is sorted: equal keys stand side by side.  The rows  *)
(* are sorted next.                                                        *)
ValidateIndex ==
  /\ SortedFor("index")
  /\ IF Clashes(sorted) # {}
       THEN End("collision") /\ SortReturns /\ UNCHANGED spool
       ELSE SortSpool("rows", "rows")
  /\ Rest

Sorting ==
  /\ SortStep
  /\ UNCHANGED <<job, spool>> /\ Rest

(***************************************************************************)
(* Planning.                                                               *)
(***************************************************************************)
PlanFromSorted ==
  /\ SortedFor("rows") /\ job.op = "file"
  /\ spool' = [spool EXCEPT !.rows = sorted]
  /\ GoTo("plan") /\ SortReturns /\ Rest

(* What is to be done with a row, given what is published already.        *)
ActionFor(row) ==
  LET current == Current[RowIdentity(row)] IN
  IF RowIdentity(row) \notin DOMAIN Current THEN "create"
  ELSE IF row.facts.revision \notin {0, current.revision} THEN "conflict"
  ELSE IF current.hash = NormalizedHash(row) THEN "unchanged"
  ELSE IF row.facts.ended = 1 THEN "end" ELSE "update"

PlannedRow(row, generated) ==
  [identity |-> RowIdentity(row), hash |-> NormalizedHash(row), listing |-> row.listing,
   listingId |-> IF generated # 0 THEN generated ELSE row.facts.listingId,
   generated |-> generated, action |-> ActionFor(row),
   checkpoint |-> IF ActionFor(row) = "conflict" THEN "conflict" ELSE "planned"]

(* The browser's index, which it builds while it plans.                    *)
RefusedByBrowser(n) ==
  job.op = "browser" /\ \E m \in 1..n - 1 : Collides(spool.rows[n].row, spool.rows[m].row)

(* Mutant: every row of a listing without an id has one generated.         *)
EveryRow(row) == TRUE

(* A listing begins where the row before it has another listing.           *)
NewListing(row) == row.listing # job.listing

(* The listing id of a listing that has none is generated at its first row *)
(* and kept until the next listing.  The browser plans in source order.    *)
PlanRow(id) ==
  LET n == job.at + 1
      row == spool.rows[n].row
      generates == NewListing(row) /\ row.facts.listingId = 0
      generated == IF generates THEN id ELSE IF NewListing(row) THEN 0 ELSE job.generated
  IN
  /\ At("plan") /\ job.at < Len(spool.rows)
  /\ ~RefusedByBrowser(n)
  /\ job' = [job EXCEPT !.at = n, !.listing = row.listing, !.generated = generated]
  /\ spool' = [spool EXCEPT
       !.planned = Append(@, PlannedRow(row, generated)),
       !.generated = IF generates THEN Append(@, GeneratedLine(id, row.listing, n)) ELSE @]
  /\ Leaves

RefuseRow ==
  /\ At("plan") /\ job.at < Len(spool.rows)
  /\ RefusedByBrowser(job.at + 1)
  /\ End("collision")
  /\ UNCHANGED spool /\ Leaves

(* The file planner looks for ids generated twice; the browser does not.   *)
PlanEnd ==
  /\ At("plan") /\ job.at = Len(spool.rows)
  /\ IF job.op = "browser"
       THEN GoTo("commit") /\ UNCHANGED <<sorter, spool>>
       ELSE SortSpool("generated", "generated")
  /\ Rest

CheckGenerated ==
  /\ SortedFor("generated")
  /\ IF \E i \in 1..Len(sorted) - 1 :
            sorted[i].id = sorted[i + 1].id /\ sorted[i].listing # sorted[i + 1].listing
       THEN End("invalid_identity")
       ELSE GoTo("commit")
  /\ UNCHANGED spool /\ SortReturns /\ Rest

(* createFromRowSpool, and create of the browser's store.                  *)
Commit ==
  /\ At("commit")
  /\ IF manifest # None
       THEN End("manifest_conflict") /\ UNCHANGED manifest
       ELSE /\ manifest' = [version |-> 1, rows |-> spool.planned,
                            source |-> job.source]
            /\ End("planned")
  /\ UNCHANGED <<sorter, spool, result, spent, setting, quarantine, workspaces, pid>>

(***************************************************************************)
(* Replaying.                                                              *)
(***************************************************************************)
KeepReplayRows ==
  /\ SortedFor("rows") /\ job.op = "replay"
  /\ spool' = [spool EXCEPT !.rows = sorted]
  /\ GoTo("stream") /\ SortReturns /\ Rest

(* streamRows, and the sort of the lines spooled from it.                  *)
StreamRows ==
  /\ At("stream")
  /\ IF manifest = None
       THEN End("manifest_store_error") /\ UNCHANGED sorter
       ELSE /\ BeginSort([i \in DOMAIN manifest.rows |->
                 ReplayIndexLine(manifest.rows[i].identity, manifest.rows[i].hash, i)])
            /\ GoTo("existing")
  /\ UNCHANGED spool /\ Rest

KeepManifestRows ==
  /\ SortedFor("existing")
  /\ spool' = [spool EXCEPT !.existing = sorted]
  /\ GoTo("join") /\ SortReturns /\ Rest

(* The texts of two decoded identities.                                    *)
IdentityBefore(a, b) == Before([text |-> a.identity], [text |-> b.identity])

Conflict(line, reason) == [identity |-> line.identity, reason |-> reason]

(* Which of the two files is a line ahead of the other.                    *)
ReplayAhead(left, right) ==
  left # <<>> /\ (right = <<>> \/ IdentityBefore(Head(left), Head(right)))
ManifestAhead(left, right) ==
  right # <<>> /\ (left = <<>> \/ IdentityBefore(Head(right), Head(left)))

(* Mutant: the loop is left with the first file that is at its end.        *)
EitherExhausted == spool.rows = <<>> \/ spool.existing = <<>>

Exhausted == spool.rows = <<>> /\ spool.existing = <<>>

(* One turn of the loop over both files.                                   *)
Join ==
  LET left == spool.rows
      right == spool.existing
      Take(l, r, found) ==
        spool' = [spool EXCEPT !.rows = l, !.existing = r, !.conflicts = @ \o found]
  IN
  /\ At("join") /\ ~Exhausted
  /\ IF ReplayAhead(left, right)
       THEN Take(Tail(left), right, <<Conflict(Head(left), "not_in_manifest")>>)
     ELSE IF ManifestAhead(left, right)
       THEN Take(left, Tail(right), <<Conflict(Head(right), "missing_from_replay")>>)
     ELSE IF Head(left).hash = Head(right).hash
       THEN Take(Tail(left), Tail(right), <<>>)
       ELSE Take(Tail(left), Tail(right), <<Conflict(Head(left), "changed_hash")>>)
  /\ UNCHANGED job /\ Leaves

JoinEnd ==
  /\ At("join") /\ Exhausted
  /\ IF spool.conflicts = <<>> THEN End("same") ELSE GoTo("record")
  /\ UNCHANGED spool /\ Leaves

SameManifest == manifest # None /\ manifest.version = job.summary.version

(* compareAndAppendReplayQuarantine: a record is identified by the version *)
(* of the manifest, the source and the conflicts, and appended once.       *)
Quarantine ==
  /\ At("record")
  /\ IF SameManifest
       THEN /\ quarantine' = quarantine \union
                  {[version |-> job.summary.version, source |-> job.source,
                    conflicts |-> spool.conflicts]}
            /\ End("quarantined")
       ELSE End("manifest_conflict") /\ UNCHANGED quarantine
  /\ UNCHANGED <<sorter, spool, result, spent, setting, manifest, workspaces, pid>>

(***************************************************************************)
(* The end of a call, and what may happen to it.                           *)
(***************************************************************************)
(* The finally clause removes the workspace.  (The cleanup may fail as     *)
(* well, and leave the workspace until the process is dead; left out.)     *)
Cleanup ==
  /\ At("cleanup")
  /\ workspaces' = workspaces \ {pid}
  /\ result' = [source |-> job.source, outcome |-> job.outcome, op |-> job.op,
                summary |-> job.summary, conflicts |-> spool.conflicts]
  /\ job' = NoJob /\ spool' = NoSpool
  /\ UNCHANGED <<sorter, setting, manifest, quarantine, pid, spent>>

Working == job.stage \notin {"idle", "cleanup"}

Spend(bound) == spent' = [spent EXCEPT ![bound] = @ + 1]
MayFault == spent.faults < MaxFaults

(* Any step of the call may fail; a sort that fails removes its files      *)
(* first.                                                                  *)
FaultInSort ==
  /\ MayFault /\ Working
  /\ FailSort
  /\ Spend("faults")
  /\ UNCHANGED <<job, spool, result>> /\ UNCHANGED world

SortThrows ==
  /\ sorting = "failed"
  /\ End("manifest_store_error") /\ SortReturns
  /\ UNCHANGED spool /\ Rest

Fault ==
  /\ MayFault /\ Working /\ sorting \in {"idle", "sorted"}
  /\ End("manifest_store_error") /\ SortReturns
  /\ Spend("faults")
  /\ UNCHANGED <<spool, result>> /\ UNCHANGED world

(* The process dies, and its files stay; another takes over.               *)
Die ==
  /\ MayFault /\ ~At("idle")
  /\ Spend("faults")
  /\ pid' = pid + 1
  /\ job' = NoJob /\ spool' = NoSpool /\ result' = None
  /\ SortReturns
  /\ UNCHANGED <<setting, manifest, quarantine, workspaces>>

(* Mutant: an abandoned workspace is one that is old.                      *)
OldWorkspaces == workspaces

Abandoned == workspaces \ {pid}

(* Another store of the host is opened and reaps an abandoned workspace    *)
(* that is old enough.                                                     *)
Reap ==
  /\ \E w \in Abandoned : workspaces' = workspaces \ {w}
  /\ UNCHANGED <<sorter, setting, manifest, quarantine, job, spool, result, pid, spent>>

MayAct == spent.host < MaxHostSteps

(* The host checkpoints a row, which raises the version.                   *)
Checkpoint ==
  /\ MayAct /\ manifest # None
  /\ manifest' = [manifest EXCEPT !.version = @ + 1]
  /\ Spend("host")
  /\ UNCHANGED <<sorter, setting, quarantine, job, spool, result, workspaces, pid>>

Discard ==
  /\ MayAct /\ manifest # None /\ setting.host = "file"
  /\ manifest' = None /\ quarantine' = {}
  /\ Spend("host")
  /\ UNCHANGED <<sorter, setting, job, spool, result, workspaces, pid>>

Step ==
  \/ LoadSummary \/ CreateWorkspace \/ ParseRow \/ ParseEnd \/ Sorting \/ ValidateIndex
  \/ PlanFromSorted \/ (\E id \in GeneratedIds : PlanRow(id)) \/ RefuseRow \/ PlanEnd
  \/ CheckGenerated \/ Commit
  \/ KeepReplayRows \/ StreamRows \/ KeepManifestRows \/ Join \/ JoinEnd \/ Quarantine
  \/ SortThrows \/ Cleanup

Next ==
  \/ Step
  \/ \E op \in Operations, source \in Sources : Call(op, source)
  \/ FaultInSort \/ Fault \/ Die \/ Reap \/ Checkpoint \/ Discard

Spec == Init /\ [][Next]_vars /\ WF_vars(Step)

(***************************************************************************)
(* Properties.                                                             *)
(***************************************************************************)
(* What a catalog has to be: no row twice, no variant twice, one owner of  *)
(* a SKU, and the same facts in all rows of a listing.                     *)
Consistent(rows) ==
  \A i, j \in DOMAIN rows : i # j =>
    /\ RowIdentity(rows[i]) # RowIdentity(rows[j])
    /\ rows[i].sku = 0 \/ rows[i].sku # rows[j].sku
    /\ rows[i].listing = rows[j].listing => rows[i].facts = rows[j].facts

(* A manifest in the store is the whole of a well-formed and consistent    *)
(* source, a planned row for each of its rows: no error, crash or clash on *)
(* the way of planImportStream leaves a part of an import behind.          *)
ManifestIsSource ==
  manifest # None =>
    LET rows == manifest.rows
        source == manifest.source.rows
    IN
    /\ manifest.source.whole /\ Consistent(source)
    /\ Len(rows) = Len(source)
    /\ \A i \in DOMAIN source : \E j \in DOMAIN rows :
         rows[j].identity = RowIdentity(source[i]) /\ rows[j].hash = NormalizedHash(source[i])

OneIdPerListing(rows) ==
  \A i, j \in DOMAIN rows :
    rows[i].listing = rows[j].listing => rows[i].listingId = rows[j].listingId

(* In a manifest of the file planner the rows of a listing have one        *)
(* listing id, and listings that have theirs generated have different      *)
(* ones, wherever the rows stand in the source.                            *)
GeneratedIdsNameListings ==
  manifest # None /\ setting.host = "file" =>
    /\ OneIdPerListing(manifest.rows)
    /\ \A i, j \in DOMAIN manifest.rows :
         LET r == manifest.rows[i] s == manifest.rows[j] IN
         r.generated # 0 /\ r.generated = s.generated => r.listing = s.listing

(* The rows of a listing have one listing id in a manifest of either       *)
(* planner, as identity comes only from the columns that name the listing. *)
OneListingId == manifest # None => OneIdPerListing(manifest.rows)

(* A planner or a replay refuses a source only for what is wrong with it:  *)
(* the neighbours in the sorted index (file) and the maps of the rows seen *)
(* so far (browser) find a collision only where the catalog has one.       *)
RefusedForCause ==
  result # None =>
    /\ result.outcome = "malformed_csv" => ~result.source.whole
    /\ result.outcome = "collision" => ~Consistent(result.source.rows)

(* How the rows of a source differ from those of a manifest.               *)
Differences(source, rows) ==
  LET Of(i) == {j \in DOMAIN rows : rows[j].identity = RowIdentity(source[i])}
      Found == UNION {Of(i) : i \in DOMAIN source}
  IN {[identity |-> RowIdentity(source[i]), reason |-> "not_in_manifest"] :
        i \in {k \in DOMAIN source : Of(k) = {}}}
     \union {[identity |-> RowIdentity(source[i]), reason |-> "changed_hash"] :
        i \in {k \in DOMAIN source :
                 \E j \in Of(k) : rows[j].hash # NormalizedHash(source[k])}}
     \union {[identity |-> rows[j].identity, reason |-> "missing_from_replay"] :
        j \in DOMAIN rows \ Found}

(* A replay is the same exactly when no row differs, in whatever order the *)
(* two indexes were sorted.                                                *)
OutcomeIsRight ==
  result # None /\ result.op = "replay" /\ result.outcome \in {"same", "quarantined"} =>
    (result.outcome = "same"
       <=> Differences(result.source.rows, result.summary.rows) = {})

Exact(conflicts, source, rows) ==
  LET differences == Differences(source, rows) IN
  /\ {conflicts[i] : i \in DOMAIN conflicts} = differences
  /\ Len(conflicts) = Cardinality(differences)

(* The conflicts of a quarantined replay are the rows that differ.         *)
ConflictsAreExact ==
  result # None /\ result.outcome = "quarantined" =>
    Exact(result.conflicts, result.source.rows, result.summary.rows)

(* base64url orders the identities like their texts.                       *)
OrdersAgree ==
  LET code == setting.code IN
  \A a, b \in DOMAIN code : code[a] < code[b] <=> Before([text |-> a], [text |-> b])

(* What is quarantined is told of the manifest that is in the store: the   *)
(* record is of a version it has had, and, where the two orders agree, its *)
(* conflicts are the rows that differ, each of them once.                  *)
QuarantineIsTrue ==
  \A q \in quarantine :
    /\ manifest # None /\ q.version <= manifest.version
    /\ OrdersAgree => Exact(q.conflicts, q.source.rows, manifest.rows)

(* A call that has a workspace keeps it until its finally clause; nobody   *)
(* reaps the files of a process that is alive.                             *)
WorkspaceStays ==
  Working /\ setting.host = "file" /\ job.stage \notin {"summary", "open"}
    => pid \in workspaces

(* A call that is over, in whatever way short of a crash, leaves neither a *)
(* workspace nor, if its sort failed, a run.                               *)
NothingLeftBehind ==
  /\ At("idle") => pid \notin workspaces
  /\ sorting = "failed" => DOMAIN runs = {}

(* Every call returns: each sort comes to its last generation, and the     *)
(* loop over the two files comes to their ends.                            *)
EveryCallReturns == Working ~> At("idle")
=============================================================================
