# pubky-shop in TLA+

This directory is a verification project for `pubky-shop`, the seller-side
toolkit of the Pubky marketplace: a library that plans catalog imports and keeps
their manifests, a command line for the seller, and a bridge to Shopify. The
specifications are translated from the TypeScript sources under
`src/src/`; paths below are relative to that directory. `PROJECT.json` maps
every definition to the lines it stands for.

Contents: [parts](#the-parts-of-the-system) ·
[modules](#modules-and-how-they-correspond-to-the-code) ·
[runs](#what-the-runs-check) · [disagreements](#where-code-and-documents-disagree) ·
[proofs](#what-is-proved) · [left out](#what-is-not-modelled-and-why) ·
[plan](#plan) · [use](#running-it)

## The parts of the system

| part | source | state | operations |
|---|---|---|---|
| Inbound Shopify bridge | `connectors/shopify/effects.ts`, `receipts.ts`, `bin.ts` | a receipt file per delivery and an alias file per webhook and event; the catalog (fingerprint of each listing, quantity of each inventory item) in memory and in a file | `applyShopifyWebhook`, `applyShopifyProductCsv`, `executePlan`; `receive`, `savePlan`, `markSent`, `markComplete`, `checkpoint`, `quarantine`, `releaseQuarantine`; `commitListing`, `replaceListing` |
| Outbound Shopify bridge | `effects.ts` | the same receipts and catalog | `pullInventoryEvents`, `applyPubkyWebhook`, `applyOutboundEvent` |
| Shopify admin client | `connectors/shopify/admin.ts` | none | read levels, compare-and-set a level |
| Product mapping | `connectors/shopify/map.ts`, `record.ts` | none | product to rows and record; stock-neutral fingerprint |
| Connector support | the other files of `connectors/shopify/` | none | secrets, HMAC, download, session writer, ids, redaction, errors, command |
| File manifest store | `manifest.ts` | the manifest file, its lock file, the replay-quarantine log and its conflict sidecars | `create`, `load`, `checkpointRow`, `compareAndSwap`, `discard`, `recordReplayQuarantine`, compaction, tail repair |
| External merge sort | `external-sort.ts` | numbered run files of a generation | `externalSortLines` |
| Streaming planner and replay | `manifest.ts` | a workspace of spools for each process | `planImportStream`, `replayImport`, reaping |
| Browser planner and memory store | `plan.ts` | maps of identities, SKUs and listings | `planImportStream`, `create` |
| Command line: login | `cli/login.ts`, `proof.ts`, `bff.ts` | `pending-login.json`; a proof record on the homeserver; the flow at the Shop BFF | start (challenge, proof, verify), poll, ticket, claim, store |
| Command line: stores | `cli/credentials.ts` | a credential for each seller and an index naming the active one | `put`, `get`, `delete` |
| Command line: commands and import | `cli/commands.ts`, `seller.ts`, `main.ts`, `http.ts` | none of its own | `auth login`, `auth login --complete`, `auth logout`, `listings import`, the read-only commands |
| Command line: homeserver session | `cli/homeserver.ts` | a stored session | PUT and DELETE through a session |
| Command line: rest | `cli/config.ts`, `help.ts`, `exit.ts`, `qr.ts`, `pop.ts`, `encoding.ts`, `cas.ts`, `bin.ts` | none | flags, printing, signatures, images |
| Service client | `client.ts` | none | the marketplace service's endpoints, decoded |
| Codecs and hashing | `csv.ts`, `json.ts`, `hash.ts` | none | parsing, canonical form, hashes |
| Entries, types, errors | `index.ts`, `node.ts`, `signer.ts`, `errors.ts` | none | exports |

How they interact, and what is hard about it:

* **Bridge.** Shopify delivers webhooks any number of times, in any order, and
  each is a process of the bridge's command that shares its files with the
  others. A
  delivery becomes a receipt; a plan is computed from Shopify's stock, the
  service's projection and the catalog, stored in the receipt, and only then
  carried out: PUT of the record to the homeserver, sync and adjust at the
  service, write of the catalog. Any of these may fail, or succeed and lose its
  answer, or be the last thing before the process dies; the redelivery resumes
  the stored plan, by then perhaps stale. Calls in one process interleave at
  every `await`. Correct means: an effect happens once, on the stock it was
  computed for; a receipt that says complete is telling the truth; a receipt
  does not get stuck; what the catalog remembers is what was published.
* **Loop.** Every write of the bridge at one side is announced by that side, and
  comes back as an event of the other direction. Correct means that the echoes
  die out, that both sides end with the same and the right stock, and that the
  bridge does not mistake its own writes for somebody else's.
* **Manifest store.** Processes share a directory. Writers exclude each other by
  a lock file that is broken when its owner is dead; every write is guarded by
  the version its caller expects; readers take no lock. A crash may fall between
  any two system calls. Correct means mutual exclusion, no lost update, no torn
  read, and a quarantine log whose records have their conflicts on disk.
* **Import.** A catalog is spooled, sorted externally, checked for collisions
  between neighbours, given listing ids, sorted again and committed as a whole;
  a replay merges the sorted source with the sorted manifest. Meanwhile the host
  checkpoints or discards the manifest and other processes reap abandoned
  workspaces. Correct means: all or nothing, refused only for cause, the right
  verdict of a replay, no file left behind and none taken away in use.
* **Command line.** Each command is a process. A login leaves a proof on the
  homeserver until it is verified, a pending file until it is completed, and a
  bearer that can be claimed only once. Correct means that none of the three is
  lost or left behind except where a fault cut the command off, and that an
  import syncs what it has PUT.

The hazards of the code, each with its line and the properties meant for it, are
listed in `PROJECT.json` under `hazards`.

## Modules and how they correspond to the code

**`ReceiptLifecycle`** is the abstract specification of one receipt: a plan is
fixed once, its effect may happen from then on, the receipt is complete only
after the effect, a checkpointed receipt stays so unless it is quarantined, and
only an operator's release forgets it.

**`ShopifyInbound`** is the inbound bridge. A worker is one call in flight; `pc`
says between which two awaits it is.

| code | action |
|---|---|
| `applyShopifyWebhook`, duplicate and resume cases of the receipt; the clock passes the skew of a webhook | `Deliver`, `GetLate` |
| `buildWebhookPlan`, `catalogPlan`: read of Shopify's levels, read of the projection | `ReadStock`, `ReadProjection` |
| `receipts.savePlan` | `SavePlan` |
| `executePlan`, fingerprint checks | `CheckFingerprint`, `CheckCovers` |
| `markSent`, PUT, `syncMany`, `inventory.adjust` | `MarkSent`, `PutRecord`, `SyncMany`, `SendAdjust` |
| `commitListing`, `replaceListing`: the maps; the file by its temporary name (`#save`, `atomicWrite`) | `CommitCatalog`, `PersistCatalog` (`SnapshotCatalog`, `OpenTemp`, `WriteTemp`, `RenameTemp`) |
| `#load` of a file that is no JSON (`catalog_unreadable`) | `CatalogUnreadable` |
| `markComplete`, `checkpoint` | `MarkComplete`, `Checkpoint` |
| an await that throws; death of the process, also at the `catalog-fingerprint` hook | `Fail`, `Crash`, `CrashAfterFingerprint` |
| `releaseQuarantine` | `ReleaseQuarantine` |
| stock that moves elsewhere, a listing the service drops | `MoveShopify`, `MoveService`, `Delist` |

`FileReceiptLog` runs each of its operations in an exclusive queue, so each is
one step. `FileCatalog` changes its maps first and writes the file after, and
nothing keeps two saves apart: the text is made, the temporary file is opened
(which truncates what another save has there), written, and renamed over the
catalog, whoever wrote it. What a file holds is the set of texts written into it:
one can be read back, none or several cannot. The file is loaded when the process
starts, not at the first use. A webhook older than the skew is refused before its
receipt is opened, so that a merchant action in `late` is never delivered again.
Within the model, a request whose answer is lost is a `Fail` at
the step after it. `ShopifyInboundProofs` holds the proofs.

**`BridgeProcesses`** is the same bridge as `shopify-bridge webhook` runs it
(`bin.ts`): every delivered webhook is a process of its own. The in-process
queue of `FileReceiptLog` then orders nothing, so that here each operation is
the read of a file and a later write of it.

| code | action |
|---|---|
| the command starts, and reads the alias of the webhook id | `Start` |
| `openShopifyDelivery`: alias of the event id, the receipt, its creation, the two aliases | `ReadEventAlias`, `OpenReceipt`, `CreateReceipt`, `LinkDelivery`, `LinkEvent` |
| `buildWebhookPlan` of a level, with the catalog file | `Project` |
| `savePlan`, `markSent`, `markComplete`, `checkpoint`, `quarantine` | `ReadReceipt`, then `WriteReceipt` |
| `inventory.adjust`; `replaceListing` of the catalog the process has loaded | `SendAdjust`, `SaveCatalog` |
| a process that dies or an await that throws; an order at the marketplace; the clock passes the skew of a webhook | `Stop`, `Sale`, `GetLate` |

The history variables `troubled`, `replaced` and `reached` say which openings
were disturbed, which receipts were written over another body's, and which
levels the service has had. `BridgeProcessesProofs` holds the proofs.

**`Rfc4180`** says what a CSV document means without a parser: a separator counts
when an even number of quotes stands before it, and the pieces between
separators are well-formed or not each by itself. **`CsvCodec`** is `csv.ts`:
`IncrementalRawCsvParser` with the state it keeps between two chunks (half a
BOM, half a character, a quote or CR whose meaning the next character decides),
the header and rows made of its raw rows, and `exportCanonicalCsv`. `Feed` is a
chunk of any admitted length, `Finish` the end of the input; the reader is the
streaming one or the one that reads everything first. `CsvCodecProofs` holds the
proofs about the readers, `CsvExportProofs` those about reading what was exported.

**`StockSync`** is the loop: the outbound plan (`applyOutboundEvent` and
`inventorySet`) together with the inbound stock plan, one listing with one
item. Sales move the service's stock and append an event; moves of the merchant
change Shopify's level and append a notice; so do the bridge's own writes.
`disturbed` records what has happened that nothing in the code orders: a sale or
move while another is still worked on (`crossed`), an event planned while a notice
is still to be worked off (`echoed`), two calls on one receipt (`doubled`). Every property says which of these it excludes; two exclude
none. `StockSyncProofs` holds the proofs.

**`ManifestLock`** is `#withLock`, `#removeStaleLock` and `#unlinkObserved`, one
step for each system call. `misfired` becomes true when an unlink removes
another file than the one that was compared. **`ManifestStore`** extends it with
the manifest file (whose `ino` is a new one with every rename), the log and the
sidecars; each operation is the sequence of steps between which a crash can
fall. `load` is three reads. **`VersionedStore`** is the abstract specification
of the two together: the manifest of an id is created when there is none, goes
from version to version, may be discarded, and a load answers with one version
that was there while it ran.

**`ExternalSort`** is `externalSortLines`: lines are read into memory, flushed as
sorted runs of generation 0, and merged by groups, a group of one being renamed,
until one run is left. **`StreamingImport`** extends it with both planners and the
replay: a call walks through stages (`parse`, `index`, `rows`, `plan`,
`generated`, `commit`; `stream`, `existing`, `join`, `record`; `cleanup`), each
sort being run by `ExternalSort`'s own actions. The store's operations are one
step here; `ManifestStore` has their steps. `Join` is the chain of conditions of
the loop over the two indexes in the order of the source (`manifest.ts:2640-2672`).
`StreamingImportProofs` holds the proofs about the sort and then those about a
call.

**`SellerCli`** is the command line: a process runs one command through its
requests and file operations; `flow` is what the BFF knows of a login. The
history variables `cut`, `litter`, `retired` and `mixed` say which faults and
replacements excuse what a property would otherwise forbid. `SellerCliProofs`
holds the proofs.

`MC*` modules give the constants values. A definition preceded by a `Mutant:`
comment is a deliberately wrong form of the one after it; `PROJECT.json` pairs
each with the property that notices it.

## What the runs check

Every run is bounded: by its sets of values and by `Max...` constants that stop
the calls, crashes, faults and moves of a behaviour.

### `inbound_races` and `inbound_recovery`

`inbound_races`: two calls in one process; an import, and under one other
identity two contradictory stock levels, so that two calls may work on one
receipt, resume it or quarantine it under each other; one crash; and one move of
stock outside or one merchant action that gets too old. Two workers are what a race needs; the two deliveries of one
identity and the import reach every path on which one receipt's plan meets
another's effect.

* `CompleteMeansApplied`: a receipt that says its effect is complete has had it.
* `ConflictMeansUnapplied`: a receipt quarantined for a conflict moved no stock.
* `KeyNamesOneRequest`: an idempotency key always names one request.
* `AdjustHitsTarget`: an adjust that takes effect brings the service to the
  total its plan was built for, however stale the plan.
* `EveryReceiptSettles` (liveness): a receipt is in the end checkpointed or in
  quarantine, unless the service has dropped the listing, its webhook has become
  too old to be accepted, or overlapping saves have left a torn catalog.

`EveryReceiptSettles` assumes weak fairness of each call (an event loop runs a
continuation that is ready) and strong fairness of redelivery for each event:
Shopify redelivers a webhook that was not answered with success, and does so
again and again while a worker is free from time to time. The code accepts a
redelivery only within the skew of its trigger time (`effects.ts:703`, five
minutes), so fairness is required of accepted redeliveries and asks for nothing once
the event is in `late`: the promise is one of redelivery in time, and a receipt cut
off by a longer outage stays unfinished. Failures and crashes are bounded, not fair.

The torn catalog is what two overlapping saves make of their common temporary name:
one truncates the file of the other, whose rename puts it in the catalog's place
unwritten, and a crash then leaves a `catalog.json` that is no JSON. From there on
every use of the catalog throws, and a save that would write it anew comes after
the load. The other save, if it lives, finds no file to rename and throws too.

`inbound_recovery`: one call at a time, two versions of the product and a level,
a failed call or lost answer, a crash, a release by the operator, one move of stock
at Shopify, and one at the service (or one action that gets too old). One call isolates recovery from racing and leaves room for the faults
in sequence, which is the depth the two fingerprint properties need. It adds

* `RecordMatchesFingerprint`: the remembered fingerprint is that of the record
  on the homeserver (with two calls it fails: both may find no fingerprint);
* `CatalogReadable`: after a crash at any step of a save, or after one that failed,
  the next process can read the catalog (with two calls it fails, see above);
* `LifecycleHolds`: every receipt implements `ReceiptLifecycle`, with
  `effect <- Effected(plan)`.

### `manifest_store`

Two processes, every operation of the store on the first two versions of a
manifest with two rows, two different replays, four calls, a crash and a fault.
Two rows distinguish the row that is checkpointed from the one that must stay;
two replays make identity and version of records differ. `Exclusion`,
`NoLostUpdate`, `RecordsHaveConflicts`, `LogIsSound` and `LoadIsOneVersion`
hold as long as no unlink has misfired, and `StoreIsVersioned` says that the
whole implements `VersionedStore` until then; `manifest_rivals` shows what a
misfire costs. The condition is a real limit of the code, not of the run: see
below.

### `import`

Ten catalogs of up to three rows, with a row gone, changed, doubled or cut off,
a shared SKU, contradictory facts, listings whose rows stand apart, and listings
that are published already; two orders base64url may give to the identities;
both hosts; two calls (an import and a replay); one step of the host; one fault
or crash anywhere. `RunLines = 4`, `FanInByBytes = 3` and `MaxOpenFiles = 3`
make sorts of several runs, groups of one, and more than one generation happen:
a spool of three rows has nine index lines.

The ten properties are `SortedIsWhole` and `DescriptorsAreBounded` (the sort); `ManifestIsSource`,
`GeneratedIdsNameListings`, `RefusedForCause` (planning); `OutcomeIsRight`,
`QuarantineIsTrue` (replay); `WorkspaceStays`, `NothingLeftBehind` (files); and
`EveryCallReturns`, which assumes weak fairness of the call's own step, that is,
that a running process runs.

### `cli_sessions`

Two processes, two sellers, two logins, three commands, one fault (an operation
that throws or a crash) at any step. Two sellers are needed for an index that
names another seller than a command means, two logins for one to replace the
other. `ClaimedBearerIsKept`, `SpentLoginIsForgotten`, `ProofsAreTransient` and
`SyncedIsPublished` say what is never lost or left behind, and by which fault it
may be. The BFF may refuse a ticket or a claim at any time, since tickets and nonces
expire (`bff.ts:27-31`, `60-64`) and the client is not told when; that a claim which
is refused was beaten to it is therefore not claimed of the code.

### `bridge_processes`

Two processes; one merchant action announced by two webhooks, of which one is
also sent without its event id. Any two of the three are sent with one
disturbance (a stop, a sale, a needless repeat, or that the action gets too old to
be accepted, each at any step), or all
three in peace: a third delivery is what it takes for two aliases to name
different receipts, a disturbance for an opening to be cut off.

* `CompleteMeansReached`: a receipt that is complete tells the truth, although
  processes write over each other's receipts: the service has had the level.
* `OneMoveForEachAction`: one merchant action moves the stock once, however many
  webhooks and processes it comes by, unless its opening was disturbed, it got two
  receipts, or one was written over that of another body.
* `OneReceiptForAnAction`: and it gets one, except when an opening overlaps
  another or is cut off, or a webhook came without the event id that another
  webhook of the event had.
* `EveryDeliveryIsAnswered` (liveness): every webhook is in the end answered with
  success, but for one whose two ids were given different receipts and one that has
  become too old. It assumes weak fairness of a started process, and strong
  fairness of redelivery within the skew.

A larger instance (both webhooks and the bare one, with two disturbances, lateness
not among them) was searched once, without the liveness property: 16,307,661 states,
no violation.

### `catalog_csv`

Foreign documents are a fixed beginning (inside a row, inside quotes, at the
first byte, after a BOM and header, after a whole row) and every tail of up to
four bytes from the characters that matter there; exported ones are every text
of up to two characters, pairs of rows one of which has an extra column (its name
readable, empty, or half a line end), and no rows at all.
Each is read in chunks of 1, 2 and 5 bytes in every order, so that a cut falls
within a character of two bytes, a BOM, a CRLF and a doubled quote. Every
transition of the parser is at most two characters after such a beginning.

* `ReadsTheGrammar`: a document is accepted exactly if `Rfc4180` has it and its
  rows are valid, whatever the chunks, and the rows are those of the grammar.
* `GivesOutWhatIsComplete`: the streaming reader has handed on the rows of
  exactly the records that have ended.
* `RoundTrips`: exported rows are read back as they were, apostrophes and
  formulas included, if every cell and every column name can be read at all
  (`AreImportable`); if not, the document is refused for that, and never changed.

### `stock_sync`

Two calls at once; one sale, one move of the merchant, and all echoes of the two
(three changes of each side); one failed call, lost answer or crash. Workers are
interchangeable, and the run uses that symmetry (it has no liveness property).

* `SidesAgreeWhenQuiet`: always, all work done and none quarantined, both sides
  have the same stock.
* `EveryMoveCounts`: and it is the right stock, if sales and moves did not cross
  and no two calls worked on one receipt.
* `OwnWritesDoNotConflict`: undisturbed, the bridge quarantines nothing as a
  conflict.
* `MerchantMovesSurvive`: always, the bridge replaces no level at Shopify but the
  one its plan was compared with.

The run delivers events by pull only. A second route (`"webhook"`) gives one
event two hashes; with it the properties hold as well, and what it adds is that
the receipt of an event that comes both ways is quarantined as
`changed_payload`.

`CHECK_DEADLOCK FALSE` stands where the calls of a run are bounded, so that it
really stops: `manifest_*`, `import*`, `cli_sessions`, `stock_sync`,
`bridge_processes`, and `catalog_csv`, where a reader is done with its document. The inbound
runs check for deadlock, since Shopify can always redeliver.

## Where code and documents disagree

Each has a run whose counterexample shows it.

| run | document or test | code |
|---|---|---|
| `inbound_totals` | BOUNDARY.md:24-25, stock is the sum of the variants | a resumed stock receipt writes back the sibling quantities of the time it was planned (`effects.ts:613`) |
| `manifest_rivals` | `test/manifest.test.ts:1058`, a dead process's lock is recovered "without weakening compare-and-swap" | compare and unlink of the lock file are two calls (`manifest.ts:1574-1578`); two recoverers can both get the lock and both checkpoint one version |
| `import_replay_order` | README.md:228-229 and the conflict reasons | the indexes are sorted by base64url of the identity and merged by the identity (`manifest.ts:2644`); unchanged rows are recorded as missing or new |
| `import_browser_ids` | README.md:136-138, identity comes from the listing's own columns | the browser planner walks rows in source order (`plan.ts:701`), and a listing whose rows stand apart gets two ids |

Met while modelling, with no run of their own:

* BOUNDARY.md:56-58 says a changed product "does not overwrite revision 1". The
  record is PUT (`effects.ts:575`) before its fingerprint is remembered (601);
  after a sync that fails in between, a delivery with other content overwrites
  it.
* `record.ts:50` says location stock is not part of the fingerprint, but sold-out
  variants are dropped before it is computed (`effects.ts:255`).
* A quarantine for changed content (BOUNDARY.md:40-41) can be lost between two
  processes: one that has read the receipt before writes it back
  (`receipts.ts:234`), both webhooks are answered with success, and a level is
  dropped. Two bodies of one event and two processes suffice (found with an
  instance of `BridgeProcesses` of 2,026 states).
* Each process saves the whole catalog as it first read it (`receipts.ts:378`),
  and so undoes what another has saved meanwhile.
* A webhook and an event that were given different receipts are refused with
  `receipt_conflict` for ever (`receipts.ts:214`); no command repairs an alias.
* The exporter writes a lone LF or CR of a cell into quotes (`csv.ts:232`), which
  its own reader refuses; it measures a cell before it protects it (1015), so
  that a cell of the maximal size with an apostrophe before it cannot be read
  back; it writes an extra column without a name (1000), which the reader does not
  take; it does not check `maxRowBytes`; and an extra column named like a member
  of `Object.prototype` makes it throw (1012). `RoundTrips` names the first three.
* A row that lacks an extra column of another row gets it back as an empty text.
* Which error a malformed document gets depends on the chunks it comes in.
* A listing named by `record_uri` in one row and by seller and id in another has
  two identities.
* A catalog write that fails leaves the maps in memory ahead of the file
  (`receipts.ts:421`); after a restart the fingerprint is unknown again, and the
  next delivery is PUT once more.
* Two catalog saves of one process share a temporary name (`receipts.ts:95`): one
  save fails with ENOENT, and a crash in between leaves a `catalog.json` that every
  later call refuses with `catalog_unreadable`.
* A receipt cut off by an outage longer than the skew is never resumed: each
  redelivery of its webhook is refused with `clock_skew` (`effects.ts:703`,
  BOUNDARY.md:60-62) before the receipt is opened, also one that is `effect-sent`.
* Two calls on one event, when the merchant puts a level back in between, write
  the bridge's quantity twice (`effects.ts:627`): compare-and-set sees the level
  it expects.
* Level notices carry no order; when moves cross, a late one takes the service, and
  then Shopify, back to the older level (`effects.ts:367`).
* An event of the bridge's own adjust may be planned before the inbound call has
  updated the catalog, and is then quarantined as a conflict (`effects.ts:822`).
* An event that comes by pull and by webhook has two hashes, and the second
  arrival quarantines it as `changed_payload`.
* A login that completes unlinks whichever login the pending file holds by then
  (`cli/login.ts:289`).
* `listings import` finds the homeserver session and the bearer by two indexes
  and may PUT for one seller and sync for another (`cli/commands.ts:115`).
* Logging out one seller drops the index of the other (`cli/credentials.ts:150`).
* A lock file whose pid write failed stays while its process lives
  (`manifest.ts:1533`), and a discard cut off in the middle leaves the log to
  the next manifest of that id (1278).

## What is proved

TLAPS checks the following for every value of the constants that satisfies the
named assumptions: any number of calls, receipts, processes, rows, crashes.

**Inbound bridge** (`InboundAssumption`: `Total` of variants is a natural number,
`None` differs from the data).

* `TypeCorrect`. `TypeInv` is `TypeOK` plus the fact that a call past a phase has
  a job that fits it (`Sound`), without which the fields of a plan have no type.
* `CompletionIsTrue`, from `Inv`. `CompleteMeansApplied` is not inductive:
  `markComplete` looks at a receipt's state only. `Inv` adds that a call which
  executes holds the plan of its receipt (`Holds`), that by each phase the
  plan's effect has happened (`Reached`), and that a remembered fingerprint is
  one of a published listing (`Known`). The assumption `QuietRelease`, that the
  operator releases only what no call works on, is needed for `Holds`.
* `ConflictsMoveNothing`, `AdjustsHitTheirTarget` and `KeysNameOneRequest`, from
  `AdjustInv` and `DatedInv`: an adjust carries the revision it was computed at,
  and at that revision the service's stock plus its delta is its plan's total.
  `KeysNameOneRequest` assumes `QuietRelease` and that nothing is released.
* `CatalogSurvives` assumes one worker. A catalog file that can be read says nothing
  of the temporary file about to be renamed over it: `Whole` adds that this file is
  empty while it is open and one text once it is written, that the descriptor of a
  save is on it until the rename, and that the maps come of one text. Of two
  saves none of this is true.
* `RecordIsRemembered` assumes one worker. From the check of the fingerprint to the
  catalog write nothing else changes it, and no text in a file or a save remembers a
  fingerprint but the one in memory.
* `ReceiptsLiveTheirLife`: the receipts refine `ReceiptLifecycle`, from `Inv` and
  the fact that a receipt that is absent or only received has no plan.

**Manifest store** (`LockAssumption`, `StoreAssumption`).

* `LockExclusion`. That two processes do not hold the lock says nothing of the
  processes about to remove it. `LockInv` adds that who has taken the lock owns
  the file at the path, and that a file compared with success is stale, both
  unless an unlink has misfired.
* `StoreHasLock`: each step of the store is a step of the lock or leaves it; so
  `StoreExclusion`.
* `StoreLosesNoUpdate`, from exclusion and the fact that the file a writer has
  compared is the file it will replace.
* `LoadsAreOneVersion` and `StoreImplementsVersioned`, from `LoadInv`: of a file
  that was read, the path later holds the same file, a later version, a later
  manifest, or nothing (`Since`), which every step keeps. That a load sees one
  version says nothing of the loads still under way, so `LoadInv` says for each
  of their reads how it relates to the others and to the file now. It is needed
  that births of manifests count up, because versions alone begin again.
* `LogStaysSound` and `ConflictsStay`, from `LogInv`: a log in which versions go
  up says nothing of the record an append holds in memory, or of the sidecars a
  compaction is about to unlink. `LogInv` adds what such a process relies on
  while it has the lock (`KeeperOK`): its record is newer than all and a replay
  of none, its sidecar is on disk once it appends, and what it unlinks is no
  sidecar of a retained record. The last is due to the versions going up, and
  that the greatest version is the last one's (`LastIsGreatest`) needs that only
  the last line can be torn: the two theorems need each other.

**Bridge processes** (`ProcessAssumption`).

* `ProcessesStayGood` and `CompletionIsReached`, for any number of processes,
  webhooks, events and items. `CompleteMeansReached` is not inductive: a process
  completes the receipt it holds in memory by the plan it holds in memory, and
  either may be stale. `Inv` says of every receipt and plan, on disk or in some
  process, that it is good for the world as it is (`GoodReceipt`, `GoodPlan`,
  `GoodProcess`): a plan's level has been reached, or its adjust leads to it at
  the revision it was computed at. Every step only ages the world (`Later`), and
  what is good stays good in a later world; so each step is left with what it
  itself writes. The types of all variables are part of `Inv`.
* `AnActionHasOneReceipt`, from `AliasInv`, which speaks of bodies whose openings
  were left in peace only. That two receipts of a body are excused says nothing
  of a process about to create the second: `AliasInv` adds that a body that has a
  receipt, in a file or in some memory, has a webhook with both aliases or a
  process that is giving it them (`HeldIsLinked`), and that who looks for its
  receipt now will find it if that webhook shares an id with its own
  (`OpenerKnows`). It rests on `ActionAssumption`: webhooks of one body carry one
  event id, if any, as a payload says when its level was changed.
* `AnActionMovesOnce`, from `MoveInv`. A second move would come of a plan computed
  anew, or of one that was applied and is applied again. `MoveInv` says that a
  body that has moved the stock has a receipt beyond `received` (`MovedIsPast`),
  so that nobody saves a new plan for it, and that a plan the service would still
  apply, whose revision is the present one, is of a body that has not moved
  (`PlansAreSafe`).

**Stock loop** (`SyncAssumption`), for any number of calls, events, notices,
routes, sales, moves and faults.

* `SidesAgree`, from `SyncInv` (`AnnouncementsCoverTheSides`). The induction is on
  who announced the last change: where the sides differ, the event of the service's
  last revision or the notice of Shopify's last level is not worked off
  (`DifferencePends`). For that, a plan that moves nothing was made when nothing
  was needed (`NoMoveNeeded`), and any other is good for the revision it was made
  at (`PlansGood`). No order of notices is needed.
* `MovesSurvive`: a step that sets the level replaces the one its plan was compared
  with. It needs from `SyncInv` that the plan in a receipt is the one its call
  holds (`WorksFit`).
* `MovesCount`, from `StockInv` (`StockIsCarried`): with no crossing and no two
  calls on one receipt, every level and plan still to be worked off carries the
  stock there really is.
* `NoConflictOfItsOwn`, from `CalmInv` (`CallsKnowWhenCalm`): undisturbed there is
  at most one event and one notice to work off, the last of each, and what a call
  has read is still so when it uses it, through crashes, lost answers and repeats.

**Import** (`SortAssumption`, `ImportAssumption`, and `IdentityAssumption`: ids
that are generated are not empty, every row identity has a place in the order
base64url gives, and two identities have two places), for any sources, limits,
calls and faults.

* `RunsAreKept`: the run files are exactly those still to be merged and those
  made, through every generation (`RunInv`). `SortIsDriven` reduces the steps of
  an import to steps of a sort. From it `RunNamesAreFree` and
  `SortBoundsDescriptors`.
* `SortIsWhole`, from `SortInv`: what has been read of the input is a
  rearrangement of the lines in memory, in the runs, in the heads of a merge and
  in the result together (`LinesKept`), and each of these files is in order
  (`AllInOrder`). The lines are counted by the places they are in, so that every
  step moves a line from one place to another. Two lines with one text may change
  places. It needs that the texts can be compared (`Sortable`), which
  `InputIsSortable` shows of all four spools.
* `ImportsAreKept`, from `CallInv`: at each stage the files of a call have the lines
  of its source this stage is to work on (`SpoolInv`), and a replay has read a
  manifest that fits the one in the store (`ManifestInv`). From it
  `ManifestsAreWhole`, `GeneratedIdsAreUnique` and `RefusalsHaveCause`. That no two
  neighbours of the identity index clash says nothing of lines further apart:
  lines with one kind and key stand together once the file is in order
  (`BetweenAlike`), and the values then agree from neighbour to neighbour
  (`SameOfNeighbours`), for which facts, owners and ids are compared alike. The
  listing id of the file planner is one for all rows of a listing for the same
  reason.
* `JoinsAreKept`, from `JoinInv`, and so `ReplaysAreRight` and `QuarantinesAreTrue`.
  The loop compares texts, the files are in the order of the encodings, and the
  two may disagree. What holds whatever the orders is `AgreesSoFar`: while nothing
  has been found, both files were read in step and alike, and files that tell the
  same rows never differ at the turn. So `same` is right, and so is `quarantined`.
  Where the orders agree, `ExactSoFar`: what was read is before what was not, and
  each difference is either found, once, or still to come in one of the files;
  hence the conflicts of a record are then the rows that differ.
* `WorkspacesAreOwned` (`WorkInv`), and from it `WorkspaceIsNotReaped` and
  `CallsCleanUp`.

**Command line** (`CliAssumption`).

* `CliAlways`: `CliInv` is inductive, for any number of processes, sellers and
  logins; from it `BearersAreKept`, `SpentLoginsGo`, `ProofsGo` and
  `SyncsArePublished`, the four properties of `cli_sessions`. What they need
  is that a login is private until it is in the pending file (`PrivateInv`): no
  other process has it and nobody has claimed it, so that neither a late
  verification nor the write of the file can bring a spent login back. From
  then on anybody may complete it, and `StageInv` says what each stage may rely
  on. `ImportInv` says of an import what it has PUT so far. A step does the same
  to the world whether it returns or is cut off (`Effect`), so that the proof
  treats a fault together with the step it cuts off.

**CSV** (`CodecAssumption`: the characters the grammar names have an encoding,
encodings and documents are bytes, and what is exported are rows;
`ExportAssumption`: as in UTF-8 no character's encoding begins another's and a quote
does not begin like the byte order mark, an apostrophe begins no formula, and columns,
extra names and identities are listed once each).

* `ReadsTheGrammarAlways` and `GivesOutWhatIsCompleteAlways`, from `ReaderSafety`,
  for any documents, encoding, chunks, limits and columns. `ReaderInvariant` says
  what the parser's fields mean between two chunks (`Parsed`): the text of the bytes
  given so far has the records, fields and open field that `out`, `cells` and `cell`
  tell, and the flags say how far the open field has come. The grammar speaks of
  whole documents and counts quotes from their beginning, the parser sees one
  character at a time; so its parts of a text are shown to grow with each character
  in one of three ways (`InFieldStep`, `CommaStep`, `RowEndStep`). Where the parser
  fails, the text is `Lost`: no continuation of it is a document within the limits.
  This is what makes the early error of a chunk agree with the grammar of the whole,
  and it has to be proved for every error, the limits included: an open field whose
  value is too long stays too long, because pairs of quotes are only ever left out
  after they are whole. `DecodeMore` and `TakenInParts` show that neither the
  decoder nor the rows care where the bytes are cut. The inductions are over texts,
  by the library's theorem about sequences for a set of texts (`SeqInduction`); the
  folds of the model are opened with lemmas of their own (`ReadOfAppend` and its
  three copies), because a lemma cannot be about every operator.
* `RoundTripsAlways`, from `ExportSafety`, for any rows `exportCanonicalCsv` accepts.
  The exported text is taken through the grammar from the inside out: a cell with its
  quotes doubled is all pairs of quotes (`DoubledFits`), so that in its own quotes it
  is one field which says the protected cell (`QuotedCell`); cells with commas are the
  fields of one record (`RowRead`, `LineRead`), and lines are the records of the text
  (`SheetRead`, `ExportReads`). The table then says the header and the completed rows,
  and nothing but a column without a name can be wrong with it (`CatalogComesBack`);
  the completed rows are in order already and have the same columns, so that they
  export to the same text (`ExportsAgain`). `ReadsTheGrammar` decides from there when
  the document is accepted. Why it is refused otherwise takes an invariant of its own
  (`ExportInvariant`): the verdict on a document with a readable catalog can only be
  that it does not parse, and the streaming reader, which judges the rows before it
  has seen the end, can only find fault with the header.

**Only model-checked.** Liveness (`EveryReceiptSettles`, `EveryCallReturns`,
`EveryDeliveryIsAnswered`) is beyond the prover.
Where a proof here says something of all places of a file, it takes the least
place where that fails.

## What is not modelled, and why

General: formats, messages, limits on bytes and the arithmetic of their
accounting. Texts are values; hashes are the values they are made of.

* *Inbound.* Shopify's levels are read in one step. A CSV import is a delivery of
  its own identity. Media are part of the PUT.
* *Bridge processes.* The deliveries are levels of imported listings with one item
  each. A rename is atomic, and a write of a receipt or alias is one step; the
  temporary name `${file}.${pid}.tmp` (`receipts.ts:95`) is the process's own, as
  pids of live processes differ.
* *CSV.* Two of the 25 columns stand for the identifying one and the free ones;
  of the limits, those of bytes per cell and of columns; numbers, nested JSON
  and the whole-file limits are left out, and so is the check of a listing's
  rows against each other, which is `StreamingImport`'s.
* *Stock loop.* A notice past the skew is one that is never taken, and nothing is
  promised then. One listing with one item; `markComplete` with `checkpoint`, and a
  catalog change with its file, are one step; page limits, event filters and
  `projection_missing` are left out.
* *Lock.* Inodes are not reused while someone compares with them, pids are not
  reused, and creating the file and writing the pid take less than the lock
  timeout.
* *Store.* Temporary files and the checks of the root directory.
* *Import.* One importer at a time; a manifest is not planned anew while a replay
  of it runs; the various collision codes are one; every line counts one unit of
  the byte budget; a cleanup that itself fails; the JSON source of the browser.
* *Command line.* A partly written file is a missing one; the challenge is part of
  the start of a login, nonce requests part of ticket and claim; homeserver
  sessions were stored beforehand; logout without `--force-local` always refuses,
  as a claim stores no session id; commands that only read, or forward one
  request, have no step.
* *Elsewhere.* The JSON lexer, hashing, mapping, configuration, printing, signatures, HMAC and
  secrets have no state that outlives a call. The marketplace service, the Shop
  BFF, the homeserver and Shopify are outside the repository and are modelled
  by what the code relies on (`external` in `PROJECT.json`).

## Plan

Order of work, most important behaviour first.

1. *Done.* `ReceiptLifecycle`, `ShopifyInbound` and its proofs; `ManifestLock`,
   `ManifestStore`, `VersionedStore` and their proofs; `ExternalSort`,
   `StreamingImport` and their proofs; `SellerCli` and its proofs;
   `StockSync` and its proofs; `BridgeProcesses` and its proofs; `CsvCodec` against
   `Rfc4180`, and the proofs of its readers and of the round trip.
2. *Models.* Catalog plans in `BridgeProcesses`; the memory store's
   compare-and-swap against `VersionedStore` too; the chunks of `syncMany`; the
   mapping of a product and its losses as an operator with a reference
   definition; the pull loop with its cursor and page limit; the JSON lexer as
   `CsvCodec` is.
3. *Abstract specifications.* An abstract "import or nothing" for
   `StreamingImport`.
4. *Liveness.* Of the command line: a login that is approved and polled ends with
   a stored bearer; of the stock loop: events and notices settle.

## Running it

    tlasany MODULE.tla
    tlc -workers 2 -config Inbound_races.cfg MCShopifyInbound
    tlapm ShopifyInboundProofs.tla

| run | configuration, module | states | depth |
|---|---|---|---|
| `inbound_races` | `Inbound_races.cfg`, `MCShopifyInbound` | 344,659 | 57 |
| `inbound_recovery` | `Inbound_recovery.cfg`, `MCShopifyInbound` | 737,300 | 61 |
| `manifest_store` | `Manifest_store.cfg`, `MCManifestStore` | 949,718 | 41 |
| `import` | `Import.cfg`, `MCStreamingImport` | 194,610 | 133 |
| `cli_sessions` | `Cli_sessions.cfg`, `MCSellerCli` | 2,133,840 | 33 |
| `stock_sync` | `Stock_sync.cfg`, `MCStockSync` | about 1,900,000 (symmetry) | 74 |
| `bridge_processes` | `Bridge_processes.cfg`, `MCBridgeProcesses` | 517,779 | 64 |
| `catalog_csv` | `Catalog_csv.cfg`, `MCCsvCodec` | 108,827 | 11 |

`inbound_totals`, `manifest_rivals`, `import_replay_order` and
`import_browser_ids` end with a counterexample.
