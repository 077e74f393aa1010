---------------------------- MODULE ShopifyInbound ----------------------------
(***************************************************************************)
(* The inbound half of the Shopify bridge: applyShopifyWebhook, the plan   *)
(* it builds for a delivery, the durable receipt that remembers the plan,  *)
(* and executePlan, which carries it out against the homeserver, the       *)
(* marketplace service and the bridge's own catalog file.                  *)
(*                                                                         *)
(* Workers are calls in flight in one process.  They share a               *)
(* FileReceiptLog, whose #exclusive queue makes each of its operations one *)
(* step here, and a FileCatalog, which changes its maps in memory first    *)
(* and writes the file after, through a temporary file that overlapping    *)
(* saves share.  Between two awaits anything may happen: another call's    *)
(* step, a crash of the process, a lost answer, a failed write, a move of  *)
(* stock on either side.  One listing is modelled, with several Shopify    *)
(* inventory items.                                                        *)
(***************************************************************************)
EXTENDS Integers

CONSTANTS
  Workers,       \* calls that may be in flight together
  Events,        \* merchant actions: the identities of receipts
  Items,         \* Shopify inventory items of the listing
  Versions,      \* contents of the product apart from its stock
  Qty,           \* quantities at the configured location
  Total(_),      \* the sum of a listing's variant quantities
  Deliveries,    \* the webhooks Shopify may send, any number of times
  InitialLevels, \* Shopify's stock before the bridge first runs
  MaxDelta,      \* largest delta an adjust may carry
  QuietRelease,  \* the operator releases only what no call is working on
  MaxCrashes, MaxFaults, MaxReleases, MaxSales, MaxMoves,  \* bounds of a run
  None

Absent == -1
Variants == [Items -> Qty \union {Absent}]

(* A webhook body.  Its hash stands for it, so equal hashes are equal      *)
(* bodies.  "other" is a body that maps to no effect: an unpublished       *)
(* product or a level of a location that is not the configured one.        *)
Payload ==
  [topic : {"products/update"}, version : Versions]
    \union [topic : {"inventory_levels/update"}, item : Items, available : Qty]
    \union [topic : {"other"}]

(* What a product's catalog fingerprint is computed from: the content and  *)
(* which variants are in the record.                                       *)
Fingerprint == [version : Versions, items : SUBSET Items]

ASSUME InboundAssumption ==
  /\ Qty \subseteq Nat
  /\ Deliveries \subseteq [event : Events, payload : Payload]
  /\ \A v \in Variants : Total(v) \in Nat
  /\ InitialLevels \subseteq [Items -> Qty]
  /\ MaxDelta \in Nat
  /\ QuietRelease \in BOOLEAN
  /\ None \notin Payload
  /\ None \notin Fingerprint
  /\ None \notin [fp : Fingerprint, variants : Variants]
  /\ None \notin [event : Events, payload : Payload, revision : Nat, delta : Int]

(* An inventory.adjust request.  Event and payload are its idempotency key.*)
Adjust == [event : Events, payload : Payload, revision : Nat, delta : Int]

SameKey(r, s) == r.event = s.event /\ r.payload = s.payload

(* A plan: catalog and stock plans as PlannedEffect has them, "noop" for an*)
(* effect-free delivery, "none" for a receipt that has no plan yet.        *)
Plan ==
  [kind : {"none", "noop"}, fp : {None}, variants : Variants, adjust : {None}]
    \union [kind : {"stock"}, fp : {None}, variants : Variants,
            adjust : Adjust \union {None}]
    \union [kind : {"catalog"}, fp : Fingerprint, variants : Variants,
            adjust : Adjust \union {None}]

NoVariants == [i \in Items |-> Absent]
NoPlan == [kind |-> "none", fp |-> None, variants |-> NoVariants, adjust |-> None]
NoopPlan == [NoPlan EXCEPT !.kind = "noop"]

ReceiptState ==
  {"absent", "received", "effect-planned", "effect-sent", "effect-complete",
   "checkpointed", "quarantined"}

Reason ==
  {"none", "changed_payload", "catalog_changed", "sync_item_rejected",
   "revision_conflict", "idempotency_conflict", "unknown_inventory_item",
   "projection_missing", "delta_out_of_range"}

Receipt ==
  [state : ReceiptState, payload : Payload \union {None},
   conflicting : Payload \union {None}, reason : Reason, plan : Plan]

NoReceipt ==
  [state |-> "absent", payload |-> None, conflicting |-> None, reason |-> "none",
   plan |-> NoPlan]

(* What the catalog file is written from, and what was read of it.  The    *)
(* contents of a file are the texts written into it since it was opened:   *)
(* one text can be read back, none is an empty file, and several are a     *)
(* text over the rest of a longer one, which is no JSON.                   *)
CatalogText == [fp : Fingerprint \union {None}, entries : Variants]
EmptyCatalog == [fp |-> None, entries |-> NoVariants]
Readable(file) == \E text \in file : file = {text}
Loaded(file) == IF Readable(file) THEN CHOOSE text \in file : TRUE ELSE EmptyCatalog

(* The name catalog.json.<pid>.tmp: whether there is such a file, and what *)
(* it holds.                                                               *)
TempFile == [exists : BOOLEAN, texts : SUBSET CatalogText]
NoTemp == [exists |-> FALSE, texts |-> {}]

(* A save under way: the text it writes and the file its descriptor is     *)
(* open on, which a rename of the name makes the catalog's and a second    *)
(* rename leaves without a name.                                           *)
Save == [text : SUBSET CatalogText, file : {"none", "temp", "catalog", "gone"}]
NoSave == [text |-> {}, file |-> "none"]

Phase ==
  {"idle", "build", "project", "save", "execute", "covers", "recommit", "mark",
   "put", "sync", "adjust", "commit", "persist", "open", "write", "rename",
   "complete", "checkpoint"}

VARIABLES
  receipts,   \* the receipt file of each event
  catalogFp,  \* catalog: the fingerprint remembered for the listing
  entries,    \* catalog: the quantity of each known inventory item
  saved,      \* the catalog file: the texts of the two it holds
  temp,       \* the temporary file of catalog saves
  saves,      \* the catalog save each call is in
  unreadable, \* the process found a catalog file that it cannot read
  record,     \* the listing record on the homeserver
  listed, available, revision,  \* the service's projection of the listing
  ledger,     \* the service's memory of the adjusts it applied
  shopify,    \* Shopify's stock at the configured location
  late,       \* merchant actions whose webhooks are older than the skew
  pc, job,    \* where each call is, and its local receipt and plan
  used        \* how much of each bound the run has spent

catalog == <<catalogFp, entries, saved, temp, saves, unreadable>>
bridge == <<receipts, catalog>>
remote == <<record, listed, available, revision, ledger>>
merchant == <<shopify, late>>
vars == <<bridge, remote, merchant, pc, job, used>>

NoJob == [event |-> None, payload |-> None, state |-> "absent", plan |-> NoPlan]

Init ==
  /\ receipts = [e \in Events |-> NoReceipt]
  /\ catalogFp = None
  /\ entries = NoVariants
  /\ saved = {EmptyCatalog}
  /\ temp = NoTemp
  /\ saves = [w \in Workers |-> NoSave]
  /\ unreadable = FALSE
  /\ record = None
  /\ listed = FALSE /\ available = 0 /\ revision = 0 /\ ledger = {}
  /\ shopify \in InitialLevels
  /\ late = {}
  /\ pc = [w \in Workers |-> "idle"]
  /\ job = [w \in Workers |-> NoJob]
  /\ used = [crashes |-> 0, faults |-> 0, releases |-> 0, sales |-> 0, moves |-> 0]

(***************************************************************************)
(* Steps of a call.  Leave(w) ends it, by a result or by an exception.     *)
(***************************************************************************)
Goto(w, phase) == pc' = [pc EXCEPT ![w] = phase]
Leave(w) == Goto(w, "idle") /\ job' = [job EXCEPT ![w] = NoJob]

Spend(bound, limit) ==
  used[bound] < limit /\ used' = [used EXCEPT ![bound] = @ + 1]

(* FileReceiptLog.quarantine: any existing receipt can be quarantined.     *)
Quarantine(w, reason) ==
  LET e == job[w].event IN
  /\ receipts' = IF receipts[e].state = "absent"
                 THEN receipts
                 ELSE [receipts EXCEPT ![e] =
                         [@ EXCEPT !.state = "quarantined", !.reason = reason]]
  /\ Leave(w)

(* Mutant: a changed body starts the receipt over instead of quarantining. *)
OpenedStartsOver(e, p) ==
  IF receipts[e].payload = p THEN receipts[e]
  ELSE [NoReceipt EXCEPT !.state = "received", !.payload = p]

(* What openShopifyDelivery leaves in the receipt file.                    *)
Opened(e, p) ==
  LET r == receipts[e] IN
  IF r.state = "absent" THEN
    [NoReceipt EXCEPT !.state = "received", !.payload = p]
  ELSE IF r.payload = p \/ (r.state = "quarantined" /\ r.conflicting = p) THEN r
  ELSE [r EXCEPT !.state = "quarantined", !.reason = "changed_payload",
                 !.conflicting = p]

(* resume: where a call goes on from the receipt it opened.                *)
ResumeAt(state) ==
  CASE state = "received" -> "build"
    [] state \in {"effect-planned", "effect-sent"} -> "execute"
    [] state = "effect-complete" -> "checkpoint"
    [] OTHER -> "idle"

(* applyShopifyWebhook.  A webhook triggered too long ago is rejected      *)
(* before its receipt is opened, and so is every later redelivery of it.   *)
Deliver(w, d) ==
  LET r == Opened(d.event, d.payload) IN
  /\ pc[w] = "idle" /\ d.event \notin late
  /\ receipts' = [receipts EXCEPT ![d.event] = r]
  /\ Goto(w, ResumeAt(r.state))
  /\ job' = [job EXCEPT ![w] =
       IF ResumeAt(r.state) = "idle" THEN NoJob
       ELSE [event |-> d.event, payload |-> d.payload, state |-> r.state,
             plan |-> r.plan]]
  /\ UNCHANGED <<catalog, remote, merchant, used>>

(* The variants a products/update publishes: those with stock at the       *)
(* configured location when the plan is built.                             *)
InStock == {i \in Items : shopify[i] > 0}

ReadStock(w) ==
  LET p == job[w].payload
      draft(plan, phase) ==
        /\ job' = [job EXCEPT ![w].plan = plan]
        /\ Goto(w, phase)
        /\ UNCHANGED receipts
  IN
  /\ pc[w] = "build"
  /\ \/ /\ p.topic = "other"
        /\ draft(NoopPlan, "save")
     \/ /\ p.topic = "products/update" /\ InStock = {}
        /\ draft(NoopPlan, "save")
     \/ /\ p.topic = "products/update" /\ InStock # {}
        /\ draft([kind |-> "catalog",
                  fp |-> [version |-> p.version, items |-> InStock],
                  variants |-> [i \in Items |->
                     IF i \in InStock THEN shopify[i] ELSE Absent],
                  adjust |-> None], "project")
     \/ /\ p.topic = "inventory_levels/update" /\ ~unreadable
        /\ entries[p.item] # Absent
        /\ draft([kind |-> "stock", fp |-> None,
                  variants |-> [entries EXCEPT ![p.item] = p.available],
                  adjust |-> None], "project")
     \/ /\ p.topic = "inventory_levels/update" /\ ~unreadable
        /\ entries[p.item] = Absent
        /\ Quarantine(w, "unknown_inventory_item")
  /\ UNCHANGED <<catalog, remote, merchant, used>>

(* storedAdjust: the change from the projection just read to the target.   *)
Delta(plan) == Total(plan.variants) - available
(* Mutant: the stored request forgets the revision it was computed at.     *)
StoredAdjustUnversioned(e, p, plan) ==
  IF Delta(plan) = 0 THEN None
  ELSE [event |-> e, payload |-> p, revision |-> None, delta |-> Delta(plan)]

StoredAdjust(e, p, plan) ==
  IF Delta(plan) = 0 THEN None
  ELSE [event |-> e, payload |-> p, revision |-> revision, delta |-> Delta(plan)]

OutOfRange(plan) == Delta(plan) < -MaxDelta \/ Delta(plan) > MaxDelta

ReadProjection(w) ==
  LET plan == job[w].plan
      planned(next) ==
        /\ job' = [job EXCEPT ![w].plan = next]
        /\ Goto(w, "save")
        /\ UNCHANGED receipts
  IN
  /\ pc[w] = "project"
  /\ \/ /\ listed /\ ~OutOfRange(plan)
        /\ planned([plan EXCEPT !.adjust =
                      StoredAdjust(job[w].event, job[w].payload, plan)])
     \/ plan.kind = "catalog" /\ ~listed /\ planned(plan)
     \/ plan.kind = "catalog" /\ listed /\ OutOfRange(plan) /\ planned(NoopPlan)
     \/ plan.kind = "stock" /\ ~listed /\ Quarantine(w, "projection_missing")
     \/ /\ plan.kind = "stock" /\ listed /\ OutOfRange(plan)
        /\ Quarantine(w, "delta_out_of_range")
  /\ UNCHANGED <<catalog, remote, merchant, used>>

(* savePlan: the receipt must still be the one the call received.          *)
MaySavePlan(w) ==
  LET r == receipts[job[w].event] IN
  r.state = "received" /\ r.payload = job[w].payload

SavePlan(w) ==
  /\ pc[w] = "save"
  /\ IF MaySavePlan(w)
     THEN /\ receipts' = [receipts EXCEPT ![job[w].event] =
               [@ EXCEPT !.state = "effect-planned", !.plan = job[w].plan]]
          /\ job' = [job EXCEPT ![w].state = "effect-planned"]
          /\ Goto(w, "execute")
     ELSE Leave(w) /\ UNCHANGED receipts
  /\ UNCHANGED <<catalog, remote, merchant, used>>

(* commitListing and replaceListing: the change of the maps in memory.     *)
CommitListing(plan) == catalogFp' = plan.fp /\ entries' = plan.variants
ReplaceListing(plan) == entries' = plan.variants /\ UNCHANGED catalogFp

CatalogCovers(plan) ==
  \A i \in Items : plan.variants[i] # Absent => entries[i] # Absent

(* Mutant: a receipt resumed from effect-sent skips the comparison.        *)
FirstImportOrResumed(w) ==
  job[w].plan.kind = "catalog" => catalogFp = None \/ job[w].state = "effect-sent"

(* executePlan, first part: a listing is imported once.                    *)
FirstImport(w) == job[w].plan.kind = "catalog" => catalogFp = None

CheckFingerprint(w) ==
  LET plan == job[w].plan IN
  /\ pc[w] = "execute" /\ (plan.kind = "catalog" => ~unreadable)
  /\ \/ /\ FirstImport(w)
        /\ Goto(w, "mark")
        /\ UNCHANGED <<receipts, job>>
     \/ /\ plan.kind = "catalog" /\ catalogFp \notin {None, plan.fp}
        /\ Quarantine(w, "catalog_changed")
     \/ /\ plan.kind = "catalog" /\ catalogFp = plan.fp
        /\ Goto(w, "covers")
        /\ UNCHANGED <<receipts, job>>
  /\ UNCHANGED <<catalog, remote, merchant, used>>

(* A listing imported before is only completed in the catalog.             *)
CheckCovers(w) ==
  /\ pc[w] = "covers"
  /\ Goto(w, IF CatalogCovers(job[w].plan) THEN "complete" ELSE "recommit")
  /\ UNCHANGED <<bridge, remote, merchant, job, used>>

(* Mutant: a decrease is taken for an adjust that has nothing to send.     *)
StockPhaseIncreasesOnly(plan) ==
  IF plan.adjust = None \/ Total(plan.variants) < available THEN "commit" ELSE "adjust"

StockPhase(plan) == IF plan.adjust = None THEN "commit" ELSE "adjust"

RemotePhase(plan) ==
  CASE plan.kind = "catalog" -> "put"
    [] plan.kind = "stock" -> StockPhase(plan)
    [] OTHER -> "complete"

(* Mutant: markSent is called on every execution, resumed or not.          *)
AlwaysMarkSent(w) == job[w].plan.kind # "none"

(* A resumed receipt that is already effect-sent is not marked again.      *)
MustMarkSent(w) == job[w].state = "effect-planned"

MarkSent(w) ==
  LET e == job[w].event IN
  /\ pc[w] = "mark"
  /\ \/ /\ ~MustMarkSent(w)
        /\ Goto(w, RemotePhase(job[w].plan))
        /\ UNCHANGED <<receipts, job>>
     \/ /\ MustMarkSent(w) /\ receipts[e].state = "effect-planned"
        /\ receipts' = [receipts EXCEPT ![e].state = "effect-sent"]
        /\ job' = [job EXCEPT ![w].state = "effect-sent"]
        /\ Goto(w, RemotePhase(job[w].plan))
     \/ /\ MustMarkSent(w) /\ receipts[e].state # "effect-planned"
        /\ Leave(w)
        /\ UNCHANGED receipts
  /\ UNCHANGED <<catalog, remote, merchant, used>>

(* The answer of a remote call arrives, or is lost after it took effect.   *)
Answered(w, phase) ==
  \/ Goto(w, phase) /\ UNCHANGED <<job, used>>
  \/ Leave(w) /\ Spend("faults", MaxFaults)

(* The listing record, its media first, written to the homeserver.         *)
PutRecord(w) ==
  LET plan == job[w].plan IN
  /\ pc[w] = "put"
  /\ record' = [fp |-> plan.fp, variants |-> plan.variants]
  /\ Answered(w, "sync")
  /\ UNCHANGED <<bridge, listed, available, revision, ledger, merchant>>

(* sync-many of the one listing.  A first sync creates the projection from *)
(* the record; later ones leave its stock to adjusts.                      *)
SyncMany(w) ==
  /\ pc[w] = "sync"
  /\ \/ /\ listed' = TRUE
        /\ IF listed \/ record = None THEN UNCHANGED <<available, revision>>
           ELSE available' = Total(record.variants) /\ revision' = revision + 1
        /\ Answered(w, StockPhase(job[w].plan))
        /\ UNCHANGED receipts
     \/ /\ Quarantine(w, "sync_item_rejected")
        /\ Spend("faults", MaxFaults)
        /\ UNCHANGED <<listed, available, revision>>
  /\ UNCHANGED <<catalog, record, ledger, merchant>>

(* Mutant: the request is sent with the revision of now, not of the plan.  *)
RefreshedRequest(w) == [job[w].plan.adjust EXCEPT !.revision = revision]

(* sendAdjust sends the request the plan stores.                           *)
Request(w) == job[w].plan.adjust

KeyUsed(request) == \E r \in ledger : SameKey(r, request)

(* adjustInventory at the service: replay by key, then compare revisions.  *)
(* Without the listing it is refused, which leaves the receipt to a retry. *)
SendAdjust(w) ==
  LET request == Request(w) IN
  /\ pc[w] = "adjust"
  /\ \/ /\ request \in ledger
        /\ Answered(w, "commit")
        /\ UNCHANGED <<receipts, available, revision, ledger>>
     \/ /\ ~KeyUsed(request) /\ listed /\ request.revision = revision
        /\ available' = available + request.delta
        /\ revision' = revision + 1
        /\ ledger' = ledger \union {request}
        /\ Answered(w, "commit")
        /\ UNCHANGED receipts
     \/ /\ ~KeyUsed(request) /\ listed /\ request.revision # revision
        /\ Quarantine(w, "revision_conflict")
        /\ UNCHANGED <<available, revision, ledger, used>>
     \/ /\ KeyUsed(request) /\ request \notin ledger
        /\ Quarantine(w, "idempotency_conflict")
        /\ UNCHANGED <<available, revision, ledger, used>>
     \/ /\ ~KeyUsed(request) /\ ~listed
        /\ Leave(w)
        /\ UNCHANGED <<receipts, available, revision, ledger, used>>
  /\ UNCHANGED <<catalog, record, listed, merchant>>

CommitCatalog(w) ==
  LET plan == job[w].plan IN
  /\ pc[w] \in {"commit", "recommit"} /\ ~unreadable
  /\ IF plan.kind = "catalog" THEN CommitListing(plan) ELSE ReplaceListing(plan)
  /\ Goto(w, "persist")
  /\ UNCHANGED <<receipts, saved, temp, saves, unreadable, remote, merchant, job, used>>

(* A catalog file that cannot be read is not taken for loaded: every use   *)
(* of the catalog tries again and throws, before a save that would write   *)
(* the file anew.                                                          *)
NeedsCatalog(w) ==
  \/ pc[w] = "build" /\ job[w].payload.topic = "inventory_levels/update"
  \/ pc[w] = "execute" /\ job[w].plan.kind = "catalog"
  \/ pc[w] \in {"commit", "recommit"}

CatalogUnreadable(w) ==
  /\ unreadable /\ NeedsCatalog(w)
  /\ Leave(w)
  /\ UNCHANGED <<bridge, remote, merchant, used>>

(* FileCatalog's save is atomicWrite: the text of the maps is made, the    *)
(* temporary file is opened, written and renamed over the catalog, each in *)
(* a turn of its own and nothing keeping two saves apart.                  *)
SnapshotCatalog(w) ==
  /\ pc[w] = "persist"
  /\ saves' = [saves EXCEPT ![w].text = {[fp |-> catalogFp, entries |-> entries]}]
  /\ Goto(w, "open")
  /\ UNCHANGED <<receipts, catalogFp, entries, saved, temp, unreadable, remote,
                 merchant, job, used>>

(* Mutant: the catalog is written in place.                                *)
OpenCatalogInPlace(w) ==
  /\ pc[w] = "open"
  /\ saved' = {}
  /\ saves' = [saves EXCEPT ![w].file = "catalog"]
  /\ Goto(w, "write")
  /\ UNCHANGED <<receipts, catalogFp, entries, temp, unreadable, remote, merchant,
                 job, used>>

(* The open truncates a file another save has left or is still writing.    *)
OpenTemp(w) ==
  /\ pc[w] = "open"
  /\ temp' = [exists |-> TRUE, texts |-> {}]
  /\ saves' = [saves EXCEPT ![w].file = "temp"]
  /\ Goto(w, "write")
  /\ UNCHANGED <<receipts, catalogFp, entries, saved, unreadable, remote, merchant,
                 job, used>>

(* A text written over another covers it, or leaves its tail.              *)
Overwrites(text, texts) == {text, texts \union text}

WriteTemp(w) ==
  LET text == saves[w].text IN
  /\ pc[w] = "write"
  /\ \/ /\ saves[w].file = "temp"
        /\ \E texts \in Overwrites(text, temp.texts) : temp' = [temp EXCEPT !.texts = texts]
        /\ UNCHANGED saved
     \/ /\ saves[w].file = "catalog"
        /\ saved' \in Overwrites(text, saved)
        /\ UNCHANGED temp
     \/ /\ saves[w].file = "gone"
        /\ UNCHANGED <<saved, temp>>
  /\ saves' = [saves EXCEPT ![w].text = {}]
  /\ Goto(w, "rename")
  /\ UNCHANGED <<receipts, catalogFp, entries, unreadable, remote, merchant, job, used>>

(* The name goes, whoever made the file; without it the call throws.       *)
Renamed(file) ==
  CASE file = "temp" -> "catalog" [] file = "catalog" -> "gone" [] OTHER -> file

RenameTemp(w) ==
  /\ pc[w] = "rename"
  /\ \/ /\ temp.exists
        /\ saved' = temp.texts /\ temp' = NoTemp
        /\ saves' = [v \in Workers |-> IF v = w THEN NoSave
                       ELSE [saves[v] EXCEPT !.file = Renamed(@)]]
        /\ Goto(w, "complete")
        /\ UNCHANGED job
     \/ /\ ~temp.exists
        /\ saves' = [saves EXCEPT ![w] = NoSave]
        /\ Leave(w)
        /\ UNCHANGED <<saved, temp>>
  /\ UNCHANGED <<receipts, catalogFp, entries, unreadable, remote, merchant, used>>

PersistCatalog(w) ==
  SnapshotCatalog(w) \/ OpenTemp(w) \/ WriteTemp(w) \/ RenameTemp(w)

(* The process stops: calls and the maps in memory are gone, and the next  *)
(* process, whose temporary file has another name, loads what the catalog  *)
(* file holds.                                                             *)
Stop(file) ==
  /\ pc' = [w \in Workers |-> "idle"]
  /\ job' = [w \in Workers |-> NoJob]
  /\ saved' = file /\ unreadable' = ~Readable(file)
  /\ catalogFp' = Loaded(file).fp /\ entries' = Loaded(file).entries
  /\ temp' = NoTemp /\ saves' = [w \in Workers |-> NoSave]
  /\ Spend("crashes", MaxCrashes)

(* The crash the "catalog-fingerprint" hook injects: the file has the      *)
(* fingerprint and not the entries.                                        *)
CrashAfterFingerprint(w) ==
  /\ pc[w] = "commit" /\ job[w].plan.kind = "catalog"
  /\ ~unreadable
  /\ Stop({[fp |-> job[w].plan.fp, entries |-> entries]})
  /\ UNCHANGED <<receipts, remote, merchant>>

MarkComplete(w) ==
  LET e == job[w].event IN
  /\ pc[w] = "complete"
  /\ IF receipts[e].state \in {"effect-planned", "effect-sent"}
     THEN /\ receipts' = [receipts EXCEPT ![e].state = "effect-complete"]
          /\ Goto(w, "checkpoint")
          /\ UNCHANGED job
     ELSE Leave(w) /\ UNCHANGED receipts
  /\ UNCHANGED <<catalog, remote, merchant, used>>

Checkpoint(w) ==
  LET e == job[w].event IN
  /\ pc[w] = "checkpoint"
  /\ receipts' = IF receipts[e].state = "effect-complete"
                 THEN [receipts EXCEPT ![e].state = "checkpointed"]
                 ELSE receipts
  /\ Leave(w)
  /\ UNCHANGED <<catalog, remote, merchant, used>>

(* A remote call fails without effect, or a file cannot be read or         *)
(* written: the call is rejected or throws, and the receipt stays as it is *)
(* for a later delivery.                                                   *)
Fail(w) ==
  /\ pc[w] \in Phase \ {"idle", "covers", "commit", "recommit"}
  /\ Leave(w)
  /\ saves' = [saves EXCEPT ![w] = NoSave]
  /\ Spend("faults", MaxFaults)
  /\ UNCHANGED <<receipts, catalogFp, entries, saved, temp, unreadable, remote, merchant>>

(***************************************************************************)
(* The environment.                                                        *)
(***************************************************************************)
Crash ==
  /\ \/ \E w \in Workers : pc[w] # "idle"
     \/ saved # {[fp |-> catalogFp, entries |-> entries]}
  /\ Stop(saved)
  /\ UNCHANGED <<receipts, remote, merchant>>

ReleaseQuarantine(e) ==
  /\ receipts[e].state = "quarantined"
  /\ QuietRelease => \A w \in Workers : job[w].event # e
  /\ receipts' = [receipts EXCEPT ![e] = NoReceipt]
  /\ Spend("releases", MaxReleases)
  /\ UNCHANGED <<catalog, remote, merchant, pc, job>>

(* The clock passes the skew for the webhooks of a merchant action, which  *)
(* all carry the time it was triggered at.                                 *)
GetLate(e) ==
  /\ e \notin late
  /\ late' = late \union {e}
  /\ Spend("moves", MaxMoves)
  /\ UNCHANGED <<bridge, remote, shopify, pc, job>>

(* Stock moves that the bridge does not cause: a sale or a recount in      *)
(* Shopify, an order at the service.                                       *)
MoveShopify(i, q) ==
  /\ shopify[i] # q
  /\ shopify' = [shopify EXCEPT ![i] = q]
  /\ Spend("sales", MaxSales)
  /\ UNCHANGED <<bridge, remote, late, pc, job>>

MoveService(q) ==
  /\ listed /\ available # q
  /\ available' = q /\ revision' = revision + 1
  /\ Spend("moves", MaxMoves)
  /\ UNCHANGED <<bridge, record, listed, ledger, merchant, pc, job>>

(* The service drops the listing; its revisions never go back.             *)
Delist ==
  /\ listed /\ listed' = FALSE
  /\ Spend("moves", MaxMoves)
  /\ UNCHANGED <<bridge, record, available, revision, ledger, merchant, pc, job>>

Call(w) ==
  \/ ReadStock(w) \/ ReadProjection(w) \/ SavePlan(w) \/ CheckFingerprint(w)
  \/ CheckCovers(w) \/ MarkSent(w) \/ PutRecord(w) \/ SyncMany(w) \/ SendAdjust(w)
  \/ CommitCatalog(w) \/ PersistCatalog(w) \/ CatalogUnreadable(w)
  \/ MarkComplete(w) \/ Checkpoint(w)

Next ==
  \/ \E w \in Workers : Call(w) \/ Fail(w) \/ CrashAfterFingerprint(w)
                         \/ \E d \in Deliveries : Deliver(w, d)
  \/ Crash
  \/ \E e \in Events : ReleaseQuarantine(e) \/ GetLate(e)
  \/ \E i \in Items, q \in Qty : MoveShopify(i, q)
  \/ \E q \in Qty : MoveService(q)
  \/ Delist

Spec == Init /\ [][Next]_vars

(***************************************************************************)
(* Properties.                                                             *)
(***************************************************************************)

(* Every variable has its type.  The service's stock is an integer: that   *)
(* it never falls below zero is the service's business.                    *)
JobType ==
  [event : Events \union {None}, payload : Payload \union {None},
   state : ReceiptState, plan : Plan]

TypeOK ==
  /\ receipts \in [Events -> Receipt]
  /\ catalogFp \in Fingerprint \union {None}
  /\ entries \in Variants
  /\ saved \subseteq CatalogText
  /\ temp \in TempFile
  /\ saves \in [Workers -> Save]
  /\ unreadable \in BOOLEAN
  /\ record \in [fp : Fingerprint, variants : Variants] \union {None}
  /\ listed \in BOOLEAN /\ available \in Int /\ revision \in Nat
  /\ ledger \subseteq Adjust
  /\ shopify \in [Items -> Qty]
  /\ late \subseteq Events
  /\ pc \in [Workers -> Phase]
  /\ job \in [Workers -> JobType]
  /\ used \in [crashes : Nat, faults : Nat, releases : Nat, sales : Nat, moves : Nat]

(* The effect a plan stands for: a stock plan's adjust is in the service's *)
(* ledger; a catalog plan's listing is on the homeserver and the service   *)
(* has synced it.                                                          *)
Published == record # None /\ revision > 0

Effected(plan) ==
  /\ plan.kind = "stock" => plan.adjust \in ledger \union {None}
  /\ plan.kind = "catalog" => Published

(* A receipt that says its effect is complete is telling the truth, after  *)
(* any crash, resume, lost answer or race of two calls on one receipt      *)
(* (markComplete and checkpoint look at the state, not at the effect).     *)
CompleteMeansApplied ==
  \A e \in Events :
    receipts[e].state \in {"effect-complete", "checkpointed"} =>
      Effected(receipts[e].plan)

(* A receipt quarantined for a conflict at the service did not move stock, *)
(* and never will: the operator who releases it applies nothing twice.     *)
ConflictMeansUnapplied ==
  \A e \in Events :
    receipts[e].state = "quarantined"
      /\ receipts[e].reason \in {"revision_conflict", "idempotency_conflict"}
      => receipts[e].plan.adjust \notin ledger

(* As long as nothing is released, every redelivery and resume of a        *)
(* receipt sends the same body under its key: the service never has to     *)
(* refuse a key (BOUNDARY.md: "replays that plan, including the same       *)
(* inventory.adjust idempotency key").                                     *)
KeyNamesOneRequest ==
  \A e \in Events : receipts[e].reason # "idempotency_conflict"

(* Every adjust that takes effect brings the service to the total its plan *)
(* was built for, however stale the plan is by then: the bridge never      *)
(* applies a delta to stock other than the stock it was computed from.     *)
AdjustHitsTarget ==
  [][\A request \in ledger' \ ledger :
       \E w \in Workers :
         /\ job[w].plan.adjust = request
         /\ available' = Total(job[w].plan.variants)]_vars

(* With one call at a time, the fingerprint the catalog remembers is the   *)
(* fingerprint of the record that is on the homeserver, through crashes    *)
(* and retries between the PUT and the catalog write.                      *)
RecordMatchesFingerprint ==
  catalogFp # None => record # None /\ record.fp = catalogFp

(* With one call at a time, a crash at any step of a save, or after a save *)
(* that failed, leaves a catalog file that the next process can read.      *)
CatalogReadable == ~unreadable

(* Each receipt lives the life ReceiptLifecycle promises.                  *)
Lifecycle(e) ==
  INSTANCE ReceiptLifecycle WITH
    state <- receipts[e].state, plan <- receipts[e].plan,
    effect <- Effected(receipts[e].plan)

LifecycleHolds ==
  /\ \A e \in Events : Lifecycle(e)!Init
  /\ [][\A e \in Events : [Lifecycle(e)!Next]_(Lifecycle(e)!lifecycle)]_vars

(* What BOUNDARY.md says of stock: "Stock is listing-total. Variant        *)
(* quantities at the single configured location are summed into that       *)
(* total."  Stated for moments when no receipt is unfinished or in         *)
(* quarantine and nobody but the bridge has moved stock.                   *)
TotalsAgree ==
  (/\ used.sales = 0 /\ used.moves = 0
   /\ \A e \in Events : receipts[e].state \in {"absent", "checkpointed"})
  => (catalogFp # None => available = Total(entries))

(***************************************************************************)
(* Fairness: a call in flight goes on unless it fails or the process       *)
(* crashes, and Shopify redelivers a webhook whose receipt is unfinished,  *)
(* in time as long as the clock has not passed its skew.                   *)
(***************************************************************************)
Redeliver(e) ==
  \E w \in Workers, d \in Deliveries :
    d.event = e /\ d.payload = receipts[e].payload /\ Deliver(w, d)

FairSpec ==
  /\ Spec
  /\ \A w \in Workers : WF_vars(Call(w))
  /\ \A e \in Events : SF_vars(Redeliver(e))

(* Every receipt is eventually checkpointed or in quarantine, where an     *)
(* operator sees it: no interleaving of calls or crashes leaves it to      *)
(* fail forever, unless the service has dropped the listing and refuses    *)
(* every adjust, the webhook has become too old to be accepted, or a crash *)
(* between overlapping saves has left a catalog that cannot be read.       *)
Dropped == ~listed /\ revision > 0

EveryReceiptSettles ==
  \A e \in Events :
    receipts[e].state # "absent" ~>
      \/ receipts[e].state \in {"checkpointed", "quarantined"}
      \/ Dropped \/ e \in late \/ unreadable
=============================================================================
