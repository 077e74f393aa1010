------------------------------ MODULE StockSync ------------------------------
(***************************************************************************)
(* Stock in both directions between Shopify and the marketplace service,   *)
(* for one listing with one Shopify inventory item.                        *)
(*                                                                         *)
(* Outbound, applyOutboundEvent: every change of the service's stock is an *)
(* inventory.adjusted event, found by pullInventoryEvents or sent to       *)
(* applyPubkyWebhook; it makes the bridge read the projection and set      *)
(* Shopify's level, comparing it with the level the catalog holds.         *)
(* Inbound, the stock plan of applyShopifyWebhook: every change of         *)
(* Shopify's level is an inventory_levels/update; it makes the bridge      *)
(* adjust the service to that level.  Each direction so wakes the other.   *)
(*                                                                         *)
(* Workers are calls in flight in one process, and any of their steps may  *)
(* interleave, fail, or be followed by a crash.  The receipts are those of *)
(* ShopifyInbound, less the last state: markComplete and checkpoint are    *)
(* one step here, and so are a change of the catalog and its file.         *)
(***************************************************************************)
EXTENDS Integers, Sequences

CONSTANTS
  Workers,                 \* calls that may be in flight together
  Routes,                  \* how an event arrives: "pull", "webhook"
  MaxLevel,                \* Shopify's levels are 0..MaxLevel
  MaxRevision, MaxNotices, \* bounds of a run: changes of either side's stock
  MaxSales, MaxMoves, MaxFaults,
  None

ASSUME SyncAssumption ==
  /\ Routes # {} /\ "shopify" \notin Routes
  /\ MaxLevel \in Nat /\ MaxRevision \in Nat /\ MaxNotices \in Nat
  /\ MaxSales \in Nat /\ MaxMoves \in Nat /\ MaxFaults \in Nat
  /\ None \notin Int

VARIABLES
  service,    \* the service's stock of the listing
  revision,   \* how often it has changed; change n is event n
  applied,    \* the level notices whose adjust the service has applied
  shopify,    \* Shopify's level at the configured location
  levels,     \* the levels Shopify has announced, one for each change
  entry,      \* the level the bridge's catalog holds
  receipts,   \* the receipt file of every event and notice
  job,        \* what each call is doing
  stock,      \* history: the stock there really is, by sales and moves
  disturbed,  \* history: what has happened that the bridge does not order
  spent

sides == <<service, revision, applied, shopify, levels>>
ghosts == <<stock, disturbed>>
vars == <<sides, entry, receipts, job, ghosts, spent>>

Events == {"event"} \X (1 .. MaxRevision)
Notices == {"level"} \X (1 .. MaxNotices)
Keys == Events \cup Notices

(* What has been announced so far.                                         *)
Announced ==
  ({"event"} \X (1 .. revision)) \cup ({"level"} \X (1 .. Len(levels)))

NoAdjust == [revision |-> None, delta |-> 0]
NoPlan == [quantity |-> None, compare |-> None, adjust |-> NoAdjust]
NoReceipt == [state |-> "absent", hash |-> None, reason |-> "none", plan |-> NoPlan]
NoJob == [key |-> None, stage |-> "idle", hash |-> None, plan |-> NoPlan]

Init ==
  /\ service = MaxLevel - 1 /\ shopify = service /\ entry = service /\ stock = service
  /\ revision = 0 /\ applied = {} /\ levels = <<>>
  /\ receipts = [k \in Keys |-> NoReceipt]
  /\ job = [w \in Workers |-> NoJob]
  /\ disturbed = {}
  /\ spent = [sales |-> 0, moves |-> 0, faults |-> 0]

(***************************************************************************)
(* Steps of a call.                                                        *)
(***************************************************************************)
At(w, stage) == job[w].stage = stage
Goto(w, stage) == job' = [job EXCEPT ![w].stage = stage]
Leave(w) == job' = [job EXCEPT ![w] = NoJob]
Plan(w) == job[w].plan
Outbound(w) == job[w].key \in Events

Spend(bound, limit) ==
  spent[bound] < limit /\ spent' = [spent EXCEPT ![bound] = @ + 1]

Quarantine(w, reason) ==
  /\ receipts' = [receipts EXCEPT ![job[w].key].state = "quarantined",
                                  ![job[w].key].reason = reason]
  /\ Leave(w)

Settled(k) == receipts[k].state \in {"complete", "quarantined"}

(* An event's hash differs with its route; a notice has one body.          *)
Hashes(k) == IF k \in Events THEN Routes ELSE {"shopify"}

Opened(k, hash) ==
  LET r == receipts[k] IN
  IF r.state = "absent" THEN [NoReceipt EXCEPT !.state = "received", !.hash = hash]
  ELSE IF r.hash = hash THEN r
  ELSE [r EXCEPT !.state = "quarantined", !.reason = "changed_payload"]

BuildAt(k) == IF k \in Events THEN "catalog" ELSE "project"

(* Mutant: a receipt that is effect-sent is taken for done.                *)
ResumeUnsent(k, state) ==
  CASE state = "received" -> BuildAt(k)
    [] state = "effect-planned" -> "mark"
    [] state = "effect-sent" -> "complete"
    [] OTHER -> "idle"

ResumeAt(k, state) ==
  CASE state = "received" -> BuildAt(k)
    [] state = "effect-planned" -> "mark"
    [] state = "effect-sent" -> IF k \in Events THEN "look" ELSE "adjust"
    [] OTHER -> "idle"

(* What two calls at once can do that the bridge does not put in order.    *)
Disturbance(k) ==
  {d \in {"doubled", "echoed"} :
    \/ /\ d = "doubled"    \* a receipt that another call works on
       /\ \E w \in Workers : job[w].key = k
    \/ /\ d = "echoed"     \* an event to be planned while a notice is not settled
       /\ k \in Events /\ receipts[k].state \in {"absent", "received"}
       /\ \E n \in 1 .. Len(levels) : ~Settled(<<"level", n>>)}

Deliver(w, k, hash) ==
  LET r == Opened(k, hash) IN
  /\ At(w, "idle") /\ k \in Announced /\ hash \in Hashes(k)
  /\ receipts' = [receipts EXCEPT ![k] = r]
  /\ job' = [job EXCEPT ![w] =
       IF ResumeAt(k, r.state) = "idle" THEN NoJob
       ELSE [key |-> k, stage |-> ResumeAt(k, r.state), hash |-> hash, plan |-> r.plan]]
  /\ disturbed' = disturbed \cup Disturbance(k)
  /\ UNCHANGED <<sides, entry, stock, spent>>

(***************************************************************************)
(* The plan of an event: what the catalog holds, what the service has,     *)
(* and whether Shopify still has what the catalog holds.                   *)
(***************************************************************************)
ReadCatalog(w) ==
  /\ At(w, "catalog")
  /\ job' = [job EXCEPT ![w].plan.compare = entry, ![w].stage = "project"]
  /\ UNCHANGED <<sides, entry, receipts, ghosts, spent>>

(* Mutant: the delta is taken from the catalog's level.                    *)
AdjustFromCatalog(target) ==
  IF target = entry THEN NoAdjust ELSE [revision |-> revision, delta |-> target - entry]

(* storedAdjust: from the projection just read to the announced level.     *)
AdjustTo(target) ==
  IF target = service THEN NoAdjust ELSE [revision |-> revision, delta |-> target - service]

ReadProjection(w) ==
  LET target == levels[job[w].key[2]] IN
  /\ At(w, "project")
  /\ IF Outbound(w)
     THEN job' = [job EXCEPT ![w].plan.quantity = service, ![w].stage = "compare"]
     ELSE job' = [job EXCEPT ![w].plan.quantity = target, ![w].stage = "save",
                             ![w].plan.adjust = AdjustTo(target)]
  /\ UNCHANGED <<sides, entry, receipts, ghosts, spent>>

CompareShopify(w) ==
  /\ At(w, "compare")
  /\ IF shopify = Plan(w).compare
     THEN Goto(w, "save") /\ UNCHANGED receipts
     ELSE Quarantine(w, "shopify_quantity_conflict")
  /\ UNCHANGED <<sides, entry, ghosts, spent>>

SavePlan(w) ==
  LET k == job[w].key IN
  /\ At(w, "save")
  /\ IF receipts[k].state = "received" /\ receipts[k].hash = job[w].hash
     THEN /\ receipts' = [receipts EXCEPT ![k].state = "effect-planned", ![k].plan = Plan(w)]
          /\ Goto(w, "mark")
     ELSE Leave(w) /\ UNCHANGED receipts
  /\ UNCHANGED <<sides, entry, ghosts, spent>>

(***************************************************************************)
(* executePlan.                                                            *)
(***************************************************************************)
MarkSent(w) ==
  LET k == job[w].key IN
  /\ At(w, "mark")
  /\ IF receipts[k].state = "effect-planned"
     THEN /\ receipts' = [receipts EXCEPT ![k].state = "effect-sent"]
          /\ Goto(w, IF Outbound(w) THEN "look" ELSE "adjust")
     ELSE Leave(w) /\ UNCHANGED receipts
  /\ UNCHANGED <<sides, entry, ghosts, spent>>

(* Mutant: Shopify's level is not read before it is set.                   *)
LookAway(w) ==
  /\ At(w, "look")
  /\ Goto(w, IF Plan(w).quantity = Plan(w).compare THEN "commit" ELSE "set")
  /\ UNCHANGED <<sides, entry, receipts, ghosts, spent>>

(* A level that is there already is not set again.                         *)
Look(w) ==
  /\ At(w, "look")
  /\ \/ shopify = Plan(w).quantity /\ Goto(w, "commit") /\ UNCHANGED receipts
     \/ /\ shopify \notin {Plan(w).quantity, Plan(w).compare}
        /\ Quarantine(w, "shopify_quantity_conflict")
     \/ /\ shopify = Plan(w).compare /\ shopify # Plan(w).quantity
        /\ Goto(w, "set") /\ UNCHANGED receipts
  /\ UNCHANGED <<sides, entry, ghosts, spent>>

(* The answer of a call that took effect arrives, or is lost.              *)
Answered(w) ==
  \/ Goto(w, "commit") /\ UNCHANGED spent
  \/ Leave(w) /\ Spend("faults", MaxFaults)

(* Mutant: ignoreCompareQuantity is true.                                  *)
SetAnyway(w) ==
  /\ At(w, "set") /\ Len(levels) < MaxNotices
  /\ shopify' = Plan(w).quantity /\ levels' = Append(levels, Plan(w).quantity)
  /\ Answered(w)
  /\ UNCHANGED <<service, revision, applied, entry, receipts, ghosts>>

(* inventorySetQuantities, which compares again.                           *)
InventorySet(w) ==
  /\ At(w, "set") /\ Len(levels) < MaxNotices
  /\ IF shopify = Plan(w).compare
     THEN /\ shopify' = Plan(w).quantity /\ levels' = Append(levels, Plan(w).quantity)
          /\ Answered(w)
          /\ UNCHANGED receipts
     ELSE /\ Quarantine(w, "shopify_quantity_conflict")
          /\ UNCHANGED <<shopify, levels, spent>>
  /\ UNCHANGED <<service, revision, applied, entry, ghosts>>

(* The service takes an adjust once, and only at its revision.             *)
Adjustable(w) == Plan(w).adjust.revision = revision /\ revision < MaxRevision

Replayed(w) == Plan(w).adjust = NoAdjust \/ job[w].key[2] \in applied

SendAdjust(w) ==
  /\ At(w, "adjust")
  /\ \/ /\ Replayed(w)
        /\ Goto(w, "commit")
        /\ UNCHANGED <<service, revision, applied, receipts, spent>>
     \/ /\ ~Replayed(w) /\ Adjustable(w)
        /\ service' = service + Plan(w).adjust.delta
        /\ revision' = revision + 1
        /\ applied' = applied \cup {job[w].key[2]}
        /\ Answered(w)
        /\ UNCHANGED receipts
     \/ /\ ~Replayed(w) /\ Plan(w).adjust.revision # revision
        /\ Quarantine(w, "revision_conflict")
        /\ UNCHANGED <<service, revision, applied, spent>>
  /\ UNCHANGED <<shopify, levels, entry, ghosts>>

CommitEntry(w) ==
  /\ At(w, "commit")
  /\ entry' = Plan(w).quantity
  /\ Goto(w, "complete")
  /\ UNCHANGED <<sides, receipts, ghosts, spent>>

MarkComplete(w) ==
  LET k == job[w].key IN
  /\ At(w, "complete")
  /\ receipts' = IF receipts[k].state \in {"effect-planned", "effect-sent"}
                 THEN [receipts EXCEPT ![k].state = "complete"] ELSE receipts
  /\ Leave(w)
  /\ UNCHANGED <<sides, entry, ghosts, spent>>

(* A call to Shopify or the service fails without effect, or a file cannot *)
(* be read or written; the receipt is left to the next delivery.           *)
Fail(w) ==
  /\ ~At(w, "idle")
  /\ Leave(w) /\ Spend("faults", MaxFaults)
  /\ UNCHANGED <<sides, entry, receipts, ghosts>>

Crash ==
  /\ \E w \in Workers : ~At(w, "idle")
  /\ job' = [w \in Workers |-> NoJob]
  /\ Spend("faults", MaxFaults)
  /\ UNCHANGED <<sides, entry, receipts, ghosts>>

(***************************************************************************)
(* Buyers and the merchant.                                                *)
(***************************************************************************)
Quiet == \A k \in Announced : Settled(k)
Crossing == IF Quiet THEN {} ELSE {"crossed"}

Sell ==
  /\ service > 0 /\ revision < MaxRevision /\ Spend("sales", MaxSales)
  /\ service' = service - 1 /\ revision' = revision + 1
  /\ stock' = stock - 1 /\ disturbed' = disturbed \cup Crossing
  /\ UNCHANGED <<applied, shopify, levels, entry, receipts, job>>

Move(q) ==
  /\ q # shopify /\ Len(levels) < MaxNotices /\ Spend("moves", MaxMoves)
  /\ shopify' = q /\ levels' = Append(levels, q)
  /\ stock' = stock + (q - shopify) /\ disturbed' = disturbed \cup Crossing
  /\ UNCHANGED <<service, revision, applied, entry, receipts, job>>

Call(w) ==
  \/ ReadCatalog(w) \/ ReadProjection(w) \/ CompareShopify(w) \/ SavePlan(w)
  \/ MarkSent(w) \/ Look(w) \/ InventorySet(w) \/ SendAdjust(w)
  \/ CommitEntry(w) \/ MarkComplete(w)

Next ==
  \/ \E w \in Workers :
       \/ Call(w) \/ Fail(w)
       \/ \E k \in Keys : \E hash \in Hashes(k) : Deliver(w, k, hash)
  \/ Crash
  \/ Sell
  \/ \E q \in 0 .. MaxLevel : Move(q)

Spec == Init /\ [][Next]_vars

(***************************************************************************)
(* Properties.                                                             *)
(***************************************************************************)

Complete == \A k \in Announced : receipts[k].state = "complete"

(* When every event and notice has been worked off and none quarantined,   *)
(* both sides have the same stock: however sales, moves, retries, crashes  *)
(* and the bridge's own echoes were interleaved, and in whatever order the *)
(* notices were taken.                                                     *)
SidesAgreeWhenQuiet == Complete => service = shopify

(* And when each sale and each move waited until the one before had been   *)
(* worked off, and no two calls worked on one receipt, that stock is the   *)
(* right one: retried and resumed calls count nothing twice and lose       *)
(* nothing.                                                                *)
EveryMoveCounts ==
  Complete /\ disturbed \cap {"crossed", "doubled"} = {} => service = stock

(* The bridge does not stand in its own way: without a race nobody orders, *)
(* no crash, lost answer or repetition makes it take its own writes for a  *)
(* conflict (BOUNDARY.md: "Resume reads Shopify available stock").         *)
OwnWritesDoNotConflict ==
  disturbed = {} =>
    \A k \in Keys :
      receipts[k].reason \notin {"shopify_quantity_conflict", "revision_conflict"}

(* The bridge replaces no level at Shopify but the one its catalog held    *)
(* when the plan was made: a move of the merchant that it has not taken in *)
(* is never overwritten.                                                   *)
MerchantMovesSurvive ==
  [][\A w \in Workers :
       shopify' # shopify /\ At(w, "set") /\ job'[w].stage # "set"
         => shopify = receipts[job[w].key].plan.compare]_vars
=============================================================================
