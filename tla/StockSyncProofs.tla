--------------------------- MODULE StockSyncProofs ---------------------------
(***************************************************************************)
(* Proofs about stock in both directions: no move of the merchant is       *)
(* overwritten (MerchantMovesSurvive), and worked off announcements leave  *)
(* the sides with the same stock (SidesAgreeWhenQuiet), which is the right *)
(* one (EveryMoveCounts), without a conflict of the bridge's own making    *)
(* (OwnWritesDoNotConflict).                                               *)
(***************************************************************************)
EXTENDS StockSync, TLAPS

(***************************************************************************)
(* What holds whatever the calls do to each other.                         *)
(***************************************************************************)
Event(e) == <<"event", e>>
Notice(n) == <<"level", n>>

Adjusts == [revision : Nat \union {None}, delta : Int]
Plans == [quantity : Int \union {None}, compare : Int \union {None}, adjust : Adjusts]
States == {"absent", "received", "effect-planned", "effect-sent", "complete", "quarantined"}
Reasons == {"none", "changed_payload", "shopify_quantity_conflict", "revision_conflict"}
Hash == Routes \union {"shopify", None}
Receipts == [state : States, hash : Hash, reason : Reasons, plan : Plans]
Stages ==
  {"idle", "catalog", "project", "compare", "save", "mark", "look", "set", "adjust",
   "commit", "complete"}
Jobs == [key : Keys \union {None}, stage : Stages, hash : Hash, plan : Plans]

SyncTypeOK ==
  /\ service \in Int /\ revision \in 0 .. MaxRevision
  /\ applied \subseteq 1 .. Len(levels)
  /\ shopify \in Int /\ levels \in Seq(Int) /\ Len(levels) <= MaxNotices
  /\ entry \in Int
  /\ receipts \in [Keys -> Receipts] /\ job \in [Workers -> Jobs]
  /\ stock \in Int /\ disturbed \subseteq {"doubled", "echoed", "crossed"}
  /\ spent \in [{"sales", "moves", "faults"} -> Nat]

LastLevel == Len(levels) > 0 => shopify = levels[Len(levels)]

(* The stages of a call for an event and of one for a notice.              *)
Outward == {"catalog", "project", "compare", "save", "mark", "look", "set", "commit", "complete"}
Inward == {"project", "save", "mark", "adjust", "commit", "complete"}

(* A call that has a plan, and one whose plan is in its receipt.           *)
Bound == {"mark", "look", "set", "adjust", "commit", "complete"}
Planning == {"compare", "save"} \union Bound

Fits(j) ==
  /\ j.stage = "idle" => j = NoJob
  /\ j.stage # "idle" =>
       /\ j.key \in Announced
       /\ j.stage \in IF j.key \in Events THEN Outward ELSE Inward
  /\ j.stage \in Bound =>
       /\ receipts[j.key].state \notin {"absent", "received"}
       /\ receipts[j.key].plan = j.plan

WorksFit ==
  /\ \A k \in Keys : receipts[k].state # "absent" => k \in Announced
  /\ \A w \in Workers : Fits(job[w])

Filed(k, plan) ==
  receipts[k].state \in {"effect-planned", "effect-sent", "complete"} /\ receipts[k].plan = plan
Held(k, plan) ==
  \/ Filed(k, plan)
  \/ \E w \in Workers : job[w].key = k /\ job[w].stage \in Planning /\ job[w].plan = plan

(* An event's plan brings what the service had; a notice's leads the       *)
(* service to the level, at the revision it was computed at or never.      *)
GoodPlan(k, plan) ==
  /\ k \in Events =>
       /\ plan.quantity \in Int
       /\ k[2] = revision => plan.quantity = service
  /\ k \in Notices =>
       /\ plan.quantity = levels[k[2]]
       /\ plan.adjust # NoAdjust =>
            /\ plan.adjust.revision \in Nat /\ plan.adjust.revision <= revision
            /\ plan.adjust.delta # 0
            /\ plan.adjust.revision = revision => service + plan.adjust.delta = levels[k[2]]

PlansGood == \A k \in Keys, plan \in Plans : Held(k, plan) => GoodPlan(k, plan)

Done(k) ==
  \/ receipts[k].state = "complete"
  \/ \E w \in Workers : job[w].key = k /\ job[w].stage \in {"commit", "complete"}
  \/ k \in Notices /\ k[2] \in applied

EventPending == revision > 0 /\ ~Done(Event(revision))
NoticePending == Len(levels) > 0 /\ ~Done(Notice(Len(levels)))

(* Where the sides differ, what changed one of them last is still to do.   *)
DifferencePends == service = shopify \/ EventPending \/ NoticePending

Idle(plan) == plan.adjust = NoAdjust
NoMoveNeeded ==
  \A plan \in Plans :
    Len(levels) > 0 /\ Held(Notice(Len(levels)), plan) /\ Idle(plan) =>
      service = shopify \/ EventPending

SyncInv == SyncTypeOK /\ LastLevel /\ WorksFit /\ PlansGood /\ DifferencePends /\ NoMoveNeeded

(***************************************************************************)
(* Keys.                                                                   *)
(***************************************************************************)
LEMMA KeyFacts ==
  /\ \A k \in Events :
       k \in Keys /\ k \notin Notices /\ k[2] \in 1 .. MaxRevision /\ k = Event(k[2])
  /\ \A k \in Notices :
       k \in Keys /\ k \notin Events /\ k[2] \in 1 .. MaxNotices /\ k = Notice(k[2])
  /\ \A k \in Keys : k \in Events \/ k \in Notices
  /\ \A e \in 1 .. MaxRevision : Event(e) \in Events /\ Event(e)[2] = e
  /\ \A n \in 1 .. MaxNotices : Notice(n) \in Notices /\ Notice(n)[2] = n
BY DEF Events, Notices, Keys, Event, Notice

LEMMA AnnouncedFacts ==
  ASSUME SyncTypeOK
  PROVE  /\ Announced \subseteq Keys
         /\ \A k \in Events : k \in Announced <=> k[2] <= revision
         /\ \A k \in Notices : k \in Announced <=> k[2] <= Len(levels)
         /\ Len(levels) \in 0 .. MaxNotices /\ revision \in 0 .. MaxRevision
         /\ \A n \in 1 .. Len(levels) : Notice(n) \in Announced /\ levels[n] \in Int
<1>1. Len(levels) \in Nat /\ revision \in Nat /\ MaxNotices \in Nat /\ MaxRevision \in Nat
  BY SyncAssumption DEF SyncTypeOK
<1>2. /\ \A k \in Events : k \in Announced <=> k[2] <= revision
      /\ \A k \in Notices : k \in Announced <=> k[2] <= Len(levels)
  BY <1>1 DEF Announced, Events, Notices, SyncTypeOK
<1>3. Announced \subseteq Keys
  BY <1>1 DEF Announced, Keys, Events, Notices, SyncTypeOK
<1> QED BY <1>1, <1>2, <1>3 DEF Announced, Notice, SyncTypeOK

LEMMA JobFacts ==
  ASSUME SyncTypeOK, WorksFit, NEW w \in Workers, job[w].stage # "idle"
  PROVE  /\ job[w] \in Jobs /\ job[w].key \in Keys /\ job[w].key \in Announced
         /\ receipts[job[w].key] \in Receipts /\ job[w].plan \in Plans
         /\ job[w].key \in Events => job[w].stage \in Outward
         /\ job[w].key \notin Events => job[w].key \in Notices /\ job[w].stage \in Inward
<1>1. job[w] \in Jobs /\ job[w].plan \in Plans
  BY DEF SyncTypeOK, Jobs
<1>2. job[w].key \in Announced /\ job[w].key \in Keys
  BY AnnouncedFacts DEF WorksFit, Fits
<1> QED BY <1>1, <1>2, KeyFacts DEF WorksFit, Fits, SyncTypeOK

(***************************************************************************)
(* Types.                                                                  *)
(***************************************************************************)
LEMMA NoneTyped ==
  NoPlan \in Plans /\ NoReceipt \in Receipts /\ NoJob \in Jobs
BY DEF NoPlan, NoAdjust, Plans, Adjusts, NoReceipt, Receipts, States, Hash, Reasons, NoJob, Jobs,
   Stages

LEMMA OpenedType ==
  ASSUME SyncTypeOK, NEW k \in Keys, NEW hash \in Hashes(k)
  PROVE  /\ Opened(k, hash) \in Receipts
         /\ Opened(k, hash).state # "absent" /\ Opened(k, hash).state \in States
         /\ receipts[k].state # "absent" => Opened(k, hash).plan = receipts[k].plan
         /\ Opened(k, hash).state \notin {"received", "quarantined"} =>
              Opened(k, hash) = receipts[k]
         /\ Opened(k, hash).state = "received" =>
              receipts[k].state \in {"absent", "received"}
<1>1. receipts[k] \in Receipts /\ hash \in Hash /\ NoReceipt \in Receipts
  BY NoneTyped DEF SyncTypeOK, Hashes, Hash
<1> QED BY <1>1 DEF Opened, Receipts, States, Reasons, NoReceipt

LEMMA LevelsGrow ==
  ASSUME SyncTypeOK, NEW q \in Int, levels' = Append(levels, q)
  PROVE  /\ levels' \in Seq(Int) /\ Len(levels') = Len(levels) + 1
         /\ levels'[Len(levels')] = q
         /\ \A n \in 1 .. Len(levels) : levels'[n] = levels[n]
BY DEF SyncTypeOK

(***************************************************************************)
(* What becomes of a call in a step.                                       *)
(***************************************************************************)
Still(q) == job'[q] = job[q]
Off(q) == job'[q] = NoJob

Comes(q, k, hash) ==
  LET r == Opened(k, hash) IN
  /\ Deliver(q, k, hash) /\ At(q, "idle") /\ k \in Announced /\ k \in Keys
  /\ receipts' = [receipts EXCEPT ![k] = r] /\ ResumeAt(k, r.state) # "idle"
  /\ job'[q] = [key |-> k, stage |-> ResumeAt(k, r.state), hash |-> hash, plan |-> r.plan]

Goes(q, from, to) ==
  /\ At(q, from) /\ job'[q].stage = to
  /\ job'[q].key = job[q].key /\ job'[q].hash = job[q].hash
  /\ job[q].key \in Keys

GoesWithPlan(q, from, to) == Goes(q, from, to) /\ job'[q].plan = job[q].plan

Catalogs(q) ==
  ReadCatalog(q) /\ Goes(q, "catalog", "project") /\ job'[q].plan.compare = entry

Projects(q) ==
  /\ ReadProjection(q)
  /\ \/ /\ job[q].key \in Events /\ Goes(q, "project", "compare")
        /\ job'[q].plan.quantity = service /\ job'[q].plan.compare = Plan(q).compare
     \/ /\ job[q].key \notin Events /\ Goes(q, "project", "save")
        /\ job'[q].plan.quantity = levels[job[q].key[2]]
        /\ job'[q].plan.adjust = AdjustTo(levels[job[q].key[2]])

Compares(q) ==
  CompareShopify(q) /\ GoesWithPlan(q, "compare", "save") /\ shopify = Plan(q).compare

Saves(q) ==
  /\ SavePlan(q) /\ GoesWithPlan(q, "save", "mark")
  /\ receipts[job[q].key].state = "received"
  /\ receipts' = [receipts EXCEPT ![job[q].key].state = "effect-planned",
                                  ![job[q].key].plan = Plan(q)]

Marks(q) ==
  /\ MarkSent(q)
  /\ \/ job[q].key \in Events /\ GoesWithPlan(q, "mark", "look")
     \/ job[q].key \notin Events /\ GoesWithPlan(q, "mark", "adjust")
  /\ receipts[job[q].key].state = "effect-planned"
  /\ receipts' = [receipts EXCEPT ![job[q].key].state = "effect-sent"]

Finds(q) == Look(q) /\ GoesWithPlan(q, "look", "commit") /\ shopify = Plan(q).quantity

Clears(q) ==
  /\ Look(q) /\ GoesWithPlan(q, "look", "set")
  /\ shopify = Plan(q).compare /\ shopify # Plan(q).quantity

Sets(q) == InventorySet(q) /\ GoesWithPlan(q, "set", "commit") /\ shopify' = Plan(q).quantity

Adjusted(q) == SendAdjust(q) /\ GoesWithPlan(q, "adjust", "commit")

Commits(q) ==
  CommitEntry(q) /\ GoesWithPlan(q, "commit", "complete") /\ entry' = Plan(q).quantity

Turn(q) ==
  \/ Still(q) \/ Off(q)
  \/ \E k \in Keys : \E hash \in Hashes(k) : Comes(q, k, hash)
  \/ Catalogs(q) \/ Projects(q) \/ Compares(q) \/ Saves(q) \/ Marks(q)
  \/ Finds(q) \/ Clears(q) \/ Sets(q) \/ Adjusted(q) \/ Commits(q)

LEMMA CallTurns ==
  ASSUME SyncTypeOK, WorksFit, NEW q \in Workers, Call(q)
  PROVE  Turn(q) /\ \A v \in Workers \ {q} : job'[v] = job[v]
<1>0. job \in [Workers -> Jobs] /\ job[q] \in Jobs /\ job[q].plan \in Plans
  BY DEF SyncTypeOK, Jobs
<1>1. At(q, "idle") \/ job[q].key \in Keys
  BY JobFacts DEF At
<1>a. ASSUME Leave(q) PROVE Off(q) /\ \A v \in Workers \ {q} : job'[v] = job[v]
  BY <1>0, <1>a DEF Leave, Off
<1>b. ASSUME NEW reason, Quarantine(q, reason)
      PROVE  Off(q) /\ \A v \in Workers \ {q} : job'[v] = job[v]
  BY <1>a, <1>b DEF Quarantine
<1>c. ASSUME NEW from, from # "idle", NEW to, At(q, from), Goto(q, to)
      PROVE  /\ GoesWithPlan(q, from, to)
             /\ \A v \in Workers \ {q} : job'[v] = job[v]
  BY <1>0, <1>1, <1>c DEF Goto, GoesWithPlan, Goes, At, Jobs
<1>2. CASE ReadCatalog(q)
  BY <1>0, <1>1, <1>2 DEF ReadCatalog, At, Jobs, Plans, Turn, Catalogs, Goes
<1>3. CASE ReadProjection(q)
  <2>1. CASE Outbound(q)
    <3>1. /\ job[q].key \in Events /\ Goes(q, "project", "compare")
          /\ job'[q].plan.quantity = service /\ job'[q].plan.compare = Plan(q).compare
          /\ \A v \in Workers \ {q} : job'[v] = job[v]
      BY <1>0, <1>1, <1>3, <2>1 DEF ReadProjection, At, Jobs, Plans, Goes, Outbound, Plan
    <3> QED BY <1>3, <3>1 DEF Projects, Turn
  <2>2. CASE ~Outbound(q)
    <3>1. /\ job[q].key \notin Events /\ Goes(q, "project", "save")
          /\ job'[q].plan.quantity = levels[job[q].key[2]]
          /\ job'[q].plan.adjust = AdjustTo(levels[job[q].key[2]])
          /\ \A v \in Workers \ {q} : job'[v] = job[v]
      BY <1>0, <1>1, <1>3, <2>2 DEF ReadProjection, At, Jobs, Plans, Goes, Outbound
    <3> QED BY <1>3, <3>1 DEF Projects, Turn
  <2> QED BY <2>1, <2>2
<1>4. CASE CompareShopify(q)
  BY <1>b, <1>c, <1>4 DEF CompareShopify, Compares, Turn
<1>5. CASE SavePlan(q)
  BY <1>a, <1>c, <1>5 DEF SavePlan, Saves, Turn
<1>6. CASE MarkSent(q)
  BY <1>a, <1>c, <1>6 DEF MarkSent, Marks, Outbound, Turn
<1>7. CASE Look(q)
  BY <1>b, <1>c, <1>7 DEF Look, Finds, Clears, Turn
<1>8. CASE InventorySet(q)
  BY <1>a, <1>b, <1>c, <1>8 DEF InventorySet, Answered, Sets, Turn
<1>9. CASE SendAdjust(q)
  BY <1>a, <1>b, <1>c, <1>9 DEF SendAdjust, Answered, Adjusted, Turn
<1>10. CASE CommitEntry(q)
  BY <1>c, <1>10 DEF CommitEntry, Commits, Turn
<1>11. CASE MarkComplete(q)
  BY <1>a, <1>11 DEF MarkComplete, Turn
<1> QED BY <1>2, <1>3, <1>4, <1>5, <1>6, <1>7, <1>8, <1>9, <1>10, <1>11 DEF Call

LEMMA DeliverTurns ==
  ASSUME SyncTypeOK, NEW q \in Workers, NEW k \in Keys, NEW hash \in Hashes(k),
         Deliver(q, k, hash)
  PROVE  /\ Off(q) \/ Comes(q, k, hash)
         /\ \A v \in Workers \ {q} : job'[v] = job[v]
<1>0. job \in [Workers -> Jobs]
  BY DEF SyncTypeOK
<1> QED BY <1>0 DEF Deliver, Comes, Off

LEMMA EveryTurn ==
  ASSUME SyncTypeOK, WorksFit, [Next]_vars, NEW q \in Workers
  PROVE  Turn(q)
<1>0. job \in [Workers -> Jobs]
  BY DEF SyncTypeOK
<1>1. ASSUME NEW w \in Workers, Call(w) PROVE Turn(q)
  BY <1>1, CallTurns DEF Turn, Still
<1>2. ASSUME NEW w \in Workers, NEW k \in Keys, NEW hash \in Hashes(k), Deliver(w, k, hash)
      PROVE  Turn(q)
  BY <1>2, DeliverTurns DEF Turn, Still
<1>3. ASSUME NEW w \in Workers, Fail(w) PROVE Turn(q)
  BY <1>0, <1>3 DEF Fail, Leave, Turn, Still, Off
<1>4. CASE Crash
  BY <1>4 DEF Crash, Turn, Off
<1>5. CASE UNCHANGED job
  BY <1>5 DEF Turn, Still
<1> QED BY <1>1, <1>2, <1>3, <1>4, <1>5 DEF Next, vars, Sell, Move

(***************************************************************************)
(* What a step does to the two sides, to a receipt and to the catalog.     *)
(***************************************************************************)
SidesStay == UNCHANGED sides

SetBy(p) ==
  /\ InventorySet(p) /\ At(p, "set") /\ job[p].key \in Keys
  /\ shopify = Plan(p).compare /\ shopify' = Plan(p).quantity
  /\ levels' = Append(levels, Plan(p).quantity) /\ Len(levels) < MaxNotices
  /\ UNCHANGED <<service, revision, applied, entry, receipts, ghosts>>
  /\ \A v \in Workers \ {p} : job'[v] = job[v]
  /\ Off(p) \/ GoesWithPlan(p, "set", "commit")

AdjustedBy(p) ==
  /\ SendAdjust(p) /\ At(p, "adjust") /\ job[p].key \in Keys /\ ~Replayed(p)
  /\ Plan(p).adjust.revision = revision /\ revision < MaxRevision
  /\ service' = service + Plan(p).adjust.delta /\ revision' = revision + 1
  /\ applied' = applied \union {job[p].key[2]}
  /\ UNCHANGED <<shopify, levels, entry, receipts, ghosts>>
  /\ \A v \in Workers \ {p} : job'[v] = job[v]
  /\ Off(p) \/ GoesWithPlan(p, "adjust", "commit")

LEMMA SidesChange ==
  ASSUME SyncTypeOK, WorksFit, [Next]_vars
  PROVE  \/ SidesStay
         \/ Sell
         \/ \E q \in 0 .. MaxLevel : Move(q)
         \/ \E p \in Workers : SetBy(p)
         \/ \E p \in Workers : AdjustedBy(p)
<1>0. job \in [Workers -> Jobs]
  BY DEF SyncTypeOK
<1>1. ASSUME NEW p \in Workers, InventorySet(p) PROVE SidesStay \/ SetBy(p)
  <2>1. job[p].key \in Keys /\ At(p, "set")
    BY <1>1, JobFacts DEF InventorySet, At
  <2>2. ASSUME Answered(p)
        PROVE  /\ \A v \in Workers \ {p} : job'[v] = job[v]
               /\ Off(p) \/ GoesWithPlan(p, "set", "commit")
    BY <1>0, <2>1, <2>2 DEF Answered, Goto, Leave, Off, GoesWithPlan, Goes, At, Jobs
  <2> QED BY <1>1, <2>1, <2>2 DEF InventorySet, SidesStay, SetBy, sides
<1>2. ASSUME NEW p \in Workers, SendAdjust(p) PROVE SidesStay \/ AdjustedBy(p)
  <2>1. job[p].key \in Keys /\ At(p, "adjust")
    BY <1>2, JobFacts DEF SendAdjust, At
  <2>2. ASSUME Answered(p)
        PROVE  /\ \A v \in Workers \ {p} : job'[v] = job[v]
               /\ Off(p) \/ GoesWithPlan(p, "adjust", "commit")
    BY <1>0, <2>1, <2>2 DEF Answered, Goto, Leave, Off, GoesWithPlan, Goes, At, Jobs
  <2> QED BY <1>2, <2>1, <2>2 DEF SendAdjust, SidesStay, AdjustedBy, Adjustable, sides
<1>3. ASSUME NEW w \in Workers,
             Call(w) \/ Fail(w) \/ \E k \in Keys : \E hash \in Hashes(k) : Deliver(w, k, hash)
      PROVE  SidesStay \/ InventorySet(w) \/ SendAdjust(w)
  BY <1>3 DEF Call, SidesStay, ReadCatalog, ReadProjection, CompareShopify, SavePlan, MarkSent,
     Look, CommitEntry, MarkComplete, Fail, Deliver
<1>4. CASE Crash \/ UNCHANGED vars
  BY <1>4 DEF Crash, vars, SidesStay
<1> QED BY <1>1, <1>2, <1>3, <1>4 DEF Next

Opens(k) ==
  \E w \in Workers : \E hash \in Hashes(k) :
    /\ Deliver(w, k, hash) /\ k \in Announced /\ At(w, "idle")
    /\ receipts'[k] = Opened(k, hash)

Completes(w) ==
  /\ MarkComplete(w) /\ At(w, "complete") /\ Off(w)
  /\ receipts[job[w].key].state \in {"effect-planned", "effect-sent"}
  /\ receipts' = [receipts EXCEPT ![job[w].key].state = "complete"]

(* A call takes what it sees for a conflict.                               *)
Conflicts(w) ==
  LET k == job[w].key IN
  /\ \/ At(w, "compare") /\ shopify # Plan(w).compare
     \/ At(w, "look") /\ shopify \notin {Plan(w).quantity, Plan(w).compare}
     \/ At(w, "set") /\ shopify # Plan(w).compare
     \/ At(w, "adjust") /\ ~Replayed(w) /\ Plan(w).adjust.revision # revision
  /\ Off(w)
  /\ \E reason \in {"shopify_quantity_conflict", "revision_conflict"} :
       receipts' = [receipts EXCEPT ![k].state = "quarantined", ![k].reason = reason]

ReceiptTurn(k) ==
  \/ receipts'[k] = receipts[k]
  \/ Opens(k)
  \/ \E w \in Workers : job[w].key = k /\ (Saves(w) \/ Marks(w) \/ Completes(w) \/ Conflicts(w))

LEMMA CallsAreAwake ==
  ASSUME NEW w \in Workers, Call(w)
  PROVE  job[w].stage # "idle"
<1>1. ReadCatalog(w) => At(w, "catalog")
  BY DEF ReadCatalog
<1>2. ReadProjection(w) => At(w, "project")
  BY DEF ReadProjection
<1>3. CompareShopify(w) => At(w, "compare")
  BY DEF CompareShopify
<1>4. SavePlan(w) => At(w, "save")
  BY DEF SavePlan
<1>5. MarkSent(w) => At(w, "mark")
  BY DEF MarkSent
<1>6. Look(w) => At(w, "look")
  BY DEF Look
<1>7. InventorySet(w) => At(w, "set")
  BY DEF InventorySet
<1>8. SendAdjust(w) => At(w, "adjust")
  BY DEF SendAdjust
<1>9. CommitEntry(w) => At(w, "commit")
  BY DEF CommitEntry
<1>10. MarkComplete(w) => At(w, "complete")
  BY DEF MarkComplete
<1> QED BY <1>1, <1>2, <1>3, <1>4, <1>5, <1>6, <1>7, <1>8, <1>9, <1>10 DEF Call, At

LEMMA ReceiptsChange ==
  ASSUME SyncTypeOK, WorksFit, [Next]_vars, NEW k \in Keys
  PROVE  ReceiptTurn(k)
<1>0. receipts \in [Keys -> Receipts] /\ job \in [Workers -> Jobs]
  BY DEF SyncTypeOK
<1>1. ASSUME NEW w \in Workers, Call(w) PROVE ReceiptTurn(k)
  <2>0. job[w].key \in Keys /\ (Leave(w) => Off(w))
    <3>1. job[w].stage # "idle"
      BY <1>1, CallsAreAwake
    <3> QED BY <1>0, <3>1, JobFacts DEF Leave, Off
  <2>a. ASSUME NEW from, from # "idle", NEW to, At(w, from), Goto(w, to)
        PROVE  GoesWithPlan(w, from, to)
    BY <1>0, <2>0, <2>a DEF Goto, GoesWithPlan, Goes, At, Jobs
  <2>b. ASSUME NEW r, receipts' = [receipts EXCEPT ![job[w].key] = r], k # job[w].key
        PROVE  receipts'[k] = receipts[k]
    BY <1>0, <2>b
  <2>1. CASE UNCHANGED receipts
    BY <2>1 DEF ReceiptTurn
  <2>2. CASE Conflicts(w)
    <3>1. CASE k = job[w].key
      BY <2>2, <3>1 DEF ReceiptTurn
    <3>2. CASE k # job[w].key
      BY <1>0, <2>2, <3>2 DEF ReceiptTurn, Conflicts
    <3> QED BY <3>1, <3>2
  <2>3. CASE SavePlan(w) /\ ~UNCHANGED receipts
    <3>1. Saves(w)
      BY <2>0, <2>3, <2>a DEF SavePlan, Saves
    <3>2. CASE k = job[w].key
      BY <3>1, <3>2 DEF ReceiptTurn
    <3>3. CASE k # job[w].key
      BY <1>0, <3>1, <3>3 DEF ReceiptTurn, Saves
    <3> QED BY <3>2, <3>3
  <2>4. CASE MarkSent(w) /\ ~UNCHANGED receipts
    <3>1. Marks(w)
      BY <2>0, <2>4, <2>a DEF MarkSent, Marks, Outbound
    <3>2. CASE k = job[w].key
      BY <3>1, <3>2 DEF ReceiptTurn
    <3>3. CASE k # job[w].key
      BY <1>0, <3>1, <3>3 DEF ReceiptTurn, Marks
    <3> QED BY <3>2, <3>3
  <2>5. CASE MarkComplete(w) /\ ~UNCHANGED receipts
    <3>1. Completes(w)
      BY <2>0, <2>5 DEF MarkComplete, Completes
    <3>2. CASE k = job[w].key
      BY <3>1, <3>2 DEF ReceiptTurn
    <3>3. CASE k # job[w].key
      BY <1>0, <3>1, <3>3 DEF ReceiptTurn, Completes
    <3> QED BY <3>2, <3>3
  <2>6. ASSUME CompareShopify(w) \/ Look(w) \/ InventorySet(w) \/ SendAdjust(w)
        PROVE  UNCHANGED receipts \/ Conflicts(w)
    BY <2>0, <2>6 DEF CompareShopify, Look, InventorySet, SendAdjust, Quarantine, Conflicts
  <2> QED BY <1>1, <2>1, <2>2, <2>3, <2>4, <2>5, <2>6 DEF Call, ReadCatalog, ReadProjection,
       CommitEntry
<1>2. ASSUME NEW w \in Workers, NEW l \in Keys, NEW hash \in Hashes(l), Deliver(w, l, hash)
      PROVE  ReceiptTurn(k)
  <2>1. CASE k = l
    <3>1. /\ hash \in Hashes(k) /\ Deliver(w, k, hash) /\ k \in Announced /\ At(w, "idle")
          /\ receipts'[k] = Opened(k, hash)
      BY <1>0, <1>2, <2>1 DEF Deliver
    <3> QED BY <3>1 DEF ReceiptTurn, Opens
  <2>2. CASE k # l
    BY <1>0, <1>2, <2>2 DEF Deliver, ReceiptTurn
  <2> QED BY <2>1, <2>2
<1>3. CASE UNCHANGED receipts
  BY <1>3 DEF ReceiptTurn
<1> QED BY <1>1, <1>2, <1>3 DEF Next, vars, Fail, Crash, Sell, Move

LEMMA EntryChange ==
  ASSUME SyncTypeOK, WorksFit, [Next]_vars
  PROVE  UNCHANGED entry \/ \E w \in Workers : Commits(w)
<1>1. ASSUME NEW w \in Workers, CommitEntry(w) PROVE Commits(w)
  <2>1. job[w].key \in Keys /\ job \in [Workers -> Jobs] /\ job[w] \in Jobs
    BY <1>1, JobFacts DEF CommitEntry, At, SyncTypeOK
  <2>2. GoesWithPlan(w, "commit", "complete")
    BY <1>1, <2>1 DEF CommitEntry, GoesWithPlan, Goes, Goto, At, Jobs
  <2> QED BY <1>1, <2>2 DEF CommitEntry, Commits
<1> QED BY <1>1 DEF Next, vars, Call, ReadCatalog, ReadProjection, CompareShopify, SavePlan,
     MarkSent, Look, InventorySet, SendAdjust, MarkComplete, Fail, Crash, Deliver, Sell, Move

LEMMA CallsKeepGhosts ==
  ASSUME NEW w \in Workers, Call(w)
  PROVE  UNCHANGED ghosts
<1>1. ReadCatalog(w) \/ ReadProjection(w) \/ CompareShopify(w) \/ SavePlan(w)
        => UNCHANGED ghosts
  BY DEF ReadCatalog, ReadProjection, CompareShopify, SavePlan
<1>2. MarkSent(w) \/ Look(w) \/ InventorySet(w) => UNCHANGED ghosts
  BY DEF MarkSent, Look, InventorySet
<1>3. SendAdjust(w) \/ CommitEntry(w) \/ MarkComplete(w) => UNCHANGED ghosts
  BY DEF SendAdjust, CommitEntry, MarkComplete
<1> QED BY <1>1, <1>2, <1>3 DEF Call

LEMMA GhostsChange ==
  ASSUME [Next]_vars
  PROVE  /\ disturbed \subseteq disturbed'
         /\ \/ UNCHANGED stock
            \/ Sell
            \/ \E q \in 0 .. MaxLevel : Move(q)
<1>1. ASSUME NEW w \in Workers, Call(w) PROVE UNCHANGED ghosts
  BY <1>1, CallsKeepGhosts
<1>2. ASSUME NEW w \in Workers,
             Fail(w) \/ \E k \in Keys : \E hash \in Hashes(k) : Deliver(w, k, hash)
      PROVE  disturbed \subseteq disturbed' /\ UNCHANGED stock
  BY <1>2 DEF Fail, Deliver, ghosts
<1>3. CASE Crash \/ UNCHANGED vars
  BY <1>3 DEF Crash, vars, ghosts
<1>4. Sell \/ (\E q \in 0 .. MaxLevel : Move(q)) => disturbed \subseteq disturbed'
  BY DEF Sell, Move
<1> QED BY <1>1, <1>2, <1>3, <1>4 DEF Next, ghosts

(* More is announced, and nothing is taken back.                           *)
LEMMA AnnouncedGrows ==
  ASSUME SyncTypeOK, WorksFit, [Next]_vars
  PROVE  /\ Announced \subseteq Announced' /\ revision <= revision'
         /\ Len(levels) <= Len(levels')
         /\ \A n \in 1 .. Len(levels) : levels'[n] = levels[n]
<1>1. /\ revision \in Nat /\ levels \in Seq(Int) /\ Len(levels) \in Nat
      /\ \A q \in 0 .. MaxLevel : q \in Int
      /\ \A p \in Workers : job[p].plan \in Plans
  BY SyncAssumption DEF SyncTypeOK, Jobs
<1>2. \/ levels' = levels
      \/ \E q \in Int \union {None} : levels' = Append(levels, q)
  <2>1. ASSUME NEW p \in Workers, SetBy(p)
        PROVE  \E q \in Int \union {None} : levels' = Append(levels, q)
    BY <1>1, <2>1 DEF SetBy, Plan, Plans
  <2>2. ASSUME NEW q \in 0 .. MaxLevel, Move(q)
        PROVE  q \in Int /\ levels' = Append(levels, q)
    BY <1>1, <2>2 DEF Move
  <2>3. SidesStay \/ Sell \/ (\E p \in Workers : AdjustedBy(p)) => levels' = levels
    BY DEF SidesStay, sides, Sell, AdjustedBy
  <2> QED BY <2>1, <2>2, <2>3, SidesChange
<1>3. Len(levels) <= Len(levels') /\ \A n \in 1 .. Len(levels) : levels'[n] = levels[n]
  BY <1>1, <1>2
<1>4. revision <= revision' /\ revision' \in Nat
  BY <1>1, SidesChange DEF SidesStay, sides, Sell, Move, AdjustedBy, SetBy
<1>5. Len(levels') \in Nat
  BY <1>1, <1>2
<1>6. Announced \subseteq Announced'
  BY <1>1, <1>3, <1>4, <1>5 DEF Announced
<1> QED BY <1>3, <1>4, <1>6

(***************************************************************************)
(* The step keeps the types.                                               *)
(***************************************************************************)
LEMMA JobsTyped ==
  ASSUME SyncInv, NEW w \in Workers, Call(w)
  PROVE  job' \in [Workers -> Jobs]
<1>0. /\ job \in [Workers -> Jobs] /\ job[w] \in Jobs /\ NoJob \in Jobs
      /\ job[w].plan \in Plans /\ entry \in Int /\ service \in Int /\ revision \in Nat
      /\ job[w].stage # "idle" /\ job[w].key \in Keys
  BY NoneTyped, CallsAreAwake, JobFacts, SyncAssumption DEF SyncInv, SyncTypeOK, Jobs
<1>a. Leave(w) => job' \in [Workers -> Jobs]
  BY <1>0 DEF Leave
<1>b. ASSUME NEW stage \in Stages, Goto(w, stage) PROVE job' \in [Workers -> Jobs]
  BY <1>0, <1>b DEF Goto, Jobs
<1>1. CASE ReadCatalog(w)
  <2>1. [job[w] EXCEPT !.plan.compare = entry, !.stage = "project"] \in Jobs
    BY <1>0 DEF Jobs, Plans, Stages
  <2> QED BY <1>0, <1>1, <2>1 DEF ReadCatalog
<1>2. CASE ReadProjection(w)
  <2> DEFINE target == levels[job[w].key[2]]
  <2>1. CASE Outbound(w)
    <3>1. [job[w] EXCEPT !.plan.quantity = service, !.stage = "compare"] \in Jobs
      BY <1>0 DEF Jobs, Plans, Stages
    <3> QED BY <1>0, <1>2, <2>1, <3>1 DEF ReadProjection
  <2>2. CASE ~Outbound(w)
    <3>1. target \in Int
      <4>1. job[w].key \in Notices /\ job[w].key \in Announced
        BY <1>0, <2>2, JobFacts DEF SyncInv, Outbound
      <4>2. job[w].key[2] \in 1 .. Len(levels)
        BY <4>1, KeyFacts, AnnouncedFacts DEF SyncInv
      <4> QED BY <4>2, AnnouncedFacts DEF SyncInv
    <3>2. AdjustTo(target) \in Adjusts
      BY <1>0, <3>1 DEF AdjustTo, NoAdjust, Adjusts
    <3>3. [job[w] EXCEPT !.plan.quantity = target, !.stage = "save",
                         !.plan.adjust = AdjustTo(target)] \in Jobs
      BY <1>0, <3>1, <3>2 DEF Jobs, Plans, Stages
    <3>4. job' = [job EXCEPT ![w].plan.quantity = target, ![w].stage = "save",
                             ![w].plan.adjust = AdjustTo(target)]
      BY <1>2, <2>2 DEF ReadProjection
    <3> DEFINE j == [job[w] EXCEPT !.plan.quantity = target, !.stage = "save",
                                   !.plan.adjust = AdjustTo(target)]
    <3>5. job' = [job EXCEPT ![w] = j]
      BY <1>0, <3>4
    <3>6. j \in Jobs
      BY <3>3
    <3> HIDE DEF j
    <3> QED BY <1>0, <3>5, <3>6
  <2> QED BY <2>1, <2>2
<1>3. CASE CompareShopify(w)
  BY <1>3, <1>a, <1>b DEF CompareShopify, Quarantine, Stages
<1>4. CASE SavePlan(w)
  BY <1>4, <1>a, <1>b DEF SavePlan, Stages
<1>5. CASE MarkSent(w)
  BY <1>5, <1>a, <1>b DEF MarkSent, Stages
<1>6. CASE Look(w)
  BY <1>6, <1>a, <1>b DEF Look, Quarantine, Stages
<1>7. CASE InventorySet(w)
  BY <1>7, <1>a, <1>b DEF InventorySet, Answered, Quarantine, Stages
<1>8. CASE SendAdjust(w)
  BY <1>8, <1>a, <1>b DEF SendAdjust, Answered, Quarantine, Stages
<1>9. CASE CommitEntry(w)
  BY <1>9, <1>b DEF CommitEntry, Stages
<1>10. CASE MarkComplete(w)
  BY <1>10, <1>a DEF MarkComplete
<1> QED BY <1>1, <1>2, <1>3, <1>4, <1>5, <1>6, <1>7, <1>8, <1>9, <1>10 DEF Call

LEMMA ReceiptsTyped ==
  ASSUME SyncInv, [Next]_vars
  PROVE  receipts' \in [Keys -> Receipts]
<1>0. receipts \in [Keys -> Receipts] /\ \A w \in Workers : job[w].plan \in Plans
  BY DEF SyncInv, SyncTypeOK, Jobs
<1>1. ASSUME NEW k \in Keys PROVE receipts'[k] \in Receipts
  <2>1. CASE Opens(k)
    BY <2>1, OpenedType DEF Opens, SyncInv
  <2>2. ASSUME NEW w \in Workers, job[w].key = k, Saves(w) PROVE receipts'[k] \in Receipts
    <3>1. receipts'[k] = [receipts[k] EXCEPT !.state = "effect-planned", !.plan = Plan(w)]
      BY <1>0, <2>2 DEF Saves
    <3> QED BY <1>0, <3>1 DEF Plan, Receipts, States
  <2>3. ASSUME NEW w \in Workers, job[w].key = k, Marks(w) \/ Completes(w)
        PROVE  receipts'[k] \in Receipts
    <3>1. \E state \in States : receipts'[k] = [receipts[k] EXCEPT !.state = state]
      BY <1>0, <2>3 DEF Marks, Completes, States
    <3> QED BY <1>0, <3>1 DEF Receipts
  <2>4. ASSUME NEW w \in Workers, job[w].key = k, Conflicts(w)
        PROVE  receipts'[k] \in Receipts
    <3>1. \E reason \in Reasons :
            receipts'[k] = [receipts[k] EXCEPT !.state = "quarantined", !.reason = reason]
      BY <1>0, <2>4 DEF Conflicts, Reasons
    <3> QED BY <1>0, <3>1 DEF Receipts, States
  <2> QED BY <1>0, <2>1, <2>2, <2>3, <2>4, ReceiptsChange DEF ReceiptTurn, SyncInv
<1>2. receipts' = [k \in Keys |-> receipts'[k]]
  <2>1. ASSUME NEW w \in Workers, Call(w) PROVE receipts' = [k \in Keys |-> receipts'[k]]
    <3>a. ASSUME NEW reason, Quarantine(w, reason)
          PROVE  receipts' = [k \in Keys |-> receipts'[k]]
      BY <1>0, <3>a DEF Quarantine
    <3>1. CASE SavePlan(w) \/ MarkSent(w) \/ MarkComplete(w)
      BY <1>0, <3>1 DEF SavePlan, MarkSent, MarkComplete
    <3>2. CompareShopify(w) \/ Look(w) \/ InventorySet(w) \/ SendAdjust(w)
            => UNCHANGED receipts \/ \E reason : Quarantine(w, reason)
      BY DEF CompareShopify, Look, InventorySet, SendAdjust
    <3>3. ReadCatalog(w) \/ ReadProjection(w) \/ CommitEntry(w) => UNCHANGED receipts
      BY DEF ReadCatalog, ReadProjection, CommitEntry
    <3> QED BY <1>0, <2>1, <3>a, <3>1, <3>2, <3>3 DEF Call
  <2>2. ASSUME NEW w \in Workers, NEW l \in Keys, NEW hash \in Hashes(l), Deliver(w, l, hash)
        PROVE  receipts' = [k \in Keys |-> receipts'[k]]
    BY <1>0, <2>2 DEF Deliver
  <2>3. CASE UNCHANGED receipts
    BY <1>0, <2>3
  <2> QED BY <2>1, <2>2, <2>3 DEF Next, vars, Fail, Crash, Sell, Move
<1> QED BY <1>1, <1>2

LEMMA TypeStep ==
  ASSUME SyncInv, [Next]_vars
  PROVE  SyncTypeOK'
<1>0. /\ job \in [Workers -> Jobs] /\ NoJob \in Jobs /\ \A w \in Workers : job[w].plan \in Plans
      /\ service \in Int /\ shopify \in Int /\ entry \in Int /\ stock \in Int
      /\ revision \in Nat /\ Len(levels) \in Nat /\ applied \subseteq 1 .. Len(levels)
      /\ revision <= MaxRevision /\ MaxRevision \in Nat
      /\ Len(levels) <= MaxNotices /\ MaxNotices \in Nat /\ levels \in Seq(Int)
      /\ disturbed \subseteq {"doubled", "echoed", "crossed"}
      /\ \A q \in 0 .. MaxLevel : q \in Int
  BY NoneTyped, SyncAssumption DEF SyncInv, SyncTypeOK, Jobs
<1>1. job' \in [Workers -> Jobs]
  <2>1. ASSUME NEW w \in Workers, NEW k \in Keys, NEW hash \in Hashes(k), Deliver(w, k, hash)
        PROVE  job' \in [Workers -> Jobs]
    <3> DEFINE r == Opened(k, hash)
               j == [key |-> k, stage |-> ResumeAt(k, r.state), hash |-> hash, plan |-> r.plan]
    <3>1. r \in Receipts /\ hash \in Hash
      BY OpenedType DEF SyncInv, Hashes, Hash
    <3>2. j \in Jobs
      BY <3>1 DEF Jobs, ResumeAt, BuildAt, Stages, Receipts
    <3>3. job' = [job EXCEPT ![w] = NoJob] \/ job' = [job EXCEPT ![w] = j]
      BY <2>1 DEF Deliver
    <3> HIDE DEF j
    <3> QED BY <1>0, <3>2, <3>3
  <2>2. ASSUME NEW w \in Workers, Fail(w) PROVE job' \in [Workers -> Jobs]
    BY <1>0, <2>2 DEF Fail, Leave
  <2>3. CASE Crash
    BY <1>0, <2>3 DEF Crash
  <2>4. CASE UNCHANGED job
    BY <1>0, <2>4
  <2> QED BY <2>1, <2>2, <2>3, <2>4, JobsTyped DEF Next, vars, Sell, Move
<1>2. ASSUME NEW w \in Workers, NEW plan, plan = job[w].plan,
             job[w].key \in Events, job[w].stage \in Planning
      PROVE  plan.quantity \in Int
  <2>1. job[w].key \in Keys /\ plan \in Plans
    BY <1>0, <1>2, KeyFacts
  <2>2. Held(job[w].key, plan)
    BY <1>2 DEF Held
  <2> QED BY <1>2, <2>1, <2>2 DEF SyncInv, PlansGood, GoodPlan
<1>3. ASSUME NEW p \in Workers, SetBy(p)
      PROVE  /\ shopify' \in Int /\ levels' \in Seq(Int) /\ Len(levels') = Len(levels) + 1
             /\ Len(levels) < MaxNotices /\ UNCHANGED <<service, revision, applied>>
  <2>1. job[p].stage = "set" /\ job[p].key \in Events
    BY <1>3, JobFacts DEF SetBy, At, Inward, SyncInv
  <2>2. Plan(p).quantity \in Int
    BY <1>2, <2>1 DEF Planning, Bound, Plan
  <2> QED BY <1>0, <1>3, <2>2 DEF SetBy
<1>4. ASSUME NEW p \in Workers, AdjustedBy(p)
      PROVE  /\ service' \in Int /\ revision' = revision + 1 /\ revision < MaxRevision
             /\ applied' \subseteq 1 .. Len(levels) /\ UNCHANGED <<shopify, levels>>
  <2>1. job[p].stage = "adjust" /\ job[p].key \in Notices /\ job[p].key \in Announced
    BY <1>4, JobFacts, KeyFacts DEF AdjustedBy, At, Outward, SyncInv
  <2>2. job[p].key[2] \in 1 .. Len(levels)
    BY <2>1, KeyFacts, AnnouncedFacts DEF SyncInv
  <2>3. Plan(p).adjust.delta \in Int
    BY <1>0 DEF Plan, Plans, Adjusts
  <2>4. service' = service + Plan(p).adjust.delta
    BY <1>4 DEF AdjustedBy
  <2>5. applied' = applied \union {job[p].key[2]}
    BY <1>4 DEF AdjustedBy
  <2>6. service' \in Int
    BY <1>0, <2>3, <2>4
  <2>7. revision' = revision + 1 /\ revision < MaxRevision /\ UNCHANGED <<shopify, levels>>
    BY <1>4 DEF AdjustedBy
  <2> QED BY <1>0, <2>2, <2>5, <2>6, <2>7
<1>5. /\ service' \in Int /\ shopify' \in Int /\ levels' \in Seq(Int)
      /\ revision' \in Nat /\ revision' <= MaxRevision
      /\ Len(levels') \in Nat /\ Len(levels') <= MaxNotices
      /\ applied' \subseteq 1 .. Len(levels')
  <2>1. CASE SidesStay
    BY <1>0, <2>1 DEF SidesStay, sides
  <2>2. CASE Sell
    BY <1>0, <2>2 DEF Sell
  <2>3. ASSUME NEW q \in 0 .. MaxLevel, Move(q)
        PROVE  /\ UNCHANGED <<service, revision, applied>> /\ shopify' \in Int
               /\ levels' \in Seq(Int) /\ Len(levels') = Len(levels) + 1
               /\ Len(levels) < MaxNotices
    BY <1>0, <2>3 DEF Move
  <2>a. ASSUME Len(levels') = Len(levels) + 1, Len(levels) < MaxNotices, UNCHANGED applied
        PROVE  /\ Len(levels') \in Nat /\ Len(levels') <= MaxNotices
               /\ applied' \subseteq 1 .. Len(levels')
    <3> DEFINE n == Len(levels)
               m == Len(levels')
    <3>1. n \in Nat /\ m = n + 1 /\ n < MaxNotices /\ MaxNotices \in Nat
          /\ applied \subseteq 1 .. n
      BY <1>0, <2>a
    <3> HIDE DEF n, m
    <3>2. m \in Nat /\ m <= MaxNotices /\ applied \subseteq 1 .. m
      BY <3>1
    <3> QED BY <2>a, <3>2 DEF m
  <2>4. CASE \E q \in 0 .. MaxLevel : Move(q)
    <3>1. /\ UNCHANGED <<service, revision, applied>> /\ shopify' \in Int
          /\ levels' \in Seq(Int) /\ Len(levels') = Len(levels) + 1
          /\ Len(levels) < MaxNotices
      BY <2>3, <2>4
    <3> QED BY <1>0, <2>a, <3>1
  <2>5. CASE \E p \in Workers : SetBy(p)
    <3>1. /\ UNCHANGED <<service, revision, applied>> /\ shopify' \in Int
          /\ levels' \in Seq(Int) /\ Len(levels') = Len(levels) + 1
          /\ Len(levels) < MaxNotices
      BY <1>3, <2>5
    <3> QED BY <1>0, <2>a, <3>1
  <2>6. CASE \E p \in Workers : AdjustedBy(p)
    BY <1>0, <1>4, <2>6
  <2> QED BY <2>1, <2>2, <2>4, <2>5, <2>6, SidesChange DEF SyncInv
<1>6. entry' \in Int
  <2>1. ASSUME NEW w \in Workers, Commits(w) PROVE entry' \in Int
    <3>1. job[w].stage = "commit" /\ job[w].key \in Keys /\ job[w].key \in Announced
      BY <2>1, JobFacts DEF Commits, GoesWithPlan, Goes, At, SyncInv
    <3>2. GoodPlan(job[w].key, job[w].plan)
      BY <1>0, <3>1 DEF SyncInv, PlansGood, Held, Planning, Bound
    <3>3. Plan(w).quantity \in Int
      BY <3>1, <3>2, KeyFacts, AnnouncedFacts DEF GoodPlan, Plan, SyncInv
    <3> QED BY <2>1, <3>3 DEF Commits
  <2> QED BY <1>0, <2>1, EntryChange DEF SyncInv
<1>7. stock' \in Int
  BY <1>0, GhostsChange DEF Sell, Move
<1>8. disturbed' \subseteq {"doubled", "echoed", "crossed"}
  <2>1. \A k : Disturbance(k) \subseteq {"doubled", "echoed"}
    BY DEF Disturbance
  <2>2. Crossing \subseteq {"crossed"}
    BY DEF Crossing
  <2>3. \/ UNCHANGED disturbed
        \/ \E k : disturbed' = disturbed \union Disturbance(k)
        \/ disturbed' = disturbed \union Crossing
    <3>1. ASSUME NEW w \in Workers, Call(w) PROVE UNCHANGED disturbed
      BY <3>1, CallsKeepGhosts DEF ghosts
    <3> QED BY <3>1 DEF Next, vars, ghosts, Fail, Crash, Deliver, Sell, Move
  <2> QED BY <1>0, <2>1, <2>2, <2>3
<1>9. spent' \in [{"sales", "moves", "faults"} -> Nat]
  <2>0. spent \in [{"sales", "moves", "faults"} -> Nat]
    BY DEF SyncInv, SyncTypeOK
  <2>1. ASSUME NEW bound \in {"sales", "moves", "faults"}, NEW limit, Spend(bound, limit)
        PROVE  spent' \in [{"sales", "moves", "faults"} -> Nat]
    BY <2>0, <2>1 DEF Spend
  <2>2. ASSUME NEW w \in Workers, Answered(w)
        PROVE  spent' \in [{"sales", "moves", "faults"} -> Nat]
    BY <2>0, <2>1, <2>2 DEF Answered
  <2>3. ASSUME NEW w \in Workers, Call(w) PROVE UNCHANGED spent \/ Answered(w)
    <3>1. ReadCatalog(w) \/ ReadProjection(w) \/ CompareShopify(w) \/ SavePlan(w)
            => UNCHANGED spent
      BY DEF ReadCatalog, ReadProjection, CompareShopify, SavePlan
    <3>2. MarkSent(w) \/ Look(w) \/ CommitEntry(w) \/ MarkComplete(w) => UNCHANGED spent
      BY DEF MarkSent, Look, CommitEntry, MarkComplete
    <3>3. InventorySet(w) \/ SendAdjust(w) => UNCHANGED spent \/ Answered(w)
      BY DEF InventorySet, SendAdjust
    <3> QED BY <2>3, <3>1, <3>2, <3>3 DEF Call
  <2> QED BY <2>0, <2>1, <2>2, <2>3 DEF Next, vars, Fail, Crash, Deliver, Sell, Move
<1>10. revision' \in 0 .. MaxRevision
  BY <1>0, <1>5
<1> QED BY <1>1, <1>5, <1>6, <1>7, <1>8, <1>9, <1>10, ReceiptsTyped DEF SyncTypeOK

(***************************************************************************)
(* Receipts and calls go on fitting.                                       *)
(***************************************************************************)
LEMMA LastLevelStep ==
  ASSUME SyncInv, [Next]_vars
  PROVE  LastLevel'
<1>1. CASE SidesStay
  BY <1>1 DEF SidesStay, sides, SyncInv, LastLevel
<1>2. ASSUME Sell \/ \E p \in Workers : AdjustedBy(p) PROVE LastLevel'
  BY <1>2 DEF Sell, AdjustedBy, SyncInv, LastLevel
<1>3. ASSUME NEW q \in 0 .. MaxLevel, Move(q) PROVE LastLevel'
  <2>1. q \in Int /\ levels' = Append(levels, q) /\ shopify' = q
    BY <1>3, SyncAssumption DEF Move
  <2> QED BY <2>1, LevelsGrow DEF SyncInv, LastLevel
<1>4. ASSUME NEW p \in Workers, SetBy(p) PROVE LastLevel'
  <2>1. shopify' \in Int
    BY TypeStep DEF SyncTypeOK
  <2>2. levels' = Append(levels, shopify')
    BY <1>4 DEF SetBy
  <2>3. ASSUME NEW q \in Int, q = shopify' PROVE levels'[Len(levels')] = q
    BY <2>2, <2>3, LevelsGrow DEF SyncInv
  <2> QED BY <2>1, <2>3 DEF LastLevel
<1> QED BY <1>1, <1>2, <1>3, <1>4, SidesChange DEF SyncInv

LEMMA BoundStays ==
  ASSUME SyncInv, [Next]_vars, NEW k \in Keys, receipts[k].state \notin {"absent", "received"}
  PROVE  /\ receipts'[k].state \notin {"absent", "received"}
         /\ receipts'[k].plan = receipts[k].plan
<1>0. receipts \in [Keys -> Receipts] /\ receipts[k] \in Receipts
  BY DEF SyncInv, SyncTypeOK
<1>1. CASE Opens(k)
  <2>1. PICK w \in Workers, hash \in Hashes(k) : receipts'[k] = Opened(k, hash)
    BY <1>1 DEF Opens
  <2> QED BY <2>1, OpenedType DEF SyncInv
<1>2. ASSUME NEW w \in Workers, job[w].key = k, Saves(w) PROVE FALSE
  BY <1>2 DEF Saves
<1>3. ASSUME NEW w \in Workers, job[w].key = k, Marks(w) \/ Completes(w)
      PROVE  /\ receipts'[k].state \notin {"absent", "received"}
             /\ receipts'[k].plan = receipts[k].plan
  <2>1. ASSUME NEW state \in {"effect-sent", "complete"},
               receipts' = [receipts EXCEPT ![k].state = state]
        PROVE  /\ receipts'[k].state = state
               /\ receipts'[k].plan = receipts[k].plan
    BY <1>0, <2>1 DEF Receipts
  <2> QED BY <1>3, <2>1 DEF Marks, Completes
<1>5. ASSUME NEW w \in Workers, job[w].key = k, Conflicts(w)
      PROVE  /\ receipts'[k].state \notin {"absent", "received"}
             /\ receipts'[k].plan = receipts[k].plan
  <2>1. ASSUME NEW reason \in Reasons,
               receipts' = [receipts EXCEPT ![k].state = "quarantined", ![k].reason = reason]
        PROVE  /\ receipts'[k].state = "quarantined"
               /\ receipts'[k].plan = receipts[k].plan
    <3>1. receipts'[k] = [receipts[k] EXCEPT !.state = "quarantined", !.reason = reason]
      BY <1>0, <2>1
    <3> QED BY <1>0, <3>1 DEF Receipts
  <2>2. PICK reason \in {"shopify_quantity_conflict", "revision_conflict"} :
          receipts' = [receipts EXCEPT ![k].state = "quarantined", ![k].reason = reason]
    BY <1>5 DEF Conflicts
  <2> QED BY <2>1, <2>2 DEF Reasons
<1>6. ReceiptTurn(k)
  BY ReceiptsChange DEF SyncInv
<1>7. CASE receipts'[k] = receipts[k]
  BY <1>7
<1> QED BY <1>1, <1>2, <1>3, <1>5, <1>6, <1>7 DEF ReceiptTurn

LEMMA AwakeWhenChanging ==
  ASSUME NEW w \in Workers, Saves(w) \/ Marks(w) \/ Completes(w) \/ Conflicts(w)
  PROVE  job[w].stage # "idle"
BY DEF Saves, Marks, Completes, Conflicts, GoesWithPlan, Goes, At

LEMMA WorksFitStep ==
  ASSUME SyncInv, [Next]_vars
  PROVE  WorksFit'
<1>0. /\ receipts \in [Keys -> Receipts] /\ Announced \subseteq Keys
      /\ Announced \subseteq Announced' /\ SyncTypeOK /\ WorksFit
  BY AnnouncedFacts, AnnouncedGrows DEF SyncInv, SyncTypeOK
<1>1. ASSUME NEW k \in Keys, receipts'[k].state # "absent" PROVE k \in Announced'
  <2>1. CASE receipts'[k] = receipts[k]
    BY <1>0, <1>1, <2>1 DEF WorksFit
  <2>2. CASE Opens(k)
    BY <1>0, <2>2 DEF Opens
  <2>3. ASSUME NEW w \in Workers, job[w].key = k, job[w].stage # "idle" PROVE k \in Announced'
    BY <1>0, <2>3, JobFacts
  <2> QED BY <1>0, <2>1, <2>2, <2>3, AwakeWhenChanging, ReceiptsChange DEF ReceiptTurn
<1>2. ASSUME NEW q \in Workers PROVE Fits(job[q])'
  <2>0. /\ job[q].stage # "idle" =>
             /\ job[q].key \in Keys /\ job[q].key \in Announced'
             /\ job[q].key \in Events => job[q].stage \in Outward
             /\ job[q].key \notin Events => job[q].stage \in Inward
        /\ job[q].stage = "idle" => job[q] = NoJob
        /\ job[q].stage \in Bound =>
             /\ receipts'[job[q].key].state \notin {"absent", "received"}
             /\ receipts'[job[q].key].plan = job[q].plan
    <3>1. job[q].stage \in Bound => job[q].stage # "idle"
      BY DEF Bound
    <3> QED BY <1>0, <3>1, JobFacts, BoundStays DEF WorksFit, Fits
  <2>1. CASE Still(q)
    BY <2>0, <2>1 DEF Still, Fits
  <2>2. CASE Off(q)
    BY <2>2 DEF Off, Fits, NoJob, Bound
  <2>3. ASSUME NEW k \in Keys, NEW hash \in Hashes(k), Comes(q, k, hash) PROVE Fits(job[q])'
    <3> DEFINE r == Opened(k, hash)
    <3>1. /\ job'[q].key = k /\ job'[q].stage = ResumeAt(k, r.state) /\ job'[q].plan = r.plan
          /\ k \in Announced' /\ receipts'[k] = r /\ job'[q].stage # "idle"
      BY <1>0, <2>3 DEF Comes
    <3>2. r.state \in {"received", "effect-planned", "effect-sent"}
      BY <3>1 DEF ResumeAt
    <3>3. job'[q].stage \in IF k \in Events THEN Outward ELSE Inward
      BY <3>1, <3>2 DEF ResumeAt, BuildAt, Outward, Inward
    <3>4. job'[q].stage \in Bound => r.state # "received"
      BY <3>1 DEF ResumeAt, BuildAt, Bound
    <3> QED BY <3>1, <3>2, <3>3, <3>4 DEF Fits
  <2>4. CASE Catalogs(q) \/ Projects(q) \/ Compares(q)
    <3>1. /\ job'[q].key = job[q].key /\ job[q].stage # "idle"
          /\ job'[q].stage \in IF job[q].key \in Events THEN {"project", "compare", "save"}
                               ELSE {"project", "save"}
      BY <2>0, <2>4, JobFacts DEF Catalogs, Projects, Compares, Goes, GoesWithPlan, At, Inward
    <3> QED BY <2>0, <3>1 DEF Fits, Bound, Outward, Inward
  <2>5. CASE Saves(q)
    <3>1. /\ job'[q].key = job[q].key /\ job[q].stage # "idle" /\ job'[q].stage = "mark"
          /\ job'[q].plan = job[q].plan /\ job[q].key \in Keys
      BY <2>5 DEF Saves, Goes, GoesWithPlan, At
    <3>2. receipts'[job[q].key]
            = [receipts[job[q].key] EXCEPT !.state = "effect-planned", !.plan = job[q].plan]
      BY <1>0, <2>5, <3>1 DEF Saves, Plan
    <3>3. receipts[job[q].key] \in Receipts
      BY <1>0, <3>1
    <3> QED BY <2>0, <3>1, <3>2, <3>3 DEF Fits, Bound, Outward, Inward, Receipts
  <2>6. CASE Marks(q) \/ Finds(q) \/ Clears(q) \/ Sets(q) \/ Adjusted(q) \/ Commits(q)
    <3>1. /\ job'[q].key = job[q].key /\ job[q].stage \in Bound
          /\ job'[q].plan = job[q].plan
      BY <2>6 DEF Marks, Finds, Clears, Sets, Adjusted, Commits, Goes, GoesWithPlan, At, Bound
    <3>2. job'[q].stage \in IF job[q].key \in Events THEN {"look", "set", "commit", "complete"}
                            ELSE {"adjust", "commit", "complete"}
      BY <2>0, <2>6 DEF Marks, Finds, Clears, Sets, Adjusted, Commits, Goes, GoesWithPlan, At,
         Outward, Inward
    <3>3. job[q].stage # "idle" /\ job'[q].stage # "idle"
      BY <3>1, <3>2 DEF Bound
    <3> QED BY <2>0, <3>1, <3>2, <3>3 DEF Fits, Outward, Inward
  <2> QED BY <1>0, <2>1, <2>2, <2>3, <2>4, <2>5, <2>6, EveryTurn DEF Turn
<1> QED BY <1>1, <1>2 DEF WorksFit

(***************************************************************************)
(* Plans stay good.                                                        *)
(***************************************************************************)
LEMMA HeldBefore ==
  ASSUME SyncInv, [Next]_vars, NEW k \in Keys, NEW plan, Held(k, plan)'
  PROVE  \/ Held(k, plan)
         \/ \E w \in Workers : Projects(w) /\ job[w].key = k /\ job'[w].plan = plan
<1>0. receipts \in [Keys -> Receipts] /\ receipts[k] \in Receipts /\ SyncTypeOK /\ WorksFit
  BY DEF SyncInv, SyncTypeOK
<1>1. ASSUME Filed(k, plan)' PROVE Held(k, plan)
  <2>1. CASE receipts'[k] = receipts[k]
    BY <1>1, <2>1 DEF Filed, Held
  <2>2. CASE Opens(k)
    <3>1. PICK hash \in Hashes(k) : receipts'[k] = Opened(k, hash)
      BY <2>2 DEF Opens
    <3>2. receipts'[k] = receipts[k]
      BY <1>0, <1>1, <3>1, OpenedType DEF Filed
    <3> QED BY <1>1, <3>2 DEF Filed, Held
  <2>3. ASSUME NEW w \in Workers, job[w].key = k, Saves(w) PROVE Held(k, plan)
    <3>1. receipts'[k] = [receipts[k] EXCEPT !.state = "effect-planned", !.plan = Plan(w)]
      BY <1>0, <2>3 DEF Saves
    <3>2. receipts'[k].plan = job[w].plan
      BY <1>0, <3>1 DEF Receipts, Plan
    <3>3. job[w].stage = "save"
      BY <2>3 DEF Saves, GoesWithPlan, Goes, At
    <3> QED BY <1>1, <2>3, <3>2, <3>3 DEF Filed, Held, Planning
  <2>4. ASSUME NEW w \in Workers, job[w].key = k, Marks(w) \/ Completes(w) PROVE Held(k, plan)
    <3>1. receipts[k].state \in {"effect-planned", "effect-sent"}
      BY <2>4 DEF Marks, Completes
    <3>2. receipts'[k].plan = receipts[k].plan
      BY <1>0, <3>1, BoundStays
    <3> QED BY <1>1, <3>1, <3>2 DEF Filed, Held
  <2>5. ASSUME NEW w \in Workers, job[w].key = k, Conflicts(w) PROVE FALSE
    <3>1. PICK reason \in {"shopify_quantity_conflict", "revision_conflict"} :
            receipts' = [receipts EXCEPT ![k].state = "quarantined", ![k].reason = reason]
      BY <2>5 DEF Conflicts
    <3>2. receipts'[k] = [receipts[k] EXCEPT !.state = "quarantined", !.reason = reason]
      BY <1>0, <3>1
    <3>3. receipts'[k].state = "quarantined"
      BY <1>0, <3>2 DEF Receipts
    <3> QED BY <1>1, <3>3 DEF Filed
  <2> QED BY <1>0, <2>1, <2>2, <2>3, <2>4, <2>5, ReceiptsChange DEF ReceiptTurn
<1>2. ASSUME NEW q \in Workers,
             job'[q].key = k, job'[q].stage \in Planning, job'[q].plan = plan, ~Projects(q)
      PROVE  Held(k, plan)
  <2>1. CASE Still(q)
    BY <1>2, <2>1 DEF Still, Held
  <2>2. CASE Off(q)
    BY <1>2, <2>2 DEF Off, NoJob, Planning, Bound
  <2>3. ASSUME NEW l \in Keys, NEW hash \in Hashes(l), Comes(q, l, hash) PROVE Held(k, plan)
    <3> DEFINE r == Opened(l, hash)
    <3>1. l = k /\ job'[q].stage = ResumeAt(k, r.state) /\ plan = r.plan
      BY <1>2, <2>3 DEF Comes
    <3>2. r.state \in {"effect-planned", "effect-sent"}
      BY <1>2, <3>1 DEF ResumeAt, BuildAt, Planning, Bound
    <3>3. r = receipts[k]
      BY <1>0, <3>1, <3>2, OpenedType
    <3> QED BY <3>1, <3>2, <3>3 DEF Held, Filed
  <2>4. CASE Catalogs(q)
    BY <1>2, <2>4 DEF Catalogs, Goes, Planning, Bound
  <2>5. CASE Compares(q) \/ Saves(q) \/ Marks(q) \/ Finds(q) \/ Clears(q) \/ Sets(q)
             \/ Adjusted(q) \/ Commits(q)
    <3>1. job'[q].key = job[q].key /\ job'[q].plan = job[q].plan
          /\ job[q].stage \in {"compare", "save", "mark", "look", "set", "adjust", "commit"}
      BY <2>5 DEF Compares, Saves, Marks, Finds, Clears, Sets, Adjusted, Commits, GoesWithPlan,
         Goes, At
    <3> QED BY <1>2, <3>1 DEF Held, Planning, Bound
  <2> QED BY <1>0, <1>2, <2>1, <2>2, <2>3, <2>4, <2>5, EveryTurn DEF Turn
<1>3. ASSUME NEW q \in Workers, job'[q].key = k, job'[q].plan = plan, Projects(q)
      PROVE  job[q].key = k
  BY <1>3 DEF Projects, Goes
<1> QED BY <1>1, <1>2, <1>3 DEF Held

LEMMA ServiceStep ==
  ASSUME SyncInv, [Next]_vars
  PROVE  \/ revision' = revision /\ service' = service /\ applied' = applied
         \/ revision' = revision + 1 /\ UNCHANGED <<shopify, levels>>
BY SidesChange DEF SidesStay, sides, Sell, Move, AdjustedBy, SetBy, SyncInv

LEMMA GoodStays ==
  ASSUME SyncInv, [Next]_vars, NEW k \in Keys, k \in Announced, NEW plan, GoodPlan(k, plan)
  PROVE  GoodPlan(k, plan)'
<1>0. revision \in Nat /\ SyncTypeOK /\ WorksFit
  BY SyncAssumption DEF SyncInv, SyncTypeOK
<1>1. CASE k \in Events
  <2>1. k[2] <= revision /\ k[2] \in Nat /\ k \notin Notices
    BY <1>0, <1>1, AnnouncedFacts, KeyFacts
  <2> QED BY <1>0, <1>1, <2>1, ServiceStep DEF GoodPlan
<1>2. CASE k \in Notices
  <2>1. k[2] \in 1 .. Len(levels) /\ k \notin Events
    BY <1>0, <1>2, AnnouncedFacts, KeyFacts
  <2>2. levels'[k[2]] = levels[k[2]]
    BY <1>0, <2>1, AnnouncedGrows
  <2>3. plan.adjust # NoAdjust =>
          /\ plan.adjust.revision \in Nat /\ plan.adjust.revision <= revision'
          /\ plan.adjust.revision = revision' => revision' = revision /\ service' = service
    BY <1>0, <1>2, ServiceStep DEF GoodPlan
  <2> QED BY <1>2, <2>1, <2>2, <2>3 DEF GoodPlan
<1> QED BY <1>1, <1>2, KeyFacts

LEMMA HeldAnnounced ==
  ASSUME SyncTypeOK, WorksFit, NEW k \in Keys, NEW plan, Held(k, plan)
  PROVE  k \in Announced
<1>1. ASSUME NEW w \in Workers, job[w].key = k, job[w].stage \in Planning PROVE k \in Announced
  BY <1>1, JobFacts DEF Planning, Bound
<1> QED BY <1>1 DEF Held, Filed, WorksFit

(* The plan a call makes of what it reads is good.                         *)
LEMMA ProjectedPlan ==
  ASSUME SyncInv, NEW w \in Workers, Projects(w), NEW plan, plan = job'[w].plan
  PROVE  /\ job[w].key \in Keys /\ UNCHANGED sides /\ GoodPlan(job[w].key, plan)
         /\ job[w].key \in Notices /\ Idle(plan) => service = levels[job[w].key[2]]
<1>0. /\ job[w].stage # "idle" /\ SyncTypeOK /\ WorksFit /\ revision \in Nat /\ service \in Int
      /\ None \notin Int
  BY SyncAssumption DEF SyncInv, SyncTypeOK, Projects, Goes, At
<1>1. UNCHANGED sides /\ job[w].key \in Keys
  BY <1>0, JobFacts DEF Projects, ReadProjection
<1>2. CASE job[w].key \in Events
  BY <1>0, <1>1, <1>2, KeyFacts DEF Projects, GoodPlan
<1>3. CASE job[w].key \in Notices
  <2>1. job[w].key \notin Events /\ job[w].key[2] \in 1 .. Len(levels)
    BY <1>0, <1>3, JobFacts, KeyFacts, AnnouncedFacts
  <2>2. levels[job[w].key[2]] \in Int
    BY <1>0, <2>1, AnnouncedFacts
  <2>3. plan.quantity = levels[job[w].key[2]] /\ plan.adjust = AdjustTo(levels[job[w].key[2]])
    BY <1>3, <2>1 DEF Projects
  <2>4. ASSUME NEW target \in Int, AdjustTo(target) # NoAdjust
        PROVE  /\ AdjustTo(target).revision = revision
               /\ AdjustTo(target).delta # 0
               /\ service + AdjustTo(target).delta = target
    BY <1>0, <2>4 DEF AdjustTo
  <2>5. ASSUME NEW target \in Int, AdjustTo(target) = NoAdjust PROVE service = target
    BY <1>0, <2>5 DEF AdjustTo, NoAdjust
  <2> QED BY <1>0, <1>1, <1>3, <2>1, <2>2, <2>3, <2>4, <2>5 DEF GoodPlan, Idle
<1> QED BY <1>1, <1>2, <1>3, KeyFacts

LEMMA PlansGoodStep ==
  ASSUME SyncInv, [Next]_vars
  PROVE  PlansGood'
<1>1. ASSUME NEW k \in Keys, NEW plan \in Plans, Held(k, plan)' PROVE GoodPlan(k, plan)'
  <2>1. CASE Held(k, plan)
    BY <1>1, <2>1, HeldAnnounced, GoodStays DEF SyncInv, PlansGood
  <2>2. ASSUME NEW w \in Workers, Projects(w), job[w].key = k, job'[w].plan = plan
        PROVE  GoodPlan(k, plan)'
    <3>1. UNCHANGED sides /\ GoodPlan(k, plan)
      BY <2>2, ProjectedPlan
    <3>2. service' = service /\ revision' = revision /\ levels' = levels
      BY <3>1 DEF sides
    <3> QED BY <3>1, <3>2 DEF GoodPlan
  <2> QED BY <1>1, <2>1, <2>2, HeldBefore
<1> QED BY <1>1 DEF PlansGood

(***************************************************************************)
(* A difference between the sides stays to be worked off.                  *)
(***************************************************************************)
LEMMA Unannounced ==
  ASSUME SyncTypeOK, WorksFit, NEW k \in Keys, k \notin Announced
  PROVE  /\ receipts[k].state = "absent"
         /\ \A w \in Workers : job[w].key = k => job[w].stage = "idle"
         /\ \A plan : ~Held(k, plan)
<1>1. receipts[k].state = "absent"
  BY DEF WorksFit
<1>2. \A w \in Workers : job[w].key = k => job[w].stage = "idle"
  BY JobFacts
<1> QED BY <1>1, <1>2, HeldAnnounced

(* A step that leaves the receipts leaves an unannounced key untouched.    *)
LEMMA Untouched ==
  ASSUME SyncInv, NEW k \in Keys, k \notin Announced, UNCHANGED receipts,
         \/ UNCHANGED job
         \/ \E p \in Workers :
              /\ Off(p) \/ (job'[p].key = job[p].key /\ ~At(p, "idle"))
              /\ \A v \in Workers \ {p} : job'[v] = job[v]
  PROVE  /\ receipts'[k].state = "absent"
         /\ \A w \in Workers : job'[w].key = k => job'[w].stage = "idle"
         /\ \A plan : ~Held(k, plan)'
<1>0. SyncTypeOK /\ WorksFit
  BY DEF SyncInv
<1>1. receipts'[k].state = "absent"
  BY <1>0, Unannounced
<1>2. \A w \in Workers : job'[w].key = k => job'[w].stage = "idle"
  BY <1>0, Unannounced DEF Off, NoJob, At
<1> QED BY <1>1, <1>2 DEF Held, Filed, Planning, Bound

(* What changes one of the sides has just been announced, and is not done. *)
LEMMA NewEvent ==
  ASSUME SyncInv, Sell \/ \E p \in Workers : AdjustedBy(p)
  PROVE  EventPending' /\ revision' = revision + 1 /\ UNCHANGED <<shopify, levels>>
<1>0. SyncTypeOK /\ WorksFit /\ revision \in Nat /\ MaxRevision \in Nat
  BY SyncAssumption DEF SyncInv, SyncTypeOK
<1>1. /\ revision' = revision + 1 /\ revision < MaxRevision /\ UNCHANGED receipts
      /\ UNCHANGED <<shopify, levels>>
  BY DEF Sell, AdjustedBy
<1>k. PICK k : k = Event(revision + 1)
  OBVIOUS
<1>2. k \in Keys /\ k \in Events /\ k[2] = revision + 1 /\ k \notin Notices
  BY <1>0, <1>1, <1>k, KeyFacts
<1>3. k \notin Announced
  BY <1>0, <1>2, AnnouncedFacts
<1>4. Event(revision)' = k
  BY <1>1, <1>k DEF Event
<1>5. \/ UNCHANGED job
      \/ \E p \in Workers :
           /\ Off(p) \/ (job'[p].key = job[p].key /\ ~At(p, "idle"))
           /\ \A v \in Workers \ {p} : job'[v] = job[v]
  <2>1. ASSUME NEW p \in Workers, AdjustedBy(p)
        PROVE  /\ Off(p) \/ (job'[p].key = job[p].key /\ ~At(p, "idle"))
               /\ \A v \in Workers \ {p} : job'[v] = job[v]
    BY <2>1 DEF AdjustedBy, GoesWithPlan, Goes, At
  <2> QED BY <2>1 DEF Sell
<1>6. /\ receipts'[k].state = "absent"
      /\ \A w \in Workers : job'[w].key = k => job'[w].stage = "idle"
  BY <1>1, <1>2, <1>3, <1>5, Untouched
<1>7. ~Done(k)'
  BY <1>2, <1>6 DEF Done
<1>8. revision' > 0
  BY <1>0, <1>1
<1>9. ~Done(Event(revision))'
  BY <1>4, <1>7 DEF Done
<1> QED BY <1>1, <1>8, <1>9 DEF EventPending

LEMMA NewNotice ==
  ASSUME SyncInv, (\E q \in 0 .. MaxLevel : Move(q)) \/ (\E p \in Workers : SetBy(p)),
         NEW n, n = Len(levels')
  PROVE  /\ n = Len(levels) + 1 /\ n > 0 /\ Notice(n) \in Keys /\ Notice(n) \notin Announced
         /\ \A plan : ~Held(Notice(n), plan)'
         /\ ~Done(Notice(n))'
         /\ NoticePending'
<1>0. /\ SyncTypeOK /\ WorksFit /\ Len(levels) \in Nat /\ MaxNotices \in Nat
      /\ applied \subseteq 1 .. Len(levels) /\ \A q \in 0 .. MaxLevel : q \in Int
      /\ levels \in Seq(Int)
  BY SyncAssumption DEF SyncInv, SyncTypeOK
<1>1. /\ Len(levels) < MaxNotices /\ UNCHANGED <<receipts, applied>>
      /\ \E q : levels' = Append(levels, q)
  BY DEF Move, SetBy
<1>2. n = Len(levels) + 1
  BY <1>0, <1>1
<1> DEFINE k == Notice(n)
<1>3. k \in Keys /\ k \in Notices /\ k[2] = n /\ k \notin Events
  BY <1>0, <1>1, <1>2, KeyFacts
<1>4. k \notin Announced
  BY <1>0, <1>2, <1>3, AnnouncedFacts
<1> HIDE DEF k
<1>5. \/ UNCHANGED job
      \/ \E p \in Workers :
           /\ Off(p) \/ (job'[p].key = job[p].key /\ ~At(p, "idle"))
           /\ \A v \in Workers \ {p} : job'[v] = job[v]
  <2>1. ASSUME NEW p \in Workers, SetBy(p)
        PROVE  /\ Off(p) \/ (job'[p].key = job[p].key /\ ~At(p, "idle"))
               /\ \A v \in Workers \ {p} : job'[v] = job[v]
    BY <2>1 DEF SetBy, GoesWithPlan, Goes, At
  <2> QED BY <2>1 DEF Move
<1>6. /\ receipts'[k].state = "absent"
      /\ \A w \in Workers : job'[w].key = k => job'[w].stage = "idle"
      /\ \A plan : ~Held(k, plan)'
  BY <1>1, <1>3, <1>4, <1>5, Untouched
<1>7. n \notin applied'
  BY <1>0, <1>1, <1>2
<1>8. ~Done(k)'
  BY <1>3, <1>6, <1>7 DEF Done
<1>10. Notice(Len(levels))' = k
  BY DEF Notice, k
<1>9. ~Done(Notice(Len(levels)))'
  BY <1>8, <1>10 DEF Done
<1>11. n > 0
  BY <1>0, <1>2
<1> QED BY <1>2, <1>3, <1>4, <1>6, <1>8, <1>9, <1>10, <1>11 DEF NoticePending, k

LEMMA CompleteBefore ==
  ASSUME SyncInv, [Next]_vars, NEW k \in Keys, receipts'[k].state = "complete"
  PROVE  Done(k)
<1>0. receipts \in [Keys -> Receipts] /\ SyncTypeOK /\ WorksFit
  BY DEF SyncInv, SyncTypeOK
<1>1. CASE receipts'[k] = receipts[k]
  BY <1>1 DEF Done
<1>2. CASE Opens(k)
  <2>1. PICK hash \in Hashes(k) : receipts'[k] = Opened(k, hash)
    BY <1>2 DEF Opens
  <2> QED BY <1>0, <2>1, OpenedType DEF Done
<1>3. ASSUME NEW w \in Workers, job[w].key = k, Completes(w) PROVE Done(k)
  BY <1>3 DEF Completes, At, Done
<1>4. ASSUME NEW w \in Workers, job[w].key = k, Saves(w) \/ Marks(w) \/ Conflicts(w)
      PROVE  receipts'[k].state # "complete"
  <2>1. CASE Saves(w)
    <3>1. receipts'[k] = [receipts[k] EXCEPT !.state = "effect-planned", !.plan = Plan(w)]
      BY <1>0, <1>4, <2>1 DEF Saves
    <3> QED BY <1>0, <3>1 DEF Receipts
  <2>2. CASE Marks(w)
    <3>1. receipts'[k] = [receipts[k] EXCEPT !.state = "effect-sent"]
      BY <1>0, <1>4, <2>2 DEF Marks
    <3> QED BY <1>0, <3>1 DEF Receipts
  <2>3. CASE Conflicts(w)
    <3>1. PICK reason \in {"shopify_quantity_conflict", "revision_conflict"} :
            receipts' = [receipts EXCEPT ![k].state = "quarantined", ![k].reason = reason]
      BY <1>4, <2>3 DEF Conflicts
    <3>2. receipts'[k] = [receipts[k] EXCEPT !.state = "quarantined", !.reason = reason]
      BY <1>0, <3>1
    <3> QED BY <1>0, <3>2 DEF Receipts
  <2> QED BY <1>4, <2>1, <2>2, <2>3
<1> QED BY <1>0, <1>1, <1>2, <1>3, <1>4, ReceiptsChange DEF ReceiptTurn

(* What can make an announcement done.                                     *)
LEMMA DoneBefore ==
  ASSUME SyncInv, [Next]_vars, NEW k \in Keys, Done(k)'
  PROVE  \/ Done(k)
         \/ \E w \in Workers :
              job[w].key = k /\ (Finds(w) \/ Sets(w) \/ Adjusted(w) \/ AdjustedBy(w))
<1>0. receipts \in [Keys -> Receipts] /\ SyncTypeOK /\ WorksFit
  BY DEF SyncInv, SyncTypeOK
<1>1. receipts'[k].state = "complete" => Done(k)
  BY CompleteBefore
<1>2. ASSUME NEW q \in Workers, job'[q].key = k, job'[q].stage \in {"commit", "complete"}
      PROVE  Done(k) \/ (job[q].key = k /\ (Finds(q) \/ Sets(q) \/ Adjusted(q)))
  <2>1. CASE Still(q)
    BY <1>2, <2>1 DEF Still, Done
  <2>2. CASE Off(q)
    BY <1>2, <2>2 DEF Off, NoJob
  <2>3. ASSUME NEW l \in Keys, NEW hash \in Hashes(l), Comes(q, l, hash) PROVE FALSE
    BY <1>2, <2>3 DEF Comes, ResumeAt, BuildAt
  <2>4. CASE Catalogs(q) \/ Projects(q) \/ Compares(q) \/ Saves(q) \/ Marks(q) \/ Clears(q)
    BY <1>2, <2>4 DEF Catalogs, Projects, Compares, Saves, Marks, Clears, GoesWithPlan, Goes
  <2>5. CASE Commits(q)
    BY <1>2, <2>5 DEF Commits, GoesWithPlan, Goes, At, Done
  <2>6. CASE Finds(q) \/ Sets(q) \/ Adjusted(q)
    BY <1>2, <2>6 DEF Finds, Sets, Adjusted, GoesWithPlan, Goes
  <2> QED BY <1>0, <2>1, <2>2, <2>3, <2>4, <2>5, <2>6, EveryTurn DEF Turn
<1>3. ASSUME k \in Notices, k[2] \in applied', k[2] \notin applied
      PROVE  \E w \in Workers : job[w].key = k /\ AdjustedBy(w)
  <2>1. PICK p \in Workers : AdjustedBy(p)
    BY <1>0, <1>3, SidesChange DEF SidesStay, sides, Sell, Move, SetBy
  <2>2. job[p].stage = "adjust" /\ k[2] = job[p].key[2]
    BY <1>3, <2>1 DEF AdjustedBy, At
  <2>3. job[p].key \in Notices
    BY <1>0, <2>2, JobFacts DEF Outward
  <2> QED BY <1>3, <2>1, <2>2, <2>3, KeyFacts
<1> QED BY <1>1, <1>2, <1>3 DEF Done

LEMMA SidesStayOrNew ==
  ASSUME SyncInv, [Next]_vars
  PROVE  \/ SidesStay
         \/ EventPending' /\ revision' = revision + 1 /\ UNCHANGED <<shopify, levels>>
         \/ (\E q \in 0 .. MaxLevel : Move(q)) \/ (\E p \in Workers : SetBy(p))
BY SidesChange, NewEvent DEF SyncInv

(* Working off the last event leaves the sides the same.                   *)
LEMMA EventStaysPending ==
  ASSUME SyncInv, [Next]_vars, SidesStay, service = shopify \/ EventPending
  PROVE  (service = shopify \/ EventPending)'
<1>0. SyncTypeOK /\ WorksFit /\ revision \in 0 .. MaxRevision /\ MaxRevision \in Nat
  BY SyncAssumption DEF SyncInv, SyncTypeOK
<1>1. service' = service /\ shopify' = shopify /\ revision' = revision
  BY DEF SidesStay, sides
<1>2. ASSUME EventPending, ~EventPending' PROVE service = shopify
  <2>k. PICK k : k = Event(revision)
    OBVIOUS
  <2>1. k \in Keys /\ k \in Events /\ k[2] = revision
    BY <1>0, <1>2, <2>k, KeyFacts DEF EventPending
  <2>2. Done(k)'
    <3>1. Event(revision)' = k
      BY <1>1, <2>k DEF Event
    <3>2. Done(Event(revision))'
      BY <1>1, <1>2 DEF EventPending
    <3> QED BY <3>1, <3>2 DEF Done
  <2>3. ~Done(k)
    BY <1>2, <2>k DEF EventPending
  <2>4. PICK w \in Workers :
          job[w].key = k /\ (Finds(w) \/ Sets(w) \/ Adjusted(w) \/ AdjustedBy(w))
    BY <2>1, <2>2, <2>3, DoneBefore
  <2>5. job[w].stage = "adjust" => job[w].key \notin Events
    BY <1>0, JobFacts DEF Outward
  <2>6. ~Adjusted(w) /\ ~AdjustedBy(w)
    BY <2>1, <2>4, <2>5 DEF Adjusted, AdjustedBy, GoesWithPlan, Goes, At
  <2>7. CASE Sets(w)
    <3>1. job[w].stage = "set" /\ shopify' = job[w].plan.quantity
      BY <2>7 DEF Sets, GoesWithPlan, Goes, At, Plan
    <3>2. job[w].plan \in Plans
      BY <1>0, <3>1, JobFacts
    <3>3. Held(k, job[w].plan)
      BY <2>4, <3>1 DEF Held, Planning, Bound
    <3> QED BY <1>1, <2>1, <3>1, <3>2, <3>3 DEF SyncInv, PlansGood, GoodPlan
  <2>8. CASE Finds(w)
    <3>1. job[w].stage = "look" /\ shopify = job[w].plan.quantity
      BY <2>8 DEF Finds, GoesWithPlan, Goes, At, Plan
    <3>2. job[w].plan \in Plans
      BY <1>0, <3>1, JobFacts
    <3>3. Held(k, job[w].plan)
      BY <2>4, <3>1 DEF Held, Planning, Bound
    <3> QED BY <2>1, <3>1, <3>2, <3>3 DEF SyncInv, PlansGood, GoodPlan
  <2> QED BY <2>4, <2>6, <2>7, <2>8
<1> QED BY <1>1, <1>2

(* A notice that is done without a change of the service was done before,  *)
(* or asks for nothing.                                                    *)
LEMMA ReplayedWhenStaying ==
  ASSUME SyncInv, SidesStay, NEW w \in Workers, job[w].key \in Notices,
         Finds(w) \/ Sets(w) \/ Adjusted(w) \/ AdjustedBy(w)
  PROVE  Replayed(w) /\ job[w].stage = "adjust"
<1>0. /\ SyncTypeOK /\ WorksFit /\ revision \in Nat /\ revision' = revision
      /\ job[w].key \notin Events
  BY SyncAssumption, KeyFacts DEF SyncInv, SyncTypeOK, SidesStay, sides
<1>1. job[w].stage \in {"look", "set"} => job[w].key \in Events
  BY <1>0, JobFacts DEF Inward
<1>2. SendAdjust(w) /\ job[w].stage = "adjust"
  BY <1>0, <1>1 DEF Finds, Sets, Adjusted, AdjustedBy, GoesWithPlan, Goes, At
<1>3. ~AdjustedBy(w)
  BY <1>0 DEF AdjustedBy
<1>4. job'[w].stage = "commit"
  BY <1>2, <1>3 DEF Finds, Sets, Adjusted, GoesWithPlan, Goes
<1>5. SendAdjust(w) /\ ~Replayed(w) => revision' = revision + 1 \/ Leave(w)
  BY DEF SendAdjust, Quarantine
<1>6. ~Leave(w)
  BY <1>4 DEF Leave, NoJob, SyncInv, SyncTypeOK
<1> QED BY <1>0, <1>2, <1>5, <1>6

LEMMA DifferencePendsStep ==
  ASSUME SyncInv, [Next]_vars
  PROVE  DifferencePends'
<1>0. /\ SyncTypeOK /\ WorksFit /\ Len(levels) \in 0 .. MaxNotices
      /\ MaxNotices \in Nat
  BY SyncAssumption, AnnouncedFacts DEF SyncInv, SyncTypeOK
<1>1. CASE SidesStay
  <2>1. service' = service /\ shopify' = shopify /\ levels' = levels /\ applied' = applied
    BY <1>1 DEF SidesStay, sides
  <2>2. CASE service = shopify \/ EventPending
    BY <1>1, <2>2, EventStaysPending DEF DifferencePends
  <2>3. ASSUME NoticePending, ~NoticePending' PROVE service = shopify \/ EventPending
    <3>k. PICK k : k = Notice(Len(levels))
      OBVIOUS
    <3>1. k \in Keys /\ k \in Notices /\ k[2] = Len(levels) /\ k \notin Events
      BY <1>0, <2>3, <3>k, KeyFacts DEF NoticePending
    <3>2. Done(k)'
      <4>1. Notice(Len(levels))' = k
        BY <2>1, <3>k DEF Notice
      <4>2. Done(Notice(Len(levels)))'
        BY <2>1, <2>3 DEF NoticePending
      <4> QED BY <4>1, <4>2 DEF Done
    <3>3. ~Done(k)
      BY <2>3, <3>k DEF NoticePending
    <3>4. PICK w \in Workers :
            job[w].key = k /\ (Finds(w) \/ Sets(w) \/ Adjusted(w) \/ AdjustedBy(w))
      BY <3>1, <3>2, <3>3, DoneBefore
    <3>7. Replayed(w) /\ job[w].stage = "adjust"
      BY <1>1, <3>1, <3>4, ReplayedWhenStaying
    <3>8. Idle(job[w].plan)
      BY <3>1, <3>3, <3>4, <3>7 DEF Replayed, Plan, Idle, Done
    <3>9. job[w].plan \in Plans /\ Held(k, job[w].plan)
      BY <1>0, <3>4, <3>7, JobFacts DEF Held, Planning, Bound
    <3> QED BY <2>3, <3>k, <3>8, <3>9 DEF SyncInv, NoMoveNeeded, NoticePending
  <2> QED BY <1>1, <2>1, <2>2, <2>3, EventStaysPending DEF DifferencePends, SyncInv
<1>2. CASE EventPending'
  BY <1>2 DEF DifferencePends
<1>3. CASE (\E q \in 0 .. MaxLevel : Move(q)) \/ (\E p \in Workers : SetBy(p))
  BY <1>3, NewNotice DEF DifferencePends
<1> QED BY <1>1, <1>2, <1>3, SidesStayOrNew

LEMMA NoMoveNeededStep ==
  ASSUME SyncInv, [Next]_vars
  PROVE  NoMoveNeeded'
<1>0. /\ SyncTypeOK /\ WorksFit /\ Len(levels) \in 0 .. MaxNotices
      /\ MaxNotices \in Nat
  BY SyncAssumption, AnnouncedFacts DEF SyncInv, SyncTypeOK
<1> SUFFICES ASSUME NEW plan \in Plans, (Len(levels) > 0)', Held(Notice(Len(levels)), plan)',
                    Idle(plan)
             PROVE  (service = shopify \/ EventPending)'
  BY DEF NoMoveNeeded, Idle
<1>1. CASE SidesStay
  <2>1. service' = service /\ shopify' = shopify /\ levels' = levels
    BY <1>1 DEF SidesStay, sides
  <2>k. PICK k : k = Notice(Len(levels))
    OBVIOUS
  <2>2. Len(levels) > 0
    BY <2>1
  <2>3. k \in Keys /\ k \in Notices /\ k[2] = Len(levels)
    BY <1>0, <2>2, <2>k, KeyFacts
  <2>4. Held(k, plan)'
    <3>1. Notice(Len(levels))' = k
      BY <2>1, <2>k DEF Notice
    <3> QED BY <3>1 DEF Held, Filed
  <2>5. CASE Held(k, plan)
    <3>1. service = shopify \/ EventPending
      BY <2>2, <2>k, <2>5 DEF SyncInv, NoMoveNeeded
    <3> QED BY <1>1, <3>1, EventStaysPending
  <2>6. ASSUME NEW w \in Workers, Projects(w), job[w].key = k, job'[w].plan = plan
        PROVE  service = shopify
    BY <2>2, <2>3, <2>6, ProjectedPlan DEF SyncInv, LastLevel
  <2> QED BY <2>1, <2>3, <2>4, <2>5, <2>6, HeldBefore
<1>2. CASE EventPending'
  BY <1>2
<1>3. CASE (\E q \in 0 .. MaxLevel : Move(q)) \/ (\E p \in Workers : SetBy(p))
  <2>n. PICK n : n = Len(levels')
    OBVIOUS
  <2>1. ~Held(Notice(n), plan)'
    BY <1>3, <2>n, NewNotice
  <2>2. Notice(Len(levels))' = Notice(n)
    BY <2>n DEF Notice
  <2>3. Held(Notice(n), plan)'
    BY <2>2 DEF Held, Filed
  <2> QED BY <2>1, <2>3
<1> QED BY <1>1, <1>2, <1>3, SidesStayOrNew

LEMMA SyncInit ==
  Init => SyncInv
<1> SUFFICES ASSUME Init PROVE SyncInv
  OBVIOUS
<1>0. /\ service \in Int /\ service = shopify /\ entry = service /\ stock = service
      /\ revision = 0 /\ applied = {} /\ levels = <<>> /\ Len(levels) = 0
      /\ \A k \in Keys : receipts[k] = NoReceipt
      /\ \A w \in Workers : job[w] = NoJob
      /\ MaxRevision \in Nat /\ MaxNotices \in Nat
  BY SyncAssumption DEF Init
<1>1. SyncTypeOK
  <2>1. receipts \in [Keys -> Receipts] /\ job \in [Workers -> Jobs]
    BY NoneTyped DEF Init
  <2>2. spent \in [{"sales", "moves", "faults"} -> Nat] /\ disturbed = {}
    BY DEF Init
  <2> QED BY <1>0, <2>1, <2>2 DEF SyncTypeOK
<1>2. LastLevel
  BY <1>0 DEF LastLevel
<1>3. WorksFit
  BY <1>0 DEF WorksFit, Fits, NoReceipt, NoJob, Bound
<1>4. \A k \in Keys : \A plan : ~Held(k, plan)
  BY <1>0 DEF Held, Filed, NoReceipt, NoJob, Planning, Bound
<1>5. PlansGood
  BY <1>4 DEF PlansGood
<1>6. DifferencePends /\ NoMoveNeeded
  BY <1>0 DEF DifferencePends, NoMoveNeeded
<1> QED BY <1>1, <1>2, <1>3, <1>5, <1>6 DEF SyncInv

LEMMA SyncStep ==
  SyncInv /\ [Next]_vars => SyncInv'
BY TypeStep, LastLevelStep, WorksFitStep, PlansGoodStep, DifferencePendsStep, NoMoveNeededStep
   DEF SyncInv

(* Types hold, every call fits its receipt, every plan made                *)
(* (storedAdjust, the quantity of the projection) is good for the          *)
(* revision it was made at, and where the service and Shopify differ, the  *)
(* event or the notice of what changed last is still to be worked off:     *)
(* for any number of calls, whatever their order, failures and crashes.    *)
THEOREM AnnouncementsCoverTheSides ==
  Spec => []SyncInv
BY SyncInit, SyncStep, PTL DEF Spec

(* inventorySetQuantities replaces no level but the one that the plan was  *)
(* compared with (compareQuantity): no move of the merchant is             *)
(* overwritten, however many calls there are and wherever they stop.       *)
THEOREM MovesSurvive ==
  Spec => MerchantMovesSurvive
<1>1. ASSUME SyncInv, [Next]_vars
      PROVE  [\A w \in Workers :
                shopify' # shopify /\ At(w, "set") /\ job'[w].stage # "set"
                  => shopify = receipts[job[w].key].plan.compare]_vars
  <2> SUFFICES ASSUME NEW w \in Workers, shopify' # shopify, At(w, "set"), job'[w].stage # "set"
               PROVE  shopify = receipts[job[w].key].plan.compare
    OBVIOUS
  <2>1. \/ \E q \in 0 .. MaxLevel : Move(q)
        \/ \E p \in Workers : SetBy(p)
    BY <1>1, SidesChange DEF SyncInv, SidesStay, sides, Sell, AdjustedBy
  <2>2. ASSUME NEW q \in 0 .. MaxLevel, Move(q) PROVE FALSE
    BY <2>2 DEF Move, At
  <2>3. PICK p \in Workers : SetBy(p)
    BY <2>1, <2>2
  <2>4. p = w
    BY <2>3 DEF SetBy, At
  <2>5. receipts[job[w].key].plan = job[w].plan
    BY <1>1 DEF SyncInv, WorksFit, Fits, Bound, At
  <2> QED BY <2>3, <2>4, <2>5 DEF SetBy, Plan
<1> QED BY <1>1, AnnouncementsCoverTheSides, PTL DEF Spec, MerchantMovesSurvive

(* What is complete leaves nothing to do.                                  *)
LEMMA CompleteAgrees ==
  SyncInv => SidesAgreeWhenQuiet
<1> SUFFICES ASSUME SyncInv, Complete PROVE service = shopify
  BY DEF SidesAgreeWhenQuiet
<1>0. /\ SyncTypeOK /\ Len(levels) \in 0 .. MaxNotices /\ revision \in 0 .. MaxRevision
      /\ MaxNotices \in Nat /\ MaxRevision \in Nat
  BY SyncAssumption, AnnouncedFacts DEF SyncInv, SyncTypeOK
<1>1. ~EventPending
  <2>1. ASSUME revision > 0 PROVE Event(revision) \in Announced
    BY <1>0, <2>1, KeyFacts, AnnouncedFacts
  <2> QED BY <2>1 DEF EventPending, Done, Complete
<1>2. ~NoticePending
  <2>1. ASSUME Len(levels) > 0 PROVE Notice(Len(levels)) \in Announced
    BY <1>0, <2>1, AnnouncedFacts
  <2> QED BY <2>1 DEF NoticePending, Done, Complete
<1> QED BY <1>1, <1>2 DEF SyncInv, DifferencePends

(* When every event and notice has been worked off (markComplete) and      *)
(* none quarantined, both sides have the same stock.                       *)
THEOREM SidesAgree ==
  Spec => []SidesAgreeWhenQuiet
BY AnnouncementsCoverTheSides, CompleteAgrees, PTL

(***************************************************************************)
(* What is not settled.  As long as no receipt is worked on by two calls,  *)
(* each call has its receipt for itself.                                   *)
(***************************************************************************)
Unsettled(k) == k \in Announced /\ ~Settled(k)

StateAt(stage) ==
  IF stage = "mark" THEN "effect-planned"
  ELSE IF stage \in Bound THEN "effect-sent" ELSE "received"

Alone(w) ==
  job[w].stage # "idle" =>
    /\ \A v \in Workers : job[v].stage # "idle" /\ job[v].key = job[w].key => v = w
    /\ receipts[job[w].key].state = StateAt(job[w].stage)

OneByOne == "doubled" \notin disturbed => \A w \in Workers : Alone(w)

LEMMA SettledStays ==
  ASSUME SyncInv, [Next]_vars, NEW k \in Keys
  PROVE  /\ receipts[k].state = "quarantined" => receipts'[k].state = "quarantined"
         /\ Settled(k) => Settled(k)'
         /\ Unsettled(k)' /\ k \in Announced => Unsettled(k)
<1>0. receipts \in [Keys -> Receipts]
  BY DEF SyncInv, SyncTypeOK
<1>1. ASSUME Settled(k)
      PROVE  /\ receipts[k].state = "quarantined" => receipts'[k].state = "quarantined"
             /\ Settled(k)'
  <2>1. CASE receipts'[k] = receipts[k]
    BY <1>1, <2>1 DEF Settled
  <2>2. CASE Opens(k)
    <3>1. PICK hash \in Hashes(k) : receipts'[k] = Opened(k, hash)
      BY <2>2 DEF Opens
    <3>2. receipts[k] \in Receipts
      BY <1>0
    <3> QED BY <1>1, <3>1, <3>2 DEF Settled, Opened, Receipts
  <2>3. ASSUME NEW w \in Workers, job[w].key = k, Saves(w) \/ Marks(w) \/ Completes(w)
        PROVE  FALSE
    BY <1>1, <2>3 DEF Saves, Marks, Completes, Settled
  <2>4. ASSUME NEW w \in Workers, job[w].key = k, Conflicts(w)
        PROVE  receipts'[k].state = "quarantined"
    <3>1. PICK reason \in {"shopify_quantity_conflict", "revision_conflict"} :
            receipts' = [receipts EXCEPT ![k].state = "quarantined", ![k].reason = reason]
      BY <2>4 DEF Conflicts
    <3>2. receipts'[k] = [receipts[k] EXCEPT !.state = "quarantined", !.reason = reason]
      BY <1>0, <3>1
    <3> QED BY <1>0, <3>2 DEF Receipts
  <2> QED BY <2>1, <2>2, <2>3, <2>4, ReceiptsChange DEF ReceiptTurn, SyncInv, Settled
<1> QED BY <1>1 DEF Settled, Unsettled

(* No receipt is touched but by its call.                                  *)
LEMMA OwnReceipt ==
  ASSUME SyncInv, OneByOne, [Next]_vars, "doubled" \notin disturbed',
         NEW w \in Workers, job[w].stage # "idle"
  PROVE  \/ receipts'[job[w].key] = receipts[job[w].key]
         \/ Saves(w) \/ Marks(w) \/ Completes(w) \/ Conflicts(w)
<1>1. job[w].key \in Keys /\ "doubled" \notin disturbed
  BY JobFacts, GhostsChange DEF SyncInv
<1>2. ~Opens(job[w].key)
  BY <1>1 DEF Opens, Deliver, Disturbance
<1>3. ASSUME NEW v \in Workers, job[v].key = job[w].key,
             Saves(v) \/ Marks(v) \/ Completes(v) \/ Conflicts(v)
      PROVE  v = w
  BY <1>1, <1>3, AwakeWhenChanging DEF OneByOne, Alone
<1> QED BY <1>1, <1>2, <1>3, ReceiptsChange DEF ReceiptTurn, SyncInv

LEMMA OneByOneStep ==
  ASSUME SyncInv, OneByOne, [Next]_vars
  PROVE  OneByOne'
<1> SUFFICES ASSUME "doubled" \notin disturbed', NEW w \in Workers, job'[w].stage # "idle"
             PROVE  /\ \A v \in Workers :
                         job'[v].stage # "idle" /\ job'[v].key = job'[w].key => v = w
                    /\ receipts'[job'[w].key].state = StateAt(job'[w].stage)
  BY DEF OneByOne, Alone, StateAt
<1>0. /\ SyncTypeOK /\ WorksFit /\ "doubled" \notin disturbed /\ receipts \in [Keys -> Receipts]
      /\ job \in [Workers -> Jobs]
  BY GhostsChange DEF SyncInv, SyncTypeOK
<1>a. ASSUME NEW v \in Workers, job'[v].stage # "idle"
      PROVE  \/ job[v].stage # "idle" /\ job'[v].key = job[v].key
             \/ \E k \in Keys : \E hash \in Hashes(k) : Comes(v, k, hash)
  <2>1. CASE Still(v) \/ Off(v)
    BY <1>a, <2>1 DEF Still, Off, NoJob
  <2>2. CASE Catalogs(v) \/ Projects(v) \/ Compares(v) \/ Saves(v) \/ Marks(v)
             \/ Finds(v) \/ Clears(v) \/ Sets(v) \/ Adjusted(v) \/ Commits(v)
    BY <2>2 DEF Catalogs, Projects, Compares, Saves, Marks, Finds, Clears, Sets, Adjusted,
       Commits, GoesWithPlan, Goes, At
  <2> QED BY <1>0, <2>1, <2>2, EveryTurn DEF Turn
<1>b. ASSUME NEW v \in Workers, NEW k \in Keys, NEW hash \in Hashes(k), Comes(v, k, hash)
      PROVE  /\ \A u \in Workers : job[u].key # k
             /\ \A u \in Workers \ {v} : job'[u] = job[u]
             /\ job'[v].key = k
  <2>1. Deliver(v, k, hash)
    BY <1>b DEF Comes
  <2>2. \A u \in Workers : job[u].key # k
    BY <2>1 DEF Deliver, Disturbance
  <2> QED BY <1>0, <1>b, <2>1, <2>2, DeliverTurns DEF Comes
<1>1. ASSUME NEW v \in Workers, job'[v].stage # "idle", job'[v].key = job'[w].key
      PROVE  v = w
  <2>1. CASE job[v].stage # "idle" /\ job[w].stage # "idle"
             /\ job'[v].key = job[v].key /\ job'[w].key = job[w].key
    BY <1>0, <1>1, <2>1 DEF OneByOne, Alone
  <2> QED BY <1>1, <1>a, <1>b, <2>1
<1>2. receipts'[job'[w].key].state = StateAt(job'[w].stage)
  <2>0. /\ job[w].stage # "idle" => receipts[job[w].key].state = StateAt(job[w].stage)
        /\ job[w].stage # "idle" => job[w].key \in Keys
    BY <1>0, JobFacts DEF OneByOne, Alone
  <2>1. CASE Still(w)
    <3>1. ~Saves(w) /\ ~Marks(w) /\ ~Completes(w) /\ ~Conflicts(w)
      BY <2>1 DEF Still, Saves, Marks, Completes, Conflicts, GoesWithPlan, Goes, At, Off, NoJob
    <3> QED BY <1>0, <2>0, <2>1, <3>1, OwnReceipt DEF Still
  <2>2. CASE Off(w)
    BY <2>2 DEF Off, NoJob
  <2>3. ASSUME NEW k \in Keys, NEW hash \in Hashes(k), Comes(w, k, hash)
        PROVE  receipts'[job'[w].key].state = StateAt(job'[w].stage)
    <3>1. /\ job'[w].key = k /\ receipts'[k] = Opened(k, hash)
          /\ job'[w].stage = ResumeAt(k, Opened(k, hash).state)
      BY <1>0, <2>3 DEF Comes
    <3> QED BY <3>1 DEF ResumeAt, BuildAt, StateAt, Bound
  <2>4. CASE Catalogs(w) \/ Projects(w) \/ Compares(w)
    <3>1. UNCHANGED receipts \/ ~Compares(w)
      BY DEF Compares, CompareShopify, Quarantine, Leave, GoesWithPlan, Goes
    <3>2. UNCHANGED receipts
      BY <2>4, <3>1 DEF Catalogs, Projects, ReadCatalog, ReadProjection
    <3>3. /\ job'[w].key = job[w].key /\ job[w].stage \in {"catalog", "project", "compare"}
          /\ job'[w].stage \in {"project", "compare", "save"}
      BY <2>4 DEF Catalogs, Projects, Compares, GoesWithPlan, Goes, At
    <3> QED BY <2>0, <3>2, <3>3 DEF StateAt, Bound
  <2>5. CASE Saves(w)
    <3>1. job'[w].key = job[w].key /\ job'[w].stage = "mark" /\ job[w].stage = "save"
      BY <2>5 DEF Saves, GoesWithPlan, Goes, At
    <3>2. receipts'[job[w].key]
            = [receipts[job[w].key] EXCEPT !.state = "effect-planned", !.plan = Plan(w)]
      BY <1>0, <2>0, <2>5, <3>1 DEF Saves
    <3>3. receipts[job[w].key] \in Receipts
      BY <1>0, <2>0, <3>1
    <3> QED BY <3>1, <3>2, <3>3 DEF StateAt, Bound, Receipts
  <2>6. CASE Marks(w)
    <3>1. /\ job'[w].key = job[w].key /\ job'[w].stage \in {"look", "adjust"}
          /\ job[w].stage = "mark"
      BY <2>6 DEF Marks, GoesWithPlan, Goes, At
    <3>2. receipts'[job[w].key] = [receipts[job[w].key] EXCEPT !.state = "effect-sent"]
      BY <1>0, <2>0, <2>6, <3>1 DEF Marks
    <3>3. receipts[job[w].key] \in Receipts
      BY <1>0, <2>0, <3>1
    <3> QED BY <3>1, <3>2, <3>3 DEF StateAt, Bound, Receipts
  <2>7. CASE Finds(w) \/ Clears(w) \/ Sets(w) \/ Adjusted(w) \/ Commits(w)
    <3>1. /\ job'[w].key = job[w].key
          /\ job[w].stage \in {"look", "set", "adjust", "commit"}
          /\ job'[w].stage \in {"set", "commit", "complete"}
      BY <2>7 DEF Finds, Clears, Sets, Adjusted, Commits, GoesWithPlan, Goes, At
    <3>2. ~Saves(w) /\ ~Marks(w) /\ ~Completes(w) /\ ~Conflicts(w)
      BY <2>7, <3>1 DEF Saves, Marks, Completes, Conflicts, GoesWithPlan, Goes, At, Off, NoJob
    <3>3. receipts'[job[w].key] = receipts[job[w].key]
      BY <1>0, <3>1, <3>2, OwnReceipt
    <3> QED BY <2>0, <3>1, <3>3 DEF StateAt, Bound
  <2> QED BY <1>0, <2>1, <2>2, <2>3, <2>4, <2>5, <2>6, <2>7, EveryTurn DEF Turn
<1> QED BY <1>1, <1>2

(***************************************************************************)
(* The stock there really is.  As long as nothing crosses and nothing is   *)
(* quarantined: the levels still to be taken in and the plans of events    *)
(* still to be worked off carry that stock, and the service has it or a    *)
(* notice is about to bring it.                                            *)
(***************************************************************************)
Clean ==
  /\ disturbed \cap {"crossed", "doubled"} = {}
  /\ \A k \in Announced : receipts[k].state # "quarantined"

NoticesCarryStock ==
  \A n \in 1 .. Len(levels) : Unsettled(Notice(n)) => levels[n] = stock
PlansCarryStock ==
  \A k \in Events, plan \in Plans : Unsettled(k) /\ Held(k, plan) => plan.quantity = stock
StockPends ==
  \/ service = stock
  \/ /\ \E n \in 1 .. Len(levels) : Unsettled(Notice(n))
     /\ \A k \in Events : ~Unsettled(k)
DoneIsStock ==
  \A n \in 1 .. Len(levels), plan \in Plans :
    /\ Unsettled(Notice(n))
    /\ Done(Notice(n)) \/ (Held(Notice(n), plan) /\ Idle(plan))
    => service = stock

StockParts == NoticesCarryStock /\ PlansCarryStock /\ StockPends /\ DoneIsStock
StockInv == SyncInv /\ OneByOne /\ (Clean => StockParts)

LEMMA CleanBefore ==
  ASSUME SyncInv, [Next]_vars, Clean'
  PROVE  /\ Clean /\ "doubled" \notin disturbed'
         /\ \A w \in Workers : ~Conflicts(w)
<1>0. SyncTypeOK /\ WorksFit /\ receipts \in [Keys -> Receipts]
  BY DEF SyncInv, SyncTypeOK
<1>1. disturbed \cap {"crossed", "doubled"} = {} /\ "doubled" \notin disturbed'
  BY GhostsChange DEF Clean
<1>2. ASSUME NEW k \in Announced PROVE receipts[k].state # "quarantined"
  <2>1. k \in Keys /\ k \in Announced'
    BY <1>0, AnnouncedFacts, AnnouncedGrows
  <2>2. receipts'[k].state # "quarantined"
    BY <2>1 DEF Clean
  <2> QED BY <2>1, <2>2, SettledStays
<1>3. ASSUME NEW w \in Workers, Conflicts(w) PROVE FALSE
  <2>1. job[w].key \in Keys /\ job[w].key \in Announced'
    BY <1>0, <1>3, AwakeWhenChanging, JobFacts, AnnouncedGrows
  <2>2. PICK reason \in {"shopify_quantity_conflict", "revision_conflict"} :
          receipts' = [receipts EXCEPT ![job[w].key].state = "quarantined",
                                       ![job[w].key].reason = reason]
    BY <1>3 DEF Conflicts
  <2>3. receipts'[job[w].key]
          = [receipts[job[w].key] EXCEPT !.state = "quarantined", !.reason = reason]
    BY <1>0, <2>1, <2>2
  <2>4. receipts[job[w].key] \in Receipts
    BY <1>0, <2>1
  <2>5. receipts'[job[w].key].state = "quarantined"
    BY <2>3, <2>4 DEF Receipts
  <2> QED BY <2>1, <2>5 DEF Clean
<1> QED BY <1>1, <1>2, <1>3 DEF Clean

(* A step that leaves both sides alone.                                    *)
LEMMA StockWhenSidesStay ==
  ASSUME SyncInv, StockParts, [Next]_vars, Clean', SidesStay, UNCHANGED stock
  PROVE  StockParts'
<1>0. /\ service' = service /\ levels' = levels /\ revision' = revision /\ applied' = applied
      /\ SyncTypeOK /\ WorksFit /\ Announced' = Announced
      /\ Len(levels) \in 0 .. MaxNotices /\ MaxNotices \in Nat /\ receipts \in [Keys -> Receipts]
  BY SyncAssumption, AnnouncedFacts DEF SidesStay, sides, SyncInv, SyncTypeOK, Announced
<1>a. ASSUME NEW k \in Keys, Unsettled(k)' PROVE Unsettled(k)
  BY <1>0, <1>a, SettledStays DEF Unsettled
<1>b. ASSUME NEW n \in 1 .. Len(levels)
      PROVE  Notice(n) \in Keys /\ Notice(n) \in Notices /\ Notice(n) \in Announced
             /\ Notice(n)[2] = n /\ Notice(n) \notin Events
  BY <1>0, AnnouncedFacts, KeyFacts
<1>c. Events \subseteq Keys
  BY DEF Keys
<1>1. NoticesCarryStock'
  BY <1>0, <1>a, <1>b DEF NoticesCarryStock, StockParts, Notice
<1>2. ASSUME NEW k \in Events, NEW plan \in Plans, Unsettled(k)', Held(k, plan)'
      PROVE  plan.quantity = stock
  <2>1. k \in Keys /\ Unsettled(k)
    BY <1>2, <1>a, <1>c
  <2>2. CASE Held(k, plan)
    BY <2>1, <2>2 DEF StockParts, PlansCarryStock
  <2>3. ASSUME NEW w \in Workers, Projects(w), job[w].key = k, job'[w].plan = plan
        PROVE  plan.quantity = stock
    <3>1. plan.quantity = service
      BY <2>3 DEF Projects
    <3> QED BY <2>1, <3>1 DEF StockParts, StockPends
  <2> QED BY <1>2, <2>1, <2>2, <2>3, HeldBefore
<1>3. ASSUME service # stock, NEW n \in 1 .. Len(levels), Unsettled(Notice(n))
      PROVE  Unsettled(Notice(n))'
  <2>k. PICK k : k = Notice(n)
    OBVIOUS
  <2>1. k \in Keys /\ k \in Announced
    BY <1>b, <2>k
  <2>2. receipts[k].state \notin {"complete", "quarantined"}
    BY <1>3, <2>k DEF Unsettled, Settled
  <2>3. receipts'[k].state # "quarantined"
    BY <1>0, <2>1 DEF Clean
  <2>4. receipts'[k].state # "complete"
    <3>1. ASSUME NEW plan \in Plans, Done(k) PROVE FALSE
      BY <1>3, <2>k, <3>1 DEF StockParts, DoneIsStock
    <3>2. ~Done(k)
      BY <3>1, NoneTyped
    <3> QED BY <2>1, <3>2, CompleteBefore
  <2> QED BY <1>0, <2>k, <2>1, <2>3, <2>4 DEF Unsettled, Settled
<1>4. StockPends'
  BY <1>0, <1>3, <1>a, <1>c DEF StockParts, StockPends, Notice
<1>5. ASSUME NEW n \in 1 .. Len(levels), NEW plan \in Plans, Unsettled(Notice(n))',
             Done(Notice(n))' \/ (Held(Notice(n), plan)' /\ Idle(plan))
      PROVE  service = stock
  <2>k. PICK k : k = Notice(n)
    OBVIOUS
  <2>1. /\ k \in Keys /\ k \in Notices /\ k \notin Events /\ k[2] = n
        /\ Unsettled(k) /\ Unsettled(Notice(n))
    BY <1>5, <1>a, <1>b, <2>k
  <2>2. ASSUME NEW other \in Plans, Done(k) \/ (Held(k, other) /\ Idle(other))
        PROVE  service = stock
    BY <2>k, <2>1, <2>2 DEF StockParts, DoneIsStock
  <2>3. CASE Done(k)'
    <3>1. CASE Done(k)
      BY <2>2, <3>1, NoneTyped
    <3>2. ASSUME NEW w \in Workers, job[w].key = k,
                 Finds(w) \/ Sets(w) \/ Adjusted(w) \/ AdjustedBy(w)
          PROVE  service = stock
      <4>1. Replayed(w) /\ job[w].stage = "adjust"
        BY <1>0, <2>1, <3>2, ReplayedWhenStaying
      <4>2. job[w].plan.adjust = NoAdjust \/ n \in applied
        BY <2>1, <3>2, <4>1 DEF Replayed, Plan
      <4>3. CASE n \in applied
        BY <2>1, <2>2, <4>3, NoneTyped DEF Done
      <4>4. CASE job[w].plan.adjust = NoAdjust
        <5>1. Held(k, job[w].plan) /\ job[w].plan \in Plans
          BY <1>0, <3>2, <4>1, JobFacts DEF Held, Planning, Bound
        <5> QED BY <2>2, <4>4, <5>1 DEF Idle
      <4> QED BY <4>2, <4>3, <4>4
    <3> QED BY <2>1, <2>3, <3>1, <3>2, DoneBefore
  <2>4. CASE Held(k, plan)' /\ Idle(plan)
    <3>1. CASE Held(k, plan)
      BY <2>2, <2>4, <3>1
    <3>2. ASSUME NEW w \in Workers, Projects(w), job[w].key = k, job'[w].plan = plan
          PROVE  service = stock
      <4>1. service = levels[n]
        BY <2>1, <2>4, <3>2, ProjectedPlan
      <4> QED BY <2>1, <4>1 DEF StockParts, NoticesCarryStock
    <3> QED BY <2>1, <2>4, <3>1, <3>2, HeldBefore
  <2>5. Done(Notice(n))' => Done(k)'
    BY <2>k
  <2>6. Held(Notice(n), plan)' => Held(k, plan)'
    BY <2>k
  <2> QED BY <1>5, <2>3, <2>4, <2>5, <2>6
<1>6. PlansCarryStock'
  BY <1>2 DEF PlansCarryStock
<1>7. DoneIsStock'
  BY <1>0, <1>5 DEF DoneIsStock, Idle
<1> QED BY <1>1, <1>4, <1>6, <1>7 DEF StockParts

(* A sale or a move that crosses nothing finds everything worked off.      *)
LEMMA QuietWhenClean ==
  ASSUME SyncInv, StockParts, Clean, Clean',
         Sell \/ \E q \in 0 .. MaxLevel : Move(q)
  PROVE  /\ \A k \in Announced : receipts[k].state = "complete" /\ ~Unsettled(k)
         /\ service = stock /\ service = shopify
<1>1. Quiet
  BY DEF Sell, Move, Crossing, Clean
<1>2. \A k \in Announced : receipts[k].state = "complete" /\ ~Unsettled(k)
  BY <1>1 DEF Quiet, Settled, Clean, Unsettled
<1>3. service = stock
  BY <1>2 DEF StockParts, StockPends, Unsettled
<1>4. service = shopify
  BY <1>2, CompleteAgrees DEF Complete, SidesAgreeWhenQuiet
<1> QED BY <1>2, <1>3, <1>4

(* What is unsettled after a change of a side was so before, or is new.    *)
LEMMA UnsettledBefore ==
  ASSUME UNCHANGED receipts, NEW k, Unsettled(k)'
  PROVE  Unsettled(k) \/ k \notin Announced
BY DEF Unsettled, Settled

LEMMA HeldWhenSidesChange ==
  ASSUME SyncInv, [Next]_vars, NEW k \in Keys, NEW plan, Held(k, plan)', ~SidesStay
  PROVE  Held(k, plan)
<1>1. ASSUME NEW w \in Workers, Projects(w) PROVE FALSE
  BY <1>1 DEF Projects, ReadProjection, SidesStay
<1> QED BY <1>1, HeldBefore

LEMMA StockWhenSold ==
  ASSUME SyncInv, StockParts, [Next]_vars, Clean, Clean', Sell
  PROVE  StockParts'
<1>0. /\ SyncTypeOK /\ WorksFit /\ Len(levels) \in 0 .. MaxNotices
      /\ revision \in Nat /\ service \in Int /\ stock \in Int
  BY SyncAssumption, AnnouncedFacts DEF SyncInv, SyncTypeOK
<1>1. /\ \A k \in Announced : ~Unsettled(k)
      /\ service = stock
  BY QuietWhenClean
<1>2. /\ service' = service - 1 /\ stock' = stock - 1 /\ levels' = levels
      /\ revision' = revision + 1 /\ UNCHANGED receipts
  BY DEF Sell
<1>3. ASSUME NEW k \in Keys, Unsettled(k)' PROVE k \notin Announced
  BY <1>1, <1>2, <1>3, UnsettledBefore
<1>4. ASSUME NEW n \in 1 .. Len(levels), Unsettled(Notice(n))' PROVE FALSE
  <2>k. PICK k : k = Notice(n)
    OBVIOUS
  <2>1. k \in Announced /\ k \in Keys
    BY <1>0, <2>k, AnnouncedFacts
  <2>2. Unsettled(k)'
    BY <1>4, <2>k
  <2> QED BY <1>3, <2>1, <2>2
<1>5. ASSUME NEW k \in Events, NEW plan, Unsettled(k)', Held(k, plan)' PROVE FALSE
  <2>1. k \in Keys /\ ~SidesStay
    BY <1>0, <1>2, KeyFacts DEF SidesStay, sides
  <2>2. k \notin Announced
    BY <1>3, <1>5, <2>1
  <2>3. Held(k, plan)
    BY <1>5, <2>1, HeldWhenSidesChange
  <2> QED BY <1>0, <2>1, <2>2, <2>3, HeldAnnounced
<1>6. NoticesCarryStock' /\ DoneIsStock'
  BY <1>2, <1>4 DEF NoticesCarryStock, DoneIsStock
<1>7. PlansCarryStock'
  BY <1>5 DEF PlansCarryStock
<1>8. StockPends'
  BY <1>1, <1>2 DEF StockPends
<1> QED BY <1>6, <1>7, <1>8 DEF StockParts

LEMMA StockWhenMoved ==
  ASSUME SyncInv, StockParts, [Next]_vars, Clean, Clean', NEW q \in 0 .. MaxLevel, Move(q)
  PROVE  StockParts'
<1>0. /\ SyncTypeOK /\ WorksFit /\ Len(levels) \in 0 .. MaxNotices /\ MaxNotices \in Nat
      /\ revision \in Nat /\ service \in Int /\ stock \in Int /\ q \in Int
      /\ levels \in Seq(Int)
  BY SyncAssumption, AnnouncedFacts DEF SyncInv, SyncTypeOK
<1>1. /\ \A k \in Announced : ~Unsettled(k)
      /\ service = stock /\ service = shopify
  BY QuietWhenClean
<1>2. /\ service' = service /\ stock' = stock + (q - shopify) /\ levels' = Append(levels, q)
      /\ revision' = revision /\ UNCHANGED receipts
  BY DEF Move
<1>3. /\ stock' = q /\ Len(levels') = Len(levels) + 1 /\ levels'[Len(levels')] = q
      /\ ~SidesStay
  <2>1. stock' = q
    <3>1. stock' = stock + (q - stock)
      BY <1>1, <1>2
    <3>2. ASSUME NEW s \in Int PROVE s + (q - s) = q
      BY <1>0
    <3> QED BY <1>0, <3>1, <3>2
  <2>2. Len(levels') = Len(levels) + 1 /\ levels'[Len(levels')] = q
    BY <1>0, <1>2, LevelsGrow
  <2>3. ~SidesStay
    BY <1>0, <2>2 DEF SidesStay, sides
  <2> QED BY <2>1, <2>2, <2>3
<1>n. PICK n : n = Len(levels')
  OBVIOUS
<1>4. /\ n = Len(levels) + 1 /\ n > 0 /\ Notice(n) \in Keys /\ Notice(n) \notin Announced
      /\ \A plan : ~Held(Notice(n), plan)'
      /\ ~Done(Notice(n))'
  BY <1>n, NewNotice
<1>5. ASSUME NEW k \in Keys, Unsettled(k)' PROVE k \notin Announced
  BY <1>1, <1>2, <1>5, UnsettledBefore
<1>6. ASSUME NEW m \in 1 .. n, Unsettled(Notice(m))' PROVE m = n
  <2>k. PICK k : k = Notice(m)
    OBVIOUS
  <2>1. Unsettled(k)'
    BY <1>6, <2>k
  <2>2. CASE m \in 1 .. Len(levels)
    BY <1>0, <1>5, <2>k, <2>1, <2>2, AnnouncedFacts
  <2> QED BY <1>0, <1>4, <2>2
<1>7. ASSUME NEW k \in Events, Unsettled(k)' PROVE FALSE
  <2>1. k \in Keys /\ k \notin Announced
    BY <1>5, <1>7, KeyFacts
  <2>2. k \in {"event"} \X (1 .. revision)
    BY <1>2, <1>7, <2>1, KeyFacts DEF Unsettled, Announced, Event
  <2> QED BY <2>1, <2>2 DEF Announced
<1>8. Unsettled(Notice(n))'
  <2>1. Notice(n) \in Announced'
    BY <1>0, <1>n, <1>4 DEF Announced, Notice
  <2>2. receipts[Notice(n)].state = "absent"
    BY <1>0, <1>4, Unannounced
  <2> QED BY <1>2, <2>1, <2>2 DEF Unsettled, Settled
<1>9. NoticesCarryStock'
  BY <1>3, <1>6, <1>n DEF NoticesCarryStock
<1>10. PlansCarryStock'
  BY <1>7 DEF PlansCarryStock
<1>11. StockPends'
  BY <1>0, <1>4, <1>7, <1>8, <1>n DEF StockPends
<1>12. ASSUME NEW m \in 1 .. n, NEW plan, Unsettled(Notice(m))',
              Done(Notice(m))' \/ Held(Notice(m), plan)'
       PROVE  FALSE
  <2>1. m = n
    BY <1>6, <1>12
  <2> QED BY <1>4, <1>12, <2>1
<1>13. DoneIsStock'
  BY <1>12, <1>n DEF DoneIsStock
<1> QED BY <1>9, <1>10, <1>11, <1>13 DEF StockParts

(* A call for an announcement that is not settled.                         *)
LEMMA CallIsUnsettled ==
  ASSUME SyncInv, OneByOne, "doubled" \notin disturbed, NEW w \in Workers, job[w].stage # "idle"
  PROVE  /\ receipts[job[w].key].state = StateAt(job[w].stage)
         /\ Unsettled(job[w].key)
<1>1. receipts[job[w].key].state = StateAt(job[w].stage) /\ job[w].key \in Announced
  BY JobFacts DEF OneByOne, Alone, SyncInv
<1> QED BY <1>1 DEF StateAt, Unsettled, Settled

LEMMA StockWhenSet ==
  ASSUME SyncInv, OneByOne, StockParts, [Next]_vars, Clean, Clean',
         NEW p \in Workers, SetBy(p)
  PROVE  StockParts'
<1>0. /\ SyncTypeOK /\ WorksFit /\ Len(levels) \in 0 .. MaxNotices /\ MaxNotices \in Nat
      /\ revision \in Nat /\ service \in Int /\ stock \in Int
      /\ levels \in Seq(Int) /\ Events \subseteq Keys
  BY SyncAssumption, AnnouncedFacts DEF SyncInv, SyncTypeOK, Keys
<1>1. /\ job[p].stage = "set" /\ job[p].key \in Events /\ job[p].plan \in Plans
      /\ Held(job[p].key, job[p].plan) /\ Unsettled(job[p].key)
  BY <1>0, CallIsUnsettled, JobFacts DEF SetBy, At, Inward, Held, Planning, Bound, Clean
<1>2. job[p].plan.quantity = stock /\ service = stock
  BY <1>1 DEF StockParts, PlansCarryStock, StockPends
<1>3. /\ UNCHANGED <<service, revision, applied, receipts>> /\ stock' = stock
      /\ levels' = Append(levels, stock)
  BY <1>2 DEF SetBy, ghosts, Plan
<1>4. /\ Len(levels') = Len(levels) + 1 /\ levels'[Len(levels')] = stock
      /\ \A n \in 1 .. Len(levels) : levels'[n] = levels[n]
      /\ ~SidesStay
  BY <1>0, <1>3, LevelsGrow DEF SidesStay, sides
<1>5. ASSUME NEW n \in 1 .. Len(levels'), Unsettled(Notice(n))' PROVE levels'[n] = stock
  <2>1. CASE n = Len(levels')
    BY <1>4, <2>1
  <2>2. CASE n \in 1 .. Len(levels)
    <3>k. PICK k : k = Notice(n)
      OBVIOUS
    <3>1. k \in Announced /\ Unsettled(k)'
      BY <1>0, <1>5, <2>2, <3>k, AnnouncedFacts
    <3>2. Unsettled(Notice(n))
      BY <1>3, <3>k, <3>1, UnsettledBefore
    <3> QED BY <1>4, <2>2, <3>2 DEF StockParts, NoticesCarryStock
  <2> QED BY <1>0, <1>4, <2>1, <2>2
<1>6. ASSUME NEW k \in Events, NEW plan \in Plans, Unsettled(k)', Held(k, plan)'
      PROVE  plan.quantity = stock
  <2>1. Held(k, plan) /\ k \in Announced
    BY <1>0, <1>4, <1>6, HeldWhenSidesChange, HeldAnnounced
  <2> QED BY <1>3, <1>6, <2>1, UnsettledBefore DEF StockParts, PlansCarryStock
<1>7. NoticesCarryStock'
  BY <1>3, <1>5 DEF NoticesCarryStock
<1>8. PlansCarryStock'
  BY <1>3, <1>6 DEF PlansCarryStock
<1>9. StockPends' /\ DoneIsStock'
  BY <1>2, <1>3 DEF StockPends, DoneIsStock
<1> QED BY <1>7, <1>8, <1>9 DEF StockParts

LEMMA StockWhenAdjusted ==
  ASSUME SyncInv, OneByOne, StockParts, [Next]_vars, Clean, Clean',
         NEW p \in Workers, AdjustedBy(p)
  PROVE  StockParts'
<1>0. /\ SyncTypeOK /\ WorksFit /\ Len(levels) \in 0 .. MaxNotices /\ MaxNotices \in Nat
      /\ revision \in Nat /\ service \in Int /\ stock \in Int /\ Events \subseteq Keys
  BY SyncAssumption, AnnouncedFacts DEF SyncInv, SyncTypeOK, Keys
<1>k. PICK k : k = job[p].key
  OBVIOUS
<1>1. /\ job[p].stage = "adjust" /\ k \in Notices /\ job[p].plan \in Plans
      /\ Held(k, job[p].plan) /\ Unsettled(k) /\ k \in Keys /\ k \in Announced
  BY <1>0, <1>k, CallIsUnsettled, JobFacts
     DEF AdjustedBy, At, Outward, Held, Planning, Bound, Clean
<1>2. k[2] \in 1 .. Len(levels) /\ k = Notice(k[2])
  BY <1>0, <1>1, KeyFacts, AnnouncedFacts
<1>3. levels[k[2]] = stock
  BY <1>1, <1>2 DEF StockParts, NoticesCarryStock
<1>4. job[p].plan.adjust # NoAdjust /\ job[p].plan.adjust.revision = revision
  BY DEF AdjustedBy, Replayed, Plan
<1>5. service + job[p].plan.adjust.delta = stock
  BY <1>1, <1>3, <1>4 DEF SyncInv, PlansGood, GoodPlan
<1>6. /\ service' = stock /\ revision' = revision + 1 /\ stock' = stock
      /\ UNCHANGED <<levels, receipts>>
  BY <1>5 DEF AdjustedBy, ghosts, Plan
<1>7. ~SidesStay
  BY <1>0, <1>6 DEF SidesStay, sides
<1>8. ASSUME NEW n \in 1 .. Len(levels), Unsettled(Notice(n))' PROVE levels[n] = stock
  <2>l. PICK l : l = Notice(n)
    OBVIOUS
  <2>1. l \in Announced /\ Unsettled(l)'
    BY <1>0, <1>8, <2>l, AnnouncedFacts
  <2>2. Unsettled(Notice(n))
    BY <1>6, <2>l, <2>1, UnsettledBefore
  <2> QED BY <2>2 DEF StockParts, NoticesCarryStock
<1>9. ASSUME NEW l \in Events, NEW plan \in Plans, Unsettled(l)', Held(l, plan)'
      PROVE  plan.quantity = stock
  <2>1. Held(l, plan) /\ l \in Announced
    BY <1>0, <1>7, <1>9, HeldWhenSidesChange, HeldAnnounced
  <2> QED BY <1>6, <1>9, <2>1, UnsettledBefore DEF StockParts, PlansCarryStock
<1>10. NoticesCarryStock'
  BY <1>6, <1>8 DEF NoticesCarryStock
<1>11. PlansCarryStock'
  BY <1>6, <1>9 DEF PlansCarryStock
<1>12. StockPends' /\ DoneIsStock'
  BY <1>6 DEF StockPends, DoneIsStock
<1> QED BY <1>10, <1>11, <1>12 DEF StockParts

LEMMA StockStep ==
  StockInv /\ [Next]_vars => StockInv'
<1> SUFFICES ASSUME StockInv, [Next]_vars PROVE StockInv'
  OBVIOUS
<1>1. SyncInv /\ SyncInv' /\ OneByOne /\ OneByOne'
  BY SyncStep, OneByOneStep DEF StockInv
<1>2. ASSUME Clean' PROVE StockParts'
  <2>1. Clean /\ StockParts
    BY <1>1, <1>2, CleanBefore DEF StockInv
  <2>2. CASE SidesStay
    <3>1. UNCHANGED stock
      BY <1>1, <2>2, GhostsChange DEF Sell, Move, SidesStay, sides, SyncInv, SyncTypeOK
    <3> QED BY <1>1, <1>2, <2>1, <2>2, <3>1, StockWhenSidesStay
  <2> QED BY <1>1, <1>2, <2>1, <2>2, SidesChange, StockWhenSold, StockWhenMoved, StockWhenSet,
       StockWhenAdjusted DEF SyncInv
<1> QED BY <1>1, <1>2 DEF StockInv

LEMMA StockInit ==
  Init => StockInv
<1> SUFFICES ASSUME Init PROVE StockInv
  OBVIOUS
<1>1. /\ service = stock /\ levels = <<>> /\ Len(levels) = 0 /\ revision = 0
      /\ \A w \in Workers : job[w] = NoJob
  BY DEF Init
<1>2. \A k : ~Unsettled(k)
  BY <1>1 DEF Unsettled, Announced
<1>3. OneByOne
  BY <1>1 DEF OneByOne, Alone, NoJob
<1> QED BY <1>1, <1>2, <1>3, SyncInit DEF StockInv, StockParts, NoticesCarryStock,
     PlansCarryStock, StockPends, DoneIsStock

(* As long as sales and moves wait for what came before, no receipt is     *)
(* worked on twice at once and none is quarantined, what is still to be    *)
(* taken in carries the stock there really is.                             *)
THEOREM StockIsCarried ==
  Spec => []StockInv
BY StockInit, StockStep, PTL DEF Spec

(* So the stock both sides then have is the right one: retries and         *)
(* resumed calls (executePlan at effect-planned and effect-sent) count     *)
(* nothing twice and lose nothing.                                         *)
THEOREM MovesCount ==
  Spec => []EveryMoveCounts
<1>1. ASSUME StockInv PROVE EveryMoveCounts
  <2> SUFFICES ASSUME Complete, disturbed \cap {"crossed", "doubled"} = {}
               PROVE  service = stock
    BY DEF EveryMoveCounts
  <2>1. Clean /\ \A k : ~Unsettled(k)
    BY DEF Clean, Complete, Unsettled, Settled
  <2> QED BY <1>1, <2>1 DEF StockInv, StockParts, StockPends
<1> QED BY <1>1, StockIsCarried, PTL

(***************************************************************************)
(* When nothing races: at most one event and one notice are to be worked   *)
(* off, the last ones; what a call knows of Shopify is still so, and what  *)
(* it would ask of the service is of the present revision.                 *)
(***************************************************************************)
Taken == \A n \in 1 .. Len(levels) : Settled(Notice(n))

OneEvent == \A k \in Events : Unsettled(k) => k[2] = revision
OneNotice == \A n \in 1 .. Len(levels) : Unsettled(Notice(n)) => n = Len(levels)
PlannedWhenTaken == \A k \in Events : receipts[k].state = "received" => Taken
SetOrNot ==
  \A k \in Events :
    receipts[k].state \in {"effect-planned", "effect-sent"} =>
      \/ shopify = receipts[k].plan.quantity
      \/ shopify = receipts[k].plan.compare /\ Taken
Knows(j) ==
  j.key \in Events =>
    /\ j.stage \in {"project", "compare", "save"} => j.plan.compare = shopify
    /\ j.stage = "set" => j.plan.compare = shopify /\ j.plan.quantity # shopify
    /\ j.stage \in {"commit", "complete"} => j.plan.quantity = shopify
CallsKnow == \A w \in Workers : Knows(job[w])
EntryIsShopifys ==
  Taken \/ (\E w \in Workers : job[w].stage = "complete" /\ job[w].key = Notice(Len(levels)))
    => entry = shopify
AdjustsAreCurrent ==
  \A n \in 1 .. Len(levels), plan \in Plans :
    Unsettled(Notice(n)) /\ Held(Notice(n), plan) /\ ~Idle(plan) /\ n \notin applied =>
      plan.adjust.revision = revision
EchoesAgree ==
  \A n \in 1 .. Len(levels), k \in Events :
    Unsettled(k) /\ Unsettled(Notice(n)) => levels[n] = service
NoConflict ==
  \A k \in Keys :
    receipts[k].reason \notin {"shopify_quantity_conflict", "revision_conflict"}

CalmParts ==
  /\ OneEvent /\ OneNotice /\ PlannedWhenTaken /\ SetOrNot /\ CallsKnow
  /\ EntryIsShopifys /\ AdjustsAreCurrent /\ EchoesAgree /\ NoConflict

(* Every notice has one body: no receipt of one is quarantined for it.     *)
Bodies == \A k \in Notices : receipts[k].state # "absent" => receipts[k].hash = "shopify"

CalmInv == SyncInv /\ OneByOne /\ Bodies /\ (disturbed = {} => CalmParts)

LEMMA BodiesStep ==
  ASSUME SyncInv, Bodies, [Next]_vars
  PROVE  Bodies'
<1> SUFFICES ASSUME NEW k \in Notices, receipts'[k].state # "absent"
             PROVE  receipts'[k].hash = "shopify"
  BY DEF Bodies
<1>0. k \in Keys /\ k \notin Events /\ receipts \in [Keys -> Receipts] /\ receipts[k] \in Receipts
  BY KeyFacts DEF SyncInv, SyncTypeOK
<1>1. CASE receipts'[k] = receipts[k]
  BY <1>1 DEF Bodies
<1>2. CASE Opens(k)
  <2>1. PICK hash \in Hashes(k) : receipts'[k] = Opened(k, hash)
    BY <1>2 DEF Opens
  <2>2. hash = "shopify"
    BY <1>0 DEF Hashes
  <2> QED BY <1>0, <2>1, <2>2 DEF Opened, NoReceipt, Bodies, Receipts
<1>3. ASSUME NEW w \in Workers, job[w].key = k,
             Saves(w) \/ Marks(w) \/ Completes(w) \/ Conflicts(w)
      PROVE  receipts'[k].hash = "shopify"
  <2>1. receipts[k].state # "absent"
    <3>1. CASE Saves(w) \/ Marks(w) \/ Completes(w)
      BY <1>3, <3>1 DEF Saves, Marks, Completes
    <3>2. CASE Conflicts(w)
      <4>1. job[w].stage \in Bound
        BY <1>0, <1>3, <3>2, AwakeWhenChanging, JobFacts DEF Conflicts, At, Bound, Inward, SyncInv
      <4> QED BY <1>3, <4>1 DEF SyncInv, WorksFit, Fits
    <3> QED BY <1>3, <3>1, <3>2
  <2>2. receipts'[k].hash = receipts[k].hash
    <3>1. CASE Saves(w)
      <4>1. receipts'[k] = [receipts[k] EXCEPT !.state = "effect-planned", !.plan = Plan(w)]
        BY <1>0, <1>3, <3>1 DEF Saves
      <4> QED BY <1>0, <4>1 DEF Receipts
    <3>2. ASSUME NEW state, receipts' = [receipts EXCEPT ![k].state = state]
          PROVE  receipts'[k].hash = receipts[k].hash
      BY <1>0, <3>2 DEF Receipts
    <3>3. CASE Marks(w) \/ Completes(w)
      BY <1>3, <3>2, <3>3 DEF Marks, Completes
    <3>4. CASE Conflicts(w)
      <4>1. PICK reason \in {"shopify_quantity_conflict", "revision_conflict"} :
              receipts' = [receipts EXCEPT ![k].state = "quarantined", ![k].reason = reason]
        BY <1>3, <3>4 DEF Conflicts
      <4>2. receipts'[k] = [receipts[k] EXCEPT !.state = "quarantined", !.reason = reason]
        BY <1>0, <4>1
      <4> QED BY <1>0, <4>2 DEF Receipts
    <3> QED BY <1>3, <3>1, <3>3, <3>4
  <2> QED BY <2>1, <2>2 DEF Bodies
<1> QED BY <1>0, <1>1, <1>2, <1>3, ReceiptsChange DEF ReceiptTurn, SyncInv

(* The bridge takes nothing for a conflict.                                *)
LEMMA NothingConflicts ==
  ASSUME SyncInv, OneByOne, disturbed = {}, CalmParts, NEW w \in Workers
  PROVE  ~Conflicts(w)
<1> SUFFICES ASSUME Conflicts(w) PROVE FALSE
  OBVIOUS
<1>k. PICK k : k = job[w].key
  OBVIOUS
<1>0. /\ job[w].stage # "idle" /\ SyncTypeOK /\ WorksFit
      /\ k \in Keys /\ k \in Announced /\ job[w].plan \in Plans
      /\ k \in Events => job[w].stage \in Outward
      /\ k \notin Events => k \in Notices /\ job[w].stage \in Inward
      /\ receipts[k].state = StateAt(job[w].stage) /\ Unsettled(k)
  BY <1>k, AwakeWhenChanging, JobFacts, CallIsUnsettled DEF SyncInv
<1>1. CASE job[w].stage \in {"compare", "set"}
  <2>1. k \in Events
    BY <1>0, <1>1 DEF Inward
  <2>2. job[w].plan.compare = shopify
    BY <1>1, <1>k, <2>1 DEF CalmParts, CallsKnow, Knows
  <2> QED BY <1>1, <2>2 DEF Conflicts, At, Plan
<1>2. CASE job[w].stage = "look"
  <2>1. k \in Events /\ receipts[k].state = "effect-sent"
    BY <1>0, <1>2 DEF Inward, StateAt, Bound
  <2>2. receipts[k].plan = job[w].plan
    BY <1>0, <1>2, <1>k DEF WorksFit, Fits, Bound
  <2>3. shopify \in {job[w].plan.quantity, job[w].plan.compare}
    BY <2>1, <2>2 DEF CalmParts, SetOrNot
  <2> QED BY <1>2, <2>3 DEF Conflicts, At, Plan
<1>3. CASE job[w].stage = "adjust"
  <2>1. k \in Notices /\ k \in Announced /\ Held(k, job[w].plan)
    BY <1>0, <1>3, <1>k DEF Outward, Held, Planning, Bound
  <2>2. k[2] \in 1 .. Len(levels) /\ k = Notice(k[2])
    BY <1>0, <2>1, KeyFacts, AnnouncedFacts
  <2>3. ~Idle(job[w].plan) /\ k[2] \notin applied /\ job[w].plan.adjust.revision # revision
    BY <1>3, <1>k DEF Conflicts, At, Replayed, Plan, Idle
  <2> QED BY <1>0, <2>1, <2>2, <2>3 DEF CalmParts, AdjustsAreCurrent
<1> QED BY <1>1, <1>2, <1>3 DEF Conflicts, At

LEMMA TakenMeans ==
  ASSUME SyncTypeOK
  PROVE  Taken <=> \A n \in 1 .. Len(levels) : ~Unsettled(Notice(n))
BY AnnouncedFacts DEF Taken, Unsettled

(* No receipt gets a conflict for its reason.                              *)
LEMMA NoConflictStep ==
  ASSUME SyncInv, OneByOne, disturbed = {}, CalmParts, [Next]_vars
  PROVE  NoConflict'
<1> SUFFICES ASSUME NEW k \in Keys
             PROVE  receipts'[k].reason \notin {"shopify_quantity_conflict", "revision_conflict"}
  BY DEF NoConflict
<1>0. /\ receipts \in [Keys -> Receipts] /\ receipts[k] \in Receipts
      /\ receipts[k].reason \notin {"shopify_quantity_conflict", "revision_conflict"}
  BY DEF SyncInv, SyncTypeOK, CalmParts, NoConflict
<1>1. CASE Opens(k)
  <2>1. PICK hash \in Hashes(k) : receipts'[k] = Opened(k, hash)
    BY <1>1 DEF Opens
  <2> QED BY <1>0, <2>1 DEF Opened, NoReceipt, Receipts
<1>2. ASSUME NEW w \in Workers, job[w].key = k, Saves(w) \/ Marks(w) \/ Completes(w)
      PROVE  receipts'[k].reason = receipts[k].reason
  <2>1. CASE Saves(w)
    <3>1. receipts'[k] = [receipts[k] EXCEPT !.state = "effect-planned", !.plan = Plan(w)]
      BY <1>0, <1>2, <2>1 DEF Saves
    <3> QED BY <1>0, <3>1 DEF Receipts
  <2>2. ASSUME NEW state, receipts' = [receipts EXCEPT ![k].state = state]
        PROVE  receipts'[k].reason = receipts[k].reason
    BY <1>0, <2>2 DEF Receipts
  <2> QED BY <1>2, <2>1, <2>2 DEF Marks, Completes
<1> QED BY <1>0, <1>1, <1>2, NothingConflicts, ReceiptsChange DEF ReceiptTurn, SyncInv

(* What is not worked off while nothing races.                             *)
LEMMA CalmReceipts ==
  ASSUME SyncInv, OneByOne, Bodies, disturbed = {}, disturbed' = {}, CalmParts, [Next]_vars,
         SidesStay
  PROVE  OneEvent' /\ OneNotice' /\ PlannedWhenTaken' /\ SetOrNot' /\ (Taken => Taken')
<1>0. /\ service' = service /\ levels' = levels /\ revision' = revision /\ shopify' = shopify
      /\ SyncTypeOK /\ WorksFit /\ Announced' = Announced /\ Events \subseteq Keys
      /\ receipts \in [Keys -> Receipts]
      /\ \A n \in 1 .. Len(levels) : Notice(n) \in Announced /\ Notice(n) \in Keys
  BY AnnouncedFacts DEF SidesStay, sides, SyncInv, SyncTypeOK, Announced, Keys
<1>a. ASSUME NEW k \in Keys, Unsettled(k)' PROVE Unsettled(k)
  BY <1>0, <1>a, SettledStays DEF Unsettled
<1>1. OneEvent'
  BY <1>0, <1>a DEF OneEvent, CalmParts
<1>b. ASSUME NEW n \in 1 .. Len(levels), Unsettled(Notice(n))' PROVE Unsettled(Notice(n))
  <2>k. PICK k : k = Notice(n)
    OBVIOUS
  <2> QED BY <1>0, <1>a, <1>b, <2>k
<1>2. OneNotice'
  BY <1>0, <1>b DEF OneNotice, CalmParts
<1>3. Taken => Taken'
  <2>1. ASSUME NEW n \in 1 .. Len(levels), Settled(Notice(n)) PROVE Settled(Notice(n))'
    <3>k. PICK k : k = Notice(n)
      OBVIOUS
    <3> QED BY <1>0, <2>1, <3>k, SettledStays
  <2> QED BY <1>0, <2>1 DEF Taken
<1>c. ASSUME NEW k \in Events, Opens(k), receipts'[k].state = "received" PROVE Taken
  <2>1. PICK w \in Workers, hash \in Hashes(k) :
          /\ Deliver(w, k, hash) /\ k \in Announced /\ At(w, "idle")
          /\ receipts'[k] = Opened(k, hash)
    BY <1>c DEF Opens
  <2>2. receipts[k].state \in {"absent", "received"}
    BY <1>0, <1>c, <2>1, OpenedType
  <2>3. "echoed" \notin Disturbance(k)
    BY <2>1 DEF Deliver
  <2>4. ASSUME NEW n \in 1 .. Len(levels), ~Settled(Notice(n)) PROVE FALSE
    <3>1. \E m \in 1 .. Len(levels) : ~Settled(<<"level", m>>)
      BY <2>4 DEF Notice
    <3>2. "echoed" \in Disturbance(k)
      BY <1>c, <2>2, <3>1, Zenon DEF Disturbance
    <3> QED BY <2>3, <3>2
  <2> QED BY <2>4 DEF Taken
<1>4. ASSUME NEW k \in Events, receipts'[k].state = "received" PROVE Taken
  <2>1. CASE receipts'[k] = receipts[k]
    BY <1>4, <2>1 DEF CalmParts, PlannedWhenTaken
  <2>2. ASSUME NEW w \in Workers, job[w].key = k, Saves(w) \/ Marks(w) \/ Completes(w)
        PROVE  receipts'[k].state # "received"
    <3>1. receipts'[k] = [receipts[k] EXCEPT !.state = "effect-planned", !.plan = Plan(w)]
            \/ ~Saves(w)
      BY <1>0, <2>2 DEF Saves
    <3>2. (\E state \in {"effect-sent", "complete"} :
             receipts'[k] = [receipts[k] EXCEPT !.state = state]) \/ Saves(w)
      BY <1>0, <2>2 DEF Marks, Completes
    <3>3. receipts[k] \in Receipts
      BY <1>0
    <3> QED BY <2>2, <3>1, <3>2, <3>3 DEF Receipts
  <2> QED BY <1>0, <1>c, <1>4, <2>1, <2>2, NothingConflicts, ReceiptsChange DEF ReceiptTurn
<1>5. PlannedWhenTaken'
  BY <1>3, <1>4 DEF PlannedWhenTaken
<1>6. ASSUME NEW k \in Events, receipts'[k].state \in {"effect-planned", "effect-sent"}
      PROVE  \/ shopify = receipts'[k].plan.quantity
             \/ shopify = receipts'[k].plan.compare /\ Taken
  <2>0. receipts[k] \in Receipts /\ k \in Keys
    BY <1>0
  <2>1. ASSUME receipts[k].state \in {"effect-planned", "effect-sent"},
               receipts'[k].plan = receipts[k].plan
        PROVE  \/ shopify = receipts'[k].plan.quantity
               \/ shopify = receipts'[k].plan.compare /\ Taken
    BY <2>1 DEF CalmParts, SetOrNot
  <2>2. CASE receipts'[k] = receipts[k]
    BY <1>6, <2>1, <2>2
  <2>3. CASE Opens(k)
    <3>1. PICK hash \in Hashes(k) : receipts'[k] = Opened(k, hash)
      BY <2>3 DEF Opens
    <3>2. receipts'[k] = receipts[k]
      BY <1>0, <1>6, <2>0, <3>1, OpenedType
    <3> QED BY <2>2, <3>2
  <2>4. ASSUME NEW w \in Workers, job[w].key = k, Saves(w)
        PROVE  \/ shopify = receipts'[k].plan.quantity
               \/ shopify = receipts'[k].plan.compare /\ Taken
    <3>1. receipts'[k] = [receipts[k] EXCEPT !.state = "effect-planned", !.plan = Plan(w)]
      BY <1>0, <2>0, <2>4 DEF Saves
    <3>2. receipts'[k].plan = job[w].plan
      BY <2>0, <3>1 DEF Receipts, Plan
    <3>3. receipts[k].state = "received" /\ job[w].stage = "save"
      BY <2>4 DEF Saves, GoesWithPlan, Goes, At
    <3>4. job[w].plan.compare = shopify /\ Taken
      BY <2>4, <3>3 DEF CalmParts, CallsKnow, Knows, PlannedWhenTaken
    <3> QED BY <3>2, <3>4
  <2>5. ASSUME NEW w \in Workers, job[w].key = k, Marks(w)
        PROVE  receipts[k].state = "effect-planned" /\ receipts'[k].plan = receipts[k].plan
    <3>1. receipts[k].state = "effect-planned"
      BY <2>5 DEF Marks
    <3> QED BY <2>0, <3>1, BoundStays
  <2>6. ASSUME NEW w \in Workers, job[w].key = k, Completes(w) PROVE FALSE
    <3>1. receipts'[k] = [receipts[k] EXCEPT !.state = "complete"]
      BY <1>0, <2>0, <2>6 DEF Completes
    <3> QED BY <1>6, <2>0, <3>1 DEF Receipts
  <2> QED BY <1>0, <2>0, <2>1, <2>2, <2>3, <2>4, <2>5, <2>6, NothingConflicts, ReceiptsChange
       DEF ReceiptTurn
<1>7. SetOrNot'
  BY <1>0, <1>3, <1>6 DEF SetOrNot
<1> QED BY <1>1, <1>2, <1>3, <1>5, <1>7

(* What calls know, and the level the catalog holds.                       *)
LEMMA CalmCalls ==
  ASSUME SyncInv, OneByOne, Bodies, disturbed = {}, disturbed' = {}, CalmParts, [Next]_vars,
         SidesStay
  PROVE  CallsKnow'
<1> SUFFICES ASSUME NEW q \in Workers PROVE Knows(job[q])'
  BY DEF CallsKnow
<1>0. /\ shopify' = shopify /\ SyncTypeOK /\ WorksFit /\ Knows(job[q])
  BY DEF SidesStay, sides, SyncInv, CalmParts, CallsKnow
<1>1. CASE Still(q)
  BY <1>0, <1>1 DEF Still, Knows
<1>2. CASE Off(q)
  BY <1>2 DEF Off, NoJob, Knows
<1>3. ASSUME NEW k \in Keys, NEW hash \in Hashes(k), Comes(q, k, hash) PROVE Knows(job[q])'
  BY <1>3 DEF Comes, ResumeAt, BuildAt, Knows
<1>4. CASE Catalogs(q)
  <2>1. job[q].stage = "catalog" /\ job'[q].key = job[q].key /\ job'[q].stage = "project"
        /\ job'[q].plan.compare = entry
    BY <1>4 DEF Catalogs, Goes, At
  <2>2. job[q].key \in Events /\ receipts[job[q].key].state = "received"
    BY <1>0, <2>1, JobFacts, CallIsUnsettled DEF Inward, StateAt, Bound
  <2>3. entry = shopify
    BY <2>2 DEF CalmParts, PlannedWhenTaken, EntryIsShopifys
  <2> QED BY <1>0, <2>1, <2>3 DEF Knows
<1>5. CASE Projects(q)
  BY <1>0, <1>5 DEF Projects, Goes, At, Knows, Plan
<1>6. CASE Compares(q) \/ Saves(q) \/ Marks(q)
  BY <1>0, <1>6 DEF Compares, Saves, Marks, GoesWithPlan, Goes, At, Knows
<1>7. CASE Finds(q) \/ Clears(q) \/ Sets(q)
  BY <1>0, <1>7 DEF Finds, Clears, Sets, GoesWithPlan, Goes, At, Knows, Plan
<1>8. CASE Adjusted(q)
  <2>1. job'[q].key = job[q].key /\ job[q].stage = "adjust"
    BY <1>8 DEF Adjusted, GoesWithPlan, Goes, At
  <2>2. job[q].key \notin Events
    BY <1>0, <2>1, JobFacts DEF Outward
  <2> QED BY <2>1, <2>2 DEF Knows
<1>9. CASE Commits(q)
  BY <1>0, <1>9 DEF Commits, GoesWithPlan, Goes, At, Knows
<1> QED BY <1>0, <1>1, <1>2, <1>3, <1>4, <1>5, <1>6, <1>7, <1>8, <1>9, EveryTurn DEF Turn

LEMMA CalmEntry ==
  ASSUME SyncInv, OneByOne, Bodies, disturbed = {}, disturbed' = {}, CalmParts, [Next]_vars,
         SidesStay
  PROVE  EntryIsShopifys'
<1>0. /\ shopify' = shopify /\ levels' = levels /\ SyncTypeOK /\ WorksFit
      /\ receipts \in [Keys -> Receipts]
      /\ \A n \in 1 .. Len(levels) : Notice(n) \in Announced /\ Notice(n) \in Keys
                                     /\ Notice(n) \in Notices
  BY AnnouncedFacts, KeyFacts, SyncAssumption DEF SidesStay, sides, SyncInv, SyncTypeOK
<1>1. ASSUME NEW w \in Workers, Commits(w) PROVE entry' = shopify
  <2>k. PICK k : k = job[w].key
    OBVIOUS
  <2>1. job[w].stage = "commit" /\ entry' = job[w].plan.quantity
    BY <1>1 DEF Commits, GoesWithPlan, Goes, At, Plan
  <2>2. /\ k \in Keys /\ k \in Announced /\ job[w].plan \in Plans /\ Unsettled(k)
        /\ Held(k, job[w].plan) /\ (k \notin Events => k \in Notices)
    BY <1>0, <2>k, <2>1, JobFacts, CallIsUnsettled DEF Held, Planning, Bound
  <2>3. CASE k \in Events
    BY <2>k, <2>1, <2>3 DEF CalmParts, CallsKnow, Knows
  <2>4. CASE k \in Notices
    <3>1. k[2] \in 1 .. Len(levels) /\ k = Notice(k[2])
      BY <1>0, <2>2, <2>4, KeyFacts, AnnouncedFacts
    <3>2. k[2] = Len(levels)
      BY <2>2, <3>1 DEF CalmParts, OneNotice
    <3>3. job[w].plan.quantity = levels[k[2]]
      BY <2>2, <2>4 DEF SyncInv, PlansGood, GoodPlan
    <3>4. Len(levels) > 0
      BY <3>1, <3>2
    <3>5. shopify = levels[Len(levels)]
      BY <3>4 DEF SyncInv, LastLevel
    <3> QED BY <2>1, <3>2, <3>3, <3>5
  <2> QED BY <2>2, <2>3, <2>4
<1>2. ASSUME entry' = entry, Taken', ~Taken PROVE entry = shopify
  <2>1. PICK n \in 1 .. Len(levels) : ~Settled(Notice(n))
    BY <1>2 DEF Taken
  <2>k. PICK k : k = Notice(n)
    OBVIOUS
  <2>2. k \in Keys /\ k \in Announced /\ k \in Notices /\ k \notin Events
    BY <1>0, <2>k, KeyFacts
  <2>3. n = Len(levels)
    BY <2>k, <2>1, <2>2 DEF CalmParts, OneNotice, Unsettled
  <2>4. ~Settled(k) /\ Settled(k)'
    <3>1. Settled(Notice(n))'
      BY <1>0, <1>2 DEF Taken
    <3> QED BY <2>k, <2>1, <3>1
  <2>5. receipts[k] \in Receipts
    BY <1>0, <2>2
  <2>6. ~Opens(k)
    <3>1. ASSUME NEW hash \in Hashes(k), receipts'[k] = Opened(k, hash) PROVE FALSE
      <4>1. hash = "shopify"
        BY <2>2 DEF Hashes
      <4>2. Opened(k, hash).state \in {receipts[k].state, "received"}
        BY <2>2, <2>5, <4>1 DEF Opened, Bodies, NoReceipt
      <4> QED BY <2>4, <3>1, <4>2 DEF Settled
    <3> QED BY <3>1 DEF Opens
  <2>7. ASSUME NEW w \in Workers, job[w].key = k, Saves(w) \/ Marks(w) PROVE ~Settled(k)'
    <3>1. CASE Saves(w)
      <4>1. receipts'[k] = [receipts[k] EXCEPT !.state = "effect-planned", !.plan = Plan(w)]
        BY <1>0, <2>2, <2>7, <3>1 DEF Saves
      <4> QED BY <2>5, <4>1 DEF Receipts, Settled
    <3>2. CASE Marks(w)
      <4>1. receipts'[k] = [receipts[k] EXCEPT !.state = "effect-sent"]
        BY <1>0, <2>2, <2>7, <3>2 DEF Marks
      <4> QED BY <2>5, <4>1 DEF Receipts, Settled
    <3> QED BY <2>7, <3>1, <3>2
  <2>8. receipts'[k] # receipts[k]
    BY <2>4 DEF Settled
  <2>9. PICK w \in Workers : job[w].key = k /\ Completes(w)
    BY <1>0, <2>2, <2>4, <2>6, <2>7, <2>8, NothingConflicts, ReceiptsChange DEF ReceiptTurn
  <2> QED BY <2>k, <2>3, <2>9 DEF Completes, At, CalmParts, EntryIsShopifys
<1>3. ASSUME NEW w \in Workers, entry' = entry, ~Commits(w),
             job'[w].stage = "complete", job'[w].key = Notice(Len(levels))
      PROVE  entry = shopify
  <2>1. ~Catalogs(w) /\ ~Projects(w) /\ ~Compares(w) /\ ~Saves(w) /\ ~Marks(w) /\ ~Off(w)
    BY <1>3 DEF Catalogs, Projects, Compares, Saves, Marks, GoesWithPlan, Goes, Off, NoJob
  <2>2. ~Finds(w) /\ ~Clears(w) /\ ~Sets(w) /\ ~Adjusted(w)
    BY <1>3 DEF Finds, Clears, Sets, Adjusted, GoesWithPlan, Goes
  <2>3. ASSUME NEW k \in Keys, NEW hash \in Hashes(k), Comes(w, k, hash) PROVE FALSE
    BY <1>3, <2>3 DEF Comes, ResumeAt, BuildAt
  <2>4. job'[w] = job[w]
    BY <1>0, <1>3, <2>1, <2>2, <2>3, EveryTurn DEF Turn, Still
  <2> QED BY <1>3, <2>4 DEF CalmParts, EntryIsShopifys
<1>4. CASE \E w \in Workers : Commits(w)
  BY <1>0, <1>1, <1>4 DEF EntryIsShopifys
<1>5. CASE entry' = entry /\ \A w \in Workers : ~Commits(w)
  <2>1. Taken => entry = shopify
    BY DEF CalmParts, EntryIsShopifys
  <2>2. Notice(Len(levels))' = Notice(Len(levels))
    BY <1>0 DEF Notice
  <2> QED BY <1>0, <1>2, <1>3, <1>5, <2>1, <2>2 DEF EntryIsShopifys
<1> QED BY <1>0, <1>4, <1>5, EntryChange

LEMMA CalmPlans ==
  ASSUME SyncInv, OneByOne, Bodies, disturbed = {}, disturbed' = {}, CalmParts, [Next]_vars,
         SidesStay
  PROVE  AdjustsAreCurrent' /\ EchoesAgree'
<1>0. /\ service' = service /\ levels' = levels /\ revision' = revision /\ applied' = applied
      /\ SyncTypeOK /\ WorksFit /\ Announced' = Announced /\ Events \subseteq Keys
      /\ \A n \in 1 .. Len(levels) :
           Notice(n) \in Announced /\ Notice(n) \in Keys /\ Notice(n) \in Notices
  <2>1. SyncTypeOK /\ WorksFit /\ Events \subseteq Keys
    BY DEF SyncInv, Keys
  <2>2. \A n \in 1 .. Len(levels) : Notice(n) \in Announced /\ Notice(n) \in Keys
    BY <2>1, AnnouncedFacts
  <2>3. \A n \in 1 .. Len(levels) : Notice(n) \in Notices
    BY <2>1, AnnouncedFacts, KeyFacts, SyncAssumption DEF SyncTypeOK
  <2> QED BY <2>1, <2>2, <2>3 DEF SidesStay, sides, Announced
<1>a. ASSUME NEW k \in Keys, Unsettled(k)' PROVE Unsettled(k)
  BY <1>0, <1>a, SettledStays DEF Unsettled
<1>b. ASSUME NEW n \in 1 .. Len(levels), Unsettled(Notice(n))' PROVE Unsettled(Notice(n))
  <2>k. PICK k : k = Notice(n)
    OBVIOUS
  <2> QED BY <1>0, <1>a, <1>b, <2>k
<1>1. ASSUME NEW n \in 1 .. Len(levels), NEW plan \in Plans, Unsettled(Notice(n))',
             Held(Notice(n), plan)', ~Idle(plan), n \notin applied
      PROVE  plan.adjust.revision = revision
  <2>k. PICK k : k = Notice(n)
    OBVIOUS
  <2>1. k \in Keys /\ Unsettled(Notice(n)) /\ Held(k, plan)' /\ k \in Notices /\ k \notin Events
    BY <1>0, <1>1, <1>b, <2>k, KeyFacts
  <2>2. CASE Held(k, plan)
    BY <1>1, <2>k, <2>1, <2>2 DEF CalmParts, AdjustsAreCurrent
  <2>3. ASSUME NEW w \in Workers, Projects(w), job[w].key = k, job'[w].plan = plan
        PROVE  plan.adjust.revision = revision
    <3>1. plan.adjust = AdjustTo(levels[k[2]])
      BY <2>1, <2>3 DEF Projects
    <3> QED BY <1>1, <3>1 DEF AdjustTo, Idle
  <2> QED BY <2>1, <2>2, <2>3, HeldBefore
<1>2. AdjustsAreCurrent'
  BY <1>0, <1>1 DEF AdjustsAreCurrent, Idle
<1>3. EchoesAgree'
  BY <1>0, <1>a, <1>b DEF EchoesAgree, CalmParts
<1> QED BY <1>2, <1>3

(* When nothing is to be worked off, nothing is being worked on.           *)
LEMMA CalmQuiet ==
  ASSUME SyncInv, OneByOne, disturbed = {}, disturbed' = {},
         Sell \/ \E q \in 0 .. MaxLevel : Move(q)
  PROVE  /\ \A k \in Announced : ~Unsettled(k)
         /\ \A w \in Workers : job[w].stage = "idle"
         /\ \A k \in Keys : receipts[k].state \in {"absent", "complete", "quarantined"}
         /\ UNCHANGED <<receipts, job, entry, applied>>
<1>1. Quiet /\ UNCHANGED <<receipts, job, entry, applied>>
  BY DEF Sell, Move, Crossing
<1>2. \A k \in Announced : ~Unsettled(k)
  BY <1>1 DEF Quiet, Unsettled
<1>3. \A w \in Workers : job[w].stage = "idle"
  BY <1>2, CallIsUnsettled, JobFacts DEF SyncInv
<1>4. \A k \in Keys : receipts[k].state \in {"absent", "complete", "quarantined"}
  BY <1>2 DEF SyncInv, WorksFit, Unsettled, Settled
<1> QED BY <1>1, <1>2, <1>3, <1>4

LEMMA CalmSold ==
  ASSUME SyncInv, OneByOne, disturbed = {}, disturbed' = {}, CalmParts, [Next]_vars, Sell
  PROVE  CalmParts'
<1>0. /\ SyncTypeOK /\ WorksFit /\ revision \in Nat /\ Events \subseteq Keys
      /\ Len(levels) \in 0 .. MaxNotices /\ MaxNotices \in Nat
  BY SyncAssumption, AnnouncedFacts DEF SyncInv, SyncTypeOK, Keys
<1>1. /\ \A k \in Announced : ~Unsettled(k)
      /\ \A w \in Workers : job[w].stage = "idle"
      /\ \A k \in Keys : receipts[k].state \in {"absent", "complete", "quarantined"}
      /\ UNCHANGED <<receipts, job, entry, applied>>
  BY CalmQuiet
<1>2. levels' = levels /\ shopify' = shopify /\ revision' = revision + 1
  BY DEF Sell
<1>3. ASSUME NEW k \in Events, Unsettled(k)' PROVE k[2] = revision + 1
  <2>1. k \notin Announced
    BY <1>1, <1>3, UnsettledBefore
  <2>2. k \in {"event"} \X (1 .. revision + 1)
    BY <1>0, <1>2, <1>3, KeyFacts DEF Unsettled, Announced, Notice, Event
  <2>3. k[2] \in 1 .. revision + 1 /\ ~(k[2] <= revision)
    BY <1>0, <1>3, <2>1, <2>2, AnnouncedFacts
  <2> QED BY <1>0, <2>3
<1>4. ASSUME NEW n \in 1 .. Len(levels), Unsettled(Notice(n))' PROVE FALSE
  <2>k. PICK k : k = Notice(n)
    OBVIOUS
  <2>1. k \in Announced /\ Unsettled(k)'
    BY <1>0, <1>4, <2>k, AnnouncedFacts
  <2> QED BY <1>1, <2>1, UnsettledBefore
<1>5. OneEvent' /\ OneNotice'
  BY <1>2, <1>3, <1>4 DEF OneEvent, OneNotice
<1>6. PlannedWhenTaken' /\ SetOrNot'
  BY <1>0, <1>1 DEF PlannedWhenTaken, SetOrNot
<1>7. CallsKnow'
  BY <1>1 DEF CallsKnow, Knows
<1>8. EntryIsShopifys'
  <2>1. Taken' => Taken
    <3>1. ASSUME NEW l, Settled(l)' PROVE Settled(l)
      BY <1>1, <3>1 DEF Settled
    <3>2. ASSUME Taken', NEW n \in 1 .. Len(levels) PROVE Settled(Notice(n))
      <4>l. PICK l : l = Notice(n)
        OBVIOUS
      <4>1. Settled(Notice(n))'
        BY <1>2, <3>2 DEF Taken
      <4>2. Settled(l)'
        BY <4>l, <4>1
      <4> QED BY <3>1, <4>l, <4>2
    <3> QED BY <3>2 DEF Taken
  <2> QED BY <1>1, <1>2, <2>1 DEF EntryIsShopifys, CalmParts
<1>9. AdjustsAreCurrent' /\ EchoesAgree'
  BY <1>2, <1>4 DEF AdjustsAreCurrent, EchoesAgree
<1> QED BY <1>5, <1>6, <1>7, <1>8, <1>9, NoConflictStep DEF CalmParts

LEMMA CalmMoved ==
  ASSUME SyncInv, OneByOne, disturbed = {}, disturbed' = {}, CalmParts, [Next]_vars,
         NEW q \in 0 .. MaxLevel, Move(q)
  PROVE  CalmParts'
<1>0. /\ SyncTypeOK /\ WorksFit /\ revision \in Nat /\ Events \subseteq Keys
      /\ Len(levels) \in 0 .. MaxNotices /\ MaxNotices \in Nat
  BY SyncAssumption, AnnouncedFacts DEF SyncInv, SyncTypeOK, Keys
<1>1. /\ \A k \in Announced : ~Unsettled(k)
      /\ \A w \in Workers : job[w].stage = "idle"
      /\ \A k \in Keys : receipts[k].state \in {"absent", "complete", "quarantined"}
      /\ UNCHANGED <<receipts, job, entry, applied>>
  BY CalmQuiet
<1>2. revision' = revision
  BY DEF Move
<1>n. PICK n : n = Len(levels')
  OBVIOUS
<1>3. /\ n = Len(levels) + 1 /\ n > 0 /\ Notice(n) \in Keys /\ Notice(n) \notin Announced
      /\ \A plan : ~Held(Notice(n), plan)'
  BY <1>n, NewNotice
<1>4. ASSUME NEW m \in 1 .. n, Unsettled(Notice(m))' PROVE m = n
  <2>k. PICK k : k = Notice(m)
    OBVIOUS
  <2>1. Unsettled(k)'
    BY <1>4, <2>k
  <2>2. k \notin Announced
    BY <1>1, <2>1, UnsettledBefore
  <2>3. CASE m \in 1 .. Len(levels)
    BY <1>0, <2>k, <2>2, <2>3, AnnouncedFacts
  <2> QED BY <1>0, <1>3, <2>3
<1>5. ASSUME NEW k \in Events, Unsettled(k)' PROVE FALSE
  <2>1. k \notin Announced
    BY <1>1, <1>5, UnsettledBefore
  <2>2. k \in {"event"} \X (1 .. revision)
    BY <1>2, <1>5, KeyFacts DEF Unsettled, Announced, Event
  <2> QED BY <2>1, <2>2 DEF Announced
<1>6. ~Taken'
  <2>1. receipts[Notice(n)].state = "absent"
    BY <1>0, <1>3, Unannounced
  <2>2. ~Settled(Notice(n))'
    BY <1>1, <2>1 DEF Settled
  <2> QED BY <1>0, <1>n, <1>3, <2>2 DEF Taken
<1>7. OneEvent' /\ OneNotice'
  BY <1>4, <1>5, <1>n DEF OneEvent, OneNotice
<1>8. PlannedWhenTaken' /\ SetOrNot'
  BY <1>0, <1>1 DEF PlannedWhenTaken, SetOrNot
<1>9. CallsKnow' /\ EntryIsShopifys'
  BY <1>1, <1>6 DEF CallsKnow, Knows, EntryIsShopifys
<1>10. ASSUME NEW m \in 1 .. n, NEW plan, Unsettled(Notice(m))', Held(Notice(m), plan)'
       PROVE  FALSE
  <2>1. m = n
    BY <1>4, <1>10
  <2> QED BY <1>3, <1>10, <2>1
<1>11. AdjustsAreCurrent'
  BY <1>10, <1>n DEF AdjustsAreCurrent
<1>12. EchoesAgree'
  BY <1>5 DEF EchoesAgree
<1> QED BY <1>7, <1>8, <1>9, <1>11, <1>12, NoConflictStep DEF CalmParts

LEMMA CalmSet ==
  ASSUME SyncInv, OneByOne, disturbed = {}, disturbed' = {}, CalmParts, [Next]_vars,
         NEW p \in Workers, SetBy(p)
  PROVE  CalmParts'
<1>0. /\ SyncTypeOK /\ WorksFit /\ revision \in Nat /\ Events \subseteq Keys
      /\ Len(levels) \in 0 .. MaxNotices /\ MaxNotices \in Nat /\ levels \in Seq(Int)
  BY SyncAssumption, AnnouncedFacts DEF SyncInv, SyncTypeOK, Keys
<1>k. PICK k : k = job[p].key
  OBVIOUS
<1>1. /\ job[p].stage = "set" /\ k \in Events /\ k \in Keys /\ job[p].plan \in Plans
      /\ Held(k, job[p].plan) /\ Unsettled(k) /\ receipts[k].state = "effect-sent"
      /\ receipts[k].plan = job[p].plan /\ k[2] = revision
  <2>1. job[p].stage = "set" /\ k \in Events
    BY <1>0, <1>k, JobFacts DEF SetBy, At, Inward
  <2>2. Unsettled(k) /\ receipts[k].state = "effect-sent" /\ receipts[k].plan = job[p].plan
    BY <1>0, <1>k, <2>1, CallIsUnsettled DEF StateAt, Bound, WorksFit, Fits
  <2> QED BY <1>0, <1>k, <2>1, <2>2, JobFacts DEF Held, Planning, Bound, CalmParts, OneEvent
<1>2. job[p].plan.quantity = service /\ service \in Int
  BY <1>1 DEF SyncInv, PlansGood, GoodPlan, SyncTypeOK
<1>3. /\ job[p].plan.compare = shopify /\ job[p].plan.quantity # shopify
      /\ Taken
  <2>1. job[p].plan.compare = shopify /\ job[p].plan.quantity # shopify
    BY <1>1, <1>k DEF CalmParts, CallsKnow, Knows
  <2> QED BY <1>1, <2>1 DEF CalmParts, SetOrNot
<1>4. /\ UNCHANGED <<service, revision, applied, receipts, entry>>
      /\ shopify' = service /\ levels' = Append(levels, service)
      /\ \A v \in Workers \ {p} : job'[v] = job[v]
      /\ Off(p) \/ GoesWithPlan(p, "set", "commit")
  BY <1>2 DEF SetBy, Plan
<1>5. Len(levels') = Len(levels) + 1 /\ levels'[Len(levels')] = service /\ ~SidesStay
  <2>1. Len(levels') = Len(levels) + 1 /\ levels'[Len(levels')] = service
    BY <1>0, <1>2, <1>4, LevelsGrow
  <2> QED BY <1>0, <2>1 DEF SidesStay, sides
<1>n. PICK n : n = Len(levels')
  OBVIOUS
<1>6. /\ n = Len(levels) + 1 /\ n > 0 /\ Notice(n) \in Keys /\ Notice(n) \notin Announced
      /\ \A plan : ~Held(Notice(n), plan)'
  BY <1>n, NewNotice
<1>7. ASSUME NEW m \in 1 .. n, Unsettled(Notice(m))' PROVE m = n
  <2>l. PICK l : l = Notice(m)
    OBVIOUS
  <2>1. Unsettled(l)'
    BY <1>7, <2>l
  <2>2. CASE m \in 1 .. Len(levels)
    <3>1. l \in Announced
      BY <1>0, <2>l, <2>2, AnnouncedFacts
    <3>2. Unsettled(l)
      BY <1>4, <2>1, <3>1, UnsettledBefore
    <3> QED BY <1>0, <1>3, <2>l, <2>2, <3>2, TakenMeans
  <2> QED BY <1>0, <1>6, <2>2
<1>8. ASSUME NEW l \in Events, Unsettled(l)' PROVE Unsettled(l) /\ l = k
  <2>1. l \in {"event"} \X (1 .. revision)
    BY <1>4, <1>8, KeyFacts DEF Unsettled, Announced, Event
  <2>2. Unsettled(l)
    BY <1>4, <1>8, <2>1, UnsettledBefore DEF Announced
  <2>3. l[2] = revision
    BY <2>2 DEF CalmParts, OneEvent
  <2> QED BY <1>1, <2>2, <2>3, KeyFacts
<1>9. ~Taken'
  <2>1. receipts[Notice(n)].state = "absent"
    BY <1>0, <1>6, Unannounced
  <2>2. ~Settled(Notice(n))'
    BY <1>4, <2>1 DEF Settled
  <2> QED BY <1>0, <1>n, <1>6, <2>2 DEF Taken
<1>10. OneEvent' /\ OneNotice'
  BY <1>1, <1>4, <1>7, <1>8, <1>n DEF OneEvent, OneNotice
<1>11. ASSUME NEW l \in Events, receipts[l].state \in {"received", "effect-planned", "effect-sent"}
       PROVE  l = k
  <2>1. Unsettled(l)
    BY <1>0, <1>11 DEF WorksFit, Unsettled, Settled
  <2>2. l[2] = revision
    BY <2>1 DEF CalmParts, OneEvent
  <2> QED BY <1>1, <2>2, KeyFacts
<1>12. PlannedWhenTaken' /\ SetOrNot'
  BY <1>1, <1>2, <1>4, <1>11 DEF PlannedWhenTaken, SetOrNot
<1>13. ASSUME NEW v \in Workers PROVE Knows(job[v])'
  <2>1. CASE v = p
    <3>1. CASE Off(p)
      BY <2>1, <3>1 DEF Off, NoJob, Knows
    <3>2. CASE GoesWithPlan(p, "set", "commit")
      BY <1>2, <1>4, <2>1, <3>2 DEF GoesWithPlan, Goes, Knows
    <3> QED BY <1>4, <3>1, <3>2
  <2>2. CASE v # p
    <3>1. job'[v] = job[v]
      BY <1>4, <2>2
    <3>2. ASSUME job[v].stage # "idle", job[v].key \in Events PROVE FALSE
      <4>1. receipts[job[v].key].state \in {"received", "effect-planned", "effect-sent"}
        BY <3>2, CallIsUnsettled DEF StateAt
      <4>2. job[v].key = k
        BY <1>11, <3>2, <4>1
      <4> QED BY <1>1, <1>k, <2>2, <3>2, <4>2 DEF OneByOne, Alone
    <3> QED BY <3>1, <3>2 DEF Knows
  <2> QED BY <2>1, <2>2
<1>14. CallsKnow'
  BY <1>13 DEF CallsKnow
<1>15. EntryIsShopifys'
  <2>1. ASSUME NEW v \in Workers, job'[v].stage = "complete", job'[v].key = Notice(n)
        PROVE  FALSE
    <3>1. v # p
      BY <1>4, <2>1 DEF Off, NoJob, GoesWithPlan, Goes
    <3>2. job'[v] = job[v]
      BY <1>4, <3>1
    <3> QED BY <1>0, <1>6, <2>1, <3>2, Unannounced
  <2> QED BY <1>9, <1>n, <2>1 DEF EntryIsShopifys, Notice
<1>16. ASSUME NEW m \in 1 .. n, NEW plan, Unsettled(Notice(m))', Held(Notice(m), plan)'
       PROVE  FALSE
  <2>1. m = n
    BY <1>7, <1>16
  <2> QED BY <1>6, <1>16, <2>1
<1>17. AdjustsAreCurrent'
  BY <1>16, <1>n DEF AdjustsAreCurrent
<1>18. EchoesAgree'
  BY <1>4, <1>5, <1>7, <1>n DEF EchoesAgree
<1> QED BY <1>10, <1>12, <1>14, <1>15, <1>17, <1>18, NoConflictStep DEF CalmParts

LEMMA CalmAdjusted ==
  ASSUME SyncInv, OneByOne, disturbed = {}, disturbed' = {}, CalmParts, [Next]_vars,
         NEW p \in Workers, AdjustedBy(p)
  PROVE  CalmParts'
<1>0. /\ SyncTypeOK /\ WorksFit /\ revision \in Nat /\ service \in Int /\ Events \subseteq Keys
      /\ Len(levels) \in 0 .. MaxNotices /\ MaxNotices \in Nat /\ levels \in Seq(Int)
  BY SyncAssumption, AnnouncedFacts DEF SyncInv, SyncTypeOK, Keys
<1>k. PICK k : k = job[p].key
  OBVIOUS
<1>1. /\ job[p].stage = "adjust" /\ k \in Notices /\ job[p].plan \in Plans
      /\ Held(k, job[p].plan) /\ Unsettled(k) /\ k \in Keys /\ k \in Announced
  BY <1>0, <1>k, CallIsUnsettled, JobFacts
     DEF AdjustedBy, At, Outward, Held, Planning, Bound
<1>2. k[2] \in 1 .. Len(levels) /\ k = Notice(k[2])
  BY <1>0, <1>1, KeyFacts, AnnouncedFacts
<1>3. k[2] = Len(levels)
  BY <1>1, <1>2 DEF CalmParts, OneNotice
<1>4. job[p].plan.adjust # NoAdjust /\ job[p].plan.adjust.revision = revision
  BY DEF AdjustedBy, Replayed, Plan
<1>5. /\ service + job[p].plan.adjust.delta = levels[k[2]]
      /\ job[p].plan.adjust.delta # 0 /\ job[p].plan.adjust.delta \in Int
  <2>1. GoodPlan(k, job[p].plan)
    BY <1>1 DEF SyncInv, PlansGood
  <2>2. k \notin Events
    BY <1>1, KeyFacts
  <2> QED BY <1>1, <1>4, <2>1 DEF GoodPlan, Plans, Adjusts
<1>6. /\ service' = levels[k[2]] /\ revision' = revision + 1
      /\ applied' = applied \union {k[2]}
      /\ UNCHANGED <<levels, receipts, shopify, entry>>
      /\ \A v \in Workers \ {p} : job'[v] = job[v]
      /\ Off(p) \/ GoesWithPlan(p, "adjust", "commit")
  BY <1>5, <1>k DEF AdjustedBy, Plan
<1>7. levels[k[2]] # service
  <2>1. ASSUME NEW d \in Int, d # 0, service + d = service PROVE FALSE
    BY <1>0, <2>1
  <2> QED BY <1>5, <2>1
<1>8. \A l \in Events : ~Unsettled(l)
  BY <1>1, <1>2, <1>7 DEF CalmParts, EchoesAgree
<1>9. ASSUME NEW l \in Events, Unsettled(l)' PROVE l[2] = revision + 1
  <2>1. l \notin Announced
    BY <1>6, <1>8, <1>9, UnsettledBefore
  <2>2. l \in {"event"} \X (1 .. revision + 1)
    BY <1>0, <1>6, <1>9, KeyFacts DEF Unsettled, Announced, Notice, Event
  <2>3. l[2] \in 1 .. revision + 1 /\ ~(l[2] <= revision)
    BY <1>0, <1>9, <2>1, <2>2, AnnouncedFacts
  <2> QED BY <1>0, <2>3
<1>10. ASSUME NEW n \in 1 .. Len(levels), Unsettled(Notice(n))' PROVE n = Len(levels)
  <2>l. PICK l : l = Notice(n)
    OBVIOUS
  <2>1. l \in Announced /\ Unsettled(l)'
    BY <1>0, <1>10, <2>l, AnnouncedFacts
  <2>2. Unsettled(Notice(n))
    BY <1>6, <2>l, <2>1, UnsettledBefore
  <2> QED BY <2>2 DEF CalmParts, OneNotice
<1>11. OneEvent' /\ OneNotice'
  BY <1>6, <1>9, <1>10 DEF OneEvent, OneNotice
<1>12. ASSUME NEW l \in Events, receipts[l].state \in {"received", "effect-planned", "effect-sent"}
       PROVE  FALSE
  <2>1. Unsettled(l)
    BY <1>0, <1>12 DEF WorksFit, Unsettled, Settled
  <2> QED BY <1>8, <2>1
<1>13. PlannedWhenTaken' /\ SetOrNot'
  BY <1>6, <1>12 DEF PlannedWhenTaken, SetOrNot
<1>14. ASSUME NEW v \in Workers PROVE Knows(job[v])'
  <2>1. CASE v = p
    <3>1. job'[p] = NoJob \/ job'[p].key = k
      BY <1>6, <1>k DEF Off, GoesWithPlan, Goes
    <3> QED BY <1>1, <2>1, <3>1, KeyFacts DEF Knows, NoJob
  <2>2. CASE v # p
    <3>1. job'[v] = job[v]
      BY <1>6, <2>2
    <3>2. job[v].stage # "idle" => job[v].key \notin Events
      BY <1>8, CallIsUnsettled
    <3> QED BY <3>1, <3>2 DEF Knows
  <2> QED BY <2>1, <2>2
<1>15. CallsKnow'
  BY <1>14 DEF CallsKnow
<1>16. EntryIsShopifys'
  <2>1. ~Taken'
    <3>n. PICK n : n = k[2]
      OBVIOUS
    <3>1. ~Settled(k)'
      BY <1>1, <1>6 DEF Unsettled, Settled
    <3>2. ~Settled(Notice(n))'
      BY <1>2, <3>n, <3>1
    <3> QED BY <1>2, <1>6, <3>n, <3>2 DEF Taken
  <2>2. ASSUME NEW v \in Workers, job'[v].stage = "complete", job'[v].key = Notice(Len(levels))
        PROVE  entry = shopify
    <3>1. v # p
      BY <1>6, <2>2 DEF Off, NoJob, GoesWithPlan, Goes
    <3>2. job'[v] = job[v]
      BY <1>6, <3>1
    <3> QED BY <2>2, <3>2 DEF CalmParts, EntryIsShopifys
  <2> QED BY <1>6, <2>1, <2>2 DEF EntryIsShopifys, Notice
<1>17. AdjustsAreCurrent'
  BY <1>3, <1>6, <1>10 DEF AdjustsAreCurrent
<1>18. EchoesAgree'
  BY <1>3, <1>6, <1>10 DEF EchoesAgree
<1> QED BY <1>11, <1>13, <1>15, <1>16, <1>17, <1>18, NoConflictStep DEF CalmParts

LEMMA CalmStep ==
  CalmInv /\ [Next]_vars => CalmInv'
<1> SUFFICES ASSUME CalmInv, [Next]_vars PROVE CalmInv'
  OBVIOUS
<1>1. SyncInv /\ SyncInv' /\ OneByOne /\ OneByOne' /\ Bodies /\ Bodies'
  BY SyncStep, OneByOneStep, BodiesStep DEF CalmInv
<1>2. ASSUME disturbed' = {} PROVE CalmParts'
  <2>1. disturbed = {} /\ CalmParts
    BY <1>2, GhostsChange DEF CalmInv
  <2>2. CASE SidesStay
    <3>1. OneEvent' /\ OneNotice' /\ PlannedWhenTaken' /\ SetOrNot'
      BY <1>1, <1>2, <2>1, <2>2, CalmReceipts
    <3>2. CallsKnow' /\ EntryIsShopifys' /\ AdjustsAreCurrent' /\ EchoesAgree' /\ NoConflict'
      BY <1>1, <1>2, <2>1, <2>2, CalmCalls, CalmEntry, CalmPlans, NoConflictStep
    <3> QED BY <3>1, <3>2 DEF CalmParts
  <2> QED BY <1>1, <1>2, <2>1, <2>2, SidesChange, CalmSold, CalmMoved, CalmSet, CalmAdjusted
       DEF SyncInv
<1> QED BY <1>1, <1>2 DEF CalmInv

LEMMA CalmInit ==
  Init => CalmInv
<1> SUFFICES ASSUME Init PROVE CalmInv
  OBVIOUS
<1>1. /\ entry = shopify /\ levels = <<>> /\ Len(levels) = 0 /\ revision = 0
      /\ \A w \in Workers : job[w] = NoJob
      /\ \A k \in Keys : receipts[k] = NoReceipt
      /\ Events \subseteq Keys /\ Notices \subseteq Keys
  BY DEF Init, Keys
<1>2. \A k : ~Unsettled(k)
  BY <1>1 DEF Unsettled, Announced
<1>3. OneEvent /\ OneNotice /\ PlannedWhenTaken /\ SetOrNot
  BY <1>1, <1>2 DEF OneEvent, OneNotice, PlannedWhenTaken, SetOrNot, NoReceipt
<1>4. CallsKnow /\ EntryIsShopifys /\ AdjustsAreCurrent /\ EchoesAgree
  BY <1>1, <1>2 DEF CallsKnow, Knows, EntryIsShopifys, AdjustsAreCurrent, EchoesAgree, NoJob
<1>5. NoConflict /\ Bodies
  BY <1>1 DEF NoConflict, Bodies, NoReceipt
<1>6. SyncInv /\ OneByOne
  BY StockInit DEF StockInv
<1> QED BY <1>3, <1>4, <1>5, <1>6 DEF CalmInv, CalmParts

(* When nothing races there is one event and one notice at most to work    *)
(* off, and what a call has read (the catalog's level, Shopify's, the      *)
(* projection) is still so when it uses it, through crashes, lost answers  *)
(* and repetitions.                                                        *)
THEOREM CallsKnowWhenCalm ==
  Spec => []CalmInv
BY CalmInit, CalmStep, PTL DEF Spec

(* So the bridge never quarantines for its own writes: neither the         *)
(* comparisons with Shopify's level (compare, look, inventorySet) nor the  *)
(* service's revision (sendAdjust) fail without a race.                    *)
THEOREM NoConflictOfItsOwn ==
  Spec => []OwnWritesDoNotConflict
<1>1. CalmInv => OwnWritesDoNotConflict
  BY DEF CalmInv, CalmParts, NoConflict, OwnWritesDoNotConflict
<1> QED BY <1>1, CallsKnowWhenCalm, PTL
=============================================================================
