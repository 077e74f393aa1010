------------------------- MODULE ShopifyInboundProofs -------------------------
(***************************************************************************)
(* Type correctness and safety of ShopifyInbound, for any number of calls, *)
(* receipts, items and deliveries and any bounds.                          *)
(*                                                                         *)
(* TypeOK alone is not inductive: a PUT needs a plan with a fingerprint,   *)
(* an adjust needs a stored request.  TypeInv adds what a call's plan must *)
(* be for the place the call is at.                                        *)
(*                                                                         *)
(* The theorems are about types, what completion means (Inv), the catalog  *)
(* file and the fingerprint it remembers (Whole, RecordInv), the life of a *)
(* receipt, and what an adjust may do at the service (AdjustInv).          *)
(***************************************************************************)
EXTENDS ShopifyInbound, TLAPS

(* What a call at a phase carries.                                         *)
Sound(phase, j) ==
  /\ phase # "idle" => j.event \in Events /\ j.payload \in Payload
  /\ phase \in {"project", "commit", "persist"} => j.plan.kind \in {"catalog", "stock"}
  /\ phase \in {"covers", "recommit", "put", "sync"} => j.plan.kind = "catalog"
  /\ phase = "adjust" => j.plan.adjust # None

TypeInv ==
  /\ TypeOK
  /\ \A w \in Workers : Sound(pc[w], job[w])

UsedType == [crashes : Nat, faults : Nat, releases : Nat, sales : Nat, moves : Nat]

(***************************************************************************)
(* Values.                                                                 *)
(***************************************************************************)
LEMMA NoPlanType == NoPlan \in Plan /\ NoopPlan \in Plan /\ NoVariants \in Variants
BY DEF NoPlan, NoopPlan, Plan, NoVariants, Variants, Absent

LEMMA NoJobType == NoJob \in JobType /\ NoReceipt \in Receipt /\ Sound("idle", NoJob)
BY NoPlanType DEF NoJob, JobType, NoReceipt, Receipt, ReceiptState, Reason, Sound

LEMMA PlanFields ==
  ASSUME NEW plan \in Plan
  PROVE  /\ plan.variants \in Variants
         /\ plan.fp \in Fingerprint \union {None}
         /\ plan.adjust \in Adjust \union {None}
         /\ plan.kind = "catalog" => plan.fp \in Fingerprint
         /\ plan.kind \in {"none", "noop", "catalog", "stock"}
BY DEF Plan

LEMMA PlanUpdate ==
  ASSUME NEW plan \in Plan, plan.kind \in {"catalog", "stock"},
         NEW request \in Adjust \union {None}
  PROVE  /\ [plan EXCEPT !.adjust = request] \in Plan
         /\ [plan EXCEPT !.adjust = request].kind = plan.kind
BY DEF Plan

LEMMA ReceiptUpdate ==
  ASSUME NEW r \in Receipt, NEW state \in ReceiptState, NEW reason \in Reason,
         NEW plan \in Plan
  PROVE  /\ [r EXCEPT !.state = state] \in Receipt
         /\ [r EXCEPT !.state = state, !.reason = reason] \in Receipt
         /\ [r EXCEPT !.state = state, !.plan = plan] \in Receipt
BY DEF Receipt

LEMMA JobUpdate ==
  ASSUME NEW j \in JobType, NEW plan \in Plan, NEW state \in ReceiptState
  PROVE  [j EXCEPT !.plan = plan] \in JobType /\ [j EXCEPT !.state = state] \in JobType
BY DEF JobType

LEMMA OpenedType ==
  ASSUME TypeOK, NEW e \in Events, NEW p \in Payload
  PROVE  Opened(e, p) \in Receipt
BY NoJobType DEF Opened, TypeOK, Receipt, ReceiptState, Reason

LEMMA NoFileType == NoTemp \in TempFile /\ NoSave \in Save
BY DEF NoTemp, TempFile, NoSave, Save

LEMMA EmptyCatalogType ==
  EmptyCatalog \in CatalogText /\ EmptyCatalog.fp = None /\ Readable({EmptyCatalog})
BY NoPlanType DEF EmptyCatalog, CatalogText, Readable

(* A file that cannot be read counts as an empty catalog.                  *)
LEMMA LoadedType ==
  ASSUME NEW file \in SUBSET CatalogText
  PROVE  /\ Loaded(file) \in CatalogText
         /\ Readable(file) => file = {Loaded(file)}
         /\ ~Readable(file) => Loaded(file) = EmptyCatalog
<1>1. CASE Readable(file)
  <2>1. PICK text \in file : file = {text}
    BY <1>1 DEF Readable
  <2>2. (CHOOSE t \in file : TRUE) \in file
    BY <2>1
  <2> QED BY <1>1, <2>1, <2>2 DEF Loaded
<1>2. CASE ~Readable(file)
  BY <1>2, EmptyCatalogType DEF Loaded
<1> QED BY <1>1, <1>2

LEMMA TotalType ==
  ASSUME NEW v \in Variants
  PROVE  Total(v) \in Nat
BY InboundAssumption

(***************************************************************************)
(* What the steps of a call have in common.                                *)
(***************************************************************************)
LEMMA MoveType ==
  ASSUME TypeInv, NEW w \in Workers, NEW phase \in Phase, NEW j \in JobType,
         Sound(phase, j), Goto(w, phase), job' = [job EXCEPT ![w] = j]
  PROVE  /\ pc' \in [Workers -> Phase] /\ job' \in [Workers -> JobType]
         /\ \A v \in Workers : Sound(pc[v], job[v])'
<1>1. pc' \in [Workers -> Phase] /\ job' \in [Workers -> JobType]
  BY DEF TypeInv, TypeOK, Goto
<1>2. ASSUME NEW v \in Workers PROVE Sound(pc'[v], job'[v])
  BY DEF TypeInv, TypeOK, Goto
<1> QED BY <1>1, <1>2 DEF Sound

LEMMA GotoType ==
  ASSUME TypeInv, NEW w \in Workers, NEW phase \in Phase,
         Sound(phase, job[w]), Goto(w, phase), UNCHANGED job
  PROVE  /\ pc' \in [Workers -> Phase] /\ job' \in [Workers -> JobType]
         /\ \A v \in Workers : Sound(pc[v], job[v])'
<1>1. job[w] \in JobType /\ job' = [job EXCEPT ![w] = job[w]]
  BY DEF TypeInv, TypeOK
<1> HIDE DEF Goto
<1> QED BY <1>1, MoveType

LEMMA LeaveType ==
  ASSUME TypeInv, NEW w \in Workers, Leave(w)
  PROVE  /\ pc' \in [Workers -> Phase] /\ job' \in [Workers -> JobType]
         /\ \A v \in Workers : Sound(pc[v], job[v])'
BY NoJobType, MoveType, "idle" \in Phase DEF Leave, Phase

LEMMA StayType ==
  ASSUME TypeInv, UNCHANGED <<pc, job>>
  PROVE  /\ pc' \in [Workers -> Phase] /\ job' \in [Workers -> JobType]
         /\ \A v \in Workers : Sound(pc[v], job[v])'
BY DEF TypeInv, TypeOK, Sound

LEMMA SpendType ==
  ASSUME TypeOK, NEW limit, NEW bound \in {"crashes", "faults", "releases", "sales", "moves"},
         Spend(bound, limit)
  PROVE  used' \in UsedType
BY DEF Spend, TypeOK, UsedType

LEMMA StopType ==
  ASSUME TypeInv, NEW file \in SUBSET CatalogText, Stop(file),
         UNCHANGED <<receipts, remote, merchant>>
  PROVE  TypeInv'
<1>1. used' \in UsedType
  BY SpendType DEF Stop, TypeInv
<1>2. pc' \in [Workers -> Phase] /\ job' \in [Workers -> JobType]
  BY NoJobType DEF Stop, Phase
<1>3. \A v \in Workers : Sound(pc[v], job[v])'
  BY NoJobType DEF Stop, Sound
<1>4. catalogFp' \in Fingerprint \union {None} /\ entries' \in Variants
  BY LoadedType DEF Stop, CatalogText
<1>5. temp' \in TempFile /\ saves' \in [Workers -> Save]
  BY NoFileType DEF Stop
<1>6. saved' \subseteq CatalogText /\ unreadable' \in BOOLEAN
  BY DEF Stop
<1> QED BY <1>1, <1>2, <1>3, <1>4, <1>5, <1>6
        DEF UsedType, TypeInv, TypeOK, remote, merchant

LEMMA QuarantineType ==
  ASSUME TypeInv, NEW w \in Workers, pc[w] # "idle", NEW reason \in Reason,
         Quarantine(w, reason)
  PROVE  /\ receipts' \in [Events -> Receipt]
         /\ pc' \in [Workers -> Phase] /\ job' \in [Workers -> JobType]
         /\ \A v \in Workers : Sound(pc[v], job[v])'
<1>1. job[w].event \in Events
  BY DEF TypeInv, Sound
<1>2. [receipts[job[w].event] EXCEPT !.state = "quarantined", !.reason = reason]
        \in Receipt
  BY <1>1, ReceiptUpdate, NoPlanType DEF TypeInv, TypeOK, ReceiptState
<1>3. receipts' \in [Events -> Receipt]
  BY <1>1, <1>2 DEF Quarantine, TypeInv, TypeOK
<1> QED BY <1>3, LeaveType DEF Quarantine

LEMMA AnsweredType ==
  ASSUME TypeInv, NEW w \in Workers, NEW phase \in Phase, Sound(phase, job[w]),
         Answered(w, phase)
  PROVE  /\ pc' \in [Workers -> Phase] /\ job' \in [Workers -> JobType]
         /\ \A v \in Workers : Sound(pc[v], job[v])'
         /\ used' \in UsedType
<1>1. CASE Goto(w, phase) /\ UNCHANGED <<job, used>>
  BY <1>1, GotoType DEF TypeInv, TypeOK, UsedType
<1>2. CASE Leave(w) /\ Spend("faults", MaxFaults)
  BY <1>2, LeaveType, SpendType DEF TypeInv
<1> QED BY <1>1, <1>2 DEF Answered

(***************************************************************************)
(* One lemma per action.                                                   *)
(***************************************************************************)
LEMMA InitType == Init => TypeInv
<1> SUFFICES ASSUME Init PROVE TypeInv
  OBVIOUS
<1>1. \A w \in Workers : Sound(pc[w], job[w])
  BY NoJobType DEF Init
<1>2. shopify \in [Items -> Qty]
  BY InboundAssumption DEF Init
<1>3. pc \in [Workers -> Phase] /\ job \in [Workers -> JobType]
  BY NoJobType DEF Init, Phase
<1>4. receipts \in [Events -> Receipt] /\ entries \in Variants
  BY NoJobType, NoPlanType DEF Init
<1>5. used \in UsedType
  BY DEF Init, UsedType
<1>6. listed \in BOOLEAN
  BY ZenonT(10) DEF Init
<1>7. available \in Int /\ revision \in Nat
  BY DEF Init
<1>8. saved \subseteq CatalogText /\ temp \in TempFile /\ saves \in [Workers -> Save]
  BY EmptyCatalogType, NoFileType DEF Init
<1>9. unreadable \in BOOLEAN
  BY ZenonT(10) DEF Init
<1> QED BY <1>1, <1>2, <1>3, <1>4, <1>5, <1>6, <1>7, <1>8, <1>9
        DEF Init, TypeInv, TypeOK, UsedType

LEMMA DeliverType ==
  ASSUME TypeInv, NEW w \in Workers, NEW d \in Deliveries, Deliver(w, d)
  PROVE  TypeInv'
<1> DEFINE r == Opened(d.event, d.payload)
           j == IF ResumeAt(r.state) = "idle" THEN NoJob
                ELSE [event |-> d.event, payload |-> d.payload, state |-> r.state,
                      plan |-> r.plan]
<1>1. d.event \in Events /\ d.payload \in Payload
  BY InboundAssumption
<1>2. r \in Receipt
  BY <1>1, OpenedType DEF TypeInv
<1>3. receipts' \in [Events -> Receipt]
  BY <1>1, <1>2 DEF Deliver, TypeInv, TypeOK
<1>4. ResumeAt(r.state) \in Phase
  BY <1>2 DEF Receipt, ReceiptState, ResumeAt, Phase
<1>5. j \in JobType
  BY <1>1, <1>2, NoJobType DEF Receipt, JobType
<1>6. Sound(ResumeAt(r.state), j)
  BY <1>1, NoJobType DEF Sound, ResumeAt
<1>7. Goto(w, ResumeAt(r.state)) /\ job' = [job EXCEPT ![w] = j]
  BY DEF Deliver
<1>8. /\ pc' \in [Workers -> Phase] /\ job' \in [Workers -> JobType]
      /\ \A v \in Workers : Sound(pc[v], job[v])'
  <2> HIDE DEF j, r
  <2> QED BY <1>4, <1>5, <1>6, <1>7, MoveType
<1> QED BY <1>3, <1>8 DEF Deliver, TypeInv, TypeOK, remote, merchant, catalog

LEMMA ReadStockType ==
  ASSUME TypeInv, NEW w \in Workers, ReadStock(w)
  PROVE  TypeInv'
<1> DEFINE p == job[w].payload
           import == [kind |-> "catalog",
                       fp |-> [version |-> p.version, items |-> InStock],
                       variants |-> [i \in Items |->
                          IF i \in InStock THEN shopify[i] ELSE Absent],
                       adjust |-> None]
           stock == [kind |-> "stock", fp |-> None,
                     variants |-> [entries EXCEPT ![p.item] = p.available],
                     adjust |-> None]
<1>1. pc[w] = "build" /\ job[w] \in JobType /\ p \in Payload /\ job[w].event \in Events
  BY DEF ReadStock, TypeInv, TypeOK, Sound
<1>2. ASSUME p.topic = "products/update" PROVE import \in Plan
  <2>1. p.version \in Versions
    BY <1>1, <1>2 DEF Payload
  <2>2. import.variants \in Variants
    BY DEF Variants, TypeInv, TypeOK
  <2> QED BY <2>1, <2>2 DEF Plan, Fingerprint, InStock
<1>3. ASSUME p.topic = "inventory_levels/update" PROVE stock \in Plan
  <2>1. p.available \in Qty
    BY <1>1, <1>3 DEF Payload
  <2>2. stock.variants \in Variants
    BY <2>1 DEF Variants, TypeInv, TypeOK
  <2> QED BY <2>2 DEF Plan
<1>4. ASSUME NEW plan \in Plan, NEW phase \in {"save", "project"},
             phase = "project" => plan.kind \in {"catalog", "stock"},
             job' = [job EXCEPT ![w].plan = plan], Goto(w, phase)
      PROVE  /\ pc' \in [Workers -> Phase] /\ job' \in [Workers -> JobType]
             /\ \A v \in Workers : Sound(pc[v], job[v])'
  <2> DEFINE j == [job[w] EXCEPT !.plan = plan]
  <2>1. j \in JobType /\ j.plan = plan /\ j.event = job[w].event
        /\ j.payload = job[w].payload
    BY <1>1, <1>4 DEF JobType
  <2>2. Sound(phase, j)
    BY <2>1, <1>1, <1>4 DEF Sound
  <2>3. job' = [job EXCEPT ![w] = j] /\ phase \in Phase
    BY <1>4 DEF TypeInv, TypeOK, Phase
  <2> HIDE DEF j
  <2> QED BY <2>1, <2>2, <2>3, <1>4, MoveType
<1>5. /\ receipts' \in [Events -> Receipt]
      /\ pc' \in [Workers -> Phase] /\ job' \in [Workers -> JobType]
      /\ \A v \in Workers : Sound(pc[v], job[v])'
  <2>1. CASE /\ \/ p.topic = "other"
                \/ p.topic = "products/update" /\ InStock = {}
             /\ job' = [job EXCEPT ![w].plan = NoopPlan] /\ Goto(w, "save")
             /\ UNCHANGED receipts
    BY <2>1, <1>4, NoPlanType DEF TypeInv, TypeOK
  <2>2. CASE /\ p.topic = "products/update"
             /\ job' = [job EXCEPT ![w].plan = import] /\ Goto(w, "project")
             /\ UNCHANGED receipts
    BY <2>2, <1>2, <1>4 DEF TypeInv, TypeOK
  <2>3. CASE /\ p.topic = "inventory_levels/update"
             /\ job' = [job EXCEPT ![w].plan = stock] /\ Goto(w, "project")
             /\ UNCHANGED receipts
    BY <2>3, <1>3, <1>4 DEF TypeInv, TypeOK
  <2>4. CASE Quarantine(w, "unknown_inventory_item")
    BY <2>4, <1>1, QuarantineType DEF Reason
  <2> QED BY <2>1, <2>2, <2>3, <2>4 DEF ReadStock
<1> QED BY <1>5 DEF ReadStock, TypeInv, TypeOK, remote, merchant, catalog

LEMMA ReadProjectionType ==
  ASSUME TypeInv, NEW w \in Workers, ReadProjection(w)
  PROVE  TypeInv'
<1> DEFINE plan == job[w].plan
           request == StoredAdjust(job[w].event, job[w].payload, plan)
<1>1. /\ pc[w] = "project" /\ job[w] \in JobType /\ plan \in Plan
      /\ job[w].event \in Events /\ job[w].payload \in Payload
      /\ plan.kind \in {"catalog", "stock"}
  BY DEF ReadProjection, TypeInv, TypeOK, Sound, JobType
<1>2. request \in Adjust \union {None}
  <2>1. Total(plan.variants) \in Nat
    BY <1>1, PlanFields, TotalType
  <2> QED BY <2>1, <1>1 DEF StoredAdjust, Delta, Adjust, TypeInv, TypeOK
<1>3. ASSUME NEW next \in Plan, job' = [job EXCEPT ![w].plan = next], Goto(w, "save")
      PROVE  /\ pc' \in [Workers -> Phase] /\ job' \in [Workers -> JobType]
             /\ \A v \in Workers : Sound(pc[v], job[v])'
  <2> DEFINE j == [job[w] EXCEPT !.plan = next]
  <2>1. j \in JobType /\ Sound("save", j)
    BY <1>1, <1>3 DEF JobType, Sound
  <2>2. job' = [job EXCEPT ![w] = j] /\ "save" \in Phase
    BY <1>3 DEF TypeInv, TypeOK, Phase
  <2> HIDE DEF j
  <2> QED BY <2>1, <2>2, <1>3, MoveType
<1>4. /\ receipts' \in [Events -> Receipt]
      /\ pc' \in [Workers -> Phase] /\ job' \in [Workers -> JobType]
      /\ \A v \in Workers : Sound(pc[v], job[v])'
  <2>1. CASE /\ job' = [job EXCEPT ![w].plan = [plan EXCEPT !.adjust = request]]
             /\ Goto(w, "save") /\ UNCHANGED receipts
    <3>1. [plan EXCEPT !.adjust = request] \in Plan
      BY <1>1, <1>2, PlanUpdate
    <3> QED BY <2>1, <3>1, <1>3 DEF TypeInv, TypeOK
  <2>2. CASE /\ job' = [job EXCEPT ![w].plan = plan]
             /\ Goto(w, "save") /\ UNCHANGED receipts
    BY <2>2, <1>1, <1>3 DEF TypeInv, TypeOK
  <2>3. CASE /\ job' = [job EXCEPT ![w].plan = NoopPlan]
             /\ Goto(w, "save") /\ UNCHANGED receipts
    BY <2>3, NoPlanType, <1>3 DEF TypeInv, TypeOK
  <2>4. CASE \/ Quarantine(w, "projection_missing")
             \/ Quarantine(w, "delta_out_of_range")
    BY <2>4, <1>1, QuarantineType DEF Reason
  <2> QED BY <2>1, <2>2, <2>3, <2>4 DEF ReadProjection
<1> QED BY <1>4 DEF ReadProjection, TypeInv, TypeOK, remote, merchant, catalog

LEMMA SavePlanType ==
  ASSUME TypeInv, NEW w \in Workers, SavePlan(w)
  PROVE  TypeInv'
<1> DEFINE e == job[w].event
           j == [job[w] EXCEPT !.state = "effect-planned"]
<1>1. /\ pc[w] = "save" /\ job[w] \in JobType /\ job[w].plan \in Plan
      /\ e \in Events /\ job[w].payload \in Payload
  BY DEF SavePlan, TypeInv, TypeOK, Sound, JobType
<1>2. CASE MaySavePlan(w)
  <2>1. [receipts[e] EXCEPT !.state = "effect-planned", !.plan = job[w].plan] \in Receipt
    BY <1>1, ReceiptUpdate, NoPlanType DEF TypeInv, TypeOK, ReceiptState, Reason
  <2>2. receipts' \in [Events -> Receipt]
    BY <1>1, <1>2, <2>1 DEF SavePlan, TypeInv, TypeOK
  <2>3. j \in JobType /\ Sound("execute", j)
    BY <1>1 DEF JobType, ReceiptState, Sound
  <2>4. job' = [job EXCEPT ![w] = j] /\ Goto(w, "execute") /\ "execute" \in Phase
    BY <1>2 DEF SavePlan, Phase, TypeInv, TypeOK
  <2>5. /\ pc' \in [Workers -> Phase] /\ job' \in [Workers -> JobType]
        /\ \A v \in Workers : Sound(pc[v], job[v])'
    <3> HIDE DEF j
    <3> QED BY <2>3, <2>4, MoveType
  <2> QED BY <2>2, <2>5 DEF SavePlan, TypeInv, TypeOK, remote, merchant, catalog
<1>3. CASE ~MaySavePlan(w)
  BY <1>3, LeaveType DEF SavePlan, TypeInv, TypeOK, remote, merchant, catalog
<1> QED BY <1>2, <1>3

LEMMA CheckFingerprintType ==
  ASSUME TypeInv, NEW w \in Workers, CheckFingerprint(w)
  PROVE  TypeInv'
<1>1. pc[w] = "execute" /\ Sound("execute", job[w]) /\ {"mark", "covers"} \subseteq Phase
  BY DEF CheckFingerprint, TypeInv, Sound, Phase
<1>2. CASE Goto(w, "mark") /\ UNCHANGED <<receipts, job>>
  <2>1. Sound("mark", job[w])
    BY <1>1 DEF Sound
  <2> QED BY <1>1, <1>2, <2>1, GotoType DEF CheckFingerprint, TypeInv, TypeOK, remote, merchant, catalog
<1>3. CASE Quarantine(w, "catalog_changed")
  BY <1>1, <1>3, QuarantineType
     DEF CheckFingerprint, TypeInv, TypeOK, remote, merchant, catalog, Reason
<1>4. CASE job[w].plan.kind = "catalog" /\ Goto(w, "covers") /\ UNCHANGED <<receipts, job>>
  <2>1. Sound("covers", job[w])
    BY <1>1, <1>4 DEF Sound
  <2> QED BY <1>1, <1>4, <2>1, GotoType DEF CheckFingerprint, TypeInv, TypeOK, remote, merchant, catalog
<1> QED BY <1>2, <1>3, <1>4 DEF CheckFingerprint

LEMMA CheckCoversType ==
  ASSUME TypeInv, NEW w \in Workers, CheckCovers(w)
  PROVE  TypeInv'
<1>1. \A phase \in {"complete", "recommit"} : Sound(phase, job[w]) /\ phase \in Phase
  BY DEF CheckCovers, TypeInv, Sound, Phase
<1> QED BY <1>1, GotoType DEF CheckCovers, TypeInv, TypeOK, remote, merchant, bridge, catalog

LEMMA StockPhaseSound ==
  ASSUME NEW j \in JobType, NEW phase \in Phase, Sound(phase, j), phase # "idle",
         j.plan.kind \in {"catalog", "stock"}
  PROVE  StockPhase(j.plan) \in Phase /\ Sound(StockPhase(j.plan), j)
BY DEF StockPhase, Sound, Phase

LEMMA RemotePhaseSound ==
  ASSUME NEW j \in JobType, NEW phase \in Phase, Sound(phase, j), phase # "idle"
  PROVE  RemotePhase(j.plan) \in Phase /\ Sound(RemotePhase(j.plan), j)
BY StockPhaseSound DEF RemotePhase, Sound, Phase

LEMMA MarkSentType ==
  ASSUME TypeInv, NEW w \in Workers, MarkSent(w)
  PROVE  TypeInv'
<1> DEFINE e == job[w].event
           j == [job[w] EXCEPT !.state = "effect-sent"]
           phase == RemotePhase(job[w].plan)
<1>1. /\ pc[w] = "mark" /\ job[w] \in JobType /\ Sound("mark", job[w])
      /\ e \in Events /\ "mark" \in Phase
  BY DEF MarkSent, TypeInv, TypeOK, Sound, Phase
<1>2. phase \in Phase /\ Sound(phase, job[w])
  BY <1>1, RemotePhaseSound
<1>3. CASE Goto(w, phase) /\ UNCHANGED <<receipts, job>>
  <2> HIDE DEF phase
  <2> QED BY <1>2, <1>3, GotoType DEF MarkSent, TypeInv, TypeOK, remote, merchant, catalog
<1>4. CASE /\ receipts' = [receipts EXCEPT ![e].state = "effect-sent"]
           /\ job' = [job EXCEPT ![w].state = "effect-sent"]
           /\ Goto(w, phase)
  <2>1. [receipts[e] EXCEPT !.state = "effect-sent"] \in Receipt
    BY <1>1, ReceiptUpdate, NoPlanType DEF TypeInv, TypeOK, ReceiptState, Reason
  <2>2. receipts' \in [Events -> Receipt]
    BY <1>1, <1>4, <2>1 DEF TypeInv, TypeOK
  <2>3. j \in JobType /\ Sound(phase, j)
    <3> HIDE DEF phase
    <3> QED BY <1>1, <1>2 DEF JobType, ReceiptState, Sound
  <2>4. job' = [job EXCEPT ![w] = j]
    BY <1>4 DEF TypeInv, TypeOK
  <2>5. /\ pc' \in [Workers -> Phase] /\ job' \in [Workers -> JobType]
        /\ \A v \in Workers : Sound(pc[v], job[v])'
    <3> HIDE DEF j, phase
    <3> QED BY <1>2, <1>4, <2>3, <2>4, MoveType
  <2> QED BY <2>2, <2>5 DEF MarkSent, TypeInv, TypeOK, remote, merchant, catalog
<1>5. CASE Leave(w) /\ UNCHANGED receipts
  BY <1>5, LeaveType DEF MarkSent, TypeInv, TypeOK, remote, merchant, catalog
<1> QED BY <1>3, <1>4, <1>5 DEF MarkSent

LEMMA PutRecordType ==
  ASSUME TypeInv, NEW w \in Workers, PutRecord(w)
  PROVE  TypeInv'
<1>1. /\ pc[w] = "put" /\ job[w] \in JobType /\ job[w].plan \in Plan
      /\ job[w].plan.kind = "catalog" /\ Sound("put", job[w])
  BY DEF PutRecord, TypeInv, TypeOK, Sound, JobType
<1>2. record' \in [fp : Fingerprint, variants : Variants]
  BY <1>1, PlanFields DEF PutRecord
<1>3. Sound("sync", job[w]) /\ "sync" \in Phase
  BY <1>1 DEF Sound, Phase
<1>4. /\ pc' \in [Workers -> Phase] /\ job' \in [Workers -> JobType]
      /\ \A v \in Workers : Sound(pc[v], job[v])'
      /\ used' \in UsedType
  BY <1>3, AnsweredType DEF PutRecord
<1> QED BY <1>2, <1>4 DEF PutRecord, TypeInv, TypeOK, UsedType, bridge, catalog, merchant

LEMMA SyncManyType ==
  ASSUME TypeInv, NEW w \in Workers, SyncMany(w)
  PROVE  TypeInv'
<1>1. /\ pc[w] = "sync" /\ job[w] \in JobType /\ Sound("sync", job[w])
      /\ job[w].plan.kind = "catalog" /\ "sync" \in Phase
  BY DEF SyncMany, TypeInv, TypeOK, Sound, Phase
<1>2. StockPhase(job[w].plan) \in Phase /\ Sound(StockPhase(job[w].plan), job[w])
  BY <1>1, StockPhaseSound
<1>3. CASE /\ listed' = TRUE
           /\ IF listed \/ record = None THEN UNCHANGED <<available, revision>>
              ELSE available' = Total(record.variants) /\ revision' = revision + 1
           /\ Answered(w, StockPhase(job[w].plan))
           /\ UNCHANGED receipts
  <2>1. available' \in Int /\ revision' \in Nat
    BY <1>3, TotalType DEF TypeInv, TypeOK
  <2>2. /\ pc' \in [Workers -> Phase] /\ job' \in [Workers -> JobType]
        /\ \A v \in Workers : Sound(pc[v], job[v])'
        /\ used' \in UsedType
    BY <1>2, <1>3, AnsweredType
  <2> QED BY <2>1, <2>2, <1>3 DEF SyncMany, catalog, merchant, TypeInv, TypeOK, UsedType
<1>4. CASE /\ Quarantine(w, "sync_item_rejected")
           /\ Spend("faults", MaxFaults)
           /\ UNCHANGED <<listed, available, revision>>
  <2>1. used' \in UsedType
    BY <1>4, SpendType DEF TypeInv
  <2> QED BY <1>1, <1>4, <2>1, QuarantineType
             DEF SyncMany, catalog, merchant, TypeInv, TypeOK, UsedType, Reason
<1> QED BY <1>3, <1>4 DEF SyncMany

LEMMA SendAdjustType ==
  ASSUME TypeInv, NEW w \in Workers, SendAdjust(w)
  PROVE  TypeInv'
<1> DEFINE request == Request(w)
<1>1. /\ pc[w] = "adjust" /\ job[w] \in JobType /\ Sound("adjust", job[w])
      /\ job[w].plan \in Plan /\ job[w].plan.adjust # None
  BY DEF SendAdjust, TypeInv, TypeOK, Sound, JobType
<1>2. request \in Adjust
  BY <1>1, PlanFields DEF Request
<1>3. job[w].plan.kind \in {"catalog", "stock"}
  BY <1>1 DEF Plan
<1>4. Sound("commit", job[w]) /\ "commit" \in Phase
  BY <1>1, <1>3 DEF Sound, Phase
<1>5. CASE Answered(w, "commit") /\ UNCHANGED <<receipts, available, revision, ledger>>
  BY <1>4, <1>5, AnsweredType DEF SendAdjust, catalog, merchant, TypeInv, TypeOK, UsedType
<1>6. CASE /\ available' = available + request.delta
           /\ revision' = revision + 1
           /\ ledger' = ledger \union {request}
           /\ Answered(w, "commit") /\ UNCHANGED receipts
  <2>1. available' \in Int /\ revision' \in Nat /\ ledger' \subseteq Adjust
    BY <1>2, <1>6 DEF Adjust, TypeInv, TypeOK
  <2> QED BY <2>1, <1>4, <1>6, AnsweredType DEF SendAdjust, catalog, merchant, TypeInv, TypeOK, UsedType
<1>7. CASE /\ \/ Quarantine(w, "revision_conflict")
              \/ Quarantine(w, "idempotency_conflict")
           /\ UNCHANGED <<available, revision, ledger, used>>
  <2>1. /\ receipts' \in [Events -> Receipt]
        /\ pc' \in [Workers -> Phase] /\ job' \in [Workers -> JobType]
        /\ \A v \in Workers : Sound(pc[v], job[v])'
    BY <1>1, <1>7, QuarantineType DEF Reason
  <2> QED BY <2>1, <1>7 DEF SendAdjust, catalog, merchant, TypeInv, TypeOK
<1>8. CASE Leave(w) /\ UNCHANGED <<receipts, available, revision, ledger, used>>
  BY <1>8, LeaveType DEF SendAdjust, catalog, merchant, TypeInv, TypeOK
<1> QED BY <1>5, <1>6, <1>7, <1>8 DEF SendAdjust

LEMMA CommitCatalogType ==
  ASSUME TypeInv, NEW w \in Workers, CommitCatalog(w)
  PROVE  TypeInv'
<1>1. /\ pc[w] \in {"commit", "recommit"} /\ Sound(pc[w], job[w])
      /\ job[w].plan \in Plan
  BY DEF CommitCatalog, TypeInv, TypeOK, JobType
<1>2. catalogFp' \in Fingerprint \union {None} /\ entries' \in Variants
  BY <1>1, PlanFields DEF CommitCatalog, CommitListing, ReplaceListing, TypeInv, TypeOK
<1>3. Sound("persist", job[w]) /\ "persist" \in Phase
  BY <1>1 DEF Sound, Phase
<1> QED BY <1>2, <1>3, GotoType DEF CommitCatalog, TypeInv, TypeOK, remote, merchant

LEMMA CatalogUnreadableType ==
  ASSUME TypeInv, NEW w \in Workers, CatalogUnreadable(w)
  PROVE  TypeInv'
BY LeaveType DEF CatalogUnreadable, TypeInv, TypeOK, bridge, catalog, remote, merchant

(* The texts of the catalog that a file holds or a save is about to write. *)
Texts == saved \union temp.texts \union UNION {saves[w].text : w \in Workers}

(* Saving makes no text but that of the maps.                              *)
LEMMA TextOrigin ==
  ASSUME TypeInv, NEW w \in Workers, PersistCatalog(w)
  PROVE  Texts' \subseteq Texts \union {[fp |-> catalogFp, entries |-> entries]}
<1>1. /\ temp \in TempFile /\ saves \in [Workers -> Save]
  BY DEF TypeInv, TypeOK
<1>2. CASE SnapshotCatalog(w)
  <2>1. \A v \in Workers :
          saves'[v].text \subseteq saves[v].text
                                   \union {[fp |-> catalogFp, entries |-> entries]}
    BY <1>1, <1>2 DEF SnapshotCatalog, Save
  <2> QED BY <1>2, <2>1 DEF SnapshotCatalog, Texts
<1>3. CASE OpenTemp(w)
  <2>1. \A v \in Workers : saves'[v].text = saves[v].text
    BY <1>1, <1>3 DEF OpenTemp, Save
  <2>2. temp'.texts = {} /\ saved' = saved
    BY <1>3 DEF OpenTemp
  <2> QED BY <2>1, <2>2 DEF Texts
<1>4. CASE WriteTemp(w)
  <2>1. \A v \in Workers : saves'[v].text \subseteq saves[v].text
    BY <1>1, <1>4 DEF WriteTemp, Save
  <2>2. temp'.texts \subseteq temp.texts \union saves[w].text
    BY <1>1, <1>4 DEF WriteTemp, TempFile, Overwrites
  <2>3. saved' \subseteq saved \union saves[w].text
    BY <1>4 DEF WriteTemp, Overwrites
  <2> QED BY <2>1, <2>2, <2>3 DEF Texts
<1>5. CASE RenameTemp(w)
  <2>1. \A v \in Workers : saves'[v].text \subseteq saves[v].text
    BY <1>1, <1>5 DEF RenameTemp, Save, NoSave
  <2>2. temp'.texts \subseteq temp.texts /\ saved' \subseteq saved \union temp.texts
    BY <1>5 DEF RenameTemp, NoTemp
  <2> QED BY <2>1, <2>2 DEF Texts
<1> QED BY <1>2, <1>3, <1>4, <1>5 DEF PersistCatalog

LEMMA PersistCatalogType ==
  ASSUME TypeInv, NEW w \in Workers, PersistCatalog(w)
  PROVE  TypeInv'
<1>1. /\ Sound(pc[w], job[w]) /\ saves[w] \in Save /\ temp \in TempFile
      /\ saved \subseteq CatalogText /\ saves \in [Workers -> Save]
      /\ [fp |-> catalogFp, entries |-> entries] \in CatalogText
  BY DEF TypeInv, TypeOK, CatalogText
<1>2. ASSUME NEW phase \in {"open", "write", "rename", "complete"}, pc[w] # "idle"
      PROVE  Sound(phase, job[w]) /\ phase \in Phase
  BY <1>1, <1>2 DEF Sound, Phase
<1>3. CASE SnapshotCatalog(w)
  <2>1. saves' \in [Workers -> Save]
    BY <1>1, <1>3 DEF SnapshotCatalog, Save
  <2> QED BY <1>2, <1>3, <2>1, GotoType
          DEF SnapshotCatalog, TypeInv, TypeOK, remote, merchant
<1>4. CASE OpenTemp(w)
  <2>1. saves' \in [Workers -> Save] /\ temp' \in TempFile
    BY <1>1, <1>4 DEF OpenTemp, Save, TempFile
  <2> QED BY <1>2, <1>4, <2>1, GotoType
          DEF OpenTemp, TypeInv, TypeOK, remote, merchant
<1>5. CASE WriteTemp(w)
  <2>1. saves' \in [Workers -> Save]
    BY <1>1, <1>5 DEF WriteTemp, Save
  <2>2. saves[w].text \subseteq CatalogText /\ temp.texts \subseteq CatalogText
    BY <1>1 DEF Save, TempFile
  <2>3. temp' \in TempFile /\ saved' \subseteq CatalogText
    BY <1>1, <1>5, <2>2 DEF WriteTemp, TempFile, Overwrites
  <2> QED BY <1>2, <1>5, <2>1, <2>3, GotoType
          DEF WriteTemp, TypeInv, TypeOK, remote, merchant
<1>6. CASE RenameTemp(w)
  <2>1. \A v \in Workers : [saves[v] EXCEPT !.file = Renamed(@)] \in Save
    BY <1>1 DEF Save, Renamed
  <2>2. saves' \in [Workers -> Save]
    BY <1>1, <1>6, <2>1, NoFileType DEF RenameTemp
  <2>3. temp' \in TempFile /\ saved' \subseteq CatalogText
    BY <1>1, <1>6, NoFileType DEF RenameTemp, TempFile
  <2> QED BY <1>2, <1>6, <2>2, <2>3, GotoType, LeaveType
          DEF RenameTemp, TypeInv, TypeOK, remote, merchant
<1> QED BY <1>3, <1>4, <1>5, <1>6 DEF PersistCatalog

LEMMA MarkCompleteType ==
  ASSUME TypeInv, NEW w \in Workers, MarkComplete(w)
  PROVE  TypeInv'
<1> DEFINE e == job[w].event
<1>1. pc[w] = "complete" /\ Sound("complete", job[w]) /\ e \in Events
  BY DEF MarkComplete, TypeInv, Sound
<1>2. CASE /\ receipts' = [receipts EXCEPT ![e].state = "effect-complete"]
           /\ Goto(w, "checkpoint") /\ UNCHANGED job
  <2>1. [receipts[e] EXCEPT !.state = "effect-complete"] \in Receipt
    BY <1>1, ReceiptUpdate, NoPlanType DEF TypeInv, TypeOK, ReceiptState, Reason
  <2>2. receipts' \in [Events -> Receipt]
    BY <1>1, <1>2, <2>1 DEF TypeInv, TypeOK
  <2>3. Sound("checkpoint", job[w]) /\ "checkpoint" \in Phase
    BY <1>1 DEF Sound, Phase
  <2> QED BY <1>2, <2>2, <2>3, GotoType DEF MarkComplete, TypeInv, TypeOK, remote, merchant, catalog
<1>3. CASE Leave(w) /\ UNCHANGED receipts
  BY <1>3, LeaveType DEF MarkComplete, TypeInv, TypeOK, remote, merchant, catalog
<1> QED BY <1>2, <1>3 DEF MarkComplete

LEMMA CheckpointType ==
  ASSUME TypeInv, NEW w \in Workers, Checkpoint(w)
  PROVE  TypeInv'
<1> DEFINE e == job[w].event
<1>1. pc[w] = "checkpoint" /\ e \in Events
  BY DEF Checkpoint, TypeInv, Sound
<1>2. [receipts[e] EXCEPT !.state = "checkpointed"] \in Receipt
  BY <1>1, ReceiptUpdate, NoPlanType DEF TypeInv, TypeOK, ReceiptState, Reason
<1>3. receipts' \in [Events -> Receipt]
  BY <1>1, <1>2 DEF Checkpoint, TypeInv, TypeOK
<1> QED BY <1>3, LeaveType DEF Checkpoint, TypeInv, TypeOK, remote, merchant, catalog

LEMMA FailType ==
  ASSUME TypeInv, NEW w \in Workers, Fail(w)
  PROVE  TypeInv'
<1>1. used' \in UsedType
  BY SpendType DEF Fail, TypeInv
<1>2. saves' \in [Workers -> Save]
  BY NoFileType DEF Fail, TypeInv, TypeOK
<1> QED BY <1>1, <1>2, LeaveType DEF Fail, TypeInv, TypeOK, bridge, catalog, remote, merchant, UsedType

LEMMA CrashAfterFingerprintType ==
  ASSUME TypeInv, NEW w \in Workers, CrashAfterFingerprint(w)
  PROVE  TypeInv'
<1>1. {[fp |-> job[w].plan.fp, entries |-> entries]} \subseteq CatalogText
  BY PlanFields DEF CrashAfterFingerprint, TypeInv, TypeOK, JobType, CatalogText
<1> QED BY <1>1, StopType DEF CrashAfterFingerprint

LEMMA CrashType ==
  ASSUME TypeInv, Crash
  PROVE  TypeInv'
<1>1. saved \subseteq CatalogText
  BY DEF TypeInv, TypeOK
<1> QED BY <1>1, StopType DEF Crash

LEMMA ReleaseQuarantineType ==
  ASSUME TypeInv, NEW e \in Events, ReleaseQuarantine(e)
  PROVE  TypeInv'
<1>1. used' \in UsedType
  BY SpendType DEF ReleaseQuarantine, TypeInv
<1>2. receipts' \in [Events -> Receipt]
  BY NoJobType DEF ReleaseQuarantine, TypeInv, TypeOK
<1> QED BY <1>1, <1>2, StayType DEF ReleaseQuarantine, TypeInv, TypeOK, remote, merchant, catalog, UsedType

LEMMA GetLateType ==
  ASSUME TypeInv, NEW e \in Events, GetLate(e)
  PROVE  TypeInv'
<1>1. used' \in UsedType
  BY SpendType DEF GetLate, TypeInv
<1> QED BY <1>1, StayType DEF GetLate, TypeInv, TypeOK, bridge, catalog, remote, UsedType

LEMMA MoveShopifyType ==
  ASSUME TypeInv, NEW i \in Items, NEW q \in Qty, MoveShopify(i, q)
  PROVE  TypeInv'
<1>1. used' \in UsedType
  BY SpendType DEF MoveShopify, TypeInv
<1> QED BY <1>1, StayType DEF MoveShopify, TypeInv, TypeOK, bridge, catalog, remote, merchant, UsedType

LEMMA MoveServiceType ==
  ASSUME TypeInv, NEW q \in Qty, MoveService(q)
  PROVE  TypeInv'
<1>1. used' \in UsedType
  BY SpendType DEF MoveService, GetLate, TypeInv
<1>2. available' \in Int /\ revision' \in Nat
  BY InboundAssumption DEF MoveService, GetLate, TypeInv, TypeOK
<1> QED BY <1>1, <1>2, StayType DEF MoveService, GetLate, TypeInv, TypeOK, bridge, catalog, merchant, UsedType

LEMMA DelistType ==
  ASSUME TypeInv, Delist
  PROVE  TypeInv'
<1>1. used' \in UsedType
  BY SpendType DEF Delist, TypeInv
<1> QED BY <1>1, StayType DEF Delist, TypeInv, TypeOK, bridge, catalog, merchant, UsedType

LEMMA StutterType ==
  ASSUME TypeInv, UNCHANGED vars
  PROVE  TypeInv'
BY StayType DEF vars, bridge, catalog, remote, merchant, TypeInv, TypeOK

(* Every step keeps the type invariant: the lemmas above, one for each     *)
(* action.                                                                 *)
LEMMA TypeInvStep == TypeInv /\ [Next]_vars => TypeInv'
<1> SUFFICES ASSUME TypeInv, [Next]_vars PROVE TypeInv'
  OBVIOUS
<1>1. ASSUME NEW w \in Workers, Call(w) PROVE TypeInv'
  BY <1>1, ReadStockType, ReadProjectionType, SavePlanType, CheckFingerprintType,
     CheckCoversType, MarkSentType, PutRecordType, SyncManyType, SendAdjustType, CommitCatalogType,
     PersistCatalogType, CatalogUnreadableType, MarkCompleteType, CheckpointType DEF Call
<1>2. ASSUME NEW w \in Workers, Fail(w) PROVE TypeInv'
  BY <1>2, FailType
<1>3. ASSUME NEW w \in Workers, CrashAfterFingerprint(w) PROVE TypeInv'
  BY <1>3, CrashAfterFingerprintType
<1>4. ASSUME NEW w \in Workers, NEW d \in Deliveries, Deliver(w, d) PROVE TypeInv'
  BY <1>4, DeliverType
<1>5. CASE Crash
  BY <1>5, CrashType
<1>6. ASSUME NEW e \in Events, ReleaseQuarantine(e) PROVE TypeInv'
  BY <1>6, ReleaseQuarantineType
<1>7. ASSUME NEW i \in Items, NEW q \in Qty, MoveShopify(i, q) PROVE TypeInv'
  BY <1>7, MoveShopifyType
<1>8. ASSUME NEW q \in Qty, MoveService(q) PROVE TypeInv'
  BY <1>8, MoveServiceType
<1>9. CASE Delist
  BY <1>9, DelistType
<1>10. CASE UNCHANGED vars
  BY <1>10, StutterType
<1>11. ASSUME NEW e \in Events, GetLate(e) PROVE TypeInv'
  BY <1>11, GetLateType
<1> QED BY <1>1, <1>2, <1>3, <1>4, <1>5, <1>6, <1>7, <1>8, <1>9, <1>10, <1>11 DEF Next

(* Every reachable state is well typed, and every call in flight has a job *)
(* that fits its phase.                                                    *)
THEOREM TypeInvHolds == Spec => []TypeInv
BY InitType, TypeInvStep, PTL DEF Spec

(* Every variable keeps its type, whatever the interleaving: in particular *)
(* no call reaches a PUT without a listing record or an adjust without a   *)
(* stored request.                                                         *)
THEOREM TypeCorrect == Spec => []TypeOK
<1>1. TypeInv => TypeOK
  BY DEF TypeInv
<1> QED BY <1>1, TypeInvHolds, PTL

(***************************************************************************)
(* A completed receipt's effect has happened.                              *)
(*                                                                         *)
(* CompleteMeansApplied speaks of receipts; the step that could break it,  *)
(* markComplete, looks only at a receipt's state.  The induction therefore *)
(* carries what ties the two together: a call that executes a plan holds   *)
(* the plan of its receipt (Holds), by the phase it has reached the plan's *)
(* effect has happened (Reached), and a fingerprint in the catalog, in     *)
(* memory or in the file, is one of a published listing (Known).  Holds    *)
(* needs the operator to release nothing that a call is working on.        *)
(***************************************************************************)
Executing ==
  {"execute", "covers", "recommit", "mark", "put", "sync", "adjust", "commit",
   "persist", "open", "write", "rename", "complete", "checkpoint"}

Holds ==
  \A w \in Workers : pc[w] \in Executing =>
    LET r == receipts[job[w].event] IN
    r.state \notin {"absent", "received"} /\ r.plan = job[w].plan

(* The phases past a plan's effect.                                        *)
Past == {"covers", "recommit", "commit", "persist", "open", "write", "rename", "complete"}

ReachedBy(phase, plan) ==
  /\ phase \in Past => Effected(plan)
  /\ phase = "sync" => record # None
  /\ phase = "adjust" /\ plan.kind = "catalog" => Published

Reached == \A w \in Workers : ReachedBy(pc[w], job[w].plan)

Known ==
  /\ catalogFp # None => Published
  /\ \A text \in Texts : text.fp # None => Published
  /\ listed => revision > 0

Inv ==
  /\ TypeInv
  /\ Holds
  /\ Reached
  /\ Known
  /\ CompleteMeansApplied

(* Effects are not undone.                                                 *)
LEMMA EffectsStay ==
  ASSUME TypeInv, [Next]_vars
  PROVE  /\ ledger \subseteq ledger'
         /\ record # None => record' # None
         /\ Published => Published'
<1>1. ASSUME NEW w \in Workers, pc[w] = "put", PutRecord(w)
      PROVE  record' # None
  <2>1. job[w].plan \in Plan /\ job[w].plan.kind = "catalog"
    BY <1>1 DEF TypeInv, TypeOK, JobType, Sound
  <2>2. record' \in [fp : Fingerprint, variants : Variants]
    BY <1>1, <2>1, PlanFields DEF PutRecord
  <2> QED BY <2>2, InboundAssumption
<1>2. ledger \subseteq ledger'
  BY DEF Next, Call, vars, bridge, remote, ReadStock, ReadProjection, SavePlan,
     CheckFingerprint, CheckCovers, MarkSent, PutRecord, SyncMany, SendAdjust,
     CommitCatalog, PersistCatalog, SnapshotCatalog, OpenTemp, WriteTemp,
     RenameTemp, CatalogUnreadable, MarkComplete, Checkpoint, Fail,
     CrashAfterFingerprint, Deliver, Crash, ReleaseQuarantine, MoveShopify,
     MoveService, GetLate, Delist
<1>3. record # None => record' # None
  BY <1>1 DEF Next, Call, vars, bridge, remote, ReadStock, ReadProjection, SavePlan,
     CheckFingerprint, CheckCovers, MarkSent, PutRecord, SyncMany, SendAdjust,
     CommitCatalog, PersistCatalog, SnapshotCatalog, OpenTemp, WriteTemp,
     RenameTemp, CatalogUnreadable, MarkComplete, Checkpoint, Fail,
     CrashAfterFingerprint, Deliver, Crash, ReleaseQuarantine, MoveShopify,
     MoveService, GetLate, Delist
<1>4. revision' = revision \/ revision' = revision + 1
  BY DEF Next, Call, vars, bridge, remote, ReadStock, ReadProjection, SavePlan,
     CheckFingerprint, CheckCovers, MarkSent, PutRecord, SyncMany, SendAdjust,
     CommitCatalog, PersistCatalog, SnapshotCatalog, OpenTemp, WriteTemp,
     RenameTemp, CatalogUnreadable, MarkComplete, Checkpoint, Fail,
     CrashAfterFingerprint, Deliver, Crash, ReleaseQuarantine, MoveShopify,
     MoveService, GetLate, Delist
<1>5. revision > 0 => revision' > 0
  BY <1>4 DEF TypeInv, TypeOK
<1> QED BY <1>2, <1>3, <1>5 DEF Published

(* And so the effect of a plan is never undone.                            *)
LEMMA EffectedStays ==
  ASSUME TypeInv, [Next]_vars, NEW plan, Effected(plan)
  PROVE  /\ plan.kind = "stock" => plan.adjust \in ledger' \union {None}
         /\ plan.kind = "catalog" => Published'
BY EffectsStay DEF Effected

(* A step of one call leaves the others where they are.                    *)
LEMMA OthersWait ==
  ASSUME TypeInv, NEW w \in Workers, NEW v \in Workers, v # w,
         \/ Call(w) \/ Fail(w) \/ \E d \in Deliveries : Deliver(w, d)
  PROVE  pc'[v] = pc[v] /\ job'[v] = job[v]
BY DEF TypeInv, TypeOK, Call, ReadStock, ReadProjection, SavePlan,
     CheckFingerprint, CheckCovers, MarkSent, PutRecord, SyncMany, SendAdjust,
     CommitCatalog, PersistCatalog, SnapshotCatalog, OpenTemp, WriteTemp,
     RenameTemp, CatalogUnreadable, MarkComplete, Checkpoint, Fail, Deliver, Goto, Leave, Answered, Quarantine

(* A call that executes goes on with its event and plan, or has ended.     *)
LEMMA PlanKept ==
  ASSUME TypeInv, NEW w \in Workers, Call(w), ~SavePlan(w), pc'[w] \in Executing
  PROVE  /\ pc[w] \in Executing
         /\ job'[w].event = job[w].event /\ job'[w].plan = job[w].plan
<1>1. job[w] \in JobType
  BY DEF TypeInv, TypeOK
<1>2. CASE ReadStock(w)
  BY <1>2, <1>1 DEF TypeInv, TypeOK, ReadStock, Quarantine, Leave, Goto, Executing
<1>3. CASE ReadProjection(w)
  BY <1>3, <1>1 DEF TypeInv, TypeOK, ReadProjection, Quarantine, Leave, Goto, Executing
<1>4. CASE CheckFingerprint(w) \/ PutRecord(w) \/ SyncMany(w) \/ SendAdjust(w)
           \/ CheckCovers(w) \/ CommitCatalog(w) \/ PersistCatalog(w)
             \/ CatalogUnreadable(w)
  BY <1>4, <1>1 DEF TypeInv, TypeOK, CheckFingerprint, CheckCovers, PutRecord, SyncMany,
     SendAdjust, CommitCatalog, PersistCatalog, SnapshotCatalog, OpenTemp, WriteTemp,
     RenameTemp, CatalogUnreadable, Answered, Quarantine, Leave, Goto, Executing
<1>5. CASE MarkSent(w)
  BY <1>5, <1>1 DEF TypeInv, TypeOK, JobType, MarkSent, Leave, Goto, Executing
<1>6. CASE MarkComplete(w) \/ Checkpoint(w)
  BY <1>6, <1>1 DEF TypeInv, TypeOK, MarkComplete, Checkpoint, Leave, Goto, Executing
<1> QED BY <1>2, <1>3, <1>4, <1>5, <1>6 DEF Call

(* Once a receipt has a plan, only its release takes it away.              *)
Planned(r) == r.state \notin {"absent", "received"}

LEMMA QuarantineKeeps ==
  ASSUME TypeInv, NEW w \in Workers, NEW reason, Quarantine(w, reason),
         NEW e \in Events, Planned(receipts[e])
  PROVE  Planned(receipts'[e]) /\ receipts'[e].plan = receipts[e].plan
BY DEF TypeInv, TypeOK, Receipt, Quarantine, Planned

LEMMA PlannedStays ==
  ASSUME TypeInv, [Next]_vars, NEW e \in Events, Planned(receipts[e]),
         ~ReleaseQuarantine(e)
  PROVE  Planned(receipts'[e]) /\ receipts'[e].plan = receipts[e].plan
<1>1. receipts[e] \in Receipt
  BY DEF TypeInv, TypeOK
<1>2. ASSUME NEW w \in Workers, NEW d \in Deliveries, Deliver(w, d)
      PROVE  Planned(receipts'[e]) /\ receipts'[e].plan = receipts[e].plan
  BY <1>1, <1>2 DEF TypeInv, TypeOK, Deliver, Opened, Planned, Receipt
<1>3. ASSUME NEW w \in Workers, Call(w)
      PROVE  Planned(receipts'[e]) /\ receipts'[e].plan = receipts[e].plan
  <2>1. CASE ReadStock(w) \/ ReadProjection(w) \/ CheckFingerprint(w) \/ SyncMany(w)
             \/ SendAdjust(w)
    BY <2>1, QuarantineKeeps DEF ReadStock, ReadProjection, CheckFingerprint, SyncMany,
       SendAdjust, bridge
  <2>2. CASE SavePlan(w)
    BY <1>1, <2>2 DEF TypeInv, TypeOK, SavePlan, MaySavePlan, Planned
  <2>3. CASE MarkSent(w) \/ MarkComplete(w) \/ Checkpoint(w)
    BY <1>1, <2>3 DEF TypeInv, TypeOK, Receipt, MarkSent, MarkComplete, Checkpoint, Planned
  <2>4. CASE PutRecord(w) \/ CheckCovers(w) \/ CommitCatalog(w) \/ PersistCatalog(w)
             \/ CatalogUnreadable(w)
    BY <2>4 DEF PutRecord, CheckCovers, CommitCatalog, PersistCatalog, SnapshotCatalog, OpenTemp, WriteTemp,
     RenameTemp, CatalogUnreadable, bridge
  <2> QED BY <1>3, <2>1, <2>2, <2>3, <2>4 DEF Call
<1>4. ASSUME NEW f \in Events, ReleaseQuarantine(f)
      PROVE  Planned(receipts'[e]) /\ receipts'[e].plan = receipts[e].plan
  BY <1>4 DEF TypeInv, TypeOK, ReleaseQuarantine
<1>5. CASE \/ UNCHANGED vars \/ Crash \/ Delist
           \/ \E w \in Workers : Fail(w) \/ CrashAfterFingerprint(w)
           \/ \E i \in Items, q \in Qty : MoveShopify(i, q)
           \/ \E q \in Qty : MoveService(q)
           \/ \E f \in Events : GetLate(f)
  BY <1>5 DEF vars, bridge, Crash, Delist, Fail, CrashAfterFingerprint, MoveShopify,
     MoveService, GetLate
<1> QED BY <1>2, <1>3, <1>4, <1>5 DEF Next

(* How a call comes to execute a plan: it did so before, it saved the      *)
(* plan, or it opened a receipt that has one.                              *)
LEMMA PlanOrigin ==
  ASSUME TypeInv, [Next]_vars, NEW v \in Workers, pc'[v] \in Executing
  PROVE  \/ /\ pc[v] \in Executing
            /\ job'[v].event = job[v].event /\ job'[v].plan = job[v].plan
         \/ SavePlan(v) /\ MaySavePlan(v)
         \/ \E d \in Deliveries : Deliver(v, d)
<1> DEFINE Goal == \/ /\ pc[v] \in Executing
                      /\ job'[v].event = job[v].event /\ job'[v].plan = job[v].plan
                   \/ SavePlan(v) /\ MaySavePlan(v)
                   \/ \E d \in Deliveries : Deliver(v, d)
<1>1. ASSUME NEW w \in Workers,
             \/ Call(w) \/ Fail(w) \/ \E d \in Deliveries : Deliver(w, d)
      PROVE  Goal
  <2>1. CASE v # w
    BY <1>1, <2>1, OthersWait
  <2>2. CASE v = w /\ SavePlan(w)
    BY <2>2 DEF TypeInv, TypeOK, SavePlan, Leave, Goto, Executing
  <2>3. CASE v = w /\ Call(w) /\ ~SavePlan(w)
    BY <2>3, PlanKept
  <2>4. CASE v = w /\ Fail(w)
    BY <2>4 DEF TypeInv, TypeOK, Fail, Leave, Goto, Executing
  <2> QED BY <1>1, <2>1, <2>2, <2>3, <2>4
<1>2. CASE Crash \/ \E w \in Workers : CrashAfterFingerprint(w)
  BY <1>2 DEF Crash, CrashAfterFingerprint, Stop, Executing
<1>3. CASE \/ UNCHANGED vars \/ Delist
           \/ \E e \in Events : ReleaseQuarantine(e)
           \/ \E i \in Items, q \in Qty : MoveShopify(i, q)
           \/ \E q \in Qty : MoveService(q)
           \/ \E f \in Events : GetLate(f)
  BY <1>3 DEF vars, Delist, ReleaseQuarantine, MoveShopify, MoveService, GetLate
<1> QED BY <1>1, <1>2, <1>3 DEF Next

(* A call that executes keeps executing the plan of its receipt.           *)
LEMMA HoldsStep ==
  ASSUME QuietRelease, Inv, [Next]_vars
  PROVE  Holds'
<1>1. TypeInv /\ TypeInv'
  BY TypeInvStep DEF Inv
<1> SUFFICES ASSUME NEW v \in Workers, pc'[v] \in Executing
             PROVE  /\ Planned(receipts'[job'[v].event])
                    /\ receipts'[job'[v].event].plan = job'[v].plan
  BY DEF Holds, Planned
<1>2. CASE /\ pc[v] \in Executing
           /\ job'[v].event = job[v].event /\ job'[v].plan = job[v].plan
  <2>1. job[v].event \in Events
    BY <1>1, <1>2 DEF TypeInv, Sound, Executing
  <2>2. Planned(receipts[job[v].event]) /\ receipts[job[v].event].plan = job[v].plan
    BY <1>2 DEF Inv, Holds, Planned
  <2>3. ~ReleaseQuarantine(job[v].event)
    BY DEF ReleaseQuarantine
  <2> QED BY <1>1, <1>2, <2>1, <2>2, <2>3, PlannedStays
<1>3. CASE SavePlan(v) /\ MaySavePlan(v)
  <2>1. job[v].event \in Events /\ job[v] \in JobType
    BY <1>1, <1>3 DEF SavePlan, TypeInv, TypeOK, Sound
  <2>2. job'[v].event = job[v].event /\ job'[v].plan = job[v].plan
    BY <1>1, <1>3, <2>1 DEF SavePlan, TypeInv, TypeOK, JobType
  <2>3. receipts'[job[v].event] =
          [receipts[job[v].event] EXCEPT !.state = "effect-planned", !.plan = job[v].plan]
    BY <1>1, <1>3, <2>1 DEF SavePlan, TypeInv, TypeOK
  <2> QED BY <1>1, <2>1, <2>2, <2>3 DEF TypeInv, TypeOK, Receipt, Planned
<1>4. ASSUME NEW d \in Deliveries, Deliver(v, d)
      PROVE  /\ Planned(receipts'[job'[v].event])
             /\ receipts'[job'[v].event].plan = job'[v].plan
  <2> DEFINE r == Opened(d.event, d.payload)
  <2>1. d.event \in Events /\ r \in Receipt
    BY <1>1, InboundAssumption, OpenedType DEF TypeInv
  <2>2. receipts'[d.event] = r /\ pc'[v] = ResumeAt(r.state)
    BY <1>1, <1>4, <2>1 DEF Deliver, Goto, TypeInv, TypeOK
  <2>3. ResumeAt(r.state) # "idle" /\ Planned(r)
    BY <2>1, <2>2 DEF ResumeAt, Executing, Planned, Receipt, ReceiptState
  <2>4. job'[v].event = d.event /\ job'[v].plan = r.plan
    BY <1>1, <1>4, <2>3 DEF Deliver, TypeInv, TypeOK
  <2> QED BY <2>2, <2>3, <2>4
<1> QED BY <1>1, <1>2, <1>3, <1>4, PlanOrigin

(* A call's own step reaches a phase only past the effects it stands for.  *)
LEMMA OwnEffect ==
  ASSUME Inv, NEW w \in Workers, Call(w), ~SavePlan(w)
  PROVE  ReachedBy(pc[w], job[w].plan)'
<1>1. /\ TypeInv /\ job[w] \in JobType /\ job[w].plan \in Plan
      /\ Sound(pc[w], job[w]) /\ ReachedBy(pc[w], job[w].plan)
      /\ job[w].plan.kind \in {"none", "noop", "catalog", "stock"}
  BY PlanFields DEF Inv, Reached, TypeInv, TypeOK, JobType
<1>2. Call(w) => [Next]_vars
  BY DEF Next
<1>3. CASE pc'[w] \notin Past \union {"sync", "adjust"}
  BY <1>3 DEF ReachedBy
<1>4. CASE ReadStock(w) \/ ReadProjection(w) \/ MarkComplete(w) \/ Checkpoint(w)
  <2>1. pc'[w] \notin Past \union {"sync", "adjust"}
    BY <1>1, <1>4 DEF TypeOK, TypeInv, ReadStock, ReadProjection, MarkComplete,
       Checkpoint, Quarantine, Leave, Goto, Past
  <2> QED BY <1>3, <2>1
<1>5. CASE CheckFingerprint(w)
  <2>1. \/ pc'[w] \notin Past \union {"sync", "adjust"}
        \/ /\ pc'[w] = "covers" /\ UNCHANGED <<job, remote>>
           /\ job[w].plan.kind = "catalog" /\ catalogFp # None
    <3>1. job[w].plan.kind = "catalog" => job[w].plan.fp # None
      BY <1>1, PlanFields, InboundAssumption
    <3> QED BY <1>1, <1>5, <3>1 DEF TypeOK, TypeInv, CheckFingerprint, Quarantine, Leave,
               Goto, Past
  <2> QED BY <1>3, <2>1 DEF ReachedBy, Past, Effected, Published, Inv, Known, remote
<1>6. CASE CheckCovers(w) \/ CommitCatalog(w) \/ PersistCatalog(w)
  <2>1. /\ pc[w] \in Past /\ UNCHANGED remote
        /\ (pc'[w] \in Past /\ UNCHANGED job) \/ pc'[w] = "idle"
    BY <1>1, <1>6 DEF TypeOK, TypeInv, CheckCovers, CommitCatalog, PersistCatalog,
       SnapshotCatalog, OpenTemp, WriteTemp, RenameTemp, Leave, Goto, Past
  <2>2. CASE pc'[w] = "idle"
    BY <1>3, <2>2 DEF Past
  <2>3. CASE pc'[w] \in Past /\ UNCHANGED job
    BY <1>1, <2>1, <2>3 DEF ReachedBy, Past, Effected, Published, remote
  <2> QED BY <2>1, <2>2, <2>3
<1>11. CASE CatalogUnreadable(w)
  <2>1. pc'[w] = "idle"
    BY <1>1, <1>11 DEF CatalogUnreadable, Leave, Goto, TypeInv, TypeOK
  <2> QED BY <1>3, <2>1 DEF Past
<1>7. CASE MarkSent(w)
  <2>1. /\ pc'[w] = RemotePhase(job[w].plan) \/ pc'[w] = "idle"
        /\ pc'[w] # "idle" => job'[w].plan = job[w].plan
        /\ UNCHANGED remote
    BY <1>1, <1>7 DEF TypeInv, TypeOK, JobType, MarkSent, Leave, Goto
  <2> QED BY <1>1, <2>1 DEF RemotePhase, StockPhase, ReachedBy, Past, Effected, remote
<1>8. CASE PutRecord(w)
  <2>1. pc'[w] \in {"sync", "idle"}
    BY <1>1, <1>8 DEF TypeInv, TypeOK, PutRecord, Answered, Leave, Goto
  <2>2. record' \in [fp : Fingerprint, variants : Variants]
    BY <1>1, <1>8, PlanFields DEF PutRecord, Sound
  <2> QED BY <2>1, <2>2, InboundAssumption DEF ReachedBy, Past
<1>9. CASE SyncMany(w)
  <2>1. CASE pc'[w] = "idle"
    BY <1>3, <2>1 DEF Past
  <2>2. CASE /\ IF listed \/ record = None THEN UNCHANGED <<available, revision>>
                ELSE available' = Total(record.variants) /\ revision' = revision + 1
             /\ pc'[w] \in {"commit", "adjust"} /\ UNCHANGED <<job, record>>
    <3>1. record # None /\ job[w].plan.kind = "catalog"
      BY <1>1, <1>9 DEF SyncMany, ReachedBy, Sound
    <3>2. revision' > 0
      BY <2>2, <3>1 DEF Inv, Known, TypeInv, TypeOK
    <3> QED BY <2>2, <3>1, <3>2 DEF ReachedBy, Past, Effected, Published
  <2> QED BY <1>1, <1>9, <2>1, <2>2 DEF TypeInv, TypeOK, SyncMany, StockPhase, Quarantine,
             Answered, Leave, Goto
<1>10. CASE SendAdjust(w)
  <2>1. CASE pc'[w] = "idle"
    BY <1>3, <2>1 DEF Past
  <2>2. CASE pc'[w] = "commit" /\ UNCHANGED job /\ job[w].plan.adjust \in ledger'
    <3>1. job[w].plan.kind = "catalog" => Published
      BY <1>1, <1>10 DEF SendAdjust, ReachedBy
    <3>2. job[w].plan.kind = "catalog" => Published'
      BY <1>1, <1>2, <3>1, EffectsStay
    <3> QED BY <2>2, <3>2 DEF ReachedBy, Past, Effected
  <2> QED BY <1>1, <1>10, <2>1, <2>2 DEF TypeInv, TypeOK, SendAdjust, Request, Quarantine,
             Answered, Leave, Goto
<1> QED BY <1>4, <1>5, <1>6, <1>7, <1>8, <1>9, <1>10, <1>11 DEF Call

(* A call passes a phase only with its effect taken.                       *)
LEMMA ReachedStep ==
  ASSUME Inv, [Next]_vars
  PROVE  Reached'
<1>1. TypeInv /\ TypeInv'
  BY TypeInvStep DEF Inv
<1> SUFFICES ASSUME NEW v \in Workers PROVE ReachedBy(pc[v], job[v].plan)'
  BY DEF Reached
<1> DEFINE Goal == ReachedBy(pc[v], job[v].plan)'
<1>2. ASSUME pc'[v] = pc[v], job'[v] = job[v] PROVE Goal
  <2>1. ReachedBy(pc[v], job[v].plan)
    BY DEF Inv, Reached
  <2> QED BY <1>1, <1>2, <2>1, EffectsStay, EffectedStays DEF ReachedBy, Effected
<1>3. ASSUME pc'[v] \in {"idle", "execute", "build", "checkpoint"} PROVE Goal
  BY <1>3 DEF ReachedBy, Past
<1>4. ASSUME NEW w \in Workers,
             \/ Call(w) \/ Fail(w) \/ \E d \in Deliveries : Deliver(w, d)
      PROVE  Goal
  <2>1. CASE v # w
    BY <1>1, <1>2, <1>4, <2>1, OthersWait
  <2>2. CASE v = w /\ Call(w) /\ ~SavePlan(w)
    BY <2>2, OwnEffect
  <2>3. CASE v = w /\ (SavePlan(w) \/ Fail(w) \/ \E d \in Deliveries : Deliver(w, d))
    BY <1>1, <1>3, <2>3 DEF TypeInv, TypeOK, SavePlan, Fail, Deliver, ResumeAt, Leave, Goto
  <2> QED BY <1>4, <2>1, <2>2, <2>3
<1>5. CASE Crash \/ \E w \in Workers : CrashAfterFingerprint(w)
  BY <1>3, <1>5 DEF Crash, CrashAfterFingerprint, Stop
<1>6. CASE \/ UNCHANGED vars \/ Delist
           \/ \E e \in Events : ReleaseQuarantine(e)
           \/ \E i \in Items, q \in Qty : MoveShopify(i, q)
           \/ \E q \in Qty : MoveService(q)
           \/ \E f \in Events : GetLate(f)
  BY <1>2, <1>6 DEF vars, Delist, ReleaseQuarantine, MoveShopify, MoveService, GetLate
<1> QED BY <1>4, <1>5, <1>6 DEF Next

(* Only a save makes a text.                                               *)
LEMMA TextsKept ==
  ASSUME TypeInv, NEW w \in Workers, ~PersistCatalog(w),
         Call(w) \/ Fail(w) \/ \E d \in Deliveries : Deliver(w, d)
  PROVE  Texts' \subseteq Texts
<1>1. UNCHANGED <<saved, temp>>
  BY DEF Call, bridge, catalog, remote, ReadStock, ReadProjection, SavePlan,
     CheckFingerprint, CheckCovers, MarkSent, PutRecord, SyncMany, SendAdjust,
     CommitCatalog, CatalogUnreadable, MarkComplete, Checkpoint, Fail, Deliver
<1>2. UNCHANGED saves \/ saves' = [saves EXCEPT ![w] = NoSave]
  BY DEF Call, bridge, catalog, remote, ReadStock, ReadProjection, SavePlan,
     CheckFingerprint, CheckCovers, MarkSent, PutRecord, SyncMany, SendAdjust,
     CommitCatalog, CatalogUnreadable, MarkComplete, Checkpoint, Fail, Deliver
<1>3. \A v \in Workers : saves'[v].text \subseteq saves[v].text
  BY <1>2 DEF TypeInv, TypeOK, NoSave
<1> QED BY <1>1, <1>3 DEF Texts

(* A fingerprint is remembered only of a published listing.                *)
LEMMA KnownStep ==
  ASSUME Inv, [Next]_vars
  PROVE  Known'
<1>1. TypeInv
  BY DEF Inv
<1>2. ASSUME UNCHANGED <<catalogFp, listed>>, Texts' \subseteq Texts PROVE Known'
  <2>1. listed' => revision' > 0
    <3>1. revision' = revision \/ revision' = revision + 1 \/ UNCHANGED revision
      BY DEF Next, Call, vars, bridge, remote, ReadStock, ReadProjection, SavePlan,
         CheckFingerprint, CheckCovers, MarkSent, PutRecord, SyncMany, SendAdjust,
         CommitCatalog, PersistCatalog, SnapshotCatalog, OpenTemp, WriteTemp,
     RenameTemp, CatalogUnreadable, MarkComplete, Checkpoint, Fail,
         CrashAfterFingerprint, Deliver, Crash, ReleaseQuarantine, MoveShopify,
         MoveService, GetLate, Delist
    <3> QED BY <1>1, <1>2, <3>1 DEF Inv, Known, TypeInv, TypeOK
  <2> QED BY <1>1, <1>2, <2>1, EffectsStay DEF Inv, Known
<1>3. ASSUME NEW w \in Workers, CommitCatalog(w) PROVE Known'
  <2>1. job[w].plan.kind = "catalog" => Published
    BY <1>3 DEF CommitCatalog, Inv, Reached, ReachedBy, Past, Effected
  <2>2. UNCHANGED Texts
    BY <1>3 DEF CommitCatalog, Texts
  <2> QED BY <1>3, <2>1, <2>2 DEF CommitCatalog, CommitListing, ReplaceListing, Inv, Known,
             Published, remote
<1>4. ASSUME NEW w \in Workers, PersistCatalog(w) PROVE Known'
  <2>1. UNCHANGED <<catalogFp, record, listed, revision>>
    BY <1>4 DEF PersistCatalog, SnapshotCatalog, OpenTemp, WriteTemp, RenameTemp, remote
  <2>2. ASSUME NEW text \in Texts', text.fp # None PROVE Published
    BY <1>1, <1>4, <2>2, TextOrigin DEF Inv, Known
  <2> QED BY <2>1, <2>2 DEF Inv, Known, Published
<1>5. ASSUME NEW w \in Workers, SyncMany(w) PROVE Known'
  <2>1. UNCHANGED <<catalogFp, Texts>>
    BY <1>5 DEF SyncMany, catalog, Texts
  <2>2. record # None
    BY <1>5 DEF SyncMany, Inv, Reached, ReachedBy
  <2>3. listed' => revision' > 0
    <3>1. \/ listed /\ revision' = revision
          \/ revision' = revision + 1
          \/ ~listed /\ listed' = listed
      BY <1>5, <2>2, Zenon DEF SyncMany
    <3>2. listed => revision > 0
      BY DEF Inv, Known
    <3>3. revision \in Nat
      BY <1>1 DEF TypeInv, TypeOK
    <3>4. revision + 1 > 0
      BY <3>3
    <3> QED BY <3>1, <3>2, <3>4, Zenon
  <2> QED BY <1>1, <2>1, <2>3, EffectsStay DEF Inv, Known
<1>6. ASSUME NEW w \in Workers, CrashAfterFingerprint(w) PROVE Known'
  <2>1. Published
    BY <1>6 DEF CrashAfterFingerprint, Inv, Reached, ReachedBy, Past, Effected
  <2> QED BY <1>6, <2>1 DEF CrashAfterFingerprint, Stop, Inv, Known, Published, remote
<1>7. CASE Crash
  <2>1. Texts' \subseteq Texts
    BY <1>7 DEF Crash, Stop, Texts, NoTemp, NoSave
  <2>2. catalogFp' # None => Published
    <3>1. Loaded(saved).fp # None => Readable(saved)
      BY <1>1, LoadedType, EmptyCatalogType DEF TypeInv, TypeOK
    <3>2. Readable(saved) => Loaded(saved) \in Texts
      BY <1>1, LoadedType DEF TypeInv, TypeOK, Texts
    <3> QED BY <1>7, <3>1, <3>2 DEF Crash, Stop, Inv, Known
  <2> QED BY <1>7, <2>1, <2>2 DEF Crash, Inv, Known, Published, remote
<1>8. CASE Delist
  BY <1>8 DEF Delist, Inv, Known, Published, bridge, catalog, Texts
<1>9. ASSUME NEW w \in Workers, Call(w) \/ Fail(w) \/ \E d \in Deliveries : Deliver(w, d),
             ~CommitCatalog(w), ~PersistCatalog(w), ~SyncMany(w)
      PROVE  Known'
  <2>1. UNCHANGED <<catalogFp, listed>>
    BY <1>9 DEF Call, bridge, catalog, remote, ReadStock, ReadProjection, SavePlan,
       CheckFingerprint, CheckCovers, MarkSent, PutRecord, SendAdjust, MarkComplete,
       CatalogUnreadable, Checkpoint, Fail, Deliver
  <2> QED BY <1>1, <1>2, <1>9, <2>1, TextsKept
<1>10. CASE \/ UNCHANGED vars
            \/ \E e \in Events : ReleaseQuarantine(e) \/ GetLate(e)
            \/ \E i \in Items, q \in Qty : MoveShopify(i, q)
            \/ \E q \in Qty : MoveService(q)
  <2>1. UNCHANGED <<catalogFp, Texts, listed>>
    BY <1>10 DEF vars, bridge, catalog, remote, ReleaseQuarantine, MoveShopify,
       MoveService, GetLate, Texts
  <2> QED BY <1>2, <2>1
<1> QED BY <1>3, <1>4, <1>5, <1>6, <1>7, <1>8, <1>9, <1>10 DEF Next

(* A receipt becomes complete by a call's markComplete, and stays so.      *)
Done == {"effect-complete", "checkpointed"}

(* A receipt becomes complete only by the call at "complete".              *)
LEMMA DoneOrigin ==
  ASSUME TypeInv, [Next]_vars, NEW e \in Events, receipts'[e].state \in Done
  PROVE  /\ receipts'[e].plan = receipts[e].plan
         /\ \/ receipts[e].state \in Done
            \/ /\ receipts[e].state \in {"effect-planned", "effect-sent"}
               /\ \E w \in Workers : pc[w] = "complete" /\ job[w].event = e
<1> DEFINE Goal == /\ receipts'[e].plan = receipts[e].plan
                   /\ \/ receipts[e].state \in Done
                      \/ /\ receipts[e].state \in {"effect-planned", "effect-sent"}
                         /\ \E w \in Workers : pc[w] = "complete" /\ job[w].event = e
<1>1. receipts[e] \in Receipt
  BY DEF TypeInv, TypeOK
<1>2. ASSUME NEW w \in Workers, NEW d \in Deliveries, Deliver(w, d) PROVE Goal
  BY <1>1, <1>2 DEF TypeInv, TypeOK, Deliver, Opened, NoReceipt, Receipt, Done
<1>3. ASSUME NEW w \in Workers, NEW reason, Quarantine(w, reason) PROVE Goal
  BY <1>1, <1>3 DEF TypeInv, TypeOK, Receipt, Quarantine, Done
<1>4. ASSUME NEW w \in Workers, Call(w) PROVE Goal
  <2>1. CASE ReadStock(w) \/ ReadProjection(w) \/ CheckFingerprint(w) \/ SyncMany(w)
             \/ SendAdjust(w)
    BY <2>1, <1>3 DEF ReadStock, ReadProjection, CheckFingerprint, SyncMany,
       SendAdjust, bridge, Done
  <2>2. CASE SavePlan(w)
    <3>1. \/ UNCHANGED receipts
          \/ /\ receipts' = [receipts EXCEPT ![job[w].event] =
                  [@ EXCEPT !.state = "effect-planned", !.plan = job[w].plan]]
      BY <2>2 DEF SavePlan
    <3>2. \/ receipts'[e] = receipts[e]
          \/ receipts'[e] =
               [receipts[e] EXCEPT !.state = "effect-planned", !.plan = job[w].plan]
      BY <3>1 DEF TypeInv, TypeOK
    <3>3. receipts'[e] = receipts[e] \/ receipts'[e].state = "effect-planned"
      BY <1>1, <3>2 DEF Receipt
    <3> QED BY <3>3 DEF Done
  <2>3. CASE MarkSent(w)
    BY <1>1, <2>3 DEF TypeInv, TypeOK, Receipt, MarkSent, Done
  <2>4. CASE MarkComplete(w) \/ Checkpoint(w)
    BY <1>1, <2>4 DEF TypeInv, TypeOK, Receipt, MarkComplete, Checkpoint, Done
  <2>5. CASE PutRecord(w) \/ CheckCovers(w) \/ CommitCatalog(w) \/ PersistCatalog(w)
             \/ CatalogUnreadable(w)
    BY <2>5 DEF PutRecord, CheckCovers, CommitCatalog, PersistCatalog, SnapshotCatalog, OpenTemp, WriteTemp,
     RenameTemp, CatalogUnreadable, bridge, Done
  <2> QED BY <1>4, <2>1, <2>2, <2>3, <2>4, <2>5 DEF Call
<1>5. ASSUME NEW f \in Events, ReleaseQuarantine(f) PROVE Goal
  BY <1>1, <1>5 DEF TypeInv, TypeOK, ReleaseQuarantine, NoReceipt, Done
<1>6. CASE \/ UNCHANGED vars \/ Crash \/ Delist
           \/ \E w \in Workers : Fail(w) \/ CrashAfterFingerprint(w)
           \/ \E i \in Items, q \in Qty : MoveShopify(i, q)
           \/ \E q \in Qty : MoveService(q)
           \/ \E f \in Events : GetLate(f)
  BY <1>6 DEF vars, bridge, Crash, Delist, Fail, CrashAfterFingerprint, MoveShopify,
     MoveService, GetLate, Done
<1> QED BY <1>2, <1>4, <1>5, <1>6 DEF Next

(* Which holds its plan and has reached its effect.                        *)
LEMMA AppliedStep ==
  ASSUME Inv, [Next]_vars
  PROVE  CompleteMeansApplied'
<1> SUFFICES ASSUME NEW e \in Events, receipts'[e].state \in Done
             PROVE  Effected(receipts[e].plan)'
  BY DEF CompleteMeansApplied, Done
<1>1. TypeInv /\ receipts'[e].plan = receipts[e].plan
  BY DoneOrigin DEF Inv
<1>2. Effected(receipts[e].plan)
  <2>1. CASE receipts[e].state \in Done
    BY <2>1 DEF Inv, CompleteMeansApplied, Done
  <2>2. CASE \E w \in Workers : pc[w] = "complete" /\ job[w].event = e
    BY <2>2 DEF Inv, Holds, Reached, ReachedBy, Past, Executing
  <2> QED BY <1>1, <2>1, <2>2, DoneOrigin
<1> QED BY <1>1, <1>2, EffectedStays DEF Effected

LEMMA InvInit == Init => Inv
<1> SUFFICES ASSUME Init PROVE Inv
  OBVIOUS
<1>1. TypeInv
  BY InitType
<1>2. Holds /\ Reached
  BY DEF Init, Holds, Reached, ReachedBy, Past, Executing
<1>4. Known
  <2>1. catalogFp = None /\ Texts = {EmptyCatalog}
    BY DEF Init, Texts, NoTemp, NoSave
  <2>2. ~listed
    BY ZenonT(20) DEF Init
  <2> QED BY <2>1, <2>2, EmptyCatalogType DEF Known
<1>3. CompleteMeansApplied
  BY DEF Init, CompleteMeansApplied, NoReceipt
<1> QED BY <1>1, <1>2, <1>3, <1>4 DEF Inv

LEMMA InvStep ==
  ASSUME QuietRelease
  PROVE  Inv /\ [Next]_vars => Inv'
<1> SUFFICES ASSUME Inv, [Next]_vars PROVE Inv'
  OBVIOUS
<1>1. TypeInv'
  BY TypeInvStep DEF Inv
<1> QED BY <1>1, HoldsStep, ReachedStep, KnownStep, AppliedStep DEF Inv

(* Inv is inductive, as long as the operator releases only what no call is *)
(* working on.                                                             *)
THEOREM InvHolds ==
  ASSUME QuietRelease
  PROVE  Spec => []Inv
BY InvInit, InvStep, PTL DEF Spec

(* Whatever crashes, is lost or races: a receipt that says its effect is   *)
(* complete is right, as long as the operator releases no receipt that a   *)
(* call is working on.                                                     *)
THEOREM CompletionIsTrue ==
  ASSUME QuietRelease
  PROVE  Spec => []CompleteMeansApplied
<1>1. Inv => CompleteMeansApplied
  BY DEF Inv
<1> QED BY <1>1, InvHolds, PTL

(***************************************************************************)
(* With one call at a time, the catalog file can be read at any moment.    *)
(* The name of the temporary file is then the call's own: what is renamed  *)
(* over the catalog is the one text written since the open.                *)
(***************************************************************************)
WholeAt(phase, save) ==
  /\ phase \in {"open", "write"} => \E text \in CatalogText : save.text = {text}
  /\ phase = "write" => save.file = "temp" /\ temp.exists /\ temp.texts = {}
  /\ phase = "rename" => temp.exists /\ Readable(temp.texts)

Whole ==
  /\ ~unreadable
  /\ Readable(saved)
  /\ \A w \in Workers : WholeAt(pc[w], saves[w])

LEMMA WholeCallStep ==
  ASSUME \A v, w \in Workers : v = w, TypeInv, Whole, NEW w \in Workers, Call(w)
  PROVE  Whole'
<1>1. /\ temp \in TempFile /\ saves \in [Workers -> Save] /\ WholeAt(pc[w], saves[w])
      /\ [fp |-> catalogFp, entries |-> entries] \in CatalogText
      /\ pc \in [Workers -> Phase]
  BY DEF TypeInv, TypeOK, Whole, CatalogText
<1> SUFFICES ~unreadable' /\ Readable(saved') /\ WholeAt(pc[w], saves[w])'
  BY DEF Whole
<1>2. CASE SnapshotCatalog(w)
  <2>1. pc'[w] = "open"
        /\ saves'[w].text = {[fp |-> catalogFp, entries |-> entries]}
    BY <1>1, <1>2 DEF SnapshotCatalog, Goto, Save
  <2> QED BY <1>1, <1>2, <2>1 DEF SnapshotCatalog, WholeAt, Whole
<1>3. CASE OpenTemp(w)
  <2>1. /\ pc'[w] = "write" /\ saves'[w].text = saves[w].text
        /\ saves'[w].file = "temp" /\ temp'.exists /\ temp'.texts = {}
    BY <1>1, <1>3 DEF OpenTemp, Goto, Save
  <2> QED BY <1>1, <1>3, <2>1 DEF OpenTemp, WholeAt, Whole
<1>4. CASE WriteTemp(w)
  <2>1. PICK text \in CatalogText : saves[w].text = {text}
    BY <1>1, <1>4 DEF WriteTemp, WholeAt
  <2>2. saves[w].file = "temp" /\ temp.exists /\ temp.texts = {}
    BY <1>1, <1>4 DEF WriteTemp, WholeAt
  <2>3. /\ pc'[w] = "rename" /\ temp'.exists /\ temp'.texts = {text}
        /\ UNCHANGED <<saved, unreadable>>
    BY <1>1, <1>4, <2>1, <2>2 DEF WriteTemp, Goto, Overwrites, TempFile
  <2> QED BY <2>3 DEF WholeAt, Whole, Readable
<1>5. CASE RenameTemp(w)
  <2>1. temp.exists /\ Readable(temp.texts)
    BY <1>1, <1>5 DEF RenameTemp, WholeAt
  <2>2. pc'[w] = "complete" /\ saved' = temp.texts /\ UNCHANGED unreadable
    BY <1>1, <1>5, <2>1 DEF RenameTemp, Goto
  <2> QED BY <2>1, <2>2 DEF WholeAt, Whole
<1>6. CASE CommitCatalog(w)
  BY <1>1, <1>6 DEF CommitCatalog, Goto, Whole, WholeAt
<1>7. ASSUME ~PersistCatalog(w), ~CommitCatalog(w)
      PROVE  ~unreadable' /\ Readable(saved') /\ WholeAt(pc[w], saves[w])'
  <2>1. UNCHANGED <<saved, unreadable>>
    BY <1>7 DEF Call, bridge, catalog, ReadStock, ReadProjection, SavePlan,
       CheckFingerprint, CheckCovers, MarkSent, PutRecord, SyncMany, SendAdjust,
       CatalogUnreadable, MarkComplete, Checkpoint
  <2>2. pc'[w] \notin {"open", "write", "rename"}
    BY <1>1, <1>7 DEF Call, ReadStock, ReadProjection, SavePlan, CheckFingerprint,
       CheckCovers, MarkSent, PutRecord, SyncMany, SendAdjust, CatalogUnreadable,
       MarkComplete, Checkpoint, RemotePhase, StockPhase, Answered, Quarantine, Leave, Goto
  <2> QED BY <2>1, <2>2 DEF Whole, WholeAt
<1> QED BY <1>2, <1>3, <1>4, <1>5, <1>6, <1>7 DEF PersistCatalog

LEMMA WholeStep ==
  ASSUME \A v, w \in Workers : v = w
  PROVE  TypeInv /\ Whole /\ [Next]_vars => Whole'
<1> SUFFICES ASSUME TypeInv, Whole, [Next]_vars PROVE Whole'
  OBVIOUS
<1>1. ASSUME NEW w \in Workers, Call(w) PROVE Whole'
  BY <1>1, WholeCallStep
<1>2. ASSUME NEW w \in Workers, Fail(w) \/ \E d \in Deliveries : Deliver(w, d)
      PROVE  Whole'
  <2>1. pc'[w] \notin {"open", "write", "rename"}
    BY <1>2 DEF Fail, Deliver, ResumeAt, Leave, Goto, TypeInv, TypeOK
  <2>2. UNCHANGED <<saved, unreadable>>
    BY <1>2 DEF Fail, Deliver, catalog
  <2> QED BY <2>1, <2>2 DEF Whole, WholeAt
<1>3. ASSUME NEW file, Stop(file), Readable(file) PROVE Whole'
  BY <1>3 DEF Stop, Whole, WholeAt
<1>4. ASSUME NEW w \in Workers, CrashAfterFingerprint(w) PROVE Whole'
  <2>1. Readable({[fp |-> job[w].plan.fp, entries |-> entries]})
    BY DEF Readable
  <2> QED BY <1>3, <1>4, <2>1 DEF CrashAfterFingerprint
<1>5. CASE Crash
  BY <1>3, <1>5 DEF Crash, Whole
<1>6. CASE \/ UNCHANGED vars \/ Delist
           \/ \E e \in Events : ReleaseQuarantine(e) \/ GetLate(e)
           \/ \E i \in Items, q \in Qty : MoveShopify(i, q)
           \/ \E q \in Qty : MoveService(q)
  <2>1. UNCHANGED <<saved, temp, saves, unreadable, pc>>
    BY <1>6 DEF vars, Delist, ReleaseQuarantine, GetLate, MoveShopify, MoveService,
       bridge, catalog
  <2> QED BY <2>1 DEF Whole, WholeAt
<1> QED BY <1>1, <1>2, <1>4, <1>5, <1>6 DEF Next

LEMMA WholeInit == Init => Whole
BY EmptyCatalogType DEF Init, Whole, WholeAt

(* A crash at any step of a save leaves a catalog that the next process    *)
(* can read, as long as calls do not overlap.                              *)
THEOREM CatalogSurvives ==
  ASSUME \A v, w \in Workers : v = w
  PROVE  Spec => []CatalogReadable
<1>1. Whole => CatalogReadable
  BY DEF Whole, CatalogReadable
<1> QED BY <1>1, InitType, WholeInit, TypeInvStep, WholeStep, PTL DEF Spec

(***************************************************************************)
(* With one call at a time, the remembered fingerprint is the record's.    *)
(* From the fingerprint check to the catalog write nothing else writes     *)
(* either, so a first import still finds no fingerprint, past the PUT the  *)
(* record on the homeserver is the plan's, and no text of the catalog has  *)
(* a fingerprint but the one in memory.                                    *)
(***************************************************************************)
Stored == {"sync", "adjust", "commit"}

AloneAt(phase, plan) ==
  plan.kind = "catalog" =>
    /\ phase \in {"mark", "put"} \union Stored => catalogFp = None
    /\ phase \in Stored => record # None /\ record.fp = plan.fp
    /\ phase \in {"covers", "recommit"} => catalogFp = plan.fp

ImportAlone == \A w \in Workers : AloneAt(pc[w], job[w].plan)

FileBehind == \A text \in Texts : text.fp \in {None, catalogFp}

RecordInv ==
  /\ TypeInv
  /\ Whole
  /\ ImportAlone
  /\ FileBehind
  /\ RecordMatchesFingerprint

RecordGoal == ImportAlone /\ FileBehind /\ RecordMatchesFingerprint

(* A step that writes neither record nor fingerprint.                      *)
LEMMA RecordQuiet ==
  ASSUME RecordInv, UNCHANGED <<record, catalogFp>>,
         Texts' \subseteq Texts \union {[fp |-> catalogFp, entries |-> entries]},
         \A v \in Workers : AloneAt(pc[v], job[v].plan)'
  PROVE  RecordGoal'
BY DEF RecordInv, ImportAlone, FileBehind, RecordMatchesFingerprint, RecordGoal

LEMMA RecordCallStep ==
  ASSUME \A v, w \in Workers : v = w, RecordInv, NEW w \in Workers, Call(w)
  PROVE  RecordGoal'
<1>1. /\ TypeInv /\ job[w] \in JobType /\ job[w].plan \in Plan
      /\ Sound(pc[w], job[w]) /\ AloneAt(pc[w], job[w].plan)
  BY DEF RecordInv, ImportAlone, TypeInv, TypeOK, JobType
<1>0. Texts' \subseteq Texts \union {[fp |-> catalogFp, entries |-> entries]}
  BY <1>1, TextOrigin, TextsKept
<1>2. ASSUME pc'[w] \in {"idle", "build", "project", "save", "execute", "persist",
                         "open", "write", "rename", "complete", "checkpoint"}
      PROVE  AloneAt(pc[w], job[w].plan)'
  BY <1>2 DEF AloneAt, Stored
<1>3. CASE ReadStock(w) \/ ReadProjection(w) \/ SavePlan(w) \/ MarkComplete(w)
           \/ Checkpoint(w)
  <2>1. UNCHANGED <<record, catalogFp>>
    BY <1>3 DEF ReadStock, ReadProjection, SavePlan, MarkComplete, Checkpoint, remote,
       catalog
  <2>2. AloneAt(pc[w], job[w].plan)'
    BY <1>1, <1>2, <1>3 DEF ReadStock, ReadProjection, SavePlan, MarkComplete, Checkpoint,
       Quarantine, Leave, Goto, TypeInv, TypeOK
  <2> QED BY <2>1, <2>2, <1>0, RecordQuiet
<1>4. CASE CheckFingerprint(w)
  <2>1. UNCHANGED <<record, catalogFp>>
    BY <1>4 DEF CheckFingerprint, remote, catalog
  <2>2. \/ pc'[w] = "idle"
        \/ pc'[w] = "mark" /\ FirstImport(w) /\ UNCHANGED job
        \/ pc'[w] = "covers" /\ catalogFp = job[w].plan.fp /\ UNCHANGED job
    BY <1>1, <1>4 DEF CheckFingerprint, Quarantine, Leave, Goto, TypeInv, TypeOK
  <2>3. AloneAt(pc[w], job[w].plan)'
    BY <2>1, <2>2 DEF AloneAt, Stored, FirstImport
  <2> QED BY <2>1, <2>3, <1>0, RecordQuiet
<1>5. CASE CheckCovers(w)
  <2>1. /\ UNCHANGED <<record, catalogFp, job>>
        /\ pc[w] = "covers" /\ pc'[w] \in {"complete", "recommit"}
    BY <1>1, <1>5 DEF CheckCovers, Goto, TypeInv, TypeOK, remote, bridge, catalog
  <2>2. AloneAt(pc[w], job[w].plan)'
    BY <1>1, <2>1 DEF AloneAt, Stored
  <2> QED BY <2>1, <2>2, <1>0, RecordQuiet
<1>6. CASE MarkSent(w)
  <2>1. /\ UNCHANGED <<record, catalogFp>> /\ pc[w] = "mark"
        /\ \/ pc'[w] = "idle"
           \/ pc'[w] = RemotePhase(job[w].plan) /\ job'[w].plan = job[w].plan
    BY <1>1, <1>6 DEF MarkSent, Leave, Goto, TypeInv, TypeOK, JobType, remote, catalog
  <2>2. AloneAt(pc[w], job[w].plan)'
    BY <1>1, <2>1 DEF AloneAt, Stored, RemotePhase
  <2> QED BY <2>1, <2>2, <1>0, RecordQuiet
<1>7. CASE PutRecord(w)
  <2>1. /\ catalogFp = None /\ pc[w] = "put" /\ UNCHANGED catalogFp
        /\ pc'[w] = "idle" \/ (pc'[w] = "sync" /\ UNCHANGED job)
    BY <1>1, <1>7 DEF PutRecord, AloneAt, Sound, Answered, Leave, Goto, TypeInv, TypeOK,
       bridge, catalog
  <2>2. record' = [fp |-> job[w].plan.fp, variants |-> job[w].plan.variants]
    BY <1>7 DEF PutRecord
  <2>3. record' # None /\ record'.fp = job[w].plan.fp
    <3>1. record' \in [fp : Fingerprint, variants : Variants]
      BY <1>1, <2>1, <2>2, PlanFields DEF Sound
    <3> QED BY <2>2, <3>1, InboundAssumption
  <2>4. AloneAt(pc[w], job[w].plan)'
    BY <2>1, <2>3 DEF AloneAt, Stored
  <2>5. Texts' \subseteq Texts
    BY <1>1, <1>7, <2>1, TextsKept DEF PersistCatalog, SnapshotCatalog, OpenTemp, WriteTemp,
       RenameTemp
  <2> QED BY <2>1, <2>4, <2>5 DEF RecordGoal, ImportAlone, FileBehind,
             RecordMatchesFingerprint, RecordInv
<1>8. CASE SyncMany(w) \/ SendAdjust(w)
  <2>1. /\ UNCHANGED <<record, catalogFp>> /\ pc[w] \in Stored
        /\ pc'[w] = "idle" \/ (pc'[w] \in Stored /\ UNCHANGED job)
    BY <1>1, <1>8 DEF SyncMany, SendAdjust, StockPhase, Quarantine, Answered, Leave, Goto,
       TypeInv, TypeOK, Stored, catalog
  <2>2. AloneAt(pc[w], job[w].plan)'
    BY <1>1, <2>1 DEF AloneAt, Stored
  <2> QED BY <2>1, <2>2, <1>0, RecordQuiet
<1>9. CASE CommitCatalog(w)
  <2>1. /\ pc[w] \in {"commit", "recommit"} /\ pc'[w] = "persist"
        /\ UNCHANGED <<record, Texts, job>>
    BY <1>1, <1>9 DEF CommitCatalog, Goto, TypeInv, TypeOK, remote, Texts
  <2>2. CASE job[w].plan.kind = "catalog"
    <3>1. catalogFp' = job[w].plan.fp
      BY <1>9, <2>2 DEF CommitCatalog, CommitListing
    <3>2. AloneAt(pc[w], job[w].plan)'
      BY <2>1, <3>1 DEF AloneAt, Stored
    <3>3. \A text \in Texts : text.fp \in {None, job[w].plan.fp}
      BY <1>1, <2>1, <2>2 DEF RecordInv, FileBehind, AloneAt, Stored
    <3>4. record # None /\ record.fp = job[w].plan.fp
      <4>1. job[w].plan.fp # None
        BY <1>1, <2>2, PlanFields, InboundAssumption
      <4> QED BY <1>1, <2>1, <2>2, <4>1
              DEF AloneAt, Stored, RecordInv, RecordMatchesFingerprint
    <3> QED BY <2>1, <3>1, <3>2, <3>3, <3>4
            DEF RecordGoal, ImportAlone, FileBehind, RecordMatchesFingerprint
  <2>3. CASE job[w].plan.kind # "catalog"
    <3>1. UNCHANGED catalogFp
      BY <1>9, <2>3 DEF CommitCatalog, ReplaceListing
    <3>2. AloneAt(pc[w], job[w].plan)'
      BY <2>1, <2>3 DEF AloneAt
    <3> QED BY <2>1, <3>1, <3>2, <1>0, RecordQuiet
  <2> QED BY <2>2, <2>3
<1>10. CASE PersistCatalog(w) \/ CatalogUnreadable(w)
  <2>1. /\ UNCHANGED <<record, catalogFp>>
        /\ pc'[w] \in {"idle", "open", "write", "rename", "complete"}
    BY <1>1, <1>10 DEF PersistCatalog, SnapshotCatalog, OpenTemp, WriteTemp, RenameTemp,
       CatalogUnreadable, Leave, Goto, TypeInv, TypeOK, bridge, catalog, remote
  <2>2. AloneAt(pc[w], job[w].plan)'
    BY <1>2, <2>1
  <2> QED BY <2>1, <2>2, <1>0, RecordQuiet
<1> QED BY <1>3, <1>4, <1>5, <1>6, <1>7, <1>8, <1>9, <1>10 DEF Call

LEMMA RecordStep ==
  ASSUME \A v, w \in Workers : v = w
  PROVE  RecordInv /\ [Next]_vars => RecordInv'
<1> SUFFICES ASSUME RecordInv, [Next]_vars
             PROVE  RecordGoal'
  BY TypeInvStep, WholeStep DEF RecordInv, RecordGoal
<1>1. ASSUME NEW w \in Workers, Call(w) PROVE RecordGoal'
  BY <1>1, RecordCallStep
<1>2. ASSUME NEW w \in Workers, Fail(w) \/ \E d \in Deliveries : Deliver(w, d)
      PROVE  RecordGoal'
  <2>1. pc'[w] \in {"idle", "build", "execute", "checkpoint"}
    BY <1>2 DEF Fail, Deliver, ResumeAt, Leave, Goto, RecordInv, TypeInv, TypeOK
  <2>2. AloneAt(pc[w], job[w].plan)'
    BY <2>1 DEF AloneAt, Stored
  <2>3. UNCHANGED <<record, catalogFp>>
    BY <1>2 DEF Fail, Deliver, bridge, remote, catalog
  <2>4. Texts' \subseteq Texts \union {[fp |-> catalogFp, entries |-> entries]}
    BY <1>2, TextOrigin, TextsKept DEF RecordInv
  <2> QED BY <2>2, <2>3, <2>4, RecordQuiet
<1>3. ASSUME NEW text, Stop({text}), UNCHANGED record,
             text.fp # None => record # None /\ record.fp = text.fp
      PROVE  RecordGoal'
  <2>1. Loaded({text}) = text
    <3>1. Readable({text}) /\ (CHOOSE t \in {text} : TRUE) \in {text}
      BY DEF Readable
    <3> QED BY <3>1 DEF Loaded
  <2>2. Texts' = {text}
    BY <1>3 DEF Stop, Texts, NoTemp, NoSave
  <2>3. catalogFp' = text.fp /\ \A v \in Workers : pc'[v] = "idle"
    BY <1>3, <2>1 DEF Stop
  <2> QED BY <1>3, <2>2, <2>3
          DEF AloneAt, Stored, ImportAlone, FileBehind, RecordMatchesFingerprint, RecordGoal
<1>4. ASSUME NEW w \in Workers, CrashAfterFingerprint(w) PROVE RecordGoal'
  <2>1. record # None /\ record.fp = job[w].plan.fp
    BY <1>4 DEF CrashAfterFingerprint, RecordInv, ImportAlone, AloneAt, Stored
  <2> QED BY <1>3, <1>4, <2>1 DEF CrashAfterFingerprint, remote
<1>5. CASE Crash
  <2>1. PICK text \in saved : saved = {text}
    BY DEF RecordInv, Whole, Readable
  <2>2. text.fp # None => record # None /\ record.fp = text.fp
    BY DEF RecordInv, FileBehind, RecordMatchesFingerprint, Texts
  <2> QED BY <1>3, <1>5, <2>1, <2>2 DEF Crash, remote
<1>6. CASE \/ UNCHANGED vars \/ Delist
           \/ \E e \in Events : ReleaseQuarantine(e) \/ GetLate(e)
           \/ \E i \in Items, q \in Qty : MoveShopify(i, q)
           \/ \E q \in Qty : MoveService(q)
  <2>1. UNCHANGED <<record, catalogFp, Texts, pc, job>>
    BY <1>6 DEF vars, Delist, ReleaseQuarantine, GetLate, MoveShopify, MoveService, bridge,
       remote, catalog, Texts
  <2>2. \A v \in Workers : AloneAt(pc[v], job[v].plan)'
    BY <2>1 DEF RecordInv, ImportAlone, AloneAt
  <2> QED BY <2>1, <2>2, RecordQuiet
<1> QED BY <1>1, <1>2, <1>4, <1>5, <1>6 DEF Next

(* Calls that do not overlap never leave a fingerprint of one content and  *)
(* a record of another, wherever a crash falls between the PUT and the     *)
(* write of the catalog file.                                              *)
THEOREM RecordIsRemembered ==
  ASSUME \A v, w \in Workers : v = w
  PROVE  Spec => []RecordMatchesFingerprint
<1>1. Init => RecordInv
  <2> SUFFICES ASSUME Init PROVE RecordInv
    OBVIOUS
  <2>1. TypeInv /\ Whole
    BY InitType, WholeInit
  <2>2. FileBehind
    BY EmptyCatalogType DEF Init, FileBehind, Texts, NoTemp, NoSave
  <2> QED BY <2>1, <2>2 DEF Init, RecordInv, ImportAlone, AloneAt, Stored,
             RecordMatchesFingerprint
<1>2. RecordInv => RecordMatchesFingerprint
  BY DEF RecordInv
<1> QED BY <1>1, <1>2, RecordStep, PTL DEF Spec

(***************************************************************************)
(* Every receipt of ShopifyInbound lives the life of ReceiptLifecycle.     *)
(* A step maps to the abstract step that changes the receipt's state, to   *)
(* TakeEffect when only the effect of its plan comes true, or to a         *)
(* stutter.  That a plan is fixed once needs a fact about unfinished       *)
(* receipts: one that is absent or only received has no plan, and the plan *)
(* a call is about to save is a real one.                                  *)
(***************************************************************************)
Unplanned ==
  \A e \in Events : ~Planned(receipts[e]) => receipts[e].plan = NoPlan

Drafted ==
  \A w \in Workers : pc[w] = "save" => job[w].plan.kind # "none"

LifeInv ==
  /\ Inv
  /\ Unplanned
  /\ Drafted

(* How a step may change a receipt.                                        *)
Moves(e, from, to) ==
  /\ receipts[e].state \in from /\ receipts'[e].state = to
  /\ receipts'[e].plan = receipts[e].plan

Transition(e) ==
  \/ Moves(e, {"absent"}, "received")
  \/ /\ receipts[e].state = "received" /\ receipts'[e].state = "effect-planned"
     /\ \E w \in Workers : pc[w] = "save" /\ receipts'[e].plan = job[w].plan
  \/ Moves(e, {"effect-planned"}, "effect-sent")
  \/ /\ Moves(e, {"effect-planned", "effect-sent"}, "effect-complete")
     /\ \E w \in Workers : pc[w] = "complete" /\ job[w].event = e
  \/ Moves(e, {"effect-complete"}, "checkpointed")
  \/ Moves(e, ReceiptState \ {"absent"}, "quarantined")
  \/ /\ receipts[e].state = "quarantined" /\ receipts'[e].state = "absent"
     /\ receipts'[e].plan = NoPlan

(* A step changes a receipt by a transition, and no effect with it.        *)
LEMMA ReceiptStep ==
  ASSUME TypeInv, Unplanned, [Next]_vars, NEW e \in Events
  PROVE  \/ receipts'[e] = receipts[e]
         \/ Transition(e) /\ UNCHANGED <<ledger, record, revision>>
<1> DEFINE Goal == \/ receipts'[e] = receipts[e]
                   \/ Transition(e) /\ UNCHANGED <<ledger, record, revision>>
<1>1. receipts[e] \in Receipt
  BY DEF TypeInv, TypeOK
<1>2. ASSUME NEW w \in Workers, NEW d \in Deliveries, Deliver(w, d) PROVE Goal
  <2>1. receipts'[e] = receipts[e] \/ receipts'[e] = Opened(e, d.payload)
    BY <1>2 DEF TypeInv, TypeOK, Deliver
  <2>2. CASE receipts'[e] = Opened(e, d.payload) /\ receipts'[e] # receipts[e]
    <3>1. UNCHANGED <<ledger, record, revision>>
      BY <1>2 DEF Deliver, remote
    <3>2. CASE receipts[e].state = "absent"
      <4>1. receipts[e].plan = NoPlan
        BY <3>2 DEF Unplanned, Planned
      <4>2. receipts'[e].state = "received" /\ receipts'[e].plan = NoPlan
        BY <2>2, <3>2 DEF Opened, NoReceipt
      <4> QED BY <3>1, <3>2, <4>1, <4>2 DEF Transition, Moves
    <3>3. CASE receipts[e].state # "absent"
      <4>1. receipts'[e].state = "quarantined" /\ receipts'[e].plan = receipts[e].plan
        BY <1>1, <2>2, <3>3 DEF Opened, Receipt
      <4> QED BY <1>1, <3>1, <3>3, <4>1 DEF Transition, Moves, Receipt
    <3> QED BY <3>2, <3>3
  <2> QED BY <2>1, <2>2
<1>3. ASSUME NEW w \in Workers, NEW reason, Quarantine(w, reason)
      PROVE  receipts'[e] = receipts[e] \/ Moves(e, ReceiptState \ {"absent"}, "quarantined")
  BY <1>1, <1>3 DEF TypeInv, TypeOK, Receipt, Quarantine, Moves
<1>4. ASSUME NEW w \in Workers, Call(w) PROVE Goal
  <2>1. CASE ReadStock(w) \/ ReadProjection(w) \/ CheckFingerprint(w) \/ SyncMany(w)
             \/ SendAdjust(w)
    BY <2>1, <1>3 DEF ReadStock, ReadProjection, CheckFingerprint, SyncMany,
       SendAdjust, bridge, remote, Transition
  <2>2. CASE SavePlan(w)
    <3>1. \/ receipts'[e] = receipts[e]
          \/ /\ receipts[e].state = "received"
             /\ receipts'[e] = [receipts[e] EXCEPT !.state = "effect-planned",
                                                   !.plan = job[w].plan]
      BY <2>2 DEF SavePlan, MaySavePlan, TypeInv, TypeOK
    <3> QED BY <1>1, <2>2, <3>1 DEF SavePlan, Receipt, Transition, remote
  <2>3. CASE MarkSent(w)
    BY <1>1, <2>3 DEF TypeInv, TypeOK, Receipt, MarkSent, Transition, Moves, remote
  <2>4. CASE MarkComplete(w)
    BY <1>1, <2>4 DEF TypeInv, TypeOK, Receipt, MarkComplete, Transition, Moves, remote
  <2>5. CASE Checkpoint(w)
    BY <1>1, <2>5 DEF TypeInv, TypeOK, Receipt, Checkpoint, Transition, Moves, remote
  <2>6. CASE PutRecord(w) \/ CheckCovers(w) \/ CommitCatalog(w) \/ PersistCatalog(w)
             \/ CatalogUnreadable(w)
    BY <2>6 DEF PutRecord, CheckCovers, CommitCatalog, PersistCatalog, SnapshotCatalog, OpenTemp, WriteTemp,
     RenameTemp, CatalogUnreadable, bridge
  <2> QED BY <1>4, <2>1, <2>2, <2>3, <2>4, <2>5, <2>6 DEF Call
<1>5. ASSUME NEW f \in Events, ReleaseQuarantine(f) PROVE Goal
  BY <1>1, <1>5 DEF TypeInv, TypeOK, ReleaseQuarantine, NoReceipt, Transition, remote
<1>6. CASE \/ UNCHANGED vars \/ Crash \/ Delist
           \/ \E w \in Workers : Fail(w) \/ CrashAfterFingerprint(w)
           \/ \E i \in Items, q \in Qty : MoveShopify(i, q)
           \/ \E q \in Qty : MoveService(q)
           \/ \E f \in Events : GetLate(f)
  BY <1>6 DEF vars, bridge, Crash, Delist, Fail, CrashAfterFingerprint, MoveShopify,
     MoveService, GetLate
<1> QED BY <1>2, <1>4, <1>5, <1>6 DEF Next

LEMMA LifeInit == Init => LifeInv
<1> SUFFICES ASSUME Init PROVE LifeInv
  OBVIOUS
<1>1. Unplanned
  BY DEF Init, Unplanned, NoReceipt
<1>2. Drafted
  BY DEF Init, Drafted
<1> QED BY <1>1, <1>2, InvInit DEF LifeInv

(* A receipt that is not planned yet, or was forgotten, has no plan.       *)
LEMMA UnplannedStep ==
  ASSUME TypeInv, Unplanned, [Next]_vars
  PROVE  Unplanned'
<1> SUFFICES ASSUME NEW e \in Events, ~Planned(receipts'[e])
             PROVE  receipts'[e].plan = NoPlan
  BY DEF Unplanned, Planned
<1>1. CASE receipts'[e] = receipts[e]
  BY <1>1 DEF Unplanned, Planned
<1>2. CASE Transition(e)
  BY <1>2 DEF Transition, Moves, Unplanned, Planned
<1> QED BY <1>1, <1>2, ReceiptStep

LEMMA DraftedStep ==
  ASSUME TypeInv, Drafted, [Next]_vars
  PROVE  Drafted'
<1> SUFFICES ASSUME NEW v \in Workers, pc'[v] = "save"
             PROVE  job'[v].plan.kind # "none"
  BY DEF Drafted
<1> DEFINE Goal == job'[v].plan.kind # "none"
<1>1. job[v] \in JobType
  BY DEF TypeInv, TypeOK
<1>2. CASE pc'[v] = pc[v] /\ job'[v] = job[v]
  BY <1>2 DEF Drafted
<1>3. ASSUME NEW w \in Workers, w # v,
             \/ Call(w) \/ Fail(w) \/ \E d \in Deliveries : Deliver(w, d)
      PROVE  Goal
  BY <1>2, <1>3, OthersWait
<1>4. CASE ReadStock(v)
  BY <1>1, <1>4 DEF ReadStock, Quarantine, Leave, Goto, TypeInv, TypeOK, JobType,
     NoopPlan, NoPlan
<1>5. CASE ReadProjection(v)
  <2> DEFINE planned == [job[v].plan EXCEPT !.adjust =
                StoredAdjust(job[v].event, job[v].payload, job[v].plan)]
  <2>1. job'[v].plan \in {NoopPlan, planned, job[v].plan}
    <3>1. ~Leave(v)
      BY DEF Leave, Goto, TypeInv, TypeOK
    <3>2. PICK next \in {NoopPlan, planned, job[v].plan} :
            job' = [job EXCEPT ![v].plan = next]
      BY <1>5, <3>1 DEF ReadProjection, Quarantine
    <3> QED BY <1>1, <3>2 DEF TypeInv, TypeOK, JobType
  <2>2. job[v].plan \in Plan /\ job[v].plan.kind \in {"catalog", "stock"}
    BY <1>1, <1>5 DEF ReadProjection, TypeInv, Sound, JobType
  <2> QED BY <2>1, <2>2 DEF NoopPlan, NoPlan, Plan
<1>6. CASE SavePlan(v) \/ CheckFingerprint(v) \/ CheckCovers(v) \/ PutRecord(v)
           \/ SyncMany(v) \/ SendAdjust(v) \/ CommitCatalog(v) \/ PersistCatalog(v)
             \/ CatalogUnreadable(v)
           \/ MarkComplete(v) \/ Checkpoint(v) \/ Fail(v)
  BY <1>6 DEF SavePlan, CheckFingerprint, CheckCovers, PutRecord, SyncMany, SendAdjust,
     CommitCatalog, PersistCatalog, SnapshotCatalog, OpenTemp, WriteTemp,
     RenameTemp, CatalogUnreadable, MarkComplete, Checkpoint, Fail, Quarantine, Answered, StockPhase, Leave, Goto,
     TypeInv, TypeOK
<1>7. CASE MarkSent(v)
  BY <1>7 DEF MarkSent, RemotePhase, StockPhase, Leave, Goto, TypeInv, TypeOK
<1>8. ASSUME NEW d \in Deliveries, Deliver(v, d) PROVE Goal
  BY <1>8 DEF Deliver, ResumeAt, Goto, TypeInv, TypeOK
<1>9. CASE Crash \/ \E w \in Workers : CrashAfterFingerprint(w)
  BY <1>9 DEF Crash, CrashAfterFingerprint, Stop
<1>10. CASE \/ UNCHANGED vars \/ Delist
            \/ \E e \in Events : ReleaseQuarantine(e)
            \/ \E i \in Items, q \in Qty : MoveShopify(i, q)
            \/ \E q \in Qty : MoveService(q)
           \/ \E f \in Events : GetLate(f)
  BY <1>2, <1>10 DEF vars, Delist, ReleaseQuarantine, MoveShopify, MoveService, GetLate
<1> QED BY <1>3, <1>4, <1>5, <1>6, <1>7, <1>8, <1>9, <1>10 DEF Next, Call

(* Every step keeps what the refinement needs to know of receipts without a*)
(* plan.                                                                   *)
LEMMA LifeStep ==
  ASSUME QuietRelease
  PROVE  LifeInv /\ [Next]_vars => LifeInv'
<1> SUFFICES ASSUME LifeInv, [Next]_vars PROVE LifeInv'
  OBVIOUS
<1>1. TypeInv
  BY DEF LifeInv, Inv
<1> QED BY <1>1, InvStep, UnplannedStep, DraftedStep DEF LifeInv

(* Each transition is an abstract step.                                    *)
LEMMA StepRefines ==
  ASSUME LifeInv, [Next]_vars, NEW e \in Events
  PROVE  [Lifecycle(e)!Next]_(Lifecycle(e)!lifecycle)
<1> DEFINE r == receipts[e]
           s == receipts'[e]
           effect == Effected(receipts[e].plan)
<1>1. TypeInv /\ r \in Receipt /\ r.plan \in Plan
  BY DEF LifeInv, Inv, TypeInv, TypeOK, Receipt
<1>2. effect \in BOOLEAN /\ (effect)' \in BOOLEAN
  BY DEF Effected
<1>3. s.plan = r.plan /\ effect => (effect)'
  BY <1>1, EffectedStays DEF Effected
<1>4. s.plan = r.plan /\ UNCHANGED <<ledger, record, revision>> => (effect)' = effect
  BY DEF Effected, Published
<1>5. CASE s = r
  <2>1. r.plan = NoPlan => effect /\ (effect)'
    BY <1>5 DEF Effected, NoPlan
  <2>2. CASE (effect)' = effect
    BY <1>5, <2>2 DEF Lifecycle!lifecycle
  <2>3. CASE (effect)' # effect
    BY <1>2, <1>3, <1>5, <2>1, <2>3 DEF Lifecycle!Next, Lifecycle!TakeEffect
  <2> QED BY <2>2, <2>3
<1>6. CASE Transition(e) /\ UNCHANGED <<ledger, record, revision>>
  <2>1. CASE Moves(e, {"absent"}, "received")
    BY <2>1, <1>4, <1>6 DEF Moves, Lifecycle!Next, Lifecycle!Receive
  <2>2. CASE /\ r.state = "received" /\ s.state = "effect-planned"
             /\ \E w \in Workers : pc[w] = "save" /\ s.plan = job[w].plan
    <3>1. r.plan = NoPlan /\ s.plan # NoPlan
      BY <2>2 DEF LifeInv, Unplanned, Planned, Drafted, NoPlan
    <3> QED BY <2>2, <3>1 DEF Lifecycle!Next, Lifecycle!FixPlan
  <2>3. CASE Moves(e, {"effect-planned"}, "effect-sent")
    BY <2>3, <1>4, <1>6 DEF Moves, Lifecycle!Next, Lifecycle!Send
  <2>4. CASE /\ Moves(e, {"effect-planned", "effect-sent"}, "effect-complete")
             /\ \E w \in Workers : pc[w] = "complete" /\ job[w].event = e
    <3>1. effect
      BY <2>4 DEF LifeInv, Inv, Holds, Reached, ReachedBy, Past, Executing
    <3> QED BY <2>4, <3>1, <1>4, <1>6 DEF Moves, Lifecycle!Next, Lifecycle!Complete
  <2>5. CASE Moves(e, {"effect-complete"}, "checkpointed")
    BY <2>5, <1>4, <1>6 DEF Moves, Lifecycle!Next, Lifecycle!Checkpoint
  <2>6. CASE Moves(e, ReceiptState \ {"absent"}, "quarantined")
    <3>1. CASE r.state = "quarantined"
      BY <2>6, <3>1, <1>4, <1>6 DEF Moves, Lifecycle!lifecycle
    <3>2. CASE r.state # "quarantined"
      BY <2>6, <3>2, <1>4, <1>6 DEF Moves, Lifecycle!Next, Lifecycle!Quarantine
    <3> QED BY <3>1, <3>2
  <2>7. CASE r.state = "quarantined" /\ s.state = "absent" /\ s.plan = NoPlan
    BY <2>7 DEF Lifecycle!Next, Lifecycle!Release
  <2> QED BY <1>6, <2>1, <2>2, <2>3, <2>4, <2>5, <2>6, <2>7 DEF Transition
<1> QED BY <1>1, <1>5, <1>6, ReceiptStep DEF LifeInv

(* Every receipt lives the life ReceiptLifecycle promises: its plan is     *)
(* fixed once, it is complete only after the effect of that plan, and only *)
(* a release forgets it, whoever works on it and whatever fails.           *)
THEOREM ReceiptsLiveTheirLife ==
  ASSUME QuietRelease
  PROVE  Spec => LifecycleHolds
<1>1. Init => \A e \in Events : Lifecycle(e)!Init
  <2> SUFFICES ASSUME Init, NEW e \in Events PROVE Lifecycle(e)!Init
    OBVIOUS
  <2>1. receipts[e] = NoReceipt
    BY DEF Init
  <2> QED BY <2>1 DEF Lifecycle!Init, NoReceipt
<1>2. LifeInv /\ [Next]_vars =>
        [\A e \in Events : [Lifecycle(e)!Next]_(Lifecycle(e)!lifecycle)]_vars
  BY StepRefines
<1>3. Spec => []LifeInv
  BY LifeInit, LifeStep, PTL DEF Spec
<1> QED BY <1>1, <1>2, <1>3, PTL DEF Spec, LifecycleHolds

(***************************************************************************)
(* What an adjust may do at the service.  Every plan, in a receipt or with *)
(* a call, is Dated: its request carries a revision the service has        *)
(* reached, and while the service is still at that revision its stock is   *)
(* the stock the delta was computed from.                                  *)
(***************************************************************************)
Dated(e, plan, rev, stock) ==
  plan.adjust # None =>
    /\ plan.adjust.event = e
    /\ plan.adjust.revision <= rev
    /\ plan.adjust.revision = rev => stock + plan.adjust.delta = Total(plan.variants)

PlansDated ==
  /\ \A e \in Events : Dated(e, receipts[e].plan, revision, available)
  /\ \A w \in Workers : Dated(job[w].event, job[w].plan, revision, available)

(* A request the service has refused, and will refuse again.               *)
Refused(request) ==
  request \notin ledger /\ (request.revision < revision \/ KeyUsed(request))

ConflictsRefused ==
  \A e \in Events :
    receipts[e].state = "quarantined"
      /\ receipts[e].reason \in {"revision_conflict", "idempotency_conflict"}
      => receipts[e].plan.adjust # None /\ Refused(receipts[e].plan.adjust)

AdjustInv ==
  /\ Inv
  /\ PlansDated
  /\ ConflictsRefused

(* A step moves the service's stock only together with its revision, and   *)
(* its ledger only by an adjust at the current revision.                   *)
Applies(w) ==
  LET request == job[w].plan.adjust IN
  /\ pc[w] = "adjust" /\ request # None
  /\ ~KeyUsed(request) /\ request.revision = revision
  /\ ledger' = ledger \union {request}
  /\ available' = available + request.delta /\ revision' = revision + 1

(* The service's stock, revision and ledger move by one adjust, or by the  *)
(* world with the revision, or stay.                                       *)
LEMMA ServiceStep ==
  ASSUME TypeInv, [Next]_vars
  PROVE  \/ \E w \in Workers : Applies(w)
         \/ /\ UNCHANGED ledger
            /\ revision' \in {revision, revision + 1}
            /\ revision' = revision => available' = available
<1> DEFINE Goal == \/ \E w \in Workers : Applies(w)
                   \/ /\ UNCHANGED ledger
                      /\ revision' \in {revision, revision + 1}
                      /\ revision' = revision => available' = available
<1>0. revision + 1 # revision
  BY DEF TypeInv, TypeOK
<1>1. ASSUME NEW w \in Workers, SendAdjust(w) PROVE Goal
  <2>1. job[w].plan.adjust # None
    BY <1>1 DEF SendAdjust, TypeInv, Sound
  <2> QED BY <1>1, <2>1 DEF SendAdjust, Request, Applies
<1>2. ASSUME NEW w \in Workers, SyncMany(w) PROVE Goal
  BY <1>2, <1>0 DEF SyncMany
<1>3. ASSUME NEW w \in Workers, Call(w), ~SendAdjust(w), ~SyncMany(w) PROVE Goal
  BY <1>3 DEF Call, ReadStock, ReadProjection, SavePlan, CheckFingerprint,
     CheckCovers, MarkSent, PutRecord, CommitCatalog, PersistCatalog, SnapshotCatalog, OpenTemp, WriteTemp,
     RenameTemp, CatalogUnreadable, MarkComplete,
     Checkpoint, remote
<1>4. CASE \/ UNCHANGED vars \/ Crash \/ Delist
           \/ \E w \in Workers : Fail(w) \/ CrashAfterFingerprint(w)
           \/ \E w \in Workers, d \in Deliveries : Deliver(w, d)
           \/ \E e \in Events : ReleaseQuarantine(e)
           \/ \E i \in Items, q \in Qty : MoveShopify(i, q)
           \/ \E q \in Qty : MoveService(q)
           \/ \E f \in Events : GetLate(f)
  BY <1>0, <1>4 DEF vars, remote, Crash, Delist, Fail, CrashAfterFingerprint, Deliver,
     ReleaseQuarantine, MoveShopify, MoveService, GetLate
<1> QED BY <1>1, <1>2, <1>3, <1>4 DEF Next

(* Plans stay dated as the service moves.                                  *)
LEMMA DatedStays ==
  ASSUME TypeInv, [Next]_vars, NEW e, NEW plan \in Plan,
         Dated(e, plan, revision, available)
  PROVE  Dated(e, plan, revision', available')
<1>1. plan.adjust \in Adjust \union {None}
  BY PlanFields
<1>2. revision \in Nat /\ (plan.adjust # None => plan.adjust.revision \in Nat)
  BY <1>1 DEF TypeInv, TypeOK, Adjust
<1>3. CASE revision' = revision /\ available' = available
  BY <1>3 DEF Dated
<1>4. CASE revision' = revision + 1
  BY <1>2, <1>4 DEF Dated
<1>5. revision' = revision + 1 \/ (revision' = revision /\ available' = available)
  BY <1>2, ServiceStep DEF Applies
<1> QED BY <1>3, <1>4, <1>5

(* Refusals are final: the ledger gains only requests whose key is unused  *)
(* and whose revision is the current one.                                  *)
LEMMA RefusedStays ==
  ASSUME TypeInv, [Next]_vars, NEW request \in Adjust, Refused(request)
  PROVE  /\ request \notin ledger'
         /\ request.revision < revision' \/ \E r \in ledger' : SameKey(r, request)
<1>1. revision \in Nat /\ request.revision \in Nat
  BY DEF TypeInv, TypeOK, Adjust
<1>2. CASE UNCHANGED ledger /\ revision' \in {revision, revision + 1}
  BY <1>1, <1>2 DEF Refused, KeyUsed
<1>3. ASSUME NEW w \in Workers, Applies(w)
      PROVE  /\ request \notin ledger'
             /\ request.revision < revision' \/ \E r \in ledger' : SameKey(r, request)
  <2>1. request # job[w].plan.adjust
    <3>1. CASE request.revision < revision
      BY <1>1, <1>3, <3>1 DEF Applies
    <3>2. CASE KeyUsed(request)
      BY <1>3, <3>2 DEF Applies
    <3> QED BY <3>1, <3>2 DEF Refused
  <2> QED BY <1>1, <1>3, <2>1 DEF Applies, Refused, KeyUsed
<1> QED BY <1>2, <1>3, ServiceStep

(* Where a call's plan comes from: it kept it, drafted one without a       *)
(* request, computed one from the projection, or opened a receipt with it. *)
LEMMA JobPlanOrigin ==
  ASSUME TypeInv, [Next]_vars, NEW v \in Workers
  PROVE  \/ job'[v].event = job[v].event /\ job'[v].plan = job[v].plan
         \/ job'[v].plan.adjust = None
         \/ /\ pc[v] = "project" /\ UNCHANGED <<revision, available>>
            /\ job'[v].event = job[v].event
            /\ job'[v].plan = [job[v].plan EXCEPT !.adjust =
                 StoredAdjust(job[v].event, job[v].payload, job[v].plan)]
         \/ \E d \in Deliveries :
              /\ job'[v].event = d.event
              /\ job'[v].plan = Opened(d.event, d.payload).plan
              /\ UNCHANGED <<revision, available>>
<1> DEFINE Goal ==
      \/ job'[v].event = job[v].event /\ job'[v].plan = job[v].plan
      \/ job'[v].plan.adjust = None
      \/ /\ pc[v] = "project" /\ UNCHANGED <<revision, available>>
         /\ job'[v].event = job[v].event
         /\ job'[v].plan = [job[v].plan EXCEPT !.adjust =
              StoredAdjust(job[v].event, job[v].payload, job[v].plan)]
      \/ \E d \in Deliveries :
           /\ job'[v].event = d.event
           /\ job'[v].plan = Opened(d.event, d.payload).plan
           /\ UNCHANGED <<revision, available>>
<1>1. job[v] \in JobType /\ NoJob.plan.adjust = None /\ NoopPlan.adjust = None
  BY DEF TypeInv, TypeOK, NoJob, NoPlan, NoopPlan
<1>2. ASSUME Leave(v) PROVE Goal
  BY <1>1, <1>2 DEF Leave, TypeInv, TypeOK
<1>3. ASSUME NEW w \in Workers, w # v,
             \/ Call(w) \/ Fail(w) \/ \E d \in Deliveries : Deliver(w, d)
      PROVE  Goal
  BY <1>3, OthersWait
<1>4. CASE ReadStock(v)
  BY <1>1, <1>2, <1>4 DEF ReadStock, Quarantine, TypeInv, TypeOK, JobType
<1>5. CASE ReadProjection(v)
  <2>1. CASE Leave(v)
    BY <2>1, <1>2
  <2>2. CASE \E next : job' = [job EXCEPT ![v].plan = next]
                       /\ next \in {job[v].plan, NoopPlan}
    BY <2>2, <1>1 DEF TypeInv, TypeOK, JobType
  <2>3. CASE job' = [job EXCEPT ![v].plan = [job[v].plan EXCEPT !.adjust =
               StoredAdjust(job[v].event, job[v].payload, job[v].plan)]]
    BY <2>3, <1>1, <1>5 DEF ReadProjection, TypeInv, TypeOK, JobType, remote
  <2> QED BY <1>5, <2>1, <2>2, <2>3 DEF ReadProjection, Quarantine
<1>6. CASE SavePlan(v) \/ MarkSent(v)
  BY <1>1, <1>2, <1>6 DEF SavePlan, MarkSent, TypeInv, TypeOK, JobType
<1>7. CASE CheckFingerprint(v) \/ CheckCovers(v) \/ PutRecord(v) \/ SyncMany(v)
           \/ SendAdjust(v) \/ CommitCatalog(v) \/ PersistCatalog(v)
             \/ CatalogUnreadable(v) \/ MarkComplete(v)
           \/ Checkpoint(v) \/ Fail(v)
  BY <1>2, <1>7 DEF CheckFingerprint, CheckCovers, PutRecord, SyncMany, SendAdjust,
     CommitCatalog, PersistCatalog, SnapshotCatalog, OpenTemp, WriteTemp,
     RenameTemp, CatalogUnreadable, MarkComplete, Checkpoint, Fail, Quarantine, Answered
<1>8. ASSUME NEW d \in Deliveries, Deliver(v, d) PROVE Goal
  BY <1>1, <1>8 DEF Deliver, remote, TypeInv, TypeOK
<1>9. CASE \/ UNCHANGED vars \/ Crash \/ Delist
           \/ \E w \in Workers : CrashAfterFingerprint(w)
           \/ \E e \in Events : ReleaseQuarantine(e)
           \/ \E i \in Items, q \in Qty : MoveShopify(i, q)
           \/ \E q \in Qty : MoveService(q)
           \/ \E f \in Events : GetLate(f)
  BY <1>1, <1>9 DEF vars, Crash, Delist, CrashAfterFingerprint, Stop, ReleaseQuarantine,
     MoveShopify, MoveService, GetLate
<1> QED BY <1>3, <1>4, <1>5, <1>6, <1>7, <1>8, <1>9 DEF Next, Call

LEMMA ReceiptPlanOrigin ==
  ASSUME TypeInv, [Next]_vars, NEW e \in Events
  PROVE  \/ receipts'[e].plan = receipts[e].plan
         \/ receipts'[e].plan.adjust = None
         \/ \E w \in Workers : job[w].event = e /\ receipts'[e].plan = job[w].plan
<1> DEFINE Goal ==
      \/ receipts'[e].plan = receipts[e].plan
      \/ receipts'[e].plan.adjust = None
      \/ \E w \in Workers : job[w].event = e /\ receipts'[e].plan = job[w].plan
<1>1. receipts[e] \in Receipt /\ NoReceipt.plan.adjust = None /\ NoReceipt \in Receipt
  BY NoJobType DEF TypeInv, TypeOK, NoReceipt, NoPlan
<1>2. ASSUME NEW w \in Workers, NEW d \in Deliveries, Deliver(w, d) PROVE Goal
  BY <1>1, <1>2 DEF TypeInv, TypeOK, Deliver, Opened, Receipt
<1>3. ASSUME NEW w \in Workers, NEW reason, Quarantine(w, reason) PROVE Goal
  BY <1>1, <1>3 DEF TypeInv, TypeOK, Receipt, Quarantine
<1>4. ASSUME NEW w \in Workers, Call(w) PROVE Goal
  <2>1. CASE ReadStock(w) \/ ReadProjection(w) \/ CheckFingerprint(w) \/ SyncMany(w)
             \/ SendAdjust(w)
    BY <2>1, <1>3 DEF ReadStock, ReadProjection, CheckFingerprint, SyncMany,
       SendAdjust, bridge
  <2>2. CASE SavePlan(w)
    <3>1. CASE UNCHANGED receipts
      BY <3>1
    <3>2. CASE receipts' = [receipts EXCEPT ![job[w].event] =
                 [@ EXCEPT !.state = "effect-planned", !.plan = job[w].plan]]
      <4>1. CASE e = job[w].event
        <5>1. receipts'[e] =
                [receipts[e] EXCEPT !.state = "effect-planned", !.plan = job[w].plan]
          BY <3>2, <4>1 DEF TypeInv, TypeOK
        <5> QED BY <1>1, <4>1, <5>1 DEF Receipt
      <4>2. CASE e # job[w].event
        BY <3>2, <4>2 DEF TypeInv, TypeOK
      <4> QED BY <4>1, <4>2
    <3> QED BY <2>2, <3>1, <3>2 DEF SavePlan
  <2>3. CASE MarkSent(w) \/ MarkComplete(w) \/ Checkpoint(w)
    BY <1>1, <2>3 DEF TypeInv, TypeOK, Receipt, MarkSent, MarkComplete, Checkpoint
  <2>4. CASE PutRecord(w) \/ CheckCovers(w) \/ CommitCatalog(w) \/ PersistCatalog(w)
             \/ CatalogUnreadable(w)
    BY <2>4 DEF PutRecord, CheckCovers, CommitCatalog, PersistCatalog, SnapshotCatalog, OpenTemp, WriteTemp,
     RenameTemp, CatalogUnreadable, bridge
  <2> QED BY <1>4, <2>1, <2>2, <2>3, <2>4 DEF Call
<1>5. ASSUME NEW f \in Events, ReleaseQuarantine(f) PROVE Goal
  BY <1>1, <1>5 DEF TypeInv, TypeOK, ReleaseQuarantine
<1>6. CASE \/ UNCHANGED vars \/ Crash \/ Delist
           \/ \E w \in Workers : Fail(w) \/ CrashAfterFingerprint(w)
           \/ \E i \in Items, q \in Qty : MoveShopify(i, q)
           \/ \E q \in Qty : MoveService(q)
           \/ \E f \in Events : GetLate(f)
  BY <1>6 DEF vars, bridge, Crash, Delist, Fail, CrashAfterFingerprint, MoveShopify,
     MoveService, GetLate
<1> QED BY <1>2, <1>4, <1>5, <1>6 DEF Next

LEMMA StoredAdjustDated ==
  ASSUME TypeInv, NEW v \in Workers, pc[v] = "project"
  PROVE  LET plan == job[v].plan
             request == StoredAdjust(job[v].event, job[v].payload, plan)
         IN  Dated(job[v].event, [plan EXCEPT !.adjust = request], revision, available)
<1>1. job[v].plan \in Plan /\ job[v].plan.kind \in {"catalog", "stock"}
      /\ job[v].event \in Events /\ job[v].payload \in Payload
  BY DEF TypeInv, TypeOK, JobType, Sound
<1>2. Total(job[v].plan.variants) \in Nat /\ available \in Int /\ revision \in Nat
  BY <1>1, PlanFields, TotalType DEF TypeInv, TypeOK
<1> DEFINE request == StoredAdjust(job[v].event, job[v].payload, job[v].plan)
           plan == [job[v].plan EXCEPT !.adjust = request]
<1>3. plan.adjust = request /\ plan.variants = job[v].plan.variants
  BY <1>1 DEF Plan
<1>4. request # None =>
        /\ request.event = job[v].event /\ request.revision = revision
        /\ request.delta = Total(job[v].plan.variants) - available
  BY DEF StoredAdjust, Delta
<1> HIDE DEF request, plan
<1>5. Dated(job[v].event, plan, revision, available)
  BY <1>2, <1>3, <1>4 DEF Dated
<1> QED BY <1>5 DEF request, plan

LEMMA OpenedDated ==
  ASSUME TypeInv, PlansDated, NEW e \in Events, NEW p \in Payload
  PROVE  Dated(e, Opened(e, p).plan, revision, available)
BY DEF TypeInv, TypeOK, Receipt, PlansDated, Opened, NoReceipt, NoPlan, Dated

(* Plans stay dated: what moves the stock moves the revision past them.    *)
LEMMA PlansDatedStep ==
  ASSUME TypeInv, PlansDated, [Next]_vars
  PROVE  PlansDated'
<1>1. ASSUME NEW e \in Events PROVE Dated(e, receipts'[e].plan, revision', available')
  <2>1. CASE receipts'[e].plan = receipts[e].plan
    BY <2>1, DatedStays DEF PlansDated, TypeInv, TypeOK, Receipt
  <2>2. CASE receipts'[e].plan.adjust = None
    BY <2>2 DEF Dated
  <2>3. ASSUME NEW w \in Workers, job[w].event = e, receipts'[e].plan = job[w].plan
        PROVE  Dated(e, receipts'[e].plan, revision', available')
    BY <2>3, DatedStays DEF PlansDated, TypeInv, TypeOK, JobType
  <2> QED BY <2>1, <2>2, <2>3, ReceiptPlanOrigin
<1>2. ASSUME NEW v \in Workers
      PROVE  Dated(job'[v].event, job'[v].plan, revision', available')
  <2>1. CASE job'[v].event = job[v].event /\ job'[v].plan = job[v].plan
    BY <2>1, DatedStays DEF PlansDated, TypeInv, TypeOK, JobType
  <2>2. CASE job'[v].plan.adjust = None
    BY <2>2 DEF Dated
  <2>3. CASE /\ pc[v] = "project" /\ UNCHANGED <<revision, available>>
             /\ job'[v].event = job[v].event
             /\ job'[v].plan = [job[v].plan EXCEPT !.adjust =
                  StoredAdjust(job[v].event, job[v].payload, job[v].plan)]
    BY <2>3, StoredAdjustDated
  <2>4. ASSUME NEW d \in Deliveries, job'[v].event = d.event,
               job'[v].plan = Opened(d.event, d.payload).plan,
               UNCHANGED <<revision, available>>
        PROVE  Dated(job'[v].event, job'[v].plan, revision', available')
    <3>1. d.event \in Events /\ d.payload \in Payload
      BY InboundAssumption
    <3> QED BY <2>4, <3>1, OpenedDated
  <2> QED BY <2>1, <2>2, <2>3, <2>4, JobPlanOrigin
<1> QED BY <1>1, <1>2 DEF PlansDated, Dated

(* A conflict is recorded only when the service refuses the request.       *)
Conflict == {"revision_conflict", "idempotency_conflict"}
InConflict(r) == r.state = "quarantined" /\ r.reason \in Conflict

(* The service refuses the request of call w, whose receipt is e.          *)
Refuses(w, e) ==
  LET request == job[w].plan.adjust IN
  /\ pc[w] = "adjust" /\ job[w].event = e
  /\ request \notin ledger /\ (request.revision # revision \/ KeyUsed(request))
  /\ UNCHANGED <<revision, ledger>>

LEMMA ConflictOrigin ==
  ASSUME TypeInv, [Next]_vars, NEW e \in Events, InConflict(receipts'[e])
  PROVE  /\ receipts'[e].plan = receipts[e].plan
         /\ \/ InConflict(receipts[e])
            \/ \E w \in Workers : Refuses(w, e)
<1> DEFINE Goal == /\ receipts'[e].plan = receipts[e].plan
                   /\ \/ InConflict(receipts[e])
                      \/ \E w \in Workers : Refuses(w, e)
<1>1. receipts[e] \in Receipt /\ ~InConflict(NoReceipt)
  BY DEF TypeInv, TypeOK, InConflict, NoReceipt
<1>2. ASSUME NEW w \in Workers, NEW d \in Deliveries, Deliver(w, d) PROVE Goal
  <2>1. receipts'[e] = receipts[e] \/ (e = d.event /\ receipts'[e] = Opened(e, d.payload))
    BY <1>2 DEF TypeInv, TypeOK, Deliver
  <2>2. Opened(e, d.payload) = receipts[e] \/ ~InConflict(Opened(e, d.payload))
    BY <1>1 DEF Opened, InConflict, Conflict, NoReceipt, Receipt
  <2> QED BY <2>1, <2>2
<1>3. ASSUME NEW w \in Workers, NEW reason, Quarantine(w, reason)
      PROVE  \/ receipts'[e] = receipts[e]
             \/ /\ e = job[w].event /\ receipts'[e].reason = reason
                /\ receipts'[e].plan = receipts[e].plan
  BY <1>1, <1>3 DEF TypeInv, TypeOK, Receipt, Quarantine
<1>4. ASSUME NEW w \in Workers, Call(w) PROVE Goal
  <2>1. CASE ReadStock(w) \/ ReadProjection(w) \/ CheckFingerprint(w) \/ SyncMany(w)
    BY <2>1, <1>3 DEF ReadStock, ReadProjection, CheckFingerprint, SyncMany, bridge,
       InConflict, Conflict
  <2>2. CASE SendAdjust(w)
    <3>1. CASE UNCHANGED receipts
      BY <3>1
    <3>2. ASSUME NEW reason, Quarantine(w, reason), UNCHANGED <<revision, ledger>>,
                 \/ ~KeyUsed(Request(w)) /\ Request(w).revision # revision
                 \/ KeyUsed(Request(w)) /\ Request(w) \notin ledger
          PROVE  Goal
      <4>1. ~KeyUsed(Request(w)) => Request(w) \notin ledger
        BY DEF KeyUsed, SameKey
      <4>2. pc[w] = "adjust"
        BY <2>2 DEF SendAdjust
      <4> QED BY <3>2, <1>3, <4>1, <4>2 DEF Refuses, Request
    <3> QED BY <2>2, <3>1, <3>2 DEF SendAdjust
  <2>3. CASE SavePlan(w)
    <3>1. CASE receipts'[e] = receipts[e]
      BY <3>1
    <3>2. CASE receipts'[e] =
                 [receipts[e] EXCEPT !.state = "effect-planned", !.plan = job[w].plan]
      BY <1>1, <3>2 DEF Receipt, InConflict
    <3> QED BY <2>3, <3>1, <3>2 DEF SavePlan, TypeInv, TypeOK
  <2>4. CASE MarkSent(w) \/ MarkComplete(w) \/ Checkpoint(w)
    BY <1>1, <2>4 DEF TypeInv, TypeOK, Receipt, MarkSent, MarkComplete, Checkpoint,
       InConflict
  <2>5. CASE PutRecord(w) \/ CheckCovers(w) \/ CommitCatalog(w) \/ PersistCatalog(w)
             \/ CatalogUnreadable(w)
    BY <2>5 DEF PutRecord, CheckCovers, CommitCatalog, PersistCatalog, SnapshotCatalog, OpenTemp, WriteTemp,
     RenameTemp, CatalogUnreadable, bridge
  <2> QED BY <1>4, <2>1, <2>2, <2>3, <2>4, <2>5 DEF Call
<1>5. ASSUME NEW f \in Events, ReleaseQuarantine(f) PROVE Goal
  BY <1>1, <1>5 DEF TypeInv, TypeOK, ReleaseQuarantine
<1>6. CASE \/ UNCHANGED vars \/ Crash \/ Delist
           \/ \E w \in Workers : Fail(w) \/ CrashAfterFingerprint(w)
           \/ \E i \in Items, q \in Qty : MoveShopify(i, q)
           \/ \E q \in Qty : MoveService(q)
           \/ \E f \in Events : GetLate(f)
  BY <1>6 DEF vars, bridge, Crash, Delist, Fail, CrashAfterFingerprint, MoveShopify,
     MoveService, GetLate
<1> QED BY <1>2, <1>4, <1>5, <1>6 DEF Next

(* A refused request stays refused: the revision never goes back and the   *)
(* ledger never forgets.                                                   *)
LEMMA ConflictsRefusedStep ==
  ASSUME AdjustInv, [Next]_vars
  PROVE  ConflictsRefused'
<1>0. TypeInv
  BY DEF AdjustInv, Inv
<1> SUFFICES ASSUME NEW e \in Events, InConflict(receipts'[e])
             PROVE  /\ receipts'[e].plan.adjust # None
                    /\ receipts'[e].plan.adjust \notin ledger'
                    /\ \/ receipts'[e].plan.adjust.revision < revision'
                       \/ \E r \in ledger' : SameKey(r, receipts'[e].plan.adjust)
  BY DEF ConflictsRefused, InConflict, Conflict, Refused, KeyUsed
<1> DEFINE request == receipts[e].plan.adjust
<1>1. receipts'[e].plan = receipts[e].plan
  BY <1>0, ConflictOrigin
<1>2. request # None /\ Refused(request)
  <2>1. CASE InConflict(receipts[e])
    BY <2>1 DEF AdjustInv, ConflictsRefused, InConflict, Conflict
  <2>2. ASSUME NEW w \in Workers, Refuses(w, e) PROVE request # None /\ Refused(request)
    <3>1. job[w].plan = receipts[e].plan /\ request # None
      BY <1>0, <2>2 DEF AdjustInv, Inv, Holds, Executing, TypeInv, Sound, Refuses
    <3>2. request \in Adjust
      BY <1>0, <3>1, PlanFields DEF TypeInv, TypeOK, Receipt
    <3>3. request.revision <= revision /\ request.revision \in Nat /\ revision \in Nat
      BY <1>0, <3>1, <3>2 DEF AdjustInv, PlansDated, Dated, Adjust, TypeInv, TypeOK
    <3> QED BY <2>2, <3>1, <3>3 DEF Refuses, Refused
  <2> QED BY <1>0, <2>1, <2>2, ConflictOrigin
<1>3. request \in Adjust
  BY <1>0, <1>2, PlanFields DEF TypeInv, TypeOK, Receipt
<1> QED BY <1>0, <1>1, <1>2, <1>3, RefusedStays

LEMMA AdjustInvInit == Init => AdjustInv
<1> SUFFICES ASSUME Init PROVE AdjustInv
  OBVIOUS
<1>1. PlansDated
  BY DEF Init, PlansDated, Dated, NoReceipt, NoJob, NoPlan
<1>2. ConflictsRefused
  BY DEF Init, ConflictsRefused, NoReceipt
<1> QED BY <1>1, <1>2, InvInit DEF AdjustInv

LEMMA AdjustInvStep ==
  ASSUME QuietRelease
  PROVE  AdjustInv /\ [Next]_vars => AdjustInv'
<1> SUFFICES ASSUME AdjustInv, [Next]_vars PROVE AdjustInv'
  OBVIOUS
<1>1. Inv'
  BY InvStep DEF AdjustInv
<1>2. PlansDated'
  BY PlansDatedStep DEF AdjustInv, Inv
<1> QED BY <1>1, <1>2, ConflictsRefusedStep DEF AdjustInv

(* Plans are dated and conflicts refused in every state, as long as the    *)
(* operator releases only what no call is working on.                      *)
THEOREM AdjustInvHolds ==
  ASSUME QuietRelease
  PROVE  Spec => []AdjustInv
BY AdjustInvInit, AdjustInvStep, PTL DEF Spec

(* A receipt quarantined for a conflict has moved no stock and never will, *)
(* so that an operator may release it.                                     *)
THEOREM ConflictsMoveNothing ==
  ASSUME QuietRelease
  PROVE  Spec => []ConflictMeansUnapplied
<1>1. AdjustInv => ConflictMeansUnapplied
  BY DEF AdjustInv, ConflictsRefused, Refused, ConflictMeansUnapplied
<1> QED BY <1>1, AdjustInvHolds, PTL

DatedInv == TypeInv /\ PlansDated

(* An adjust at the current revision leads to the total of its plan, in    *)
(* every state; this needs nothing of the operator.                        *)
THEOREM DatedInvHolds == Spec => []DatedInv
<1>1. Init => DatedInv
  BY AdjustInvInit DEF AdjustInv, Inv, DatedInv
<1>2. DatedInv /\ [Next]_vars => DatedInv'
  BY TypeInvStep, PlansDatedStep DEF DatedInv
<1> QED BY <1>1, <1>2, PTL DEF Spec

(* Every adjust that takes effect makes the service's stock the total its  *)
(* plan was built for, whatever happened since the plan was stored.        *)
THEOREM AdjustsHitTheirTarget == Spec => AdjustHitsTarget
<1> DEFINE Hits == \A request \in ledger' \ ledger :
                     \E w \in Workers :
                       /\ job[w].plan.adjust = request
                       /\ available' = Total(job[w].plan.variants)
<1>1. DatedInv /\ [Next]_vars => [Hits]_vars
  <2> SUFFICES ASSUME DatedInv, [Next]_vars, NEW request \in ledger' \ ledger
               PROVE  \E w \in Workers :
                        /\ job[w].plan.adjust = request
                        /\ available' = Total(job[w].plan.variants)
    OBVIOUS
  <2>1. PICK w \in Workers : Applies(w)
    BY ServiceStep DEF DatedInv
  <2>2. job[w].plan.adjust = request
    BY <2>1 DEF Applies
  <2>3. available' = Total(job[w].plan.variants)
    BY <2>1 DEF Applies, DatedInv, PlansDated, Dated
  <2> QED BY <2>2, <2>3
<1> QED BY <1>1, DatedInvHolds, PTL DEF Spec, AdjustHitsTarget

(***************************************************************************)
(* Without releases a key names one request.  The ledger holds only        *)
(* requests that their receipts still carry.                               *)
(***************************************************************************)
Owned ==
  \A r \in ledger :
    /\ r.event \in Events
    /\ Planned(receipts[r.event]) /\ receipts[r.event].plan.adjust = r

OwnedInv ==
  /\ AdjustInv
  /\ Owned
  /\ KeyNamesOneRequest

(* Without a release, a request under an event's key is the one its receipt*)
(* remembers.                                                              *)
LEMMA OwnedStep ==
  ASSUME MaxReleases = 0, OwnedInv, [Next]_vars
  PROVE  Owned'
<1>1. TypeInv /\ \A e \in Events : ~ReleaseQuarantine(e)
  BY DEF OwnedInv, AdjustInv, Inv, TypeInv, TypeOK, ReleaseQuarantine, Spend
<1>2. ASSUME NEW r \in ledger
      PROVE  /\ r.event \in Events
             /\ Planned(receipts'[r.event]) /\ receipts'[r.event].plan.adjust = r
  BY <1>1, PlannedStays DEF OwnedInv, Owned
<1>3. ASSUME NEW w \in Workers, Applies(w)
      PROVE  LET r == job[w].plan.adjust IN
             /\ r.event \in Events
             /\ Planned(receipts'[r.event]) /\ receipts'[r.event].plan.adjust = r
  <2> DEFINE e == job[w].event
  <2>1. e \in Events /\ job[w].plan.adjust.event = e
    BY <1>1, <1>3 DEF OwnedInv, AdjustInv, PlansDated, Dated, TypeInv, Sound, Applies
  <2>2. Planned(receipts[e]) /\ receipts[e].plan = job[w].plan
    BY <1>3 DEF OwnedInv, AdjustInv, Inv, Holds, Executing, Applies, Planned
  <2> QED BY <1>1, <2>1, <2>2, PlannedStays
<1>4. CASE UNCHANGED ledger
  BY <1>2, <1>4 DEF Owned, Planned
<1>5. ASSUME NEW w \in Workers, Applies(w) PROVE Owned'
  <2>1. ledger' = ledger \union {job[w].plan.adjust}
    BY <1>5 DEF Applies
  <2> QED BY <1>2, <1>3, <1>5, <2>1 DEF Owned, Planned
<1> QED BY <1>1, <1>4, <1>5, ServiceStep

LEMMA ReasonOrigin ==
  ASSUME TypeInv, [Next]_vars, NEW e \in Events,
         receipts'[e].reason = "idempotency_conflict"
  PROVE  \/ receipts[e].reason = "idempotency_conflict"
         \/ \E w \in Workers : pc[w] = "adjust" /\ KeyUsed(Request(w)) /\ Request(w) \notin ledger
<1> DEFINE Goal == \/ receipts[e].reason = "idempotency_conflict"
                   \/ \E w \in Workers :
                        pc[w] = "adjust" /\ KeyUsed(Request(w)) /\ Request(w) \notin ledger
<1>1. receipts[e] \in Receipt
  BY DEF TypeInv, TypeOK
<1>2. ASSUME NEW w \in Workers, NEW d \in Deliveries, Deliver(w, d) PROVE Goal
  <2>1. receipts'[e] = receipts[e] \/ receipts'[e] = Opened(e, d.payload)
    BY <1>2 DEF TypeInv, TypeOK, Deliver
  <2> QED BY <1>1, <2>1 DEF Opened, NoReceipt, Receipt
<1>3. ASSUME NEW w \in Workers, NEW reason, Quarantine(w, reason)
      PROVE  receipts'[e] = receipts[e] \/ receipts'[e].reason = reason
  BY <1>1, <1>3 DEF TypeInv, TypeOK, Receipt, Quarantine
<1>4. ASSUME NEW w \in Workers, Call(w) PROVE Goal
  <2>1. CASE ReadStock(w) \/ ReadProjection(w) \/ CheckFingerprint(w) \/ SyncMany(w)
    BY <2>1, <1>3 DEF ReadStock, ReadProjection, CheckFingerprint, SyncMany, bridge
  <2>2. CASE SendAdjust(w)
    BY <2>2, <1>3 DEF SendAdjust
  <2>3. CASE SavePlan(w)
    <3>1. CASE receipts'[e] = receipts[e]
      BY <3>1
    <3>2. CASE receipts'[e] =
                 [receipts[e] EXCEPT !.state = "effect-planned", !.plan = job[w].plan]
      BY <1>1, <3>2 DEF Receipt
    <3> QED BY <2>3, <3>1, <3>2 DEF SavePlan, TypeInv, TypeOK
  <2>4. CASE MarkSent(w) \/ MarkComplete(w) \/ Checkpoint(w)
    BY <1>1, <2>4 DEF TypeInv, TypeOK, Receipt, MarkSent, MarkComplete, Checkpoint
  <2>5. CASE PutRecord(w) \/ CheckCovers(w) \/ CommitCatalog(w) \/ PersistCatalog(w)
             \/ CatalogUnreadable(w)
    BY <2>5 DEF PutRecord, CheckCovers, CommitCatalog, PersistCatalog, SnapshotCatalog, OpenTemp, WriteTemp,
     RenameTemp, CatalogUnreadable, bridge
  <2> QED BY <1>4, <2>1, <2>2, <2>3, <2>4, <2>5 DEF Call
<1>5. ASSUME NEW f \in Events, ReleaseQuarantine(f) PROVE Goal
  BY <1>1, <1>5 DEF TypeInv, TypeOK, ReleaseQuarantine, NoReceipt
<1>6. CASE \/ UNCHANGED vars \/ Crash \/ Delist
           \/ \E w \in Workers : Fail(w) \/ CrashAfterFingerprint(w)
           \/ \E i \in Items, q \in Qty : MoveShopify(i, q)
           \/ \E q \in Qty : MoveService(q)
           \/ \E f \in Events : GetLate(f)
  BY <1>6 DEF vars, bridge, Crash, Delist, Fail, CrashAfterFingerprint, MoveShopify,
     MoveService, GetLate
<1> QED BY <1>2, <1>4, <1>5, <1>6 DEF Next

(* So the service never finds a key used by another request.               *)
LEMMA KeyStep ==
  ASSUME OwnedInv, [Next]_vars
  PROVE  KeyNamesOneRequest'
<1>1. TypeInv
  BY DEF OwnedInv, AdjustInv, Inv
<1>2. ASSUME NEW w \in Workers, pc[w] = "adjust", KeyUsed(Request(w))
      PROVE  Request(w) \in ledger
  <2>1. PICK r \in ledger : SameKey(r, Request(w))
    BY <1>2 DEF KeyUsed
  <2>2. Request(w).event = job[w].event /\ job[w].event \in Events
    BY <1>1, <1>2 DEF OwnedInv, AdjustInv, PlansDated, Dated, TypeInv, Sound, Request
  <2>3. receipts[job[w].event].plan.adjust = r
    BY <2>1, <2>2 DEF OwnedInv, Owned, SameKey
  <2>4. receipts[job[w].event].plan = job[w].plan
    BY <1>2 DEF OwnedInv, AdjustInv, Inv, Holds, Executing
  <2> QED BY <2>1, <2>3, <2>4 DEF Request
<1> QED BY <1>1, <1>2, ReasonOrigin DEF OwnedInv, KeyNamesOneRequest

(* While the operator releases nothing, every send of a receipt's adjust   *)
(* carries the body its key was first used with.                           *)
THEOREM KeysNameOneRequest ==
  ASSUME QuietRelease, MaxReleases = 0
  PROVE  Spec => []KeyNamesOneRequest
<1>1. Init => OwnedInv
  <2>1. Init => Owned
    BY DEF Init, Owned
  <2>2. Init => KeyNamesOneRequest
    <3>1. NoReceipt.reason # "idempotency_conflict"
      BY Zenon DEF NoReceipt
    <3> QED BY <3>1 DEF Init, KeyNamesOneRequest
  <2> QED BY <2>1, <2>2, AdjustInvInit DEF OwnedInv
<1>2. OwnedInv /\ [Next]_vars => OwnedInv'
  BY AdjustInvStep, OwnedStep, KeyStep DEF OwnedInv
<1>3. OwnedInv => KeyNamesOneRequest
  BY DEF OwnedInv
<1> QED BY <1>1, <1>2, <1>3, PTL DEF Spec
=============================================================================
