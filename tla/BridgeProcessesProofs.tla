------------------------ MODULE BridgeProcessesProofs ------------------------
(***************************************************************************)
(* Proofs that a completed receipt tells the truth whatever the processes  *)
(* do to each other's receipts (CompleteMeansReached), and that a merchant *)
(* action has one receipt and moves the stock once as long as its openings *)
(* are left in peace (OneReceiptForAnAction, OneMoveForEachAction).        *)
(***************************************************************************)
EXTENDS BridgeProcesses, TLAPS

(***************************************************************************)
(* The invariant.  Its parts are stated of a receipt or a process and of   *)
(* the world around it, so that a step can be seen to age the world for    *)
(* all those that do not take part in it.                                  *)
(***************************************************************************)
World ==
  [reached : SUBSET Body, replaced : SUBSET Body, revision : [Items -> Nat],
   available : [Items -> Int]]

now ==
  [reached |-> reached, replaced |-> replaced, revision |-> revision,
   available |-> available]

(* A later world: more is reached, and stock that changed has a new        *)
(* revision.                                                               *)
Later(w, x) ==
  /\ w.reached \subseteq x.reached /\ w.replaced \subseteq x.replaced
  /\ \A i \in Items :
       \/ x.revision[i] > w.revision[i]
       \/ x.revision[i] = w.revision[i] /\ x.available[i] = w.available[i]

(* A plan for a body: either the service has had the level, or the adjust  *)
(* leads to it, at the revision it was computed at or never.               *)
GoodPlan(plan, body, w) ==
  /\ plan = None => body \in w.reached
  /\ plan \notin {None, Unplanned} =>
       /\ plan.body = body
       /\ plan.revision <= w.revision[body.item]
       /\ plan.revision = w.revision[body.item] =>
            w.available[body.item] + plan.delta = body.level

(* What holds of a receipt in its file and in the memory of any process.   *)
GoodReceipt(r, w) ==
  /\ (r.state = "absent") <=> (r.body = None)
  /\ r.state \in {"effect-planned", "effect-sent"} => r.plan # Unplanned
  /\ r.plan # Unplanned => r.body # None /\ GoodPlan(r.plan, r.body, w)
  /\ r.state \in {"effect-complete", "checkpointed"} =>
       r.body \in w.reached \union w.replaced

Linking == {"create", "link-delivery", "link-event"}
Operating == {"read", "write"}

(* A process past the opening, which works on a receipt.                   *)
Attached(phase, j) ==
  \/ phase \in {"project", "read", "write", "adjust", "commit"}
  \/ phase \in {"link-delivery", "link-event"} /\ j.receipt.state # "quarantined"

(* A process that carries out the plan it has in memory.                   *)
Executing(phase, j) ==
  phase \in {"adjust", "commit"} \/ (phase \in Operating /\ j.op \in {"savePlan", "markSent"})

(* A process that is done with the service.                                *)
Done(phase, j) == phase = "commit" \/ (phase \in Operating /\ j.op = "markComplete")

GoodProcess(phase, j, files0, sent, w) ==
  /\ phase # "idle" => j.delivery \in sent
  /\ phase \notin {"idle", "event-alias"} => j.primary \in Keys
  /\ phase \in Operating => j.op # "none"
  /\ GoodReceipt(j.receipt, w)
  /\ phase \in Linking =>
       /\ j.receipt.state # "absent"
       /\ j.plan = j.receipt.plan
       /\ j.receipt.state # "quarantined" => j.receipt.body = j.delivery.body
  /\ Attached(phase, j) =>
       /\ files0[j.primary].state # "absent"
       /\ files0[j.primary].body \in {j.delivery.body} \union w.replaced
  /\ phase = "write" =>
       /\ j.receipt.state # "absent"
       /\ j.receipt.body \in {j.delivery.body} \union w.replaced
       /\ j.op = "savePlan" => j.receipt.body = j.delivery.body
       /\ j.op = "markSent" => j.receipt.plan # Unplanned
       /\ j.op = "checkpoint" => j.receipt.state = "effect-complete"
  /\ Executing(phase, j) =>
       j.plan # Unplanned /\ GoodPlan(j.plan, j.delivery.body, w)
  /\ phase = "adjust" => j.plan # None
  /\ Done(phase, j) => j.delivery.body \in w.reached

Inv ==
  /\ ProcessTypeOK
  /\ \A k \in Keys : GoodReceipt(receipts[k], now)
  /\ \A p \in Procs : GoodProcess(pc[p], job[p], receipts, begun, now)
  /\ \A b \in ledger : b.body \in reached
  /\ \A d \in begun : available[d.body.item] = d.body.level => d.body \in reached

(***************************************************************************)
(* The world ages.                                                         *)
(***************************************************************************)
LEMMA PlanAges ==
  ASSUME NEW plan \in Plan, NEW body \in Body, NEW w \in World, NEW x \in World,
         Later(w, x), GoodPlan(plan, body, w)
  PROVE  GoodPlan(plan, body, x)
<1>1. ASSUME plan \notin {None, Unplanned}
      PROVE  /\ plan.revision <= x.revision[body.item]
             /\ plan.revision = x.revision[body.item] =>
                  x.available[body.item] + plan.delta = body.level
  <2>1. plan \in Adjust /\ body.item \in Items
    BY <1>1 DEF Plan, Body
  <2>2. /\ plan.revision \in Nat
        /\ w.revision[body.item] \in Nat /\ x.revision[body.item] \in Nat
    BY <2>1 DEF Adjust, World
  <2> QED BY <1>1, <2>1, <2>2 DEF GoodPlan, Later
<1> QED BY <1>1 DEF GoodPlan, Later

LEMMA ReceiptAges ==
  ASSUME NEW r \in Receipt, NEW w \in World, NEW x \in World, Later(w, x),
         GoodReceipt(r, w)
  PROVE  GoodReceipt(r, x)
<1>1. r.plan # Unplanned => GoodPlan(r.plan, r.body, x)
  BY PlanAges DEF GoodReceipt, Receipt
<1> QED BY <1>1 DEF GoodReceipt, Later

(* A receipt that is there stays there, of the same body unless replaced.  *)
FilesAge(f, g, x) ==
  \A k \in Keys :
    f[k].state # "absent" =>
      /\ g[k].state # "absent"
      /\ g[k].body \in {f[k].body} \union x.replaced

LEMMA ProcessAges ==
  ASSUME NEW phase \in Phase, NEW j \in JobType, NEW f, NEW g,
         NEW sent \in SUBSET Deliveries, NEW later \in SUBSET Deliveries,
         sent \subseteq later,
         NEW w \in World, NEW x \in World, Later(w, x), FilesAge(f, g, x),
         GoodProcess(phase, j, f, sent, w)
  PROVE  GoodProcess(phase, j, g, later, x)
<1>1. j.receipt \in Receipt /\ j.plan \in Plan
  BY DEF JobType
<1>2. GoodReceipt(j.receipt, x)
  BY <1>1, ReceiptAges DEF GoodProcess
<1>3. Executing(phase, j) => GoodPlan(j.plan, j.delivery.body, x)
  <2> HAVE Executing(phase, j)
  <2>1. j.delivery.body \in Body
    BY ProcessAssumption DEF GoodProcess, Executing, Operating
  <2> QED BY <1>1, <2>1, PlanAges DEF GoodProcess
<1>4. Attached(phase, j) =>
        /\ g[j.primary].state # "absent"
        /\ g[j.primary].body \in {j.delivery.body} \union x.replaced
  <2> HAVE Attached(phase, j)
  <2>1. j.primary \in Keys
    BY DEF GoodProcess, Attached
  <2> QED BY <2>1 DEF GoodProcess, FilesAge, Later
<1> QED BY <1>2, <1>3, <1>4 DEF GoodProcess, Later

(***************************************************************************)
(* Types.                                                                  *)
(***************************************************************************)
LEMMA JobTypes ==
  ASSUME Inv, NEW p \in Procs
  PROVE  /\ job[p] \in JobType /\ pc[p] \in Phase /\ NoJob \in JobType
         /\ pc[p] # "idle" =>
              /\ job[p].delivery \in Deliveries /\ BodyOf(p) \in Body
              /\ BodyOf(p).item \in Items /\ BodyOf(p).level \in Nat
              /\ DeliveryKey(job[p].delivery) \in Keys
              /\ job[p].delivery.event # None => EventKey(job[p].delivery) \in Keys
         /\ pc[p] \notin {"idle", "event-alias"} =>
              job[p].primary \in Keys /\ receipts[job[p].primary] \in Receipt
<1>1. job[p] \in JobType /\ pc[p] \in Phase
  BY DEF Inv, ProcessTypeOK
<1>2. GoodProcess(pc[p], job[p], receipts, begun, now)
  BY DEF Inv
<1>3. NoJob \in JobType
  BY ProcessAssumption DEF NoJob, JobType, NoReceipt, Receipt, ReceiptState, Plan, Operation
<1>4. ASSUME pc[p] # "idle"
      PROVE  /\ job[p].delivery \in Deliveries /\ BodyOf(p) \in Body
             /\ BodyOf(p).item \in Items /\ BodyOf(p).level \in Nat
             /\ DeliveryKey(job[p].delivery) \in Keys
             /\ job[p].delivery.event # None => EventKey(job[p].delivery) \in Keys
  <2>1. job[p].delivery \in Deliveries
    BY <1>2, <1>4 DEF GoodProcess, Inv, ProcessTypeOK
  <2> QED BY <2>1, ProcessAssumption DEF Keys, BodyOf, Body
<1>5. pc[p] \notin {"idle", "event-alias"} =>
        job[p].primary \in Keys /\ receipts[job[p].primary] \in Receipt
  BY <1>2 DEF GoodProcess, Inv, ProcessTypeOK
<1> QED BY <1>1, <1>3, <1>4, <1>5

LEMMA OpenedType ==
  ASSUME NEW r \in Receipt, NEW body \in Body
  PROVE  Opened(r, body) \in Receipt
BY ProcessAssumption DEF Opened, Receipt, ReceiptState, NoReceipt, Plan

LEMMA WrittenType ==
  ASSUME NEW p \in Procs, job[p] \in JobType
  PROVE  Written(p) \in Receipt
BY DEF Written, JobType, Receipt, ReceiptState

LEMMA PlanType ==
  ASSUME NEW d \in Deliveries, available \in [Items -> Int], revision \in [Items -> Nat]
  PROVE  PlanFor(d) \in Plan \ {Unplanned}
<1>1. d.body \in Body /\ d.body.item \in Items /\ d.body.level \in Nat
  BY ProcessAssumption DEF Body
<1> QED BY <1>1, ProcessAssumption DEF PlanFor, Plan, Adjust

LEMMA OperateTypes ==
  ASSUME pc \in [Procs -> Phase], job \in [Procs -> JobType], NEW p \in Procs,
         \/ \E op \in Operation : Operate(p, op)
         \/ Succeed(p) \/ Throw(p)
  PROVE  pc' \in [Procs -> Phase] /\ job' \in [Procs -> JobType] /\ owed' \subseteq owed
<1>1. NoJob \in JobType
  BY ProcessAssumption DEF NoJob, JobType, NoReceipt, Receipt, ReceiptState, Plan, Operation
<1>2. ASSUME NEW op \in Operation PROVE [job[p] EXCEPT !.op = op] \in JobType
  BY DEF JobType
<1> QED BY <1>1, <1>2 DEF Operate, Succeed, Throw, Exit, Goto, Phase

LEMMA OpeningTypes ==
  ASSUME Inv, NEW p \in Procs,
         \/ \E d \in Deliveries : Start(p, d)
         \/ ReadEventAlias(p) \/ OpenReceipt(p) \/ CreateReceipt(p)
         \/ LinkDelivery(p) \/ LinkEvent(p)
  PROVE  ProcessTypeOK'
<1>0. /\ job[p] \in JobType /\ job \in [Procs -> JobType] /\ pc \in [Procs -> Phase]
      /\ receipts \in [Keys -> Receipt] /\ alias \in [Keys -> Keys \union {None}]
      /\ left \in Nat
  BY JobTypes DEF Inv, ProcessTypeOK
<1>1. ASSUME NEW d \in Deliveries, Start(p, d) PROVE ProcessTypeOK'
  <2>1. d.body \in Body /\ DeliveryKey(d) \in Keys
    BY ProcessAssumption DEF Keys
  <2>2. job' \in [Procs -> JobType]
    <3>1. alias[DeliveryKey(d)] \in Keys \union {None}
      BY <1>0, <2>1
    <3>2. [job[p] EXCEPT !.delivery = d, !.aliased = alias[DeliveryKey(d)]] \in JobType
      BY <1>0, <3>1 DEF JobType
    <3> QED BY <1>0, <1>1, <3>2 DEF Start
  <2>3. pc' \in [Procs -> Phase]
    BY <1>0, <1>1 DEF Start, Goto, Phase
  <2>4. left' \in Nat
    <3>1. left' = left \/ (left > 0 /\ left' = left - 1)
      BY <1>1 DEF Start, Spend
    <3> QED BY <1>0, <3>1
  <2>5. /\ owed' \subseteq Deliveries /\ begun' \subseteq Deliveries
        /\ troubled' \subseteq Body /\ reached' \subseteq Body
    BY <1>1, <2>1 DEF Start, Inv, ProcessTypeOK
  <2> QED BY <1>1, <2>2, <2>3, <2>4, <2>5 DEF Inv, ProcessTypeOK, Start, files, service
<1>2. CASE ReadEventAlias(p)
  <2>1. ASSUME ~AliasesDiffer(job[p].delivery, job[p].aliased)
        PROVE  Primary(job[p].delivery, job[p].aliased) \in Keys
    BY <1>0, <1>2, JobTypes DEF ReadEventAlias, Primary, EventAlias, JobType
  <2>2. pc' \in [Procs -> Phase] /\ job' \in [Procs -> JobType] /\ owed' = owed
    <3>1. CASE AliasesDiffer(job[p].delivery, job[p].aliased)
      BY <1>0, <1>2, <3>1, JobTypes DEF ReadEventAlias, Throw, Exit, Goto, Phase
    <3>2. CASE ~AliasesDiffer(job[p].delivery, job[p].aliased)
      <4>1. [job[p] EXCEPT !.primary = Primary(job[p].delivery, job[p].aliased)] \in JobType
        BY <1>0, <2>1, <3>2 DEF JobType
      <4> QED BY <1>0, <1>2, <3>2, <4>1 DEF ReadEventAlias, Goto, Phase
    <3> QED BY <3>1, <3>2
  <2> QED BY <1>2, <2>2 DEF Inv, ProcessTypeOK, ReadEventAlias, files, service, history
<1>3. CASE OpenReceipt(p)
  <2>1. /\ Opened(receipts[job[p].primary], BodyOf(p)) \in Receipt
        /\ receipts[job[p].primary].plan \in Plan
    BY <1>3, OpenedType, JobTypes DEF OpenReceipt, Receipt
  <2>2. pc' \in [Procs -> Phase] /\ job' \in [Procs -> JobType]
    BY <1>0, <1>3, <2>1 DEF OpenReceipt, Goto, JobType, Phase
  <2> QED BY <1>3, <2>2 DEF Inv, ProcessTypeOK, OpenReceipt, files, service, history
<1>4. CASE CreateReceipt(p)
  <2>1. /\ job[p].receipt \in Receipt /\ job[p].receipt.body \in Body
        /\ job[p].primary \in Keys
    <3>1. GoodProcess(pc[p], job[p], receipts, begun, now)
      BY DEF Inv
    <3> QED BY <1>0, <1>4, <3>1 DEF GoodProcess, GoodReceipt, CreateReceipt, JobType, Receipt,
       Linking
  <2>2. pc' \in [Procs -> Phase]
    BY <1>0, <1>4 DEF CreateReceipt, Goto, Phase
  <2>3. receipts' \in [Keys -> Receipt] /\ replaced' \subseteq Body
    <3>1. receipts[job[p].primary].body \in Body \union {None}
      BY <1>0, <2>1 DEF Receipt
    <3> QED BY <1>0, <1>4, <2>1, <3>1 DEF CreateReceipt, WriteFile, Inv, ProcessTypeOK
  <2> QED BY <1>4, <2>2, <2>3 DEF Inv, ProcessTypeOK, CreateReceipt, WriteFile, service
<1>5. ASSUME Resume(p)
      PROVE  pc' \in [Procs -> Phase] /\ job' \in [Procs -> JobType] /\ owed' \subseteq owed
  <2>1. CASE Succeed(p) \/ \E op \in Operation : Operate(p, op)
    BY <1>0, <2>1, OperateTypes
  <2>2. CASE UNCHANGED <<job, owed>> /\ \E phase \in Phase : Goto(p, phase)
    BY <1>0, <2>2 DEF Goto
  <2> QED BY <1>5, <2>1, <2>2 DEF Resume, RemotePhase, Phase, Operation
<1>6. CASE LinkDelivery(p)
  <2>1. pc' \in [Procs -> Phase] /\ job' \in [Procs -> JobType] /\ owed' \subseteq owed
    BY <1>0, <1>5, <1>6 DEF LinkDelivery, Goto, Phase
  <2>2. alias' \in [Keys -> Keys \union {None}]
    BY <1>0, <1>6, JobTypes DEF LinkDelivery, DeliveryLinked
  <2> QED BY <1>6, <2>1, <2>2 DEF Inv, ProcessTypeOK, LinkDelivery, service, history
<1>7. CASE LinkEvent(p)
  <2>1. pc' \in [Procs -> Phase] /\ job' \in [Procs -> JobType] /\ owed' \subseteq owed
    BY <1>5, <1>7 DEF LinkEvent
  <2>2. alias' \in [Keys -> Keys \union {None}]
    BY <1>0, <1>7, JobTypes DEF LinkEvent
  <2> QED BY <1>7, <2>1, <2>2 DEF Inv, ProcessTypeOK, LinkEvent, service, history
<1> QED BY <1>1, <1>2, <1>3, <1>4, <1>6, <1>7

LEMMA WorkingTypes ==
  ASSUME Inv, NEW p \in Procs,
         Project(p) \/ ReadReceipt(p) \/ WriteReceipt(p) \/ SendAdjust(p) \/ SaveCatalog(p)
  PROVE  ProcessTypeOK'
<1>0. /\ job[p] \in JobType /\ job \in [Procs -> JobType] /\ pc \in [Procs -> Phase]
      /\ receipts \in [Keys -> Receipt] /\ catalog \in [Items -> Nat]
      /\ available \in [Items -> Int] /\ revision \in [Items -> Nat]
      /\ GoodProcess(pc[p], job[p], receipts, begun, now)
  BY JobTypes DEF Inv, ProcessTypeOK
<1>1. CASE Project(p)
  <2>1. PlanFor(job[p].delivery) \in Plan
    BY <1>0, <1>1, JobTypes, PlanType DEF Project
  <2>2. [job[p] EXCEPT !.memory = catalog, !.op = "savePlan",
                       !.plan = PlanFor(job[p].delivery)] \in JobType
    BY <1>0, <2>1 DEF JobType, Operation
  <2>3. pc' \in [Procs -> Phase] /\ job' \in [Procs -> JobType]
    BY <1>0, <1>1, <2>2 DEF Project, Phase, Goto
  <2> QED BY <1>1, <2>3 DEF Inv, ProcessTypeOK, Project, files, service, history
<1>2. CASE ReadReceipt(p)
  <2>1. [job[p] EXCEPT !.receipt = receipts[job[p].primary]] \in JobType
    BY <1>0, <1>2, JobTypes DEF JobType, ReadReceipt
  <2>2. pc' \in [Procs -> Phase] /\ job' \in [Procs -> JobType] /\ owed' = owed
    BY <1>0, <1>2, <2>1, JobTypes DEF ReadReceipt, Throw, Exit, Goto, Phase
  <2> QED BY <1>2, <2>2 DEF Inv, ProcessTypeOK, ReadReceipt, files, service, history
<1>3. CASE WriteReceipt(p)
  <2>1. Written(p) \in Receipt /\ job[p].primary \in Keys /\ Written(p).body \in Body
    BY <1>0, <1>3, WrittenType, JobTypes DEF WriteReceipt, Written, GoodProcess, GoodReceipt,
       JobType, Receipt
  <2>2. receipts' \in [Keys -> Receipt] /\ replaced' \subseteq Body
    <3>1. receipts[job[p].primary].body \in Body \union {None}
      BY <1>0, <2>1 DEF Receipt
    <3> QED BY <1>0, <1>3, <2>1, <3>1 DEF WriteReceipt, WriteFile, Inv, ProcessTypeOK
  <2>3. pc' \in [Procs -> Phase] /\ job' \in [Procs -> JobType] /\ owed' \subseteq owed
    <3>1. CASE Succeed(p) \/ \E op \in Operation : Operate(p, op)
      BY <1>0, <3>1, OperateTypes
    <3>2. CASE UNCHANGED <<job, owed>> /\ \E phase \in Phase : Goto(p, phase)
      BY <1>0, <3>2 DEF Goto
    <3> QED BY <1>3, <3>1, <3>2 DEF WriteReceipt, RemotePhase, Phase, Operation
  <2> QED BY <1>3, <2>2, <2>3 DEF Inv, ProcessTypeOK, WriteReceipt, WriteFile, service
<1>4. CASE SendAdjust(p)
  <2>1. job[p].plan \in Adjust
    BY <1>0, <1>4 DEF SendAdjust, GoodProcess, Executing, JobType, Plan
  <2>2. /\ job[p].plan.body.item \in Items /\ job[p].plan.body \in Body
        /\ job[p].plan.delta \in Int
    BY <2>1 DEF Adjust, Body
  <2>3. /\ available' \in [Items -> Int] /\ revision' \in [Items -> Nat]
        /\ ledger' \subseteq Adjust /\ reached' \subseteq Body
    BY <1>0, <1>4, <2>1, <2>2 DEF SendAdjust, Sent, service, Inv, ProcessTypeOK
  <2>4. pc' \in [Procs -> Phase] /\ job' \in [Procs -> JobType] /\ owed' \subseteq owed
    <3>1. CASE Operate(p, "quarantine")
      BY <1>0, <3>1, OperateTypes DEF Operation
    <3>2. CASE UNCHANGED <<job, owed>> /\ Goto(p, "commit")
      BY <1>0, <3>2 DEF Goto, Phase
    <3> QED BY <1>4, <3>1, <3>2 DEF SendAdjust
  <2> QED BY <1>4, <2>3, <2>4 DEF Inv, ProcessTypeOK, SendAdjust, files, history
<1>5. CASE SaveCatalog(p)
  <2>1. Loaded(p) \in [Items -> Nat]
    BY <1>0 DEF Loaded, JobType
  <2>2. catalog' \in [Items -> Nat]
    BY <1>5, <2>1, JobTypes DEF SaveCatalog
  <2>3. pc' \in [Procs -> Phase] /\ job' \in [Procs -> JobType] /\ owed' = owed
    BY <1>0, <1>5 DEF SaveCatalog, Operate, Goto, Phase, JobType, Operation
  <2> QED BY <1>5, <2>2, <2>3 DEF Inv, ProcessTypeOK, SaveCatalog, service, history
<1> QED BY <1>1, <1>2, <1>3, <1>4, <1>5

LEMMA TypeStep ==
  ASSUME Inv, [Next]_vars
  PROVE  ProcessTypeOK'
<1>1. ASSUME NEW p \in Procs, Stop(p) PROVE ProcessTypeOK'
  <2>1. left \in Nat /\ pc \in [Procs -> Phase] /\ job \in [Procs -> JobType]
    BY DEF Inv, ProcessTypeOK
  <2>2. left' \in Nat /\ pc' \in [Procs -> Phase] /\ job' \in [Procs -> JobType]
    BY <1>1, <2>1, JobTypes DEF Stop, Spend, Throw, Exit, Goto, Phase
  <2>3. troubled' \subseteq Body
    BY <1>1, JobTypes DEF Stop, Inv, ProcessTypeOK
  <2> QED BY <1>1, <2>2, <2>3 DEF Inv, ProcessTypeOK, Stop, Throw, files, service
<1>2. ASSUME NEW i \in Items, Sale(i) PROVE ProcessTypeOK'
  <2>1. /\ left \in Nat /\ available \in [Items -> Int] /\ revision \in [Items -> Nat]
        /\ reached \subseteq Body /\ begun \subseteq Deliveries
    BY DEF Inv, ProcessTypeOK
  <2>2. left' \in Nat /\ available' \in [Items -> Int] /\ revision' \in [Items -> Nat]
    BY <1>2, <2>1 DEF Sale, Spend
  <2>3. reached' \subseteq Body
    BY <1>2, <2>1, ProcessAssumption DEF Sale
  <2> QED BY <1>2, <2>2, <2>3 DEF Inv, ProcessTypeOK, Sale, files, history
<1>3. CASE UNCHANGED vars
  BY <1>3 DEF Inv, ProcessTypeOK, vars, files, service, history
<1>4. ASSUME NEW d \in Deliveries, GetLate(d.body) PROVE ProcessTypeOK'
  <2>1. left \in Nat /\ d.body \in Body
    BY ProcessAssumption DEF Inv, ProcessTypeOK
  <2>2. left' \in Nat /\ late' \subseteq Body
    BY <1>4, <2>1 DEF GetLate, Spend, Inv, ProcessTypeOK
  <2> QED BY <1>4, <2>2 DEF Inv, ProcessTypeOK, GetLate, files, service
<1> QED BY <1>1, <1>2, <1>3, <1>4, OpeningTypes, WorkingTypes DEF Next, Run

(***************************************************************************)
(* Every step ages the world and the receipt files.                        *)
(***************************************************************************)
LEMMA AdjustFits ==
  ASSUME Inv, NEW p \in Procs, pc[p] = "adjust"
  PROVE  /\ job[p].plan \in Adjust /\ job[p].plan.body = BodyOf(p)
         /\ BodyOf(p) \in Body /\ BodyOf(p).item \in Items
         /\ job[p].plan.delta \in Int
         /\ job[p].plan.revision = revision[BodyOf(p).item] =>
              available[BodyOf(p).item] + job[p].plan.delta = BodyOf(p).level
<1>1. job[p] \in JobType /\ GoodProcess(pc[p], job[p], receipts, begun, now)
  BY JobTypes DEF Inv
<1>2. job[p].plan \in Adjust
  BY <1>1 DEF GoodProcess, Executing, JobType, Plan
<1> QED BY <1>1, <1>2, JobTypes, ProcessAssumption DEF GoodProcess, Executing, GoodPlan, now,
     BodyOf, Adjust

LEMMA WorldStep ==
  ASSUME Inv, [Next]_vars
  PROVE  /\ now \in World /\ now' \in World /\ Later(now, now')
         /\ begun \in SUBSET Deliveries /\ begun' \in SUBSET Deliveries
         /\ begun \subseteq begun'
<1>1. now \in World /\ now' \in World
  BY TypeStep DEF Inv, ProcessTypeOK, World, now
<1>2. begun \in SUBSET Deliveries /\ begun' \in SUBSET Deliveries
  BY TypeStep DEF Inv, ProcessTypeOK
<1>3. /\ begun \subseteq begun' /\ reached \subseteq reached' /\ replaced \subseteq replaced'
  BY DEF Next, Run, vars, files, service, history, Start, ReadEventAlias, OpenReceipt,
     CreateReceipt, LinkDelivery, LinkEvent, Project, ReadReceipt, WriteReceipt, WriteFile,
     SendAdjust, SaveCatalog, Stop, Sale, GetLate
<1>4. ASSUME NEW i \in Items
      PROVE  \/ revision'[i] > revision[i]
             \/ revision'[i] = revision[i] /\ available'[i] = available[i]
  <2>0. revision \in [Items -> Nat]
    BY DEF Inv, ProcessTypeOK
  <2>1. ASSUME NEW p \in Procs, SendAdjust(p)
        PROVE  \/ revision'[i] > revision[i]
               \/ revision'[i] = revision[i] /\ available'[i] = available[i]
    <3>1. \/ UNCHANGED service
          \/ /\ available' = [available EXCEPT ![job[p].plan.body.item] = @ + job[p].plan.delta]
             /\ revision' = [revision EXCEPT ![job[p].plan.body.item] = @ + 1]
      BY <2>1 DEF SendAdjust, Sent, service
    <3>2. available \in [Items -> Int]
      BY DEF Inv, ProcessTypeOK
    <3> QED BY <2>0, <3>1, <3>2 DEF service
  <2>2. ASSUME NEW j \in Items, Sale(j)
        PROVE  \/ revision'[i] > revision[i]
               \/ revision'[i] = revision[i] /\ available'[i] = available[i]
    <3>1. available \in [Items -> Int]
      BY DEF Inv, ProcessTypeOK
    <3> QED BY <2>0, <2>2, <3>1 DEF Sale
  <2>3. CASE UNCHANGED service
    BY <2>3 DEF service
  <2> QED BY <2>1, <2>2, <2>3 DEF Next, Run, vars, Start, ReadEventAlias, OpenReceipt,
     CreateReceipt, LinkDelivery, LinkEvent, Project, ReadReceipt, WriteReceipt,
     SaveCatalog, Stop, GetLate
<1> QED BY <1>1, <1>2, <1>3, <1>4 DEF Later, now

(* What a process writes is a receipt of some body.                        *)
LEMMA FileWritten ==
  ASSUME Inv, NEW k \in Keys, NEW r \in Receipt, r.state # "absent", WriteFile(k, r)
  PROVE  FilesAge(receipts, receipts', now')
<1> SUFFICES ASSUME NEW l \in Keys, receipts[l].state # "absent"
             PROVE  /\ receipts'[l].state # "absent"
                    /\ receipts'[l].body \in {receipts[l].body} \union replaced'
  BY DEF FilesAge, now
<1>1. receipts \in [Keys -> Receipt] /\ receipts[l].body # None
  BY DEF Inv, ProcessTypeOK, GoodReceipt
<1> QED BY <1>1 DEF WriteFile

LEMMA FilesStep ==
  ASSUME Inv, [Next]_vars
  PROVE  FilesAge(receipts, receipts', now')
<1>1. ASSUME NEW p \in Procs, CreateReceipt(p)
      PROVE  FilesAge(receipts, receipts', now')
  <2>1. job[p] \in JobType /\ GoodProcess(pc[p], job[p], receipts, begun, now)
    BY JobTypes DEF Inv
  <2>2. /\ job[p].primary \in Keys /\ job[p].receipt \in Receipt
        /\ job[p].receipt.state # "absent"
    BY <1>1, <2>1 DEF GoodProcess, CreateReceipt, Linking, JobType
  <2> QED BY <1>1, <2>2, FileWritten DEF CreateReceipt
<1>2. ASSUME NEW p \in Procs, WriteReceipt(p)
      PROVE  FilesAge(receipts, receipts', now')
  <2>1. job[p] \in JobType /\ job[p].primary \in Keys
    BY <1>2, JobTypes DEF WriteReceipt
  <2>2. Written(p) \in Receipt /\ Written(p).state # "absent"
    BY <2>1, WrittenType DEF Written, JobType, Receipt
  <2> QED BY <1>2, <2>1, <2>2, FileWritten DEF WriteReceipt
<1>3. CASE UNCHANGED receipts
  BY <1>3 DEF FilesAge
<1> QED BY <1>1, <1>2, <1>3 DEF Next, Run, vars, files, Start, ReadEventAlias, OpenReceipt,
     LinkDelivery, LinkEvent, Project, ReadReceipt, SendAdjust, SaveCatalog, Stop, Sale, GetLate

(* A process that takes no part in a step stays good.                      *)
LEMMA OthersStayGood ==
  ASSUME Inv, [Next]_vars, NEW q \in Procs, pc'[q] = pc[q], job'[q] = job[q]
  PROVE  GoodProcess(pc'[q], job'[q], receipts', begun', now')
<1>1. /\ pc[q] \in Phase /\ job[q] \in JobType
      /\ GoodProcess(pc[q], job[q], receipts, begun, now)
  BY JobTypes DEF Inv
<1> QED BY <1>1, WorldStep, FilesStep, ProcessAges

(***************************************************************************)
(* The process that takes the step.                                        *)
(***************************************************************************)

(* It is enough that what it becomes is good in the world before the step. *)
LEMMA GoodBefore ==
  ASSUME Inv, [Next]_vars, NEW p \in Procs,
         GoodProcess(pc'[p], job'[p], receipts, begun, now)
  PROVE  GoodProcess(pc'[p], job'[p], receipts', begun', now')
<1>1. pc'[p] \in Phase /\ job'[p] \in JobType
  BY TypeStep DEF ProcessTypeOK
<1> QED BY <1>1, WorldStep, FilesStep, ProcessAges

(* A process that is through with its webhook.                             *)
LEMMA IdleIsGood ==
  ASSUME NEW f, NEW sent, NEW w
  PROVE  GoodProcess("idle", NoJob, f, sent, w)
BY DEF GoodProcess, GoodReceipt, NoJob, NoReceipt, Linking, Operating, Attached, Executing, Done

LEMMA ExitIsGood ==
  ASSUME Inv, [Next]_vars, NEW p \in Procs, Exit(p)
  PROVE  GoodProcess(pc'[p], job'[p], receipts', begun', now')
<1>1. pc'[p] = "idle" /\ job'[p] = NoJob
  BY DEF Exit, Goto, Inv, ProcessTypeOK
<1> QED BY <1>1, IdleIsGood

LEMMA StartGood ==
  ASSUME Inv, [Next]_vars, NEW p \in Procs, NEW d \in Deliveries, Start(p, d)
  PROVE  GoodProcess(pc'[p], job'[p], receipts', begun', now')
<1>1. /\ pc \in [Procs -> Phase] /\ job \in [Procs -> JobType]
      /\ job[p] \in JobType /\ pc[p] = "idle"
      /\ GoodReceipt(job[p].receipt, now)
  BY DEF Inv, ProcessTypeOK, Start, GoodProcess
<1>2. /\ pc'[p] = "event-alias" /\ job'[p].delivery \in begun'
      /\ job'[p].receipt = job[p].receipt
  BY <1>1 DEF Start, Goto, JobType
<1>3. GoodReceipt(job'[p].receipt, now')
  BY <1>1, <1>2, WorldStep, ReceiptAges DEF JobType
<1> QED BY <1>2, <1>3 DEF GoodProcess, Linking, Operating, Attached, Executing, Done

LEMMA ReadEventAliasGood ==
  ASSUME Inv, [Next]_vars, NEW p \in Procs, ReadEventAlias(p)
  PROVE  GoodProcess(pc'[p], job'[p], receipts', begun', now')
<1>1. CASE Throw(p)
  BY <1>1, ExitIsGood DEF Throw
<1>2. CASE ~Throw(p)
  <2>1. /\ pc \in [Procs -> Phase] /\ job \in [Procs -> JobType] /\ job[p] \in JobType
        /\ pc[p] = "event-alias" /\ ~AliasesDiffer(job[p].delivery, job[p].aliased)
        /\ GoodProcess(pc[p], job[p], receipts, begun, now)
    BY <1>2 DEF Inv, ProcessTypeOK, ReadEventAlias
  <2>2. Primary(job[p].delivery, job[p].aliased) \in Keys
    BY <2>1, JobTypes DEF Primary, EventAlias, JobType, Inv, ProcessTypeOK
  <2>3. /\ pc'[p] = "open"
        /\ job'[p] = [job[p] EXCEPT !.primary = Primary(job[p].delivery, job[p].aliased)]
    BY <1>2, <2>1 DEF ReadEventAlias, Goto
  <2>4. /\ job'[p].primary \in Keys /\ job'[p].delivery = job[p].delivery
        /\ job'[p].receipt = job[p].receipt
    BY <2>1, <2>2, <2>3 DEF JobType
  <2>5. GoodProcess(pc'[p], job'[p], receipts, begun, now)
    BY <2>1, <2>3, <2>4 DEF GoodProcess, Linking, Operating, Attached, Executing, Done
  <2> QED BY <2>5, GoodBefore
<1> QED BY <1>1, <1>2

(* What openShopifyDelivery makes of a good receipt.                       *)
LEMMA OpenedIsGood ==
  ASSUME NEW r \in Receipt, NEW body \in Body, NEW w, GoodReceipt(r, w)
  PROVE  LET s == Opened(r, body) IN
         /\ GoodReceipt(s, w) /\ s.state # "absent" /\ s.plan = r.plan
         /\ s.state # "quarantined" => s.body = body
         /\ s = r => r.state # "absent"
<1>1. CASE r.state = "absent"
  BY <1>1, ProcessAssumption DEF Opened, GoodReceipt, Receipt, NoReceipt
<1>2. CASE r.state # "absent" /\ (r.body = body \/ (r.state = "quarantined" /\ r.conflicting = body))
  BY <1>2 DEF Opened
<1>3. CASE /\ r.state # "absent"
           /\ ~(r.body = body \/ (r.state = "quarantined" /\ r.conflicting = body))
  <2>1. /\ Opened(r, body).state = "quarantined" /\ Opened(r, body).body = r.body
        /\ Opened(r, body).plan = r.plan
    BY <1>3 DEF Opened, Receipt
  <2> QED BY <1>3, <2>1 DEF GoodReceipt
<1> QED BY <1>1, <1>2, <1>3

LEMMA OpenReceiptGood ==
  ASSUME Inv, [Next]_vars, NEW p \in Procs, OpenReceipt(p)
  PROVE  GoodProcess(pc'[p], job'[p], receipts', begun', now')
<1> DEFINE r == receipts[job[p].primary]
           s == Opened(r, BodyOf(p))
<1>1. /\ pc \in [Procs -> Phase] /\ job \in [Procs -> JobType] /\ job[p] \in JobType
      /\ pc[p] = "open" /\ GoodProcess(pc[p], job[p], receipts, begun, now)
  BY DEF Inv, ProcessTypeOK, OpenReceipt
<1>2. r \in Receipt /\ BodyOf(p) \in Body /\ GoodReceipt(r, now)
  BY <1>1, JobTypes DEF Inv
<1>3. /\ GoodReceipt(s, now) /\ s.state # "absent" /\ s.plan = r.plan
      /\ s.state # "quarantined" => s.body = BodyOf(p)
      /\ s = r => r.state # "absent"
  BY <1>2, OpenedIsGood
<1>4. /\ job'[p].receipt = s /\ job'[p].plan = s.plan /\ job'[p].delivery = job[p].delivery
      /\ job'[p].primary = job[p].primary
      /\ pc'[p] = "create" \/ (pc'[p] = "link-delivery" /\ s = r)
  BY <1>1, <1>3 DEF OpenReceipt, Goto, JobType
<1>5. GoodProcess(pc'[p], job'[p], receipts, begun, now)
  BY <1>1, <1>3, <1>4 DEF GoodProcess, Linking, Operating, Attached, Executing, Done, BodyOf
<1> QED BY <1>5, GoodBefore

(* A process is as good as it was in the world after a step.               *)
LEMMA AgedProcess ==
  ASSUME Inv, [Next]_vars, NEW p \in Procs
  PROVE  GoodProcess(pc[p], job[p], receipts', begun', now')
<1>1. /\ pc[p] \in Phase /\ job[p] \in JobType
      /\ GoodProcess(pc[p], job[p], receipts, begun, now)
  BY JobTypes DEF Inv
<1> QED BY <1>1, WorldStep, FilesStep, ProcessAges

LEMMA CreateReceiptGood ==
  ASSUME Inv, [Next]_vars, NEW p \in Procs, CreateReceipt(p)
  PROVE  GoodProcess(pc'[p], job'[p], receipts', begun', now')
<1>1. /\ pc \in [Procs -> Phase] /\ receipts \in [Keys -> Receipt] /\ pc[p] = "create"
      /\ GoodProcess(pc[p], job[p], receipts', begun', now')
  BY AgedProcess DEF Inv, ProcessTypeOK, CreateReceipt
<1>2. /\ pc'[p] = "link-delivery" /\ job' = job
      /\ receipts' = [receipts EXCEPT ![job[p].primary] = job[p].receipt]
  BY <1>1 DEF CreateReceipt, WriteFile, Goto
<1>3. job[p].primary \in Keys /\ receipts'[job[p].primary] = job[p].receipt
  BY <1>1, <1>2 DEF GoodProcess
<1> QED BY <1>1, <1>2, <1>3 DEF GoodProcess, Linking, Operating, Attached, Executing, Done

(* What an operation leaves alone.                                         *)
LEMMA OperateKeeps ==
  ASSUME NEW p \in Procs, pc \in [Procs -> Phase], job \in [Procs -> JobType],
         NEW op, Operate(p, op)
  PROVE  /\ pc'[p] = "read" /\ job'[p].op = op
         /\ job'[p].delivery = job[p].delivery /\ job'[p].primary = job[p].primary
         /\ job'[p].receipt = job[p].receipt /\ job'[p].plan = job[p].plan
BY DEF Operate, Goto, JobType

(* A process that goes on from the receipt it opened.                      *)
LEMMA ResumeGood ==
  ASSUME Inv, [Next]_vars, NEW p \in Procs,
         pc[p] \in {"link-delivery", "link-event"}, Resume(p)
  PROVE  GoodProcess(pc'[p], job'[p], receipts', begun', now')
<1>1. /\ pc \in [Procs -> Phase] /\ job \in [Procs -> JobType]
      /\ GoodProcess(pc[p], job[p], receipts, begun, now)
      /\ job[p].receipt.state # "absent" /\ job[p].plan = job[p].receipt.plan
      /\ job[p].receipt.state # "quarantined" => job[p].receipt.body = BodyOf(p)
  BY DEF Inv, ProcessTypeOK, GoodProcess, Linking, BodyOf
<1>2. job[p].receipt.state \in {"effect-planned", "effect-sent"} =>
        job[p].plan # Unplanned /\ GoodPlan(job[p].plan, BodyOf(p), now)
  BY <1>1 DEF GoodProcess, GoodReceipt
<1>3. CASE job[p].receipt.state = "effect-planned" /\ Operate(p, "markSent")
  <2>1. /\ pc'[p] = "read" /\ job'[p].op = "markSent"
        /\ job'[p].delivery = job[p].delivery /\ job'[p].primary = job[p].primary
        /\ job'[p].receipt = job[p].receipt /\ job'[p].plan = job[p].plan
    BY <1>1, <1>3, OperateKeeps
  <2>2. GoodProcess(pc'[p], job'[p], receipts, begun, now)
    BY <1>1, <1>2, <1>3, <2>1 DEF GoodProcess, Linking, Operating, Attached, Executing, Done,
       BodyOf
  <2> QED BY <2>2, GoodBefore
<1>4. CASE job[p].receipt.state = "effect-complete" /\ Operate(p, "checkpoint")
  <2>1. /\ pc'[p] = "read" /\ job'[p].op = "checkpoint"
        /\ job'[p].delivery = job[p].delivery /\ job'[p].primary = job[p].primary
        /\ job'[p].receipt = job[p].receipt /\ job'[p].plan = job[p].plan
    BY <1>1, <1>4, OperateKeeps
  <2>2. GoodProcess(pc'[p], job'[p], receipts, begun, now)
    BY <1>1, <1>4, <2>1 DEF GoodProcess, Linking, Operating, Attached, Executing, Done
  <2> QED BY <2>2, GoodBefore
<1>5. CASE /\ job[p].receipt.state = "effect-sent" /\ UNCHANGED <<job, owed>>
           /\ Goto(p, RemotePhase(job[p].plan))
  <2>1. job'[p] = job[p] /\ pc'[p] = RemotePhase(job[p].plan)
    BY <1>1, <1>5 DEF Goto
  <2>2. job[p].plan = None => BodyOf(p) \in now.reached
    BY <1>2, <1>5 DEF GoodPlan
  <2>3. GoodProcess(pc'[p], job'[p], receipts, begun, now)
    BY <1>1, <1>2, <1>5, <2>1, <2>2 DEF GoodProcess, RemotePhase, Linking, Operating, Attached,
       Executing, Done, BodyOf
  <2> QED BY <2>3, GoodBefore
<1>6. CASE job[p].receipt.state = "received" /\ UNCHANGED <<job, owed>> /\ Goto(p, "project")
  <2>1. job'[p] = job[p] /\ pc'[p] = "project"
    BY <1>1, <1>6 DEF Goto
  <2>2. GoodProcess(pc'[p], job'[p], receipts, begun, now)
    BY <1>1, <1>6, <2>1 DEF GoodProcess, Linking, Operating, Attached, Executing, Done
  <2> QED BY <2>2, GoodBefore
<1>7. CASE Succeed(p)
  BY <1>7, ExitIsGood DEF Succeed
<1> QED BY <1>3, <1>4, <1>5, <1>6, <1>7 DEF Resume

LEMMA LinkGood ==
  ASSUME Inv, [Next]_vars, NEW p \in Procs, LinkDelivery(p) \/ LinkEvent(p)
  PROVE  GoodProcess(pc'[p], job'[p], receipts', begun', now')
<1>1. CASE Resume(p)
  BY <1>1, ResumeGood DEF LinkDelivery, LinkEvent
<1>2. CASE pc[p] = "link-delivery" /\ Goto(p, "link-event") /\ UNCHANGED <<job, owed>>
  <2>1. /\ pc'[p] = "link-event" /\ job'[p] = job[p]
        /\ GoodProcess(pc[p], job[p], receipts, begun, now)
    BY <1>2 DEF Goto, Inv, ProcessTypeOK
  <2>2. GoodProcess(pc'[p], job'[p], receipts, begun, now)
    BY <1>2, <2>1 DEF GoodProcess, Linking, Operating, Attached, Executing, Done
  <2> QED BY <2>2, GoodBefore
<1> QED BY <1>1, <1>2 DEF LinkDelivery, LinkEvent

(* The plan a projection gives is good: a level the service has already    *)
(* was reached, because the webhook was sent before.                       *)
LEMMA ProjectGood ==
  ASSUME Inv, [Next]_vars, NEW p \in Procs, Project(p)
  PROVE  GoodProcess(pc'[p], job'[p], receipts', begun', now')
<1> DEFINE d == job[p].delivery
<1>1. /\ pc \in [Procs -> Phase] /\ job \in [Procs -> JobType] /\ job[p] \in JobType
      /\ pc[p] = "project" /\ GoodProcess(pc[p], job[p], receipts, begun, now)
      /\ available \in [Items -> Int] /\ revision \in [Items -> Nat]
      /\ d \in Deliveries /\ d.body \in Body /\ d.body.item \in Items /\ d.body.level \in Nat
  BY JobTypes DEF Inv, ProcessTypeOK, Project, BodyOf
<1>2. d \in begun
  BY <1>1 DEF GoodProcess
<1>3. PlanFor(d) # Unplanned
  BY <1>1, PlanType
<1>4. GoodPlan(PlanFor(d), d.body, now)
  <2>1. CASE d.body.level - available[d.body.item] = 0
    <3>1. PlanFor(d) = None /\ available[d.body.item] = d.body.level
      BY <1>1, <2>1 DEF PlanFor
    <3>2. d.body \in reached
      BY <1>2, <3>1 DEF Inv
    <3> QED BY <3>1, <3>2 DEF GoodPlan, now
  <2>2. CASE d.body.level - available[d.body.item] # 0
    <3>1. PlanFor(d) = [identity |-> Identity(d), body |-> d.body,
            revision |-> revision[d.body.item], delta |-> d.body.level - available[d.body.item]]
      BY <2>2 DEF PlanFor
    <3>2. Identity(d) \in {Identity(e) : e \in Deliveries}
      BY <1>1
    <3>3. PlanFor(d) \in Adjust
      BY <1>1, <3>1, <3>2 DEF Adjust
    <3>4. PlanFor(d) # None
      BY <3>3, ProcessAssumption
    <3>5. available[d.body.item] \in Int /\ revision[d.body.item] \in Nat
      BY <1>1
    <3> QED BY <1>1, <3>1, <3>4, <3>5 DEF GoodPlan, now
  <2> QED BY <2>1, <2>2
<1>5. /\ pc'[p] = "read" /\ job'[p].op = "savePlan" /\ job'[p].plan = PlanFor(d)
      /\ job'[p].delivery = d /\ job'[p].primary = job[p].primary
      /\ job'[p].receipt = job[p].receipt
  BY <1>1 DEF Project, Goto, JobType
<1>6. GoodProcess(pc'[p], job'[p], receipts, begun, now)
  BY <1>1, <1>3, <1>4, <1>5 DEF GoodProcess, Linking, Operating, Attached, Executing, Done
<1> QED BY <1>6, GoodBefore

LEMMA ReadReceiptGood ==
  ASSUME Inv, [Next]_vars, NEW p \in Procs, ReadReceipt(p)
  PROVE  GoodProcess(pc'[p], job'[p], receipts', begun', now')
<1> DEFINE r == receipts[job[p].primary]
<1>1. CASE Throw(p)
  BY <1>1, ExitIsGood DEF Throw
<1>2. CASE ~Throw(p)
  <2>1. /\ pc \in [Procs -> Phase] /\ job \in [Procs -> JobType] /\ job[p] \in JobType
        /\ pc[p] = "read" /\ GoodProcess(pc[p], job[p], receipts, begun, now)
        /\ May(p, r)
    BY <1>2, JobTypes DEF Inv, ProcessTypeOK, ReadReceipt
  <2>2. GoodReceipt(r, now) /\ r.state # "absent"
        /\ r.body \in {BodyOf(p)} \union now.replaced
    BY <2>1 DEF Inv, GoodProcess, Attached, BodyOf
  <2>3. /\ pc'[p] = "write" /\ job'[p].receipt = r /\ job'[p].op = job[p].op
        /\ job'[p].delivery = job[p].delivery /\ job'[p].primary = job[p].primary
        /\ job'[p].plan = job[p].plan
    BY <1>2, <2>1 DEF ReadReceipt, Goto, JobType
  <2>4. /\ job[p].op = "savePlan" => r.body = BodyOf(p)
        /\ job[p].op = "markSent" => r.plan # Unplanned
        /\ job[p].op = "checkpoint" => r.state = "effect-complete"
    BY <2>1, <2>2 DEF May, MaySavePlan, GoodReceipt
  <2>5. GoodProcess(pc'[p], job'[p], receipts, begun, now)
    BY <2>1, <2>2, <2>3, <2>4 DEF GoodProcess, Linking, Operating, Attached, Executing, Done,
       BodyOf
  <2> QED BY <2>5, GoodBefore
<1> QED BY <1>1, <1>2

LEMMA WriteReceiptGood ==
  ASSUME Inv, [Next]_vars, NEW p \in Procs, WriteReceipt(p)
  PROVE  GoodProcess(pc'[p], job'[p], receipts', begun', now')
<1>1. /\ pc \in [Procs -> Phase] /\ job \in [Procs -> JobType] /\ job[p] \in JobType
      /\ pc[p] = "write" /\ GoodProcess(pc[p], job[p], receipts', begun', now')
      /\ WriteFile(job[p].primary, Written(p))
  BY JobTypes, AgedProcess DEF Inv, ProcessTypeOK, WriteReceipt
<1>2. CASE Succeed(p)
  BY <1>2, ExitIsGood DEF Succeed
<1>3. CASE job[p].op = "savePlan" /\ Operate(p, "markSent")
  <2>1. /\ pc'[p] = "read" /\ job'[p].op = "markSent"
        /\ job'[p].delivery = job[p].delivery /\ job'[p].primary = job[p].primary
        /\ job'[p].receipt = job[p].receipt /\ job'[p].plan = job[p].plan
    BY <1>1, <1>3, OperateKeeps
  <2> QED BY <1>1, <1>3, <2>1 DEF GoodProcess, Linking, Operating, Attached, Executing, Done
<1>4. CASE job[p].op = "markComplete" /\ Operate(p, "checkpoint")
  <2>1. /\ pc'[p] = "read" /\ job'[p].op = "checkpoint"
        /\ job'[p].delivery = job[p].delivery /\ job'[p].primary = job[p].primary
        /\ job'[p].receipt = job[p].receipt /\ job'[p].plan = job[p].plan
    BY <1>1, <1>4, OperateKeeps
  <2> QED BY <1>1, <1>4, <2>1 DEF GoodProcess, Linking, Operating, Attached, Executing, Done
<1>5. CASE /\ job[p].op = "markSent" /\ UNCHANGED <<job, owed>>
           /\ Goto(p, RemotePhase(job[p].plan))
  <2>1. job'[p] = job[p] /\ pc'[p] = RemotePhase(job[p].plan)
    BY <1>1, <1>5 DEF Goto
  <2>2. /\ job[p].plan # Unplanned /\ GoodPlan(job[p].plan, BodyOf(p), now')
        /\ job[p].plan = None => BodyOf(p) \in now'.reached
    BY <1>1, <1>5 DEF GoodProcess, Executing, Operating, GoodPlan, BodyOf
  <2> QED BY <1>1, <1>5, <2>1, <2>2 DEF GoodProcess, RemotePhase, Linking, Operating, Attached,
       Executing, Done, BodyOf
<1> QED BY <1>2, <1>3, <1>4, <1>5 DEF WriteReceipt

(* An adjust that the service accepts, now or before, has brought the      *)
(* stock to its level.                                                     *)
LEMMA AcceptedIsReached ==
  ASSUME Inv, NEW p \in Procs, SendAdjust(p), Goto(p, "commit")
  PROVE  BodyOf(p) \in reached'
<1>0. pc \in [Procs -> Phase] /\ pc[p] = "adjust"
  BY DEF SendAdjust, Inv, ProcessTypeOK
<1>1. /\ job[p].plan \in Adjust /\ job[p].plan.body = BodyOf(p)
      /\ BodyOf(p) \in Body /\ BodyOf(p).item \in Items
      /\ job[p].plan.delta \in Int
      /\ job[p].plan.revision = revision[BodyOf(p).item] =>
           available[BodyOf(p).item] + job[p].plan.delta = BodyOf(p).level
  BY <1>0, AdjustFits
<1>2. ~Operate(p, "quarantine")
  BY <1>0 DEF Operate, Goto
<1>3. CASE job[p].plan \in ledger /\ UNCHANGED reached
  BY <1>1, <1>3 DEF Inv
<1>4. CASE /\ job[p].plan.revision = revision[BodyOf(p).item]
           /\ available' = [available EXCEPT ![BodyOf(p).item] = @ + job[p].plan.delta]
           /\ reached' = IF available'[BodyOf(p).item] = job[p].plan.body.level
                         THEN reached \union {job[p].plan.body} ELSE reached
  <2>1. available'[BodyOf(p).item] = BodyOf(p).level
    BY <1>1, <1>4 DEF Inv, ProcessTypeOK
  <2> QED BY <1>1, <1>4, <2>1
<1> QED BY <1>1, <1>2, <1>3, <1>4 DEF SendAdjust, Sent

LEMMA SendAdjustGood ==
  ASSUME Inv, [Next]_vars, NEW p \in Procs, SendAdjust(p)
  PROVE  GoodProcess(pc'[p], job'[p], receipts', begun', now')
<1>1. /\ pc \in [Procs -> Phase] /\ job \in [Procs -> JobType] /\ job[p] \in JobType
      /\ pc[p] = "adjust" /\ GoodProcess(pc[p], job[p], receipts', begun', now')
  BY JobTypes, AgedProcess DEF Inv, ProcessTypeOK, SendAdjust
<1>2. CASE Goto(p, "commit") /\ UNCHANGED job
  <2>1. pc'[p] = "commit" /\ job'[p] = job[p]
    BY <1>1, <1>2 DEF Goto
  <2>2. BodyOf(p) \in now'.reached
    BY <1>2, AcceptedIsReached DEF now
  <2> QED BY <1>1, <2>1, <2>2 DEF GoodProcess, Linking, Operating, Attached, Executing, Done,
       BodyOf
<1>3. CASE Operate(p, "quarantine")
  <2>1. /\ pc'[p] = "read" /\ job'[p].op = "quarantine"
        /\ job'[p].delivery = job[p].delivery /\ job'[p].primary = job[p].primary
        /\ job'[p].receipt = job[p].receipt /\ job'[p].plan = job[p].plan
    BY <1>1, <1>3, OperateKeeps
  <2> QED BY <1>1, <2>1 DEF GoodProcess, Linking, Operating, Attached, Executing, Done
<1> QED BY <1>2, <1>3 DEF SendAdjust

LEMMA SaveCatalogGood ==
  ASSUME Inv, [Next]_vars, NEW p \in Procs, SaveCatalog(p)
  PROVE  GoodProcess(pc'[p], job'[p], receipts', begun', now')
<1>1. /\ pc \in [Procs -> Phase] /\ job \in [Procs -> JobType] /\ job[p] \in JobType
      /\ pc[p] = "commit" /\ GoodProcess(pc[p], job[p], receipts', begun', now')
      /\ Operate(p, "markComplete")
  BY JobTypes, AgedProcess DEF Inv, ProcessTypeOK, SaveCatalog
<1>2. /\ pc'[p] = "read" /\ job'[p].op = "markComplete"
      /\ job'[p].delivery = job[p].delivery /\ job'[p].primary = job[p].primary
      /\ job'[p].receipt = job[p].receipt /\ job'[p].plan = job[p].plan
  BY <1>1, OperateKeeps
<1> QED BY <1>1, <1>2 DEF GoodProcess, Linking, Operating, Attached, Executing, Done

(* A process never takes part in a step without being the one that moves.  *)
LEMMA OneProcessMoves ==
  ASSUME Inv, NEW p \in Procs, NEW q \in Procs, q # p,
         Run(p) \/ Stop(p) \/ \E d \in Deliveries : Start(p, d)
  PROVE  pc'[q] = pc[q] /\ job'[q] = job[q]
<1>1. pc \in [Procs -> Phase] /\ job \in [Procs -> JobType]
  BY DEF Inv, ProcessTypeOK
<1>2. ASSUME Succeed(p) \/ Throw(p) \/ \E op : Operate(p, op)
      PROVE  pc'[q] = pc[q] /\ job'[q] = job[q]
  BY <1>1, <1>2 DEF Succeed, Throw, Exit, Operate, Goto
<1>3. ASSUME Resume(p) PROVE pc'[q] = pc[q] /\ job'[q] = job[q]
  BY <1>1, <1>2, <1>3 DEF Resume, Goto
<1>4. ASSUME \E d \in Deliveries : Start(p, d) PROVE pc'[q] = pc[q] /\ job'[q] = job[q]
  BY <1>1, <1>4 DEF Start, Goto
<1>5. ASSUME \/ ReadEventAlias(p) \/ OpenReceipt(p) \/ CreateReceipt(p)
             \/ LinkDelivery(p) \/ LinkEvent(p)
      PROVE  pc'[q] = pc[q] /\ job'[q] = job[q]
  BY <1>1, <1>2, <1>3, <1>5 DEF ReadEventAlias, OpenReceipt, CreateReceipt, LinkDelivery,
     LinkEvent, Goto
<1>6. ASSUME Project(p) \/ ReadReceipt(p) \/ WriteReceipt(p) \/ SendAdjust(p) \/ SaveCatalog(p)
      PROVE  pc'[q] = pc[q] /\ job'[q] = job[q]
  BY <1>1, <1>2, <1>6 DEF Project, ReadReceipt, WriteReceipt, SendAdjust, SaveCatalog, Goto
<1>7. ASSUME Stop(p) PROVE pc'[q] = pc[q] /\ job'[q] = job[q]
  BY <1>2, <1>7 DEF Stop
<1> QED BY <1>4, <1>5, <1>6, <1>7 DEF Run

LEMMA ProcessesStep ==
  ASSUME Inv, [Next]_vars, NEW q \in Procs
  PROVE  GoodProcess(pc'[q], job'[q], receipts', begun', now')
<1>1. ASSUME NEW p \in Procs, Run(p) \/ Stop(p) \/ \E d \in Deliveries : Start(p, d)
      PROVE  GoodProcess(pc'[q], job'[q], receipts', begun', now')
  <2>1. CASE q # p
    BY <1>1, <2>1, OneProcessMoves, OthersStayGood
  <2>2. CASE q = p /\ Run(p)
    BY <2>2, ReadEventAliasGood, OpenReceiptGood, CreateReceiptGood, LinkGood, ProjectGood,
       ReadReceiptGood, WriteReceiptGood, SendAdjustGood, SaveCatalogGood DEF Run
  <2>3. CASE q = p /\ Stop(p)
    BY <2>3, ExitIsGood DEF Stop, Throw
  <2>4. CASE q = p /\ \E d \in Deliveries : Start(p, d)
    BY <2>4, StartGood
  <2> QED BY <1>1, <2>1, <2>2, <2>3, <2>4
<1>2. CASE UNCHANGED <<pc, job>>
  BY <1>2, OthersStayGood
<1> QED BY <1>1, <1>2 DEF Next, vars, Sale, GetLate

(***************************************************************************)
(* The receipts, the ledger and what was sent.                             *)
(***************************************************************************)
LEMMA WrittenIsGood ==
  ASSUME Inv, [Next]_vars, NEW p \in Procs, WriteReceipt(p)
  PROVE  GoodReceipt(Written(p), now')
<1>1. /\ job[p] \in JobType /\ pc[p] = "write"
      /\ GoodProcess(pc[p], job[p], receipts', begun', now')
      /\ job[p].op \in {"savePlan", "markSent", "markComplete", "checkpoint", "quarantine"}
  BY JobTypes, AgedProcess DEF Inv, WriteReceipt
<1>2. /\ GoodReceipt(job[p].receipt, now') /\ job[p].receipt.state # "absent"
      /\ job[p].receipt.body \in {BodyOf(p)} \union now'.replaced
      /\ job[p].receipt \in Receipt
  BY <1>1 DEF GoodProcess, JobType, BodyOf
<1>3. CASE job[p].op = "savePlan"
  <2>1. Written(p) = [job[p].receipt EXCEPT !.state = "effect-planned", !.plan = job[p].plan]
    BY <1>3 DEF Written
  <2>2. /\ job[p].receipt.body = BodyOf(p) /\ job[p].plan # Unplanned
        /\ GoodPlan(job[p].plan, BodyOf(p), now')
    BY <1>1, <1>3 DEF GoodProcess, Executing, Operating, BodyOf
  <2> QED BY <1>2, <2>1, <2>2 DEF GoodReceipt, Receipt
<1>4. CASE job[p].op = "markSent"
  <2>1. /\ Written(p) = [job[p].receipt EXCEPT !.state = "effect-sent"]
        /\ job[p].receipt.plan # Unplanned
    BY <1>1, <1>4 DEF Written, GoodProcess
  <2> QED BY <1>2, <2>1 DEF GoodReceipt, Receipt
<1>5. CASE job[p].op = "markComplete"
  <2>1. /\ Written(p) = [job[p].receipt EXCEPT !.state = "effect-complete"]
        /\ BodyOf(p) \in now'.reached
    BY <1>1, <1>5 DEF Written, GoodProcess, Done, Operating, BodyOf
  <2> QED BY <1>2, <2>1 DEF GoodReceipt, Receipt
<1>6. CASE job[p].op = "checkpoint"
  <2>1. /\ Written(p) = [job[p].receipt EXCEPT !.state = "checkpointed"]
        /\ job[p].receipt.state = "effect-complete"
    BY <1>1, <1>6 DEF Written, GoodProcess
  <2> QED BY <1>2, <2>1 DEF GoodReceipt, Receipt
<1>7. CASE job[p].op = "quarantine"
  <2>1. Written(p) = [job[p].receipt EXCEPT !.state = "quarantined"]
    BY <1>7 DEF Written
  <2> QED BY <1>2, <2>1 DEF GoodReceipt, Receipt
<1> QED BY <1>1, <1>3, <1>4, <1>5, <1>6, <1>7

LEMMA ReceiptsStep ==
  ASSUME Inv, [Next]_vars, NEW k \in Keys
  PROVE  GoodReceipt(receipts'[k], now')
<1>1. receipts \in [Keys -> Receipt] /\ GoodReceipt(receipts[k], now')
  <2>1. receipts \in [Keys -> Receipt] /\ GoodReceipt(receipts[k], now)
    BY DEF Inv, ProcessTypeOK
  <2> QED BY <2>1, WorldStep, ReceiptAges
<1>2. ASSUME NEW p \in Procs, CreateReceipt(p) PROVE GoodReceipt(receipts'[k], now')
  <2>1. GoodReceipt(job[p].receipt, now')
    BY AgedProcess DEF GoodProcess
  <2> QED BY <1>1, <1>2, <2>1 DEF CreateReceipt, WriteFile
<1>3. ASSUME NEW p \in Procs, WriteReceipt(p) PROVE GoodReceipt(receipts'[k], now')
  BY <1>1, <1>3, WrittenIsGood DEF WriteReceipt, WriteFile
<1>4. CASE UNCHANGED receipts
  BY <1>1, <1>4
<1> QED BY <1>2, <1>3, <1>4 DEF Next, Run, vars, files, Start, ReadEventAlias, OpenReceipt,
     LinkDelivery, LinkEvent, Project, ReadReceipt, SendAdjust, SaveCatalog, Stop, Sale, GetLate

LEMMA LedgerStep ==
  ASSUME Inv, [Next]_vars
  PROVE  \A b \in ledger' : b.body \in reached'
<1>1. reached \subseteq reached'
  BY WorldStep DEF Later, now
<1>2. ASSUME NEW p \in Procs, SendAdjust(p) PROVE \A b \in ledger' : b.body \in reached'
  <2>1. CASE UNCHANGED ledger
    BY <1>1, <2>1 DEF Inv
  <2>2. CASE Goto(p, "commit") /\ ledger' = ledger \union {job[p].plan}
    <3>1. BodyOf(p) \in reached' /\ pc[p] = "adjust"
      BY <1>2, <2>2, AcceptedIsReached DEF SendAdjust
    <3>2. job[p].plan.body \in reached'
      BY <3>1, AdjustFits
    <3> QED BY <1>1, <2>2, <3>2 DEF Inv
  <2> QED BY <1>2, <2>1, <2>2 DEF SendAdjust, Sent, service
<1>3. CASE UNCHANGED ledger
  BY <1>1, <1>3 DEF Inv
<1> QED BY <1>2, <1>3 DEF Next, Run, vars, service, Start, ReadEventAlias, OpenReceipt,
     CreateReceipt, LinkDelivery, LinkEvent, Project, ReadReceipt, WriteReceipt,
     SaveCatalog, Stop, Sale, GetLate

LEMMA BegunStep ==
  ASSUME Inv, [Next]_vars, NEW d \in begun', available'[d.body.item] = d.body.level
  PROVE  d.body \in reached'
<1>1. /\ reached \subseteq reached' /\ d \in Deliveries /\ d.body \in Body
      /\ d.body.item \in Items /\ available \in [Items -> Int]
  BY WorldStep, ProcessAssumption DEF Later, now, Body, Inv, ProcessTypeOK
<1>2. CASE UNCHANGED <<begun, available>>
  BY <1>1, <1>2 DEF Inv
<1>3. ASSUME NEW p \in Procs, NEW e \in Deliveries, Start(p, e) PROVE d.body \in reached'
  <2>1. CASE d = e
    BY <1>3, <2>1 DEF Start, service
  <2>2. CASE d # e
    BY <1>1, <1>3, <2>2 DEF Start, service, Inv
  <2> QED BY <2>1, <2>2
<1>4. ASSUME NEW p \in Procs, SendAdjust(p) PROVE d.body \in reached'
  <2>1. CASE UNCHANGED service
    BY <1>1, <1>4, <2>1 DEF SendAdjust, service, history, Inv
  <2>2. CASE /\ Goto(p, "commit")
             /\ available' = [available EXCEPT ![job[p].plan.body.item] = @ + job[p].plan.delta]
             /\ job[p].plan.revision = revision[job[p].plan.body.item]
    <3>1. /\ BodyOf(p) \in reached' /\ BodyOf(p) \in Body /\ job[p].plan.body = BodyOf(p)
          /\ available[BodyOf(p).item] + job[p].plan.delta = BodyOf(p).level
      BY <1>4, <2>2, AcceptedIsReached, AdjustFits DEF SendAdjust
    <3>2. CASE d.body.item = BodyOf(p).item
      <4>1. d.body.level = BodyOf(p).level
        BY <1>1, <2>2, <3>1, <3>2
      <4>2. d.body = BodyOf(p)
        BY <1>1, <3>1, <3>2, <4>1 DEF Body
      <4> QED BY <3>1, <4>2
    <3>3. CASE d.body.item # BodyOf(p).item
      BY <1>1, <1>4, <2>2, <3>1, <3>3 DEF SendAdjust, history, Inv
    <3> QED BY <3>2, <3>3
  <2> QED BY <1>4, <2>1, <2>2 DEF SendAdjust, Sent, service
<1>5. ASSUME NEW i \in Items, Sale(i) PROVE d.body \in reached'
  <2>1. CASE d.body.item = i
    BY <1>5, <2>1 DEF Sale, history
  <2>2. CASE d.body.item # i
    BY <1>1, <1>5, <2>2 DEF Sale, history, Inv
  <2> QED BY <2>1, <2>2
<1> QED BY <1>2, <1>3, <1>4, <1>5 DEF Next, Run, vars, service, history, ReadEventAlias,
     OpenReceipt, CreateReceipt, WriteFile, LinkDelivery, LinkEvent, Project, ReadReceipt,
     WriteReceipt, SaveCatalog, Stop, GetLate

LEMMA InvStep ==
  ASSUME Inv, [Next]_vars
  PROVE  Inv'
BY TypeStep, ProcessesStep, ReceiptsStep, LedgerStep, BegunStep DEF Inv

LEMMA InvInit ==
  ASSUME Init
  PROVE  Inv
<1>1. NoJob \in JobType /\ NoReceipt \in Receipt
  BY ProcessAssumption DEF NoJob, JobType, NoReceipt, Receipt, ReceiptState, Plan, Operation
<1>2. owed \subseteq Deliveries /\ left \in Nat
  BY ProcessAssumption DEF Init
<1>3. ProcessTypeOK
  BY <1>1, <1>2, ProcessAssumption DEF Init, ProcessTypeOK, Phase
<1>4. GoodReceipt(NoReceipt, now)
  BY DEF GoodReceipt, NoReceipt
<1> QED BY <1>3, <1>4, IdleIsGood DEF Init, Inv

(***************************************************************************)
(* The theorems.                                                           *)
(***************************************************************************)

(* The invariant holds however many processes there are, and whatever the  *)
(* webhooks, stops and sales.                                              *)
THEOREM ProcessesStayGood == Spec => []Inv
<1>1. Init => Inv
  BY InvInit
<1>2. Inv /\ [Next]_vars => Inv'
  BY InvStep
<1> QED BY <1>1, <1>2, PTL DEF Spec

(* A receipt that any number of processes completed between them (savePlan,*)
(* markSent, markComplete, checkpoint, each a read and a later write) says *)
(* the truth: the service's stock had the level of the webhook after it    *)
(* was sent, unless the receipt was written over one of another body.      *)
THEOREM CompletionIsReached == Spec => []CompleteMeansReached
<1>1. Inv => CompleteMeansReached
  BY DEF Inv, GoodReceipt, CompleteMeansReached, now
<1> QED BY <1>1, ProcessesStayGood, PTL

(***************************************************************************)
(* One receipt and one move for an action.                                 *)
(***************************************************************************)
(* A body whose openings were left in peace, and one whose receipts, too,  *)
(* were never written over.                                                *)
Peaceful(b) == b \in Body /\ b \notin troubled
Calm(b) == Peaceful(b) /\ b \notin replaced

There(k) == receipts[k].state # "absent"

(* A receipt of the body is in the file, or in the memory of a process     *)
(* that may write it there.                                                *)
Held(k, b) ==
  \/ receipts[k].body = b
  \/ \E p \in Procs : job[p].primary = k /\ job[p].receipt.body = b

LinkedIn(f, d) ==
  f[DeliveryKey(d)] # None /\ (d.event # None => f[EventKey(d)] # None)
Linked(d) == LinkedIn(alias, d)

Excused(b) ==
  \E bare, other \in begun :
    /\ bare.body = b /\ bare.event = None
    /\ other.body = b /\ other.webhook # bare.webhook

OpenersApart ==
  \A p, q \in Procs :
    Opening(p) /\ Opening(q) /\ BodyOf(p) = BodyOf(q) /\ Peaceful(BodyOf(p)) => p = q

(* An alias names a receipt that is there.                                 *)
AliasesLead ==
  /\ \A k \in Keys : alias[k] # None => There(alias[k])
  /\ \A p \in Procs :
       /\ pc[p] \notin {"idle"} /\ job[p].aliased # None => There(job[p].aliased)
       /\ pc[p] \in {"link-delivery", "link-event"} => There(job[p].primary)
       /\ pc[p] = "link-event" =>
            alias[DeliveryKey(job[p].delivery)] # None /\ job[p].delivery.event # None

NotYetOpened ==
  \A p \in Procs : pc[p] \in {"idle", "event-alias", "open"} => job[p].receipt.body = None

(* Where a body has a receipt, one of its webhooks has its aliases, or is  *)
(* being given them.                                                       *)
HeldIsLinked ==
  \A b \in Body, k \in Keys :
    Peaceful(b) /\ Held(k, b) =>
      \/ \E d \in begun : d.body = b /\ Linked(d)
      \/ \E p \in Procs : pc[p] \in Linking /\ BodyOf(p) = b

(* What a process that looks for its receipt knows of that webhook.        *)
Knows(phase, j, d) ==
  /\ phase = "event-alias" /\ d.webhook = j.delivery.webhook => j.aliased # None
  /\ /\ phase = "open"
     /\ d.webhook = j.delivery.webhook \/ (d.event # None /\ d.event = j.delivery.event)
     => There(j.primary)

OpenerKnows ==
  \A p \in Procs, k \in Keys :
    pc[p] \in {"event-alias", "open"} /\ Peaceful(BodyOf(p)) /\ Held(k, BodyOf(p)) =>
      \E d \in begun : d.body = BodyOf(p) /\ Linked(d) /\ Knows(pc[p], job[p], d)

HeldTwiceIsExcused ==
  \A b \in Body : \A k, l \in Keys :
    k # l /\ Peaceful(b) /\ Held(k, b) /\ Held(l, b) => Excused(b)

AliasInv ==
  /\ OpenersApart /\ AliasesLead /\ NotYetOpened
  /\ HeldIsLinked /\ OpenerKnows /\ HeldTwiceIsExcused

(***************************************************************************)
(* What becomes of a process in a step.                                    *)
(***************************************************************************)
Keeps(q) ==
  /\ job'[q].delivery = job[q].delivery /\ job'[q].aliased = job[q].aliased
  /\ job'[q].primary = job[q].primary

KeepsMore(q) ==
  Keeps(q) /\ job'[q].receipt = job[q].receipt /\ job'[q].plan = job[q].plan

Still(q) == pc'[q] = pc[q] /\ job'[q] = job[q]
Over(q) == pc'[q] = "idle" /\ job'[q] = NoJob

Begins(q, d) ==
  /\ Start(q, d) /\ pc[q] = "idle" /\ pc'[q] = "event-alias"
  /\ job'[q].delivery = d /\ job'[q].aliased = alias[DeliveryKey(d)]
  /\ job'[q].primary = job[q].primary /\ job'[q].receipt = job[q].receipt

Chooses(q) ==
  /\ ReadEventAlias(q) /\ pc[q] = "event-alias" /\ pc'[q] = "open"
  /\ job'[q].primary = Primary(job[q].delivery, job[q].aliased)
  /\ job'[q].delivery = job[q].delivery /\ job'[q].aliased = job[q].aliased
  /\ job'[q].receipt = job[q].receipt

Opens(q) ==
  LET r == receipts[job[q].primary]
      s == Opened(r, BodyOf(q))
  IN
  /\ OpenReceipt(q) /\ pc[q] = "open" /\ Keeps(q)
  /\ job'[q].receipt = s /\ job'[q].plan = r.plan
  /\ pc'[q] = IF s = r THEN "link-delivery" ELSE "create"

Creates(q) ==
  CreateReceipt(q) /\ pc[q] = "create" /\ pc'[q] = "link-delivery" /\ job'[q] = job[q]

Links(q) ==
  /\ LinkDelivery(q) /\ pc[q] = "link-delivery" /\ pc'[q] = "link-event"
  /\ job[q].delivery.event # None /\ job'[q] = job[q]

Resumes(q) ==
  /\ \/ LinkDelivery(q) /\ pc[q] = "link-delivery" /\ job[q].delivery.event = None
     \/ LinkEvent(q) /\ pc[q] = "link-event"
  /\ KeepsMore(q)
  /\ \/ job[q].receipt.state = "received" /\ pc'[q] = "project"
     \/ job[q].receipt.state = "effect-planned" /\ pc'[q] = "read" /\ job'[q].op = "markSent"
     \/ job[q].receipt.state = "effect-sent" /\ pc'[q] \in {"adjust", "commit"}
     \/ job[q].receipt.state = "effect-complete" /\ pc'[q] = "read" /\ job'[q].op = "checkpoint"

Projects(q) ==
  /\ Project(q) /\ pc[q] = "project" /\ pc'[q] = "read" /\ job'[q].op = "savePlan"
  /\ Keeps(q) /\ job'[q].receipt = job[q].receipt

Reads(q) ==
  LET r == receipts[job[q].primary] IN
  /\ ReadReceipt(q) /\ pc[q] = "read" /\ pc'[q] = "write" /\ May(q, r)
  /\ Keeps(q) /\ job'[q].receipt = r /\ job'[q].plan = job[q].plan /\ job'[q].op = job[q].op

Writes(q) ==
  /\ WriteReceipt(q) /\ pc[q] = "write" /\ KeepsMore(q)
  /\ \/ job[q].op = "savePlan" /\ pc'[q] = "read" /\ job'[q].op = "markSent"
     \/ job[q].op = "markSent" /\ pc'[q] \in {"adjust", "commit"}
     \/ job[q].op = "markComplete" /\ pc'[q] = "read" /\ job'[q].op = "checkpoint"

Sends(q) ==
  /\ SendAdjust(q) /\ pc[q] = "adjust" /\ KeepsMore(q)
  /\ pc'[q] = "commit" \/ (pc'[q] = "read" /\ job'[q].op = "quarantine")

Saves(q) ==
  /\ SaveCatalog(q) /\ pc[q] = "commit" /\ pc'[q] = "read" /\ job'[q].op = "markComplete"
  /\ KeepsMore(q)

LEMMA MovesOpening ==
  ASSUME Inv, NEW q \in Procs,
         \/ ReadEventAlias(q) \/ OpenReceipt(q) \/ CreateReceipt(q)
         \/ LinkDelivery(q) \/ LinkEvent(q)
  PROVE  Over(q) \/ Chooses(q) \/ Opens(q) \/ Creates(q) \/ Links(q) \/ Resumes(q)
<1>0. /\ pc \in [Procs -> Phase] /\ job \in [Procs -> JobType] /\ job[q] \in JobType
  BY DEF Inv, ProcessTypeOK
<1>1. CASE ReadEventAlias(q)
  <2>1. CASE Throw(q)
    BY <1>0, <2>1 DEF Throw, Exit, Goto, Over
  <2>2. CASE ~Throw(q)
    BY <1>0, <1>1, <2>2 DEF ReadEventAlias, Goto, Chooses, JobType
  <2> QED BY <2>1, <2>2
<1>2. CASE OpenReceipt(q)
  BY <1>0, <1>2 DEF OpenReceipt, Goto, Opens, Keeps, JobType
<1>3. CASE CreateReceipt(q)
  BY <1>0, <1>3 DEF CreateReceipt, Goto, Creates
<1>4. ASSUME Resume(q), \/ LinkDelivery(q) /\ job[q].delivery.event = None
                        \/ LinkEvent(q)
      PROVE  Over(q) \/ Resumes(q)
  <2>0. \/ LinkDelivery(q) /\ pc[q] = "link-delivery" /\ job[q].delivery.event = None
        \/ LinkEvent(q) /\ pc[q] = "link-event"
    BY <1>4 DEF LinkDelivery, LinkEvent
  <2>1. CASE Succeed(q)
    BY <1>0, <2>1 DEF Succeed, Exit, Goto, Over
  <2>2. CASE job[q].receipt.state = "effect-complete" /\ Operate(q, "checkpoint")
    <3>1. /\ pc'[q] = "read" /\ job'[q].op = "checkpoint" /\ KeepsMore(q)
      BY <1>0, <2>2 DEF Operate, Goto, KeepsMore, Keeps, JobType
    <3> QED BY <2>0, <2>2, <3>1 DEF Resumes
  <2>3. CASE job[q].receipt.state = "effect-planned" /\ Operate(q, "markSent")
    <3>1. /\ pc'[q] = "read" /\ job'[q].op = "markSent" /\ KeepsMore(q)
      BY <1>0, <2>3 DEF Operate, Goto, KeepsMore, Keeps, JobType
    <3> QED BY <2>0, <2>3, <3>1 DEF Resumes
  <2>4. CASE /\ job[q].receipt.state = "effect-sent" /\ Goto(q, RemotePhase(job[q].plan))
             /\ UNCHANGED <<job, owed>>
    <3>1. pc'[q] \in {"adjust", "commit"} /\ KeepsMore(q)
      BY <1>0, <2>4 DEF Goto, RemotePhase, KeepsMore, Keeps
    <3> QED BY <2>0, <2>4, <3>1 DEF Resumes
  <2>5. CASE /\ job[q].receipt.state = "received" /\ Goto(q, "project")
             /\ UNCHANGED <<job, owed>>
    <3>1. pc'[q] = "project" /\ KeepsMore(q)
      BY <1>0, <2>5 DEF Goto, KeepsMore, Keeps
    <3> QED BY <2>0, <2>5, <3>1 DEF Resumes
  <2> QED BY <1>4, <2>1, <2>2, <2>3, <2>4, <2>5 DEF Resume
<1>5. CASE LinkDelivery(q)
  <2>1. CASE job[q].delivery.event # None
    BY <1>0, <1>5, <2>1 DEF LinkDelivery, Goto, Links
  <2>2. CASE job[q].delivery.event = None
    BY <1>4, <1>5, <2>2 DEF LinkDelivery
  <2> QED BY <2>1, <2>2
<1>6. CASE LinkEvent(q)
  BY <1>4, <1>6 DEF LinkEvent
<1> QED BY <1>1, <1>2, <1>3, <1>5, <1>6

LEMMA MovesWorking ==
  ASSUME Inv, NEW q \in Procs,
         Project(q) \/ ReadReceipt(q) \/ WriteReceipt(q) \/ SendAdjust(q) \/ SaveCatalog(q)
  PROVE  Over(q) \/ Projects(q) \/ Reads(q) \/ Writes(q) \/ Sends(q) \/ Saves(q)
<1>0. /\ pc \in [Procs -> Phase] /\ job \in [Procs -> JobType] /\ job[q] \in JobType
  BY DEF Inv, ProcessTypeOK
<1>a. ASSUME Succeed(q) \/ Throw(q) PROVE Over(q)
  BY <1>0, <1>a DEF Succeed, Throw, Exit, Goto, Over
<1>b. ASSUME NEW op, Operate(q, op)
      PROVE  pc'[q] = "read" /\ job'[q].op = op /\ KeepsMore(q)
  BY <1>0, <1>b DEF Operate, Goto, KeepsMore, Keeps, JobType
<1>c. ASSUME NEW phase, Goto(q, phase), UNCHANGED job PROVE pc'[q] = phase /\ KeepsMore(q)
  BY <1>0, <1>c DEF Goto, KeepsMore, Keeps
<1>1. CASE Project(q)
  BY <1>0, <1>1 DEF Project, Goto, Projects, Keeps, JobType
<1>2. CASE ReadReceipt(q)
  <2>1. CASE Throw(q)
    BY <1>a, <2>1
  <2>2. CASE ~Throw(q)
    BY <1>0, <1>2, <2>2 DEF ReadReceipt, Goto, Reads, Keeps, JobType
  <2> QED BY <2>1, <2>2
<1>3. CASE WriteReceipt(q)
  <2>1. CASE Succeed(q)
    BY <1>a, <2>1
  <2>2. CASE job[q].op = "savePlan" /\ Operate(q, "markSent")
    BY <1>3, <1>b, <2>2 DEF Writes, WriteReceipt
  <2>3. CASE job[q].op = "markSent" /\ Goto(q, RemotePhase(job[q].plan)) /\ UNCHANGED job
    <3>1. pc'[q] \in {"adjust", "commit"} /\ KeepsMore(q)
      BY <1>c, <2>3 DEF RemotePhase
    <3> QED BY <1>3, <2>3, <3>1 DEF Writes, WriteReceipt
  <2>4. CASE job[q].op = "markComplete" /\ Operate(q, "checkpoint")
    BY <1>3, <1>b, <2>4 DEF Writes, WriteReceipt
  <2> QED BY <1>3, <2>1, <2>2, <2>3, <2>4 DEF WriteReceipt
<1>4. CASE SendAdjust(q)
  <2>0. pc[q] = "adjust"
    BY <1>4 DEF SendAdjust
  <2>1. CASE Operate(q, "quarantine")
    BY <1>4, <1>b, <2>0, <2>1 DEF Sends
  <2>2. CASE Goto(q, "commit") /\ UNCHANGED job
    BY <1>4, <1>c, <2>0, <2>2 DEF Sends
  <2> QED BY <1>4, <2>1, <2>2 DEF SendAdjust
<1>5. CASE SaveCatalog(q)
  BY <1>5, <1>b DEF SaveCatalog, Saves
<1> QED BY <1>1, <1>2, <1>3, <1>4, <1>5

(* In a step a process stays where it is, ends, or takes its next turn.    *)
Turn(q) ==
  \/ Still(q) \/ Over(q)
  \/ \E d \in Deliveries : Begins(q, d)
  \/ Chooses(q) \/ Opens(q) \/ Creates(q) \/ Links(q) \/ Resumes(q)
  \/ Projects(q) \/ Reads(q) \/ Writes(q) \/ Sends(q) \/ Saves(q)

LEMMA EveryTurn ==
  ASSUME Inv, [Next]_vars, NEW q \in Procs
  PROVE  Turn(q)
<1>0. pc \in [Procs -> Phase] /\ job \in [Procs -> JobType]
  BY DEF Inv, ProcessTypeOK
<1>1. ASSUME NEW p \in Procs, q # p, Run(p) \/ Stop(p) \/ \E d \in Deliveries : Start(p, d)
      PROVE  Turn(q)
  BY <1>1, OneProcessMoves DEF Turn, Still
<1>2. CASE Run(q)
  BY <1>2, MovesOpening, MovesWorking DEF Run, Turn
<1>3. CASE Stop(q)
  BY <1>0, <1>3 DEF Stop, Throw, Exit, Goto, Turn, Over
<1>4. ASSUME NEW d \in Deliveries, Start(q, d) PROVE Turn(q)
  <2>1. Begins(q, d)
    BY <1>0, <1>4 DEF Start, Goto, Begins, JobType
  <2> QED BY <2>1 DEF Turn
<1>5. CASE UNCHANGED <<pc, job>>
  BY <1>5 DEF Turn, Still
<1> QED BY <1>1, <1>2, <1>3, <1>4, <1>5 DEF Next, vars, Sale, GetLate

(* What a step writes to the receipt files.                                *)
Filed(p, r) ==
  /\ job[p].primary \in Keys /\ r \in Receipt /\ r.state # "absent"
  /\ WriteFile(job[p].primary, r)

LEMMA FilesChange ==
  ASSUME Inv, [Next]_vars
  PROVE  \/ UNCHANGED <<receipts, replaced>>
         \/ \E p \in Procs : Creates(p) /\ Filed(p, job[p].receipt)
         \/ \E p \in Procs : WriteReceipt(p) /\ pc[p] = "write" /\ Filed(p, Written(p))
<1>0. pc \in [Procs -> Phase] /\ job \in [Procs -> JobType]
  BY DEF Inv, ProcessTypeOK
<1>1. ASSUME NEW p \in Procs, CreateReceipt(p)
      PROVE  Creates(p) /\ Filed(p, job[p].receipt)
  <2>1. job[p] \in JobType /\ GoodProcess(pc[p], job[p], receipts, begun, now)
    BY JobTypes DEF Inv
  <2>2. /\ job[p].primary \in Keys /\ job[p].receipt \in Receipt
        /\ job[p].receipt.state # "absent"
    BY <1>1, <2>1 DEF GoodProcess, CreateReceipt, Linking, JobType
  <2>3. Creates(p)
    BY <1>0, <1>1 DEF CreateReceipt, Goto, Creates
  <2> QED BY <1>1, <2>2, <2>3 DEF CreateReceipt, Filed
<1>2. ASSUME NEW p \in Procs, WriteReceipt(p)
      PROVE  pc[p] = "write" /\ Filed(p, Written(p))
  <2>1. job[p] \in JobType /\ job[p].primary \in Keys /\ pc[p] = "write"
    BY <1>2, JobTypes DEF WriteReceipt
  <2>2. Written(p) \in Receipt
    BY <2>1, WrittenType
  <2>3. Written(p).state # "absent"
    BY <2>1 DEF Written, JobType, Receipt
  <2> QED BY <1>2, <2>1, <2>2, <2>3 DEF WriteReceipt, Filed
<1>3. CASE UNCHANGED <<receipts, replaced>>
  BY <1>3
<1> QED BY <1>1, <1>2, <1>3 DEF Next, Run, vars, files, history, Start, ReadEventAlias, OpenReceipt,
     LinkDelivery, LinkEvent, Project, ReadReceipt, SendAdjust, SaveCatalog, Stop, Sale, GetLate

LEMMA HistoryGrows ==
  ASSUME Inv, [Next]_vars
  PROVE  /\ begun \subseteq begun' /\ troubled \subseteq troubled'
         /\ replaced \subseteq replaced'
         /\ \A b : Peaceful(b)' => Peaceful(b)
         /\ \A b : Calm(b)' => Calm(b)
<1>1. troubled \subseteq troubled'
  BY DEF Next, Run, vars, files, service, history, Start, ReadEventAlias, OpenReceipt,
     CreateReceipt, LinkDelivery, LinkEvent, Project, ReadReceipt, WriteReceipt, WriteFile,
     SendAdjust, SaveCatalog, Stop, Sale, GetLate
<1>2. begun \subseteq begun' /\ replaced \subseteq replaced'
  BY WorldStep DEF Later, now
<1> QED BY <1>1, <1>2 DEF Peaceful, Calm

(* A process gives its webhook or event the alias of its receipt.          *)
NewAlias(p, k) ==
  /\ job[p].primary \in Keys /\ alias' = [alias EXCEPT ![k] = job[p].primary]
  /\ \/ pc[p] = "link-delivery" /\ k = DeliveryKey(job[p].delivery)
     \/ pc[p] = "link-event" /\ k = EventKey(job[p].delivery)

LEMMA AliasChange ==
  ASSUME Inv, AliasesLead, [Next]_vars
  PROVE  \/ UNCHANGED alias
         \/ \E p \in Procs, k \in Keys : NewAlias(p, k) /\ UNCHANGED receipts
<1>1. ASSUME NEW p \in Procs, LinkDelivery(p)
      PROVE  /\ pc[p] = "link-delivery" /\ DeliveryKey(job[p].delivery) \in Keys
             /\ job[p].primary \in Keys /\ UNCHANGED receipts
             /\ NewAlias(p, DeliveryKey(job[p].delivery))
  BY <1>1, JobTypes DEF LinkDelivery, DeliveryLinked, NewAlias
<1>2. ASSUME NEW p \in Procs, LinkEvent(p)
      PROVE  /\ pc[p] = "link-event" /\ EventKey(job[p].delivery) \in Keys
             /\ job[p].primary \in Keys /\ UNCHANGED receipts
             /\ NewAlias(p, EventKey(job[p].delivery))
  BY <1>2, JobTypes DEF LinkEvent, AliasesLead, NewAlias
<1>3. UNCHANGED alias \/ \E p \in Procs : LinkDelivery(p) \/ LinkEvent(p)
  BY DEF Next, Run, vars, files, Start, ReadEventAlias, OpenReceipt, CreateReceipt,
     WriteReceipt, WriteFile, Project, ReadReceipt, SendAdjust, SaveCatalog, Stop, Sale, GetLate
<1> QED BY <1>1, <1>2, <1>3

LEMMA ThereStays ==
  ASSUME Inv, [Next]_vars, NEW k \in Keys, There(k)
  PROVE  There(k)'
BY FilesStep DEF FilesAge, There

LEMMA LinkedStays ==
  ASSUME Inv, AliasesLead, [Next]_vars, NEW d \in Deliveries, Linked(d)
  PROVE  Linked(d)'
<1>1. \A k \in Keys : alias[k] # None => alias'[k] # None
  <2>1. alias \in [Keys -> Keys \union {None}] /\ None \notin Keys
    BY ProcessAssumption DEF Inv, ProcessTypeOK
  <2> QED BY <2>1, AliasChange DEF NewAlias
<1>2. DeliveryKey(d) \in Keys /\ (d.event # None => EventKey(d) \in Keys)
  BY DEF Keys
<1> QED BY <1>1, <1>2 DEF Linked, LinkedIn

(* What is held now was held before, or it is a receipt just opened.       *)
NewlyHeld(p, k, b) == Opens(p) /\ BodyOf(p) = b /\ job[p].primary = k /\ ~There(k)

LEMMA OpensWhat ==
  ASSUME Inv, NEW p \in Procs, Opens(p)
  PROVE  /\ job[p].primary \in Keys /\ receipts[job[p].primary] \in Receipt
         /\ BodyOf(p) \in Body
         /\ ~There(job[p].primary) =>
              /\ job'[p].receipt.state = "received" /\ job'[p].receipt.body = BodyOf(p)
              /\ job'[p].receipt.plan = Unplanned /\ pc'[p] = "create"
         /\ There(job[p].primary) =>
              /\ job'[p].receipt.body = receipts[job[p].primary].body
              /\ job'[p].receipt.plan = receipts[job[p].primary].plan
              /\ \/ pc'[p] = "create" /\ job'[p].receipt.state = "quarantined"
                 \/ pc'[p] = "link-delivery" /\ job'[p].receipt = receipts[job[p].primary]
<1> DEFINE r == receipts[job[p].primary]
<1>1. pc[p] = "open"
  BY DEF Opens
<1>2. job[p].primary \in Keys /\ r \in Receipt /\ BodyOf(p) \in Body
  BY <1>1, JobTypes
<1>3. ASSUME r.state = "absent"
      PROVE  /\ job'[p].receipt.state = "received" /\ job'[p].receipt.body = BodyOf(p)
             /\ job'[p].receipt.plan = Unplanned /\ pc'[p] = "create"
  <2>1. Opened(r, BodyOf(p)) = [NoReceipt EXCEPT !.state = "received", !.body = BodyOf(p)]
    BY <1>3 DEF Opened
  <2>2. /\ Opened(r, BodyOf(p)).state = "received" /\ Opened(r, BodyOf(p)).body = BodyOf(p)
        /\ Opened(r, BodyOf(p)).plan = Unplanned
    BY <2>1 DEF NoReceipt
  <2> QED BY <1>3, <2>2 DEF Opens
<1>4. ASSUME r.state # "absent"
      PROVE  /\ job'[p].receipt.body = r.body /\ job'[p].receipt.plan = r.plan
             /\ \/ pc'[p] = "create" /\ job'[p].receipt.state = "quarantined"
                \/ pc'[p] = "link-delivery" /\ job'[p].receipt = r
  <2>1. CASE Opened(r, BodyOf(p)) = r
    BY <2>1 DEF Opens
  <2>2. CASE Opened(r, BodyOf(p)) # r
    <3>1. Opened(r, BodyOf(p))
            = [r EXCEPT !.state = "quarantined", !.conflicting = BodyOf(p)]
      BY <1>4, <2>2 DEF Opened
    <3>2. /\ Opened(r, BodyOf(p)).state = "quarantined" /\ Opened(r, BodyOf(p)).body = r.body
          /\ Opened(r, BodyOf(p)).plan = r.plan
      BY <1>2, <3>1 DEF Receipt
    <3> QED BY <2>2, <3>2 DEF Opens
  <2> QED BY <2>1, <2>2
<1> QED BY <1>2, <1>3, <1>4 DEF There

LEMMA HeldBefore ==
  ASSUME Inv, NotYetOpened, [Next]_vars, NEW k \in Keys, NEW b \in Body, Held(k, b)'
  PROVE  Held(k, b) \/ \E p \in Procs : NewlyHeld(p, k, b)
<1>0. receipts \in [Keys -> Receipt] /\ None \notin Body
  BY ProcessAssumption DEF Inv, ProcessTypeOK
<1>1. CASE receipts'[k].body = b
  <2>1. CASE UNCHANGED receipts
    BY <1>1, <2>1 DEF Held
  <2>2. ASSUME NEW p \in Procs, Filed(p, job[p].receipt) PROVE Held(k, b)
    BY <1>0, <1>1, <2>2 DEF Filed, WriteFile, Held
  <2>3. ASSUME NEW p \in Procs, Filed(p, Written(p)) PROVE Held(k, b)
    <3>1. Written(p).body = job[p].receipt.body
      BY JobTypes DEF Written, JobType, Receipt
    <3> QED BY <1>0, <1>1, <2>3, <3>1 DEF Filed, WriteFile, Held
  <2> QED BY <2>1, <2>2, <2>3, FilesChange
<1>2. ASSUME NEW q \in Procs, job'[q].primary = k, job'[q].receipt.body = b
      PROVE  Held(k, b) \/ \E p \in Procs : NewlyHeld(p, k, b)
  <2>1. CASE Over(q)
    BY <1>0, <1>2, <2>1 DEF Over, NoJob, NoReceipt
  <2>2. CASE job'[q].primary = job[q].primary /\ job'[q].receipt = job[q].receipt
    BY <1>2, <2>2 DEF Held
  <2>3. CASE Chooses(q)
    BY <1>0, <1>2, <2>3 DEF Chooses, NotYetOpened
  <2>4. CASE Opens(q)
    <3>1. job[q].primary = k
      BY <1>2, <2>4 DEF Opens, Keeps
    <3>2. CASE There(k)
      BY <1>2, <2>4, <3>1, <3>2, OpensWhat DEF Held
    <3>3. CASE ~There(k)
      BY <1>2, <2>4, <3>1, <3>3, OpensWhat DEF NewlyHeld
    <3> QED BY <3>2, <3>3
  <2>5. CASE Reads(q)
    BY <1>2, <2>5 DEF Reads, Keeps, Held
  <2> QED BY <2>1, <2>2, <2>3, <2>4, <2>5, EveryTurn DEF Turn, Still, Begins, Creates, Links,
       Resumes, Projects, Writes, Sends, Saves, KeepsMore, Keeps
<1> QED BY <1>1, <1>2 DEF Held

LEMMA OpeningBefore ==
  ASSUME Inv, [Next]_vars, NEW q \in Procs, Opening(q)'
  PROVE  \/ Opening(q) /\ job'[q].delivery = job[q].delivery
         \/ \E d \in Deliveries : Begins(q, d)
BY EveryTurn DEF Opening, Turn, Still, Over, Chooses, Opens, Creates, Links, Resumes,
   Projects, Reads, Writes, Sends, Saves, Keeps, KeepsMore

(* A process that begins with a body of which another one is being opened  *)
(* ends the peace of that body.                                            *)
LEMMA BeginsAlone ==
  ASSUME Inv, [Next]_vars, NEW p \in Procs, NEW d \in Deliveries, Begins(p, d),
         NEW q \in Procs, Opening(q), BodyOf(q) = d.body
  PROVE  ~Peaceful(d.body)'
BY DEF Begins, Start, Peaceful

LEMMA OpenersStayApart ==
  ASSUME Inv, OpenersApart, [Next]_vars
  PROVE  OpenersApart'
<1> SUFFICES ASSUME NEW p \in Procs, NEW q \in Procs, p # q, Opening(p)', Opening(q)',
                    BodyOf(p)' = BodyOf(q)', Peaceful(BodyOf(p))'
             PROVE  FALSE
  BY DEF OpenersApart
<1>1. ASSUME NEW x \in Procs, NEW y \in Procs, x # y, Opening(y)',
             BodyOf(x)' = BodyOf(y)', Peaceful(BodyOf(x))',
             NEW d \in Deliveries, Begins(x, d)
      PROVE  FALSE
  <2>1. BodyOf(x)' = d.body
    BY <1>1 DEF Begins, BodyOf
  <2>2. pc'[y] = pc[y] /\ job'[y] = job[y]
    BY <1>1, OneProcessMoves DEF Begins
  <2>3. Opening(y) /\ BodyOf(y) = d.body
    BY <1>1, <2>1, <2>2 DEF Opening, BodyOf
  <2> QED BY <1>1, <2>1, <2>3, BeginsAlone DEF Peaceful
<1>2. /\ Opening(p) /\ job'[p].delivery = job[p].delivery
      /\ Opening(q) /\ job'[q].delivery = job[q].delivery
  BY <1>1, OpeningBefore
<1>3. BodyOf(p) = BodyOf(q) /\ Peaceful(BodyOf(p))
  BY <1>2, HistoryGrows DEF BodyOf, Peaceful
<1> QED BY <1>2, <1>3 DEF OpenersApart

LEMMA NotYetOpenedStays ==
  ASSUME Inv, NotYetOpened, [Next]_vars
  PROVE  NotYetOpened'
<1> SUFFICES ASSUME NEW q \in Procs, pc'[q] \in {"idle", "event-alias", "open"}
             PROVE  job'[q].receipt.body = None
  BY DEF NotYetOpened
<1>1. CASE Over(q)
  BY <1>1 DEF Over, NoJob, NoReceipt
<1>2. CASE /\ job'[q].receipt = job[q].receipt
           /\ pc[q] \in {"idle", "event-alias", "open"}
  BY <1>2 DEF NotYetOpened
<1> QED BY <1>1, <1>2, EveryTurn DEF Turn, Still, Begins, Chooses, Opens, Creates, Links, Resumes,
     Projects, Reads, Writes, Sends, Saves

LEMMA AliasesStillLead ==
  ASSUME Inv, AliasesLead, [Next]_vars
  PROVE  AliasesLead'
<1>0. /\ alias \in [Keys -> Keys \union {None}] /\ None \notin Keys
      /\ \A k \in Keys : There(k) => receipts'[k].state # "absent"
  BY ThereStays, ProcessAssumption DEF Inv, ProcessTypeOK, There
<1>1. ASSUME NEW k \in Keys, alias'[k] # None PROVE receipts'[alias'[k]].state # "absent"
  <2>1. CASE UNCHANGED alias
    BY <1>0, <1>1, <2>1 DEF AliasesLead, There
  <2>2. ASSUME NEW p \in Procs, NEW l \in Keys, NewAlias(p, l) PROVE receipts'[alias'[k]].state # "absent"
    <3>1. receipts'[job[p].primary].state # "absent" /\ job[p].primary \in Keys
      BY <1>0, <2>2 DEF NewAlias, AliasesLead
    <3>2. alias'[k] = IF k = l THEN job[p].primary ELSE alias[k]
      BY <1>0, <2>2 DEF NewAlias
    <3> QED BY <1>0, <1>1, <3>1, <3>2 DEF AliasesLead, There
  <2> QED BY <2>1, <2>2, AliasChange
<1> SUFFICES ASSUME NEW q \in Procs
             PROVE  /\ pc'[q] \notin {"idle"} /\ job'[q].aliased # None
                          => receipts'[job'[q].aliased].state # "absent"
                    /\ pc'[q] \in {"link-delivery", "link-event"} => receipts'[job'[q].primary].state # "absent"
                    /\ pc'[q] = "link-event" =>
                         /\ alias'[DeliveryKey(job'[q].delivery)] # None
                         /\ job'[q].delivery.event # None
  BY <1>1 DEF AliasesLead, There
<1>2. ASSUME pc'[q] \notin {"idle"}, job'[q].aliased # None PROVE receipts'[job'[q].aliased].state # "absent"
  <2>1. CASE pc[q] # "idle" /\ job'[q].aliased = job[q].aliased
    <3>1. job[q].aliased \in Keys
      BY <1>2, <2>1, JobTypes DEF JobType
    <3> QED BY <1>0, <1>2, <2>1, <3>1 DEF AliasesLead, There
  <2>2. ASSUME NEW d \in Deliveries, Begins(q, d) PROVE receipts'[job'[q].aliased].state # "absent"
    <3>1. job'[q].aliased = alias[DeliveryKey(d)] /\ DeliveryKey(d) \in Keys
      BY <2>2 DEF Begins, Keys
    <3> QED BY <1>0, <1>2, <3>1 DEF AliasesLead, There
  <2> QED BY <1>2, <2>1, <2>2, EveryTurn DEF Turn, Still, Over, Chooses, Opens, Creates, Links,
       Resumes, Projects, Reads, Writes, Sends, Saves, Keeps, KeepsMore
<1>3. ASSUME pc'[q] \in {"link-delivery", "link-event"} PROVE receipts'[job'[q].primary].state # "absent"
  <2>1. CASE pc[q] \in {"link-delivery", "link-event"} /\ job'[q] = job[q]
    <3>1. job[q].primary \in Keys
      BY <2>1, JobTypes
    <3> QED BY <1>0, <2>1, <3>1 DEF AliasesLead, There
  <2>2. CASE Opens(q)
    <3>1. There(job[q].primary) /\ job[q].primary \in Keys
      BY <1>3, <2>2, OpensWhat
    <3> QED BY <1>0, <2>2, <3>1 DEF Opens, Keeps, There
  <2>3. CASE Creates(q)
    <3>1. Filed(q, job[q].receipt)
      <4>1. job[q] \in JobType /\ GoodProcess(pc[q], job[q], receipts, begun, now)
        BY JobTypes DEF Inv
      <4>2. /\ job[q].primary \in Keys /\ job[q].receipt \in Receipt
            /\ job[q].receipt.state # "absent"
        BY <2>3, <4>1 DEF GoodProcess, Creates, Linking, JobType
      <4> QED BY <2>3, <4>2 DEF Creates, CreateReceipt, Filed
    <3>2. receipts'[job[q].primary] = job[q].receipt
      BY <3>1 DEF Filed, WriteFile, Inv, ProcessTypeOK
    <3> QED BY <2>3, <3>1, <3>2 DEF Creates, Filed, There
  <2> QED BY <1>3, <2>1, <2>2, <2>3, EveryTurn DEF Turn, Still, Over, Begins, Chooses, Links,
       Resumes, Projects, Reads, Writes, Sends, Saves
<1>4. ASSUME pc'[q] = "link-event"
      PROVE  /\ alias'[DeliveryKey(job'[q].delivery)] # None
             /\ job'[q].delivery.event # None
  <2>1. CASE pc[q] = "link-event" /\ job'[q] = job[q]
    <3>1. /\ DeliveryKey(job[q].delivery) \in Keys
          /\ alias[DeliveryKey(job[q].delivery)] # None /\ job[q].delivery.event # None
      BY <2>1, JobTypes DEF AliasesLead
    <3>2. \A k \in Keys : alias[k] # None => alias'[k] # None
      BY <1>0, AliasChange DEF NewAlias
    <3> QED BY <2>1, <3>1, <3>2
  <2>2. CASE Links(q)
    <3>1. /\ alias' = [alias EXCEPT ![DeliveryKey(job[q].delivery)] = job[q].primary]
          /\ DeliveryKey(job[q].delivery) \in Keys /\ job[q].primary \in Keys
      BY <2>2, JobTypes DEF Links, LinkDelivery, DeliveryLinked
    <3>2. job'[q] = job[q] /\ job[q].delivery.event # None
      BY <2>2 DEF Links
    <3> QED BY <1>0, <3>1, <3>2
  <2> QED BY <1>4, <2>1, <2>2, EveryTurn DEF Turn, Still, Over, Begins, Chooses, Opens, Creates,
       Resumes, Projects, Reads, Writes, Sends, Saves
<1> QED BY <1>2, <1>3, <1>4

(* A process that creates and links its receipt either goes on, or its     *)
(* webhook is linked, or its body is no longer in peace.                   *)
LEMMA OpenerGoesOn ==
  ASSUME Inv, AliasesLead, [Next]_vars, NEW p \in Procs, pc[p] \in Linking,
         BodyOf(p) \notin troubled'
  PROVE  \/ pc'[p] \in Linking /\ job'[p].delivery = job[p].delivery
         \/ LinkedIn(alias', job[p].delivery)
<1>0. /\ job[p].delivery \in Deliveries /\ DeliveryKey(job[p].delivery) \in Keys
      /\ job[p].delivery.event # None => EventKey(job[p].delivery) \in Keys
      /\ job[p].primary \in Keys /\ None \notin Keys
      /\ alias \in [Keys -> Keys \union {None}]
  BY JobTypes, ProcessAssumption DEF Linking, Inv, ProcessTypeOK
<1>1. ASSUME LinkDelivery(p), job[p].delivery.event = None PROVE LinkedIn(alias', job[p].delivery)
  BY <1>0, <1>1 DEF LinkDelivery, DeliveryLinked, LinkedIn
<1>2. ASSUME LinkEvent(p) PROVE LinkedIn(alias', job[p].delivery)
  <2>1. /\ alias[DeliveryKey(job[p].delivery)] # None
        /\ alias' = [alias EXCEPT ![EventKey(job[p].delivery)] = job[p].primary]
    BY <1>2 DEF LinkEvent, AliasesLead
  <2> QED BY <1>0, <2>1 DEF LinkedIn
<1>3. ASSUME Over(p) PROVE LinkedIn(alias', job[p].delivery)
  <2>1. ~Stop(p)
    BY DEF Stop, Opening, Linking
  <2>2. job'[p] # job[p]
    BY <1>0, <1>3, ProcessAssumption DEF Over, NoJob
  <2>3. \A q \in Procs : Run(q) \/ Stop(q) \/ (\E d \in Deliveries : Start(q, d)) => q = p
    BY <2>2, OneProcessMoves
  <2>4. Run(p) \/ \E d \in Deliveries : Start(p, d)
    BY <2>1, <2>2, <2>3 DEF Next, vars, Sale, GetLate
  <2>5. LinkDelivery(p) \/ LinkEvent(p) \/ CreateReceipt(p)
    BY <2>4 DEF Run, Linking, Start, ReadEventAlias, OpenReceipt, Project, ReadReceipt,
       WriteReceipt, SendAdjust, SaveCatalog
  <2>6. ~CreateReceipt(p)
    BY <2>2 DEF CreateReceipt
  <2>7. ASSUME LinkDelivery(p), job[p].delivery.event # None PROVE FALSE
    BY <2>2, <2>7 DEF LinkDelivery
  <2> QED BY <1>1, <1>2, <2>5, <2>6, <2>7
<1> QED BY <1>1, <1>2, <1>3, EveryTurn DEF Turn, Still, Begins, Chooses, Opens, Creates, Links,
     Resumes, Projects, Reads, Writes, Sends, Saves, Linking, Keeps, KeepsMore

LEMMA OpenerIsKnown ==
  ASSUME Inv, NEW p \in Procs, pc[p] # "idle"
  PROVE  job[p].delivery \in begun /\ job[p].delivery \in Deliveries
BY DEF Inv, GoodProcess, ProcessTypeOK

LEMMA HeldStaysLinked ==
  ASSUME Inv, AliasInv, [Next]_vars
  PROVE  HeldIsLinked'
<1> SUFFICES ASSUME NEW b \in Body, NEW k \in Keys, Peaceful(b)', Held(k, b)'
             PROVE  \/ \E d \in begun' : d.body = b /\ Linked(d)'
                    \/ \E p \in Procs : pc'[p] \in Linking /\ job'[p].delivery.body = b
  BY DEF HeldIsLinked, BodyOf
<1>0. Peaceful(b) /\ b \notin troubled' /\ begun \subseteq begun' /\ begun \subseteq Deliveries
  BY HistoryGrows, WorldStep DEF Peaceful
<1>1. ASSUME NEW p \in Procs, NewlyHeld(p, k, b)
      PROVE  pc'[p] \in Linking /\ job'[p].delivery.body = b
  BY <1>1, OpensWhat DEF NewlyHeld, Opens, Keeps, BodyOf, Linking
<1>2. ASSUME NEW d \in begun, d.body = b, Linked(d)
      PROVE  d \in begun' /\ Linked(d)'
  BY <1>0, <1>2, LinkedStays DEF AliasInv
<1>3. ASSUME NEW p \in Procs, pc[p] \in Linking, BodyOf(p) = b
      PROVE  \/ \E d \in begun' : d.body = b /\ Linked(d)'
             \/ pc'[p] \in Linking /\ job'[p].delivery.body = b
  <2>1. job[p].delivery \in begun'
    BY <1>0, <1>3, OpenerIsKnown DEF Linking
  <2> QED BY <1>0, <1>3, <2>1, OpenerGoesOn DEF AliasInv, BodyOf, Linked
<1> QED BY <1>0, <1>1, <1>2, <1>3, HeldBefore DEF AliasInv, HeldIsLinked

LEMMA OpenerStillKnows ==
  ASSUME Inv, AliasInv, [Next]_vars
  PROVE  OpenerKnows'
<1> SUFFICES ASSUME NEW p \in Procs, NEW k \in Keys, NEW b \in Body,
                    pc'[p] \in {"event-alias", "open"}, b = job'[p].delivery.body,
                    Peaceful(b)', Held(k, b)'
             PROVE  \E d \in begun' :
                      d.body = b /\ Linked(d)' /\ Knows(pc[p], job[p], d)'
  BY DEF OpenerKnows, BodyOf, Peaceful
<1>0. /\ Peaceful(b) /\ b \notin troubled' /\ begun \subseteq begun' /\ begun \subseteq Deliveries
      /\ \A d \in begun : Linked(d) => d \in begun' /\ Linked(d)'
  BY HistoryGrows, WorldStep, LinkedStays DEF Peaceful, AliasInv
<1>1. CASE pc'[p] = pc[p] /\ job'[p] = job[p]
  <2>0. Opening(p) /\ BodyOf(p) = b /\ job[p].primary \in Keys \union {None}
    BY <1>1, JobTypes DEF Opening, BodyOf, JobType
  <2>1. Held(k, b)
    <3>1. ASSUME NEW q \in Procs, NewlyHeld(q, k, b) PROVE FALSE
      <4>1. Opening(q) /\ BodyOf(q) = b
        BY <3>1 DEF NewlyHeld, Opens, Opening
      <4>2. q = p
        BY <1>0, <2>0, <4>1 DEF AliasInv, OpenersApart
      <4> QED BY <1>1, <3>1, <4>2 DEF NewlyHeld, Opens
    <3> QED BY <3>1, HeldBefore DEF AliasInv
  <2>2. PICK d \in begun : d.body = b /\ Linked(d) /\ Knows(pc[p], job[p], d)
    BY <1>0, <1>1, <2>0, <2>1 DEF AliasInv, OpenerKnows
  <2>3. pc[p] = "open" => job[p].primary \in Keys
    BY JobTypes
  <2>4. Knows(pc[p], job[p], d)'
    <3>1. pc[p] = "open" /\ There(job[p].primary) => receipts'[job[p].primary].state # "absent"
      BY <2>3, ThereStays DEF There
    <3> QED BY <1>1, <2>2, <3>1 DEF Knows, There
  <2> QED BY <1>0, <2>2, <2>4
<1>2. ASSUME NEW own \in Deliveries, Begins(p, own)
      PROVE  \E d \in begun' : d.body = b /\ Linked(d)' /\ Knows(pc[p], job[p], d)'
  <2>0. own.body = b /\ UNCHANGED <<receipts, alias>> /\ pc[p] = "idle"
    BY <1>2 DEF Begins, Start, files
  <2>1. Held(k, b)
    <3>1. ASSUME NEW q \in Procs, NewlyHeld(q, k, b) PROVE FALSE
      <4>1. q # p
        BY <2>0, <3>1 DEF NewlyHeld, Opens
      <4>2. pc'[q] = pc[q] /\ pc[q] = "open"
        BY <1>2, <3>1, <4>1, OneProcessMoves DEF Begins, NewlyHeld, Opens
      <4> QED BY <3>1, <4>2 DEF NewlyHeld, Opens
    <3> QED BY <3>1, HeldBefore DEF AliasInv
  <2>2. ASSUME NEW q \in Procs, pc[q] \in Linking, BodyOf(q) = b PROVE FALSE
    <3>1. Opening(q)
      BY <2>2 DEF Linking, Opening
    <3> QED BY <1>2, <2>0, <2>2, <3>1, BeginsAlone
  <2>3. PICK d \in begun : d.body = b /\ Linked(d)
    BY <1>0, <2>1, <2>2 DEF AliasInv, HeldIsLinked
  <2>4. pc'[p] = "event-alias" /\ job'[p].delivery = own /\ job'[p].aliased = alias[DeliveryKey(own)]
    BY <1>2 DEF Begins
  <2>5. d.webhook = own.webhook => alias[DeliveryKey(own)] # None
    BY <2>3 DEF Linked, LinkedIn, DeliveryKey
  <2>6. Knows(pc[p], job[p], d)'
    BY <2>4, <2>5 DEF Knows
  <2> QED BY <1>0, <2>3, <2>6
<1>3. CASE Chooses(p)
  <2> DEFINE own == job[p].delivery
             aliased == job[p].aliased
  <2>0. /\ own.body = b /\ UNCHANGED <<receipts, alias>> /\ pc[p] = "event-alias"
        /\ job'[p].primary = Primary(own, aliased) /\ pc'[p] = "open"
        /\ job'[p].delivery = own
    BY <1>3 DEF Chooses, ReadEventAlias, files
  <2>1. Held(k, b)
    <3>1. ASSUME NEW q \in Procs, NewlyHeld(q, k, b) PROVE FALSE
      <4>1. Opening(q) /\ BodyOf(q) = b /\ Opening(p) /\ BodyOf(p) = b /\ pc[q] = "open"
        BY <2>0, <3>1 DEF NewlyHeld, Opens, Opening, BodyOf
      <4>2. q = p
        BY <1>0, <4>1 DEF AliasInv, OpenersApart
      <4> QED BY <2>0, <4>1, <4>2
    <3> QED BY <3>1, HeldBefore DEF AliasInv
  <2>2. PICK d \in begun : d.body = b /\ Linked(d) /\ Knows(pc[p], job[p], d)
    BY <1>0, <2>0, <2>1 DEF AliasInv, OpenerKnows, BodyOf
  <2>3. /\ alias \in [Keys -> Keys \union {None}] /\ aliased \in Keys \union {None}
        /\ own.event # None => EventKey(own) \in Keys
    BY <2>0, JobTypes DEF Inv, ProcessTypeOK, JobType
  <2>4. aliased # None => There(aliased)
    BY <2>0 DEF AliasInv, AliasesLead
  <2>5. EventAlias(own) # None => There(EventAlias(own))
    BY <2>3 DEF AliasInv, AliasesLead, EventAlias
  <2>6. EventAlias(own) # None \/ aliased # None => There(Primary(own, aliased))
    BY <2>4, <2>5 DEF Primary
  <2>7. d.event # None /\ d.event = own.event => EventAlias(own) # None
    BY <2>2 DEF Linked, LinkedIn, EventKey, EventAlias
  <2>8. d.webhook = own.webhook => aliased # None
    BY <2>0, <2>2 DEF Knows
  <2>9. Knows(pc[p], job[p], d)'
    BY <2>0, <2>6, <2>7, <2>8 DEF Knows, There
  <2> QED BY <1>0, <2>2, <2>9
<1> QED BY <1>1, <1>2, <1>3, EveryTurn DEF Turn, Still, Over, Opens, Creates, Links,
     Resumes, Projects, Reads, Writes, Sends, Saves

LEMMA HeldTwiceStaysExcused ==
  ASSUME Inv, AliasInv, [Next]_vars
  PROVE  HeldTwiceIsExcused'
<1> SUFFICES ASSUME NEW b \in Body, NEW k \in Keys, NEW l \in Keys, k # l,
                    Peaceful(b)', Held(k, b)', Held(l, b)'
             PROVE  Excused(b)'
  BY DEF HeldTwiceIsExcused
<1>0. Peaceful(b) /\ begun \subseteq begun' /\ begun \subseteq Deliveries
  BY HistoryGrows, WorldStep
<1>1. Excused(b) => Excused(b)'
  BY <1>0 DEF Excused
<1>2. ASSUME NEW p \in Procs, NEW m \in Keys, NEW n \in Keys,
             NewlyHeld(p, m, b), Held(n, b)
      PROVE  Excused(b)
  <2> DEFINE own == job[p].delivery
  <2>0. /\ pc[p] = "open" /\ own.body = b /\ job[p].primary = m /\ ~There(m)
        /\ own \in begun
    BY <1>2, OpenerIsKnown DEF NewlyHeld, Opens, BodyOf
  <2>1. PICK d \in begun : d.body = b /\ Linked(d) /\ Knows(pc[p], job[p], d)
    BY <1>0, <1>2, <2>0 DEF AliasInv, OpenerKnows, BodyOf
  <2>2. d.webhook # own.webhook /\ ~(d.event # None /\ d.event = own.event)
    BY <2>0, <2>1 DEF Knows
  <2>3. d.event = own.event \/ None \in {d.event, own.event}
    BY <1>0, <2>0, <2>1, ActionAssumption
  <2> QED BY <2>0, <2>1, <2>2, <2>3 DEF Excused
<1>3. ASSUME NEW p \in Procs, NEW q \in Procs, NewlyHeld(p, k, b), NewlyHeld(q, l, b)
      PROVE  FALSE
  <2>1. Opening(p) /\ BodyOf(p) = b /\ Opening(q) /\ BodyOf(q) = b
    BY <1>3 DEF NewlyHeld, Opens, Opening
  <2>2. p = q
    BY <1>0, <2>1 DEF AliasInv, OpenersApart
  <2> QED BY <1>3, <2>2 DEF NewlyHeld
<1>4. CASE Held(k, b) /\ Held(l, b)
  BY <1>0, <1>1, <1>4 DEF AliasInv, HeldTwiceIsExcused
<1> QED BY <1>1, <1>2, <1>3, <1>4, HeldBefore DEF AliasInv

LEMMA AliasInvStep ==
  ASSUME Inv, AliasInv, [Next]_vars
  PROVE  AliasInv'
BY OpenersStayApart, AliasesStillLead, NotYetOpenedStays, HeldStaysLinked, OpenerStillKnows,
   HeldTwiceStaysExcused DEF AliasInv

(***************************************************************************)
(* One move.  A receipt of a calm body goes forward in its own file only,  *)
(* and a plan that can still be applied was saved when the receipt had     *)
(* none.                                                                   *)
(***************************************************************************)
(* A process that is about to file the receipt it has made.                *)
Fresh(p) == pc[p] = "create" /\ job[p].receipt.state = "received"

Working(phase) == phase \in {"project", "read", "write", "adjust", "commit"}

(* A process whose receipt has a plan in its file.                         *)
Planned(phase, j) ==
  \/ phase \in {"adjust", "commit"}
  \/ phase \in {"read", "write"} /\ j.op # "savePlan"
  \/ /\ phase \in {"link-delivery", "link-event"}
     /\ j.receipt.state \notin {"received", "quarantined"}

(* A process whose plan has passed a check of the receipt.                 *)
Checked(phase, j) ==
  \/ phase = "adjust"
  \/ phase = "write" /\ j.op \in {"savePlan", "markSent"}
  \/ phase = "read" /\ j.op = "markSent"

Past(k) == receipts[k].state \notin {"absent", "received"}

(* A plan the service would still apply.                                   *)
Live(plan) ==
  plan \in Adjust /\ plan.revision = revision[plan.body.item] /\ Calm(plan.body)

Safe(plan) ==
  Live(plan) /\ (\E a \in ledger : a.body = plan.body) => Split(plan.body)

CreatesReceived ==
  \A p \in Procs : pc[p] = "create" => job[p].receipt.state \in {"received", "quarantined"}

FreshIsFirst ==
  \A p \in Procs :
    Fresh(p) /\ Calm(BodyOf(p)) => receipts[job[p].primary].body # BodyOf(p)

MemoryIsFiled ==
  \A p \in Procs :
    job[p].receipt.body # None /\ ~Fresh(p) =>
      /\ There(job[p].primary)
      /\ Calm(job[p].receipt.body) =>
           receipts[job[p].primary].body = job[p].receipt.body

WorksOnItsBody ==
  \A p \in Procs :
    Working(pc[p]) /\ Calm(BodyOf(p)) => receipts[job[p].primary].body = BodyOf(p)

PlannedIsPast ==
  \A p \in Procs : Planned(pc[p], job[p]) /\ Calm(BodyOf(p)) => Past(job[p].primary)

MovedIsPast ==
  \A a \in ledger :
    Calm(a.body) => \E k \in Keys : receipts[k].body = a.body /\ Past(k)

PlansAreSafe ==
  /\ \A k \in Keys : Safe(receipts[k].plan)
  /\ \A p \in Procs :
       Safe(job[p].receipt.plan) /\ (Checked(pc[p], job[p]) => Safe(job[p].plan))

MoveInv ==
  /\ CreatesReceived /\ FreshIsFirst /\ MemoryIsFiled
  /\ WorksOnItsBody /\ PlannedIsPast /\ MovedIsPast /\ PlansAreSafe
  /\ OneMoveForEachAction

LEMMA WrittenWhat ==
  ASSUME NEW p \in Procs, job[p] \in JobType
  PROVE  /\ Written(p).body = job[p].receipt.body
         /\ Written(p).state \notin {"absent", "received"}
         /\ Written(p).plan \in {job[p].receipt.plan, job[p].plan}
         /\ job[p].op # "savePlan" => Written(p).plan = job[p].receipt.plan
BY DEF Written, JobType, Receipt

(* A calm body keeps its receipt.                                          *)
LEMMA CalmBodyStays ==
  ASSUME Inv, [Next]_vars, NEW k \in Keys,
         NEW b \in Body, receipts[k].body = b, Calm(b)'
  PROVE  receipts'[k].body = b
<1>0. receipts \in [Keys -> Receipt] /\ None \notin Body
  BY ProcessAssumption DEF Inv, ProcessTypeOK
<1>1. ASSUME NEW p \in Procs, NEW r, Filed(p, r) PROVE receipts'[k].body = b
  <2>1. CASE job[p].primary = k
    BY <1>0, <1>1, <2>1 DEF Filed, WriteFile, Calm
  <2>2. CASE job[p].primary # k
    BY <1>0, <1>1, <2>2 DEF Filed, WriteFile
  <2> QED BY <2>1, <2>2
<1> QED BY <1>1, FilesChange

LEMMA FreshBody ==
  ASSUME Inv, NEW p \in Procs, Fresh(p)
  PROVE  job[p].receipt.body = BodyOf(p) /\ Opening(p) /\ job[p].primary \in Keys
BY JobTypes DEF Inv, Fresh, GoodProcess, Linking, Opening, BodyOf

(* And once its receipt has a plan, that stays so.                         *)
LEMMA PastStays ==
  ASSUME Inv, MoveInv, [Next]_vars, NEW k \in Keys, NEW b \in Body,
         receipts[k].body = b, Calm(b)', Past(k)
  PROVE  receipts'[k].state \notin {"absent", "received"}
<1>0. /\ receipts \in [Keys -> Receipt] /\ Calm(b) /\ receipts'[k].body = b
      /\ \A p \in Procs : job[p] \in JobType
  BY CalmBodyStays, HistoryGrows, JobTypes DEF Inv, ProcessTypeOK
<1>1. CASE UNCHANGED receipts
  BY <1>1 DEF Past
<1>2. ASSUME NEW p \in Procs, Creates(p), Filed(p, job[p].receipt)
      PROVE  receipts'[k].state \notin {"absent", "received"}
  <2>1. CASE job[p].primary = k
    <3>1. receipts'[k] = job[p].receipt
      BY <1>0, <1>2, <2>1 DEF Filed, WriteFile
    <3>2. ASSUME job[p].receipt.state = "received" PROVE FALSE
      <4>1. Fresh(p)
        BY <1>2, <3>2 DEF Fresh, Creates
      <4>2. BodyOf(p) = b
        BY <1>0, <3>1, <4>1, FreshBody
      <4> QED BY <1>0, <2>1, <4>1, <4>2 DEF MoveInv, FreshIsFirst
    <3> QED BY <1>2, <3>1, <3>2 DEF Filed
  <2>2. CASE job[p].primary # k
    BY <1>0, <1>2, <2>2 DEF Filed, WriteFile, Past
  <2> QED BY <2>1, <2>2
<1>3. ASSUME NEW p \in Procs, Filed(p, Written(p))
      PROVE  receipts'[k].state \notin {"absent", "received"}
  <2>1. receipts'[k] = IF job[p].primary = k THEN Written(p) ELSE receipts[k]
    BY <1>0, <1>3 DEF Filed, WriteFile
  <2>2. Written(p).state \notin {"absent", "received"}
    BY <1>0, WrittenWhat
  <2> QED BY <2>1, <2>2 DEF Past
<1> QED BY <1>1, <1>2, <1>3, FilesChange

LEMMA CreatesStillReceived ==
  ASSUME Inv, MoveInv, [Next]_vars
  PROVE  CreatesReceived'
<1> SUFFICES ASSUME NEW q \in Procs, pc'[q] = "create"
             PROVE  job'[q].receipt.state \in {"received", "quarantined"}
  BY DEF CreatesReceived
<1>1. CASE Still(q)
  BY <1>1 DEF Still, MoveInv, CreatesReceived
<1>2. CASE Opens(q)
  BY <1>2, OpensWhat
<1> QED BY <1>1, <1>2, EveryTurn DEF Turn, Over, Begins, Chooses, Creates, Links, Resumes,
     Projects, Reads, Writes, Sends, Saves

LEMMA FreshStaysFirst ==
  ASSUME Inv, AliasInv, MoveInv, [Next]_vars
  PROVE  FreshIsFirst'
<1> SUFFICES ASSUME NEW q \in Procs, pc'[q] = "create", job'[q].receipt.state = "received",
                    NEW b \in Body, b = job'[q].delivery.body, Calm(b)',
                    receipts'[job'[q].primary].body = b
             PROVE  FALSE
  BY DEF FreshIsFirst, Fresh, BodyOf, Calm, Peaceful
<1>0. /\ receipts \in [Keys -> Receipt] /\ Calm(b) /\ Peaceful(b) /\ None \notin Body
      /\ \A p \in Procs : job[p] \in JobType
  BY HistoryGrows, JobTypes, ProcessAssumption DEF Inv, ProcessTypeOK, Calm
<1>1. CASE Still(q)
  <2>0. /\ Fresh(q) /\ BodyOf(q) = b /\ Opening(q) /\ job[q].primary \in Keys
        /\ job'[q] = job[q]
    BY <1>1, FreshBody DEF Still, Fresh, BodyOf
  <2>1. receipts[job[q].primary].body # b
    BY <1>0, <2>0 DEF MoveInv, FreshIsFirst
  <2>2. ASSUME NEW p \in Procs, job[p].primary = job[q].primary, job[p].receipt.body = b,
               ~Fresh(p)
        PROVE  FALSE
    BY <1>0, <2>1, <2>2 DEF MoveInv, MemoryIsFiled
  <2>3. ASSUME NEW p \in Procs, Fresh(p), job[p].receipt.body = b PROVE p = q
    <3>1. Opening(p) /\ BodyOf(p) = b
      BY <2>3, FreshBody
    <3> QED BY <1>0, <2>0, <3>1 DEF AliasInv, OpenersApart
  <2>4. CASE UNCHANGED receipts
    BY <2>0, <2>1, <2>4
  <2>5. ASSUME NEW p \in Procs, Creates(p), Filed(p, job[p].receipt) PROVE FALSE
    <3>1. p # q
      BY <1>1, <2>0, <2>5 DEF Creates, Still, Fresh
    <3> QED BY <1>0, <2>0, <2>1, <2>2, <2>3, <2>5, <3>1 DEF Filed, WriteFile
  <2>6. ASSUME NEW p \in Procs, pc[p] = "write", Filed(p, Written(p)) PROVE FALSE
    <3>1. Written(p).body = job[p].receipt.body /\ ~Fresh(p)
      BY <1>0, <2>6, WrittenWhat DEF Fresh
    <3> QED BY <1>0, <2>0, <2>1, <2>2, <2>6, <3>1 DEF Filed, WriteFile
  <2> QED BY <2>4, <2>5, <2>6, FilesChange
<1>2. CASE Opens(q)
  <2>1. /\ ~There(job[q].primary) /\ job[q].primary \in Keys /\ UNCHANGED receipts
        /\ job'[q].primary = job[q].primary
    <3>1. UNCHANGED receipts /\ job'[q].primary = job[q].primary
      BY <1>2 DEF Opens, OpenReceipt, files, Keeps
    <3> QED BY <1>2, <3>1, OpensWhat
  <2>2. receipts[job[q].primary].body = None
    BY <2>1 DEF Inv, GoodReceipt, There
  <2> QED BY <1>0, <2>1, <2>2
<1> QED BY <1>1, <1>2, EveryTurn DEF Turn, Over, Begins, Chooses, Creates, Links, Resumes,
     Projects, Reads, Writes, Sends, Saves

LEMMA LookingHasNone ==
  ASSUME Inv, AliasInv, NEW q \in Procs, job[q].receipt.body # None
  PROVE  /\ pc[q] \notin {"idle", "event-alias", "open"}
         /\ job[q].primary \in Keys /\ job[q].receipt.body \in Body
<1>1. pc[q] \notin {"idle", "event-alias", "open"}
  BY DEF AliasInv, NotYetOpened
<1> QED BY <1>1, JobTypes DEF JobType, Receipt

LEMMA MemoryStaysFiled ==
  ASSUME Inv, AliasInv, MoveInv, [Next]_vars
  PROVE  MemoryIsFiled'
<1> SUFFICES ASSUME NEW q \in Procs, NEW b, b = job'[q].receipt.body, b # None,
                    ~(pc'[q] = "create" /\ job'[q].receipt.state = "received"),
                    NEW k, k = job'[q].primary
             PROVE  /\ There(k)'
                    /\ Calm(b)' => receipts'[k].body = b
  BY DEF MemoryIsFiled, Fresh, Calm, Peaceful, There
<1>0. receipts \in [Keys -> Receipt] /\ \A p \in Procs : job[p] \in JobType
  BY JobTypes DEF Inv, ProcessTypeOK
<1>1. ASSUME k = job[q].primary, b = job[q].receipt.body, ~Fresh(q)
      PROVE  There(k)' /\ (Calm(b)' => receipts'[k].body = b)
  <2>1. k \in Keys /\ b \in Body
    BY <1>1, LookingHasNone
  <2>2. There(k) /\ (Calm(b) => receipts[k].body = b)
    BY <1>1 DEF MoveInv, MemoryIsFiled
  <2> QED BY <2>1, <2>2, ThereStays, CalmBodyStays, HistoryGrows
<1>2. CASE Still(q)
  BY <1>1, <1>2 DEF Still, Fresh
<1>3. CASE Over(q)
  BY <1>3 DEF Over, NoJob, NoReceipt
<1>4. CASE Chooses(q) \/ \E d \in Deliveries : Begins(q, d)
  BY <1>4 DEF Chooses, Begins, AliasInv, NotYetOpened
<1>5. CASE Opens(q)
  <2>1. UNCHANGED receipts /\ k = job[q].primary
    BY <1>5 DEF Opens, OpenReceipt, files, Keeps
  <2>2. There(k) /\ receipts[k].body = b
    BY <1>5, <2>1, OpensWhat
  <2> QED BY <2>1, <2>2 DEF There
<1>6. CASE Creates(q) /\ Fresh(q)
  <2>1. /\ k = job[q].primary /\ k \in Keys /\ job[q].receipt.state = "received"
        /\ b = job[q].receipt.body
    BY <1>6, FreshBody DEF Creates, Fresh
  <2>2. receipts'[k] = job[q].receipt
    BY <1>0, <1>6, <2>1 DEF Creates, CreateReceipt, WriteFile
  <2> QED BY <2>1, <2>2 DEF There
<1>7. CASE Reads(q)
  <2>1. /\ UNCHANGED receipts /\ k = job[q].primary /\ k \in Keys
        /\ job'[q].receipt = receipts[k]
    <3>1. pc[q] = "read" /\ k = job[q].primary /\ UNCHANGED receipts
      BY <1>7 DEF Reads, ReadReceipt, files, Keeps
    <3> QED BY <1>7, <3>1, JobTypes DEF Reads
  <2>2. receipts[k].body = b /\ There(k)
    BY <2>1 DEF Inv, GoodReceipt, There
  <2> QED BY <2>1, <2>2 DEF There
<1>8. ASSUME (Creates(q) /\ ~Fresh(q)) \/ Links(q) \/ Resumes(q) \/ Projects(q) \/ Writes(q)
               \/ Sends(q) \/ Saves(q)
      PROVE  There(k)' /\ (Calm(b)' => receipts'[k].body = b)
  BY <1>1, <1>8 DEF Creates, Links, Resumes, Projects, Writes, Sends, Saves, Keeps, KeepsMore,
     Fresh
<1> QED BY <1>2, <1>3, <1>4, <1>5, <1>6, <1>7, <1>8, EveryTurn DEF Turn

(* A process that goes on with the plan in its receipt's file knows that   *)
(* it is the receipt of its body.                                          *)
LEMMA OwnReceipt ==
  ASSUME Inv, MoveInv, NEW q \in Procs, Calm(BodyOf(q)),
         \/ Working(pc[q])
         \/ pc[q] \in {"link-delivery", "link-event"} /\ job[q].receipt.state # "quarantined"
  PROVE  /\ receipts[job[q].primary].body = BodyOf(q)
         /\ job[q].primary \in Keys /\ BodyOf(q) \in Body
<1>1. job[q].primary \in Keys /\ BodyOf(q) \in Body
  BY JobTypes DEF Working
<1>2. CASE Working(pc[q])
  BY <1>1, <1>2 DEF MoveInv, WorksOnItsBody
<1>3. CASE pc[q] \in {"link-delivery", "link-event"} /\ job[q].receipt.state # "quarantined"
  <2>1. job[q].receipt.body = BodyOf(q)
    BY <1>3 DEF Inv, GoodProcess, Linking, BodyOf
  <2>2. ~Fresh(q) /\ job[q].receipt.body # None
    BY <1>1, <1>3, <2>1, ProcessAssumption DEF Fresh
  <2> QED BY <1>1, <2>1, <2>2 DEF MoveInv, MemoryIsFiled
<1> QED BY <1>1, <1>2, <1>3

LEMMA StillOnItsBody ==
  ASSUME Inv, MoveInv, [Next]_vars
  PROVE  WorksOnItsBody'
<1> SUFFICES ASSUME NEW q \in Procs, Working(pc'[q]), NEW b, b = job'[q].delivery.body,
                    Calm(b)', NEW k, k = job'[q].primary
             PROVE  receipts'[k].body = b
  BY DEF WorksOnItsBody, BodyOf, Calm, Peaceful
<1>1. ASSUME k = job[q].primary, b = BodyOf(q),
             \/ Working(pc[q])
             \/ /\ pc[q] \in {"link-delivery", "link-event"}
                /\ job[q].receipt.state # "quarantined"
      PROVE  receipts'[k].body = b
  <2>1. receipts[k].body = b /\ k \in Keys /\ b \in Body
    BY <1>1, OwnReceipt, HistoryGrows
  <2> QED BY <2>1, CalmBodyStays
<1>2. CASE Still(q)
  BY <1>1, <1>2 DEF Still, BodyOf
<1>3. CASE Resumes(q)
  BY <1>1, <1>3 DEF Resumes, KeepsMore, Keeps, BodyOf
<1>4. CASE Projects(q) \/ Reads(q) \/ Writes(q) \/ Sends(q) \/ Saves(q)
  BY <1>1, <1>4 DEF Projects, Reads, Writes, Sends, Saves, KeepsMore, Keeps, Working, BodyOf
<1> QED BY <1>2, <1>3, <1>4, EveryTurn DEF Turn, Over, Begins, Chooses, Opens, Creates, Links,
     Working

LEMMA StaysPlanned ==
  ASSUME Inv, MoveInv, [Next]_vars
  PROVE  PlannedIsPast'
<1> SUFFICES ASSUME NEW q \in Procs, Planned(pc'[q], job'[q]),
                    NEW b, b = job'[q].delivery.body, Calm(b)', NEW k, k = job'[q].primary
             PROVE  receipts'[k].state \notin {"absent", "received"}
  BY DEF PlannedIsPast, BodyOf, Calm, Peaceful, Past
<1>0. receipts \in [Keys -> Receipt] /\ job[q] \in JobType
  BY JobTypes DEF Inv, ProcessTypeOK
<1>1. ASSUME k = job[q].primary, b = BodyOf(q), Planned(pc[q], job[q])
      PROVE  receipts'[k].state \notin {"absent", "received"}
  <2>1. Calm(b)
    BY HistoryGrows
  <2>2. receipts[k].body = b /\ k \in Keys /\ b \in Body
    BY <1>1, <2>1, OwnReceipt DEF Planned, Working
  <2>3. Past(k)
    BY <1>1, <2>1 DEF MoveInv, PlannedIsPast
  <2> QED BY <2>2, <2>3, PastStays
<1>2. CASE Still(q)
  BY <1>1, <1>2 DEF Still, BodyOf
<1>3. CASE Opens(q)
  <2>1. UNCHANGED receipts /\ k = job[q].primary
    BY <1>3 DEF Opens, OpenReceipt, files, Keeps
  <2>2. pc'[q] # "create" /\ job'[q].receipt.state \notin {"received", "quarantined"}
    BY <1>3 DEF Opens, Planned
  <2>3. There(k) /\ job'[q].receipt = receipts[k]
    BY <1>3, <2>1, <2>2, OpensWhat
  <2> QED BY <2>1, <2>2, <2>3 DEF There
<1>4. CASE Creates(q)
  BY <1>4 DEF Creates, MoveInv, CreatesReceived, Planned
<1>5. CASE Links(q) \/ Resumes(q) \/ Reads(q) \/ Sends(q) \/ Saves(q)
  BY <1>1, <1>5 DEF Links, Resumes, Reads, Sends, Saves, KeepsMore, Keeps, Planned, BodyOf
<1>6. CASE Writes(q) /\ job[q].op = "savePlan"
  <2>1. k = job[q].primary /\ k \in Keys
    BY <1>6, JobTypes DEF Writes, KeepsMore, Keeps
  <2>2. receipts'[k] = Written(q)
    BY <1>0, <1>6, <2>1 DEF Writes, WriteReceipt, WriteFile
  <2> QED BY <1>0, <2>2, WrittenWhat
<1>7. CASE Writes(q) /\ job[q].op # "savePlan"
  BY <1>1, <1>7 DEF Writes, KeepsMore, Keeps, Planned, BodyOf
<1>8. CASE Projects(q)
  BY <1>8 DEF Projects, Planned
<1> QED BY <1>2, <1>3, <1>4, <1>5, <1>6, <1>7, <1>8, EveryTurn DEF Turn, Over, Begins, Chooses,
     Planned

(* A plan of before this step that is safe, and no newer than the stock.   *)
SafeSoFar(plan) ==
  /\ plan \in Plan /\ Safe(plan)
  /\ plan \in Adjust => plan.revision <= revision[plan.body.item]

LEMMA LedgerGrows ==
  ASSUME Inv, [Next]_vars
  PROVE  \/ UNCHANGED ledger
         \/ \E p \in Procs :
              /\ pc[p] = "adjust" /\ UNCHANGED receipts
              /\ ledger' = ledger \union {job[p].plan}
              /\ job[p].plan.revision = revision[job[p].plan.body.item]
              /\ revision' = [revision EXCEPT ![job[p].plan.body.item] = @ + 1]
<1>1. ASSUME NEW p \in Procs, SendAdjust(p)
      PROVE  \/ UNCHANGED ledger
             \/ /\ pc[p] = "adjust" /\ UNCHANGED receipts
                /\ ledger' = ledger \union {job[p].plan}
                /\ job[p].plan.revision = revision[job[p].plan.body.item]
                /\ revision' = [revision EXCEPT ![job[p].plan.body.item] = @ + 1]
  BY <1>1 DEF SendAdjust, Sent, service, files
<1>2. ASSUME NEW p \in Procs, Run(p) \/ Stop(p) \/ \E d \in Deliveries : Start(p, d)
      PROVE  UNCHANGED ledger \/ SendAdjust(p)
  BY <1>2 DEF Run, service, Start, ReadEventAlias, OpenReceipt,
     CreateReceipt, LinkDelivery, LinkEvent, Project, ReadReceipt, WriteReceipt,
     SaveCatalog, Stop
<1>3. CASE UNCHANGED vars \/ (\E i \in Items : Sale(i)) \/ \E d \in Deliveries : GetLate(d.body)
  BY <1>3 DEF vars, service, Sale, GetLate
<1> QED BY <1>1, <1>2, <1>3 DEF Next

LEMMA SplitStays ==
  ASSUME Inv, [Next]_vars, NEW b \in Body, Calm(b)', Split(b)
  PROVE  Split(b)'
BY CalmBodyStays DEF Split

LEMMA SafeStays ==
  ASSUME Inv, [Next]_vars, NEW plan, SafeSoFar(plan)
  PROVE  Safe(plan)'
<1> SUFFICES ASSUME plan \in Adjust, plan.revision = revision'[plan.body.item],
                    Calm(plan.body)', NEW a \in ledger', a.body = plan.body
             PROVE  Split(plan.body)'
  BY DEF Safe, Live
<1>0. /\ plan.revision \in Nat /\ plan.body \in Body /\ plan.body.item \in Items
      /\ revision \in [Items -> Nat]
  BY DEF Adjust, Body, Inv, ProcessTypeOK
<1>1. plan.revision = revision[plan.body.item]
  <2> DEFINE i == plan.body.item
  <2>1. Later(now, now') /\ revision' \in [Items -> Nat]
    BY WorldStep, TypeStep DEF ProcessTypeOK
  <2>2. revision'[i] > revision[i] \/ revision'[i] = revision[i]
    BY <1>0, <2>1 DEF Later, now
  <2>3. revision[i] \in Nat /\ revision'[i] \in Nat /\ plan.revision <= revision[i]
    BY <1>0, <2>1 DEF SafeSoFar
  <2> QED BY <2>2, <2>3
<1>2. a \in ledger
  <2>1. ASSUME NEW p \in Procs, pc[p] = "adjust", a = job[p].plan,
               revision' = [revision EXCEPT ![job[p].plan.body.item] = @ + 1]
        PROVE  FALSE
    <3> DEFINE i == plan.body.item
    <3>1. revision' = [revision EXCEPT ![i] = @ + 1]
      BY <2>1
    <3>2. ASSUME NEW n \in Nat, n = revision[i], n = n + 1 PROVE FALSE
      BY <3>2
    <3> QED BY <1>0, <1>1, <3>1, <3>2
  <2> QED BY <2>1, LedgerGrows
<1>3. Calm(plan.body)
  BY HistoryGrows
<1> QED BY <1>0, <1>1, <1>2, <1>3, SplitStays DEF SafeSoFar, Safe, Live

LEMMA SafePlans ==
  ASSUME Inv, MoveInv
  PROVE  /\ \A k \in Keys : SafeSoFar(receipts[k].plan)
         /\ \A p \in Procs :
              /\ SafeSoFar(job[p].receipt.plan)
              /\ Checked(pc[p], job[p]) => SafeSoFar(job[p].plan)
         /\ SafeSoFar(Unplanned)
<1>1. ASSUME NEW plan \in Plan, NEW b, GoodPlan(plan, b, now), plan \in Adjust
      PROVE  plan.revision <= revision[plan.body.item]
  BY <1>1, ProcessAssumption DEF GoodPlan, now
<1>2. ASSUME NEW r \in Receipt, GoodReceipt(r, now), r.plan \in Adjust
      PROVE  r.plan.revision <= revision[r.plan.body.item]
  BY <1>1, <1>2, ProcessAssumption DEF GoodReceipt, Receipt
<1>3. ASSUME NEW k \in Keys PROVE SafeSoFar(receipts[k].plan)
  <2>1. receipts[k] \in Receipt /\ GoodReceipt(receipts[k], now)
    BY DEF Inv, ProcessTypeOK
  <2> QED BY <1>2, <2>1 DEF MoveInv, PlansAreSafe, SafeSoFar, Receipt
<1>4. ASSUME NEW p \in Procs PROVE SafeSoFar(job[p].receipt.plan)
  <2>1. job[p].receipt \in Receipt /\ GoodReceipt(job[p].receipt, now)
    BY JobTypes DEF Inv, GoodProcess, JobType
  <2> QED BY <1>2, <2>1 DEF MoveInv, PlansAreSafe, SafeSoFar, Receipt
<1>5. ASSUME NEW p \in Procs, Checked(pc[p], job[p]) PROVE SafeSoFar(job[p].plan)
  <2>1. job[p].plan \in Plan
    BY JobTypes DEF JobType
  <2>2. Executing(pc[p], job[p]) /\ GoodProcess(pc[p], job[p], receipts, begun, now)
    BY <1>5 DEF Checked, Executing, Operating, Inv
  <2> QED BY <1>1, <1>5, <2>1, <2>2 DEF GoodProcess, MoveInv, PlansAreSafe, SafeSoFar
<1>6. SafeSoFar(Unplanned)
  BY ProcessAssumption DEF SafeSoFar, Safe, Live, Plan
<1> QED BY <1>3, <1>4, <1>5, <1>6

(* savePlan accepts a plan only for a receipt that has none yet: whatever  *)
(* was already applied for the body was applied for another receipt of it. *)
LEMMA AcceptedIsSafe ==
  ASSUME Inv, MoveInv, [Next]_vars, NEW q \in Procs, Reads(q), job[q].op = "savePlan"
  PROVE  SafeSoFar(job[q].plan)
<1> DEFINE k == job[q].primary
           plan == job[q].plan
           b == BodyOf(q)
<1>0. /\ pc[q] = "read" /\ k \in Keys /\ plan \in Plan /\ b \in Body
      /\ receipts[k].state = "received" /\ receipts[k].body = b
  <2>1. pc[q] = "read" /\ MaySavePlan(q, receipts[k])
    BY DEF Reads, May
  <2> QED BY <2>1, JobTypes DEF MaySavePlan, JobType
<1>1. GoodPlan(plan, b, now)
  BY <1>0 DEF Inv, GoodProcess, Executing, Operating, BodyOf
<1>2. ASSUME plan \in Adjust PROVE plan.body = b /\ plan.revision <= revision[b.item]
  BY <1>1, <1>2, ProcessAssumption DEF GoodPlan, now
<1>3. ASSUME Live(plan), NEW a \in ledger, a.body = plan.body PROVE Split(plan.body)
  <2>1. plan.body = b /\ Calm(b)
    BY <1>2, <1>3 DEF Live
  <2>2. PICK l \in Keys : receipts[l].body = b /\ Past(l)
    BY <1>3, <2>1 DEF MoveInv, MovedIsPast
  <2> QED BY <1>0, <2>1, <2>2 DEF Split, Past
<1> QED BY <1>0, <1>2, <1>3 DEF SafeSoFar, Safe

LEMMA PlansStaySafe ==
  ASSUME Inv, MoveInv, [Next]_vars
  PROVE  PlansAreSafe'
<1>0. receipts \in [Keys -> Receipt] /\ \A p \in Procs : job[p] \in JobType
  BY JobTypes DEF Inv, ProcessTypeOK
<1>1. ASSUME NEW k \in Keys, NEW plan, plan = receipts'[k].plan PROVE Safe(plan)'
  <2>1. ASSUME NEW p \in Procs, Filed(p, job[p].receipt) PROVE SafeSoFar(plan)
    <3>1. receipts'[k] \in {receipts[k], job[p].receipt}
      BY <1>0, <2>1 DEF Filed, WriteFile
    <3> QED BY <1>1, <3>1, SafePlans
  <2>2. ASSUME NEW p \in Procs, pc[p] = "write", Filed(p, Written(p))
        PROVE  SafeSoFar(plan)
    <3>1. receipts'[k] \in {receipts[k], Written(p)}
      BY <1>0, <2>2 DEF Filed, WriteFile
    <3>2. SafeSoFar(Written(p).plan)
      BY <1>0, <2>2, SafePlans, WrittenWhat DEF Checked
    <3> QED BY <1>1, <3>1, <3>2, SafePlans
  <2>3. CASE UNCHANGED receipts
    BY <1>1, <2>3, SafePlans, SafeStays
  <2> QED BY <2>1, <2>2, <2>3, FilesChange, SafeStays
<1>2. ASSUME NEW q \in Procs, NEW plan, plan = job'[q].receipt.plan PROVE Safe(plan)'
  <2>1. CASE job'[q].receipt = job[q].receipt
    BY <1>2, <2>1, SafePlans, SafeStays
  <2>2. CASE Over(q)
    BY <1>2, <2>2, SafePlans, SafeStays DEF Over, NoJob, NoReceipt
  <2>3. CASE Opens(q)
    BY <1>2, <2>3, OpensWhat, SafePlans, SafeStays
  <2>4. CASE Reads(q)
    <3>1. job[q].primary \in Keys
      BY <2>4, JobTypes DEF Reads
    <3> QED BY <1>2, <2>4, <3>1, SafePlans, SafeStays DEF Reads
  <2> QED BY <2>1, <2>2, <2>3, <2>4, EveryTurn DEF Turn, Still, Begins, Chooses, Creates, Links,
       Resumes, Projects, Writes, Sends, Saves, KeepsMore
<1>3. ASSUME NEW q \in Procs, Checked(pc'[q], job'[q]), NEW plan, plan = job'[q].plan
      PROVE  Safe(plan)'
  <2>1. CASE job'[q].plan = job[q].plan /\ Checked(pc[q], job[q])
    BY <1>3, <2>1, SafePlans, SafeStays
  <2>2. CASE Still(q)
    BY <1>3, <2>1, <2>2 DEF Still
  <2>3. CASE Resumes(q)
    <3>1. job[q].plan = job[q].receipt.plan /\ job'[q].plan = job[q].plan
      BY <2>3 DEF Resumes, KeepsMore, Inv, GoodProcess, Linking
    <3> QED BY <1>3, <3>1, SafePlans, SafeStays
  <2>4. CASE Reads(q)
    BY <1>3, <2>1, <2>4, AcceptedIsSafe, SafeStays DEF Reads, Checked
  <2>5. CASE Writes(q)
    BY <1>3, <2>1, <2>5 DEF Writes, KeepsMore, Checked
  <2> QED BY <1>3, <2>2, <2>3, <2>4, <2>5, EveryTurn DEF Turn, Over, Begins, Chooses, Opens,
       Creates, Links, Projects, Sends, Saves, Checked
<1> QED BY <1>1, <1>2, <1>3 DEF PlansAreSafe, Safe, Live, Split, Calm, Peaceful

LEMMA MovedStaysPast ==
  ASSUME Inv, MoveInv, [Next]_vars
  PROVE  MovedIsPast'
<1> SUFFICES ASSUME NEW a \in ledger', Calm(a.body)'
             PROVE  \E k \in Keys :
                      receipts'[k].body = a.body /\ receipts'[k].state \notin {"absent", "received"}
  BY DEF MovedIsPast, Past
<1>0. Calm(a.body) /\ a.body \in Body
  BY HistoryGrows DEF Calm, Peaceful
<1>1. CASE a \in ledger
  BY <1>0, <1>1, CalmBodyStays, PastStays DEF MoveInv, MovedIsPast
<1>2. ASSUME NEW p \in Procs, pc[p] = "adjust", a = job[p].plan, UNCHANGED receipts
      PROVE  \E k \in Keys :
               receipts'[k].body = a.body /\ receipts'[k].state \notin {"absent", "received"}
  <2>1. a.body = BodyOf(p)
    BY <1>2, AdjustFits
  <2>2. receipts[job[p].primary].body = a.body /\ job[p].primary \in Keys
    BY <1>0, <1>2, <2>1, OwnReceipt DEF Working
  <2>3. Past(job[p].primary)
    BY <1>0, <1>2, <2>1 DEF MoveInv, PlannedIsPast, Planned
  <2> QED BY <1>2, <2>2, <2>3 DEF Past
<1> QED BY <1>1, <1>2, LedgerGrows

LEMMA OneMoveStays ==
  ASSUME Inv, MoveInv, [Next]_vars
  PROVE  OneMoveForEachAction'
<1> SUFFICES ASSUME NEW a \in ledger', NEW b \in ledger', a # b, a.body = b.body,
                    Calm(a.body)'
             PROVE  Split(a.body)'
  <2>1. \A a \in ledger' : a.body \in Body
    BY TypeStep DEF ProcessTypeOK, Adjust
  <2> QED BY <2>1 DEF OneMoveForEachAction, Calm, Peaceful
<1>0. Calm(a.body) /\ a.body \in Body
  BY HistoryGrows DEF Calm, Peaceful
<1>1. CASE a \in ledger /\ b \in ledger
  BY <1>0, <1>1, SplitStays DEF MoveInv, OneMoveForEachAction, Calm, Peaceful
<1>2. ASSUME NEW p \in Procs, pc[p] = "adjust", NEW c \in ledger, c.body = job[p].plan.body,
             job[p].plan.revision = revision[job[p].plan.body.item], job[p].plan.body = a.body
      PROVE  Split(a.body)'
  <2>1. job[p].plan \in Adjust /\ Safe(job[p].plan)
    BY <1>2, AdjustFits DEF MoveInv, PlansAreSafe, Checked
  <2> QED BY <1>0, <1>2, <2>1, SplitStays DEF Safe, Live
<1>3. \/ a \in ledger /\ b \in ledger
      \/ \E p \in Procs, c \in ledger :
           /\ pc[p] = "adjust" /\ c.body = job[p].plan.body
           /\ job[p].plan.revision = revision[job[p].plan.body.item]
           /\ job[p].plan.body = a.body
  BY LedgerGrows
<1> QED BY <1>1, <1>2, <1>3

LEMMA MoveInvStep ==
  ASSUME Inv, AliasInv, MoveInv, [Next]_vars
  PROVE  MoveInv'
BY CreatesStillReceived, FreshStaysFirst, MemoryStaysFiled, StillOnItsBody, StaysPlanned,
   MovedStaysPast, PlansStaySafe, OneMoveStays DEF MoveInv

LEMMA PeaceInit ==
  ASSUME Init
  PROVE  AliasInv /\ MoveInv
<1>0. NoReceipt.body = None /\ NoReceipt.plan = Unplanned
  BY DEF NoReceipt
<1>1. /\ \A p \in Procs : pc[p] = "idle" /\ job[p] = NoJob
      /\ \A k \in Keys : receipts[k] = NoReceipt /\ alias[k] = None
      /\ ledger = {} /\ NoJob.receipt = NoReceipt
  BY DEF Init, NoJob
<1>2. \A b \in Body, k \in Keys : ~Held(k, b)
  BY <1>0, <1>1, ProcessAssumption DEF Held
<1>3. AliasInv
  BY <1>0, <1>1, <1>2 DEF AliasInv, OpenersApart, AliasesLead, NotYetOpened, HeldIsLinked,
     OpenerKnows, HeldTwiceIsExcused, Opening
<1>4. MoveInv
  BY <1>0, <1>1, ProcessAssumption DEF MoveInv, CreatesReceived, FreshIsFirst, MemoryIsFiled,
     WorksOnItsBody, PlannedIsPast, MovedIsPast, PlansAreSafe, OneMoveForEachAction, Fresh,
     Working, Planned, Checked, Safe, Live
<1> QED BY <1>3, <1>4

(* However many processes open receipts and carry out plans between them,  *)
(* what each remembers of a file that others write over stays true, as far *)
(* as the bodies go whose openings did not overlap.                        *)
THEOREM ProcessesStayInPeace == Spec => [](AliasInv /\ MoveInv)
<1>1. Init => Inv /\ AliasInv /\ MoveInv
  BY InvInit, PeaceInit
<1>2. Inv /\ AliasInv /\ MoveInv /\ [Next]_vars => (Inv /\ AliasInv /\ MoveInv)'
  BY InvStep, AliasInvStep, MoveInvStep
<1> QED BY <1>1, <1>2, PTL DEF Spec

(* A merchant action has one receipt (openShopifyDelivery with its aliases *)
(* of webhook and event), unless two openings of it overlapped or one was  *)
(* cut off, or a webhook of it came without the event id.                  *)
THEOREM AnActionHasOneReceipt == Spec => []OneReceiptForAnAction
<1>1. Inv /\ AliasInv => OneReceiptForAnAction
  <2> SUFFICES ASSUME Inv, AliasInv, NEW d \in begun, d.body \notin troubled,
                      NEW k \in Keys, NEW l \in Keys, k # l,
                      receipts[k].body = d.body, receipts[l].body = d.body
               PROVE  Excused(d.body)
    BY DEF OneReceiptForAnAction, Split, Excused
  <2>1. d.body \in Body
    BY ProcessAssumption DEF Inv, ProcessTypeOK
  <2> QED BY <2>1 DEF AliasInv, HeldTwiceIsExcused, Held, Peaceful
<1> QED BY <1>1, ProcessesStayGood, ProcessesStayInPeace, PTL

(* A merchant action moves the stock once: of the plans that processes     *)
(* compute for its webhooks, one is applied (savePlan, executePlan), unless*)
(* its receipt was split, or an opening or a write of another body         *)
(* disturbed it.                                                           *)
THEOREM AnActionMovesOnce == Spec => []OneMoveForEachAction
<1>1. MoveInv => OneMoveForEachAction
  BY DEF MoveInv
<1> QED BY <1>1, ProcessesStayInPeace, PTL
=============================================================================
