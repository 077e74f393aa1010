--------------------------- MODULE BridgeProcesses ---------------------------
(***************************************************************************)
(* The Shopify bridge as its command runs it: every delivered webhook is a *)
(* process of its own (shopify-bridge webhook), and the processes share a  *)
(* directory with the receipts, the alias files that name the receipt of a *)
(* webhook or event, and the catalog file.  FileReceiptLog puts only its   *)
(* own process's operations in a queue, so that here each operation is a   *)
(* read of a file and a later write of it, and any other process may come  *)
(* in between.  FileCatalog reads its file once and writes it whole.       *)
(*                                                                         *)
(* The deliveries are stock levels of imported listings with one inventory *)
(* item each; ShopifyInbound has the other plans and the calls of one      *)
(* process.                                                                *)
(***************************************************************************)
EXTENDS Integers, FiniteSets

CONSTANTS
  Procs,        \* bridge processes that may run together
  Items,        \* listings, each with its one inventory item
  Deliveries,   \* webhooks Shopify may send
  Scenarios,    \* which of them it sends, and a bound on stops, sales,
                \* needless repeats and webhooks that get late, together
  InitialStock, \* the stock both sides and the catalog begin with
  None,
  Unplanned     \* the plan of a receipt that has none

Body == [item : Items, level : Nat]

(* The merchant action's X-Shopify-Event-Id may be absent.                 *)
Identity(d) == IF d.event # None THEN d.event ELSE d.webhook

DeliveryKey(d) == <<"delivery", d.webhook>>
EventKey(d) == <<"event", d.event>>
Keys == {DeliveryKey(d) : d \in Deliveries}
          \union {EventKey(d) : d \in {e \in Deliveries : e.event # None}}

(* An inventory.adjust; identity and body are its idempotency key.  A plan *)
(* is the adjust to send, or None when the service has the level already.  *)
Adjust ==
  [identity : {Identity(d) : d \in Deliveries}, body : Body, revision : Nat, delta : Int]
Plan == Adjust \union {None, Unplanned}

ASSUME ProcessAssumption ==
  /\ \A d \in Deliveries : d.body \in Body
  /\ InitialStock \in [Items -> Nat]
  /\ None # Unplanned /\ None \notin Body \union Adjust /\ Unplanned \notin Adjust
  /\ None \notin Keys
  /\ Scenarios \subseteq [sent : SUBSET Deliveries, events : Nat]

(* A payload says when the level was changed, so that the webhooks of one  *)
(* body are of one merchant action: those that carry an event id carry the *)
(* same one.                                                               *)
ASSUME ActionAssumption ==
  \A d, e \in Deliveries :
    d.body = e.body => d.event = e.event \/ None \in {d.event, e.event}

ReceiptState ==
  {"absent", "received", "effect-planned", "effect-sent", "effect-complete",
   "checkpointed", "quarantined"}
Receipt ==
  [state : ReceiptState, body : Body \union {None}, conflicting : Body \union {None},
   plan : Plan]
NoReceipt ==
  [state |-> "absent", body |-> None, conflicting |-> None, plan |-> Unplanned]

Operation == {"none", "savePlan", "markSent", "markComplete", "checkpoint", "quarantine"}

VARIABLES
  receipts,  \* the receipt file of each key
  alias,     \* the alias file of each webhook and event
  catalog,   \* the quantities in the catalog file
  available, revision, ledger,  \* the service: stock, its revision, adjusts applied
  pc, job,   \* where each process is, and what it holds in memory
  owed,      \* deliveries not answered with success since they were last sent
  begun,     \* deliveries sent so far
  troubled,  \* bodies whose opening overlapped another one or was cut off
  replaced,  \* bodies whose receipt was written over another body's, or was so lost
  late,      \* bodies whose webhooks are older than the skew
  reached,   \* bodies whose level the service's stock has had since they were sent
  left       \* what is left of the scenario's events

files == <<receipts, alias, catalog>>
service == <<available, revision, ledger>>
history == <<begun, troubled, replaced, late>>
vars == <<files, service, pc, job, owed, history, reached, left>>

Phase ==
  {"idle", "event-alias", "open", "create", "link-delivery", "link-event", "project",
   "read", "write", "adjust", "commit"}

NoJob ==
  [delivery |-> None, aliased |-> None, primary |-> None, receipt |-> NoReceipt,
   plan |-> Unplanned, op |-> "none", memory |-> None]

Init ==
  /\ receipts = [k \in Keys |-> NoReceipt]
  /\ alias = [k \in Keys |-> None]
  /\ catalog = InitialStock
  /\ available = InitialStock /\ revision = [i \in Items |-> 0] /\ ledger = {}
  /\ pc = [p \in Procs |-> "idle"]
  /\ job = [p \in Procs |-> NoJob]
  /\ begun = {} /\ troubled = {} /\ replaced = {} /\ late = {} /\ reached = {}
  /\ \E s \in Scenarios : owed = s.sent /\ left = s.events

Goto(p, phase) == pc' = [pc EXCEPT ![p] = phase]
BodyOf(p) == job[p].delivery.body

(* The process ends.  Its exit code tells the receiver of the webhook      *)
(* whether to answer with success.                                         *)
Exit(p) == Goto(p, "idle") /\ job' = [job EXCEPT ![p] = NoJob]
Succeed(p) == Exit(p) /\ owed' = owed \ {job[p].delivery}
Throw(p) == Exit(p) /\ UNCHANGED owed

(* The next receipt operation of the process.                              *)
Operate(p, op) ==
  /\ Goto(p, "read")
  /\ job' = [job EXCEPT ![p].op = op]
  /\ UNCHANGED owed

(***************************************************************************)
(* openShopifyDelivery.                                                    *)
(***************************************************************************)
Opening(p) == pc[p] \in {"event-alias", "open", "create", "link-delivery", "link-event"}

Spend == left > 0 /\ left' = left - 1

(* A webhook is sent until it is answered, and sometimes once more.  Once  *)
(* it was triggered too long ago, each process started for it exits with   *)
(* an error before it opens a file.                                        *)
Due(d) == d \in owed /\ \A q \in Procs : job[q].delivery # d

Start(p, d) ==
  /\ pc[p] = "idle" /\ d \in owed \union begun /\ d.body \notin late
  /\ IF Due(d) THEN UNCHANGED left ELSE Spend
  /\ Goto(p, "event-alias")
  /\ job' = [job EXCEPT ![p].delivery = d, ![p].aliased = alias[DeliveryKey(d)]]
  /\ owed' = owed \union {d}
  /\ begun' = begun \union {d}
  /\ troubled' = IF \E q \in Procs : Opening(q) /\ BodyOf(q) = d.body
                 THEN troubled \union {d.body} ELSE troubled
  /\ reached' = IF available[d.body.item] = d.body.level
                THEN reached \union {d.body} ELSE reached
  /\ UNCHANGED <<files, service, replaced, late>>

EventAlias(d) == IF d.event = None THEN None ELSE alias[EventKey(d)]

Primary(d, aliased) ==
  CASE EventAlias(d) # None -> EventAlias(d)
    [] EventAlias(d) = None /\ aliased # None -> aliased
    [] OTHER -> IF d.event # None THEN EventKey(d) ELSE DeliveryKey(d)

(* A webhook and its event that were given different receipts.             *)
AliasesDiffer(d, aliased) ==
  aliased # None /\ EventAlias(d) # None /\ aliased # EventAlias(d)

ReadEventAlias(p) ==
  LET d == job[p].delivery
      aliased == job[p].aliased
  IN
  /\ pc[p] = "event-alias"
  /\ \/ /\ AliasesDiffer(d, aliased)
        /\ Throw(p)
     \/ /\ ~AliasesDiffer(d, aliased)
        /\ job' = [job EXCEPT ![p].primary = Primary(d, aliased)]
        /\ Goto(p, "open")
        /\ UNCHANGED owed
  /\ UNCHANGED <<files, service, history, reached, left>>

Opened(r, body) ==
  IF r.state = "absent" THEN [NoReceipt EXCEPT !.state = "received", !.body = body]
  ELSE IF r.body = body \/ (r.state = "quarantined" /\ r.conflicting = body) THEN r
  ELSE [r EXCEPT !.state = "quarantined", !.conflicting = body]

OpenReceipt(p) ==
  LET r == receipts[job[p].primary] IN
  /\ pc[p] = "open"
  /\ job' = [job EXCEPT ![p].receipt = Opened(r, BodyOf(p)), ![p].plan = r.plan]
  /\ Goto(p, IF Opened(r, BodyOf(p)) = r THEN "link-delivery" ELSE "create")
  /\ UNCHANGED <<files, service, owed, history, reached, left>>

(* #write replaces whatever the file holds by now.                         *)
WriteFile(k, r) ==
  /\ receipts' = [receipts EXCEPT ![k] = r]
  /\ replaced' = IF receipts[k].body \in {None, r.body} THEN replaced
                 ELSE replaced \union {receipts[k].body, r.body}
  /\ UNCHANGED <<alias, catalog, begun, troubled, late>>

CreateReceipt(p) ==
  /\ pc[p] = "create"
  /\ WriteFile(job[p].primary, job[p].receipt)
  /\ Goto(p, "link-delivery")
  /\ UNCHANGED <<service, job, owed, reached, left>>

RemotePhase(plan) == IF plan = None THEN "commit" ELSE "adjust"

(* resume: how a process goes on from the receipt it opened.               *)
Resume(p) ==
  LET state == job[p].receipt.state IN
  \/ state \in {"quarantined", "checkpointed"} /\ Succeed(p)
  \/ state = "effect-complete" /\ Operate(p, "checkpoint")
  \/ state = "effect-planned" /\ Operate(p, "markSent")
  \/ /\ state = "effect-sent"
     /\ Goto(p, RemotePhase(job[p].plan))
     /\ UNCHANGED <<job, owed>>
  \/ state = "received" /\ Goto(p, "project") /\ UNCHANGED <<job, owed>>

(* Mutant: the webhook id of a delivery with an event id is not linked.    *)
LinksOfDelivery(p) ==
  IF job[p].delivery.event = None
  THEN [alias EXCEPT ![DeliveryKey(job[p].delivery)] = job[p].primary] ELSE alias

DeliveryLinked(p) == [alias EXCEPT ![DeliveryKey(job[p].delivery)] = job[p].primary]

LinkDelivery(p) ==
  /\ pc[p] = "link-delivery"
  /\ alias' = DeliveryLinked(p)
  /\ \/ /\ job[p].delivery.event # None
        /\ Goto(p, "link-event")
        /\ UNCHANGED <<job, owed>>
     \/ job[p].delivery.event = None /\ Resume(p)
  /\ UNCHANGED <<receipts, catalog, service, history, reached, left>>

LinkEvent(p) ==
  /\ pc[p] = "link-event"
  /\ alias' = [alias EXCEPT ![EventKey(job[p].delivery)] = job[p].primary]
  /\ Resume(p)
  /\ UNCHANGED <<receipts, catalog, service, history, reached, left>>

(***************************************************************************)
(* buildWebhookPlan for a stock level: the catalog, then the projection.   *)
(***************************************************************************)
PlanFor(d) ==
  LET delta == d.body.level - available[d.body.item] IN
  IF delta = 0 THEN None
  ELSE [identity |-> Identity(d), body |-> d.body,
        revision |-> revision[d.body.item], delta |-> delta]

Project(p) ==
  /\ pc[p] = "project"
  /\ job' = [job EXCEPT ![p].memory = catalog, ![p].op = "savePlan",
                        ![p].plan = PlanFor(job[p].delivery)]
  /\ Goto(p, "read")
  /\ UNCHANGED <<files, service, owed, history, reached, left>>

(***************************************************************************)
(* A receipt operation: the file is read and checked, and what it becomes  *)
(* is written later, over whatever is there by then.                       *)
(***************************************************************************)
(* Mutant: savePlan compares the payload and not the state.                *)
MaySavePlanAgain(p, r) == r.state # "absent" /\ r.body = BodyOf(p)

MaySavePlan(p, r) == r.state = "received" /\ r.body = BodyOf(p)

(* Mutant: markComplete expects a receipt that has not been marked sent.   *)
MayCompletePlanned(r) == r.state = "effect-planned"

MayComplete(r) == r.state \in {"effect-planned", "effect-sent"}

May(p, r) ==
  CASE job[p].op = "savePlan" -> MaySavePlan(p, r)
    [] job[p].op = "markSent" -> r.state = "effect-planned"
    [] job[p].op = "markComplete" -> MayComplete(r)
    [] job[p].op = "checkpoint" -> r.state = "effect-complete"
    [] OTHER -> r.state # "absent"

ReadReceipt(p) ==
  LET r == receipts[job[p].primary] IN
  /\ pc[p] = "read"
  /\ \/ /\ May(p, r)
        /\ job' = [job EXCEPT ![p].receipt = r]
        /\ Goto(p, "write")
        /\ UNCHANGED owed
     \/ ~May(p, r) /\ Throw(p)
  /\ UNCHANGED <<files, service, history, reached, left>>

Written(p) ==
  LET r == job[p].receipt IN
  CASE job[p].op = "savePlan" ->
         [r EXCEPT !.state = "effect-planned", !.plan = job[p].plan]
    [] job[p].op = "markSent" -> [r EXCEPT !.state = "effect-sent"]
    [] job[p].op = "markComplete" -> [r EXCEPT !.state = "effect-complete"]
    [] job[p].op = "checkpoint" -> [r EXCEPT !.state = "checkpointed"]
    [] OTHER -> [r EXCEPT !.state = "quarantined"]

(* executePlan goes on with the plan the process has, whatever the file it *)
(* read for markSent holds.                                                *)
WriteReceipt(p) ==
  /\ pc[p] = "write"
  /\ WriteFile(job[p].primary, Written(p))
  /\ \/ job[p].op = "savePlan" /\ Operate(p, "markSent")
     \/ /\ job[p].op = "markSent"
        /\ Goto(p, RemotePhase(job[p].plan))
        /\ UNCHANGED <<job, owed>>
     \/ job[p].op = "markComplete" /\ Operate(p, "checkpoint")
     \/ job[p].op \in {"checkpoint", "quarantine"} /\ Succeed(p)
  /\ UNCHANGED <<service, reached, left>>

(***************************************************************************)
(* executePlan for a stock plan.                                           *)
(***************************************************************************)
SameKey(a, b) == a.identity = b.identity /\ a.body = b.body

(* Mutant: a request is sent with the revision of the moment.              *)
SentNow(adjust) == [adjust EXCEPT !.revision = revision[adjust.body.item]]

Sent(adjust) == adjust

SendAdjust(p) ==
  LET a == Sent(job[p].plan)
      item == a.body.item
      repeated == \E b \in ledger : SameKey(a, b)
  IN
  /\ pc[p] = "adjust"
  /\ \/ /\ repeated /\ a \in ledger
        /\ Goto(p, "commit")
        /\ UNCHANGED <<service, job, owed, reached>>
     \/ /\ ~repeated /\ a.revision = revision[item]
        /\ available' = [available EXCEPT ![item] = @ + a.delta]
        /\ revision' = [revision EXCEPT ![item] = @ + 1]
        /\ ledger' = ledger \union {a}
        /\ reached' = IF available'[item] = a.body.level
                      THEN reached \union {a.body} ELSE reached
        /\ Goto(p, "commit")
        /\ UNCHANGED <<job, owed>>
     \/ /\ IF repeated THEN a \notin ledger ELSE a.revision # revision[item]
        /\ Operate(p, "quarantine")
        /\ UNCHANGED <<service, reached>>
  /\ UNCHANGED <<files, history, left>>

(* The catalog as the process knows it: it reads the file once.            *)
Loaded(p) == IF job[p].memory = None THEN catalog ELSE job[p].memory

(* replaceListing: the whole catalog of the process, with its own entry.   *)
SaveCatalog(p) ==
  /\ pc[p] = "commit"
  /\ catalog' = [Loaded(p) EXCEPT ![BodyOf(p).item] = BodyOf(p).level]
  /\ Operate(p, "markComplete")
  /\ UNCHANGED <<receipts, alias, service, history, reached, left>>

(***************************************************************************)
(* The process dies, or an await of it throws, before its next step.       *)
(***************************************************************************)
Stop(p) ==
  /\ pc[p] # "idle"
  /\ Spend
  /\ Throw(p)
  /\ troubled' = IF Opening(p) THEN troubled \union {BodyOf(p)} ELSE troubled
  /\ UNCHANGED <<files, service, begun, replaced, late, reached>>

(* A buyer takes one of the item at the marketplace.                       *)
Sale(i) ==
  /\ available[i] > 0
  /\ Spend
  /\ available' = [available EXCEPT ![i] = @ - 1]
  /\ revision' = [revision EXCEPT ![i] = @ + 1]
  /\ reached' = reached \union
       {d.body : d \in {e \in begun : e.body.item = i /\ e.body.level = available'[i]}}
  /\ UNCHANGED <<files, ledger, pc, job, owed, history>>

(* The clock passes the skew for the webhooks of a merchant action.        *)
GetLate(body) ==
  /\ body \notin late
  /\ Spend
  /\ late' = late \union {body}
  /\ UNCHANGED <<files, service, pc, job, owed, begun, troubled, replaced, reached>>

Run(p) ==
  \/ ReadEventAlias(p) \/ OpenReceipt(p) \/ CreateReceipt(p)
  \/ LinkDelivery(p) \/ LinkEvent(p)
  \/ Project(p)
  \/ ReadReceipt(p) \/ WriteReceipt(p)
  \/ SendAdjust(p) \/ SaveCatalog(p)

Next ==
  \/ \E p \in Procs : Run(p) \/ Stop(p) \/ \E d \in Deliveries : Start(p, d)
  \/ \E i \in Items : Sale(i)
  \/ \E d \in Deliveries : GetLate(d.body)

Spec == Init /\ [][Next]_vars

(***************************************************************************)
(* Properties.                                                             *)
(***************************************************************************)
JobType ==
  [delivery : Deliveries \union {None}, aliased : Keys \union {None},
   primary : Keys \union {None}, receipt : Receipt, plan : Plan, op : Operation,
   memory : [Items -> Nat] \union {None}]

(* Every variable has its type.                                            *)
ProcessTypeOK ==
  /\ receipts \in [Keys -> Receipt]
  /\ alias \in [Keys -> Keys \union {None}]
  /\ catalog \in [Items -> Nat]
  /\ available \in [Items -> Int] /\ revision \in [Items -> Nat]
  /\ ledger \subseteq Adjust
  /\ pc \in [Procs -> Phase] /\ job \in [Procs -> JobType]
  /\ owed \subseteq Deliveries /\ begun \subseteq Deliveries
  /\ troubled \subseteq Body /\ replaced \subseteq Body
  /\ late \subseteq Body /\ reached \subseteq Body
  /\ left \in Nat

(* A receipt that says its effect is complete is telling the truth even    *)
(* when processes write over each other's receipts and plans: since the    *)
(* webhook was sent, the service's stock has had the level it announced.   *)
(* The exception is a receipt that was written over one of another body.   *)
CompleteMeansReached ==
  \A k \in Keys :
    receipts[k].state \in {"effect-complete", "checkpointed"} =>
      receipts[k].body \in reached \union replaced

(* One body has two receipts.                                              *)
Split(body) ==
  \E k, l \in Keys :
    k # l /\ receipts[k].body = body /\ receipts[l].body = body

(* A merchant action moves the service's stock once, whichever of its      *)
(* webhooks come, how often, and however many processes work on them, as   *)
(* long as the opening of its receipt was left in peace and gave it one    *)
(* receipt, which no process wrote over with that of another body          *)
(* (BOUNDARY.md: "The bridge does not read stock again and invent a new    *)
(* delta").                                                                *)
OneMoveForEachAction ==
  \A a, b \in ledger :
    a # b /\ a.body = b.body => Split(a.body) \/ a.body \in troubled \union replaced

(* BOUNDARY.md: a receipt is the merchant action "with X-Shopify-Webhook-Id*)
(* aliased to the same receipt".  It is, for openings that neither overlap *)
(* nor are cut off between the receipt and its aliases, except for a       *)
(* webhook that came without the event id while another webhook of the     *)
(* action came too.                                                        *)
OneReceiptForAnAction ==
  \A body \in {d.body : d \in begun} \ troubled :
    Split(body) =>
      \E bare, other \in begun :
        /\ bare.body = body /\ bare.event = None
        /\ other.body = body /\ other.webhook # bare.webhook

(* A webhook whose id and whose event id name different receipts.          *)
Contradictory(d) ==
  /\ d.event # None
  /\ alias[DeliveryKey(d)] # None /\ alias[EventKey(d)] # None
  /\ alias[DeliveryKey(d)] # alias[EventKey(d)]

(***************************************************************************)
(* Fairness: a process that was started runs, and Shopify redelivers a     *)
(* webhook that was not answered with success, in time as long as the      *)
(* clock has not passed its skew.                                          *)
(***************************************************************************)
Redeliver(d) == \E p \in Procs : Due(d) /\ Start(p, d)

FairSpec ==
  /\ Spec
  /\ \A p \in Procs : WF_vars(Run(p))
  /\ \A d \in Deliveries : SF_vars(Redeliver(d))

(* Every webhook is in the end answered with success: no crash and no race *)
(* for a receipt leaves one that is refused for ever, except one whose two *)
(* ids were given different receipts and one that has become too old to be *)
(* accepted.                                                               *)
EveryDeliveryIsAnswered ==
  []<>(\A d \in owed : Contradictory(d) \/ d.body \in late)
=============================================================================
