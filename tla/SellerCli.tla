------------------------------ MODULE SellerCli ------------------------------
(***************************************************************************)
(* pubky-shop, the seller's command line: auth login, auth login           *)
(* --complete, auth logout --force-local and listings import.  Every       *)
(* command is a process of its own; they share the config directory (the   *)
(* pending login), the credential store (a bearer for each seller and the  *)
(* index that names the active one) and the seller's homeserver, and any   *)
(* two may run at once.  The keychain and the directory of credentials     *)
(* take the same two steps.                                                *)
(*                                                                         *)
(* A flow stands for one login: its challenge, proof, pending file, ticket *)
(* and the bearer claimed by it.  The Shop BFF that keeps the flows, the   *)
(* seller who approves them and the service are modelled from their use.   *)
(* A file that is only partly written is refused by its readers like a     *)
(* missing one and is modelled as missing.                                 *)
(*                                                                         *)
(* Commands that only read (auth status, the exports, events tail) or only *)
(* forward a request (webhook) have no step here, nor has logout without   *)
(* --force-local: a claim stores no session id, so it always refuses.  The *)
(* homeserver sessions were stored beforehand, one for every seller.  A    *)
(* bearer that has expired ends its command as a failed request does.      *)
(***************************************************************************)
EXTENDS Naturals, FiniteSets

CONSTANTS
  Procs,     \* processes that may run at the same time
  Sellers,   \* pubkys
  Flows,     \* logins that may be started
  Listings,  \* listing ids that may be imported
  HsActive,  \* the seller the index of homeserver sessions names
  MaxCommands, MaxFaults,  \* bounds of a run
  None

ASSUME CliAssumption ==
  /\ MaxCommands \in Nat /\ MaxFaults \in Nat
  /\ None \notin Sellers \cup Flows
  /\ HsActive \in Sellers

VARIABLES
  pending,    \* the login in pending-login.json
  bearer,     \* the flow whose bearer is stored for a seller
  active,     \* the seller the index of bearers names
  flow,       \* what the BFF says of a flow
  owner,      \* the seller a flow was started for
  due,        \* flows whose expires_at has passed
  proofs,     \* flows whose proof is on the homeserver
  published,  \* listing records on homeservers
  synced,     \* listings the service has been asked to sync
  job,        \* what a process is doing
  cut,        \* history: flows whose completion was cut off after the claim
  litter,     \* history: flows whose process was cut off with the proof there
  retired,    \* history: flows whose stored bearer was replaced or dropped
  mixed,      \* history: listings synced for another seller than the session's
  spent       \* commands and faults so far

disk == <<pending, bearer, active>>
bff == <<flow, owner, due>>
market == <<proofs, published, synced>>
history == <<retired, mixed>>
blame == <<cut, litter>>
world == <<disk, bff, market, history>>
vars == <<world, blame, job, spent>>

LoginStage == {"prove", "verify", "unprove", "write", "show"}
CompleteStage == {"poll", "ticket", "claim", "put", "index", "forget"}
OtherStage == {"unlink", "unindex", "load", "list", "sync"}
Job ==
  [stage : {"idle"} \cup LoginStage \cup CompleteStage \cup OtherStage,
   flow : Flows \cup {None}, seller : Sellers \cup {None}, session : Sellers \cup {None},
   env : Sellers \cup {None}, stop : BOOLEAN, verified : BOOLEAN,
   records : SUBSET Listings, left : SUBSET Listings]

NoJob ==
  [stage |-> "idle", flow |-> None, seller |-> None, session |-> None, env |-> None,
   stop |-> FALSE, verified |-> FALSE, records |-> {}, left |-> {}]

Init ==
  /\ pending = None /\ bearer = [s \in Sellers |-> None] /\ active = None
  /\ flow = [f \in Flows |-> "unused"] /\ owner = [f \in Flows |-> None] /\ due = {}
  /\ proofs = {} /\ published = {} /\ synced = {}
  /\ job = [p \in Procs |-> NoJob]
  /\ cut = {} /\ litter = {} /\ retired = {} /\ mixed = {}
  /\ spent = [commands |-> 0, faults |-> 0]

(***************************************************************************)
(* The steps of a process.                                                 *)
(***************************************************************************)
Idle(p) == job[p].stage = "idle"
At(p, stage) == job[p].stage = stage

Start(p, work) ==
  /\ Idle(p) /\ spent.commands < MaxCommands
  /\ spent' = [spent EXCEPT !.commands = @ + 1]
  /\ job' = [job EXCEPT ![p] = work]
  /\ UNCHANGED blame

Go(p, stage) ==
  /\ job' = [job EXCEPT ![p].stage = stage]
  /\ UNCHANGED <<blame, spent>>

Return(p) ==
  /\ job' = [job EXCEPT ![p] = NoJob]
  /\ UNCHANGED <<blame, spent>>

(***************************************************************************)
(* What one request or one file operation changes.                         *)
(***************************************************************************)
PutProof(f) ==
  /\ proofs' = proofs \cup {f}
  /\ UNCHANGED <<disk, bff, published, synced, history>>

BffVerify(f) ==
  /\ flow' = [flow EXCEPT ![f] = "awaiting"]
  /\ UNCHANGED <<disk, owner, due, market, history>>

DeleteProof(f) ==
  /\ proofs' = proofs \ {f}
  /\ UNCHANGED <<disk, bff, published, synced, history>>

WritePending(f) ==
  /\ pending' = f
  /\ UNCHANGED <<bearer, active, bff, market, history>>

(* A ticket is given once.                                                 *)
BffTicket(f) ==
  /\ flow' = IF flow[f] = "complete" THEN [flow EXCEPT ![f] = "ticketed"] ELSE flow
  /\ UNCHANGED <<disk, owner, due, market, history>>

BffClaim(f) ==
  /\ flow[f] = "ticketed"
  /\ flow' = [flow EXCEPT ![f] = "claimed"]
  /\ UNCHANGED <<disk, owner, due, market, history>>

(* Mutant: a bearer that is there is not overwritten.                      *)
PutBearerOnce(f) ==
  /\ bearer' = [bearer EXCEPT ![owner[f]] = IF @ = None THEN f ELSE @]
  /\ UNCHANGED <<pending, active, bff, market, history>>

PutBearer(f) ==
  /\ bearer' = [bearer EXCEPT ![owner[f]] = f]
  /\ retired' = retired \cup ({bearer[owner[f]]} \ {None})
  /\ UNCHANGED <<pending, active, bff, market, mixed>>

WriteIndex(f) ==
  /\ active' = owner[f]
  /\ UNCHANGED <<pending, bearer, bff, market, history>>

(* Mutant: a login that is done keeps its file.                            *)
KeepPending(f) ==
  /\ pending' = IF flow[f] = "claimed" THEN pending ELSE None
  /\ UNCHANGED <<bearer, active, bff, market, history>>

(* Whatever login the file holds.                                          *)
DeletePending(f) ==
  /\ pending' = None
  /\ UNCHANGED <<bearer, active, bff, market, history>>

UnlinkBearer(s) ==
  /\ bearer' = [bearer EXCEPT ![s] = None]
  /\ retired' = retired \cup ({bearer[s]} \ {None})
  /\ UNCHANGED <<pending, active, bff, market, mixed>>

(* Whichever seller the index names.                                       *)
RemoveIndex ==
  /\ active' = None
  /\ UNCHANGED <<pending, bearer, bff, market, history>>

PutListing(p, l) ==
  /\ published' = published \cup {<<job[p].session, l>>}
  /\ UNCHANGED <<disk, bff, proofs, synced, history>>

SyncMany(p) ==
  LET named == {job[p].seller} \X job[p].records IN
  /\ synced' = synced \cup named
  /\ mixed' = IF job[p].seller = job[p].session THEN mixed ELSE mixed \cup named
  /\ UNCHANGED <<disk, bff, proofs, published, retired>>

(***************************************************************************)
(* auth login: a challenge, a proof on the homeserver that goes once it is *)
(* verified or refused, the pending file, the QR code or the signer.       *)
(***************************************************************************)
StartLogin(p) ==
  /\ \E s \in Sellers, f \in Flows, stop \in BOOLEAN :
       /\ flow[f] = "unused"
       /\ Start(p, [NoJob EXCEPT !.stage = "prove", !.flow = f, !.session = s, !.stop = stop])
       /\ flow' = [flow EXCEPT ![f] = "challenged"]
       /\ owner' = [owner EXCEPT ![f] = s]
  /\ UNCHANGED <<disk, due, market, history>>

Prove(p) == At(p, "prove") /\ PutProof(job[p].flow) /\ Go(p, "verify")

Verify(p) ==
  /\ At(p, "verify") /\ BffVerify(job[p].flow)
  /\ job' = [job EXCEPT ![p].stage = "unprove", ![p].verified = TRUE]
  /\ UNCHANGED <<blame, spent>>

AfterProof(p) == IF job[p].verified THEN Go(p, "write") ELSE Return(p)
Unprove(p) == At(p, "unprove") /\ DeleteProof(job[p].flow) /\ AfterProof(p)

Write(p) == At(p, "write") /\ WritePending(job[p].flow) /\ Go(p, "show")

Show(p) ==
  /\ At(p, "show")
  /\ IF job[p].stop THEN Return(p) ELSE Go(p, "poll")
  /\ UNCHANGED world

(***************************************************************************)
(* The wait for the approval, by auth login itself or by a later           *)
(* auth login --complete: ticket, claim, the bearer, its index, and the    *)
(* pending file goes.  A poll that finds the flow waiting changes nothing. *)
(***************************************************************************)
StartComplete(p) ==
  /\ pending # None
  /\ Start(p, [NoJob EXCEPT !.stage = "poll", !.flow = pending])
  /\ UNCHANGED world

Approved(f) == flow[f] \in {"complete", "ticketed", "claimed"}

Poll(p) ==
  LET f == job[p].flow IN
  /\ At(p, "poll")
  /\ \/ f \in due /\ Return(p)
     \/ f \notin due /\ Approved(f) /\ Go(p, "ticket")
     \/ f \notin due /\ flow[f] = "ended" /\ Go(p, "forget")
  /\ UNCHANGED world

(* A ticket that is refused does not end the login.  The BFF refuses one   *)
(* that was given before, and one that is asked with an expired nonce.     *)
Ticket(p) ==
  /\ At(p, "ticket")
  /\ BffTicket(job[p].flow) \/ UNCHANGED world
  /\ Go(p, "claim")

(* A claim that is refused ends it: the bearer was claimed before, there   *)
(* is no ticket, or the ticket or the nonce has expired, which may be at   *)
(* any time.                                                               *)
Claim(p) ==
  /\ At(p, "claim")
  /\ \/ BffClaim(job[p].flow) /\ Go(p, "put")
     \/ Return(p) /\ UNCHANGED world

Put(p) == At(p, "put") /\ PutBearer(job[p].flow) /\ Go(p, "index")
Index(p) == At(p, "index") /\ WriteIndex(job[p].flow) /\ Go(p, "forget")

Forget(p) ==
  At(p, "forget") /\ DeletePending(job[p].flow) /\ Return(p)

(***************************************************************************)
(* auth logout --force-local, for the active seller or the one that        *)
(* PUBKY_SHOP_PUBKY names: the bearer goes, then the index.                *)
(***************************************************************************)
StartLogout(p) ==
  /\ \E s \in Sellers :
       /\ bearer[s] # None
       /\ Start(p, [NoJob EXCEPT !.stage = "unlink", !.seller = s])
  /\ UNCHANGED world

Unlink(p) == At(p, "unlink") /\ UnlinkBearer(job[p].seller) /\ Go(p, "unindex")
Unindex(p) == At(p, "unindex") /\ RemoveIndex /\ Return(p)

(***************************************************************************)
(* listings import: the homeserver session is found first, the bearer      *)
(* afterwards, each by PUBKY_SHOP_PUBKY or by an index of its own; then    *)
(* every record is PUT, and one request syncs them all.                    *)
(***************************************************************************)
StoredSession(env) ==
  IF env # None THEN env ELSE HsActive
StoredCredential(env) ==
  IF env # None THEN env ELSE active

(* The listing ids parseImportRecords finds in a file.                     *)
Imports == SUBSET Listings \ {{}}

StartImport(p) ==
  /\ \E env \in Sellers \cup {None}, records \in Imports :
       /\ Start(p, [NoJob EXCEPT !.stage = "load", !.env = env, !.session = StoredSession(env),
                                 !.records = records, !.left = records])
  /\ UNCHANGED world

Load(p) ==
  LET s == StoredCredential(job[p].env) IN
  /\ At(p, "load")
  /\ IF s # None /\ bearer[s] # None
     THEN /\ job' = [job EXCEPT ![p].stage = "list", ![p].seller = s]
          /\ UNCHANGED <<blame, spent>>
     ELSE Return(p)
  /\ UNCHANGED world

List(p) ==
  /\ At(p, "list")
  /\ \E l \in job[p].left :
       /\ PutListing(p, l)
       /\ job' = [job EXCEPT ![p].left = @ \ {l},
                             ![p].stage = IF job[p].left = {l} THEN "sync" ELSE "list"]
  /\ UNCHANGED <<blame, spent>>

Sync(p) == At(p, "sync") /\ SyncMany(p) /\ Return(p)

(***************************************************************************)
(* Faults.  A request or a file operation is cut off: it may have taken    *)
(* effect or not, and a file that was being written may be lost.           *)
(***************************************************************************)
Lost(p) ==
  \/ /\ At(p, "write") /\ pending' = None
     /\ UNCHANGED <<bearer, active, bff, market, history>>
  \/ At(p, "put") /\ UnlinkBearer(owner[job[p].flow])
  \/ At(p, "index") /\ RemoveIndex

Half(p) ==
  LET f == job[p].flow IN
  \/ UNCHANGED world
  \/ Lost(p)
  \/ At(p, "prove") /\ PutProof(f)
  \/ At(p, "verify") /\ BffVerify(f)
  \/ At(p, "unprove") /\ DeleteProof(f)
  \/ At(p, "write") /\ WritePending(f)
  \/ At(p, "ticket") /\ BffTicket(f)
  \/ At(p, "claim") /\ BffClaim(f)
  \/ At(p, "list") /\ \E l \in job[p].left : PutListing(p, l)
  \/ At(p, "sync") /\ SyncMany(p)

CutOff(p, litters) ==
  /\ ~Idle(p) /\ spent.faults < MaxFaults
  /\ spent' = [spent EXCEPT !.faults = @ + 1]
  /\ Half(p)
  /\ cut' = IF job[p].stage \in {"claim", "put", "index", "forget"}
            THEN cut \cup {job[p].flow} ELSE cut
  /\ litter' = IF job[p].stage \in litters THEN litter \cup {job[p].flow} ELSE litter

(* Mutant: a PUT that fails does not stop the import.                      *)
ThrowButImport(p) ==
  /\ CutOff(p, {"prove", "unprove"})
  /\ LET stage == CASE At(p, "verify") -> "unprove"
                    [] At(p, "unprove") /\ job[p].verified -> "write"
                    [] At(p, "list") -> "sync"
                    [] OTHER -> "idle"
     IN job' = [job EXCEPT ![p] = IF stage = "idle" THEN NoJob ELSE [@ EXCEPT !.stage = stage]]

(* Mutant: a proof that is refused stays.                                  *)
ThrowAtOnce(p) ==
  /\ CutOff(p, {"prove", "unprove"})
  /\ LET stage == IF At(p, "unprove") /\ job[p].verified THEN "write" ELSE "idle"
     IN job' = [job EXCEPT ![p] = IF stage = "idle" THEN NoJob ELSE [@ EXCEPT !.stage = stage]]

(* The operation throws.  A verification that throws still deletes the     *)
(* proof, and a deletion that throws is ignored.                           *)
Throw(p) ==
  /\ CutOff(p, {"prove", "unprove"})
  /\ LET stage == CASE At(p, "verify") -> "unprove"
                    [] At(p, "unprove") /\ job[p].verified -> "write"
                    [] OTHER -> "idle"
     IN job' = [job EXCEPT ![p] = IF stage = "idle" THEN NoJob ELSE [@ EXCEPT !.stage = stage]]

(* The process dies.                                                       *)
Crash(p) ==
  /\ CutOff(p, {"prove", "verify", "unprove"})
  /\ job' = [job EXCEPT ![p] = NoJob]

(***************************************************************************)
(* The seller, the BFF and the clock.                                      *)
(***************************************************************************)
Approve(f) ==
  /\ flow[f] = "awaiting"
  /\ \E answer \in {"complete", "ended"} : flow' = [flow EXCEPT ![f] = answer]
  /\ UNCHANGED <<disk, owner, due, market, history, blame, job, spent>>

Expire(f) ==
  /\ flow[f] \in {"awaiting", "complete", "ticketed"} /\ f \notin due
  /\ due' = due \cup {f}
  /\ UNCHANGED <<disk, flow, owner, market, history, blame, job, spent>>

Begin(p) == StartLogin(p) \/ StartComplete(p) \/ StartLogout(p) \/ StartImport(p)

Step(p) ==
  \/ Prove(p) \/ Verify(p) \/ Unprove(p) \/ Write(p) \/ Show(p)
  \/ Poll(p) \/ Ticket(p) \/ Claim(p) \/ Put(p) \/ Index(p) \/ Forget(p)
  \/ Unlink(p) \/ Unindex(p)
  \/ Load(p) \/ List(p) \/ Sync(p)

Next ==
  \/ \E p \in Procs : Begin(p) \/ Step(p) \/ Throw(p) \/ Crash(p)
  \/ \E f \in Flows : Approve(f) \/ Expire(f)

Spec == Init /\ [][Next]_vars

(***************************************************************************)
(* Properties.                                                             *)
(***************************************************************************)

Completing(f, stages) == \E p \in Procs : job[p].flow = f /\ job[p].stage \in stages

(* No bearer goes astray: once a flow is claimed, which can be done only   *)
(* once, its bearer is stored or in the hands of the process that claimed  *)
(* it, until it is replaced or dropped; only a fault after the claim loses *)
(* it (login.ts completeMarketplaceLogin, credentials.ts put).             *)
ClaimedBearerIsKept ==
  \A f \in Flows : flow[f] = "claimed" =>
    bearer[owner[f]] = f \/ Completing(f, {"put"}) \/ f \in retired \cup cut

(* The pending file never offers a login whose bearer has been claimed,    *)
(* except to a process racing the claimant or after a fault cut it off.    *)
SpentLoginIsForgotten ==
  pending # None /\ flow[pending] = "claimed" =>
    Completing(pending, {"put", "index", "forget"}) \/ pending \in cut

(* A proof is on the homeserver only while the login that put it waits for *)
(* its verification, or when that login was cut off (the finally of        *)
(* startMarketplaceLogin).                                                 *)
ProofsAreTransient ==
  \A f \in proofs : Completing(f, {"verify", "unprove"}) \/ f \in litter

(* The service is never asked to sync a listing of which nothing has been  *)
(* PUT for that seller, unless the import used the sessions of two sellers.*)
SyncedIsPublished == synced \subseteq published \cup mixed
=============================================================================
