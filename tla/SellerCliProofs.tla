---------------------------- MODULE SellerCliProofs ----------------------------
(***************************************************************************)
(* The invariants of SellerCli, for any number of processes, sellers,      *)
(* logins, commands and faults.                                            *)
(*                                                                         *)
(* A login is private to its process until it is in the pending file, and  *)
(* from then on anybody may take it up; CliInv says of each stage what is  *)
(* certain of its flow.  What a step does to the world is the same whether *)
(* it returns or is cut off (Effect), so that the faults are shown safe    *)
(* together with the steps they cut off.                                   *)
(***************************************************************************)
EXTENDS SellerCli, TLAPS

FlowStatus ==
  {"unused", "challenged", "awaiting", "complete", "ticketed", "claimed", "ended"}

TypeInv ==
  /\ pending \in Flows \cup {None}
  /\ bearer \in [Sellers -> Flows \cup {None}]
  /\ active \in Sellers \cup {None}
  /\ flow \in [Flows -> FlowStatus]
  /\ owner \in [Flows -> Sellers \cup {None}]
  /\ job \in [Procs -> Job]

(* A flow that is pending or in a process has been started for a seller.   *)
Used(f) == f \in Flows /\ flow[f] # "unused"
UsedInv ==
  /\ pending # None => Used(pending)
  /\ \A f \in Flows : Used(f) => owner[f] \in Sellers
  /\ \A p \in Procs : job[p].flow # None => Used(job[p].flow)

(* A login before its pending file is written.                             *)
Private == {"prove", "verify", "unprove", "write"}

PrivateInv ==
  \A p \in Procs : job[p].stage \in Private =>
    /\ flow[job[p].flow] \notin {"ticketed", "claimed"}
    /\ pending # job[p].flow
    /\ \A q \in Procs \ {p} : job[q].flow # job[p].flow

StageInv ==
  \A p \in Procs :
    /\ job[p].stage \in LoginStage \cup CompleteStage => job[p].flow # None
    /\ job[p].stage \in {"put", "index"} => flow[job[p].flow] = "claimed"

(* What an import has left to do is all that is not published.             *)
ImportInv ==
  \A p \in Procs :
    /\ job[p].stage = "load" => job[p].left = job[p].records
    /\ job[p].stage \in {"list", "sync"} =>
         {job[p].session} \X (job[p].records \ job[p].left) \subseteq published
    /\ job[p].stage = "sync" => job[p].left = {}

CliInv ==
  /\ TypeInv
  /\ UsedInv
  /\ PrivateInv
  /\ StageInv
  /\ ImportInv
  /\ ClaimedBearerIsKept
  /\ SpentLoginIsForgotten
  /\ ProofsAreTransient
  /\ SyncedIsPublished

(***************************************************************************)
(* What a step of a process does to the world and to its job.              *)
(***************************************************************************)
Acts(p) == Step(p) \/ Throw(p) \/ Crash(p)

Effect(p) ==
  LET f == job[p].flow IN
  \/ Half(p)
  \/ At(p, "put") /\ PutBearer(f)
  \/ At(p, "index") /\ WriteIndex(f)
  \/ At(p, "forget") /\ DeletePending(f)
  \/ At(p, "unlink") /\ UnlinkBearer(job[p].seller)
  \/ At(p, "unindex") /\ RemoveIndex

LEMMA ActsHaveEffect ==
  ASSUME NEW p \in Procs, Acts(p)
  PROVE  Effect(p)
<1>1. CASE Throw(p) \/ Crash(p)
  BY <1>1 DEF Throw, Crash, CutOff, Effect
<1>2. CASE UNCHANGED world
  BY <1>2 DEF Effect, Half
<1>3. CASE Prove(p) \/ Verify(p) \/ Unprove(p) \/ Write(p) \/ Ticket(p) \/ Claim(p)
           \/ List(p) \/ Sync(p)
  BY <1>2, <1>3 DEF Prove, Verify, Unprove, Write, Ticket, Claim, List, Sync, Effect, Half
<1>4. CASE Show(p) \/ Poll(p) \/ Load(p)
  BY <1>2, <1>4 DEF Show, Poll, Load
<1>5. CASE Put(p) \/ Index(p) \/ Forget(p) \/ Unlink(p) \/ Unindex(p)
  BY <1>5 DEF Put, Index, Forget, Unlink, Unindex, Effect
<1>. QED  BY <1>1, <1>3, <1>4, <1>5 DEF Acts, Step

(* What becomes of a flow.                                                 *)
FlowMoves(p, f) ==
  \/ flow'[f] = flow[f]
  \/ /\ job[p].flow = f
     /\ \/ At(p, "verify") /\ flow'[f] = "awaiting"
        \/ At(p, "ticket") /\ flow[f] = "complete" /\ flow'[f] = "ticketed"
        \/ At(p, "claim") /\ flow[f] = "ticketed" /\ flow'[f] = "claimed"

LEMMA EffectOnFlows ==
  ASSUME TypeInv, NEW p \in Procs, Effect(p)
  PROVE  /\ flow' \in [Flows -> FlowStatus] /\ owner' = owner
         /\ \A f \in Flows : FlowMoves(p, f)
<1>1. CASE flow' = flow /\ owner' = owner
  BY <1>1 DEF TypeInv, FlowMoves
<1>2. CASE At(p, "verify") /\ BffVerify(job[p].flow)
  BY <1>2 DEF BffVerify, TypeInv, FlowMoves, FlowStatus
<1>3. CASE At(p, "ticket") /\ BffTicket(job[p].flow)
  BY <1>3 DEF BffTicket, TypeInv, FlowMoves, FlowStatus
<1>4. CASE At(p, "claim") /\ BffClaim(job[p].flow)
  BY <1>4 DEF BffClaim, TypeInv, FlowMoves, FlowStatus
<1>5. CASE ~(flow' = flow /\ owner' = owner)
  BY <1>2, <1>3, <1>4, <1>5
  DEF Effect, Half, Lost, PutProof, DeleteProof, WritePending, PutListing, SyncMany,
      PutBearer, WriteIndex, DeletePending, UnlinkBearer, RemoveIndex, world, bff
<1>. QED  BY <1>1, <1>5

LEMMA StartedFlow ==
  ASSUME UsedInv, StageInv, NEW p \in Procs,
         job[p].stage \in LoginStage \cup CompleteStage
  PROVE  Used(job[p].flow) /\ owner[job[p].flow] \in Sellers
BY DEF UsedInv, StageInv, Used

(* What becomes of the pending file and of the bearers.                    *)
PendingMoves(p) ==
  \/ pending' \in {pending, None}
  \/ At(p, "write") /\ pending' = job[p].flow

BearersMove ==
  /\ active' \in Sellers \cup {None}
  /\ bearer' \in [Sellers -> Flows \cup {None}]
  /\ retired \subseteq retired'
  /\ \A s \in Sellers : bearer'[s] # bearer[s] /\ bearer[s] # None => bearer[s] \in retired'

LEMMA EffectOnDisk ==
  ASSUME TypeInv, UsedInv, StageInv, NEW p \in Procs, Effect(p)
  PROVE  PendingMoves(p) /\ BearersMove
<1>1. CASE UNCHANGED <<disk, retired>>
  BY <1>1 DEF disk, TypeInv, PendingMoves, BearersMove
<1>2. CASE At(p, "put") /\ PutBearer(job[p].flow)
  <2>1. job[p].flow \in Flows /\ owner[job[p].flow] \in Sellers
    BY <1>2, StartedFlow DEF At, CompleteStage, Used
  <2>. QED  BY <1>2, <2>1 DEF PutBearer, TypeInv, PendingMoves, BearersMove
<1>3. ASSUME NEW s, UnlinkBearer(s)
      PROVE  PendingMoves(p) /\ BearersMove
  BY <1>3 DEF UnlinkBearer, TypeInv, PendingMoves, BearersMove
<1>4. CASE /\ PendingMoves(p)
           /\ UNCHANGED <<bearer, active, retired>>
  BY <1>4 DEF TypeInv, BearersMove
<1>5. CASE \/ PutProof(job[p].flow) \/ DeleteProof(job[p].flow)
           \/ BffVerify(job[p].flow) \/ BffTicket(job[p].flow) \/ BffClaim(job[p].flow)
  BY <1>1, <1>5 DEF PutProof, DeleteProof, BffVerify, BffTicket, BffClaim, disk, history
<1>6. CASE SyncMany(p) \/ \E l \in job[p].left : PutListing(p, l)
  BY <1>1, <1>6 DEF SyncMany, PutListing, disk, history
<1>7. CASE (At(p, "index") /\ WriteIndex(job[p].flow)) \/ RemoveIndex
  <2>1. At(p, "index") => owner[job[p].flow] \in Sellers
    BY StartedFlow DEF At, CompleteStage
  <2>. QED  BY <1>7, <2>1 DEF WriteIndex, RemoveIndex, history, TypeInv, PendingMoves, BearersMove
<1>8. CASE DeletePending(job[p].flow)
  BY <1>4, <1>8 DEF DeletePending, history, PendingMoves
<1>9. CASE At(p, "write") /\ WritePending(job[p].flow)
  BY <1>4, <1>9 DEF WritePending, history, PendingMoves
<1>10. CASE Lost(p)
  BY <1>3, <1>4, <1>7, <1>10 DEF Lost, PendingMoves, history
<1>11. CASE UNCHANGED world
  BY <1>1, <1>11 DEF world, disk, history
<1>. QED  BY <1>2, <1>3, <1>5, <1>6, <1>7, <1>8, <1>9, <1>10, <1>11 DEF Effect, Half

(* What becomes of the proofs and of the listings.                         *)
ProofsMove(p) ==
  \A f \in proofs' \ proofs : At(p, "prove") /\ f = job[p].flow

LEMMA EffectOnMarket ==
  ASSUME TypeInv, ImportInv, SyncedIsPublished, NEW p \in Procs, Effect(p)
  PROVE  ProofsMove(p) /\ published \subseteq published' /\ SyncedIsPublished'
<1>1. CASE UNCHANGED <<proofs, published, synced, mixed>>
  BY <1>1 DEF SyncedIsPublished, ProofsMove
<1>2. CASE At(p, "prove") /\ PutProof(job[p].flow)
  BY <1>2 DEF PutProof, SyncedIsPublished, ProofsMove, history, At
<1>3. CASE DeleteProof(job[p].flow)
  BY <1>3 DEF DeleteProof, SyncedIsPublished, ProofsMove, history
<1>4. CASE \E l \in job[p].left : PutListing(p, l)
  BY <1>4 DEF PutListing, SyncedIsPublished, ProofsMove, history
<1>5. CASE At(p, "sync") /\ SyncMany(p)
  <2>1. {job[p].session} \X job[p].records \subseteq published
    BY <1>5 DEF ImportInv, At
  <2>2. published' = published /\ proofs' = proofs
    BY <1>5 DEF SyncMany
  <2>3. CASE job[p].seller = job[p].session
    <3>1. synced' = synced \cup ({job[p].session} \X job[p].records) /\ mixed' = mixed
      BY <1>5, <2>3 DEF SyncMany
    <3>. QED  BY <2>1, <2>2, <3>1 DEF SyncedIsPublished, ProofsMove
  <2>4. CASE job[p].seller # job[p].session
    <3>. DEFINE named == {job[p].seller} \X job[p].records
    <3>1. synced' = synced \cup named /\ mixed' = mixed \cup named
      BY <1>5, <2>4 DEF SyncMany
    <3>. HIDE DEF named
    <3>. QED  BY <2>2, <3>1 DEF SyncedIsPublished, ProofsMove
  <2>. QED  BY <2>3, <2>4
<1>6. CASE BffVerify(job[p].flow) \/ BffTicket(job[p].flow) \/ BffClaim(job[p].flow)
  BY <1>1, <1>6 DEF BffVerify, BffTicket, BffClaim, market, history
<1>7. CASE \E f : PutBearer(f) \/ WriteIndex(f) \/ DeletePending(f) \/ WritePending(f)
  BY <1>1, <1>7 DEF PutBearer, WriteIndex, DeletePending, WritePending, market, history
<1>8. CASE RemoveIndex \/ \E s : UnlinkBearer(s)
  BY <1>1, <1>8 DEF RemoveIndex, UnlinkBearer, market, history
<1>9. CASE Lost(p)
  BY <1>1, <1>8, <1>9 DEF Lost, market, history
<1>10. CASE UNCHANGED world
  BY <1>1, <1>10 DEF world, market, history
<1>. QED
  BY <1>2, <1>3, <1>4, <1>5, <1>6, <1>7, <1>8, <1>9, <1>10 DEF Effect, Half

(***************************************************************************)
(* What a step of a process does to its job.                               *)
(***************************************************************************)
Stages == {"idle"} \cup LoginStage \cup CompleteStage \cup OtherStage
Hop ==
  {<<"prove", "verify">>, <<"verify", "unprove">>, <<"unprove", "write">>,
   <<"write", "show">>, <<"show", "poll">>, <<"poll", "ticket">>, <<"poll", "forget">>,
   <<"ticket", "claim">>, <<"claim", "put">>, <<"put", "index">>, <<"index", "forget">>,
   <<"unlink", "unindex">>, <<"load", "list">>, <<"list", "list">>, <<"list", "sync">>}

Alone(p) ==
  /\ job' \in [Procs -> Job]
  /\ \A q \in Procs \ {p} : job'[q] = job[q]

Hops(p) ==
  /\ <<job[p].stage, job'[p].stage>> \in Hop
  /\ job'[p].flow = job[p].flow

JobMoves(p) == Alone(p) /\ (job'[p] = NoJob \/ Hops(p))

LEMMA GoIs ==
  ASSUME TypeInv, NEW p \in Procs, NEW stage \in Stages, Go(p, stage)
  PROVE  /\ Alone(p) /\ job'[p] = [job[p] EXCEPT !.stage = stage]
         /\ job'[p].stage = stage /\ job'[p].flow = job[p].flow
<1>1. job[p] \in Job
  BY DEF TypeInv
<1>2. [job[p] EXCEPT !.stage = stage] \in Job
  BY <1>1 DEF Job, Stages
<1>3. job' = [job EXCEPT ![p] = [job[p] EXCEPT !.stage = stage]]
  BY DEF Go
<1>4. /\ [job[p] EXCEPT !.stage = stage].stage = stage
      /\ [job[p] EXCEPT !.stage = stage].flow = job[p].flow
  BY <1>1 DEF Job
<1>. QED  BY <1>2, <1>3, <1>4 DEF TypeInv, Alone

LEMMA NoJobIsJob == NoJob \in Job /\ NoJob.flow = None /\ NoJob.stage = "idle"
BY DEF NoJob, Job

LEMMA ReturnIs ==
  ASSUME TypeInv, NEW p \in Procs, Return(p)
  PROVE  Alone(p) /\ job'[p] = NoJob
BY NoJobIsJob DEF Return, TypeInv, Alone

LEMMA ThrowIs ==
  ASSUME TypeInv, NEW p \in Procs, Throw(p) \/ Crash(p)
  PROVE  /\ JobMoves(p)
         /\ job'[p] # NoJob =>
              /\ Throw(p)
              /\ \/ At(p, "verify") /\ job'[p].stage = "unprove"
                 \/ At(p, "unprove") /\ job'[p].stage = "write"
<1>1. CASE job' = [job EXCEPT ![p] = NoJob]
  BY <1>1, NoJobIsJob DEF TypeInv, Alone, JobMoves
<1>2. ASSUME NEW stage \in Stages, job' = [job EXCEPT ![p] = [@ EXCEPT !.stage = stage]]
      PROVE  /\ Alone(p) /\ job'[p].stage = stage /\ job'[p].flow = job[p].flow
  <2>1. job[p] \in Job
    BY DEF TypeInv
  <2>. DEFINE j == [job[p] EXCEPT !.stage = stage]
  <2>2. j \in Job /\ j.stage = stage /\ j.flow = job[p].flow
    BY <2>1 DEF Job, Stages
  <2>3. job' = [job EXCEPT ![p] = j]
    BY <1>2
  <2>. HIDE DEF j
  <2>. QED  BY <2>2, <2>3 DEF TypeInv, Alone
<1>3. CASE Throw(p) /\ At(p, "verify")
  <2>1. job' = [job EXCEPT ![p] = [@ EXCEPT !.stage = "unprove"]]
    BY <1>3 DEF Throw, At
  <2>. QED  BY <1>2, <1>3, <2>1 DEF Stages, LoginStage, JobMoves, Hops, Hop, At
<1>4. CASE Throw(p) /\ At(p, "unprove") /\ job[p].verified
  <2>1. job' = [job EXCEPT ![p] = [@ EXCEPT !.stage = "write"]]
    BY <1>4 DEF Throw, At
  <2>. QED  BY <1>2, <1>4, <2>1 DEF Stages, LoginStage, JobMoves, Hops, Hop, At
<1>5. CASE Throw(p) /\ ~At(p, "verify") /\ ~(At(p, "unprove") /\ job[p].verified)
  <2>1. job' = [job EXCEPT ![p] = NoJob]
    BY <1>5 DEF Throw
  <2>. QED  BY <1>1, <2>1, NoJobIsJob DEF TypeInv
<1>6. CASE Crash(p)
  BY <1>1, <1>6 DEF Crash, TypeInv
<1>. QED  BY <1>3, <1>4, <1>5, <1>6

LEMMA LoadIs ==
  ASSUME TypeInv, NEW p \in Procs, Load(p), ~Return(p)
  PROVE  /\ Alone(p) /\ Hops(p) /\ job'[p].stage = "list"
         /\ job'[p].session = job[p].session
         /\ job'[p].records = job[p].records /\ job'[p].left = job[p].left
<1>. DEFINE s == StoredCredential(job[p].env)
            j == [job[p] EXCEPT !.stage = "list", !.seller = s]
<1>1. job[p] \in Job
  BY DEF TypeInv
<1>2. s \in Sellers \cup {None}
  BY <1>1 DEF StoredCredential, TypeInv, Job
<1>3. /\ j \in Job /\ j.stage = "list" /\ j.flow = job[p].flow
      /\ j.session = job[p].session /\ j.records = job[p].records /\ j.left = job[p].left
  BY <1>1, <1>2 DEF Job, OtherStage
<1>4. job' = [job EXCEPT ![p] = j] /\ job[p].stage = "load"
  BY DEF Load, At
<1>. HIDE DEF j
<1>. QED  BY <1>3, <1>4 DEF TypeInv, Alone, Hops, Hop

LEMMA ListIs ==
  ASSUME TypeInv, NEW p \in Procs, List(p)
  PROVE  /\ Alone(p) /\ Hops(p) /\ job'[p].stage \in {"list", "sync"}
         /\ job'[p].session = job[p].session /\ job'[p].records = job[p].records
         /\ job[p].stage = "list"
         /\ job'[p].stage = "sync" => job'[p].left = {}
         /\ \E l \in job[p].left : PutListing(p, l) /\ job'[p].left = job[p].left \ {l}
<1>1. PICK l \in job[p].left :
        /\ PutListing(p, l)
        /\ job' = [job EXCEPT ![p].left = @ \ {l},
                              ![p].stage = IF job[p].left = {l} THEN "sync" ELSE "list"]
  BY DEF List
<1>. DEFINE stage == IF job[p].left = {l} THEN "sync" ELSE "list"
            K(a, b) == [job[p] EXCEPT !.left = a, !.stage = b]
            j == K(job[p].left \ {l}, stage)
<1>2. job[p] \in Job
  BY DEF TypeInv
<1>3. /\ j \in Job /\ j.stage = stage /\ j.flow = job[p].flow
      /\ j.session = job[p].session /\ j.records = job[p].records
      /\ j.left = job[p].left \ {l}
  <2>1. ASSUME NEW a \in SUBSET Listings, NEW b \in {"list", "sync"}
        PROVE  /\ K(a, b) \in Job /\ K(a, b).stage = b /\ K(a, b).flow = job[p].flow
               /\ K(a, b).session = job[p].session
               /\ K(a, b).records = job[p].records /\ K(a, b).left = a
    BY <1>2 DEF Job, OtherStage
  <2>2. job[p].left \ {l} \in SUBSET Listings
    BY <1>2 DEF Job
  <2>3. stage \in {"list", "sync"}
    OBVIOUS
  <2>. HIDE DEF K, stage
  <2>. QED  BY <2>1, <2>2, <2>3
<1>4. job' = [job EXCEPT ![p] = j]
  <2>1. ASSUME NEW a, NEW b, job' = [job EXCEPT ![p].left = a, ![p].stage = b]
        PROVE  job' = [job EXCEPT ![p] = [job[p] EXCEPT !.left = a, !.stage = b]]
    BY <2>1 DEF TypeInv
  <2>. QED  BY <1>1, <2>1, Zenon
<1>5. job[p].stage = "list" /\ stage \in {"list", "sync"} /\ (stage = "sync" => job[p].left \ {l} = {})
  BY DEF List, At
<1>. HIDE DEF j, stage
<1>. QED  BY <1>1, <1>3, <1>4, <1>5 DEF TypeInv, Alone, Hops, Hop

LEMMA ActsMoveJob ==
  ASSUME TypeInv, NEW p \in Procs, Acts(p)
  PROVE  JobMoves(p)
<1>1. ASSUME Return(p)
      PROVE  JobMoves(p)
  BY <1>1, ReturnIs DEF JobMoves
<1>2. ASSUME NEW stage \in Stages, Go(p, stage), <<job[p].stage, stage>> \in Hop
      PROVE  JobMoves(p)
  BY <1>2, GoIs DEF JobMoves, Hops
<1>3. CASE Prove(p)
  BY <1>2, <1>3 DEF Prove, At, Hop, Stages, LoginStage
<1>4. CASE Verify(p)
  <2>1. job[p] \in Job
    BY DEF TypeInv
  <2>. DEFINE j == [job[p] EXCEPT !.stage = "unprove", !.verified = TRUE]
  <2>2. j \in Job /\ j.stage = "unprove" /\ j.flow = job[p].flow
    BY <2>1 DEF Job, LoginStage
  <2>3. job' = [job EXCEPT ![p] = j]
    BY <1>4 DEF Verify
  <2>. HIDE DEF j
  <2>. QED  BY <1>4, <2>2, <2>3 DEF Verify, At, TypeInv, Alone, JobMoves, Hops, Hop
<1>5. CASE Unprove(p)
  BY <1>1, <1>2, <1>5 DEF Unprove, AfterProof, At, Hop, Stages, LoginStage
<1>6. CASE Write(p)
  BY <1>2, <1>6 DEF Write, At, Hop, Stages, LoginStage
<1>7. CASE Show(p)
  BY <1>1, <1>2, <1>7 DEF Show, At, Hop, Stages, CompleteStage
<1>8. CASE Poll(p)
  BY <1>1, <1>2, <1>8 DEF Poll, At, Hop, Stages, CompleteStage
<1>9. CASE Ticket(p)
  BY <1>2, <1>9 DEF Ticket, At, Hop, Stages, CompleteStage
<1>10. CASE Claim(p)
  <2>1. CASE Go(p, "put")
    BY <1>2, <1>10, <2>1 DEF Claim, At, Hop, Stages, CompleteStage
  <2>. QED  BY <1>1, <1>10, <2>1 DEF Claim
<1>11. CASE Put(p) \/ Index(p)
  BY <1>2, <1>11 DEF Put, Index, At, Hop, Stages, CompleteStage
<1>12. CASE Forget(p) \/ Unindex(p) \/ Sync(p)
  BY <1>1, <1>12 DEF Forget, Unindex, Sync
<1>13. CASE Unlink(p)
  BY <1>2, <1>13 DEF Unlink, At, Hop, Stages, OtherStage
<1>14. CASE Load(p) \/ List(p)
  BY <1>1, <1>14, LoadIs, ListIs DEF JobMoves
<1>15. CASE Throw(p) \/ Crash(p)
  BY <1>15, ThrowIs
<1>. QED
  BY <1>3, <1>4, <1>5, <1>6, <1>7, <1>8, <1>9, <1>10, <1>11, <1>12, <1>13, <1>14, <1>15
  DEF Acts, Step

(***************************************************************************)
(* What a step of a process does at the stages the invariants are about.   *)
(***************************************************************************)
Faults(p) == Throw(p) \/ Crash(p)

LEMMA ActsAt ==
  ASSUME NEW p \in Procs, Acts(p)
  PROVE  /\ At(p, "prove") => Prove(p) \/ Faults(p)
         /\ At(p, "verify") => Verify(p) \/ Faults(p)
         /\ At(p, "unprove") => Unprove(p) \/ Faults(p)
         /\ At(p, "claim") => Claim(p) \/ Faults(p)
         /\ At(p, "put") => Put(p) \/ Faults(p)
         /\ At(p, "index") => Index(p) \/ Faults(p)
         /\ At(p, "forget") => Forget(p) \/ Faults(p)
         /\ At(p, "load") => Load(p) \/ Faults(p)
         /\ At(p, "list") => List(p) \/ Faults(p)
BY DEF Acts, Step, Faults, At, Prove, Verify, Unprove, Write, Show, Poll, Ticket, Claim,
   Put, Index, Forget, Unlink, Unindex, Load, List, Sync

(* The histories of faults only grow, by the flow of a process cut off.    *)
LEMMA ActsBlame ==
  ASSUME NEW p \in Procs, Acts(p)
  PROVE  cut \subseteq cut' /\ litter \subseteq litter'
BY DEF Acts, Step, Prove, Verify, Unprove, AfterProof, Write, Show, Poll, Ticket, Claim,
   Put, Index, Forget, Unlink, Unindex, Load, List, Sync, Go, Return, blame,
   Throw, Crash, CutOff

LEMMA FaultsBlame ==
  ASSUME NEW p \in Procs, Faults(p)
  PROVE  /\ job[p].stage \in {"claim", "put", "index", "forget"} => job[p].flow \in cut'
         /\ job[p].stage \in {"prove", "unprove"} => job[p].flow \in litter'
         /\ Crash(p) /\ At(p, "verify") => job[p].flow \in litter'
BY DEF Faults, Throw, Crash, CutOff, At

LEMMA ActsOnClaims ==
  ASSUME TypeInv, UsedInv, StageInv, NEW p \in Procs, Acts(p)
  PROVE  LET f == job[p].flow IN
         /\ At(p, "claim") /\ flow'[f] # flow[f] => job'[p].stage = "put" \/ f \in cut'
         /\ At(p, "claim") /\ job'[p].stage = "put" => flow'[f] = "claimed"
         /\ At(p, "put") => (job'[p].stage = "index" /\ bearer'[owner[f]] = f) \/ f \in cut'
         /\ At(p, "index") => job'[p].stage = "forget" \/ f \in cut'
         /\ At(p, "forget") => pending' = None \/ f \in cut'
<1>. DEFINE f == job[p].flow
<1>1. CASE Faults(p) /\ job[p].stage \in {"claim", "put", "index", "forget"}
  <2>1. At(p, "claim") => job'[p].stage # "put"
    BY <1>1, ThrowIs, NoJobIsJob DEF Faults, At
  <2>. QED  BY <1>1, <2>1, FaultsBlame
<1>2. CASE At(p, "claim") /\ Claim(p)
  <2>1. f \in Flows
    BY <1>2, StartedFlow DEF At, CompleteStage, Used
  <2>2. CASE BffClaim(f) /\ Go(p, "put")
    <3>1. flow'[f] = "claimed"
      BY <2>1, <2>2 DEF BffClaim, TypeInv
    <3>2. job'[p].stage = "put"
      BY <2>2, GoIs DEF Stages, CompleteStage
    <3>. QED  BY <1>2, <3>1, <3>2 DEF At
  <2>3. CASE Return(p) /\ UNCHANGED world
    BY <1>2, <2>3, ReturnIs, NoJobIsJob DEF At, world, bff
  <2>. QED  BY <1>2, <2>2, <2>3 DEF Claim
<1>3. CASE At(p, "put") /\ Put(p)
  <2>1. owner[f] \in Sellers
    BY <1>3, StartedFlow DEF At, CompleteStage
  <2>2. bearer'[owner[f]] = f
    BY <1>3, <2>1 DEF Put, PutBearer, TypeInv
  <2>3. job'[p].stage = "index"
    BY <1>3, GoIs DEF Put, Stages, CompleteStage
  <2>. QED  BY <1>3, <2>2, <2>3 DEF At
<1>4. CASE At(p, "index") /\ Index(p)
  BY <1>4, GoIs DEF At, Index, Stages, CompleteStage
<1>5. CASE At(p, "forget") /\ Forget(p)
  BY <1>5 DEF At, Forget, DeletePending
<1>. QED  BY <1>1, <1>2, <1>3, <1>4, <1>5, ActsAt DEF At

LEMMA ActsOnProofs ==
  ASSUME TypeInv, NEW p \in Procs, Acts(p)
  PROVE  LET f == job[p].flow IN
         /\ At(p, "prove") => job'[p].stage = "verify" \/ f \in litter'
         /\ At(p, "verify") => job'[p].stage = "unprove" \/ f \in litter'
         /\ At(p, "unprove") => f \notin proofs' \/ f \in litter'
<1>1. CASE Faults(p) /\ ~At(p, "verify")
  BY <1>1, FaultsBlame DEF At
<1>2. CASE Crash(p) /\ At(p, "verify")
  BY <1>2, FaultsBlame DEF At, Faults
<1>3. CASE Throw(p) /\ At(p, "verify")
  <2>1. job' = [job EXCEPT ![p] = [@ EXCEPT !.stage = "unprove"]]
    BY <1>3 DEF Throw, At
  <2>2. job[p] \in Job
    BY DEF TypeInv
  <2>3. [job[p] EXCEPT !.stage = "unprove"].stage = "unprove"
    BY <2>2 DEF Job
  <2>4. job'[p].stage = "unprove"
    BY <2>1, <2>3 DEF TypeInv
  <2>. QED  BY <1>3, <2>4 DEF At
<1>4. CASE Prove(p)
  BY <1>4, GoIs DEF Prove, At, Stages, LoginStage
<1>5. CASE Verify(p)
  <2>1. job' = [job EXCEPT ![p].stage = "unprove", ![p].verified = TRUE]
    BY <1>5 DEF Verify
  <2>2. job[p] \in Job
    BY DEF TypeInv
  <2>3. job'[p].stage = "unprove"
    BY <2>1, <2>2 DEF TypeInv, Job
  <2>. QED  BY <1>5, <2>3 DEF Verify, At
<1>6. CASE Unprove(p)
  BY <1>6 DEF Unprove, DeleteProof, At
<1>. QED  BY <1>1, <1>2, <1>3, <1>4, <1>5, <1>6, ActsAt DEF At, Faults

(***************************************************************************)
(* A step of a process keeps the invariants.                               *)
(***************************************************************************)
LEMMA FlowsOfJobs ==
  ASSUME NEW p \in Procs, JobMoves(p)
  PROVE  /\ job'[p].flow \in {job[p].flow, None}
         /\ job'[p].stage # "idle" => Hops(p)
BY NoJobIsJob DEF JobMoves, Hops

LEMMA ActsKeepTypes ==
  ASSUME TypeInv, UsedInv, StageInv, NEW p \in Procs, Acts(p)
  PROVE  TypeInv' /\ UsedInv'
<1>1. Effect(p) /\ JobMoves(p)
  BY ActsHaveEffect, ActsMoveJob
<1>2. PendingMoves(p) /\ BearersMove
  BY <1>1, EffectOnDisk
<1>3. /\ flow' \in [Flows -> FlowStatus] /\ owner' = owner
      /\ \A f \in Flows : FlowMoves(p, f)
  BY <1>1, EffectOnFlows
<1>4. At(p, "write") => Used(job[p].flow)
  BY StartedFlow DEF At, LoginStage
<1>5. TypeInv'
  BY <1>1, <1>2, <1>3, <1>4 DEF TypeInv, PendingMoves, BearersMove, JobMoves, Alone, Used
<1>6. \A f : Used(f) => f \in Flows /\ flow'[f] # "unused"
  BY <1>3 DEF Used, FlowMoves
<1>7. (pending # None => Used(pending))'
  <2>1. pending' # None => Used(pending')
    BY <1>2, <1>4 DEF PendingMoves, UsedInv
  <2>. QED  BY <2>1, <1>6 DEF Used
<1>8. \A f \in Flows : Used(f)' => owner'[f] \in Sellers
  <2>1. \A f \in Flows : Used(f)' => Used(f)
    BY <1>3, StartedFlow DEF Used, FlowMoves, At, LoginStage, CompleteStage
  <2>. QED  BY <1>3, <2>1 DEF UsedInv
<1>9. (\A q \in Procs : job[q].flow # None => Used(job[q].flow))'
  <2>1. ASSUME NEW q \in Procs, job'[q].flow # None
        PROVE  Used(job'[q].flow)
    BY <1>1, <2>1, FlowsOfJobs DEF UsedInv, JobMoves, Alone
  <2>. QED  BY <2>1, <1>6 DEF Used
<1>. QED  BY <1>5, <1>7, <1>8, <1>9 DEF UsedInv

LEMMA ClaimedStays ==
  ASSUME TypeInv, PrivateInv, NEW p \in Procs, Acts(p),
         NEW f \in Flows, flow[f] = "claimed"
  PROVE  flow'[f] = "claimed"
BY ActsHaveEffect, EffectOnFlows DEF FlowMoves, PrivateInv, Private, At

LEMMA ActsKeepPrivate ==
  ASSUME TypeInv, UsedInv, StageInv, PrivateInv, NEW p \in Procs, Acts(p)
  PROVE  PrivateInv'
<1>1. Effect(p) /\ JobMoves(p)
  BY ActsHaveEffect, ActsMoveJob
<1>2. PendingMoves(p) /\ \A f \in Flows : FlowMoves(p, f)
  BY <1>1, EffectOnDisk, EffectOnFlows
<1>. SUFFICES ASSUME NEW r \in Procs, job'[r].stage \in Private
              PROVE  /\ flow'[job'[r].flow] \notin {"ticketed", "claimed"}
                     /\ pending' # job'[r].flow
                     /\ \A q \in Procs \ {r} : job'[q].flow # job'[r].flow
  BY DEF PrivateInv
<1>3. /\ job[r].stage \in Private /\ job'[r].flow = job[r].flow
      /\ r = p => job[r].stage # "write"
  BY <1>1, FlowsOfJobs DEF JobMoves, Alone, Hops, Hop, Private
<1>4. job[r].flow \in Flows /\ job[r].flow # None
  BY <1>3, StartedFlow DEF StageInv, Private, LoginStage, Used
<1>5. /\ flow[job[r].flow] \notin {"ticketed", "claimed"} /\ pending # job[r].flow
      /\ \A q \in Procs \ {r} : job[q].flow # job[r].flow
  BY <1>3 DEF PrivateInv
<1>6. flow'[job[r].flow] \notin {"ticketed", "claimed"}
  BY <1>2, <1>3, <1>4, <1>5 DEF FlowMoves, At, Private
<1>7. pending' # job[r].flow
  BY <1>2, <1>3, <1>4, <1>5 DEF PendingMoves, At
<1>8. \A q \in Procs \ {r} : job'[q].flow # job[r].flow
  BY <1>1, <1>4, <1>5, FlowsOfJobs DEF JobMoves, Alone
<1>. QED  BY <1>3, <1>6, <1>7, <1>8

LEMMA ActsKeepStages ==
  ASSUME TypeInv, UsedInv, StageInv, PrivateInv, NEW p \in Procs, Acts(p)
  PROVE  StageInv'
<1>1. JobMoves(p)
  BY ActsMoveJob
<1>. SUFFICES ASSUME NEW q \in Procs
              PROVE  /\ job'[q].stage \in LoginStage \cup CompleteStage => job'[q].flow # None
                     /\ job'[q].stage \in {"put", "index"} => flow'[job'[q].flow] = "claimed"
  BY DEF StageInv
<1>2. ASSUME NEW f, f # None, \E r \in Procs : job[r].flow = f, flow[f] = "claimed"
      PROVE  flow'[f] = "claimed"
  BY <1>2, ClaimedStays DEF UsedInv, Used
<1>3. CASE q # p
  BY <1>1, <1>2, <1>3 DEF JobMoves, Alone, StageInv, CompleteStage
<1>4. CASE q = p /\ job'[p] = NoJob
  BY <1>4, NoJobIsJob DEF LoginStage, CompleteStage
<1>5. CASE q = p /\ Hops(p)
  <2>1. job'[p].stage \in LoginStage \cup CompleteStage => job[p].flow # None
    BY <1>5 DEF Hops, Hop, StageInv, LoginStage, CompleteStage
  <2>2. job'[p].stage = "put" => flow'[job[p].flow] = "claimed"
    BY <1>5, ActsOnClaims DEF Hops, Hop, At
  <2>3. job'[p].stage = "index" => flow[job[p].flow] = "claimed" /\ job[p].flow # None
    BY <1>5 DEF Hops, Hop, StageInv, CompleteStage
  <2>. QED  BY <1>2, <1>5, <2>1, <2>2, <2>3 DEF Hops, StageInv
<1>. QED  BY <1>1, <1>3, <1>4, <1>5 DEF JobMoves

LEMMA ActsKeepImports ==
  ASSUME TypeInv, ImportInv, SyncedIsPublished, NEW p \in Procs, Acts(p)
  PROVE  ImportInv' /\ SyncedIsPublished'
<1>1. JobMoves(p) /\ published \subseteq published' /\ SyncedIsPublished'
  BY ActsHaveEffect, ActsMoveJob, EffectOnMarket
<1>. SUFFICES ASSUME NEW q \in Procs
              PROVE  /\ job'[q].stage = "load" => job'[q].left = job'[q].records
                     /\ job'[q].stage \in {"list", "sync"} =>
                          {job'[q].session} \X (job'[q].records \ job'[q].left)
                            \subseteq published'
                     /\ job'[q].stage = "sync" => job'[q].left = {}
  BY <1>1 DEF ImportInv
<1>2. CASE q # p
  BY <1>1, <1>2 DEF JobMoves, Alone, ImportInv
<1>3. CASE q = p /\ job'[p].stage \notin {"load", "list", "sync"}
  BY <1>3
<1>4. CASE q = p /\ job'[p].stage \in {"load", "list", "sync"}
  <2>1. Hops(p) /\ job[p].stage \in {"load", "list"} /\ job'[p].stage # "load"
    BY <1>1, <1>4, FlowsOfJobs DEF Hops, Hop
  <2>2. ~Faults(p)
    BY <1>4, ThrowIs, NoJobIsJob DEF Faults
  <2>3. CASE Load(p)
    <3>1. ~Return(p)
      BY <1>4, ReturnIs, NoJobIsJob
    <3>2. job[p].left = job[p].records
      BY <2>3 DEF Load, At, ImportInv
    <3>. QED  BY <1>4, <2>3, <3>1, <3>2, LoadIs
  <2>4. CASE List(p)
    <3>1. PICK l \in job[p].left :
            PutListing(p, l) /\ job'[p].left = job[p].left \ {l}
      BY <2>4, ListIs
    <3>2. {job[p].session} \X (job[p].records \ job[p].left) \subseteq published
      BY <2>4 DEF List, At, ImportInv
    <3>3. <<job[p].session, l>> \in published'
      BY <3>1 DEF PutListing
    <3>4. {job[p].session} \X (job[p].records \ job'[p].left) \subseteq published'
      BY <1>1, <3>1, <3>2, <3>3
    <3>. QED  BY <1>4, <2>4, <3>4, ListIs
  <2>. QED  BY <2>1, <2>2, <2>3, <2>4, ActsAt DEF At
<1>. QED  BY <1>2, <1>3, <1>4

LEMMA OthersComplete ==
  ASSUME NEW p \in Procs, JobMoves(p), NEW f, NEW stages,
         \E r \in Procs \ {p} : job[r].flow = f /\ job[r].stage \in stages
  PROVE  Completing(f, stages)'
BY DEF JobMoves, Alone, Completing

LEMMA ThisCompletes ==
  ASSUME NEW p \in Procs, JobMoves(p), NEW f, job[p].flow = f, NEW stages,
         job'[p].stage \in stages, "idle" \notin stages
  PROVE  Completing(f, stages)'
BY FlowsOfJobs DEF Hops, Completing

LEMMA ActsKeepBearers ==
  ASSUME CliInv, NEW p \in Procs, Acts(p)
  PROVE  ClaimedBearerIsKept'
<1>. SUFFICES ASSUME NEW f \in Flows, flow'[f] = "claimed"
              PROVE  \/ bearer'[owner'[f]] = f
                     \/ Completing(f, {"put"})'
                     \/ f \in retired' \cup cut'
  BY DEF ClaimedBearerIsKept
<1>. USE DEF CliInv
<1>1. JobMoves(p) /\ BearersMove /\ owner' = owner /\ FlowMoves(p, f) /\ cut \subseteq cut'
  BY ActsHaveEffect, ActsMoveJob, EffectOnDisk, EffectOnFlows, ActsBlame
<1>2. CASE flow[f] # "claimed"
  <2>1. At(p, "claim") /\ job[p].flow = f
    BY <1>1, <1>2 DEF FlowMoves
  <2>2. job'[p].stage = "put" \/ f \in cut'
    BY <1>2, <2>1, ActsOnClaims
  <2>. QED  BY <1>1, <2>1, <2>2, ThisCompletes
<1>3. CASE flow[f] = "claimed"
  <2>1. CASE bearer[owner[f]] = f
    <3>1. owner[f] \in Sellers /\ f # None
      BY <1>3, CliAssumption DEF UsedInv, Used
    <3>. QED  BY <1>1, <2>1, <3>1 DEF BearersMove
  <2>2. CASE job[p].flow = f /\ At(p, "put")
    BY <1>1, <2>2, ActsOnClaims
  <2>3. CASE \E r \in Procs \ {p} : job[r].flow = f /\ job[r].stage \in {"put"}
    BY <1>1, <2>3, OthersComplete
  <2>4. CASE f \in retired \cup cut
    BY <1>1, <2>4 DEF BearersMove
  <2>. QED  BY <1>3, <2>1, <2>2, <2>3, <2>4 DEF ClaimedBearerIsKept, Completing, At
<1>. QED  BY <1>2, <1>3

LEMMA ActsKeepForgotten ==
  ASSUME CliInv, NEW p \in Procs, Acts(p)
  PROVE  SpentLoginIsForgotten'
<1>. DEFINE Holding == {"put", "index", "forget"}
<1>. SUFFICES ASSUME NEW f, f = pending', f # None, flow'[f] = "claimed"
              PROVE  Completing(f, Holding)' \/ f \in cut'
  BY DEF SpentLoginIsForgotten, Completing
<1>. USE DEF CliInv
<1>1. /\ JobMoves(p) /\ PendingMoves(p) /\ cut \subseteq cut'
      /\ \A g \in Flows : FlowMoves(p, g)
  BY ActsHaveEffect, ActsMoveJob, EffectOnDisk, EffectOnFlows, ActsBlame
<1>2. ~At(p, "write") \/ f # job[p].flow
  <2>1. At(p, "write") => Used(job[p].flow) /\ flow[job[p].flow] # "claimed"
    BY StartedFlow DEF At, LoginStage, PrivateInv, Private
  <2>. QED  BY <1>1, <2>1 DEF FlowMoves, At, Used
<1>3. f = pending /\ f \in Flows
  BY <1>1, <1>2 DEF PendingMoves, TypeInv
<1>4. FlowMoves(p, f)
  BY <1>1, <1>3
<1>5. CASE flow[f] # "claimed"
  <2>1. At(p, "claim") /\ job[p].flow = f
    BY <1>4, <1>5 DEF FlowMoves
  <2>2. job'[p].stage = "put" \/ f \in cut'
    BY <1>4, <1>5, <2>1, ActsOnClaims
  <2>. QED  BY <1>1, <1>3, <2>1, <2>2, ThisCompletes
<1>6. CASE flow[f] = "claimed"
  <2>1. CASE job[p].flow = f /\ job[p].stage \in Holding
    <3>1. job'[p].stage \in Holding \/ f \in cut'
      BY <1>3, <2>1, ActsOnClaims DEF At
    <3>. QED  BY <1>1, <1>3, <2>1, <3>1, ThisCompletes
  <2>2. CASE \E r \in Procs \ {p} : job[r].flow = f /\ job[r].stage \in Holding
    BY <1>1, <1>3, <2>2, OthersComplete
  <2>3. CASE f \in cut
    BY <1>1, <1>3, <2>3
  <2>. QED  BY <1>3, <1>6, <2>1, <2>2, <2>3 DEF SpentLoginIsForgotten, Completing
<1>. QED  BY <1>5, <1>6

LEMMA ActsKeepProofs ==
  ASSUME CliInv, NEW p \in Procs, Acts(p)
  PROVE  ProofsAreTransient'
<1>. DEFINE Proving == {"verify", "unprove"}
<1>. SUFFICES ASSUME NEW f \in proofs'
              PROVE  Completing(f, Proving)' \/ f \in litter'
  BY DEF ProofsAreTransient
<1>. USE DEF CliInv
<1>1. JobMoves(p) /\ ProofsMove(p) /\ litter \subseteq litter'
  BY ActsHaveEffect, ActsMoveJob, EffectOnMarket, ActsBlame
<1>2. CASE job[p].flow = f /\ job[p].stage \in {"prove"} \cup Proving
  <2>1. job'[p].stage \in Proving \/ f \in litter'
    BY <1>2, ActsOnProofs DEF At
  <2>. QED  BY <1>1, <1>2, <2>1, ThisCompletes
<1>3. CASE \E r \in Procs \ {p} : job[r].flow = f /\ job[r].stage \in Proving
  BY <1>1, <1>3, OthersComplete
<1>4. CASE f \in litter
  BY <1>1, <1>4
<1>5. f \in proofs \/ (At(p, "prove") /\ job[p].flow = f)
  BY <1>1 DEF ProofsMove
<1>. QED  BY <1>2, <1>3, <1>4, <1>5 DEF ProofsAreTransient, Completing, At

LEMMA ActsKeepInv ==
  ASSUME CliInv, NEW p \in Procs, Acts(p)
  PROVE  CliInv'
BY ActsKeepTypes, ActsKeepPrivate, ActsKeepStages, ActsKeepImports, ActsKeepBearers,
   ActsKeepForgotten, ActsKeepProofs
DEF CliInv

(***************************************************************************)
(* A command begins, and the seller and the clock act.                     *)
(***************************************************************************)
Fresh(f) ==
  /\ flow[f] = "unused" /\ flow'[f] = "challenged" /\ owner'[f] \in Sellers
Began(p) ==
  /\ Alone(p) /\ Idle(p)
  /\ UNCHANGED <<pending, bearer, active, proofs, published, synced, retired, mixed, cut, litter>>
  /\ flow' \in [Flows -> FlowStatus] /\ owner' \in [Flows -> Sellers \cup {None}]
  /\ \A f \in Flows : (flow'[f] = flow[f] /\ owner'[f] = owner[f]) \/ Fresh(f)
  /\ \/ job'[p].stage = "prove" /\ job'[p].flow \in Flows /\ Fresh(job'[p].flow)
     \/ job'[p].stage = "poll" /\ job'[p].flow = pending /\ pending # None
     \/ job'[p].stage \in {"unlink", "load"} /\ job'[p].flow = None
  /\ job'[p].stage = "load" => job'[p].left = job'[p].records

LEMMA StartIs ==
  ASSUME TypeInv, NEW p \in Procs, NEW w \in Job, Start(p, w)
  PROVE  Alone(p) /\ Idle(p) /\ job'[p] = w /\ UNCHANGED <<cut, litter>>
BY DEF Start, TypeInv, Alone, blame

LEMMA Begins ==
  ASSUME TypeInv, NEW p \in Procs, Begin(p)
  PROVE  Began(p)
<1>1. CASE StartLogin(p)
  <2>1. PICK s \in Sellers, f \in Flows, stop \in BOOLEAN :
          /\ flow[f] = "unused"
          /\ Start(p, [NoJob EXCEPT !.stage = "prove", !.flow = f, !.session = s, !.stop = stop])
          /\ flow' = [flow EXCEPT ![f] = "challenged"]
          /\ owner' = [owner EXCEPT ![f] = s]
    BY <1>1, Zenon DEF StartLogin
  <2>. DEFINE w == [NoJob EXCEPT !.stage = "prove", !.flow = f, !.session = s, !.stop = stop]
  <2>2. w \in Job /\ w.stage = "prove" /\ w.flow = f
    BY DEF NoJob, Job, LoginStage
  <2>3. /\ flow' \in [Flows -> FlowStatus] /\ owner' \in [Flows -> Sellers \cup {None}]
        /\ Fresh(f)
        /\ \A g \in Flows : (flow'[g] = flow[g] /\ owner'[g] = owner[g]) \/ Fresh(g)
    BY <2>1 DEF TypeInv, FlowStatus, Fresh
  <2>. HIDE DEF w
  <2>4. Alone(p) /\ Idle(p) /\ job'[p] = w /\ UNCHANGED <<cut, litter>>
    BY <2>1, <2>2, StartIs DEF w
  <2>. QED  BY <1>1, <2>2, <2>3, <2>4 DEF StartLogin, Began, disk, market, history
<1>2. ASSUME NEW w \in Job, Start(p, w), UNCHANGED world,
             \/ w.stage = "poll" /\ w.flow = pending /\ pending # None
             \/ w.stage \in {"unlink", "load"} /\ w.flow = None,
             w.left = w.records
      PROVE  Began(p)
  BY <1>2, StartIs DEF TypeInv, Began, world, disk, bff, market, history
<1>3. CASE StartComplete(p)
  <2>. DEFINE w == [NoJob EXCEPT !.stage = "poll", !.flow = pending]
  <2>1. w \in Job /\ w.stage = "poll" /\ w.flow = pending /\ w.left = w.records
    BY DEF NoJob, Job, CompleteStage, TypeInv
  <2>. HIDE DEF w
  <2>. QED  BY <1>2, <1>3, <2>1 DEF StartComplete, w
<1>4. CASE StartLogout(p)
  <2>1. PICK s \in Sellers : Start(p, [NoJob EXCEPT !.stage = "unlink", !.seller = s])
    BY <1>4, Zenon DEF StartLogout
  <2>. DEFINE w == [NoJob EXCEPT !.stage = "unlink", !.seller = s]
  <2>2. w \in Job /\ w.stage = "unlink" /\ w.flow = None /\ w.left = w.records
    BY DEF NoJob, Job, OtherStage
  <2>. HIDE DEF w
  <2>. QED  BY <1>2, <1>4, <2>1, <2>2 DEF StartLogout, w
<1>5. CASE StartImport(p)
  <2>1. PICK env \in Sellers \cup {None}, records \in Imports :
          Start(p, [NoJob EXCEPT !.stage = "load", !.env = env, !.session = StoredSession(env),
                                 !.records = records, !.left = records])
    BY <1>5, Zenon DEF StartImport
  <2>. DEFINE w == [NoJob EXCEPT !.stage = "load", !.env = env, !.session = StoredSession(env),
                                 !.records = records, !.left = records]
  <2>2. StoredSession(env) \in Sellers /\ records \in SUBSET Listings
    BY CliAssumption DEF StoredSession, Imports
  <2>3. w \in Job /\ w.stage = "load" /\ w.flow = None /\ w.left = w.records
    BY <2>2 DEF NoJob, Job, OtherStage
  <2>. HIDE DEF w
  <2>. QED  BY <1>2, <1>5, <2>1, <2>3 DEF StartImport, w
<1>. QED  BY <1>1, <1>3, <1>4, <1>5 DEF Begin

LEMMA BeginKeepsInv ==
  ASSUME CliInv, NEW p \in Procs, Begin(p)
  PROVE  CliInv'
<1>. USE DEF CliInv
<1>1. Began(p)
  BY Begins
<1>2. /\ \A q \in Procs \ {p} : job'[q] = job[q]
      /\ job[p].stage = "idle"
  BY <1>1 DEF Began, Alone, Idle
<1>3. \A f \in Flows : (flow'[f] = flow[f] /\ owner'[f] = owner[f]) \/ Fresh(f)
  BY <1>1 DEF Began
<1>4. \A f : Used(f) => f \in Flows /\ flow'[f] # "unused" /\ flow'[f] = flow[f]
  BY <1>3 DEF Used, Fresh
<1>5. TypeInv'
  BY <1>1 DEF Began, Alone, TypeInv
<1>6. UsedInv'
  <2>1. (pending # None => Used(pending))'
    BY <1>1, <1>4 DEF Began, UsedInv, Used
  <2>2. \A f \in Flows : Used(f)' => owner'[f] \in Sellers
    BY <1>3 DEF UsedInv, Used, Fresh
  <2>3. ASSUME NEW q \in Procs, job'[q].flow # None
        PROVE  job'[q].flow \in Flows /\ flow'[job'[q].flow] # "unused"
    <3>1. CASE q # p
      BY <1>2, <1>4, <2>3, <3>1 DEF UsedInv
    <3>2. CASE q = p
      BY <1>1, <1>4, <2>3, <3>2 DEF Began, Fresh, UsedInv
    <3>. QED  BY <3>1, <3>2
  <2>. QED  BY <2>1, <2>2, <2>3 DEF UsedInv, Used
<1>7. PrivateInv'
  <2>. SUFFICES ASSUME NEW r \in Procs, job'[r].stage \in Private
                PROVE  /\ flow'[job'[r].flow] \notin {"ticketed", "claimed"}
                       /\ pending' # job'[r].flow
                       /\ \A q \in Procs \ {r} : job'[q].flow # job'[r].flow
    BY DEF PrivateInv
  <2>1. CASE r = p
    <3>1. job'[p].flow \in Flows /\ Fresh(job'[p].flow)
      BY <1>1, <2>1 DEF Began, Private
    <3>2. pending # job'[p].flow /\ \A q \in Procs : job[q].flow # job'[p].flow
      BY <3>1, CliAssumption DEF Fresh, UsedInv, Used
    <3>. QED  BY <1>1, <1>2, <2>1, <3>1, <3>2 DEF Fresh, Began
  <2>2. CASE r # p
    <3>1. job[r].stage \in Private /\ job'[r].flow = job[r].flow
      BY <1>2, <2>2
    <3>2. Used(job[r].flow)
      BY <3>1, StartedFlow DEF Private, LoginStage
    <3>3. job'[p].flow # job[r].flow
      BY <1>1, <3>1, <3>2, CliAssumption DEF Began, Fresh, Used, PrivateInv
    <3>. QED  BY <1>1, <1>2, <1>4, <2>2, <3>1, <3>2, <3>3 DEF PrivateInv, Began
  <2>. QED  BY <2>1, <2>2
<1>8. StageInv'
  <2>. SUFFICES ASSUME NEW q \in Procs
                PROVE  /\ job'[q].stage \in LoginStage \cup CompleteStage =>
                            job'[q].flow # None
                       /\ job'[q].stage \in {"put", "index"} =>
                            flow'[job'[q].flow] = "claimed"
    BY DEF StageInv
  <2>1. CASE q = p
    BY <1>1, <2>1, CliAssumption DEF Began, LoginStage, CompleteStage
  <2>2. CASE q # p
    BY <1>2, <1>4, <2>2 DEF StageInv, UsedInv, CompleteStage
  <2>. QED  BY <2>1, <2>2
<1>9. ImportInv' /\ SyncedIsPublished'
  <2>1. ImportInv'
    BY <1>1, <1>2 DEF Began, ImportInv
  <2>. QED  BY <1>1, <2>1 DEF Began, SyncedIsPublished
<1>10. ASSUME NEW f, NEW stages, "idle" \notin stages, Completing(f, stages)
       PROVE  Completing(f, stages)'
  BY <1>2, <1>10 DEF Completing
<1>11. ClaimedBearerIsKept'
  <2>. SUFFICES ASSUME NEW f \in Flows, flow'[f] = "claimed"
                PROVE  \/ bearer'[owner'[f]] = f
                       \/ Completing(f, {"put"})'
                       \/ f \in retired' \cup cut'
    BY DEF ClaimedBearerIsKept
  <2>1. flow[f] = "claimed" /\ owner'[f] = owner[f]
    BY <1>3 DEF Fresh
  <2>. QED  BY <1>1, <1>10, <2>1 DEF Began, ClaimedBearerIsKept
<1>12. SpentLoginIsForgotten'
  <2>. DEFINE Holding == {"put", "index", "forget"}
  <2>. SUFFICES ASSUME NEW f, f = pending', f # None, flow'[f] = "claimed"
                PROVE  Completing(f, Holding)' \/ f \in cut'
    BY DEF SpentLoginIsForgotten, Completing
  <2>1. f = pending /\ flow[f] = "claimed"
    BY <1>1, <1>4 DEF Began, UsedInv
  <2>. QED  BY <1>1, <1>10, <2>1 DEF Began, SpentLoginIsForgotten
<1>13. ProofsAreTransient'
  <2>. DEFINE Proving == {"verify", "unprove"}
  <2>. SUFFICES ASSUME NEW f \in proofs'
                PROVE  Completing(f, Proving)' \/ f \in litter'
    BY DEF ProofsAreTransient
  <2>. QED  BY <1>1, <1>10 DEF Began, ProofsAreTransient
<1>. QED  BY <1>5, <1>6, <1>7, <1>8, <1>9, <1>11, <1>12, <1>13

(* An answer of the seller changes a flow that waits, and the time none.   *)
LEMMA OthersKeepInv ==
  ASSUME CliInv, NEW f \in Flows, Approve(f) \/ Expire(f)
  PROVE  CliInv'
<1>. USE DEF CliInv
<1>1. /\ UNCHANGED <<pending, bearer, active, owner, proofs, published, synced, retired, mixed>>
      /\ UNCHANGED <<cut, litter, job>>
      /\ \/ UNCHANGED flow
         \/ flow[f] = "awaiting" /\ \E a \in {"complete", "ended"} : flow' = [flow EXCEPT ![f] = a]
  BY DEF Approve, Expire, disk, market, history, blame
<1>2. /\ flow' \in [Flows -> FlowStatus]
      /\ \A g \in Flows :
           \/ flow'[g] = flow[g]
           \/ flow[g] = "awaiting" /\ flow'[g] \in {"complete", "ended"}
  BY <1>1 DEF TypeInv, FlowStatus
<1>3. TypeInv'
  BY <1>1, <1>2 DEF TypeInv
<1>4. UsedInv'
  BY <1>1, <1>2 DEF UsedInv, Used
<1>5. PrivateInv'
  <2>1. \A p \in Procs : job[p].stage \in Private => job[p].flow \in Flows
    BY StartedFlow DEF Private, LoginStage, Used
  <2>. QED  BY <1>1, <1>2, <2>1 DEF PrivateInv
<1>6. StageInv'
  <2>1. \A p \in Procs : job[p].flow # None => job[p].flow \in Flows
    BY DEF UsedInv, Used
  <2>. QED  BY <1>1, <1>2, <2>1 DEF StageInv, LoginStage, CompleteStage
<1>7. ImportInv' /\ SyncedIsPublished' /\ ProofsAreTransient'
  BY <1>1 DEF ImportInv, SyncedIsPublished, ProofsAreTransient, Completing
<1>8. ClaimedBearerIsKept'
  BY <1>1, <1>2 DEF ClaimedBearerIsKept, Completing
<1>9. SpentLoginIsForgotten'
  BY <1>1, <1>2 DEF SpentLoginIsForgotten, Completing, TypeInv
<1>. QED  BY <1>3, <1>4, <1>5, <1>6, <1>7, <1>8, <1>9

LEMMA InitHasInv == Init => CliInv
<1>. SUFFICES ASSUME Init
              PROVE  CliInv
  OBVIOUS
<1>1. \A p \in Procs : job[p] = NoJob
  BY DEF Init
<1>2. TypeInv
  BY NoJobIsJob DEF Init, TypeInv, FlowStatus
<1>3. UsedInv /\ StageInv /\ PrivateInv /\ ImportInv
  BY <1>1, NoJobIsJob
  DEF Init, UsedInv, Used, StageInv, PrivateInv, ImportInv, Private, LoginStage, CompleteStage
<1>4. ClaimedBearerIsKept /\ SpentLoginIsForgotten /\ ProofsAreTransient /\ SyncedIsPublished
  BY DEF Init, ClaimedBearerIsKept, SpentLoginIsForgotten, ProofsAreTransient, SyncedIsPublished
<1>. QED  BY <1>2, <1>3, <1>4 DEF CliInv

LEMMA NextKeepsInv == CliInv /\ [Next]_vars => CliInv'
<1>. SUFFICES ASSUME CliInv, [Next]_vars
              PROVE  CliInv'
  OBVIOUS
<1>1. ASSUME NEW p \in Procs, Begin(p)
      PROVE  CliInv'
  BY <1>1, BeginKeepsInv
<1>2. ASSUME NEW p \in Procs, Step(p) \/ Throw(p) \/ Crash(p)
      PROVE  CliInv'
  BY <1>2, ActsKeepInv DEF Acts
<1>3. ASSUME NEW f \in Flows, Approve(f) \/ Expire(f)
      PROVE  CliInv'
  BY <1>3, OthersKeepInv
<1>4. CASE UNCHANGED vars
  BY <1>4
  DEF vars, world, disk, bff, market, history, blame, CliInv, TypeInv, UsedInv, Used,
      PrivateInv, StageInv, ImportInv, ClaimedBearerIsKept, SpentLoginIsForgotten,
      ProofsAreTransient, SyncedIsPublished, Completing
<1>. QED  BY <1>1, <1>2, <1>3, <1>4 DEF Next

(* The inductive invariant holds always.                                   *)
THEOREM CliAlways == Spec => []CliInv
BY InitHasInv, NextKeepsInv, PTL DEF Spec

(* A bearer that was claimed is stored or held by the process that claimed *)
(* it, until it is replaced or dropped or a fault cuts that process off.   *)
THEOREM BearersAreKept == Spec => []ClaimedBearerIsKept
<1>1. CliInv => ClaimedBearerIsKept
  BY DEF CliInv
<1>. QED  BY <1>1, CliAlways, PTL

(* The pending file offers no login whose bearer has been claimed, but     *)
(* while the claimant finishes or after a fault cut it off.                *)
THEOREM SpentLoginsGo == Spec => []SpentLoginIsForgotten
<1>1. CliInv => SpentLoginIsForgotten
  BY DEF CliInv
<1>. QED  BY <1>1, CliAlways, PTL

(* A proof leaves the homeserver with its login, unless that is cut off.   *)
THEOREM ProofsGo == Spec => []ProofsAreTransient
<1>1. CliInv => ProofsAreTransient
  BY DEF CliInv
<1>. QED  BY <1>1, CliAlways, PTL

(* Nothing is synced that was not published, but over mixed sessions.      *)
THEOREM SyncsArePublished == Spec => []SyncedIsPublished
<1>1. CliInv => SyncedIsPublished
  BY DEF CliInv
<1>. QED  BY <1>1, CliAlways, PTL
=============================================================================
