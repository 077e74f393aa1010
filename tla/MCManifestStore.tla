--------------------------- MODULE MCManifestStore ---------------------------
(* Instances of ManifestStore for TLC: two processes that share the store  *)
(* of one manifest with two rows.                                          *)
EXTENDS ManifestStore

CONSTANTS p1, p2, r1, r2, a, b

Create == [op |-> "create"]
Load == [op |-> "load"]
Checkpoint(v, r, to) == [op |-> "checkpoint", expects |-> v, row |-> r, to |-> to]
Swap(v, to) == [op |-> "swap", expects |-> v, to |-> to]
Discard(v) == [op |-> "discard", expects |-> v]
Repair(v) == [op |-> "repair", expects |-> v]
Quarantine(v, replay, at) ==
  [op |-> "quarantine", expects |-> v, replay |-> replay, at |-> at]
Compact(v, since) == [op |-> "compact", expects |-> v, since |-> since]

(* Everything a host may ask of the first version of a manifest, and what  *)
(* it may ask of the second.                                               *)
HostRequests ==
  {Create, Load, Checkpoint(1, r1, "conflict"), Checkpoint(2, r1, "publishing"),
   Checkpoint(2, r2, "publishing"), Swap(1, "complete"), Discard(1),
   Quarantine(1, a, 1), Quarantine(1, b, 2), Compact(1, 2), Repair(1)}

(* Two checkpoints of one version.                                         *)
RivalCheckpoints == {Create, Checkpoint(1, r1, "publishing")}
=============================================================================
