--------------------------- MODULE ReceiptLifecycle ---------------------------
(***************************************************************************)
(* What one receipt promises, whoever works on it and whatever fails: a    *)
(* plan is fixed once, the effect it plans may happen from then on, the    *)
(* receipt is complete only after that effect, a checkpointed receipt      *)
(* stays so, and only an operator's release of a quarantine forgets it.    *)
(***************************************************************************)
CONSTANT NoPlan

VARIABLES
  state,   \* the receipt's durable state
  plan,    \* the plan it remembers
  effect   \* whether the world shows the effect of that plan

lifecycle == <<state, plan, effect>>

Init == state = "absent" /\ plan = NoPlan

Receive ==
  /\ state = "absent" /\ state' = "received"
  /\ UNCHANGED <<plan, effect>>

FixPlan ==
  /\ state = "received" /\ state' = "effect-planned"
  /\ plan = NoPlan /\ plan' # NoPlan

Send ==
  /\ state = "effect-planned" /\ state' = "effect-sent"
  /\ UNCHANGED <<plan, effect>>

(* A call that lost its receipt to a quarantine may still finish what it   *)
(* started, so the effect is not tied to a state.                          *)
TakeEffect ==
  /\ plan # NoPlan
  /\ ~effect /\ effect'
  /\ UNCHANGED <<state, plan>>

Complete ==
  /\ state \in {"effect-planned", "effect-sent"} /\ state' = "effect-complete"
  /\ effect
  /\ UNCHANGED <<plan, effect>>

Checkpoint ==
  /\ state = "effect-complete" /\ state' = "checkpointed"
  /\ UNCHANGED <<plan, effect>>

Quarantine ==
  /\ state \notin {"absent", "quarantined"} /\ state' = "quarantined"
  /\ UNCHANGED <<plan, effect>>

Release ==
  /\ state = "quarantined" /\ state' = "absent"
  /\ plan' = NoPlan

Next ==
  \/ Receive \/ FixPlan \/ Send \/ TakeEffect \/ Complete \/ Checkpoint
  \/ Quarantine \/ Release

Spec == Init /\ [][Next]_lifecycle
=============================================================================
