-------------------------- MODULE MCBridgeProcesses --------------------------
(* Instances of BridgeProcesses for TLC.                                   *)
EXTENDS BridgeProcesses

CONSTANTS p1, p2, i1, w1, w2, e1

Webhook(w, e, item, level) ==
  [webhook |-> w, event |-> e, body |-> [item |-> item, level |-> level]]

(* One merchant action announced by two webhooks, of which one comes also  *)
(* without the event id.                                                   *)
First == Webhook(w1, e1, i1, 1)
Bare == Webhook(w1, None, i1, 1)
Second == Webhook(w2, e1, i1, 1)
OneActionManyWebhooks == {First, Bare, Second}

(* Any two of them with one stop, sale or repeat, or with the action grown *)
(* too old at any step, or all three in peace.                             *)
TwoDisturbedOrThree ==
  {[sent |-> {First, Bare}, events |-> 1], [sent |-> {First, Second}, events |-> 1],
   [sent |-> OneActionManyWebhooks, events |-> 0]}

ThreeOfEach == [i \in Items |-> 3]
=============================================================================
