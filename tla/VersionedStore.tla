---------------------------- MODULE VersionedStore ----------------------------
(***************************************************************************)
(* What the manifest store promises of one import id, whatever its lock,   *)
(* its files and the crashes of its callers: the manifest is created once  *)
(* at a time, goes from version to version by one writer after the other,  *)
(* and a load answers with one version that was there while it ran.  A     *)
(* manifest that was discarded and created anew under the same id starts   *)
(* at version 1 again; a load that began with the old one and meets the    *)
(* new one may take the rows of the new one for those of the old.          *)
(*                                                                         *)
(* All of it is promised while the lock is sound.                          *)
(***************************************************************************)
EXTENDS Integers

CONSTANTS Callers, Contents, First, None

VARIABLES
  current,  \* the manifest, or None
  births,   \* manifests created so far
  view,     \* the manifest that a load of each caller has begun with
  answer,   \* what it will return
  sound     \* no two writers have been at work at a time

versioned == <<current, births, view, answer, sound>>

Loads == <<view, answer>>

Init ==
  /\ current = None /\ births = 0 /\ sound = TRUE
  /\ view = [c \in Callers |-> None]
  /\ answer = [c \in Callers |-> None]

Create ==
  /\ current = None
  /\ births' = births + 1
  /\ current' = [birth |-> births', version |-> 1, rows |-> First]
  /\ UNCHANGED <<Loads, sound>>

Change ==
  /\ current # None
  /\ \E rows \in Contents :
       current' = [birth |-> current.birth, version |-> current.version + 1, rows |-> rows]
  /\ UNCHANGED <<births, Loads, sound>>

Discard ==
  /\ current # None /\ current' = None
  /\ UNCHANGED <<births, Loads, sound>>

Look(c) ==
  /\ view[c] = None /\ current # None
  /\ view' = [view EXCEPT ![c] = current]
  /\ UNCHANGED <<current, births, answer, sound>>

(* The manifest a load began with is no longer the one of the id.          *)
Superseded(c) == current # None /\ current.birth > view[c].birth

Answer(c) ==
  /\ view[c] # None /\ answer[c] = None
  /\ \/ answer' = [answer EXCEPT ![c] = view[c]]
     \/ /\ Superseded(c)
        /\ \E rows \in Contents :
             answer' = [answer EXCEPT ![c] = [birth |-> view[c].birth,
                          version |-> view[c].version, rows |-> rows]]
  /\ UNCHANGED <<current, births, view, sound>>

(* The load returns, or it throws.                                         *)
Leave(c) ==
  /\ view[c] # None
  /\ view' = [view EXCEPT ![c] = None]
  /\ answer' = [answer EXCEPT ![c] = None]
  /\ UNCHANGED <<current, births, sound>>

Unsound == ~sound' /\ UNCHANGED <<current, births, Loads>>

Next ==
  \/ Create \/ Change \/ Discard \/ Unsound
  \/ \E c \in Callers : Look(c) \/ Answer(c) \/ Leave(c)

Spec == Init /\ [][sound => Next]_versioned
=============================================================================
