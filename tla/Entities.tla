-------------------------------- MODULE Entities --------------------------------
(***************************************************************************)
(* What the families of entities have in common. The decoder changes       *)
(* pool_state_t under its mutex, takes a snapshot, and then calls the      *)
(* publishers of main/mqtt_publish.c one after the other; the next frame   *)
(* is decoded when they are done. A publisher compares with what it last   *)
(* published, announces the entity if that changed, and sends its state.   *)
(* A connection may break before, between and after the two.               *)
(***************************************************************************)
EXTENDS Retained

VARIABLES
  pool,     (* pool_state_t, the part the family is about                   *)
  last,     (* s_last_published_state and s_discovery_published             *)
  todo      (* publisher calls still to be made for the last frame          *)

entityVars == <<retainedVars, pool, last, todo>>

Never == [never |-> TRUE]

(* A frame changes the state, and the publishers in "calls" follow.         *)
Decode(new, calls) ==
  /\ todo = <<>> /\ todo' = calls
  /\ pool' = new
  /\ Event
  /\ UNCHANGED <<link, broker, stale, last>>

(* A publisher call: what it sends, and what it remembers as sent. It does  *)
(* not learn whether anything arrived.                                      *)
Send(config, values, remembered) ==
  /\ todo # <<>> /\ todo' = Tail(todo)
  /\ Publish(config, values)
  /\ last' = remembered
  /\ UNCHANGED pool

Pass ==
  /\ todo # <<>> /\ todo' = Tail(todo)
  /\ UNCHANGED <<retainedVars, pool, last>>

If(due, messages) == IF due THEN messages ELSE NoMessages

LinkChanges == (LinkUp \/ LinkDown) /\ UNCHANGED <<pool, last, todo>>

Fresh(state, caches) == pool = state /\ last = caches /\ todo = <<>>
Restarted(state, caches) ==
  /\ RetainedRestart
  /\ pool' = state /\ last' = caches /\ todo' = <<>>
=============================================================================
