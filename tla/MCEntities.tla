------------------------------ MODULE MCEntities -------------------------------
(***************************************************************************)
(* The families of entities for TLC, one at a time. Each is explored with  *)
(* frames, lost connections and restarts up to a bound of its own.         *)
(***************************************************************************)
EXTENDS EntityFamilies

Is(type, state, active) == [kind |-> "used", type |-> type, state |-> state, active |-> active]

(* A channel for the filter, and one for anything else.                     *)
reports ==
  <<{[kind |-> "absent"], Is("filter", "on", TRUE), Is("filter", "low", TRUE), Is("filter", "off", FALSE)},
    {[kind |-> "unused"], Is("light", "off", FALSE), Is("solar", "off", FALSE), Is("jets", "on", TRUE)}>>

(* Bound: three events are enough for all but lights and readings.          *)
Bounded == focus \in {"channels", "valves", "favourites"} => events' <= 3

Next == FamilyNext /\ Bounded

Spec == FamilyInit /\ [][Next]_familyVars
=============================================================================
