----------------------------- MODULE ValveEntities -----------------------------
(***************************************************************************)
(* Valves on their way to Home Assistant: the valve broadcast and the      *)
(* valve labels of main/message_decoder.c, mqtt_publish_valve() and the    *)
(* valve select of main/mqtt_discovery.c.                                  *)
(***************************************************************************)
EXTENDS Entities

CONSTANTS
  NumValves,   (* MAX_VALVE_SLOTS                                           *)
  ValveLabels

ASSUME ValvesAssumption == NumValves \in Nat

Valves == 1 .. NumValves
Valve(v) == pool.valve[v]
ValveTitle(v) == IF Valve(v).label = "" THEN "Valve" ELSE Valve(v).label

ValveConfig(v) == Message(<<v, "valve">>, [name |-> ValveTitle(v)])
ValveValues(v) ==
  Message(<<v, "values">>, [state |-> Valve(v).state, active |-> Valve(v).active, name |-> ValveTitle(v)])

(* mqtt_publish_valve(): announced anew under another label.                *)
PublishValve ==
  /\ todo # <<>>
  /\ LET v == Head(todo)
         announce == ~last.announced[v] \/ last.valve[v].label # Valve(v).label
     IN  IF Valve(v).configured
         THEN Send(If(announce, ValveConfig(v)), If(last.valve[v] # Valve(v), ValveValues(v)),
                   [last EXCEPT !.announced[v] = TRUE, !.valve[v] = Valve(v)])
         ELSE Pass

(* CMD 0x27: the slots of the frame, cut at those supported; there are none *)
(* before a valve is configured. A frame that ends before its slots do      *)
(* changes nothing; if any slot changed, all the slots of the frame are     *)
(* published.                                                               *)
Slots(n) == 1 .. IF n > NumValves THEN NumValves ELSE n

ValveState(n, slots) ==
  LET new == [v \in Valves |->
               IF v \in Slots(n)
               THEN [Valve(v) EXCEPT !.configured = slots[v].configured, !.state = slots[v].state,
                                     !.active = slots[v].active]
               ELSE Valve(v)]
  IN  Decode([pool EXCEPT !.valve = new],
             IF new = pool.valve THEN <<>> ELSE [v \in Slots(n) |-> v])
TruncatedValveState == Decode(pool, <<>>)

(* Registers 0xD0 of slot 2: published whether or not the label is new.     *)
ValveLabel(v, label) ==
  IF v \in Valves THEN Decode([pool EXCEPT !.valve[v].label = label], <<v>>) ELSE Decode(pool, <<>>)

-----------------------------------------------------------------------------
NoValve == [configured |-> FALSE, state |-> "off", active |-> FALSE, label |-> ""]
ValvePool == [valve |-> [v \in Valves |-> NoValve]]
ValveCaches == [announced |-> [v \in Valves |-> FALSE], valve |-> [v \in Valves |-> NoValve]]

ValveInit == RetainedInit /\ Fresh(ValvePool, ValveCaches)

SlotBytes == [configured : BOOLEAN, state : {"off", "on"}, active : BOOLEAN]

HandleValve ==
  \/ \E n \in {0, 1, NumValves + 1} : \E slots \in [Slots(n) -> SlotBytes] : ValveState(n, slots)
  \/ TruncatedValveState
  \/ \E v \in Valves \cup {NumValves + 1}, label \in ValveLabels \cup {""} : ValveLabel(v, label)

ValveNext ==
  \/ HandleValve \/ PublishValve \/ LinkChanges
  \/ Restarted(ValvePool, ValveCaches)

-----------------------------------------------------------------------------
ValveRecords == [configured : BOOLEAN, state : {"off", "on"}, active : BOOLEAN,
                 label : ValveLabels \cup {""}]

(* Types; calls are for valves.                                             *)
ValveTypeOK ==
  /\ RetainedTypeOK
  /\ pool \in [valve : [Valves -> ValveRecords]]
  /\ last \in [announced : [Valves -> BOOLEAN], valve : [Valves -> ValveRecords]]
  /\ todo \in Seq(Valves)

(* "Re-publish valve discovery and state now that the name is known"        *)
(* (message_decoder.c:4016): a valve in use is shown with its label and its *)
(* state, also when the label came before the first broadcast that uses the *)
(* slot, and when frames with other numbers of slots came between.          *)
ValveShown ==
  \A v \in Valves : (todo = <<>> /\ Valve(v).configured) => Kept(ValveConfig(v)) /\ Kept(ValveValues(v))
=============================================================================
