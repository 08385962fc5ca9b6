---------------------------- MODULE HeaterEntities -----------------------------
(***************************************************************************)
(* How heaters reach Home Assistant: the heater handlers of                *)
(* main/message_decoder.c, the publishers of main/mqtt_publish.c with      *)
(* their change detection, and the connection events of                    *)
(* main/mqtt_poolclient.c.                                                 *)
(*                                                                         *)
(* The bridge task decodes one frame at a time: it changes the pool state  *)
(* under its mutex, takes a snapshot and then runs the publishers on it.   *)
(* No other task changes these fields, so until the publishers are done    *)
(* the snapshot is the state itself. The MQTT task handles connects and    *)
(* disconnects; a message sent while the connection is down is dropped.    *)
(* All messages are retained: the broker keeps the last one of each topic, *)
(* also over a restart of the device. A discovery message makes an entity, *)
(* an empty one removes it.                                                *)
(*                                                                         *)
(* Left out: the gas heater details and the Fahrenheit copies, which go    *)
(* with the fields modelled; one value stands for a heater's pool and spa  *)
(* setpoints; entities that one publisher sends together count as one      *)
(* message each group.                                                     *)
(***************************************************************************)
EXTENDS Naturals, Sequences

CONSTANTS
  Setpoints,    (* temperatures; 0 is none                                  *)
  Scales,       (* temperature scales the Touchscreen may be set to         *)
  MaxMessages,  (* bound: frames decoded                                    *)
  MaxOutages    (* bound: connections lost and restarts                     *)

ASSUME SetpointsAssumption == Setpoints \subseteq Nat \ {0}
ASSUME ScalesAssumption == "C" \in Scales
ASSUME BoundsAssumption == MaxMessages \in Nat /\ MaxOutages \in Nat

VARIABLES
  config,        (* heater1_type, heater2_configured with their valid flags  *)
  on,            (* heaters[].on with heaters[].valid                        *)
  setpoint,      (* heaters[].*_setpoint with their valid flags              *)
  scale,         (* temp_scale_fahrenheit                                    *)
  separate,      (* separate_pool_spa_modes with its valid flag              *)
  todo,          (* the publisher calls the bridge task still has to make    *)
  lastOn, lastSetpoint, lastScale,  (* s_last_published_state                *)
  announced,     (* s_discovery_published                                    *)
  link,          (* the connection to the broker                             *)
  connected,     (* s_mqtt_connected, as "yes" or "no"                       *)
  mqttPc,        (* the MQTT task                                            *)
  snap,          (* its copy of `separate`, or "unknown" without one         *)
  entities,      (* entities the broker has a discovery message for          *)
  shownOn, shownSetpoint,           (* the retained state messages           *)
  stale,         (* history: topics whose latest message was dropped, or     *)
                 (* written from a copy that says other than `separate`      *)
  messages, outages

poolVars == <<config, on, setpoint, scale, separate>>
lastVars == <<lastOn, lastSetpoint, lastScale, announced>>
mqttVars == <<link, connected, mqttPc, snap>>
shownVars == <<shownOn, shownSetpoint>>
brokerVars == <<entities, shownVars, stale>>
boundVars == <<messages, outages>>
vars == <<poolVars, todo, lastVars, mqttVars, brokerVars, boundVars>>

Heaters == {0, 1}
Kinds(h) == IF h = 0 THEN {"none", "inbuilt", "genus"} ELSE {"none", "inbuilt"}
EntitiesOf(h) == {<<h, "switch">>, <<h, "pool">>, <<h, "spa">>}
ModeSelect == <<0, "mode">>
AllEntities == EntitiesOf(0) \cup EntitiesOf(1) \cup {ModeSelect}

-----------------------------------------------------------------------------
(* mqtt_publish(): without a connection the message is gone.                *)
Up == connected = "yes" /\ link = "up"

(* Discovery messages that add and remove entities.                         *)
Discover(add, remove) ==
  /\ entities' = IF Up THEN (entities \ remove) \cup add ELSE entities
  /\ stale' = IF Up THEN stale \ (add \cup remove) ELSE stale \cup add \cup remove

-----------------------------------------------------------------------------
(* The handlers of the decoder. A frame is decoded when the publishers of   *)
(* the one before are done.                                                 *)

Decode(calls) ==
  /\ todo = <<>> /\ todo' = calls
  /\ messages < MaxMessages /\ messages' = messages + 1
  /\ UNCHANGED <<lastVars, mqttVars, brokerVars, outages>>

(* Status of a smart heater, which can only be Heater 1; of the controller, *)
(* which knows about Heater 1 only if it switches it; register of Heater 2. *)
Reports(h) == h = 1 \/ config[0] = "inbuilt"

HeaterState(h, value) ==
  /\ Decode(<< <<"switch", h>> >>)
  /\ on' = [on EXCEPT ![h] = value]
  /\ UNCHANGED <<config, setpoint, scale, separate>>

DeviceStatus(value) == HeaterState(0, value)
StateRegister(h, value) == Reports(h) /\ HeaterState(h, value)

(* Heater configuration registers, published when they change.              *)
HeaterConfig(h, kind) ==
  /\ Decode(IF config[h] = kind THEN <<>> ELSE << <<"config", h>> >>)
  /\ config' = [config EXCEPT ![h] = kind]
  /\ UNCHANGED <<on, setpoint, scale, separate>>

SetpointChange(h, value) ==
  /\ Decode(<< <<"setpoints", h>> >>)
  /\ setpoint' = [setpoint EXCEPT ![h] = value]
  /\ UNCHANGED <<config, on, scale, separate>>

(* Setpoint registers, and the Touchscreen's broadcast for Heater 1.        *)
SetpointRegister(h, value) == SetpointChange(h, value)

(* A heater's own broadcast counts only if there is no second heater.       *)
DeviceSetpoints(value) == config[1] = "none" /\ SetpointChange(0, value)

SeparateModes(value) ==
  /\ Decode(IF separate = value THEN <<>> ELSE << <<"modes", 0>> >>)
  /\ separate' = value
  /\ UNCHANGED <<config, on, setpoint, scale>>

TemperatureScale(value) ==
  /\ Decode(<<>>)
  /\ scale' = value
  /\ UNCHANGED <<config, on, setpoint, separate>>

-----------------------------------------------------------------------------
(* The publishers. Each announces an entity on first use and then sends its *)
(* state: two messages, so two steps.                                       *)

Publishing(call) == todo # <<>> /\ Head(todo) = call
Rest(calls) == todo' = calls \o Tail(todo)
Unchanged(others) == UNCHANGED <<poolVars, mqttVars, boundVars, others>>

Publishable(h) == config[h] \notin {"unknown", "none"}
ModesOff(value) == value = "no"    \* separate_pool_spa_modes_off()

(* Change detection of mqtt_publish_heater(), ..._heater_setpoints().       *)
SwitchNews(h) == Publishable(h) /\ lastOn[h] # on[h]
SetpointNews(h) ==
  Publishable(h) /\ (lastSetpoint[h] # setpoint[h] \/ lastScale # scale)

Skip(h) ==
  /\ \/ Publishing(<<"switch", h>>) /\ ~SwitchNews(h)
     \/ Publishing(<<"setpoints", h>>) /\ ~SetpointNews(h)
  /\ Rest(<<>>)
  /\ Unchanged(<<lastVars, brokerVars>>)

AnnounceSwitch(h) ==
  /\ Publishing(<<"switch", h>>) /\ SwitchNews(h)
  /\ IF <<h, "switch">> \in announced THEN UNCHANGED <<entities, stale>>
     ELSE Discover({<<h, "switch">>}, {})
  /\ announced' = announced \cup {<<h, "switch">>}
  /\ Rest(<< <<"state", h>> >>)
  /\ Unchanged(<<lastOn, lastSetpoint, lastScale, shownVars>>)

(* The state counts as published whether or not the message went out.       *)
ReportState(h) ==
  /\ Publishing(<<"state", h>>)
  /\ shownOn' = IF Up THEN [shownOn EXCEPT ![h] = on[h]] ELSE shownOn
  /\ stale' = IF Up THEN stale \ {<<h, "state">>} ELSE stale \cup {<<h, "state">>}
  /\ lastOn' = [lastOn EXCEPT ![h] = on[h]]
  /\ Rest(<<>>)
  /\ Unchanged(<<lastSetpoint, lastScale, announced, entities, shownSetpoint>>)

(* mqtt_publish_heater_setpoint_discovery_single() for each of hs.          *)
Numbers(hs, circuit) == {<<h, circuit>> : h \in hs}
SetpointDiscovery(hs, add, remove) ==
  Discover(add \cup Numbers(hs, "pool") \cup (IF ModesOff(separate) THEN {} ELSE Numbers(hs, "spa")),
           remove \cup (IF ModesOff(separate) THEN Numbers(hs, "spa") ELSE {}))

AnnounceSetpoints(h) ==
  /\ Publishing(<<"setpoints", h>>) /\ SetpointNews(h)
  /\ IF <<h, "setpoints">> \in announced THEN UNCHANGED <<entities, stale>>
     ELSE SetpointDiscovery({h}, {}, {})
  /\ announced' = announced \cup {<<h, "setpoints">>}
  /\ Rest(<< <<"values", h>> >>)
  /\ Unchanged(<<lastOn, lastSetpoint, lastScale, shownVars>>)

ReportSetpoints(h) ==
  /\ Publishing(<<"values", h>>)
  /\ shownSetpoint' = IF Up THEN [shownSetpoint EXCEPT ![h] = setpoint[h]] ELSE shownSetpoint
  /\ stale' = IF Up THEN stale \ {<<h, "values">>} ELSE stale \cup {<<h, "values">>}
  /\ lastSetpoint' = [lastSetpoint EXCEPT ![h] = setpoint[h]]
  /\ lastScale' = scale
  /\ Rest(<<>>)
  /\ Unchanged(<<lastOn, announced, entities, shownOn>>)

(* Variant: a heater that is no longer configured loses its entities, but   *)
(* the flags that say they were announced stay.                             *)
AnnouncedStill(h) == announced
(* Variants: the last state published is not forgotten, or wrongly cleared. *)
LastKept(h) == lastOn[h]
LastUnknown(h) == "unknown"

AnnouncedAfter(h) == announced \ {<<h, "switch">>, <<h, "setpoints">>}

LastAfter(h) == "none"

(* mqtt_publish_heater_config(): what was held back, or the retraction.     *)
PublishHeldBack(h) ==
  /\ Publishing(<<"config", h>>) /\ Publishable(h)
  /\ Rest((IF on[h] = "unknown" THEN <<>> ELSE << <<"switch", h>> >>)
          \o (IF setpoint[h] = 0 THEN <<>> ELSE << <<"setpoints", h>> >>))
  /\ Unchanged(<<lastVars, brokerVars>>)

Retract(h) ==
  /\ Publishing(<<"config", h>>) /\ ~Publishable(h)
  /\ Discover({}, EntitiesOf(h))
  /\ announced' = AnnouncedAfter(h)
  /\ lastOn' = [lastOn EXCEPT ![h] = LastAfter(h)]
  /\ lastSetpoint' = [lastSetpoint EXCEPT ![h] = 0]
  /\ Rest(<<>>)
  /\ Unchanged(<<lastScale, shownVars>>)

(* Variant: the setpoints are announced anew only when they gain one.       *)
ReannouncedIfOn == IF separate = "yes" THEN {h \in Heaters : <<h, "setpoints">> \in announced} ELSE {}
Reannounced == {h \in Heaters : <<h, "setpoints">> \in announced}

(* mqtt_publish_mode_config()                                               *)
PublishModes ==
  /\ Publishing(<<"modes", 0>>)
  /\ IF ModesOff(separate) THEN SetpointDiscovery(Reannounced, {}, {ModeSelect})
     ELSE SetpointDiscovery(Reannounced, {ModeSelect}, {})
  /\ Rest(<<>>)
  /\ Unchanged(<<lastVars, shownVars>>)

-----------------------------------------------------------------------------
(* The MQTT task.                                                           *)

Outage == outages < MaxOutages /\ outages' = outages + 1

(* MQTT_EVENT_CONNECTED up to the snapshot of mqtt_publish_discovery().     *)
Connected ==
  /\ mqttPc = "idle" /\ connected = "no"
  /\ link' = "up" /\ connected' = "yes" /\ mqttPc' = "snapshot"
  /\ UNCHANGED <<poolVars, todo, lastVars, snap, brokerVars, boundVars>>

SnapshotIs(setting) ==
  /\ mqttPc = "snapshot" /\ mqttPc' = "discovery"
  /\ snap' = setting
  /\ UNCHANGED <<poolVars, todo, lastVars, link, connected, brokerVars, boundVars>>

Snapshot == SnapshotIs(separate)

(* The mutex is not taken within 500 ms: discovery goes on with the zeroed  *)
(* snapshot, in which the setting is not valid.                             *)
SnapshotTimeout == SnapshotIs("unknown")

(* The mode select, or its removal with every spa setpoint's. What is sent  *)
(* from a copy that the bridge task has overtaken, or that was never made,  *)
(* is stale if the state says otherwise: nothing sends it again before the  *)
(* setting changes or the connection comes back.                            *)
ConnectDiscovery ==
  /\ mqttPc = "discovery" /\ mqttPc' = "idle"
  /\ LET add == IF ModesOff(snap) THEN {} ELSE {ModeSelect}
         remove == IF ModesOff(snap) THEN {ModeSelect} \cup Numbers(Heaters, "spa") ELSE {}
     IN  /\ entities' = IF Up THEN (entities \ remove) \cup add ELSE entities
         /\ stale' = IF Up /\ ModesOff(snap) = ModesOff(separate)
                     THEN stale \ (add \cup remove) ELSE stale \cup add \cup remove
  /\ UNCHANGED <<poolVars, todo, lastVars, link, connected, snap, shownVars, boundVars>>

LinkLost ==
  /\ link = "up" /\ link' = "down"
  /\ Outage
  /\ UNCHANGED <<poolVars, todo, lastVars, connected, mqttPc, snap, brokerVars, messages>>

Disconnected ==
  /\ mqttPc = "idle" /\ connected = "yes" /\ link = "down"
  /\ connected' = "no"
  /\ UNCHANGED <<poolVars, todo, lastVars, link, mqttPc, snap, brokerVars, boundVars>>

-----------------------------------------------------------------------------
Fresh ==
  /\ config = [h \in Heaters |-> "unknown"]
  /\ on = [h \in Heaters |-> "unknown"]
  /\ setpoint = [h \in Heaters |-> 0]
  /\ scale = "C" /\ separate = "unknown"
  /\ todo = <<>>
  /\ lastOn = [h \in Heaters |-> "none"]
  /\ lastSetpoint = [h \in Heaters |-> 0]
  /\ lastScale = "C" /\ announced = {}
  /\ link = "down" /\ connected = "no" /\ mqttPc = "idle" /\ snap = "unknown"

Init ==
  /\ Fresh
  /\ entities = {}
  /\ shownOn = [h \in Heaters |-> "none"]
  /\ shownSetpoint = [h \in Heaters |-> 0]
  /\ stale = {} /\ messages = 0 /\ outages = 0

(* A restart of the device forgets everything; the broker does not.         *)
Restart ==
  /\ Outage
  /\ config' = [h \in Heaters |-> "unknown"]
  /\ on' = [h \in Heaters |-> "unknown"]
  /\ setpoint' = [h \in Heaters |-> 0]
  /\ scale' = "C" /\ separate' = "unknown"
  /\ todo' = <<>>
  /\ lastOn' = [h \in Heaters |-> "none"]
  /\ lastSetpoint' = [h \in Heaters |-> 0]
  /\ lastScale' = "C" /\ announced' = {}
  /\ link' = "down" /\ connected' = "no" /\ mqttPc' = "idle" /\ snap' = "unknown"
  /\ stale' = {}
  /\ UNCHANGED <<entities, shownVars, messages>>

Handle ==
  \/ \E value \in {"off", "on"} :
       DeviceStatus(value) \/ \E h \in Heaters : StateRegister(h, value)
  \/ \E h \in Heaters : \E kind \in Kinds(h) : HeaterConfig(h, kind)
  \/ \E value \in Setpoints :
       DeviceSetpoints(value) \/ \E h \in Heaters : SetpointRegister(h, value)
  \/ \E value \in {"no", "yes"} : SeparateModes(value)
  \/ \E value \in Scales : TemperatureScale(value)

Publish ==
  \/ \E h \in Heaters :
       \/ Skip(h)
       \/ AnnounceSwitch(h) \/ ReportState(h)
       \/ AnnounceSetpoints(h) \/ ReportSetpoints(h)
       \/ PublishHeldBack(h) \/ Retract(h)
  \/ PublishModes

Mqtt ==
  \/ Connected \/ Snapshot \/ SnapshotTimeout \/ ConnectDiscovery
  \/ LinkLost \/ Disconnected

Next == Handle \/ Publish \/ Mqtt \/ Restart

Spec == Init /\ [][Next]_vars

-----------------------------------------------------------------------------
Calls == ({"switch", "state", "setpoints", "values", "config"} \X Heaters)
         \cup {<<"modes", 0>>}
Topics == AllEntities \cup (Heaters \X {"state", "values"})

(* Types: in particular last-published values are ones a publisher sends,   *)
(* and nothing but the entities of the two heaters is ever announced.       *)
TypeOK ==
  /\ config \in [Heaters -> Kinds(0) \cup {"unknown"}]
  /\ config[1] \in Kinds(1) \cup {"unknown"}
  /\ on \in [Heaters -> {"unknown", "off", "on"}]
  /\ setpoint \in [Heaters -> Setpoints \cup {0}]
  /\ scale \in Scales /\ separate \in {"unknown", "no", "yes"}
  /\ todo \in Seq(Calls)
  /\ lastOn \in [Heaters -> {"none", "off", "on"}]
  /\ lastSetpoint \in [Heaters -> Setpoints \cup {0}]
  /\ lastScale \in Scales
  /\ announced \subseteq Heaters \X {"switch", "setpoints"}
  /\ link \in {"up", "down"} /\ connected \in {"yes", "no"}
  /\ mqttPc \in {"idle", "snapshot", "discovery"}
  /\ snap \in {"unknown", "no", "yes"}
  /\ entities \subseteq AllEntities
  /\ shownOn \in [Heaters -> {"none", "off", "on"}]
  /\ shownSetpoint \in [Heaters -> Setpoints \cup {0}]
  /\ stale \subseteq Topics
  /\ messages \in 0 .. MaxMessages /\ outages \in 0 .. MaxOutages

(* "Retract its entities and forget what was published" (mqtt_publish.c:322)*)
(* so that no "phantom heater" (:84) stays: a heater known not to be        *)
(* configured has no entity, not even one left from before a restart or one *)
(* that a change of the mode setting brings back. Only a retraction that    *)
(* was dropped leaves one behind.                                           *)
NoPhantomHeater ==
  \A h \in Heaters :
    (todo = <<>> /\ config[h] = "none") => entities \cap EntitiesOf(h) \subseteq stale

(* "... so they come back in full if the heater is configured again"        *)
(* (mqtt_publish.c:323): whatever the order in which configuration, state   *)
(* and setpoints arrive, a configured heater is on the broker with its      *)
(* entity and its current values, unless the message was dropped.           *)
ShownOrStale(h, entity, topic, matches) ==
  /\ <<h, entity>> \in entities \cup stale
  /\ matches \/ <<h, topic>> \in stale

HeaterShown ==
  \A h \in Heaters : (todo = <<>> /\ Publishable(h)) =>
    /\ on[h] # "unknown" => ShownOrStale(h, "switch", "state", shownOn[h] = on[h])
    /\ setpoint[h] # 0 =>
         ShownOrStale(h, "pool", "values", shownSetpoint[h] = setpoint[h])

(* "Both publishers follow the setting themselves" (mqtt_publish.c:387):    *)
(* the mode select and the spa setpoints are there exactly if separate      *)
(* modes are not known to be off, whether the setting, the heater or the    *)
(* connection came first. Excepted are dropped messages and what a connect  *)
(* sends from a snapshot that is no longer true, or from the zeroed one it  *)
(* has when the mutex was not taken in time: then the mode select is there  *)
(* although the modes are off.                                              *)
SettingFollowed ==
  (todo = <<>> /\ mqttPc = "idle") =>
    /\ (connected = "yes" /\ ModeSelect \notin stale)
         => (ModeSelect \in entities <=> ~ModesOff(separate))
    /\ \A h \in Heaters :
         (Publishable(h) /\ <<h, "setpoints">> \in announced /\ <<h, "spa">> \notin stale)
         => (<<h, "spa">> \in entities <=> ~ModesOff(separate))

(* s_last_published_state is the "last published state (for change          *)
(* detection)" (mqtt_publish.c:16): once the device is connected and has    *)
(* nothing to publish, the broker shows the state of a configured heater.   *)
StateReachesBroker ==
  \A h \in Heaters :
    (todo = <<>> /\ mqttPc = "idle" /\ Up /\ Publishable(h) /\ on[h] # "unknown")
    => shownOn[h] = on[h]
=============================================================================
