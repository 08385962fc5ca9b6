------------------------------ MODULE EntityReset ------------------------------
(***************************************************************************)
(* The reset of the Home Assistant entities in main/mqtt_discovery.c: the  *)
(* web button and the Home Assistant button both start it, a task of its   *)
(* own subscribes to the retained discovery messages, the MQTT task lists  *)
(* those of this device as they arrive, and after a while the reset task   *)
(* retracts what is listed and restarts the device. Meanwhile the bridge   *)
(* task goes on publishing.                                                *)
(*                                                                         *)
(* The three tasks share two atomics and a list of allocated strings. What *)
(* keeps a second reset off the list while the first walks it is time: a   *)
(* walk and HA_RESET_FLUSH_MS end before another HA_RESET_COLLECT_MS.      *)
(***************************************************************************)
EXTENDS Integers, Sequences, FiniteSets

CONSTANTS
  Own,       \* config topics of this device
  Foreign,   \* config topics of others
  MaxTopics, \* HA_RESET_MAX_TOPICS
  MaxChanges \* bound: entities announced, connections lost and made meanwhile

NoTopic == "none"

ASSUME ResetAssumption ==
  /\ MaxTopics \in Nat /\ MaxChanges \in Nat
  /\ Own \cap Foreign = {} /\ NoTopic \notin Own

VARIABLES
  active,     \* s_reset_active
  list,       \* s_reset_topics
  count,      \* s_reset_count
  task,       \* button -> its call, and then the reset task it made
  mqtt,       \* the MQTT task: the message it handles
  inbox,      \* discovery messages on their way to it
  retained,   \* config topics the broker has a message for
  link,       \* the connection, and whether it is subscribed to them
  changes,    \* counter of the bound
  listed,     \* history: topics listed while a reset was collecting
  renewed,    \* history: topics announced after it was
  disturbed,  \* history: the connection was lost, or another reset claimed, since
  misread     \* history: a slot was read that held no topic

listVars == <<active, list, count>>
historyVars == <<listed, renewed, disturbed>>
outsideVars == <<mqtt, retained, changes>>
resetVars == <<listVars, task, inbox, link, historyVars, misread, outsideVars>>

(* Who calls mqtt_discovery_reset_start(), each once until a restart.       *)
Buttons == {"web", "home assistant"}
Ready == [at |-> "ready", i |-> 1, n |-> 0]
Quiet == [at |-> "idle"]
Walking == {b \in Buttons : task[b].at \in {"collected", "walk"}}
Move(b, from, to) == task[b].at = from /\ task' = [task EXCEPT ![b].at = to]

-----------------------------------------------------------------------------
(* mqtt_discovery_reset_start(), in the web server or, for the button of     *)
(* Home Assistant, in the MQTT task between two messages.                    *)

(* Variant: the claim is made, whether or not there is one already.          *)
ClaimAnyway(b) == Move(b, "ready", "claimed")

(* atomic_exchange(): only one call finds the flag clear.                    *)
Claim(b) == Move(b, "ready", IF active THEN "refused" ELSE "claimed")

Start(b) ==
  /\ link # "down"
  /\ Claim(b) /\ active' = TRUE
  /\ disturbed' = (disturbed \/ (Walking # {} /\ task'[b].at = "claimed"))
  /\ UNCHANGED <<list, count, inbox, link, listed, renewed, misread, outsideVars>>

ClearAndCreate(b) ==
  /\ count' = 0
  /\ \/ Move(b, "claimed", "created") /\ UNCHANGED active
     \/ Move(b, "claimed", "refused") /\ active' = FALSE
  /\ UNCHANGED <<list, inbox, link, historyVars, misread, outsideVars>>

Call(b) ==
  /\ b = "home assistant" => mqtt = Quiet
  /\ Start(b) \/ ClearAndCreate(b)

-----------------------------------------------------------------------------
(* ha_reset_task().                                                          *)

(* The broker sends what it retains, in some order.                          *)
Orders(S) == {s \in [1 .. Cardinality(S) -> S] : \A i, j \in DOMAIN s : s[i] = s[j] => i = j}

Subscribe(b) ==
  /\ link # "down"
  /\ Move(b, "created", "collect") /\ link' = "subscribed"
  /\ \E s \in Orders(retained) : inbox' = inbox \o s
  /\ listed' = {} /\ renewed' = {} /\ disturbed' = (Walking # {})
  /\ UNCHANGED <<listVars, misread, outsideVars>>

CannotSubscribe(b) ==
  /\ Move(b, "created", "refused") /\ active' = FALSE
  /\ UNCHANGED <<list, count, inbox, link, historyVars, misread, outsideVars>>

(* The end of HA_RESET_COLLECT_MS, which outlasts a walk that had begun when *)
(* it began.                                                                 *)
EndCollect(b) ==
  /\ Walking = {} /\ Move(b, "collect", "collected")
  /\ active' = FALSE
  /\ UNCHANGED <<list, count, inbox, link, historyVars, misread, outsideVars>>

ReadCount(b) ==
  /\ task[b].at = "collected"
  /\ task' = [task EXCEPT ![b].at = "walk", ![b].n = count]
  /\ inbox' = <<>> /\ link' = IF link = "subscribed" THEN "up" ELSE link
  /\ UNCHANGED <<listVars, historyVars, misread, outsideVars>>

(* mqtt_publish() of an empty retained message, dropped without a            *)
(* connection; and free().                                                   *)
Retract(b) ==
  /\ task[b].at = "walk" /\ task[b].i <= task[b].n
  /\ LET topic == list[task[b].i] IN
       /\ misread' = (misread \/ topic = NoTopic)
       /\ retained' = IF link = "down" THEN retained ELSE retained \ {topic}
  /\ list' = [list EXCEPT ![task[b].i] = NoTopic]
  /\ task' = [task EXCEPT ![b].i = @ + 1]
  /\ UNCHANGED <<active, count, inbox, link, historyVars, mqtt, changes>>

Walked(b) == task[b].at = "walk" /\ task[b].i > task[b].n

(* esp_restart(): of this only the broker keeps anything.                    *)
RestartDevice(b) ==
  /\ Walked(b)
  /\ active' = FALSE /\ list' = [i \in DOMAIN list |-> NoTopic] /\ count' = 0
  /\ task' = [c \in Buttons |-> [Ready EXCEPT !.at = "done"]]
  /\ mqtt' = Quiet /\ link' = "up" /\ inbox' = <<>>
  /\ UNCHANGED <<historyVars, misread, retained, changes>>

-----------------------------------------------------------------------------
(* mqtt_discovery_reset_handle_message(), in the MQTT task: a topic of this  *)
(* device, while the flag is set and the list has room, and memory for it.   *)
HandleMessage ==
  /\ mqtt = Quiet /\ task["home assistant"].at # "claimed"
  /\ inbox # <<>> /\ inbox' = Tail(inbox)
  /\ \/ mqtt' = mqtt
     \/ /\ active /\ Head(inbox) \in Own /\ count < MaxTopics
        /\ mqtt' = [at |-> "store", topic |-> Head(inbox), index |-> count + 1]
  /\ UNCHANGED <<listVars, task, link, historyVars, misread, retained, changes>>

StoreTopic ==
  /\ mqtt.at = "store" /\ mqtt' = [mqtt EXCEPT !.at = "count"]
  /\ list' = [list EXCEPT ![mqtt.index] = mqtt.topic]
  /\ UNCHANGED <<active, count, task, inbox, link, historyVars, misread, retained, changes>>

(* A topic listed after the collecting ended is left for the next boot.      *)
StoreCount ==
  /\ mqtt.at = "count" /\ mqtt' = Quiet
  /\ count' = mqtt.index
  /\ listed' = IF \E b \in Buttons : task[b].at = "collect" THEN listed \cup {mqtt.topic} ELSE listed
  /\ UNCHANGED <<active, list, task, inbox, link, renewed, disturbed, misread, retained, changes>>

-----------------------------------------------------------------------------
(* The bridge task announces an entity, and the connection comes and goes.   *)
Announce ==
  /\ changes < MaxChanges /\ changes' = changes + 1
  /\ link # "down"
  /\ \E topic \in Own :
       /\ retained' = retained \cup {topic} /\ renewed' = renewed \cup {topic}
       /\ inbox' = IF link = "subscribed" THEN Append(inbox, topic) ELSE inbox
  /\ UNCHANGED <<listVars, task, link, listed, disturbed, misread, mqtt>>

LinkChanges ==
  /\ changes < MaxChanges /\ changes' = changes + 1
  /\ link' = IF link = "down" THEN "up" ELSE "down"
  /\ disturbed' = TRUE /\ inbox' = <<>>
  /\ UNCHANGED <<listVars, task, listed, renewed, misread, mqtt, retained>>

ResetTask(b) ==
  \/ Subscribe(b) \/ CannotSubscribe(b) \/ EndCollect(b) \/ ReadCount(b)
  \/ Retract(b) \/ RestartDevice(b)

ResetInit ==
  /\ active = FALSE /\ list = [i \in 1 .. MaxTopics |-> NoTopic] /\ count = 0
  /\ task = [b \in Buttons |-> Ready] /\ mqtt = Quiet
  /\ inbox = <<>> /\ retained = Own \cup Foreign /\ link = "up" /\ changes = 0
  /\ listed = {} /\ renewed = {} /\ disturbed = FALSE /\ misread = FALSE

ResetNext ==
  \/ \E b \in Buttons : Call(b) \/ ResetTask(b)
  \/ HandleMessage \/ StoreTopic \/ StoreCount \/ Announce \/ LinkChanges

ResetSpec == ResetInit /\ [][ResetNext]_resetVars

(* No index leaves the list.                                                *)
ResetTypeOK ==
  /\ count \in 0 .. MaxTopics /\ retained \subseteq Own \cup Foreign
  /\ list \in [1 .. MaxTopics -> Own \cup {NoTopic}]

-----------------------------------------------------------------------------
(* mqtt_discovery_reset_start(), ha_reset_task(): no slot is read that holds *)
(* no topic, nobody else's entities are touched, and when the device restarts*)
(* everything listed in time is gone, unless it was announced again, the     *)
(* connection was lost, or another reset was claimed during the walk.        *)
ListedAreRetracted ==
  /\ ResetTypeOK
  /\ ~ misread /\ Foreign \subseteq retained
  /\ (\E b \in Buttons : Walked(b)) /\ ~ disturbed => listed \cap retained \subseteq renewed
=============================================================================
