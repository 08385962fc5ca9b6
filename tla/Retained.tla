------------------------------- MODULE Retained --------------------------------
(***************************************************************************)
(* The MQTT broker as the publishers of main/mqtt_publish.c and            *)
(* main/mqtt_discovery.c use it through mqtt_publish() of                  *)
(* main/mqtt_poolclient.c. Every message is retained: the broker keeps the *)
(* last one of each topic, also while the device is away. A discovery      *)
(* message makes an entity of Home Assistant, an empty one removes it.     *)
(* Without a connection a message is dropped, and nobody is told.          *)
(*                                                                         *)
(* A group of messages is a function from topics to payloads.              *)
(***************************************************************************)
EXTENDS Naturals, Sequences, TLC

CONSTANT MaxEvents    (* bound: connections lost, restarts, and whatever the*)
                      (* publishers react to: frames and commands           *)
ASSUME EventsAssumption == MaxEvents \in Nat

VARIABLES
  link,     (* "up" or "down"                                               *)
  broker,   (* topic -> payload retained                                    *)
  stale,    (* history: topics whose latest message was dropped             *)
  events

retainedVars == <<link, broker, stale, events>>

NoMessages == <<>>
Message(topic, payload) == [t \in {topic} |-> payload]
Over(later, earlier) ==
  [t \in DOMAIN later \cup DOMAIN earlier |-> IF t \in DOMAIN later THEN later[t] ELSE earlier[t]]

Removed == [removed |-> TRUE]
Shown(topic) == topic \in DOMAIN broker /\ broker[topic] # Removed

(* What is due for a topic is shown, or was dropped on the way.             *)
Kept(due) ==
  \A topic \in DOMAIN due :
    \/ topic \in stale
    \/ due[topic] = Removed /\ ~Shown(topic)
    \/ topic \in DOMAIN broker /\ broker[topic] = due[topic]

Event == events < MaxEvents /\ events' = events + 1

(* mqtt_publish() of one group and then another: both arrive, the           *)
(* connection breaks between them, or there is none.                        *)
Publish(first, second) ==
  \/ /\ link = "up"
     /\ broker' = Over(second, Over(first, broker))
     /\ stale' = stale \ (DOMAIN first \cup DOMAIN second)
     /\ UNCHANGED <<link, events>>
  \/ /\ link = "up" /\ link' = "down" /\ Event
     /\ second # NoMessages
     /\ broker' = Over(first, broker)
     /\ stale' = (stale \ DOMAIN first) \cup DOMAIN second
  \/ /\ link = "down"
     /\ stale' = stale \cup DOMAIN first \cup DOMAIN second
     /\ UNCHANGED <<link, broker, events>>

LinkUp == link = "down" /\ link' = "up" /\ UNCHANGED <<broker, stale, events>>
LinkDown == link = "up" /\ link' = "down" /\ Event /\ UNCHANGED <<broker, stale>>

RetainedInit == link = "down" /\ broker = NoMessages /\ stale = {} /\ events = 0

(* A restart: the broker keeps its messages.                                *)
RetainedRestart == link' = "down" /\ Event /\ UNCHANGED <<broker, stale>>

RetainedTypeOK ==
  /\ link \in {"up", "down"}
  /\ events \in 0 .. MaxEvents
=============================================================================
