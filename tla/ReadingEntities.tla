---------------------------- MODULE ReadingEntities ----------------------------
(***************************************************************************)
(* Readings on their way to Home Assistant: the chlorinator and            *)
(* temperature handlers of main/message_decoder.c, the expiry of readings  *)
(* that runs with every frame, service mode, and their publishers. A       *)
(* reading that is gone must be shown as unknown, not as it last was.      *)
(***************************************************************************)
EXTENDS Entities, FiniteSets

CONSTANTS
  Devices,      (* addresses that report temperatures                       *)
  MaxSeen,      (* MAX_SEEN_DEVICES                                         *)
  StaleAge,     (* CHLOR_READING_STALE_MS, in steps of the clock            *)
  Levels,       (* values of the chlorinator                                *)
  Warm          (* temperatures above zero                                  *)

Sensors == 1 .. 2
Readings == {"ph", "orp"}
Settings == {"ph_setpoint", "orp_setpoint", "level"}
Null == "null"
NotConnected == "not connected"    \* CMD 0x31: a byte of 0x80 and more

ASSUME ReadingsAssumption ==
  /\ MaxSeen \in Nat /\ StaleAge \in Nat
  /\ {"none", Null} \cap Levels = {} /\ {"zero", Null, NotConnected} \cap Warm = {}

-----------------------------------------------------------------------------
(* The chlorinator.                                                         *)

ChlorTopic == <<"chlorinator", "values">>

(* The values are null while they are not valid; the level is left out.     *)
Shows(chlor) ==
  [f \in {g \in Readings \cup Settings : g = "level" => chlor[g] # "none"} |->
     IF chlor[f] = "none" THEN Null ELSE chlor[f]]

(* mqtt_publish_chlorinator(): an entity for each value, when it is first   *)
(* valid.                                                                   *)
NewValues(chlor) == {f \in Readings \cup Settings : chlor[f] # "none"} \ last.chlorEntities
ChlorConfig(chlor) == [topic \in NewValues(chlor) \X {"entity"} |-> [name |-> topic[1]]]

SendChlor(chlor) ==
  IF last.chlor = chlor THEN UNCHANGED <<retainedVars, last>>
  ELSE /\ Publish(ChlorConfig(chlor), Message(ChlorTopic, Shows(chlor)))
       /\ last' = [last EXCEPT !.chlor = chlor, !.chlorEntities = @ \cup NewValues(chlor)]

PublishChlor ==
  /\ todo # <<>> /\ Head(todo) = <<"chlor">> /\ todo' = Tail(todo)
  /\ SendChlor(pool.chlor)
  /\ UNCHANGED pool

(* expire_chlor_readings(), last of all with every frame: what was read too *)
(* long ago is cleared, and published.                                      *)
Expired(f) == f \in Readings /\ pool.age[f] = StaleAge
Unexpired == [f \in Readings \cup Settings |-> IF Expired(f) THEN "none" ELSE pool.chlor[f]]

Expire ==
  /\ todo # <<>> /\ Head(todo) = <<"expire">> /\ todo' = Tail(todo)
  /\ IF Unexpired = pool.chlor THEN UNCHANGED <<retainedVars, pool, last>>
     ELSE pool' = [pool EXCEPT !.chlor = Unexpired] /\ SendChlor(Unexpired)

(* Every frame ends with the expiry, its own publishers done before.        *)
Frame(new, calls) == Decode([new EXCEPT !.ticked = FALSE], Append(calls, <<"expire">>))

(* CMD 0x1F: a reading; CMD 0x1D: a setpoint, or the output level.          *)
ChlorReading(f, value) ==
  Frame([pool EXCEPT !.chlor[f] = value, !.age[f] = 0], <<<<"chlor">>>>)
ChlorSetting(f, value) == Frame([pool EXCEPT !.chlor[f] = value], <<<<"chlor">>>>)
OtherFrame == Frame(pool, <<>>)

(* The clock; publishing takes no time worth a step.                        *)
Tick ==
  /\ todo = <<>> /\ Event
  /\ pool' = [pool EXCEPT !.age = [f \in Readings |-> IF @[f] = StaleAge THEN StaleAge ELSE @[f] + 1],
                          !.ticked = TRUE]
  /\ UNCHANGED <<link, broker, stale, last, todo>>

-----------------------------------------------------------------------------
(* Temperatures. A device gets an entry of the table when it first sends    *)
(* anything, if there is room; entries are never given up.                  *)

Known(d) == d \in DOMAIN pool.seen
Unheard == [shape |-> "unknown", temp |-> [i \in Sensors |-> NotConnected],
            unclamped |-> [i \in Sensors |-> NotConnected]]
Seen(d) ==
  IF Known(d) \/ Cardinality(DOMAIN pool.seen) = MaxSeen THEN pool.seen
  ELSE [e \in DOMAIN pool.seen \cup {d} |-> IF e = d THEN Unheard ELSE pool.seen[e]]

(* CMD 0x31 keeps what it says of each sensor; CMD 0x16 says 0 of a sensor  *)
(* that is at zero and of one that is not connected, and the last CMD 0x31  *)
(* tells them apart. The first CMD 0x16 fixes how many sensors there are.   *)
Unclamped(d, bytes) ==
  Frame([pool EXCEPT !.seen = IF d \in DOMAIN Seen(d)
                              THEN [Seen(d) EXCEPT ![d].unclamped = [i \in Sensors |->
                                      IF i \in DOMAIN bytes THEN bytes[i] ELSE @[i]]]
                              ELSE Seen(d)], <<>>)

Sensed(entry, bytes, i) ==
  IF bytes[i] = "zero" /\ entry.unclamped[i] # "zero" THEN NotConnected ELSE bytes[i]

Reported(entry, bytes) ==
  LET shape == IF entry.shape # "unknown" THEN entry.shape
               ELSE IF Len(bytes) = 2 THEN "double" ELSE "single"
      heard == IF shape = "double" /\ Len(bytes) = 2 THEN Sensors ELSE {1}
  IN  [entry EXCEPT !.shape = shape,
         !.temp = [i \in Sensors |-> IF i \in heard THEN Sensed(entry, bytes, i) ELSE @[i]]]

Temperature(d, bytes) ==
  IF d \notin DOMAIN Seen(d) THEN OtherFrame
  ELSE LET entry == Reported(Seen(d)[d], bytes)
       IN  Frame([pool EXCEPT !.seen = [Seen(d) EXCEPT ![d] = entry]],
                 <<<<d, 1>>>> \o IF entry.shape = "double" /\ Len(bytes) = 2 THEN <<<<d, 2>>>> ELSE <<>>)

TempTopic(d, i) == <<d, i, pool.seen[d].shape>>
TempValue(d, i) == IF pool.seen[d].temp[i] = NotConnected THEN Null ELSE pool.seen[d].temp[i]

(* Variant: unknown is said once, ever.                                     *)
NullsForGood(call, value) == IF value = Null THEN last.nulls \cup {call} ELSE last.nulls

NullsAfter(call, value) == IF value = Null THEN last.nulls \cup {call} ELSE last.nulls \ {call}

(* mqtt_publish_temperature_reading(): every report is a sample, but        *)
(* "unknown" is said once in a row. An entity is made for a sensor that was *)
(* connected.                                                               *)
PublishTemperature ==
  /\ todo # <<>> /\ Len(Head(todo)) = 2
  /\ LET call == Head(todo)
         topic == TempTopic(call[1], call[2])
         value == TempValue(call[1], call[2])
         config == If(value # Null /\ call \notin last.sensors,
                      Message(<<"entity", topic>>, [name |-> call]))
     IN  IF link = "down"
         THEN /\ todo' = Tail(todo) /\ stale' = stale \cup {topic}
              /\ UNCHANGED <<link, broker, events, pool, last>>
         ELSE IF value = Null /\ call \in last.nulls THEN Pass
         ELSE Send(config, Message(topic, [value |-> value]),
                   [last EXCEPT !.sensors = IF value = Null THEN @ ELSE @ \cup {call},
                                !.nulls = NullsAfter(call, value)])

-----------------------------------------------------------------------------
(* Service mode, from the controller's status.                              *)

ServiceTopic == <<"service", "values">>
ServiceConfig == Message(<<"service", "entity">>, [name |-> "service"])

ControllerStatus(service) == Frame([pool EXCEPT !.service = service], <<<<"service">>>>)

PublishService ==
  /\ todo # <<>> /\ Head(todo) = <<"service">>
  /\ IF last.service = pool.service THEN Pass
     ELSE Send(If(last.service = "unknown", ServiceConfig),
               Message(ServiceTopic, [value |-> pool.service]),
               [last EXCEPT !.service = pool.service])

-----------------------------------------------------------------------------
ReadingPool ==
  [chlor |-> [f \in Readings \cup Settings |-> "none"], age |-> [f \in Readings |-> 0],
   seen |-> <<>>, service |-> "unknown", ticked |-> FALSE]
ReadingCaches ==
  [chlor |-> ReadingPool.chlor, chlorEntities |-> {}, sensors |-> {}, nulls |-> {}, service |-> "unknown"]

ReadingInit == RetainedInit /\ Fresh(ReadingPool, ReadingCaches)

(* The bytes of a temperature frame.                                        *)
Bytes(values) == {<<a>> : a \in values} \cup {<<a, b>> : a, b \in values}

HandleReading ==
  \/ \E level \in Levels : (\E f \in Readings : ChlorReading(f, level))
                          \/ (\E f \in Settings : ChlorSetting(f, level))
  \/ OtherFrame
  \/ \E d \in Devices :
       \/ \E bytes \in Bytes({NotConnected, "zero"}) : Unclamped(d, bytes)
       \/ \E bytes \in Bytes({"zero"} \cup Warm) : Temperature(d, bytes)
  \/ \E service \in {"on", "off"} : ControllerStatus(service)

ReadingNext ==
  \/ HandleReading \/ Tick
  \/ PublishChlor \/ Expire \/ PublishTemperature \/ PublishService
  \/ LinkChanges
  \/ Restarted(ReadingPool, ReadingCaches)

-----------------------------------------------------------------------------
(* Types; the table of devices is not overrun.                              *)
ReadingTypeOK ==
  /\ RetainedTypeOK
  /\ \A f \in Readings \cup Settings : pool.chlor[f] \in Levels \cup {"none"}
  /\ pool.age \in [Readings -> 0 .. StaleAge]
  /\ DOMAIN pool.seen \subseteq Devices /\ Cardinality(DOMAIN pool.seen) <= MaxSeen
  /\ todo \in Seq({<<"chlor">>, <<"expire">>, <<"service">>} \cup (DOMAIN pool.seen) \X Sensors)

(* "After three missed cycles the held value is cleared, so MQTT and the    *)
(* web UI report it as unknown rather than showing a stale number"          *)
(* (message_decoder.c:748): once any frame has come after it, a reading as  *)
(* old as that is no longer shown, each of the two on its own; and what is  *)
(* younger is shown as it was read, also after it had expired.              *)
StaleReadingCleared ==
  (todo = <<>> /\ ~pool.ticked /\ ChlorTopic \notin stale) =>
    \A f \in Readings \cap last.chlorEntities :
      broker[ChlorTopic][f] = IF pool.age[f] = StaleAge THEN Null ELSE pool.chlor[f]

(* "A sensor that is not connected publishes a null value ... This also     *)
(* clears a stale retained value left by an earlier boot"                   *)
(* (mqtt_publish.c:149): a sensor reported in this boot is shown with its   *)
(* last reading, or as unknown each time it is disconnected, by an entity   *)
(* if it was ever connected; and service mode as it is, unless dropped.     *)
ReadingShown ==
  todo = <<>> =>
    /\ \A d \in DOMAIN pool.seen, i \in Sensors :
         (pool.seen[d].shape # "unknown" /\ (i = 1 \/ pool.seen[d].shape = "double"))
         => /\ Kept(Message(TempTopic(d, i), [value |-> TempValue(d, i)]))
            /\ <<d, i>> \in last.sensors => Shown(<<"entity", TempTopic(d, i)>>)
    /\ pool.service # "unknown" =>
         Kept(Over(Message(ServiceTopic, [value |-> pool.service]), ServiceConfig))
=============================================================================
