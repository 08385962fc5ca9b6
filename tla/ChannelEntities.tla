---------------------------- MODULE ChannelEntities ----------------------------
(***************************************************************************)
(* Channels and the filter pump on their way to Home Assistant: the        *)
(* channel handlers of main/message_decoder.c, mqtt_publish_channel() and  *)
(* mqtt_publish_pump() of main/mqtt_publish.c with the discovery messages  *)
(* they send, the channel power of main/channel_power.c that the MQTT task *)
(* sets, and the pump type learnt in main/filter_pump_type.c.              *)
(*                                                                         *)
(* Two tasks publish a channel: the bridge task for what it decodes, from  *)
(* a snapshot, and the MQTT task when the user sets a channel's power. The *)
(* MQTT task holds the state mutex meanwhile, so nothing is decoded, but   *)
(* the bridge task may still be publishing, and the caches of what was     *)
(* published belong to both. A publication therefore takes three steps:    *)
(* to look at state and caches, to send, and to record. The calls a task   *)
(* has to make are in todo[task], a set: the channels among them are       *)
(* published in order, the pump after them.                                *)
(***************************************************************************)
EXTENDS Entities, FiniteSets

CONSTANTS
  NumChannels,  (* channels of the controller                               *)
  Reports,      (* channel -> what a status frame may say of it             *)
  Names,        (* labels of channels and light zones; "" is none           *)
  Watts         (* configured power; 0 is none                              *)

VARIABLES
  kept,        (* RAM and flash: configured watts, pump type, telemetry seen*)
  inHand,      (* task -> the publication it is in, or Idle                 *)
  fresh,       (* history: channels, and the pump, as they were left by the *)
               (* last status frame, or since changed and published         *)
  raced        (* history: channels both tasks had in hand at once          *)

channelVars == <<entityVars, kept, inHand, fresh, raced>>

Channels == 1 .. NumChannels
Pump == 0
Tasks == {"bridge", "mqtt"}
Idle == [phase |-> "idle"]
States == {"off", "auto", "on", "low"}
HeaterTypes == {"heater", "heater2"}
Unnamed == ""
Absent == [kind |-> "absent"]     \* past the end of the frame
Unused == [kind |-> "unused"]

(* At most one channel is the filter's: filter_pump_type_learn() and        *)
(* s_last_filter_pump_type know one filter pump.                            *)
ASSUME ChannelsAssumption ==
  /\ NumChannels \in Nat /\ Watts \subseteq Nat
  /\ \A c \in Channels : \A r \in Reports[c] \ {Absent, Unused} :
       /\ r.state \in States /\ r.active \in BOOLEAN
       /\ r.type = "filter" =>
            \A d \in Channels : \A q \in Reports[d] \ {Absent, Unused} : q.type = "filter" => d = c

-----------------------------------------------------------------------------
(* What is to be shown of a channel.                                        *)

Ch(c) == pool.ch[c]

(* The light zone a channel drives goes by its rank among the light         *)
(* channels in use. Zones without a name, heaters and channels without a    *)
(* name go by what they are.                                                *)
InUseAs(ch, type) == ch.configured /\ ch.type = type
ZoneRank(c) == Cardinality({i \in 1 .. c : InUseAs(Ch(i), "light")})

DisplayName(c) ==
  LET own == IF Ch(c).type = "light"
             THEN IF ZoneRank(c) \in Channels THEN pool.zone[ZoneRank(c)] ELSE Unnamed
             ELSE IF Ch(c).type \in HeaterTypes THEN Unnamed ELSE Ch(c).name
  IN  IF own = Unnamed THEN Ch(c).type ELSE own

(* channel_power_get_effective(): an estimate while the channel is active.  *)
PowerKnown(c) == kept.watts[c] # 0
Power(c) == IF PowerKnown(c) /\ Ch(c).active THEN kept.watts[c] ELSE 0

(* What discovery depends on, and what the state does.                      *)
ChannelLook(c) == [name |-> DisplayName(c), known |-> PowerKnown(c), type |-> Ch(c).type]
ChannelSeen(c) ==
  [values |-> [state |-> Ch(c).state, active |-> Ch(c).active,
               watts |-> kept.watts[c], power |-> Power(c), known |-> PowerKnown(c)],
   type |-> Ch(c).type, name |-> Ch(c).name]

(* publish_channel_discovery(): entities made and entities retracted. The   *)
(* state entities of heaters and light zones are published elsewhere.       *)
PumpSelect(type) == type \in {"filter", "cleaning"}
Options(type, pumpType) ==
  IF type = "filter" /\ pumpType = "multi" THEN {"off", "auto", "low"} ELSE {"off", "auto", "on"}

StateEntities(c, look) ==
  If(look.type \notin HeaterTypes \cup {"light"}, Message(<<c, "state">>, [name |-> look.name]))
PowerNumber(c, look) == Message(<<c, "number">>, [name |-> look.name])
ModeSelect(c, look, pumpType) ==
  Message(<<c, "select">>, IF PumpSelect(look.type)
                           THEN [name |-> look.name, options |-> Options(look.type, pumpType)]
                           ELSE Removed)
PowerSensors(c, look) ==
  Message(<<c, "power">>, IF look.known THEN [name |-> look.name] ELSE Removed)

ChannelConfig(c, look, pumpType) ==
  Over(Over(StateEntities(c, look), PowerNumber(c, look)),
       Over(ModeSelect(c, look, pumpType), PowerSensors(c, look)))
ChannelValues(c, seen) == Message(<<c, "values">>, seen.values)

(* The caches tell whether discovery and the state are due again. The type  *)
(* of the pump is remembered once for all channels.                         *)
(* Variant: a wattage gained or lost is no reason to announce anew.         *)
ConfigNewsUnpowered(c) ==
  \/ IF last.look[c] = Never THEN TRUE
     ELSE last.look[c].name # ChannelLook(c).name \/ last.look[c].type # ChannelLook(c).type
  \/ Ch(c).type = "filter" /\ last.pumpType # kept.pumpType
ConfigNews(c) ==
  \/ last.look[c] # ChannelLook(c)
  \/ Ch(c).type = "filter" /\ last.pumpType # kept.pumpType
ValuesNews(c) == last.seen[c] # ChannelSeen(c)

-----------------------------------------------------------------------------
(* The decoder's handlers. A frame is decoded when the publishers of the    *)
(* one before are done and the MQTT task does not hold the state mutex.     *)

ChannelFrame(new, known, calls) ==
  /\ todo["bridge"] = {} /\ inHand["mqtt"] = Idle
  /\ pool' = new
  /\ todo' = [todo EXCEPT !["bridge"] = calls]
  /\ fresh' = known
  /\ Event
  /\ UNCHANGED <<link, broker, stale, last, raced>>

(* apply_solar_status(): the mode and the output of a solar channel are the *)
(* ones last heard from the sources that know them.                         *)
ApplySolar(ch, solar) ==
  IF ch.type # "solar" THEN ch
  ELSE [ch EXCEPT !.state = IF solar.mode = "unknown" THEN @ ELSE solar.mode,
                  !.active = IF solar.active = "unknown" THEN @ ELSE solar.active = "yes"]

(* CMD 0x0B: what it says of each channel; channels past the end of the     *)
(* frame are left as they are. An inactive filter channel stops the pump of *)
(* an install that reports telemetry.                                       *)
ReportedChannel(c, report) ==
  IF report = Absent THEN Ch(c)
  ELSE IF report = Unused THEN [Ch(c) EXCEPT !.configured = FALSE]
  ELSE ApplySolar([Ch(c) EXCEPT !.configured = TRUE, !.type = report.type,
                                !.state = report.state, !.active = report.active],
                  pool.solar)

Stopped == [speed |-> "zero", power |-> "zero"]

Used(frame) == {c \in Channels : frame[c] \notin {Absent, Unused}}
Filters(frame) == {c \in Used(frame) : frame[c].type = "filter"}

StopsPump(frame) ==
  /\ kept.pumpSeen
  /\ \E c \in Filters(frame) : ~frame[c].active
  /\ pool.pump # Stopped

(* filter_pump_type_learn(): On is said of single-speed pumps only, a named *)
(* speed of multi-speed ones; the rest says nothing. What is learnt is      *)
(* stored after the state mutex is released, before anything is published.  *)
Learnt(frame) ==
  IF \E c \in Filters(frame) : frame[c].state = "on" THEN "single"
  ELSE IF \E c \in Filters(frame) : frame[c].state = "low" THEN "multi"
  ELSE kept.pumpType

ChannelStatus(frame) ==
  /\ ChannelFrame([pool EXCEPT !.ch = [c \in Channels |-> ReportedChannel(c, frame[c])],
                               !.pump = IF StopsPump(frame) THEN Stopped ELSE @],
                  Used(frame) \cup {Pump},
                  IF StopsPump(frame) THEN Used(frame) \cup {Pump} ELSE Used(frame))
  /\ inHand' = [inHand EXCEPT !["bridge"] =
                  IF Learnt(frame) = kept.pumpType THEN Idle
                  ELSE [phase |-> "learn", pumpType |-> Learnt(frame)]]
  /\ UNCHANGED kept

LearnPumpType ==
  /\ inHand["bridge"].phase = "learn"
  /\ kept' = [kept EXCEPT !.pumpType = inHand["bridge"].pumpType]
  /\ inHand' = [inHand EXCEPT !["bridge"] = Idle]
  /\ UNCHANGED <<entityVars, fresh, raced>>

(* Register handlers: the type, the name and the category are stored and    *)
(* wait for the next status frame; a state is published at once, but does   *)
(* not teach the pump type. A channel that becomes a light zone in use      *)
(* displaces the zones behind it, which wait for the status frame too.      *)
Displaced(c, new) ==
  IF InUseAs(new, "light") = InUseAs(Ch(c), "light") THEN {} ELSE {d \in Channels : d > c}

ChannelRegister(c, new, unpublished, calls) ==
  /\ ChannelFrame([pool EXCEPT !.ch[c] = new], fresh \ (unpublished \cup Displaced(c, new)), calls)
  /\ UNCHANGED <<kept, inHand>>

ChannelType(c, type) ==
  ChannelRegister(c, ApplySolar([Ch(c) EXCEPT !.type = type, !.configured = TRUE], pool.solar), {c}, {})
ChannelName(c, name) == ChannelRegister(c, [Ch(c) EXCEPT !.name = name], {c}, {})
ChannelCategory(c) == ChannelRegister(c, [Ch(c) EXCEPT !.configured = TRUE], {c}, {})

HearsState(c, state) ==
  Ch(c).type # "unused" /\ (~Ch(c).configured \/ Ch(c).state # state)

ChannelState(c, state) ==
  LET new == ApplySolar([Ch(c) EXCEPT !.state = state], pool.solar)
      changed == ~Ch(c).configured \/ new.state # Ch(c).state
  IN  IF HearsState(c, state)
      THEN ChannelRegister(c, [new EXCEPT !.configured = TRUE],
                           IF Ch(c).type = "filter" THEN {c} ELSE {}, IF changed THEN {c} ELSE {})
      ELSE ChannelRegister(c, Ch(c), {}, {})

ZoneName(z, name) ==
  /\ ChannelFrame([pool EXCEPT !.zone[z] = name], {c \in fresh : c # Pump => Ch(c).type # "light"}, {})
  /\ UNCHANGED <<kept, inHand>>

(* Solar broadcasts: the mode, and the output in the controller's status.   *)
Solar(solar) ==
  LET new == [c \in Channels |-> IF Ch(c).configured THEN ApplySolar(Ch(c), solar) ELSE Ch(c)]
  IN  /\ ChannelFrame([pool EXCEPT !.solar = solar, !.ch = new], fresh,
                      {c \in Channels : new[c] # Ch(c)})
      /\ UNCHANGED <<kept, inHand>>

SolarStatus(mode) == Solar([pool.solar EXCEPT !.mode = mode])
SolarOutput(active) == Solar([pool.solar EXCEPT !.active = active])

(* Pump telemetry, with or without power, and its expiry.                   *)
PumpSpeed(speed, power) ==
  /\ ChannelFrame([pool EXCEPT !.pump = [speed |-> speed, power |-> IF power = "none" THEN @.power ELSE power]],
                  fresh \ {Pump}, {Pump})
  /\ kept' = [kept EXCEPT !.pumpSeen = TRUE]
  /\ UNCHANGED inHand

PumpExpired ==
  /\ kept.pumpSeen /\ "running" \in {pool.pump.speed, pool.pump.power}
  /\ ChannelFrame([pool EXCEPT !.pump =
                     [f \in {"speed", "power"} |-> IF @[f] = "unknown" THEN "unknown" ELSE "zero"]],
                  fresh, {Pump})
  /\ UNCHANGED <<kept, inHand>>

-----------------------------------------------------------------------------
(* mqtt_publish_channel(), by either task.                                  *)

Due(t, c) ==
  /\ inHand[t] = Idle
  /\ c \in todo[t] \ {Pump} /\ \A d \in todo[t] : d = Pump \/ c <= d
InHand(t, c) == inHand[t].phase \in {"send", "record"} /\ inHand[t].channel = c
Done(t, c) == todo' = [todo EXCEPT ![t] = @ \ {c}]
Race(t, c) == raced' = IF \E u \in Tasks \ {t} : InHand(u, c) THEN raced \cup {c} ELSE raced

SkipChannel(t, c) ==
  /\ Due(t, c) /\ (~Ch(c).configured \/ ~(ConfigNews(c) \/ ValuesNews(c)))
  /\ Done(t, c) /\ Race(t, c)
  /\ UNCHANGED <<retainedVars, pool, last, kept, inHand, fresh>>

LookAt(t, c) ==
  /\ Due(t, c) /\ Ch(c).configured /\ (ConfigNews(c) \/ ValuesNews(c))
  /\ inHand' = [inHand EXCEPT ![t] =
                  [phase |-> "send", channel |-> c, look |-> ChannelLook(c), seen |-> ChannelSeen(c),
                   pumpType |-> kept.pumpType, announce |-> ConfigNews(c), report |-> ValuesNews(c)]]
  /\ Race(t, c)
  /\ UNCHANGED <<entityVars, kept, fresh>>

SendOut(t) ==
  /\ inHand[t].phase = "send"
  /\ LET p == inHand[t]
     IN  Publish(If(p.announce, ChannelConfig(p.channel, p.look, p.pumpType)),
                 If(p.report, ChannelValues(p.channel, p.seen)))
  /\ inHand' = [inHand EXCEPT ![t].phase = "record"]
  /\ UNCHANGED <<pool, last, todo, kept, fresh, raced>>

(* Sent or dropped, it counts as published. The type of the pump was        *)
(* announced only with the filter channel.                                  *)
Record(t) ==
  /\ inHand[t].phase = "record"
  /\ LET p == inHand[t]
     IN  /\ last' = [last EXCEPT
              !.look[p.channel] = IF p.announce THEN p.look ELSE @,
              !.seen[p.channel] = IF p.report THEN p.seen ELSE @,
              !.pumpType = IF p.announce /\ p.look.type = "filter" THEN p.pumpType ELSE @]
         /\ Done(t, p.channel)
  /\ inHand' = [inHand EXCEPT ![t] = Idle]
  /\ UNCHANGED <<retainedVars, pool, kept, fresh, raced>>

(* mqtt_publish_pump(): nothing without a connection; otherwise always, its *)
(* discovery when the pump has a power reading or has none for the first    *)
(* time.                                                                    *)
PumpTopic == <<Pump, "pump">>
PumpValues == <<Pump, "values">>
PumpConfig(look) ==
  Over(Message(PumpTopic, [name |-> "pump"]),
       Message(<<Pump, "power">>, IF look = "power" THEN [name |-> "pump"] ELSE Removed))
PumpLook == IF pool.pump.power = "unknown" THEN "speed" ELSE "power"

PublishPump ==
  /\ todo["bridge"] = {Pump} /\ Done("bridge", Pump)
  /\ IF link = "down" THEN /\ stale' = stale \cup {PumpValues} \cup DOMAIN PumpConfig(PumpLook)
                           /\ UNCHANGED <<link, broker, events, last>>
     ELSE /\ Publish(If(last.pump # PumpLook, PumpConfig(PumpLook)), Message(PumpValues, pool.pump))
          /\ last' = [last EXCEPT !.pump = PumpLook]
  /\ UNCHANGED <<pool, kept, inHand, fresh, raced>>

(* handle_channel_power_command(), in the MQTT task: flash, RAM, and then,  *)
(* under the state mutex if it is free in time, the channel as it stands.   *)
PowerCommand(c, watts) ==
  /\ link = "up" /\ todo["mqtt"] = {}
  /\ Event
  /\ kept' = [kept EXCEPT !.watts[c] = watts]
  /\ todo' = [todo EXCEPT !["mqtt"] = {c}]
  /\ UNCHANGED <<link, broker, stale, pool, last, inHand, fresh, raced>>

MutexBusy(c) ==
  /\ Due("mqtt", c) /\ Done("mqtt", c)
  /\ fresh' = fresh \ {c}
  /\ UNCHANGED <<retainedVars, pool, last, kept, inHand, raced>>

-----------------------------------------------------------------------------
ChannelPool ==
  [ch |-> [c \in Channels |-> [configured |-> FALSE, type |-> "unused", state |-> "off",
                               active |-> FALSE, name |-> Unnamed]],
   zone |-> [z \in Channels |-> Unnamed],
   solar |-> [mode |-> "unknown", active |-> "unknown"],
   pump |-> [speed |-> "unknown", power |-> "unknown"]]
ChannelCaches ==
  [look |-> [c \in Channels |-> Never], seen |-> [c \in Channels |-> Never],
   pumpType |-> "unknown", pump |-> "none"]
NoCalls == [t \in Tasks |-> {}]
NobodyBusy == [t \in Tasks |-> Idle]

ChannelInit ==
  /\ RetainedInit
  /\ pool = ChannelPool /\ last = ChannelCaches
  /\ kept = [watts |-> [c \in Channels |-> 0], pumpType |-> "unknown", pumpSeen |-> FALSE]
  /\ todo = NoCalls /\ inHand = NobodyBusy
  /\ fresh = {} /\ raced = {}

(* channel_power_init(), filter_pump_type_init() and the telemetry flag     *)
(* come back from flash; the rest of the state does not.                    *)
ChannelRestart ==
  /\ RetainedRestart
  /\ pool' = ChannelPool /\ last' = ChannelCaches
  /\ todo' = NoCalls /\ inHand' = NobodyBusy
  /\ fresh' = {} /\ raced' = {}
  /\ UNCHANGED kept

Frames == {frame \in [Channels -> UNION {Reports[c] : c \in Channels}] :
             \A c \in Channels : frame[c] \in Reports[c]}

HandleChannels ==
  \/ \E frame \in Frames : ChannelStatus(frame)
  \/ \E c \in Channels :
       \/ \E r \in Reports[c] \ {Absent, Unused} : ChannelType(c, r.type)
       \/ \E name \in Names : ChannelName(c, name) \/ ZoneName(c, name)
       \/ ChannelCategory(c)
       \/ ChannelState(c, "on")
  \/ SolarStatus("auto") \/ SolarOutput("yes")
  \/ \E power \in {"none", "running"} : PumpSpeed("running", power)
  \/ PumpExpired

PublishChannels ==
  \/ \E t \in Tasks :
       \/ \E c \in Channels : SkipChannel(t, c) \/ LookAt(t, c)
       \/ SendOut(t) \/ Record(t)
  \/ LearnPumpType
  \/ PublishPump

ChannelNext ==
  \/ HandleChannels \/ PublishChannels
  \/ \E c \in Channels : MutexBusy(c) \/ (\E watts \in Watts : PowerCommand(c, watts))
  \/ LinkChanges /\ UNCHANGED <<kept, inHand, fresh, raced>>
  \/ ChannelRestart

-----------------------------------------------------------------------------
ChannelTypes == {"unused"} \cup {r.type : r \in (UNION {Reports[c] : c \in Channels}) \ {Absent, Unused}}
PumpTypes == {"unknown", "single", "multi"}
ChannelRecords == [configured : BOOLEAN, type : ChannelTypes, state : States,
                   active : BOOLEAN, name : Names \cup {Unnamed}]

(* Types; a publication in hand belongs to the next call.                   *)
ChannelTypeOK ==
  /\ RetainedTypeOK
  /\ pool.ch \in [Channels -> ChannelRecords]
  /\ kept.watts \in [Channels -> Watts \cup {0}]
  /\ kept.pumpType \in PumpTypes
  /\ todo \in [Tasks -> SUBSET (Channels \cup {Pump})]
  /\ \A t \in Tasks :
       \/ inHand[t] = Idle
       \/ t = "bridge" /\ inHand[t].phase = "learn" /\ todo[t] \cap Channels # {}
       \/ inHand[t].phase \in {"send", "record"} /\ inHand[t].channel \in todo[t] \cap Channels
  /\ raced \subseteq Channels

(* A status frame has been published in full, for the channels it used.     *)
Settled(c) ==
  /\ \A t \in Tasks : todo[t] = {}
  /\ c \in fresh \ raced

(* "Re-publish discovery if the display name changed ... Also re-publish    *)
(* when the channel gains or loses a configured wattage" and "the channel   *)
(* gaining or losing the select altogether when it is re-typed"             *)
(* (mqtt_publish.c:464): whatever the registers, the user, restarts and     *)
(* broken connections did before, after a status frame the broker has the   *)
(* entities of the channel as it is now, without the select and the power   *)
(* sensors it no longer has, and its current state and power. Excepted are  *)
(* dropped messages, and channels both tasks had in hand at once.           *)
ChannelShown ==
  \A c \in Channels :
    Settled(c) => /\ Kept(ChannelConfig(c, ChannelLook(c), kept.pumpType))
                  /\ Kept(ChannelValues(c, ChannelSeen(c)))

(* "An option always matches the state HA reads back"                       *)
(* (mqtt_discovery.c:1051): the state shown for a filter channel is among   *)
(* the options shown for it, also in the frame that first names a speed.    *)
StateIsAnOption ==
  \A c \in Channels :
    (Settled(c) /\ Ch(c).type = "filter" /\ {<<c, "select">>, <<c, "values">>} \cap stale = {})
    => broker[<<c, "values">>].state \in broker[<<c, "select">>].options

(* "Stale ordinary-channel data cannot overwrite either independently       *)
(* observed value" (message_decoder.c:3261): after a status frame, what is  *)
(* shown of a solar channel is the mode and the output last broadcast,      *)
(* whatever the frame, the state register or the type register said.        *)
SolarShown ==
  \A c \in Channels :
    (Settled(c) /\ Ch(c).type = "solar" /\ <<c, "values">> \notin stale) =>
      LET values == broker[<<c, "values">>]
      IN  /\ pool.solar.mode \in {"unknown", values.state}
          /\ pool.solar.active = "unknown" \/ values.active = (pool.solar.active = "yes")

(* A pump that never reported must not become "HA pump entities that can    *)
(* only ever read 0" (message_decoder.c:4379), in this boot or a later one; *)
(* and one that did is shown stopped once its filter channel is inactive,   *)
(* although it no longer reports then.                                      *)
PumpFollowsFilter ==
  /\ Shown(PumpTopic) => kept.pumpSeen
  /\ \A c \in Channels :
       (Settled(c) /\ Pump \in fresh /\ Ch(c).type = "filter" /\ ~Ch(c).active /\ kept.pumpSeen)
       => /\ pool.pump = Stopped
          /\ Kept(PumpConfig(PumpLook)) /\ Kept(Message(PumpValues, pool.pump))

(* "A channel is now only marked in use once its type is known"             *)
(* (CHANGELOG.md:281, "phantom Unused entities"): no channel is announced   *)
(* under the type name Unused.                                              *)
UnusedNotShown ==
  \A c \in Channels :
    Shown(<<c, "state">>) => broker[<<c, "state">>].name # "unused"
=============================================================================
