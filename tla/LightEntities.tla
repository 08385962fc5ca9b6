----------------------------- MODULE LightEntities -----------------------------
(***************************************************************************)
(* Light zones on their way to Home Assistant: the zone registers and the  *)
(* zone broadcast of main/message_decoder.c, mqtt_publish_light() and the  *)
(* light and resync entities of main/mqtt_discovery.c. The effects a light *)
(* offers are the colours of the one light model all zones share, if the   *)
(* zone is capable of them.                                                *)
(***************************************************************************)
EXTENDS Entities

CONSTANTS
  NumZones,    (* MAX_LIGHT_ZONES                                           *)
  ZoneNames,   (* names of LIGHT_ZONE_NAME_TABLE                            *)
  Models       (* light models of the system, with a table of colours      *)

ASSUME ZonesAssumption == NumZones \in Nat

Zones == 1 .. NumZones
Light(z) == pool.light[z]
Unlisted == "unlisted"       \* a name code, or a model, outside the tables

(* What the publisher makes of a zone.                                      *)
ZoneTitle(z) == IF Light(z).name \in ZoneNames THEN Light(z).name ELSE "Light Zone"
EffectiveModel(z) ==
  IF Light(z).multicolor = "yes" /\ pool.model # "unknown" THEN pool.model ELSE "none"

(* publish_light_discovery(): the light with its effects, and the button    *)
(* that resynchronises a multicolour zone, or its removal.                  *)
LightConfig(z) ==
  LET effects == IF EffectiveModel(z) \in Models THEN EffectiveModel(z) ELSE "none"
  IN  Over(Message(<<z, "light">>, [name |-> ZoneTitle(z), effects |-> effects]),
           Message(<<z, "resync">>, IF effects = "none" THEN Removed ELSE [name |-> ZoneTitle(z)]))

LightValues(z) ==
  Message(<<z, "values">>, [state |-> Light(z).state, color |-> Light(z).color, active |-> Light(z).active,
                            name |-> ZoneTitle(z), multicolor |-> Light(z).multicolor])

(* What a publication depends on: the announcement, and the state. The      *)
(* model the zone is announced with is not part of its state.               *)
(* Variant: the effects are those the light was first announced with.       *)
LightLookName(z) == [name |-> Light(z).name, model |-> "any"]

LightLook(z) == [name |-> Light(z).name, model |-> EffectiveModel(z)]

PublishLight ==
  /\ todo # <<>>
  /\ LET z == Head(todo)
         announce == last.look[z] # LightLook(z)
         report == last.light[z] # Light(z)
     IN  IF Light(z).configured
         THEN Send(If(announce, LightConfig(z)), If(report, LightValues(z)),
                   [last EXCEPT !.look[z] = LightLook(z), !.light[z] = Light(z)])
         ELSE Pass

-----------------------------------------------------------------------------
(* The handlers. A zone is published when it is in use, whatever it says.   *)

Zone(z, new) ==
  Decode([pool EXCEPT !.light[z] = new], IF new.configured THEN <<z>> ELSE <<>>)

(* Register 0x90: used or not. CMD 0x06: used, and lit or not.              *)
LightEnabled(z, enabled) == Zone(z, [Light(z) EXCEPT !.configured = enabled])
LightStatus(z, active) == Zone(z, [Light(z) EXCEPT !.configured = TRUE, !.active = active])

(* Registers 0xC0, 0xD0, 0xA0, 0xB0 and 0xE0.                               *)
LightState(z, state) == Zone(z, [Light(z) EXCEPT !.state = state])
LightColor(z, color) == Zone(z, [Light(z) EXCEPT !.color = color])
LightMulticolor(z, capable) == Zone(z, [Light(z) EXCEPT !.multicolor = capable])
LightName(z, name) == Zone(z, [Light(z) EXCEPT !.name = name])
LightActive(z, active) == Zone(z, [Light(z) EXCEPT !.active = active])

(* Register 0xF0: the model; if it is new the publisher is called for the   *)
(* zones, and passes over those not in use.                                 *)
LightModel(model) ==
  Decode([pool EXCEPT !.model = model],
         IF pool.model = model THEN <<>> ELSE [z \in Zones |-> z])

-----------------------------------------------------------------------------
NoLight == [configured |-> FALSE, state |-> "off", color |-> "white", active |-> FALSE,
            multicolor |-> "unknown", name |-> "none"]
LightPool == [light |-> [z \in Zones |-> NoLight], model |-> "unknown"]
LightCaches == [look |-> [z \in Zones |-> Never], light |-> [z \in Zones |-> NoLight]]

LightInit == RetainedInit /\ Fresh(LightPool, LightCaches)

HandleLight ==
  \/ \E z \in Zones, b \in BOOLEAN :
       LightEnabled(z, b) \/ LightStatus(z, b) \/ LightActive(z, b)
  \/ \E z \in Zones :
       \/ LightState(z, "on") \/ LightColor(z, "blue")
       \/ \E capable \in {"yes", "no"} : LightMulticolor(z, capable)
       \/ \E name \in ZoneNames \cup {Unlisted} : LightName(z, name)
  \/ \E model \in Models \cup {Unlisted, "none"} : LightModel(model)

LightNext ==
  \/ HandleLight \/ PublishLight \/ LinkChanges
  \/ Restarted(LightPool, LightCaches)

-----------------------------------------------------------------------------
Lights == [configured : BOOLEAN, state : {"off", "on"}, color : {"white", "blue"}, active : BOOLEAN,
           multicolor : {"unknown", "yes", "no"}, name : ZoneNames \cup {"none", Unlisted}]

(* Types; calls are for zones.                                              *)
LightTypeOK ==
  /\ RetainedTypeOK
  /\ pool \in [light : [Zones -> Lights], model : Models \cup {Unlisted, "none", "unknown"}]
  /\ DOMAIN last.look = Zones /\ last.light \in [Zones -> Lights]
  /\ todo \in Seq(Zones)

(* "The type selects the color effect list on the HA light entities, so     *)
(* re-publish configured zones when it changes" (message_decoder.c:1382)    *)
(* and "Clear any previously published resync button if the zone is no      *)
(* longer multicolor" (mqtt_discovery.c:1338): in whatever order model,     *)
(* capability, name and use of a zone become known, over restarts and lost  *)
(* connections, the broker has its light with the effects it now has, the   *)
(* button only with effects, and its state, except for dropped messages.    *)
LightShown ==
  \A z \in Zones : (todo = <<>> /\ Light(z).configured) => Kept(LightConfig(z)) /\ Kept(LightValues(z))
=============================================================================
