----------------------------- MODULE EntityFamilies ----------------------------
(***************************************************************************)
(* Light zones, valves, favourites with the mode, readings, and channels.  *)
(* They share the publisher's scheme and the broker, and nothing else: each*)
(* has its own part of the pool state, its own caches, and its own topics. *)
(* A behaviour is about one of them, the one in focus.                     *)
(***************************************************************************)
EXTENDS LightEntities, ValveEntities, FavouriteEntities, ReadingEntities, ChannelEntities

VARIABLE focus

familyVars == <<channelVars, job, overtaken, focus>>

(* Only favourites and channels are published by two tasks.                 *)
NoSnapshot == UNCHANGED <<job, overtaken>>
NoChannels == UNCHANGED <<kept, inHand, fresh, raced>>

FamilyInit ==
  \/ focus = "channels" /\ ChannelInit /\ job = "idle" /\ overtaken = FALSE
  \/ /\ kept = {} /\ inHand = {} /\ fresh = {} /\ raced = {}
     /\ \/ focus = "favourites" /\ FavouriteInit
        \/ /\ job = "idle" /\ overtaken = FALSE
           /\ \/ focus = "lights" /\ LightInit
              \/ focus = "valves" /\ ValveInit
              \/ focus = "readings" /\ ReadingInit

FamilyNext ==
  /\ \/ focus = "channels" /\ ChannelNext /\ NoSnapshot
     \/ focus = "favourites" /\ FavouriteNext /\ NoChannels
     \/ focus = "lights" /\ LightNext /\ NoSnapshot /\ NoChannels
     \/ focus = "valves" /\ ValveNext /\ NoSnapshot /\ NoChannels
     \/ focus = "readings" /\ ReadingNext /\ NoSnapshot /\ NoChannels
  /\ UNCHANGED focus

FamilySpec == FamilyInit /\ [][FamilyNext]_familyVars

-----------------------------------------------------------------------------
Of(family, property) == focus = family => property

(* mqtt_publish_light(), mqtt_publish_valve(): a light zone in use is shown *)
(* with its present effects, a valve in use with its label and state.       *)
LightsAndValvesShown ==
  /\ Of("lights", LightTypeOK /\ LightShown)
  /\ Of("valves", ValveTypeOK /\ ValveShown)

(* mqtt_publish_favourite() and mqtt_publish_discovery(), in two tasks: the *)
(* options shown are those of the favourites as they are; and, in           *)
(* handle_favourite_command(), what is offered can be chosen.               *)
FavouritesShown == Of("favourites", FavouriteTypeOK /\ OptionsShown /\ OptionSelects)

(* expire_chlor_readings(), mqtt_publish_temperature_reading(): a reading is*)
(* shown as it was last, and as unknown once it is old or has no sensor.    *)
ReadingsShown ==
  Of("readings", ReadingTypeOK /\ StaleReadingCleared /\ ReadingShown)

(* mqtt_publish_channel(), in two tasks: after a status frame a channel has *)
(* the entities it should have, no others, and its state and power; a solar *)
(* channel shows what was broadcast of it (apply_solar_status()), the mode  *)
(* of the pump is among the options of its select, and without telemetry    *)
(* there is no pump entity, while a stopped pump is shown as stopped        *)
(* (handle_channel_status(), mqtt_publish_pump()).                          *)
ChannelsShown ==
  Of("channels", /\ ChannelTypeOK /\ ChannelShown /\ SolarShown
                 /\ StateIsAnOption /\ PumpFollowsFilter)

(* handle_channel_category(): no entity under the name Unused.              *)
NoUnusedChannel == Of("channels", UnusedNotShown)
=============================================================================
