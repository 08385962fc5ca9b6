--------------------------- MODULE FavouriteEntities ---------------------------
(***************************************************************************)
(* The favourite select and the mode: the favourite, mode and              *)
(* separate-modes handlers of main/message_decoder.c,                      *)
(* mqtt_publish_favourite(), mqtt_publish_mode() and                       *)
(* mqtt_publish_mode_config(), the discovery that the MQTT task repeats on *)
(* every connect, from a snapshot of its own, and the choice of a favourite*)
(* by name in main/mqtt_commands.c.                                        *)
(***************************************************************************)
EXTENDS Entities

CONSTANTS
  UserFavourites,   (* slots 2 to 7, by the name they have without a label  *)
  FavouriteLabels   (* labels the Touchscreen may report                    *)

VARIABLES
  job,         (* the MQTT task after a connect: "idle", "connected", or    *)
               (* "announcing" its snapshot                                 *)
  overtaken    (* history: since the start nothing was announced, or the    *)
               (* last announcement was of a snapshot that offers other     *)
               (* options than the state did by then                        *)

favouriteVars == <<entityVars, job, overtaken>>

BuiltIn == {"Pool", "Spa"}
FavouriteSlots == BuiltIn \cup UserFavourites
Momentary == {"All Off", "All Auto"}
NoFavourite == "No Favourite"
Standing == BuiltIn \cup Momentary \cup {NoFavourite}

(* Names: of a slot, of the options to choose from, and of a value of the   *)
(* active favourite. The built-ins are hidden without separate modes.       *)
Title(fav, i) == IF fav[i].label \in FavouriteLabels THEN fav[i].label ELSE i
Offered(state) ==
  (IF state.separate = "no" THEN {} ELSE BuiltIn)
  \cup {i \in UserFavourites : state.fav[i].enabled = "yes"}
FavouriteOptions(state) ==
  {Title(state.fav, i) : i \in Offered(state)} \cup Momentary \cup {NoFavourite}
OptionName(value) == IF value \in FavouriteSlots THEN Title(pool.fav, value) ELSE value

SelectTopic == <<"favourite", "select">>
StateTopic == <<"favourite", "values">>
ModeTopic == <<"mode", "values">>
FavouriteConfig(state) == Message(SelectTopic, [options |-> FavouriteOptions(state)])

(* mqtt_publish_favourite(): announced again when a label or an enable flag *)
(* changed; the state is sent again when the value changed.                 *)
(* Variant: only the labels count.                                          *)
FavouriteNewsLabels ==
  last.fav = Never \/ (\E i \in FavouriteSlots : last.fav[i].label # pool.fav[i].label)

FavouriteNews == last.fav # pool.fav

PublishFavourite ==
  /\ todo # <<>> /\ Head(todo) = "favourite"
  /\ LET report == pool.active \notin {"unknown", last.active}
     IN  Send(If(FavouriteNews, FavouriteConfig(pool)),
              If(report, Message(StateTopic, [value |-> OptionName(pool.active)])),
              [last EXCEPT !.fav = pool.fav, !.active = IF report THEN pool.active ELSE @])
  /\ overtaken' = (overtaken /\ ~FavouriteNews)
  /\ UNCHANGED job

PublishModeConfig ==
  /\ todo # <<>> /\ Head(todo) = "modes"
  /\ Send(FavouriteConfig(pool), NoMessages, last)
  /\ overtaken' = FALSE
  /\ UNCHANGED job

PublishMode ==
  /\ todo # <<>> /\ Head(todo) = "mode"
  /\ IF last.mode = pool.mode THEN Pass
     ELSE Send(NoMessages, Message(ModeTopic, [value |-> pool.mode]), [last EXCEPT !.mode = pool.mode])
  /\ UNCHANGED <<job, overtaken>>

(* mqtt_publish_discovery() in the MQTT task: a snapshot under the state    *)
(* mutex, and the select announced from it, without a look at the caches.   *)
(* The snapshot is zeroed first, and stays so if the mutex is not taken     *)
(* within 500 ms: it offers the built-ins and none of the user favourites.  *)
(* The publishers compare with what they published themselves, so nothing   *)
(* corrects such an announcement before the next change or connect.         *)
Zeroed ==
  [fav |-> [i \in FavouriteSlots |-> [enabled |-> "unknown", label |-> "none"]], separate |-> "unknown"]

Connected ==
  /\ job = "idle" /\ LinkUp /\ job' = "connected"
  /\ UNCHANGED <<pool, last, todo, overtaken>>

SnapshotIs(snapshot) ==
  /\ job = "connected" /\ job' = "announcing"
  /\ last' = [last EXCEPT !.snapshot = snapshot]
  /\ UNCHANGED <<retainedVars, pool, todo, overtaken>>

TakeSnapshot == SnapshotIs([fav |-> pool.fav, separate |-> pool.separate])
SnapshotTimeout == SnapshotIs(Zeroed)

AnnounceSnapshot ==
  /\ job = "announcing" /\ job' = "idle"
  /\ Publish(FavouriteConfig(last.snapshot), NoMessages)
  /\ overtaken' = (FavouriteOptions(last.snapshot) # FavouriteOptions(pool))
  /\ UNCHANGED <<pool, last, todo>>

Disconnected == LinkDown /\ UNCHANGED <<pool, last, todo, job, overtaken>>

-----------------------------------------------------------------------------
(* The handlers.                                                            *)

Handler(new, calls) == Decode(new, calls) /\ UNCHANGED <<job, overtaken>>

FavouriteLabel(i, label) == Handler([pool EXCEPT !.fav[i].label = label], <<"favourite">>)
FavouriteEnable(i, enabled) == Handler([pool EXCEPT !.fav[i].enabled = enabled], <<"favourite">>)
(* Register 0x20, and CMD 0x2A seen on the bus.                             *)
ActiveFavourite(value) == Handler([pool EXCEPT !.active = value], <<"favourite">>)

SeparateModes(value) ==
  Handler([pool EXCEPT !.separate = value], IF pool.separate = value THEN <<>> ELSE <<"modes">>)

(* CMD 0x14 is believed whatever it says, register 0x65 only with a mode.   *)
ModeFrame(mode) == Handler([pool EXCEPT !.mode = mode], <<"mode">>)
ModeRegister(mode) == IF mode = "other" THEN Handler(pool, <<>>) ELSE ModeFrame(mode)

(* handle_favourite_command(): the value an option stands for, or no frame. *)
Chosen(option) ==
  LET named == {i \in UserFavourites : pool.fav[i].enabled = "yes" /\ Title(pool.fav, i) = option}
  IN  IF option \in BuiltIn \cup Momentary THEN option
      ELSE IF option = NoFavourite \/ named = {} THEN "nothing"
      ELSE CHOOSE i \in named : TRUE

-----------------------------------------------------------------------------
FavouritePool ==
  [fav |-> Zeroed.fav, active |-> "unknown", separate |-> Zeroed.separate, mode |-> "unknown"]
FavouriteCaches == [fav |-> Never, active |-> "unknown", mode |-> "unknown", snapshot |-> Never]

FavouriteInit ==
  /\ RetainedInit /\ Fresh(FavouritePool, FavouriteCaches)
  /\ job = "idle" /\ overtaken = TRUE

HandleFavourite ==
  \/ \E i \in FavouriteSlots :
       \/ \E label \in FavouriteLabels \cup {""} : FavouriteLabel(i, label)
       \/ \E enabled \in {"yes", "no"} : FavouriteEnable(i, enabled)
  \/ \E value \in FavouriteSlots \cup Momentary \cup {NoFavourite} : ActiveFavourite(value)
  \/ \E value \in {"yes", "no"} : SeparateModes(value)
  \/ \E mode \in {"Pool", "Spa", "other"} : ModeFrame(mode) \/ ModeRegister(mode)

FavouriteNext ==
  \/ HandleFavourite
  \/ PublishFavourite \/ PublishModeConfig \/ PublishMode
  \/ Connected \/ TakeSnapshot \/ SnapshotTimeout \/ AnnounceSnapshot \/ Disconnected
  \/ Restarted(FavouritePool, FavouriteCaches) /\ job' = "idle" /\ overtaken' = TRUE

-----------------------------------------------------------------------------
Favourites ==
  [FavouriteSlots -> [enabled : {"unknown", "yes", "no"}, label : FavouriteLabels \cup {"", "none"}]]
ActiveValues == FavouriteSlots \cup Standing \cup {"unknown"}
Modes == {"Pool", "Spa", "other", "unknown"}

(* Types; a frame leaves one call, and the MQTT task announces only what it *)
(* took.                                                                    *)
FavouriteTypeOK ==
  /\ RetainedTypeOK
  /\ pool \in [fav : Favourites, active : ActiveValues, separate : {"unknown", "yes", "no"}, mode : Modes]
  /\ DOMAIN last = {"fav", "active", "mode", "snapshot"} /\ last.mode \in Modes
  /\ todo \in {<<>>, <<"favourite">>, <<"modes">>, <<"mode">>}
  /\ job \in {"idle", "connected", "announcing"}
  /\ job = "announcing" => last.snapshot # Never

(* "Without separate modes the Touchscreen also hides the Pool and Spa      *)
(* favourites (the user favourites stay)" (mqtt_publish.c:385): whichever   *)
(* of the two tasks announced last, the options shown are those of the      *)
(* favourites as they are now, and so is the mode, except for what was      *)
(* dropped, or announced from a snapshot older than a change or never taken.*)
OptionsShown ==
  todo = <<>> =>
    /\ ~overtaken => Kept(FavouriteConfig(pool))
    /\ pool.mode # "unknown" => Kept(Message(ModeTopic, [value |-> pool.mode]))

(* "by the name discovery offers: the label, or Favourite N until it        *)
(* arrives" (mqtt_commands.c:358): every option the broker shows selects an *)
(* enabled user favourite that goes by it, unless it is labelled like an    *)
(* option that is always there, or is the label of a built-in.              *)
OptionSelects ==
  (todo = <<>> /\ ~overtaken /\ SelectTopic \notin stale) =>
    \A option \in broker[SelectTopic].options \ Standing :
      (\E i \in BuiltIn : Title(pool.fav, i) = option)
      \/ /\ Chosen(option) \in UserFavourites
         /\ pool.fav[Chosen(option)].enabled = "yes" /\ Title(pool.fav, Chosen(option)) = option
=============================================================================
