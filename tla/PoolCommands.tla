------------------------------ MODULE PoolCommands ------------------------------
(***************************************************************************)
(* Commands from the broker on their way to the pool and back: the frame   *)
(* each handler of mqtt_commands.c sends, what the devices on the bus make *)
(* of it (external), and where the decoder files what they then say.       *)
(* Numbers of channels, zones and valves are 1-based in topics and 0-based *)
(* in some frames, registers share ranges and differ by slot, and states   *)
(* are codes that differ by device.                                        *)
(***************************************************************************)
EXTENDS Integers, Sequences

CONSTANTS
  NumChannels, NumZones, NumValves,
  Temperatures,  \* setpoints within TEMP_SETPOINT_MIN_C .. TEMP_SETPOINT_MAX_C
  Colors,        \* colours of LIGHTING_COLOR_NAMES, in the order of their codes
  MaxCommands    \* bound: commands

(* MAX_CHANNELS, MAX_LIGHT_ZONES, MAX_VALVE_SLOTS. The handlers of light     *)
(* registers are for MAX_LIGHT_ZONES of them.                                *)
ASSUME CommandsAssumption ==
  /\ NumChannels \in Nat /\ NumZones \in 0 .. 8 /\ NumValves \in Nat
  /\ Temperatures \subseteq Nat /\ Temperatures # {}
  /\ Colors \in Seq(STRING) /\ Colors # <<>>
  /\ MaxCommands \in Nat

VARIABLES
  shown,   \* the pool state, as the publishers name it
  device,  \* what the devices hold, external
  wanted,  \* history: what was asked for of each of them
  wire,    \* frames of ours, in order
  said,    \* what the devices say, in order
  commands \* counter of the bound

commandVars == <<shown, device, wanted, wire, said, commands>>

Channels == 1 .. NumChannels
Zones == 1 .. NumZones
Valves == 1 .. NumValves
Heaters == 0 .. 1

(* CHANNEL_STATE_NAMES; off_auto_on_name() knows the first three.            *)
States == <<"Off", "Auto", "On", "Low Speed">>
OffAutoOn == {"Off", "Auto", "On"}
FavouriteCodes == [Pool |-> \h00, Spa |-> \h01, AllOff |-> \h80, AllAuto |-> \h81]

StateNames == {States[i] : i \in DOMAIN States}
ColorNames == {Colors[i] : i \in DOMAIN Colors}

Code(names, name) == (CHOOSE i \in DOMAIN names : names[i] = name) - 1
Name(names, code) == names[code + 1]

Shown ==
  ({"channel"} \X Channels) \cup ({"light", "color"} \X Zones) \cup ({"valve"} \X Valves)
    \cup ({"heater", "pool", "spa"} \X Heaters) \cup {<<"favourite", 0>>}
Things == Shown \cup ({"resync"} \X Zones)

Frame(cmd, data) == [cmd |-> cmd, data |-> data]
ReadRegister(reg, slot) == Frame(\h39, <<reg, slot>>)

-----------------------------------------------------------------------------
(* The handlers. Topics with a number out of range, and payloads that are    *)
(* no state, colour, favourite or temperature, are refused.                  *)
Command(thing, value, frames) ==
  /\ commands < MaxCommands /\ commands' = commands + 1
  /\ wire' = wire \o frames
  /\ wanted' = [wanted EXCEPT ![thing] = value]
  /\ UNCHANGED <<shown, device, said>>

WriteRegister(reg, slot, code) == Frame(\h3A, <<reg, slot, code>>)

(* What the button does is up to the Touchscreen: it steps the channel on.   *)
Stepped(state) == IF state = "Off" THEN "On" ELSE "Off"

ChannelIndex(n) == n - 1
HandleChannel(n) ==
  Command(<<"channel", n>>, Stepped(wanted[<<"channel", n>>]), <<Frame(\h10, <<ChannelIndex(n)>>)>>)

(* The channel is 1-based here. Variant: 0-based, as in the toggle command.  *)
ModeFrameFromZero(n, state) == Frame(\h0F, <<ChannelIndex(n), Code(States, state)>>)

ChannelModeFrame(n, state) == Frame(\h0F, <<n, Code(States, state)>>)
HandleChannelMode(n, state) == Command(<<"channel", n>>, state, <<ChannelModeFrame(n, state)>>)

HandleLight(z, state) ==
  Command(<<"light", z>>, state, <<WriteRegister(\hC0 + (z - 1), 1, Code(States, state))>>)

(* Code 0 is no colour a light can be sent.                                  *)
HandleLightColor(z, color) ==
  /\ Code(Colors, color) # 0
  /\ Command(<<"color", z>>, color, <<WriteRegister(\hD0 + (z - 1), 1, Code(Colors, color))>>)

HandleLightResync(z) == Command(<<"resync", z>>, "done", <<Frame(\h3C, <<z - 1>>)>>)

(* Heaters are only on or off, and on is not the code of the state "On".     *)
HandleHeater(h, state) ==
  /\ state # "Auto"
  /\ Command(<<"heater", h>>, state,
             <<WriteRegister(IF h = 0 THEN \hE6 ELSE \hE9, 0, IF state = "On" THEN 1 ELSE 0)>>)

HandleFavourite(name) ==
  Command(<<"favourite", 0>>, name, <<Frame(\h2A, <<FavouriteCodes[name]>>)>>)

(* The setpoint of heater 1 is that of the system, the one of heater 2 is a  *)
(* register. Both are read back (RegisterRequester).                         *)
SetpointRegister(h, body) ==
  IF h = 0 THEN (IF body = "pool" THEN \hE7 ELSE \hE8) ELSE (IF body = "pool" THEN \hEA ELSE \hEB)

HandleSetpoint(h, body, temp) ==
  LET write == IF h = 0 THEN Frame(\h19, <<IF body = "pool" THEN 1 ELSE 2, temp, temp>>)
               ELSE WriteRegister(SetpointRegister(h, body), 0, temp)
  IN  Command(<<body, h>>, temp, <<write, ReadRegister(SetpointRegister(h, body), 0)>>)

HandleValve(v, state) ==
  Command(<<"valve", v>>, state, <<Frame(\h28, <<v - 1, Code(States, state)>>)>>)

-----------------------------------------------------------------------------
(* The devices. Each register belongs to one thing.                          *)
Belongs(thing, reg, slot) ==
  \/ slot = 1 /\ \/ thing[1] = "light" /\ reg = \hBF + thing[2]
                 \/ thing[1] = "color" /\ reg = \hCF + thing[2]
  \/ slot = 0 /\ \/ thing[1] = "heater" /\ reg = \hE6 + 3 * thing[2]
                 \/ thing[1] = "pool" /\ reg = \hE7 + 3 * thing[2]
                 \/ thing[1] = "spa" /\ reg = \hE8 + 3 * thing[2]

Meaning(thing, code) ==
  IF thing[1] \in {"light", "channel", "valve"} THEN Name(States, code)
  ELSE IF thing[1] = "color" THEN Name(Colors, code)
  ELSE IF thing[1] = "heater" THEN (IF code = 1 THEN "On" ELSE "Off") ELSE code

Becomes(thing, value) == device' = [device EXCEPT ![thing] = value]
Say(frames) == said' = said \o frames
RegisterValue(reg, slot, value) == Frame(\h38, <<reg, slot, value>>)

(* CMD 0x0B, CMD 0x27: all channels, all valves.                             *)
ChannelStatus == Frame(\h0B, [n \in Channels |-> Code(States, device'[<<"channel", n>>])])
ValveStatus == Frame(\h27, [v \in Valves |-> Code(States, device'[<<"valve", v>>])])

(* The thing a frame is about, for the device it is meant for.               *)
IsAbout(frame, thing) ==
  \/ frame.cmd = \h10 /\ thing = <<"channel", frame.data[1] + 1>>
  \/ frame.cmd = \h0F /\ thing = <<"channel", frame.data[1]>>
  \/ frame.cmd = \h28 /\ thing = <<"valve", frame.data[1] + 1>>
  \/ frame.cmd = \h3C /\ thing = <<"resync", frame.data[1] + 1>>
  \/ frame.cmd = \h2A /\ thing = <<"favourite", 0>>
  \/ frame.cmd = \h19 /\ thing = <<IF frame.data[1] = 1 THEN "pool" ELSE "spa", 0>>
  \/ frame.cmd \in {\h39, \h3A} /\ Belongs(thing, frame.data[1], frame.data[2])
Meant(frame) == {thing \in Things : IsAbout(frame, thing)}

(* Only setpoints are read back, whose codes are their values. What was      *)
(* written to a register is told; the Connect 8/10 tells its heater besides. *)
Obey(frame, thing) ==
  \/ frame.cmd = \h10 /\ Becomes(thing, Stepped(device[thing])) /\ Say(<<ChannelStatus>>)
  \/ frame.cmd = \h0F /\ Becomes(thing, Meaning(thing, frame.data[2])) /\ Say(<<ChannelStatus>>)
  \/ frame.cmd = \h28 /\ Becomes(thing, Meaning(thing, frame.data[2])) /\ Say(<<ValveStatus>>)
  \/ frame.cmd = \h3C /\ Becomes(thing, "done") /\ UNCHANGED said
  \/ /\ frame.cmd = \h2A
     /\ \E name \in DOMAIN FavouriteCodes :
          FavouriteCodes[name] = frame.data[1] /\ Becomes(thing, name)
     /\ Say(<<RegisterValue(\h20, 3, frame.data[1])>>)
  \/ frame.cmd = \h19 /\ Becomes(thing, frame.data[2]) /\ UNCHANGED said
  \/ /\ frame.cmd = \h3A
     /\ Becomes(thing, Meaning(thing, frame.data[3]))
     /\ LET told == RegisterValue(frame.data[1], frame.data[2], frame.data[3])
        IN  IF thing = <<"heater", 0>> THEN Say(<<told, Frame(\h12, <<frame.data[3]>>)>>)
            ELSE Say(<<told>>)
  \/ /\ frame.cmd = \h39 /\ UNCHANGED device
     /\ Say(<<RegisterValue(frame.data[1], frame.data[2], device[thing])>>)

DeviceObeys ==
  /\ wire # <<>> /\ wire' = Tail(wire)
  /\ \/ \E thing \in Meant(Head(wire)) : Obey(Head(wire), thing)
     \/ Meant(Head(wire)) = {} /\ UNCHANGED <<device, said>>
  /\ UNCHANGED <<shown, wanted, commands>>

-----------------------------------------------------------------------------
(* The decoder.                                                              *)

(* REGISTER_HANDLERS, where its ranges meet those of the commands: the first *)
(* entry with the register in its range, and with the slot.                  *)
Entry(first, last, slot, handler) ==
  [first |-> first, last |-> last, slot |-> slot, handler |-> handler]
RegisterHandlers ==
  << Entry(\hE8, \hF7, 3, "timerConfigured"), Entry(\hC0, \hC7, 1, "light"),
     Entry(\hD0, \hD7, 1, "color"), Entry(\hD0, \hD7, 2, "valveLabel"),
     Entry(\hE0, \hE7, 2, "valve"), Entry(\h20, \h20, 3, "favourite"),
     Entry(\h21, \h28, 3, "favouriteEnable"), Entry(\hE6, \hE6, 0, "logged"),
     Entry(\hE7, \hE8, 0, "setpoint"), Entry(\hE9, \hE9, 0, "heater2"),
     Entry(\hC8, \hC8, 0, "heater1Type"), Entry(\hCC, \hCC, 0, "heater2Configured"),
     Entry(\hEA, \hEB, 0, "setpoint"), Entry(\hE9, \hE9, \h0B, "logged"),
     Entry(\hEA, \hEA, \h0B, "logged") >>

Covers(i, reg, slot) ==
  /\ reg \in RegisterHandlers[i].first .. RegisterHandlers[i].last
  /\ slot = RegisterHandlers[i].slot

(* None, or one.                                                             *)
HandlerOf(reg, slot) ==
  LET covering == {i \in DOMAIN RegisterHandlers : Covers(i, reg, slot)}
      first == {i \in covering : \A j \in covering : i <= j}
  IN  {RegisterHandlers[i].handler : i \in first}

(* The handlers of register values. handle_temp_setpoint() tells the heater, *)
(* and whether pool or spa, from the register.                               *)
Show(thing, value) == shown' = [shown EXCEPT ![thing] = value]
Filing == {"light", "color", "heater2", "setpoint", "favourite"}

Filed(handler, reg, code) ==
  \/ handler = {"light"} /\ Show(<<"light", reg - \hC0 + 1>>, Name(States, code))
  \/ handler = {"color"} /\ Show(<<"color", reg - \hD0 + 1>>, Name(Colors, code))
  \/ handler = {"heater2"} /\ Show(<<"heater", 1>>, IF code # 0 THEN "On" ELSE "Off")
  \/ /\ handler = {"setpoint"}
     /\ \E body \in {"pool", "spa"}, h \in Heaters :
          SetpointRegister(h, body) = reg /\ Show(<<body, h>>, code)
  \/ /\ handler = {"favourite"}
     /\ \E name \in DOMAIN FavouriteCodes :
          FavouriteCodes[name] = code /\ Show(<<"favourite", 0>>, name)
  \/ handler \cap Filing = {} /\ UNCHANGED shown

(* CMD 0x0B and CMD 0x27, one tuple for each channel or valve; CMD 0x12 of   *)
(* the Connect 8/10, whose heater is heater 1.                               *)
Listed(kind, codes) ==
  shown' = [thing \in Shown |->
              IF thing[1] = kind THEN Name(States, codes[thing[2]]) ELSE shown[thing]]

DecodeFrame ==
  /\ said # <<>> /\ said' = Tail(said)
  /\ LET frame == Head(said) IN
       \/ /\ frame.cmd = \h38
          /\ Filed(HandlerOf(frame.data[1], frame.data[2]), frame.data[1], frame.data[3])
       \/ frame.cmd = \h0B /\ Listed("channel", frame.data)
       \/ frame.cmd = \h27 /\ Listed("valve", frame.data)
       \/ /\ frame.cmd = \h12
          /\ Show(<<"heater", 0>>, IF frame.data[1] % 2 = 1 THEN "On" ELSE "Off")
  /\ UNCHANGED <<device, wanted, wire, commands>>

-----------------------------------------------------------------------------
Initially(thing) ==
  IF thing[1] \in {"pool", "spa"} THEN CHOOSE t \in Temperatures : TRUE
  ELSE IF thing[1] = "color" THEN Colors[1]
  ELSE IF thing[1] = "favourite" THEN "Pool" ELSE "Off"

CommandsInit ==
  /\ device = [thing \in Things |-> Initially(thing)]
  /\ wanted = device /\ shown = [thing \in Shown |-> device[thing]]
  /\ wire = <<>> /\ said = <<>> /\ commands = 0

MqttHandlesCommand ==
  \/ \E n \in Channels : HandleChannel(n) \/ \E s \in StateNames : HandleChannelMode(n, s)
  \/ \E z \in Zones : \/ HandleLightResync(z) \/ \E s \in OffAutoOn : HandleLight(z, s)
                      \/ \E c \in ColorNames : HandleLightColor(z, c)
  \/ \E h \in Heaters : \/ \E s \in OffAutoOn : HandleHeater(h, s)
                        \/ \E b \in {"pool", "spa"}, t \in Temperatures : HandleSetpoint(h, b, t)
  \/ \E name \in DOMAIN FavouriteCodes : HandleFavourite(name)
  \/ \E v \in Valves, s \in OffAutoOn : HandleValve(v, s)

CommandsNext == MqttHandlesCommand \/ DeviceObeys \/ DecodeFrame

CommandsSpec == CommandsInit /\ [][CommandsNext]_commandVars

(* mqtt_handle_command() and dispatch_message(): a command changes what it   *)
(* names and nothing else, and once all was said the pool state shows it.    *)
CommandTakesEffect ==
  wire = <<>> /\ said = <<>> =>
    device = wanted /\ \A thing \in Shown : shown[thing] = device[thing]
=============================================================================
