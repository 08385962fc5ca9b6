--------------------------- MODULE RegisterRequester ---------------------------
(***************************************************************************)
(* How the firmware learns what no device broadcasts: the task of          *)
(* register_requester.c, which asks for the registers the pool state still *)
(* lacks and reads back what was written, together with the MQTT task that *)
(* writes setpoints and toggles the mode, the decoder that files replies,  *)
(* and the devices on the bus, which are external.                         *)
(*                                                                         *)
(* The bus carries frames in order, each way.  A device handles a read at  *)
(* once and applies a write, or a toggle, some time after it was heard.    *)
(* The one assumption on time is that of READBACK_DELAY_MS: what was sent  *)
(* before the delay is applied when it ends.                               *)
(***************************************************************************)
EXTENDS Integers, Sequences, FiniteSets, SequencesExt

CONSTANTS
  NTimers, NZones, NValves, NFavourites, NHeaters,
  Silent,       \* the registers no device answers
  QueueLen,     \* REQUEST_QUEUE_LEN
  MaxAttempts,  \* HEATER_SETPOINT_MAX_ATTEMPTS
  ModeAttempts, \* MODE_READ_ATTEMPTS
  MaxFrames,    \* bound: frames underway, sent 250 ms apart at the least
  MaxEvents     \* bound: commands from the broker, what the devices announce or
                \* change on their own, frames lost, and locks not got in time

ASSUME RequesterAssumption ==
  /\ {NTimers, NZones, NValves, NFavourites, NHeaters} \subseteq Nat
  /\ {MaxFrames, MaxEvents, ModeAttempts} \subseteq Nat
  /\ QueueLen \in Nat \ {0} /\ MaxAttempts \in Nat \ {0}

-----------------------------------------------------------------------------
(* The registers, and the order in which a sweep asks for them.              *)
Row(kind, n) == [i \in 1 .. n |-> <<kind, i>>]
Pairs(kind, other, n) ==
  [i \in 1 .. 2 * n |-> <<IF i % 2 = 1 THEN kind ELSE other, (i + 1) \div 2>>]

Mode == <<"mode", 1>>
Rescan == <<"rescan", 1>>

Settings == Row("heater", NHeaters) \o <<<<"separate modes", 1>>>>
Setpoints == Pairs("pool setpoint", "spa setpoint", NHeaters)
Details ==
  Row("timer", NTimers) \o Pairs("multicolor", "zone name", NZones)
    \o Row("valve label", NValves)
    \o Pairs("favourite enable", "favourite label", NFavourites)

Order == Settings \o Details \o Setpoints
Place(r) == CHOOSE i \in DOMAIN Order : Order[i] = r

SetpointRegs == ToSet(Setpoints)
Registers == {Mode} \cup ToSet(Settings) \cup ToSet(Details) \cup SetpointRegs
Equipment == ToSet(Row("zone", NZones) \o Row("valve", NValves))

(* What must be in use for a register to be asked for.                       *)
Owner(r) ==
  IF r[1] \in {"multicolor", "zone name"} THEN {<<"zone", r[2]>>}
  ELSE IF r[1] = "valve label" THEN {<<"valve", r[2]>>} ELSE {}

Unknown == 0
No == 1   \* HEATER1_TYPE_NONE, not configured; MODE_SPA; a setpoint
Yes == 2  \* configured; MODE_POOL; another setpoint
Values == {No, Yes}

VARIABLES
  held,      \* the pool state: what the decoder holds of each register
  inUse,     \* lighting[].configured, valves[].configured
  gateway,   \* a gateway interface has been heard
  actual,    \* what the devices hold of each register
  inbox,     \* our frames, in order, that no device has handled yet
  applying,  \* writes and toggles heard and not yet applied
  heard,     \* replies and broadcasts on their way to the decoder
  phase,     \* where the requester task is
  plan,      \* the registers its sweep, or its read-back, has still to ask for
  attempts,  \* s_heater_setpoint_attempts
  modeAsks,  \* attempts of read_mode_at_startup()
  queue,     \* s_queue
  await,     \* frames underway that the delay before a read-back began behind
  mqtt,      \* what the MQTT task's command has still to do
  events, faults,  \* counters of the bound
  missed,    \* history: setpoints whose read-back, or its reply, was lost
  asked,     \* history: the mode last asked for
  crossed,   \* history: the mode moved, or was unheard, while it was asked for
  unheard    \* history: the last word about the mode was lost

poolVars == <<held, inUse, gateway>>
deviceVars == <<actual, inbox, applying, heard>>
taskVars == <<phase, plan, attempts, modeAsks, await>>
historyVars == <<missed, asked, crossed, unheard>>
bounds == <<events, faults>>
vars == <<poolVars, deviceVars, taskVars, queue, mqtt, bounds, historyVars>>

Read(r) == [op |-> "read", reg |-> r, val |-> Unknown]
Write(r, v) == [op |-> "write", reg |-> r, val |-> v]
Toggle == [op |-> "toggle", reg |-> Mode, val |-> Unknown]
News(r, v) == [reg |-> r, val |-> v]
Idle == [do |-> "nothing", reg |-> Mode]

Reads == {Read(r) : r \in Registers}
Frames == Reads \cup {Write(r, v) : r \in SetpointRegs, v \in Values} \cup {Toggle}
Tidings == [reg : Registers, val : Values]
Commands == [do : {"read back"}, reg : SetpointRegs] \cup [do : {"nothing", "toggle"}, reg : {Mode}]

(* A heater that is not configured has setpoints nobody answers for.         *)
Answers(r) ==
  /\ r \notin Silent
  /\ r \in SetpointRegs => actual[<<"heater", r[2]>>] = Yes

TypeOK ==
  /\ held \in [Registers -> Values \cup {Unknown}] /\ actual \in [Registers -> Values]
  /\ inUse \subseteq Equipment /\ gateway \in BOOLEAN
  /\ inbox \in Seq(Frames) /\ applying \in Seq(Frames \ Reads) /\ heard \in Seq(Tidings)
  /\ phase \in {"boot", "due", "sweep", "wait", "settle"}
  /\ plan \subseteq Registers /\ queue \in Seq(SetpointRegs \cup {Rescan}) /\ mqtt \in Commands
  /\ attempts \in [SetpointRegs -> 0 .. MaxAttempts]
  /\ modeAsks \in 0 .. ModeAttempts
  /\ Len(queue) <= QueueLen
  /\ await \in 0 .. Len(inbox) + Len(applying)
  /\ events \in Nat /\ faults \in Nat
  /\ asked \in Values \cup {Unknown} /\ missed \subseteq SetpointRegs
  /\ crossed \in BOOLEAN /\ unheard \in BOOLEAN

-----------------------------------------------------------------------------
(* The bus. A frame of ours reaches the devices, or is given up on after     *)
(* collisions; so do theirs.                                                 *)
Event == events + faults < MaxEvents /\ events' = events + 1
Fault == events + faults < MaxEvents /\ faults' = faults + 1

Lost(frame) ==
  /\ Fault
  /\ inbox' = inbox
  /\ missed' = IF frame.op = "read" /\ frame.reg \in SetpointRegs
               THEN missed \cup {frame.reg} ELSE missed
  /\ crossed' = (asked # Unknown /\ (crossed \/ frame.op = "toggle"))

Sent(frame) ==
  /\ Len(inbox) + Len(applying) + Len(heard) < MaxFrames
  /\ inbox' = Append(inbox, frame)
  /\ UNCHANGED <<faults, missed, crossed>>

Send(frame) == Sent(frame) \/ Lost(frame)

Tell(news) ==
  \/ /\ heard' = Append(heard, news)
     /\ unheard' = (unheard /\ news.reg # Mode)
     /\ UNCHANGED <<faults, missed>>
  \/ /\ Fault
     /\ heard' = heard
     /\ unheard' = (unheard \/ news.reg = Mode)
     /\ missed' = missed \cup ({news.reg} \cap SetpointRegs)

(* xQueueSend(.., 0): an entry that does not fit is dropped.                 *)
Post(entry) == queue' = IF Len(queue) < QueueLen THEN Append(queue, entry) ELSE queue

-----------------------------------------------------------------------------
(* register_requester_task()                                                 *)

(* read_mode_at_startup(): until the mode is known, from a reply or from a   *)
(* broadcast.                                                                *)
AskMode ==
  /\ phase = "boot" /\ modeAsks < ModeAttempts
  /\ held[Mode] = Unknown
  /\ modeAsks' = modeAsks + 1
  /\ Send(Read(Mode))
  /\ UNCHANGED <<poolVars, actual, applying, heard, phase, plan, attempts, queue, await, mqtt,
                 events, asked, unheard>>

EndOfStartup ==
  /\ phase = "boot"
  /\ held[Mode] # Unknown \/ modeAsks = ModeAttempts
  /\ phase' = "due" /\ modeAsks' = 0
  /\ UNCHANGED <<poolVars, deviceVars, plan, attempts, queue, await, mqtt, bounds, historyVars>>

Configured(state, h) == state[<<"heater", h>>] = Yes

GivenUp(r) == attempts[r] >= MaxAttempts

(* The registers to ask for, from a snapshot of the pool state.              *)
Missing(state, used, present) ==
  LET Lacking(registers) == {r \in registers : state[r] = Unknown}
  IN  Lacking(ToSet(Settings)) \cup
      IF present THEN {}
      ELSE {r \in Lacking(ToSet(Details)) : Owner(r) \subseteq used} \cup
           {r \in Lacking(SetpointRegs) : Configured(state, r[2]) /\ ~ GivenUp(r)}

(* Variant: a sweep asks for the first of the missing registers only.        *)
FirstOnly(asks) ==
  /\ plan' = {r \in asks : asks \cap {Order[i] : i \in 1 .. Place(r) - 1} = {}}
  /\ phase' = IF asks = {} THEN "wait" ELSE "sweep"

StartSweep(asks) == plan' = asks /\ phase' = IF asks = {} THEN "wait" ELSE "sweep"

(* The snapshot at the top of the loop, when the retry interval has elapsed  *)
(* or a rescan was received. Without the lock every flag stays false.        *)
Snapshot ==
  /\ phase \in {"wait", "due"}
  /\ \/ StartSweep(Missing(held, inUse, gateway)) /\ UNCHANGED faults
     \/ /\ Fault
        /\ StartSweep(Missing([r \in Registers |-> Unknown], {}, FALSE))
  /\ UNCHANGED <<poolVars, deviceVars, attempts, modeAsks, queue, await, mqtt, events,
                 historyVars>>

Ask ==
  /\ phase = "sweep"
  /\ \E r \in plan :
       /\ \A other \in plan : Place(r) <= Place(other)
       /\ attempts' = IF r \in SetpointRegs THEN [attempts EXCEPT ![r] = @ + 1] ELSE attempts
       /\ plan' = plan \ {r} /\ phase' = IF plan' = {} THEN "wait" ELSE "sweep"
       /\ Send(Read(r))
  /\ UNCHANGED <<poolVars, actual, applying, heard, modeAsks, queue, await, mqtt, events,
                 asked, unheard>>

(* READBACK_DELAY_MS lasts until the writes sent so far are applied.         *)
(* Variant: a write is read back without a delay.                            *)
NoDelay == 0

Sofar == applying \o inbox
Delay == Len(Sofar)
Waiting == \E i \in 1 .. await : Sofar[i].op # "read"

(* xQueueReceive(): a rescan ends the wait, a read-back is served after      *)
(* READBACK_DELAY_MS.                                                        *)
Receive ==
  /\ phase = "wait" /\ queue # <<>>
  /\ queue' = Tail(queue)
  /\ \/ Head(queue) = Rescan /\ phase' = "due" /\ UNCHANGED <<plan, await>>
     \/ /\ Head(queue) # Rescan /\ phase' = "settle"
        /\ plan' = {Head(queue)}
        /\ await' = Delay
  /\ UNCHANGED <<poolVars, deviceVars, attempts, modeAsks, mqtt, bounds, historyVars>>

(* The read-back itself. What the delay left of the retry interval decides   *)
(* whether the wait goes on.                                                 *)
ReadBack ==
  /\ phase = "settle" /\ ~ Waiting
  /\ \E r \in plan : Send(Read(r))
  /\ plan' = {} /\ phase' \in {"wait", "due"} /\ await' = 0
  /\ UNCHANGED <<poolVars, actual, applying, heard, attempts, modeAsks, queue, mqtt, events,
                 asked, unheard>>

-----------------------------------------------------------------------------
(* The MQTT task: one command at a time.                                     *)
NewCommand ==
  /\ mqtt = Idle
  /\ Event

(* handle_temperature_command(), handle_heater_setpoint_command(): the write *)
(* and then the read-back, whether or not the write could be sent.           *)
WriteSetpoint ==
  /\ NewCommand
  /\ \E r \in SetpointRegs, v \in Values :
       /\ Send(Write(r, v))
       /\ mqtt' = [do |-> "read back", reg |-> r]
  /\ UNCHANGED <<poolVars, actual, applying, heard, taskVars, queue, asked, unheard>>

(* register_requester_read_back()                                            *)
PostReadBack ==
  /\ mqtt.do = "read back"
  /\ Post(mqtt.reg)
  /\ missed' = IF Len(queue) < QueueLen THEN missed \ {mqtt.reg} ELSE missed \cup {mqtt.reg}
  /\ mqtt' = Idle
  /\ UNCHANGED <<poolVars, deviceVars, taskVars, bounds, asked, crossed, unheard>>

(* Everything sent about the mode has arrived.                               *)
About(frames) == \E i \in DOMAIN frames : frames[i].reg = Mode
ModeQuiet == ~ About(inbox) /\ ~ About(applying) /\ ~ About(heard) /\ mqtt.do # "toggle"

(* Variant: the mode asked for is not compared with the present one.         *)
AnyMode(want) == TRUE

Differs(want) == held[Mode] # want

(* handle_mode_command(): refused until the mode is known; nothing to send   *)
(* when it is the one asked for.                                             *)
ModeCommand ==
  /\ NewCommand
  /\ held[Mode] # Unknown
  /\ \E want \in Values :
       /\ asked' = want
       /\ mqtt' = IF Differs(want) THEN [do |-> "toggle", reg |-> Mode] ELSE Idle
  /\ crossed' = (unheard \/ ~ ModeQuiet)
  /\ UNCHANGED <<poolVars, deviceVars, taskVars, queue, faults, missed, unheard>>

SendToggle ==
  /\ mqtt.do = "toggle"
  /\ Send(Toggle)
  /\ mqtt' = Idle
  /\ UNCHANGED <<poolVars, actual, applying, heard, taskVars, queue, events, asked,
                 unheard>>

-----------------------------------------------------------------------------
(* The devices on the bus.                                                   *)

(* A read is answered at once, by a device that has the register; a write or *)
(* a toggle is taken note of.                                                *)
DeviceHears ==
  /\ inbox # <<>>
  /\ inbox' = Tail(inbox)
  /\ LET frame == Head(inbox) IN
       \/ /\ frame.op = "read" /\ Answers(frame.reg)
          /\ Tell(News(frame.reg, actual[frame.reg]))
          /\ UNCHANGED applying
       \/ /\ frame.op = "read" /\ ~ Answers(frame.reg)
          /\ UNCHANGED <<heard, applying, faults, missed, unheard>>
       \/ /\ frame.op # "read"
          /\ applying' = Append(applying, frame)
          /\ UNCHANGED <<heard, faults, missed, unheard>>
  /\ await' = IF Head(inbox).op = "read" /\ await > Len(applying) THEN await - 1 ELSE await
  /\ UNCHANGED <<poolVars, actual, phase, plan, attempts, modeAsks, queue, mqtt, events, asked,
                 crossed>>

(* The oldest write is applied. The new mode is broadcast (CMD 0x14).        *)
Other(v) == No + Yes - v
DeviceApplies ==
  /\ applying # <<>>
  /\ applying' = Tail(applying)
  /\ await' = IF await > 0 THEN await - 1 ELSE 0
  /\ LET frame == Head(applying) IN
       \/ /\ frame.op = "write"
          /\ actual' = [actual EXCEPT ![frame.reg] = frame.val]
          /\ UNCHANGED <<heard, faults, missed, unheard>>
       \/ /\ frame.op = "toggle"
          /\ actual' = [actual EXCEPT ![Mode] = Other(@)]
          /\ Tell(News(Mode, actual'[Mode]))
  /\ UNCHANGED <<poolVars, inbox, phase, plan, attempts, modeAsks, queue, mqtt, events,
                 asked, crossed>>

(* The Pool/Spa button of a panel. A mode asked for before is no longer      *)
(* wanted.                                                                   *)
PanelToggles ==
  /\ Event
  /\ actual' = [actual EXCEPT ![Mode] = Other(@)]
  /\ Tell(News(Mode, actual'[Mode]))
  /\ asked' = IF ModeQuiet THEN Unknown ELSE asked
  /\ crossed' = (asked # Unknown /\ ~ ModeQuiet)
  /\ UNCHANGED <<poolVars, inbox, applying, taskVars, queue, mqtt>>

-----------------------------------------------------------------------------
(* The decoder, in the bridge task.                                          *)

(* handle_mode(), handle_mode_register(), handle_temp_setpoint(), and the    *)
(* handlers of the other registers: the reply is filed.                      *)
Decode ==
  /\ heard # <<>> /\ heard' = Tail(heard)
  /\ held' = [held EXCEPT ![Head(heard).reg] = Head(heard).val]
  /\ UNCHANGED <<inUse, gateway, actual, inbox, applying, taskVars, queue, mqtt, bounds,
                 historyVars>>

(* A zone or a valve is announced as in use: the requester is woken.         *)
EquipmentHeard ==
  /\ Event
  /\ \E e \in Equipment \ inUse : inUse' = inUse \cup {e}
  /\ Post(Rescan)
  /\ UNCHANGED <<held, gateway, deviceVars, taskVars, mqtt, faults, historyVars>>

(* ... and as not in use.                                                    *)
EquipmentGone ==
  /\ Event
  /\ \E e \in inUse : inUse' = inUse \ {e}
  /\ UNCHANGED <<held, gateway, deviceVars, taskVars, queue, mqtt, faults, historyVars>>

GatewayHeard ==
  /\ Event
  /\ ~ gateway /\ gateway' = TRUE
  /\ UNCHANGED <<held, inUse, deviceVars, taskVars, queue, mqtt, faults, historyVars>>

-----------------------------------------------------------------------------
Requester == AskMode \/ EndOfStartup \/ Snapshot \/ Ask \/ Receive \/ ReadBack
MqttTask == WriteSetpoint \/ PostReadBack \/ ModeCommand \/ SendToggle
Devices == DeviceHears \/ DeviceApplies \/ PanelToggles
Decoder == Decode \/ EquipmentHeard \/ EquipmentGone \/ GatewayHeard

Init ==
  /\ held = [r \in Registers |-> Unknown] /\ inUse = {} /\ gateway = FALSE
  /\ actual \in {[r \in Registers |-> IF r[1] = "heater" THEN h
                                      ELSE IF r = Mode THEN m ELSE No] : h, m \in Values}
  /\ inbox = <<>> /\ applying = <<>> /\ heard = <<>>
  /\ phase = "boot" /\ plan = {} /\ queue = <<>> /\ await = 0
  /\ attempts = [r \in SetpointRegs |-> 0] /\ modeAsks = 0
  /\ mqtt = Idle
  /\ events = 0 /\ faults = 0
  /\ missed = {} /\ asked = Unknown /\ crossed = FALSE /\ unheard = FALSE

Next == Requester \/ MqttTask \/ Devices \/ Decoder

(* Every task gets to run, and devices do answer. Nobody has to send a       *)
(* command, to press a button, or to announce anything.                      *)
Fairness ==
  /\ WF_vars(AskMode \/ EndOfStartup \/ Ask \/ ReadBack)
  /\ WF_vars(Receive) /\ WF_vars(Snapshot)
  /\ WF_vars(PostReadBack \/ SendToggle)
  /\ WF_vars(DeviceHears) /\ WF_vars(DeviceApplies) /\ WF_vars(Decode)

Spec == Init /\ [][Next]_vars /\ Fairness

-----------------------------------------------------------------------------
(* A setpoint somewhere on its way to the pool state.                        *)
Underway(r) ==
  \/ \E frames \in {inbox, applying, heard} : \E i \in DOMAIN frames : frames[i].reg = r
  \/ r \in ToSet(queue) \cup plan \/ mqtt = [do |-> "read back", reg |-> r]

(* register_requester_read_back(), READBACK_DELAY_MS: once nothing is        *)
(* underway, the setpoint held is the one the heater has, unless a read-back *)
(* was dropped or lost.                                                      *)
ReadBackFollowsWrite ==
  \A r \in SetpointRegs :
    ~ Underway(r) /\ r \notin missed /\ held[r] # Unknown => held[r] = actual[r]

(* handle_mode_command(): once nothing is underway the mode is the one asked *)
(* for, unless it was changed, or word of it was lost, in the meantime.      *)
ModeAsAsked == ModeQuiet /\ asked # Unknown /\ ~ crossed => actual[Mode] = asked

(* A register the task means to learn: a setting, or with no gateway on the  *)
(* bus a detail of something in use, or a setpoint not given up on.          *)
Wanted(r) ==
  /\ Answers(r)
  /\ \/ r \in ToSet(Settings)
     \/ /\ ~ gateway /\ Owner(r) \subseteq inUse
        /\ r \in SetpointRegs => ~ GivenUp(r)

(* register_requester_task(): every register that is wanted, and that some   *)
(* device answers, becomes known, whatever others never do.                  *)
RegistersKnown == \A r \in Registers \ {Mode} : []<>(Wanted(r) => held[r] # Unknown)
=============================================================================
