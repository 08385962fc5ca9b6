----------------------------- MODULE ControlProofs -----------------------------
(***************************************************************************)
(* Proofs about what the firmware sends to the pool.                       *)
(*                                                                         *)
(* RegisterRequester, for any numbers of timers, zones, valves, favourites *)
(* and heaters, whatever registers nobody answers for, and any length of   *)
(* the queue: the types, that a setpoint written is read back after it     *)
(* took effect, and that the mode ends as it was asked for.                *)
(*                                                                         *)
(* PoolCommands, for any numbers of channels, valves and zones and any run *)
(* of commands: once all was sent and said, the devices are as they were   *)
(* asked to be and the pool state shows it.                                *)
(***************************************************************************)
EXTENDS RegisterRequester, PoolCommands, SequenceTheorems, TLAPS

-----------------------------------------------------------------------------
(* The invariant.                                                            *)

(* A sweep asks for no setpoint that was given up on.                        *)
SweepInv ==
  phase = "sweep" => \A r \in plan \cap SetpointRegs : attempts[r] < MaxAttempts

(* The last word about register r, on its way or filed, is true.             *)
Told(r) ==
  /\ \A i \in DOMAIN heard :
       heard[i].reg = r /\ (\A j \in DOMAIN heard : j > i => heard[j].reg # r)
         => heard[i].val = actual[r]
  /\ (\A i \in DOMAIN heard : heard[i].reg # r) => held[r] \in {actual[r], Unknown}

(* Nobody speaks of a setpoint that no device answers for.                   *)
SilenceInv ==
  \A r \in SetpointRegs :
    ~ Answers(r) => held[r] = Unknown /\ \A i \in DOMAIN heard : heard[i].reg # r

(* The mode: the last word about it is true, or it was lost.                 *)
WordInv == unheard \/ Told(Mode)

NoToggle(frames) == \A i \in DOMAIN frames : frames[i].op # "toggle"
OneToggle(frames) ==
  \E i \in DOMAIN frames : \A j \in DOMAIN frames : frames[j].op = "toggle" <=> j = i

(* A mode asked for is the present one, or it is the other one and one       *)
(* toggle is still to come.                                                  *)
ToggleInv ==
  asked # Unknown /\ ~ crossed =>
    \/ /\ mqtt.do = "toggle" /\ actual[Mode] # asked
       /\ NoToggle(inbox) /\ NoToggle(applying)
    \/ /\ mqtt.do # "toggle" /\ actual[Mode] # asked
       /\ \/ OneToggle(inbox) /\ NoToggle(applying)
          \/ NoToggle(inbox) /\ OneToggle(applying)
    \/ /\ mqtt.do # "toggle" /\ actual[Mode] = asked
       /\ NoToggle(inbox) /\ NoToggle(applying)

(* No write of setpoint r is underway.                                       *)
Applied(r) ==
  /\ \A i \in DOMAIN inbox : inbox[i].op = "write" => inbox[i].reg # r
  /\ \A i \in DOMAIN applying : applying[i].reg # r

(* A read-back is due; it is about to be sent behind every write; it is on   *)
(* the bus behind them; or the last word about the setpoint is true.         *)
Due(r) == (mqtt.do = "read back" /\ mqtt.reg = r) \/ \E i \in DOMAIN queue : queue[i] = r
Delayed(r) ==
  /\ phase = "settle" /\ plan = {r}
  /\ \A i \in DOMAIN applying : applying[i].reg = r => i <= await
  /\ \A i \in DOMAIN inbox :
       inbox[i].op = "write" /\ inbox[i].reg = r => Len(applying) + i <= await
Requested(r) == Applied(r) /\ \E i \in DOMAIN inbox : inbox[i] = Read(r)
Settled(r) == Applied(r) /\ Told(r)

ReadBackInv ==
  \A r \in SetpointRegs \ missed : Due(r) \/ Delayed(r) \/ Requested(r) \/ Settled(r)

Inv == TypeOK /\ SweepInv /\ SilenceInv /\ WordInv /\ ToggleInv /\ ReadBackInv

-----------------------------------------------------------------------------
(* The registers.                                                            *)

LEMMA SetpointsAre ==
  ASSUME NEW r \in SetpointRegs
  PROVE  \E kind \in {"pool setpoint", "spa setpoint"}, n \in 1 .. NHeaters : r = <<kind, n>>
<1>1. PICK i \in 1 .. 2 * NHeaters :
        r = <<IF i % 2 = 1 THEN "pool setpoint" ELSE "spa setpoint", (i + 1) \div 2>>
  BY DEF SetpointRegs, Setpoints, Pairs, ToSet
<1>2. (i + 1) \div 2 \in 1 .. NHeaters
  BY RequesterAssumption
<1> QED
  BY <1>1, <1>2

LEMMA HeatersKnown ==
  ASSUME NEW n \in 1 .. NHeaters
  PROVE  <<"heater", n>> \in Registers
<1> DEFINE H == Row("heater", NHeaters)
           S == <<<<"separate modes", 1>>>>
           Kinds == {H[i] : i \in 1 .. NHeaters} \cup {<<"separate modes", 1>>}
<1>1. NHeaters \in Nat /\ H = [i \in 1 .. NHeaters |-> <<"heater", i>>]
  BY RequesterAssumption DEF Row
<1>2. H[n] = <<"heater", n>> /\ DOMAIN H = 1 .. NHeaters
  BY <1>1
<1>3. H \in [1 .. NHeaters -> Kinds]
  BY <1>1
<1>4. S \in Seq(Kinds) /\ Len(S) = 1
  OBVIOUS
<1> HIDE DEF H, S, Kinds
<1>5. H \in Seq(Kinds) /\ Len(H) = NHeaters
  BY <1>1, <1>2, <1>3, SeqDef, LenProperties
<1>6. H \o S \in Seq(Kinds) /\ Len(H \o S) = Len(H) + Len(S)
  BY <1>4, <1>5, ConcatProperties, Zenon
<1>7. (H \o S)[n] = H[n] /\ n \in 1 .. Len(H \o S)
  BY <1>1, <1>4, <1>5, <1>6, ConcatProperties
<1>8. DOMAIN (H \o S) = 1 .. Len(H \o S)
  BY <1>6, LenProperties
<1>9. Settings = H \o S
  BY DEF Settings, H, S
<1> QED
  BY <1>2, <1>7, <1>8, <1>9 DEF Registers, ToSet

(* A setpoint is not the mode, nor the register its heater is known by.      *)
LEMMA SetpointsApart ==
  /\ SetpointRegs \subseteq Registers /\ Mode \in Registers \ SetpointRegs
  /\ Rescan \notin SetpointRegs
  /\ \A r \in SetpointRegs :
       <<"heater", r[2]>> \in Registers \ SetpointRegs /\ <<"heater", r[2]>> # Mode
<1>1. SetpointRegs \subseteq Registers /\ Mode \in Registers
  BY DEF Registers
<1>2. ASSUME NEW r \in SetpointRegs
      PROVE  /\ r[1] \in {"pool setpoint", "spa setpoint"} /\ r[2] \in 1 .. NHeaters
             /\ r # Mode /\ r # Rescan
  <2>1. PICK kind \in {"pool setpoint", "spa setpoint"}, n \in 1 .. NHeaters : r = <<kind, n>>
    BY SetpointsAre
  <2> QED
    BY <2>1 DEF Mode, Rescan
<1>3. ASSUME NEW r \in SetpointRegs
      PROVE  <<"heater", r[2]>> \in Registers \ SetpointRegs /\ <<"heater", r[2]>> # Mode
  <2>1. <<"heater", r[2]>> \in Registers
    BY <1>2, HeatersKnown
  <2>2. <<"heater", r[2]>>[1] = "heater" /\ Mode[1] = "mode"
    BY DEF Mode
  <2>3. <<"heater", r[2]>> \notin SetpointRegs
    BY <1>2, <2>2
  <2> QED
    BY <2>1, <2>2, <2>3
<1> QED
  BY <1>1, <1>2, <1>3

LEMMA FramesAre ==
  ASSUME NEW f \in Frames
  PROVE  /\ f.op \in {"read", "write", "toggle"} /\ f.reg \in Registers
         /\ f.op = "read" => f \in Reads /\ f = Read(f.reg)
         /\ f.op = "write" => f.reg \in SetpointRegs /\ f.val \in Values
         /\ f.op = "toggle" => f = Toggle /\ f.reg = Mode
BY SetpointsApart DEF Frames, Reads, Read, Write, Toggle

LEMMA ReadsAre ==
  ASSUME NEW r \in Registers
  PROVE  Read(r) \in Frames /\ Read(r).op = "read" /\ Read(r).reg = r
BY DEF Frames, Reads, Read

-----------------------------------------------------------------------------
(* Types.                                                                    *)

LEMMA SendTypes ==
  ASSUME TypeOK, NEW f \in Frames, Send(f)
  PROVE  /\ inbox' \in Seq(Frames) /\ Len(inbox) <= Len(inbox')
         /\ faults' \in Nat /\ missed' \subseteq SetpointRegs /\ crossed' \in BOOLEAN
<1>1. CASE Sent(f)
  BY <1>1, AppendProperties DEF Sent, TypeOK
<1>2. CASE Lost(f)
  BY <1>2 DEF Lost, Fault, TypeOK
<1> QED
  BY <1>1, <1>2 DEF Send

LEMMA TellTypes ==
  ASSUME TypeOK, NEW n \in Tidings, Tell(n)
  PROVE  /\ heard' \in Seq(Tidings) /\ faults' \in Nat
         /\ missed' \subseteq SetpointRegs /\ unheard' \in BOOLEAN
<1>1. Append(heard, n) \in Seq(Tidings)
  BY AppendProperties DEF TypeOK
<1>2. faults' \in Nat
  BY DEF Tell, Fault, TypeOK
<1>3. heard' \in Seq(Tidings)
  BY <1>1 DEF Tell, TypeOK
<1>4. missed' \subseteq SetpointRegs
  BY DEF Tell, TypeOK
<1>5. unheard' \in BOOLEAN
  BY DEF Tell, TypeOK
<1> QED
  BY <1>2, <1>3, <1>4, <1>5

LEMMA PostTypes ==
  ASSUME TypeOK, NEW entry \in SetpointRegs \cup {Rescan}, Post(entry)
  PROVE  queue' \in Seq(SetpointRegs \cup {Rescan}) /\ Len(queue') <= QueueLen
<1>1. Len(queue) \in Nat /\ QueueLen \in Nat
  BY RequesterAssumption, LenProperties DEF TypeOK
<1> QED
  BY <1>1, AppendProperties DEF Post, TypeOK

(* The registers that are not setpoints, by their kind.                      *)
Plain == {"heater", "separate modes", "timer", "multicolor", "zone name", "valve label",
          "favourite enable", "favourite label"}
Others == {<<kind, i>> : kind \in Plain, i \in Nat}

LEMMA RowKinds ==
  ASSUME NEW kind \in Plain, NEW n \in Nat
  PROVE  Row(kind, n) \in Seq(Others)
<1>1. \A i \in 1 .. n : <<kind, i>> \in Others
  BY DEF Others
<1> QED
  BY <1>1, SeqDef DEF Row

LEMMA PairKinds ==
  ASSUME NEW kind \in Plain, NEW other \in Plain, NEW n \in Nat
  PROVE  Pairs(kind, other, n) \in Seq(Others)
<1>1. ASSUME NEW i \in 1 .. 2 * n
      PROVE  <<IF i % 2 = 1 THEN kind ELSE other, (i + 1) \div 2>> \in Others
  <2>1. (i + 1) \div 2 \in Nat
    OBVIOUS
  <2>2. (IF i % 2 = 1 THEN kind ELSE other) \in Plain
    OBVIOUS
  <2> QED
    BY <2>1, <2>2 DEF Others
<1>2. 2 * n \in Nat
  OBVIOUS
<1>3. Pairs(kind, other, n) \in [1 .. 2 * n -> Others]
  BY <1>1 DEF Pairs
<1> QED
  BY <1>2, <1>3, SeqDef

LEMMA PlainRegisters ==
  ToSet(Settings) \cup ToSet(Details) \subseteq Registers \ SetpointRegs
<1>1. Row("heater", NHeaters) \in Seq(Others) /\ <<<<"separate modes", 1>>>> \in Seq(Others)
  <2> DEFINE modes == <<"separate modes", 1>>
  <2>1. modes \in Others
    BY DEF Others, Plain
  <2> HIDE DEF modes
  <2>2. <<modes>> \in Seq(Others)
    BY <2>1
  <2>3. Row("heater", NHeaters) \in Seq(Others)
    BY RowKinds, RequesterAssumption DEF Plain
  <2> QED
    BY <2>2, <2>3 DEF modes
<1>2. Settings \in Seq(Others)
  BY <1>1, ConcatProperties DEF Settings
<1>3. /\ Row("timer", NTimers) \in Seq(Others) /\ Row("valve label", NValves) \in Seq(Others)
      /\ Pairs("multicolor", "zone name", NZones) \in Seq(Others)
      /\ Pairs("favourite enable", "favourite label", NFavourites) \in Seq(Others)
  BY RowKinds, PairKinds, RequesterAssumption DEF Plain
<1>4. Details \in Seq(Others)
  BY <1>3, ConcatProperties DEF Details
<1>5. \A r \in Others : r \notin SetpointRegs
  <2>1. ASSUME NEW r \in Others, r \in SetpointRegs
        PROVE  FALSE
    <3>1. r[1] \in Plain
      BY DEF Others
    <3>2. r[1] \in {"pool setpoint", "spa setpoint"}
      <4>1. PICK kind \in {"pool setpoint", "spa setpoint"}, n \in 1 .. NHeaters : r = <<kind, n>>
        BY <2>1, SetpointsAre
      <4> QED
        BY <4>1
    <3> QED
      BY <3>1, <3>2 DEF Plain
  <2> QED
    BY <2>1
<1>6. ToSet(Settings) \subseteq Others /\ ToSet(Details) \subseteq Others
  BY <1>2, <1>4, LenProperties, ElementOfSeq DEF ToSet
<1> QED
  BY <1>5, <1>6 DEF Registers

LEMMA MissingTypes ==
  ASSUME NEW state, NEW used, NEW present
  PROVE  /\ Missing(state, used, present) \subseteq Registers
         /\ \A r \in Missing(state, used, present) \cap SetpointRegs : ~ GivenUp(r)
<1>1. Missing(state, used, present) \subseteq Registers
  BY DEF Missing, Registers
<1> QED
  BY <1>1, PlainRegisters DEF Missing

LEMMA QueueHead ==
  ASSUME TypeOK, queue # <<>>
  PROVE  /\ Head(queue) \in SetpointRegs \cup {Rescan} /\ Len(Tail(queue)) = Len(queue) - 1
         /\ Tail(queue) \in Seq(SetpointRegs \cup {Rescan}) /\ Len(Tail(queue)) <= QueueLen
<1>1. Len(queue) \in Nat /\ Len(queue) <= QueueLen /\ QueueLen \in Nat
  BY RequesterAssumption, LenProperties DEF TypeOK
<1>2. Len(Tail(queue)) = Len(queue) - 1
  BY HeadTailProperties DEF TypeOK
<1> QED
  BY <1>1, <1>2, HeadTailProperties DEF TypeOK

LEMMA Lengths ==
  ASSUME TypeOK
  PROVE  /\ Len(inbox) \in Nat /\ Len(applying) \in Nat /\ await \in Nat
         /\ await <= Len(inbox) + Len(applying) /\ Sofar \in Seq(Frames)
         /\ Len(Sofar) = Len(applying) + Len(inbox)
<1>1. Frames \ Reads \subseteq Frames
  OBVIOUS
<1>2. inbox \in Seq(Frames) /\ applying \in Seq(Frames)
  BY <1>1, SeqMonotonic DEF TypeOK
<1>3. Len(inbox) \in Nat /\ Len(applying) \in Nat
  BY <1>2, LenProperties
<1>4. Sofar \in Seq(Frames) /\ Len(Sofar) = Len(applying) + Len(inbox)
  BY <1>2, ConcatProperties, Zenon DEF Sofar
<1> QED
  BY <1>3, <1>4 DEF TypeOK

LEMMA InitTypes == Init => TypeOK
<1> SUFFICES ASSUME Init PROVE TypeOK
  OBVIOUS
<1> USE DEF Init
<1>1. held \in [Registers -> Values \cup {Unknown}]
  OBVIOUS
<1>2. actual \in [Registers -> Values]
  BY DEF Values
<1>3. /\ inbox \in Seq(Frames) /\ applying \in Seq(Frames \ Reads) /\ heard \in Seq(Tidings)
      /\ queue \in Seq(SetpointRegs \cup {Rescan})
      /\ Len(queue) = 0 /\ Len(inbox) = 0 /\ Len(applying) = 0
  BY EmptySeq
<1>4. attempts \in [SetpointRegs -> 0 .. MaxAttempts] /\ modeAsks \in 0 .. ModeAttempts
  BY RequesterAssumption
<1>5. mqtt \in Commands
  BY DEF Commands, Idle
<1>6. Len(queue) <= QueueLen /\ await \in 0 .. Len(inbox) + Len(applying)
  BY <1>3, RequesterAssumption
<1>7. events \in Nat /\ faults \in Nat /\ crossed \in BOOLEAN /\ unheard \in BOOLEAN
  OBVIOUS
<1>8. /\ inUse \subseteq Equipment /\ gateway \in BOOLEAN /\ phase \in {"boot", "due", "sweep", "wait", "settle"}
      /\ plan \subseteq Registers /\ asked \in Values \cup {Unknown} /\ missed \subseteq SetpointRegs
  OBVIOUS
<1> HIDE DEF Init
<1> QED
  BY <1>1, <1>2, <1>3, <1>4, <1>5, <1>6, <1>7, <1>8 DEF TypeOK

(* The actions of the requester's task.                                      *)
LEMMA RequesterTypes ==
  ASSUME TypeOK, SweepInv, Requester
  PROVE  TypeOK' /\ SweepInv'
<1> USE Lengths DEF bounds, poolVars, deviceVars, historyVars
<1>1. CASE AskMode
  <2>1. Read(Mode) \in Frames
    BY ReadsAre, SetpointsApart
  <2>2. /\ inbox' \in Seq(Frames) /\ Len(inbox) <= Len(inbox') /\ Len(inbox') \in Nat
        /\ faults' \in Nat /\ missed' \subseteq SetpointRegs /\ crossed' \in BOOLEAN
    BY <1>1, <2>1, SendTypes, LenProperties DEF AskMode
  <2>3. modeAsks' \in 0 .. ModeAttempts
    BY <1>1, RequesterAssumption DEF AskMode, TypeOK
  <2>4. TypeOK'
    BY <1>1, <2>2, <2>3 DEF AskMode, TypeOK
  <2> QED
    BY <1>1, <2>4 DEF AskMode, SweepInv
<1>2. CASE EndOfStartup
  <2>1. modeAsks' \in 0 .. ModeAttempts /\ phase' = "due"
    BY <1>2, RequesterAssumption DEF EndOfStartup
  <2>2. TypeOK'
    BY <1>2, <2>1 DEF EndOfStartup, TypeOK
  <2> QED
    BY <2>1, <2>2 DEF SweepInv
<1>3. CASE Snapshot
  <2>1. PICK state, used, present : StartSweep(Missing(state, used, present))
    BY <1>3 DEF Snapshot
  <2>2. plan' \subseteq Registers /\ \A r \in plan' \cap SetpointRegs : ~ GivenUp(r)
    BY <2>1, MissingTypes DEF StartSweep
  <2>3. phase' \in {"wait", "sweep"}
    BY <2>1 DEF StartSweep
  <2>4. faults' = faults \/ faults' = faults + 1
    BY <1>3 DEF Snapshot, Fault
  <2>5. TypeOK'
    BY <1>3, <2>2, <2>3, <2>4 DEF Snapshot, TypeOK
  <2>6. \A r \in plan' \cap SetpointRegs : attempts'[r] < MaxAttempts
    BY <1>3, <2>2, RequesterAssumption DEF Snapshot, GivenUp, TypeOK
  <2> QED
    BY <2>5, <2>6 DEF SweepInv
<1>4. CASE Ask
  <2>1. PICK r \in plan :
          /\ attempts' = IF r \in SetpointRegs THEN [attempts EXCEPT ![r] = @ + 1] ELSE attempts
          /\ plan' = plan \ {r} /\ phase' = IF plan' = {} THEN "wait" ELSE "sweep"
          /\ Send(Read(r))
    BY <1>4 DEF Ask
  <2>2. r \in Registers /\ Read(r) \in Frames
    BY ReadsAre DEF TypeOK
  <2>3. /\ inbox' \in Seq(Frames) /\ Len(inbox) <= Len(inbox') /\ Len(inbox') \in Nat
        /\ faults' \in Nat /\ missed' \subseteq SetpointRegs /\ crossed' \in BOOLEAN
    BY <2>1, <2>2, SendTypes, LenProperties
  <2>4. attempts' \in [SetpointRegs -> 0 .. MaxAttempts]
    <3>1. CASE r \in SetpointRegs
      <4>1. attempts[r] \in Nat /\ attempts[r] < MaxAttempts /\ MaxAttempts \in Nat
        BY <1>4, <3>1, RequesterAssumption DEF Ask, SweepInv, TypeOK
      <4>2. attempts' = [attempts EXCEPT ![r] = @ + 1] /\ attempts[r] + 1 \in 0 .. MaxAttempts
        BY <2>1, <3>1, <4>1
      <4> QED
        BY <3>1, <4>2 DEF TypeOK
    <3>2. CASE r \notin SetpointRegs
      BY <2>1, <3>2 DEF TypeOK
    <3> QED
      BY <3>1, <3>2
  <2>5. plan' \subseteq Registers /\ phase' \in {"wait", "sweep"}
    BY <2>1 DEF TypeOK
  <2>6. TypeOK'
    <3>1. UNCHANGED <<held, inUse, gateway, actual, applying, heard, modeAsks, queue, await, mqtt,
                      events, asked, unheard>>
      BY <1>4 DEF Ask
    <3> QED
      BY <2>3, <2>4, <2>5, <3>1 DEF TypeOK
  <2>7. \A q \in plan' \cap SetpointRegs : q \in plan /\ attempts'[q] = attempts[q]
    BY <2>1 DEF TypeOK
  <2> QED
    BY <1>4, <2>6, <2>7 DEF Ask, SweepInv
<1>5. CASE Receive
  <2>1. phase' \in {"due", "settle"}
    BY <1>5 DEF Receive
  <2>2. plan' \subseteq Registers
    BY <1>5, QueueHead, SetpointsApart DEF Receive, TypeOK
  <2>3. await' \in 0 .. Len(inbox) + Len(applying)
    BY <1>5 DEF Receive, Delay, TypeOK
  <2>4. queue' \in Seq(SetpointRegs \cup {Rescan}) /\ Len(queue') <= QueueLen
    BY <1>5, QueueHead DEF Receive
  <2>5. TypeOK'
    BY <1>5, <2>1, <2>2, <2>3, <2>4 DEF Receive, TypeOK
  <2> QED
    BY <2>1, <2>5 DEF SweepInv
<1>6. CASE ReadBack
  <2>1. PICK r \in plan : Send(Read(r))
    BY <1>6 DEF ReadBack
  <2>2. r \in Registers /\ Read(r) \in Frames
    BY ReadsAre DEF TypeOK
  <2>3. /\ inbox' \in Seq(Frames) /\ Len(inbox) <= Len(inbox') /\ Len(inbox') \in Nat
        /\ faults' \in Nat /\ missed' \subseteq SetpointRegs /\ crossed' \in BOOLEAN
    BY <2>1, <2>2, SendTypes, LenProperties
  <2>4. TypeOK'
    BY <1>6, <2>3 DEF ReadBack, TypeOK
  <2> QED
    BY <1>6, <2>4 DEF ReadBack, SweepInv
<1> QED
  BY <1>1, <1>2, <1>3, <1>4, <1>5, <1>6 DEF Requester

(* The MQTT task's.                                                          *)
LEMMA MqttTypes ==
  ASSUME TypeOK, SweepInv, MqttTask
  PROVE  TypeOK' /\ SweepInv'
<1> USE Lengths DEF bounds, poolVars, deviceVars, historyVars, taskVars
<1>1. CASE WriteSetpoint
  <2>1. PICK r \in SetpointRegs, v \in Values :
          Send(Write(r, v)) /\ mqtt' = [do |-> "read back", reg |-> r]
    BY <1>1 DEF WriteSetpoint
  <2>2. Write(r, v) \in Frames /\ mqtt' \in Commands
    <3>1. Write(r, v) \in Frames
      BY DEF Frames
    <3> QED
      BY <2>1, <3>1 DEF Commands
  <2>3. /\ inbox' \in Seq(Frames) /\ Len(inbox) <= Len(inbox') /\ Len(inbox') \in Nat
        /\ faults' \in Nat /\ missed' \subseteq SetpointRegs /\ crossed' \in BOOLEAN
    BY <2>1, <2>2, SendTypes, LenProperties
  <2>4. Event /\ UNCHANGED <<poolVars, actual, applying, heard, taskVars, queue, asked, unheard>>
    BY <1>1 DEF WriteSetpoint, NewCommand
  <2>5. events' \in Nat
    BY <2>4 DEF Event, TypeOK
  <2> QED
    BY <2>2, <2>3, <2>4, <2>5 DEF TypeOK, SweepInv
<1>2. CASE PostReadBack
  <2>1. mqtt.reg \in SetpointRegs
    BY <1>2 DEF PostReadBack, TypeOK, Commands
  <2>2. queue' \in Seq(SetpointRegs \cup {Rescan}) /\ Len(queue') <= QueueLen
    BY <1>2, <2>1, PostTypes DEF PostReadBack
  <2>3. missed' \subseteq SetpointRegs /\ mqtt' \in Commands
    BY <1>2, <2>1 DEF PostReadBack, TypeOK, Commands, Idle
  <2> QED
    BY <1>2, <2>2, <2>3 DEF PostReadBack, TypeOK, SweepInv
<1>3. CASE ModeCommand
  <2>1. mqtt' \in Commands /\ asked' \in Values
    BY <1>3 DEF ModeCommand, Commands, Idle
  <2>2. crossed' \in BOOLEAN /\ events' \in Nat
    BY <1>3 DEF ModeCommand, NewCommand, Event, TypeOK, ModeQuiet
  <2> QED
    BY <1>3, <2>1, <2>2 DEF ModeCommand, TypeOK, SweepInv
<1>4. CASE SendToggle
  <2>1. Toggle \in Frames
    BY DEF Frames
  <2>2. /\ inbox' \in Seq(Frames) /\ Len(inbox) <= Len(inbox') /\ Len(inbox') \in Nat
        /\ faults' \in Nat /\ missed' \subseteq SetpointRegs /\ crossed' \in BOOLEAN
    BY <1>4, <2>1, SendTypes, LenProperties DEF SendToggle
  <2>3. mqtt' \in Commands
    BY <1>4 DEF SendToggle, Commands, Idle
  <2> QED
    BY <1>4, <2>2, <2>3 DEF SendToggle, TypeOK, SweepInv
<1> QED
  BY <1>1, <1>2, <1>3, <1>4 DEF MqttTask

LEMMA InboxHead ==
  ASSUME TypeOK, inbox # <<>>
  PROVE  /\ Head(inbox) \in Frames /\ Tail(inbox) \in Seq(Frames)
         /\ Len(Tail(inbox)) = Len(inbox) - 1
BY HeadTailProperties DEF TypeOK

LEMMA ApplyingHead ==
  ASSUME TypeOK, applying # <<>>
  PROVE  /\ Head(applying) \in Frames \ Reads /\ Tail(applying) \in Seq(Frames \ Reads)
         /\ Len(Tail(applying)) = Len(applying) - 1
BY HeadTailProperties DEF TypeOK

LEMMA OtherTypes ==
  ASSUME NEW v \in Values
  PROVE  Other(v) \in Values /\ Other(v) # v /\ \A w \in Values : w # v => w = Other(v)
BY DEF Values, Other, No, Yes

(* The devices'.                                                             *)
LEMMA DeviceTypes ==
  ASSUME TypeOK, SweepInv, Devices
  PROVE  TypeOK' /\ SweepInv'
<1> USE Lengths DEF bounds, poolVars, deviceVars, historyVars, taskVars
<1>1. CASE DeviceHears
  <2> DEFINE f == Head(inbox)
  <2>1. /\ inbox # <<>> /\ inbox' = Tail(inbox) /\ f \in Frames
        /\ inbox' \in Seq(Frames) /\ Len(inbox') = Len(inbox) - 1
    BY <1>1, InboxHead DEF DeviceHears
  <2>2. f.reg \in Registers
    BY <2>1, FramesAre
  <2> HIDE DEF f
  <2>3. /\ heard' \in Seq(Tidings) /\ faults' \in Nat
        /\ missed' \subseteq SetpointRegs /\ unheard' \in BOOLEAN
    <3>1. News(f.reg, actual[f.reg]) \in Tidings
      BY <2>2 DEF News, Tidings, TypeOK
    <3>2. CASE Tell(News(f.reg, actual[f.reg]))
      BY <3>1, <3>2, TellTypes
    <3>3. CASE UNCHANGED <<heard, faults, missed, unheard>>
      BY <3>3 DEF TypeOK
    <3> QED
      BY <1>1, <3>2, <3>3 DEF DeviceHears, f
  <2>4. \/ applying' = applying
        \/ f.op # "read" /\ applying' = Append(applying, f)
    BY <1>1 DEF DeviceHears, f
  <2>5. f.op # "read" => f \in Frames \ Reads
    BY <2>1 DEF Reads, Read
  <2>6. /\ applying' \in Seq(Frames \ Reads)
        /\ f.op # "read" => Len(applying') = Len(applying) + 1
        /\ Len(applying') \in {Len(applying), Len(applying) + 1}
    <3>1. f.op # "read" => applying' = Append(applying, f)
      BY <1>1 DEF DeviceHears, f
    <3>2. CASE f.op # "read"
      <4>1. f \in Frames \ Reads /\ applying \in Seq(Frames \ Reads)
        BY <2>5, <3>2 DEF TypeOK
      <4>2. /\ Append(applying, f) \in Seq(Frames \ Reads)
            /\ Len(Append(applying, f)) = Len(applying) + 1
        BY <4>1, AppendProperties
      <4> QED
        BY <3>1, <3>2, <4>2
    <3>3. CASE f.op = "read"
      BY <2>4, <3>3 DEF TypeOK
    <3> QED
      BY <3>2, <3>3
  <2>7. await' = IF f.op = "read" /\ await > Len(applying) THEN await - 1 ELSE await
    BY <1>1 DEF DeviceHears, f
  <2>8. await' \in 0 .. Len(inbox') + Len(applying')
    BY <2>1, <2>6, <2>7
  <2>9. UNCHANGED <<held, inUse, gateway, actual, phase, plan, attempts, modeAsks, queue, mqtt,
                    events, asked, crossed>>
    BY <1>1 DEF DeviceHears
  <2> QED
    BY <2>1, <2>3, <2>6, <2>8, <2>9 DEF TypeOK, SweepInv
<1>2. CASE DeviceApplies
  <2> DEFINE f == Head(applying)
  <2>1. /\ applying # <<>> /\ applying' = Tail(applying) /\ f \in Frames \ Reads
        /\ applying' \in Seq(Frames \ Reads) /\ Len(applying') = Len(applying) - 1
    BY <1>2, ApplyingHead DEF DeviceApplies
  <2> HIDE DEF f
  <2>2. actual' \in [Registers -> Values]
    <3>1. CASE f.op = "write" /\ actual' = [actual EXCEPT ![f.reg] = f.val]
      BY <2>1, <3>1, FramesAre, SetpointsApart DEF TypeOK
    <3>2. CASE actual' = [actual EXCEPT ![Mode] = Other(@)]
      BY <3>2, OtherTypes, SetpointsApart DEF TypeOK
    <3> QED
      BY <1>2, <3>1, <3>2 DEF DeviceApplies, f
  <2>3. /\ heard' \in Seq(Tidings) /\ faults' \in Nat
        /\ missed' \subseteq SetpointRegs /\ unheard' \in BOOLEAN
    <3>1. News(Mode, actual'[Mode]) \in Tidings
      BY <2>2, SetpointsApart DEF News, Tidings
    <3>2. CASE Tell(News(Mode, actual'[Mode]))
      BY <3>1, <3>2, TellTypes
    <3>3. CASE UNCHANGED <<heard, faults, missed, unheard>>
      BY <3>3 DEF TypeOK
    <3> QED
      BY <1>2, <3>2, <3>3 DEF DeviceApplies, f
  <2>4. await' \in 0 .. Len(inbox') + Len(applying')
    BY <1>2, <2>1 DEF DeviceApplies
  <2>5. UNCHANGED <<held, inUse, gateway, inbox, phase, plan, attempts, modeAsks, queue, mqtt,
                    events, asked, crossed>>
    BY <1>2 DEF DeviceApplies
  <2> QED
    BY <2>1, <2>2, <2>3, <2>4, <2>5 DEF TypeOK, SweepInv
<1>3. CASE PanelToggles
  <2>1. actual' \in [Registers -> Values]
    BY <1>3, OtherTypes, SetpointsApart DEF PanelToggles, TypeOK
  <2>2. News(Mode, actual'[Mode]) \in Tidings
    BY <2>1, SetpointsApart DEF News, Tidings
  <2>3. /\ heard' \in Seq(Tidings) /\ faults' \in Nat
        /\ missed' \subseteq SetpointRegs /\ unheard' \in BOOLEAN
    BY <1>3, <2>2, TellTypes DEF PanelToggles
  <2>4. asked' \in Values \cup {Unknown} /\ crossed' \in BOOLEAN /\ events' \in Nat
    BY <1>3 DEF PanelToggles, Event, TypeOK
  <2> QED
    BY <1>3, <2>1, <2>3, <2>4 DEF PanelToggles, TypeOK, SweepInv
<1> QED
  BY <1>1, <1>2, <1>3 DEF Devices

(* The decoder's.                                                            *)
LEMMA DecoderTypes ==
  ASSUME TypeOK, SweepInv, Decoder
  PROVE  TypeOK' /\ SweepInv'
<1> USE DEF bounds, poolVars, deviceVars, historyVars, taskVars
<1>1. CASE Decode
  <2>1. Head(heard) \in Tidings /\ Tail(heard) \in Seq(Tidings)
    BY <1>1, HeadTailProperties DEF Decode, TypeOK
  <2>2. held' \in [Registers -> Values \cup {Unknown}]
    BY <1>1, <2>1 DEF Decode, Tidings, TypeOK
  <2> QED
    BY <1>1, <2>1, <2>2 DEF Decode, TypeOK, SweepInv
<1>2. CASE EquipmentHeard
  <2>1. queue' \in Seq(SetpointRegs \cup {Rescan}) /\ Len(queue') <= QueueLen
    BY <1>2, PostTypes DEF EquipmentHeard
  <2>2. inUse' \subseteq Equipment /\ events' \in Nat
    BY <1>2 DEF EquipmentHeard, Event, TypeOK
  <2> QED
    BY <1>2, <2>1, <2>2 DEF EquipmentHeard, TypeOK, SweepInv
<1>3. CASE EquipmentGone
  <2>1. inUse' \subseteq Equipment /\ events' \in Nat
    BY <1>3 DEF EquipmentGone, Event, TypeOK
  <2> QED
    BY <1>3, <2>1 DEF EquipmentGone, TypeOK, SweepInv
<1>4. CASE GatewayHeard
  <2>1. gateway' \in BOOLEAN /\ events' \in Nat
    BY <1>4 DEF GatewayHeard, Event, TypeOK
  <2> QED
    BY <1>4, <2>1 DEF GatewayHeard, TypeOK, SweepInv
<1> QED
  BY <1>1, <1>2, <1>3, <1>4 DEF Decoder

(* Only the devices and the decoder change what is held, or is on its way.   *)
LEMMA QuietStep ==
  ASSUME [Next]_vars
  PROVE  \/ DeviceHears \/ DeviceApplies \/ PanelToggles \/ Decode
         \/ UNCHANGED <<held, actual, applying, heard, unheard>>
<1> USE DEF poolVars, deviceVars, historyVars
<1>1. CASE Requester
  BY <1>1 DEF Requester, AskMode, EndOfStartup, Snapshot, Ask, Receive, ReadBack
<1>2. CASE MqttTask
  BY <1>2 DEF MqttTask, WriteSetpoint, PostReadBack, ModeCommand, SendToggle
<1>3. CASE Decoder
  BY <1>3 DEF Decoder, EquipmentHeard, EquipmentGone, GatewayHeard
<1>4. CASE UNCHANGED vars
  BY <1>4 DEF vars
<1> QED
  BY <1>1, <1>2, <1>3, <1>4 DEF Next, Devices

LEMMA TypesKept == TypeOK /\ SweepInv /\ [Next]_vars => TypeOK' /\ SweepInv'
<1> SUFFICES ASSUME TypeOK, SweepInv, [Next]_vars
             PROVE  TypeOK' /\ SweepInv'
  OBVIOUS
<1>1. CASE UNCHANGED vars
  BY <1>1 DEF vars, poolVars, deviceVars, taskVars, bounds, historyVars, TypeOK, SweepInv
<1> QED
  BY <1>1, RequesterTypes, MqttTypes, DeviceTypes, DecoderTypes DEF Next

-----------------------------------------------------------------------------
(* What is told, and what is held.                                           *)

LEMMA HeardAppended ==
  ASSUME TypeOK, NEW n \in Tidings, heard' = Append(heard, n)
  PROVE  /\ Len(heard') = Len(heard) + 1 /\ Len(heard) \in Nat
         /\ DOMAIN heard = 1 .. Len(heard) /\ DOMAIN heard' = 1 .. Len(heard')
         /\ \A i \in DOMAIN heard : heard'[i] = heard[i]
         /\ heard'[Len(heard')] = n
<1>1. heard \in Seq(Tidings)
  BY DEF TypeOK
<1>2. heard' \in Seq(Tidings)
  BY <1>1, AppendProperties
<1> QED
  BY <1>1, <1>2, AppendProperties, LenProperties

(* What a device says of a register is the last word about it,               *)
LEMMA ToldAnew ==
  ASSUME TypeOK, NEW r \in Registers, NEW v \in Values,
         heard' = Append(heard, News(r, v)), actual'[r] = v
  PROVE  Told(r)'
<1>1. News(r, v) \in Tidings /\ News(r, v).reg = r /\ News(r, v).val = v
  BY DEF News, Tidings
<1>2. \A i \in DOMAIN heard' : i < Len(heard') => Len(heard') \in DOMAIN heard' /\ Len(heard') > i
  BY <1>1, HeardAppended
<1> QED
  BY <1>1, <1>2, HeardAppended DEF Told

(* and leaves the last word about others.                                    *)
LEMMA ToldStill ==
  ASSUME TypeOK, NEW r \in Registers, NEW q \in Registers, NEW v \in Values, q # r,
         heard' = Append(heard, News(q, v)), Told(r),
         actual'[r] = actual[r], held'[r] = held[r]
  PROVE  Told(r)'
<1>1. News(q, v) \in Tidings /\ News(q, v).reg # r
  BY DEF News, Tidings
<1>2. ASSUME NEW i \in DOMAIN heard', heard'[i].reg = r,
             \A j \in DOMAIN heard' : j > i => heard'[j].reg # r
      PROVE  heard'[i].val = actual'[r]
  <2>1. i \in DOMAIN heard
    BY <1>1, <1>2, HeardAppended
  <2>2. \A j \in DOMAIN heard : j > i => heard[j].reg # r
    BY <1>1, <1>2, HeardAppended
  <2> QED
    BY <1>1, <1>2, <2>1, <2>2, HeardAppended DEF Told
<1>3. (\A i \in DOMAIN heard' : heard'[i].reg # r) => \A i \in DOMAIN heard : heard[i].reg # r
  BY <1>1, HeardAppended
<1> QED
  BY <1>2, <1>3 DEF Told

LEMMA ToldSame ==
  ASSUME NEW r, Told(r), heard' = heard, actual'[r] = actual[r], held'[r] = held[r]
  PROVE  Told(r)'
BY DEF Told

LEMMA HeardHead ==
  ASSUME TypeOK, Decode
  PROVE  /\ Len(heard) \in Nat \ {0} /\ Len(heard') = Len(heard) - 1
         /\ DOMAIN heard = 1 .. Len(heard) /\ DOMAIN heard' = 1 .. Len(heard')
         /\ \A i \in DOMAIN heard' : heard'[i] = heard[i + 1]
         /\ Head(heard) = heard[1] /\ heard[1] \in Tidings
         /\ held' = [held EXCEPT ![heard[1].reg] = heard[1].val]
<1>1. heard \in Seq(Tidings) /\ heard # <<>> /\ heard' = Tail(heard)
  BY DEF Decode, TypeOK
<1>2. heard' \in Seq(Tidings) /\ Head(heard) = heard[1]
  BY <1>1, HeadTailProperties
<1> QED
  BY <1>1, <1>2, HeadTailProperties, LenProperties, EmptySeq DEF Decode

(* A word that is filed is held, and was the last one or is not.             *)
LEMMA ToldFiled ==
  ASSUME TypeOK, NEW r \in Registers, Told(r), Decode
  PROVE  Told(r)'
<1> DEFINE n == heard[1]
<1>1. n \in Tidings /\ held' = [held EXCEPT ![n.reg] = n.val]
  BY HeardHead
<1>2. held \in [Registers -> Values \cup {Unknown}] /\ actual' = actual
  BY DEF Decode, TypeOK, deviceVars
<1>3. held'[r] = IF n.reg = r THEN n.val ELSE held[r]
  BY <1>1, <1>2 DEF Tidings
<1>4. ASSUME NEW i \in DOMAIN heard', heard'[i].reg = r,
             \A j \in DOMAIN heard' : j > i => heard'[j].reg # r
      PROVE  heard'[i].val = actual'[r]
  <2>1. i + 1 \in DOMAIN heard /\ heard[i + 1] = heard'[i]
    BY HeardHead
  <2>2. ASSUME NEW j \in DOMAIN heard, j > i + 1
        PROVE  heard[j].reg # r
    <3>1. j - 1 \in DOMAIN heard' /\ j - 1 > i /\ heard'[j - 1] = heard[j]
      BY <2>2, HeardHead
    <3> QED
      BY <1>4, <3>1
  <2> QED
    BY <1>2, <1>4, <2>1, <2>2 DEF Told
<1>5. ASSUME \A i \in DOMAIN heard' : heard'[i].reg # r
      PROVE  held'[r] \in {actual'[r], Unknown}
  <2>1. ASSUME NEW j \in DOMAIN heard, j > 1
        PROVE  heard[j].reg # r
    <3>1. j - 1 \in DOMAIN heard' /\ heard'[j - 1] = heard[j]
      BY <2>1, HeardHead
    <3> QED
      BY <1>5, <3>1
  <2>2. 1 \in DOMAIN heard
    BY HeardHead
  <2>3. CASE n.reg = r
    BY <1>2, <1>3, <2>1, <2>2, <2>3 DEF Told
  <2>4. CASE n.reg # r
    <3>1. \A j \in DOMAIN heard : heard[j].reg # r
      BY <2>1, <2>2, <2>4, HeardHead
    <3> QED
      BY <1>2, <1>3, <2>4, <3>1 DEF Told
  <2> QED
    BY <2>3, <2>4
<1> QED
  BY <1>4, <1>5 DEF Told

(* What a frame does at a device.                                            *)
LEMMA Heard ==
  ASSUME TypeOK, DeviceHears
  PROVE  /\ Head(inbox) \in Frames /\ UNCHANGED <<held, actual>>
         /\ \/ /\ Head(inbox).op = "read" /\ Answers(Head(inbox).reg)
               /\ Tell(News(Head(inbox).reg, actual[Head(inbox).reg])) /\ applying' = applying
            \/ /\ Head(inbox).op = "read" /\ ~ Answers(Head(inbox).reg)
               /\ UNCHANGED <<heard, applying, missed, unheard>>
            \/ /\ Head(inbox).op # "read" /\ applying' = Append(applying, Head(inbox))
               /\ UNCHANGED <<heard, missed, unheard>>
BY InboxHead DEF DeviceHears, poolVars

LEMMA Applies ==
  ASSUME TypeOK, DeviceApplies
  PROVE  /\ UNCHANGED <<held, inbox>>
         /\ \/ /\ Head(applying).op = "write" /\ Head(applying).reg \in SetpointRegs
               /\ actual' = [actual EXCEPT ![Head(applying).reg] = Head(applying).val]
               /\ UNCHANGED <<heard, missed, unheard>>
            \/ /\ Head(applying).op = "toggle"
               /\ actual' = [actual EXCEPT ![Mode] = Other(@)]
               /\ Tell(News(Mode, actual'[Mode]))
<1>1. Head(applying) \in Frames
  BY ApplyingHead DEF DeviceApplies
<1>2. Head(applying).op = "write" => Head(applying).reg \in SetpointRegs
  BY <1>1, FramesAre
<1> QED
  BY <1>2 DEF DeviceApplies, poolVars

(* A device answers for the same registers before and after every step.      *)
LEMMA AnswersSame ==
  ASSUME TypeOK, SweepInv, [Next]_vars, NEW r \in SetpointRegs
  PROVE  Answers(r)' <=> Answers(r)
<1> DEFINE heater == <<"heater", r[2]>>
<1>1. heater \in Registers \ SetpointRegs /\ heater # Mode
  BY SetpointsApart
<1> HIDE DEF heater
<1>2. actual'[heater] = actual[heater]
  <2>1. CASE DeviceHears
    BY <2>1, Heard
  <2>2. CASE DeviceApplies
    BY <1>1, <2>2, Applies DEF TypeOK
  <2>3. CASE PanelToggles
    BY <1>1, <2>3 DEF PanelToggles, TypeOK
  <2>4. CASE Decode
    BY <2>4 DEF Decode
  <2> QED
    BY <2>1, <2>2, <2>3, <2>4, QuietStep
<1> QED
  BY <1>2 DEF Answers, heater

LEMMA SilenceKept ==
  ASSUME TypeOK, SweepInv, SilenceInv, [Next]_vars
  PROVE  SilenceInv'
<1> SUFFICES ASSUME NEW r \in SetpointRegs, ~ Answers(r)
             PROVE  /\ held'[r] = Unknown
                    /\ \A i \in DOMAIN heard' : heard'[i].reg # r
  BY AnswersSame DEF SilenceInv
<1>1. held[r] = Unknown /\ \A i \in DOMAIN heard : heard[i].reg # r
  BY DEF SilenceInv
<1>2. r \in Registers /\ r # Mode
  BY SetpointsApart
<1>3. ASSUME NEW q \in Registers, NEW v \in Values, q # r, Tell(News(q, v)), held' = held
      PROVE  /\ held'[r] = Unknown
             /\ \A i \in DOMAIN heard' : heard'[i].reg # r
  <2>1. News(q, v) \in Tidings /\ News(q, v).reg = q
    BY DEF News, Tidings
  <2>2. heard' = Append(heard, News(q, v)) \/ heard' = heard
    BY <1>3 DEF Tell
  <2> QED
    BY <1>1, <1>3, <2>1, <2>2, HeardAppended
<1>4. CASE DeviceHears
  <2> DEFINE f == Head(inbox)
  <2>1. f \in Frames /\ f.reg \in Registers /\ actual[f.reg] \in Values
    BY <1>4, Heard, FramesAre DEF TypeOK
  <2>2. CASE Answers(f.reg) /\ Tell(News(f.reg, actual[f.reg]))
    BY <1>3, <1>4, <2>1, <2>2, Heard
  <2>3. CASE heard' = heard
    BY <1>1, <1>4, <2>3, Heard
  <2> QED
    BY <1>4, <2>2, <2>3, Heard
<1>5. CASE DeviceApplies
  <2>1. Mode \in Registers /\ actual'[Mode] \in Values
    BY <1>5, TypesKept, SetpointsApart DEF TypeOK
  <2>2. CASE Tell(News(Mode, actual'[Mode]))
    BY <1>2, <1>3, <1>5, <2>1, <2>2, Applies
  <2>3. CASE heard' = heard
    BY <1>1, <1>5, <2>3, Applies
  <2> QED
    BY <1>5, <2>2, <2>3, Applies
<1>6. CASE PanelToggles
  <2>1. Mode \in Registers /\ actual'[Mode] \in Values
    BY <1>6, TypesKept, SetpointsApart DEF TypeOK
  <2> QED
    BY <1>2, <1>3, <1>6, <2>1 DEF PanelToggles, poolVars
<1>7. CASE Decode
  <2>1. heard[1].reg # r /\ heard[1] \in Tidings
    BY <1>1, <1>7, HeardHead
  <2>2. held'[r] = held[r]
    <3>1. held' = [held EXCEPT ![heard[1].reg] = heard[1].val]
      BY <1>7, HeardHead
    <3> QED
      BY <2>1, <3>1, <1>2 DEF TypeOK
  <2>3. \A i \in DOMAIN heard' : i + 1 \in DOMAIN heard /\ heard'[i] = heard[i + 1]
    BY <1>7, HeardHead
  <2> QED
    BY <1>1, <2>2, <2>3
<1>8. CASE UNCHANGED <<held, heard>>
  BY <1>1, <1>8
<1> QED
  BY <1>4, <1>5, <1>6, <1>7, <1>8, QuietStep

LEMMA WordKept ==
  ASSUME TypeOK, SweepInv, WordInv, [Next]_vars
  PROVE  WordInv'
<1>1. Mode \in Registers /\ Mode \notin SetpointRegs
  BY SetpointsApart
<1>2. actual \in [Registers -> Values] /\ actual' \in [Registers -> Values]
  BY TypesKept DEF TypeOK
<1>3. ASSUME Tell(News(Mode, actual'[Mode]))
      PROVE  WordInv'
  <2>1. CASE heard' = Append(heard, News(Mode, actual'[Mode]))
    <3>1. actual'[Mode] \in Values
      BY <1>1, <1>2
    <3> QED
      BY <1>1, <2>1, <3>1, ToldAnew DEF WordInv
  <2>2. CASE unheard' = (unheard \/ News(Mode, actual'[Mode]).reg = Mode)
    BY <2>2 DEF WordInv, News
  <2> QED
    BY <1>3, <2>1, <2>2 DEF Tell
<1>4. ASSUME NEW q \in Registers, NEW v \in Values, q # Mode, Tell(News(q, v)),
             UNCHANGED <<held, actual>>
      PROVE  WordInv'
  <2>1. unheard => unheard'
    BY <1>4 DEF Tell, News
  <2>2. heard' = heard \/ heard' = Append(heard, News(q, v))
    BY <1>4 DEF Tell
  <2>3. Told(Mode) => Told(Mode)'
    BY <1>1, <1>4, <2>2, ToldStill, ToldSame
  <2> QED
    BY <2>1, <2>3 DEF WordInv
<1>5. ASSUME UNCHANGED <<held, heard, unheard>>, actual'[Mode] = actual[Mode]
      PROVE  WordInv'
  BY <1>5, ToldSame DEF WordInv
<1>6. CASE DeviceHears
  <2> DEFINE f == Head(inbox)
  <2>1. f \in Frames /\ f.reg \in Registers /\ actual[f.reg] \in Values
    BY <1>2, <1>6, Heard, FramesAre
  <2>2. CASE Tell(News(f.reg, actual[f.reg]))
    BY <1>3, <1>4, <1>6, <2>1, <2>2, Heard
  <2>3. CASE UNCHANGED <<heard, unheard>>
    BY <1>5, <1>6, <2>3, Heard
  <2> QED
    BY <1>6, <2>2, <2>3, Heard
<1>7. CASE DeviceApplies
  <2>1. CASE Tell(News(Mode, actual'[Mode]))
    BY <1>3, <2>1
  <2>2. CASE /\ Head(applying).reg \in SetpointRegs
             /\ actual' = [actual EXCEPT ![Head(applying).reg] = Head(applying).val]
             /\ UNCHANGED <<heard, unheard>>
    BY <1>1, <1>2, <1>5, <1>7, <2>2, Applies
  <2> QED
    BY <1>7, <2>1, <2>2, Applies
<1>8. CASE PanelToggles
  BY <1>3, <1>8 DEF PanelToggles
<1>9. CASE Decode
  <2>1. unheard' = unheard
    BY <1>9 DEF Decode, historyVars
  <2> QED
    BY <1>1, <1>9, <2>1, ToldFiled DEF WordInv
<1> QED
  BY <1>5, <1>6, <1>7, <1>8, <1>9, QuietStep

-----------------------------------------------------------------------------
(* The mode.                                                                 *)

LEMMA TogglesAppended ==
  ASSUME NEW S, NEW s \in Seq(S), NEW f \in S
  PROVE  /\ NoToggle(s) /\ f.op # "toggle" => NoToggle(Append(s, f))
         /\ OneToggle(s) /\ f.op # "toggle" => OneToggle(Append(s, f))
         /\ NoToggle(s) /\ f.op = "toggle" => OneToggle(Append(s, f))
<1> DEFINE t == Append(s, f)
<1>1. /\ Len(s) \in Nat /\ DOMAIN s = 1 .. Len(s) /\ DOMAIN t = 1 .. Len(s) + 1
      /\ \A i \in DOMAIN s : t[i] = s[i]
      /\ t[Len(s) + 1] = f
  BY AppendProperties, LenProperties
<1> HIDE DEF t
<1>2. \A i \in DOMAIN t : i \in DOMAIN s \/ i = Len(s) + 1
  BY <1>1
<1>3. NoToggle(s) /\ f.op # "toggle" => NoToggle(t)
  BY <1>1, <1>2 DEF NoToggle
<1>4. ASSUME OneToggle(s), f.op # "toggle"
      PROVE  OneToggle(t)
  <2>1. PICK i \in DOMAIN s : \A j \in DOMAIN s : s[j].op = "toggle" <=> j = i
    BY <1>4 DEF OneToggle
  <2>2. i \in DOMAIN t /\ \A j \in DOMAIN t : t[j].op = "toggle" <=> j = i
    BY <1>1, <1>2, <1>4, <2>1
  <2> QED
    BY <2>2 DEF OneToggle
<1>5. ASSUME NoToggle(s), f.op = "toggle"
      PROVE  OneToggle(t)
  <2>1. /\ Len(s) + 1 \in DOMAIN t
        /\ \A j \in DOMAIN t : t[j].op = "toggle" <=> j = Len(s) + 1
    BY <1>1, <1>2, <1>5 DEF NoToggle
  <2> QED
    BY <2>1 DEF OneToggle
<1> QED
  BY <1>3, <1>4, <1>5 DEF t

LEMMA TogglesTaken ==
  ASSUME NEW S, NEW s \in Seq(S), s # <<>>
  PROVE  /\ NoToggle(s) => Head(s).op # "toggle" /\ NoToggle(Tail(s))
         /\ OneToggle(s) /\ Head(s).op # "toggle" => OneToggle(Tail(s))
         /\ OneToggle(s) /\ Head(s).op = "toggle" => NoToggle(Tail(s))
<1> DEFINE t == Tail(s)
<1>1. /\ Len(s) \in Nat \ {0} /\ DOMAIN s = 1 .. Len(s) /\ DOMAIN t = 1 .. Len(s) - 1
      /\ \A i \in DOMAIN t : i + 1 \in DOMAIN s /\ t[i] = s[i + 1]
      /\ Head(s) = s[1] /\ 1 \in DOMAIN s
  BY HeadTailProperties, LenProperties, EmptySeq
<1> HIDE DEF t
<1>2. NoToggle(s) => Head(s).op # "toggle" /\ NoToggle(t)
  BY <1>1 DEF NoToggle
<1>3. ASSUME OneToggle(s), Head(s).op # "toggle"
      PROVE  OneToggle(t)
  <2>1. PICK i \in DOMAIN s : \A j \in DOMAIN s : s[j].op = "toggle" <=> j = i
    BY <1>3 DEF OneToggle
  <2>2. i # 1 /\ i - 1 \in DOMAIN t
    BY <1>1, <1>3, <2>1
  <2>3. \A j \in DOMAIN t : t[j].op = "toggle" <=> j = i - 1
    BY <1>1, <2>1
  <2> QED
    BY <2>2, <2>3 DEF OneToggle
<1>4. ASSUME OneToggle(s), Head(s).op = "toggle"
      PROVE  NoToggle(t)
  <2>1. PICK i \in DOMAIN s : \A j \in DOMAIN s : s[j].op = "toggle" <=> j = i
    BY <1>4 DEF OneToggle
  <2>2. i = 1
    BY <1>1, <1>4, <2>1
  <2> QED
    BY <1>1, <2>1, <2>2 DEF NoToggle
<1> QED
  BY <1>2, <1>3, <1>4 DEF t

(* A frame that is no toggle, sent or lost, leaves the mode as it was asked. *)
LEMMA ToggleSent ==
  ASSUME TypeOK, ToggleInv, NEW f \in Frames, f.op # "toggle", Send(f),
         UNCHANGED <<actual, applying, asked>>,
         (mqtt.do = "toggle") <=> (mqtt.do = "toggle")'
  PROVE  ToggleInv'
<1>1. asked' # Unknown /\ ~ crossed' => asked # Unknown /\ ~ crossed
  BY DEF Send, Sent, Lost
<1>2. inbox' = inbox \/ inbox' = Append(inbox, f)
  BY DEF Send, Sent, Lost
<1>3. (NoToggle(inbox) => NoToggle(inbox')) /\ (OneToggle(inbox) => OneToggle(inbox'))
  BY <1>2, TogglesAppended DEF TypeOK
<1>4. (NoToggle(applying) => NoToggle(applying')) /\ (OneToggle(applying) => OneToggle(applying'))
  OBVIOUS
<1> QED
  BY <1>1, <1>3, <1>4 DEF ToggleInv

LEMMA ToggleKept ==
  ASSUME TypeOK, SweepInv, WordInv, ToggleInv, [Next]_vars
  PROVE  ToggleInv'
<1>1. Mode \in Registers \ SetpointRegs /\ TypeOK'
  BY SetpointsApart, TypesKept
<1>2. ASSUME UNCHANGED <<actual, inbox, applying, asked, crossed>>,
             (mqtt.do = "toggle") <=> (mqtt.do = "toggle")'
      PROVE  ToggleInv'
  BY <1>2 DEF ToggleInv, NoToggle, OneToggle
<1>3. CASE Requester
  <2> USE DEF poolVars, deviceVars, historyVars
  <2>1. CASE UNCHANGED <<deviceVars, historyVars, mqtt>>
    BY <1>2, <2>1
  <2>2. CASE AskMode \/ Ask \/ ReadBack
    <3>1. PICK r \in Registers : Send(Read(r))
      BY <1>1, <2>2 DEF AskMode, Ask, ReadBack, TypeOK
    <3>2. Read(r) \in Frames /\ Read(r).op # "toggle"
      BY ReadsAre
    <3>3. UNCHANGED <<actual, applying, asked, mqtt>>
      BY <2>2 DEF AskMode, Ask, ReadBack
    <3> QED
      BY <3>1, <3>2, <3>3, ToggleSent
  <2> QED
    BY <1>3, <2>1, <2>2 DEF Requester, EndOfStartup, Snapshot, Receive
<1>4. CASE WriteSetpoint
  <2>1. PICK r \in SetpointRegs, v \in Values :
          Send(Write(r, v)) /\ mqtt' = [do |-> "read back", reg |-> r]
    BY <1>4 DEF WriteSetpoint
  <2>2. Write(r, v) \in Frames /\ Write(r, v).op # "toggle"
    BY DEF Frames, Write
  <2>3. mqtt.do # "toggle" /\ mqtt'.do # "toggle" /\ UNCHANGED <<actual, applying, asked>>
    BY <1>4, <2>1 DEF WriteSetpoint, NewCommand, Idle
  <2> QED
    BY <2>1, <2>2, <2>3, ToggleSent
<1>5. CASE PostReadBack
  <2>1. mqtt.do # "toggle" /\ mqtt'.do # "toggle"
    BY <1>5 DEF PostReadBack, Idle
  <2> QED
    BY <1>2, <1>5, <2>1 DEF PostReadBack, deviceVars
<1>6. CASE ModeCommand
  <2> SUFFICES ASSUME ~ crossed' PROVE ToggleInv'
    BY DEF ToggleInv
  <2>1. ~ unheard /\ ModeQuiet /\ UNCHANGED <<held, actual, inbox, applying>>
    BY <1>6 DEF ModeCommand, poolVars, deviceVars
  <2>2. held[Mode] = actual[Mode]
    BY <1>6, <2>1 DEF WordInv, Told, ModeQuiet, About, ModeCommand
  <2>3. NoToggle(inbox') /\ NoToggle(applying')
    <3>1. \A i \in DOMAIN inbox : inbox[i] \in Frames
      BY LenProperties, ElementOfSeq DEF TypeOK
    <3>2. \A i \in DOMAIN applying : applying[i] \in Frames
      BY LenProperties, ElementOfSeq DEF TypeOK
    <3> QED
      BY <2>1, <3>1, <3>2, FramesAre DEF ModeQuiet, About, NoToggle
  <2>4. \/ mqtt'.do = "toggle" /\ actual[Mode] # asked'
        \/ mqtt'.do # "toggle" /\ actual[Mode] = asked'
    BY <1>6, <2>2 DEF ModeCommand, Differs, Idle
  <2> QED
    BY <2>1, <2>3, <2>4 DEF ToggleInv
<1>7. CASE SendToggle
  <2> SUFFICES ASSUME asked' # Unknown, ~ crossed' PROVE ToggleInv'
    BY DEF ToggleInv
  <2>1. /\ mqtt.do = "toggle" /\ mqtt'.do # "toggle" /\ Toggle.op = "toggle"
        /\ UNCHANGED <<actual, applying, asked>>
    BY <1>7 DEF SendToggle, Idle, Toggle
  <2>2. Sent(Toggle)
    BY <1>7, <2>1 DEF SendToggle, Send, Lost
  <2>3. inbox' = Append(inbox, Toggle) /\ ~ crossed
    BY <2>2 DEF Sent
  <2>4. actual[Mode] # asked /\ NoToggle(inbox) /\ NoToggle(applying)
    BY <2>1, <2>3 DEF ToggleInv
  <2>5. OneToggle(inbox') /\ NoToggle(applying')
    BY <2>1, <2>3, <2>4, TogglesAppended DEF TypeOK, Frames, NoToggle
  <2> QED
    BY <2>1, <2>4, <2>5 DEF ToggleInv
<1>8. CASE DeviceHears
  <2> DEFINE f == Head(inbox)
  <2>1. /\ inbox # <<>> /\ inbox' = Tail(inbox)
        /\ UNCHANGED <<actual, mqtt, asked, crossed>>
    BY <1>8 DEF DeviceHears
  <2>2. /\ NoToggle(inbox) => f.op # "toggle" /\ NoToggle(inbox')
        /\ OneToggle(inbox) /\ f.op # "toggle" => OneToggle(inbox')
        /\ OneToggle(inbox) /\ f.op = "toggle" => NoToggle(inbox')
    BY <2>1, TogglesTaken DEF TypeOK
  <2>3. \/ applying' = applying /\ f.op = "read"
        \/ applying' = Append(applying, f) /\ f.op # "read"
    BY <1>8, Heard
  <2>4. /\ f.op # "toggle" => /\ NoToggle(applying) => NoToggle(applying')
                              /\ OneToggle(applying) => OneToggle(applying')
        /\ f.op = "toggle" /\ NoToggle(applying) => OneToggle(applying')
    <3>1. CASE applying' = applying /\ f.op = "read"
      BY <3>1
    <3>2. CASE applying' = Append(applying, f) /\ f.op # "read"
      <4>1. f \in Frames \ Reads
        BY <1>8, <3>2, Heard DEF Reads, Read
      <4> QED
        BY <3>2, <4>1, TogglesAppended DEF TypeOK
    <3> QED
      BY <2>3, <3>1, <3>2
  <2> QED
    BY <2>1, <2>2, <2>4 DEF ToggleInv
<1>9. CASE DeviceApplies
  <2> DEFINE f == Head(applying)
  <2>1. /\ applying # <<>> /\ applying' = Tail(applying)
        /\ UNCHANGED <<inbox, mqtt, asked, crossed>>
    BY <1>9 DEF DeviceApplies
  <2>2. /\ NoToggle(applying) => f.op # "toggle" /\ NoToggle(applying')
        /\ OneToggle(applying) /\ f.op # "toggle" => OneToggle(applying')
        /\ OneToggle(applying) /\ f.op = "toggle" => NoToggle(applying')
    BY <2>1, TogglesTaken DEF TypeOK
  <2>3. /\ actual[Mode] \in Values
        /\ \/ f.op = "write" /\ actual'[Mode] = actual[Mode]
           \/ f.op = "toggle" /\ actual'[Mode] = Other(actual[Mode])
    BY <1>1, <1>9, Applies DEF TypeOK
  <2>4. asked # Unknown => asked \in Values
    BY DEF TypeOK
  <2> QED
    BY <2>1, <2>2, <2>3, <2>4, OtherTypes DEF ToggleInv, NoToggle, OneToggle
<1>10. CASE PanelToggles
  <2>1. asked' = Unknown \/ crossed'
    BY <1>10 DEF PanelToggles
  <2> QED
    BY <2>1 DEF ToggleInv
<1>11. CASE Decoder
  BY <1>2, <1>11 DEF Decoder, Decode, EquipmentHeard, EquipmentGone, GatewayHeard, deviceVars,
                     historyVars
<1>12. CASE UNCHANGED vars
  BY <1>2, <1>12 DEF vars, deviceVars, historyVars
<1> QED
  BY <1>3, <1>4, <1>5, <1>6, <1>7, <1>8, <1>9, <1>10, <1>11, <1>12 DEF Next, MqttTask, Devices

-----------------------------------------------------------------------------
(* Read-backs.                                                               *)

(* A setpoint in the care of someone: what ReadBackInv says of it.           *)
Followed(r) == Due(r) \/ Delayed(r) \/ Requested(r) \/ Settled(r)

LEMMA Domains ==
  ASSUME TypeOK
  PROVE  /\ DOMAIN inbox = 1 .. Len(inbox) /\ DOMAIN applying = 1 .. Len(applying)
         /\ DOMAIN queue = 1 .. Len(queue) /\ Len(queue) \in Nat
         /\ \A i \in DOMAIN inbox : inbox[i] \in Frames
         /\ \A i \in DOMAIN applying : applying[i] \in Frames \ Reads
BY LenProperties, ElementOfSeq DEF TypeOK

LEMMA QueueAppended ==
  ASSUME TypeOK, NEW entry \in SetpointRegs \cup {Rescan}, Post(entry)
  PROVE  /\ \A r : (\E i \in DOMAIN queue : queue[i] = r) => \E i \in DOMAIN queue' : queue'[i] = r
         /\ Len(queue) < QueueLen => \E i \in DOMAIN queue' : queue'[i] = entry
<1>1. CASE Len(queue) < QueueLen
  <2>1. queue' = Append(queue, entry) /\ queue \in Seq(SetpointRegs \cup {Rescan})
    BY <1>1 DEF Post, TypeOK
  <2>2. /\ Len(queue) \in Nat /\ DOMAIN queue = 1 .. Len(queue)
        /\ DOMAIN queue' = 1 .. Len(queue) + 1
        /\ \A i \in DOMAIN queue : queue'[i] = queue[i]
        /\ queue'[Len(queue) + 1] = entry
    BY <2>1, AppendProperties, LenProperties
  <2>3. \A i \in DOMAIN queue : i \in DOMAIN queue'
    BY <2>2
  <2>4. Len(queue) + 1 \in DOMAIN queue'
    BY <2>2
  <2> QED
    BY <2>2, <2>3, <2>4
<1>2. CASE ~ (Len(queue) < QueueLen)
  BY <1>2 DEF Post
<1> QED
  BY <1>1, <1>2

LEMMA InboxAppended ==
  ASSUME TypeOK, NEW f \in Frames, Send(f)
  PROVE  /\ \A i \in DOMAIN inbox : i \in DOMAIN inbox' /\ inbox'[i] = inbox[i]
         /\ \A i \in DOMAIN inbox' : i \in DOMAIN inbox \/ inbox'[i] = f
         /\ Sent(f) => \E i \in DOMAIN inbox' : inbox'[i] = f
<1>1. CASE Sent(f)
  <2>1. inbox' = Append(inbox, f) /\ inbox \in Seq(Frames)
    BY <1>1 DEF Sent, TypeOK
  <2>2. /\ Len(inbox) \in Nat /\ DOMAIN inbox = 1 .. Len(inbox)
        /\ DOMAIN inbox' = 1 .. Len(inbox) + 1
        /\ \A i \in DOMAIN inbox : inbox'[i] = inbox[i]
        /\ inbox'[Len(inbox) + 1] = f
    BY <2>1, AppendProperties, LenProperties
  <2>3. Len(inbox) + 1 \in DOMAIN inbox' /\ \A i \in DOMAIN inbox : i \in DOMAIN inbox'
    BY <2>2
  <2>4. \A i \in DOMAIN inbox' : i \in DOMAIN inbox \/ i = Len(inbox) + 1
    BY <2>2
  <2> QED
    BY <2>2, <2>3, <2>4
<1>2. CASE Lost(f)
  <2>1. inbox' = inbox
    BY <1>2 DEF Lost
  <2>2. CASE Sent(f)
    BY <1>1, <2>2
  <2> QED
    BY <2>1, <2>2
<1> QED
  BY <1>1, <1>2 DEF Send

(* Sending something else leaves a setpoint in the same care.                *)
LEMMA FollowedSent ==
  ASSUME TypeOK, NEW r \in SetpointRegs, NEW f \in Frames, Send(f),
         f.op = "write" => f.reg # r,
         UNCHANGED <<held, actual, applying, heard>>
  PROVE  /\ Requested(r) => Requested(r)'
         /\ Settled(r) => Settled(r)'
         /\ Delayed(r) /\ UNCHANGED <<phase, plan, await>> => Delayed(r)'
         /\ r \notin missed' => r \notin missed
<1>1. Applied(r) => Applied(r)'
  BY InboxAppended DEF Applied
<1>2. Requested(r) => Requested(r)'
  BY <1>1, InboxAppended DEF Requested
<1>3. Settled(r) => Settled(r)'
  BY <1>1, ToldSame DEF Settled
<1>4. Delayed(r) /\ UNCHANGED <<phase, plan, await>> => Delayed(r)'
  BY InboxAppended DEF Delayed
<1>5. r \notin missed' => r \notin missed
  BY DEF Send, Sent, Lost
<1> QED
  BY <1>2, <1>3, <1>4, <1>5

LEMMA FollowedSame ==
  ASSUME NEW r \in SetpointRegs,
         UNCHANGED <<held, actual, inbox, applying, heard>>
  PROVE  /\ Requested(r) => Requested(r)'
         /\ Settled(r) => Settled(r)'
         /\ Delayed(r) /\ UNCHANGED <<phase, plan, await>> => Delayed(r)'
BY DEF Requested, Settled, Delayed, Applied, Told

LEMMA RequesterFollows ==
  ASSUME TypeOK, ReadBackInv, Requester
  PROVE  ReadBackInv'
<1> USE DEF poolVars, deviceVars, historyVars
<1> SUFFICES ASSUME NEW r \in SetpointRegs, r \notin missed'
             PROVE  Followed(r)'
  BY DEF ReadBackInv, Followed
<1>1. r \notin missed => Due(r) \/ Delayed(r) \/ Requested(r) \/ Settled(r)
  BY DEF ReadBackInv
<1>2. CASE AskMode \/ Ask
  <2>1. PICK q \in Registers : Send(Read(q))
    BY <1>2, SetpointsApart DEF AskMode, Ask, TypeOK
  <2>2. Read(q) \in Frames /\ Read(q).op = "read"
    BY ReadsAre
  <2>3. UNCHANGED <<held, actual, applying, heard, queue, mqtt>> /\ phase # "settle"
    BY <1>2 DEF AskMode, Ask
  <2>4. r \notin missed /\ ~ Delayed(r)
    BY <2>1, <2>2, <2>3, FollowedSent DEF Delayed
  <2>5. Due(r) => Due(r)'
    BY <2>3 DEF Due
  <2> QED
    BY <1>1, <2>1, <2>2, <2>3, <2>4, <2>5, FollowedSent DEF Followed
<1>3. CASE EndOfStartup \/ Snapshot
  <2>1. /\ UNCHANGED <<held, actual, inbox, applying, heard, queue, mqtt, missed>>
        /\ phase # "settle"
    BY <1>3 DEF EndOfStartup, Snapshot
  <2>2. (Due(r) => Due(r)') /\ ~ Delayed(r)
    BY <2>1 DEF Due, Delayed
  <2> QED
    BY <1>1, <2>1, <2>2, FollowedSame DEF Followed
<1>4. CASE Receive
  <2>1. /\ UNCHANGED <<held, actual, inbox, applying, heard, mqtt, missed>>
        /\ phase # "settle" /\ queue # <<>> /\ queue' = Tail(queue)
    BY <1>4 DEF Receive
  <2>2. ASSUME Due(r)
        PROVE  Due(r)' \/ Delayed(r)'
    <3>1. CASE mqtt.do = "read back" /\ mqtt.reg = r
      BY <2>1, <3>1 DEF Due
    <3>2. CASE Head(queue) = r
      <4>1. phase' = "settle" /\ plan' = {r} /\ await' = Len(applying) + Len(inbox)
        BY <1>4, <3>2, SetpointsApart, Lengths DEF Receive, Delay
      <4>2. \A i \in DOMAIN applying : i <= await'
        BY <4>1, Domains, Lengths
      <4>3. \A i \in DOMAIN inbox : Len(applying) + i <= await'
        BY <4>1, Domains, Lengths
      <4> QED
        BY <2>1, <4>1, <4>2, <4>3 DEF Delayed
    <3>3. CASE \E i \in DOMAIN queue : queue[i] = r /\ i # 1
      <4>1. queue \in Seq(SetpointRegs \cup {Rescan}) /\ queue' \in Seq(SetpointRegs \cup {Rescan})
        BY <2>1, QueueHead DEF TypeOK
      <4>2. PICK i \in DOMAIN queue : queue[i] = r /\ i # 1
        BY <3>3
      <4>3. i - 1 \in DOMAIN queue' /\ queue'[i - 1] = r
        BY <2>1, <4>1, <4>2, HeadTailProperties, LenProperties
      <4> QED
        BY <4>3 DEF Due
    <3>4. Head(queue) = queue[1]
      BY <2>1 DEF TypeOK
    <3> QED
      BY <2>2, <3>1, <3>2, <3>3, <3>4 DEF Due
  <2>3. ~ Delayed(r)
    BY <2>1 DEF Delayed
  <2> QED
    BY <1>1, <2>1, <2>2, <2>3, FollowedSame DEF Followed
<1>5. CASE ReadBack
  <2>1. PICK q \in plan : Send(Read(q))
    BY <1>5 DEF ReadBack
  <2>2. /\ q \in Registers /\ Read(q) \in Frames /\ Read(q).op = "read" /\ Read(q).reg = q
    BY ReadsAre DEF TypeOK
  <2>3. UNCHANGED <<held, actual, applying, heard, queue, mqtt>> /\ ~ Waiting
    BY <1>5 DEF ReadBack
  <2>4. r \notin missed
    BY <2>1, <2>2, <2>3, FollowedSent
  <2>5. ASSUME Delayed(r)
        PROVE  Requested(r)'
    <3>1. q = r /\ Sent(Read(r))
      BY <2>1, <2>2, <2>5 DEF Delayed, Send, Lost
    <3>2. \A i \in DOMAIN applying : applying[i].reg # r
      <4>1. ASSUME NEW i \in DOMAIN applying, applying[i].reg = r
            PROVE  FALSE
        <5>1. i \in 1 .. await
          BY <2>5, <4>1, Domains, Lengths DEF Delayed
        <5>2. Sofar[i] = applying[i]
          BY <4>1, Domains DEF Sofar
        <5>3. applying[i].op # "read"
          BY <4>1, Domains, FramesAre
        <5> QED
          BY <2>3, <5>1, <5>2, <5>3 DEF Waiting
      <4> QED
        BY <4>1
    <3>3. \A i \in DOMAIN inbox : inbox[i].op = "write" => inbox[i].reg # r
      <4>1. ASSUME NEW i \in DOMAIN inbox, inbox[i].op = "write", inbox[i].reg = r
            PROVE  FALSE
        <5>1. Len(applying) + i \in 1 .. await
          BY <2>5, <4>1, Domains, Lengths DEF Delayed
        <5>2. Sofar[Len(applying) + i] = inbox[i]
          <6>1. inbox \in Seq(Frames) /\ applying \in Seq(Frames)
            BY SeqMonotonic DEF TypeOK
          <6> QED
            BY <4>1, <6>1, Domains, Lengths, ConcatProperties DEF Sofar
        <5> QED
          BY <2>3, <4>1, <5>1, <5>2 DEF Waiting
      <4> QED
        BY <4>1
    <3>4. Applied(r)'
      BY <2>1, <2>2, <2>3, <3>2, <3>3, InboxAppended DEF Applied
    <3> QED
      BY <2>1, <2>2, <3>1, <3>4, InboxAppended DEF Requested
  <2>6. Due(r) => Due(r)'
    BY <2>3 DEF Due
  <2> QED
    BY <1>1, <2>1, <2>2, <2>3, <2>4, <2>5, <2>6, FollowedSent DEF Followed
<1> QED
  BY <1>2, <1>3, <1>4, <1>5 DEF Requester

LEMMA MqttFollows ==
  ASSUME TypeOK, ReadBackInv, MqttTask
  PROVE  ReadBackInv'
<1> USE DEF poolVars, deviceVars, taskVars, historyVars
<1> SUFFICES ASSUME NEW r \in SetpointRegs, r \notin missed'
             PROVE  Followed(r)'
  BY DEF ReadBackInv, Followed
<1>1. r \notin missed => Due(r) \/ Delayed(r) \/ Requested(r) \/ Settled(r)
  BY DEF ReadBackInv
<1>2. CASE WriteSetpoint
  <2>1. PICK q \in SetpointRegs, v \in Values :
          Send(Write(q, v)) /\ mqtt' = [do |-> "read back", reg |-> q]
    BY <1>2 DEF WriteSetpoint
  <2>2. Write(q, v) \in Frames /\ Write(q, v).reg = q
    BY DEF Frames, Write
  <2>3. /\ UNCHANGED <<held, actual, applying, heard, queue, phase, plan, await>>
        /\ mqtt.do = "nothing"
    BY <1>2 DEF WriteSetpoint, NewCommand, Idle
  <2>4. CASE q = r
    BY <2>1, <2>4 DEF Followed, Due
  <2>5. CASE q # r
    <3>1. Due(r) => Due(r)'
      BY <2>3 DEF Due
    <3> QED
      BY <1>1, <2>1, <2>2, <2>3, <2>5, <3>1, FollowedSent DEF Followed
  <2> QED
    BY <2>4, <2>5
<1>3. CASE PostReadBack
  <2>1. /\ mqtt.do = "read back" /\ mqtt.reg \in SetpointRegs /\ Post(mqtt.reg)
        /\ missed' = IF Len(queue) < QueueLen THEN missed \ {mqtt.reg} ELSE missed \cup {mqtt.reg}
        /\ UNCHANGED <<held, actual, inbox, applying, heard, phase, plan, await>>
    BY <1>3 DEF PostReadBack, TypeOK, Commands
  <2>2. CASE mqtt.reg = r
    <3>1. Len(queue) < QueueLen
      BY <2>1, <2>2
    <3> QED
      BY <2>1, <2>2, <3>1, QueueAppended DEF Followed, Due
  <2>3. CASE mqtt.reg # r
    <3>1. r \notin missed
      BY <2>1, <2>3
    <3>2. Due(r) => Due(r)'
      BY <2>1, <2>3, QueueAppended DEF Due
    <3> QED
      BY <1>1, <2>1, <3>1, <3>2, FollowedSame DEF Followed
  <2> QED
    BY <2>2, <2>3
<1>4. CASE ModeCommand
  <2>1. /\ mqtt.do = "nothing"
        /\ UNCHANGED <<held, actual, inbox, applying, heard, phase, plan, await, queue, missed>>
    BY <1>4 DEF ModeCommand, NewCommand, Idle
  <2>2. Due(r) => Due(r)'
    BY <2>1 DEF Due
  <2> QED
    BY <1>1, <2>1, <2>2, FollowedSame DEF Followed
<1>5. CASE SendToggle
  <2>1. /\ mqtt.do = "toggle" /\ Send(Toggle)
        /\ UNCHANGED <<held, actual, applying, heard, phase, plan, await, queue>>
    BY <1>5 DEF SendToggle
  <2>2. Toggle \in Frames /\ Toggle.op # "write"
    BY DEF Frames, Toggle
  <2>3. Due(r) => Due(r)'
    BY <2>1 DEF Due
  <2> QED
    BY <1>1, <2>1, <2>2, <2>3, FollowedSent DEF Followed
<1> QED
  BY <1>2, <1>3, <1>4, <1>5 DEF MqttTask

LEMMA DecoderFollows ==
  ASSUME TypeOK, ReadBackInv, Decoder
  PROVE  ReadBackInv'
<1> USE DEF poolVars, deviceVars, taskVars, historyVars
<1> SUFFICES ASSUME NEW r \in SetpointRegs, r \notin missed'
             PROVE  Followed(r)'
  BY DEF ReadBackInv, Followed
<1>1. /\ UNCHANGED <<actual, inbox, applying, phase, plan, await, mqtt, missed>>
      /\ UNCHANGED <<held, heard>> \/ Decode
      /\ queue' = queue \/ Post(Rescan)
  BY DEF Decoder, Decode, EquipmentHeard, EquipmentGone, GatewayHeard
<1>2. Due(r) \/ Delayed(r) \/ Requested(r) \/ Settled(r)
  BY <1>1 DEF ReadBackInv
<1>3. Due(r) => Due(r)'
  BY <1>1, QueueAppended DEF Due
<1>4. Delayed(r) => Delayed(r)'
  BY <1>1 DEF Delayed
<1>5. (Requested(r) => Requested(r)') /\ (Applied(r) => Applied(r)')
  BY <1>1 DEF Requested, Applied
<1>6. Told(r) => Told(r)'
  BY <1>1, ToldFiled, ToldSame, SetpointsApart
<1> QED
  BY <1>2, <1>3, <1>4, <1>5, <1>6 DEF Followed, Settled

(* The frame at the head of the inbox is one less to come.                   *)
LEMMA InboxShifted ==
  ASSUME TypeOK, inbox # <<>>, inbox' = Tail(inbox)
  PROVE  /\ \A i \in DOMAIN inbox' : i + 1 \in DOMAIN inbox /\ inbox'[i] = inbox[i + 1]
         /\ \A i \in DOMAIN inbox : i # 1 => i - 1 \in DOMAIN inbox' /\ inbox'[i - 1] = inbox[i]
         /\ 1 \in DOMAIN inbox /\ Head(inbox) = inbox[1]
         /\ \A i \in DOMAIN inbox' : i \in Nat
<1>1. inbox \in Seq(Frames) /\ inbox' \in Seq(Frames)
  BY InboxHead DEF TypeOK
<1> QED
  BY <1>1, HeadTailProperties, LenProperties, EmptySeq

LEMMA ApplyingShifted ==
  ASSUME TypeOK, applying # <<>>, applying' = Tail(applying)
  PROVE  /\ \A i \in DOMAIN applying' : /\ i + 1 \in DOMAIN applying /\ i \in Nat
                                        /\ applying'[i] = applying[i + 1]
         /\ 1 \in DOMAIN applying /\ Head(applying) = applying[1]
         /\ Len(applying') = Len(applying) - 1
<1>1. applying \in Seq(Frames \ Reads) /\ applying' \in Seq(Frames \ Reads)
  BY ApplyingHead DEF TypeOK
<1> QED
  BY <1>1, HeadTailProperties, LenProperties, EmptySeq

LEMMA ApplyingAppended ==
  ASSUME TypeOK, NEW f \in Frames \ Reads, applying' = Append(applying, f)
  PROVE  /\ \A i \in DOMAIN applying' :
              \/ i \in DOMAIN applying /\ applying'[i] = applying[i]
              \/ i = Len(applying) + 1 /\ applying'[i] = f
         /\ Len(applying') = Len(applying) + 1
<1>1. applying \in Seq(Frames \ Reads) /\ applying' \in Seq(Frames \ Reads)
  BY AppendProperties DEF TypeOK
<1> QED
  BY <1>1, AppendProperties, LenProperties

(* A device tells what it has, or the word is lost.                          *)
LEMMA ToldBy ==
  ASSUME TypeOK, NEW r \in SetpointRegs, NEW q \in Registers, NEW v \in Values,
         Tell(News(q, v)), actual'[r] = actual[r], held' = held,
         q = r => v = actual[r]
  PROVE  /\ r \notin missed' => r \notin missed
         /\ Told(r) \/ q = r => Told(r)' \/ r \in missed'
<1>1. r \in Registers /\ News(q, v).reg = q
  BY SetpointsApart DEF News
<1>2. CASE heard' = Append(heard, News(q, v)) /\ missed' = missed
  <2>1. q = r => Told(r)'
    BY <1>1, <1>2, ToldAnew
  <2>2. q # r /\ Told(r) => Told(r)'
    BY <1>1, <1>2, ToldStill
  <2> QED
    BY <1>2, <2>1, <2>2
<1>3. CASE heard' = heard /\ missed' = missed \cup ({News(q, v).reg} \cap SetpointRegs)
  <2>1. Told(r) => Told(r)'
    BY <1>3, ToldSame
  <2> QED
    BY <1>1, <1>3, <2>1
<1> QED
  BY <1>2, <1>3 DEF Tell

LEMMA HearingFollows ==
  ASSUME TypeOK, SilenceInv, ReadBackInv, DeviceHears
  PROVE  ReadBackInv'
<1> USE DEF taskVars
<1> SUFFICES ASSUME NEW r \in SetpointRegs, r \notin missed'
             PROVE  Followed(r)'
  BY DEF ReadBackInv, Followed
<1> DEFINE f == Head(inbox)
<1>1. /\ inbox # <<>> /\ inbox' = Tail(inbox) /\ f \in Frames /\ f = inbox[1]
      /\ UNCHANGED <<held, actual, phase, plan, queue, mqtt>>
      /\ await' = IF f.op = "read" /\ await > Len(applying) THEN await - 1 ELSE await
  BY Heard, InboxShifted DEF DeviceHears
<1>2. /\ f.reg \in Registers /\ actual[f.reg] \in Values
      /\ f.op = "write" => f.reg \in SetpointRegs
      /\ f.op = "toggle" => f.reg = Mode /\ f.reg # r
      /\ f.op \in {"read", "write", "toggle"}
  BY <1>1, FramesAre, SetpointsApart DEF TypeOK
<1>3. \/ f.op = "read" /\ applying' = applying
      \/ f.op # "read" /\ f \in Frames \ Reads /\ applying' = Append(applying, f)
  <2>1. f.op # "read" => f \notin Reads
    BY DEF Reads, Read
  <2> QED
    BY <1>1, <2>1, Heard
<1> HIDE DEF f
(* Whatever is told of the setpoint is true of it.                           *)
<1>4. /\ r \notin missed' => r \notin missed
      /\ Told(r) => Told(r)' \/ r \in missed'
      /\ f.op = "read" /\ f.reg = r => Told(r)' \/ r \in missed'
  <2>1. CASE f.op = "read" /\ Tell(News(f.reg, actual[f.reg]))
    BY <1>1, <1>2, <2>1, ToldBy
  <2>2. CASE f.op = "read" /\ ~ Answers(f.reg) /\ UNCHANGED <<heard, missed>>
    <3>1. f.reg = r => Told(r)
      BY <2>2 DEF SilenceInv, Told
    <3> QED
      BY <1>1, <2>2, <3>1, ToldSame
  <2>3. CASE f.op # "read" /\ UNCHANGED <<heard, missed>>
    BY <1>1, <2>3, ToldSame
  <2> QED
    BY <2>1, <2>2, <2>3, Heard DEF f
<1>5. Due(r) => Due(r)'
  BY <1>1 DEF Due
<1>6. ASSUME Delayed(r)
      PROVE  Delayed(r)'
  <2>1. CASE f.op = "read" /\ applying' = applying
    <3>1. \A i \in DOMAIN applying : i <= await => i <= await'
      BY <1>1, <2>1, Domains, Lengths
    <3>2. ASSUME NEW i \in DOMAIN inbox', inbox'[i].op = "write", inbox'[i].reg = r
          PROVE  Len(applying) + i <= await'
      <4>1. Len(applying) + (i + 1) <= await /\ i \in Nat
        BY <1>1, <1>6, <3>2, InboxShifted DEF Delayed
      <4> QED
        BY <1>1, <2>1, <4>1, Lengths
    <3> QED
      BY <1>1, <1>6, <2>1, <3>1, <3>2 DEF Delayed
  <2>2. CASE f.op # "read" /\ f \in Frames \ Reads /\ applying' = Append(applying, f)
    <3>1. await' = await /\ Len(applying') = Len(applying) + 1
      BY <1>1, <2>2, ApplyingAppended
    <3>2. ASSUME NEW i \in DOMAIN applying', applying'[i].reg = r
          PROVE  i <= await
      <4>1. CASE i \in DOMAIN applying /\ applying'[i] = applying[i]
        BY <1>6, <3>2, <4>1 DEF Delayed
      <4>2. CASE i = Len(applying) + 1 /\ applying'[i] = f
        BY <1>1, <1>2, <1>6, <2>2, <3>2, <4>2, InboxShifted DEF Delayed
      <4> QED
        BY <2>2, <4>1, <4>2, ApplyingAppended
    <3>3. ASSUME NEW i \in DOMAIN inbox', inbox'[i].op = "write", inbox'[i].reg = r
          PROVE  Len(applying') + i <= await
      <4>1. Len(applying) + (i + 1) <= await /\ i \in Nat
        BY <1>1, <1>6, <3>3, InboxShifted DEF Delayed
      <4> QED
        BY <3>1, <4>1, Lengths
    <3> QED
      BY <1>1, <1>6, <3>1, <3>2, <3>3 DEF Delayed
  <2> QED
    BY <1>3, <2>1, <2>2
<1>7. ASSUME Applied(r)
      PROVE  Applied(r)'
  <2>1. \A i \in DOMAIN inbox' : inbox'[i].op = "write" => inbox'[i].reg # r
    BY <1>1, <1>7, InboxShifted DEF Applied
  <2>2. f.op = "write" => f.reg # r
    BY <1>1, <1>7, InboxShifted DEF Applied
  <2>3. \A i \in DOMAIN applying' : applying'[i].reg # r
    BY <1>2, <1>3, <1>7, <2>2, ApplyingAppended DEF Applied
  <2> QED
    BY <2>1, <2>3 DEF Applied
<1>8. ASSUME Requested(r)
      PROVE  Requested(r)' \/ Settled(r)'
  <2>1. PICK i \in DOMAIN inbox : inbox[i] = Read(r)
    BY <1>8 DEF Requested
  <2>2. CASE i = 1
    <3>1. f.op = "read" /\ f.reg = r
      BY <1>1, <2>1, <2>2 DEF Read
    <3> QED
      BY <1>4, <1>7, <1>8, <3>1 DEF Requested, Settled
  <2>3. CASE i # 1
    <3>1. i - 1 \in DOMAIN inbox' /\ inbox'[i - 1] = Read(r)
      BY <1>1, <2>1, <2>3, InboxShifted
    <3> QED
      BY <1>7, <1>8, <3>1 DEF Requested
  <2> QED
    BY <2>2, <2>3
<1>9. Settled(r) => Settled(r)'
  BY <1>4, <1>7 DEF Settled
<1> QED
  BY <1>4, <1>5, <1>6, <1>8, <1>9 DEF ReadBackInv, Followed

LEMMA ApplyingFollows ==
  ASSUME TypeOK, ReadBackInv, DeviceApplies, TypeOK'
  PROVE  ReadBackInv'
<1> USE DEF taskVars
<1> SUFFICES ASSUME NEW r \in SetpointRegs, r \notin missed'
             PROVE  Followed(r)'
  BY DEF ReadBackInv, Followed
<1> DEFINE f == Head(applying)
<1>1. /\ applying # <<>> /\ applying' = Tail(applying) /\ f = applying[1]
      /\ 1 \in DOMAIN applying /\ Len(applying') = Len(applying) - 1
      /\ UNCHANGED <<held, inbox, phase, plan, queue, mqtt>>
      /\ await' = IF await > 0 THEN await - 1 ELSE 0
  BY ApplyingShifted DEF DeviceApplies, poolVars
<1>2. \/ /\ f.reg \in SetpointRegs /\ actual' = [actual EXCEPT ![f.reg] = f.val]
         /\ UNCHANGED <<heard, missed>>
      \/ actual' = [actual EXCEPT ![Mode] = Other(@)] /\ Tell(News(Mode, actual'[Mode]))
  BY Applies
<1> HIDE DEF f
<1>3. r \in Registers /\ r # Mode /\ Mode \in Registers
  BY SetpointsApart
<1>4. f.reg # r => actual'[r] = actual[r]
  BY <1>2, <1>3 DEF TypeOK
<1>5. /\ r \notin missed' => r \notin missed
      /\ f.reg # r /\ Told(r) => Told(r)' \/ r \in missed'
  <2>1. CASE UNCHANGED <<heard, missed>>
    BY <1>1, <1>4, <2>1, ToldSame
  <2>2. CASE actual' = [actual EXCEPT ![Mode] = Other(@)] /\ Tell(News(Mode, actual'[Mode]))
    <3>1. actual'[Mode] \in Values /\ actual'[r] = actual[r]
      BY <1>3, <2>2 DEF TypeOK
    <3> QED
      BY <1>1, <1>3, <2>2, <3>1, ToldBy
  <2> QED
    BY <1>2, <2>1, <2>2
<1>6. Due(r) => Due(r)'
  BY <1>1 DEF Due
<1>7. ASSUME Delayed(r)
      PROVE  Delayed(r)'
  <2>1. \A i \in DOMAIN applying' : applying'[i].reg = r => i + 1 <= await /\ i \in Nat
    BY <1>1, <1>7, ApplyingShifted DEF Delayed
  <2>2. \A i \in DOMAIN inbox : inbox[i].op = "write" /\ inbox[i].reg = r =>
          Len(applying') + i + 1 <= await /\ i \in Nat
    BY <1>1, <1>7, Domains, Lengths DEF Delayed
  <2>3. Len(applying') \in Nat /\ await \in Nat
    BY Lengths, LenProperties DEF TypeOK
  <2> QED
    BY <1>1, <1>7, <2>1, <2>2, <2>3 DEF Delayed
<1>8. Applied(r) => Applied(r)' /\ f.reg # r
  BY <1>1, ApplyingShifted DEF Applied
<1>9. Requested(r) => Requested(r)'
  BY <1>1, <1>8 DEF Requested
<1>10. Settled(r) => Settled(r)'
  BY <1>5, <1>8 DEF Settled
<1> QED
  BY <1>5, <1>6, <1>7, <1>9, <1>10 DEF ReadBackInv, Followed

LEMMA PanelFollows ==
  ASSUME TypeOK, ReadBackInv, PanelToggles, TypeOK'
  PROVE  ReadBackInv'
<1> USE DEF taskVars, poolVars
<1> SUFFICES ASSUME NEW r \in SetpointRegs, r \notin missed'
             PROVE  Followed(r)'
  BY DEF ReadBackInv, Followed
<1>1. r \in Registers /\ r # Mode /\ Mode \in Registers
  BY SetpointsApart
<1>2. /\ UNCHANGED <<held, inbox, applying, phase, plan, await, queue, mqtt>>
      /\ actual'[r] = actual[r] /\ actual'[Mode] \in Values /\ Tell(News(Mode, actual'[Mode]))
  BY <1>1 DEF PanelToggles, TypeOK
<1>3. r \notin missed /\ (Told(r) => Told(r)')
  BY <1>1, <1>2, ToldBy
<1>4. /\ Due(r) => Due(r)'
      /\ Delayed(r) => Delayed(r)'
      /\ Applied(r) => Applied(r)'
      /\ Requested(r) => Requested(r)'
  BY <1>2 DEF Due, Delayed, Applied, Requested
<1> QED
  BY <1>3, <1>4 DEF ReadBackInv, Followed, Settled

-----------------------------------------------------------------------------
(* The invariant holds.                                                      *)
LEMMA InvHolds == Spec => []Inv
<1>1. Init => Inv
  <2> SUFFICES ASSUME Init PROVE Inv
    OBVIOUS
  <2>1. SweepInv /\ WordInv /\ ToggleInv
    BY SetpointsApart DEF Init, SweepInv, WordInv, ToggleInv, Told
  <2>2. SilenceInv
    BY SetpointsApart DEF Init, SilenceInv
  <2>3. ReadBackInv
    BY SetpointsApart DEF Init, ReadBackInv, Settled, Applied, Told
  <2> QED
    BY <2>1, <2>2, <2>3, InitTypes DEF Inv
<1>2. Inv /\ [Next]_vars => Inv'
  <2> SUFFICES ASSUME Inv, [Next]_vars PROVE Inv'
    OBVIOUS
  <2>1. TypeOK' /\ SweepInv' /\ SilenceInv' /\ WordInv' /\ ToggleInv'
    BY TypesKept, SilenceKept, WordKept, ToggleKept DEF Inv
  <2>2. ASSUME UNCHANGED vars
        PROVE  ReadBackInv'
    <3>1. UNCHANGED <<held, actual, inbox, applying, heard, phase, plan, await, queue, mqtt, missed>>
      BY <2>2 DEF vars, poolVars, deviceVars, taskVars, historyVars
    <3> SUFFICES ASSUME NEW r \in SetpointRegs, r \notin missed'
                 PROVE  Followed(r)'
      BY DEF ReadBackInv, Followed
    <3>2. Due(r) \/ Delayed(r) \/ Requested(r) \/ Settled(r)
      BY <3>1 DEF Inv, ReadBackInv
    <3>3. Due(r) => Due(r)'
      BY <3>1 DEF Due
    <3> QED
      BY <3>1, <3>2, <3>3, FollowedSame DEF Followed
  <2>3. ReadBackInv'
    BY <2>1, <2>2, RequesterFollows, MqttFollows, DecoderFollows, HearingFollows,
       ApplyingFollows, PanelFollows DEF Inv, Next, Devices
  <2> QED
    BY <2>1, <2>3 DEF Inv
<1> QED
  BY <1>1, <1>2, PTL DEF Spec

(* Every variable keeps its type.                                            *)
THEOREM TypeCorrect == Spec => []TypeOK
<1>1. Inv => TypeOK
  BY DEF Inv
<1> QED
  BY <1>1, InvHolds, PTL

(* register_requester_read_back(): once nothing about a setpoint is underway *)
(* the one held is the one the heater has, unless the read-back was lost.    *)
THEOREM ReadBack_Follows == Spec => []ReadBackFollowsWrite
<1>1. Inv => ReadBackFollowsWrite
  <2> SUFFICES ASSUME Inv, NEW r \in SetpointRegs, ~ Underway(r), r \notin missed,
                      held[r] # Unknown
               PROVE  held[r] = actual[r]
    BY DEF ReadBackFollowsWrite
  <2>1. ~ Due(r)
    <3>1. CASE mqtt.do = "read back" /\ mqtt.reg = r
      <4>1. mqtt \in [do : {"read back"}, reg : SetpointRegs]
        BY <3>1 DEF Inv, TypeOK, Commands
      <4>2. mqtt = [do |-> "read back", reg |-> r]
        BY <3>1, <4>1
      <4> QED
        BY <4>2 DEF Underway
    <3>2. CASE \E i \in DOMAIN queue : queue[i] = r
      BY <3>2 DEF Underway, ToSet
    <3> QED
      BY <3>1, <3>2 DEF Due
  <2>2. ~ Delayed(r)
    BY DEF Underway, Delayed
  <2>3. ~ Requested(r)
    <3>1. \A i \in DOMAIN inbox : inbox[i].reg # r
      BY DEF Underway
    <3>2. Read(r).reg = r
      BY DEF Read
    <3> QED
      BY <3>1, <3>2 DEF Requested
  <2>4. Told(r)
    BY <2>1, <2>2, <2>3 DEF Inv, ReadBackInv, Settled
  <2> QED
    BY <2>4 DEF Told, Underway
<1> QED
  BY <1>1, InvHolds, PTL

(* handle_mode_command(): once nothing about the mode is underway it is the  *)
(* one asked for, unless it moved, or word of it was lost, in the meantime.  *)
THEOREM ModeEndsAsAsked == Spec => []ModeAsAsked
<1>1. Inv => ModeAsAsked
  <2> SUFFICES ASSUME Inv, ModeQuiet, asked # Unknown, ~ crossed
               PROVE  actual[Mode] = asked
    BY DEF ModeAsAsked
  <2>1. mqtt.do # "toggle"
    BY DEF ModeQuiet
  <2>2. ~ OneToggle(inbox) /\ ~ OneToggle(applying)
    BY Domains, FramesAre DEF Inv, ModeQuiet, About, OneToggle
  <2> QED
    BY <2>1, <2>2 DEF Inv, ToggleInv
<1> QED
  BY <1>1, InvHolds, PTL

-----------------------------------------------------------------------------
(* PoolCommands.                                                             *)

Bodies == {"pool", "spa"}
OnOff == {"On", "Off"}
Favourites == DOMAIN FavouriteCodes
Held == StateNames \cup ColorNames \cup Favourites \cup Temperatures \cup {"done"}

HeaterCode(state) == IF state = "On" THEN 1 ELSE 0
SystemSetpoint(body, temp) == Frame(\h19, <<IF body = "pool" THEN 1 ELSE 2, temp, temp>>)
ReadSetpoint(body, h) == ReadRegister(SetpointRegister(h, body), 0)

(* A frame of ours asks that thing, of devices at a, become value.           *)
Asks(frame, a, thing, value) ==
  \/ \E n \in Channels :
       /\ thing = <<"channel", n>>
       /\ \/ frame = Frame(\h10, <<ChannelIndex(n)>>) /\ value = Stepped(a[thing])
          \/ value \in StateNames /\ frame = ChannelModeFrame(n, value)
  \/ \E z \in Zones :
       \/ /\ thing = <<"light", z>> /\ value \in OffAutoOn
          /\ frame = WriteRegister(\hC0 + (z - 1), 1, Code(States, value))
       \/ /\ thing = <<"color", z>> /\ value \in ColorNames
          /\ frame = WriteRegister(\hD0 + (z - 1), 1, Code(Colors, value))
       \/ thing = <<"resync", z>> /\ value = "done" /\ frame = Frame(\h3C, <<z - 1>>)
  \/ \E h \in Heaters :
       /\ thing = <<"heater", h>> /\ value \in OnOff
       /\ frame = WriteRegister(IF h = 0 THEN \hE6 ELSE \hE9, 0, HeaterCode(value))
  \/ \E v \in Valves :
       /\ thing = <<"valve", v>> /\ value \in OffAutoOn
       /\ frame = Frame(\h28, <<v - 1, Code(States, value)>>)
  \/ /\ thing = <<"favourite", 0>> /\ value \in Favourites
     /\ frame = Frame(\h2A, <<FavouriteCodes[value]>>)
  \/ \E body \in Bodies :
       \/ thing = <<body, 0>> /\ value \in Temperatures /\ frame = SystemSetpoint(body, value)
       \/ /\ thing = <<body, 1>> /\ value \in Temperatures
          /\ frame = WriteRegister(SetpointRegister(1, body), 0, value)
       \/ \E h \in Heaters : thing = <<body, h>> /\ value = a[thing] /\ frame = ReadSetpoint(body, h)

Orders(frame, a, b) ==
  \E thing \in Things : \E value : Asks(frame, a, thing, value) /\ b = [a EXCEPT ![thing] = value]

(* The frames of ours, one after the other, take the devices from a to b.    *)
Leads(frames, a, b) ==
  \E d : /\ DOMAIN d = 1 .. Len(frames) + 1 /\ d[1] = a /\ d[Len(frames) + 1] = b
         /\ \A i \in 1 .. Len(frames) : Orders(frames[i], d[i], d[i + 1])

(* A frame of the devices tells the value of thing.                          *)
Tells(frame, thing, value) ==
  \/ \E z \in Zones :
       \/ /\ thing = <<"light", z>> /\ value \in StateNames
          /\ frame = RegisterValue(\hBF + z, 1, Code(States, value))
       \/ /\ thing = <<"color", z>> /\ value \in ColorNames
          /\ frame = RegisterValue(\hCF + z, 1, Code(Colors, value))
  \/ /\ thing = <<"heater", 0>> /\ value \in OnOff
     /\ frame = Frame(\h12, <<HeaterCode(value)>>)
  \/ /\ thing = <<"heater", 1>> /\ value \in OnOff
     /\ frame = RegisterValue(\hE9, 0, HeaterCode(value))
  \/ \E body \in Bodies, h \in Heaters :
       thing = <<body, h>> /\ frame = RegisterValue(SetpointRegister(h, body), 0, value)
  \/ /\ thing = <<"favourite", 0>> /\ value \in Favourites
     /\ frame = RegisterValue(\h20, 3, FavouriteCodes[value])

(* Which frame tells them all, of one kind.                                  *)
ListOf(kind, numbers, names) ==
  Frame(IF kind = "channel" THEN \h0B ELSE \h27, [n \in numbers |-> Code(States, names[n])])
Replaced(kind, names, a) ==
  [thing \in Shown |-> IF thing[1] = kind THEN names[thing[2]] ELSE a[thing]]

(* It takes the pool state from a to b.                                      *)
Word(frame, a, b) ==
  \/ \E thing \in Shown : \E value : Tells(frame, thing, value) /\ b = [a EXCEPT ![thing] = value]
  \/ \E code \in 0 .. 1 : frame = RegisterValue(\hE6, 0, code) /\ b = a
  \/ \E names \in [Channels -> StateNames] :
       frame = ListOf("channel", Channels, names) /\ b = Replaced("channel", names, a)
  \/ \E names \in [Valves -> StateNames] :
       frame = ListOf("valve", Valves, names) /\ b = Replaced("valve", names, a)

Speaks(frames, a, b) ==
  \E d : /\ DOMAIN d = 1 .. Len(frames) + 1 /\ d[1] = a /\ d[Len(frames) + 1] = b
         /\ \A i \in 1 .. Len(frames) : Word(frames[i], d[i], d[i + 1])

IsFrames(s) == \E S : s \in Seq(S)

(* The devices at hold have values of their kinds.                           *)
Holds(hold) ==
  /\ hold \in [Things -> Held]
  /\ \A n \in Channels : hold[<<"channel", n>>] \in StateNames
  /\ \A v \in Valves : hold[<<"valve", v>>] \in StateNames

(* A setpoint of the system is read back right after it.                     *)
ReadNext ==
  \A i \in DOMAIN wire : \A body \in Bodies, temp \in Temperatures :
    wire[i] = SystemSetpoint(body, temp) => i < Len(wire) /\ wire[i + 1] = ReadSetpoint(body, 0)

BeingRead(thing) ==
  \E body \in Bodies, h \in Heaters :
    thing = <<body, h>> /\ \E i \in DOMAIN wire : wire[i] = ReadSetpoint(body, h)

(* Once everything is said the pool state shows what the devices hold, but   *)
(* for what is still being read.                                             *)
WillShow ==
  \E told : /\ DOMAIN told = Shown /\ Speaks(said, shown, told)
            /\ \A thing \in Shown : told[thing] = device[thing] \/ BeingRead(thing)

CommandInv ==
  /\ Holds(device) /\ IsFrames(wire) /\ IsFrames(said)
  /\ Leads(wire, device, wanted) /\ ReadNext /\ WillShow

-----------------------------------------------------------------------------
LEMMA FrameFields ==
  ASSUME NEW cmd, NEW data, NEW frame, frame = Frame(cmd, data)
  PROVE  frame.cmd = cmd /\ frame.data = data
  BY DEF Frame

LEMMA SameFrames ==
  ASSUME NEW c1, NEW d1, NEW c2, NEW d2, Frame(c1, d1) = Frame(c2, d2)
  PROVE  c1 = c2 /\ d1 = d2
<1>1. /\ Frame(c1, d1).cmd = c1 /\ Frame(c1, d1).data = d1
      /\ Frame(c2, d2).cmd = c2 /\ Frame(c2, d2).data = d2
  BY FrameFields, Zenon
<1> QED
  BY <1>1, Zenon

LEMMA StateCodes ==
  ASSUME NEW name \in StateNames
  PROVE  Code(States, name) \in 0 .. 3 /\ Name(States, Code(States, name)) = name
<1>1. DOMAIN States = 1 .. 4
  BY SMT DEF States
<1>2. \E i \in DOMAIN States : States[i] = name
  BY DEF StateNames
<1> DEFINE i == CHOOSE i \in DOMAIN States : States[i] = name
<1>3. i \in DOMAIN States /\ States[i] = name
  BY <1>2, Zenon
<1>4. Code(States, name) = i - 1
  BY Zenon DEF Code
<1> HIDE DEF i
<1>5. Code(States, name) \in 0 .. 3 /\ Code(States, name) + 1 = i
  BY <1>1, <1>3, <1>4, SMT
<1> QED
  BY <1>3, <1>5, Zenon DEF Name

LEMMA ColorCodes ==
  ASSUME NEW name \in ColorNames
  PROVE  Code(Colors, name) \in Nat /\ Name(Colors, Code(Colors, name)) = name
<1>1. DOMAIN Colors = 1 .. Len(Colors) /\ Len(Colors) \in Nat
  BY CommandsAssumption
<1>2. \E i \in DOMAIN Colors : Colors[i] = name
  BY DEF ColorNames
<1> DEFINE i == CHOOSE i \in DOMAIN Colors : Colors[i] = name
<1>3. i \in DOMAIN Colors /\ Colors[i] = name
  BY <1>2, Zenon
<1>4. Code(Colors, name) = i - 1
  BY Zenon DEF Code
<1> HIDE DEF i
<1>5. Code(Colors, name) \in Nat /\ Code(Colors, name) + 1 = i
  BY <1>1, <1>3, <1>4, SMT
<1> QED
  BY <1>3, <1>5, Zenon DEF Name

LEMMA FewStates == StateNames = OffAutoOn \cup {"Low Speed"}
<1>1. DOMAIN States = {1, 2, 3, 4}
  BY SMT DEF States
<1>2. States[1] = "Off" /\ States[2] = "Auto" /\ States[3] = "On" /\ States[4] = "Low Speed"
  BY SMT DEF States
<1>3. StateNames = {States[1], States[2], States[3], States[4]}
  BY <1>1, Zenon DEF StateNames
<1>4. StateNames = {"Off", "Auto", "On", "Low Speed"}
  BY <1>2, <1>3, Zenon
<1> QED
  BY <1>4, Zenon DEF OffAutoOn

LEMMA FavouritesApart ==
  ASSUME NEW one \in Favourites, NEW other \in Favourites,
         FavouriteCodes[one] = FavouriteCodes[other]
  PROVE  one = other
  BY SMT DEF Favourites, FavouriteCodes

(* Chains of frames.                                                         *)
LEMMA LeadsNowhere ==
  ASSUME NEW a, NEW b
  PROVE  Leads(<<>>, a, a) /\ (Leads(<<>>, a, b) => a = b)
<1>1. Leads(<<>>, a, a)
  <2> DEFINE d == [i \in 1 .. 1 |-> a]
  <2>1. DOMAIN d = 1 .. Len(<<>>) + 1 /\ d[1] = a /\ d[Len(<<>>) + 1] = a /\ 1 .. Len(<<>>) = {}
    BY SMT
  <2> QED
    BY <2>1, Zenon DEF Leads
<1>2. Leads(<<>>, a, b) => a = b
  <2>1. Len(<<>>) + 1 = 1
    BY SMT
  <2> QED
    BY <2>1, Zenon DEF Leads
<1> QED
  BY <1>1, <1>2

LEMMA LeadsOn ==
  ASSUME NEW frames, IsFrames(frames), NEW frame, NEW a, NEW b, NEW c,
         Leads(frames, a, b), Orders(frame, b, c)
  PROVE  Leads(Append(frames, frame), a, c) /\ IsFrames(Append(frames, frame))
<1>1. PICK d : /\ DOMAIN d = 1 .. Len(frames) + 1 /\ d[1] = a /\ d[Len(frames) + 1] = b
               /\ \A i \in 1 .. Len(frames) : Orders(frames[i], d[i], d[i + 1])
  BY Zenon DEF Leads
<1>2. PICK S : frames \in Seq(S)
  BY DEF IsFrames
<1>3. frames \in Seq(S \cup {frame}) /\ Append(frames, frame) \in Seq(S \cup {frame})
  BY <1>2
<1> DEFINE more == Append(frames, frame)
           n == Len(frames)
           e == [i \in 1 .. n + 2 |-> IF i = n + 2 THEN c ELSE d[i]]
<1>4. /\ n \in Nat /\ Len(more) = n + 1 /\ more[n + 1] = frame
      /\ \A i \in 1 .. n : more[i] = frames[i]
  BY <1>3, SMT
<1> HIDE DEF more
<1> HIDE DEF n
<1>5. DOMAIN e = 1 .. Len(more) + 1 /\ e[1] = a /\ e[Len(more) + 1] = c
  BY <1>1, <1>4, SMT DEF n
<1>6. ASSUME NEW i \in 1 .. Len(more)
      PROVE  Orders(more[i], e[i], e[i + 1])
  <2>1. CASE i = n + 1
    <3>1. e[i] = b /\ e[i + 1] = c /\ more[i] = frame
      BY <1>1, <1>4, <2>1, SMT DEF n
    <3> QED
      BY <3>1, Zenon
  <2>2. CASE i # n + 1
    <3>1. i \in 1 .. n
      BY <1>4, <2>2, SMT
    <3>2. e[i] = d[i] /\ e[i + 1] = d[i + 1] /\ more[i] = frames[i]
      BY <1>4, <3>1, SMT
    <3> QED
      BY <1>1, <3>1, <3>2, Zenon DEF n
  <2> QED
    BY <2>1, <2>2
<1>7. Leads(more, a, c)
  <2> HIDE DEF e
  <2> QED
    BY <1>5, <1>6, Zenon DEF Leads
<1> QED
  BY <1>3, <1>7, Zenon DEF more, IsFrames

LEMMA FramesTail ==
  ASSUME NEW frames, IsFrames(frames), frames # <<>>
  PROVE  /\ Len(frames) \in Nat \ {0} /\ Len(Tail(frames)) = Len(frames) - 1
         /\ Head(frames) = frames[1] /\ IsFrames(Tail(frames))
         /\ \A i \in 1 .. Len(frames) - 1 : Tail(frames)[i] = frames[i + 1]
         /\ DOMAIN frames = 1 .. Len(frames) /\ DOMAIN Tail(frames) = 1 .. Len(frames) - 1
<1>1. PICK S : frames \in Seq(S)
  BY DEF IsFrames
<1>2. Tail(frames) \in Seq(S)
  BY <1>1
<1> QED
  BY <1>1, <1>2 DEF IsFrames

LEMMA LeadsFirst ==
  ASSUME NEW frames, IsFrames(frames), frames # <<>>, NEW a, NEW b, Leads(frames, a, b)
  PROVE  \E c : Orders(Head(frames), a, c) /\ Leads(Tail(frames), c, b)
<1>1. PICK d : /\ DOMAIN d = 1 .. Len(frames) + 1 /\ d[1] = a /\ d[Len(frames) + 1] = b
               /\ \A i \in 1 .. Len(frames) : Orders(frames[i], d[i], d[i + 1])
  BY Zenon DEF Leads
<1> DEFINE rest == Tail(frames)
           n == Len(frames)
           e == [i \in 1 .. n |-> d[i + 1]]
<1>2. /\ n \in Nat \ {0} /\ Len(rest) = n - 1 /\ Head(frames) = frames[1]
      /\ \A i \in 1 .. n - 1 : rest[i] = frames[i + 1]
  BY FramesTail, Zenon
<1> HIDE DEF rest, n
<1>3. DOMAIN e = 1 .. Len(rest) + 1 /\ e[1] = d[2] /\ e[Len(rest) + 1] = b
  BY <1>1, <1>2, SMT DEF n
<1>4. ASSUME NEW i \in 1 .. Len(rest)
      PROVE  Orders(rest[i], e[i], e[i + 1])
  <2> DEFINE k == i + 1
  <2>1. k \in 1 .. Len(frames) /\ e[i] = d[k] /\ e[i + 1] = d[k + 1] /\ rest[i] = frames[k]
    BY <1>2, SMT DEF n
  <2> HIDE DEF k, e
  <2> QED
    BY <1>1, <2>1, Zenon
<1>5. Leads(rest, d[2], b)
  <2> HIDE DEF e
  <2> QED
    BY <1>3, <1>4, Zenon DEF Leads
<1>6. Orders(Head(frames), a, d[2])
  <2>1. 1 \in 1 .. Len(frames) /\ 1 + 1 = 2
    BY <1>2, SMT DEF n
  <2> QED
    BY <1>1, <1>2, <2>1, Zenon
<1> QED
  BY <1>5, <1>6, Zenon DEF rest
LEMMA SpeaksNowhere ==
  ASSUME NEW a, NEW b
  PROVE  Speaks(<<>>, a, a) /\ (Speaks(<<>>, a, b) => a = b)
<1>1. Speaks(<<>>, a, a)
  <2> DEFINE d == [i \in 1 .. 1 |-> a]
  <2>1. DOMAIN d = 1 .. Len(<<>>) + 1 /\ d[1] = a /\ d[Len(<<>>) + 1] = a /\ 1 .. Len(<<>>) = {}
    BY SMT
  <2> QED
    BY <2>1, Zenon DEF Speaks
<1>2. Speaks(<<>>, a, b) => a = b
  <2>1. Len(<<>>) + 1 = 1
    BY SMT
  <2> QED
    BY <2>1, Zenon DEF Speaks
<1> QED
  BY <1>1, <1>2

LEMMA SpeaksOn ==
  ASSUME NEW frames, IsFrames(frames), NEW frame, NEW a, NEW b, NEW c,
         Speaks(frames, a, b), Word(frame, b, c)
  PROVE  Speaks(Append(frames, frame), a, c) /\ IsFrames(Append(frames, frame))
<1>1. PICK d : /\ DOMAIN d = 1 .. Len(frames) + 1 /\ d[1] = a /\ d[Len(frames) + 1] = b
               /\ \A i \in 1 .. Len(frames) : Word(frames[i], d[i], d[i + 1])
  BY Zenon DEF Speaks
<1>2. PICK S : frames \in Seq(S)
  BY DEF IsFrames
<1>3. frames \in Seq(S \cup {frame}) /\ Append(frames, frame) \in Seq(S \cup {frame})
  BY <1>2
<1> DEFINE more == Append(frames, frame)
           n == Len(frames)
           e == [i \in 1 .. n + 2 |-> IF i = n + 2 THEN c ELSE d[i]]
<1>4. /\ n \in Nat /\ Len(more) = n + 1 /\ more[n + 1] = frame
      /\ \A i \in 1 .. n : more[i] = frames[i]
  BY <1>3, SMT
<1> HIDE DEF more
<1> HIDE DEF n
<1>5. DOMAIN e = 1 .. Len(more) + 1 /\ e[1] = a /\ e[Len(more) + 1] = c
  BY <1>1, <1>4, SMT DEF n
<1>6. ASSUME NEW i \in 1 .. Len(more)
      PROVE  Word(more[i], e[i], e[i + 1])
  <2>1. CASE i = n + 1
    <3>1. e[i] = b /\ e[i + 1] = c /\ more[i] = frame
      BY <1>1, <1>4, <2>1, SMT DEF n
    <3> QED
      BY <3>1, Zenon
  <2>2. CASE i # n + 1
    <3>1. i \in 1 .. n
      BY <1>4, <2>2, SMT
    <3>2. e[i] = d[i] /\ e[i + 1] = d[i + 1] /\ more[i] = frames[i]
      BY <1>4, <3>1, SMT
    <3> QED
      BY <1>1, <3>1, <3>2, Zenon DEF n
  <2> QED
    BY <2>1, <2>2
<1>7. Speaks(more, a, c)
  <2> HIDE DEF e
  <2> QED
    BY <1>5, <1>6, Zenon DEF Speaks
<1> QED
  BY <1>3, <1>7, Zenon DEF more, IsFrames

LEMMA SpeaksFirst ==
  ASSUME NEW frames, IsFrames(frames), frames # <<>>, NEW a, NEW b, Speaks(frames, a, b)
  PROVE  \E c : Word(Head(frames), a, c) /\ Speaks(Tail(frames), c, b)
<1>1. PICK d : /\ DOMAIN d = 1 .. Len(frames) + 1 /\ d[1] = a /\ d[Len(frames) + 1] = b
               /\ \A i \in 1 .. Len(frames) : Word(frames[i], d[i], d[i + 1])
  BY Zenon DEF Speaks
<1> DEFINE rest == Tail(frames)
           n == Len(frames)
           e == [i \in 1 .. n |-> d[i + 1]]
<1>2. /\ n \in Nat \ {0} /\ Len(rest) = n - 1 /\ Head(frames) = frames[1]
      /\ \A i \in 1 .. n - 1 : rest[i] = frames[i + 1]
  BY FramesTail, Zenon
<1> HIDE DEF rest, n
<1>3. DOMAIN e = 1 .. Len(rest) + 1 /\ e[1] = d[2] /\ e[Len(rest) + 1] = b
  BY <1>1, <1>2, SMT DEF n
<1>4. ASSUME NEW i \in 1 .. Len(rest)
      PROVE  Word(rest[i], e[i], e[i + 1])
  <2> DEFINE k == i + 1
  <2>1. k \in 1 .. Len(frames) /\ e[i] = d[k] /\ e[i + 1] = d[k + 1] /\ rest[i] = frames[k]
    BY <1>2, SMT DEF n
  <2> HIDE DEF k, e
  <2> QED
    BY <1>1, <2>1, Zenon
<1>5. Speaks(rest, d[2], b)
  <2> HIDE DEF e
  <2> QED
    BY <1>3, <1>4, Zenon DEF Speaks
<1>6. Word(Head(frames), a, d[2])
  <2>1. 1 \in 1 .. Len(frames) /\ 1 + 1 = 2
    BY <1>2, SMT DEF n
  <2> QED
    BY <1>1, <1>2, <2>1, Zenon
<1> QED
  BY <1>5, <1>6, Zenon DEF rest

-----------------------------------------------------------------------------
(* The handler of each register that is told.                                *)

LEMMA FirstWins ==
  ASSUME NEW reg, NEW slot, NEW i \in 1 .. 15, Covers(i, reg, slot),
         \A j \in 1 .. i - 1 : ~ Covers(j, reg, slot)
  PROVE  HandlerOf(reg, slot) = {RegisterHandlers[i].handler}
<1>1. DOMAIN RegisterHandlers = 1 .. 15
  BY SMT DEF RegisterHandlers
<1>2. \A k \in DOMAIN RegisterHandlers : Covers(k, reg, slot) => i <= k
  BY <1>1, SMT
<1> DEFINE covering == {k \in DOMAIN RegisterHandlers : Covers(k, reg, slot)}
<1>3. {k \in covering : \A j \in covering : k <= j} = {i}
  BY <1>1, <1>2, SMT
<1> QED
  BY <1>3, Zenon DEF HandlerOf

(* What the first rows cover, or not, of the registers told.                 *)
Rows(reg, slot) ==
  /\ Covers(1, reg, slot) <=> (\hE8 <= reg /\ reg <= \hF7 /\ slot = 3)
  /\ Covers(2, reg, slot) <=> (\hC0 <= reg /\ reg <= \hC7 /\ slot = 1)
  /\ Covers(3, reg, slot) <=> (\hD0 <= reg /\ reg <= \hD7 /\ slot = 1)
  /\ Covers(4, reg, slot) <=> (\hD0 <= reg /\ reg <= \hD7 /\ slot = 2)
  /\ Covers(5, reg, slot) <=> (\hE0 <= reg /\ reg <= \hE7 /\ slot = 2)
  /\ Covers(6, reg, slot) <=> (\h20 <= reg /\ reg <= \h20 /\ slot = 3)
  /\ Covers(7, reg, slot) <=> (\h21 <= reg /\ reg <= \h28 /\ slot = 3)
  /\ Covers(8, reg, slot) <=> (\hE6 <= reg /\ reg <= \hE6 /\ slot = 0)
  /\ Covers(9, reg, slot) <=> (\hE7 <= reg /\ reg <= \hE8 /\ slot = 0)
  /\ Covers(10, reg, slot) <=> (\hE9 <= reg /\ reg <= \hE9 /\ slot = 0)
  /\ Covers(11, reg, slot) <=> (\hC8 <= reg /\ reg <= \hC8 /\ slot = 0)
  /\ Covers(12, reg, slot) <=> (\hCC <= reg /\ reg <= \hCC /\ slot = 0)
  /\ Covers(13, reg, slot) <=> (\hEA <= reg /\ reg <= \hEB /\ slot = 0)

LEMMA RowsCover ==
  ASSUME NEW reg \in Int, NEW slot \in Int
  PROVE  Rows(reg, slot)
<1>1. Covers(1, reg, slot) <=> (\hE8 <= reg /\ reg <= \hF7 /\ slot = 3)
  BY SMT DEF Covers, RegisterHandlers, Entry
<1>2. Covers(2, reg, slot) <=> (\hC0 <= reg /\ reg <= \hC7 /\ slot = 1)
  BY SMT DEF Covers, RegisterHandlers, Entry
<1>3. Covers(3, reg, slot) <=> (\hD0 <= reg /\ reg <= \hD7 /\ slot = 1)
  BY SMT DEF Covers, RegisterHandlers, Entry
<1>4. Covers(4, reg, slot) <=> (\hD0 <= reg /\ reg <= \hD7 /\ slot = 2)
  BY SMT DEF Covers, RegisterHandlers, Entry
<1>5. Covers(5, reg, slot) <=> (\hE0 <= reg /\ reg <= \hE7 /\ slot = 2)
  BY SMT DEF Covers, RegisterHandlers, Entry
<1>6. Covers(6, reg, slot) <=> (\h20 <= reg /\ reg <= \h20 /\ slot = 3)
  BY SMT DEF Covers, RegisterHandlers, Entry
<1>7. Covers(7, reg, slot) <=> (\h21 <= reg /\ reg <= \h28 /\ slot = 3)
  BY SMT DEF Covers, RegisterHandlers, Entry
<1>8. Covers(8, reg, slot) <=> (\hE6 <= reg /\ reg <= \hE6 /\ slot = 0)
  BY SMT DEF Covers, RegisterHandlers, Entry
<1>9. Covers(9, reg, slot) <=> (\hE7 <= reg /\ reg <= \hE8 /\ slot = 0)
  BY SMT DEF Covers, RegisterHandlers, Entry
<1>10. Covers(10, reg, slot) <=> (\hE9 <= reg /\ reg <= \hE9 /\ slot = 0)
  BY SMT DEF Covers, RegisterHandlers, Entry
<1>11. Covers(11, reg, slot) <=> (\hC8 <= reg /\ reg <= \hC8 /\ slot = 0)
  BY SMT DEF Covers, RegisterHandlers, Entry
<1>12. Covers(12, reg, slot) <=> (\hCC <= reg /\ reg <= \hCC /\ slot = 0)
  BY SMT DEF Covers, RegisterHandlers, Entry
<1>13. Covers(13, reg, slot) <=> (\hEA <= reg /\ reg <= \hEB /\ slot = 0)
  BY SMT DEF Covers, RegisterHandlers, Entry
<1> QED
  BY <1>1, <1>2, <1>3, <1>4, <1>5, <1>6, <1>7, <1>8, <1>9, <1>10, <1>11, <1>12, <1>13, Zenon
     DEF Rows

LEMMA LightHandler ==
  ASSUME NEW z \in 1 .. 8
  PROVE  HandlerOf(\hBF + z, 1) = {"light"}
<1>1. Rows(\hBF + z, 1)
  BY RowsCover, SMT
<1>2. Covers(2, \hBF + z, 1) /\ \A j \in 1 .. 2 - 1 : ~ Covers(j, \hBF + z, 1)
  <2>1. \A j \in 1 .. 2 - 1 : j = 1
    BY SMT
  <2> QED
    BY <1>1, <2>1, SMT DEF Rows
<1>3. RegisterHandlers[2].handler = "light"
  BY SMT DEF RegisterHandlers, Entry
<1> QED
  BY <1>2, <1>3, FirstWins, SMT

LEMMA ColorHandler ==
  ASSUME NEW z \in 1 .. 8
  PROVE  HandlerOf(\hCF + z, 1) = {"color"}
<1>1. Rows(\hCF + z, 1)
  BY RowsCover, SMT
<1>2. Covers(3, \hCF + z, 1) /\ \A j \in 1 .. 3 - 1 : ~ Covers(j, \hCF + z, 1)
  <2>1. \A j \in 1 .. 3 - 1 :
          j = 1 \/ j = 2
    BY SMT
  <2> QED
    BY <1>1, <2>1, SMT DEF Rows
<1>3. RegisterHandlers[3].handler = "color"
  BY SMT DEF RegisterHandlers, Entry
<1> QED
  BY <1>2, <1>3, FirstWins, SMT

LEMMA FavouriteHandler ==
  HandlerOf(\h20, 3) = {"favourite"}
<1>1. Rows(\h20, 3)
  BY RowsCover, SMT
<1>2. Covers(6, \h20, 3) /\ \A j \in 1 .. 6 - 1 : ~ Covers(j, \h20, 3)
  <2>1. \A j \in 1 .. 6 - 1 :
          j = 1 \/ j = 2 \/ j = 3 \/ j = 4 \/ j = 5
    BY SMT
  <2> QED
    BY <1>1, <2>1, SMT DEF Rows
<1>3. RegisterHandlers[6].handler = "favourite"
  BY SMT DEF RegisterHandlers, Entry
<1> QED
  BY <1>2, <1>3, FirstWins, SMT

LEMMA HeaterHandler ==
  HandlerOf(\hE6, 0) = {"logged"}
<1>1. Rows(\hE6, 0)
  BY RowsCover, SMT
<1>2. Covers(8, \hE6, 0) /\ \A j \in 1 .. 8 - 1 : ~ Covers(j, \hE6, 0)
  <2>1. \A j \in 1 .. 8 - 1 :
          j = 1 \/ j = 2 \/ j = 3 \/ j = 4 \/ j = 5 \/ j = 6
            \/ j = 7
    BY SMT
  <2> QED
    BY <1>1, <2>1, SMT DEF Rows
<1>3. RegisterHandlers[8].handler = "logged"
  BY SMT DEF RegisterHandlers, Entry
<1> QED
  BY <1>2, <1>3, FirstWins, SMT

LEMMA SetpointHandler ==
  ASSUME NEW reg \in \hE7 .. \hE8
  PROVE  HandlerOf(reg, 0) = {"setpoint"}
<1>1. Rows(reg, 0)
  BY RowsCover, SMT
<1>2. Covers(9, reg, 0) /\ \A j \in 1 .. 9 - 1 : ~ Covers(j, reg, 0)
  <2>1. \A j \in 1 .. 9 - 1 :
          j = 1 \/ j = 2 \/ j = 3 \/ j = 4 \/ j = 5 \/ j = 6
            \/ j = 7 \/ j = 8
    BY SMT
  <2> QED
    BY <1>1, <2>1, SMT DEF Rows
<1>3. RegisterHandlers[9].handler = "setpoint"
  BY SMT DEF RegisterHandlers, Entry
<1> QED
  BY <1>2, <1>3, FirstWins, SMT

LEMMA Heater2Handler ==
  HandlerOf(\hE9, 0) = {"heater2"}
<1>1. Rows(\hE9, 0)
  BY RowsCover, SMT
<1>2. Covers(10, \hE9, 0) /\ \A j \in 1 .. 10 - 1 : ~ Covers(j, \hE9, 0)
  <2>1. \A j \in 1 .. 10 - 1 :
          j = 1 \/ j = 2 \/ j = 3 \/ j = 4 \/ j = 5 \/ j = 6
            \/ j = 7 \/ j = 8 \/ j = 9
    BY SMT
  <2> QED
    BY <1>1, <2>1, SMT DEF Rows
<1>3. RegisterHandlers[10].handler = "heater2"
  BY SMT DEF RegisterHandlers, Entry
<1> QED
  BY <1>2, <1>3, FirstWins, SMT

LEMMA Setpoint2Handler ==
  ASSUME NEW reg \in \hEA .. \hEB
  PROVE  HandlerOf(reg, 0) = {"setpoint"}
<1>1. Rows(reg, 0)
  BY RowsCover, SMT
<1>2. Covers(13, reg, 0) /\ \A j \in 1 .. 13 - 1 : ~ Covers(j, reg, 0)
  <2>1. \A j \in 1 .. 13 - 1 :
          j = 1 \/ j = 2 \/ j = 3 \/ j = 4 \/ j = 5 \/ j = 6
            \/ j = 7 \/ j = 8 \/ j = 9 \/ j = 10 \/ j = 11 \/ j = 12
    BY SMT
  <2> QED
    BY <1>1, <2>1, SMT DEF Rows
<1>3. RegisterHandlers[13].handler = "setpoint"
  BY SMT DEF RegisterHandlers, Entry
<1> QED
  BY <1>2, <1>3, FirstWins, SMT

-----------------------------------------------------------------------------
(* The decoder files what it is told.                                        *)

LEMMA RegisterFiled ==
  ASSUME DecodeFrame, NEW reg, NEW slot, NEW code, Head(said) = RegisterValue(reg, slot, code)
  PROVE  Filed(HandlerOf(reg, slot), reg, code)
<1> DEFINE frame == Head(said)
<1>1. frame.cmd = \h38 /\ frame.data = <<reg, slot, code>>
  BY FrameFields, SMT DEF RegisterValue
<1>2. frame.data[1] = reg /\ frame.data[2] = slot /\ frame.data[3] = code
  BY <1>1, SMT
<1>3. frame.cmd # \h0B /\ frame.cmd # \h27 /\ frame.cmd # \h12
  BY <1>1, SMT
<1>4. Filed(HandlerOf(frame.data[1], frame.data[2]), frame.data[1], frame.data[3])
  BY <1>1, <1>3, Zenon DEF DecodeFrame
<1> QED
  BY <1>2, <1>4, Zenon

LEMMA FiledBy ==
  ASSUME NEW handler \in Filing, NEW reg, NEW code, Filed({handler}, reg, code)
  PROVE  /\ handler = "heater2" => Show(<<"heater", 1>>, IF code # 0 THEN "On" ELSE "Off")
         /\ handler = "favourite" =>
              \E name \in Favourites : FavouriteCodes[name] = code /\ Show(<<"favourite", 0>>, name)
<1>1. {handler} \cap Filing # {}
  BY Zenon
<1>2. \A other : {handler} = {other} => handler = other
  BY Zenon
<1> QED
  BY <1>1, <1>2, Zenon DEF Filed, Favourites

LEMMA FiledNumbered ==
  ASSUME NEW reg, NEW code
  PROVE  /\ Filed({"light"}, reg, code) => Show(<<"light", reg - \hC0 + 1>>, Name(States, code))
         /\ Filed({"color"}, reg, code) => Show(<<"color", reg - \hD0 + 1>>, Name(Colors, code))
         /\ Filed({"setpoint"}, reg, code) =>
              \E body \in Bodies, h \in Heaters :
                SetpointRegister(h, body) = reg /\ Show(<<body, h>>, code)
<1>1. \A handler \in Filing : {handler} \cap Filing # {}
  BY Zenon
<1>2. {"light", "color", "setpoint"} \subseteq Filing
  BY SMT DEF Filing
<1>3. \A one, other : {one} = {other} => one = other
  BY Zenon
<1>4. Filed({"light"}, reg, code) => Show(<<"light", reg - \hC0 + 1>>, Name(States, code))
  BY <1>1, <1>2, <1>3, Zenon DEF Filed
<1>5. Filed({"color"}, reg, code) => Show(<<"color", reg - \hD0 + 1>>, Name(Colors, code))
  BY <1>1, <1>2, <1>3, Zenon DEF Filed
<1>6. Filed({"setpoint"}, reg, code) =>
        \E body \in Bodies, h \in Heaters :
          SetpointRegister(h, body) = reg /\ Show(<<body, h>>, code)
  BY <1>1, <1>2, <1>3, Zenon DEF Filed, Bodies
<1> QED
  BY <1>4, <1>5, <1>6, Zenon

LEMMA SetpointRegisters ==
  ASSUME NEW body \in Bodies, NEW h \in Heaters, NEW other \in Bodies, NEW g \in Heaters
  PROVE  /\ SetpointRegister(h, body) = SetpointRegister(g, other) => h = g /\ body = other
         /\ h = 0 => SetpointRegister(h, body) \in \hE7 .. \hE8
         /\ h = 1 => SetpointRegister(h, body) \in \hEA .. \hEB
         /\ SetpointRegister(h, body) = (IF body = "pool" THEN \hE7 ELSE \hE8) + 3 * h
<1>1. h \in {0, 1} /\ g \in {0, 1}
  BY SMT DEF Heaters
<1> QED
  BY <1>1, SMT DEF SetpointRegister, Bodies

LEMMA ThingShown ==
  ASSUME DecodeFrame, NEW thing \in Shown, NEW value, Tells(Head(said), thing, value)
  PROVE  shown' = [shown EXCEPT ![thing] = value]
<1> DEFINE frame == Head(said)
<1>1. ASSUME NEW z \in Zones, thing = <<"light", z>>, value \in StateNames,
             frame = RegisterValue(\hBF + z, 1, Code(States, value))
      PROVE  shown' = [shown EXCEPT ![thing] = value]
  <2> DEFINE reg == \hBF + z
             code == Code(States, value)
  <2>1. z \in 1 .. 8 /\ reg - \hC0 + 1 = z
    BY CommandsAssumption, SMT DEF Zones
  <2>2. Filed({"light"}, reg, code)
    BY <1>1, <2>1, LightHandler, RegisterFiled, SMT
  <2> HIDE DEF reg
  <2>3. Show(<<"light", reg - \hC0 + 1>>, Name(States, code))
    BY <2>2, FiledNumbered, Zenon
  <2> QED
    BY <1>1, <2>1, <2>3, StateCodes, Zenon DEF Show
<1>2. ASSUME NEW z \in Zones, thing = <<"color", z>>, value \in ColorNames,
             frame = RegisterValue(\hCF + z, 1, Code(Colors, value))
      PROVE  shown' = [shown EXCEPT ![thing] = value]
  <2> DEFINE reg == \hCF + z
             code == Code(Colors, value)
  <2>1. z \in 1 .. 8 /\ reg - \hD0 + 1 = z
    BY CommandsAssumption, SMT DEF Zones
  <2>2. Filed({"color"}, reg, code)
    BY <1>2, <2>1, ColorHandler, RegisterFiled, SMT
  <2> HIDE DEF reg
  <2>3. Show(<<"color", reg - \hD0 + 1>>, Name(Colors, code))
    BY <2>2, FiledNumbered, Zenon
  <2> QED
    BY <1>2, <2>1, <2>3, ColorCodes, Zenon DEF Show
<1>3. ASSUME thing = <<"heater", 0>>, value \in OnOff, frame = Frame(\h12, <<HeaterCode(value)>>)
      PROVE  shown' = [shown EXCEPT ![thing] = value]
  <2>1. frame.cmd = \h12 /\ frame.data = <<HeaterCode(value)>>
    BY <1>3, FrameFields, SMT
  <2>2. frame.data[1] = HeaterCode(value) /\ frame.cmd # \h38 /\ frame.cmd # \h0B /\ frame.cmd # \h27
    BY <2>1, SMT
  <2>3. Show(<<"heater", 0>>, IF frame.data[1] % 2 = 1 THEN "On" ELSE "Off")
    BY <2>2, Zenon DEF DecodeFrame
  <2>4. value = IF HeaterCode(value) % 2 = 1 THEN "On" ELSE "Off"
    BY <1>3, SMT DEF HeaterCode, OnOff
  <2> QED
    BY <1>3, <2>2, <2>3, <2>4, Zenon DEF Show
<1>4. ASSUME thing = <<"heater", 1>>, value \in OnOff,
             frame = RegisterValue(\hE9, 0, HeaterCode(value))
      PROVE  shown' = [shown EXCEPT ![thing] = value]
  <2>1. Filed({"heater2"}, \hE9, HeaterCode(value))
    BY <1>4, Heater2Handler, RegisterFiled, Zenon
  <2>2. Show(<<"heater", 1>>, IF HeaterCode(value) # 0 THEN "On" ELSE "Off")
    BY <2>1, FiledBy, SMT DEF Filing
  <2>3. value = IF HeaterCode(value) # 0 THEN "On" ELSE "Off"
    BY <1>4, SMT DEF HeaterCode, OnOff
  <2> QED
    BY <1>4, <2>2, <2>3, Zenon DEF Show
<1>5. ASSUME NEW body \in Bodies, NEW h \in Heaters, thing = <<body, h>>,
             frame = RegisterValue(SetpointRegister(h, body), 0, value)
      PROVE  shown' = [shown EXCEPT ![thing] = value]
  <2> DEFINE reg == SetpointRegister(h, body)
  <2>1. h = 0 \/ h = 1
    BY SMT DEF Heaters
  <2>2. HandlerOf(reg, 0) = {"setpoint"}
    BY <2>1, SetpointRegisters, SetpointHandler, Setpoint2Handler, SMT
  <2>3. Filed({"setpoint"}, reg, value)
    BY <1>5, <2>2, RegisterFiled, Zenon
  <2>4. PICK other \in Bodies, g \in Heaters :
          SetpointRegister(g, other) = reg /\ Show(<<other, g>>, value)
    BY <2>3, FiledNumbered, Zenon
  <2>5. g = h /\ other = body
    BY <2>4, SetpointRegisters, SMT
  <2> QED
    BY <1>5, <2>4, <2>5, Zenon DEF Show
<1>6. ASSUME thing = <<"favourite", 0>>, value \in Favourites,
             frame = RegisterValue(\h20, 3, FavouriteCodes[value])
      PROVE  shown' = [shown EXCEPT ![thing] = value]
  <2>1. Filed({"favourite"}, \h20, FavouriteCodes[value])
    BY <1>6, FavouriteHandler, RegisterFiled, Zenon
  <2>2. PICK name \in Favourites :
          FavouriteCodes[name] = FavouriteCodes[value] /\ Show(<<"favourite", 0>>, name)
    BY <2>1, FiledBy, SMT DEF Filing
  <2>3. name = value
    BY <1>6, <2>2, FavouritesApart, Zenon
  <2> QED
    BY <1>6, <2>2, <2>3, Zenon DEF Show
<1> QED
  BY <1>1, <1>2, <1>3, <1>4, <1>5, <1>6, Zenon DEF Tells

LEMMA ListShown ==
  ASSUME DecodeFrame, NEW kind \in {"channel", "valve"}, NEW numbers,
         NEW names \in [numbers -> StateNames],
         numbers = (IF kind = "channel" THEN Channels ELSE Valves),
         Head(said) = ListOf(kind, numbers, names)
  PROVE  shown' = Replaced(kind, names, shown)
<1> DEFINE frame == Head(said)
           codes == [n \in numbers |-> Code(States, names[n])]
<1>1. frame.cmd = (IF kind = "channel" THEN \h0B ELSE \h27) /\ frame.data = codes
  BY FrameFields, SMT DEF ListOf
<1>2. Listed(kind, codes)
  <2>1. CASE kind = "channel"
    <3>1. frame.cmd = \h0B
      BY <1>1, <2>1, Zenon
    <3>2. frame.cmd # \h38 /\ frame.cmd # \h27 /\ frame.cmd # \h12
      BY <3>1, SMT
    <3>3. Listed("channel", frame.data)
      BY <3>1, <3>2, Zenon DEF DecodeFrame
    <3> QED
      BY <1>1, <2>1, <3>3, Zenon
  <2>2. CASE kind = "valve"
    <3>1. frame.cmd = \h27
      BY <1>1, <2>2, SMT
    <3>2. frame.cmd # \h38 /\ frame.cmd # \h0B /\ frame.cmd # \h12
      BY <3>1, SMT
    <3>3. Listed("valve", frame.data)
      BY <3>1, <3>2, Zenon DEF DecodeFrame
    <3> QED
      BY <1>1, <2>2, <3>3, Zenon
  <2> QED
    BY <2>1, <2>2, Zenon
<1>3. ASSUME NEW thing \in Shown, thing[1] = kind
      PROVE  Name(States, codes[thing[2]]) = names[thing[2]]
  <2>1. thing[2] \in numbers
    <3>1. thing \in {kind} \X numbers
      BY <1>3, SMT DEF Shown
    <3> QED
      BY <3>1, Zenon
  <2>2. codes[thing[2]] = Code(States, names[thing[2]]) /\ names[thing[2]] \in StateNames
    BY <2>1, Zenon
  <2> QED
    BY <2>2, StateCodes, Zenon
<1> HIDE DEF codes
<1>4. shown' = [thing \in Shown |-> IF thing[1] = kind THEN Name(States, codes[thing[2]]) ELSE shown[thing]]
  BY <1>2, Zenon DEF Listed
<1> QED
  BY <1>3, <1>4, Zenon DEF Replaced

LEMMA WordShown ==
  ASSUME DecodeFrame, NEW b, Word(Head(said), shown, b)
  PROVE  shown' = b
<1>1. ASSUME NEW code \in 0 .. 1, Head(said) = RegisterValue(\hE6, 0, code), b = shown
      PROVE  shown' = b
  <2>1. Filed({"logged"}, \hE6, code)
    BY <1>1, HeaterHandler, RegisterFiled, Zenon
  <2>2. \A handler \in Filing : {"logged"} # {handler}
    BY SMT DEF Filing
  <2> QED
    BY <1>1, <2>1, <2>2, Zenon DEF Filed, Filing
<1>2. ASSUME NEW thing \in Shown, NEW value, Tells(Head(said), thing, value),
             b = [shown EXCEPT ![thing] = value]
      PROVE  shown' = b
  BY <1>2, ThingShown, Zenon
<1>3. ASSUME NEW names \in [Channels -> StateNames], b = Replaced("channel", names, shown),
             Head(said) = ListOf("channel", Channels, names)
      PROVE  shown' = b
  BY <1>3, ListShown, Zenon
<1>4. ASSUME NEW names \in [Valves -> StateNames], b = Replaced("valve", names, shown),
             Head(said) = ListOf("valve", Valves, names)
      PROVE  shown' = b
  <2>1. "valve" # "channel"
    OBVIOUS
  <2> QED
    BY <1>4, <2>1, ListShown, Zenon
<1> QED
  BY <1>1, <1>2, <1>3, <1>4, Zenon DEF Word

-----------------------------------------------------------------------------
(* The devices obey each frame of ours.                                      *)

LEMMA ThingsAre ==
  ASSUME NEW thing \in Things
  PROVE  /\ thing = <<thing[1], thing[2]>>
         /\ thing[1] \in {"light", "color", "resync"} => thing[2] \in 1 .. 8
         /\ thing[1] \in {"heater", "pool", "spa"} => thing[2] \in 0 .. 1
<1>1. PICK kind, n : /\ thing = <<kind, n>>
                     /\ kind \in {"light", "color", "resync"} => n \in Zones
                     /\ kind \in {"heater", "pool", "spa"} => n \in Heaters
  BY SMT DEF Things, Shown
<1> QED
  BY <1>1, CommandsAssumption, SMT DEF Zones, Heaters

LEMMA OneThing ==
  ASSUME NEW thing \in Things, NEW other \in Things, NEW reg, NEW slot,
         Belongs(thing, reg, slot), Belongs(other, reg, slot)
  PROVE  thing = other
<1>1. thing[1] = other[1] /\ thing[2] = other[2]
  BY ThingsAre, SMT DEF Belongs
<1> QED
  BY <1>1, ThingsAre, Zenon

LEMMA MeantIs ==
  ASSUME NEW frame, NEW thing \in Things, \A t \in Things : IsAbout(frame, t) <=> t = thing
  PROVE  Meant(frame) = {thing}
BY Zenon DEF Meant

LEMMA RegisterMeant ==
  ASSUME NEW frame, NEW cmd \in {\h39, \h3A}, NEW data, frame = Frame(cmd, data),
         NEW thing \in Things,
         Belongs(thing, data[1], data[2])
  PROVE  Meant(frame) = {thing}
<1>1. frame.cmd = cmd /\ frame.data = data
  BY FrameFields, SMT
<1>2. ASSUME NEW t \in Things
      PROVE  IsAbout(frame, t) <=> Belongs(t, data[1], data[2])
  <2>1. cmd # \h10 /\ cmd # \h0F /\ cmd # \h28 /\ cmd # \h3C /\ cmd # \h2A /\ cmd # \h19
    BY SMT
  <2> QED
    BY <1>1, <2>1, Zenon DEF IsAbout
<1>3. \A t \in Things : Belongs(t, data[1], data[2]) => t = thing
  BY OneThing, Zenon
<1>4. \A t \in Things : IsAbout(frame, t) <=> t = thing
  BY <1>2, <1>3, Zenon
<1> QED
  BY <1>4, MeantIs, Zenon

LEMMA OtherMeant ==
  ASSUME NEW frame, NEW cmd \in {\h10, \h0F, \h28, \h3C, \h2A, \h19}, NEW data,
         frame = Frame(cmd, data),
         NEW thing \in Things,
         /\ cmd = \h10 => thing = <<"channel", data[1] + 1>>
         /\ cmd = \h0F => thing = <<"channel", data[1]>>
         /\ cmd = \h28 => thing = <<"valve", data[1] + 1>>
         /\ cmd = \h3C => thing = <<"resync", data[1] + 1>>
         /\ cmd = \h2A => thing = <<"favourite", 0>>
         /\ cmd = \h19 => thing = <<IF data[1] = 1 THEN "pool" ELSE "spa", 0>>
  PROVE  Meant(frame) = {thing}
<1>1. frame.cmd = cmd /\ frame.data = data
  BY FrameFields, SMT
<1>2. cmd \notin {\h39, \h3A}
  BY SMT
<1>3. ASSUME NEW t \in Things
      PROVE  IsAbout(frame, t) <=> t = thing
  <2>1. CASE cmd = \h10
    BY <1>1, <2>1, SMT DEF IsAbout
  <2>2. CASE cmd = \h0F
    BY <1>1, <2>2, SMT DEF IsAbout
  <2>3. CASE cmd = \h28
    BY <1>1, <2>3, SMT DEF IsAbout
  <2>4. CASE cmd = \h3C
    BY <1>1, <2>4, SMT DEF IsAbout
  <2>5. CASE cmd = \h2A
    BY <1>1, <2>5, SMT DEF IsAbout
  <2>6. CASE cmd = \h19
    BY <1>1, <2>6, SMT DEF IsAbout
  <2> QED
    BY <2>1, <2>2, <2>3, <2>4, <2>5, <2>6, Zenon
<1> QED
  BY <1>3, MeantIs, Zenon

LEMMA AppendedOne ==
  ASSUME NEW frames, IsFrames(frames), NEW frame
  PROVE  frames \o <<frame>> = Append(frames, frame)
<1>1. PICK S : frames \in Seq(S)
  BY DEF IsFrames
<1>2. frames \in Seq(S \cup {frame})
  BY <1>1
<1> QED
  BY <1>2

LEMMA AppendedTwo ==
  ASSUME NEW frames, IsFrames(frames), NEW one, NEW two
  PROVE  frames \o <<one, two>> = Append(Append(frames, one), two)
<1>1. PICK S : frames \in Seq(S)
  BY DEF IsFrames
<1> DEFINE T == S \cup {one, two}
<1>2. frames \in Seq(T) /\ one \in T /\ two \in T
  BY <1>1
<1> HIDE DEF T
<1>3. frames \o <<one, two>> \in Seq(T) /\ Append(Append(frames, one), two) \in Seq(T)
  BY <1>2
<1>4. Len(frames \o <<one, two>>) = Len(Append(Append(frames, one), two))
  BY <1>2
<1>5. ASSUME NEW i \in 1 .. Len(frames) + 2
      PROVE  (frames \o <<one, two>>)[i] = Append(Append(frames, one), two)[i]
  BY <1>2
<1>6. Len(frames \o <<one, two>>) = Len(frames) + 2
  BY <1>2
<1> QED
  BY <1>3, <1>4, <1>5, <1>6, SeqEqual

(* The disjunct of Obey that a frame takes.                                  *)
LEMMA ObeyButton ==
  ASSUME DeviceObeys, NEW data, Head(wire) = Frame(\h10, data), NEW thing \in Things,
         Meant(Head(wire)) = {thing}
  PROVE  /\ Becomes(thing, Stepped(device[thing]))
         /\ Say(<<ChannelStatus>>)
<1> DEFINE frame == Head(wire)
<1>1. frame.cmd = \h10 /\ frame.data = data
  BY FrameFields, SMT
<1>2. frame.cmd \notin {\h0F, \h28, \h3C, \h2A, \h19, \h3A, \h39}
  BY <1>1, SMT
<1>3. Obey(frame, thing)
  BY Zenon DEF DeviceObeys
<1> HIDE DEF frame
<1> QED
  BY <1>1, <1>2, <1>3, Zenon DEF Obey, Favourites

LEMMA ObeyMode ==
  ASSUME DeviceObeys, NEW data, Head(wire) = Frame(\h0F, data), NEW thing \in Things,
         Meant(Head(wire)) = {thing}
  PROVE  /\ Becomes(thing, Meaning(thing, data[2]))
         /\ Say(<<ChannelStatus>>)
<1> DEFINE frame == Head(wire)
<1>1. frame.cmd = \h0F /\ frame.data = data
  BY FrameFields, SMT
<1>2. frame.cmd \notin {\h10, \h28, \h3C, \h2A, \h19, \h3A, \h39}
  BY <1>1, SMT
<1>3. Obey(frame, thing)
  BY Zenon DEF DeviceObeys
<1> HIDE DEF frame
<1> QED
  BY <1>1, <1>2, <1>3, Zenon DEF Obey, Favourites

LEMMA ObeyValve ==
  ASSUME DeviceObeys, NEW data, Head(wire) = Frame(\h28, data), NEW thing \in Things,
         Meant(Head(wire)) = {thing}
  PROVE  /\ Becomes(thing, Meaning(thing, data[2]))
         /\ Say(<<ValveStatus>>)
<1> DEFINE frame == Head(wire)
<1>1. frame.cmd = \h28 /\ frame.data = data
  BY FrameFields, SMT
<1>2. frame.cmd \notin {\h10, \h0F, \h3C, \h2A, \h19, \h3A, \h39}
  BY <1>1, SMT
<1>3. Obey(frame, thing)
  BY Zenon DEF DeviceObeys
<1> HIDE DEF frame
<1> QED
  BY <1>1, <1>2, <1>3, Zenon DEF Obey, Favourites

LEMMA ObeyResync ==
  ASSUME DeviceObeys, NEW data, Head(wire) = Frame(\h3C, data), NEW thing \in Things,
         Meant(Head(wire)) = {thing}
  PROVE  /\ Becomes(thing, "done")
         /\ said' = said
<1> DEFINE frame == Head(wire)
<1>1. frame.cmd = \h3C /\ frame.data = data
  BY FrameFields, SMT
<1>2. frame.cmd \notin {\h10, \h0F, \h28, \h2A, \h19, \h3A, \h39}
  BY <1>1, SMT
<1>3. Obey(frame, thing)
  BY Zenon DEF DeviceObeys
<1> HIDE DEF frame
<1> QED
  BY <1>1, <1>2, <1>3, Zenon DEF Obey, Favourites

LEMMA ObeyFavourite ==
  ASSUME DeviceObeys, NEW data, Head(wire) = Frame(\h2A, data), NEW thing \in Things,
         Meant(Head(wire)) = {thing}
  PROVE  /\ \E name \in Favourites : FavouriteCodes[name] = data[1] /\ Becomes(thing, name)
         /\ Say(<<RegisterValue(\h20, 3, data[1])>>)
<1> DEFINE frame == Head(wire)
<1>1. frame.cmd = \h2A /\ frame.data = data
  BY FrameFields, SMT
<1>2. frame.cmd \notin {\h10, \h0F, \h28, \h3C, \h19, \h3A, \h39}
  BY <1>1, SMT
<1>3. Obey(frame, thing)
  BY Zenon DEF DeviceObeys
<1> HIDE DEF frame
<1> QED
  BY <1>1, <1>2, <1>3, Zenon DEF Obey, Favourites

LEMMA ObeySetpoint ==
  ASSUME DeviceObeys, NEW data, Head(wire) = Frame(\h19, data), NEW thing \in Things,
         Meant(Head(wire)) = {thing}
  PROVE  /\ Becomes(thing, data[2])
         /\ said' = said
<1> DEFINE frame == Head(wire)
<1>1. frame.cmd = \h19 /\ frame.data = data
  BY FrameFields, SMT
<1>2. frame.cmd \notin {\h10, \h0F, \h28, \h3C, \h2A, \h3A, \h39}
  BY <1>1, SMT
<1>3. Obey(frame, thing)
  BY Zenon DEF DeviceObeys
<1> HIDE DEF frame
<1> QED
  BY <1>1, <1>2, <1>3, Zenon DEF Obey, Favourites

LEMMA ObeyWrite ==
  ASSUME DeviceObeys, NEW data, Head(wire) = Frame(\h3A, data), NEW thing \in Things,
         Meant(Head(wire)) = {thing}
  PROVE  /\ Becomes(thing, Meaning(thing, data[3]))
         /\ IF thing = <<"heater", 0>>
            THEN Say(<<RegisterValue(data[1], data[2], data[3]), Frame(\h12, <<data[3]>>)>>)
            ELSE Say(<<RegisterValue(data[1], data[2], data[3])>>)
<1> DEFINE frame == Head(wire)
<1>1. frame.cmd = \h3A /\ frame.data = data
  BY FrameFields, SMT
<1>2. frame.cmd \notin {\h10, \h0F, \h28, \h3C, \h2A, \h19, \h39}
  BY <1>1, SMT
<1>3. Obey(frame, thing)
  BY Zenon DEF DeviceObeys
<1> HIDE DEF frame
<1> QED
  BY <1>1, <1>2, <1>3, Zenon DEF Obey, Favourites

LEMMA ObeyRead ==
  ASSUME DeviceObeys, NEW data, Head(wire) = Frame(\h39, data), NEW thing \in Things,
         Meant(Head(wire)) = {thing}
  PROVE  /\ device' = device
         /\ Say(<<RegisterValue(data[1], data[2], device[thing])>>)
<1> DEFINE frame == Head(wire)
<1>1. frame.cmd = \h39 /\ frame.data = data
  BY FrameFields, SMT
<1>2. frame.cmd \notin {\h10, \h0F, \h28, \h3C, \h2A, \h19, \h3A}
  BY <1>1, SMT
<1>3. Obey(frame, thing)
  BY Zenon DEF DeviceObeys
<1> HIDE DEF frame
<1> QED
  BY <1>1, <1>2, <1>3, Zenon DEF Obey, Favourites

(* What is said from now on: all of it shows what the devices hold, but for  *)
(* what it did not before, and the one thing keeps to what it was set to.    *)
Answered(thing, told) ==
  \E more : /\ DOMAIN more = Shown /\ Speaks(said', shown, more) /\ IsFrames(said')
            /\ \A t \in Shown : more[t] = device'[t] \/ (t # thing /\ more[t] = told[t])

LEMMA AnsweredOne ==
  ASSUME IsFrames(said), NEW told, DOMAIN told = Shown, Speaks(said, shown, told),
         NEW thing \in Shown, NEW value, NEW frame, Tells(frame, thing, value),
         Say(<<frame>>), device'[thing] = value
  PROVE  Answered(thing, told)
<1> DEFINE more == [told EXCEPT ![thing] = value]
<1>1. Word(frame, told, more)
  BY Zenon DEF Word
<1>2. said' = Append(said, frame)
  BY AppendedOne, Zenon DEF Say
<1>3. Speaks(said', shown, more) /\ IsFrames(said')
  BY <1>1, <1>2, SpeaksOn, Zenon
<1>4. DOMAIN more = Shown /\ more[thing] = value /\ \A t \in Shown \ {thing} : more[t] = told[t]
  BY Zenon
<1> QED
  BY <1>3, <1>4, Zenon DEF Answered

LEMMA AnsweredNot ==
  ASSUME IsFrames(said), NEW told, DOMAIN told = Shown, Speaks(said, shown, told),
         NEW thing, thing \notin Shown, said' = said
  PROVE  Answered(thing, told)
BY Zenon DEF Answered

LEMMA AnsweredList ==
  ASSUME IsFrames(said), NEW told, DOMAIN told = Shown, Speaks(said, shown, told),
         NEW kind \in {"channel", "valve"}, NEW numbers,
         numbers = (IF kind = "channel" THEN Channels ELSE Valves),
         \A n \in numbers : device'[<<kind, n>>] \in StateNames,
         Say(<<IF kind = "channel" THEN ChannelStatus ELSE ValveStatus>>),
         NEW thing, thing[1] = kind
  PROVE  Answered(thing, told)
<1> DEFINE names == [n \in numbers |-> device'[<<kind, n>>]]
           frame == ListOf(kind, numbers, names)
           more == Replaced(kind, names, told)
<1>1. names \in [numbers -> StateNames]
  BY Zenon
<1>2. [n \in numbers |-> Code(States, names[n])] = [n \in numbers |-> Code(States, device'[<<kind, n>>])]
  BY Zenon
<1>3. frame = (IF kind = "channel" THEN ChannelStatus ELSE ValveStatus)
  <2>1. CASE kind = "channel"
    BY <1>2, <2>1, Zenon DEF ListOf, ChannelStatus
  <2>2. CASE kind = "valve"
    <3>1. kind # "channel"
      BY <2>2, SMT
    <3> QED
      BY <1>2, <2>2, <3>1, Zenon DEF ListOf, ValveStatus
  <2> QED
    BY <2>1, <2>2, Zenon
<1>4. Word(frame, told, more)
  <2> HIDE DEF names
  <2>1. CASE kind = "channel"
    BY <1>1, <2>1, Zenon DEF Word
  <2>2. CASE kind = "valve"
    <3>1. kind # "channel"
      BY <2>2, SMT
    <3> QED
      BY <1>1, <2>2, <3>1, Zenon DEF Word
  <2> QED
    BY <2>1, <2>2, Zenon
<1> HIDE DEF frame
<1>5. said' = Append(said, frame)
  BY <1>3, AppendedOne, Zenon DEF Say
<1>6. Speaks(said', shown, more) /\ IsFrames(said')
  BY <1>4, <1>5, SpeaksOn, Zenon
<1>7. ASSUME NEW t \in Shown
      PROVE  more[t] = device'[t] \/ (t # thing /\ more[t] = told[t])
  <2>1. CASE t[1] = kind
    <3>1. t[2] \in numbers /\ t = <<t[1], t[2]>>
      <4>1. t \in {kind} \X numbers
        BY <2>1, SMT DEF Shown
      <4> QED
        BY <4>1, SMT
    <3>2. more[t] = names[t[2]]
      BY <2>1, Zenon DEF Replaced
    <3>3. names[t[2]] = device'[<<kind, t[2]>>]
      BY <3>1, Zenon
    <3> QED
      BY <2>1, <3>1, <3>2, <3>3, Zenon
  <2>2. CASE t[1] # kind
    <3>1. more[t] = told[t]
      BY <2>2, Zenon DEF Replaced
    <3> QED
      BY <2>2, <3>1, Zenon
  <2> QED
    BY <2>1, <2>2, Zenon
<1>8. DOMAIN more = Shown
  BY Zenon DEF Replaced
<1> QED
  BY <1>6, <1>7, <1>8, Zenon DEF Answered

(* What becomes of an order that a device obeys: it is answered, or it is    *)
(* the setpoint of the system, for which nobody answers.                     *)
Ready(told) ==
  Holds(device) /\ IsFrames(said) /\ DOMAIN told = Shown /\ Speaks(said, shown, told) /\ DeviceObeys
Obeyed(thing, value, told) ==
  /\ Meant(Head(wire)) = {thing} /\ device' = [device EXCEPT ![thing] = value]
  /\ value \in Held /\ (thing[1] \in {"channel", "valve"} => value \in StateNames)
  /\ \/ Answered(thing, told)
     \/ \E body \in Bodies, temp \in Temperatures :
          Head(wire) = SystemSetpoint(body, temp) /\ thing = <<body, 0>> /\ said' = said

LEMMA MeansState ==
  ASSUME NEW kind \in {"light", "channel", "valve"}, NEW n, NEW name \in StateNames
  PROVE  Meaning(<<kind, n>>, Code(States, name)) = name
<1>1. Meaning(<<kind, n>>, Code(States, name)) = Name(States, Code(States, name))
  BY SMT DEF Meaning
<1> QED
  BY <1>1, StateCodes, Zenon

LEMMA MeansColor ==
  ASSUME NEW n, NEW name \in ColorNames
  PROVE  Meaning(<<"color", n>>, Code(Colors, name)) = name
<1>1. Meaning(<<"color", n>>, Code(Colors, name)) = Name(Colors, Code(Colors, name))
  BY SMT DEF Meaning
<1> QED
  BY <1>1, ColorCodes, Zenon

LEMMA MeansHeater ==
  ASSUME NEW n, NEW name \in OnOff
  PROVE  Meaning(<<"heater", n>>, HeaterCode(name)) = name
BY SMT DEF Meaning, HeaterCode, OnOff

LEMMA MeansTemperature ==
  ASSUME NEW n, NEW body \in Bodies, NEW temp
  PROVE  Meaning(<<body, n>>, temp) = temp
BY SMT DEF Meaning, Bodies

LEMMA BecameThat ==
  ASSUME Holds(device), NEW thing \in Things, NEW value, Becomes(thing, value)
  PROVE  /\ device' = [device EXCEPT ![thing] = value] /\ device'[thing] = value
         /\ \A t \in Things \ {thing} : device'[t] = device[t]
BY Zenon DEF Becomes, Holds

LEMMA ChannelObeyed ==
  ASSUME NEW told, Ready(told), NEW n \in Channels, NEW thing, thing = <<"channel", n>>,
         NEW value,
         \/ Head(wire) = Frame(\h10, <<ChannelIndex(n)>>) /\ value = Stepped(device[thing])
         \/ value \in StateNames /\ Head(wire) = ChannelModeFrame(n, value)
  PROVE  Obeyed(thing, value, told)
<1>1. thing \in Things /\ n \in Int
  BY CommandsAssumption, SMT DEF Things, Shown, Channels
<1>2. /\ Becomes(thing, value) /\ Say(<<ChannelStatus>>) /\ value \in StateNames
      /\ Meant(Head(wire)) = {thing}
  <2>1. CASE Head(wire) = Frame(\h10, <<ChannelIndex(n)>>) /\ value = Stepped(device[thing])
    <3> DEFINE data == <<ChannelIndex(n)>>
    <3>1. data[1] + 1 = n
      BY <1>1, SMT DEF ChannelIndex
    <3>2. Meant(Head(wire)) = {thing}
      <4> HIDE DEF data
      <4> QED
        BY <1>1, <2>1, <3>1, OtherMeant, SMT DEF data
    <3>3. Becomes(thing, Stepped(device[thing])) /\ Say(<<ChannelStatus>>)
      BY <1>1, <2>1, <3>2, ObeyButton, Zenon DEF Ready
    <3>4. Stepped(device[thing]) \in StateNames
      BY FewStates, Zenon DEF Stepped, OffAutoOn
    <3> QED
      BY <2>1, <3>2, <3>3, <3>4, Zenon
  <2>2. CASE value \in StateNames /\ Head(wire) = ChannelModeFrame(n, value)
    <3> DEFINE data == <<n, Code(States, value)>>
    <3>1. data[1] = n /\ data[2] = Code(States, value) /\ Head(wire) = Frame(\h0F, data)
      BY <2>2, SMT DEF ChannelModeFrame
    <3> HIDE DEF data
    <3>2. Meant(Head(wire)) = {thing}
      BY <1>1, <3>1, OtherMeant, SMT
    <3>3. Becomes(thing, Meaning(thing, data[2])) /\ Say(<<ChannelStatus>>)
      BY <1>1, <3>1, <3>2, ObeyMode, Zenon DEF Ready
    <3>4. Meaning(thing, data[2]) = value
      BY <2>2, <3>1, MeansState, Zenon
    <3> QED
      BY <2>2, <3>2, <3>3, <3>4, Zenon
  <2> QED
    BY <2>1, <2>2, Zenon
<1>3. /\ device' = [device EXCEPT ![thing] = value] /\ device'[thing] = value
      /\ \A t \in Things \ {thing} : device'[t] = device[t]
  BY <1>1, <1>2, BecameThat, Zenon DEF Ready
<1>4. \A m \in Channels : device'[<<"channel", m>>] \in StateNames
  <2> SUFFICES ASSUME NEW m \in Channels
               PROVE  device'[<<"channel", m>>] \in StateNames
    OBVIOUS
  <2>1. <<"channel", m>> \in Things
    BY SMT DEF Things, Shown
  <2> QED
    BY <1>2, <1>3, <2>1, Zenon DEF Ready, Holds
<1>5. thing[1] = "channel"
  BY SMT
<1>6. Answered(thing, told)
  BY <1>2, <1>4, <1>5, AnsweredList, Zenon DEF Ready
<1> QED
  BY <1>2, <1>3, <1>6, Zenon DEF Obeyed, Held

LEMMA ValveObeyed ==
  ASSUME NEW told, Ready(told), NEW v \in Valves, NEW thing, thing = <<"valve", v>>,
         NEW value \in OffAutoOn,
         Head(wire) = Frame(\h28, <<v - 1, Code(States, value)>>)
  PROVE  Obeyed(thing, value, told)
<1>1. thing \in Things /\ v \in Int
  BY CommandsAssumption, SMT DEF Things, Shown, Valves
<1> DEFINE data == <<v - 1, Code(States, value)>>
<1>2. data[1] + 1 = v /\ data[2] = Code(States, value) /\ Head(wire) = Frame(\h28, data)
  BY <1>1, SMT
<1> HIDE DEF data
<1>3. Meant(Head(wire)) = {thing}
  BY <1>1, <1>2, OtherMeant, SMT
<1>4. Becomes(thing, Meaning(thing, data[2])) /\ Say(<<ValveStatus>>)
  BY <1>1, <1>2, <1>3, ObeyValve, Zenon DEF Ready
<1>5. value \in StateNames
  BY FewStates, Zenon
<1>6. Meaning(thing, data[2]) = value
  BY <1>2, <1>5, MeansState, Zenon
<1>7. /\ device' = [device EXCEPT ![thing] = value] /\ device'[thing] = value
      /\ \A t \in Things \ {thing} : device'[t] = device[t]
  BY <1>1, <1>4, <1>6, BecameThat, Zenon DEF Ready
<1>8. \A m \in Valves : device'[<<"valve", m>>] \in StateNames
  <2> SUFFICES ASSUME NEW m \in Valves
               PROVE  device'[<<"valve", m>>] \in StateNames
    OBVIOUS
  <2>1. <<"valve", m>> \in Things
    BY SMT DEF Things, Shown
  <2> QED
    BY <1>5, <1>7, <2>1, Zenon DEF Ready, Holds
<1>9. thing[1] = "valve" /\ "valve" # "channel"
  BY SMT
<1>10. Answered(thing, told)
  BY <1>4, <1>8, <1>9, AnsweredList, Zenon DEF Ready
<1> QED
  BY <1>3, <1>5, <1>7, <1>10, Zenon DEF Obeyed, Held

LEMMA WriteObeyed ==
  ASSUME NEW told, Ready(told), NEW thing \in Things, NEW reg, NEW slot, NEW code,
         Head(wire) = WriteRegister(reg, slot, code), Belongs(thing, reg, slot),
         thing # <<"heater", 0>>,
         NEW value \in Held, Meaning(thing, code) = value, thing[1] \notin {"channel", "valve"},
         thing \in Shown, Tells(RegisterValue(reg, slot, code), thing, value)
  PROVE  Obeyed(thing, value, told)
<1> DEFINE data == <<reg, slot, code>>
<1>1. data[1] = reg /\ data[2] = slot /\ data[3] = code
  BY SMT
<1>2. Head(wire) = Frame(\h3A, data)
  BY Zenon DEF WriteRegister
<1> HIDE DEF data
<1>3. Meant(Head(wire)) = {thing}
  BY <1>1, <1>2, RegisterMeant, SMT
<1>4. /\ Becomes(thing, Meaning(thing, data[3]))
      /\ IF thing = <<"heater", 0>>
         THEN Say(<<RegisterValue(data[1], data[2], data[3]), Frame(\h12, <<data[3]>>)>>)
         ELSE Say(<<RegisterValue(data[1], data[2], data[3])>>)
  BY <1>2, <1>3, ObeyWrite, Zenon DEF Ready
<1>5. Becomes(thing, value) /\ Say(<<RegisterValue(reg, slot, code)>>)
  BY <1>1, <1>4, Zenon
<1>6. device' = [device EXCEPT ![thing] = value] /\ device'[thing] = value
  BY <1>5, BecameThat, Zenon DEF Ready
<1>7. Answered(thing, told)
  BY <1>5, <1>6, AnsweredOne, Zenon DEF Ready
<1> QED
  BY <1>3, <1>6, <1>7, Zenon DEF Obeyed

LEMMA LightObeyed ==
  ASSUME NEW told, Ready(told), NEW z \in Zones, NEW thing, thing = <<"light", z>>,
         NEW value \in OffAutoOn,
         Head(wire) = WriteRegister(\hC0 + (z - 1), 1, Code(States, value))
  PROVE  Obeyed(thing, value, told)
<1> DEFINE reg == \hC0 + (z - 1)
<1>1. reg = \hBF + z
  BY CommandsAssumption, SMT DEF Zones
<1> HIDE DEF reg
<1>2. thing \in Things /\ thing \in Shown /\ thing # <<"heater", 0>> /\ thing[1] \notin {"channel", "valve"}
  BY SMT DEF Things, Shown
<1>3. Belongs(thing, reg, 1)
  BY <1>1, SMT DEF Belongs
<1>4. value \in StateNames /\ value \in Held
  BY FewStates, Zenon DEF Held
<1>5. Meaning(thing, Code(States, value)) = value
  BY <1>4, MeansState, Zenon
<1>6. Tells(RegisterValue(reg, 1, Code(States, value)), thing, value)
  BY <1>1, <1>4, Zenon DEF Tells
<1>7. Head(wire) = WriteRegister(reg, 1, Code(States, value))
  BY Zenon DEF reg
<1> QED
  BY <1>2, <1>3, <1>4, <1>5, <1>6, <1>7, WriteObeyed, Zenon

LEMMA ColorObeyed ==
  ASSUME NEW told, Ready(told), NEW z \in Zones, NEW thing, thing = <<"color", z>>,
         NEW value \in ColorNames,
         Head(wire) = WriteRegister(\hD0 + (z - 1), 1, Code(Colors, value))
  PROVE  Obeyed(thing, value, told)
<1> DEFINE reg == \hD0 + (z - 1)
<1>1. reg = \hCF + z
  BY CommandsAssumption, SMT DEF Zones
<1> HIDE DEF reg
<1>2. thing \in Things /\ thing \in Shown /\ thing # <<"heater", 0>> /\ thing[1] \notin {"channel", "valve"}
  BY SMT DEF Things, Shown
<1>3. Belongs(thing, reg, 1)
  BY <1>1, SMT DEF Belongs
<1>4. value \in Held
  BY Zenon DEF Held
<1>5. Meaning(thing, Code(Colors, value)) = value
  BY MeansColor, Zenon
<1>6. Tells(RegisterValue(reg, 1, Code(Colors, value)), thing, value)
  BY <1>1, Zenon DEF Tells
<1>7. Head(wire) = WriteRegister(reg, 1, Code(Colors, value))
  BY Zenon DEF reg
<1> QED
  BY <1>2, <1>3, <1>4, <1>5, <1>6, <1>7, WriteObeyed, Zenon

LEMMA Heater2Obeyed ==
  ASSUME NEW told, Ready(told), NEW thing, thing = <<"heater", 1>>, NEW value \in OnOff,
         Head(wire) = WriteRegister(\hE9, 0, HeaterCode(value))
  PROVE  Obeyed(thing, value, told)
<1>1. thing \in Things /\ thing \in Shown /\ thing # <<"heater", 0>> /\ thing[1] \notin {"channel", "valve"}
  BY SMT DEF Things, Shown, Heaters
<1>2. Belongs(thing, \hE9, 0)
  BY SMT DEF Belongs
<1>3. value \in Held
  BY FewStates, Zenon DEF Held, OnOff, OffAutoOn
<1>4. Meaning(thing, HeaterCode(value)) = value
  BY MeansHeater, Zenon
<1>5. Tells(RegisterValue(\hE9, 0, HeaterCode(value)), thing, value)
  BY Zenon DEF Tells
<1> QED
  BY <1>1, <1>2, <1>3, <1>4, <1>5, WriteObeyed, Zenon

LEMMA HeaterObeyed ==
  ASSUME NEW told, Ready(told), NEW thing, thing = <<"heater", 0>>, NEW value \in OnOff,
         Head(wire) = WriteRegister(\hE6, 0, HeaterCode(value))
  PROVE  Obeyed(thing, value, told)
<1> DEFINE code == HeaterCode(value)
           data == <<\hE6, 0, code>>
           logged == RegisterValue(\hE6, 0, code)
           word == Frame(\h12, <<code>>)
<1>1. thing \in Things /\ thing \in Shown /\ thing[1] \notin {"channel", "valve"}
  BY SMT DEF Things, Shown, Heaters
<1>2. Belongs(thing, \hE6, 0)
  BY SMT DEF Belongs
<1>3. value \in Held
  BY FewStates, Zenon DEF Held, OnOff, OffAutoOn
<1>4. data[1] = \hE6 /\ data[2] = 0 /\ data[3] = code
  BY SMT
<1>5. Head(wire) = Frame(\h3A, data)
  BY Zenon DEF WriteRegister
<1> HIDE DEF data
<1>6. Meant(Head(wire)) = {thing}
  BY <1>1, <1>2, <1>4, <1>5, RegisterMeant, SMT
<1>7. /\ Becomes(thing, Meaning(thing, data[3]))
      /\ IF thing = <<"heater", 0>>
         THEN Say(<<RegisterValue(data[1], data[2], data[3]), Frame(\h12, <<data[3]>>)>>)
         ELSE Say(<<RegisterValue(data[1], data[2], data[3])>>)
  BY <1>1, <1>5, <1>6, ObeyWrite, Zenon DEF Ready
<1>8. Meaning(thing, code) = value
  BY MeansHeater, Zenon
<1>9. Becomes(thing, value) /\ Say(<<logged, word>>)
  BY <1>4, <1>7, <1>8, Zenon
<1>10. device' = [device EXCEPT ![thing] = value] /\ device'[thing] = value
  BY <1>1, <1>9, BecameThat, Zenon DEF Ready
<1> DEFINE more == [told EXCEPT ![thing] = value]
<1>11. Word(logged, told, told) /\ Word(word, told, more)
  <2>1. code \in 0 .. 1
    BY SMT DEF HeaterCode
  <2>2. Word(logged, told, told)
    BY <2>1, Zenon DEF Word
  <2>3. Tells(word, thing, value)
    BY Zenon DEF Tells
  <2>4. Word(word, told, more)
    BY <1>1, <2>3, Zenon DEF Word
  <2> QED
    BY <2>2, <2>4
<1> HIDE DEF logged, word
<1>12. said' = Append(Append(said, logged), word)
  <2>1. said' = said \o <<logged, word>>
    BY <1>9, Zenon DEF Say
  <2>2. IsFrames(said)
    BY Zenon DEF Ready
  <2>3. said \o <<logged, word>> = Append(Append(said, logged), word)
    BY <2>2, AppendedTwo
  <2> QED
    BY <2>1, <2>3, Zenon
<1>13. Speaks(Append(said, logged), shown, told) /\ IsFrames(Append(said, logged))
  BY <1>11, SpeaksOn, Zenon DEF Ready
<1>14. Speaks(said', shown, more) /\ IsFrames(said')
  BY <1>11, <1>12, <1>13, SpeaksOn, Zenon
<1>15. DOMAIN more = Shown /\ more[thing] = value /\ \A t \in Shown \ {thing} : more[t] = told[t]
  BY <1>1, Zenon DEF Ready
<1>16. Answered(thing, told)
  BY <1>10, <1>14, <1>15, Zenon DEF Answered
<1> QED
  BY <1>1, <1>3, <1>6, <1>10, <1>16, Zenon DEF Obeyed

LEMMA ResyncObeyed ==
  ASSUME NEW told, Ready(told), NEW z \in Zones, NEW thing, thing = <<"resync", z>>,
         NEW value, value = "done",
         Head(wire) = Frame(\h3C, <<z - 1>>)
  PROVE  Obeyed(thing, value, told)
<1> DEFINE data == <<z - 1>>
<1>1. thing \in Things /\ thing \notin Shown /\ thing[1] \notin {"channel", "valve"}
  BY SMT DEF Things, Shown
<1>2. data[1] + 1 = z
  BY CommandsAssumption, SMT DEF Zones
<1>3. Head(wire) = Frame(\h3C, data)
  BY Zenon
<1> HIDE DEF data
<1>4. Meant(Head(wire)) = {thing}
  BY <1>1, <1>2, <1>3, OtherMeant, SMT
<1>5. Becomes(thing, value) /\ said' = said
  BY <1>1, <1>3, <1>4, ObeyResync, Zenon DEF Ready
<1>6. device' = [device EXCEPT ![thing] = value]
  BY <1>1, <1>5, BecameThat, Zenon DEF Ready
<1>7. Answered(thing, told)
  BY <1>1, <1>5, AnsweredNot, Zenon DEF Ready
<1> QED
  BY <1>1, <1>4, <1>6, <1>7, Zenon DEF Obeyed, Held

LEMMA FavouriteObeyed ==
  ASSUME NEW told, Ready(told), NEW thing, thing = <<"favourite", 0>>, NEW value \in Favourites,
         Head(wire) = Frame(\h2A, <<FavouriteCodes[value]>>)
  PROVE  Obeyed(thing, value, told)
<1> DEFINE data == <<FavouriteCodes[value]>>
<1>1. thing \in Things /\ thing \in Shown /\ thing[1] \notin {"channel", "valve"}
  BY SMT DEF Things, Shown
<1>2. data[1] = FavouriteCodes[value]
  BY SMT
<1>3. Head(wire) = Frame(\h2A, data)
  BY Zenon
<1> HIDE DEF data
<1>4. Meant(Head(wire)) = {thing}
  BY <1>1, <1>3, OtherMeant, SMT
<1>5. /\ \E name \in Favourites : FavouriteCodes[name] = data[1] /\ Becomes(thing, name)
      /\ Say(<<RegisterValue(\h20, 3, data[1])>>)
  BY <1>1, <1>3, <1>4, ObeyFavourite, Zenon DEF Ready
<1>6. Becomes(thing, value)
  BY <1>2, <1>5, FavouritesApart, Zenon
<1>7. device' = [device EXCEPT ![thing] = value] /\ device'[thing] = value
  BY <1>1, <1>6, BecameThat, Zenon DEF Ready
<1>8. Tells(RegisterValue(\h20, 3, data[1]), thing, value)
  BY <1>2, Zenon DEF Tells
<1>9. Answered(thing, told)
  BY <1>1, <1>5, <1>7, <1>8, AnsweredOne, Zenon DEF Ready
<1> QED
  BY <1>1, <1>4, <1>7, <1>9, Zenon DEF Obeyed, Held

LEMMA SystemSetpointObeyed ==
  ASSUME NEW told, Ready(told), NEW body \in Bodies, NEW thing, thing = <<body, 0>>,
         NEW value \in Temperatures, Head(wire) = SystemSetpoint(body, value)
  PROVE  Obeyed(thing, value, told)
<1> DEFINE data == <<IF body = "pool" THEN 1 ELSE 2, value, value>>
<1>1. thing \in Things /\ thing[1] \notin {"channel", "valve"}
  BY SMT DEF Things, Shown, Heaters, Bodies
<1>2. data[2] = value /\ body = (IF data[1] = 1 THEN "pool" ELSE "spa")
  BY SMT DEF Bodies
<1>3. Head(wire) = Frame(\h19, data)
  BY Zenon DEF SystemSetpoint
<1> HIDE DEF data
<1>4. Meant(Head(wire)) = {thing}
  BY <1>1, <1>2, <1>3, OtherMeant, SMT
<1>5. Becomes(thing, value) /\ said' = said
  BY <1>1, <1>2, <1>3, <1>4, ObeySetpoint, Zenon DEF Ready
<1>6. device' = [device EXCEPT ![thing] = value]
  BY <1>1, <1>5, BecameThat, Zenon DEF Ready
<1> QED
  BY <1>1, <1>4, <1>5, <1>6, Zenon DEF Obeyed, Held

LEMMA SetpointBelongs ==
  ASSUME NEW body \in Bodies, NEW h \in Heaters
  PROVE  /\ Belongs(<<body, h>>, SetpointRegister(h, body), 0)
         /\ <<body, h>> \in Things /\ <<body, h>> \in Shown /\ body \notin {"channel", "valve", "heater"}
<1>1. SetpointRegister(h, body) = (IF body = "pool" THEN \hE7 ELSE \hE8) + 3 * h
  BY SetpointRegisters, Zenon
<1>2. h \in Int
  BY SMT DEF Heaters
<1>3. Belongs(<<body, h>>, SetpointRegister(h, body), 0)
  BY <1>1, <1>2, SMT DEF Belongs, Bodies
<1>4. <<body, h>> \in Things /\ <<body, h>> \in Shown /\ body \notin {"channel", "valve", "heater"}
  BY SMT DEF Things, Shown, Bodies
<1> QED
  BY <1>3, <1>4

LEMMA SetpointObeyed ==
  ASSUME NEW told, Ready(told), NEW body \in Bodies, NEW thing, thing = <<body, 1>>,
         NEW value \in Temperatures,
         Head(wire) = WriteRegister(SetpointRegister(1, body), 0, value)
  PROVE  Obeyed(thing, value, told)
<1> DEFINE reg == SetpointRegister(1, body)
<1>1. 1 \in Heaters
  BY SMT DEF Heaters
<1>2. Belongs(thing, reg, 0) /\ thing \in Things /\ thing \in Shown
  BY <1>1, SetpointBelongs, Zenon
<1>3. thing # <<"heater", 0>> /\ thing[1] \notin {"channel", "valve"}
  BY <1>1, SetpointBelongs, SMT
<1>4. Meaning(thing, value) = value
  BY MeansTemperature, Zenon
<1>5. Tells(RegisterValue(reg, 0, value), thing, value)
  BY <1>1, Zenon DEF Tells
<1>6. value \in Held
  BY Zenon DEF Held
<1> QED
  BY <1>2, <1>3, <1>4, <1>5, <1>6, WriteObeyed, Zenon

LEMMA ReadMeant ==
  ASSUME NEW body \in Bodies, NEW h \in Heaters, NEW frame, frame = ReadSetpoint(body, h)
  PROVE  Meant(frame) = {<<body, h>>}
<1> DEFINE reg == SetpointRegister(h, body)
           data == <<reg, 0>>
<1>1. frame = Frame(\h39, data)
  BY Zenon DEF ReadSetpoint, ReadRegister
<1>2. data[1] = reg /\ data[2] = 0
  BY SMT
<1> HIDE DEF data
<1>3. Belongs(<<body, h>>, data[1], data[2]) /\ <<body, h>> \in Things
  BY <1>2, SetpointBelongs, Zenon
<1> QED
  BY <1>1, <1>3, RegisterMeant, SMT

LEMMA ReadObeyed ==
  ASSUME NEW told, Ready(told), NEW body \in Bodies, NEW h \in Heaters, NEW thing,
         thing = <<body, h>>,
         NEW value, value = device[thing], Head(wire) = ReadSetpoint(body, h)
  PROVE  Obeyed(thing, value, told)
<1> DEFINE reg == SetpointRegister(h, body)
           data == <<reg, 0>>
<1>1. thing \in Things /\ thing \in Shown
  BY SetpointBelongs, Zenon
<1>2. thing[1] \notin {"channel", "valve"}
  BY SetpointBelongs, SMT
<1>3. Head(wire) = Frame(\h39, data)
  BY Zenon DEF ReadSetpoint, ReadRegister
<1>4. data[1] = reg /\ data[2] = 0
  BY SMT
<1> HIDE DEF data
<1>5. Meant(Head(wire)) = {thing}
  BY ReadMeant, Zenon
<1>6. device' = device /\ Say(<<RegisterValue(data[1], data[2], device[thing])>>)
  BY <1>1, <1>3, <1>5, ObeyRead, Zenon DEF Ready
<1>7. device = [device EXCEPT ![thing] = value] /\ value \in Held
  BY <1>1, Zenon DEF Ready, Holds
<1>8. Tells(RegisterValue(data[1], data[2], device[thing]), thing, value)
  BY <1>4, Zenon DEF Tells
<1>9. Answered(thing, told)
  BY <1>1, <1>6, <1>8, AnsweredOne, Zenon DEF Ready
<1> QED
  BY <1>2, <1>5, <1>6, <1>7, <1>9, Zenon DEF Obeyed

LEMMA OrderObeyed ==
  ASSUME NEW told, Ready(told), NEW thing, NEW value, Asks(Head(wire), device, thing, value)
  PROVE  Obeyed(thing, value, told)
<1>1. ASSUME NEW h \in Heaters, thing = <<"heater", h>>, value \in OnOff,
             Head(wire) = WriteRegister(IF h = 0 THEN \hE6 ELSE \hE9, 0, HeaterCode(value))
      PROVE  Obeyed(thing, value, told)
  <2>1. h = 0 \/ h = 1
    BY SMT DEF Heaters
  <2>2. CASE h = 0
    BY <1>1, <2>2, HeaterObeyed, Zenon
  <2>3. CASE h = 1
    <3>1. Head(wire) = WriteRegister(\hE9, 0, HeaterCode(value))
      BY <1>1, <2>3, SMT
    <3> QED
      BY <1>1, <2>3, <3>1, Heater2Obeyed, Zenon
  <2> QED
    BY <2>1, <2>2, <2>3, Zenon
<1> QED
  BY <1>1, ChannelObeyed, ValveObeyed, LightObeyed, ColorObeyed, ResyncObeyed, FavouriteObeyed,
     SystemSetpointObeyed, SetpointObeyed, ReadObeyed, Zenon DEF Asks

-----------------------------------------------------------------------------
(* A command keeps the invariant.                                            *)

LEMMA FramesLength ==
  ASSUME NEW frames, IsFrames(frames)
  PROVE  Len(frames) \in Nat /\ DOMAIN frames = 1 .. Len(frames)
<1>1. PICK S : frames \in Seq(S)
  BY DEF IsFrames
<1> QED
  BY <1>1

LEMMA AppendedAre ==
  ASSUME NEW frames, IsFrames(frames), NEW frame
  PROVE  /\ IsFrames(Append(frames, frame)) /\ Len(Append(frames, frame)) = Len(frames) + 1
         /\ \A i \in 1 .. Len(frames) : Append(frames, frame)[i] = frames[i]
         /\ Append(frames, frame)[Len(frames) + 1] = frame
<1>1. PICK S : frames \in Seq(S)
  BY DEF IsFrames
<1>2. frames \in Seq(S \cup {frame}) /\ Append(frames, frame) \in Seq(S \cup {frame})
  BY <1>1
<1> QED
  BY <1>2 DEF IsFrames

LEMMA WireGrown ==
  ASSUME CommandInv, UNCHANGED <<shown, device, said>>,
         IsFrames(wire'), Len(wire') >= Len(wire), \A i \in 1 .. Len(wire) : wire'[i] = wire[i],
         Leads(wire', device, wanted'),
         \A i \in Len(wire) + 1 .. Len(wire'), body \in Bodies, temp \in Temperatures :
           wire'[i] = SystemSetpoint(body, temp) =>
             i < Len(wire') /\ wire'[i + 1] = ReadSetpoint(body, 0)
  PROVE  CommandInv'
<1>1. /\ Len(wire) \in Nat /\ DOMAIN wire = 1 .. Len(wire)
      /\ Len(wire') \in Nat /\ DOMAIN wire' = 1 .. Len(wire')
  BY FramesLength, Zenon DEF CommandInv
<1>2. Holds(device)' /\ IsFrames(wire)' /\ IsFrames(said)' /\ Leads(wire', device', wanted')
  BY Zenon DEF CommandInv, Holds
<1>3. ReadNext'
  <2> SUFFICES ASSUME NEW i \in 1 .. Len(wire'), NEW body \in Bodies, NEW temp \in Temperatures,
                      wire'[i] = SystemSetpoint(body, temp)
               PROVE  i < Len(wire') /\ wire'[i + 1] = ReadSetpoint(body, 0)
    BY <1>1, Zenon DEF ReadNext, SystemSetpoint, ReadSetpoint, Frame
  <2>1. CASE i \in 1 .. Len(wire)
    <3>1. i < Len(wire) /\ wire[i + 1] = ReadSetpoint(body, 0)
      BY <1>1, <2>1, Zenon DEF CommandInv, ReadNext
    <3>2. i + 1 \in 1 .. Len(wire) /\ i < Len(wire')
      BY <1>1, <2>1, <3>1, SMT
    <3> QED
      BY <3>1, <3>2, Zenon
  <2>2. CASE i \in Len(wire) + 1 .. Len(wire')
    BY <2>2, Zenon
  <2> QED
    BY <1>1, <2>1, <2>2, SMT
<1>4. ASSUME NEW thing, BeingRead(thing)
      PROVE  BeingRead(thing)'
  <2>1. PICK body \in Bodies, h \in Heaters :
          thing = <<body, h>> /\ \E i \in DOMAIN wire : wire[i] = ReadSetpoint(body, h)
    BY <1>4, Zenon DEF BeingRead
  <2>2. PICK i \in DOMAIN wire : wire[i] = ReadSetpoint(body, h)
    BY <2>1, Zenon
  <2>3. i \in DOMAIN wire' /\ i \in 1 .. Len(wire)
    BY <1>1, SMT
  <2>4. wire'[i] = ReadSetpoint(body, h)
    BY <2>2, <2>3, Zenon
  <2>5. \E b \in Bodies, g \in Heaters :
          thing = <<b, g>> /\ \E j \in DOMAIN wire' : wire'[j] = ReadSetpoint(b, g)
    BY <2>1, <2>3, <2>4, Zenon
  <2> QED
    BY <2>5 DEF BeingRead
<1>5. WillShow'
  BY <1>4, Zenon DEF CommandInv, WillShow
<1> QED
  BY <1>2, <1>3, <1>5, Zenon DEF CommandInv

LEMMA NoSetpoint ==
  ASSUME NEW cmd, cmd # \h19, NEW data, NEW body, NEW temp
  PROVE  Frame(cmd, data) # SystemSetpoint(body, temp)
<1> SUFFICES ASSUME Frame(cmd, data) = SystemSetpoint(body, temp)
             PROVE  FALSE
  OBVIOUS
<1> DEFINE other == <<IF body = "pool" THEN 1 ELSE 2, temp, temp>>
<1>1. Frame(cmd, data) = Frame(\h19, other)
  BY Zenon DEF SystemSetpoint
<1> HIDE DEF other
<1>2. cmd = \h19
  BY <1>1, SameFrames
<1> QED
  BY <1>2

LEMMA CommandKeeps ==
  ASSUME CommandInv, NEW thing \in Things, NEW value, NEW frame, NEW cmd, NEW data,
         frame = Frame(cmd, data), cmd # \h19,
         Asks(frame, wanted, thing, value), Command(thing, value, <<frame>>)
  PROVE  CommandInv'
<1>1. wire' = Append(wire, frame)
  BY AppendedOne, Zenon DEF Command, CommandInv
<1>2. UNCHANGED <<shown, device, said>> /\ wanted' = [wanted EXCEPT ![thing] = value]
  BY Zenon DEF Command
<1>3. Leads(wire', device, wanted')
  <2>1. Orders(frame, wanted, wanted')
    BY <1>2, Zenon DEF Orders
  <2> QED
    BY <1>1, <2>1, LeadsOn, Zenon DEF CommandInv
<1>4. /\ IsFrames(wire') /\ Len(wire') = Len(wire) + 1 /\ wire'[Len(wire) + 1] = frame
      /\ \A i \in 1 .. Len(wire) : wire'[i] = wire[i]
  <2>1. IsFrames(wire)
    BY Zenon DEF CommandInv
  <2>2. /\ IsFrames(Append(wire, frame)) /\ Len(Append(wire, frame)) = Len(wire) + 1
        /\ Append(wire, frame)[Len(wire) + 1] = frame
        /\ \A i \in 1 .. Len(wire) : Append(wire, frame)[i] = wire[i]
    BY <2>1, AppendedAre
  <2> QED
    BY <1>1, <2>2, Zenon
<1>5. Len(wire) \in Nat
  BY FramesLength, Zenon DEF CommandInv
<1>6. ASSUME NEW i \in Len(wire) + 1 .. Len(wire'), NEW body \in Bodies, NEW temp \in Temperatures
      PROVE  wire'[i] # SystemSetpoint(body, temp)
  <2>1. wire'[i] = frame
    BY <1>4, <1>5, SMT
  <2> QED
    BY <2>1, NoSetpoint, Zenon
<1>7. Len(wire') >= Len(wire)
  BY <1>4, <1>5, SMT
<1> QED
  BY <1>2, <1>3, <1>4, <1>6, <1>7, WireGrown, Zenon

LEMMA SetpointKeeps ==
  ASSUME CommandInv, NEW body \in Bodies, NEW h \in Heaters, NEW temp \in Temperatures,
         NEW write,
         Asks(write, wanted, <<body, h>>, temp),
         \/ write = SystemSetpoint(body, temp) /\ h = 0
         \/ write = WriteRegister(SetpointRegister(h, body), 0, temp),
         Command(<<body, h>>, temp, <<write, ReadSetpoint(body, h)>>)
  PROVE  CommandInv'
<1> DEFINE thing == <<body, h>>
           read == ReadSetpoint(body, h)
           middle == Append(wire, write)
<1>1. wire' = Append(middle, read)
  <2>1. IsFrames(wire) /\ wire' = wire \o <<write, read>>
    BY Zenon DEF Command, CommandInv
  <2>2. wire \o <<write, read>> = Append(Append(wire, write), read)
    BY <2>1, AppendedTwo
  <2> QED
    BY <2>1, <2>2, Zenon
<1>2. UNCHANGED <<shown, device, said>> /\ wanted' = [wanted EXCEPT ![thing] = temp]
  BY Zenon DEF Command
<1>3. thing \in Things
  BY SetpointBelongs, Zenon
<1>4. Leads(middle, device, wanted') /\ IsFrames(middle)
  <2>1. Orders(write, wanted, wanted')
    BY <1>2, <1>3, Zenon DEF Orders
  <2> QED
    BY <2>1, LeadsOn, Zenon DEF CommandInv
<1>5. Leads(wire', device, wanted')
  <2>1. wanted' = [wanted' EXCEPT ![thing] = wanted'[thing]]
    BY <1>2, Zenon
  <2>2. Asks(read, wanted', thing, wanted'[thing])
    BY Zenon DEF Asks
  <2>3. Orders(read, wanted', wanted')
    BY <1>3, <2>1, <2>2, Zenon DEF Orders
  <2> QED
    BY <1>1, <1>4, <2>3, LeadsOn, Zenon
<1>6. /\ Len(middle) = Len(wire) + 1 /\ middle[Len(wire) + 1] = write
      /\ \A i \in 1 .. Len(wire) : middle[i] = wire[i]
  <2>1. IsFrames(wire)
    BY Zenon DEF CommandInv
  <2> QED
    BY <2>1, AppendedAre
<1>7. /\ IsFrames(wire') /\ Len(wire') = Len(middle) + 1 /\ wire'[Len(middle) + 1] = read
      /\ \A i \in 1 .. Len(middle) : wire'[i] = middle[i]
  BY <1>1, <1>4, AppendedAre, Zenon
<1>8. Len(wire) \in Nat
  BY FramesLength, Zenon DEF CommandInv
<1> HIDE DEF middle, read
<1>9. /\ Len(wire') = Len(wire) + 2 /\ wire'[Len(wire) + 1] = write /\ wire'[Len(wire) + 2] = read
      /\ \A i \in 1 .. Len(wire) : wire'[i] = wire[i]
  <2>1. Len(wire) + 1 \in 1 .. Len(middle) /\ Len(middle) + 1 = Len(wire) + 2
    BY <1>6, <1>8, SMT
  <2>2. \A i \in 1 .. Len(wire) : i \in 1 .. Len(middle)
    BY <1>6, <1>8, SMT
  <2>3. Len(wire') = Len(wire) + 2
    BY <1>7, <2>1, Zenon
  <2> QED
    BY <1>6, <1>7, <2>1, <2>2, <2>3, Zenon
<1>10. ASSUME NEW i \in Len(wire) + 1 .. Len(wire'), NEW other \in Bodies, NEW t \in Temperatures,
              wire'[i] = SystemSetpoint(other, t)
       PROVE  i < Len(wire') /\ wire'[i + 1] = ReadSetpoint(other, 0)
  <2>1. i = Len(wire) + 1 \/ i = Len(wire) + 2
    BY <1>8, <1>9, SMT
  <2>2. read # SystemSetpoint(other, t)
    <3>1. \h39 # \h19
      BY SMT
    <3> QED
      BY <3>1, NoSetpoint, Zenon DEF read, ReadSetpoint, ReadRegister
  <2>3. i = Len(wire) + 1 /\ write = SystemSetpoint(other, t)
    BY <1>9, <1>10, <2>1, <2>2, Zenon
  <2>4. write # WriteRegister(SetpointRegister(h, body), 0, temp)
    <3>1. \h3A # \h19
      BY SMT
    <3> QED
      BY <2>3, <3>1, NoSetpoint, Zenon DEF WriteRegister
  <2>5. write = SystemSetpoint(body, temp) /\ h = 0
    BY <2>4, Zenon
  <2>6. other = body
    <3>1. <<IF body = "pool" THEN 1 ELSE 2, temp, temp>> = <<IF other = "pool" THEN 1 ELSE 2, t, t>>
      BY <2>3, <2>5, SameFrames, SMT DEF SystemSetpoint
    <3> QED
      BY <3>1, SMT DEF Bodies
  <2>7. i < Len(wire') /\ i + 1 = Len(wire) + 2
    BY <1>8, <1>9, <2>3, SMT
  <2>8. wire'[i + 1] = read
    BY <1>9, <2>7, Zenon
  <2> QED
    BY <2>5, <2>6, <2>7, <2>8, Zenon DEF read
<1>11. Len(wire') >= Len(wire)
  BY <1>8, <1>9, SMT
<1> QED
  BY <1>2, <1>5, <1>7, <1>9, <1>10, <1>11, WireGrown, Zenon

LEMMA ThingsInclude ==
  /\ \A n \in Channels : <<"channel", n>> \in Things
  /\ \A z \in Zones : <<"light", z>> \in Things /\ <<"color", z>> \in Things /\ <<"resync", z>> \in Things
  /\ \A v \in Valves : <<"valve", v>> \in Things
  /\ \A h \in Heaters : <<"heater", h>> \in Things
  /\ <<"favourite", 0>> \in Things
BY SMT DEF Things, Shown

LEMMA SetpointKept ==
  ASSUME CommandInv, NEW h \in Heaters, NEW body \in Bodies, NEW temp \in Temperatures,
         HandleSetpoint(h, body, temp)
  PROVE  CommandInv'
<1> DEFINE system == Frame(\h19, <<IF body = "pool" THEN 1 ELSE 2, temp, temp>>)
           write == IF h = 0 THEN system ELSE WriteRegister(SetpointRegister(h, body), 0, temp)
<1>1. Command(<<body, h>>, temp, <<write, ReadSetpoint(body, h)>>)
  BY Zenon DEF HandleSetpoint, ReadSetpoint
<1>2. system = SystemSetpoint(body, temp)
  BY Zenon DEF SystemSetpoint
<1> HIDE DEF system
<1>3. CASE h = 0
  <2>1. write = SystemSetpoint(body, temp)
    BY <1>2, <1>3, Zenon
  <2>2. Asks(write, wanted, <<body, h>>, temp)
    BY <1>3, <2>1, Zenon DEF Asks
  <2> QED
    BY <1>1, <1>3, <2>1, <2>2, SetpointKeeps, Zenon
<1>4. CASE h # 0
  <2>1. write = WriteRegister(SetpointRegister(h, body), 0, temp) /\ h = 1
    BY <1>4, SMT DEF Heaters
  <2>2. Asks(write, wanted, <<body, h>>, temp)
    BY <2>1, Zenon DEF Asks
  <2> QED
    BY <1>1, <2>1, <2>2, SetpointKeeps, Zenon
<1> QED
  BY <1>3, <1>4

LEMMA CommandsKept == CommandInv /\ MqttHandlesCommand => CommandInv'
<1> SUFFICES ASSUME CommandInv, MqttHandlesCommand
             PROVE  CommandInv'
  OBVIOUS
<1>1. ASSUME NEW n \in Channels, HandleChannel(n)
      PROVE  CommandInv'
  <2> DEFINE frame == Frame(\h10, <<ChannelIndex(n)>>)
             thing == <<"channel", n>>
  <2>1. Command(thing, Stepped(wanted[thing]), <<frame>>)
    BY <1>1, Zenon DEF HandleChannel
  <2>2. Asks(frame, wanted, thing, Stepped(wanted[thing])) /\ thing \in Things
    BY ThingsInclude, Zenon DEF Asks
  <2>3. \h10 # \h19
    BY SMT
  <2> QED
    BY <2>1, <2>2, <2>3, CommandKeeps, Zenon
<1>2. ASSUME NEW n \in Channels, NEW s \in StateNames, HandleChannelMode(n, s)
      PROVE  CommandInv'
  <2> DEFINE frame == ChannelModeFrame(n, s)
             thing == <<"channel", n>>
  <2>1. Command(thing, s, <<frame>>)
    BY <1>2, Zenon DEF HandleChannelMode
  <2>2. Asks(frame, wanted, thing, s) /\ thing \in Things
    BY ThingsInclude, Zenon DEF Asks
  <2>3. \h0F # \h19 /\ frame = Frame(\h0F, <<n, Code(States, s)>>)
    BY SMT DEF ChannelModeFrame
  <2> QED
    BY <2>1, <2>2, <2>3, CommandKeeps, Zenon
<1>3. ASSUME NEW z \in Zones, HandleLightResync(z)
      PROVE  CommandInv'
  <2> DEFINE frame == Frame(\h3C, <<z - 1>>)
             thing == <<"resync", z>>
  <2>1. Command(thing, "done", <<frame>>)
    BY <1>3, Zenon DEF HandleLightResync
  <2>2. Asks(frame, wanted, thing, "done") /\ thing \in Things
    BY ThingsInclude, Zenon DEF Asks
  <2>3. \h3C # \h19
    BY SMT
  <2> QED
    BY <2>1, <2>2, <2>3, CommandKeeps, Zenon
<1>4. ASSUME NEW z \in Zones, NEW s \in OffAutoOn, HandleLight(z, s)
      PROVE  CommandInv'
  <2> DEFINE frame == WriteRegister(\hC0 + (z - 1), 1, Code(States, s))
             thing == <<"light", z>>
  <2>1. Command(thing, s, <<frame>>)
    BY <1>4, Zenon DEF HandleLight
  <2>2. Asks(frame, wanted, thing, s) /\ thing \in Things
    BY ThingsInclude, Zenon DEF Asks
  <2>3. \h3A # \h19
    BY SMT
  <2>4. frame = Frame(\h3A, <<\hC0 + (z - 1), 1, Code(States, s)>>)
    BY Zenon DEF WriteRegister
  <2> QED
    BY <2>1, <2>2, <2>3, <2>4, CommandKeeps, Zenon
<1>5. ASSUME NEW z \in Zones, NEW c \in ColorNames, HandleLightColor(z, c)
      PROVE  CommandInv'
  <2> DEFINE frame == WriteRegister(\hD0 + (z - 1), 1, Code(Colors, c))
             thing == <<"color", z>>
  <2>1. Command(thing, c, <<frame>>)
    BY <1>5, Zenon DEF HandleLightColor
  <2>2. Asks(frame, wanted, thing, c) /\ thing \in Things
    BY ThingsInclude, Zenon DEF Asks
  <2>3. \h3A # \h19
    BY SMT
  <2>4. frame = Frame(\h3A, <<\hD0 + (z - 1), 1, Code(Colors, c)>>)
    BY Zenon DEF WriteRegister
  <2> QED
    BY <2>1, <2>2, <2>3, <2>4, CommandKeeps, Zenon
<1>6. ASSUME NEW h \in Heaters, NEW s \in OffAutoOn, HandleHeater(h, s)
      PROVE  CommandInv'
  <2> DEFINE frame == WriteRegister(IF h = 0 THEN \hE6 ELSE \hE9, 0, HeaterCode(s))
             thing == <<"heater", h>>
  <2>1. Command(thing, s, <<frame>>) /\ s \in OnOff
    BY <1>6, Zenon DEF HandleHeater, HeaterCode, OffAutoOn, OnOff
  <2>2. Asks(frame, wanted, thing, s) /\ thing \in Things
    <3>1. thing \in Things
      BY ThingsInclude, Zenon
    <3>2. frame = WriteRegister(IF h = 0 THEN \hE6 ELSE \hE9, 0, HeaterCode(s))
      OBVIOUS
    <3> HIDE DEF frame
    <3>3. \E g \in Heaters :
            /\ thing = <<"heater", g>> /\ s \in OnOff
            /\ frame = WriteRegister(IF g = 0 THEN \hE6 ELSE \hE9, 0, HeaterCode(s))
      BY <2>1, <3>2
    <3> HIDE DEF thing
    <3>4. Asks(frame, wanted, thing, s)
      BY <3>3, Zenon DEF Asks
    <3> QED
      BY <3>1, <3>4 DEF thing
  <2>3. \h3A # \h19
    BY SMT
  <2>4. frame = Frame(\h3A, <<IF h = 0 THEN \hE6 ELSE \hE9, 0, HeaterCode(s)>>)
    BY Zenon DEF WriteRegister
  <2> QED
    BY <2>1, <2>2, <2>3, <2>4, CommandKeeps, Zenon
<1>7. ASSUME NEW h \in Heaters, NEW body \in Bodies, NEW temp \in Temperatures,
             HandleSetpoint(h, body, temp)
      PROVE  CommandInv'
  BY <1>7, SetpointKept, Zenon
<1>8. ASSUME NEW name \in Favourites, HandleFavourite(name)
      PROVE  CommandInv'
  <2> DEFINE frame == Frame(\h2A, <<FavouriteCodes[name]>>)
             thing == <<"favourite", 0>>
  <2>1. Command(thing, name, <<frame>>)
    BY <1>8, Zenon DEF HandleFavourite
  <2>2. Asks(frame, wanted, thing, name) /\ thing \in Things
    BY ThingsInclude, Zenon DEF Asks
  <2>3. \h2A # \h19
    BY SMT
  <2> QED
    BY <2>1, <2>2, <2>3, CommandKeeps, Zenon
<1>9. ASSUME NEW v \in Valves, NEW s \in OffAutoOn, HandleValve(v, s)
      PROVE  CommandInv'
  <2> DEFINE frame == Frame(\h28, <<v - 1, Code(States, s)>>)
             thing == <<"valve", v>>
  <2>1. Command(thing, s, <<frame>>)
    BY <1>9, Zenon DEF HandleValve
  <2>2. Asks(frame, wanted, thing, s) /\ thing \in Things
    BY ThingsInclude, Zenon DEF Asks
  <2>3. \h28 # \h19
    BY SMT
  <2> QED
    BY <2>1, <2>2, <2>3, CommandKeeps, Zenon
<1> QED
  BY <1>1, <1>2, <1>3, <1>4, <1>5, <1>6, <1>7, <1>8, <1>9, Zenon
     DEF MqttHandlesCommand, Bodies, Favourites

-----------------------------------------------------------------------------
(* A device that obeys keeps it.                                             *)

LEMMA OrderMeant ==
  ASSUME NEW told, Ready(told), NEW thing, NEW value, Obeyed(thing, value, told),
         thing \in Things
  PROVE  /\ Holds(device)' /\ \A t \in Things \ {thing} : device'[t] = device[t]
         /\ device'[thing] = value
<1>1. /\ device' = [device EXCEPT ![thing] = value] /\ device'[thing] = value
      /\ \A t \in Things \ {thing} : device'[t] = device[t]
  BY Zenon DEF Obeyed, Ready, Holds
<1>2. value \in Held /\ (thing[1] \in {"channel", "valve"} => value \in StateNames)
  BY Zenon DEF Obeyed
<1>3. device' \in [Things -> Held]
  BY <1>1, <1>2, Zenon DEF Ready, Holds
<1>4. \A kind \in {"channel", "valve"} : \A n : <<kind, n>>[1] = kind
  BY SMT
<1>5. \A n \in Channels : device'[<<"channel", n>>] \in StateNames
  <2> SUFFICES ASSUME NEW n \in Channels PROVE device'[<<"channel", n>>] \in StateNames
    OBVIOUS
  <2>1. CASE thing = <<"channel", n>>
    BY <1>1, <1>2, <1>4, <2>1, Zenon
  <2>2. CASE thing # <<"channel", n>>
    BY <1>1, <2>2, ThingsInclude, Zenon DEF Ready, Holds
  <2> QED
    BY <2>1, <2>2
<1>6. \A v \in Valves : device'[<<"valve", v>>] \in StateNames
  <2> SUFFICES ASSUME NEW v \in Valves PROVE device'[<<"valve", v>>] \in StateNames
    OBVIOUS
  <2>1. CASE thing = <<"valve", v>>
    BY <1>1, <1>2, <1>4, <2>1, Zenon
  <2>2. CASE thing # <<"valve", v>>
    BY <1>1, <2>2, ThingsInclude, Zenon DEF Ready, Holds
  <2> QED
    BY <2>1, <2>2
<1>7. Holds(device')
  BY <1>3, <1>5, <1>6, Zenon DEF Holds
<1>8. Holds(device)' <=> Holds(device')
  BY DEF Holds, Held, StateNames, States, ColorNames, Favourites, FavouriteCodes, Things,
     Shown, Channels, Zones, Valves, Heaters
<1> QED
  BY <1>1, <1>7, <1>8, Zenon

LEMMA DevicesKeep == CommandInv /\ DeviceObeys => CommandInv'
<1> SUFFICES ASSUME CommandInv, DeviceObeys
             PROVE  CommandInv'
  OBVIOUS
<1>1. PICK told : /\ DOMAIN told = Shown /\ Speaks(said, shown, told)
                  /\ \A t \in Shown : told[t] = device[t] \/ BeingRead(t)
  BY Zenon DEF CommandInv, WillShow
<1>2. Ready(told)
  BY <1>1, Zenon DEF Ready, CommandInv
<1>3. wire # <<>> /\ wire' = Tail(wire) /\ UNCHANGED <<shown, wanted>> /\ IsFrames(wire)
  BY Zenon DEF DeviceObeys, CommandInv
<1>4. PICK next : Orders(Head(wire), device, next) /\ Leads(Tail(wire), next, wanted)
  BY <1>3, LeadsFirst, Zenon DEF CommandInv
<1>5. PICK thing \in Things :
        \E value : Asks(Head(wire), device, thing, value) /\ next = [device EXCEPT ![thing] = value]
  BY <1>4, Zenon DEF Orders
<1>6. PICK value : Asks(Head(wire), device, thing, value) /\ next = [device EXCEPT ![thing] = value]
  BY <1>5
<1>7. Obeyed(thing, value, told)
  BY <1>2, <1>6, OrderObeyed, Zenon
<1>8. /\ Holds(device)' /\ \A t \in Things \ {thing} : device'[t] = device[t]
      /\ device'[thing] = value /\ device' = next
  BY <1>2, <1>6, <1>7, OrderMeant, Zenon DEF Obeyed
<1>9. Leads(wire', device', wanted')
  BY <1>3, <1>4, <1>8, Zenon
<1>10. /\ Len(wire) \in Nat \ {0} /\ Len(wire') = Len(wire) - 1
       /\ Head(wire) = wire[1] /\ IsFrames(wire')
       /\ \A i \in 1 .. Len(wire) - 1 : wire'[i] = wire[i + 1]
       /\ DOMAIN wire = 1 .. Len(wire) /\ DOMAIN wire' = 1 .. Len(wire) - 1
  BY <1>3, FramesTail, Zenon
<1>11. ReadNext'
  <2> SUFFICES ASSUME NEW i \in DOMAIN wire', NEW body \in Bodies, NEW temp \in Temperatures,
                      wire'[i] = SystemSetpoint(body, temp)
               PROVE  i < Len(wire') /\ wire'[i + 1] = ReadSetpoint(body, 0)
    BY Zenon DEF ReadNext, SystemSetpoint, ReadSetpoint, Frame
  <2> DEFINE k == i + 1
  <2>1. k \in DOMAIN wire /\ wire'[i] = wire[k]
    BY <1>10, SMT
  <2>2. k < Len(wire) /\ wire[k + 1] = ReadSetpoint(body, 0)
    <3> HIDE DEF k
    <3> QED
      BY <2>1, Zenon DEF CommandInv, ReadNext
  <2>3. i < Len(wire') /\ wire'[i + 1] = wire[k + 1]
    BY <1>10, <2>2, SMT
  <2> QED
    BY <2>2, <2>3, Zenon
<1>12. ASSUME NEW t \in Shown, BeingRead(t), t # thing
       PROVE  BeingRead(t)'
  <2>1. PICK body \in Bodies, h \in Heaters :
          t = <<body, h>> /\ \E i \in DOMAIN wire : wire[i] = ReadSetpoint(body, h)
    BY <1>12, Zenon DEF BeingRead
  <2>2. PICK i \in DOMAIN wire : wire[i] = ReadSetpoint(body, h)
    BY <2>1, Zenon
  <2>3. i # 1
    <3> SUFFICES ASSUME i = 1 PROVE FALSE
      OBVIOUS
    <3>1. Head(wire) = ReadSetpoint(body, h)
      BY <1>10, <2>2, Zenon
    <3>2. Meant(Head(wire)) = {t}
      BY <2>1, <3>1, ReadMeant, Zenon
    <3>3. Meant(Head(wire)) = {thing}
      BY <1>7, Zenon DEF Obeyed
    <3> QED
      BY <1>12, <3>2, <3>3, Zenon
  <2>4. i - 1 \in DOMAIN wire' /\ wire'[i - 1] = wire[i]
    BY <1>10, <2>3, SMT
  <2>5. \E b \in Bodies, g \in Heaters :
          t = <<b, g>> /\ \E j \in DOMAIN wire' : wire'[j] = ReadSetpoint(b, g)
    BY <2>1, <2>2, <2>4, Zenon
  <2> QED
    BY <2>5 DEF BeingRead
<1>13. CASE Answered(thing, told)
  <2>1. PICK more :
          /\ DOMAIN more = Shown /\ Speaks(said', shown, more) /\ IsFrames(said')
          /\ \A t \in Shown : more[t] = device'[t] \/ (t # thing /\ more[t] = told[t])
    BY <1>13, Zenon DEF Answered
  <2>2. ASSUME NEW t \in Shown
        PROVE  more[t] = device'[t] \/ BeingRead(t)'
    <3>1. CASE more[t] = device'[t]
      BY <3>1
    <3>2. CASE t # thing /\ more[t] = told[t]
      <4>1. t \in Things
        BY Zenon DEF Things
      <4>2. device'[t] = device[t]
        BY <1>8, <3>2, <4>1, Zenon
      <4> QED
        BY <1>1, <1>12, <3>2, <4>2, Zenon
    <3> QED
      BY <2>1, <3>1, <3>2, Zenon
  <2>3. Speaks(said', shown', more)
    BY <1>3, <2>1, Zenon
  <2>4. WillShow'
    BY <2>1, <2>2, <2>3 DEF WillShow
  <2>5. IsFrames(said)' /\ IsFrames(wire)'
    BY <1>10, <2>1 DEF IsFrames
  <2> QED
    BY <1>8, <1>9, <1>11, <2>4, <2>5 DEF CommandInv
<1>14. CASE \E body \in Bodies, temp \in Temperatures :
              Head(wire) = SystemSetpoint(body, temp) /\ thing = <<body, 0>> /\ said' = said
  <2>1. PICK body \in Bodies, temp \in Temperatures :
          Head(wire) = SystemSetpoint(body, temp) /\ thing = <<body, 0>> /\ said' = said
    BY <1>14, Zenon
  <2>2. 1 \in DOMAIN wire /\ wire[1] = SystemSetpoint(body, temp)
    BY <1>10, <2>1, SMT
  <2>3. 1 < Len(wire) /\ wire[1 + 1] = ReadSetpoint(body, 0)
    BY <2>2, Zenon DEF CommandInv, ReadNext
  <2>4. 1 \in DOMAIN wire' /\ wire'[1] = ReadSetpoint(body, 0) /\ 0 \in Heaters
    BY <1>10, <2>3, SMT DEF Heaters
  <2>5. BeingRead(thing)'
    <3>1. \E b \in Bodies, g \in Heaters :
            thing = <<b, g>> /\ \E j \in DOMAIN wire' : wire'[j] = ReadSetpoint(b, g)
      BY <2>1, <2>4, Zenon
    <3> QED
      BY <3>1 DEF BeingRead
  <2>6. ASSUME NEW t \in Shown
        PROVE  told[t] = device'[t] \/ BeingRead(t)'
    <3>1. t \in Things
      BY Zenon DEF Things
    <3>2. t # thing => device'[t] = device[t]
      BY <1>8, <3>1, Zenon
    <3> QED
      BY <1>1, <1>12, <2>5, <3>2, Zenon
  <2>7. Speaks(said', shown', told)
    BY <1>1, <1>3, <2>1, Zenon
  <2>8. WillShow'
    BY <1>1, <2>6, <2>7 DEF WillShow
  <2>9. IsFrames(said)' /\ IsFrames(wire)'
    BY <1>10, <2>1 DEF IsFrames, CommandInv
  <2> QED
    BY <1>8, <1>9, <1>11, <2>8, <2>9 DEF CommandInv
<1> QED
  BY <1>7, <1>13, <1>14, Zenon DEF Obeyed

-----------------------------------------------------------------------------
(* The decoder keeps it.                                                     *)

LEMMA DecoderKeeps == CommandInv /\ DecodeFrame => CommandInv'
<1> SUFFICES ASSUME CommandInv, DecodeFrame
             PROVE  CommandInv'
  OBVIOUS
<1>1. PICK told : /\ DOMAIN told = Shown /\ Speaks(said, shown, told)
                  /\ \A t \in Shown : told[t] = device[t] \/ BeingRead(t)
  BY Zenon DEF CommandInv, WillShow
<1>2. said # <<>> /\ said' = Tail(said) /\ UNCHANGED <<device, wanted, wire>> /\ IsFrames(said)
  BY Zenon DEF DecodeFrame, CommandInv
<1>3. PICK next : Word(Head(said), shown, next) /\ Speaks(Tail(said), next, told)
  BY <1>1, <1>2, SpeaksFirst, Zenon
<1>4. shown' = next
  BY <1>3, WordShown, Zenon
<1>5. IsFrames(said')
  BY <1>2, FramesTail, Zenon
<1>6. Speaks(said', shown', told)
  BY <1>2, <1>3, <1>4, Zenon
<1>7. \A t : BeingRead(t) => BeingRead(t)'
  BY <1>2 DEF BeingRead
<1>8. WillShow'
  BY <1>1, <1>2, <1>6, <1>7 DEF WillShow
<1>9. Holds(device)' /\ IsFrames(wire)' /\ IsFrames(said)' /\ ReadNext'
  BY <1>2, <1>5 DEF CommandInv, Holds, IsFrames, ReadNext
<1>10. Leads(wire', device', wanted')
  BY <1>2, Zenon DEF CommandInv
<1> QED
  BY <1>8, <1>9, <1>10 DEF CommandInv

-----------------------------------------------------------------------------
LEMMA InitHolds == CommandsInit => CommandInv
<1> SUFFICES ASSUME CommandsInit
             PROVE  CommandInv
  OBVIOUS
<1>1. /\ device = [thing \in Things |-> Initially(thing)] /\ wanted = device
      /\ shown = [thing \in Shown |-> device[thing]] /\ wire = <<>> /\ said = <<>>
  BY Zenon DEF CommandsInit
<1>2. IsFrames(wire) /\ IsFrames(said)
  <2>1. <<>> \in Seq(Nat)
    OBVIOUS
  <2> QED
    BY <1>1, <2>1, Zenon DEF IsFrames
<1>3. "Off" \in StateNames /\ "Pool" \in Favourites
  <2>1. "Off" \in StateNames
    BY FewStates, Zenon DEF OffAutoOn
  <2>2. "Pool" \in Favourites
    BY SMT DEF Favourites, FavouriteCodes
  <2> QED
    BY <2>1, <2>2
<1>4. Colors[1] \in ColorNames
  BY CommandsAssumption, SMT DEF ColorNames
<1>5. (CHOOSE t \in Temperatures : TRUE) \in Temperatures
  BY CommandsAssumption, Zenon
<1>6. ASSUME NEW thing \in Things
      PROVE  Initially(thing) \in Held
  BY <1>3, <1>4, <1>5, Zenon DEF Initially, Held
<1>7. ASSUME NEW kind \in {"channel", "valve"}, NEW n
      PROVE  Initially(<<kind, n>>) = "Off"
  <2>1. <<kind, n>>[1] = kind /\ kind \notin {"pool", "spa"} /\ kind # "color" /\ kind # "favourite"
    BY SMT
  <2> QED
    BY <2>1, Zenon DEF Initially
<1>8. device \in [Things -> Held]
  BY <1>1, <1>6, Zenon
<1>9. \A n \in Channels : device[<<"channel", n>>] \in StateNames
  BY <1>1, <1>3, <1>7, ThingsInclude, Zenon
<1>10. \A v \in Valves : device[<<"valve", v>>] \in StateNames
  BY <1>1, <1>3, <1>7, ThingsInclude, Zenon
<1>11. Leads(wire, device, wanted)
  BY <1>1, LeadsNowhere, Zenon
<1>12. ReadNext
  <2>1. DOMAIN wire = {}
    BY <1>1
  <2> QED
    BY <2>1, Zenon DEF ReadNext
<1>13. WillShow
  <2>1. Speaks(said, shown, shown) /\ DOMAIN shown = Shown /\ \A t \in Shown : shown[t] = device[t]
    BY <1>1, SpeaksNowhere, Zenon
  <2> QED
    BY <2>1, Zenon DEF WillShow
<1> QED
  BY <1>2, <1>8, <1>9, <1>10, <1>11, <1>12, <1>13, Zenon DEF CommandInv, Holds

LEMMA CommandInvHolds == CommandsSpec => []CommandInv
<1>1. CommandsInit => CommandInv
  BY InitHolds
<1>2. CommandInv /\ [CommandsNext]_commandVars => CommandInv'
  <2> SUFFICES ASSUME CommandInv, [CommandsNext]_commandVars
               PROVE  CommandInv'
    OBVIOUS
  <2>1. CASE MqttHandlesCommand
    BY <2>1, CommandsKept
  <2>2. CASE DeviceObeys
    BY <2>2, DevicesKeep
  <2>3. CASE DecodeFrame
    BY <2>3, DecoderKeeps
  <2>4. CASE UNCHANGED commandVars
    <3>1. UNCHANGED <<shown, device, wanted, wire, said>>
      BY <2>4 DEF commandVars
    <3>2. Holds(device)' /\ IsFrames(wire)' /\ IsFrames(said)' /\ ReadNext'
      BY <3>1 DEF CommandInv, Holds, IsFrames, ReadNext
    <3>3. Leads(wire', device', wanted')
      BY <3>1, Zenon DEF CommandInv
    <3>4. WillShow'
      <4>1. PICK told : /\ DOMAIN told = Shown /\ Speaks(said, shown, told)
                        /\ \A t \in Shown : told[t] = device[t] \/ BeingRead(t)
        BY Zenon DEF CommandInv, WillShow
      <4>2. \A t : BeingRead(t) => BeingRead(t)'
        BY <3>1 DEF BeingRead
      <4>3. Speaks(said', shown', told)
        BY <3>1, <4>1, Zenon
      <4> QED
        BY <3>1, <4>1, <4>2, <4>3 DEF WillShow
    <3> QED
      BY <3>2, <3>3, <3>4 DEF CommandInv
  <2> QED
    BY <2>1, <2>2, <2>3, <2>4 DEF CommandsNext
<1> QED
  BY <1>1, <1>2, PTL DEF CommandsSpec

(* mqtt_handle_command() and dispatch_message(): a command, or any run of    *)
(* them, changes what it names and nothing else, and once all was said the   *)
(* pool state shows what the devices hold.                                   *)
THEOREM Commands_TakeEffect == CommandsSpec => []CommandTakesEffect
<1>1. CommandInv => CommandTakesEffect
  <2> SUFFICES ASSUME CommandInv, wire = <<>>, said = <<>>
               PROVE  device = wanted /\ \A thing \in Shown : shown[thing] = device[thing]
    BY Zenon DEF CommandTakesEffect
  <2>1. device = wanted
    BY LeadsNowhere, Zenon DEF CommandInv
  <2>2. PICK told : /\ DOMAIN told = Shown /\ Speaks(said, shown, told)
                    /\ \A t \in Shown : told[t] = device[t] \/ BeingRead(t)
    BY Zenon DEF CommandInv, WillShow
  <2>3. told = shown
    BY <2>2, SpeaksNowhere, Zenon
  <2>4. DOMAIN wire = {}
    OBVIOUS
  <2>5. \A t : ~ BeingRead(t)
    BY <2>4, Zenon DEF BeingRead
  <2> QED
    BY <2>1, <2>2, <2>3, <2>5, Zenon
<1> QED
  BY <1>1, CommandInvHolds, PTL
==============================================================================
