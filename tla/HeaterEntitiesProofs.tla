------------------------ MODULE HeaterEntitiesProofs --------------------------
(***************************************************************************)
(* A heater that is not configured has no entity on the broker, and a      *)
(* configured one is shown as it is, for any setpoints and scales, any     *)
(* order of frames, and any number of lost connections and restarts; the   *)
(* entities that depend on the mode setting follow it.                     *)
(***************************************************************************)
EXTENDS HeaterEntities, SequenceTheorems, TLAPS

One(kind, h) == << <<kind, h>> >>
Two(kind, h) == << <<kind, h>>, <<"setpoints", h>> >>

(* The calls the bridge task may have left: those of one frame.             *)
TodoShape ==
  \/ todo = <<>> \/ todo = One("modes", 0)
  \/ \E h \in Heaters :
       \/ \E kind \in {"switch", "state", "setpoints", "values", "config"} : todo = One(kind, h)
       \/ \E kind \in {"switch", "state"} : todo = Two(kind, h)

ConfigDue(h) == todo = One("config", h)
SwitchDue(h) ==
  ConfigDue(h) \/ \E kind \in {"switch", "state"} : todo = One(kind, h) \/ todo = Two(kind, h)
SetpointsDue(h) ==
  \/ ConfigDue(h) \/ \E kind \in {"setpoints", "values"} : todo = One(kind, h)
  \/ \E kind \in {"switch", "state"} : todo = Two(kind, h)

(* A publisher that has not come to its second message passed its guard.    *)
Announcing(h) ==
  /\ (todo = One("state", h) \/ todo = Two("state", h))
       => Publishable(h) /\ <<h, "switch">> \in announced
  /\ todo = One("values", h) => Publishable(h) /\ <<h, "setpoints">> \in announced

(* A retracted heater is not marked as announced, so nothing brings it back.*)
Gone(h) ==
  config[h] = "none" /\ ~ ConfigDue(h) =>
    /\ entities \cap EntitiesOf(h) \subseteq stale
    /\ <<h, "switch">> \notin announced /\ <<h, "setpoints">> \notin announced

(* What was announced is with the broker, or the message was dropped.       *)
Announced(h) ==
  /\ <<h, "switch">> \in announced => <<h, "switch">> \in entities \cup stale
  /\ <<h, "setpoints">> \in announced => <<h, "pool">> \in entities \cup stale

(* So is the state last published.                                          *)
StateShown(h) ==
  /\ lastOn[h] # "none" =>
       <<h, "switch">> \in announced /\ (shownOn[h] = lastOn[h] \/ <<h, "state">> \in stale)
  /\ Publishable(h) /\ on[h] # "unknown" /\ ~ SwitchDue(h) => lastOn[h] = on[h]

SetpointShown(h) ==
  /\ lastSetpoint[h] # 0 =>
       /\ <<h, "setpoints">> \in announced
       /\ shownSetpoint[h] = lastSetpoint[h] \/ <<h, "values">> \in stale
  /\ Publishable(h) /\ setpoint[h] # 0 /\ ~ SetpointsDue(h) => lastSetpoint[h] = setpoint[h]

HeaterInv(h) == Announcing(h) /\ Gone(h) /\ Announced(h) /\ StateShown(h) /\ SetpointShown(h)

(* The switch is published for a state that was heard.                      *)
Known(h) ==
  \A kind \in {"switch", "state"} :
    todo = One(kind, h) \/ todo = Two(kind, h) => on[h] # "unknown"

Inv == TypeOK /\ TodoShape /\ \A h \in Heaters : HeaterInv(h) /\ Known(h)

-----------------------------------------------------------------------------
(* Two calls are the same only if they are about the same heater.           *)
LEMMA Different ==
  ASSUME NEW k, NEW l, NEW g, NEW h
  PROVE  /\ (One(k, g) = One(l, h)) <=> (k = l /\ g = h)
         /\ (Two(k, g) = Two(l, h)) <=> (k = l /\ g = h)
         /\ One(k, g) # Two(l, h) /\ One(k, g) # <<>> /\ Two(k, g) # <<>>
BY DEF One, Two

LEMMA Ends ==
  \A a, b : /\ Tail(<<a>>) = <<>> /\ Tail(<<a, b>>) = <<b>>
            /\ Head(<<a>>) = a /\ Head(<<a, b>>) = a
            /\ <<a>> \o <<>> = <<a>> /\ <<>> \o <<a>> = <<a>>
OBVIOUS

LEMMA Joined == ASSUME NEW c, NEW d PROVE <<c>> \o <<d>> = <<c, d>>
<1> DEFINE S == {c, d}
           one == <<c>>
           two == <<d>>
           both == <<c, d>>
           all == one \o two
<1>1. one \in Seq(S) /\ two \in Seq(S) /\ both \in Seq(S)
  OBVIOUS
<1>2. /\ Len(one) = 1 /\ one[1] = c /\ Len(two) = 1 /\ two[1] = d
      /\ Len(both) = 2 /\ both[1] = c /\ both[2] = d
  OBVIOUS
<1> HIDE DEF S, one, two, both
<1>3. all \in Seq(S) /\ Len(all) = 2 /\ all[1] = c /\ all[2] = d
  BY <1>1, <1>2, ConcatProperties DEF one, two
<1> HIDE DEF all
<1>4. all = both
  BY <1>1, <1>2, <1>3, SeqEqual
<1> QED
  BY <1>4 DEF all, one, two, both

(* What the call in front says of those left.                               *)
LEMMA InFront ==
  ASSUME TodoShape, NEW kind, NEW h, Publishing(<<kind, h>>)
  PROVE  \/ todo = One(kind, h) /\ Tail(todo) = <<>>
         \/ /\ kind \in {"switch", "state"} /\ todo = Two(kind, h)
            /\ Tail(todo) = One("setpoints", h)
<1>1. todo # <<>> /\ Head(todo) = <<kind, h>>
  BY DEF Publishing
<1>2. ASSUME NEW k, NEW g, todo = One(k, g) PROVE todo = One(kind, h) /\ Tail(todo) = <<>>
  BY <1>1, <1>2, Ends DEF One
<1>3. ASSUME NEW k \in {"switch", "state"}, NEW g, todo = Two(k, g)
      PROVE  /\ kind \in {"switch", "state"} /\ todo = Two(kind, h)
             /\ Tail(todo) = One("setpoints", h)
  <2>1. <<k, g>> = <<kind, h>>
    BY <1>1, <1>3, Ends DEF Two
  <2>2. k = kind /\ g = h
    BY <2>1
  <2> QED
    BY <1>3, <2>2, Ends DEF Two, One
<1> QED
  BY <1>1, <1>2, <1>3 DEF TodoShape

(* The calls left after each publisher.                                     *)
LEMMA AfterLast ==
  ASSUME TodoShape, NEW h, NEW kind, Publishing(<<kind, h>>), Rest(<<>>)
  PROVE  \/ todo = One(kind, h) /\ todo' = <<>>
         \/ kind \in {"switch", "state"} /\ todo = Two(kind, h) /\ todo' = One("setpoints", h)
<1>1. \A a : <<>> \o <<>> = <<>> /\ <<>> \o <<a>> = <<a>>
  OBVIOUS
<1> QED
  BY <1>1, InFront DEF Rest, One

LEMMA AfterFirst ==
  ASSUME TodoShape, NEW h, NEW kind, Publishing(<<kind, h>>), NEW next, Rest(<< <<next, h>> >>)
  PROVE  \/ todo = One(kind, h) /\ todo' = One(next, h)
         \/ kind \in {"switch", "state"} /\ todo = Two(kind, h) /\ todo' = Two(next, h)
<1>1. todo' = One(next, h) \o Tail(todo)
  BY DEF Rest, One
<1>2. One(next, h) \o <<>> = One(next, h)
  BY Ends DEF One
<1>3. One(next, h) \o One("setpoints", h) = Two(next, h)
  BY Joined DEF One, Two
<1> QED
  BY <1>1, <1>2, <1>3, InFront

LEMMA AfterConfig ==
  ASSUME TodoShape, NEW h \in Heaters, PublishHeldBack(h)
  PROVE  /\ todo = One("config", h)
         /\ todo' = IF on[h] = "unknown"
                    THEN IF setpoint[h] = 0 THEN <<>> ELSE One("setpoints", h)
                    ELSE IF setpoint[h] = 0 THEN One("switch", h) ELSE Two("switch", h)
<1> DEFINE s == One("switch", h)
           p == One("setpoints", h)
<1>1. todo = One("config", h) /\ Tail(todo) = <<>>
  BY InFront DEF PublishHeldBack
<1>2. todo' = ((IF on[h] = "unknown" THEN <<>> ELSE s) \o (IF setpoint[h] = 0 THEN <<>> ELSE p))
              \o Tail(todo)
  BY DEF PublishHeldBack, Rest, One
<1>3. s \o p = Two("switch", h)
  BY Joined DEF One, Two
<1>4. /\ s \o <<>> = s /\ <<>> \o p = p /\ p \o <<>> = p
      /\ Two("switch", h) \o <<>> = Two("switch", h)
  BY Ends DEF One, Two
<1>5. <<>> \o <<>> = <<>>
  OBVIOUS
<1> HIDE DEF s, p
<1>6. todo' = (IF on[h] = "unknown" THEN <<>> ELSE s) \o (IF setpoint[h] = 0 THEN <<>> ELSE p)
  BY <1>1, <1>2, <1>3, <1>4, <1>5
<1> QED
  BY <1>1, <1>3, <1>4, <1>5, <1>6 DEF s, p

-----------------------------------------------------------------------------
LEMMA InitInv == Init => Inv
<1> SUFFICES ASSUME Init PROVE Inv
  OBVIOUS
<1>1. TypeOK
  BY SetpointsAssumption, ScalesAssumption, BoundsAssumption
  DEF Init, Fresh, TypeOK, Heaters, Kinds, Calls, AllEntities, EntitiesOf, Topics
<1>2. TodoShape /\ \A h \in Heaters : HeaterInv(h) /\ Known(h)
  BY DEF Init, Fresh, TodoShape, HeaterInv, Announcing, Gone, Announced, StateShown,
         SetpointShown, Known, One, Two
<1> QED
  BY <1>1, <1>2 DEF Inv

(* A frame is decoded when nothing is due, and what it changes is due then. *)
LEMMA DecodeInv ==
  ASSUME Inv, todo = <<>>, UNCHANGED <<lastVars, brokerVars>>,
         \A g \in Heaters :
           /\ todo' # One("state", g) /\ todo' # Two("state", g) /\ todo' # One("values", g)
           /\ config'[g] = config[g] \/ ConfigDue(g)'
           /\ on'[g] = on[g] \/ SwitchDue(g)'
           /\ setpoint'[g] = setpoint[g] \/ SetpointsDue(g)'
  PROVE  \A g \in Heaters : HeaterInv(g)'
<1> SUFFICES ASSUME NEW g \in Heaters PROVE HeaterInv(g)'
  OBVIOUS
<1> USE DEF Inv, HeaterInv, lastVars, brokerVars, shownVars
<1>1. ~ ConfigDue(g) /\ ~ SwitchDue(g) /\ ~ SetpointsDue(g)
  BY Different DEF ConfigDue, SwitchDue, SetpointsDue
<1>2. ConfigDue(g)' => SwitchDue(g)' /\ SetpointsDue(g)'
  BY DEF SwitchDue, SetpointsDue, ConfigDue
<1>3. Announcing(g)'
  BY DEF Announcing
<1>4. Gone(g)' /\ Announced(g)'
  BY <1>1 DEF Gone, Announced
<1>5. StateShown(g)' /\ SetpointShown(g)'
  BY <1>1, <1>2 DEF StateShown, SetpointShown, Publishable
<1> QED
  BY <1>3, <1>4, <1>5

LEMMA HandleStep == ASSUME Inv, Handle PROVE TodoShape' /\ \A g \in Heaters : HeaterInv(g)'
<1> USE DEF Inv
<1>1. ASSUME NEW h \in Heaters, NEW value, HeaterState(h, value)
      PROVE  TodoShape' /\ \A g \in Heaters : HeaterInv(g)'
  <2>1. todo = <<>> /\ todo' = One("switch", h) /\ UNCHANGED <<lastVars, brokerVars>>
    BY <1>1 DEF HeaterState, Decode, One
  <2>2. SwitchDue(h)'
    BY <2>1 DEF SwitchDue
  <2>3. \A g \in Heaters : config'[g] = config[g] /\ setpoint'[g] = setpoint[g]
                          /\ (on'[g] = on[g] \/ g = h)
    BY <1>1 DEF HeaterState, TypeOK
  <2>4. TodoShape'
    BY <2>1 DEF TodoShape
  <2> QED
    BY <2>1, <2>2, <2>3, <2>4, Different, DecodeInv
<1>2. ASSUME NEW h \in Heaters, NEW kind, HeaterConfig(h, kind)
      PROVE  TodoShape' /\ \A g \in Heaters : HeaterInv(g)'
  <2>1. /\ todo = <<>> /\ UNCHANGED <<lastVars, brokerVars>>
        /\ todo' = IF config[h] = kind THEN <<>> ELSE One("config", h)
    BY <1>2 DEF HeaterConfig, Decode, One
  <2>2. \A g \in Heaters : on'[g] = on[g] /\ setpoint'[g] = setpoint[g]
                          /\ (config'[g] = config[g] \/ (g = h /\ config[h] # kind))
    BY <1>2 DEF HeaterConfig
  <2>3. config[h] # kind => ConfigDue(h)'
    BY <2>1 DEF ConfigDue
  <2>4. TodoShape'
    BY <2>1 DEF TodoShape
  <2> QED
    BY <2>1, <2>2, <2>3, <2>4, Different, DecodeInv
<1>3. ASSUME NEW h \in Heaters, NEW value, SetpointChange(h, value)
      PROVE  TodoShape' /\ \A g \in Heaters : HeaterInv(g)'
  <2>1. todo = <<>> /\ todo' = One("setpoints", h) /\ UNCHANGED <<lastVars, brokerVars>>
    BY <1>3 DEF SetpointChange, Decode, One
  <2>2. SetpointsDue(h)'
    BY <2>1 DEF SetpointsDue
  <2>3. \A g \in Heaters : config'[g] = config[g] /\ on'[g] = on[g]
                          /\ (setpoint'[g] = setpoint[g] \/ g = h)
    BY <1>3 DEF SetpointChange, TypeOK
  <2>4. TodoShape'
    BY <2>1 DEF TodoShape
  <2> QED
    BY <2>1, <2>2, <2>3, <2>4, Different, DecodeInv
<1>4. ASSUME NEW value, SeparateModes(value) \/ TemperatureScale(value)
      PROVE  TodoShape' /\ \A g \in Heaters : HeaterInv(g)'
  <2>1. /\ todo = <<>> /\ UNCHANGED <<lastVars, brokerVars, config, on, setpoint>>
        /\ todo' = <<>> \/ todo' = One("modes", 0)
    BY <1>4 DEF SeparateModes, TemperatureScale, Decode, One
  <2>2. TodoShape'
    BY <2>1 DEF TodoShape
  <2> QED
    BY <2>1, <2>2, Different, DecodeInv
<1>5. 0 \in Heaters
  BY DEF Heaters
<1> QED
  BY <1>1, <1>2, <1>3, <1>4, <1>5
  DEF Handle, DeviceStatus, StateRegister, DeviceSetpoints, SetpointRegister

-----------------------------------------------------------------------------
(* The publishers for one heater leave the other alone.                     *)
About(h) == \E kind : todo = One(kind, h) \/ todo = Two(kind, h)

LEMMA OtherKept ==
  ASSUME NEW g \in Heaters, NEW h \in Heaters, g # h, HeaterInv(g), About(h),
         todo' = <<>> \/ About(h)', UNCHANGED poolVars,
         lastOn'[g] = lastOn[g] /\ lastSetpoint'[g] = lastSetpoint[g],
         shownOn'[g] = shownOn[g] /\ shownSetpoint'[g] = shownSetpoint[g],
         \A k : /\ <<g, k>> \in announced' <=> <<g, k>> \in announced
                /\ <<g, k>> \in entities' <=> <<g, k>> \in entities
                /\ <<g, k>> \in stale' <=> <<g, k>> \in stale
  PROVE  HeaterInv(g)'
<1> USE DEF HeaterInv, poolVars
<1>1. \A k : todo # One(k, g) /\ todo # Two(k, g) /\ todo' # One(k, g) /\ todo' # Two(k, g)
  BY Different DEF About
<1>2. Announcing(g)'
  BY <1>1 DEF Announcing
<1>3. Gone(g)'
  BY <1>1 DEF Gone, ConfigDue, EntitiesOf
<1>4. Announced(g)'
  BY DEF Announced
<1>5. ~ SwitchDue(g) /\ ~ SetpointsDue(g)
  BY <1>1 DEF SwitchDue, SetpointsDue, ConfigDue
<1>6. StateShown(g)' /\ SetpointShown(g)'
  BY <1>5 DEF StateShown, SetpointShown, Publishable
<1> QED
  BY <1>2, <1>3, <1>4, <1>6

LEMMA SkipInv ==
  ASSUME Inv, NEW h \in Heaters, Skip(h)
  PROVE  TodoShape' /\ \A g \in Heaters : HeaterInv(g)'
<1> USE DEF Inv
<1>1. UNCHANGED <<poolVars, lastVars, brokerVars>>
  BY DEF Skip, Unchanged
<1>2. PICK kind \in {"switch", "setpoints"} :
        /\ Publishing(<<kind, h>>) /\ Rest(<<>>)
        /\ kind = "switch" => ~ SwitchNews(h)
        /\ kind = "setpoints" => ~ SetpointNews(h)
  BY DEF Skip
<1>3. \/ todo = One(kind, h) /\ todo' = <<>>
      \/ kind = "switch" /\ todo = Two(kind, h) /\ todo' = One("setpoints", h)
  BY <1>2, AfterLast
<1>4. TodoShape' /\ About(h) /\ (todo' = <<>> \/ About(h)')
  BY <1>3 DEF TodoShape, About
<1>5. HeaterInv(h)'
  <2> USE DEF HeaterInv, lastVars, brokerVars, shownVars, poolVars
  <2>1. Announcing(h)'
    BY <1>3, Different DEF Announcing
  <2>2. Gone(h)' /\ Announced(h)'
    BY <1>1, <1>2, <1>3, Different DEF Gone, Announced, ConfigDue
  <2>3. StateShown(h)'
    <3>1. kind = "setpoints" => ~ SwitchDue(h)
      BY <1>3, Different DEF SwitchDue, ConfigDue
    <3>2. kind = "switch" => (Publishable(h) => lastOn[h] = on[h])
      BY <1>2 DEF SwitchNews
    <3> QED
      BY <1>1, <3>1, <3>2 DEF StateShown, Publishable
  <2>4. SetpointShown(h)'
    <3>1. kind = "switch" => (SetpointsDue(h) <=> SetpointsDue(h)')
      BY <1>3, Different DEF SetpointsDue, ConfigDue
    <3>2. kind = "setpoints" => (Publishable(h) => lastSetpoint[h] = setpoint[h])
      BY <1>2 DEF SetpointNews
    <3> QED
      BY <1>1, <3>1, <3>2 DEF SetpointShown, Publishable
  <2> QED
    BY <2>1, <2>2, <2>3, <2>4
<1>6. ASSUME NEW g \in Heaters, g # h PROVE HeaterInv(g)'
  BY <1>1, <1>4, <1>6, OtherKept DEF lastVars, brokerVars, shownVars
<1> QED
  BY <1>4, <1>5, <1>6

LEMMA AnnounceSwitchInv ==
  ASSUME Inv, NEW h \in Heaters, AnnounceSwitch(h)
  PROVE  TodoShape' /\ \A g \in Heaters : HeaterInv(g)'
<1> USE DEF Inv
<1>1. /\ UNCHANGED <<poolVars, lastOn, lastSetpoint, lastScale, shownVars>>
      /\ announced' = announced \cup {<<h, "switch">>}
      /\ IF <<h, "switch">> \in announced THEN UNCHANGED <<entities, stale>>
         ELSE Discover({<<h, "switch">>}, {})
  BY DEF AnnounceSwitch, Unchanged
<1>2. Publishing(<<"switch", h>>) /\ Rest(<< <<"state", h>> >>) /\ Publishable(h)
  BY DEF AnnounceSwitch, SwitchNews
<1>3. \/ todo = One("switch", h) /\ todo' = One("state", h)
      \/ todo = Two("switch", h) /\ todo' = Two("state", h)
  BY <1>2, AfterFirst
<1>4. TodoShape' /\ About(h) /\ (todo' = <<>> \/ About(h)')
  BY <1>3 DEF TodoShape, About
<1>5. HeaterInv(h)'
  <2> USE DEF HeaterInv, shownVars, poolVars
  <2>1. Announcing(h)'
    BY <1>1, <1>2, <1>3, Different DEF Announcing, Publishable
  <2>2. Gone(h)'
    BY <1>1, <1>2 DEF Gone, Publishable
  <2>3. Announced(h)'
    BY <1>1 DEF Announced, Discover
  <2>4. (SwitchDue(h)' <=> SwitchDue(h)) /\ (SetpointsDue(h)' <=> SetpointsDue(h))
    BY <1>3, Different DEF SwitchDue, SetpointsDue, ConfigDue
  <2>5. StateShown(h)' /\ SetpointShown(h)'
    BY <1>1, <2>4 DEF StateShown, SetpointShown, Publishable, Discover
  <2> QED
    BY <2>1, <2>2, <2>3, <2>5
<1>6. ASSUME NEW g \in Heaters, g # h PROVE HeaterInv(g)'
  BY <1>1, <1>4, <1>6, OtherKept DEF Discover, shownVars
<1> QED
  BY <1>4, <1>5, <1>6

LEMMA ReportStateInv ==
  ASSUME Inv, NEW h \in Heaters, ReportState(h)
  PROVE  TodoShape' /\ \A g \in Heaters : HeaterInv(g)'
<1> USE DEF Inv
<1>1. /\ UNCHANGED <<poolVars, lastSetpoint, lastScale, announced, entities, shownSetpoint>>
      /\ shownOn' = IF Up THEN [shownOn EXCEPT ![h] = on[h]] ELSE shownOn
      /\ stale' = IF Up THEN stale \ {<<h, "state">>} ELSE stale \cup {<<h, "state">>}
      /\ lastOn' = [lastOn EXCEPT ![h] = on[h]]
  BY DEF ReportState, Unchanged
<1>2. Publishing(<<"state", h>>) /\ Rest(<<>>)
  BY DEF ReportState
<1>3. \/ todo = One("state", h) /\ todo' = <<>>
      \/ todo = Two("state", h) /\ todo' = One("setpoints", h)
  BY <1>2, AfterLast
<1>4. TodoShape' /\ About(h) /\ (todo' = <<>> \/ About(h)')
  BY <1>3 DEF TodoShape, About
<1>t. lastOn'[h] = on[h] /\ (Up => shownOn'[h] = on[h])
  BY <1>1 DEF TypeOK
<1>5. HeaterInv(h)'
  <2> USE DEF HeaterInv, poolVars
  <2>1. Announcing(h)'
    BY <1>3, Different DEF Announcing
  <2>2. Publishable(h) /\ <<h, "switch">> \in announced
    BY <1>3 DEF Announcing
  <2>3. Gone(h)' /\ Announced(h)'
    BY <1>1, <2>2 DEF Gone, Announced, Publishable
  <2>4. StateShown(h)'
    BY <1>1, <1>t, <2>2 DEF StateShown
  <2>5. SetpointsDue(h)' <=> SetpointsDue(h)
    BY <1>3, Different DEF SetpointsDue, ConfigDue
  <2>6. SetpointShown(h)'
    BY <1>1, <2>5 DEF SetpointShown, Publishable
  <2> QED
    BY <2>1, <2>3, <2>4, <2>6
<1>6. ASSUME NEW g \in Heaters, g # h PROVE HeaterInv(g)'
  <2>1. lastOn'[g] = lastOn[g] /\ shownOn'[g] = shownOn[g]
    BY <1>1, <1>6 DEF TypeOK
  <2> QED
    BY <1>1, <1>4, <1>6, <2>1, OtherKept
<1> QED
  BY <1>4, <1>5, <1>6

LEMMA AnnounceSetpointsInv ==
  ASSUME Inv, NEW h \in Heaters, AnnounceSetpoints(h)
  PROVE  TodoShape' /\ \A g \in Heaters : HeaterInv(g)'
<1> USE DEF Inv
<1>1. /\ UNCHANGED <<poolVars, lastOn, lastSetpoint, lastScale, shownVars>>
      /\ announced' = announced \cup {<<h, "setpoints">>}
      /\ IF <<h, "setpoints">> \in announced THEN UNCHANGED <<entities, stale>>
         ELSE SetpointDiscovery({h}, {}, {})
  BY DEF AnnounceSetpoints, Unchanged
<1>2. Publishing(<<"setpoints", h>>) /\ Rest(<< <<"values", h>> >>) /\ Publishable(h)
  BY DEF AnnounceSetpoints, SetpointNews
<1>3. todo = One("setpoints", h) /\ todo' = One("values", h)
  BY <1>2, AfterFirst
<1>4. TodoShape' /\ About(h) /\ (todo' = <<>> \/ About(h)')
  BY <1>3 DEF TodoShape, About
<1>5. HeaterInv(h)'
  <2> USE DEF HeaterInv, shownVars, poolVars
  <2>1. Announcing(h)'
    BY <1>1, <1>2, <1>3, Different DEF Announcing, Publishable
  <2>2. Gone(h)'
    BY <1>1, <1>2 DEF Gone, Publishable
  <2>3. Announced(h)'
    BY <1>1 DEF Announced, SetpointDiscovery, Discover, Numbers
  <2>4. (SwitchDue(h)' <=> SwitchDue(h)) /\ (SetpointsDue(h)' <=> SetpointsDue(h))
    BY <1>3, Different DEF SwitchDue, SetpointsDue, ConfigDue
  <2>5. StateShown(h)' /\ SetpointShown(h)'
    BY <1>1, <2>4 DEF StateShown, SetpointShown, Publishable, SetpointDiscovery, Discover, Numbers
  <2> QED
    BY <2>1, <2>2, <2>3, <2>5
<1>6. ASSUME NEW g \in Heaters, g # h PROVE HeaterInv(g)'
  BY <1>1, <1>4, <1>6, OtherKept DEF SetpointDiscovery, Discover, Numbers, shownVars
<1> QED
  BY <1>4, <1>5, <1>6

LEMMA ReportSetpointsInv ==
  ASSUME Inv, NEW h \in Heaters, ReportSetpoints(h)
  PROVE  TodoShape' /\ \A g \in Heaters : HeaterInv(g)'
<1> USE DEF Inv
<1>1. /\ UNCHANGED <<poolVars, lastOn, announced, entities, shownOn>>
      /\ shownSetpoint' = IF Up THEN [shownSetpoint EXCEPT ![h] = setpoint[h]] ELSE shownSetpoint
      /\ stale' = IF Up THEN stale \ {<<h, "values">>} ELSE stale \cup {<<h, "values">>}
      /\ lastSetpoint' = [lastSetpoint EXCEPT ![h] = setpoint[h]]
  BY DEF ReportSetpoints, Unchanged
<1>2. Publishing(<<"values", h>>) /\ Rest(<<>>)
  BY DEF ReportSetpoints
<1>3. todo = One("values", h) /\ todo' = <<>>
  BY <1>2, AfterLast
<1>4. TodoShape' /\ About(h) /\ (todo' = <<>> \/ About(h)')
  BY <1>3 DEF TodoShape, About
<1>t. lastSetpoint'[h] = setpoint[h] /\ (Up => shownSetpoint'[h] = setpoint[h])
  BY <1>1 DEF TypeOK
<1>5. HeaterInv(h)'
  <2> USE DEF HeaterInv, poolVars
  <2>1. Announcing(h)'
    BY <1>3, Different DEF Announcing
  <2>2. Publishable(h) /\ <<h, "setpoints">> \in announced
    BY <1>3 DEF Announcing
  <2>3. Gone(h)' /\ Announced(h)'
    BY <1>1, <2>2 DEF Gone, Announced, Publishable
  <2>4. SetpointShown(h)'
    BY <1>1, <1>t, <2>2 DEF SetpointShown
  <2>5. ~ SwitchDue(h)
    BY <1>3, Different DEF SwitchDue, ConfigDue
  <2>6. StateShown(h)'
    BY <1>1, <2>5 DEF StateShown, Publishable
  <2> QED
    BY <2>1, <2>3, <2>4, <2>6
<1>6. ASSUME NEW g \in Heaters, g # h PROVE HeaterInv(g)'
  <2>1. lastSetpoint'[g] = lastSetpoint[g] /\ shownSetpoint'[g] = shownSetpoint[g]
    BY <1>1, <1>6 DEF TypeOK
  <2> QED
    BY <1>1, <1>4, <1>6, <2>1, OtherKept
<1> QED
  BY <1>4, <1>5, <1>6

LEMMA HeldBackInv ==
  ASSUME Inv, NEW h \in Heaters, PublishHeldBack(h)
  PROVE  TodoShape' /\ \A g \in Heaters : HeaterInv(g)'
<1> USE DEF Inv
<1>1. UNCHANGED <<poolVars, lastVars, brokerVars>> /\ Publishable(h)
  BY DEF PublishHeldBack, Unchanged
<1>2. /\ todo = One("config", h)
      /\ todo' = IF on[h] = "unknown"
                 THEN IF setpoint[h] = 0 THEN <<>> ELSE One("setpoints", h)
                 ELSE IF setpoint[h] = 0 THEN One("switch", h) ELSE Two("switch", h)
  BY AfterConfig
<1>3. TodoShape' /\ About(h) /\ (todo' = <<>> \/ About(h)')
  BY <1>2 DEF TodoShape, About
<1>4. HeaterInv(h)'
  <2> USE DEF HeaterInv, lastVars, brokerVars, shownVars, poolVars
  <2>1. Announcing(h)'
    BY <1>2, Different DEF Announcing
  <2>2. Gone(h)' /\ Announced(h)'
    BY <1>1 DEF Gone, Announced, Publishable
  <2>3. (on[h] # "unknown" => SwitchDue(h)') /\ (setpoint[h] # 0 => SetpointsDue(h)')
    BY <1>2 DEF SwitchDue, SetpointsDue
  <2>4. StateShown(h)' /\ SetpointShown(h)'
    BY <1>1, <2>3 DEF StateShown, SetpointShown
  <2> QED
    BY <2>1, <2>2, <2>4
<1>5. ASSUME NEW g \in Heaters, g # h PROVE HeaterInv(g)'
  BY <1>1, <1>3, <1>5, OtherKept DEF lastVars, brokerVars, shownVars
<1> QED
  BY <1>3, <1>4, <1>5

LEMMA RetractInv ==
  ASSUME Inv, NEW h \in Heaters, Retract(h)
  PROVE  TodoShape' /\ \A g \in Heaters : HeaterInv(g)'
<1> USE DEF Inv
<1>1. /\ UNCHANGED <<poolVars, shownVars>> /\ ~ Publishable(h)
      /\ Discover({}, EntitiesOf(h))
      /\ announced' = announced \ {<<h, "switch">>, <<h, "setpoints">>}
      /\ lastOn' = [lastOn EXCEPT ![h] = "none"]
      /\ lastSetpoint' = [lastSetpoint EXCEPT ![h] = 0]
  BY DEF Retract, Unchanged, AnnouncedAfter, LastAfter
<1>2. todo = One("config", h) /\ todo' = <<>>
  BY AfterLast DEF Retract
<1>3. TodoShape' /\ About(h) /\ (todo' = <<>> \/ About(h)')
  BY <1>2 DEF TodoShape, About
<1>4. HeaterInv(h)'
  <2> USE DEF HeaterInv, shownVars, poolVars
  <2>1. Announcing(h)'
    BY <1>2, Different DEF Announcing
  <2>2. Gone(h)' /\ Announced(h)'
    BY <1>1 DEF Gone, Announced, Discover
  <2>3. lastOn'[h] = "none" /\ lastSetpoint'[h] = 0
    BY <1>1 DEF TypeOK
  <2>4. StateShown(h)' /\ SetpointShown(h)'
    BY <1>1, <2>3 DEF StateShown, SetpointShown, Publishable
  <2> QED
    BY <2>1, <2>2, <2>4
<1>5. ASSUME NEW g \in Heaters, g # h PROVE HeaterInv(g)'
  <2>1. lastOn'[g] = lastOn[g] /\ lastSetpoint'[g] = lastSetpoint[g]
    BY <1>1, <1>5 DEF TypeOK
  <2> QED
    BY <1>1, <1>3, <1>5, <2>1, OtherKept DEF Discover, EntitiesOf, shownVars
<1> QED
  BY <1>3, <1>4, <1>5

(* The spa setpoints of those announced come and go, and the mode select.   *)
LEMMA PublishModesInv ==
  ASSUME Inv, PublishModes
  PROVE  TodoShape' /\ \A g \in Heaters : HeaterInv(g)'
<1> USE DEF Inv
<1>1. /\ UNCHANGED <<poolVars, lastVars, shownVars>>
      /\ SetpointDiscovery(Reannounced, {}, {ModeSelect})
         \/ SetpointDiscovery(Reannounced, {ModeSelect}, {})
  BY DEF PublishModes, Unchanged
<1>2. todo = One("modes", 0) /\ todo' = <<>>
  BY AfterLast DEF PublishModes
<1>3. ASSUME NEW g \in Heaters PROVE HeaterInv(g)'
  <2> USE DEF HeaterInv, shownVars, poolVars, lastVars
  <2>1. Announcing(g)'
    BY <1>2, Different DEF Announcing
  <2>2. ~ SwitchDue(g) /\ ~ SetpointsDue(g) /\ ~ ConfigDue(g)
    BY <1>2, Different DEF SwitchDue, SetpointsDue, ConfigDue
  <2>3. Gone(g)'
    <3>1. SUFFICES ASSUME config[g] = "none"
                   PROVE  entities' \cap EntitiesOf(g) \subseteq stale'
      BY <1>1, <2>2 DEF Gone
    <3>2. g \notin Reannounced /\ entities \cap EntitiesOf(g) \subseteq stale
      BY <2>2, <3>1 DEF Gone, Reannounced
    <3> QED
      BY <1>1, <3>2 DEF SetpointDiscovery, Discover, Numbers, EntitiesOf, ModeSelect
  <2>4. Announced(g)'
    BY <1>1 DEF Announced, SetpointDiscovery, Discover, Numbers, ModeSelect, Reannounced
  <2>5. <<g, "state">> \in stale => <<g, "state">> \in stale'
    BY <1>1 DEF SetpointDiscovery, Discover, Numbers, ModeSelect
  <2>6. <<g, "values">> \in stale => <<g, "values">> \in stale'
    BY <1>1 DEF SetpointDiscovery, Discover, Numbers, ModeSelect
  <2>7. StateShown(g)' /\ SetpointShown(g)'
    BY <1>1, <2>2, <2>5, <2>6 DEF StateShown, SetpointShown, Publishable
  <2> QED
    BY <2>1, <2>3, <2>4, <2>7
<1> QED
  BY <1>2, <1>3 DEF TodoShape

-----------------------------------------------------------------------------
(* The MQTT task touches the spa setpoints and the mode select only.        *)
LEMMA MqttStep ==
  ASSUME Inv, Mqtt
  PROVE  TodoShape' /\ \A g \in Heaters : HeaterInv(g)'
<1> USE DEF Inv
<1>1. UNCHANGED <<poolVars, todo, lastVars, shownVars>>
  BY DEF Mqtt, Connected, Snapshot, SnapshotTimeout, SnapshotIs, ConnectDiscovery, LinkLost, Disconnected, brokerVars
<1>2. ASSUME NEW g \in Heaters
      PROVE  /\ \A k \in {"switch", "pool"} :
                  <<g, k>> \in entities \cup stale => <<g, k>> \in entities' \cup stale'
             /\ \A k \in {"state", "values"} : <<g, k>> \in stale => <<g, k>> \in stale'
             /\ entities \cap EntitiesOf(g) \subseteq stale
                  => entities' \cap EntitiesOf(g) \subseteq stale'
  <2>1. CASE ConnectDiscovery
    <3> DEFINE add == IF ModesOff(snap) THEN {} ELSE {ModeSelect}
               remove == IF ModesOff(snap) THEN {ModeSelect} \cup Numbers(Heaters, "spa") ELSE {}
    <3>1. /\ entities' = IF Up THEN (entities \ remove) \cup add ELSE entities
          /\ stale' = (IF Up /\ ModesOff(snap) = ModesOff(separate)
                       THEN stale \ (add \cup remove) ELSE stale \cup add \cup remove)
      BY <2>1 DEF ConnectDiscovery
    <3>2. /\ \A k \in {"switch", "pool", "state", "values"} :
                <<g, k>> \notin remove /\ <<g, k>> \notin add
          /\ ModeSelect \notin EntitiesOf(g)
      BY DEF ModeSelect, Numbers, EntitiesOf
    <3>3. add \cap EntitiesOf(g) = {}
      BY <3>2
    <3> HIDE DEF add, remove
    <3> QED
      BY <3>1, <3>2, <3>3
  <2>2. CASE ~ ConnectDiscovery
    BY <2>2 DEF Mqtt, Connected, Snapshot, SnapshotTimeout, SnapshotIs, LinkLost, Disconnected, brokerVars
  <2> QED
    BY <2>1, <2>2
<1>3. TodoShape'
  BY <1>1 DEF TodoShape
<1>4. ASSUME NEW g \in Heaters PROVE HeaterInv(g)'
  <2> USE DEF HeaterInv, shownVars, poolVars, lastVars
  <2>1. (ConfigDue(g)' <=> ConfigDue(g)) /\ (SwitchDue(g)' <=> SwitchDue(g))
        /\ (SetpointsDue(g)' <=> SetpointsDue(g))
    BY <1>1 DEF ConfigDue, SwitchDue, SetpointsDue
  <2>2. Announcing(g)' /\ Gone(g)' /\ Announced(g)'
    BY <1>1, <1>2, <2>1 DEF Announcing, Gone, Announced, Publishable
  <2>3. StateShown(g)' /\ SetpointShown(g)'
    BY <1>1, <1>2, <2>1 DEF StateShown, SetpointShown, Publishable
  <2> QED
    BY <2>2, <2>3
<1> QED
  BY <1>3, <1>4

(* A restart knows of no heater.                                            *)
LEMMA RestartStep ==
  ASSUME Inv, Restart
  PROVE  TodoShape' /\ \A g \in Heaters : HeaterInv(g)'
BY DEF Inv, Restart, TodoShape, HeaterInv, Announcing, Gone, Announced, StateShown,
       SetpointShown, Publishable, One, Two


-----------------------------------------------------------------------------
LEMMA TodoType ==
  ASSUME TodoShape'
  PROVE  todo' \in Seq(Calls)
<1>1. \A c, d \in Calls : <<>> \in Seq(Calls) /\ <<c>> \in Seq(Calls) /\ <<c, d>> \in Seq(Calls)
  OBVIOUS
<1>2. \A h \in Heaters : \A k \in {"switch", "state", "setpoints", "values", "config"} :
        <<k, h>> \in Calls
  BY DEF Calls
<1>3. <<"modes", 0>> \in Calls
  BY DEF Calls
<1> HIDE DEF Calls
<1> QED
  BY <1>1, <1>2, <1>3 DEF TodoShape, One, Two

LEMMA HandleType ==
  ASSUME TypeOK, TodoShape', Handle
  PROVE  TypeOK'
<1> USE BoundsAssumption DEF TypeOK
<1>1. todo' \in Seq(Calls)
  BY TodoType
<1>2. /\ messages' \in 0 .. MaxMessages
      /\ UNCHANGED <<lastVars, mqttVars, brokerVars, outages>>
  BY DEF Handle, DeviceStatus, StateRegister, HeaterState, HeaterConfig, DeviceSetpoints,
         SetpointRegister, SetpointChange, SeparateModes, TemperatureScale, Decode
<1>3. 0 \in Heaters
  BY DEF Heaters
<1>4. /\ config' \in [Heaters -> Kinds(0) \cup {"unknown"}]
      /\ config'[1] \in Kinds(1) \cup {"unknown"}
  BY DEF Handle, DeviceStatus, StateRegister, HeaterState, HeaterConfig, DeviceSetpoints,
         SetpointRegister, SetpointChange, SeparateModes, TemperatureScale, Kinds, Heaters
<1>5. on' \in [Heaters -> {"unknown", "off", "on"}]
  BY <1>3 DEF Handle, DeviceStatus, StateRegister, HeaterState, HeaterConfig, DeviceSetpoints,
         SetpointRegister, SetpointChange, SeparateModes, TemperatureScale
<1>6. setpoint' \in [Heaters -> Setpoints \cup {0}]
  BY <1>3 DEF Handle, DeviceStatus, StateRegister, HeaterState, HeaterConfig, DeviceSetpoints,
         SetpointRegister, SetpointChange, SeparateModes, TemperatureScale
<1>7. scale' \in Scales /\ separate' \in {"unknown", "no", "yes"}
  BY DEF Handle, DeviceStatus, StateRegister, HeaterState, HeaterConfig, DeviceSetpoints,
         SetpointRegister, SetpointChange, SeparateModes, TemperatureScale
<1> QED
  BY <1>1, <1>2, <1>4, <1>5, <1>6, <1>7 DEF lastVars, mqttVars, brokerVars, shownVars

(* What discovery adds and removes are entities, whatever the setting.      *)
LEMMA DiscoverType ==
  ASSUME TypeOK, NEW add \in SUBSET AllEntities, NEW remove \in SUBSET AllEntities,
         Discover(add, remove)
  PROVE  entities' \subseteq AllEntities /\ stale' \subseteq Topics
BY DEF TypeOK, Discover, Topics

LEMMA NumbersType ==
  ASSUME NEW hs \in SUBSET Heaters
  PROVE  Numbers(hs, "pool") \subseteq AllEntities /\ Numbers(hs, "spa") \subseteq AllEntities
BY DEF Numbers, Heaters, AllEntities, EntitiesOf

LEMMA SetpointDiscoveryType ==
  ASSUME TypeOK, NEW hs \in SUBSET Heaters, NEW add \in SUBSET AllEntities,
         NEW remove \in SUBSET AllEntities, SetpointDiscovery(hs, add, remove)
  PROVE  entities' \subseteq AllEntities /\ stale' \subseteq Topics
BY DiscoverType, NumbersType DEF SetpointDiscovery

PublishedType ==
  /\ lastOn \in [Heaters -> {"none", "off", "on"}]
  /\ lastSetpoint \in [Heaters -> Setpoints \cup {0}]
  /\ lastScale \in Scales /\ announced \subseteq Heaters \X {"switch", "setpoints"}
  /\ entities \subseteq AllEntities /\ stale \subseteq Topics
  /\ shownOn \in [Heaters -> {"none", "off", "on"}]
  /\ shownSetpoint \in [Heaters -> Setpoints \cup {0}]

LEMMA PublishType ==
  ASSUME Inv, TodoShape', Publish
  PROVE  TypeOK'
<1> USE DEF Inv, TypeOK
<1>1. todo' \in Seq(Calls)
  BY TodoType
<1>2. UNCHANGED <<poolVars, mqttVars, boundVars>>
  BY DEF Publish, Skip, AnnounceSwitch, ReportState, AnnounceSetpoints, ReportSetpoints,
         PublishHeldBack, Retract, PublishModes, Unchanged
<1>t. PublishedType
  BY DEF PublishedType
<1>3. PublishedType'
  <2> USE DEF PublishedType
  <2>1. CASE \E h \in Heaters : Skip(h) \/ PublishHeldBack(h)
    BY <2>1 DEF Skip, PublishHeldBack, Unchanged, lastVars, brokerVars, shownVars
  <2>2. ASSUME NEW h \in Heaters, AnnounceSwitch(h) \/ AnnounceSetpoints(h) PROVE PublishedType'
    <3>1. /\ UNCHANGED <<lastOn, lastSetpoint, lastScale, shownVars>>
          /\ announced' \subseteq Heaters \X {"switch", "setpoints"}
      BY <2>2 DEF AnnounceSwitch, AnnounceSetpoints, Unchanged
    <3>2. /\ {<<h, "switch">>} \in SUBSET AllEntities /\ {} \in SUBSET AllEntities
          /\ {h} \in SUBSET Heaters
      BY DEF AllEntities, EntitiesOf, Heaters
    <3>3. \/ UNCHANGED <<entities, stale>>
          \/ Discover({<<h, "switch">>}, {}) \/ SetpointDiscovery({h}, {}, {})
      BY <2>2 DEF AnnounceSwitch, AnnounceSetpoints
    <3>4. entities' \subseteq AllEntities /\ stale' \subseteq Topics
      <4>1. CASE UNCHANGED <<entities, stale>>
        BY <4>1
      <4>2. CASE Discover({<<h, "switch">>}, {})
        <5> HIDE DEF PublishedType, TypeOK
        <5> QED
          BY <3>2, <4>2, DiscoverType DEF Inv
      <4>3. CASE SetpointDiscovery({h}, {}, {})
        <5> HIDE DEF PublishedType, TypeOK
        <5> QED
          BY <3>2, <4>3, SetpointDiscoveryType DEF Inv
      <4> QED
        BY <3>3, <4>1, <4>2, <4>3
    <3> QED
      BY <3>1, <3>4 DEF shownVars
  <2>3. ASSUME NEW h \in Heaters, ReportState(h) PROVE PublishedType'
    <3>1. on[h] \in {"off", "on"}
      BY <2>3, InFront DEF ReportState, Known
    <3>2. <<h, "state">> \in Topics
      BY DEF Topics
    <3> QED
      BY <2>3, <3>1, <3>2 DEF ReportState, Unchanged
  <2>4. ASSUME NEW h \in Heaters, ReportSetpoints(h) PROVE PublishedType'
    <3>1. <<h, "values">> \in Topics
      BY DEF Topics
    <3> QED
      BY <2>4, <3>1 DEF ReportSetpoints, Unchanged, poolVars
  <2>5. ASSUME NEW h \in Heaters, Retract(h) PROVE PublishedType'
    <3>1. EntitiesOf(h) \subseteq AllEntities /\ {} \subseteq AllEntities
      BY DEF AllEntities, Heaters
    <3>2. entities' \subseteq AllEntities /\ stale' \subseteq Topics
      BY <2>5, <3>1, DiscoverType DEF Retract
    <3> QED
      BY <2>5, <3>2 DEF Retract, AnnouncedAfter, LastAfter, Unchanged, shownVars
  <2>6. CASE PublishModes
    <3>1. {ModeSelect} \subseteq AllEntities /\ {} \subseteq AllEntities /\ Reannounced \subseteq Heaters
      BY DEF AllEntities, Reannounced
    <3>2. entities' \subseteq AllEntities /\ stale' \subseteq Topics
      BY <2>6, <3>1, SetpointDiscoveryType DEF PublishModes
    <3> QED
      BY <2>6, <3>2 DEF PublishModes, Unchanged, lastVars, shownVars
  <2> QED
    BY <2>1, <2>2, <2>3, <2>4, <2>5, <2>6 DEF Publish
<1> QED
  BY <1>1, <1>2, <1>3 DEF PublishedType, poolVars, mqttVars, boundVars

LEMMA MqttType == ASSUME TypeOK, Mqtt PROVE TypeOK'
<1> USE BoundsAssumption DEF TypeOK
<1>1. UNCHANGED <<poolVars, todo, lastVars, shownVars, messages>>
  BY DEF Mqtt, Connected, Snapshot, SnapshotTimeout, SnapshotIs, ConnectDiscovery, LinkLost, Disconnected, brokerVars, boundVars
<1>2. /\ link' \in {"up", "down"} /\ connected' \in {"yes", "no"}
      /\ mqttPc' \in {"idle", "snapshot", "discovery"} /\ snap' \in {"unknown", "no", "yes"}
      /\ outages' \in 0 .. MaxOutages
  BY DEF Mqtt, Connected, Snapshot, SnapshotTimeout, SnapshotIs, ConnectDiscovery, LinkLost, Disconnected, Outage, boundVars
<1>3. entities' \subseteq AllEntities /\ stale' \subseteq Topics
  <2>1. CASE ConnectDiscovery
    <3>1. {ModeSelect} \subseteq AllEntities /\ Numbers(Heaters, "spa") \subseteq AllEntities
      BY NumbersType DEF AllEntities
    <3> QED
      BY <2>1, <3>1 DEF ConnectDiscovery, Topics
  <2>2. CASE ~ ConnectDiscovery
    BY <2>2 DEF Mqtt, Connected, Snapshot, SnapshotTimeout, SnapshotIs, LinkLost, Disconnected, brokerVars
  <2> QED
    BY <2>1, <2>2
<1> QED
  BY <1>1, <1>2, <1>3 DEF poolVars, lastVars, shownVars

LEMMA RestartType == ASSUME TypeOK, Restart PROVE TypeOK'
BY ScalesAssumption, BoundsAssumption
DEF TypeOK, Restart, Outage, Heaters, Kinds, Calls, shownVars

LEMMA KnownStep ==
  ASSUME Inv, [Next]_vars
  PROVE  \A g \in Heaters : Known(g)'
<1> USE DEF Inv
<1>1. CASE Handle
  <2>1. ASSUME NEW h \in Heaters, NEW value \in {"off", "on"}, HeaterState(h, value)
        PROVE  \A g \in Heaters : Known(g)'
    <3>1. todo' = One("switch", h) /\ on'[h] = value
      BY <2>1 DEF HeaterState, Decode, One, TypeOK
    <3> QED
      BY <3>1, Different DEF Known
  <2>2. ASSUME \/ todo' = <<>> \/ todo' = One("modes", 0)
               \/ \E h \in Heaters : todo' = One("config", h) \/ todo' = One("setpoints", h)
        PROVE  \A g \in Heaters : Known(g)'
    BY <2>2, Different DEF Known
  <2>3. 0 \in Heaters
    BY DEF Heaters
  <2>4. \/ \E h \in Heaters : \E value \in {"off", "on"} : HeaterState(h, value)
        \/ \E h \in Heaters : \E kind \in Kinds(h) : HeaterConfig(h, kind)
        \/ \E h \in Heaters : \E value \in Setpoints : SetpointChange(h, value)
        \/ \E value \in {"no", "yes"} : SeparateModes(value)
        \/ \E value \in Scales : TemperatureScale(value)
    BY <1>1, <2>3 DEF Handle, DeviceStatus, StateRegister, DeviceSetpoints, SetpointRegister
  <2>5. \/ \E h \in Heaters : \E value \in {"off", "on"} : HeaterState(h, value)
        \/ todo' = <<>> \/ todo' = One("modes", 0)
        \/ \E h \in Heaters : todo' = One("config", h) \/ todo' = One("setpoints", h)
    BY <2>4 DEF HeaterConfig, SetpointChange, SeparateModes, TemperatureScale, Decode, One
  <2> QED
    BY <2>1, <2>2, <2>5
<1>2. CASE Publish
  <2>1. on' = on
    BY <1>2 DEF Publish, Skip, AnnounceSwitch, ReportState, AnnounceSetpoints, ReportSetpoints,
                PublishHeldBack, Retract, PublishModes, Unchanged, poolVars
  <2>2. ASSUME NEW h \in Heaters,
               Skip(h) \/ ReportState(h) \/ ReportSetpoints(h) \/ Retract(h)
        PROVE  \A g \in Heaters : Known(g)'
    <3>1. PICK kind : Publishing(<<kind, h>>) /\ Rest(<<>>)
      BY <2>2 DEF Skip, ReportState, ReportSetpoints, Retract
    <3> QED
      BY <3>1, AfterLast, Different DEF Known
  <2>3. CASE PublishModes
    BY <2>3, AfterLast, Different DEF PublishModes, Known
  <2>4. ASSUME NEW h \in Heaters, AnnounceSwitch(h) PROVE \A g \in Heaters : Known(g)'
    <3>1. \/ todo = One("switch", h) /\ todo' = One("state", h)
          \/ todo = Two("switch", h) /\ todo' = Two("state", h)
      BY <2>4, AfterFirst DEF AnnounceSwitch
    <3> QED
      BY <2>1, <3>1, Different DEF Known
  <2>5. ASSUME NEW h \in Heaters, AnnounceSetpoints(h) PROVE \A g \in Heaters : Known(g)'
    <3>1. todo' = One("values", h)
      BY <2>5, AfterFirst DEF AnnounceSetpoints
    <3> QED
      BY <3>1, Different DEF Known
  <2>6. ASSUME NEW h \in Heaters, PublishHeldBack(h) PROVE \A g \in Heaters : Known(g)'
    BY <2>1, <2>6, AfterConfig, Different DEF Known
  <2> QED
    BY <1>2, <2>2, <2>3, <2>4, <2>5, <2>6 DEF Publish
<1>3. CASE Mqtt \/ UNCHANGED vars
  BY <1>3 DEF Mqtt, Connected, Snapshot, SnapshotTimeout, SnapshotIs, ConnectDiscovery, LinkLost, Disconnected, vars,
              poolVars, Known
<1>4. CASE Restart
  BY <1>4, Different DEF Restart, Known
<1> QED
  BY <1>1, <1>2, <1>3, <1>4 DEF Next

LEMMA NextInv == Inv /\ [Next]_vars => Inv'
<1> SUFFICES ASSUME Inv, [Next]_vars PROVE Inv'
  OBVIOUS
<1>1. TodoShape' /\ \A g \in Heaters : HeaterInv(g)'
  <2>1. CASE Publish
    BY <2>1, SkipInv, AnnounceSwitchInv, ReportStateInv, AnnounceSetpointsInv,
       ReportSetpointsInv, HeldBackInv, RetractInv, PublishModesInv DEF Publish
  <2>2. CASE UNCHANGED vars
    BY <2>2 DEF vars, poolVars, lastVars, brokerVars, shownVars, Inv, TodoShape, HeaterInv,
                Announcing, Gone, Announced, StateShown, SetpointShown, ConfigDue, SwitchDue,
                SetpointsDue, Publishable
  <2> QED
    BY <2>1, <2>2, HandleStep, MqttStep, RestartStep DEF Next
<1>2. TypeOK'
  <2>1. CASE UNCHANGED vars
    BY <2>1 DEF vars, poolVars, lastVars, mqttVars, brokerVars, shownVars, boundVars, Inv, TypeOK
  <2> QED
    BY <1>1, <2>1, HandleType, PublishType, MqttType, RestartType DEF Next, Inv
<1>3. \A g \in Heaters : Known(g)'
  BY KnownStep
<1> QED
  BY <1>1, <1>2, <1>3 DEF Inv

LEMMA Invariance == Spec => []Inv
BY InitInv, NextInv, PTL DEF Spec

(* The variables of the decoder, the publishers and the MQTT task keep      *)
(* their types; only entities of the two heaters are ever announced.        *)
THEOREM TypeCorrect == Spec => []TypeOK
BY Invariance, PTL DEF Inv

(* mqtt_publish_heater_config(): a heater known not to be configured has no *)
(* entity with the broker but one whose removal was dropped.                *)
THEOREM NoPhantom == Spec => []NoPhantomHeater
<1>1. Inv => NoPhantomHeater
  <2>1. \A h : One("config", h) # <<>>
    BY DEF One
  <2> QED
    BY <2>1 DEF Inv, HeaterInv, Gone, NoPhantomHeater, ConfigDue
<1> QED
  BY <1>1, Invariance, PTL

(* mqtt_publish_heater(), ..._heater_setpoints(): in whatever order frames  *)
(* come, a configured heater is with the broker as it is, or a message      *)
(* about it was dropped.                                                    *)
THEOREM Shown == Spec => []HeaterShown
<1>1. ASSUME Inv PROVE HeaterShown
  <2>1. SUFFICES ASSUME NEW h \in Heaters, todo = <<>>, Publishable(h)
                 PROVE  /\ on[h] # "unknown" =>
                             ShownOrStale(h, "switch", "state", shownOn[h] = on[h])
                        /\ setpoint[h] # 0 =>
                             ShownOrStale(h, "pool", "values", shownSetpoint[h] = setpoint[h])
    BY DEF HeaterShown
  <2>2. ~ SwitchDue(h) /\ ~ SetpointsDue(h)
    BY <2>1, Different DEF SwitchDue, SetpointsDue, ConfigDue
  <2>3. Announced(h) /\ StateShown(h) /\ SetpointShown(h)
    BY <1>1 DEF Inv, HeaterInv
  <2>4. on[h] # "unknown" => lastOn[h] # "none" /\ lastOn[h] = on[h]
    BY <1>1, <2>1, <2>2, <2>3 DEF StateShown, Inv, TypeOK
  <2>5. setpoint[h] # 0 => lastSetpoint[h] # 0 /\ lastSetpoint[h] = setpoint[h]
    BY <2>1, <2>2, <2>3 DEF SetpointShown
  <2> QED
    BY <2>3, <2>4, <2>5 DEF Announced, StateShown, SetpointShown, ShownOrStale
<1> QED
  BY <1>1, Invariance, PTL
-----------------------------------------------------------------------------
(* The mode setting: unless it is still to be published, the mode select    *)
(* and the spa setpoints follow it, whichever task spoke last.              *)
ModesDue == todo = One("modes", 0)

SelectFollows ==
  (connected = "yes" /\ mqttPc = "idle" /\ ~ ModesDue /\ ModeSelect \notin stale)
    => (ModeSelect \in entities <=> ~ ModesOff(separate))

SpaFollows(h) ==
  (<<h, "setpoints">> \in announced /\ <<h, "spa">> \notin stale /\ ~ ModesDue)
    => (<<h, "spa">> \in entities <=> ~ ModesOff(separate))

SettingInv == SelectFollows /\ \A h \in Heaters : SpaFollows(h)

(* A publisher that says nothing of them.                                   *)
LEMMA SettingKept ==
  ASSUME SettingInv, ~ ModesDue, UNCHANGED <<connected, mqttPc, separate>>,
         ModeSelect \in entities' <=> ModeSelect \in entities,
         ModeSelect \in stale' <=> ModeSelect \in stale,
         \A g \in Heaters :
           /\ <<g, "setpoints">> \in announced' => <<g, "setpoints">> \in announced
           /\ <<g, "setpoints">> \in announced' =>
                /\ <<g, "spa">> \in entities' <=> <<g, "spa">> \in entities
                /\ <<g, "spa">> \in stale' <=> <<g, "spa">> \in stale
  PROVE  SettingInv'
BY DEF SettingInv, SelectFollows, SpaFollows

LEMMA SettingHandle == ASSUME Inv, SettingInv, Handle PROVE SettingInv'
<1>1. todo = <<>> /\ UNCHANGED <<lastVars, mqttVars, brokerVars>>
  BY DEF Handle, DeviceStatus, StateRegister, HeaterState, HeaterConfig, DeviceSetpoints,
         SetpointRegister, SetpointChange, SeparateModes, TemperatureScale, Decode
<1>2. separate' = separate \/ ModesDue'
  BY DEF Handle, DeviceStatus, StateRegister, HeaterState, HeaterConfig, DeviceSetpoints,
         SetpointRegister, SetpointChange, SeparateModes, TemperatureScale, Decode, ModesDue, One
<1>3. ~ ModesDue
  BY <1>1 DEF ModesDue, One
<1> QED
  BY <1>1, <1>2, <1>3 DEF SettingInv, SelectFollows, SpaFollows, lastVars, mqttVars, brokerVars

(* The publishers of a heater: its setpoints are announced as the setting   *)
(* is, or all of its entities go.                                           *)
LEMMA SettingPublish ==
  ASSUME Inv, SettingInv, NEW h \in Heaters,
         \/ Skip(h) \/ AnnounceSwitch(h) \/ ReportState(h)
         \/ AnnounceSetpoints(h) \/ ReportSetpoints(h)
         \/ PublishHeldBack(h) \/ Retract(h)
  PROVE  SettingInv'
<1>1. UNCHANGED <<connected, mqttPc, separate>>
  BY DEF Skip, AnnounceSwitch, ReportState, AnnounceSetpoints, ReportSetpoints,
         PublishHeldBack, Retract, Unchanged, poolVars, mqttVars
<1>2. PICK kind \in {"switch", "state", "setpoints", "values", "config"} : Publishing(<<kind, h>>)
  BY DEF Skip, AnnounceSwitch, ReportState, AnnounceSetpoints, ReportSetpoints,
         PublishHeldBack, Retract
<1>3. ~ ModesDue
  BY <1>2, InFront, Different DEF ModesDue, Inv
<1>4. CASE Skip(h) \/ PublishHeldBack(h)
  BY <1>1, <1>3, <1>4, SettingKept
  DEF Skip, PublishHeldBack, Unchanged, lastVars, brokerVars
<1>5. CASE AnnounceSwitch(h)
  BY <1>1, <1>3, <1>5, SettingKept DEF AnnounceSwitch, Discover, ModeSelect
<1>6. CASE ReportState(h)
  BY <1>1, <1>3, <1>6, SettingKept DEF ReportState, Unchanged, ModeSelect
<1>7. CASE ReportSetpoints(h)
  BY <1>1, <1>3, <1>7, SettingKept DEF ReportSetpoints, Unchanged, ModeSelect
<1>8. CASE Retract(h)
  <2>1. /\ Discover({}, EntitiesOf(h))
        /\ announced' = announced \ {<<h, "switch">>, <<h, "setpoints">>}
    BY <1>8 DEF Retract, AnnouncedAfter
  <2>2. ModeSelect \notin EntitiesOf(h)
    BY DEF ModeSelect, EntitiesOf
  <2>3. \A g \in Heaters : <<g, "setpoints">> \in announced' => <<g, "spa">> \notin EntitiesOf(h)
    BY <2>1 DEF EntitiesOf
  <2> QED
    BY <1>1, <1>3, <2>1, <2>2, <2>3, SettingKept DEF Discover
<1>9. CASE AnnounceSetpoints(h)
  <2>1. announced' = announced \cup {<<h, "setpoints">>}
    BY <1>9 DEF AnnounceSetpoints
  <2>2. CASE <<h, "setpoints">> \in announced
    BY <1>1, <1>3, <1>9, <2>1, <2>2, SettingKept DEF AnnounceSetpoints
  <2>3. CASE <<h, "setpoints">> \notin announced
    <3>1. SetpointDiscovery({h}, {}, {})
      BY <1>9, <2>3 DEF AnnounceSetpoints
    <3>2. /\ ModeSelect \in entities' <=> ModeSelect \in entities
          /\ ModeSelect \in stale' <=> ModeSelect \in stale
      BY <3>1 DEF SetpointDiscovery, Discover, Numbers, ModeSelect
    <3>3. <<h, "spa">> \notin stale' => (<<h, "spa">> \in entities' <=> ~ ModesOff(separate))
      BY <3>1 DEF SetpointDiscovery, Discover, Numbers
    <3>4. \A g \in Heaters : g # h =>
            /\ <<g, "spa">> \in entities' <=> <<g, "spa">> \in entities
            /\ <<g, "spa">> \in stale' <=> <<g, "spa">> \in stale
      BY <3>1 DEF SetpointDiscovery, Discover, Numbers
    <3> QED
      BY <1>1, <1>3, <2>1, <3>2, <3>3, <3>4 DEF SettingInv, SelectFollows, SpaFollows, ModesOff
  <2> QED
    BY <2>2, <2>3
<1> QED
  BY <1>4, <1>5, <1>6, <1>7, <1>8, <1>9

LEMMA SettingModes == ASSUME Inv, SettingInv, PublishModes PROVE SettingInv'
<1>1. UNCHANGED <<separate, announced, connected, mqttPc>>
  BY DEF PublishModes, Unchanged, poolVars, mqttVars, lastVars
<1>2. IF ModesOff(separate) THEN SetpointDiscovery(Reannounced, {}, {ModeSelect})
      ELSE SetpointDiscovery(Reannounced, {ModeSelect}, {})
  BY DEF PublishModes
<1>3. ModeSelect \notin stale' => (ModeSelect \in entities' <=> ~ ModesOff(separate))
  BY <1>2 DEF SetpointDiscovery, Discover, Numbers, ModeSelect
<1>4. \A g \in Reannounced :
        <<g, "spa">> \notin stale' => (<<g, "spa">> \in entities' <=> ~ ModesOff(separate))
  BY <1>2 DEF SetpointDiscovery, Discover, Numbers, ModeSelect
<1> QED
  BY <1>1, <1>3, <1>4 DEF SettingInv, SelectFollows, SpaFollows, Reannounced, ModesOff

(* What the MQTT task sends on a connect is as the setting is, or stale.    *)
LEMMA SettingMqtt == ASSUME Inv, SettingInv, Mqtt PROVE SettingInv'
<1>1. UNCHANGED <<separate, announced, todo>>
  BY DEF Mqtt, Connected, Snapshot, SnapshotTimeout, SnapshotIs, ConnectDiscovery, LinkLost, Disconnected, poolVars, lastVars
<1>2. CASE ConnectDiscovery
  <2> DEFINE add == IF ModesOff(snap) THEN {} ELSE {ModeSelect}
             remove == IF ModesOff(snap) THEN {ModeSelect} \cup Numbers(Heaters, "spa") ELSE {}
  <2>1. /\ entities' = IF Up THEN (entities \ remove) \cup add ELSE entities
        /\ stale' = (IF Up /\ ModesOff(snap) = ModesOff(separate)
                     THEN stale \ (add \cup remove) ELSE stale \cup add \cup remove)
    BY <1>2 DEF ConnectDiscovery
  <2>2. (ModesOff(snap) = ModesOff(separate)) <=> (ModesOff(snap) <=> ModesOff(separate))
    BY DEF ModesOff
  <2>3. /\ ModeSelect \in add <=> ~ ModesOff(snap)
        /\ ModeSelect \in remove <=> ModesOff(snap)
    BY DEF ModeSelect, Numbers
  <2>4. \A g \in Heaters : <<g, "spa">> \notin add /\ (<<g, "spa">> \in remove <=> ModesOff(snap))
    BY DEF ModeSelect, Numbers
  <2> HIDE DEF add, remove
  <2>5. ModeSelect \notin stale' => (ModeSelect \in entities' <=> ~ ModesOff(separate))
    BY <2>1, <2>2, <2>3
  <2>6. \A g \in Heaters : <<g, "spa">> \notin stale' =>
          \/ <<g, "spa">> \in entities' <=> ~ ModesOff(separate)
          \/ /\ <<g, "spa">> \in entities' <=> <<g, "spa">> \in entities
             /\ <<g, "spa">> \notin stale
    BY <2>1, <2>2, <2>4
  <2> QED
    BY <1>1, <2>5, <2>6 DEF SettingInv, SelectFollows, SpaFollows, ModesDue, ModesOff
<1>3. CASE ~ ConnectDiscovery
  <2>1. UNCHANGED <<entities, stale>>
    BY <1>3 DEF Mqtt, Connected, Snapshot, SnapshotTimeout, SnapshotIs, LinkLost, Disconnected, brokerVars
  <2>2. connected' = "yes" /\ mqttPc' = "idle" => connected = "yes" /\ mqttPc = "idle"
    BY <1>3 DEF Mqtt, Connected, Snapshot, SnapshotTimeout, SnapshotIs, LinkLost, Disconnected
  <2> QED
    BY <1>1, <2>1, <2>2 DEF SettingInv, SelectFollows, SpaFollows, ModesDue, ModesOff
<1> QED
  BY <1>2, <1>3

LEMMA SettingNext == ASSUME Inv, SettingInv, [Next]_vars PROVE SettingInv'
<1>1. CASE Restart
  BY <1>1 DEF Restart, SettingInv, SelectFollows, SpaFollows
<1>2. CASE UNCHANGED vars
  BY <1>2 DEF vars, poolVars, lastVars, mqttVars, brokerVars, SettingInv, SelectFollows,
              SpaFollows, ModesDue, ModesOff
<1>3. CASE Publish
  BY <1>3, SettingPublish, SettingModes DEF Publish
<1> QED
  BY <1>1, <1>2, <1>3, SettingHandle, SettingMqtt DEF Next

LEMMA SettingInvariance == Spec => []SettingInv
<1>1. Init => SettingInv
  BY DEF Init, Fresh, SettingInv, SelectFollows, SpaFollows
<1> QED
  BY <1>1, SettingNext, Invariance, PTL DEF Spec

(* mqtt_publish_mode_config(), mqtt_publish_heater_setpoints() and the      *)
(* discovery on connect: the mode select and the spa setpoints of announced *)
(* heaters are there exactly if separate modes are not known to be off,     *)
(* unless the message was dropped or overtaken.                             *)
THEOREM Followed == Spec => []SettingFollowed
<1>1. ASSUME SettingInv PROVE SettingFollowed
  <2>1. ASSUME todo = <<>> PROVE ~ ModesDue
    BY <2>1 DEF ModesDue, One
  <2> QED
    BY <1>1, <2>1 DEF SettingInv, SelectFollows, SpaFollows, SettingFollowed
<1> QED
  BY <1>1, SettingInvariance, PTL
=============================================================================
