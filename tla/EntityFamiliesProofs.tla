------------------------- MODULE EntityFamiliesProofs -------------------------
(***************************************************************************)
(* Lights, valves, favourites, readings and channels are shown as they     *)
(* are, for any number of them, any names, models, values and devices, and *)
(* any order of frames, commands, lost connections and restarts.           *)
(***************************************************************************)
EXTENDS EntityFamilies, SequenceTheorems, FiniteSetTheorems, TLAPS

-----------------------------------------------------------------------------
(* One topic at the broker.                                                 *)

KeptAs(topic, value) ==
  \/ topic \in stale
  \/ value = Removed /\ ~Shown(topic)
  \/ topic \in DOMAIN broker /\ broker[topic] = value

LEMMA KeptEach ==
  ASSUME NEW due
  PROVE  Kept(due) <=> \A topic \in DOMAIN due : KeptAs(topic, due[topic])
BY DEF Kept, KeptAs

(* Nothing is sent, nothing changes.                                        *)
LEMMA Undisturbed ==
  ASSUME UNCHANGED <<broker, stale>>, NEW topic, NEW value
  PROVE  KeptAs(topic, value) <=> KeptAs(topic, value)'
BY DEF KeptAs, Shown

(* Of two groups that share no topic every message is kept or counted as    *)
(* dropped; other topics stay as they are.                                  *)
LEMMA PublishKeeps ==
  ASSUME NEW first, NEW second, Publish(first, second),
         DOMAIN first \cap DOMAIN second = {}, NEW topic
  PROVE  /\ topic \in DOMAIN first => KeptAs(topic, first[topic])'
         /\ topic \in DOMAIN second => KeptAs(topic, second[topic])'
         /\ topic \notin DOMAIN first \cup DOMAIN second =>
              \A value : KeptAs(topic, value) => KeptAs(topic, value)'
<1>1. CASE link = "up" /\ broker' = Over(second, Over(first, broker))
              /\ stale' = stale \ (DOMAIN first \cup DOMAIN second)
  BY <1>1 DEF KeptAs, Shown, Over
<1>2. CASE /\ link = "up" /\ broker' = Over(first, broker)
           /\ stale' = (stale \ DOMAIN first) \cup DOMAIN second
  BY <1>2 DEF KeptAs, Shown, Over
<1>3. CASE /\ stale' = stale \cup DOMAIN first \cup DOMAIN second
           /\ UNCHANGED broker
  BY <1>3 DEF KeptAs, Shown
<1> QED BY <1>1, <1>2, <1>3 DEF Publish

LEMMA OneMessage ==
  ASSUME NEW topic, NEW payload
  PROVE  /\ DOMAIN Message(topic, payload) = {topic}
         /\ Message(topic, payload)[topic] = payload
BY DEF Message

LEMMA KeptMessage ==
  ASSUME NEW topic, NEW payload
  PROVE  Kept(Message(topic, payload)) <=> KeptAs(topic, payload)
<1>1. PICK m : m = Message(topic, payload)
  OBVIOUS
<1>2. DOMAIN m = {topic} /\ m[topic] = payload
  BY <1>1, OneMessage
<1> QED BY <1>1, <1>2 DEF Kept, KeptAs

LEMMA NoMessage == DOMAIN NoMessages = {}
BY DEF NoMessages

(* Calls still to be made.                                                  *)
Called(x) == \E i \in DOMAIN todo : todo[i] = x

(* A call made is the first, and those after it are left.                   *)
LEMMA NextCall ==
  ASSUME NEW S, todo \in Seq(S), todo # <<>>, todo' = Tail(todo)
  PROVE  /\ Head(todo) \in S /\ todo' \in Seq(S)
         /\ \A x : Called(x) => x = Head(todo) \/ Called(x)'
<1>1. Head(todo) \in S /\ todo' \in Seq(S) /\ Len(todo') = Len(todo) - 1 /\ Len(todo) \in Nat \ {0}
      /\ DOMAIN todo' = 1 .. Len(todo')
      /\ Head(todo) = todo[1] /\ \A i \in 1 .. Len(todo') : todo'[i] = todo[i + 1]
  OBVIOUS
<1>2. ASSUME NEW x, Called(x) PROVE x = Head(todo) \/ Called(x)'
  <2>1. PICK i \in 1 .. Len(todo) : todo[i] = x
    BY <1>2 DEF Called
  <2>2. CASE i = 1
    BY <2>1, <2>2, <1>1
  <2>3. CASE i # 1
    <3>1. i - 1 \in 1 .. Len(todo') /\ todo'[i - 1] = x
      BY <2>1, <2>3, <1>1
    <3> QED BY <3>1, <1>1 DEF Called
  <2> QED BY <2>2, <2>3
<1> QED BY <1>1, <1>2

(* Once all is said, nothing is called.                                     *)
LEMMA NoCall == ASSUME NEW x, todo = <<>> PROVE ~ Called(x)
BY DEF Called

LEMMA OneCall ==
  ASSUME NEW S, NEW x \in S
  PROVE  /\ <<x>> \in Seq(S) /\ <<>> \in Seq(S)
         /\ todo' = <<x>> => Called(x)'
         /\ todo' = <<>> => \A y : ~ Called(y)'
<1>1. <<x>> \in Seq(S) /\ <<>> \in Seq(S)
  OBVIOUS
<1>2. todo' = <<x>> => Called(x)'
  BY DEF Called
<1>3. todo' = <<>> => \A y : ~ Called(y)'
  BY DEF Called
<1> QED BY <1>1, <1>2, <1>3

-----------------------------------------------------------------------------
(* Lights: the messages by what the caches hold.                            *)

LookTitle(look) == IF look.name \in ZoneNames THEN look.name ELSE "Light Zone"
LookEffects(look) == IF look.model \in Models THEN look.model ELSE "none"
LightOf(look) == [name |-> LookTitle(look), effects |-> LookEffects(look)]
ResyncOf(look) == IF LookEffects(look) = "none" THEN Removed ELSE [name |-> LookTitle(look)]
ReportOf(light) ==
  [state |-> light.state, color |-> light.color, active |-> light.active,
   name |-> LookTitle(light), multicolor |-> light.multicolor]

(* What was announced and reported is with the broker, or was dropped.      *)
LookKept(z) ==
  last.look[z] # Never =>
    /\ KeptAs(<<z, "light">>, LightOf(last.look[z]))
    /\ KeptAs(<<z, "resync">>, ResyncOf(last.look[z]))
LightKept(z) == last.light[z] # NoLight => KeptAs(<<z, "values">>, ReportOf(last.light[z]))

(* A zone in use that is not to be published was published as it is.        *)
LightSaid(z) ==
  Light(z).configured /\ ~ Called(z) => last.look[z] = LightLook(z) /\ last.light[z] = Light(z)

LightInv == LightTypeOK /\ \A z \in Zones : LookKept(z) /\ LightKept(z) /\ LightSaid(z)

LEMMA LightMessages ==
  ASSUME NEW z
  PROVE  /\ DOMAIN LightConfig(z) = {<<z, "light">>, <<z, "resync">>}
         /\ LightConfig(z)[<<z, "light">>] = LightOf(LightLook(z))
         /\ LightConfig(z)[<<z, "resync">>] = ResyncOf(LightLook(z))
         /\ DOMAIN LightValues(z) = {<<z, "values">>}
         /\ LightValues(z)[<<z, "values">>] = ReportOf(Light(z))
<1>1. <<z, "light">> # <<z, "resync">>
  OBVIOUS
<1>2. LookTitle(LightLook(z)) = ZoneTitle(z) /\ LookTitle(Light(z)) = ZoneTitle(z)
      /\ LookEffects(LightLook(z)) = IF EffectiveModel(z) \in Models THEN EffectiveModel(z) ELSE "none"
  BY DEF LookTitle, LookEffects, LightLook, ZoneTitle
<1>3. /\ DOMAIN LightConfig(z) = {<<z, "light">>, <<z, "resync">>}
      /\ LightConfig(z)[<<z, "light">>] = LightOf(LightLook(z))
      /\ LightConfig(z)[<<z, "resync">>] = ResyncOf(LightLook(z))
  BY <1>1, <1>2 DEF LightConfig, Over, Message, LightOf, ResyncOf
<1>4. /\ DOMAIN LightValues(z) = {<<z, "values">>}
      /\ LightValues(z)[<<z, "values">>] = ReportOf(Light(z))
  BY <1>2 DEF LightValues, Message, ReportOf
<1> QED BY <1>3, <1>4

(* A zone in use, and one ever announced, differ from the caches at start.  *)
LEMMA NeverLooksLikeThis ==
  ASSUME NEW z PROVE LightLook(z) # Never /\ (Light(z).configured => Light(z) # NoLight)
BY DEF LightLook, Never, NoLight

(* What a light zone in use was published as is what is shown of it.        *)
LEMMA LightInvShows == LightInv => LightShown
<1> SUFFICES ASSUME LightInv, NEW z \in Zones, todo = <<>>, Light(z).configured
             PROVE  Kept(LightConfig(z)) /\ Kept(LightValues(z))
  BY DEF LightShown
<1>1. last.look[z] = LightLook(z) /\ last.light[z] = Light(z)
  BY NoCall DEF LightInv, LightSaid
<1>2. /\ KeptAs(<<z, "light">>, LightOf(LightLook(z)))
      /\ KeptAs(<<z, "resync">>, ResyncOf(LightLook(z)))
      /\ KeptAs(<<z, "values">>, ReportOf(Light(z)))
  BY <1>1, NeverLooksLikeThis DEF LightInv, LookKept, LightKept
<1>3. Kept(LightConfig(z))
  BY <1>2, LightMessages, KeptEach
<1>4. Kept(LightValues(z))
  BY <1>2, LightMessages, KeptEach
<1> QED BY <1>3, <1>4

LEMMA LightsBegin == LightInit => LightInv
<1> SUFFICES ASSUME LightInit PROVE LightInv
  OBVIOUS
<1>0. /\ pool = LightPool /\ last = LightCaches /\ todo = <<>> /\ RetainedTypeOK
  BY EventsAssumption DEF LightInit, Fresh, RetainedInit, RetainedTypeOK
<1>1. NoLight \in Lights
  BY DEF NoLight, Lights
<1>2. LightTypeOK
  BY <1>0, <1>1 DEF LightTypeOK, LightPool, LightCaches
<1>3. ASSUME NEW z \in Zones
      PROVE  ~ Light(z).configured /\ last.look[z] = Never /\ last.light[z] = NoLight
  BY <1>0 DEF LightPool, LightCaches, Light, NoLight
<1> QED BY <1>2, <1>3 DEF LightInv, LookKept, LightKept, LightSaid

(* A frame: state and calls are new, and what is not called is not new.     *)
LEMMA LightDecode ==
  ASSUME LightInv, NEW new, NEW calls, Decode(new, calls), calls \in Seq(Zones),
         new \in [light : [Zones -> Lights], model : Models \cup {Unlisted, "none", "unknown"}],
         \A z \in Zones : Light(z)'.configured /\ ~ Called(z)' =>
           Light(z).configured /\ Light(z)' = Light(z) /\ LightLook(z)' = LightLook(z)
  PROVE  LightInv'
<1>0. /\ pool' = new /\ todo = <<>> /\ todo' = calls /\ UNCHANGED <<link, broker, stale, last>>
      /\ events' = events + 1 /\ events < MaxEvents
  BY DEF Decode, Event
<1>1. LightTypeOK'
  BY <1>0, EventsAssumption DEF LightInv, LightTypeOK, RetainedTypeOK
<1>2. ASSUME NEW z \in Zones PROVE LookKept(z)' /\ LightKept(z)'
  BY <1>0, Undisturbed DEF LightInv, LookKept, LightKept
<1>3. ASSUME NEW z \in Zones PROVE LightSaid(z)'
  BY <1>0, NoCall DEF LightInv, LightSaid
<1> QED BY <1>1, <1>2, <1>3 DEF LightInv

LEMMA ZoneDecodes ==
  ASSUME LightInv, NEW z \in Zones, NEW new \in Lights, Zone(z, new)
  PROVE  LightInv'
<1> DEFINE after == [pool EXCEPT !.light[z] = new]
           calls == IF new.configured THEN <<z>> ELSE <<>>
<1>1. Decode(after, calls) /\ pool' = after /\ todo' = calls
  BY DEF Zone, Decode
<1>2. calls \in Seq(Zones)
  BY OneCall
<1>3. /\ after \in [light : [Zones -> Lights], model : Models \cup {Unlisted, "none", "unknown"}]
      /\ after.light = [pool.light EXCEPT ![z] = new] /\ after.model = pool.model
  BY DEF LightInv, LightTypeOK
<1>4. ASSUME NEW y \in Zones, Light(y)'.configured, ~ Called(y)'
      PROVE  Light(y).configured /\ Light(y)' = Light(y) /\ LightLook(y)' = LightLook(y)
  <2>1. y # z
    <3>1. new.configured => Called(z)'
      BY <1>1, OneCall
    <3> QED BY <3>1, <1>1, <1>3, <1>4 DEF Light, LightInv, LightTypeOK
  <2>2. Light(y)' = Light(y) /\ pool'.model = pool.model
    BY <2>1, <1>1, <1>3 DEF Light, LightInv, LightTypeOK
  <2> QED BY <2>2, <1>4 DEF LightLook, EffectiveModel
<1> QED BY <1>1, <1>2, <1>3, <1>4, LightDecode

LEMMA LightsHandled == LightInv /\ HandleLight => LightInv'
<1> SUFFICES ASSUME LightInv, HandleLight PROVE LightInv'
  OBVIOUS
<1>0. ASSUME NEW z \in Zones PROVE Light(z) \in Lights
  BY DEF LightInv, LightTypeOK, Light
<1>1. ASSUME NEW z \in Zones, NEW b \in BOOLEAN, LightEnabled(z, b) PROVE LightInv'
  <2>1. [Light(z) EXCEPT !.configured = b] \in Lights
    BY <1>0 DEF Lights
  <2> QED BY <1>1, <2>1, ZoneDecodes DEF LightEnabled
<1>2. ASSUME NEW z \in Zones, NEW b \in BOOLEAN, LightStatus(z, b) PROVE LightInv'
  <2>1. [Light(z) EXCEPT !.configured = TRUE, !.active = b] \in Lights
    BY <1>0 DEF Lights
  <2> QED BY <1>2, <2>1, ZoneDecodes DEF LightStatus
<1>3. ASSUME NEW z \in Zones, NEW b \in BOOLEAN, LightActive(z, b) PROVE LightInv'
  <2>1. [Light(z) EXCEPT !.active = b] \in Lights
    BY <1>0 DEF Lights
  <2> QED BY <1>3, <2>1, ZoneDecodes DEF LightActive
<1>4. ASSUME NEW z \in Zones, LightState(z, "on") PROVE LightInv'
  <2>1. [Light(z) EXCEPT !.state = "on"] \in Lights
    BY <1>0 DEF Lights
  <2> QED BY <1>4, <2>1, ZoneDecodes DEF LightState
<1>5. ASSUME NEW z \in Zones, LightColor(z, "blue") PROVE LightInv'
  <2>1. [Light(z) EXCEPT !.color = "blue"] \in Lights
    BY <1>0 DEF Lights
  <2> QED BY <1>5, <2>1, ZoneDecodes DEF LightColor
<1>6. ASSUME NEW z \in Zones, NEW c \in {"yes", "no"}, LightMulticolor(z, c) PROVE LightInv'
  <2>1. [Light(z) EXCEPT !.multicolor = c] \in Lights
    BY <1>0 DEF Lights
  <2> QED BY <1>6, <2>1, ZoneDecodes DEF LightMulticolor
<1>7. ASSUME NEW z \in Zones, NEW name \in ZoneNames \cup {Unlisted}, LightName(z, name)
      PROVE  LightInv'
  <2>1. [Light(z) EXCEPT !.name = name] \in Lights
    BY <1>0 DEF Lights
  <2> QED BY <1>7, <2>1, ZoneDecodes DEF LightName
<1>8. ASSUME NEW model \in Models \cup {Unlisted, "none"}, LightModel(model) PROVE LightInv'
  <2> DEFINE after == [pool EXCEPT !.model = model]
             calls == IF pool.model = model THEN <<>> ELSE [z \in Zones |-> z]
  <2>1. Decode(after, calls) /\ pool' = after /\ todo' = calls
    BY <1>8 DEF LightModel, Decode
  <2>2. calls \in Seq(Zones)
    <3>1. [z \in Zones |-> z] \in Seq(Zones)
      BY ZonesAssumption, SeqDef DEF Zones
    <3> QED BY <3>1, OneCall
  <2>3. /\ after \in [light : [Zones -> Lights], model : Models \cup {Unlisted, "none", "unknown"}]
        /\ after.light = pool.light /\ after.model = model
    BY DEF LightInv, LightTypeOK
  <2>4. ASSUME NEW y \in Zones, Light(y)'.configured, ~ Called(y)'
        PROVE  Light(y).configured /\ Light(y)' = Light(y) /\ LightLook(y)' = LightLook(y)
    <3>1. pool.model = model
      BY <2>1, <2>4 DEF Called
    <3>2. Light(y)' = Light(y) /\ pool'.model = pool.model
      BY <2>1, <2>3, <3>1 DEF Light
    <3> QED BY <3>2, <2>4 DEF LightLook, EffectiveModel
  <2> QED BY <2>1, <2>2, <2>3, <2>4, LightDecode
<1> QED BY <1>1, <1>2, <1>3, <1>4, <1>5, <1>6, <1>7, <1>8 DEF HandleLight

(* Topics of two zones differ, and of one zone those of announcement and    *)
(* report.                                                                  *)
LEMMA TopicsDiffer ==
  ASSUME NEW x, NEW y, NEW k, NEW l
  PROVE  (<<x, k>> = <<y, l>>) <=> (x = y /\ k = l)
OBVIOUS

(* A zone in use is published: what it needs is sent, and remembered.       *)
LEMMA LightSent ==
  ASSUME LightInv, NEW z \in Zones, NEW look, NEW light, NEW config, NEW values,
         look = LightLook(z), light = Light(z), light.configured,
         config = If(last.look[z] # look, LightConfig(z)),
         values = If(last.light[z] # light, LightValues(z)),
         Publish(config, values),
         last' = [last EXCEPT !.look[z] = look, !.light[z] = light],
         UNCHANGED pool, todo' \in Seq(Zones), \A x : Called(x) => x = z \/ Called(x)'
  PROVE  LightInv'
<1>1. LightTypeOK'
  <2>1. RetainedTypeOK'
    BY EventsAssumption DEF Publish, RetainedTypeOK, Event, LightInv, LightTypeOK
  <2>2. light \in Lights
    BY DEF LightInv, LightTypeOK, Light
  <2>3. DOMAIN last'.look = Zones /\ last'.light \in [Zones -> Lights]
    BY <2>2 DEF LightInv, LightTypeOK
  <2> QED BY <2>1, <2>3 DEF LightInv, LightTypeOK
<1>2. /\ last'.look[z] = look /\ last'.light[z] = light
      /\ \A y \in Zones : y # z => last'.look[y] = last.look[y] /\ last'.light[y] = last.light[y]
  BY DEF LightInv, LightTypeOK
<1>3. /\ DOMAIN config = IF last.look[z] # look THEN {<<z, "light">>, <<z, "resync">>} ELSE {}
      /\ DOMAIN values = IF last.light[z] # light THEN {<<z, "values">>} ELSE {}
      /\ last.look[z] # look => config[<<z, "light">>] = LightOf(look)
                                /\ config[<<z, "resync">>] = ResyncOf(look)
      /\ last.light[z] # light => values[<<z, "values">>] = ReportOf(light)
  BY LightMessages, NoMessage DEF If
<1>4. DOMAIN config \cap DOMAIN values = {}
  BY <1>3, TopicsDiffer
<1>5. ASSUME NEW topic, topic \notin DOMAIN config \cup DOMAIN values, NEW value,
             KeptAs(topic, value)
      PROVE  KeptAs(topic, value)'
  BY <1>4, <1>5, PublishKeeps
<1>6. last.look[z] # look => /\ KeptAs(<<z, "light">>, LightOf(look))'
                             /\ KeptAs(<<z, "resync">>, ResyncOf(look))'
  BY <1>3, <1>4, PublishKeeps
<1>7. last.light[z] # light => KeptAs(<<z, "values">>, ReportOf(light))'
  BY <1>3, <1>4, PublishKeeps
<1>8. ASSUME NEW y \in Zones PROVE LookKept(y)'
  <2>1. CASE y = z /\ last.look[z] # look
    BY <2>1, <1>2, <1>6 DEF LookKept
  <2>2. CASE ~ (y = z /\ last.look[z] # look)
    <3>1. last'.look[y] = last.look[y]
      BY <2>2, <1>2
    <3>2. /\ <<y, "light">> \notin DOMAIN config \cup DOMAIN values
          /\ <<y, "resync">> \notin DOMAIN config \cup DOMAIN values
      BY <2>2, <1>3, TopicsDiffer
    <3> QED BY <3>1, <3>2, <1>5 DEF LightInv, LookKept
  <2> QED BY <2>1, <2>2
<1>9. ASSUME NEW y \in Zones PROVE LightKept(y)'
  <2>1. CASE y = z /\ last.light[z] # light
    BY <2>1, <1>2, <1>7 DEF LightKept
  <2>2. CASE ~ (y = z /\ last.light[z] # light)
    <3>1. last'.light[y] = last.light[y]
      BY <2>2, <1>2
    <3>2. <<y, "values">> \notin DOMAIN config \cup DOMAIN values
      BY <2>2, <1>3, TopicsDiffer
    <3> QED BY <3>1, <3>2, <1>5 DEF LightInv, LightKept
  <2> QED BY <2>1, <2>2
<1>10. ASSUME NEW y \in Zones PROVE LightSaid(y)'
  <2>1. Light(y)' = Light(y) /\ LightLook(y)' = LightLook(y)
    BY DEF Light, LightLook, EffectiveModel
  <2>2. CASE y = z
    BY <2>1, <2>2, <1>2 DEF LightSaid
  <2>3. CASE y # z
    BY <2>1, <2>3, <1>2 DEF LightInv, LightSaid
  <2> QED BY <2>2, <2>3
<1> QED BY <1>1, <1>8, <1>9, <1>10 DEF LightInv

(* A zone not in use is passed over.                                        *)
LEMMA LightPassed ==
  ASSUME LightInv, NEW z \in Zones, ~ Light(z).configured,
         UNCHANGED <<retainedVars, pool, last>>,
         todo' \in Seq(Zones), \A x : Called(x) => x = z \/ Called(x)'
  PROVE  LightInv'
<1>1. LightTypeOK'
  BY DEF LightInv, LightTypeOK, RetainedTypeOK, retainedVars
<1>2. ASSUME NEW y \in Zones PROVE LookKept(y)' /\ LightKept(y)'
  BY Undisturbed DEF LightInv, LookKept, LightKept, retainedVars
<1>3. ASSUME NEW y \in Zones PROVE LightSaid(y)'
  BY DEF LightInv, LightSaid, Light, LightLook, EffectiveModel
<1> QED BY <1>1, <1>2, <1>3 DEF LightInv

LEMMA LightPublished == LightInv /\ PublishLight => LightInv'
<1> SUFFICES ASSUME LightInv, PublishLight PROVE LightInv'
  OBVIOUS
<1>1. PICK z : z = Head(todo)
  OBVIOUS
<1>2. /\ z \in Zones /\ todo # <<>> /\ todo' = Tail(todo) /\ UNCHANGED pool
      /\ todo' \in Seq(Zones) /\ \A x : Called(x) => x = z \/ Called(x)'
  BY <1>1, NextCall DEF PublishLight, Send, Pass, LightInv, LightTypeOK
<1>3. CASE ~ Light(z).configured
  <2>1. UNCHANGED <<retainedVars, pool, last>>
    BY <1>1, <1>3 DEF PublishLight, Pass
  <2> QED BY <2>1, <1>2, <1>3, LightPassed
<1>4. CASE Light(z).configured
  <2>1. PICK look, light, config, values :
          /\ look = LightLook(z) /\ light = Light(z)
          /\ config = If(last.look[z] # look, LightConfig(z))
          /\ values = If(last.light[z] # light, LightValues(z))
    OBVIOUS
  <2>2. /\ Publish(config, values)
        /\ last' = [last EXCEPT !.look[z] = look, !.light[z] = light]
    BY <2>1, <1>1, <1>4 DEF PublishLight, Send
  <2> QED BY <2>1, <2>2, <1>2, <1>4, LightSent
<1> QED BY <1>3, <1>4

LEMMA LightsLinked == LightInv /\ LinkChanges => LightInv'
<1> SUFFICES ASSUME LightInv, LinkChanges PROVE LightInv'
  OBVIOUS
<1>1. UNCHANGED <<broker, stale, pool, last, todo>> /\ RetainedTypeOK'
  BY EventsAssumption
  DEF LinkChanges, LinkUp, LinkDown, Event, RetainedTypeOK, LightInv, LightTypeOK
<1>2. ASSUME NEW z \in Zones PROVE LookKept(z)' /\ LightKept(z)' /\ LightSaid(z)'
  BY <1>1, Undisturbed
  DEF LightInv, LookKept, LightKept, LightSaid, Light, LightLook, EffectiveModel, Called
<1> QED BY <1>1, <1>2 DEF LightInv, LightTypeOK

LEMMA LightsRestarted == LightInv /\ Restarted(LightPool, LightCaches) => LightInv'
<1> SUFFICES ASSUME LightInv, Restarted(LightPool, LightCaches) PROVE LightInv'
  OBVIOUS
<1>0. pool' = LightPool /\ last' = LightCaches /\ todo' = <<>> /\ RetainedTypeOK'
  BY EventsAssumption
  DEF Restarted, RetainedRestart, RetainedTypeOK, Event, LightInv, LightTypeOK
<1>1. NoLight \in Lights
  BY DEF NoLight, Lights
<1>2. LightTypeOK'
  BY <1>0, <1>1 DEF LightTypeOK, LightPool, LightCaches
<1>3. ASSUME NEW z \in Zones
      PROVE  ~ Light(z)'.configured /\ last'.look[z] = Never /\ last'.light[z] = NoLight
  BY <1>0 DEF LightPool, LightCaches, Light, NoLight
<1> QED BY <1>2, <1>3 DEF LightInv, LookKept, LightKept, LightSaid

LEMMA LightsStep == LightInv /\ LightNext => LightInv'
BY LightsHandled, LightPublished, LightsLinked, LightsRestarted DEF LightNext

-----------------------------------------------------------------------------
(* Valves: the messages by what the caches hold.                            *)

TitleOf(label) == IF label = "" THEN "Valve" ELSE label
ValveReportOf(valve) ==
  [state |-> valve.state, active |-> valve.active, name |-> TitleOf(valve.label)]

(* What was announced and reported is with the broker, or was dropped.      *)
LabelKept(v) ==
  last.announced[v] => KeptAs(<<v, "valve">>, [name |-> TitleOf(last.valve[v].label)])
ValveKept(v) == last.valve[v] # NoValve => KeptAs(<<v, "values">>, ValveReportOf(last.valve[v]))

(* A valve in use that is not to be published was published as it is.       *)
ValveSaid(v) ==
  Valve(v).configured /\ ~ Called(v) => last.announced[v] /\ last.valve[v] = Valve(v)

ValveInv == ValveTypeOK /\ \A v \in Valves : LabelKept(v) /\ ValveKept(v) /\ ValveSaid(v)

LEMMA ValveMessages ==
  ASSUME NEW v
  PROVE  /\ DOMAIN ValveConfig(v) = {<<v, "valve">>}
         /\ ValveConfig(v)[<<v, "valve">>] = [name |-> TitleOf(Valve(v).label)]
         /\ DOMAIN ValveValues(v) = {<<v, "values">>}
         /\ ValveValues(v)[<<v, "values">>] = ValveReportOf(Valve(v))
<1>1. ValveTitle(v) = TitleOf(Valve(v).label)
  BY DEF ValveTitle, TitleOf
<1> QED BY <1>1 DEF ValveConfig, ValveValues, Message, ValveReportOf

LEMMA UnusedValve == ~ NoValve.configured
BY DEF NoValve

LEMMA ValveInvShows == ValveInv => ValveShown
<1> SUFFICES ASSUME ValveInv, NEW v \in Valves, todo = <<>>, Valve(v).configured
             PROVE  Kept(ValveConfig(v)) /\ Kept(ValveValues(v))
  BY DEF ValveShown
<1>0. last.announced[v] /\ last.valve[v] = Valve(v)
  BY NoCall DEF ValveInv, ValveSaid
<1>1. Valve(v) # NoValve
  BY UnusedValve
<1>2. /\ KeptAs(<<v, "valve">>, [name |-> TitleOf(Valve(v).label)])
      /\ KeptAs(<<v, "values">>, ValveReportOf(Valve(v)))
  BY <1>0, <1>1 DEF ValveInv, LabelKept, ValveKept
<1>3. Kept(ValveConfig(v))
  BY <1>2, ValveMessages, KeptEach
<1>4. Kept(ValveValues(v))
  BY <1>2, ValveMessages, KeptEach
<1> QED BY <1>3, <1>4

LEMMA ValvesBegin == ValveInit => ValveInv
<1> SUFFICES ASSUME ValveInit PROVE ValveInv
  OBVIOUS
<1>0. /\ pool = ValvePool /\ last = ValveCaches /\ todo = <<>> /\ RetainedTypeOK
  BY EventsAssumption DEF ValveInit, Fresh, RetainedInit, RetainedTypeOK
<1>1. NoValve \in ValveRecords
  BY DEF NoValve, ValveRecords
<1>2. ValveTypeOK
  BY <1>0, <1>1 DEF ValveTypeOK, ValvePool, ValveCaches
<1>3. ASSUME NEW v \in Valves
      PROVE  ~ Valve(v).configured /\ ~ last.announced[v] /\ last.valve[v] = NoValve
  BY <1>0 DEF ValvePool, ValveCaches, Valve, NoValve
<1> QED BY <1>2, <1>3 DEF ValveInv, LabelKept, ValveKept, ValveSaid

(* A frame: state and calls are new, and what is not called is not new.     *)
LEMMA ValveDecode ==
  ASSUME ValveInv, NEW new, NEW calls, Decode(new, calls), calls \in Seq(Valves),
         new \in [valve : [Valves -> ValveRecords]],
         \A v \in Valves : ~ Called(v)' => Valve(v)' = Valve(v)
  PROVE  ValveInv'
<1>0. /\ pool' = new /\ todo = <<>> /\ todo' = calls /\ UNCHANGED <<link, broker, stale, last>>
      /\ events' = events + 1 /\ events < MaxEvents
  BY DEF Decode, Event
<1>1. ValveTypeOK'
  BY <1>0, EventsAssumption DEF ValveInv, ValveTypeOK, RetainedTypeOK
<1>2. ASSUME NEW v \in Valves PROVE LabelKept(v)' /\ ValveKept(v)'
  BY <1>0, Undisturbed DEF ValveInv, LabelKept, ValveKept
<1>3. ASSUME NEW v \in Valves PROVE ValveSaid(v)'
  BY <1>0, NoCall DEF ValveInv, ValveSaid
<1> QED BY <1>1, <1>2, <1>3 DEF ValveInv

(* The slots of a frame are valves.                                         *)
LEMMA SlotsAreValves ==
  ASSUME NEW n \in Nat
  PROVE  /\ Slots(n) \subseteq Valves /\ [v \in Slots(n) |-> v] \in Seq(Valves)
<1>1. PICK m \in Nat : m <= NumValves /\ Slots(n) = 1 .. m
  BY ValvesAssumption DEF Slots
<1>2. [v \in 1 .. m |-> v] \in [1 .. m -> Valves]
  BY <1>1, ValvesAssumption DEF Valves
<1> QED BY <1>1, <1>2, SeqDef, ValvesAssumption DEF Valves

(* Valves whose slots are not in the frame stay as they are; if any changed,*)
(* all in the frame are called.                                             *)
LEMMA ValveStateDecodes ==
  ASSUME ValveInv, NEW n \in Nat, NEW slots \in [Slots(n) -> SlotBytes], ValveState(n, slots)
  PROVE  ValveInv'
<1>1. PICK new : new = [v \in Valves |->
        IF v \in Slots(n)
        THEN [Valve(v) EXCEPT !.configured = slots[v].configured, !.state = slots[v].state,
                              !.active = slots[v].active]
        ELSE Valve(v)]
  OBVIOUS
<1>2. PICK after, calls : /\ after = [pool EXCEPT !.valve = new]
                          /\ calls = IF new = pool.valve THEN <<>> ELSE [v \in Slots(n) |-> v]
                          /\ Decode(after, calls)
  BY <1>1 DEF ValveState
<1>3. ASSUME NEW v \in Valves PROVE new[v] \in ValveRecords
  <2>1. Valve(v) \in ValveRecords
    BY DEF ValveInv, ValveTypeOK, Valve
  <2>2. CASE v \in Slots(n)
    <3>1. slots[v] \in SlotBytes
      BY <2>2
    <3>2. new[v] = [Valve(v) EXCEPT !.configured = slots[v].configured, !.state = slots[v].state,
                                    !.active = slots[v].active]
      BY <1>1, <2>2
    <3>3. PICK byte : byte = slots[v]
      OBVIOUS
    <3> QED BY <2>1, <3>1, <3>2, <3>3 DEF SlotBytes, ValveRecords
  <2>3. CASE v \notin Slots(n)
    BY <1>1, <2>1, <2>3
  <2> QED BY <2>2, <2>3
<1>4. new \in [Valves -> ValveRecords]
  BY <1>1, <1>3
<1>5. after \in [valve : [Valves -> ValveRecords]] /\ after.valve = new
  BY <1>2, <1>4 DEF ValveInv, ValveTypeOK
<1>6. calls \in Seq(Valves)
  BY <1>2, SlotsAreValves
<1>7. ASSUME NEW v \in Valves, ~ Called(v)' PROVE Valve(v)' = Valve(v)
  <2>1. pool' = after /\ todo' = calls
    BY <1>2 DEF Decode
  <2>2. new = pool.valve \/ v \notin Slots(n)
    BY <1>2, <1>7, <2>1 DEF Called
  <2>3. new[v] = Valve(v)
    BY <1>1, <2>2 DEF Valve
  <2> QED BY <2>1, <2>3, <1>5 DEF Valve
<1> QED BY <1>2, <1>5, <1>6, <1>7, ValveDecode

LEMMA ValveLabelDecodes ==
  ASSUME ValveInv, NEW v \in Nat, NEW label \in ValveLabels \cup {""}, ValveLabel(v, label)
  PROVE  ValveInv'
<1>1. CASE v \in Valves
  <2>1. PICK after : after = [pool EXCEPT !.valve[v].label = label] /\ Decode(after, <<v>>)
    BY <1>1 DEF ValveLabel
  <2>2. pool.valve \in [Valves -> ValveRecords] /\ pool.valve[v] \in ValveRecords
    BY <1>1 DEF ValveInv, ValveTypeOK
  <2>3. [pool.valve[v] EXCEPT !.label = label] \in ValveRecords
    BY <2>2 DEF ValveRecords
  <2>4. after.valve = [pool.valve EXCEPT ![v] = [pool.valve[v] EXCEPT !.label = label]]
        /\ after = [valve |-> after.valve]
    BY <2>1 DEF ValveInv, ValveTypeOK
  <2>5. after \in [valve : [Valves -> ValveRecords]]
    BY <2>2, <2>3, <2>4
  <2>6. pool' = after /\ todo' = <<v>>
    BY <2>1 DEF Decode
  <2>7. ASSUME NEW x \in Valves, ~ Called(x)' PROVE Valve(x)' = Valve(x)
    <3>1. x # v
      BY <2>6, <2>7, OneCall, <1>1
    <3> QED BY <3>1, <2>2, <2>4, <2>6, <1>1 DEF Valve
  <2> QED BY <1>1, <2>1, <2>5, <2>7, OneCall, ValveDecode
<1>2. CASE v \notin Valves
  <2>1. Decode(pool, <<>>)
    BY <1>2 DEF ValveLabel
  <2>2. UNCHANGED pool
    BY <2>1 DEF Decode
  <2> QED BY <2>1, <2>2, EmptySeq, ValveDecode DEF Valve, ValveInv, ValveTypeOK
<1> QED BY <1>1, <1>2

LEMMA ValvesAreNumbers == Valves \cup {NumValves + 1} \subseteq Nat
BY ValvesAssumption DEF Valves

LEMMA ValvesHandled == ValveInv /\ HandleValve => ValveInv'
<1> SUFFICES ASSUME ValveInv, HandleValve PROVE ValveInv'
  OBVIOUS
<1>1. ASSUME NEW n \in {0, 1, NumValves + 1}, NEW slots \in [Slots(n) -> SlotBytes],
             ValveState(n, slots)
      PROVE  ValveInv'
  BY <1>1, ValveStateDecodes, ValvesAssumption
<1>2. ASSUME TruncatedValveState PROVE ValveInv'
  <2>1. Decode(pool, <<>>) /\ UNCHANGED pool
    BY <1>2 DEF TruncatedValveState, Decode
  <2> QED BY <2>1, EmptySeq, ValveDecode DEF Valve, ValveInv, ValveTypeOK
<1>3. ASSUME NEW v \in Valves \cup {NumValves + 1}, NEW label \in ValveLabels \cup {""},
             ValveLabel(v, label)
      PROVE  ValveInv'
  <2>1. v \in Nat
    BY ValvesAreNumbers
  <2> QED BY <1>3, <2>1, ValveLabelDecodes
<1> QED BY <1>1, <1>2, <1>3 DEF HandleValve

(* A valve in use is published: what it needs is sent, and remembered.      *)
LEMMA ValveSent ==
  ASSUME ValveInv, NEW v \in Valves, NEW valve, NEW announce \in BOOLEAN, NEW config, NEW values,
         valve = Valve(v), valve.configured,
         announce <=> (~ last.announced[v] \/ last.valve[v].label # valve.label),
         config = If(announce, ValveConfig(v)),
         values = If(last.valve[v] # valve, ValveValues(v)),
         Publish(config, values),
         last' = [last EXCEPT !.announced[v] = TRUE, !.valve[v] = valve],
         UNCHANGED pool, todo' \in Seq(Valves), \A x : Called(x) => x = v \/ Called(x)'
  PROVE  ValveInv'
<1>1. ValveTypeOK'
  <2>1. RetainedTypeOK'
    BY EventsAssumption DEF Publish, RetainedTypeOK, Event, ValveInv, ValveTypeOK
  <2>2. valve \in ValveRecords
    BY DEF ValveInv, ValveTypeOK, Valve
  <2>3. last' \in [announced : [Valves -> BOOLEAN], valve : [Valves -> ValveRecords]]
    BY <2>2 DEF ValveInv, ValveTypeOK
  <2> QED BY <2>1, <2>3 DEF ValveInv, ValveTypeOK
<1>2. /\ last'.announced[v] /\ last'.valve[v] = valve
      /\ \A y \in Valves : y # v => (last'.announced[y] <=> last.announced[y])
                                   /\ last'.valve[y] = last.valve[y]
  BY DEF ValveInv, ValveTypeOK
<1>3. /\ announce => DOMAIN config = {<<v, "valve">>}
                      /\ config[<<v, "valve">>] = [name |-> TitleOf(valve.label)]
      /\ ~ announce => DOMAIN config = {}
      /\ last.valve[v] # valve => DOMAIN values = {<<v, "values">>}
                                  /\ values[<<v, "values">>] = ValveReportOf(valve)
      /\ last.valve[v] = valve => DOMAIN values = {}
  BY ValveMessages, NoMessage DEF If
<1>4. DOMAIN config \cap DOMAIN values = {}
  BY <1>3, TopicsDiffer
<1>5. ASSUME NEW topic, topic \notin DOMAIN config \cup DOMAIN values, NEW value,
             KeptAs(topic, value)
      PROVE  KeptAs(topic, value)'
  BY <1>4, <1>5, PublishKeeps
<1>6. announce => KeptAs(<<v, "valve">>, [name |-> TitleOf(valve.label)])'
  BY <1>3, <1>4, PublishKeeps
<1>7. last.valve[v] # valve => KeptAs(<<v, "values">>, ValveReportOf(valve))'
  BY <1>3, <1>4, PublishKeeps
<1>8. ASSUME NEW y \in Valves PROVE LabelKept(y)'
  <2>1. CASE y = v /\ announce
    BY <2>1, <1>2, <1>6 DEF LabelKept
  <2>2. CASE ~ (y = v /\ announce)
    <3>1. <<y, "valve">> \notin DOMAIN config \cup DOMAIN values
      BY <2>2, <1>3, TopicsDiffer
    <3>2. last.announced[y] <=> last'.announced[y]
      BY <2>2, <1>2
    <3>3. last.announced[y] => last'.valve[y].label = last.valve[y].label
      BY <2>2, <1>2
    <3> QED BY <3>1, <3>2, <3>3, <1>5 DEF ValveInv, LabelKept
  <2> QED BY <2>1, <2>2
<1>9. ASSUME NEW y \in Valves PROVE ValveKept(y)'
  <2>1. CASE y = v /\ last.valve[v] # valve
    BY <2>1, <1>2, <1>7 DEF ValveKept
  <2>2. CASE ~ (y = v /\ last.valve[v] # valve)
    <3>1. last'.valve[y] = last.valve[y]
      BY <2>2, <1>2
    <3>2. <<y, "values">> \notin DOMAIN config \cup DOMAIN values
      BY <2>2, <1>3, TopicsDiffer
    <3> QED BY <3>1, <3>2, <1>5 DEF ValveInv, ValveKept
  <2> QED BY <2>1, <2>2
<1>10. ASSUME NEW y \in Valves PROVE ValveSaid(y)'
  <2>1. Valve(y)' = Valve(y)
    BY DEF Valve
  <2>2. CASE y = v
    BY <2>1, <2>2, <1>2 DEF ValveSaid
  <2>3. CASE y # v
    BY <2>1, <2>3, <1>2 DEF ValveInv, ValveSaid
  <2> QED BY <2>2, <2>3
<1> QED BY <1>1, <1>8, <1>9, <1>10 DEF ValveInv

(* A valve not in use is passed over.                                       *)
LEMMA ValvePassed ==
  ASSUME ValveInv, NEW v \in Valves, ~ Valve(v).configured,
         UNCHANGED <<retainedVars, pool, last>>,
         todo' \in Seq(Valves), \A x : Called(x) => x = v \/ Called(x)'
  PROVE  ValveInv'
<1>1. ValveTypeOK'
  BY DEF ValveInv, ValveTypeOK, RetainedTypeOK, retainedVars
<1>2. ASSUME NEW y \in Valves PROVE LabelKept(y)' /\ ValveKept(y)'
  BY Undisturbed DEF ValveInv, LabelKept, ValveKept, retainedVars
<1>3. ASSUME NEW y \in Valves PROVE ValveSaid(y)'
  BY DEF ValveInv, ValveSaid, Valve
<1> QED BY <1>1, <1>2, <1>3 DEF ValveInv

LEMMA ValvePublished == ValveInv /\ PublishValve => ValveInv'
<1> SUFFICES ASSUME ValveInv, PublishValve PROVE ValveInv'
  OBVIOUS
<1>1. PICK v : v = Head(todo)
  OBVIOUS
<1>2. /\ v \in Valves /\ todo # <<>> /\ todo' = Tail(todo) /\ UNCHANGED pool
      /\ todo' \in Seq(Valves) /\ \A x : Called(x) => x = v \/ Called(x)'
  BY <1>1, NextCall DEF PublishValve, Send, Pass, ValveInv, ValveTypeOK
<1>3. CASE ~ Valve(v).configured
  <2>1. UNCHANGED <<retainedVars, pool, last>>
    BY <1>1, <1>3 DEF PublishValve, Pass
  <2> QED BY <2>1, <1>2, <1>3, ValvePassed
<1>4. CASE Valve(v).configured
  <2>0. PICK announce \in BOOLEAN :
          announce <=> (~ last.announced[v] \/ last.valve[v].label # Valve(v).label)
    OBVIOUS
  <2>1. PICK valve, config, values :
          /\ valve = Valve(v)
          /\ config = If(announce, ValveConfig(v))
          /\ values = If(last.valve[v] # valve, ValveValues(v))
    OBVIOUS
  <2>2. /\ Publish(config, values)
        /\ last' = [last EXCEPT !.announced[v] = TRUE, !.valve[v] = valve]
    BY <2>0, <2>1, <1>1, <1>4 DEF PublishValve, Send, If
  <2> QED BY <2>0, <2>1, <2>2, <1>2, <1>4, ValveSent
<1> QED BY <1>3, <1>4

LEMMA ValvesLinked == ValveInv /\ LinkChanges => ValveInv'
<1> SUFFICES ASSUME ValveInv, LinkChanges PROVE ValveInv'
  OBVIOUS
<1>1. UNCHANGED <<broker, stale, pool, last, todo>> /\ RetainedTypeOK'
  BY EventsAssumption
  DEF LinkChanges, LinkUp, LinkDown, Event, RetainedTypeOK, ValveInv, ValveTypeOK
<1>2. ASSUME NEW v \in Valves PROVE LabelKept(v)' /\ ValveKept(v)' /\ ValveSaid(v)'
  BY <1>1, Undisturbed DEF ValveInv, LabelKept, ValveKept, ValveSaid, Valve, Called
<1> QED BY <1>1, <1>2 DEF ValveInv, ValveTypeOK

LEMMA ValvesRestarted == ValveInv /\ Restarted(ValvePool, ValveCaches) => ValveInv'
<1> SUFFICES ASSUME ValveInv, Restarted(ValvePool, ValveCaches) PROVE ValveInv'
  OBVIOUS
<1>0. pool' = ValvePool /\ last' = ValveCaches /\ todo' = <<>> /\ RetainedTypeOK'
  BY EventsAssumption
  DEF Restarted, RetainedRestart, RetainedTypeOK, Event, ValveInv, ValveTypeOK
<1>1. NoValve \in ValveRecords
  BY DEF NoValve, ValveRecords
<1>2. ValveTypeOK'
  BY <1>0, <1>1 DEF ValveTypeOK, ValvePool, ValveCaches
<1>3. ASSUME NEW v \in Valves
      PROVE  ~ Valve(v)'.configured /\ ~ last'.announced[v] /\ last'.valve[v] = NoValve
  BY <1>0 DEF ValvePool, ValveCaches, Valve, NoValve
<1> QED BY <1>2, <1>3 DEF ValveInv, LabelKept, ValveKept, ValveSaid

LEMMA ValvesStep == ValveInv /\ ValveNext => ValveInv'
BY ValvesHandled, ValvePublished, ValvesLinked, ValvesRestarted DEF ValveNext

-----------------------------------------------------------------------------
(* Favourites and the mode, which two tasks announce. What is shown of the  *)
(* favourites is as they are, unless a call to announce them is to come.    *)

SelectDue == todo = <<"modes">> \/ (todo = <<"favourite">> /\ last.fav # pool.fav)
SelectKept ==
  ~ overtaken /\ ~ SelectDue => KeptAs(SelectTopic, [options |-> FavouriteOptions(pool)])

(* Without a call to come the publisher knows the favourites as they are,   *)
(* or has not been called yet.                                              *)
FavouritesSaid == todo # <<"favourite">> => last.fav \in {pool.fav, Never}

ModeKept == last.mode # "unknown" => KeptAs(ModeTopic, [value |-> last.mode])
ModeSaid == pool.mode # "unknown" /\ todo # <<"mode">> => last.mode = pool.mode

FavouriteInv == FavouriteTypeOK /\ SelectKept /\ FavouritesSaid /\ ModeKept /\ ModeSaid

LEMMA OtherTopics == /\ SelectTopic # StateTopic /\ SelectTopic # ModeTopic /\ StateTopic # ModeTopic
BY DEF SelectTopic, StateTopic, ModeTopic

LEMMA OtherCalls ==
  /\ <<"favourite">> # <<"modes">> /\ <<"favourite">> # <<"mode">> /\ <<"modes">> # <<"mode">>
  /\ <<"favourite">> # <<>> /\ <<"modes">> # <<>> /\ <<"mode">> # <<>>
OBVIOUS

LEMMA LastCall == \A call : Head(<<call>>) = call /\ Tail(<<call>>) = <<>>
OBVIOUS

(* The favourites are a table with a row for Pool.                          *)
LEMMA NeverFavourites == ASSUME NEW fav \in Favourites PROVE fav # Never
<1>1. DOMAIN fav = FavouriteSlots /\ "Pool" \in FavouriteSlots
  BY DEF Favourites, FavouriteSlots, BuiltIn
<1>2. DOMAIN Never = {"never"}
  BY DEF Never
<1> QED BY <1>1, <1>2

(* The options are those of the favourites and the separate-modes setting.  *)
LEMMA OptionsOf ==
  ASSUME NEW s, NEW t, s.fav = t.fav, s.separate = t.separate
  PROVE  FavouriteOptions(s) = FavouriteOptions(t)
BY DEF FavouriteOptions, Offered

LEMMA SelectMessage ==
  ASSUME NEW state
  PROVE  /\ DOMAIN FavouriteConfig(state) = {SelectTopic}
         /\ FavouriteConfig(state)[SelectTopic] = [options |-> FavouriteOptions(state)]
BY DEF FavouriteConfig, Message

(* An option that selects nothing is one that always stands, or the label   *)
(* of a built-in.                                                           *)
LEMMA ChosenGoesBy ==
  ASSUME NEW option \in FavouriteOptions(pool) \ Standing,
         ~ \E i \in BuiltIn : Title(pool.fav, i) = option
  PROVE  /\ Chosen(option) \in UserFavourites
         /\ pool.fav[Chosen(option)].enabled = "yes" /\ Title(pool.fav, Chosen(option)) = option
<1> DEFINE named == {i \in UserFavourites : pool.fav[i].enabled = "yes" /\ Title(pool.fav, i) = option}
<1>1. named # {}
  BY DEF FavouriteOptions, Offered, Standing
<1>2. Chosen(option) = CHOOSE i \in named : TRUE
  BY <1>1 DEF Chosen, Standing
<1> QED BY <1>1, <1>2

LEMMA FavouriteInvShows == FavouriteInv => OptionsShown /\ OptionSelects
<1> SUFFICES ASSUME FavouriteInv PROVE OptionsShown /\ OptionSelects
  OBVIOUS
<1>1. todo = <<>> /\ ~ overtaken => KeptAs(SelectTopic, [options |-> FavouriteOptions(pool)])
  BY OtherCalls DEF FavouriteInv, SelectKept, SelectDue
<1>2. ASSUME todo = <<>>, ~ overtaken PROVE Kept(FavouriteConfig(pool))
  BY <1>1, <1>2, SelectMessage, KeptEach
<1>3. ASSUME todo = <<>>, pool.mode # "unknown" PROVE Kept(Message(ModeTopic, [value |-> pool.mode]))
  <2>1. KeptAs(ModeTopic, [value |-> pool.mode])
    BY <1>3, OtherCalls DEF FavouriteInv, ModeSaid, ModeKept
  <2> QED BY <2>1, KeptMessage
<1>4. OptionsShown
  BY <1>2, <1>3 DEF OptionsShown
<1>5. OptionSelects
  <2> SUFFICES ASSUME todo = <<>>, ~ overtaken, SelectTopic \notin stale,
                      NEW option \in broker[SelectTopic].options \ Standing,
                      ~ \E i \in BuiltIn : Title(pool.fav, i) = option
               PROVE  /\ Chosen(option) \in UserFavourites
                      /\ pool.fav[Chosen(option)].enabled = "yes"
                      /\ Title(pool.fav, Chosen(option)) = option
    BY DEF OptionSelects
  <2>1. [options |-> FavouriteOptions(pool)] # Removed
    BY DEF Removed
  <2>2. broker[SelectTopic] = [options |-> FavouriteOptions(pool)]
    BY <1>1, <2>1 DEF KeptAs
  <2> QED BY <2>2, ChosenGoesBy
<1> QED BY <1>4, <1>5

LEMMA FavouritesBegin == FavouriteInit => FavouriteInv
<1> SUFFICES ASSUME FavouriteInit PROVE FavouriteInv
  OBVIOUS
<1>0. /\ pool = FavouritePool /\ last = FavouriteCaches /\ todo = <<>> /\ RetainedTypeOK
      /\ job = "idle" /\ overtaken = TRUE
  BY EventsAssumption DEF FavouriteInit, Fresh, RetainedInit, RetainedTypeOK
<1>1. FavouritePool.fav \in Favourites
  BY DEF FavouritePool, Zeroed, Favourites
<1>2. FavouriteTypeOK
  BY <1>0, <1>1 DEF FavouriteTypeOK, FavouritePool, Zeroed, FavouriteCaches, ActiveValues, Modes
<1>3. pool.mode = "unknown" /\ last.mode = "unknown" /\ last.fav = Never
  BY <1>0 DEF FavouritePool, Zeroed, FavouriteCaches
<1> QED BY <1>0, <1>2, <1>3 DEF FavouriteInv, SelectKept, FavouritesSaid, ModeKept, ModeSaid

(* A frame: whatever of the favourites, the setting or the mode is new is   *)
(* called.                                                                  *)
LEMMA FavouriteHandler ==
  ASSUME FavouriteInv, NEW new, NEW calls, Handler(new, calls),
         calls \in {<<>>, <<"favourite">>, <<"modes">>, <<"mode">>},
         new \in [fav : Favourites, active : ActiveValues, separate : {"unknown", "yes", "no"}, mode : Modes],
         new.fav # pool.fav => calls = <<"favourite">>,
         new.separate # pool.separate => calls = <<"modes">>,
         new.mode # pool.mode => calls = <<"mode">>
  PROVE  FavouriteInv'
<1>0. /\ pool' = new /\ todo = <<>> /\ todo' = calls
      /\ UNCHANGED <<link, broker, stale, last, job, overtaken>>
      /\ events' = events + 1 /\ events < MaxEvents
  BY DEF Handler, Decode, Event
<1>1. FavouriteTypeOK'
  BY <1>0, EventsAssumption DEF FavouriteInv, FavouriteTypeOK, RetainedTypeOK
<1>2. last.fav \in {pool.fav, Never}
  BY <1>0, OtherCalls DEF FavouriteInv, FavouritesSaid
<1>3. SelectKept'
  <2> SUFFICES ASSUME ~ overtaken, ~ SelectDue'
               PROVE  KeptAs(SelectTopic, [options |-> FavouriteOptions(pool)])'
    BY <1>0 DEF SelectKept
  <2>1. new.fav = pool.fav /\ new.separate = pool.separate
    <3>1. pool.fav \in Favourites /\ new.fav \in Favourites
      BY DEF FavouriteInv, FavouriteTypeOK
    <3>2. new.fav # pool.fav => last.fav # new.fav
      BY <1>0, <1>2, <3>1, NeverFavourites DEF SelectDue
    <3> QED BY <1>0, <3>2 DEF SelectDue
  <2>2. FavouriteOptions(new) = FavouriteOptions(pool)
    BY <2>1, OptionsOf
  <2>3. KeptAs(SelectTopic, [options |-> FavouriteOptions(pool)])
    BY <1>0, OtherCalls DEF FavouriteInv, SelectKept, SelectDue
  <2>4. KeptAs(SelectTopic, [options |-> FavouriteOptions(new)])
    BY <2>2, <2>3
  <2>5. FavouriteOptions(pool)' = FavouriteOptions(new)
    BY <1>0, OptionsOf DEF FavouriteOptions, Offered
  <2> QED BY <2>4, <2>5, <1>0 DEF KeptAs, Shown
<1>4. FavouritesSaid'
  BY <1>0, <1>2 DEF FavouritesSaid
<1>5. ModeKept'
  BY <1>0, Undisturbed DEF FavouriteInv, ModeKept
<1>6. ModeSaid'
  BY <1>0, OtherCalls DEF FavouriteInv, ModeSaid
<1> QED BY <1>1, <1>3, <1>4, <1>5, <1>6 DEF FavouriteInv

LEMMA FavouritesHandled == FavouriteInv /\ HandleFavourite => FavouriteInv'
<1> SUFFICES ASSUME FavouriteInv, HandleFavourite PROVE FavouriteInv'
  OBVIOUS
<1> DEFINE Pools == [fav : Favourites, active : ActiveValues, separate : {"unknown", "yes", "no"}, mode : Modes]
<1>0. pool \in Pools
  BY DEF FavouriteInv, FavouriteTypeOK
<1>1. ASSUME NEW i \in FavouriteSlots, NEW label \in FavouriteLabels \cup {""}, FavouriteLabel(i, label)
      PROVE  FavouriteInv'
  <2>1. PICK new : new = [pool EXCEPT !.fav[i].label = label] /\ Handler(new, <<"favourite">>)
    BY <1>1 DEF FavouriteLabel
  <2>2. [pool.fav EXCEPT ![i].label = label] \in Favourites
    BY <1>0, <1>1 DEF Favourites
  <2>3. new \in Pools /\ new.separate = pool.separate /\ new.mode = pool.mode
    BY <1>0, <2>1, <2>2
  <2> QED BY <2>1, <2>3, FavouriteHandler
<1>2. ASSUME NEW i \in FavouriteSlots, NEW enabled \in {"yes", "no"}, FavouriteEnable(i, enabled)
      PROVE  FavouriteInv'
  <2>1. PICK new : new = [pool EXCEPT !.fav[i].enabled = enabled] /\ Handler(new, <<"favourite">>)
    BY <1>2 DEF FavouriteEnable
  <2>2. [pool.fav EXCEPT ![i].enabled = enabled] \in Favourites
    BY <1>0, <1>2 DEF Favourites
  <2>3. new \in Pools /\ new.separate = pool.separate /\ new.mode = pool.mode
    BY <1>0, <2>1, <2>2
  <2> QED BY <2>1, <2>3, FavouriteHandler
<1>3. ASSUME NEW value \in FavouriteSlots \cup Momentary \cup {NoFavourite}, ActiveFavourite(value)
      PROVE  FavouriteInv'
  <2>1. PICK new : new = [pool EXCEPT !.active = value] /\ Handler(new, <<"favourite">>)
    BY <1>3 DEF ActiveFavourite
  <2>2. value \in ActiveValues
    BY <1>3 DEF ActiveValues, Standing
  <2>3. new \in Pools /\ new.fav = pool.fav /\ new.separate = pool.separate /\ new.mode = pool.mode
    BY <1>0, <2>1, <2>2
  <2> QED BY <2>1, <2>3, FavouriteHandler
<1>4. ASSUME NEW value \in {"yes", "no"}, SeparateModes(value) PROVE FavouriteInv'
  <2>1. PICK new, calls : /\ new = [pool EXCEPT !.separate = value]
                          /\ calls = IF pool.separate = value THEN <<>> ELSE <<"modes">>
                          /\ Handler(new, calls)
    BY <1>4 DEF SeparateModes
  <2>2. new \in Pools /\ new.fav = pool.fav /\ new.separate = value /\ new.mode = pool.mode
    BY <1>0, <2>1
  <2> QED BY <2>1, <2>2, FavouriteHandler
<1>5. ASSUME NEW mode \in {"Pool", "Spa", "other"}, ModeFrame(mode) PROVE FavouriteInv'
  <2>1. PICK new : new = [pool EXCEPT !.mode = mode] /\ Handler(new, <<"mode">>)
    BY <1>5 DEF ModeFrame
  <2>2. new \in Pools /\ new.fav = pool.fav /\ new.separate = pool.separate
    BY <1>0, <2>1 DEF Modes
  <2> QED BY <2>1, <2>2, FavouriteHandler
<1>6. ASSUME NEW mode \in {"Pool", "Spa", "other"}, ModeRegister(mode) PROVE FavouriteInv'
  <2>1. CASE mode = "other"
    <3>1. Handler(pool, <<>>)
      BY <1>6, <2>1 DEF ModeRegister
    <3> QED BY <3>1, <1>0, FavouriteHandler
  <2>2. CASE mode # "other"
    BY <1>5, <1>6, <2>2 DEF ModeRegister
  <2> QED BY <2>1, <2>2
<1> QED BY <1>1, <1>2, <1>3, <1>4, <1>5, <1>6 DEF HandleFavourite

(* What was announced is what is shown, whatever is published with it.      *)
LEMMA SelectAnnounced ==
  ASSUME NEW state, NEW values, Publish(FavouriteConfig(state), values),
         SelectTopic \notin DOMAIN values
  PROVE  KeptAs(SelectTopic, [options |-> FavouriteOptions(state)])'
<1>1. PICK config, options : config = FavouriteConfig(state) /\ options = [options |-> FavouriteOptions(state)]
  OBVIOUS
<1>2. DOMAIN config = {SelectTopic} /\ config[SelectTopic] = options
  BY <1>1, SelectMessage
<1> QED BY <1>1, <1>2, PublishKeeps

(* The call that publishes the favourites.                                  *)
LEMMA FavouritePublished == FavouriteInv /\ PublishFavourite => FavouriteInv'
<1> SUFFICES ASSUME FavouriteInv, PublishFavourite PROVE FavouriteInv'
  OBVIOUS
<1>1. PICK report \in BOOLEAN : report <=> pool.active \notin {"unknown", last.active}
  OBVIOUS
<1>2. PICK config, values, active :
        /\ config = If(FavouriteNews, FavouriteConfig(pool))
        /\ values = If(report, Message(StateTopic, [value |-> OptionName(pool.active)]))
        /\ active = IF report THEN pool.active ELSE last.active
  OBVIOUS
<1>3. /\ todo = <<"favourite">> /\ todo' = <<>> /\ UNCHANGED <<pool, job>>
      /\ overtaken' = (overtaken /\ ~ FavouriteNews)
  BY OtherCalls, LastCall DEF PublishFavourite, Send, FavouriteInv, FavouriteTypeOK
<1>4. /\ Publish(config, values)
      /\ last' = [last EXCEPT !.fav = pool.fav, !.active = active]
  BY <1>1, <1>2 DEF PublishFavourite, Send, If
<1>5. /\ last'.fav = pool.fav /\ last'.mode = last.mode /\ last'.snapshot = last.snapshot
      /\ DOMAIN last' = DOMAIN last
  BY <1>4 DEF FavouriteInv, FavouriteTypeOK
<1>6. FavouriteTypeOK'
  <2>1. RetainedTypeOK'
    BY <1>4, EventsAssumption DEF Publish, RetainedTypeOK, Event, FavouriteInv, FavouriteTypeOK
  <2> QED BY <2>1, <1>3, <1>5 DEF FavouriteInv, FavouriteTypeOK
<1>7. /\ DOMAIN values \subseteq {StateTopic}
      /\ FavouriteNews => config = FavouriteConfig(pool)
      /\ ~ FavouriteNews => DOMAIN config = {}
      /\ DOMAIN config \subseteq {SelectTopic}
  BY <1>2, OneMessage, NoMessage, SelectMessage DEF If
<1>8. SelectKept'
  <2> SUFFICES ASSUME ~ overtaken' PROVE KeptAs(SelectTopic, [options |-> FavouriteOptions(pool)])'
    BY DEF SelectKept
  <2>1. PICK options : options = [options |-> FavouriteOptions(pool)]
    OBVIOUS
  <2>2. CASE FavouriteNews
    <3>1. Publish(FavouriteConfig(pool), values) /\ SelectTopic \notin DOMAIN values
      BY <1>4, <1>7, <2>2, OtherTopics
    <3> QED BY <3>1, <1>3, SelectAnnounced
  <2>3. CASE ~ FavouriteNews
    <3>1. KeptAs(SelectTopic, options)
      BY <1>3, <2>1, <2>3, OtherCalls DEF FavouriteInv, SelectKept, SelectDue, FavouriteNews
    <3>2. KeptAs(SelectTopic, options)'
      BY <3>1, <1>4, <1>7, <2>3, OtherTopics, PublishKeeps
    <3> QED BY <3>2, <2>1, <1>3
  <2> QED BY <2>2, <2>3
<1>9. FavouritesSaid'
  BY <1>3, <1>5 DEF FavouritesSaid
<1>10. ModeKept'
  <2>1. ASSUME NEW value, KeptAs(ModeTopic, value) PROVE KeptAs(ModeTopic, value)'
    BY <1>4, <1>7, <2>1, OtherTopics, PublishKeeps
  <2> QED BY <2>1, <1>5 DEF FavouriteInv, ModeKept
<1>11. ModeSaid'
  BY <1>3, <1>5, OtherCalls DEF FavouriteInv, ModeSaid
<1> QED BY <1>6, <1>8, <1>9, <1>10, <1>11 DEF FavouriteInv

(* The call that announces the select anew when the setting changed.        *)
LEMMA ModesPublished == FavouriteInv /\ PublishModeConfig => FavouriteInv'
<1> SUFFICES ASSUME FavouriteInv, PublishModeConfig PROVE FavouriteInv'
  OBVIOUS
<1>1. /\ todo = <<"modes">> /\ todo' = <<>> /\ UNCHANGED <<pool, job, last>>
      /\ Publish(FavouriteConfig(pool), NoMessages)
  BY OtherCalls, LastCall DEF PublishModeConfig, Send, FavouriteInv, FavouriteTypeOK
<1>2. FavouriteTypeOK'
  <2>1. RetainedTypeOK'
    BY <1>1, EventsAssumption DEF Publish, RetainedTypeOK, Event, FavouriteInv, FavouriteTypeOK
  <2> QED BY <2>1, <1>1 DEF FavouriteInv, FavouriteTypeOK
<1>3. SelectKept'
  BY <1>1, NoMessage, SelectAnnounced DEF SelectKept
<1>4. FavouritesSaid'
  BY <1>1, OtherCalls DEF FavouriteInv, FavouritesSaid
<1>5. ModeKept'
  <2>1. ASSUME NEW value, KeptAs(ModeTopic, value) PROVE KeptAs(ModeTopic, value)'
    <3>1. PICK config, none : config = FavouriteConfig(pool) /\ none = NoMessages
      OBVIOUS
    <3>2. DOMAIN config = {SelectTopic} /\ DOMAIN none = {} /\ Publish(config, none)
      BY <3>1, <1>1, SelectMessage, NoMessage
    <3> QED BY <3>2, <2>1, OtherTopics, PublishKeeps
  <2> QED BY <2>1, <1>1 DEF FavouriteInv, ModeKept
<1>6. ModeSaid'
  BY <1>1, OtherCalls DEF FavouriteInv, ModeSaid
<1> QED BY <1>2, <1>3, <1>4, <1>5, <1>6 DEF FavouriteInv

LEMMA ModePublished == FavouriteInv /\ PublishMode => FavouriteInv'
<1> SUFFICES ASSUME FavouriteInv, PublishMode PROVE FavouriteInv'
  OBVIOUS
<1>0. todo' = Tail(todo) /\ UNCHANGED <<pool, job, overtaken>>
  BY DEF PublishMode, Send, Pass
<1>1. /\ todo = <<"mode">> /\ todo' = <<>> /\ UNCHANGED <<pool, job, overtaken>>
  <2>1. todo = <<"mode">>
    BY OtherCalls, LastCall DEF PublishMode, FavouriteInv, FavouriteTypeOK
  <2> QED BY <1>0, <2>1, LastCall
<1>2. CASE last.mode = pool.mode
  <2>1. UNCHANGED <<retainedVars, last>>
    BY <1>2 DEF PublishMode, Pass
  <2>2. FavouriteTypeOK'
    BY <2>1, <1>1 DEF FavouriteInv, FavouriteTypeOK, RetainedTypeOK, retainedVars
  <2>3. SelectKept' /\ ModeKept'
    BY <2>1, <1>1, OtherCalls DEF FavouriteInv, SelectKept, SelectDue, ModeKept, KeptAs, Shown, retainedVars
  <2> QED BY <2>1, <2>2, <2>3, <1>1, <1>2, OtherCalls DEF FavouriteInv, FavouritesSaid, ModeSaid
<1>3. CASE last.mode # pool.mode
  <2>1. PICK message, mode : message = Message(ModeTopic, [value |-> mode]) /\ mode = pool.mode
    OBVIOUS
  <2>2. Publish(NoMessages, message) /\ last' = [last EXCEPT !.mode = mode]
    BY <1>3, <2>1 DEF PublishMode, Send
  <2>3. /\ last'.mode = mode /\ last'.fav = last.fav /\ last'.snapshot = last.snapshot
        /\ DOMAIN last' = DOMAIN last
    BY <2>2 DEF FavouriteInv, FavouriteTypeOK
  <2>4. FavouriteTypeOK'
    <3>1. RetainedTypeOK'
      BY <2>2, EventsAssumption DEF Publish, RetainedTypeOK, Event, FavouriteInv, FavouriteTypeOK
    <3>2. last'.mode \in Modes
      BY <2>1, <2>3 DEF FavouriteInv, FavouriteTypeOK
    <3> QED BY <3>1, <3>2, <2>3, <1>1 DEF FavouriteInv, FavouriteTypeOK
  <2>5. DOMAIN message = {ModeTopic} /\ message[ModeTopic] = [value |-> mode]
    BY <2>1, OneMessage
  <2>6. PICK none : none = NoMessages /\ DOMAIN none = {}
    BY NoMessage
  <2>7. ModeKept'
    <3>1. KeptAs(ModeTopic, [value |-> mode])'
      BY <2>2, <2>5, <2>6, PublishKeeps
    <3> QED BY <3>1, <2>3 DEF ModeKept
  <2>8. SelectKept'
    <3>1. ASSUME NEW value, KeptAs(SelectTopic, value) PROVE KeptAs(SelectTopic, value)'
      BY <2>2, <2>5, <2>6, <3>1, OtherTopics, PublishKeeps
    <3>2. PICK options : options = [options |-> FavouriteOptions(pool)]
      OBVIOUS
    <3>3. ~ overtaken => KeptAs(SelectTopic, options)
      BY <1>1, <3>2, OtherCalls DEF FavouriteInv, SelectKept, SelectDue
    <3> QED BY <3>1, <3>2, <3>3, <1>1 DEF SelectKept
  <2> QED BY <2>1, <2>3, <2>4, <2>7, <2>8, <1>1, OtherCalls DEF FavouriteInv, FavouritesSaid, ModeSaid
<1> QED BY <1>2, <1>3

(* The MQTT task: a snapshot, and the select announced from it.             *)
LEMMA FavouritesConnected == FavouriteInv /\ (Connected \/ Disconnected) => FavouriteInv'
<1> SUFFICES ASSUME FavouriteInv, Connected \/ Disconnected PROVE FavouriteInv'
  OBVIOUS
<1>1. /\ UNCHANGED <<broker, stale, pool, last, todo, overtaken>> /\ RetainedTypeOK'
      /\ job' \in {"idle", "connected", "announcing"} /\ (job' = "announcing" => job = "announcing")
  BY EventsAssumption
  DEF Connected, Disconnected, LinkUp, LinkDown, Event, RetainedTypeOK, FavouriteInv, FavouriteTypeOK
<1>2. FavouriteTypeOK'
  BY <1>1 DEF FavouriteInv, FavouriteTypeOK
<1>3. SelectKept' /\ ModeKept'
  BY <1>1 DEF FavouriteInv, SelectKept, SelectDue, ModeKept, KeptAs, Shown
<1> QED BY <1>1, <1>2, <1>3 DEF FavouriteInv, FavouritesSaid, ModeSaid

LEMMA SnapshotTaken ==
  ASSUME FavouriteInv, NEW snapshot, snapshot # Never, SnapshotIs(snapshot)
  PROVE  FavouriteInv'
<1>2. /\ UNCHANGED <<link, broker, stale, events, pool, todo, overtaken>>
      /\ last' = [last EXCEPT !.snapshot = snapshot] /\ job' = "announcing"
  BY DEF SnapshotIs, retainedVars
<1>3. /\ last'.fav = last.fav /\ last'.mode = last.mode /\ last'.snapshot = snapshot
      /\ DOMAIN last' = DOMAIN last
  BY <1>2 DEF FavouriteInv, FavouriteTypeOK
<1>5. FavouriteTypeOK'
  BY <1>2, <1>3 DEF FavouriteInv, FavouriteTypeOK, RetainedTypeOK
<1>6. SelectKept' /\ ModeKept'
  BY <1>2, <1>3 DEF FavouriteInv, SelectKept, SelectDue, ModeKept, KeptAs, Shown
<1> QED BY <1>2, <1>3, <1>5, <1>6 DEF FavouriteInv, FavouritesSaid, ModeSaid

LEMMA SnapshotFilledOrNot ==
  FavouriteInv /\ (TakeSnapshot \/ SnapshotTimeout) => FavouriteInv'
<1>1. [fav |-> pool.fav, separate |-> pool.separate] # Never /\ Zeroed # Never
  BY DEF Never, Zeroed
<1> QED BY <1>1, SnapshotTaken DEF TakeSnapshot, SnapshotTimeout

LEMMA SnapshotAnnounced == FavouriteInv /\ AnnounceSnapshot => FavouriteInv'
<1> SUFFICES ASSUME FavouriteInv, AnnounceSnapshot PROVE FavouriteInv'
  OBVIOUS
<1>1. PICK snapshot, config, none :
        snapshot = last.snapshot /\ config = FavouriteConfig(snapshot) /\ none = NoMessages
  OBVIOUS
<1>2. /\ Publish(config, none) /\ UNCHANGED <<pool, last, todo>> /\ job' = "idle"
      /\ overtaken' = (FavouriteOptions(snapshot) # FavouriteOptions(pool))
  BY <1>1 DEF AnnounceSnapshot
<1>3. DOMAIN config = {SelectTopic} /\ DOMAIN none = {}
  BY <1>1, SelectMessage, NoMessage
<1>4. FavouriteTypeOK'
  <2>1. RetainedTypeOK'
    BY <1>2, EventsAssumption DEF Publish, RetainedTypeOK, Event, FavouriteInv, FavouriteTypeOK
  <2> QED BY <2>1, <1>2 DEF FavouriteInv, FavouriteTypeOK
<1>5. SelectKept'
  <2>1. KeptAs(SelectTopic, [options |-> FavouriteOptions(snapshot)])'
    BY <1>1, <1>2, <1>3, SelectAnnounced
  <2>2. ~ overtaken' => FavouriteOptions(snapshot) = FavouriteOptions(pool)'
    BY <1>2
  <2> QED BY <2>1, <2>2 DEF SelectKept
<1>6. ModeKept'
  <2>1. ASSUME NEW value, KeptAs(ModeTopic, value) PROVE KeptAs(ModeTopic, value)'
    BY <1>2, <1>3, <2>1, OtherTopics, PublishKeeps
  <2> QED BY <2>1, <1>2 DEF FavouriteInv, ModeKept
<1> QED BY <1>2, <1>4, <1>5, <1>6 DEF FavouriteInv, FavouritesSaid, ModeSaid

LEMMA FavouritesRestarted ==
  FavouriteInv /\ Restarted(FavouritePool, FavouriteCaches) /\ job' = "idle" /\ overtaken' = TRUE
  => FavouriteInv'
<1> SUFFICES ASSUME FavouriteInv, Restarted(FavouritePool, FavouriteCaches),
                    job' = "idle", overtaken' = TRUE
             PROVE  FavouriteInv'
  OBVIOUS
<1>0. /\ pool' = FavouritePool /\ last' = FavouriteCaches /\ todo' = <<>> /\ RetainedTypeOK'
  BY EventsAssumption
  DEF Restarted, RetainedRestart, RetainedTypeOK, Event, FavouriteInv, FavouriteTypeOK
<1>1. FavouritePool.fav \in Favourites
  BY DEF FavouritePool, Zeroed, Favourites
<1>2. FavouriteTypeOK'
  BY <1>0, <1>1 DEF FavouriteTypeOK, FavouritePool, Zeroed, FavouriteCaches, ActiveValues, Modes
<1>3. pool'.mode = "unknown" /\ last'.mode = "unknown" /\ last'.fav = Never
  BY <1>0 DEF FavouritePool, Zeroed, FavouriteCaches
<1> QED BY <1>0, <1>2, <1>3 DEF FavouriteInv, SelectKept, FavouritesSaid, ModeKept, ModeSaid

LEMMA FavouritesStep == FavouriteInv /\ FavouriteNext => FavouriteInv'
BY FavouritesHandled, FavouritePublished, ModesPublished, ModePublished, FavouritesConnected,
   SnapshotFilledOrNot, SnapshotAnnounced, FavouritesRestarted
DEF FavouriteNext

-----------------------------------------------------------------------------
(* Readings: the types.                                                     *)

Values == Readings \cup Settings
Chlors == [Values -> Levels \cup {"none"}]
Temps == {"zero", NotConnected} \cup Warm
Entries == [shape : {"unknown", "single", "double"}, temp : [Sensors -> Temps],
            unclamped : [Sensors -> {NotConnected, "zero"}]]
Tables == UNION {[D -> Entries] : D \in SUBSET Devices}
Services == {"unknown", "on", "off"}
ReadingPools ==
  [chlor : Chlors, age : [Readings -> 0 .. StaleAge], seen : Tables, service : Services,
   ticked : BOOLEAN]
ReadingMemories ==
  [chlor : Chlors, chlorEntities : SUBSET Values, sensors : SUBSET (Devices \X Sensors),
   nulls : SUBSET (Devices \X Sensors), service : Services]

(* Sensor i of a device has been reported.                                  *)
Reads(entry, i) == entry.shape # "unknown" /\ (i = 1 \/ entry.shape = "double")
Calls(seen) ==
  {<<"chlor">>, <<"expire">>, <<"service">>}
  \cup {call \in (DOMAIN seen) \X Sensors : Reads(seen[call[1]], call[2])}

Room(seen) == IsFiniteSet(DOMAIN seen) /\ Cardinality(DOMAIN seen) <= MaxSeen

ReadingTypes ==
  /\ RetainedTypeOK
  /\ pool \in ReadingPools /\ last \in ReadingMemories
  /\ Room(pool.seen) /\ todo \in Seq(Calls(pool.seen))

(* The chlorinator: what was last sent is with the broker, or was dropped;  *)
(* what is not to be sent was; what is old is cleared unless a frame is     *)
(* still to come; and a value announced is valid, or has grown old.         *)
ChlorInv ==
  /\ last.chlorEntities # {} => KeptAs(ChlorTopic, Shows(last.chlor))
  /\ ~ Called(<<"chlor">>) => last.chlor = pool.chlor
  /\ ~ pool.ticked /\ ~ Called(<<"expire">>) =>
       \A f \in Readings : pool.age[f] = StaleAge => pool.chlor[f] = "none"
  /\ \A f \in Readings \cap last.chlorEntities :
       pool.chlor[f] # "none" \/ pool.age[f] = StaleAge

(* A sensor reported is with the broker as it is, or to be published; one   *)
(* said to be unknown is unknown; and one that was ever connected has its   *)
(* entity.                                                                  *)
TempKept(d, i) ==
  Reads(pool.seen[d], i) /\ ~ Called(<<d, i>>) =>
    KeptAs(TempTopic(d, i), [value |-> TempValue(d, i)])
NullKept(d, i) ==
  <<d, i>> \in last.nulls =>
    d \in DOMAIN pool.seen /\ Reads(pool.seen[d], i) /\ KeptAs(TempTopic(d, i), [value |-> Null])
SensorShown(d, i) ==
  <<d, i>> \in last.sensors =>
    d \in DOMAIN pool.seen /\ Reads(pool.seen[d], i) /\ Shown(<<"entity", TempTopic(d, i)>>)
TempInv ==
  /\ \A d \in DOMAIN pool.seen, i \in Sensors : TempKept(d, i)
  /\ \A d \in Devices, i \in Sensors : NullKept(d, i) /\ SensorShown(d, i)

ServiceEntity == <<"service", "entity">>
ServiceInv ==
  /\ last.service # "unknown" => /\ KeptAs(ServiceTopic, [value |-> last.service])
                                 /\ KeptAs(ServiceEntity, [name |-> "service"])
  /\ ~ Called(<<"service">>) => last.service = pool.service

ReadingInv == ReadingTypes /\ ChlorInv /\ TempInv /\ ServiceInv

LEMMA TableOf ==
  ASSUME NEW t
  PROVE  t \in Tables <=> DOMAIN t \subseteq Devices /\ t \in [DOMAIN t -> Entries]
<1>1. ASSUME t \in Tables PROVE DOMAIN t \subseteq Devices /\ t \in [DOMAIN t -> Entries]
  <2>1. PICK D \in SUBSET Devices : t \in [D -> Entries]
    BY <1>1 DEF Tables
  <2>2. DOMAIN t = D
    BY <2>1
  <2> QED BY <2>1, <2>2
<1>2. ASSUME DOMAIN t \subseteq Devices, t \in [DOMAIN t -> Entries] PROVE t \in Tables
  BY <1>2 DEF Tables
<1> QED BY <1>1, <1>2

LEMMA ReadingTopicsDiffer ==
  ASSUME NEW f \in Values, NEW d, NEW i, NEW s
  PROVE  /\ ChlorTopic # <<f, "entity">> /\ ChlorTopic # ServiceTopic /\ ChlorTopic # ServiceEntity
         /\ ServiceTopic # <<f, "entity">> /\ ServiceEntity # <<f, "entity">>
         /\ ServiceTopic # ServiceEntity
         /\ <<"entity", <<d, i, s>>>> # <<f, "entity">>
         /\ <<"entity", <<d, i, s>>>> # ChlorTopic
         /\ <<"entity", <<d, i, s>>>> # ServiceTopic
         /\ <<"entity", <<d, i, s>>>> # ServiceEntity
BY DEF Values, Readings, Settings, ChlorTopic, ServiceTopic, ServiceEntity

LEMMA PairIsNoTriple ==
  ASSUME NEW a, NEW b, NEW d, NEW i, NEW s PROVE <<a, b>> # <<d, i, s>>
<1>1. Len(<<a, b>>) = 2 /\ Len(<<d, i, s>>) = 3
  OBVIOUS
<1> QED BY <1>1

LEMMA SingleIsNoPair ==
  ASSUME NEW a, NEW d, NEW i
  PROVE  <<a>> # <<d, i>> /\ Len(<<a>>) = 1 /\ Len(<<d, i>>) = 2
<1>1. Len(<<a>>) = 1 /\ Len(<<d, i>>) = 2
  OBVIOUS
<1> QED BY <1>1

(* What a publication leaves shown.                                         *)
LEMMA StillShown ==
  ASSUME NEW first, NEW second, Publish(first, second), NEW topic,
         topic \notin DOMAIN first \cup DOMAIN second, Shown(topic)
  PROVE  Shown(topic)'
<1>1. CASE broker' = Over(second, Over(first, broker))
  BY <1>1 DEF Shown, Over
<1>2. CASE broker' = Over(first, broker)
  BY <1>2 DEF Shown, Over
<1>3. CASE UNCHANGED broker
  BY <1>3 DEF Shown
<1> QED BY <1>1, <1>2, <1>3 DEF Publish

(* With a connection the first of two groups arrives.                       *)
LEMMA FirstArrives ==
  ASSUME NEW first, NEW second, Publish(first, second), link = "up",
         DOMAIN first \cap DOMAIN second = {}, NEW topic \in DOMAIN first, first[topic] # Removed
  PROVE  Shown(topic)'
<1>1. CASE broker' = Over(second, Over(first, broker))
  BY <1>1 DEF Shown, Over
<1>2. CASE broker' = Over(first, broker)
  BY <1>2 DEF Shown, Over
<1> QED BY <1>1, <1>2 DEF Publish

-----------------------------------------------------------------------------
(* Readings: what a step leaves alone.                                      *)

LEMMA ChlorStays ==
  ASSUME ReadingInv, pool'.chlor = pool.chlor, pool'.age = pool.age, pool'.ticked = pool.ticked,
         last'.chlor = last.chlor, last'.chlorEntities = last.chlorEntities,
         \A value : KeptAs(ChlorTopic, value) => KeptAs(ChlorTopic, value)',
         Called(<<"chlor">>) => Called(<<"chlor">>)',
         Called(<<"expire">>) => Called(<<"expire">>)'
  PROVE  ChlorInv'
<1>1. PICK shows : shows = Shows(last.chlor)
  OBVIOUS
<1>2. shows = Shows(last.chlor)'
  BY <1>1 DEF Shows
<1>3. last.chlorEntities # {} => KeptAs(ChlorTopic, shows)'
  BY <1>1 DEF ReadingInv, ChlorInv
<1>4. (last.chlorEntities # {} => KeptAs(ChlorTopic, Shows(last.chlor)))'
  BY <1>2, <1>3
<1> QED BY <1>4 DEF ReadingInv, ChlorInv

LEMMA TempsStay ==
  ASSUME ReadingInv, pool'.seen = pool.seen, last'.sensors = last.sensors, last'.nulls = last.nulls,
         \A d, i, s, value : KeptAs(<<d, i, s>>, value) => KeptAs(<<d, i, s>>, value)',
         \A d, i, s : Shown(<<"entity", <<d, i, s>>>>) => Shown(<<"entity", <<d, i, s>>>>)',
         \A d, i : Called(<<d, i>>) => Called(<<d, i>>)'
  PROVE  TempInv'
<1>1. ASSUME NEW d, NEW i
      PROVE  /\ TempKept(d, i) => TempKept(d, i)'
             /\ NullKept(d, i) => NullKept(d, i)'
             /\ SensorShown(d, i) => SensorShown(d, i)'
  <2>1. PICK s, v : s = pool.seen[d].shape /\ v = TempValue(d, i)
    OBVIOUS
  <2>2. /\ TempTopic(d, i) = <<d, i, s>> /\ TempTopic(d, i)' = <<d, i, s>>
        /\ TempValue(d, i) = v /\ TempValue(d, i)' = v
    BY <2>1 DEF TempTopic, TempValue
  <2>3. /\ KeptAs(<<d, i, s>>, [value |-> v]) => KeptAs(<<d, i, s>>, [value |-> v])'
        /\ KeptAs(<<d, i, s>>, [value |-> Null]) => KeptAs(<<d, i, s>>, [value |-> Null])'
        /\ Shown(<<"entity", <<d, i, s>>>>) => Shown(<<"entity", <<d, i, s>>>>)'
        /\ Called(<<d, i>>) => Called(<<d, i>>)'
    OBVIOUS
  <2>4. TempKept(d, i) => TempKept(d, i)'
    BY <2>2, <2>3 DEF TempKept
  <2>5. NullKept(d, i) => NullKept(d, i)'
    BY <2>2, <2>3 DEF NullKept
  <2>6. SensorShown(d, i) => SensorShown(d, i)'
    BY <2>2, <2>3 DEF SensorShown
  <2> QED BY <2>4, <2>5, <2>6
<1> QED BY <1>1 DEF ReadingInv, TempInv

LEMMA ServiceStays ==
  ASSUME ReadingInv, pool'.service = pool.service, last'.service = last.service,
         \A value : KeptAs(ServiceTopic, value) => KeptAs(ServiceTopic, value)',
         \A value : KeptAs(ServiceEntity, value) => KeptAs(ServiceEntity, value)',
         Called(<<"service">>) => Called(<<"service">>)'
  PROVE  ServiceInv'
<1>1. PICK value : value = [value |-> last.service]
  OBVIOUS
<1>2. /\ KeptAs(ServiceTopic, value) => KeptAs(ServiceTopic, value)'
      /\ KeptAs(ServiceEntity, [name |-> "service"]) => KeptAs(ServiceEntity, [name |-> "service"])'
  OBVIOUS
<1>3. (KeptAs(ServiceTopic, [value |-> last.service]))' <=> KeptAs(ServiceTopic, value)'
  BY <1>1
<1> QED BY <1>1, <1>2, <1>3 DEF ReadingInv, ServiceInv

LEMMA PublishTypes ==
  ASSUME RetainedTypeOK, NEW first, NEW second, Publish(first, second) PROVE RetainedTypeOK'
BY EventsAssumption DEF Publish, RetainedTypeOK, Event

LEMMA ReadingTypesStay ==
  ASSUME ReadingTypes, RetainedTypeOK', pool' \in ReadingPools, last' \in ReadingMemories,
         pool'.seen = pool.seen, todo' \in Seq(Calls(pool.seen))
  PROVE  ReadingTypes'
<1>1. Calls(pool.seen)' = Calls(pool.seen)
  BY DEF Calls, Reads
<1> QED BY <1>1 DEF ReadingTypes, Room

(* A call made leaves the others.                                           *)
LEMMA ReadingCall ==
  ASSUME ReadingInv, todo # <<>>, todo' = Tail(todo)
  PROVE  /\ Head(todo) \in Calls(pool.seen) /\ todo' \in Seq(Calls(pool.seen))
         /\ \A x : Called(x) => x = Head(todo) \/ Called(x)'
BY NextCall DEF ReadingInv, ReadingTypes

(* Nothing is sent, and the chlorinator, devices and service mode stay.     *)
LEMMA NothingSent ==
  ASSUME ReadingInv, RetainedTypeOK', UNCHANGED <<broker, stale, last>>,
         pool' \in ReadingPools, pool'.seen = pool.seen, pool'.service = pool.service,
         todo' \in Seq(Calls(pool.seen)),
         \A x : Called(x) => x = <<"chlor">> \/ x = <<"expire">> \/ Called(x)'
  PROVE  /\ ReadingTypes' /\ TempInv' /\ ServiceInv'
         /\ (last.chlorEntities # {} => KeptAs(ChlorTopic, Shows(last.chlor)))'
<1>1. ReadingTypes'
  BY ReadingTypesStay DEF ReadingInv, ReadingTypes
<1>2. TempInv'
  <2>1. \A d, i : Called(<<d, i>>) => Called(<<d, i>>)'
    BY SingleIsNoPair
  <2>2. \A d, i, s, value : KeptAs(<<d, i, s>>, value) => KeptAs(<<d, i, s>>, value)'
    BY Undisturbed
  <2>3. \A d, i, s : Shown(<<"entity", <<d, i, s>>>>) => Shown(<<"entity", <<d, i, s>>>>)'
    BY DEF Shown
  <2> QED BY <2>1, <2>2, <2>3, TempsStay
<1>3. ServiceInv'
  <2>1. /\ \A value : KeptAs(ServiceTopic, value) => KeptAs(ServiceTopic, value)'
        /\ \A value : KeptAs(ServiceEntity, value) => KeptAs(ServiceEntity, value)'
    BY DEF KeptAs, Shown, ServiceTopic, ServiceEntity
  <2>2. Called(<<"service">>) => Called(<<"service">>)'
    OBVIOUS
  <2> QED BY <2>1, <2>2, ServiceStays
<1>4. (last.chlorEntities # {} => KeptAs(ChlorTopic, Shows(last.chlor)))'
  <2>1. PICK shows : shows = Shows(last.chlor)
    OBVIOUS
  <2>2. shows = Shows(last.chlor)'
    BY <2>1 DEF Shows
  <2>3. last.chlorEntities # {} => KeptAs(ChlorTopic, shows)'
    BY <2>1, Undisturbed DEF ReadingInv, ChlorInv
  <2> QED BY <2>2, <2>3
<1> QED BY <1>1, <1>2, <1>3, <1>4

-----------------------------------------------------------------------------
(* Readings: the chlorinator is published.                                  *)

LEMMA ShowsNotRemoved == ASSUME NEW chlor PROVE Shows(chlor) # Removed
<1>1. "ph" \in DOMAIN Shows(chlor) /\ "ph" \notin DOMAIN Removed
  BY DEF Shows, Readings, Removed
<1> QED BY <1>1

LEMMA ChlorSent ==
  ASSUME ReadingInv, NEW chlor \in Chlors, SendChlor(chlor),
         pool' \in ReadingPools, pool'.chlor = chlor, pool'.seen = pool.seen,
         pool'.service = pool.service, todo' \in Seq(Calls(pool.seen)),
         \A x : Called(x) => x = <<"chlor">> \/ x = <<"expire">> \/ Called(x)',
         \A f \in Readings :
           ~ pool'.ticked /\ ~ Called(<<"expire">>)' /\ pool'.age[f] = StaleAge => chlor[f] = "none",
         \A f \in Readings \cap last.chlorEntities : chlor[f] # "none" \/ pool'.age[f] = StaleAge
  PROVE  ReadingInv'
<1>1. CASE last.chlor = chlor
  <2>1. UNCHANGED <<link, broker, stale, events, last>>
    BY <1>1 DEF SendChlor, retainedVars
  <2>2. RetainedTypeOK'
    BY <2>1 DEF ReadingInv, ReadingTypes, RetainedTypeOK
  <2>3. /\ ReadingTypes' /\ TempInv' /\ ServiceInv'
        /\ (last.chlorEntities # {} => KeptAs(ChlorTopic, Shows(last.chlor)))'
    BY <2>1, <2>2, NothingSent
  <2>4. ChlorInv'
    BY <2>1, <2>3, <1>1 DEF ChlorInv
  <2> QED BY <2>3, <2>4 DEF ReadingInv
<1>2. CASE last.chlor # chlor
  <2>1. PICK config, values : config = ChlorConfig(chlor) /\ values = Message(ChlorTopic, Shows(chlor))
    OBVIOUS
  <2>2. /\ Publish(config, values)
        /\ last' = [last EXCEPT !.chlor = chlor, !.chlorEntities = @ \cup NewValues(chlor)]
    BY <1>2, <2>1 DEF SendChlor
  <2>3. /\ DOMAIN config = NewValues(chlor) \X {"entity"}
        /\ DOMAIN values = {ChlorTopic} /\ values[ChlorTopic] = Shows(chlor)
        /\ NewValues(chlor) \subseteq Values
    BY <2>1, OneMessage DEF ChlorConfig, NewValues, Values
  <2>4. /\ last' \in ReadingMemories /\ last'.chlor = chlor
        /\ last'.chlorEntities = last.chlorEntities \cup NewValues(chlor)
        /\ last'.sensors = last.sensors /\ last'.nulls = last.nulls
        /\ last'.service = last.service
    BY <2>2, <2>3 DEF ReadingInv, ReadingTypes, ReadingMemories
  <2>5. /\ ChlorTopic \notin DOMAIN config
        /\ ServiceTopic \notin DOMAIN config \cup DOMAIN values
        /\ ServiceEntity \notin DOMAIN config \cup DOMAIN values
        /\ \A d, i, s : <<"entity", <<d, i, s>>>> \notin DOMAIN config \cup DOMAIN values
    <3>1. \A topic \in DOMAIN config : \E f \in Values : topic = <<f, "entity">>
      BY <2>3
    <3>2. "ph" \in Values
      BY DEF Values, Readings
    <3>3. ChlorTopic \notin DOMAIN config
      BY <3>1, ReadingTopicsDiffer
    <3>4. ServiceTopic \notin DOMAIN config \cup DOMAIN values
      BY <2>3, <3>1, <3>2, ReadingTopicsDiffer
    <3>5. ServiceEntity \notin DOMAIN config \cup DOMAIN values
      BY <2>3, <3>1, <3>2, ReadingTopicsDiffer
    <3>6. ASSUME NEW d, NEW i, NEW s
          PROVE  <<"entity", <<d, i, s>>>> \notin DOMAIN config \cup DOMAIN values
      BY <2>3, <3>1, <3>2, ReadingTopicsDiffer
    <3> QED BY <3>3, <3>4, <3>5, <3>6
  <2>6. \A d, i, s : <<d, i, s>> \notin DOMAIN config \cup DOMAIN values
    BY <2>3, PairIsNoTriple DEF ChlorTopic
  <2>7. DOMAIN config \cap DOMAIN values = {}
    BY <2>3, <2>5
  <2>8. ReadingTypes'
    <3>1. RetainedTypeOK'
      BY <2>2, PublishTypes DEF ReadingInv, ReadingTypes
    <3> QED BY <2>4, <3>1, ReadingTypesStay DEF ReadingInv
  <2>9. ChlorInv'
    <3>1. PICK shows : shows = Shows(chlor)
      OBVIOUS
    <3>2. KeptAs(ChlorTopic, shows)'
      BY <3>1, <2>2, <2>3, <2>7, PublishKeeps
    <3>3. shows = Shows(last.chlor)'
      BY <3>1, <2>4 DEF Shows
    <3>4. KeptAs(ChlorTopic, Shows(last.chlor))'
      BY <3>2, <3>3
    <3>5. \A f \in Readings \cap last'.chlorEntities : chlor[f] # "none" \/ pool'.age[f] = StaleAge
      BY <2>4 DEF NewValues
    <3> QED BY <3>4, <3>5, <2>4 DEF ChlorInv
  <2>10. TempInv'
    <3>1. \A d, i : Called(<<d, i>>) => Called(<<d, i>>)'
      BY SingleIsNoPair
    <3>2. \A d, i, s, value : KeptAs(<<d, i, s>>, value) => KeptAs(<<d, i, s>>, value)'
      BY <2>2, <2>6, <2>7, PublishKeeps
    <3>3. \A d, i, s : Shown(<<"entity", <<d, i, s>>>>) => Shown(<<"entity", <<d, i, s>>>>)'
      BY <2>2, <2>5, StillShown
    <3> QED BY <2>4, <3>1, <3>2, <3>3, TempsStay
  <2>11. ServiceInv'
    <3>1. /\ \A value : KeptAs(ServiceTopic, value) => KeptAs(ServiceTopic, value)'
          /\ \A value : KeptAs(ServiceEntity, value) => KeptAs(ServiceEntity, value)'
      BY <2>2, <2>5, <2>7, PublishKeeps
    <3>2. Called(<<"service">>) => Called(<<"service">>)'
      OBVIOUS
    <3> QED BY <2>4, <3>1, <3>2, ServiceStays
  <2> QED BY <2>8, <2>9, <2>10, <2>11 DEF ReadingInv
<1> QED BY <1>1, <1>2

LEMMA ChlorPublished == ReadingInv /\ PublishChlor => ReadingInv'
<1> SUFFICES ASSUME ReadingInv, PublishChlor PROVE ReadingInv'
  OBVIOUS
<1>1. /\ todo' \in Seq(Calls(pool.seen)) /\ \A x : Called(x) => x = <<"chlor">> \/ Called(x)'
      /\ pool' = pool /\ pool \in ReadingPools /\ pool.chlor \in Chlors /\ SendChlor(pool.chlor)
  BY ReadingCall DEF PublishChlor, ReadingInv, ReadingTypes, ReadingPools
<1>2. <<"chlor">> # <<"expire">>
  OBVIOUS
<1>3. Called(<<"expire">>) => Called(<<"expire">>)'
  BY <1>1, <1>2
<1>4. PICK chlor : chlor = pool.chlor
  OBVIOUS
<1>5. /\ \A f \in Readings :
           ~ pool'.ticked /\ ~ Called(<<"expire">>)' /\ pool'.age[f] = StaleAge => chlor[f] = "none"
      /\ \A f \in Readings \cap last.chlorEntities : chlor[f] # "none" \/ pool'.age[f] = StaleAge
  BY <1>1, <1>3, <1>4 DEF ReadingInv, ChlorInv
<1> QED BY <1>1, <1>4, <1>5, ChlorSent

(* What is too old is cleared, all else stays.                              *)
LEMMA ReadingsExpired == ReadingInv /\ Expire => ReadingInv'
<1> SUFFICES ASSUME ReadingInv, Expire PROVE ReadingInv'
  OBVIOUS
<1>1. /\ todo' \in Seq(Calls(pool.seen)) /\ \A x : Called(x) => x = <<"expire">> \/ Called(x)'
      /\ pool \in ReadingPools /\ pool.chlor \in Chlors
  BY ReadingCall DEF Expire, ReadingInv, ReadingTypes, ReadingPools
<1>2. PICK chlor : chlor = Unexpired
  OBVIOUS
<1>3. /\ chlor \in Chlors
      /\ \A f \in Readings : pool.age[f] = StaleAge => chlor[f] = "none"
      /\ \A f \in Readings : pool.age[f] # StaleAge => chlor[f] = pool.chlor[f]
  BY <1>1, <1>2 DEF Unexpired, Expired, Chlors, Values
<1>4. CASE chlor # pool.chlor
  <2>1. pool' = [pool EXCEPT !.chlor = chlor] /\ SendChlor(chlor)
    BY <1>2, <1>4 DEF Expire
  <2>2. /\ pool' \in ReadingPools /\ pool'.chlor = chlor /\ pool'.seen = pool.seen
        /\ pool'.service = pool.service /\ pool'.age = pool.age /\ pool'.ticked = pool.ticked
    BY <2>1, <1>1, <1>3 DEF ReadingPools
  <2>3. \A f \in Readings \cap last.chlorEntities : chlor[f] # "none" \/ pool'.age[f] = StaleAge
    BY <1>3, <2>2 DEF ReadingInv, ChlorInv
  <2> QED BY <1>1, <1>3, <2>1, <2>2, <2>3, ChlorSent
<1>5. CASE chlor = pool.chlor
  <2>1. UNCHANGED <<link, broker, stale, events, pool, last>>
    BY <1>2, <1>5 DEF Expire, retainedVars
  <2>2. RetainedTypeOK'
    BY <2>1 DEF ReadingInv, ReadingTypes, RetainedTypeOK
  <2>3. /\ ReadingTypes' /\ TempInv' /\ ServiceInv'
        /\ (last.chlorEntities # {} => KeptAs(ChlorTopic, Shows(last.chlor)))'
    BY <1>1, <2>1, <2>2, NothingSent
  <2>4. Called(<<"chlor">>) => Called(<<"chlor">>)'
    <3>1. <<"chlor">> # <<"expire">>
      OBVIOUS
    <3> QED BY <3>1, <1>1
  <2>5. ChlorInv'
    BY <2>1, <2>3, <2>4, <1>3, <1>5 DEF ReadingInv, ChlorInv
  <2> QED BY <2>3, <2>5 DEF ReadingInv
<1> QED BY <1>4, <1>5

-----------------------------------------------------------------------------
(* Readings: a temperature is published.                                    *)

LEMMA OtherTempsStay ==
  ASSUME ReadingInv, NEW d, NEW i, UNCHANGED pool,
         TempKept(d, i)', NullKept(d, i)', SensorShown(d, i)',
         \A e, j : <<e, j>> # <<d, i>> =>
           /\ <<e, j>> \in last'.nulls => <<e, j>> \in last.nulls
           /\ <<e, j>> \in last'.sensors => <<e, j>> \in last.sensors
           /\ Called(<<e, j>>) => Called(<<e, j>>)'
           /\ \A s, value : KeptAs(<<e, j, s>>, value) => KeptAs(<<e, j, s>>, value)'
           /\ \A s : Shown(<<"entity", <<e, j, s>>>>) => Shown(<<"entity", <<e, j, s>>>>)'
  PROVE  TempInv'
<1>1. ASSUME NEW e, NEW j, <<e, j>> # <<d, i>>
      PROVE  /\ TempKept(e, j) => TempKept(e, j)'
             /\ NullKept(e, j) => NullKept(e, j)'
             /\ SensorShown(e, j) => SensorShown(e, j)'
  <2>1. PICK s, v : s = pool.seen[e].shape /\ v = TempValue(e, j)
    OBVIOUS
  <2>2. /\ TempTopic(e, j) = <<e, j, s>> /\ TempTopic(e, j)' = <<e, j, s>>
        /\ TempValue(e, j) = v /\ TempValue(e, j)' = v
    BY <2>1 DEF TempTopic, TempValue
  <2>3. /\ KeptAs(<<e, j, s>>, [value |-> v]) => KeptAs(<<e, j, s>>, [value |-> v])'
        /\ KeptAs(<<e, j, s>>, [value |-> Null]) => KeptAs(<<e, j, s>>, [value |-> Null])'
        /\ Shown(<<"entity", <<e, j, s>>>>) => Shown(<<"entity", <<e, j, s>>>>)'
        /\ Called(<<e, j>>) => Called(<<e, j>>)'
        /\ <<e, j>> \in last'.nulls => <<e, j>> \in last.nulls
        /\ <<e, j>> \in last'.sensors => <<e, j>> \in last.sensors
    BY <1>1
  <2>4. TempKept(e, j) => TempKept(e, j)'
    BY <2>2, <2>3 DEF TempKept
  <2>5. NullKept(e, j) => NullKept(e, j)'
    BY <2>2, <2>3 DEF NullKept
  <2>6. SensorShown(e, j) => SensorShown(e, j)'
    BY <2>2, <2>3 DEF SensorShown
  <2> QED BY <2>4, <2>5, <2>6
<1>2. ASSUME NEW e, NEW j, <<e, j>> = <<d, i>>
      PROVE  TempKept(e, j)' /\ NullKept(e, j)' /\ SensorShown(e, j)'
  <2>1. e = d /\ j = i
    BY <1>2
  <2> QED BY <2>1
<1> QED BY <1>1, <1>2 DEF ReadingInv, TempInv

(* What all three ways to deal with a temperature leave alone.              *)
LEMMA ElseStays ==
  ASSUME ReadingInv, NEW d \in DOMAIN pool.seen, NEW i \in Sensors, NEW t, UNCHANGED pool,
         t = TempTopic(d, i), RetainedTypeOK', last' \in ReadingMemories,
         last'.chlor = last.chlor, last'.chlorEntities = last.chlorEntities,
         last'.service = last.service,
         todo' \in Seq(Calls(pool.seen)),
         \A x : Called(x) => x = <<d, i>> \/ Called(x)',
         \A topic, value : topic \notin {t, <<"entity", t>>} =>
           (KeptAs(topic, value) => KeptAs(topic, value)')
  PROVE  ReadingTypes' /\ ChlorInv' /\ ServiceInv'
<1>1. ReadingTypes'
  BY ReadingTypesStay DEF ReadingInv, ReadingTypes
<1>2. \A a, b : <<a, b>> # t
  BY PairIsNoTriple DEF TempTopic
<1>3. \A a, b : a # "entity" => <<a, b>> \notin {t, <<"entity", t>>}
  BY <1>2
<1>4. /\ ChlorTopic \notin {t, <<"entity", t>>} /\ ServiceTopic \notin {t, <<"entity", t>>}
      /\ ServiceEntity \notin {t, <<"entity", t>>}
  BY <1>3 DEF ChlorTopic, ServiceTopic, ServiceEntity
<1>5. \A a : Called(<<a>>) => Called(<<a>>)'
  BY SingleIsNoPair
<1>6. ChlorInv'
  <2>1. \A value : KeptAs(ChlorTopic, value) => KeptAs(ChlorTopic, value)'
    BY <1>4
  <2> QED BY <1>5, <2>1, ChlorStays
<1>7. ServiceInv'
  <2>1. /\ \A value : KeptAs(ServiceTopic, value) => KeptAs(ServiceTopic, value)'
        /\ \A value : KeptAs(ServiceEntity, value) => KeptAs(ServiceEntity, value)'
    BY <1>4
  <2> QED BY <1>5, <2>1, ServiceStays
<1> QED BY <1>1, <1>6, <1>7

(* Without a connection nothing is sent, nor remembered.                    *)
LEMMA TempDropped ==
  ASSUME ReadingInv, NEW d \in DOMAIN pool.seen, NEW i \in Sensors, NEW t,
         Reads(pool.seen[d], i), t = TempTopic(d, i),
         stale' = stale \cup {t}, UNCHANGED <<link, broker, events, pool, last>>,
         todo' \in Seq(Calls(pool.seen)), \A x : Called(x) => x = <<d, i>> \/ Called(x)'
  PROVE  ReadingInv'
<1>1. RetainedTypeOK' /\ last' \in ReadingMemories
  BY DEF ReadingInv, ReadingTypes, RetainedTypeOK
<1>2. ASSUME NEW topic, NEW value PROVE KeptAs(topic, value) => KeptAs(topic, value)'
  BY DEF KeptAs, Shown
<1>3. ASSUME NEW topic PROVE Shown(topic) => Shown(topic)'
  BY DEF Shown
<1>4. ReadingTypes' /\ ChlorInv' /\ ServiceInv'
  BY <1>1, <1>2, ElseStays
<1>5. t = TempTopic(d, i)'
  BY DEF TempTopic
<1>6. \A value : KeptAs(t, value)'
  BY DEF KeptAs
<1>7. TempKept(d, i)'
  <2>1. PICK v : v = [value |-> TempValue(d, i)]'
    OBVIOUS
  <2>2. KeptAs(t, v)'
    BY <1>6
  <2> QED BY <1>5, <2>1, <2>2 DEF TempKept
<1>8. NullKept(d, i)'
  BY <1>5, <1>6 DEF NullKept
<1>9. SensorShown(d, i)'
  <2>1. SensorShown(d, i)
    BY TableOf DEF ReadingInv, TempInv, ReadingTypes, ReadingPools
  <2>2. Shown(<<"entity", t>>) => Shown(<<"entity", t>>)'
    BY <1>3
  <2> QED BY <1>5, <2>1, <2>2 DEF SensorShown
<1>10. TempInv'
  BY <1>2, <1>3, <1>7, <1>8, <1>9, OtherTempsStay
<1> QED BY <1>4, <1>10 DEF ReadingInv

(* "Unknown" was said before, and nothing else since.                       *)
LEMMA TempPassed ==
  ASSUME ReadingInv, NEW d \in DOMAIN pool.seen, NEW i \in Sensors, NEW t,
         Reads(pool.seen[d], i), t = TempTopic(d, i),
         TempValue(d, i) = Null, <<d, i>> \in last.nulls,
         UNCHANGED <<link, broker, stale, events, pool, last>>,
         todo' \in Seq(Calls(pool.seen)), \A x : Called(x) => x = <<d, i>> \/ Called(x)'
  PROVE  ReadingInv'
<1>1. RetainedTypeOK' /\ last' \in ReadingMemories
  BY DEF ReadingInv, ReadingTypes, RetainedTypeOK
<1>2. ASSUME NEW topic, NEW value PROVE KeptAs(topic, value) => KeptAs(topic, value)'
  BY DEF KeptAs, Shown
<1>3. ASSUME NEW topic PROVE Shown(topic) => Shown(topic)'
  BY DEF Shown
<1>4. ReadingTypes' /\ ChlorInv' /\ ServiceInv'
  BY <1>1, <1>2, ElseStays
<1>5. t = TempTopic(d, i)' /\ TempValue(d, i)' = Null
  BY DEF TempTopic, TempValue
<1>6. NullKept(d, i) /\ SensorShown(d, i)
  BY TableOf DEF ReadingInv, TempInv, ReadingTypes, ReadingPools
<1>7. KeptAs(t, [value |-> Null])'
  BY <1>2, <1>6 DEF NullKept
<1>8. TempKept(d, i)' /\ NullKept(d, i)'
  BY <1>5, <1>7 DEF TempKept, NullKept
<1>9. SensorShown(d, i)'
  <2>1. Shown(<<"entity", t>>) => Shown(<<"entity", t>>)'
    BY <1>3
  <2> QED BY <1>5, <1>6, <2>1 DEF SensorShown
<1>10. TempInv'
  BY <1>2, <1>3, <1>8, <1>9, OtherTempsStay
<1> QED BY <1>4, <1>10 DEF ReadingInv

LEMMA TempSent ==
  ASSUME ReadingInv, NEW d \in DOMAIN pool.seen, NEW i \in Sensors, NEW t, NEW v,
         Reads(pool.seen[d], i), t = TempTopic(d, i), v = TempValue(d, i), link = "up",
         NEW config, NEW values,
         config = If(v # Null /\ <<d, i>> \notin last.sensors,
                     Message(<<"entity", t>>, [name |-> <<d, i>>])),
         values = Message(t, [value |-> v]), Publish(config, values), UNCHANGED pool,
         last' = [last EXCEPT !.sensors = IF v = Null THEN @ ELSE @ \cup {<<d, i>>},
                              !.nulls = NullsAfter(<<d, i>>, v)],
         todo' \in Seq(Calls(pool.seen)), \A x : Called(x) => x = <<d, i>> \/ Called(x)'
  PROVE  ReadingInv'
<1>1. RetainedTypeOK'
  BY PublishTypes DEF ReadingInv, ReadingTypes
<1>2. <<d, i>> \in Devices \X Sensors
  BY TableOf DEF ReadingInv, ReadingTypes, ReadingPools
<1>3. /\ last' \in ReadingMemories
      /\ last'.chlor = last.chlor /\ last'.chlorEntities = last.chlorEntities
      /\ last'.service = last.service
      /\ last'.sensors = IF v = Null THEN last.sensors ELSE last.sensors \cup {<<d, i>>}
      /\ last'.nulls = IF v = Null THEN last.nulls \cup {<<d, i>>} ELSE last.nulls \ {<<d, i>>}
  BY <1>2 DEF ReadingInv, ReadingTypes, ReadingMemories, NullsAfter
<1>4. /\ DOMAIN config = IF v # Null /\ <<d, i>> \notin last.sensors THEN {<<"entity", t>>} ELSE {}
      /\ v # Null /\ <<d, i>> \notin last.sensors => config[<<"entity", t>>] = [name |-> <<d, i>>]
      /\ DOMAIN values = {t} /\ values[t] = [value |-> v]
  BY OneMessage, NoMessage DEF If
<1>5. t # <<"entity", t>>
  BY PairIsNoTriple DEF TempTopic
<1>6. DOMAIN config \cap DOMAIN values = {}
  BY <1>4, <1>5
<1>7. ASSUME NEW topic, NEW value, topic \notin {t, <<"entity", t>>}
      PROVE  KeptAs(topic, value) => KeptAs(topic, value)'
  BY <1>4, <1>6, <1>7, PublishKeeps
<1>8. ReadingTypes' /\ ChlorInv' /\ ServiceInv'
  BY <1>1, <1>3, <1>7, ElseStays
<1>9. t = TempTopic(d, i)' /\ TempValue(d, i)' = v
  BY DEF TempTopic, TempValue
<1>10. KeptAs(t, [value |-> v])'
  <2>1. PICK payload : payload = [value |-> v]
    OBVIOUS
  <2>2. t \in DOMAIN values /\ values[t] = payload
    BY <1>4, <2>1
  <2>3. KeptAs(t, payload)'
    BY <1>6, <2>2, PublishKeeps
  <2> QED BY <2>1, <2>3
<1>11. TempKept(d, i)' /\ NullKept(d, i)'
  BY <1>3, <1>9, <1>10 DEF TempKept, NullKept
<1>12. SensorShown(d, i)'
  <2>1. CASE v # Null /\ <<d, i>> \notin last.sensors
    <3>1. [name |-> <<d, i>>] # Removed
      BY DEF Removed
    <3>2. <<"entity", t>> \in DOMAIN config /\ config[<<"entity", t>>] # Removed
      BY <2>1, <1>4, <3>1
    <3>3. Shown(<<"entity", t>>)'
      BY <1>6, <3>2, FirstArrives
    <3> QED BY <1>9, <3>3 DEF SensorShown
  <2>2. CASE v = Null \/ <<d, i>> \in last.sensors
    <3>1. <<d, i>> \in last'.sensors => <<d, i>> \in last.sensors
      BY <2>2, <1>3
    <3>2. SensorShown(d, i)
      BY <1>2 DEF ReadingInv, TempInv
    <3>3. Shown(<<"entity", t>>) => Shown(<<"entity", t>>)'
      BY <2>2, <1>4, <1>5, StillShown
    <3> QED BY <1>9, <3>1, <3>2, <3>3 DEF SensorShown
  <2> QED BY <2>1, <2>2
<1>13. ASSUME NEW e, NEW j, <<e, j>> # <<d, i>>
       PROVE  /\ <<e, j>> \in last'.nulls => <<e, j>> \in last.nulls
              /\ <<e, j>> \in last'.sensors => <<e, j>> \in last.sensors
              /\ Called(<<e, j>>) => Called(<<e, j>>)'
              /\ \A s, value : KeptAs(<<e, j, s>>, value) => KeptAs(<<e, j, s>>, value)'
              /\ \A s : Shown(<<"entity", <<e, j, s>>>>) => Shown(<<"entity", <<e, j, s>>>>)'
  <2>1. /\ <<e, j>> \in last'.nulls => <<e, j>> \in last.nulls
        /\ <<e, j>> \in last'.sensors => <<e, j>> \in last.sensors
        /\ Called(<<e, j>>) => Called(<<e, j>>)'
    BY <1>3, <1>13
  <2>2. ASSUME NEW s PROVE <<e, j, s>> # t
    BY <1>13 DEF TempTopic
  <2>3. ASSUME NEW s PROVE <<e, j, s>> # <<"entity", t>> /\ <<"entity", <<e, j, s>>>> # t
    BY PairIsNoTriple DEF TempTopic
  <2>4. ASSUME NEW s PROVE <<"entity", <<e, j, s>>>> # <<"entity", t>>
    BY <2>2
  <2>5. ASSUME NEW s, NEW value PROVE KeptAs(<<e, j, s>>, value) => KeptAs(<<e, j, s>>, value)'
    BY <2>2, <2>3, <1>7
  <2>6. ASSUME NEW s PROVE Shown(<<"entity", <<e, j, s>>>>) => Shown(<<"entity", <<e, j, s>>>>)'
    BY <2>3, <2>4, <1>4, StillShown
  <2> QED BY <2>1, <2>5, <2>6
<1>14. TempInv'
  BY <1>11, <1>12, <1>13, OtherTempsStay
<1> QED BY <1>8, <1>14 DEF ReadingInv

LEMMA TempPublished == ReadingInv /\ PublishTemperature => ReadingInv'
<1> SUFFICES ASSUME ReadingInv, PublishTemperature PROVE ReadingInv'
  OBVIOUS
<1>1. /\ Head(todo) \in Calls(pool.seen) /\ todo' \in Seq(Calls(pool.seen))
      /\ \A x : Called(x) => x = Head(todo) \/ Called(x)'
  <2>1. todo # <<>> /\ todo' = Tail(todo)
    BY DEF PublishTemperature, Send, Pass
  <2> QED BY <2>1, ReadingCall
<1>2. \A a : Head(todo) # <<a>>
  BY SingleIsNoPair DEF PublishTemperature
<1>3. PICK d \in DOMAIN pool.seen, i \in Sensors : Head(todo) = <<d, i>> /\ Reads(pool.seen[d], i)
  BY <1>1, <1>2 DEF Calls
<1>4. PICK t, v : t = TempTopic(d, i) /\ v = TempValue(d, i)
  OBVIOUS
<1>5. \A x : Called(x) => x = <<d, i>> \/ Called(x)'
  BY <1>1, <1>3
<1>6. PICK config, values :
        /\ config = If(v # Null /\ <<d, i>> \notin last.sensors,
                       Message(<<"entity", t>>, [name |-> <<d, i>>]))
        /\ values = Message(t, [value |-> v])
  OBVIOUS
<1>7. /\ TempTopic(Head(todo)[1], Head(todo)[2]) = t
      /\ TempValue(Head(todo)[1], Head(todo)[2]) = v
  BY <1>3, <1>4
<1>8. CASE link = "down"
  <2>1. stale' = stale \cup {t} /\ UNCHANGED <<link, broker, events, pool, last>>
    BY <1>7, <1>8 DEF PublishTemperature
  <2> QED BY <1>1, <1>3, <1>4, <1>5, <2>1, TempDropped
<1>9. CASE link # "down" /\ v = Null /\ <<d, i>> \in last.nulls
  <2>1. UNCHANGED <<link, broker, stale, events, pool, last>>
    BY <1>3, <1>7, <1>9 DEF PublishTemperature, Pass, retainedVars
  <2> QED BY <1>1, <1>3, <1>4, <1>5, <1>9, <2>1, TempPassed
<1>10. CASE link # "down" /\ ~ (v = Null /\ <<d, i>> \in last.nulls)
  <2>1. /\ Publish(config, values) /\ UNCHANGED pool
        /\ last' = [last EXCEPT !.sensors = IF v = Null THEN @ ELSE @ \cup {<<d, i>>},
                                !.nulls = NullsAfter(<<d, i>>, v)]
    BY <1>3, <1>7, <1>6, <1>10 DEF PublishTemperature, Send
  <2>2. link = "up"
    BY <1>10 DEF ReadingInv, ReadingTypes, RetainedTypeOK
  <2> QED BY <1>1, <1>3, <1>4, <1>5, <1>6, <2>1, <2>2, TempSent
<1> QED BY <1>8, <1>9, <1>10

-----------------------------------------------------------------------------
(* Readings: service mode is published.                                     *)

LEMMA ServicePublished == ReadingInv /\ PublishService => ReadingInv'
<1> SUFFICES ASSUME ReadingInv, PublishService PROVE ReadingInv'
  OBVIOUS
<1>1. /\ UNCHANGED pool /\ todo' \in Seq(Calls(pool.seen))
      /\ \A x : Called(x) => x = <<"service">> \/ Called(x)'
      /\ pool \in ReadingPools /\ pool.service \in Services
  <2>1. todo # <<>> /\ todo' = Tail(todo) /\ Head(todo) = <<"service">> /\ UNCHANGED pool
    BY DEF PublishService, Send, Pass
  <2> QED BY <2>1, ReadingCall DEF ReadingInv, ReadingTypes, ReadingPools
<1>2. /\ Called(<<"chlor">>) => Called(<<"chlor">>)'
      /\ Called(<<"expire">>) => Called(<<"expire">>)'
  <2>1. <<"service">> # <<"chlor">> /\ <<"service">> # <<"expire">>
    OBVIOUS
  <2> QED BY <2>1, <1>1
<1>3. \A d, i : Called(<<d, i>>) => Called(<<d, i>>)'
  BY <1>1, SingleIsNoPair
<1>4. CASE last.service = pool.service
  <2>1. UNCHANGED <<link, broker, stale, events, pool, last>>
    BY <1>4 DEF PublishService, Pass, retainedVars
  <2>2. ReadingTypes'
    <3>1. RetainedTypeOK'
      BY <2>1 DEF ReadingInv, ReadingTypes, RetainedTypeOK
    <3> QED BY <2>1, <3>1, <1>1, ReadingTypesStay DEF ReadingInv, ReadingTypes
  <2>3. ChlorInv'
    <3>1. \A value : KeptAs(ChlorTopic, value) => KeptAs(ChlorTopic, value)'
      BY <2>1 DEF KeptAs, Shown, ChlorTopic
    <3> QED BY <2>1, <3>1, <1>2, ChlorStays
  <2>4. TempInv'
    <3>1. \A d, i, s, value : KeptAs(<<d, i, s>>, value) => KeptAs(<<d, i, s>>, value)'
      BY <2>1, Undisturbed
    <3>2. \A d, i, s : Shown(<<"entity", <<d, i, s>>>>) => Shown(<<"entity", <<d, i, s>>>>)'
      BY <2>1 DEF Shown
    <3> QED BY <2>1, <3>1, <3>2, <1>3, TempsStay
  <2>5. ServiceInv'
    BY <2>1, <1>4 DEF ReadingInv, ServiceInv, KeptAs, Shown, ServiceTopic, ServiceEntity
  <2> QED BY <2>2, <2>3, <2>4, <2>5 DEF ReadingInv
<1>5. CASE last.service # pool.service
  <2>1. PICK service, payload, config, values :
          /\ service = pool.service /\ payload = [value |-> service]
          /\ config = If(last.service = "unknown", ServiceConfig)
          /\ values = Message(ServiceTopic, [value |-> pool.service])
    OBVIOUS
  <2>2. Publish(config, values) /\ last' = [last EXCEPT !.service = pool.service]
    BY <1>5, <2>1 DEF PublishService, Send
  <2>3. /\ DOMAIN config = IF last.service = "unknown" THEN {ServiceEntity} ELSE {}
        /\ last.service = "unknown" => config[ServiceEntity] = [name |-> "service"]
        /\ DOMAIN values = {ServiceTopic} /\ values[ServiceTopic] = payload
    BY <2>1, OneMessage, NoMessage DEF If, ServiceConfig, ServiceEntity
  <2>4. ServiceTopic # ServiceEntity
    BY DEF ServiceTopic, ServiceEntity
  <2>5. DOMAIN config \cap DOMAIN values = {}
    BY <2>3, <2>4
  <2>6. /\ last' \in ReadingMemories /\ last'.service = service
        /\ last'.chlor = last.chlor /\ last'.chlorEntities = last.chlorEntities
        /\ last'.sensors = last.sensors /\ last'.nulls = last.nulls
    BY <1>1, <2>1, <2>2 DEF ReadingInv, ReadingTypes, ReadingMemories
  <2>7. ReadingTypes'
    <3>1. RetainedTypeOK'
      BY <2>2, PublishTypes DEF ReadingInv, ReadingTypes
    <3> QED BY <2>6, <3>1, <1>1, ReadingTypesStay DEF ReadingInv
  <2>8. ChlorInv'
    <3>1. ChlorTopic \notin DOMAIN config \cup DOMAIN values
      BY <2>3 DEF ChlorTopic, ServiceTopic, ServiceEntity
    <3>2. \A value : KeptAs(ChlorTopic, value) => KeptAs(ChlorTopic, value)'
      BY <2>2, <2>5, <3>1, PublishKeeps
    <3> QED BY <1>1, <2>6, <3>2, <1>2, ChlorStays
  <2>9. TempInv'
    <3>1. \A d, i, s : <<d, i, s>> \notin DOMAIN config \cup DOMAIN values
      BY <2>3, PairIsNoTriple DEF ServiceTopic, ServiceEntity
    <3>2. \A d, i, s : <<"entity", <<d, i, s>>>> \notin DOMAIN config \cup DOMAIN values
      BY <2>3 DEF ServiceTopic, ServiceEntity
    <3>3. \A d, i, s, value : KeptAs(<<d, i, s>>, value) => KeptAs(<<d, i, s>>, value)'
      BY <2>2, <2>5, <3>1, PublishKeeps
    <3>4. \A d, i, s : Shown(<<"entity", <<d, i, s>>>>) => Shown(<<"entity", <<d, i, s>>>>)'
      BY <2>2, <3>2, StillShown
    <3> QED BY <1>1, <2>6, <3>3, <3>4, <1>3, TempsStay
  <2>10. ServiceInv'
    <3>1. KeptAs(ServiceTopic, payload)'
      BY <2>2, <2>3, <2>5, PublishKeeps
    <3>2. payload = [value |-> last'.service]
      BY <2>1, <2>6
    <3>3. KeptAs(ServiceTopic, [value |-> last.service])'
      BY <3>1, <3>2
    <3>4. KeptAs(ServiceEntity, [name |-> "service"])'
      <4>1. CASE last.service = "unknown"
        <5>1. PICK named : named = [name |-> "service"]
          OBVIOUS
        <5>2. ServiceEntity \in DOMAIN config /\ config[ServiceEntity] = named
          BY <4>1, <2>3, <5>1
        <5>3. KeptAs(ServiceEntity, named)'
          BY <2>2, <2>5, <5>2, PublishKeeps
        <5> QED BY <5>1, <5>3
      <4>2. CASE last.service # "unknown"
        <5>1. ServiceEntity \notin DOMAIN config \cup DOMAIN values
          BY <4>2, <2>3, <2>4
        <5> QED BY <4>2, <5>1, <2>2, <2>5, PublishKeeps DEF ReadingInv, ServiceInv
      <4> QED BY <4>1, <4>2
    <3> QED BY <3>3, <3>4, <1>1, <2>1, <2>6 DEF ServiceInv
  <2> QED BY <2>7, <2>8, <2>9, <2>10 DEF ReadingInv
<1> QED BY <1>4, <1>5

-----------------------------------------------------------------------------
(* Readings: a frame is decoded.                                            *)

Made(calls, x) == \E i \in DOMAIN calls : calls[i] = x

LEMMA ReadingFrame ==
  ASSUME ReadingInv, NEW new \in ReadingPools, NEW calls, Frame(new, calls),
         Room(new.seen), calls \in Seq(Calls(new.seen)),
         new.chlor = pool.chlor \/ Made(calls, <<"chlor">>),
         \A f \in Readings \cap last.chlorEntities :
           new.chlor[f] # "none" \/ new.age[f] = StaleAge,
         new.service = pool.service \/ Made(calls, <<"service">>),
         \A d \in DOMAIN new.seen, i \in Sensors :
           Reads(new.seen[d], i) /\ ~ Made(calls, <<d, i>>) =>
             /\ d \in DOMAIN pool.seen /\ new.seen[d].shape = pool.seen[d].shape
             /\ new.seen[d].temp[i] = pool.seen[d].temp[i],
         \A d \in DOMAIN pool.seen :
           /\ d \in DOMAIN new.seen
           /\ pool.seen[d].shape # "unknown" => new.seen[d].shape = pool.seen[d].shape
  PROVE  ReadingInv'
<1>1. /\ pool' \in ReadingPools /\ todo = <<>> /\ todo' = Append(calls, <<"expire">>)
      /\ pool'.chlor = new.chlor /\ pool'.age = new.age /\ pool'.seen = new.seen
      /\ pool'.service = new.service
      /\ UNCHANGED <<link, broker, stale, last>> /\ events' = events + 1 /\ events < MaxEvents
  BY DEF Frame, Decode, Event, ReadingPools
<1>2. \A x : Made(calls, x) => Called(x)'
  BY <1>1 DEF Made, Called
<1>3. Called(<<"expire">>)'
  BY <1>1 DEF Called
<1>4. ReadingTypes'
  <2>1. RetainedTypeOK'
    BY <1>1, EventsAssumption DEF ReadingInv, ReadingTypes, RetainedTypeOK
  <2>2. <<"expire">> \in Calls(new.seen)
    BY DEF Calls
  <2>3. todo' \in Seq(Calls(new.seen))
    BY <1>1, <2>2
  <2>4. Calls(new.seen) = Calls(pool.seen)'
    BY <1>1 DEF Calls, Reads
  <2>5. Room(pool.seen)'
    BY <1>1 DEF Room
  <2> QED BY <1>1, <2>1, <2>3, <2>4, <2>5 DEF ReadingInv, ReadingTypes
<1>5. ASSUME NEW topic, NEW value PROVE KeptAs(topic, value) => KeptAs(topic, value)'
  BY <1>1, Undisturbed
<1>6. ChlorInv'
  <2>1. (last.chlorEntities # {} => KeptAs(ChlorTopic, Shows(last.chlor)))'
    <3>1. PICK shows : shows = Shows(last.chlor)
      OBVIOUS
    <3>2. shows = Shows(last.chlor)'
      BY <1>1, <3>1 DEF Shows
    <3> QED BY <1>1, <1>5, <3>1, <3>2 DEF ReadingInv, ChlorInv
  <2>2. ~ Called(<<"chlor">>)' => last'.chlor = pool'.chlor
    BY <1>1, <1>2, NoCall DEF ReadingInv, ChlorInv
  <2> QED BY <2>1, <2>2, <1>1, <1>3 DEF ChlorInv
<1>7. ASSUME NEW d \in DOMAIN pool'.seen, NEW i \in Sensors PROVE TempKept(d, i)'
  <2>1. SUFFICES ASSUME Reads(new.seen[d], i), ~ Called(<<d, i>>)'
                 PROVE  KeptAs(TempTopic(d, i), [value |-> TempValue(d, i)])'
    BY <1>1 DEF TempKept
  <2>2. /\ d \in DOMAIN pool.seen /\ new.seen[d].shape = pool.seen[d].shape
        /\ new.seen[d].temp[i] = pool.seen[d].temp[i]
    BY <1>1, <1>2, <1>7, <2>1
  <2>3. PICK t, v : t = TempTopic(d, i) /\ v = [value |-> TempValue(d, i)]
    OBVIOUS
  <2>4. t = TempTopic(d, i)' /\ v = [value |-> TempValue(d, i)]'
    BY <1>1, <2>2, <2>3 DEF TempTopic, TempValue
  <2>5. KeptAs(t, v)
    BY <1>1, <2>1, <2>2, <2>3, NoCall DEF ReadingInv, TempInv, TempKept, Reads
  <2>6. KeptAs(t, v)'
    BY <2>5, <1>5
  <2> QED BY <2>4, <2>6
<1>8. ASSUME NEW d \in DOMAIN pool.seen, NEW i, Reads(pool.seen[d], i)
      PROVE  /\ d \in DOMAIN pool'.seen /\ Reads(pool'.seen[d], i)
             /\ TempTopic(d, i)' = TempTopic(d, i)
  BY <1>1, <1>8 DEF Reads, TempTopic
<1>9. ASSUME NEW d \in Devices, NEW i \in Sensors PROVE NullKept(d, i)'
  <2>1. SUFFICES ASSUME <<d, i>> \in last.nulls PROVE NullKept(d, i)'
    BY <1>1 DEF NullKept
  <2>2. PICK t : t = TempTopic(d, i)
    OBVIOUS
  <2>3. d \in DOMAIN pool.seen /\ Reads(pool.seen[d], i) /\ KeptAs(t, [value |-> Null])
    BY <2>1, <2>2 DEF ReadingInv, TempInv, NullKept
  <2>4. KeptAs(t, [value |-> Null])'
    BY <2>3, <1>5
  <2> QED BY <2>2, <2>3, <2>4, <1>8 DEF NullKept
<1>10. ASSUME NEW d \in Devices, NEW i \in Sensors PROVE SensorShown(d, i)'
  <2>1. SUFFICES ASSUME <<d, i>> \in last.sensors PROVE SensorShown(d, i)'
    BY <1>1 DEF SensorShown
  <2>2. PICK t : t = TempTopic(d, i)
    OBVIOUS
  <2>3. d \in DOMAIN pool.seen /\ Reads(pool.seen[d], i) /\ Shown(<<"entity", t>>)
    BY <2>1, <2>2 DEF ReadingInv, TempInv, SensorShown
  <2>4. Shown(<<"entity", t>>)'
    BY <2>3, <1>1 DEF Shown
  <2> QED BY <2>2, <2>3, <2>4, <1>8 DEF SensorShown
<1>11. ServiceInv'
  <2>1. ~ Called(<<"service">>)' => last'.service = pool'.service
    BY <1>1, <1>2, NoCall DEF ReadingInv, ServiceInv
  <2> QED BY <2>1, <1>1 DEF ReadingInv, ServiceInv, KeptAs, Shown, ServiceTopic, ServiceEntity
<1> QED BY <1>4, <1>6, <1>7, <1>9, <1>10, <1>11 DEF ReadingInv, TempInv

(* The table of devices, with an entry for one that was just heard.         *)
LEMMA SeenIsTable ==
  ASSUME ReadingInv, NEW d \in Devices
  PROVE  /\ Seen(d) \in Tables /\ Room(Seen(d))
         /\ DOMAIN pool.seen \subseteq DOMAIN Seen(d)
         /\ \A e \in DOMAIN pool.seen : Seen(d)[e] = pool.seen[e]
         /\ \A e \in DOMAIN Seen(d) : e \notin DOMAIN pool.seen => Seen(d)[e] = Unheard
<1>1. pool.seen \in Tables /\ Room(pool.seen)
  BY DEF ReadingInv, ReadingTypes, ReadingPools
<1>2. CASE Known(d) \/ Cardinality(DOMAIN pool.seen) = MaxSeen
  BY <1>1, <1>2 DEF Seen
<1>3. CASE ~ (Known(d) \/ Cardinality(DOMAIN pool.seen) = MaxSeen)
  <2>1. /\ DOMAIN pool.seen \subseteq Devices /\ pool.seen \in [DOMAIN pool.seen -> Entries]
    BY <1>1, TableOf
  <2>2. Seen(d) = [e \in DOMAIN pool.seen \cup {d} |-> IF e = d THEN Unheard ELSE pool.seen[e]]
    BY <1>3 DEF Seen
  <2>3. d \notin DOMAIN pool.seen
    BY <1>3 DEF Known
  <2>4. Unheard \in Entries
    BY DEF Unheard, Entries, Temps
  <2>5. /\ DOMAIN Seen(d) = DOMAIN pool.seen \cup {d}
        /\ Seen(d) \in [DOMAIN Seen(d) -> Entries]
    BY <2>1, <2>2, <2>4
  <2>6. Seen(d) \in Tables
    BY <2>1, <2>5, TableOf
  <2>7. Room(Seen(d))
    <3>1. /\ IsFiniteSet(DOMAIN pool.seen \cup {d})
          /\ Cardinality(DOMAIN pool.seen \cup {d}) = Cardinality(DOMAIN pool.seen) + 1
      BY <1>1, <2>3, FS_AddElement DEF Room
    <3>2. Cardinality(DOMAIN pool.seen) \in Nat
      BY <1>1, FS_CardinalityType DEF Room
    <3> QED BY <3>1, <3>2, <1>1, <1>3, <2>5, ReadingsAssumption DEF Room
  <2> QED BY <2>2, <2>3, <2>5, <2>6, <2>7
<1> QED BY <1>2, <1>3

(* A table with another entry in place of one.                              *)
LEMMA TableUpdate ==
  ASSUME NEW t \in Tables, Room(t), NEW d \in DOMAIN t, NEW entry \in Entries, NEW u,
         u = [t EXCEPT ![d] = entry]
  PROVE  /\ u \in Tables /\ Room(u) /\ DOMAIN u = DOMAIN t
         /\ u[d] = entry /\ \A e \in DOMAIN t : e # d => u[e] = t[e]
<1>1. DOMAIN t \subseteq Devices /\ t \in [DOMAIN t -> Entries]
  BY TableOf
<1>2. DOMAIN u = DOMAIN t /\ u \in [DOMAIN u -> Entries]
  BY <1>1
<1>3. u \in Tables
  BY <1>1, <1>2, TableOf
<1> QED BY <1>1, <1>2, <1>3 DEF Room

LEMMA ByteStrings ==
  ASSUME NEW values, NEW bytes \in Bytes(values)
  PROVE  /\ Len(bytes) \in {1, 2} /\ DOMAIN bytes = 1 .. Len(bytes)
         /\ \A i \in DOMAIN bytes : bytes[i] \in values
<1>1. ASSUME NEW a \in values, bytes = <<a>>
      PROVE  Len(bytes) = 1 /\ DOMAIN bytes = 1 .. 1 /\ bytes[1] = a
  BY <1>1
<1>2. ASSUME NEW a \in values, NEW b \in values, bytes = <<a, b>>
      PROVE  Len(bytes) = 2 /\ DOMAIN bytes = 1 .. 2 /\ bytes[1] = a /\ bytes[2] = b
  BY <1>2
<1> QED BY <1>1, <1>2 DEF Bytes

LEMMA TwoCalls ==
  ASSUME NEW a, NEW b
  PROVE  /\ <<a>> \o <<b>> = <<a, b>> /\ <<a>> \o <<>> = <<a>>
         /\ \A S : a \in S => <<a>> \in Seq(S) /\ (b \in S => <<a, b>> \in Seq(S))
<1>1. <<a>> \o <<b>> = <<a, b>>
  <2>1. /\ <<a>> \in Seq({a, b}) /\ Len(<<a>>) = 1 /\ <<a>>[1] = a
        /\ <<a, b>> \in Seq({a, b}) /\ Len(<<a, b>>) = 2
        /\ <<a, b>>[1] = a /\ <<a, b>>[2] = b
    OBVIOUS
  <2>2. PICK both : both = <<a>> \o <<b>>
    OBVIOUS
  <2>3. both = Append(<<a>>, b)
    BY <2>1, <2>2, AppendIsConcat
  <2>4. both \in Seq({a, b}) /\ Len(both) = 2 /\ both[1] = a /\ both[2] = b
    BY <2>1, <2>3, AppendProperties
  <2>5. \A i \in 1 .. 2 : both[i] = <<a, b>>[i]
    BY <2>1, <2>4
  <2>6. both = <<a, b>>
    BY <2>1, <2>4, <2>5, SeqEqual
  <2> QED BY <2>2, <2>6
<1>2. <<a>> \o <<>> = <<a>>
  <2>1. <<a>> \in Seq({a})
    OBVIOUS
  <2> QED BY <2>1, ConcatEmptySeq
<1>3. \A S : a \in S => <<a>> \in Seq(S) /\ (b \in S => <<a, b>> \in Seq(S))
  OBVIOUS
<1> QED BY <1>1, <1>2, <1>3

LEMMA ReportedEntry ==
  ASSUME NEW entry \in Entries, NEW bytes \in Bytes({"zero"} \cup Warm)
  PROVE  /\ Reported(entry, bytes) \in Entries
         /\ Reported(entry, bytes).shape # "unknown"
         /\ entry.shape # "unknown" => Reported(entry, bytes).shape = entry.shape
         /\ Reported(entry, bytes).shape = "double" /\ Len(bytes) # 2 =>
              entry.shape = "double" /\ Reported(entry, bytes).temp[2] = entry.temp[2]
<1>1. PICK shape, heard, temp :
        /\ shape = IF entry.shape # "unknown" THEN entry.shape
                   ELSE IF Len(bytes) = 2 THEN "double" ELSE "single"
        /\ heard = IF shape = "double" /\ Len(bytes) = 2 THEN Sensors ELSE {1}
        /\ temp = [i \in Sensors |-> IF i \in heard THEN Sensed(entry, bytes, i) ELSE entry.temp[i]]
  OBVIOUS
<1>2. Reported(entry, bytes) = [entry EXCEPT !.shape = shape, !.temp = temp]
  BY <1>1 DEF Reported, Entries
<1>3. shape \in {"single", "double"} /\ (entry.shape # "unknown" => shape = entry.shape)
  BY <1>1 DEF Entries
<1>4. temp \in [Sensors -> Temps]
  <2>1. ASSUME NEW i \in heard PROVE i \in DOMAIN bytes /\ bytes[i] \in Temps
    BY <1>1, ByteStrings DEF Sensors, Temps
  <2>2. ASSUME NEW i \in heard PROVE Sensed(entry, bytes, i) \in Temps
    BY <2>1 DEF Sensed, Temps
  <2>3. ASSUME NEW i \in Sensors PROVE entry.temp[i] \in Temps
    BY DEF Entries
  <2> QED BY <1>1, <2>2, <2>3
<1>5. /\ Reported(entry, bytes) \in Entries /\ Reported(entry, bytes).shape = shape
      /\ Reported(entry, bytes).temp = temp
  BY <1>2, <1>3, <1>4 DEF Entries
<1>6. shape = "double" /\ Len(bytes) # 2 => entry.shape = "double" /\ temp[2] = entry.temp[2]
  BY <1>1 DEF Entries, Sensors
<1> QED BY <1>3, <1>5, <1>6

LEMMA ReadingsHandled == ReadingInv /\ HandleReading => ReadingInv'
<1> SUFFICES ASSUME ReadingInv, HandleReading PROVE ReadingInv'
  OBVIOUS
<1>0. /\ pool \in ReadingPools /\ pool.seen \in Tables /\ Room(pool.seen) /\ pool.chlor \in Chlors
      /\ pool.age \in [Readings -> 0 .. StaleAge]
      /\ \A f \in Readings \cap last.chlorEntities : pool.chlor[f] # "none" \/ pool.age[f] = StaleAge
  BY DEF ReadingInv, ReadingTypes, ReadingPools, ChlorInv
<1>a. /\ <<>> \in Seq(Calls(pool.seen)) /\ <<<<"chlor">>>> \in Seq(Calls(pool.seen))
      /\ <<<<"service">>>> \in Seq(Calls(pool.seen))
      /\ Made(<<<<"chlor">>>>, <<"chlor">>) /\ Made(<<<<"service">>>>, <<"service">>)
  <2>1. <<"chlor">> \in Calls(pool.seen) /\ <<"service">> \in Calls(pool.seen)
    BY DEF Calls
  <2>2. Made(<<<<"chlor">>>>, <<"chlor">>) /\ Made(<<<<"service">>>>, <<"service">>)
    BY DEF Made
  <2> QED BY <2>1, <2>2
<1>1. ASSUME NEW level \in Levels, NEW f \in Readings, ChlorReading(f, level) PROVE ReadingInv'
  <2>1. PICK new, chlor, age :
          /\ new = [pool EXCEPT !.chlor[f] = level, !.age[f] = 0]
          /\ chlor = [pool.chlor EXCEPT ![f] = level] /\ age = [pool.age EXCEPT ![f] = 0]
    OBVIOUS
  <2>2. Frame(new, <<<<"chlor">>>>)
    BY <1>1, <2>1 DEF ChlorReading
  <2>3. chlor \in Chlors /\ age \in [Readings -> 0 .. StaleAge]
    BY <1>0, <2>1, ReadingsAssumption DEF Chlors, Values
  <2>4. /\ new \in ReadingPools /\ new.seen = pool.seen /\ new.service = pool.service
        /\ new.chlor = chlor /\ new.age = age
    BY <1>0, <2>1, <2>3 DEF ReadingPools
  <2>5. /\ new \in ReadingPools /\ new.seen = pool.seen /\ new.service = pool.service
        /\ new.chlor[f] = level /\ new.age[f] = 0
        /\ \A g \in Readings : g # f => new.chlor[g] = pool.chlor[g] /\ new.age[g] = pool.age[g]
    BY <1>0, <2>1, <2>4 DEF Chlors, Values
  <2>6. level # "none"
    BY ReadingsAssumption
  <2> QED BY <1>0, <1>a, <2>2, <2>5, <2>6, ReadingFrame
<1>2. ASSUME NEW level \in Levels, NEW f \in Settings, ChlorSetting(f, level) PROVE ReadingInv'
  <2>1. PICK new : new = [pool EXCEPT !.chlor[f] = level]
    OBVIOUS
  <2>2. Frame(new, <<<<"chlor">>>>)
    BY <1>2, <2>1 DEF ChlorSetting
  <2>3. /\ new \in ReadingPools /\ new.seen = pool.seen /\ new.service = pool.service
        /\ new.age = pool.age /\ \A g \in Readings : new.chlor[g] = pool.chlor[g]
    BY <1>0, <2>1 DEF ReadingPools, Chlors, Values, Readings, Settings
  <2> QED BY <1>0, <1>a, <2>2, <2>3, ReadingFrame
<1>3. ASSUME OtherFrame PROVE ReadingInv'
  BY <1>0, <1>a, <1>3, ReadingFrame DEF OtherFrame
<1>4. ASSUME NEW d \in Devices, NEW bytes \in Bytes({NotConnected, "zero"}), Unclamped(d, bytes)
      PROVE  ReadingInv'
  <2>1. PICK t : t = Seen(d)
    OBVIOUS
  <2>2. /\ t \in Tables /\ Room(t) /\ DOMAIN pool.seen \subseteq DOMAIN t
        /\ \A e \in DOMAIN pool.seen : t[e] = pool.seen[e]
        /\ \A e \in DOMAIN t : e \notin DOMAIN pool.seen => t[e] = Unheard
    BY <2>1, SeenIsTable
  <2>3. t \in [DOMAIN t -> Entries]
    BY <2>2, TableOf
  <2>4. PICK seen :
          seen = IF d \in DOMAIN t
                 THEN [t EXCEPT ![d].unclamped = [i \in Sensors |-> IF i \in DOMAIN bytes
                                                                    THEN bytes[i] ELSE @[i]]]
                 ELSE t
    OBVIOUS
  <2>5. /\ seen \in Tables /\ Room(seen) /\ DOMAIN seen = DOMAIN t
        /\ \A e \in DOMAIN t : seen[e].shape = t[e].shape /\ seen[e].temp = t[e].temp
    <3>1. CASE d \in DOMAIN t
      <4>1. PICK unclamped, entry :
              /\ unclamped = [i \in Sensors |-> IF i \in DOMAIN bytes THEN bytes[i]
                                                ELSE t[d].unclamped[i]]
              /\ entry = [t[d] EXCEPT !.unclamped = unclamped]
        OBVIOUS
      <4>2. unclamped \in [Sensors -> {NotConnected, "zero"}] /\ t[d] \in Entries
        BY <2>3, <3>1, <4>1, ByteStrings DEF Entries
      <4>3. /\ entry \in Entries /\ entry.shape = t[d].shape /\ entry.temp = t[d].temp
        BY <4>1, <4>2 DEF Entries
      <4>4. seen = [t EXCEPT ![d] = entry]
        BY <2>4, <3>1, <4>1
      <4>5. /\ seen \in Tables /\ Room(seen) /\ DOMAIN seen = DOMAIN t
            /\ seen[d] = entry /\ \A e \in DOMAIN t : e # d => seen[e] = t[e]
        BY <2>2, <3>1, <4>3, <4>4, TableUpdate
      <4> QED BY <4>3, <4>5
    <3>2. CASE d \notin DOMAIN t
      BY <2>2, <2>4, <3>2
    <3> QED BY <3>1, <3>2
  <2>6. PICK new : new = [pool EXCEPT !.seen = seen]
    OBVIOUS
  <2>7. Frame(new, <<>>)
    BY <1>4, <2>1, <2>4, <2>6 DEF Unclamped
  <2>8. /\ new \in ReadingPools /\ new.seen = seen /\ new.service = pool.service
        /\ new.age = pool.age /\ new.chlor = pool.chlor
    BY <1>0, <2>5, <2>6 DEF ReadingPools
  <2>9. <<>> \in Seq(Calls(seen))
    OBVIOUS
  <2>10. Unheard.shape = "unknown"
    BY DEF Unheard
  <2>11. \A e \in DOMAIN seen, i \in Sensors :
           Reads(seen[e], i) => /\ e \in DOMAIN pool.seen /\ seen[e].shape = pool.seen[e].shape
                                /\ seen[e].temp[i] = pool.seen[e].temp[i]
    BY <2>2, <2>5, <2>10 DEF Reads
  <2>12. \A e \in DOMAIN pool.seen : e \in DOMAIN seen /\ seen[e].shape = pool.seen[e].shape
    BY <2>2, <2>5
  <2> QED BY <1>0, <2>5, <2>7, <2>8, <2>9, <2>11, <2>12, ReadingFrame
<1>5. ASSUME NEW d \in Devices, NEW bytes \in Bytes({"zero"} \cup Warm), Temperature(d, bytes)
      PROVE  ReadingInv'
  <2>1. PICK t : t = Seen(d)
    OBVIOUS
  <2>2. /\ t \in Tables /\ Room(t) /\ DOMAIN pool.seen \subseteq DOMAIN t
        /\ \A e \in DOMAIN pool.seen : t[e] = pool.seen[e]
        /\ \A e \in DOMAIN t : e \notin DOMAIN pool.seen => t[e] = Unheard
    BY <2>1, SeenIsTable
  <2>3. CASE d \notin DOMAIN t
    BY <1>3, <1>5, <2>1, <2>3 DEF Temperature
  <2>4. CASE d \in DOMAIN t
    <3>1. t \in [DOMAIN t -> Entries] /\ t[d] \in Entries
      BY <2>2, <2>4, TableOf
    <3>2. PICK entry : entry = Reported(t[d], bytes)
      OBVIOUS
    <3>3. /\ entry \in Entries /\ entry.shape # "unknown"
          /\ t[d].shape # "unknown" => entry.shape = t[d].shape
          /\ entry.shape = "double" /\ Len(bytes) # 2 =>
               t[d].shape = "double" /\ entry.temp[2] = t[d].temp[2]
      BY <3>1, <3>2, ReportedEntry
    <3>4. PICK seen, new, calls :
            /\ seen = [t EXCEPT ![d] = entry] /\ new = [pool EXCEPT !.seen = seen]
            /\ calls = IF entry.shape = "double" /\ Len(bytes) = 2 THEN <<<<d, 1>>, <<d, 2>>>>
                       ELSE <<<<d, 1>>>>
      OBVIOUS
    <3>5. Frame(new, calls)
      <4>1. /\ <<<<d, 1>>>> \o <<<<d, 2>>>> = <<<<d, 1>>, <<d, 2>>>>
            /\ <<<<d, 1>>>> \o <<>> = <<<<d, 1>>>>
        BY TwoCalls
      <4> QED BY <1>5, <2>1, <2>4, <3>2, <3>4, <4>1 DEF Temperature
    <3>6. /\ seen \in Tables /\ Room(seen) /\ DOMAIN seen = DOMAIN t
          /\ seen[d] = entry /\ \A e \in DOMAIN t : e # d => seen[e] = t[e]
      BY <2>2, <2>4, <3>3, <3>4, TableUpdate
    <3>7. /\ new \in ReadingPools /\ new.seen = seen /\ new.service = pool.service
          /\ new.age = pool.age /\ new.chlor = pool.chlor
      BY <1>0, <3>4, <3>6 DEF ReadingPools
    <3>8. calls \in Seq(Calls(seen))
      <4>1. <<d, 1>> \in Calls(seen)
        BY <2>4, <3>3, <3>6 DEF Calls, Reads, Sensors
      <4>2. entry.shape = "double" => <<d, 2>> \in Calls(seen)
        BY <2>4, <3>6 DEF Calls, Reads, Sensors
      <4> QED BY <3>4, <4>1, <4>2, TwoCalls
    <3>9. Made(calls, <<d, 1>>) /\ (entry.shape = "double" /\ Len(bytes) = 2 => Made(calls, <<d, 2>>))
      BY <3>4 DEF Made
    <3>10. Unheard.shape = "unknown"
      BY DEF Unheard
    <3>11. ASSUME NEW e \in DOMAIN seen, NEW i \in Sensors, Reads(seen[e], i), ~ Made(calls, <<e, i>>)
           PROVE  /\ e \in DOMAIN pool.seen /\ seen[e].shape = pool.seen[e].shape
                  /\ seen[e].temp[i] = pool.seen[e].temp[i]
      <4>1. CASE e # d
        BY <2>2, <3>6, <3>10, <3>11, <4>1 DEF Reads
      <4>2. CASE e = d
        <5>1. i = 2 /\ entry.shape = "double" /\ Len(bytes) # 2
          BY <3>6, <3>9, <3>11, <4>2 DEF Reads, Sensors
        <5>2. t[d].shape = "double" /\ entry.temp[2] = t[d].temp[2]
          BY <5>1, <3>3
        <5>3. d \in DOMAIN pool.seen /\ t[d] = pool.seen[d]
          BY <5>2, <2>2, <2>4, <3>10
        <5> QED BY <5>1, <5>2, <5>3, <3>6, <4>2
      <4> QED BY <4>1, <4>2
    <3>12. \A e \in DOMAIN pool.seen :
             /\ e \in DOMAIN seen
             /\ pool.seen[e].shape # "unknown" => seen[e].shape = pool.seen[e].shape
      BY <2>2, <3>3, <3>6
    <3> QED BY <1>0, <3>5, <3>6, <3>7, <3>8, <3>11, <3>12, ReadingFrame
  <2> QED BY <2>3, <2>4
<1>6. ASSUME NEW service \in {"on", "off"}, ControllerStatus(service) PROVE ReadingInv'
  <2>1. PICK new : new = [pool EXCEPT !.service = service]
    OBVIOUS
  <2>2. Frame(new, <<<<"service">>>>)
    BY <1>6, <2>1 DEF ControllerStatus
  <2>3. /\ new \in ReadingPools /\ new.seen = pool.seen /\ new.chlor = pool.chlor
        /\ new.age = pool.age
    BY <1>0, <2>1 DEF ReadingPools, Services
  <2> QED BY <1>0, <1>a, <2>2, <2>3, ReadingFrame
<1> QED BY <1>1, <1>2, <1>3, <1>4, <1>5, <1>6 DEF HandleReading

-----------------------------------------------------------------------------
(* Readings: the clock, the connection, a restart; and what is shown.       *)

LEMMA ReadingsLinked == ReadingInv /\ LinkChanges => ReadingInv'
<1> SUFFICES ASSUME ReadingInv, LinkChanges PROVE ReadingInv'
  OBVIOUS
<1>1. UNCHANGED <<broker, stale, pool, last, todo>> /\ RetainedTypeOK'
  BY EventsAssumption
  DEF LinkChanges, LinkUp, LinkDown, Event, RetainedTypeOK, ReadingInv, ReadingTypes
<1>2. pool \in ReadingPools /\ todo \in Seq(Calls(pool.seen)) /\ \A x : Called(x) => Called(x)'
  BY <1>1 DEF ReadingInv, ReadingTypes, Called
<1>3. /\ ReadingTypes' /\ TempInv' /\ ServiceInv'
      /\ (last.chlorEntities # {} => KeptAs(ChlorTopic, Shows(last.chlor)))'
  BY <1>1, <1>2, NothingSent
<1>4. ChlorInv'
  BY <1>1, <1>2, <1>3 DEF ReadingInv, ChlorInv
<1> QED BY <1>3, <1>4 DEF ReadingInv

LEMMA ReadingsTicked == ReadingInv /\ Tick => ReadingInv'
<1> SUFFICES ASSUME ReadingInv, Tick PROVE ReadingInv'
  OBVIOUS
<1>1. UNCHANGED <<broker, stale, last, todo>> /\ RetainedTypeOK'
  BY EventsAssumption DEF Tick, Event, RetainedTypeOK, ReadingInv, ReadingTypes
<1>2. PICK age :
        age = [f \in Readings |-> IF pool.age[f] = StaleAge THEN StaleAge ELSE pool.age[f] + 1]
  OBVIOUS
<1>3. pool \in ReadingPools /\ pool.age \in [Readings -> 0 .. StaleAge]
  BY DEF ReadingInv, ReadingTypes, ReadingPools
<1>4. age \in [Readings -> 0 .. StaleAge]
  BY <1>2, <1>3, ReadingsAssumption
<1>5. pool' = [pool EXCEPT !.age = age, !.ticked = TRUE]
  BY <1>2 DEF Tick
<1>6. /\ pool' \in ReadingPools /\ pool'.seen = pool.seen /\ pool'.chlor = pool.chlor
      /\ pool'.service = pool.service /\ pool'.age = age /\ pool'.ticked = TRUE
  BY <1>3, <1>4, <1>5 DEF ReadingPools
<1>7. todo' \in Seq(Calls(pool.seen)) /\ \A x : Called(x) => Called(x)'
  BY <1>1 DEF ReadingInv, ReadingTypes, Called
<1>8. /\ ReadingTypes' /\ TempInv' /\ ServiceInv'
      /\ (last.chlorEntities # {} => KeptAs(ChlorTopic, Shows(last.chlor)))'
  BY <1>1, <1>6, <1>7, NothingSent
<1>9. \A f \in Readings : pool.age[f] = StaleAge => age[f] = StaleAge
  BY <1>2
<1>10. ChlorInv'
  BY <1>1, <1>6, <1>7, <1>8, <1>9 DEF ReadingInv, ChlorInv
<1> QED BY <1>8, <1>10 DEF ReadingInv

LEMMA ReadingStart ==
  /\ ReadingPool \in ReadingPools /\ ReadingCaches \in ReadingMemories
  /\ DOMAIN ReadingPool.seen = {} /\ Room(ReadingPool.seen)
  /\ \A S : <<>> \in Seq(S)
<1>1. DOMAIN <<>> = {} /\ \A S : <<>> \in Seq(S)
  OBVIOUS
<1>2. ReadingPool.seen = <<>>
  BY DEF ReadingPool
<1>3. ReadingPool.seen \in Tables
  <2>1. <<>> \in [{} -> Entries]
    BY <1>1
  <2> QED BY <1>1, <1>2, <2>1, TableOf
<1>4. ReadingPool.chlor \in Chlors /\ ReadingPool.age \in [Readings -> 0 .. StaleAge]
  BY ReadingsAssumption DEF ReadingPool, Chlors, Values
<1>5. ReadingPool \in ReadingPools
  BY <1>3, <1>4 DEF ReadingPool, ReadingPools, Services
<1>6. ReadingCaches \in ReadingMemories
  BY <1>4 DEF ReadingCaches, ReadingMemories, Services
<1>7. Room(ReadingPool.seen)
  BY <1>1, <1>2, FS_EmptySet, ReadingsAssumption DEF Room
<1> QED BY <1>1, <1>2, <1>5, <1>6, <1>7

LEMMA ReadingsBegin == ReadingInit => ReadingInv
<1> SUFFICES ASSUME ReadingInit PROVE ReadingInv
  OBVIOUS
<1>1. pool = ReadingPool /\ last = ReadingCaches /\ todo = <<>> /\ RetainedTypeOK
  BY EventsAssumption DEF ReadingInit, Fresh, RetainedInit, RetainedTypeOK
<1>2. ReadingTypes
  BY <1>1, ReadingStart DEF ReadingTypes
<1>3. /\ pool.chlor = last.chlor /\ last.chlorEntities = {} /\ last.sensors = {} /\ last.nulls = {}
      /\ last.service = "unknown" /\ pool.service = "unknown"
      /\ \A f \in Readings : pool.chlor[f] = "none"
  BY <1>1 DEF ReadingPool, ReadingCaches, Values
<1>4. ChlorInv
  BY <1>3 DEF ChlorInv
<1>5. TempInv
  BY <1>1, <1>3, ReadingStart DEF TempInv, NullKept, SensorShown
<1>6. ServiceInv
  BY <1>3 DEF ServiceInv
<1> QED BY <1>2, <1>4, <1>5, <1>6 DEF ReadingInv

LEMMA ReadingsRestarted == ReadingInv /\ Restarted(ReadingPool, ReadingCaches) => ReadingInv'
<1> SUFFICES ASSUME ReadingInv, Restarted(ReadingPool, ReadingCaches) PROVE ReadingInv'
  OBVIOUS
<1>1. pool' = ReadingPool /\ last' = ReadingCaches /\ todo' = <<>> /\ RetainedTypeOK'
  BY EventsAssumption
  DEF Restarted, RetainedRestart, RetainedTypeOK, Event, ReadingInv, ReadingTypes
<1>2. ReadingTypes'
  <2>1. todo' \in Seq(Calls(pool.seen))'
    BY <1>1, ReadingStart
  <2>2. Room(pool.seen)'
    BY <1>1, ReadingStart DEF Room
  <2> QED BY <1>1, <2>1, <2>2, ReadingStart DEF ReadingTypes
<1>3. /\ pool'.chlor = last'.chlor /\ last'.chlorEntities = {} /\ last'.sensors = {}
      /\ last'.nulls = {} /\ last'.service = "unknown" /\ pool'.service = "unknown"
      /\ \A f \in Readings : pool'.chlor[f] = "none"
  BY <1>1 DEF ReadingPool, ReadingCaches, Values
<1>4. ChlorInv'
  BY <1>3 DEF ChlorInv
<1>5. TempInv'
  BY <1>1, <1>3, ReadingStart DEF TempInv, NullKept, SensorShown
<1>6. ServiceInv'
  BY <1>3 DEF ServiceInv
<1> QED BY <1>2, <1>4, <1>5, <1>6 DEF ReadingInv

LEMMA ReadingsStep == ReadingInv /\ ReadingNext => ReadingInv'
BY ReadingsHandled, ReadingsTicked, ChlorPublished, ReadingsExpired, TempPublished,
   ServicePublished, ReadingsLinked, ReadingsRestarted
DEF ReadingNext

(* A value that is valid is shown as it is, one that is not as unknown.     *)
LEMMA ShowsReading ==
  ASSUME NEW chlor, NEW f \in Readings
  PROVE  Shows(chlor)[f] = IF chlor[f] = "none" THEN Null ELSE chlor[f]
BY DEF Shows, Readings

LEMMA SubSequences == ASSUME NEW S, NEW T, S \subseteq T, NEW s \in Seq(S) PROVE s \in Seq(T)
BY SeqDef

LEMMA ReadingInvShows == ReadingInv => ReadingTypeOK /\ StaleReadingCleared /\ ReadingShown
<1> SUFFICES ASSUME ReadingInv PROVE ReadingTypeOK /\ StaleReadingCleared /\ ReadingShown
  OBVIOUS
<1>1. ReadingTypeOK
  <2>1. \A f \in Readings \cup Settings : pool.chlor[f] \in Levels \cup {"none"}
    BY DEF ReadingInv, ReadingTypes, ReadingPools, Chlors, Values
  <2>2. pool.age \in [Readings -> 0 .. StaleAge] /\ pool.seen \in Tables
    BY DEF ReadingInv, ReadingTypes, ReadingPools
  <2>3. Calls(pool.seen) \subseteq
          {<<"chlor">>, <<"expire">>, <<"service">>} \cup (DOMAIN pool.seen) \X Sensors
    BY DEF Calls
  <2>4. todo \in Seq({<<"chlor">>, <<"expire">>, <<"service">>} \cup (DOMAIN pool.seen) \X Sensors)
    BY <2>3, SubSequences DEF ReadingInv, ReadingTypes
  <2> QED BY <2>1, <2>2, <2>4, TableOf DEF ReadingInv, ReadingTypes, Room, ReadingTypeOK
<1>2. StaleReadingCleared
  <2>1. SUFFICES ASSUME todo = <<>>, ~ pool.ticked, ChlorTopic \notin stale,
                        NEW f \in Readings \cap last.chlorEntities
                 PROVE  broker[ChlorTopic][f] =
                          IF pool.age[f] = StaleAge THEN Null ELSE pool.chlor[f]
    BY DEF StaleReadingCleared
  <2>2. /\ KeptAs(ChlorTopic, Shows(last.chlor)) /\ last.chlor = pool.chlor
        /\ pool.age[f] = StaleAge <=> pool.chlor[f] = "none"
    BY <2>1, NoCall DEF ReadingInv, ChlorInv
  <2>3. broker[ChlorTopic] = Shows(pool.chlor)
    BY <2>1, <2>2, ShowsNotRemoved DEF KeptAs
  <2> QED BY <2>2, <2>3, ShowsReading
<1>3. ReadingShown
  <2>1. SUFFICES ASSUME todo = <<>>
                 PROVE  /\ \A d \in DOMAIN pool.seen, i \in Sensors :
                             Reads(pool.seen[d], i) =>
                               /\ Kept(Message(TempTopic(d, i), [value |-> TempValue(d, i)]))
                               /\ <<d, i>> \in last.sensors => Shown(<<"entity", TempTopic(d, i)>>)
                        /\ pool.service # "unknown" =>
                             Kept(Over(Message(ServiceTopic, [value |-> pool.service]), ServiceConfig))
    BY DEF ReadingShown, Reads
  <2>2. ASSUME NEW d \in DOMAIN pool.seen, NEW i \in Sensors, Reads(pool.seen[d], i)
        PROVE  /\ Kept(Message(TempTopic(d, i), [value |-> TempValue(d, i)]))
               /\ <<d, i>> \in last.sensors => Shown(<<"entity", TempTopic(d, i)>>)
    <3>1. d \in Devices
      BY TableOf DEF ReadingInv, ReadingTypes, ReadingPools
    <3>2. KeptAs(TempTopic(d, i), [value |-> TempValue(d, i)])
      BY <2>1, <2>2, NoCall DEF ReadingInv, TempInv, TempKept
    <3> QED BY <3>1, <3>2, KeptMessage DEF ReadingInv, TempInv, SensorShown
  <2>3. ASSUME pool.service # "unknown"
        PROVE  Kept(Over(Message(ServiceTopic, [value |-> pool.service]), ServiceConfig))
    <3>1. PICK payload, named : payload = [value |-> pool.service] /\ named = [name |-> "service"]
      OBVIOUS
    <3>2. KeptAs(ServiceTopic, payload) /\ KeptAs(ServiceEntity, named)
      BY <2>1, <2>3, <3>1, NoCall DEF ReadingInv, ServiceInv
    <3>3. PICK due : due = Over(Message(ServiceTopic, payload), Message(ServiceEntity, named))
      OBVIOUS
    <3>4. /\ DOMAIN due = {ServiceTopic, ServiceEntity}
          /\ due[ServiceTopic] = payload /\ due[ServiceEntity] = named
      BY <3>3 DEF Over, Message, ServiceTopic, ServiceEntity
    <3>5. Kept(due)
      BY <3>2, <3>4, KeptEach
    <3> QED BY <3>1, <3>3, <3>5 DEF ServiceConfig, ServiceEntity
  <2> QED BY <2>2, <2>3
<1> QED BY <1>1, <1>2, <1>3

-----------------------------------------------------------------------------
(* Channels. What the caches say was published, or a publication past its   *)
(* sending, is with the broker, or was dropped.                             *)
LooksKept(c, look, pumpType) == look # Never => Kept(ChannelConfig(c, look, pumpType))
SeenKept(c, seen) == seen # Never => Kept(ChannelValues(c, seen))

Recorded(c) == \E t \in Tasks : inHand[t].phase = "record" /\ inHand[t].channel = c
CacheHeld(c) ==
  ~Recorded(c) => LooksKept(c, last.look[c], last.pumpType) /\ SeenKept(c, last.seen[c])

(* A publication in hand has what is news to the caches, has it at the      *)
(* broker when it is past its sending, is about the channel as it is or     *)
(* will be followed by another, and is the only one about its channel.      *)
NewsHeld(t, c) ==
  LET p == inHand[t]
  IN  /\ p.announce <=> (p.look # last.look[c] \/ (p.look.type = "filter" /\ last.pumpType # p.pumpType))
      /\ p.report <=> p.seen # last.seen[c]
SentHeld(t, c) ==
  LET p == inHand[t]
  IN  p.phase = "record" => LooksKept(c, p.look, p.pumpType) /\ SeenKept(c, p.seen)
CurrentHeld(t, c) ==
  LET p == inHand[t]
  IN  (c \in fresh /\ \A u \in Tasks : u # t => c \notin todo[u]) =>
        /\ p.look = ChannelLook(c) /\ p.seen = ChannelSeen(c)
        /\ Ch(c).type = "filter" => p.pumpType = kept.pumpType
Alone(t, c) == \A u \in Tasks : InHand(u, c) => u = t
PublicationInv(c) ==
  \A t \in Tasks :
    InHand(t, c) => NewsHeld(t, c) /\ SentHeld(t, c) /\ CurrentHeld(t, c) /\ Alone(t, c)

(* A channel a status frame left, and nobody has to publish, was published  *)
(* as it is.                                                                *)
ChannelSaid(c) ==
  (c \in fresh /\ \A t \in Tasks : c \notin todo[t]) =>
     /\ last.look[c] = ChannelLook(c) /\ last.seen[c] = ChannelSeen(c)
     /\ Ch(c).type = "filter" => last.pumpType = kept.pumpType

(* What a status frame leaves of a channel: it is in use, a solar channel   *)
(* as broadcast, the filter's in a mode its pump has, and with the pump     *)
(* stopped if it is inactive.                                               *)
SolarHeld(ch, solar) ==
  ch.type = "solar" => /\ solar.mode \in {"unknown", ch.state}
                       /\ solar.active = "unknown" \/ ch.active = (solar.active = "yes")
PumpTypeDue == IF inHand["bridge"].phase = "learn" THEN inHand["bridge"].pumpType ELSE kept.pumpType
FreshHeld(c) ==
  c \in fresh =>
    /\ Ch(c).configured
    /\ SolarHeld(Ch(c), pool.solar)
    /\ Ch(c).type = "filter" => Ch(c).state \in Options("filter", PumpTypeDue)
    /\ (Pump \in fresh /\ Ch(c).type = "filter" /\ ~Ch(c).active /\ kept.pumpSeen) =>
         pool.pump = Stopped

(* Only the filter's channel is published with the type of the pump, and it *)
(* is published when that is learnt.                                        *)
MayFilter(c) == \E r \in Reports[c] \ {Absent, Unused} : r.type = "filter"
FilterHeld(c) ==
  /\ Ch(c).type = "filter" => MayFilter(c)
  /\ last.look[c] # Never /\ last.look[c].type = "filter" => MayFilter(c)
  /\ \A t \in Tasks : InHand(t, c) /\ inHand[t].look.type = "filter" => MayFilter(c)
  /\ inHand["bridge"].phase = "learn" /\ Ch(c).type = "filter" => c \in todo["bridge"]

(* The pump is published only for an install that reported telemetry, and   *)
(* whenever its readings change.                                            *)
NoTelemetry == [speed |-> "unknown", power |-> "unknown"]
PumpInv ==
  /\ Pump \in todo["bridge"] \/ Shown(PumpTopic) => kept.pumpSeen
  /\ last.pump # "none" => Kept(PumpConfig(last.pump))
  /\ Pump \notin todo["bridge"] /\ pool.pump # NoTelemetry =>
       Kept(PumpConfig(PumpLook)) /\ Kept(Message(PumpValues, pool.pump))

ChannelShapes ==
  /\ DOMAIN last = {"look", "seen", "pumpType", "pump"}
  /\ DOMAIN last.look = Channels /\ DOMAIN last.seen = Channels
  /\ DOMAIN kept = {"watts", "pumpType", "pumpSeen"} /\ DOMAIN kept.watts = Channels
  /\ DOMAIN pool = {"ch", "zone", "solar", "pump"} /\ DOMAIN pool.solar = {"mode", "active"}
  /\ DOMAIN inHand = Tasks /\ \A t \in Tasks : "phase" \in DOMAIN inHand[t]
  /\ pool.solar.mode \in States \cup {"unknown"}
  /\ Pump \notin todo["mqtt"] /\ inHand["mqtt"].phase # "learn"
  /\ last.pump \in {"none", "speed", "power"}
  /\ inHand["bridge"].phase = "learn" => inHand["bridge"].pumpType \in PumpTypes

ChannelInv ==
  /\ ChannelTypeOK /\ ChannelShapes /\ PumpInv
  /\ \A c \in Channels :
       /\ FreshHeld(c) /\ FilterHeld(c)
       /\ c \notin raced => CacheHeld(c) /\ PublicationInv(c) /\ ChannelSaid(c)

LEMMA KeptStill ==
  ASSUME UNCHANGED <<broker, stale>>, NEW due PROVE Kept(due) <=> Kept(due)'
BY DEF Kept, Shown

LEMMA CachesStill ==
  ASSUME UNCHANGED <<broker, stale>>, NEW c, NEW look, NEW pumpType, NEW seen
  PROVE  /\ LooksKept(c, look, pumpType) <=> LooksKept(c, look, pumpType)'
         /\ SeenKept(c, seen) <=> SeenKept(c, seen)'
<1>1. PICK config, values : config = ChannelConfig(c, look, pumpType) /\ values = ChannelValues(c, seen)
  OBVIOUS
<1>2. (Kept(config) <=> Kept(config)') /\ (Kept(values) <=> Kept(values)')
  BY KeptStill
<1> QED BY <1>1, <1>2 DEF LooksKept, SeenKept

LEMMA TwoTasks == "bridge" \in Tasks /\ "mqtt" \in Tasks /\ \A t \in Tasks : t \in {"bridge", "mqtt"}
BY DEF Tasks

(* While a frame is decoded nobody publishes.                               *)
LEMMA NobodyPublishes ==
  ASSUME ChannelTypeOK, todo["bridge"] = {}, inHand["mqtt"] = Idle
  PROVE  /\ \A t \in Tasks : inHand[t] = Idle
         /\ \A c : ~ Recorded(c)
         /\ PumpTypeDue = kept.pumpType
<1>1. ASSUME NEW t \in Tasks PROVE inHand[t] = Idle
  BY <1>1, TwoTasks DEF ChannelTypeOK
<1>2. \A c : ~ Recorded(c)
  BY <1>1 DEF Recorded, Idle
<1>3. PumpTypeDue = kept.pumpType
  BY <1>1, TwoTasks DEF PumpTypeDue, Idle
<1> QED BY <1>1, <1>2, <1>3

(* A frame: what is neither called nor left out is as it was.               *)
LEMMA ChannelDecodes ==
  ASSUME ChannelInv, NEW new, NEW known, NEW calls, ChannelFrame(new, known, calls),
         NEW held, DOMAIN inHand' = Tasks, inHand'["bridge"] = held, inHand'["mqtt"] = Idle,
         "phase" \in DOMAIN held,
         held = Idle \/ (held.phase = "learn" /\ held.pumpType \in PumpTypes /\ calls \cap Channels # {}),
         DOMAIN kept' = DOMAIN kept, kept'.watts = kept.watts, kept'.pumpType = kept.pumpType,
         calls \subseteq Channels \cup {Pump}, known \subseteq fresh \cup calls \cup {Pump},
         DOMAIN new = DOMAIN pool, DOMAIN new.solar = DOMAIN pool.solar,
         new.solar.mode \in States \cup {"unknown"},
         new.ch \in [Channels -> ChannelRecords],
         (Pump \in calls \/ kept.pumpSeen) => kept'.pumpSeen,
         Pump \notin calls => new.pump = pool.pump,
         \A c \in Channels : FreshHeld(c)' /\ (Ch(c)'.type = "filter" => MayFilter(c)),
         \A c \in Channels : held # Idle /\ Ch(c)'.type = "filter" => c \in calls,
         \A c \in Channels : c \in known \ calls =>
           /\ c \in fresh /\ Ch(c)'.type = Ch(c).type
           /\ ChannelLook(c)' = ChannelLook(c) /\ ChannelSeen(c)' = ChannelSeen(c)
  PROVE  ChannelInv'
<1>0. /\ pool' = new /\ fresh' = known /\ todo' = [todo EXCEPT !["bridge"] = calls]
      /\ todo["bridge"] = {} /\ inHand["mqtt"] = Idle
      /\ UNCHANGED <<link, broker, stale, last, raced>> /\ Event
      /\ ChannelTypeOK /\ ChannelShapes /\ PumpInv
  BY DEF ChannelFrame, ChannelInv
<1>1. /\ todo'["bridge"] = calls /\ todo'["mqtt"] = todo["mqtt"]
      /\ todo' \in [Tasks -> SUBSET (Channels \cup {Pump})]
  BY <1>0 DEF ChannelTypeOK, Tasks
<1>2. inHand'["bridge"] = held /\ inHand'["mqtt"] = Idle /\ DOMAIN inHand' = Tasks
  OBVIOUS
<1>3. \A t \in Tasks : inHand'[t] = Idle \/ inHand'[t].phase = "learn"
  BY <1>2, TwoTasks
<1>4. ASSUME NEW t \in Tasks, NEW c PROVE ~ InHand(t, c)'
  BY <1>3 DEF InHand, Idle
<1>5. ASSUME NEW c PROVE ~ Recorded(c)'
  BY <1>3 DEF Recorded, Idle
<1>6. ChannelTypeOK'
  <2>1. RetainedTypeOK'
    BY <1>0, EventsAssumption DEF Event, RetainedTypeOK, ChannelTypeOK
  <2>2. ASSUME NEW t \in Tasks
        PROVE  inHand'[t] = Idle \/ (t = "bridge" /\ inHand'[t].phase = "learn" /\ todo'[t] \cap Channels # {})
    BY <1>1, <1>2, TwoTasks
  <2> QED BY <2>1, <2>2, <1>0, <1>1 DEF ChannelTypeOK
<1>7. ChannelShapes'
  <2>1. inHand'["mqtt"].phase # "learn" /\ (inHand'["bridge"].phase = "learn" => inHand'["bridge"].pumpType \in PumpTypes)
    BY <1>2 DEF Idle
  <2>2. \A t \in Tasks : "phase" \in DOMAIN inHand'[t]
    BY <1>2, TwoTasks DEF Idle
  <2> QED BY <2>1, <2>2, <1>0, <1>1, <1>2 DEF ChannelShapes
<1>8. PumpInv'
  <2>1. Pump \in todo'["bridge"] \/ Shown(PumpTopic)' => kept'.pumpSeen
    BY <1>0, <1>1 DEF PumpInv, Shown, PumpTopic
  <2>2. last'.pump # "none" => Kept(PumpConfig(last.pump))'
    <3>1. PICK due : due = PumpConfig(last.pump) /\ due = PumpConfig(last'.pump)
      BY <1>0
    <3> QED BY <3>1, <1>0, KeptStill DEF PumpInv
  <2>3. ASSUME Pump \notin todo'["bridge"], pool'.pump # NoTelemetry
        PROVE  Kept(PumpConfig(PumpLook))' /\ Kept(Message(PumpValues, pool.pump))'
    <3>1. pool'.pump = pool.pump /\ Pump \notin todo["bridge"]
      BY <2>3, <1>0, <1>1
    <3>2. PICK due, due2 : due = PumpConfig(PumpLook) /\ due2 = Message(PumpValues, pool.pump)
      OBVIOUS
    <3>3. PumpLook' = PumpLook
      BY <3>1 DEF PumpLook
    <3>4. PumpConfig(PumpLook)' = due /\ Message(PumpValues, pool.pump)' = due2
      BY <3>1, <3>2, <3>3 DEF PumpConfig
    <3>5. Kept(due)' /\ Kept(due2)'
      BY <3>1, <3>2, <2>3, <1>0, KeptStill DEF PumpInv
    <3> QED BY <3>4, <3>5
  <2> QED BY <2>1, <2>2, <2>3 DEF PumpInv
<1>9. ASSUME NEW c \in Channels PROVE FilterHeld(c)'
  <2>1. (Ch(c)'.type = "filter" => MayFilter(c)) /\ (last.look[c] # Never /\ last.look[c].type = "filter" => MayFilter(c))
    BY DEF ChannelInv, FilterHeld
  <2>2. inHand'["bridge"].phase = "learn" /\ Ch(c)'.type = "filter" => c \in todo'["bridge"]
    BY <1>1, <1>2 DEF Idle
  <2> QED BY <2>1, <2>2, <1>0, <1>4 DEF FilterHeld, MayFilter
<1>10. ASSUME NEW c \in Channels, c \notin raced'
       PROVE  CacheHeld(c)' /\ PublicationInv(c)' /\ ChannelSaid(c)'
  <2>0. CacheHeld(c) /\ ChannelSaid(c) /\ ~ Recorded(c)
    BY <1>10, <1>0, NobodyPublishes DEF ChannelInv
  <2>1. CacheHeld(c)'
    <3>1. PICK look, pumpType, seen : look = last.look[c] /\ pumpType = last.pumpType /\ seen = last.seen[c]
      OBVIOUS
    <3>2. LooksKept(c, look, pumpType)' /\ SeenKept(c, seen)'
      BY <3>1, <2>0, <1>0, CachesStill DEF CacheHeld
    <3>3. last'.look[c] = look /\ last'.pumpType = pumpType /\ last'.seen[c] = seen
      BY <3>1, <1>0
    <3> QED BY <3>2, <3>3 DEF CacheHeld
  <2>2. PublicationInv(c)'
    BY <1>4 DEF PublicationInv
  <2>3. ChannelSaid(c)'
    <3> SUFFICES ASSUME c \in known, \A t \in Tasks : c \notin todo'[t]
                 PROVE  /\ last'.look[c] = ChannelLook(c)' /\ last'.seen[c] = ChannelSeen(c)'
                        /\ Ch(c)'.type = "filter" => last'.pumpType = kept'.pumpType
      BY <1>0 DEF ChannelSaid
    <3>1. c \notin calls /\ c \notin todo["mqtt"] /\ c \notin todo["bridge"]
      BY <1>0, <1>1, TwoTasks
    <3>2. c \in fresh /\ Ch(c)'.type = Ch(c).type /\ ChannelLook(c)' = ChannelLook(c) /\ ChannelSeen(c)' = ChannelSeen(c)
      BY <3>1
    <3>3. \A t \in Tasks : c \notin todo[t]
      BY <3>1, TwoTasks
    <3> QED BY <3>2, <3>3, <2>0, <1>0 DEF ChannelSaid
  <2> QED BY <2>1, <2>2, <2>3
<1> QED BY <1>6, <1>7, <1>8, <1>9, <1>10, <1>0 DEF ChannelInv

(* A channel with its watts, and for a light zone its rank and the names of *)
(* zones, looks the same.                                                   *)
LEMMA SameLooks ==
  ASSUME NEW c \in Channels, Ch(c)' = Ch(c), kept'.watts = kept.watts,
         Ch(c).type = "light" =>
           /\ pool'.zone = pool.zone
           /\ \A i \in 1 .. c : InUseAs(Ch(i), "light")' = InUseAs(Ch(i), "light")
  PROVE  ChannelLook(c)' = ChannelLook(c) /\ ChannelSeen(c)' = ChannelSeen(c)
<1>1. PowerKnown(c)' = PowerKnown(c) /\ Power(c)' = Power(c)
  BY DEF PowerKnown, Power
<1>2. DisplayName(c)' = DisplayName(c)
  <2>1. CASE Ch(c).type = "light"
    <3>1. {i \in 1 .. c : InUseAs(Ch(i), "light")}' = {i \in 1 .. c : InUseAs(Ch(i), "light")}
      BY <2>1
    <3>2. ZoneRank(c)' = ZoneRank(c)
      BY <3>1 DEF ZoneRank
    <3> QED BY <2>1, <3>2 DEF DisplayName
  <2>2. CASE Ch(c).type # "light"
    BY <2>2 DEF DisplayName
  <2> QED BY <2>1, <2>2
<1> QED BY <1>1, <1>2 DEF ChannelLook, ChannelSeen

LEMMA HeldStill ==
  ASSUME ChannelInv, todo["bridge"] = {}, inHand["mqtt"] = Idle, UNCHANGED inHand
  PROVE  /\ "phase" \in DOMAIN Idle
         /\ DOMAIN inHand' = Tasks /\ inHand'["bridge"] = Idle /\ inHand'["mqtt"] = Idle
         /\ kept'.pumpType = kept.pumpType => PumpTypeDue' = PumpTypeDue
<1>1. inHand["bridge"] = Idle /\ DOMAIN inHand = Tasks
  BY NobodyPublishes, TwoTasks DEF ChannelInv, ChannelShapes
<1>2. "phase" \in DOMAIN Idle
  BY DEF Idle
<1> QED BY <1>1, <1>2 DEF PumpTypeDue

(* A register of a channel.                                                 *)
LEMMA RegisterDecodes ==
  ASSUME ChannelInv, NEW c \in Channels, NEW new \in ChannelRecords, NEW unpublished, NEW calls,
         ChannelRegister(c, new, unpublished, calls),
         calls \subseteq {c}, unpublished \subseteq {c},
         new.type = "filter" => MayFilter(c),
         c \in fresh \ unpublished =>
           /\ new.configured /\ SolarHeld(new, pool.solar) /\ new.type = Ch(c).type
           /\ new = Ch(c) \/ (c \in calls /\ new.type # "filter")
  PROVE  ChannelInv'
<1> DEFINE known == fresh \ (unpublished \cup Displaced(c, new))
           after == [pool EXCEPT !.ch[c] = new]
<1>0. /\ ChannelFrame(after, known, calls) /\ UNCHANGED <<kept, inHand>>
      /\ pool' = after /\ fresh' = known /\ todo["bridge"] = {} /\ inHand["mqtt"] = Idle
      /\ ChannelTypeOK /\ ChannelShapes
  BY DEF ChannelRegister, ChannelFrame, ChannelInv
<1>1. /\ DOMAIN after = DOMAIN pool /\ after.solar = pool.solar /\ after.zone = pool.zone
      /\ after.pump = pool.pump /\ after.ch = [pool.ch EXCEPT ![c] = new]
  BY <1>0 DEF ChannelShapes
<1>2. after.ch \in [Channels -> ChannelRecords]
  BY <1>0, <1>1 DEF ChannelTypeOK
<1>3. Ch(c)' = new /\ \A d \in Channels : d # c => Ch(d)' = Ch(d)
  BY <1>0, <1>1 DEF ChannelTypeOK, Ch
<1>4. /\ "phase" \in DOMAIN Idle /\ DOMAIN inHand' = Tasks /\ inHand'["bridge"] = Idle /\ inHand'["mqtt"] = Idle
      /\ PumpTypeDue' = PumpTypeDue
  BY <1>0, HeldStill
<1>5. ASSUME NEW d \in Channels PROVE FreshHeld(d)' /\ (Ch(d)'.type = "filter" => MayFilter(d))
  <2>1. CASE d # c
    BY <2>1, <1>0, <1>1, <1>3, <1>4 DEF ChannelInv, FreshHeld, FilterHeld
  <2>2. CASE d = c
    <3>1. c \in fresh' => c \in fresh \ unpublished
      BY <1>0
    <3>2. CASE c \in fresh' /\ new = Ch(c)
      BY <2>2, <3>1, <3>2, <1>0, <1>1, <1>3, <1>4 DEF ChannelInv, FreshHeld
    <3>3. CASE c \in fresh' /\ new.type # "filter"
      BY <2>2, <3>1, <3>3, <1>0, <1>1, <1>3 DEF FreshHeld
    <3> QED BY <2>2, <3>1, <3>2, <3>3, <1>3 DEF FreshHeld
  <2> QED BY <2>1, <2>2
<1>6. ASSUME NEW d \in Channels, d \in known \ calls
      PROVE  /\ d \in fresh /\ Ch(d)'.type = Ch(d).type
             /\ ChannelLook(d)' = ChannelLook(d) /\ ChannelSeen(d)' = ChannelSeen(d)
  <2>1. d \in fresh /\ Ch(d)' = Ch(d)
    BY <1>3, <1>6
  <2>2. ASSUME Ch(d).type = "light", NEW i \in 1 .. d
        PROVE  InUseAs(Ch(i), "light")' = InUseAs(Ch(i), "light")
    <3>1. i \in Channels
      BY ChannelsAssumption DEF Channels
    <3>2. CASE i # c
      BY <3>1, <3>2, <1>3 DEF InUseAs
    <3>3. CASE i = c
      <4>1. CASE d = c
        BY <3>3, <4>1, <2>1 DEF InUseAs
      <4>2. CASE d # c
        <5>1. d > c
          BY <3>3, <4>2, ChannelsAssumption DEF Channels
        <5>2. InUseAs(new, "light") = InUseAs(Ch(c), "light")
          BY <5>1, <1>6 DEF Displaced
        <5> QED BY <3>3, <5>2, <1>3 DEF InUseAs
      <4> QED BY <4>1, <4>2
    <3> QED BY <3>2, <3>3
  <2> QED BY <2>1, <2>2, <1>0, <1>1, SameLooks
<1>7. Pump \in calls \/ kept.pumpSeen => kept'.pumpSeen
  BY <1>0 DEF Channels, Pump
<1>8. /\ DOMAIN kept' = DOMAIN kept /\ kept'.watts = kept.watts /\ kept'.pumpType = kept.pumpType
      /\ calls \subseteq Channels \cup {Pump} /\ known \subseteq fresh \cup calls \cup {Pump}
      /\ after.solar.mode \in States \cup {"unknown"} /\ DOMAIN after.solar = DOMAIN pool.solar
  BY <1>0, <1>1 DEF ChannelShapes
<1> HIDE DEF known, after
<1> QED BY <1>0, <1>1, <1>2, <1>4, <1>5, <1>6, <1>7, <1>8, ChannelDecodes

LEMMA SolarApplied ==
  ASSUME NEW ch \in ChannelRecords, NEW solar, solar.mode \in States \cup {"unknown"}
  PROVE  LET applied == ApplySolar(ch, solar)
         IN  /\ applied \in ChannelRecords
             /\ applied.type = ch.type /\ applied.configured = ch.configured
             /\ ch.type # "solar" => applied = ch
             /\ SolarHeld(applied, solar)
<1>1. CASE ch.type # "solar"
  BY <1>1 DEF ApplySolar, SolarHeld
<1>2. CASE ch.type = "solar"
  <2> DEFINE state == IF solar.mode = "unknown" THEN ch.state ELSE solar.mode
             active == IF solar.active = "unknown" THEN ch.active ELSE solar.active = "yes"
  <2>1. state \in States /\ active \in BOOLEAN
    BY DEF ChannelRecords
  <2>2. ApplySolar(ch, solar) = [ch EXCEPT !.state = state, !.active = active]
    BY <1>2 DEF ApplySolar
  <2>3. SolarHeld([ch EXCEPT !.state = state, !.active = active], solar)
    BY DEF SolarHeld, ChannelRecords
  <2> HIDE DEF state, active
  <2>4. /\ [ch EXCEPT !.state = state, !.active = active] \in ChannelRecords
        /\ [ch EXCEPT !.state = state, !.active = active].type = ch.type
        /\ [ch EXCEPT !.state = state, !.active = active].configured = ch.configured
    BY <2>1 DEF ChannelRecords
  <2> QED BY <2>2, <2>3, <2>4, <1>2
<1> QED BY <1>1, <1>2

LEMMA ChTyped == ChannelInv => \A c \in Channels : Ch(c) \in ChannelRecords
BY DEF ChannelInv, ChannelTypeOK, Ch

LEMMA SolarTyped == ChannelInv => pool.solar.mode \in States \cup {"unknown"}
BY DEF ChannelInv, ChannelShapes

(* What a report says of a channel.                                         *)
LEMMA ReportTyped ==
  ASSUME NEW c \in Channels, NEW r \in Reports[c], r \notin {Absent, Unused}
  PROVE  /\ r.type \in ChannelTypes /\ r.state \in States /\ r.active \in BOOLEAN
         /\ r.type = "filter" => MayFilter(c)
<1>1. r \in (UNION {Reports[d] : d \in Channels}) \ {Absent, Unused}
  <2>1. Reports[c] \in {Reports[d] : d \in Channels}
    OBVIOUS
  <2> QED BY <2>1
<1>2. r.type \in ChannelTypes
  BY <1>1 DEF ChannelTypes
<1>3. r.state \in States /\ r.active \in BOOLEAN
  BY ChannelsAssumption
<1> QED BY <1>2, <1>3 DEF MayFilter

LEMMA OneFilter ==
  ASSUME NEW c \in Channels, NEW d \in Channels, MayFilter(c), MayFilter(d)
  PROVE  c = d
BY ChannelsAssumption DEF MayFilter

LEMMA TypeDecoded ==
  ASSUME ChannelInv, NEW c \in Channels, NEW r \in Reports[c] \ {Absent, Unused},
         ChannelType(c, r.type)
  PROVE  ChannelInv'
<1> DEFINE typed == [Ch(c) EXCEPT !.type = r.type, !.configured = TRUE]
           new == ApplySolar(typed, pool.solar)
<1>1. typed \in ChannelRecords /\ typed.type = r.type
  BY ReportTyped, ChTyped DEF ChannelRecords
<1>2. new \in ChannelRecords /\ new.type = r.type
  BY <1>1, SolarTyped, SolarApplied
<1>3. ChannelRegister(c, new, {c}, {})
  BY DEF ChannelType
<1> HIDE DEF new
<1> QED BY <1>2, <1>3, ReportTyped, RegisterDecodes

LEMMA NameDecoded ==
  ASSUME ChannelInv, NEW c \in Channels, NEW name \in Names, ChannelName(c, name)
  PROVE  ChannelInv'
<1> DEFINE new == [Ch(c) EXCEPT !.name = name]
<1>1. new \in ChannelRecords /\ new.type = Ch(c).type
  BY ChTyped DEF ChannelRecords
<1>2. ChannelRegister(c, new, {c}, {}) /\ (Ch(c).type = "filter" => MayFilter(c))
  BY DEF ChannelName, ChannelInv, FilterHeld
<1> HIDE DEF new
<1> QED BY <1>1, <1>2, RegisterDecodes

LEMMA CategoryDecoded ==
  ASSUME ChannelInv, NEW c \in Channels, ChannelCategory(c)
  PROVE  ChannelInv'
<1> DEFINE new == [Ch(c) EXCEPT !.configured = TRUE]
<1>1. new \in ChannelRecords /\ new.type = Ch(c).type
  BY ChTyped DEF ChannelRecords
<1>2. ChannelRegister(c, new, {c}, {}) /\ (Ch(c).type = "filter" => MayFilter(c))
  BY DEF ChannelCategory, ChannelInv, FilterHeld
<1> HIDE DEF new
<1> QED BY <1>1, <1>2, RegisterDecodes

LEMMA SameRecord ==
  ASSUME NEW a \in ChannelRecords, NEW b \in ChannelRecords,
         a.configured = b.configured, a.type = b.type, a.state = b.state,
         a.active = b.active, a.name = b.name
  PROVE  a = b
<1>1. /\ a = [configured |-> a.configured, type |-> a.type, state |-> a.state,
               active |-> a.active, name |-> a.name]
      /\ b = [configured |-> b.configured, type |-> b.type, state |-> b.state,
               active |-> b.active, name |-> b.name]
  BY DEF ChannelRecords
<1> QED BY <1>1

(* A state that is heard changes a channel, or it was the broadcast one of  *)
(* a solar channel already.                                                 *)
LEMMA StateDecoded ==
  ASSUME ChannelInv, NEW c \in Channels, NEW state \in States, ChannelState(c, state)
  PROVE  ChannelInv'
<1>0. Ch(c) \in ChannelRecords /\ (Ch(c).type = "filter" => MayFilter(c))
      /\ pool.solar.mode \in States \cup {"unknown"}
  BY ChTyped, SolarTyped DEF ChannelInv, FilterHeld
<1>1. CASE ~ HearsState(c, state)
  <2>1. ChannelRegister(c, Ch(c), {}, {})
    BY <1>1 DEF ChannelState
  <2>2. c \in fresh => Ch(c).configured /\ SolarHeld(Ch(c), pool.solar)
    BY DEF ChannelInv, FreshHeld
  <2> QED BY <2>1, <2>2, <1>0, RegisterDecodes
<1>2. CASE HearsState(c, state)
  <2> DEFINE said == [Ch(c) EXCEPT !.state = state]
             heard == ApplySolar(said, pool.solar)
             new == [heard EXCEPT !.configured = TRUE]
             changed == ~Ch(c).configured \/ heard.state # Ch(c).state
             unpublished == IF Ch(c).type = "filter" THEN {c} ELSE {}
             calls == IF changed THEN {c} ELSE {}
  <2>1. /\ said \in ChannelRecords /\ said.type = Ch(c).type /\ said.configured = Ch(c).configured
        /\ said.active = Ch(c).active /\ said.name = Ch(c).name
    BY <1>0 DEF ChannelRecords
  <2>2. /\ heard \in ChannelRecords /\ heard.type = Ch(c).type /\ heard.configured = Ch(c).configured
        /\ SolarHeld(heard, pool.solar)
    BY <2>1, <1>0, SolarApplied
  <2>3. /\ new \in ChannelRecords /\ new.type = Ch(c).type /\ new.configured
        /\ new.state = heard.state /\ new.active = heard.active
    BY <2>2 DEF ChannelRecords
  <2>4. SolarHeld(new, pool.solar)
    BY <2>2, <2>3 DEF SolarHeld
  <2>5. ChannelRegister(c, new, unpublished, calls)
    BY <1>2 DEF ChannelState
  <2>6. ASSUME c \in fresh, ~ changed PROVE new = Ch(c)
    <3>1. Ch(c).configured /\ SolarHeld(Ch(c), pool.solar)
      BY <2>6 DEF ChannelInv, FreshHeld
    <3>2. heard.state = Ch(c).state /\ heard.active = Ch(c).active /\ heard.name = Ch(c).name
      <4>1. CASE Ch(c).type # "solar"
        BY <4>1, <2>1, <2>6 DEF ApplySolar
      <4>2. CASE Ch(c).type = "solar"
        <5>1. heard.state = Ch(c).state
          BY <2>6
        <5>2. heard.name = Ch(c).name
          BY <4>2, <2>1 DEF ApplySolar, ChannelRecords
        <5>3. heard.active = IF pool.solar.active = "unknown" THEN Ch(c).active
                             ELSE pool.solar.active = "yes"
          BY <4>2, <2>1 DEF ApplySolar, ChannelRecords
        <5>4. pool.solar.active = "unknown" \/ Ch(c).active = (pool.solar.active = "yes")
          BY <3>1, <4>2 DEF SolarHeld
        <5> QED BY <5>1, <5>2, <5>3, <5>4
      <4> QED BY <4>1, <4>2
    <3>3. new.configured = Ch(c).configured /\ new.type = Ch(c).type /\ new.state = Ch(c).state
          /\ new.active = Ch(c).active /\ new.name = Ch(c).name
      BY <3>1, <3>2, <2>2, <2>3, <1>0 DEF ChannelRecords
    <3> HIDE DEF new
    <3> QED BY <3>3, <2>3, <1>0, SameRecord
  <2>7. calls \subseteq {c} /\ unpublished \subseteq {c}
    OBVIOUS
  <2>8. c \in fresh \ unpublished => new = Ch(c) \/ (c \in calls /\ new.type # "filter")
    BY <2>3, <2>6
  <2> HIDE DEF new, changed, calls, unpublished
  <2> QED BY <2>3, <2>4, <2>5, <2>7, <2>8, <1>0, RegisterDecodes
<1> QED BY <1>1, <1>2

LEMMA ZoneDecoded ==
  ASSUME ChannelInv, NEW z \in Channels, NEW name, ZoneName(z, name)
  PROVE  ChannelInv'
<1> DEFINE known == {c \in fresh : c # Pump => Ch(c).type # "light"}
           after == [pool EXCEPT !.zone[z] = name]
<1>0. /\ ChannelFrame(after, known, {}) /\ UNCHANGED <<kept, inHand>>
      /\ pool' = after /\ fresh' = known /\ todo["bridge"] = {} /\ inHand["mqtt"] = Idle
      /\ ChannelTypeOK /\ ChannelShapes
  BY DEF ZoneName, ChannelFrame, ChannelInv
<1>1. /\ DOMAIN after = DOMAIN pool /\ after.solar = pool.solar
      /\ after.pump = pool.pump /\ after.ch = pool.ch
  BY <1>0 DEF ChannelShapes
<1>2. \A d : Ch(d)' = Ch(d)
  BY <1>0, <1>1 DEF Ch
<1>3. /\ "phase" \in DOMAIN Idle /\ DOMAIN inHand' = Tasks /\ inHand'["bridge"] = Idle /\ inHand'["mqtt"] = Idle
      /\ PumpTypeDue' = PumpTypeDue
  BY <1>0, HeldStill
<1>4. ASSUME NEW d \in Channels PROVE FreshHeld(d)' /\ (Ch(d)'.type = "filter" => MayFilter(d))
  BY <1>0, <1>1, <1>2, <1>3 DEF ChannelInv, FreshHeld, FilterHeld
<1>5. ASSUME NEW d \in Channels, d \in known \ {}
      PROVE  /\ d \in fresh /\ Ch(d)'.type = Ch(d).type
             /\ ChannelLook(d)' = ChannelLook(d) /\ ChannelSeen(d)' = ChannelSeen(d)
  <2>1. d \in fresh /\ Ch(d).type # "light"
    BY <1>5 DEF Pump, Channels
  <2> QED BY <2>1, <1>0, <1>2, SameLooks
<1>6. after.ch \in [Channels -> ChannelRecords] /\ after.solar.mode \in States \cup {"unknown"}
  BY <1>0, <1>1 DEF ChannelTypeOK, ChannelShapes
<1>7. known \subseteq fresh
  OBVIOUS
<1> HIDE DEF known, after
<1> QED BY <1>0, <1>1, <1>3, <1>4, <1>5, <1>6, <1>7, ChannelDecodes

LEMMA SolarDecoded ==
  ASSUME ChannelInv, NEW solar, Solar(solar),
         DOMAIN solar = {"mode", "active"}, solar.mode \in States \cup {"unknown"}
  PROVE  ChannelInv'
<1> DEFINE new == [c \in Channels |-> IF Ch(c).configured THEN ApplySolar(Ch(c), solar) ELSE Ch(c)]
           calls == {c \in Channels : new[c] # Ch(c)}
           after == [pool EXCEPT !.solar = solar, !.ch = new]
<1>0. /\ ChannelFrame(after, fresh, calls) /\ UNCHANGED <<kept, inHand>>
      /\ pool' = after /\ fresh' = fresh /\ todo["bridge"] = {} /\ inHand["mqtt"] = Idle
      /\ ChannelTypeOK /\ ChannelShapes
  BY DEF Solar, ChannelFrame, ChannelInv
<1>1. /\ DOMAIN after = DOMAIN pool /\ after.solar = solar
      /\ after.pump = pool.pump /\ after.ch = new /\ after.zone = pool.zone
  BY <1>0 DEF ChannelShapes
<1>2. ASSUME NEW c \in Channels
      PROVE  /\ Ch(c)' = new[c] /\ new[c] \in ChannelRecords
             /\ new[c].type = Ch(c).type /\ new[c].configured = Ch(c).configured
             /\ Ch(c).type # "solar" => new[c] = Ch(c)
             /\ Ch(c).configured => SolarHeld(new[c], solar)
  <2>1. Ch(c)' = new[c]
    BY <1>0, <1>1 DEF Ch
  <2>2. Ch(c) \in ChannelRecords
    BY ChTyped
  <2> QED BY <2>1, <2>2, SolarApplied
<1>3. new \in [Channels -> ChannelRecords]
  BY <1>2
<1> HIDE DEF new
<1>4. /\ "phase" \in DOMAIN Idle /\ DOMAIN inHand' = Tasks /\ inHand'["bridge"] = Idle /\ inHand'["mqtt"] = Idle
      /\ PumpTypeDue' = PumpTypeDue
  BY <1>0, HeldStill
<1>5. ASSUME NEW d \in Channels PROVE FreshHeld(d)' /\ (Ch(d)'.type = "filter" => MayFilter(d))
  <2>1. Ch(d)'.type = "filter" => MayFilter(d)
    BY <1>2 DEF ChannelInv, FilterHeld
  <2>2. ASSUME d \in fresh
        PROVE  /\ Ch(d)'.configured /\ SolarHeld(Ch(d)', pool'.solar)
               /\ Ch(d)'.type = "filter" => Ch(d)' = Ch(d)
    BY <2>2, <1>0, <1>1, <1>2 DEF ChannelInv, FreshHeld
  <2> QED BY <2>1, <2>2, <1>0, <1>1, <1>2, <1>4 DEF ChannelInv, FreshHeld
<1>6. ASSUME NEW d \in Channels, d \in fresh \ calls
      PROVE  /\ d \in fresh /\ Ch(d)'.type = Ch(d).type
             /\ ChannelLook(d)' = ChannelLook(d) /\ ChannelSeen(d)' = ChannelSeen(d)
  <2>1. Ch(d)' = Ch(d)
    BY <1>2, <1>6
  <2>2. ASSUME NEW i \in 1 .. d PROVE InUseAs(Ch(i), "light")' = InUseAs(Ch(i), "light")
    <3>1. i \in Channels
      BY ChannelsAssumption DEF Channels
    <3> QED BY <3>1, <1>2 DEF InUseAs
  <2> QED BY <2>1, <2>2, <1>0, <1>1, <1>6, SameLooks
<1>7. calls \subseteq Channels /\ Pump \notin calls
  BY DEF Pump, Channels
<1> HIDE DEF calls, after
<1>8. /\ DOMAIN kept' = DOMAIN kept /\ kept'.watts = kept.watts /\ kept'.pumpType = kept.pumpType
      /\ kept'.pumpSeen = kept.pumpSeen /\ DOMAIN after.solar = DOMAIN pool.solar
      /\ after.ch \in [Channels -> ChannelRecords]
  BY <1>0, <1>1, <1>3 DEF ChannelShapes
<1> QED BY <1>0, <1>1, <1>4, <1>5, <1>6, <1>7, <1>8, ChannelDecodes

(* Telemetry, and its expiry: the pump is to be published.                  *)
LEMMA PumpDecodes ==
  ASSUME ChannelInv, NEW pump, NEW known, known \subseteq fresh,
         ChannelFrame([pool EXCEPT !.pump = pump], known, {Pump}), UNCHANGED inHand,
         kept'.pumpSeen, kept'.watts = kept.watts, kept'.pumpType = kept.pumpType,
         DOMAIN kept' = DOMAIN kept,
         Pump \in known => kept.pumpSeen /\ pool.pump # Stopped
  PROVE  ChannelInv'
<1> DEFINE after == [pool EXCEPT !.pump = pump]
<1>0. /\ pool' = after /\ fresh' = known /\ todo["bridge"] = {} /\ inHand["mqtt"] = Idle
      /\ ChannelTypeOK /\ ChannelShapes
  BY DEF ChannelFrame, ChannelInv
<1>1. /\ DOMAIN after = DOMAIN pool /\ after.solar = pool.solar
      /\ after.ch = pool.ch /\ after.zone = pool.zone
  BY <1>0 DEF ChannelShapes
<1>2. /\ kept'.pumpSeen /\ kept'.watts = kept.watts /\ kept'.pumpType = kept.pumpType
      /\ DOMAIN kept' = DOMAIN kept
  OBVIOUS
<1>3. \A d : Ch(d)' = Ch(d)
  BY <1>0, <1>1 DEF Ch
<1>4. /\ "phase" \in DOMAIN Idle /\ DOMAIN inHand' = Tasks /\ inHand'["bridge"] = Idle /\ inHand'["mqtt"] = Idle
      /\ PumpTypeDue' = PumpTypeDue
  BY <1>0, <1>2, HeldStill
<1>5. ASSUME NEW d \in Channels PROVE FreshHeld(d)' /\ (Ch(d)'.type = "filter" => MayFilter(d))
  BY <1>0, <1>1, <1>2, <1>3, <1>4 DEF ChannelInv, FreshHeld, FilterHeld
<1>6. ASSUME NEW d \in Channels, d \in known \ {Pump}
      PROVE  /\ d \in fresh /\ Ch(d)'.type = Ch(d).type
             /\ ChannelLook(d)' = ChannelLook(d) /\ ChannelSeen(d)' = ChannelSeen(d)
  <2>1. ASSUME NEW i \in 1 .. d PROVE InUseAs(Ch(i), "light")' = InUseAs(Ch(i), "light")
    BY <1>3 DEF InUseAs
  <2> QED BY <2>1, <1>0, <1>1, <1>2, <1>3, <1>6, SameLooks
<1>7. after.ch \in [Channels -> ChannelRecords] /\ after.solar.mode \in States \cup {"unknown"}
  BY <1>0, <1>1 DEF ChannelTypeOK, ChannelShapes
<1>8. ChannelFrame(after, known, {Pump})
  OBVIOUS
<1> HIDE DEF after
<1> QED BY <1>0, <1>1, <1>2, <1>4, <1>5, <1>6, <1>7, <1>8, ChannelDecodes

LEMMA SpeedDecoded ==
  ASSUME ChannelInv, NEW speed, NEW power, PumpSpeed(speed, power)
  PROVE  ChannelInv'
<1>1. /\ kept'.pumpSeen /\ kept'.watts = kept.watts /\ kept'.pumpType = kept.pumpType
      /\ DOMAIN kept' = DOMAIN kept
  BY DEF PumpSpeed, ChannelInv, ChannelShapes
<1>2. fresh \ {Pump} \subseteq fresh /\ Pump \notin fresh \ {Pump}
  OBVIOUS
<1> QED BY <1>1, <1>2, PumpDecodes DEF PumpSpeed

LEMMA PumpExpiryDecoded == ChannelInv /\ PumpExpired => ChannelInv'
<1> SUFFICES ASSUME ChannelInv, PumpExpired PROVE ChannelInv'
  OBVIOUS
<1>1. pool.pump # Stopped
  BY DEF PumpExpired, Stopped
<1>2. kept.pumpSeen /\ kept' = kept /\ UNCHANGED inHand
  BY DEF PumpExpired
<1> QED BY <1>1, <1>2, PumpDecodes DEF PumpExpired

(* A status frame: what it says of a channel in use is what is left of it.  *)
LEMMA StatusReported ==
  ASSUME ChannelInv, NEW frame \in Frames, NEW c \in Channels
  PROVE  LET left == ReportedChannel(c, frame[c])
         IN  /\ left \in ChannelRecords
             /\ left.type = "filter" => MayFilter(c)
             /\ c \in Used(frame) =>
                  /\ left.configured /\ left.type = frame[c].type /\ SolarHeld(left, pool.solar)
                  /\ left.type # "solar" => left.state = frame[c].state /\ left.active = frame[c].active
<1> DEFINE r == frame[c]
<1>0. /\ r \in Reports[c] /\ Ch(c) \in ChannelRecords /\ pool.solar.mode \in States \cup {"unknown"}
      /\ Ch(c).type = "filter" => MayFilter(c)
  BY ChTyped, SolarTyped DEF Frames, ChannelInv, FilterHeld
<1>1. CASE r = Absent
  BY <1>0, <1>1 DEF ReportedChannel, Used
<1>2. CASE r # Absent /\ r = Unused
  <2>1. ReportedChannel(c, r) = [Ch(c) EXCEPT !.configured = FALSE] /\ c \notin Used(frame)
    BY <1>2 DEF ReportedChannel, Used
  <2>2. [Ch(c) EXCEPT !.configured = FALSE] \in ChannelRecords
        /\ [Ch(c) EXCEPT !.configured = FALSE].type = Ch(c).type
    BY <1>0 DEF ChannelRecords
  <2> QED BY <2>1, <2>2, <1>0
<1>3. CASE r \notin {Absent, Unused}
  <2> DEFINE said == [Ch(c) EXCEPT !.configured = TRUE, !.type = r.type, !.state = r.state, !.active = r.active]
  <2>1. /\ said \in ChannelRecords /\ said.configured /\ said.type = r.type
        /\ said.state = r.state /\ said.active = r.active
    BY <1>0, <1>3, ReportTyped DEF ChannelRecords
  <2>2. ReportedChannel(c, r) = ApplySolar(said, pool.solar)
    BY <1>3 DEF ReportedChannel
  <2> HIDE DEF said
  <2> QED BY <2>1, <2>2, <1>0, <1>3, ReportTyped, SolarApplied
<1> QED BY <1>1, <1>2, <1>3

(* The state of the only filter channel is among the options of the pump    *)
(* type it teaches, or has taught before.                                   *)
LEMMA LearntOptions ==
  ASSUME ChannelInv, NEW frame \in Frames, NEW c \in Filters(frame)
  PROVE  frame[c].state \in Options("filter", Learnt(frame)) /\ Learnt(frame) \in PumpTypes
<1>0. /\ c \in Channels /\ frame[c] \in Reports[c] \ {Absent, Unused} /\ frame[c].type = "filter"
      /\ kept.pumpType \in PumpTypes
  BY DEF Filters, Used, Frames, ChannelInv, ChannelTypeOK
<1>1. frame[c].state \in States /\ MayFilter(c)
  BY <1>0, ReportTyped
<1>2. ASSUME NEW d \in Filters(frame) PROVE d = c
  <2>1. d \in Channels /\ frame[d] \in Reports[d] \ {Absent, Unused} /\ frame[d].type = "filter"
    BY DEF Filters, Used, Frames
  <2> QED BY <2>1, <1>0, <1>1, ReportTyped, OneFilter
<1>3. CASE frame[c].state = "on"
  BY <1>3 DEF Learnt, Options, PumpTypes
<1>4. CASE frame[c].state = "low"
  BY <1>2, <1>4 DEF Learnt, Options, PumpTypes
<1>5. CASE frame[c].state \in {"off", "auto"}
  BY <1>0, <1>2, <1>5 DEF Learnt, Options
<1> QED BY <1>1, <1>3, <1>4, <1>5 DEF States

LEMMA StatusDecoded ==
  ASSUME ChannelInv, NEW frame \in Frames, ChannelStatus(frame)
  PROVE  ChannelInv'
<1> DEFINE ch == [c \in Channels |-> ReportedChannel(c, frame[c])]
           pump == IF StopsPump(frame) THEN Stopped ELSE pool.pump
           after == [pool EXCEPT !.ch = ch, !.pump = pump]
           known == Used(frame) \cup {Pump}
           calls == IF StopsPump(frame) THEN Used(frame) \cup {Pump} ELSE Used(frame)
           held == IF Learnt(frame) = kept.pumpType THEN Idle
                   ELSE [phase |-> "learn", pumpType |-> Learnt(frame)]
<1>0. /\ ChannelFrame(after, known, calls) /\ UNCHANGED kept
      /\ inHand' = [inHand EXCEPT !["bridge"] = held]
      /\ pool' = after /\ fresh' = known /\ todo["bridge"] = {} /\ inHand["mqtt"] = Idle
      /\ ChannelTypeOK /\ ChannelShapes
  BY DEF ChannelStatus, ChannelFrame, ChannelInv
<1>1. /\ DOMAIN after = DOMAIN pool /\ after.solar = pool.solar /\ after.ch = ch /\ after.pump = pump
  BY <1>0 DEF ChannelShapes
<1>2. ASSUME NEW c \in Channels
      PROVE  /\ Ch(c)' = ReportedChannel(c, frame[c]) /\ ch[c] \in ChannelRecords
             /\ Ch(c)'.type = "filter" => MayFilter(c)
  <2>1. Ch(c)' = ch[c]
    BY <1>0, <1>1 DEF Ch
  <2> QED BY <2>1, StatusReported
<1>3. /\ DOMAIN inHand' = Tasks /\ inHand'["bridge"] = held /\ inHand'["mqtt"] = Idle
  BY <1>0 DEF ChannelShapes, Tasks
<1>4. ASSUME held # Idle
      PROVE  /\ held.phase = "learn" /\ held.pumpType = Learnt(frame) /\ Filters(frame) # {}
             /\ Learnt(frame) \in PumpTypes
  <2>1. Filters(frame) # {}
    BY <1>4 DEF Learnt
  <2> QED BY <2>1, <1>4, LearntOptions
<1>5. PumpTypeDue' = Learnt(frame)
  <2>1. CASE Learnt(frame) = kept.pumpType
    BY <2>1, <1>0, <1>3 DEF PumpTypeDue, Idle
  <2>2. CASE Learnt(frame) # kept.pumpType
    BY <2>2, <1>3 DEF PumpTypeDue
  <2> QED BY <2>1, <2>2
<1>6. ASSUME NEW c \in Channels PROVE FreshHeld(c)'
  <2> SUFFICES ASSUME c \in known PROVE FreshHeld(c)'
    BY <1>0 DEF FreshHeld
  <2>1. c \in Used(frame)
    BY DEF Pump, Channels
  <2>2. /\ Ch(c)'.configured /\ SolarHeld(Ch(c)', pool'.solar) /\ Ch(c)'.type = frame[c].type
        /\ Ch(c)'.type # "solar" => Ch(c)'.state = frame[c].state /\ Ch(c)'.active = frame[c].active
    BY <2>1, <1>0, <1>1, <1>2, StatusReported
  <2>3. ASSUME Ch(c)'.type = "filter" PROVE Ch(c)'.state \in Options("filter", PumpTypeDue')
    BY <2>1, <2>2, <2>3, <1>5, LearntOptions DEF Filters
  <2>4. ASSUME Ch(c)'.type = "filter", ~ Ch(c)'.active, kept'.pumpSeen PROVE pool'.pump = Stopped
    <3>1. c \in Filters(frame) /\ ~ frame[c].active
      BY <2>1, <2>2, <2>4 DEF Filters
    <3> QED BY <3>1, <2>4, <1>0, <1>1 DEF StopsPump
  <2> HIDE DEF known, after
  <2>5. SolarHeld(Ch(c), pool.solar)'
    BY <2>2 DEF SolarHeld
  <2>6. (Ch(c).type = "filter" => Ch(c).state \in Options("filter", PumpTypeDue))'
    BY <2>3 DEF Options
  <2> QED BY <2>2, <2>4, <2>5, <2>6 DEF FreshHeld
<1>7. ASSUME NEW c \in Channels, held # Idle, Ch(c)'.type = "filter" PROVE c \in calls
  <2>1. PICK f \in Filters(frame) : TRUE
    BY <1>4, <1>7
  <2>2. f \in Channels /\ f \in Used(frame) /\ frame[f].type = "filter" /\ frame[f] \in Reports[f] \ {Absent, Unused}
    BY <2>1 DEF Filters, Used, Frames
  <2>3. MayFilter(f) /\ MayFilter(c)
    BY <2>2, <1>2, <1>7, ReportTyped
  <2> QED BY <2>2, <2>3, <1>7, OneFilter
<1>8. /\ calls \subseteq Channels \cup {Pump} /\ known \subseteq fresh \cup calls \cup {Pump}
      /\ (Pump \in calls => kept.pumpSeen) /\ (Pump \notin calls => pump = pool.pump)
  BY DEF Used, StopsPump, Pump, Channels
<1>9. ASSUME NEW c \in Channels PROVE c \notin known \ calls
  BY DEF Pump, Channels
<1>12. "phase" \in DOMAIN held
  BY DEF Idle
<1>10. held = Idle \/ (held.phase = "learn" /\ held.pumpType \in PumpTypes /\ calls \cap Channels # {})
  <2>1. Used(frame) \subseteq calls \cap Channels /\ Filters(frame) \subseteq Used(frame)
    BY DEF Filters, Used
  <2> QED BY <2>1, <1>4
<1>11. after.ch \in [Channels -> ChannelRecords] /\ after.solar.mode \in States \cup {"unknown"}
  BY <1>0, <1>1, <1>2 DEF ChannelShapes
<1> HIDE DEF ch, pump, after, known, calls, held
<1> QED BY <1>0, <1>1, <1>2, <1>3, <1>6, <1>7, <1>8, <1>9, <1>10, <1>11, <1>12, ChannelDecodes

LEMMA ChannelsHandled == ChannelInv /\ HandleChannels => ChannelInv'
<1> SUFFICES ASSUME ChannelInv, HandleChannels PROVE ChannelInv'
  OBVIOUS
<1>1. ASSUME NEW active \in {"yes"}, SolarOutput(active) PROVE ChannelInv'
  <2>1. PICK solar : solar = [pool.solar EXCEPT !.active = active]
    OBVIOUS
  <2>2. DOMAIN solar = {"mode", "active"} /\ solar.mode \in States \cup {"unknown"} /\ Solar(solar)
    BY <1>1, <2>1 DEF SolarOutput, ChannelInv, ChannelShapes
  <2> QED BY <2>2, SolarDecoded
<1>2. ASSUME NEW mode \in States, SolarStatus(mode) PROVE ChannelInv'
  <2>1. PICK solar : solar = [pool.solar EXCEPT !.mode = mode]
    OBVIOUS
  <2>2. DOMAIN solar = {"mode", "active"} /\ solar.mode \in States \cup {"unknown"} /\ Solar(solar)
    BY <1>2, <2>1 DEF SolarStatus, ChannelInv, ChannelShapes
  <2> QED BY <2>2, SolarDecoded
<1>3. "on" \in States /\ "auto" \in States
  BY DEF States
<1> QED BY <1>1, <1>2, <1>3, StatusDecoded, TypeDecoded, NameDecoded, CategoryDecoded, StateDecoded,
           ZoneDecoded, SpeedDecoded, PumpExpiryDecoded DEF HandleChannels

(* Publications. The topics of a channel's messages are its own.            *)
ConfigTopics(c) == {<<c, "state">>, <<c, "number">>, <<c, "select">>, <<c, "power">>}
ChannelTopics(c) == ConfigTopics(c) \cup {<<c, "values">>}

LEMMA ChannelMessages ==
  ASSUME NEW c, NEW look, NEW pumpType, NEW seen
  PROVE  /\ DOMAIN ChannelConfig(c, look, pumpType) \subseteq ConfigTopics(c)
         /\ DOMAIN ChannelValues(c, seen) = {<<c, "values">>}
         /\ ChannelValues(c, seen)[<<c, "values">>] = seen.values
<1>1. DOMAIN ChannelConfig(c, look, pumpType) \subseteq ConfigTopics(c)
  BY DEF ChannelConfig, Over, StateEntities, PowerNumber, ModeSelect, PowerSensors, Message, If,
         NoMessages, ConfigTopics
<1>2. /\ DOMAIN ChannelValues(c, seen) = {<<c, "values">>}
      /\ ChannelValues(c, seen)[<<c, "values">>] = seen.values
  BY OneMessage DEF ChannelValues
<1> QED BY <1>1, <1>2

LEMMA PumpMessages ==
  ASSUME NEW look
  PROVE  /\ DOMAIN PumpConfig(look) = {PumpTopic, <<Pump, "power">>}
         /\ DOMAIN Message(PumpValues, look) = {PumpValues}
<1>1. DOMAIN PumpConfig(look) = {PumpTopic, <<Pump, "power">>}
  BY DEF PumpConfig, Over, Message
<1>2. DOMAIN Message(PumpValues, look) = {PumpValues}
  BY OneMessage
<1> QED BY <1>1, <1>2

LEMMA OwnTopics ==
  ASSUME NEW c \in Channels
  PROVE  /\ \A d : d # c => ChannelTopics(c) \cap ChannelTopics(d) = {}
         /\ ChannelTopics(c) \cap {PumpTopic, <<Pump, "power">>, PumpValues} = {}
         /\ <<c, "values">> \notin ConfigTopics(c)
<1>1. c # Pump
  BY DEF Channels, Pump
<1>2. \A d : d # c => ChannelTopics(c) \cap ChannelTopics(d) = {}
  BY DEF ChannelTopics, ConfigTopics
<1>3. ChannelTopics(c) \cap {PumpTopic, <<Pump, "power">>, PumpValues} = {}
  BY <1>1 DEF ChannelTopics, ConfigTopics, PumpTopic, PumpValues
<1>4. <<c, "values">> \notin ConfigTopics(c)
  BY DEF ConfigTopics
<1> QED BY <1>2, <1>3, <1>4

(* Only of the filter's channel does what is announced depend on the pump.  *)
LEMMA PumpTypeMatters ==
  ASSUME NEW c, NEW look, NEW p, NEW q, p = q \/ look.type # "filter"
  PROVE  LooksKept(c, look, p) <=> LooksKept(c, look, q)
<1>1. ModeSelect(c, look, p) = ModeSelect(c, look, q)
  BY DEF ModeSelect, Options
<1>2. ChannelConfig(c, look, p) = ChannelConfig(c, look, q)
  BY <1>1 DEF ChannelConfig
<1> QED BY <1>2 DEF LooksKept

(* What is not sent stays as it is with the broker.                         *)
LEMMA ElsewhereKept ==
  ASSUME NEW first, NEW second, Publish(first, second), DOMAIN first \cap DOMAIN second = {},
         NEW due, DOMAIN due \cap (DOMAIN first \cup DOMAIN second) = {}, Kept(due)
  PROVE  Kept(due)'
<1>1. ASSUME NEW topic \in DOMAIN due PROVE KeptAs(topic, due[topic])'
  <2>1. KeptAs(topic, due[topic]) /\ topic \notin DOMAIN first \cup DOMAIN second
    BY KeptEach
  <2> QED BY <2>1, PublishKeeps
<1> QED BY <1>1 DEF Kept, KeptAs, Shown

LEMMA ElsewhereShown ==
  ASSUME NEW first, NEW second, Publish(first, second), NEW topic,
         topic \notin DOMAIN first \cup DOMAIN second
  PROVE  Shown(topic)' <=> Shown(topic)
BY DEF Publish, Over, Shown

(* What is sent is with the broker, or was dropped.                         *)
LEMMA SentKept ==
  ASSUME NEW first, NEW second, Publish(first, second), DOMAIN first \cap DOMAIN second = {}
  PROVE  Kept(first)' /\ Kept(second)'
<1>1. ASSUME NEW topic \in DOMAIN first PROVE KeptAs(topic, first[topic])'
  BY PublishKeeps
<1>2. ASSUME NEW topic \in DOMAIN second PROVE KeptAs(topic, second[topic])'
  BY PublishKeeps
<1> QED BY <1>1, <1>2 DEF Kept, KeptAs, Shown

(* A channel is as it was.                                                  *)
LEMMA ChannelStill ==
  ASSUME UNCHANGED pool, NEW c \in Channels, kept'.watts[c] = kept.watts[c]
  PROVE  Ch(c)' = Ch(c) /\ ChannelLook(c)' = ChannelLook(c) /\ ChannelSeen(c)' = ChannelSeen(c)
<1>1. \A d : Ch(d)' = Ch(d)
  BY DEF Ch
<1>2. ZoneRank(c)' = ZoneRank(c)
  BY <1>1 DEF ZoneRank, InUseAs
<1>3. DisplayName(c)' = DisplayName(c)
  BY <1>1, <1>2 DEF DisplayName
<1>4. PowerKnown(c)' = PowerKnown(c) /\ Power(c)' = Power(c)
  BY <1>1 DEF PowerKnown, Power
<1> QED BY <1>1, <1>3, <1>4 DEF ChannelLook, ChannelSeen

LEMMA PumpStill ==
  ASSUME ChannelInv, UNCHANGED <<broker, stale, pool>>, last'.pump = last.pump,
         Pump \in todo'["bridge"] <=> Pump \in todo["bridge"],
         kept.pumpSeen => kept'.pumpSeen
  PROVE  PumpInv'
<1>1. PICK due1, due2, due3 :
        due1 = PumpConfig(last.pump) /\ due2 = PumpConfig(PumpLook) /\ due3 = Message(PumpValues, pool.pump)
  OBVIOUS
<1>2. PumpLook' = PumpLook
  BY DEF PumpLook
<1>3. PumpConfig(last.pump)' = due1 /\ PumpConfig(PumpLook)' = due2 /\ Message(PumpValues, pool.pump)' = due3
  BY <1>1, <1>2 DEF PumpConfig
<1>4. (Kept(due1) <=> Kept(due1)') /\ (Kept(due2) <=> Kept(due2)') /\ (Kept(due3) <=> Kept(due3)')
  BY KeptStill
<1>5. PumpInv
  BY DEF ChannelInv
<1>6. (Pump \in todo["bridge"] \/ Shown(PumpTopic) => kept.pumpSeen)'
  BY <1>5 DEF PumpInv, Shown, PumpTopic
<1>7. (last.pump # "none" => Kept(PumpConfig(last.pump)))'
  BY <1>1, <1>3, <1>4, <1>5 DEF PumpInv
<1>8. (Pump \notin todo["bridge"] /\ pool.pump # NoTelemetry =>
         Kept(PumpConfig(PumpLook)) /\ Kept(Message(PumpValues, pool.pump)))'
  BY <1>1, <1>3, <1>4, <1>5 DEF PumpInv, NoTelemetry
<1> QED BY <1>6, <1>7, <1>8 DEF PumpInv

(* Taking a call off the list.                                              *)
LEMMA CallDone ==
  ASSUME ChannelInv, NEW t \in Tasks, NEW c \in Channels, Done(t, c)
  PROVE  /\ todo' \in [Tasks -> SUBSET (Channels \cup {Pump})]
         /\ todo'[t] = todo[t] \ {c} /\ \A u \in Tasks : u # t => todo'[u] = todo[u]
         /\ Pump \in todo'["bridge"] <=> Pump \in todo["bridge"]
         /\ Pump \notin todo'["mqtt"]
<1>1. todo \in [Tasks -> SUBSET (Channels \cup {Pump})] /\ Pump \notin todo["mqtt"] /\ Pump \notin Channels
  BY DEF ChannelInv, ChannelTypeOK, ChannelShapes, Pump, Channels
<1>2. /\ todo'[t] = todo[t] \ {c} /\ \A u \in Tasks : u # t => todo'[u] = todo[u]
      /\ todo' \in [Tasks -> SUBSET (Channels \cup {Pump})]
  BY <1>1 DEF Done
<1>3. /\ Pump \in todo'["bridge"] <=> Pump \in todo["bridge"]
      /\ Pump \notin todo'["mqtt"]
  BY <1>1, <1>2, TwoTasks
<1> QED BY <1>2, <1>3

(* What is known of a channel stays known when a step leaves it alone.      *)
LEMMA OtherStill ==
  ASSUME ChannelInv, NEW c \in Channels, c \notin raced,
         Ch(c)' = Ch(c), ChannelLook(c)' = ChannelLook(c), ChannelSeen(c)' = ChannelSeen(c),
         last'.look[c] = last.look[c], last'.seen[c] = last.seen[c],
         last'.pumpType = last.pumpType \/ ~ MayFilter(c),
         \/ kept'.pumpType = kept.pumpType
         \/ Ch(c).type = "filter" => c \in todo'["bridge"] /\ ~ InHand("bridge", c),
         c \in fresh' => c \in fresh,
         \A t \in Tasks : c \in todo[t] => c \in todo'[t],
         \A t \in Tasks : InHand(t, c)' => InHand(t, c) /\ inHand'[t] = inHand[t],
         \A t \in Tasks : InHand(t, c) => InHand(t, c)',
         \A due : DOMAIN due \subseteq ChannelTopics(c) /\ Kept(due) => Kept(due)'
  PROVE  CacheHeld(c)' /\ PublicationInv(c)' /\ ChannelSaid(c)'
<1>0. CacheHeld(c) /\ PublicationInv(c) /\ ChannelSaid(c) /\ FilterHeld(c)
  BY DEF ChannelInv
<1>1. ASSUME NEW look, NEW pumpType, NEW seen
      PROVE  /\ LooksKept(c, look, pumpType) => LooksKept(c, look, pumpType)'
             /\ SeenKept(c, seen) => SeenKept(c, seen)'
  <2>1. PICK config, values : config = ChannelConfig(c, look, pumpType) /\ values = ChannelValues(c, seen)
    OBVIOUS
  <2>2. DOMAIN config \subseteq ChannelTopics(c) /\ DOMAIN values \subseteq ChannelTopics(c)
    BY <2>1, ChannelMessages DEF ChannelTopics
  <2>3. (Kept(config) => Kept(config)') /\ (Kept(values) => Kept(values)')
    BY <2>2
  <2> QED BY <2>1, <2>3 DEF LooksKept, SeenKept
<1>2. Recorded(c) => Recorded(c)'
  BY DEF Recorded, InHand
<1>3. CacheHeld(c)'
  <2>1. PICK look, pumpType, seen : look = last.look[c] /\ pumpType = last'.pumpType /\ seen = last.seen[c]
    OBVIOUS
  <2>2. SUFFICES ASSUME ~ Recorded(c)' PROVE LooksKept(c, look, pumpType)' /\ SeenKept(c, seen)'
    BY <2>1 DEF CacheHeld
  <2>3. LooksKept(c, last.look[c], last.pumpType) /\ SeenKept(c, last.seen[c])
    BY <2>2, <1>0, <1>2 DEF CacheHeld
  <2>4. LooksKept(c, look, pumpType)
    <3>1. CASE look = Never
      BY <3>1 DEF LooksKept
    <3>2. CASE look # Never
      <4>1. last'.pumpType = last.pumpType \/ look.type # "filter"
        BY <3>2, <2>1, <1>0 DEF FilterHeld
      <4> QED BY <4>1, <2>1, <2>3, PumpTypeMatters
    <3> QED BY <3>1, <3>2
  <2> QED BY <2>1, <2>3, <2>4, <1>1
<1>4. PublicationInv(c)'
  <2> SUFFICES ASSUME NEW t \in Tasks, InHand(t, c)'
               PROVE  NewsHeld(t, c)' /\ SentHeld(t, c)' /\ CurrentHeld(t, c)' /\ Alone(t, c)'
    BY DEF PublicationInv
  <2>1. /\ InHand(t, c) /\ inHand'[t] = inHand[t]
        /\ NewsHeld(t, c) /\ SentHeld(t, c) /\ CurrentHeld(t, c) /\ Alone(t, c)
    BY <1>0 DEF PublicationInv
  <2>2. last'.pumpType = last.pumpType \/ inHand[t].look.type # "filter"
    BY <2>1, <1>0 DEF FilterHeld
  <2>3. NewsHeld(t, c)'
    BY <2>1, <2>2 DEF NewsHeld
  <2>4. SentHeld(t, c)'
    <3>1. PICK p : p = inHand[t]
      OBVIOUS
    <3>2. p.phase = "record" => LooksKept(c, p.look, p.pumpType)' /\ SeenKept(c, p.seen)'
      BY <2>1, <3>1, <1>1 DEF SentHeld
    <3> QED BY <3>1, <3>2, <2>1 DEF SentHeld
  <2>5. CurrentHeld(t, c)'
    <3> SUFFICES ASSUME c \in fresh', \A u \in Tasks : u # t => c \notin todo'[u]
                 PROVE  /\ inHand'[t].look = ChannelLook(c)' /\ inHand'[t].seen = ChannelSeen(c)'
                        /\ Ch(c)'.type = "filter" => inHand'[t].pumpType = kept'.pumpType
      BY DEF CurrentHeld
    <3>1. /\ inHand[t].look = ChannelLook(c) /\ inHand[t].seen = ChannelSeen(c)
          /\ Ch(c).type = "filter" => inHand[t].pumpType = kept.pumpType
      BY <2>1 DEF CurrentHeld
    <3>2. kept'.pumpType = kept.pumpType \/ Ch(c).type # "filter"
      BY <2>1, TwoTasks
    <3> QED BY <3>1, <3>2, <2>1
  <2>6. Alone(t, c)'
    BY <2>1 DEF Alone
  <2> QED BY <2>3, <2>4, <2>5, <2>6
<1>5. ChannelSaid(c)'
  <2> SUFFICES ASSUME c \in fresh', \A u \in Tasks : c \notin todo'[u]
               PROVE  /\ last'.look[c] = ChannelLook(c)' /\ last'.seen[c] = ChannelSeen(c)'
                      /\ Ch(c)'.type = "filter" => last'.pumpType = kept'.pumpType
    BY DEF ChannelSaid
  <2>1. /\ last.look[c] = ChannelLook(c) /\ last.seen[c] = ChannelSeen(c)
        /\ Ch(c).type = "filter" => last.pumpType = kept.pumpType
    BY <1>0 DEF ChannelSaid
  <2>2. Ch(c).type = "filter" => last'.pumpType = last.pumpType
    BY <1>0 DEF FilterHeld
  <2>3. kept'.pumpType = kept.pumpType \/ Ch(c).type # "filter"
    BY TwoTasks
  <2> QED BY <2>1, <2>2, <2>3
<1> QED BY <1>3, <1>4, <1>5

(* A step that leaves the broker alone keeps every message.                 *)
LEMMA AllKept ==
  ASSUME UNCHANGED <<broker, stale>>
  PROVE  \A due : Kept(due) => Kept(due)'
BY KeptStill

LEMMA FreshStill ==
  ASSUME ChannelInv, UNCHANGED pool, NEW c \in Channels, fresh' \subseteq fresh,
         PumpTypeDue' = PumpTypeDue, kept'.pumpSeen = kept.pumpSeen
  PROVE  FreshHeld(c)'
<1>1. FreshHeld(c) /\ Ch(c)' = Ch(c)
  BY DEF ChannelInv, Ch
<1>2. CASE c \notin fresh
  BY <1>2 DEF FreshHeld
<1>3. CASE c \in fresh
  <2>1. Ch(c).configured /\ SolarHeld(Ch(c), pool.solar)
    BY <1>1, <1>3 DEF FreshHeld
  <2>2. SolarHeld(Ch(c), pool.solar)'
    BY <1>1, <2>1 DEF SolarHeld
  <2> QED BY <1>1, <1>3, <2>1, <2>2 DEF FreshHeld
<1> QED BY <1>2, <1>3

LEMMA FilterStill ==
  ASSUME ChannelInv, UNCHANGED pool, NEW c \in Channels,
         \/ last'.look[c] = last.look[c] \/ MayFilter(c)
         \/ last'.look[c].type # "filter",
         \A t \in Tasks : InHand(t, c)' =>
           \/ InHand(t, c) /\ inHand'[t].look = inHand[t].look
           \/ inHand'[t].look = ChannelLook(c),
         inHand'["bridge"].phase = "learn" =>
           inHand["bridge"].phase = "learn" /\ todo'["bridge"] = todo["bridge"]
  PROVE  FilterHeld(c)'
<1>1. FilterHeld(c) /\ Ch(c)' = Ch(c) /\ (MayFilter(c)' <=> MayFilter(c))
  BY DEF ChannelInv, Ch, MayFilter
<1>2. ASSUME NEW t \in Tasks, InHand(t, c)', inHand'[t].look.type = "filter" PROVE MayFilter(c)
  BY <1>1, <1>2 DEF FilterHeld, ChannelLook
<1> QED BY <1>1, <1>2 DEF FilterHeld

LEMMA ChannelSkipped ==
  ASSUME ChannelInv, NEW t \in Tasks, NEW c \in Channels, SkipChannel(t, c)
  PROVE  ChannelInv'
<1>0. /\ inHand[t] = Idle /\ Done(t, c) /\ Race(t, c) /\ UNCHANGED <<retainedVars, pool, last, kept, inHand, fresh>>
      /\ ~ Ch(c).configured \/ ~ (ConfigNews(c) \/ ValuesNews(c))
      /\ ChannelTypeOK /\ ChannelShapes
  BY DEF SkipChannel, Due, ChannelInv
<1>1. UNCHANGED <<link, broker, stale, events>> /\ raced \subseteq raced' /\ raced' \subseteq raced \cup {c}
  BY <1>0 DEF retainedVars, Race
<1>2. /\ todo' \in [Tasks -> SUBSET (Channels \cup {Pump})]
      /\ todo'[t] = todo[t] \ {c} /\ \A u \in Tasks : u # t => todo'[u] = todo[u]
      /\ Pump \in todo'["bridge"] <=> Pump \in todo["bridge"]
      /\ Pump \notin todo'["mqtt"]
  BY <1>0, CallDone
<1>3. ChannelTypeOK'
  <2>1. RetainedTypeOK'
    BY <1>0, <1>1 DEF RetainedTypeOK, ChannelTypeOK
  <2>2. ASSUME NEW u \in Tasks
        PROVE  \/ inHand'[u] = Idle
               \/ u = "bridge" /\ inHand'[u].phase = "learn" /\ todo'[u] \cap Channels # {}
               \/ inHand'[u].phase \in {"send", "record"} /\ inHand'[u].channel \in todo'[u] \cap Channels
    BY <1>0, <1>2 DEF ChannelTypeOK
  <2> QED BY <2>1, <2>2, <1>0, <1>1, <1>2 DEF ChannelTypeOK
<1>4. ChannelShapes'
  BY <1>0, <1>2 DEF ChannelShapes
<1>5. PumpInv'
  BY <1>0, <1>1, <1>2, PumpStill
<1>6. inHand'["bridge"].phase = "learn" => todo'["bridge"] = todo["bridge"] /\ inHand["bridge"].phase = "learn"
  BY <1>0, <1>2, TwoTasks DEF Idle
<1>7. ASSUME NEW d \in Channels PROVE FreshHeld(d)' /\ FilterHeld(d)'
  <2>1. PumpTypeDue' = PumpTypeDue
    BY <1>0 DEF PumpTypeDue
  <2>2. \A u \in Tasks : InHand(u, d)' => InHand(u, d)
    BY <1>0 DEF InHand
  <2> QED BY <2>1, <2>2, <1>0, <1>6, FreshStill, FilterStill
<1>8. ASSUME NEW d \in Channels, d \notin raced'
      PROVE  CacheHeld(d)' /\ PublicationInv(d)' /\ ChannelSaid(d)'
  <2>0. /\ Ch(d)' = Ch(d) /\ ChannelLook(d)' = ChannelLook(d) /\ ChannelSeen(d)' = ChannelSeen(d)
        /\ d \notin raced
        /\ \A u \in Tasks : InHand(u, d)' <=> InHand(u, d)
        /\ \A due : Kept(due) => Kept(due)'
    BY <1>0, <1>1, <1>8, ChannelStill, AllKept DEF InHand
  <2>1. CASE d # c
    BY <2>0, <2>1, <1>0, <1>2, OtherStill
  <2>2. CASE d = c
    <3>1. ASSUME NEW u \in Tasks PROVE ~ InHand(u, c)
      <4>1. CASE u = t
        BY <4>1, <1>0 DEF InHand, Idle
      <4>2. CASE u # t
        BY <4>2, <1>0, <1>8, <2>2 DEF Race
      <4> QED BY <4>1, <4>2
    <3>2. CacheHeld(c)'
      <4>1. PICK look, pumpType, seen : look = last.look[c] /\ pumpType = last.pumpType /\ seen = last.seen[c]
        OBVIOUS
      <4>2. Recorded(c)' <=> Recorded(c)
        BY <1>0 DEF Recorded
      <4>3. ~ Recorded(c)' => LooksKept(c, look, pumpType)' /\ SeenKept(c, seen)'
        BY <4>1, <4>2, <1>1, <2>0, <2>2, CachesStill DEF CacheHeld, ChannelInv
      <4> QED BY <4>1, <4>3, <1>0 DEF CacheHeld
    <3>3. PublicationInv(c)'
      BY <3>1, <2>0, <2>2 DEF PublicationInv
    <3>4. ChannelSaid(c)'
      <4> SUFFICES ASSUME c \in fresh'
                   PROVE  /\ last'.look[c] = ChannelLook(c)' /\ last'.seen[c] = ChannelSeen(c)'
                          /\ Ch(c)'.type = "filter" => last'.pumpType = kept'.pumpType
        BY DEF ChannelSaid
      <4>1. Ch(c).configured
        BY <1>0 DEF ChannelInv, FreshHeld
      <4> QED BY <4>1, <1>0, <2>0, <2>2 DEF ConfigNews, ValuesNews
    <3> QED BY <2>2, <3>2, <3>3, <3>4
  <2> QED BY <2>1, <2>2
<1> QED BY <1>3, <1>4, <1>5, <1>7, <1>8 DEF ChannelInv

(* The mutex was not to be had: the channel is no longer as it was left.    *)
LEMMA CommandDropped ==
  ASSUME ChannelInv, NEW c \in Channels, MutexBusy(c)
  PROVE  ChannelInv'
<1>0. /\ inHand["mqtt"] = Idle /\ Done("mqtt", c) /\ UNCHANGED <<retainedVars, pool, last, kept, inHand, raced>>
      /\ fresh' = fresh \ {c} /\ ChannelTypeOK /\ ChannelShapes
  BY DEF MutexBusy, Due, ChannelInv
<1>1. UNCHANGED <<link, broker, stale, events>>
  BY <1>0 DEF retainedVars
<1>2. /\ todo' \in [Tasks -> SUBSET (Channels \cup {Pump})]
      /\ todo'["mqtt"] = todo["mqtt"] \ {c} /\ \A u \in Tasks : u # "mqtt" => todo'[u] = todo[u]
      /\ Pump \in todo'["bridge"] <=> Pump \in todo["bridge"]
      /\ Pump \notin todo'["mqtt"]
  BY <1>0, CallDone, TwoTasks
<1>3. ChannelTypeOK'
  <2>1. RetainedTypeOK'
    BY <1>0, <1>1 DEF RetainedTypeOK, ChannelTypeOK
  <2>2. ASSUME NEW u \in Tasks
        PROVE  \/ inHand'[u] = Idle
               \/ u = "bridge" /\ inHand'[u].phase = "learn" /\ todo'[u] \cap Channels # {}
               \/ inHand'[u].phase \in {"send", "record"} /\ inHand'[u].channel \in todo'[u] \cap Channels
    BY <1>0, <1>2 DEF ChannelTypeOK
  <2> QED BY <2>1, <2>2, <1>0, <1>1, <1>2 DEF ChannelTypeOK
<1>4. ChannelShapes'
  BY <1>0, <1>2 DEF ChannelShapes
<1>5. PumpInv'
  BY <1>0, <1>1, <1>2, PumpStill
<1>6. todo'["bridge"] = todo["bridge"]
  BY <1>2, TwoTasks
<1>7. ASSUME NEW d \in Channels PROVE FreshHeld(d)' /\ FilterHeld(d)'
  <2>1. PumpTypeDue' = PumpTypeDue
    BY <1>0 DEF PumpTypeDue
  <2>2. \A u \in Tasks : InHand(u, d)' => InHand(u, d)
    BY <1>0 DEF InHand
  <2> QED BY <2>1, <2>2, <1>0, <1>6, FreshStill, FilterStill
<1>8. ASSUME NEW d \in Channels, d \notin raced'
      PROVE  CacheHeld(d)' /\ PublicationInv(d)' /\ ChannelSaid(d)'
  <2>0. /\ Ch(d)' = Ch(d) /\ ChannelLook(d)' = ChannelLook(d) /\ ChannelSeen(d)' = ChannelSeen(d)
        /\ \A u \in Tasks : InHand(u, d)' <=> InHand(u, d)
        /\ \A due : Kept(due) => Kept(due)'
        /\ CacheHeld(d) /\ PublicationInv(d)
    BY <1>0, <1>1, <1>8, ChannelStill, AllKept DEF InHand, ChannelInv
  <2>1. CASE d # c
    BY <2>0, <2>1, <1>0, <1>2, <1>8, OtherStill
  <2>2. CASE d = c
    <3>1. \A look, pumpType, seen :
            /\ LooksKept(c, look, pumpType) => LooksKept(c, look, pumpType)'
            /\ SeenKept(c, seen) => SeenKept(c, seen)'
      BY <1>1, CachesStill
    <3>2. CacheHeld(c)'
      <4>1. PICK look, pumpType, seen : look = last.look[c] /\ pumpType = last.pumpType /\ seen = last.seen[c]
        OBVIOUS
      <4>2. Recorded(c)' <=> Recorded(c)
        BY <1>0 DEF Recorded
      <4>3. ~ Recorded(c)' => LooksKept(c, look, pumpType)' /\ SeenKept(c, seen)'
        BY <4>1, <4>2, <3>1, <2>0, <2>2 DEF CacheHeld
      <4> QED BY <4>1, <4>3, <1>0 DEF CacheHeld
    <3>3. ASSUME NEW u \in Tasks, InHand(u, c)'
          PROVE  NewsHeld(u, c)' /\ SentHeld(u, c)' /\ CurrentHeld(u, c)' /\ Alone(u, c)'
      <4>1. NewsHeld(u, c) /\ SentHeld(u, c) /\ Alone(u, c)
        BY <2>0, <2>2, <3>3 DEF PublicationInv
      <4>2. PICK p : p = inHand[u]
        OBVIOUS
      <4>3. p.phase = "record" => LooksKept(c, p.look, p.pumpType)' /\ SeenKept(c, p.seen)'
        BY <4>1, <4>2, <3>1 DEF SentHeld
      <4>4. SentHeld(u, c)'
        BY <4>2, <4>3, <1>0 DEF SentHeld
      <4>5. NewsHeld(u, c)' /\ Alone(u, c)'
        BY <4>1, <2>0, <2>2, <1>0 DEF NewsHeld, Alone
      <4>6. CurrentHeld(u, c)'
        BY <1>0 DEF CurrentHeld
      <4> QED BY <4>4, <4>5, <4>6
    <3>4. ChannelSaid(c)'
      BY <1>0 DEF ChannelSaid
    <3> QED BY <2>2, <3>2, <3>3, <3>4 DEF PublicationInv
  <2> QED BY <2>1, <2>2
<1> QED BY <1>3, <1>4, <1>5, <1>7, <1>8 DEF ChannelInv

LEMMA TypeLearnt == ChannelInv /\ LearnPumpType => ChannelInv'
<1> SUFFICES ASSUME ChannelInv, LearnPumpType PROVE ChannelInv'
  OBVIOUS
<1>0. /\ inHand["bridge"].phase = "learn"
      /\ kept' = [kept EXCEPT !.pumpType = inHand["bridge"].pumpType]
      /\ inHand' = [inHand EXCEPT !["bridge"] = Idle]
      /\ UNCHANGED <<link, broker, stale, events, pool, last, todo, fresh, raced>>
      /\ ChannelTypeOK /\ ChannelShapes
  BY DEF LearnPumpType, ChannelInv, entityVars, retainedVars
<1>1. /\ DOMAIN kept' = DOMAIN kept /\ kept'.watts = kept.watts /\ kept'.pumpSeen = kept.pumpSeen
      /\ kept'.pumpType = inHand["bridge"].pumpType /\ kept'.pumpType \in PumpTypes
  BY <1>0 DEF ChannelShapes
<1>2. DOMAIN inHand' = Tasks /\ inHand'["bridge"] = Idle /\ inHand'["mqtt"] = inHand["mqtt"]
  BY <1>0, TwoTasks DEF ChannelShapes
<1>3. ChannelTypeOK'
  <2>1. RetainedTypeOK'
    BY <1>0 DEF RetainedTypeOK, ChannelTypeOK
  <2>2. ASSUME NEW u \in Tasks
        PROVE  \/ inHand'[u] = Idle
               \/ u = "bridge" /\ inHand'[u].phase = "learn" /\ todo'[u] \cap Channels # {}
               \/ inHand'[u].phase \in {"send", "record"} /\ inHand'[u].channel \in todo'[u] \cap Channels
    BY <1>0, <1>2, TwoTasks DEF ChannelTypeOK
  <2> QED BY <2>1, <2>2, <1>0, <1>1 DEF ChannelTypeOK
<1>4. ChannelShapes'
  BY <1>0, <1>1, <1>2 DEF ChannelShapes, Idle
<1>5. PumpInv'
  BY <1>0, <1>1, PumpStill
<1>6. ASSUME NEW d \in Channels
      PROVE  /\ \A u \in Tasks : InHand(u, d)' => InHand(u, d) /\ inHand'[u] = inHand[u]
             /\ \A u \in Tasks : InHand(u, d) => InHand(u, d)'
  <2>1. ~ InHand("bridge", d) /\ ~ InHand("bridge", d)'
    BY <1>0, <1>2 DEF InHand, Idle
  <2>2. InHand("mqtt", d)' <=> InHand("mqtt", d)
    BY <1>2 DEF InHand
  <2> QED BY <2>1, <2>2, <1>2, TwoTasks
<1>7. ASSUME NEW d \in Channels PROVE FreshHeld(d)' /\ FilterHeld(d)'
  <2>1. PumpTypeDue' = PumpTypeDue
    BY <1>0, <1>1, <1>2 DEF PumpTypeDue, Idle
  <2>2. inHand'["bridge"].phase # "learn"
    BY <1>2 DEF Idle
  <2> QED BY <2>1, <2>2, <1>0, <1>1, <1>6, FreshStill, FilterStill
<1>8. ASSUME NEW d \in Channels, d \notin raced'
      PROVE  CacheHeld(d)' /\ PublicationInv(d)' /\ ChannelSaid(d)'
  <2>1. /\ Ch(d)' = Ch(d) /\ ChannelLook(d)' = ChannelLook(d) /\ ChannelSeen(d)' = ChannelSeen(d)
        /\ \A due : Kept(due) => Kept(due)'
    BY <1>0, <1>1, ChannelStill, AllKept
  <2>2. Ch(d).type = "filter" => d \in todo'["bridge"] /\ ~ InHand("bridge", d)
    BY <1>0 DEF ChannelInv, FilterHeld, InHand
  <2> QED BY <2>1, <2>2, <1>0, <1>6, <1>8, OtherStill
<1> QED BY <1>3, <1>4, <1>5, <1>7, <1>8 DEF ChannelInv

(* The user sets the power of a channel: the MQTT task has it to publish.   *)
LEMMA PowerCommanded ==
  ASSUME ChannelInv, NEW c \in Channels, NEW watts \in Watts, PowerCommand(c, watts)
  PROVE  ChannelInv'
<1>0. /\ todo["mqtt"] = {} /\ Event
      /\ kept' = [kept EXCEPT !.watts[c] = watts]
      /\ todo' = [todo EXCEPT !["mqtt"] = {c}]
      /\ UNCHANGED <<link, broker, stale, pool, last, inHand, fresh, raced>>
      /\ ChannelTypeOK /\ ChannelShapes
  BY DEF PowerCommand, ChannelInv
<1>1. /\ DOMAIN kept' = DOMAIN kept /\ kept'.pumpType = kept.pumpType /\ kept'.pumpSeen = kept.pumpSeen
      /\ kept'.watts = [kept.watts EXCEPT ![c] = watts]
      /\ kept'.watts \in [Channels -> Watts \cup {0}]
      /\ \A d \in Channels : d # c => kept'.watts[d] = kept.watts[d]
  BY <1>0 DEF ChannelTypeOK, ChannelShapes
<1>2. /\ todo' \in [Tasks -> SUBSET (Channels \cup {Pump})]
      /\ todo'["mqtt"] = {c} /\ todo'["bridge"] = todo["bridge"]
  BY <1>0, TwoTasks DEF ChannelTypeOK
<1>3. inHand["mqtt"] = Idle
  BY <1>0, TwoTasks DEF ChannelTypeOK
<1>4. ChannelTypeOK'
  <2>1. RetainedTypeOK'
    BY <1>0, EventsAssumption DEF Event, RetainedTypeOK, ChannelTypeOK
  <2>2. ASSUME NEW u \in Tasks
        PROVE  \/ inHand'[u] = Idle
               \/ u = "bridge" /\ inHand'[u].phase = "learn" /\ todo'[u] \cap Channels # {}
               \/ inHand'[u].phase \in {"send", "record"} /\ inHand'[u].channel \in todo'[u] \cap Channels
    BY <1>0, <1>2, <1>3, TwoTasks DEF ChannelTypeOK
  <2> QED BY <2>1, <2>2, <1>0, <1>1, <1>2 DEF ChannelTypeOK
<1>5. ChannelShapes'
  <2>1. Pump \notin {c}
    BY DEF Pump, Channels
  <2> QED BY <2>1, <1>0, <1>1, <1>2 DEF ChannelShapes
<1>6. PumpInv'
  BY <1>0, <1>1, <1>2, PumpStill
<1>7. ASSUME NEW d \in Channels PROVE FreshHeld(d)' /\ FilterHeld(d)'
  <2>1. PumpTypeDue' = PumpTypeDue
    BY <1>0, <1>1 DEF PumpTypeDue
  <2>2. \A u \in Tasks : InHand(u, d)' => InHand(u, d)
    BY <1>0 DEF InHand
  <2> QED BY <2>1, <2>2, <1>0, <1>1, <1>2, FreshStill, FilterStill
<1>8. ASSUME NEW d \in Channels, d \notin raced'
      PROVE  CacheHeld(d)' /\ PublicationInv(d)' /\ ChannelSaid(d)'
  <2>0. /\ \A u \in Tasks : InHand(u, d)' <=> InHand(u, d)
        /\ \A due : Kept(due) => Kept(due)'
        /\ CacheHeld(d) /\ PublicationInv(d)
    BY <1>0, <1>8, AllKept DEF InHand, ChannelInv
  <2>1. CASE d # c
    <3>1. Ch(d)' = Ch(d) /\ ChannelLook(d)' = ChannelLook(d) /\ ChannelSeen(d)' = ChannelSeen(d)
      BY <2>1, <1>0, <1>1, ChannelStill
    <3>2. \A u \in Tasks : d \in todo[u] => d \in todo'[u]
      BY <1>0, <1>2, TwoTasks
    <3> QED BY <3>1, <3>2, <2>0, <1>0, <1>1, <1>8, OtherStill
  <2>2. CASE d = c
    <3>1. \A look, pumpType, seen :
            /\ LooksKept(c, look, pumpType) => LooksKept(c, look, pumpType)'
            /\ SeenKept(c, seen) => SeenKept(c, seen)'
      BY <1>0, CachesStill
    <3>2. CacheHeld(c)'
      <4>1. PICK look, pumpType, seen : look = last.look[c] /\ pumpType = last.pumpType /\ seen = last.seen[c]
        OBVIOUS
      <4>2. Recorded(c)' <=> Recorded(c)
        BY <1>0 DEF Recorded
      <4>3. ~ Recorded(c)' => LooksKept(c, look, pumpType)' /\ SeenKept(c, seen)'
        BY <4>1, <4>2, <3>1, <2>0, <2>2 DEF CacheHeld
      <4> QED BY <4>1, <4>3, <1>0 DEF CacheHeld
    <3>3. ASSUME NEW u \in Tasks, InHand(u, c)'
          PROVE  NewsHeld(u, c)' /\ SentHeld(u, c)' /\ CurrentHeld(u, c)' /\ Alone(u, c)'
      <4>1. NewsHeld(u, c) /\ SentHeld(u, c) /\ Alone(u, c) /\ InHand(u, c)
        BY <2>0, <2>2, <3>3 DEF PublicationInv
      <4>2. PICK p : p = inHand[u]
        OBVIOUS
      <4>3. p.phase = "record" => LooksKept(c, p.look, p.pumpType)' /\ SeenKept(c, p.seen)'
        BY <4>1, <4>2, <3>1 DEF SentHeld
      <4>4. SentHeld(u, c)'
        BY <4>2, <4>3, <1>0 DEF SentHeld
      <4>5. NewsHeld(u, c)' /\ Alone(u, c)'
        BY <4>1, <2>0, <2>2, <1>0 DEF NewsHeld, Alone
      <4>6. u # "mqtt"
        BY <4>1, <1>3 DEF InHand, Idle
      <4>7. CurrentHeld(u, c)'
        BY <4>6, <1>2, TwoTasks DEF CurrentHeld
      <4> QED BY <4>4, <4>5, <4>7
    <3>4. ChannelSaid(c)'
      BY <1>2, TwoTasks DEF ChannelSaid
    <3> QED BY <2>2, <3>2, <3>3, <3>4 DEF PublicationInv
  <2> QED BY <2>1, <2>2
<1> QED BY <1>4, <1>5, <1>6, <1>7, <1>8 DEF ChannelInv

LEMMA ChannelsLink ==
  ASSUME ChannelInv, LinkChanges, UNCHANGED <<kept, inHand, fresh, raced>>
  PROVE  ChannelInv'
<1>0. /\ UNCHANGED <<broker, stale, pool, last, todo, kept, inHand, fresh, raced>>
      /\ ChannelTypeOK /\ ChannelShapes
  BY DEF LinkChanges, LinkUp, LinkDown, ChannelInv
<1>1. RetainedTypeOK'
  BY <1>0, EventsAssumption DEF LinkChanges, LinkUp, LinkDown, Event, RetainedTypeOK, ChannelTypeOK
<1>2. ChannelTypeOK'
  BY <1>0, <1>1 DEF ChannelTypeOK
<1>3. ChannelShapes'
  BY <1>0 DEF ChannelShapes
<1>4. PumpInv'
  BY <1>0, PumpStill
<1>5. ASSUME NEW d \in Channels PROVE FreshHeld(d)' /\ FilterHeld(d)'
  <2>1. PumpTypeDue' = PumpTypeDue
    BY <1>0 DEF PumpTypeDue
  <2>2. \A u \in Tasks : InHand(u, d)' => InHand(u, d)
    BY <1>0 DEF InHand
  <2> QED BY <2>1, <2>2, <1>0, FreshStill, FilterStill
<1>6. ASSUME NEW d \in Channels, d \notin raced'
      PROVE  CacheHeld(d)' /\ PublicationInv(d)' /\ ChannelSaid(d)'
  <2>1. /\ Ch(d)' = Ch(d) /\ ChannelLook(d)' = ChannelLook(d) /\ ChannelSeen(d)' = ChannelSeen(d)
        /\ \A u \in Tasks : InHand(u, d)' <=> InHand(u, d)
        /\ \A due : Kept(due) => Kept(due)'
    BY <1>0, ChannelStill, AllKept DEF InHand
  <2> QED BY <2>1, <1>0, <1>6, OtherStill
<1> QED BY <1>2, <1>3, <1>4, <1>5, <1>6 DEF ChannelInv

(* Nothing has happened, but for what flash and the broker kept.            *)
Afresh ==
  /\ RetainedTypeOK
  /\ pool = ChannelPool /\ last = ChannelCaches
  /\ todo = NoCalls /\ inHand = NobodyBusy /\ fresh = {} /\ raced = {}
  /\ Shown(PumpTopic) => kept.pumpSeen
  /\ DOMAIN kept = {"watts", "pumpType", "pumpSeen"}
  /\ kept.watts \in [Channels -> Watts \cup {0}] /\ kept.pumpType \in PumpTypes

LEMMA ChannelsAfresh == Afresh => ChannelInv
<1> SUFFICES ASSUME Afresh PROVE ChannelInv
  OBVIOUS
<1>1. \A c \in Channels :
        /\ Ch(c) = [configured |-> FALSE, type |-> "unused", state |-> "off", active |-> FALSE, name |-> Unnamed]
        /\ last.look[c] = Never /\ last.seen[c] = Never
  BY DEF Afresh, Ch, ChannelPool, ChannelCaches
<1>2. \A t \in Tasks : todo[t] = {} /\ inHand[t] = Idle
  BY DEF Afresh, NoCalls, NobodyBusy
<1>3. ChannelTypeOK
  <2>1. pool.ch \in [Channels -> ChannelRecords]
    BY DEF Afresh, ChannelPool, ChannelRecords, ChannelTypes, States, Unnamed
  <2>2. todo \in [Tasks -> SUBSET (Channels \cup {Pump})]
    BY DEF Afresh, NoCalls
  <2> QED BY <2>1, <2>2, <1>2 DEF Afresh, ChannelTypeOK
<1>4. ChannelShapes
  <2>1. /\ DOMAIN last = {"look", "seen", "pumpType", "pump"}
        /\ DOMAIN last.look = Channels /\ DOMAIN last.seen = Channels /\ last.pump = "none"
    BY DEF Afresh, ChannelCaches
  <2>2. /\ DOMAIN pool = {"ch", "zone", "solar", "pump"} /\ DOMAIN pool.solar = {"mode", "active"}
        /\ pool.solar.mode = "unknown"
    BY DEF Afresh, ChannelPool
  <2>3. DOMAIN inHand = Tasks /\ \A t \in Tasks : "phase" \in DOMAIN inHand[t]
    BY DEF Afresh, NobodyBusy, Idle
  <2>4. DOMAIN kept.watts = Channels
    BY DEF Afresh
  <2>5. Pump \notin todo["mqtt"] /\ inHand["mqtt"].phase = "idle" /\ inHand["bridge"].phase = "idle"
    BY <1>2, TwoTasks DEF Idle
  <2> QED BY <2>1, <2>2, <2>3, <2>4, <2>5 DEF Afresh, ChannelShapes
<1>5. PumpInv
  BY <1>2, TwoTasks DEF Afresh, PumpInv, ChannelPool, ChannelCaches, NoTelemetry
<1>6. ASSUME NEW c \in Channels
      PROVE  FreshHeld(c) /\ FilterHeld(c) /\ CacheHeld(c) /\ PublicationInv(c) /\ ChannelSaid(c)
  <2>1. \A t \in Tasks : ~ InHand(t, c) /\ inHand[t].phase = "idle"
    BY <1>2 DEF InHand, Idle
  <2>2. FreshHeld(c) /\ ChannelSaid(c)
    BY DEF Afresh, FreshHeld, ChannelSaid
  <2>3. FilterHeld(c)
    BY <1>1, <2>1, TwoTasks DEF FilterHeld
  <2>4. CacheHeld(c)
    BY <1>1 DEF CacheHeld, LooksKept, SeenKept
  <2>5. PublicationInv(c)
    BY <2>1 DEF PublicationInv
  <2> QED BY <2>2, <2>3, <2>4, <2>5
<1> QED BY <1>3, <1>4, <1>5, <1>6 DEF ChannelInv

LEMMA ChannelsBegin == ChannelInit => ChannelInv
<1> SUFFICES ASSUME ChannelInit PROVE ChannelInv
  OBVIOUS
<1>1. RetainedTypeOK /\ ~ Shown(PumpTopic)
  BY NoMessage, EventsAssumption DEF ChannelInit, RetainedInit, RetainedTypeOK, Shown
<1>2. /\ DOMAIN kept = {"watts", "pumpType", "pumpSeen"}
      /\ kept.watts \in [Channels -> Watts \cup {0}] /\ kept.pumpType \in PumpTypes
  BY DEF ChannelInit, PumpTypes
<1> QED BY <1>1, <1>2, ChannelsAfresh DEF ChannelInit, Afresh

LEMMA ChannelsRestart == ChannelInv /\ ChannelRestart => ChannelInv'
<1> SUFFICES ASSUME ChannelInv, ChannelRestart PROVE ChannelInv'
  OBVIOUS
<1>1. RetainedTypeOK'
  BY EventsAssumption DEF ChannelInv, ChannelTypeOK, RetainedTypeOK, ChannelRestart, RetainedRestart, Event
<1>2. /\ (Shown(PumpTopic) => kept.pumpSeen)'
      /\ DOMAIN kept' = {"watts", "pumpType", "pumpSeen"}
      /\ kept'.watts \in [Channels -> Watts \cup {0}] /\ kept'.pumpType \in PumpTypes
  BY DEF ChannelInv, ChannelTypeOK, ChannelShapes, PumpInv, Shown, ChannelRestart, RetainedRestart, PumpTopic
<1>3. Afresh'
  BY <1>1, <1>2 DEF ChannelRestart, Afresh, ChannelPool, ChannelCaches, NoCalls, NobodyBusy
<1> QED BY <1>3, ChannelsAfresh, PTL

(* Steps of a task that has channel c in hand, or takes it: "the channel it *)
(* is about" leaves the others alone.                                       *)
LEMMA OthersHands ==
  ASSUME NEW t \in Tasks, NEW c, NEW d \in Channels, d # c,
         ~ InHand(t, d), ~ InHand(t, d)', \A u \in Tasks : u # t => inHand'[u] = inHand[u]
  PROVE  /\ \A u \in Tasks : InHand(u, d)' => InHand(u, d) /\ inHand'[u] = inHand[u]
         /\ \A u \in Tasks : InHand(u, d) => InHand(u, d)'
BY DEF InHand

LEMMA ChannelLookedAt ==
  ASSUME ChannelInv, NEW t \in Tasks, NEW c \in Channels, LookAt(t, c)
  PROVE  ChannelInv'
<1> DEFINE p == [phase |-> "send", channel |-> c, look |-> ChannelLook(c), seen |-> ChannelSeen(c),
                 pumpType |-> kept.pumpType, announce |-> ConfigNews(c), report |-> ValuesNews(c)]
<1>0. /\ inHand[t] = Idle /\ c \in todo[t] /\ Race(t, c)
      /\ inHand' = [inHand EXCEPT ![t] = p]
      /\ UNCHANGED <<link, broker, stale, events, pool, last, todo, kept, fresh>>
      /\ ChannelTypeOK /\ ChannelShapes
  BY DEF LookAt, Due, ChannelInv, entityVars, retainedVars
<1>1. raced \subseteq raced' /\ raced' \subseteq raced \cup {c}
  BY <1>0 DEF Race
<1>2. DOMAIN inHand' = Tasks /\ inHand'[t] = p /\ \A u \in Tasks : u # t => inHand'[u] = inHand[u]
  BY <1>0 DEF ChannelShapes
<1>3. p.phase = "send" /\ p.channel = c
  OBVIOUS
<1>4. ChannelTypeOK'
  <2>1. RetainedTypeOK'
    BY <1>0 DEF RetainedTypeOK, ChannelTypeOK
  <2>2. ASSUME NEW u \in Tasks
        PROVE  \/ inHand'[u] = Idle
               \/ u = "bridge" /\ inHand'[u].phase = "learn" /\ todo'[u] \cap Channels # {}
               \/ inHand'[u].phase \in {"send", "record"} /\ inHand'[u].channel \in todo'[u] \cap Channels
    BY <1>0, <1>2, <1>3 DEF ChannelTypeOK
  <2> QED BY <2>1, <2>2, <1>0, <1>1 DEF ChannelTypeOK
<1>5. \A u \in Tasks : u = t => inHand'[u].phase # "learn" /\ inHand[u].phase # "learn"
  BY <1>0, <1>2, <1>3 DEF Idle
<1>6. PumpTypeDue' = PumpTypeDue
  <2>1. CASE t = "bridge"
    BY <2>1, <1>0, <1>5, TwoTasks DEF PumpTypeDue
  <2>2. CASE t # "bridge"
    BY <2>2, <1>0, <1>2, TwoTasks DEF PumpTypeDue
  <2> QED BY <2>1, <2>2
<1>7. ChannelShapes'
  BY <1>0, <1>2, <1>5, TwoTasks DEF ChannelShapes
<1>8. PumpInv'
  BY <1>0, PumpStill
<1>9. ASSUME NEW d \in Channels PROVE FreshHeld(d)' /\ FilterHeld(d)'
  <2>1. ASSUME NEW u \in Tasks, InHand(u, d)'
        PROVE  \/ InHand(u, d) /\ inHand'[u].look = inHand[u].look
               \/ inHand'[u].look = ChannelLook(d)
    <3>1. CASE u # t
      BY <3>1, <2>1, <1>2 DEF InHand
    <3>2. CASE u = t
      BY <3>2, <2>1, <1>2 DEF InHand
    <3> QED BY <3>1, <3>2
  <2>2. inHand'["bridge"].phase = "learn" => inHand["bridge"].phase = "learn"
    BY <1>2, <1>5, TwoTasks
  <2> QED BY <2>1, <2>2, <1>0, <1>6, FreshStill, FilterStill
<1>10. ASSUME NEW d \in Channels, d \notin raced'
       PROVE  CacheHeld(d)' /\ PublicationInv(d)' /\ ChannelSaid(d)'
  <2>0. /\ Ch(d)' = Ch(d) /\ ChannelLook(d)' = ChannelLook(d) /\ ChannelSeen(d)' = ChannelSeen(d)
        /\ d \notin raced /\ \A due : Kept(due) => Kept(due)'
        /\ CacheHeld(d) /\ PublicationInv(d) /\ ChannelSaid(d)
    BY <1>0, <1>1, <1>10, ChannelStill, AllKept DEF ChannelInv
  <2>1. CASE d # c
    <3>1. ~ InHand(t, d) /\ ~ InHand(t, d)'
      BY <2>1, <1>0, <1>2, <1>3 DEF InHand, Idle
    <3>2. /\ \A u \in Tasks : InHand(u, d)' => InHand(u, d) /\ inHand'[u] = inHand[u]
          /\ \A u \in Tasks : InHand(u, d) => InHand(u, d)'
      BY <2>1, <3>1, <1>2, OthersHands
    <3> QED BY <2>0, <3>2, <1>0, OtherStill
  <2>2. CASE d = c
    <3>1. ASSUME NEW u \in Tasks, u # t PROVE ~ InHand(u, c) /\ ~ InHand(u, c)'
      BY <3>1, <1>0, <1>2, <1>10, <2>2 DEF Race, InHand
    <3>2. ~ Recorded(c)
      BY <3>1, <1>0 DEF Recorded, InHand, Idle
    <3>3. CacheHeld(c)'
      <4>1. PICK look, pumpType, seen : look = last.look[c] /\ pumpType = last.pumpType /\ seen = last.seen[c]
        OBVIOUS
      <4>2. LooksKept(c, look, pumpType)' /\ SeenKept(c, seen)'
        BY <4>1, <3>2, <1>0, <2>0, <2>2, CachesStill DEF CacheHeld
      <4> QED BY <4>1, <4>2, <1>0 DEF CacheHeld
    <3>4. ASSUME NEW u \in Tasks, InHand(u, c)'
          PROVE  NewsHeld(u, c)' /\ SentHeld(u, c)' /\ CurrentHeld(u, c)' /\ Alone(u, c)'
      <4>1. u = t
        BY <3>1, <3>4
      <4>2. /\ p.look = ChannelLook(c) /\ p.seen = ChannelSeen(c) /\ p.pumpType = kept.pumpType
            /\ p.announce = ConfigNews(c) /\ p.report = ValuesNews(c)
            /\ p.look.type = Ch(c).type
        BY DEF ChannelLook
      <4>3. NewsHeld(t, c)'
        BY <4>2, <1>0, <1>2 DEF NewsHeld, ConfigNews, ValuesNews
      <4>4. SentHeld(t, c)'
        BY <1>2, <1>3 DEF SentHeld
      <4>5. CurrentHeld(t, c)'
        BY <4>2, <1>0, <1>2, <2>0, <2>2 DEF CurrentHeld
      <4>6. Alone(t, c)'
        BY <3>1 DEF Alone
      <4> QED BY <4>1, <4>3, <4>4, <4>5, <4>6
    <3>5. ChannelSaid(c)'
      BY <1>0 DEF ChannelSaid
    <3> QED BY <2>2, <3>3, <3>4, <3>5 DEF PublicationInv
  <2> QED BY <2>1, <2>2
<1> QED BY <1>4, <1>7, <1>8, <1>9, <1>10 DEF ChannelInv

(* What a publication sends is its own channel's.                           *)
LEMMA SentTopics ==
  ASSUME NEW c \in Channels, NEW look, NEW pumpType, NEW seen, NEW announce, NEW report,
         NEW first, first = If(announce, ChannelConfig(c, look, pumpType)),
         NEW second, second = If(report, ChannelValues(c, seen))
  PROVE  /\ DOMAIN first \cup DOMAIN second \subseteq ChannelTopics(c)
         /\ DOMAIN first \cap DOMAIN second = {}
<1>1. DOMAIN first \subseteq ConfigTopics(c)
  BY ChannelMessages, NoMessage DEF If
<1>2. DOMAIN second \subseteq {<<c, "values">>}
  BY ChannelMessages, NoMessage DEF If
<1> QED BY <1>1, <1>2, OwnTopics DEF ChannelTopics

(* The pump's messages, kept, stay kept when a channel's are sent.          *)
LEMMA PumpElsewhere ==
  ASSUME ChannelInv, NEW first, NEW second, Publish(first, second),
         DOMAIN first \cap DOMAIN second = {}, NEW c \in Channels,
         DOMAIN first \cup DOMAIN second \subseteq ChannelTopics(c),
         UNCHANGED <<pool, last, todo, kept>>
  PROVE  PumpInv'
<1>1. PICK due1, due2, due3 :
        due1 = PumpConfig(last.pump) /\ due2 = PumpConfig(PumpLook) /\ due3 = Message(PumpValues, pool.pump)
  OBVIOUS
<1>2. PumpConfig(last.pump)' = due1 /\ PumpConfig(PumpLook)' = due2 /\ Message(PumpValues, pool.pump)' = due3
  BY <1>1 DEF PumpConfig, PumpLook
<1>3. DOMAIN due1 \cup DOMAIN due2 \cup DOMAIN due3 \subseteq {PumpTopic, <<Pump, "power">>, PumpValues}
  BY <1>1, PumpMessages
<1>4. (DOMAIN first \cup DOMAIN second) \cap {PumpTopic, <<Pump, "power">>, PumpValues} = {}
  BY OwnTopics
<1>5. (Kept(due1) => Kept(due1)') /\ (Kept(due2) => Kept(due2)') /\ (Kept(due3) => Kept(due3)')
  <2>1. ASSUME NEW due \in {due1, due2, due3}, Kept(due) PROVE Kept(due)'
    <3>1. DOMAIN due \cap (DOMAIN first \cup DOMAIN second) = {}
      BY <1>3, <1>4
    <3> QED BY <2>1, <3>1, ElsewhereKept
  <2> QED BY <2>1
<1>6. Shown(PumpTopic)' <=> Shown(PumpTopic)
  BY <1>4, ElsewhereShown
<1>7. PumpInv
  BY DEF ChannelInv
<1>8. (Pump \in todo["bridge"] \/ Shown(PumpTopic) => kept.pumpSeen)'
  BY <1>6, <1>7 DEF PumpInv, PumpTopic
<1>9. (last.pump # "none" => Kept(PumpConfig(last.pump)))'
  BY <1>1, <1>2, <1>5, <1>7 DEF PumpInv
<1>10. (Pump \notin todo["bridge"] /\ pool.pump # NoTelemetry =>
          Kept(PumpConfig(PumpLook)) /\ Kept(Message(PumpValues, pool.pump)))'
  BY <1>1, <1>2, <1>5, <1>7 DEF PumpInv, NoTelemetry
<1> QED BY <1>8, <1>9, <1>10 DEF PumpInv

LEMMA ChannelSent ==
  ASSUME ChannelInv, NEW t \in Tasks, SendOut(t)
  PROVE  ChannelInv'
<1>1. PICK c, p : p = inHand[t] /\ c = p.channel
  OBVIOUS
<1>2. PICK first, second : /\ first = If(p.announce, ChannelConfig(c, p.look, p.pumpType))
                           /\ second = If(p.report, ChannelValues(c, p.seen))
  OBVIOUS
<1>3. /\ p.phase = "send" /\ Publish(first, second)
      /\ inHand' = [inHand EXCEPT ![t].phase = "record"]
      /\ UNCHANGED <<pool, last, todo, kept, fresh, raced>>
      /\ ChannelTypeOK /\ ChannelShapes
  BY <1>1, <1>2 DEF SendOut, ChannelInv
<1>4. c \in Channels /\ c \in todo[t] /\ InHand(t, c)
  BY <1>1, <1>3 DEF ChannelTypeOK, InHand, Idle
<1>5. PICK q : q = [p EXCEPT !.phase = "record"]
  OBVIOUS
<1>6. DOMAIN inHand' = Tasks /\ inHand'[t] = q /\ \A u \in Tasks : u # t => inHand'[u] = inHand[u]
  BY <1>1, <1>3, <1>5 DEF ChannelShapes
<1>7. /\ q.channel = c /\ q.look = p.look /\ q.seen = p.seen /\ q.pumpType = p.pumpType
      /\ q.announce = p.announce /\ q.report = p.report
  BY <1>1, <1>5
<1>8. q.phase = "record" /\ q # Idle
  BY <1>1, <1>3, <1>5 DEF ChannelShapes, Idle
<1>9. /\ DOMAIN first \cup DOMAIN second \subseteq ChannelTopics(c)
      /\ DOMAIN first \cap DOMAIN second = {}
  BY <1>2, <1>4, SentTopics
<1>10. ChannelTypeOK'
  <2>1. RetainedTypeOK'
    BY <1>3, PublishTypes DEF ChannelTypeOK
  <2>2. ASSUME NEW u \in Tasks
        PROVE  \/ inHand'[u] = Idle
               \/ u = "bridge" /\ inHand'[u].phase = "learn" /\ todo'[u] \cap Channels # {}
               \/ inHand'[u].phase \in {"send", "record"} /\ inHand'[u].channel \in todo'[u] \cap Channels
    BY <1>3, <1>4, <1>6, <1>7, <1>8 DEF ChannelTypeOK
  <2> QED BY <2>1, <2>2, <1>3 DEF ChannelTypeOK
<1>11. \A u \in Tasks : u = t => inHand'[u].phase # "learn" /\ inHand[u].phase # "learn"
  BY <1>1, <1>3, <1>6, <1>8
<1>12. PumpTypeDue' = PumpTypeDue
  <2>1. CASE t = "bridge"
    BY <2>1, <1>3, <1>11, TwoTasks DEF PumpTypeDue
  <2>2. CASE t # "bridge"
    BY <2>2, <1>3, <1>6, TwoTasks DEF PumpTypeDue
  <2> QED BY <2>1, <2>2
<1>13. ChannelShapes'
  <2>1. \A u \in Tasks : "phase" \in DOMAIN inHand'[u]
    <3>1. "phase" \in DOMAIN q
      BY <1>1, <1>3, <1>5 DEF ChannelShapes
    <3> QED BY <3>1, <1>3, <1>6 DEF ChannelShapes
  <2> QED BY <2>1, <1>3, <1>6, <1>11, TwoTasks DEF ChannelShapes
<1>14. PumpInv'
  BY <1>3, <1>4, <1>9, PumpElsewhere
<1>15. ASSUME NEW d \in Channels, NEW u \in Tasks
       PROVE  /\ InHand(u, d)' <=> InHand(u, d)
              /\ InHand(u, d) => inHand'[u].look = inHand[u].look
              /\ InHand(u, d) /\ d # c => inHand'[u] = inHand[u]
  <2>1. CASE u # t
    BY <2>1, <1>6 DEF InHand
  <2>2. CASE u = t
    BY <2>2, <1>1, <1>3, <1>6, <1>7, <1>8 DEF InHand
  <2> QED BY <2>1, <2>2
<1>16. ASSUME NEW d \in Channels PROVE FreshHeld(d)' /\ FilterHeld(d)'
  <2>1. \A u \in Tasks : InHand(u, d)' => InHand(u, d) /\ inHand'[u].look = inHand[u].look
    BY <1>15
  <2>2. inHand'["bridge"].phase = "learn" => inHand["bridge"].phase = "learn"
    BY <1>6, <1>11, TwoTasks
  <2> QED BY <2>1, <2>2, <1>3, <1>12, FreshStill, FilterStill
<1>17. ASSUME NEW d \in Channels, d \notin raced'
       PROVE  CacheHeld(d)' /\ PublicationInv(d)' /\ ChannelSaid(d)'
  <2>0. /\ Ch(d)' = Ch(d) /\ ChannelLook(d)' = ChannelLook(d) /\ ChannelSeen(d)' = ChannelSeen(d)
        /\ d \notin raced
        /\ CacheHeld(d) /\ PublicationInv(d) /\ ChannelSaid(d) /\ FilterHeld(d)
    BY <1>3, <1>17, ChannelStill DEF ChannelInv
  <2>1. CASE d # c
    <3>1. \A due : DOMAIN due \subseteq ChannelTopics(d) /\ Kept(due) => Kept(due)'
      <4>1. SUFFICES ASSUME NEW due, DOMAIN due \subseteq ChannelTopics(d), Kept(due) PROVE Kept(due)'
        OBVIOUS
      <4>2. DOMAIN due \cap (DOMAIN first \cup DOMAIN second) = {}
        BY <2>1, <4>1, <1>9, OwnTopics
      <4> QED BY <4>1, <4>2, <1>3, <1>9, ElsewhereKept
    <3> QED BY <2>0, <2>1, <3>1, <1>3, <1>15, OtherStill
  <2>2. CASE d = c
    <3>1. NewsHeld(t, c) /\ CurrentHeld(t, c) /\ Alone(t, c)
      BY <2>0, <2>2, <1>4 DEF PublicationInv
    <3>2. ASSUME NEW u \in Tasks, u # t PROVE ~ InHand(u, c)
      BY <3>1, <3>2 DEF Alone
    <3>3. ~ Recorded(c)
      BY <3>2, <1>1, <1>3 DEF Recorded, InHand
    <3>4. LooksKept(c, last.look[c], last.pumpType) /\ SeenKept(c, last.seen[c])
      BY <3>3, <2>0, <2>2 DEF CacheHeld
    <3>5. Recorded(c)'
      BY <1>6, <1>7, <1>8 DEF Recorded
    <3>6. CacheHeld(c)'
      BY <3>5 DEF CacheHeld
    <3>7. LooksKept(c, p.look, p.pumpType)'
      <4>1. CASE p.announce
        <5>1. first = ChannelConfig(c, p.look, p.pumpType)
          BY <4>1, <1>2 DEF If
        <5>2. Kept(first)'
          BY <1>3, <1>9, SentKept
        <5> QED BY <5>1, <5>2 DEF LooksKept
      <4>2. CASE ~ p.announce
        <5>1. p.look = last.look[c] /\ (p.look.type = "filter" => last.pumpType = p.pumpType)
          BY <4>2, <3>1, <1>1 DEF NewsHeld
        <5>2. LooksKept(c, p.look, p.pumpType)
          BY <5>1, <3>4, PumpTypeMatters
        <5>3. PICK due : due = ChannelConfig(c, p.look, p.pumpType)
          OBVIOUS
        <5>4. DOMAIN first = {} /\ DOMAIN second \subseteq {<<c, "values">>} /\ DOMAIN due \subseteq ConfigTopics(c)
          BY <4>2, <5>3, <1>2, NoMessage, ChannelMessages DEF If
        <5>5. DOMAIN due \cap (DOMAIN first \cup DOMAIN second) = {}
          BY <5>4, <1>4, OwnTopics
        <5>6. Kept(due) => Kept(due)'
          BY <5>5, <1>3, <1>9, ElsewhereKept
        <5> QED BY <5>2, <5>3, <5>6 DEF LooksKept
      <4> QED BY <4>1, <4>2
    <3>8. SeenKept(c, p.seen)'
      <4>1. CASE p.report
        <5>1. second = ChannelValues(c, p.seen)
          BY <4>1, <1>2 DEF If
        <5>2. Kept(second)'
          BY <1>3, <1>9, SentKept
        <5> QED BY <5>1, <5>2 DEF SeenKept
      <4>2. CASE ~ p.report
        <5>1. p.seen = last.seen[c]
          BY <4>2, <3>1, <1>1 DEF NewsHeld
        <5>2. PICK due : due = ChannelValues(c, p.seen)
          OBVIOUS
        <5>3. DOMAIN second = {} /\ DOMAIN first \subseteq ConfigTopics(c) /\ DOMAIN due = {<<c, "values">>}
          BY <4>2, <5>2, <1>2, NoMessage, ChannelMessages DEF If
        <5>4. DOMAIN due \cap (DOMAIN first \cup DOMAIN second) = {}
          BY <5>3, <1>4, OwnTopics
        <5>5. Kept(due) => Kept(due)'
          BY <5>4, <1>3, <1>9, ElsewhereKept
        <5> QED BY <5>1, <5>2, <5>5, <3>4 DEF SeenKept
      <4> QED BY <4>1, <4>2
    <3>9. ASSUME NEW u \in Tasks, InHand(u, c)'
          PROVE  NewsHeld(u, c)' /\ SentHeld(u, c)' /\ CurrentHeld(u, c)' /\ Alone(u, c)'
      <4>1. u = t
        BY <3>2, <3>9, <1>4, <1>15
      <4>2. NewsHeld(t, c)'
        BY <3>1, <1>1, <1>3, <1>6, <1>7 DEF NewsHeld
      <4>3. SentHeld(t, c)'
        <5>1. LooksKept(c, q.look, q.pumpType)' /\ SeenKept(c, q.seen)'
          BY <3>7, <3>8, <1>7
        <5> QED BY <5>1, <1>6 DEF SentHeld
      <4>4. CurrentHeld(t, c)'
        BY <3>1, <2>0, <2>2, <1>1, <1>3, <1>6, <1>7 DEF CurrentHeld
      <4>5. Alone(t, c)'
        BY <3>1, <1>4, <1>15 DEF Alone
      <4> QED BY <4>1, <4>2, <4>3, <4>4, <4>5
    <3>10. ChannelSaid(c)'
      BY <1>3, <1>4 DEF ChannelSaid
    <3> QED BY <2>2, <3>6, <3>9, <3>10 DEF PublicationInv
  <2> QED BY <2>1, <2>2
<1> QED BY <1>10, <1>13, <1>14, <1>16, <1>17 DEF ChannelInv

LEMMA ChannelRecorded ==
  ASSUME ChannelInv, NEW t \in Tasks, Record(t)
  PROVE  ChannelInv'
<1>1. PICK c, p : p = inHand[t] /\ c = p.channel
  OBVIOUS
<1>2. /\ p.phase = "record" /\ Done(t, c)
      /\ last' = [last EXCEPT
              !.look[c] = IF p.announce THEN p.look ELSE @,
              !.seen[c] = IF p.report THEN p.seen ELSE @,
              !.pumpType = IF p.announce /\ p.look.type = "filter" THEN p.pumpType ELSE @]
      /\ inHand' = [inHand EXCEPT ![t] = Idle]
      /\ UNCHANGED <<link, broker, stale, events, pool, kept, fresh, raced>>
      /\ ChannelTypeOK /\ ChannelShapes
  BY <1>1 DEF Record, ChannelInv, retainedVars
<1>3. c \in Channels /\ c \in todo[t] /\ InHand(t, c)
  BY <1>1, <1>2 DEF ChannelTypeOK, InHand, Idle
<1>4. /\ DOMAIN last' = DOMAIN last /\ last'.pump = last.pump
      /\ DOMAIN last'.look = Channels /\ DOMAIN last'.seen = Channels
      /\ last'.look[c] = IF p.announce THEN p.look ELSE last.look[c]
      /\ last'.seen[c] = IF p.report THEN p.seen ELSE last.seen[c]
      /\ last'.pumpType = IF p.announce /\ p.look.type = "filter" THEN p.pumpType ELSE last.pumpType
      /\ \A d \in Channels : d # c => last'.look[d] = last.look[d] /\ last'.seen[d] = last.seen[d]
  BY <1>2, <1>3 DEF ChannelShapes
<1>5. /\ todo' \in [Tasks -> SUBSET (Channels \cup {Pump})]
      /\ todo'[t] = todo[t] \ {c} /\ \A u \in Tasks : u # t => todo'[u] = todo[u]
      /\ Pump \in todo'["bridge"] <=> Pump \in todo["bridge"]
      /\ Pump \notin todo'["mqtt"]
  BY <1>2, <1>3, CallDone
<1>6. DOMAIN inHand' = Tasks /\ inHand'[t] = Idle /\ \A u \in Tasks : u # t => inHand'[u] = inHand[u]
  BY <1>2 DEF ChannelShapes
<1>7. ChannelTypeOK'
  <2>1. RetainedTypeOK'
    BY <1>2 DEF RetainedTypeOK, ChannelTypeOK
  <2>2. ASSUME NEW u \in Tasks
        PROVE  \/ inHand'[u] = Idle
               \/ u = "bridge" /\ inHand'[u].phase = "learn" /\ todo'[u] \cap Channels # {}
               \/ inHand'[u].phase \in {"send", "record"} /\ inHand'[u].channel \in todo'[u] \cap Channels
    BY <1>2, <1>5, <1>6 DEF ChannelTypeOK
  <2> QED BY <2>1, <2>2, <1>2, <1>5 DEF ChannelTypeOK
<1>8. \A u \in Tasks : u = t => inHand'[u].phase # "learn" /\ inHand[u].phase # "learn"
  BY <1>1, <1>2, <1>6 DEF Idle
<1>9. PumpTypeDue' = PumpTypeDue
  <2>1. CASE t = "bridge"
    BY <2>1, <1>2, <1>8, TwoTasks DEF PumpTypeDue
  <2>2. CASE t # "bridge"
    BY <2>2, <1>2, <1>6, TwoTasks DEF PumpTypeDue
  <2> QED BY <2>1, <2>2
<1>10. ChannelShapes'
  <2>1. \A u \in Tasks : "phase" \in DOMAIN inHand'[u]
    BY <1>2, <1>6 DEF ChannelShapes, Idle
  <2> QED BY <2>1, <1>2, <1>4, <1>5, <1>6, <1>8, TwoTasks DEF ChannelShapes
<1>11. PumpInv'
  BY <1>2, <1>4, <1>5, PumpStill
<1>12. ASSUME NEW d \in Channels
       PROVE  /\ \A u \in Tasks : InHand(u, d)' => InHand(u, d) /\ inHand'[u] = inHand[u]
              /\ d # c => \A u \in Tasks : InHand(u, d) => InHand(u, d)'
  <2>1. ~ InHand(t, d)'
    BY <1>6 DEF InHand, Idle
  <2>2. d # c => ~ InHand(t, d)
    BY <1>1 DEF InHand
  <2>3. \A u \in Tasks : u # t => (InHand(u, d)' <=> InHand(u, d))
    BY <1>6 DEF InHand
  <2> QED BY <2>1, <2>2, <2>3, <1>6
(* With the filter's channel alone is the type of the pump announced.       *)
<1>13. last'.pumpType = last.pumpType \/ (MayFilter(c) /\ p.look.type = "filter")
  BY <1>1, <1>3, <1>4 DEF ChannelInv, FilterHeld
<1>14. ASSUME NEW d \in Channels PROVE FreshHeld(d)' /\ FilterHeld(d)'
  <2>1. inHand'["bridge"].phase = "learn" => /\ inHand["bridge"].phase = "learn"
                                             /\ todo'["bridge"] = todo["bridge"]
    BY <1>5, <1>6, <1>8, TwoTasks
  <2>2. last'.look[d] = last.look[d] \/ MayFilter(d) \/ last'.look[d].type # "filter"
    <3>1. p.look.type = "filter" => MayFilter(c)
      BY <1>1, <1>3 DEF ChannelInv, FilterHeld
    <3> QED BY <3>1, <1>4
  <2>3. \A u \in Tasks : InHand(u, d)' => InHand(u, d) /\ inHand'[u].look = inHand[u].look
    BY <1>12
  <2> QED BY <2>1, <2>2, <2>3, <1>2, <1>9, FreshStill, FilterStill
<1>15. ASSUME NEW d \in Channels, d \notin raced'
       PROVE  CacheHeld(d)' /\ PublicationInv(d)' /\ ChannelSaid(d)'
  <2>0. /\ Ch(d)' = Ch(d) /\ ChannelLook(d)' = ChannelLook(d) /\ ChannelSeen(d)' = ChannelSeen(d)
        /\ d \notin raced /\ \A due : Kept(due) => Kept(due)'
        /\ CacheHeld(d) /\ PublicationInv(d) /\ ChannelSaid(d)
    BY <1>2, <1>15, ChannelStill, AllKept DEF ChannelInv
  <2>1. CASE d # c
    <3>1. last'.pumpType = last.pumpType \/ ~ MayFilter(d)
      BY <2>1, <1>3, <1>13, OneFilter
    <3>2. \A u \in Tasks : d \in todo[u] => d \in todo'[u]
      BY <2>1, <1>5
    <3> QED BY <2>0, <2>1, <3>1, <3>2, <1>2, <1>4, <1>12, OtherStill
  <2>2. CASE d = c
    <3>1. NewsHeld(t, c) /\ SentHeld(t, c) /\ CurrentHeld(t, c) /\ Alone(t, c)
      BY <2>0, <2>2, <1>3 DEF PublicationInv
    <3>2. \A u \in Tasks : u # t => ~ InHand(u, c)
      BY <3>1 DEF Alone
    <3>3. \A u \in Tasks : ~ InHand(u, c)'
      BY <3>2, <1>3, <1>6, <1>12 DEF InHand, Idle
    <3>4. last'.look[c] = p.look /\ last'.seen[c] = p.seen
      BY <3>1, <1>1, <1>4 DEF NewsHeld
    <3>5. p.look.type = "filter" => last'.pumpType = p.pumpType
      BY <3>1, <1>1, <1>4 DEF NewsHeld
    <3>6. CacheHeld(c)'
      <4>1. LooksKept(c, p.look, p.pumpType) /\ SeenKept(c, p.seen)
        BY <3>1, <1>1, <1>2 DEF SentHeld
      <4>2. PICK pumpType : pumpType = last'.pumpType
        OBVIOUS
      <4>3. LooksKept(c, p.look, pumpType)
        BY <4>1, <4>2, <3>5, PumpTypeMatters
      <4>4. LooksKept(c, p.look, pumpType)' /\ SeenKept(c, p.seen)'
        BY <4>1, <4>3, <1>2, CachesStill
      <4> QED BY <4>2, <4>4, <3>4 DEF CacheHeld
    <3>7. PublicationInv(c)'
      BY <3>3 DEF PublicationInv
    <3>8. ChannelSaid(c)'
      <4> SUFFICES ASSUME c \in fresh', \A u \in Tasks : c \notin todo'[u]
                   PROVE  /\ last'.look[c] = ChannelLook(c)' /\ last'.seen[c] = ChannelSeen(c)'
                          /\ Ch(c)'.type = "filter" => last'.pumpType = kept'.pumpType
        BY DEF ChannelSaid
      <4>1. c \in fresh /\ \A u \in Tasks : u # t => c \notin todo[u]
        BY <1>2, <1>5
      <4>2. /\ p.look = ChannelLook(c) /\ p.seen = ChannelSeen(c)
            /\ Ch(c).type = "filter" => p.pumpType = kept.pumpType
        BY <4>1, <3>1, <1>1 DEF CurrentHeld
      <4>3. p.look.type = Ch(c).type
        BY <4>2 DEF ChannelLook
      <4> QED BY <4>2, <4>3, <3>4, <3>5, <2>0, <2>2, <1>2
    <3> QED BY <2>2, <3>6, <3>7, <3>8
  <2> QED BY <2>1, <2>2
<1> QED BY <1>7, <1>10, <1>11, <1>14, <1>15 DEF ChannelInv

(* The pump's messages arrive, or each of them is dropped.                  *)
LEMMA PumpPublished == ChannelInv /\ PublishPump => ChannelInv'
<1> SUFFICES ASSUME ChannelInv, PublishPump PROVE ChannelInv'
  OBVIOUS
<1> DEFINE known == last.pump # PumpLook
<1>1. PICK first, second, config :
        /\ config = PumpConfig(PumpLook) /\ first = If(known, config)
        /\ second = Message(PumpValues, pool.pump)
  OBVIOUS
<1>2. /\ todo["bridge"] = {Pump} /\ Done("bridge", Pump)
      /\ UNCHANGED <<pool, kept, inHand, fresh, raced>>
      /\ ChannelTypeOK /\ ChannelShapes /\ PumpInv
  BY DEF PublishPump, ChannelInv
<1>3. \/ /\ link = "down" /\ stale' = stale \cup {PumpValues} \cup DOMAIN config
         /\ UNCHANGED <<link, broker, events, last>>
      \/ Publish(first, second) /\ last' = [last EXCEPT !.pump = PumpLook]
  BY <1>1 DEF PublishPump
<1>4. /\ DOMAIN config = {PumpTopic, <<Pump, "power">>} /\ DOMAIN second = {PumpValues}
      /\ DOMAIN first \subseteq DOMAIN config
      /\ DOMAIN first \cap DOMAIN second = {} /\ DOMAIN config \cap DOMAIN second = {}
  <2>1. DOMAIN config = {PumpTopic, <<Pump, "power">>} /\ DOMAIN second = {PumpValues}
    BY <1>1, PumpMessages
  <2>2. DOMAIN first \subseteq DOMAIN config
    BY <1>1, NoMessage DEF If
  <2>3. PumpValues \notin {PumpTopic, <<Pump, "power">>}
    BY DEF PumpValues, PumpTopic
  <2> QED BY <2>1, <2>2, <2>3
<1>5. /\ DOMAIN last' = DOMAIN last /\ last'.look = last.look /\ last'.seen = last.seen
      /\ last'.pumpType = last.pumpType
      /\ last'.pump = last.pump \/ last'.pump = PumpLook
  BY <1>2, <1>3 DEF ChannelShapes
<1>6. /\ todo' \in [Tasks -> SUBSET (Channels \cup {Pump})]
      /\ todo'["bridge"] = {} /\ todo'["mqtt"] = todo["mqtt"]
  BY <1>2, TwoTasks DEF Done, ChannelTypeOK
<1>7. inHand["bridge"] = Idle
  BY <1>2, TwoTasks DEF ChannelTypeOK, Pump, Channels
<1>8. ChannelTypeOK'
  <2>1. RetainedTypeOK'
    BY <1>2, <1>3, PublishTypes DEF RetainedTypeOK, ChannelTypeOK
  <2>2. ASSUME NEW u \in Tasks
        PROVE  \/ inHand'[u] = Idle
               \/ u = "bridge" /\ inHand'[u].phase = "learn" /\ todo'[u] \cap Channels # {}
               \/ inHand'[u].phase \in {"send", "record"} /\ inHand'[u].channel \in todo'[u] \cap Channels
    BY <1>2, <1>6, <1>7, TwoTasks DEF ChannelTypeOK
  <2> QED BY <2>1, <2>2, <1>2, <1>6 DEF ChannelTypeOK
<1>9. ChannelShapes'
  <2>1. last'.pump \in {"none", "speed", "power"}
    BY <1>2, <1>5 DEF PumpLook, ChannelShapes
  <2> QED BY <2>1, <1>2, <1>5, <1>6 DEF ChannelShapes
<1>10. ASSUME NEW due,
              Publish(first, second) => DOMAIN due \cap (DOMAIN first \cup DOMAIN second) = {},
              Kept(due)
       PROVE  Kept(due)'
  <2>1. CASE stale' = stale \cup {PumpValues} \cup DOMAIN config /\ UNCHANGED broker
    BY <2>1, <1>10 DEF Kept, Shown
  <2>2. CASE Publish(first, second)
    BY <2>2, <1>4, <1>10, ElsewhereKept
  <2> QED BY <2>1, <2>2, <1>3
<1>11. Kept(config)' /\ Kept(second)'
  <2>1. CASE stale' = stale \cup {PumpValues} \cup DOMAIN config
    BY <2>1, <1>4 DEF Kept
  <2>2. CASE Publish(first, second)
    <3>1. Kept(first)' /\ Kept(second)'
      BY <2>2, <1>4, SentKept
    <3>2. CASE known
      BY <3>1, <3>2, <1>1 DEF If
    <3>3. CASE ~ known
      <4>1. DOMAIN first = {} /\ last.pump = PumpLook /\ PumpLook # "none"
        BY <3>3, <1>1, NoMessage DEF If, PumpLook
      <4>2. Kept(config)
        BY <4>1, <1>1, <1>2 DEF PumpInv
      <4>3. DOMAIN config \cap (DOMAIN first \cup DOMAIN second) = {}
        BY <4>1, <1>4
      <4> QED BY <3>1, <4>2, <4>3, <1>10
    <3> QED BY <3>1, <3>2, <3>3
  <2> QED BY <2>1, <2>2, <1>3
<1>12. PumpInv'
  <2>1. PumpConfig(PumpLook)' = config /\ Message(PumpValues, pool.pump)' = second
    BY <1>1, <1>2 DEF PumpConfig, PumpLook
  <2>2. (Kept(PumpConfig(PumpLook)) /\ Kept(Message(PumpValues, pool.pump)))'
    BY <2>1, <1>11
  <2>3. kept'.pumpSeen
    BY <1>2 DEF PumpInv
  <2>4. (last.pump # "none" => Kept(PumpConfig(last.pump)))'
    <3>1. CASE last'.pump = PumpLook
      <4>1. PumpConfig(last.pump)' = config
        BY <3>1, <1>1 DEF PumpConfig
      <4> QED BY <4>1, <1>11
    <3>2. CASE last'.pump # PumpLook
      <4>1. last' = last /\ stale' = stale \cup {PumpValues} \cup DOMAIN config
        BY <3>2, <1>2, <1>3 DEF ChannelShapes
      <4>2. PICK due : due = PumpConfig(last.pump)
        OBVIOUS
      <4>3. DOMAIN due = DOMAIN config
        BY <4>2, <1>4, PumpMessages
      <4>4. Kept(due)'
        BY <4>1, <4>3 DEF Kept
      <4> QED BY <4>1, <4>2, <4>4 DEF PumpConfig
    <3> QED BY <3>1, <3>2
  <2> QED BY <2>2, <2>3, <2>4 DEF PumpInv
<1>13. ASSUME NEW d \in Channels PROVE FreshHeld(d)' /\ FilterHeld(d)'
  <2>1. PumpTypeDue' = PumpTypeDue
    BY <1>2 DEF PumpTypeDue
  <2>2. \A u \in Tasks : InHand(u, d)' => InHand(u, d)
    BY <1>2 DEF InHand
  <2>3. inHand'["bridge"].phase # "learn"
    BY <1>2, <1>7 DEF Idle
  <2> QED BY <2>1, <2>2, <2>3, <1>2, <1>5, FreshStill, FilterStill
<1>14. ASSUME NEW d \in Channels, d \notin raced'
       PROVE  CacheHeld(d)' /\ PublicationInv(d)' /\ ChannelSaid(d)'
  <2>1. /\ Ch(d)' = Ch(d) /\ ChannelLook(d)' = ChannelLook(d) /\ ChannelSeen(d)' = ChannelSeen(d)
        /\ \A u \in Tasks : InHand(u, d)' <=> InHand(u, d)
    BY <1>2, ChannelStill DEF InHand
  <2>2. \A due : DOMAIN due \subseteq ChannelTopics(d) /\ Kept(due) => Kept(due)'
    <3>1. ChannelTopics(d) \cap (DOMAIN first \cup DOMAIN second) = {}
      BY <1>4, OwnTopics
    <3> QED BY <3>1, <1>10
  <2>3. \A u \in Tasks : d \in todo[u] => d \in todo'[u]
    BY <1>2, <1>6, TwoTasks DEF Pump, Channels
  <2> QED BY <2>1, <2>2, <2>3, <1>2, <1>5, <1>14, OtherStill
<1> QED BY <1>8, <1>9, <1>12, <1>13, <1>14 DEF ChannelInv

LEMMA ChannelsStep == ChannelInv /\ ChannelNext => ChannelInv'
<1>1. ASSUME ChannelInv, PublishChannels PROVE ChannelInv'
  BY <1>1, ChannelSkipped, ChannelLookedAt, ChannelSent, ChannelRecorded, TypeLearnt, PumpPublished
     DEF PublishChannels
<1> QED BY <1>1, ChannelsHandled, CommandDropped, PowerCommanded, ChannelsLink, ChannelsRestart
        DEF ChannelNext

LEMMA ChannelsStand == ChannelInv /\ UNCHANGED channelVars => ChannelInv'
<1> SUFFICES ASSUME ChannelInv, UNCHANGED channelVars PROVE ChannelInv'
  OBVIOUS
<1>0. /\ UNCHANGED <<link, broker, stale, events, pool, last, todo, kept, inHand, fresh, raced>>
      /\ ChannelTypeOK /\ ChannelShapes
  BY DEF ChannelInv, channelVars, entityVars, retainedVars
<1>1. ChannelTypeOK' /\ ChannelShapes'
  BY <1>0 DEF ChannelTypeOK, RetainedTypeOK, ChannelShapes
<1>2. PumpInv'
  BY <1>0, PumpStill
<1>3. ASSUME NEW d \in Channels PROVE FreshHeld(d)' /\ FilterHeld(d)'
  <2>1. PumpTypeDue' = PumpTypeDue /\ \A u \in Tasks : InHand(u, d)' => InHand(u, d)
    BY <1>0 DEF PumpTypeDue, InHand
  <2> QED BY <2>1, <1>0, FreshStill, FilterStill
<1>4. ASSUME NEW d \in Channels, d \notin raced'
      PROVE  CacheHeld(d)' /\ PublicationInv(d)' /\ ChannelSaid(d)'
  <2>1. /\ Ch(d)' = Ch(d) /\ ChannelLook(d)' = ChannelLook(d) /\ ChannelSeen(d)' = ChannelSeen(d)
        /\ \A u \in Tasks : InHand(u, d)' <=> InHand(u, d)
        /\ \A due : Kept(due) => Kept(due)'
    BY <1>0, ChannelStill, AllKept DEF InHand
  <2> QED BY <2>1, <1>0, <1>4, OtherStill
<1> QED BY <1>1, <1>2, <1>3, <1>4 DEF ChannelInv

(* What is due for a topic, and was not dropped, is there.                  *)
LEMMA ThereUnlessDropped ==
  ASSUME NEW due, Kept(due), NEW topic \in DOMAIN due, topic \notin stale, due[topic] # Removed
  PROVE  broker[topic] = due[topic]
BY DEF Kept

LEMMA SettledShown ==
  ASSUME ChannelInv, NEW c \in Channels, Settled(c)
  PROVE  /\ Kept(ChannelConfig(c, ChannelLook(c), kept.pumpType))
         /\ Kept(ChannelValues(c, ChannelSeen(c)))
         /\ FreshHeld(c) /\ PumpTypeDue = kept.pumpType
         /\ todo["bridge"] = {}
<1>1. /\ c \in fresh /\ c \notin raced /\ \A t \in Tasks : todo[t] = {}
      /\ CacheHeld(c) /\ ChannelSaid(c) /\ FreshHeld(c) /\ ChannelTypeOK
  BY DEF Settled, ChannelInv
<1>2. \A t \in Tasks : inHand[t] = Idle
  BY <1>1 DEF ChannelTypeOK
<1>3. ~ Recorded(c) /\ PumpTypeDue = kept.pumpType /\ todo["bridge"] = {}
  BY <1>1, <1>2, TwoTasks DEF Recorded, PumpTypeDue, Idle
<1>4. /\ last.look[c] = ChannelLook(c) /\ last.seen[c] = ChannelSeen(c)
      /\ Ch(c).type = "filter" => last.pumpType = kept.pumpType
  BY <1>1 DEF ChannelSaid
<1>5. LooksKept(c, last.look[c], last.pumpType) /\ SeenKept(c, last.seen[c])
  BY <1>1, <1>3 DEF CacheHeld
<1>6. LooksKept(c, ChannelLook(c), kept.pumpType)
  <2>1. ChannelLook(c).type = Ch(c).type
    BY DEF ChannelLook
  <2> QED BY <2>1, <1>4, <1>5, PumpTypeMatters
<1>7. ChannelLook(c) # Never /\ ChannelSeen(c) # Never
  BY DEF ChannelLook, ChannelSeen, Never
<1>8. Kept(ChannelConfig(c, ChannelLook(c), kept.pumpType)) /\ Kept(ChannelValues(c, ChannelSeen(c)))
  BY <1>4, <1>5, <1>6, <1>7 DEF LooksKept, SeenKept
<1> QED BY <1>1, <1>3, <1>8

(* The state shown of a settled channel is its state.                       *)
LEMMA SettledValues ==
  ASSUME ChannelInv, NEW c \in Channels, Settled(c), <<c, "values">> \notin stale
  PROVE  /\ broker[<<c, "values">>].state = Ch(c).state
         /\ broker[<<c, "values">>].active = Ch(c).active
<1>1. PICK due, seen : due = ChannelValues(c, seen) /\ seen = ChannelSeen(c)
  OBVIOUS
<1>2. /\ DOMAIN due = {<<c, "values">>} /\ due[<<c, "values">>] = seen.values /\ Kept(due)
  BY <1>1, ChannelMessages, SettledShown
<1>3. seen.values.state = Ch(c).state /\ seen.values.active = Ch(c).active /\ seen.values # Removed
  BY <1>1 DEF ChannelSeen, Removed
<1> QED BY <1>2, <1>3, ThereUnlessDropped

LEMMA ChannelInvShows ==
  ChannelInv => ChannelTypeOK /\ ChannelShown /\ SolarShown /\ StateIsAnOption /\ PumpFollowsFilter
<1> SUFFICES ASSUME ChannelInv
             PROVE  ChannelTypeOK /\ ChannelShown /\ SolarShown /\ StateIsAnOption /\ PumpFollowsFilter
  OBVIOUS
<1>1. ChannelTypeOK /\ ChannelShown
  BY SettledShown DEF ChannelShown, ChannelInv
<1>2. SolarShown
  <2> SUFFICES ASSUME NEW c \in Channels, Settled(c), Ch(c).type = "solar", <<c, "values">> \notin stale
               PROVE  /\ pool.solar.mode \in {"unknown", broker[<<c, "values">>].state}
                      /\ \/ pool.solar.active = "unknown"
                         \/ broker[<<c, "values">>].active = (pool.solar.active = "yes")
    BY DEF SolarShown
  <2>1. SolarHeld(Ch(c), pool.solar)
    BY SettledShown DEF FreshHeld, Settled
  <2> QED BY <2>1, SettledValues DEF SolarHeld
<1>3. StateIsAnOption
  <2> SUFFICES ASSUME NEW c \in Channels, Settled(c), Ch(c).type = "filter",
                      {<<c, "select">>, <<c, "values">>} \cap stale = {}
               PROVE  broker[<<c, "values">>].state \in broker[<<c, "select">>].options
    BY DEF StateIsAnOption
  <2>1. Ch(c).state \in Options("filter", kept.pumpType)
    BY SettledShown DEF FreshHeld, Settled
  <2>2. PICK look, due : look = ChannelLook(c) /\ due = ChannelConfig(c, look, kept.pumpType)
    OBVIOUS
  <2>3. look.type = "filter" /\ Kept(due)
    BY <2>2, SettledShown DEF ChannelLook
  <2>4. /\ <<c, "select">> \in DOMAIN due
        /\ due[<<c, "select">>] = [name |-> look.name, options |-> Options("filter", kept.pumpType)]
    BY <2>2, <2>3 DEF ChannelConfig, Over, StateEntities, PowerNumber, ModeSelect, PowerSensors,
                      Message, If, NoMessages, PumpSelect
  <2>5. due[<<c, "select">>] # Removed
    BY <2>4 DEF Removed
  <2>6. broker[<<c, "select">>].options = Options("filter", kept.pumpType)
    BY <2>3, <2>4, <2>5, ThereUnlessDropped
  <2>7. broker[<<c, "values">>].state = Ch(c).state
    BY SettledValues
  <2> QED BY <2>1, <2>6, <2>7
<1>4. PumpFollowsFilter
  <2>1. Shown(PumpTopic) => kept.pumpSeen
    BY DEF ChannelInv, PumpInv
  <2>2. ASSUME NEW c \in Channels, Settled(c), Pump \in fresh, Ch(c).type = "filter", ~ Ch(c).active,
               kept.pumpSeen
        PROVE  /\ pool.pump = Stopped
               /\ Kept(PumpConfig(PumpLook)) /\ Kept(Message(PumpValues, pool.pump))
    <3>1. pool.pump = Stopped
      BY <2>2, SettledShown DEF FreshHeld, Settled
    <3>2. pool.pump # NoTelemetry
      BY <3>1 DEF Stopped, NoTelemetry
    <3>3. Pump \notin todo["bridge"]
      BY <2>2, SettledShown
    <3> QED BY <3>1, <3>2, <3>3 DEF ChannelInv, PumpInv
  <2> QED BY <2>1, <2>2 DEF PumpFollowsFilter
<1> QED BY <1>1, <1>2, <1>3, <1>4

-----------------------------------------------------------------------------
(* The families are independent: what changes one leaves its focus alone.   *)
FamilyInv ==
  /\ focus = "lights" => LightInv
  /\ focus = "valves" => ValveInv
  /\ focus = "favourites" => FavouriteInv
  /\ focus = "readings" => ReadingInv
  /\ focus = "channels" => ChannelInv

LEMMA FamiliesBegin == FamilyInit => FamilyInv
BY LightsBegin, ValvesBegin, FavouritesBegin, ReadingsBegin, ChannelsBegin DEF FamilyInit, FamilyInv

LEMMA FamiliesStep == FamilyInv /\ [FamilyNext]_familyVars => FamilyInv'
<1> SUFFICES ASSUME FamilyInv, [FamilyNext]_familyVars PROVE FamilyInv'
  OBVIOUS
<1>1. CASE FamilyNext
  BY <1>1, LightsStep, ValvesStep, FavouritesStep, ReadingsStep, ChannelsStep DEF FamilyInv, FamilyNext
<1>2. CASE UNCHANGED familyVars
  <2>1. UNCHANGED <<link, broker, stale, events, pool, last, todo, job, overtaken, focus>>
    BY <1>2 DEF familyVars, channelVars, entityVars, retainedVars
  <2>2. LightInv => LightInv'
    BY <2>1 DEF LightInv, LightTypeOK, RetainedTypeOK, LookKept, LightKept, LightSaid, KeptAs,
                Shown, Called, Light, LightLook, EffectiveModel
  <2>3. ValveInv => ValveInv'
    BY <2>1 DEF ValveInv, ValveTypeOK, RetainedTypeOK, LabelKept, ValveKept, ValveSaid, KeptAs,
                Shown, Called, Valve
  <2>4. FavouriteInv => FavouriteInv'
    BY <2>1 DEF FavouriteInv, FavouriteTypeOK, RetainedTypeOK, SelectKept, SelectDue,
                FavouritesSaid, ModeKept, ModeSaid, KeptAs, Shown
  <2>5. ReadingInv => ReadingInv'
    <3> SUFFICES ASSUME ReadingInv PROVE ReadingInv'
      OBVIOUS
    <3>1. /\ RetainedTypeOK' /\ pool \in ReadingPools /\ todo' \in Seq(Calls(pool.seen))
          /\ \A x : Called(x) => Called(x)'
      BY <2>1 DEF ReadingInv, ReadingTypes, RetainedTypeOK, Called
    <3>2. /\ ReadingTypes' /\ TempInv' /\ ServiceInv'
          /\ (last.chlorEntities # {} => KeptAs(ChlorTopic, Shows(last.chlor)))'
      BY <2>1, <3>1, NothingSent
    <3>3. ChlorInv'
      BY <2>1, <3>1, <3>2 DEF ReadingInv, ChlorInv
    <3> QED BY <3>2, <3>3 DEF ReadingInv
  <2>6. ChannelInv => ChannelInv'
    BY <1>2, ChannelsStand DEF familyVars
  <2> QED BY <2>1, <2>2, <2>3, <2>4, <2>5, <2>6 DEF FamilyInv
<1> QED BY <1>1, <1>2

(* "The type selects the color effect list on the HA light entities, so     *)
(* re-publish configured zones when it changes" (message_decoder.c:1382)    *)
(* and "Re-publish valve discovery and state now that the name is known"    *)
(* (message_decoder.c:4016): a light zone or a valve in use is with the     *)
(* broker as it is, in title, effects, resync button and state, unless a    *)
(* message about it was dropped, for any zones, models, names, valves and   *)
(* labels, and any number of frames, outages and restarts.                  *)
THEOREM LightsAndValves_Shown == FamilySpec => []LightsAndValvesShown
<1>1. FamilyInv => LightsAndValvesShown
  BY LightInvShows, ValveInvShows DEF FamilyInv, LightsAndValvesShown, Of, LightInv, ValveInv
<1> QED BY <1>1, FamiliesBegin, FamiliesStep, PTL DEF FamilySpec

(* "Without separate modes the Touchscreen also hides the Pool and Spa      *)
(* favourites" (mqtt_publish.c:385) and "by the name discovery offers"      *)
(* (mqtt_commands.c:358): for any favourites and labels, whichever of the   *)
(* two tasks announced last, the options shown are those of the favourites  *)
(* as they are, unless dropped or announced from an old snapshot, and what  *)
(* they offer selects a favourite of that name.                             *)
THEOREM Favourites_Shown == FamilySpec => []FavouritesShown
<1>1. FamilyInv => FavouritesShown
  BY FavouriteInvShows DEF FamilyInv, FavouritesShown, Of, FavouriteInv
<1> QED BY <1>1, FamiliesBegin, FamiliesStep, PTL DEF FamilySpec

(* "After three missed cycles the held value is cleared, so MQTT and the    *)
(* web UI report it as unknown rather than showing a stale number"          *)
(* (message_decoder.c:748) and "A sensor that is not connected publishes a  *)
(* null value ... once per run of not-connected readings"                   *)
(* (mqtt_publish.c:149): for any values, devices, sizes of the table and    *)
(* age at which a reading is stale, what is shown of a reading is what was  *)
(* read, or unknown when it is old or has no sensor, unless dropped; and    *)
(* service mode is shown as it is.                                          *)
THEOREM Readings_Shown == FamilySpec => []ReadingsShown
<1>1. FamilyInv => ReadingsShown
  BY ReadingInvShows DEF FamilyInv, ReadingsShown, Of
<1> QED BY <1>1, FamiliesBegin, FamiliesStep, PTL DEF FamilySpec

(* "Re-publish discovery if the display name changed ... Also re-publish    *)
(* when the channel gains or loses a configured wattage"                    *)
(* (mqtt_publish.c:464), "An option always matches the state HA reads back" *)
(* (mqtt_discovery.c:1051), "Stale ordinary-channel data cannot overwrite   *)
(* either independently observed value" (message_decoder.c:3261): for any   *)
(* number of channels of which one is the filter's, any frames, names and   *)
(* watts, however the two tasks take turns, a channel left by a status      *)
(* frame has the entities, the options and the state it should have, unless *)
(* a message was dropped or both tasks had it in hand; and the pump is      *)
(* there only for telemetry, and shown stopped with its channel.            *)
THEOREM Channels_Shown == FamilySpec => []ChannelsShown
<1>1. FamilyInv => ChannelsShown
  BY ChannelInvShows DEF FamilyInv, ChannelsShown, Of
<1> QED BY <1>1, FamiliesBegin, FamiliesStep, PTL DEF FamilySpec
=============================================================================
