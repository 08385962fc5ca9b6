--------------------------- MODULE EntityResetProofs ---------------------------
(***************************************************************************)
(* A reset retracts what it listed, reads no slot without a topic and      *)
(* touches nobody else's entities, for any entities, any room in the list, *)
(* any order of the broker's messages and any number of changes meanwhile. *)
(***************************************************************************)
EXTENDS EntityReset, TLAPS

Before == {"claimed", "created", "collect"}
Stages == Before \cup {"ready", "refused", "collected", "walk", "done"}
Handled == [at : {"store", "count"}, topic : Own, index : 1 .. MaxTopics]

Typed ==
  /\ ResetTypeOK
  /\ active \in BOOLEAN /\ disturbed \in BOOLEAN
  /\ task \in [Buttons -> [at : Stages, i : Nat, n : Nat]]
  /\ mqtt = Quiet \/ mqtt \in Handled

(* One reset at a time is claimed and collects, and one walks; the other    *)
(* can only have been claimed since. Until a reset subscribed no discovery  *)
(* message was received.                                                    *)
OneClaim ==
  /\ \A a, b \in Buttons : task[a].at \in Before /\ task[b].at \in Before => a = b
  /\ ~ active => \A b \in Buttons : task[b].at \notin Before
  /\ active => \E b \in Buttons : task[b].at \in Before

OneWalk ==
  /\ \A a, b \in Walking : a = b
  /\ \A b \in Buttons : task[b].at # "walk" => task[b].i = 1
  /\ \A a, b \in Buttons : task[a].at = "done" => task[b].at = "done"

Unheard ==
  (\A b \in Buttons : task[b].at \in {"ready", "claimed", "created", "refused"}) =>
    mqtt = Quiet /\ inbox = <<>> /\ link # "subscribed"

OneReset == OneClaim /\ OneWalk /\ Unheard

(* The slots up to the count hold topics until a walk begins, and those     *)
(* still to be walked until they are.                                       *)
Filled(n) == \A j \in 1 .. n : list[j] \in Own

SlotsHeld ==
  /\ (\A b \in Buttons : task[b].at # "walk") =>
       /\ Filled(count)
       /\ mqtt.at = "store" => Filled(mqtt.index - 1)
       /\ mqtt.at = "count" => Filled(mqtt.index)
  /\ \A b \in Buttons : task[b].at = "walk" =>
       /\ task[b].i \in Nat \ {0} /\ task[b].n \in 0 .. MaxTopics
       /\ \A j \in task[b].i .. task[b].n : list[j] \in Own
  /\ ~ misread /\ Foreign \subseteq retained

(* Whoever has nothing against it finds in the list what was listed, until  *)
(* it is retracted.                                                         *)
Found(b) ==
  IF task[b].at # "walk"
  THEN \A t \in listed : \E j \in 1 .. count : list[j] = t
  ELSE /\ task[b].n <= count
       /\ \A t \in listed :
            (\E j \in task[b].i .. task[b].n : list[j] = t) \/ t \notin retained \/ t \in renewed

Undisturbed(b) ==
  /\ link # "down"
  /\ \A c \in Buttons : c # b => task[c].at \notin Before \cup {"collected", "walk"}
  /\ mqtt.at # "idle" => mqtt.index = count + 1
  /\ mqtt.at = "count" /\ task[b].at # "walk" => list[mqtt.index] = mqtt.topic
  /\ Found(b)

ListHeld ==
  ~ disturbed =>
    \A b \in Buttons : task[b].at \in {"collect", "collected", "walk"} => Undisturbed(b)

Inv == Typed /\ OneReset /\ SlotsHeld /\ ListHeld

-----------------------------------------------------------------------------
LEMMA MoveTask ==
  ASSUME Typed, NEW b \in Buttons, NEW from, NEW to \in Stages, Move(b, from, to)
  PROVE  /\ task[b].at = from /\ task' \in [Buttons -> [at : Stages, i : Nat, n : Nat]]
         /\ task'[b].at = to /\ task'[b].i = task[b].i /\ task'[b].n = task[b].n
         /\ \A c \in Buttons : c # b => task'[c] = task[c]
BY DEF Typed, Move

LEMMA InitInv == ResetInit => Inv
<1> SUFFICES ASSUME ResetInit PROVE Inv
  OBVIOUS
<1> USE ResetAssumption DEF ResetInit
<1>1. \A b \in Buttons : task[b].at = "ready" /\ task[b].i = 1
  BY DEF Ready
<1>2. Typed
  <2>1. Ready \in [at : Stages, i : Nat, n : Nat]
    BY DEF Ready, Stages
  <2>2. ResetTypeOK
    BY DEF ResetTypeOK
  <2> QED
    BY <2>1, <2>2 DEF Typed
<1>3. OneReset
  BY <1>1 DEF OneReset, OneClaim, OneWalk, Unheard, Walking, Before
<1>4. SlotsHeld
  BY <1>1 DEF SlotsHeld, Filled, Quiet
<1>5. ListHeld
  BY <1>1 DEF ListHeld
<1> QED
  BY <1>2, <1>3, <1>4, <1>5 DEF Inv

(* Only a call that finds no reset active claims one, and when it does so   *)
(* during a walk that is noted.                                             *)
LEMMA StartInv == ASSUME Inv, NEW b \in Buttons, Start(b) PROVE Inv'
<1> USE ResetAssumption DEF Inv
<1> DEFINE to == IF active THEN "refused" ELSE "claimed"
<1>1. /\ Move(b, "ready", to) /\ to \in Stages /\ active'
      /\ disturbed' = (disturbed \/ (Walking # {} /\ task'[b].at = "claimed"))
      /\ link # "down"
      /\ UNCHANGED <<list, count, inbox, link, listed, renewed, misread, mqtt, retained>>
  BY DEF Start, Claim, outsideVars, Stages, Before
<1>2. /\ task[b].at = "ready" /\ task' \in [Buttons -> [at : Stages, i : Nat, n : Nat]]
      /\ task'[b].at = to /\ task'[b].i = task[b].i /\ task'[b].n = task[b].n
      /\ \A c \in Buttons : c # b => task'[c] = task[c]
  BY <1>1, MoveTask
<1>3. Typed'
  BY <1>1, <1>2 DEF Typed, ResetTypeOK, Start
<1>4. Walking' = Walking
  BY <1>2 DEF Walking
<1>5. OneReset'
  <2>1. OneClaim'
    BY <1>1, <1>2 DEF OneReset, OneClaim, Before
  <2>2. OneWalk'
    BY <1>1, <1>2, <1>4 DEF OneReset, OneWalk
  <2>3. Unheard'
    BY <1>1, <1>2 DEF OneReset, Unheard
  <2> QED
    BY <2>1, <2>2, <2>3 DEF OneReset
<1>6. SlotsHeld'
  BY <1>1, <1>2 DEF SlotsHeld, Filled
<1>7. ListHeld'
  <2> SUFFICES ASSUME ~ disturbed', NEW c \in Buttons,
                      task'[c].at \in {"collect", "collected", "walk"}
               PROVE  Undisturbed(c)'
    BY DEF ListHeld
  <2>1. c # b /\ task'[c] = task[c] /\ ~ disturbed
    BY <1>1, <1>2
  <2>2. active
    <3> SUFFICES ASSUME ~ active PROVE FALSE
      OBVIOUS
    <3>1. task'[b].at = "claimed" /\ Walking = {}
      BY <1>1, <1>2
    <3>2. task[c].at \notin Before
      BY DEF OneReset, OneClaim
    <3> QED
      BY <2>1, <3>1, <3>2 DEF Before, Walking
  <2>3. Undisturbed(c)
    BY <2>1 DEF ListHeld
  <2> QED
    BY <1>1, <1>2, <2>1, <2>2, <2>3 DEF Undisturbed, Found, Before
<1> QED
  BY <1>3, <1>5, <1>6, <1>7

LEMMA ClearAndCreateInv == ASSUME Inv, NEW b \in Buttons, ClearAndCreate(b) PROVE Inv'
<1> USE ResetAssumption DEF Inv
<1>1. PICK to \in {"created", "refused"} :
        /\ Move(b, "claimed", to) /\ to \in Stages /\ count' = 0
        /\ active' = IF to = "created" THEN active ELSE FALSE
        /\ UNCHANGED <<list, inbox, link, listed, renewed, disturbed, misread, mqtt, retained>>
  BY DEF ClearAndCreate, outsideVars, historyVars, Stages, Before
<1>2. /\ task[b].at = "claimed" /\ task' \in [Buttons -> [at : Stages, i : Nat, n : Nat]]
      /\ task'[b].at = to /\ task'[b].i = task[b].i /\ task'[b].n = task[b].n
      /\ \A c \in Buttons : c # b => task'[c] = task[c]
  BY <1>1, MoveTask
<1>3. Typed'
  <2>1. active' \in BOOLEAN
    BY <1>1 DEF Typed
  <2>2. count' \in 0 .. MaxTopics
    BY <1>1
  <2> QED
    BY <1>1, <1>2, <2>1, <2>2 DEF Typed, ResetTypeOK
<1>4. Walking' = Walking
  BY <1>1, <1>2 DEF Walking
<1>5. OneReset'
  <2>1. OneClaim'
    BY <1>1, <1>2 DEF OneReset, OneClaim, Before
  <2>2. OneWalk'
    BY <1>1, <1>2, <1>4 DEF OneReset, OneWalk
  <2>3. Unheard'
    BY <1>1, <1>2 DEF OneReset, Unheard
  <2> QED
    BY <2>1, <2>2, <2>3 DEF OneReset
<1>6. SlotsHeld'
  BY <1>1, <1>2 DEF SlotsHeld, Filled
<1>7. ListHeld'
  <2> SUFFICES ASSUME ~ disturbed, NEW c \in Buttons,
                      task'[c].at \in {"collect", "collected", "walk"}
               PROVE  FALSE
    BY <1>1 DEF ListHeld
  <2>1. c # b /\ task'[c] = task[c]
    BY <1>1, <1>2
  <2>2. Undisturbed(c)
    BY <2>1 DEF ListHeld
  <2> QED
    BY <1>2, <2>1, <2>2 DEF Undisturbed, Before
<1> QED
  BY <1>3, <1>5, <1>6, <1>7

(* Everything is listed from here on, with nothing of before in the way.    *)
LEMMA SubscribeInv == ASSUME Inv, NEW b \in Buttons, Subscribe(b) PROVE Inv'
<1> USE ResetAssumption DEF Inv
<1>1. /\ Move(b, "created", "collect") /\ "collect" \in Stages
      /\ link # "down" /\ link' = "subscribed"
      /\ listed' = {} /\ disturbed' = (Walking # {})
      /\ UNCHANGED <<active, list, count, misread, mqtt, retained>>
  BY DEF Subscribe, listVars, outsideVars, Stages, Before
<1>2. /\ task[b].at = "created" /\ task' \in [Buttons -> [at : Stages, i : Nat, n : Nat]]
      /\ task'[b].at = "collect" /\ task'[b].i = task[b].i /\ task'[b].n = task[b].n
      /\ \A c \in Buttons : c # b => task'[c] = task[c]
  BY <1>1, MoveTask
<1>3. Typed'
  BY <1>1, <1>2 DEF Typed, ResetTypeOK
<1>4. Walking' = Walking
  BY <1>1, <1>2 DEF Walking
<1>5. OneReset'
  <2>1. OneClaim'
    BY <1>1, <1>2 DEF OneReset, OneClaim, Before
  <2>2. OneWalk'
    BY <1>1, <1>2, <1>4 DEF OneReset, OneWalk
  <2>3. Unheard'
    BY <1>1, <1>2 DEF OneReset, Unheard
  <2> QED
    BY <2>1, <2>2, <2>3 DEF OneReset
<1>6. SlotsHeld'
  BY <1>1, <1>2 DEF SlotsHeld, Filled
<1>7. ListHeld'
  <2> SUFFICES ASSUME ~ disturbed', NEW c \in Buttons,
                      task'[c].at \in {"collect", "collected", "walk"}
               PROVE  Undisturbed(c)'
    BY DEF ListHeld
  <2>1. Walking = {}
    BY <1>1
  <2>2. \A d \in Buttons : d # b => task[d].at \notin Before \cup {"collected", "walk", "done"}
    BY <1>2, <2>1 DEF OneReset, OneClaim, OneWalk, Walking, Before
  <2>3. c = b
    BY <1>2, <2>2 DEF Before
  <2>4. mqtt = Quiet
    <3>1. \A d \in Buttons : task[d].at \in {"ready", "claimed", "created", "refused"}
      BY <1>2, <2>2 DEF Typed, Stages
    <3> QED
      BY <3>1 DEF OneReset, Unheard
  <2> QED
    BY <1>1, <1>2, <2>2, <2>3, <2>4 DEF Undisturbed, Found, Quiet
<1> QED
  BY <1>3, <1>5, <1>6, <1>7

LEMMA CannotSubscribeInv == ASSUME Inv, NEW b \in Buttons, CannotSubscribe(b) PROVE Inv'
<1> USE ResetAssumption DEF Inv
<1>1. /\ Move(b, "created", "refused") /\ "refused" \in Stages /\ active' = FALSE
      /\ UNCHANGED <<list, count, inbox, link, listed, renewed, disturbed, misread, mqtt, retained>>
  BY DEF CannotSubscribe, outsideVars, historyVars, Stages, Before
<1>2. /\ task[b].at = "created" /\ task' \in [Buttons -> [at : Stages, i : Nat, n : Nat]]
      /\ task'[b].at = "refused" /\ task'[b].i = task[b].i /\ task'[b].n = task[b].n
      /\ \A c \in Buttons : c # b => task'[c] = task[c]
  BY <1>1, MoveTask
<1>3. Typed'
  BY <1>1, <1>2 DEF Typed, ResetTypeOK
<1>4. Walking' = Walking
  BY <1>1, <1>2 DEF Walking
<1>5. OneReset'
  <2>1. OneClaim'
    BY <1>1, <1>2 DEF OneReset, OneClaim, Before
  <2>2. OneWalk'
    BY <1>1, <1>2, <1>4 DEF OneReset, OneWalk
  <2>3. Unheard'
    BY <1>1, <1>2 DEF OneReset, Unheard
  <2> QED
    BY <2>1, <2>2, <2>3 DEF OneReset
<1>6. SlotsHeld'
  BY <1>1, <1>2 DEF SlotsHeld, Filled
<1>7. ListHeld'
  <2> SUFFICES ASSUME ~ disturbed, NEW c \in Buttons,
                      task'[c].at \in {"collect", "collected", "walk"}
               PROVE  FALSE
    BY <1>1 DEF ListHeld
  <2>1. c # b /\ task'[c] = task[c]
    BY <1>1, <1>2
  <2>2. Undisturbed(c)
    BY <2>1 DEF ListHeld
  <2> QED
    BY <1>2, <2>1, <2>2 DEF Undisturbed, Before
<1> QED
  BY <1>3, <1>5, <1>6, <1>7

(* Nobody else walks when the collecting ends.                              *)
LEMMA EndCollectInv == ASSUME Inv, NEW b \in Buttons, EndCollect(b) PROVE Inv'
<1> USE ResetAssumption DEF Inv
<1>1. /\ Walking = {} /\ Move(b, "collect", "collected") /\ "collected" \in Stages
      /\ active' = FALSE
      /\ UNCHANGED <<list, count, inbox, link, listed, renewed, disturbed, misread, mqtt, retained>>
  BY DEF EndCollect, outsideVars, historyVars, Stages
<1>2. /\ task[b].at = "collect" /\ task' \in [Buttons -> [at : Stages, i : Nat, n : Nat]]
      /\ task'[b].at = "collected" /\ task'[b].i = task[b].i /\ task'[b].n = task[b].n
      /\ \A c \in Buttons : c # b => task'[c] = task[c]
  BY <1>1, MoveTask
<1>3. Typed'
  BY <1>1, <1>2 DEF Typed, ResetTypeOK
<1>4. OneReset'
  <2>1. OneClaim'
    BY <1>1, <1>2 DEF OneReset, OneClaim, Before
  <2>2. Walking' = {b}
    BY <1>1, <1>2 DEF Walking
  <2>3. OneWalk'
    BY <1>1, <1>2, <2>2 DEF OneReset, OneWalk
  <2>4. Unheard'
    BY <1>1, <1>2 DEF OneReset, Unheard
  <2> QED
    BY <2>1, <2>3, <2>4 DEF OneReset
<1>5. SlotsHeld'
  BY <1>1, <1>2 DEF SlotsHeld, Filled
<1>6. ListHeld'
  <2> SUFFICES ASSUME ~ disturbed, NEW c \in Buttons,
                      task'[c].at \in {"collect", "collected", "walk"}
               PROVE  Undisturbed(c)'
    BY <1>1 DEF ListHeld
  <2>1. Undisturbed(b)
    BY <1>2 DEF ListHeld
  <2>2. c = b
    BY <1>2, <2>1 DEF Undisturbed, Before
  <2> QED
    BY <1>1, <1>2, <2>1, <2>2 DEF Undisturbed, Found
<1> QED
  BY <1>3, <1>4, <1>5, <1>6

(* The slots to be walked are those filled so far.                          *)
LEMMA ReadCountInv == ASSUME Inv, NEW b \in Buttons, ReadCount(b) PROVE Inv'
<1> USE ResetAssumption DEF Inv
<1>1. /\ task[b].at = "collected" /\ task' = [task EXCEPT ![b].at = "walk", ![b].n = count]
      /\ link' = IF link = "subscribed" THEN "up" ELSE link
      /\ UNCHANGED <<active, list, count, listed, renewed, disturbed, misread, mqtt, retained>>
  BY DEF ReadCount, listVars, outsideVars, historyVars
<1>2. /\ task' \in [Buttons -> [at : Stages, i : Nat, n : Nat]]
      /\ task'[b].at = "walk" /\ task'[b].i = task[b].i /\ task'[b].n = count
      /\ \A c \in Buttons : c # b => task'[c] = task[c]
  <2>1. "walk" \in Stages /\ count \in Nat
    BY DEF Stages, Typed, ResetTypeOK
  <2> QED
    BY <1>1, <2>1 DEF Typed
<1>3. Typed'
  BY <1>1, <1>2 DEF Typed, ResetTypeOK
<1>4. Walking' = Walking /\ task[b].i = 1 /\ \A c \in Buttons : c # b => task[c].at # "walk"
  BY <1>1, <1>2 DEF Walking, OneReset, OneWalk
<1>5. OneReset'
  <2>1. OneClaim'
    BY <1>1, <1>2 DEF OneReset, OneClaim, Before
  <2>2. OneWalk'
    BY <1>1, <1>2, <1>4 DEF OneReset, OneWalk
  <2>3. Unheard'
    BY <1>1, <1>2 DEF OneReset, Unheard
  <2> QED
    BY <2>1, <2>2, <2>3 DEF OneReset
<1>6. SlotsHeld'
  BY <1>1, <1>2, <1>4 DEF SlotsHeld, Filled, Typed, ResetTypeOK
<1>7. ListHeld'
  <2> SUFFICES ASSUME ~ disturbed, NEW c \in Buttons,
                      task'[c].at \in {"collect", "collected", "walk"}
               PROVE  Undisturbed(c)'
    BY <1>1 DEF ListHeld
  <2>1. Undisturbed(b)
    BY <1>1 DEF ListHeld
  <2>2. c = b
    BY <1>2, <2>1 DEF Undisturbed, Before
  <2>3. Found(b)'
    BY <1>1, <1>2, <1>4, <2>1 DEF Undisturbed, Found, Typed, ResetTypeOK
  <2> QED
    BY <1>1, <1>2, <2>1, <2>2, <2>3 DEF Undisturbed
<1> QED
  BY <1>3, <1>5, <1>6, <1>7

(* A slot that is walked holds a topic of this device, nobody else walks,   *)
(* and what was listed is in a later slot or retracted now.                 *)
LEMMA RetractInv == ASSUME Inv, NEW b \in Buttons, Retract(b) PROVE Inv'
<1> USE ResetAssumption DEF Inv
<1> DEFINE i == task[b].i
           n == task[b].n
<1>1. /\ task[b].at = "walk" /\ i <= n
      /\ misread' = (misread \/ list[i] = NoTopic)
      /\ retained' = IF link = "down" THEN retained ELSE retained \ {list[i]}
      /\ list' = [list EXCEPT ![i] = NoTopic]
      /\ task' = [task EXCEPT ![b].i = @ + 1]
      /\ UNCHANGED <<active, count, inbox, link, listed, renewed, disturbed, mqtt, changes>>
  BY DEF Retract, historyVars
<1>2. /\ i \in Nat \ {0} /\ n \in 0 .. MaxTopics /\ \A j \in i .. n : list[j] \in Own
  BY <1>1 DEF SlotsHeld
<1>3. i \in 1 .. MaxTopics /\ list[i] \in Own
  BY <1>1, <1>2
<1>4. /\ task' \in [Buttons -> [at : Stages, i : Nat, n : Nat]]
      /\ task'[b].at = "walk" /\ task'[b].i = i + 1 /\ task'[b].n = n
      /\ \A c \in Buttons : task'[c].at = task[c].at /\ (c # b => task'[c] = task[c])
  BY <1>1, <1>2 DEF Typed
<1>5. /\ list' \in [1 .. MaxTopics -> Own \cup {NoTopic}]
      /\ \A j \in 1 .. MaxTopics : j # i => list'[j] = list[j]
  BY <1>1, <1>3 DEF Typed, ResetTypeOK
<1>6. Typed'
  <2>1. retained' \subseteq Own \cup Foreign /\ count' \in 0 .. MaxTopics
    BY <1>1 DEF Typed, ResetTypeOK
  <2> QED
    BY <1>1, <1>4, <1>5, <2>1 DEF Typed, ResetTypeOK
<1>7. Walking' = Walking /\ b \in Walking
  BY <1>1, <1>4 DEF Walking
<1>8. OneReset'
  <2>1. OneClaim'
    BY <1>1, <1>4 DEF OneReset, OneClaim
  <2>2. OneWalk'
    BY <1>1, <1>4, <1>7 DEF OneReset, OneWalk
  <2>3. Unheard'
    BY <1>1, <1>4 DEF OneReset, Unheard
  <2> QED
    BY <2>1, <2>2, <2>3 DEF OneReset
<1>9. \A c \in Buttons : task[c].at \in {"collected", "walk"} => c = b
  BY <1>7 DEF Walking, OneReset, OneWalk
<1>10. SlotsHeld'
  <2>1. \A j \in i + 1 .. n : list'[j] \in Own
    BY <1>2, <1>5
  <2>2. ~ misread'
    BY <1>1, <1>3 DEF SlotsHeld
  <2>3. Foreign \subseteq retained'
    BY <1>1, <1>3 DEF SlotsHeld
  <2> QED
    BY <1>1, <1>2, <1>4, <1>9, <2>1, <2>2, <2>3 DEF SlotsHeld
<1>11. ListHeld'
  <2> SUFFICES ASSUME ~ disturbed, NEW c \in Buttons,
                      task[c].at \in {"collect", "collected", "walk"}
               PROVE  Undisturbed(c)'
    BY <1>1, <1>4 DEF ListHeld
  <2>1. Undisturbed(b)
    BY <1>1 DEF ListHeld
  <2>2. c = b
    BY <1>1, <2>1 DEF Undisturbed, Before
  <2>3. Found(b)'
    <3> SUFFICES ASSUME NEW t \in listed
                 PROVE  \/ \E j \in i + 1 .. n : list'[j] = t
                        \/ t \notin retained' \/ t \in renewed
      BY <1>1, <1>4, <2>1 DEF Undisturbed, Found
    <3>1. (\E j \in i .. n : list[j] = t) \/ t \notin retained \/ t \in renewed
      BY <1>1, <2>1 DEF Undisturbed, Found
    <3>2. retained' = retained \ {list[i]}
      BY <1>1, <2>1 DEF Undisturbed
    <3>3. CASE \E j \in i .. n : list[j] = t
      <4>1. PICK j \in i .. n : list[j] = t
        BY <3>3
      <4> QED
        <5>1. CASE j = i
          BY <3>2, <4>1, <5>1
        <5>2. CASE j # i
          <6>1. j \in i + 1 .. n /\ j \in 1 .. MaxTopics
            BY <1>2, <5>2
          <6> QED
            BY <1>5, <4>1, <5>2, <6>1
        <5> QED
          BY <5>1, <5>2
    <3> QED
      BY <3>1, <3>2, <3>3
  <2> QED
    BY <1>1, <1>4, <2>1, <2>2, <2>3 DEF Undisturbed
<1> QED
  BY <1>6, <1>8, <1>10, <1>11

LEMMA RestartDeviceInv == ASSUME Inv, NEW b \in Buttons, RestartDevice(b) PROVE Inv'
<1> USE ResetAssumption DEF Inv
<1>1. /\ active' = FALSE /\ list' = [i \in DOMAIN list |-> NoTopic] /\ count' = 0
      /\ task' = [c \in Buttons |-> [Ready EXCEPT !.at = "done"]]
      /\ mqtt' = Quiet /\ link' = "up" /\ inbox' = <<>>
      /\ UNCHANGED <<listed, renewed, disturbed, misread, retained>>
  BY DEF RestartDevice, historyVars
<1>2. /\ task' \in [Buttons -> [at : Stages, i : Nat, n : Nat]]
      /\ \A c \in Buttons : task'[c].at = "done" /\ task'[c].i = 1
  BY <1>1 DEF Ready, Stages
<1>3. Typed'
  <2>1. list' \in [1 .. MaxTopics -> Own \cup {NoTopic}] /\ 0 \in 0 .. MaxTopics
    BY <1>1 DEF Typed, ResetTypeOK
  <2> QED
    BY <1>1, <1>2, <2>1 DEF Typed, ResetTypeOK
<1>4. OneReset'
  BY <1>1, <1>2 DEF OneReset, OneClaim, OneWalk, Unheard, Walking, Before
<1>5. SlotsHeld'
  BY <1>1, <1>2 DEF SlotsHeld, Filled, Quiet
<1>6. ListHeld'
  BY <1>1, <1>2 DEF ListHeld
<1> QED
  BY <1>3, <1>4, <1>5, <1>6

-----------------------------------------------------------------------------
(* The next free slot is chosen.                                            *)
LEMMA HandleMessageInv == ASSUME Inv, HandleMessage PROVE Inv'
<1> USE ResetAssumption DEF Inv
<1>1. /\ mqtt = Quiet /\ inbox # <<>> /\ inbox' = Tail(inbox)
      /\ UNCHANGED <<active, list, count, task, link, listed, renewed, disturbed, misread, retained>>
      /\ \/ mqtt' = Quiet
         \/ /\ Head(inbox) \in Own /\ count < MaxTopics
            /\ mqtt' = [at |-> "store", topic |-> Head(inbox), index |-> count + 1]
  BY DEF HandleMessage, listVars, historyVars
<1>2. /\ mqtt' = Quiet \/ mqtt' \in Handled
      /\ mqtt'.at # "idle" => mqtt'.at = "store" /\ mqtt'.index = count + 1
  BY <1>1 DEF Handled, Typed, ResetTypeOK, ResetAssumption, Quiet
<1>3. Typed'
  BY <1>1, <1>2 DEF Typed, ResetTypeOK
<1>4. OneReset'
  BY <1>1 DEF OneReset, OneClaim, OneWalk, Unheard, Walking
<1>5. SlotsHeld'
  BY <1>1, <1>2 DEF SlotsHeld, Filled, Typed, ResetTypeOK
<1>6. ListHeld'
  BY <1>1, <1>2 DEF ListHeld, Undisturbed, Found
<1> QED
  BY <1>3, <1>4, <1>5, <1>6

LEMMA StoreTopicInv == ASSUME Inv, StoreTopic PROVE Inv'
<1> USE ResetAssumption DEF Inv
<1>1. /\ mqtt.at = "store" /\ mqtt' = [mqtt EXCEPT !.at = "count"]
      /\ list' = [list EXCEPT ![mqtt.index] = mqtt.topic]
      /\ UNCHANGED <<active, count, task, inbox, link, listed, renewed, disturbed, misread, retained>>
  BY DEF StoreTopic, historyVars
<1>2. /\ mqtt \in Handled /\ mqtt' \in Handled /\ mqtt'.at = "count"
      /\ mqtt'.index = mqtt.index /\ mqtt'.topic = mqtt.topic
      /\ mqtt.index \in 1 .. MaxTopics /\ mqtt.topic \in Own
  BY <1>1 DEF Typed, Handled, Quiet
<1>3. /\ list' \in [1 .. MaxTopics -> Own \cup {NoTopic}] /\ list'[mqtt.index] = mqtt.topic
      /\ \A j \in 1 .. MaxTopics : j # mqtt.index => list'[j] = list[j]
  BY <1>1, <1>2 DEF Typed, ResetTypeOK
<1>4. Typed'
  BY <1>1, <1>2, <1>3 DEF Typed, ResetTypeOK
<1>5. OneReset'
  BY <1>1, <1>2 DEF OneReset, OneClaim, OneWalk, Unheard, Walking, Quiet
<1>6. \A j \in 1 .. MaxTopics : list[j] \in Own => list'[j] \in Own
  BY <1>2, <1>3
<1>7. SlotsHeld'
  <2>1. ASSUME \A b \in Buttons : task[b].at # "walk"
        PROVE  Filled(count)' /\ Filled(mqtt.index)'
    <3>1. Filled(count) /\ Filled(mqtt.index - 1)
      BY <1>1, <2>1 DEF SlotsHeld
    <3>2. Filled(count)'
      BY <1>1, <1>6, <3>1 DEF Filled, Typed, ResetTypeOK
    <3>3. Filled(mqtt.index)'
      BY <1>2, <1>3, <1>6, <3>1 DEF Filled
    <3> QED
      BY <3>2, <3>3
  <2>2. ASSUME NEW b \in Buttons, task[b].at = "walk"
        PROVE  /\ task[b].i \in Nat \ {0} /\ task[b].n \in 0 .. MaxTopics
               /\ \A j \in task[b].i .. task[b].n : list'[j] \in Own
    BY <1>6, <2>2 DEF SlotsHeld
  <2> QED
    BY <1>1, <1>2, <2>1, <2>2 DEF SlotsHeld
<1>8. ListHeld'
  <2> SUFFICES ASSUME ~ disturbed, NEW b \in Buttons,
                      task[b].at \in {"collect", "collected", "walk"}
               PROVE  Undisturbed(b)'
    BY <1>1 DEF ListHeld
  <2>1. Undisturbed(b) /\ mqtt.index = count + 1
    BY <1>1 DEF ListHeld, Undisturbed
  <2>2. \A j \in 1 .. count : list'[j] = list[j]
    BY <1>2, <1>3, <2>1 DEF Typed, ResetTypeOK
  <2>3. task[b].at = "walk" => task[b].i \in Nat \ {0} /\ task[b].n \in Nat
    BY DEF SlotsHeld
  <2>4. Found(b)'
    <3>1. CASE task[b].at # "walk"
      BY <1>1, <2>1, <2>2, <3>1 DEF Undisturbed, Found
    <3>2. CASE task[b].at = "walk"
      <4>1. \A j \in task[b].i .. task[b].n : list'[j] = list[j]
        BY <2>1, <2>2, <2>3, <3>2 DEF Undisturbed, Found, Typed, ResetTypeOK
      <4> QED
        BY <1>1, <2>1, <3>2, <4>1 DEF Undisturbed, Found
    <3> QED
      BY <3>1, <3>2
  <2> QED
    BY <1>1, <1>2, <1>3, <2>1, <2>4 DEF Undisturbed
<1> QED
  BY <1>4, <1>5, <1>7, <1>8

(* While a reset collects, the topic counts as listed, and is.              *)
LEMMA StoreCountInv == ASSUME Inv, StoreCount PROVE Inv'
<1> USE ResetAssumption DEF Inv
<1>1. /\ mqtt.at = "count" /\ mqtt' = Quiet /\ count' = mqtt.index
      /\ listed' = IF \E b \in Buttons : task[b].at = "collect"
                   THEN listed \cup {mqtt.topic} ELSE listed
      /\ UNCHANGED <<active, list, task, inbox, link, renewed, disturbed, misread, retained>>
  BY DEF StoreCount
<1>2. mqtt.index \in 1 .. MaxTopics /\ mqtt.topic \in Own /\ mqtt # Quiet /\ mqtt'.at = "idle"
  BY <1>1 DEF Typed, Handled, Quiet
<1>3. Typed'
  BY <1>1, <1>2 DEF Typed, ResetTypeOK
<1>4. OneReset'
  BY <1>1, <1>2 DEF OneReset, OneClaim, OneWalk, Unheard, Walking
<1>5. SlotsHeld'
  BY <1>1, <1>2 DEF SlotsHeld, Filled
<1>6. ListHeld'
  <2> SUFFICES ASSUME ~ disturbed, NEW b \in Buttons,
                      task[b].at \in {"collect", "collected", "walk"}
               PROVE  Undisturbed(b)'
    BY <1>1 DEF ListHeld
  <2>1. /\ Undisturbed(b) /\ mqtt.index = count + 1 /\ count \in Nat
        /\ task[b].at # "walk" => list[mqtt.index] = mqtt.topic
    BY <1>1 DEF ListHeld, Undisturbed, Typed, ResetTypeOK
  <2>2. \A c \in Buttons : task[c].at = "collect" => c = b
    BY <2>1 DEF Undisturbed, Before
  <2>3. Found(b)'
    <3>1. CASE task[b].at # "walk"
      <4> SUFFICES ASSUME NEW t \in listed' PROVE \E j \in 1 .. count + 1 : list[j] = t
        BY <1>1, <2>1, <3>1 DEF Found
      <4>1. t \in listed \/ t = mqtt.topic
        BY <1>1
      <4>2. CASE t \in listed
        <5>1. PICK j \in 1 .. count : list[j] = t
          BY <2>1, <3>1, <4>2 DEF Undisturbed, Found
        <5> QED
          BY <2>1, <5>1
      <4> QED
        BY <2>1, <3>1, <4>1, <4>2
    <3>2. CASE task[b].at = "walk"
      <4>1. listed' = listed
        BY <1>1, <2>2, <3>2
      <4>2. task[b].n \in Int
        BY DEF Typed
      <4> QED
        BY <1>1, <2>1, <3>2, <4>1, <4>2 DEF Undisturbed, Found
    <3> QED
      BY <3>1, <3>2
  <2> QED
    BY <1>1, <1>2, <2>1, <2>3 DEF Undisturbed
<1> QED
  BY <1>3, <1>4, <1>5, <1>6

-----------------------------------------------------------------------------
LEMMA AnnounceInv == ASSUME Inv, Announce PROVE Inv'
<1> USE ResetAssumption DEF Inv
<1>1. PICK topic \in Own :
        /\ retained' = retained \cup {topic} /\ renewed' = renewed \cup {topic}
        /\ inbox' = IF link = "subscribed" THEN Append(inbox, topic) ELSE inbox
        /\ UNCHANGED <<active, list, count, task, link, listed, disturbed, misread, mqtt>>
  BY DEF Announce, listVars
<1>2. Typed'
  BY <1>1 DEF Typed, ResetTypeOK
<1>3. OneReset'
  BY <1>1 DEF OneReset, OneClaim, OneWalk, Unheard, Walking
<1>4. SlotsHeld'
  BY <1>1 DEF SlotsHeld, Filled
<1>5. ListHeld'
  BY <1>1 DEF ListHeld, Undisturbed, Found
<1> QED
  BY <1>2, <1>3, <1>4, <1>5

LEMMA LinkChangesInv == ASSUME Inv, LinkChanges PROVE Inv'
<1> USE ResetAssumption DEF Inv
<1>1. /\ link' = (IF link = "down" THEN "up" ELSE "down") /\ disturbed' = TRUE /\ inbox' = <<>>
      /\ UNCHANGED <<active, list, count, task, listed, renewed, misread, mqtt, retained>>
  BY DEF LinkChanges, listVars
<1>2. Typed'
  BY <1>1 DEF Typed, ResetTypeOK
<1>3. OneReset'
  BY <1>1 DEF OneReset, OneClaim, OneWalk, Unheard, Walking
<1>4. SlotsHeld'
  BY <1>1 DEF SlotsHeld, Filled
<1>5. ListHeld'
  BY <1>1 DEF ListHeld
<1> QED
  BY <1>2, <1>3, <1>4, <1>5

LEMMA StutterInv == ASSUME Inv, UNCHANGED resetVars PROVE Inv'
BY DEF Inv, Typed, ResetTypeOK, OneReset, OneClaim, OneWalk, Unheard, Walking,
       SlotsHeld, Filled, ListHeld, Undisturbed, Found, resetVars, listVars, historyVars,
       outsideVars

LEMMA NextInv == Inv /\ [ResetNext]_resetVars => Inv'
<1> SUFFICES ASSUME Inv, [ResetNext]_resetVars PROVE Inv'
  OBVIOUS
<1>1. ASSUME NEW b \in Buttons, Call(b) PROVE Inv'
  BY <1>1, StartInv, ClearAndCreateInv DEF Call
<1>2. ASSUME NEW b \in Buttons, ResetTask(b) PROVE Inv'
  BY <1>2, SubscribeInv, CannotSubscribeInv, EndCollectInv, ReadCountInv, RetractInv, RestartDeviceInv
  DEF ResetTask
<1> QED
  BY <1>1, <1>2, HandleMessageInv, StoreTopicInv, StoreCountInv, AnnounceInv, LinkChangesInv, StutterInv
  DEF ResetNext

LEMMA Invariance == ResetSpec => []Inv
BY InitInv, NextInv, PTL DEF ResetSpec

(* mqtt_discovery_reset_start(), ha_reset_task(): whatever the three tasks  *)
(* and the connection do in between, no empty slot is read, nobody else's   *)
(* entity is retracted, and at the restart everything listed in time is     *)
(* gone, with the exceptions of the property.                               *)
THEOREM ResetRetracts == ResetSpec => []ListedAreRetracted
<1>1. Inv => ListedAreRetracted
  <2> SUFFICES ASSUME Inv PROVE ListedAreRetracted
    OBVIOUS
  <2>1. ResetTypeOK /\ ~ misread /\ Foreign \subseteq retained
    BY DEF Inv, Typed, SlotsHeld
  <2>2. ASSUME NEW b \in Buttons, Walked(b), ~ disturbed
        PROVE  listed \cap retained \subseteq renewed
    <3>1. Found(b) /\ task[b].at = "walk" /\ task[b].i > task[b].n
      BY <2>2 DEF Inv, ListHeld, Undisturbed, Walked
    <3>2. task[b].i \in Int /\ task[b].n \in Int
      BY DEF Inv, Typed
    <3> QED
      BY <3>1, <3>2 DEF Found
  <2> QED
    BY <2>1, <2>2 DEF ListedAreRetracted
<1> QED
  BY <1>1, Invariance, PTL
=============================================================================
