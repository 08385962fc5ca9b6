---------------------------- MODULE ServicesProofs -----------------------------
(***************************************************************************)
(* The usage report counts a device once, sends at most one ping after an  *)
(* opt-out and forgets nothing that is still on the server, for any IDs,   *)
(* any failing writes and restarts anywhere.                               *)
(*                                                                         *)
(* Nothing an energy meter measures is counted twice or lost, and the      *)
(* broker is behind by less than an interval, for any meters, powers,      *)
(* intervals and width of the tick counter.                                *)
(*                                                                         *)
(* What a viewer of the log misses is counted in front of what it gets,    *)
(* for any tasks that log, viewers, and sizes of ring, batch and line.     *)
(***************************************************************************)
EXTENDS UsageReport, EnergyMeter, WebLog, FiniteSetTheorems, SequenceTheorems, TLAPS

-----------------------------------------------------------------------------
(* The usage report.                                                        *)

(* The server only ever hears of the ID that is in flash.                   *)
IdHeld == id = flash.id /\ counted \subseteq {id}

(* While reporting is off, no ping follows the one that was on its way.     *)
PingHeld ==
  /\ late <= 1
  /\ (late = 1 /\ enabled = "off") => runPc \notin {"create", "ping"}

(* The flags are cleared only when the rows are gone; a stored opt-out has  *)
(* the same flag in flash, and once a deletion is no longer wanted, in RAM  *)
(* or in flash, no row is left and no ping on its way.                      *)
Erased == rows = {} /\ runPc \notin {"create", "ping"}
DeletionHeld ==
  /\ runPc \in {"clear", "store_clear"} => rows = {}
  /\ (torn = "no" /\ userPc # "store_enabled") => flash.enabled = enabled
  /\ (torn = "no" /\ enabled = "off" /\ userPc \in {"store_pending", "idle"}
      /\ pending = "no") => Erased
  /\ (torn = "no" /\ enabled = "off" /\ userPc = "idle" /\ flash.pending = "no") => Erased

Inv == TypeOK /\ IdHeld /\ PingHeld /\ DeletionHeld

-----------------------------------------------------------------------------
LEMMA InitInv == Init => Inv
BY IdsAssumption DEF Init, Inv, TypeOK, Keys, IdHeld, PingHeld, DeletionHeld, Erased

(* Types are kept.                                                          *)
LEMMA TypeStep ==
  ASSUME Inv, [Next]_vars
  PROVE  TypeOK'
<1> USE IdsAssumption, FlashAssumption DEF Inv, TypeOK, Keys, IdHeld, flags, server
<1>1. CASE \E onOff \in {"on", "off"} : Switch(onOff)
  BY <1>1 DEF Switch
<1>2. CASE StoreEnabled
  BY <1>2 DEF StoreEnabled, StoreSwitch, Written
<1>3. CASE MarkPending
  BY <1>3 DEF MarkPending, Withdrawn
<1>4. CASE StorePending
  BY <1>4 DEF StorePending, StoreSwitch, Written, Withdrawn
<1>5. CASE \E due \in {"yes", "no"} : Run(due)
  BY <1>5 DEF Run, Chosen, RunStep
<1>6. CASE NothingToDelete
  BY <1>6 DEF NothingToDelete, RunStep
<1>7. CASE DeleteLost
  BY <1>7 DEF DeleteLost, LostIsPending, RunStep
<1>8. CASE DeleteUnconfirmed \/ DeleteConfirmed
  BY <1>8 DEF DeleteUnconfirmed, DeleteConfirmed, RunStep
<1>9. CASE ClearPending
  BY <1>9 DEF ClearPending, RunStep
<1>10. CASE StoreClear
  BY <1>10 DEF StoreClear, Written, RunStep
<1>11. CASE HaveId
  BY <1>11 DEF HaveId, RunStep
<1>12. CASE CreateId
  BY <1>12 DEF CreateId, Used, RunStep
<1>13. CASE PingArrives
  <2>1. late' \in 0 .. 2
    BY <1>13 DEF PingArrives
  <2>2. id \in Ids /\ rows' \subseteq Ids /\ counted' \subseteq Ids /\ rows' \subseteq counted'
    BY <1>13 DEF PingArrives, RunStep
  <2> QED
    BY <1>13, <2>1, <2>2 DEF PingArrives, RunStep
<1>14. CASE PingLost
  BY <1>14 DEF PingLost, RunStep
<1>15. CASE Restart
  BY <1>15 DEF Restart
<1>16. CASE UNCHANGED vars
  BY <1>16 DEF vars
<1> QED
  BY <1>1, <1>2, <1>3, <1>4, <1>5, <1>6, <1>7, <1>8, <1>9, <1>10, <1>11, <1>12,
     <1>13, <1>14, <1>15, <1>16 DEF Next, SetEnabled, Running

(* A new ID is made only while there is none, so nothing was counted yet.   *)
LEMMA IdStep ==
  ASSUME Inv, [Next]_vars
  PROVE  IdHeld'
<1> USE IdsAssumption, FlashAssumption DEF Inv, TypeOK, Keys, IdHeld, flags, server
<1>1. CASE \E onOff \in {"on", "off"} : Switch(onOff)
  BY <1>1 DEF Switch
<1>2. CASE StoreEnabled
  BY <1>2 DEF StoreEnabled, StoreSwitch, Written
<1>3. CASE MarkPending
  BY <1>3 DEF MarkPending, Withdrawn
<1>4. CASE StorePending
  BY <1>4 DEF StorePending, StoreSwitch, Written, Withdrawn
<1>5. CASE \E due \in {"yes", "no"} : Run(due)
  BY <1>5 DEF Run, Chosen, RunStep
<1>6. CASE NothingToDelete
  BY <1>6 DEF NothingToDelete, RunStep
<1>7. CASE DeleteLost
  BY <1>7 DEF DeleteLost, LostIsPending, RunStep
<1>8. CASE DeleteUnconfirmed \/ DeleteConfirmed
  BY <1>8 DEF DeleteUnconfirmed, DeleteConfirmed, RunStep
<1>9. CASE ClearPending
  BY <1>9 DEF ClearPending, RunStep
<1>10. CASE StoreClear
  BY <1>10 DEF StoreClear, Written, RunStep
<1>11. CASE HaveId
  BY <1>11 DEF HaveId, RunStep
<1>12. CASE CreateId
  BY <1>12 DEF CreateId, Used, RunStep
<1>13. CASE PingArrives
  BY <1>13 DEF PingArrives, RunStep
<1>14. CASE PingLost
  BY <1>14 DEF PingLost, RunStep
<1>15. CASE Restart
  BY <1>15 DEF Restart
<1>16. CASE UNCHANGED vars
  BY <1>16 DEF vars
<1> QED
  BY <1>1, <1>2, <1>3, <1>4, <1>5, <1>6, <1>7, <1>8, <1>9, <1>10, <1>11, <1>12,
     <1>13, <1>14, <1>15, <1>16 DEF Next, SetEnabled, Running

(* A ping is chosen only while reporting is on.                             *)
LEMMA PingStep ==
  ASSUME Inv, [Next]_vars
  PROVE  PingHeld'
<1> USE IdsAssumption, FlashAssumption DEF Inv, TypeOK, PingHeld, flags, server
<1>1. CASE \E onOff \in {"on", "off"} : Switch(onOff)
  BY <1>1 DEF Switch
<1>2. CASE StoreEnabled
  BY <1>2 DEF StoreEnabled, StoreSwitch, Written
<1>3. CASE MarkPending
  BY <1>3 DEF MarkPending, Withdrawn
<1>4. CASE StorePending
  BY <1>4 DEF StorePending, StoreSwitch, Written, Withdrawn
<1>5. CASE \E due \in {"yes", "no"} : Run(due)
  BY <1>5 DEF Run, Chosen, RunStep
<1>6. CASE NothingToDelete
  BY <1>6 DEF NothingToDelete, RunStep
<1>7. CASE DeleteLost
  BY <1>7 DEF DeleteLost, LostIsPending, RunStep
<1>8. CASE DeleteUnconfirmed \/ DeleteConfirmed
  BY <1>8 DEF DeleteUnconfirmed, DeleteConfirmed, RunStep
<1>9. CASE ClearPending
  BY <1>9 DEF ClearPending, RunStep
<1>10. CASE StoreClear
  BY <1>10 DEF StoreClear, Written, RunStep
<1>11. CASE HaveId
  BY <1>11 DEF HaveId, RunStep
<1>12. CASE CreateId
  BY <1>12 DEF CreateId, Used, RunStep
<1>13. CASE PingArrives
  BY <1>13 DEF PingArrives, RunStep
<1>14. CASE PingLost
  BY <1>14 DEF PingLost, RunStep
<1>15. CASE Restart
  BY <1>15 DEF Restart
<1>16. CASE UNCHANGED vars
  BY <1>16 DEF vars
<1> QED
  BY <1>1, <1>2, <1>3, <1>4, <1>5, <1>6, <1>7, <1>8, <1>9, <1>10, <1>11, <1>12,
     <1>13, <1>14, <1>15, <1>16 DEF Next, SetEnabled, Running

(* Rows come back only with a ping, and a flag is cleared only without rows.*)
LEMMA DeletionStep ==
  ASSUME Inv, [Next]_vars
  PROVE  DeletionHeld'
<1> USE IdsAssumption, FlashAssumption DEF Inv, TypeOK, Keys, IdHeld, DeletionHeld, Erased, flags,
            server
<1>1. CASE \E onOff \in {"on", "off"} : Switch(onOff)
  BY <1>1 DEF Switch
<1>2. CASE StoreEnabled
  BY <1>2 DEF StoreEnabled, StoreSwitch, Written
<1>3. CASE MarkPending
  BY <1>3 DEF MarkPending, Withdrawn
<1>4. CASE StorePending
  BY <1>4 DEF StorePending, StoreSwitch, Written, Withdrawn
<1>5. CASE \E due \in {"yes", "no"} : Run(due)
  BY <1>5 DEF Run, Chosen, RunStep
<1>6. CASE NothingToDelete
  BY <1>6 DEF NothingToDelete, RunStep
<1>7. CASE DeleteLost
  BY <1>7 DEF DeleteLost, LostIsPending, RunStep
<1>8. CASE DeleteUnconfirmed \/ DeleteConfirmed
  BY <1>8 DEF DeleteUnconfirmed, DeleteConfirmed, RunStep
<1>9. CASE ClearPending
  BY <1>9 DEF ClearPending, RunStep
<1>10. CASE StoreClear
  BY <1>10 DEF StoreClear, Written, RunStep
<1>11. CASE HaveId
  BY <1>11 DEF HaveId, RunStep
<1>12. CASE CreateId
  BY <1>12 DEF CreateId, Used, RunStep
<1>13. CASE PingArrives
  BY <1>13 DEF PingArrives, RunStep
<1>14. CASE PingLost
  BY <1>14 DEF PingLost, RunStep
<1>15. CASE Restart
  BY <1>15 DEF Restart
<1>16. CASE UNCHANGED vars
  BY <1>16 DEF vars
<1> QED
  BY <1>1, <1>2, <1>3, <1>4, <1>5, <1>6, <1>7, <1>8, <1>9, <1>10, <1>11, <1>12,
     <1>13, <1>14, <1>15, <1>16 DEF Next, SetEnabled, Running

LEMMA Invariance == Spec => []Inv
<1>1. Inv /\ [Next]_vars => Inv'
  BY TypeStep, IdStep, PingStep, DeletionStep DEF Inv
<1> QED
  BY InitInv, <1>1, PTL DEF Spec

-----------------------------------------------------------------------------
(* Every reachable state is well typed, and a ping has an ID.               *)
THEOREM TypeCorrect == Spec => []TypeOK
<1>1. Inv => TypeOK
  BY DEF Inv
<1> QED
  BY <1>1, Invariance, PTL

(* The server counts the device as one install, whatever writes fail.       *)
THEOREM CountedOnce == Spec => []OneInstall
<1>1. Inv => OneInstall
  <2> SUFFICES ASSUME Inv PROVE Cardinality(counted) <= 1
    BY DEF OneInstall
  <2>1. IsFiniteSet({id}) /\ Cardinality({id}) = 1
    BY FS_Singleton
  <2>2. counted \subseteq {id}
    BY DEF Inv, IdHeld
  <2> QED
    BY <2>1, <2>2, FS_Subset
<1> QED
  BY <1>1, Invariance, PTL

(* After switching reporting off at most one ping reaches the server.       *)
THEOREM OneLatePing == Spec => []AtMostOneLatePing
<1>1. Inv => AtMostOneLatePing
  BY DEF Inv, PingHeld, AtMostOneLatePing
<1> QED
  BY <1>1, Invariance, PTL

(* After a stored opt-out, nothing pending means nothing left.              *)
THEOREM NothingLeft == Spec => []Forgotten
<1>1. Inv => Forgotten
  BY DEF Inv, DeletionHeld, Erased, Forgotten, OptedOut
<1> QED
  BY <1>1, Invariance, PTL

-----------------------------------------------------------------------------
(* The energy meters.                                                       *)

Readings == 0 .. Wrap - 1

(* Less than a turn of the counter lies between the latest publication, the *)
(* latest sample and now, so that the differences of readings are true.     *)
TimesTrue ==
  /\ now \in Readings /\ last \in Readings /\ published \in Readings
  /\ uptime \in Nat /\ since \in Nat
  /\ since + Interval < Wrap
  /\ Ticks(last, now) = since
  /\ Ticks(published, last) <= Interval

Typed ==
  /\ watts \in [Meters -> Watts] /\ sampled \in [Meters -> Watts]
  /\ energy \in [Meters -> Nat] /\ drawn \in [Meters -> Nat] /\ shown \in [Meters -> Nat]
  /\ unpublished \in [Meters -> BOOLEAN] /\ fresh \in [Meters -> BOOLEAN]
  /\ brokerUp \in BOOLEAN

(* What was published is the whole total, unless it is marked as not.       *)
Marked ==
  \A m \in Meters :
    /\ fresh[m] /\ ~ unpublished[m] => shown[m] = energy[m]
    /\ sampled[m] = 0 => ~ unpublished[m]
    /\ fresh[m] => m \notin Baseline

MeterInv == TimesTrue /\ Typed /\ EnergyExact /\ Marked /\ TotalsShown

-----------------------------------------------------------------------------
(* The difference of two readings is the ticks between them, if they are    *)
(* less than a turn.                                                        *)
LEMMA TicksAdd ==
  ASSUME NEW a \in Readings, NEW b \in Readings, NEW c \in Readings,
         Ticks(a, b) + Ticks(b, c) < Wrap
  PROVE  Ticks(a, c) = Ticks(a, b) + Ticks(b, c)
BY MeterAssumption DEF Readings, Ticks

LEMMA TicksRange ==
  ASSUME NEW a \in Readings, NEW b \in Readings
  PROVE  Ticks(a, b) \in Nat /\ Ticks(a, a) = 0
BY MeterAssumption DEF Readings, Ticks

LEMMA TicksLater ==
  ASSUME NEW a \in Readings, NEW b \in Readings, Ticks(a, b) + 1 < Wrap
  PROVE  Later(b) \in Readings /\ Ticks(a, Later(b)) = Ticks(a, b) + 1
BY MeterAssumption DEF Readings, Ticks, Later

(* A draw that never exceeds w adds up to no more than w for as long.       *)
LEMMA DrawBounded ==
  ASSUME NEW v \in Nat, NEW w \in Nat, v <= w, NEW p \in Nat, NEW d \in Nat,
         NEW behind \in Int, behind <= w * p
  PROVE  behind + v * d <= w * (p + d)
<1>1. w * (p + d) = w * p + w * d
  OBVIOUS
<1>2. PICK u \in Nat : w = v + u
  <2> WITNESS w - v \in Nat
  <2> QED OBVIOUS
<1>3. w * d = v * d + u * d
  BY <1>2
<1>4. u * d \in Nat /\ v * d \in Nat /\ w * p \in Nat /\ w * d \in Nat
  OBVIOUS
<1> QED
  BY <1>1, <1>3, <1>4

-----------------------------------------------------------------------------
LEMMA MeterInit == EnergyInit => MeterInv
<1> SUFFICES ASSUME EnergyInit PROVE MeterInv
  OBVIOUS
<1>1. TimesTrue
  BY MeterAssumption DEF EnergyInit, TimesTrue, Readings, Ticks
<1>2. Typed
  BY MeterAssumption DEF EnergyInit, Typed
<1>3. EnergyExact /\ Marked /\ TotalsShown
  BY DEF EnergyInit, EnergyExact, Marked, TotalsShown
<1> QED
  BY <1>1, <1>2, <1>3 DEF MeterInv

LEMMA TimePassesInv == ASSUME MeterInv, TimePasses PROVE MeterInv'
<1> USE DEF MeterInv
<1>1. TimesTrue'
  <2>1. Ticks(last, now) + 1 < Wrap
    BY MeterAssumption DEF TimePasses, TimesTrue
  <2>2. now' \in Readings /\ Ticks(last, now') = Ticks(last, now) + 1
    BY <2>1, TicksLater DEF TimePasses, TimesTrue
  <2>3. UNCHANGED <<last, published>> /\ uptime' = uptime + 1 /\ since' = since + 1
    BY DEF TimePasses, meterVars
  <2>4. Ticks(last, now)' = Ticks(last, now') /\ Ticks(published, last)' = Ticks(published, last)
    BY <2>3 DEF Ticks
  <2>5. since + 1 + Interval < Wrap
    BY DEF TimePasses
  <2> QED
    BY <2>2, <2>3, <2>4, <2>5, MeterAssumption DEF TimesTrue, Readings
<1>2. Typed' /\ EnergyExact' /\ Marked' /\ TotalsShown'
  BY DEF TimePasses, meterVars, Typed, EnergyExact, Marked, TotalsShown, Ticks
<1> QED
  BY <1>1, <1>2

LEMMA PassInv == ASSUME MeterInv, Pass PROVE MeterInv'
<1> USE DEF MeterInv
<1>1. /\ now \in Readings /\ last \in Readings /\ published \in Readings
      /\ Ticks(last, now) = since /\ since \in Nat
      /\ Ticks(published, last) \in Nat /\ Ticks(published, now) \in Nat
      /\ Ticks(published, now) = Ticks(published, last) + since
  <2>1. Ticks(published, last) + Ticks(last, now) < Wrap
    BY TicksRange, MeterAssumption DEF TimesTrue
  <2> QED
    BY <2>1, TicksAdd, TicksRange DEF TimesTrue
<1>2. now' = now /\ last' = now /\ since' = 0 /\ uptime' = uptime
      /\ published' = IF Due THEN now ELSE published
  BY DEF Pass
<1>3. /\ Ticks(published, last)' = IF Due THEN 0 ELSE Ticks(published, now)
      /\ Ticks(last, now)' = 0
  BY <1>1, <1>2, TicksRange DEF Ticks
<1>4. TimesTrue'
  BY <1>1, <1>2, <1>3, MeterAssumption DEF TimesTrue, Readings, Due
<1>5. ASSUME NEW m \in Meters
      PROVE  /\ watts[m] \in Nat /\ energy[m] \in Nat /\ shown[m] \in Nat
             /\ watts[m] * since \in Nat
             /\ energy'[m] = energy[m] + watts[m] * since
             /\ drawn'[m] = drawn[m] + watts[m] * since
             /\ sampled'[m] = watts[m]
             /\ shown'[m] = IF Publishes(m) /\ brokerUp THEN energy'[m] ELSE shown[m]
             /\ fresh'[m] = IF Publishes(m) THEN brokerUp /\ m \notin Baseline ELSE fresh[m]
             /\ unpublished'[m] <=> (m \notin Baseline /\ watts[m] > 0 /\ ~ Due)
  <2>1. watts[m] \in Nat /\ energy[m] \in Nat /\ shown[m] \in Nat /\ drawn[m] \in Nat
    BY MeterAssumption DEF Typed
  <2>2. watts[m] * since \in Nat
    BY <1>1, <2>1
  <2>3. energy'[m] = energy[m] + watts[m] * since
    BY <1>1 DEF Pass
  <2> QED
    BY <2>1, <2>2, <2>3 DEF Pass
<1>6. Typed' /\ EnergyExact'
  <2>1. energy' = drawn'
    BY <1>1 DEF Pass, EnergyExact
  <2>2. energy' \in [Meters -> Nat] /\ drawn' \in [Meters -> Nat]
    <3>1. \A m \in Meters : energy'[m] \in Nat
      BY <1>5
    <3>2. energy' = [m \in Meters |-> energy'[m]]
      BY DEF Pass
    <3> QED
      BY <3>1, <3>2, <2>1
  <2>3. shown' \in [Meters -> Nat]
    <3>1. ASSUME NEW m \in Meters PROVE shown'[m] \in Nat
      <4>1. shown'[m] = energy'[m] \/ shown'[m] = shown[m]
        BY <1>5
      <4> QED
        BY <4>1, <1>5
    <3>2. shown' = [m \in Meters |-> shown'[m]]
      BY DEF Pass
    <3> QED
      BY <3>1, <3>2
  <2>4. unpublished' \in [Meters -> BOOLEAN] /\ fresh' \in [Meters -> BOOLEAN]
    BY DEF Pass, Typed
  <2> QED
    BY <2>1, <2>2, <2>3, <2>4 DEF Pass, Typed, EnergyExact
<1>7. Marked'
  <2> SUFFICES ASSUME NEW m \in Meters
               PROVE  /\ fresh'[m] /\ ~ unpublished'[m] => shown'[m] = energy'[m]
                      /\ sampled'[m] = 0 => ~ unpublished'[m]
                      /\ fresh'[m] => m \notin Baseline
    BY DEF Marked
  <2>1. sampled'[m] = 0 => ~ unpublished'[m]
    BY <1>5
  <2>2. fresh'[m] => m \notin Baseline
    BY <1>5 DEF Marked
  <2>3. ASSUME fresh'[m], ~ unpublished'[m] PROVE shown'[m] = energy'[m]
    <3>1. m \notin Baseline /\ (watts[m] = 0 \/ Due)
      BY <2>2, <2>3, <1>5
    <3>2. CASE Publishes(m)
      BY <3>2, <2>3, <1>5
    <3>3. CASE ~ Publishes(m)
      <4>1. watts[m] = 0 /\ ~ unpublished[m] /\ fresh[m]
        BY <3>1, <3>3, <2>3, <1>5 DEF Publishes
      <4>2. shown'[m] = shown[m] /\ energy'[m] = energy[m]
        BY <4>1, <3>3, <1>1, <1>5
      <4> QED
        BY <4>1, <4>2 DEF Marked
    <3> QED
      BY <3>2, <3>3
  <2> QED
    BY <2>1, <2>2, <2>3
<1>8. TotalsShown'
  <2> SUFFICES ASSUME NEW m \in Meters, fresh'[m]
               PROVE  /\ sampled'[m] = 0 => shown'[m] = energy'[m]
                      /\ \A w \in Watts : (\A v \in Watts : v <= w) =>
                           energy'[m] - shown'[m] <= w * Ticks(published, last)'
                      /\ Ticks(published, last)' < Interval
    BY DEF TotalsShown, Ticks
  <2>1. Ticks(published, last)' < Interval /\ Ticks(published, last)' \in Nat
    BY <1>1, <1>3, MeterAssumption DEF Due
  <2>2. sampled'[m] = 0 => shown'[m] = energy'[m]
    BY <1>5, <1>7 DEF Marked
  <2>3. ASSUME NEW w \in Watts, \A v \in Watts : v <= w
        PROVE  energy'[m] - shown'[m] <= w * Ticks(published, last)'
    <3> w \in Nat
      BY MeterAssumption
    <3>1. CASE shown'[m] = energy'[m]
      <4>1. w * Ticks(published, last)' \in Nat
        BY <2>1
      <4> QED
        BY <3>1, <4>1, <1>5
    <3>2. CASE shown'[m] # energy'[m]
      <4>1. unpublished'[m]
        BY <3>2, <1>7 DEF Marked
      <4>2. ~ Due /\ fresh[m] /\ shown'[m] = shown[m]
        BY <3>2, <4>1, <1>5 DEF Publishes
      <4>3. energy[m] - shown[m] <= w * Ticks(published, last)
        BY <2>3, <4>2 DEF TotalsShown
      <4>4. watts[m] <= w /\ energy[m] - shown[m] \in Int
        BY <2>3, <1>5 DEF Typed
      <4>5. energy[m] - shown[m] + watts[m] * since <= w * (Ticks(published, last) + since)
        BY <1>1, <1>5, <4>3, <4>4, DrawBounded
      <4>6. Ticks(published, last)' = Ticks(published, last) + since
        BY <1>1, <1>3, <4>2
      <4>7. energy'[m] - shown'[m] = energy[m] - shown[m] + watts[m] * since
        BY <1>5, <4>2
      <4> QED
        BY <4>5, <4>6, <4>7
    <3> QED
      BY <3>1, <3>2
  <2> QED
    BY <2>1, <2>2, <2>3
<1> QED
  BY <1>4, <1>6, <1>7, <1>8

LEMMA PowerUpInv == ASSUME MeterInv, PowerUp PROVE MeterInv'
<1>1. TimesTrue'
  BY MeterAssumption DEF PowerUp, TimesTrue, Readings, Ticks
<1>2. Typed'
  BY MeterAssumption DEF PowerUp, MeterInv, Typed
<1>3. EnergyExact' /\ Marked' /\ TotalsShown'
  BY DEF PowerUp, EnergyExact, Marked, TotalsShown
<1> QED
  BY <1>1, <1>2, <1>3 DEF MeterInv

(* What changes neither a total nor a time changes nothing here.            *)
LEMMA OtherInv == ASSUME MeterInv, PowerChanges \/ ConnectionChanges \/ Busy PROVE MeterInv'
<1>1. TimesTrue'
  BY DEF MeterInv, TimesTrue, Ticks, PowerChanges, ConnectionChanges, Busy, Untouched, timeVars,
         meterVars
<1>2. Typed'
  BY DEF MeterInv, Typed, PowerChanges, ConnectionChanges, Busy, meterVars
<1>3. EnergyExact' /\ Marked' /\ TotalsShown'
  BY DEF MeterInv, EnergyExact, Marked, TotalsShown, Ticks, PowerChanges, ConnectionChanges, Busy,
         Untouched, meterVars
<1> QED
  BY <1>1, <1>2, <1>3 DEF MeterInv

LEMMA MeterNext == MeterInv /\ [EnergyNext]_energyVars => MeterInv'
<1> SUFFICES ASSUME MeterInv, [EnergyNext]_energyVars PROVE MeterInv'
  OBVIOUS
<1>1. CASE UNCHANGED energyVars
  BY <1>1 DEF energyVars, timeVars, meterVars, MeterInv, TimesTrue, Typed, EnergyExact, Marked,
              TotalsShown, Ticks
<1>2. CASE EnergyNext
  BY <1>2, TimePassesInv, PassInv, PowerUpInv, OtherInv DEF EnergyNext
<1> QED
  BY <1>1, <1>2

LEMMA MeterInvariance == EnergySpec => []MeterInv
BY MeterInit, MeterNext, PTL DEF EnergySpec

(* channel_energy_task(): every tick between two samples is counted once,   *)
(* whatever the task slept, however often it did not get the pool state,    *)
(* and wherever the tick counter wrapped; and a total that reached the      *)
(* broker since the boot is behind by less than an interval, or, once       *)
(* nothing is drawn, not at all.                                            *)
THEOREM Metered == EnergySpec => []EnergyMetered
<1>1. MeterInv => EnergyMetered
  BY DEF MeterInv, EnergyMetered
<1> QED
  BY <1>1, MeterInvariance, PTL

-----------------------------------------------------------------------------
(* The live log.                                                            *)

Cells == [kind : {"marker", "line"}, number : Nat, last : BOOLEAN]
Hooks == [at : {"away", "formatted", "locked", "looked"}, gap : Nat, number : Nat]

LogTyped ==
  /\ ring \in Seq(Cells) /\ frame \in Seq(Cells) /\ sent \in Seq(Cells)
  /\ dropped \in Nat /\ numbered \in Nat
  /\ lock \in LogTasks \cup {Unlocked, Sender} /\ hook \in [LogTasks -> Hooks]
  /\ sender \in {"idle", "locked", "read", "queued"}
  /\ old \in BOOLEAN /\ lost \in BOOLEAN /\ unsure \in BOOLEAN
  /\ clients \subseteq Browsers /\ IsFiniteSet(clients) /\ Cardinality(clients) <= MaxClients
  /\ Len(ring) <= RingSize /\ Len(frame) <= FrameMax

(* Whoever is past taking the lock has it, and there is a batch only while  *)
(* it is being sent.                                                        *)
RingHeld ==
  /\ \A l \in LogTasks : lock = l <=> hook[l].at \in {"locked", "looked"}
  /\ lock = Sender <=> sender = "locked"
  /\ frame # <<>> => sender \in {"read", "queued"}
  /\ old => frame # <<>>
  /\ unsure => lost

(* The count a task has read is still part of the count, so that taking it  *)
(* off leaves what was added since. The line it holds comes behind all that *)
(* the text and the count it read account for.                              *)
InHandHeld ==
  \A l \in InHand :
    /\ hook[l].gap <= dropped
    /\ ~ lost => hook[l].number = LinesIn(Feed) + hook[l].gap + 1

(* Text, count and the line in hand account for every line.                 *)
Balance ==
  ~ unsure => LinesIn(Feed) + dropped + (IF InHand = {} THEN 0 ELSE 1) = numbered

(* Every piece of a line comes behind text that accounts for all before it. *)
LinesPlaced ==
  ~ lost =>
    \A i \in DOMAIN Feed :
      Feed[i].kind = "line" => LinesIn(SubSeq(Feed, 1, i - 1)) = Feed[i].number - 1

LogInv == LogTyped /\ RingHeld /\ InHandHeld /\ Balance /\ LinesPlaced

-----------------------------------------------------------------------------
(* What text accounts for.                                                  *)

LEMMA Together ==
  ASSUME NEW s \in Seq(Cells), NEW t \in Seq(Cells)
  PROVE  /\ s \o t \in Seq(Cells) /\ Len(s \o t) = Len(s) + Len(t)
         /\ Len(s) \in Nat /\ Len(t) \in Nat
         /\ DOMAIN s = 1 .. Len(s) /\ DOMAIN t = 1 .. Len(t)
         /\ DOMAIN (s \o t) = 1 .. Len(s) + Len(t)
         /\ \A i \in 1 .. Len(s) : (s \o t)[i] = s[i]
         /\ \A i \in 1 .. Len(t) : (s \o t)[Len(s) + i] = t[i]
OBVIOUS

LEMMA AccountedMember ==
  ASSUME NEW cells, NEW p
  PROVE  p \in Accounted(cells) <=>
           \E i \in Ends(cells) : \E n \in 1 .. Worth(cells[i]) : p = <<i, n>>
BY DEF Accounted

LEMMA WorthNat == \A c \in Cells : Worth(c) \in Nat
BY DEF Worth, Cells

LEMMA EndsFinite ==
  ASSUME NEW cells \in Seq(Cells)
  PROVE  Ends(cells) \subseteq 1 .. Len(cells) /\ IsFiniteSet(Ends(cells))
<1>1. Ends(cells) \subseteq 1 .. Len(cells) /\ Len(cells) \in Nat
  BY DEF Ends
<1>2. IsFiniteSet(1 .. Len(cells))
  BY <1>1, FS_Interval
<1> QED
  BY <1>1, <1>2, FS_Subset

(* One piece accounts for as many lines as it is worth.                     *)
LEMMA PieceFinite ==
  ASSUME NEW i, NEW w \in Nat
  PROVE  IsFiniteSet({<<i, n>> : n \in 1 .. w}) /\ Cardinality({<<i, n>> : n \in 1 .. w}) = w
<1> DEFINE S == 1 .. w
           T == {<<i, n>> : n \in 1 .. w}
           f == [n \in S |-> <<i, n>>]
<1>1. IsFiniteSet(S) /\ Cardinality(S) = w
  BY FS_Interval
<1>2. f \in [S -> T]
  OBVIOUS
<1>3. \A a, b \in S : f[a] = f[b] => a = b
  OBVIOUS
<1>4. \A p \in T : \E n \in S : f[n] = p
  OBVIOUS
<1>5. f \in Bijection(S, T)
  <2> HIDE DEF S, T, f
  <2> QED
    BY <1>2, <1>3, <1>4 DEF Bijection, Injection, Surjection, IsInjective
<1>6. ExistsBijection(S, T)
  BY <1>5 DEF ExistsBijection
<1>7. IsFiniteSet(T) /\ Cardinality(T) = Cardinality(S)
  <2> HIDE DEF S, T
  <2> QED
    BY <1>1, <1>6, FS_Bijection
<1> QED
  BY <1>1, <1>7

LEMMA LinesNat ==
  ASSUME NEW cells \in Seq(Cells)
  PROVE  IsFiniteSet(Accounted(cells)) /\ LinesIn(cells) \in Nat
<1> DEFINE Piece(i) == {<<i, n>> : n \in 1 .. Worth(cells[i])}
           S == {Piece(i) : i \in Ends(cells)}
           f == [i \in Ends(cells) |-> Piece(i)]
<1>1. IsFiniteSet(Ends(cells)) /\ \A i \in Ends(cells) : cells[i] \in Cells
  BY EndsFinite
<1>2. f \in Surjection(Ends(cells), S)
  <2>1. f \in [Ends(cells) -> S]
    OBVIOUS
  <2>2. \A T \in S : \E i \in Ends(cells) : f[i] = T
    OBVIOUS
  <2> HIDE DEF f, S
  <2> QED
    BY <2>1, <2>2 DEF Surjection
<1>3. IsFiniteSet(S)
  <2> HIDE DEF f, S
  <2> QED
    BY <1>1, <1>2, FS_Surjection
<1>4. \A T \in S : IsFiniteSet(T)
  <2> SUFFICES ASSUME NEW i \in Ends(cells) PROVE IsFiniteSet(Piece(i))
    OBVIOUS
  <2>1. Worth(cells[i]) \in Nat
    BY <1>1, WorthNat
  <2> QED
    BY <2>1, PieceFinite
<1>5. IsFiniteSet(UNION S)
  <2> HIDE DEF S
  <2> QED
    BY <1>3, <1>4, FS_UNION
<1>6. Accounted(cells) = UNION S
  BY DEF Accounted
<1> QED
  BY <1>5, <1>6, FS_CardinalityType DEF LinesIn

(* The pieces of t come behind those of s.                                  *)
LEMMA LinesOfBoth ==
  ASSUME NEW s \in Seq(Cells), NEW t \in Seq(Cells)
  PROVE  LinesIn(s \o t) = LinesIn(s) + LinesIn(t)
<1> DEFINE A == Accounted(s)
           B == Accounted(t)
           C == Accounted(s \o t) \ A
           f == [p \in B |-> <<p[1] + Len(s), p[2]>>]
<1>1. /\ s \o t \in Seq(Cells) /\ Len(s \o t) = Len(s) + Len(t)
      /\ Len(s) \in Nat /\ Len(t) \in Nat
      /\ \A i \in 1 .. Len(s) : (s \o t)[i] = s[i]
      /\ \A i \in 1 .. Len(t) : (s \o t)[Len(s) + i] = t[i]
  OBVIOUS
<1>2. /\ \A i \in Ends(s) : i \in 1 .. Len(s) /\ i \in Ends(s \o t) /\ (s \o t)[i] = s[i]
      /\ \A i \in Ends(t) : /\ i \in 1 .. Len(t) /\ i + Len(s) \in Ends(s \o t)
                            /\ (s \o t)[i + Len(s)] = t[i]
      /\ \A i \in Ends(s \o t) : i \in 1 .. Len(s) + Len(t)
      /\ \A i \in Ends(s \o t) : i <= Len(s) => i \in Ends(s)
      /\ \A i \in Ends(s \o t) : i > Len(s) => i - Len(s) \in Ends(t)
  BY <1>1 DEF Ends
<1>m. \A cells : \A p \in Accounted(cells) :
        \E j \in Ends(cells) : \E n \in 1 .. Worth(cells[j]) : p = <<j, n>>
  BY AccountedMember
<1>3. A \subseteq Accounted(s \o t)
  <2> SUFFICES ASSUME NEW p \in A PROVE p \in Accounted(s \o t)
    OBVIOUS
  <2>1. PICK i \in Ends(s) : \E n \in 1 .. Worth(s[i]) : p = <<i, n>>
    BY AccountedMember
  <2> QED
    BY <2>1, <1>2, AccountedMember
<1>4. \A p : p \in C <=> \E i \in Ends(t) : \E n \in 1 .. Worth(t[i]) : p = <<i + Len(s), n>>
  <2>1. ASSUME NEW p \in C
        PROVE  \E i \in Ends(t) : \E n \in 1 .. Worth(t[i]) : p = <<i + Len(s), n>>
    <3>10. PICK j \in Ends(s \o t) : \E n \in 1 .. Worth((s \o t)[j]) : p = <<j, n>>
      <4>1. p \in Accounted(s \o t)
        OBVIOUS
      <4> QED
        BY <4>1, <1>m, Zenon
    <3>1. PICK n \in 1 .. Worth((s \o t)[j]) : p = <<j, n>>
      BY <3>10
    <3>2. ~ (j <= Len(s))
      <4> SUFFICES ASSUME j <= Len(s) PROVE FALSE
        OBVIOUS
      <4>1. j \in Ends(s) /\ (s \o t)[j] = s[j]
        BY <1>2
      <4> QED
        BY <4>1, <3>1, AccountedMember
    <3>3. j \in Int /\ j - Len(s) \in Ends(t) /\ (j - Len(s)) + Len(s) = j
      BY <3>2, <1>1, <1>2
    <3>4. (s \o t)[j] = t[j - Len(s)]
      BY <3>3, <1>2
    <3> QED
      BY <3>1, <3>3, <3>4
  <2>2. ASSUME NEW i \in Ends(t), NEW n \in 1 .. Worth(t[i])
        PROVE  <<i + Len(s), n>> \in C
    <3>1. <<i + Len(s), n>> \in Accounted(s \o t)
      BY <1>2, AccountedMember
    <3>2. <<i + Len(s), n>> \notin A
      <4> SUFFICES ASSUME <<i + Len(s), n>> \in A PROVE FALSE
        OBVIOUS
      <4>1. PICK j \in Ends(s) : \E m \in 1 .. Worth(s[j]) : <<i + Len(s), n>> = <<j, m>>
        BY AccountedMember
      <4>2. j = i + Len(s) /\ j \in 1 .. Len(s) /\ i \in 1 .. Len(t)
        BY <4>1, <1>2
      <4> QED
        BY <4>2, <1>1
    <3> QED
      BY <3>1, <3>2
  <2> QED
    BY <2>1, <2>2
<1>5. f \in Bijection(B, C)
  <2>1. \A p \in B : \E i \in Ends(t) : \E n \in 1 .. Worth(t[i]) : p = <<i, n>>
    BY AccountedMember
  <2>2. \A p \in B : f[p] \in C
    <3> SUFFICES ASSUME NEW p \in B PROVE f[p] \in C
      OBVIOUS
    <3>10. PICK i \in Ends(t) : \E n \in 1 .. Worth(t[i]) : p = <<i, n>>
      BY <2>1
    <3>1. PICK n \in 1 .. Worth(t[i]) : p = <<i, n>>
      BY <3>10
    <3>2. f[p] = <<i + Len(s), n>>
      BY <3>1
    <3> QED
      BY <3>2, <1>4
  <2>3. ASSUME NEW p \in B, NEW q \in B, f[p] = f[q] PROVE p = q
    <3>10. PICK i \in Ends(t) : \E n \in 1 .. Worth(t[i]) : p = <<i, n>>
      BY <2>1
    <3>1. PICK n \in 1 .. Worth(t[i]) : p = <<i, n>>
      BY <3>10
    <3>20. PICK j \in Ends(t) : \E m \in 1 .. Worth(t[j]) : q = <<j, m>>
      BY <2>1
    <3>2. PICK m \in 1 .. Worth(t[j]) : q = <<j, m>>
      BY <3>20
    <3>3. f[p] = <<i + Len(s), n>> /\ f[q] = <<j + Len(s), m>>
      BY <3>1, <3>2
    <3>4. i \in Int /\ j \in Int /\ i + Len(s) = j + Len(s) /\ n = m
      BY <3>3, <2>3, <1>2
    <3> QED
      BY <3>1, <3>2, <3>4, <1>1
  <2>4. ASSUME NEW q \in C PROVE \E p \in B : f[p] = q
    <3>10. PICK i \in Ends(t) : \E n \in 1 .. Worth(t[i]) : q = <<i + Len(s), n>>
      BY <1>4
    <3>1. PICK n \in 1 .. Worth(t[i]) : q = <<i + Len(s), n>>
      BY <3>10
    <3>2. <<i, n>> \in B
      BY AccountedMember
    <3>3. f[<<i, n>>] = q
      BY <3>1, <3>2
    <3> QED
      BY <3>2, <3>3
  <2>5. f \in [B -> C]
    BY <2>2
  <2> HIDE DEF B, C, f
  <2> QED
    BY <2>3, <2>4, <2>5, Z3 DEF Bijection, Injection, Surjection, IsInjective
<1>6. IsFiniteSet(A) /\ IsFiniteSet(B) /\ IsFiniteSet(Accounted(s \o t))
  BY <1>1, LinesNat
<1>7. IsFiniteSet(C) /\ Cardinality(C) = Cardinality(B)
  <2> HIDE DEF B, C, f
  <2>1. ExistsBijection(B, C)
    BY <1>5 DEF ExistsBijection
  <2> QED
    BY <1>6, <2>1, FS_Bijection
<1>8. Cardinality(Accounted(s \o t)) = Cardinality(A) + Cardinality(C)
  <2>1. A \cup C = Accounted(s \o t) /\ A \cap C = {}
    BY <1>3
  <2> HIDE DEF A, C
  <2>2. Cardinality(A \cup C) = Cardinality(A) + Cardinality(C) - Cardinality({})
    BY <2>1, <1>6, <1>7, FS_Union
  <2>3. Cardinality(A) \in Nat /\ Cardinality(C) \in Nat /\ Cardinality({}) = 0
    BY <1>6, <1>7, FS_CardinalityType, FS_EmptySet
  <2>4. Cardinality(Accounted(s \o t)) = Cardinality(A \cup C)
    BY <2>1, Zenon
  <2> QED
    BY <2>2, <2>3, <2>4
<1> QED
  BY <1>7, <1>8 DEF LinesIn

(* Text in which nothing ends accounts for nothing.                         *)
LEMMA LinesOfNone ==
  ASSUME NEW cells, Ends(cells) = {}
  PROVE  LinesIn(cells) = 0
<1>1. Accounted(cells) = {}
  BY DEF Accounted
<1> QED
  BY <1>1, FS_EmptySet DEF LinesIn

(* A line accounts for itself, a marker for as many as it says.             *)
LEMMA TextType ==
  ASSUME NEW kind \in {"marker", "line"}, NEW number \in Nat, NEW size \in Nat
  PROVE  /\ Text(kind, number, size) \in Seq(Cells)
         /\ Len(Text(kind, number, size)) = size
         /\ \A i \in 1 .. size : /\ Text(kind, number, size)[i].kind = kind
                                /\ Text(kind, number, size)[i].number = number
<1>1. \A i \in 1 .. size : [kind |-> kind, number |-> number, last |-> i = size] \in Cells
  BY DEF Cells
<1>2. /\ Text(kind, number, size) \in Seq(Cells)
      /\ Len(Text(kind, number, size)) = size
      /\ \A i \in 1 .. size :
           Text(kind, number, size)[i] = [kind |-> kind, number |-> number, last |-> i = size]
  BY <1>1 DEF Text
<1> QED
  BY <1>2

LEMMA TextEnds ==
  ASSUME NEW kind, NEW number, NEW size \in Nat, NEW i \in 1 .. size
  PROVE  Text(kind, number, size)[i].last <=> i = size
<1>1. Text(kind, number, size)[i] = [kind |-> kind, number |-> number, last |-> i = size]
  BY DEF Text
<1>2. [kind |-> kind, number |-> number, last |-> i = size].last <=> i = size
  OBVIOUS
<1> QED
  BY <1>1, <1>2, Zenon

LEMMA LinesOfText ==
  ASSUME NEW kind \in {"marker", "line"}, NEW number \in Nat, NEW size \in Nat \ {0}
  PROVE  LinesIn(Text(kind, number, size)) = IF kind = "line" THEN 1 ELSE number
<1> DEFINE text == Text(kind, number, size)
           w == IF kind = "line" THEN 1 ELSE number
<1>1. /\ text \in Seq(Cells) /\ Len(text) = size
      /\ \A i \in 1 .. size : text[i].kind = kind /\ text[i].number = number
  BY TextType
<1>l. \A i \in 1 .. size : text[i].last <=> i = size
  BY TextEnds
<1> HIDE DEF text
<1>d. DOMAIN text = 1 .. size /\ size \in 1 .. size
  BY <1>1
<1>2. Ends(text) = {size}
  BY <1>l, <1>d DEF Ends
<1>3. Worth(text[size]) = w
  BY <1>1, <1>d DEF Worth
<1>4. Accounted(text) = {<<size, n>> : n \in 1 .. w}
  BY <1>2, <1>3 DEF Accounted
<1>5. w \in Nat
  OBVIOUS
<1> HIDE DEF w
<1>6. LinesIn(text) = w
  <2>1. Cardinality({<<size, n>> : n \in 1 .. w}) = w
    BY <1>5, PieceFinite, Zenon
  <2> QED
    BY <1>4, <2>1 DEF LinesIn
<1> QED
  BY <1>6 DEF text, w

(* Before its last piece a line does not count.                             *)
LEMMA LinesOfPart ==
  ASSUME NEW number \in Nat, NEW size \in Nat, NEW k \in 0 .. size - 1
  PROVE  LinesIn(SubSeq(Text("line", number, size), 1, k)) = 0
<1> DEFINE text == Text("line", number, size)
<1>0. text \in Seq(Cells) /\ Len(text) = size
  <2>1. "line" \in {"marker", "line"}
    OBVIOUS
  <2>2. text \in Seq(Cells)
    BY <2>1, TextType, Zenon
  <2>3. Len(text) = size
    BY <2>1, TextType
  <2> QED
    BY <2>2, <2>3
<1>1. \A i \in 1 .. size : text[i].last <=> i = size
  BY TextEnds
<1> HIDE DEF text
<1>2. Len(SubSeq(text, 1, k)) = k /\ \A i \in 1 .. k : SubSeq(text, 1, k)[i] = text[i]
  BY <1>0
<1>3. DOMAIN SubSeq(text, 1, k) = 1 .. k
  BY <1>0
<1>4. \A i \in 1 .. k : i \in 1 .. size /\ i # size
  OBVIOUS
<1>5. Ends(SubSeq(text, 1, k)) = {}
  BY <1>1, <1>2, <1>3, <1>4 DEF Ends
<1> QED
  BY <1>5, LinesOfNone DEF text

(* Without markers, as many lines as end in it.                             *)
LEMMA LinesAreEnds ==
  ASSUME NEW cells \in Seq(Cells), \A i \in DOMAIN cells : cells[i].kind # "marker"
  PROVE  LinesIn(cells) = Cardinality(Ends(cells))
<1> DEFINE S == Ends(cells)
           T == Accounted(cells)
           f == [i \in S |-> <<i, 1>>]
<1>1. \A i \in S : Worth(cells[i]) = 1
  <2>1. \A i \in DOMAIN cells : cells[i] \in Cells
    OBVIOUS
  <2>2. \A c \in Cells : c.kind # "marker" => Worth(c) = 1
    BY DEF Worth, Cells
  <2> QED
    BY <2>1, <2>2 DEF Ends
<1>2. \A p : p \in T <=> \E i \in S : p = <<i, 1>>
  BY <1>1, AccountedMember
<1>3. f \in [S -> T]
  BY <1>2
<1>4. \A a, b \in S : f[a] = f[b] => a = b
  OBVIOUS
<1>5. \A p \in T : \E i \in S : f[i] = p
  BY <1>2
<1>6. IsFiniteSet(S)
  BY EndsFinite
<1> HIDE DEF S, T, f
<1>7. ExistsBijection(S, T)
  BY <1>3, <1>4, <1>5, Z3 DEF ExistsBijection, Bijection, Injection, Surjection, IsInjective
<1>8. Cardinality(T) = Cardinality(S)
  BY <1>6, <1>7, FS_Bijection
<1> QED
  BY <1>8 DEF LinesIn, S, T

-----------------------------------------------------------------------------
(* The steps.                                                               *)

LEMMA FeedTyped == LogTyped => Feed \in Seq(Cells) /\ LinesIn(Feed) \in Nat
<1> SUFFICES ASSUME LogTyped PROVE Feed \in Seq(Cells)
  BY LinesNat
<1> QED
  BY DEF LogTyped, Feed

LEMMA LogInitially == LogInit => LogInv
<1> SUFFICES ASSUME LogInit PROVE LogInv
  OBVIOUS
<1> USE LogAssumption DEF LogInit
<1>1. \A l \in LogTasks : hook[l].at = "away"
  BY DEF Away
<1>2. LogTyped
  <2>1. Away \in Hooks
    BY DEF Away, Hooks
  <2>2. hook \in [LogTasks -> Hooks]
    BY <2>1
  <2>3. IsFiniteSet(clients) /\ Cardinality(clients) = 0
    BY FS_EmptySet
  <2>4. ring \in Seq(Cells) /\ frame \in Seq(Cells) /\ sent \in Seq(Cells)
    OBVIOUS
  <2>5. Len(ring) <= RingSize /\ Len(frame) <= FrameMax /\ Cardinality(clients) <= MaxClients
    BY <2>3
  <2> QED
    BY <2>2, <2>3, <2>4, <2>5 DEF LogTyped
<1>3. RingHeld
  BY <1>1 DEF RingHeld, Unlocked, Sender
<1>4. InHand = {}
  BY <1>1 DEF InHand
<1>5. Feed = <<>>
  BY DEF Feed
<1>6. LinesIn(Feed) = 0
  <2>1. Ends(<<>>) = {}
    BY DEF Ends
  <2> QED
    BY <2>1, <1>5, LinesOfNone
<1> QED
  BY <1>2, <1>3, <1>4, <1>5, <1>6 DEF LogInv, InHandHeld, Balance, LinesPlaced

(* Nothing about the text, and no task takes its line in hand or is done    *)
(* with one; whatever is counted is counted on both sides.                  *)
LEMMA TextSame ==
  ASSUME LogInv, Feed' = Feed, lost' = lost, unsure' = unsure, LogTyped',
         dropped' >= dropped, dropped' - dropped = numbered' - numbered,
         \A l \in LogTasks : hook'[l].at = "looked" <=> hook[l].at = "looked",
         \A l \in LogTasks : hook[l].at = "looked" => hook'[l] = hook[l]
  PROVE  InHandHeld' /\ Balance' /\ LinesPlaced'
<1>1. /\ dropped \in Nat /\ dropped' \in Nat /\ numbered \in Nat /\ numbered' \in Nat
      /\ \A l \in LogTasks : hook[l].gap \in Nat
  BY DEF LogInv, LogTyped, Hooks
<1>2. InHand' = InHand /\ InHand \subseteq LogTasks
  BY DEF InHand
<1>3. LinesIn(Feed) \in Nat
  BY FeedTyped DEF LogInv
<1>4. InHandHeld'
  <2> SUFFICES ASSUME NEW l \in InHand
               PROVE  /\ hook'[l].gap <= dropped'
                      /\ ~ lost => hook'[l].number = LinesIn(Feed) + hook'[l].gap + 1
    BY <1>2 DEF InHandHeld
  <2>1. hook'[l] = hook[l] /\ hook[l].gap <= dropped /\ hook[l].gap \in Nat
    BY <1>1, <1>2 DEF InHand, InHandHeld, LogInv
  <2> QED
    BY <2>1, <1>1 DEF InHandHeld, LogInv
<1>5. Balance'
  BY <1>1, <1>2, <1>3 DEF Balance, LogInv
<1>6. LinesPlaced'
  BY DEF LinesPlaced, LogInv
<1> QED
  BY <1>4, <1>5, <1>6

LEMMA FormatStep == ASSUME LogInv, NEW l \in LogTasks, Format(l) PROVE LogInv'
<1>1. hook \in [LogTasks -> Hooks] /\ hook[l].at = "away"
  BY DEF LogInv, LogTyped, Format
<1>2. /\ hook' \in [LogTasks -> Hooks] /\ hook'[l].at = "formatted"
      /\ \A m \in LogTasks : m # l => hook'[m] = hook[m]
  BY <1>1 DEF Format, Hooks
<1>3. LogTyped'
  BY <1>2 DEF LogInv, LogTyped, Format, ringVars, senderVars, viewerVars, lossVars
<1>4. RingHeld'
  BY <1>1, <1>2 DEF LogInv, RingHeld, Format, ringVars, senderVars, viewerVars, lossVars
<1>5. Feed' = Feed /\ UNCHANGED <<dropped, numbered, lost, unsure>>
  BY DEF Feed, Format, ringVars, senderVars, lossVars
<1>6. InHandHeld' /\ Balance' /\ LinesPlaced'
  <2>1. dropped' >= dropped /\ dropped' - dropped = numbered' - numbered
    BY <1>5 DEF LogInv, LogTyped
  <2>2. /\ \A m \in LogTasks : hook'[m].at = "looked" <=> hook[m].at = "looked"
        /\ \A m \in LogTasks : hook[m].at = "looked" => hook'[m] = hook[m]
    BY <1>1, <1>2
  <2> QED
    BY <1>3, <1>5, <2>1, <2>2, TextSame
<1> QED
  BY <1>3, <1>4, <1>6 DEF LogInv

LEMMA ContendedStep == ASSUME LogInv, NEW l \in LogTasks, Contended(l) PROVE LogInv'
<1>1. hook \in [LogTasks -> Hooks] /\ hook[l].at = "formatted"
  BY DEF LogInv, LogTyped, Contended
<1>2. /\ hook' \in [LogTasks -> Hooks] /\ hook'[l].at = "away"
      /\ \A m \in LogTasks : m # l => hook'[m] = hook[m]
  BY <1>1 DEF Contended, Hooks, Away
<1>3. LogTyped'
  BY <1>2 DEF LogInv, LogTyped, Contended, senderVars, viewerVars, lossVars
<1>4. RingHeld'
  BY <1>1, <1>2 DEF LogInv, RingHeld, Contended, senderVars, viewerVars, lossVars
<1>5. /\ Feed' = Feed /\ UNCHANGED <<lost, unsure>>
      /\ dropped' = dropped + 1 /\ numbered' = numbered + 1
  BY DEF Feed, Contended, senderVars, lossVars
<1>6. InHandHeld' /\ Balance' /\ LinesPlaced'
  <2>1. dropped' >= dropped /\ dropped' - dropped = numbered' - numbered
    BY <1>5 DEF LogInv, LogTyped
  <2>2. /\ \A m \in LogTasks : hook'[m].at = "looked" <=> hook[m].at = "looked"
        /\ \A m \in LogTasks : hook[m].at = "looked" => hook'[m] = hook[m]
    BY <1>1, <1>2
  <2> QED
    BY <1>3, <1>5, <2>1, <2>2, TextSame
<1> QED
  BY <1>3, <1>4, <1>6 DEF LogInv

LEMMA TakeStep == ASSUME LogInv, NEW l \in LogTasks, Take(l) PROVE LogInv'
<1>1. hook \in [LogTasks -> Hooks] /\ hook[l].at = "formatted" /\ lock = Unlocked /\ lock' = l
  BY DEF LogInv, LogTyped, Take
<1>2. /\ hook' \in [LogTasks -> Hooks] /\ hook'[l].at = "locked"
      /\ \A m \in LogTasks : m # l => hook'[m] = hook[m]
  BY <1>1 DEF Take, Hooks
<1>3. LogTyped'
  BY <1>1, <1>2 DEF LogInv, LogTyped, Take, senderVars, viewerVars, lossVars
<1>4. RingHeld'
  BY <1>1, <1>2, LogAssumption
     DEF LogInv, RingHeld, Take, senderVars, viewerVars, lossVars, Unlocked, Sender
<1>5. Feed' = Feed /\ UNCHANGED <<dropped, numbered, lost, unsure>>
  BY DEF Feed, Take, senderVars, lossVars
<1>6. InHandHeld' /\ Balance' /\ LinesPlaced'
  <2>1. dropped' >= dropped /\ dropped' - dropped = numbered' - numbered
    BY <1>5 DEF LogInv, LogTyped
  <2>2. /\ \A m \in LogTasks : hook'[m].at = "looked" <=> hook[m].at = "looked"
        /\ \A m \in LogTasks : hook[m].at = "looked" => hook'[m] = hook[m]
    BY <1>1, <1>2
  <2> QED
    BY <1>3, <1>5, <2>1, <2>2, TextSame
<1> QED
  BY <1>3, <1>4, <1>6 DEF LogInv

(* Only the task that has the lock has a line in hand.                      *)
LEMMA LookStep == ASSUME LogInv, NEW l \in LogTasks, Look(l) PROVE LogInv'
<1>1. hook \in [LogTasks -> Hooks] /\ hook[l].at = "locked" /\ lock = l
  BY DEF LogInv, LogTyped, RingHeld, Look
<1>2. dropped \in Nat /\ numbered \in Nat /\ numbered' = numbered + 1 /\ dropped' = dropped
  BY DEF LogInv, LogTyped, Look, ringVars
<1>3. /\ hook' \in [LogTasks -> Hooks]
      /\ hook'[l] = [at |-> "looked", gap |-> dropped, number |-> numbered + 1]
      /\ \A m \in LogTasks : m # l => hook'[m] = hook[m]
  BY <1>1, <1>2 DEF Look, Hooks
<1>4. LogTyped'
  BY <1>2, <1>3 DEF LogInv, LogTyped, Look, ringVars, senderVars, viewerVars, lossVars
<1>5. RingHeld'
  BY <1>1, <1>3 DEF LogInv, RingHeld, Look, ringVars, senderVars, viewerVars, lossVars
<1>6. \A m \in LogTasks : m # l => hook[m].at # "looked"
  BY <1>1 DEF LogInv, RingHeld
<1>7. InHand = {} /\ InHand' = {l}
  BY <1>1, <1>3, <1>6 DEF InHand
<1>8. Feed' = Feed /\ lost' = lost /\ unsure' = unsure /\ LinesIn(Feed) \in Nat
  BY FeedTyped DEF Feed, Look, ringVars, senderVars, lossVars, LogInv
<1>9. ~ unsure => LinesIn(Feed) + dropped = numbered
  BY <1>2, <1>7, <1>8 DEF LogInv, Balance
<1>10. InHandHeld'
  BY <1>2, <1>3, <1>7, <1>8, <1>9 DEF InHandHeld, LogInv, RingHeld
<1>11. Balance'
  BY <1>2, <1>7, <1>8, <1>9 DEF Balance
<1>12. LinesPlaced'
  BY <1>8 DEF LinesPlaced, LogInv
<1> QED
  BY <1>4, <1>5, <1>10, <1>11, <1>12 DEF LogInv

(* Beginnings of text put together.                                         *)
LEMMA BeginningOfBoth ==
  ASSUME NEW s \in Seq(Cells), NEW t \in Seq(Cells)
  PROVE  /\ \A k \in 0 .. Len(s) : SubSeq(s \o t, 1, k) = SubSeq(s, 1, k)
         /\ \A k \in 0 .. Len(t) : SubSeq(s \o t, 1, Len(s) + k) = s \o SubSeq(t, 1, k)
<1> DEFINE st == s \o t
<1>1. /\ st \in Seq(Cells) /\ Len(st) = Len(s) + Len(t) /\ Len(s) \in Nat /\ Len(t) \in Nat
      /\ \A i \in 1 .. Len(s) : st[i] = s[i]
      /\ \A i \in 1 .. Len(t) : st[Len(s) + i] = t[i]
  OBVIOUS
<1> HIDE DEF st
<1>2. ASSUME NEW k \in 0 .. Len(s) PROVE SubSeq(st, 1, k) = SubSeq(s, 1, k)
  <2>1. /\ SubSeq(st, 1, k) \in Seq(Cells) /\ Len(SubSeq(st, 1, k)) = k
        /\ \A i \in 1 .. k : SubSeq(st, 1, k)[i] = st[i]
    BY <1>1
  <2>2. /\ SubSeq(s, 1, k) \in Seq(Cells) /\ Len(SubSeq(s, 1, k)) = k
        /\ \A i \in 1 .. k : SubSeq(s, 1, k)[i] = s[i]
    BY <1>1
  <2>3. \A i \in 1 .. k : st[i] = s[i]
    BY <1>1
  <2> QED
    BY <2>1, <2>2, <2>3, SeqEqual
<1>3. ASSUME NEW k \in 0 .. Len(t) PROVE SubSeq(st, 1, Len(s) + k) = s \o SubSeq(t, 1, k)
  <2> DEFINE front == SubSeq(st, 1, Len(s) + k)
             back == SubSeq(t, 1, k)
             both == s \o back
  <2>1. /\ front \in Seq(Cells) /\ Len(front) = Len(s) + k
        /\ \A i \in 1 .. Len(s) + k : front[i] = st[i]
    BY <1>1
  <2>2. /\ back \in Seq(Cells) /\ Len(back) = k
        /\ \A i \in 1 .. k : back[i] = t[i]
    BY <1>1
  <2> HIDE DEF front, back
  <2>3. /\ both \in Seq(Cells) /\ Len(both) = Len(s) + k
        /\ \A i \in 1 .. Len(s) : both[i] = s[i]
        /\ \A i \in 1 .. k : both[Len(s) + i] = back[i]
    BY <2>2, Together
  <2> HIDE DEF both
  <2>4. \A i \in 1 .. Len(s) + k : front[i] = both[i]
    <3> SUFFICES ASSUME NEW i \in 1 .. Len(s) + k PROVE front[i] = both[i]
      OBVIOUS
    <3>1. CASE i <= Len(s)
      BY <3>1, <1>1, <2>1, <2>3
    <3>2. CASE i > Len(s)
      <4>1. i - Len(s) \in 1 .. k /\ i - Len(s) \in 1 .. Len(t) /\ Len(s) + (i - Len(s)) = i
        BY <3>2, <1>1
      <4>2. front[i] = t[i - Len(s)]
        BY <4>1, <1>1, <2>1
      <4>3. both[i] = t[i - Len(s)]
        BY <4>1, <2>2, <2>3
      <4> QED
        BY <4>2, <4>3
    <3> QED
      BY <3>1, <3>2, <1>1
  <2> QED
    BY <2>1, <2>3, <2>4, SeqEqual DEF front, both, back
<1> QED
  BY <1>2, <1>3 DEF st

(* Its line has the number and comes behind so many.                        *)
LineBehind(text, gap, number) ==
  \A i \in DOMAIN text : text[i].kind = "line" =>
    text[i].number = number /\ LinesIn(SubSeq(text, 1, i - 1)) = gap

(* A marker accounts for the count, and the line behind it for itself.      *)
LEMMA MarkerAndLine ==
  ASSUME NEW gap \in Nat, NEW number \in Nat, NEW size \in LineSizes,
         NEW text, text = Marker(gap) \o Text("line", number, size)
  PROVE  /\ text \in Seq(Cells) /\ LinesIn(text) = gap + 1
         /\ LineBehind(text, gap, number)
<1> DEFINE mark == Marker(gap)
           line == Text("line", number, size)
<1>1. size \in Nat \ {0}
  BY LogAssumption
<1>2. /\ mark \in Seq(Cells) /\ LinesIn(mark) = gap
      /\ \A i \in 1 .. Len(mark) : mark[i].kind = "marker"
  <2>1. CASE gap > 0
    <3>1. mark = Text("marker", gap, MarkerSize)
      BY <2>1 DEF Marker
    <3>2. MarkerSize \in Nat \ {0}
      BY DEF MarkerSize
    <3>3. /\ Text("marker", gap, MarkerSize) \in Seq(Cells)
          /\ Len(Text("marker", gap, MarkerSize)) = MarkerSize
          /\ \A i \in 1 .. MarkerSize : Text("marker", gap, MarkerSize)[i].kind = "marker"
      BY <3>2, TextType
    <3>4. LinesIn(Text("marker", gap, MarkerSize)) = gap
      BY <3>2, LinesOfText
    <3> QED
      BY <3>1, <3>3, <3>4
  <2>2. CASE gap = 0
    <3>1. mark = <<>>
      BY <2>2 DEF Marker
    <3>2. Ends(<<>>) = {}
      BY DEF Ends
    <3>3. LinesIn(<<>>) = 0
      BY <3>2, LinesOfNone
    <3> QED
      BY <3>1, <3>3, <2>2
  <2> QED
    BY <2>1, <2>2
<1>3. /\ line \in Seq(Cells) /\ Len(line) = size /\ LinesIn(line) = 1
      /\ \A i \in 1 .. size : line[i].number = number
  <2>1. LinesIn(line) = 1
    BY <1>1, LinesOfText
  <2>2. size \in Nat /\ "line" \in {"marker", "line"}
    BY <1>1
  <2>3. /\ line \in Seq(Cells) /\ Len(line) = size
        /\ \A i \in 1 .. size : line[i].number = number
    BY <2>2, TextType
  <2> QED
    BY <2>1, <2>3
<1>4. \A k \in 0 .. size - 1 : LinesIn(SubSeq(line, 1, k)) = 0
  BY <1>1, LinesOfPart
<1>5. text = mark \o line
  OBVIOUS
<1> HIDE DEF mark, line
<1>6. text \in Seq(Cells) /\ LinesIn(text) = gap + 1
  <2>1. text \in Seq(Cells)
    BY <1>2, <1>3, <1>5, Together
  <2>2. LinesIn(mark \o line) = LinesIn(mark) + LinesIn(line)
    BY <1>2, <1>3, LinesOfBoth, Zenon
  <2> QED
    BY <1>2, <1>3, <1>5, <2>1, <2>2
<1>7. ASSUME NEW i \in DOMAIN text, text[i].kind = "line"
      PROVE  text[i].number = number /\ LinesIn(SubSeq(text, 1, i - 1)) = gap
  <2>1. /\ Len(mark) \in Nat /\ i \in 1 .. Len(mark) + size
        /\ \A j \in 1 .. Len(mark) : text[j] = mark[j]
        /\ \A j \in 1 .. size : text[Len(mark) + j] = line[j]
    <3>1. /\ DOMAIN (mark \o line) = 1 .. Len(mark) + Len(line) /\ Len(mark) \in Nat
          /\ \A j \in 1 .. Len(mark) : (mark \o line)[j] = mark[j]
          /\ \A j \in 1 .. Len(line) : (mark \o line)[Len(mark) + j] = line[j]
      BY <1>2, <1>3, Together, Zenon
    <3> QED
      BY <3>1, <1>3, <1>5
  <2>2. ~ (i <= Len(mark))
    <3> SUFFICES ASSUME i <= Len(mark) PROVE FALSE
      OBVIOUS
    <3>1. i \in 1 .. Len(mark)
      BY <2>1
    <3>2. text[i].kind = "marker"
      BY <3>1, <2>1, <1>2
    <3> QED
      BY <3>2, <1>7
  <2>3. PICK k \in 0 .. size - 1 : i - 1 = Len(mark) + k
    <3>1. i - 1 - Len(mark) \in 0 .. size - 1 /\ i - 1 = Len(mark) + (i - 1 - Len(mark))
      BY <2>1, <2>2, <1>1
    <3> QED
      BY <3>1
  <2>4. text[i].number = number
    <3>1. k + 1 \in 1 .. size /\ i = Len(mark) + (k + 1)
      <4>1. Len(mark) \in Int /\ i \in Int /\ size \in Int
        BY <2>1, <1>1
      <4> QED
        BY <4>1, <2>3
    <3>2. text[i] = line[k + 1]
      BY <3>1, <2>1
    <3> QED
      BY <3>1, <3>2, <1>3
  <2>5. k \in 0 .. Len(line) /\ SubSeq(line, 1, k) \in Seq(Cells)
    BY <1>1, <1>3
  <2>6. SubSeq(text, 1, Len(mark) + k) = mark \o SubSeq(line, 1, k)
    <3>1. SubSeq(mark \o line, 1, Len(mark) + k) = mark \o SubSeq(line, 1, k)
      BY <2>5, <1>2, <1>3, BeginningOfBoth, Zenon
    <3> QED
      BY <3>1, <1>5
  <2>7. LinesIn(mark \o SubSeq(line, 1, k)) = LinesIn(mark) + LinesIn(SubSeq(line, 1, k))
    BY <2>5, <1>2, LinesOfBoth, Zenon
  <2>8. LinesIn(mark) + LinesIn(SubSeq(line, 1, k)) = gap
    BY <1>2, <1>4
  <2> QED
    BY <2>3, <2>4, <2>6, <2>7, <2>8
<1> QED
  BY <1>6, <1>7 DEF LineBehind

(* Text whose lines come behind those of the feed, put behind the feed.     *)
LEMMA PlacedBehind ==
  ASSUME NEW feed \in Seq(Cells), NEW text \in Seq(Cells),
         \A i \in DOMAIN feed :
           feed[i].kind = "line" => LinesIn(SubSeq(feed, 1, i - 1)) = feed[i].number - 1,
         \A i \in DOMAIN text :
           text[i].kind = "line" =>
             LinesIn(feed) + LinesIn(SubSeq(text, 1, i - 1)) = text[i].number - 1
  PROVE  \A i \in DOMAIN (feed \o text) :
           (feed \o text)[i].kind = "line" =>
             LinesIn(SubSeq(feed \o text, 1, i - 1)) = (feed \o text)[i].number - 1
<1> DEFINE both == feed \o text
<1>1. /\ both \in Seq(Cells) /\ Len(both) = Len(feed) + Len(text)
      /\ Len(feed) \in Nat /\ Len(text) \in Nat /\ DOMAIN both = 1 .. Len(feed) + Len(text)
      /\ DOMAIN feed = 1 .. Len(feed) /\ DOMAIN text = 1 .. Len(text)
      /\ \A i \in 1 .. Len(feed) : both[i] = feed[i]
      /\ \A i \in 1 .. Len(text) : both[Len(feed) + i] = text[i]
  OBVIOUS
<1>b. /\ \A k \in 0 .. Len(feed) : SubSeq(both, 1, k) = SubSeq(feed, 1, k)
      /\ \A k \in 0 .. Len(text) : SubSeq(both, 1, Len(feed) + k) = feed \o SubSeq(text, 1, k)
  BY BeginningOfBoth
<1> HIDE DEF both
<1> SUFFICES ASSUME NEW i \in DOMAIN both, both[i].kind = "line"
             PROVE  LinesIn(SubSeq(both, 1, i - 1)) = both[i].number - 1
  BY DEF both
<1>2. CASE i <= Len(feed)
  <2>1. i \in DOMAIN feed /\ both[i] = feed[i] /\ i - 1 \in 0 .. Len(feed)
    BY <1>1, <1>2
  <2>2. SubSeq(both, 1, i - 1) = SubSeq(feed, 1, i - 1)
    BY <2>1, <1>b
  <2> QED
    BY <2>1, <2>2
<1>3. CASE i > Len(feed)
  <2>1. PICK j \in DOMAIN text : i = Len(feed) + j
    <3>1. i - Len(feed) \in DOMAIN text /\ i = Len(feed) + (i - Len(feed))
      BY <1>1, <1>3
    <3> QED
      BY <3>1
  <2>2. j \in 1 .. Len(text) /\ j - 1 \in 0 .. Len(text) /\ i - 1 = Len(feed) + (j - 1)
    BY <2>1, <1>1
  <2>3. both[i] = text[j]
    BY <2>1, <2>2, <1>1
  <2>4. SubSeq(both, 1, i - 1) = feed \o SubSeq(text, 1, j - 1)
    BY <2>2, <1>b
  <2>5. SubSeq(text, 1, j - 1) \in Seq(Cells)
    BY <2>2, <1>1
  <2>6. LinesIn(feed \o SubSeq(text, 1, j - 1)) = LinesIn(feed) + LinesIn(SubSeq(text, 1, j - 1))
    BY <2>5, LinesOfBoth
  <2> QED
    BY <2>1, <2>3, <2>4, <2>6
<1> QED
  BY <1>1, <1>2, <1>3

LEMMA WriteStep == ASSUME LogInv, NEW l \in LogTasks, Write(l) PROVE LogInv'
<1>1. /\ hook \in [LogTasks -> Hooks] /\ hook[l].at = "looked" /\ lock = l
      /\ hook[l].gap \in Nat /\ hook[l].number \in Nat
  BY DEF LogInv, LogTyped, RingHeld, Write, Hooks
<1>2. /\ hook' \in [LogTasks -> Hooks] /\ hook'[l].at = "away"
      /\ \A m \in LogTasks : m # l => hook'[m] = hook[m]
  BY <1>1 DEF Write, Hooks, Away
<1>3. \A m \in LogTasks : m # l => hook[m].at \notin {"locked", "looked"}
  BY <1>1 DEF LogInv, RingHeld
<1>4. InHand = {l} /\ InHand' = {}
  BY <1>1, <1>2, <1>3 DEF InHand
<1>5. /\ dropped \in Nat /\ numbered \in Nat /\ numbered' = numbered
      /\ lost' = lost /\ unsure' = unsure /\ lock' = Unlocked
      /\ UNCHANGED <<sender, frame, clients, sent, old>>
  BY DEF LogInv, LogTyped, Write, senderVars, viewerVars, lossVars
<1>6. /\ hook[l].gap <= dropped
      /\ ~ lost => hook[l].number = LinesIn(Feed) + hook[l].gap + 1
      /\ ~ unsure => LinesIn(Feed) + dropped + 1 = numbered
  BY <1>4 DEF LogInv, InHandHeld, Balance
<1>7. Feed \in Seq(Cells) /\ LinesIn(Feed) \in Nat
  BY FeedTyped DEF LogInv
<1>8. RingHeld'
  <2>1. \A m \in LogTasks : hook'[m].at \notin {"locked", "looked"} /\ m # Unlocked
    BY <1>2, <1>3, LogAssumption
  <2>2. l # Sender /\ Unlocked # Sender
    BY LogAssumption DEF Unlocked, Sender
  <2>3. sender # "locked" /\ (frame # <<>> => sender \in {"read", "queued"})
        /\ (old => frame # <<>>) /\ (unsure => lost)
    BY <1>1, <2>2 DEF LogInv, RingHeld
  <2> QED
    BY <1>5, <2>1, <2>2, <2>3 DEF RingHeld
<1>9. InHandHeld'
  BY <1>4 DEF InHandHeld
<1>10. PICK size \in LineSizes :
         LET text == Marker(hook[l].gap) \o Text("line", hook[l].number, size)
         IN  \/ /\ Len(ring \o text) <= RingSize
                /\ ring' = ring \o text
                /\ dropped' = IF hook[l].gap > 0 THEN Uncounted(hook[l].gap) ELSE dropped
             \/ /\ Len(ring \o text) > RingSize
                /\ ring' = ring /\ dropped' = dropped + 1
  BY DEF Write
<1> DEFINE text == Marker(hook[l].gap) \o Text("line", hook[l].number, size)
<1>e. text = Marker(hook[l].gap) \o Text("line", hook[l].number, size)
  OBVIOUS
<1>11. \/ /\ Len(ring \o text) <= RingSize
          /\ ring' = ring \o text
          /\ dropped' = IF hook[l].gap > 0 THEN Uncounted(hook[l].gap) ELSE dropped
       \/ ring' = ring /\ dropped' = dropped + 1
  BY <1>10
<1> HIDE DEF text
<1>12. /\ text \in Seq(Cells) /\ LinesIn(text) = hook[l].gap + 1
       /\ \A i \in DOMAIN text : text[i].kind = "line" =>
            text[i].number = hook[l].number /\ LinesIn(SubSeq(text, 1, i - 1)) = hook[l].gap
  <2>1. text \in Seq(Cells)
    BY <1>1, <1>e, MarkerAndLine, Zenon
  <2>2. LinesIn(text) = hook[l].gap + 1
    <3>1. PICK gap \in Nat : gap = hook[l].gap
      BY <1>1
    <3>2. PICK number \in Nat : number = hook[l].number
      BY <1>1
    <3>3. text = Marker(gap) \o Text("line", number, size)
      BY <1>e, <3>1, <3>2
    <3>4. LinesIn(text) = gap + 1
      BY <3>3, MarkerAndLine, Zenon
    <3> QED
      BY <3>1, <3>4
  <2>3. LineBehind(text, hook[l].gap, hook[l].number)
    BY <1>1, <1>e, MarkerAndLine, Zenon
  <2> QED
    BY <2>1, <2>2, <2>3 DEF LineBehind
<1>13. CASE ring' = ring /\ dropped' = dropped + 1
  <2>1. Feed' = Feed
    BY <1>5, <1>13 DEF Feed
  <2>2. LogTyped'
    BY <1>2, <1>5, <1>13 DEF LogInv, LogTyped
  <2>3. Balance'
    BY <1>4, <1>5, <1>6, <1>7, <1>13, <2>1 DEF Balance
  <2>4. LinesPlaced'
    BY <1>5, <2>1 DEF LogInv, LinesPlaced
  <2> QED
    BY <1>8, <1>9, <2>2, <2>3, <2>4 DEF LogInv
<1>14. CASE /\ Len(ring \o text) <= RingSize
            /\ ring' = ring \o text
            /\ dropped' = IF hook[l].gap > 0 THEN Uncounted(hook[l].gap) ELSE dropped
  <2>1. dropped' = dropped - hook[l].gap /\ dropped' \in Nat
    BY <1>1, <1>5, <1>6, <1>14 DEF Uncounted
  <2>2. ring' \in Seq(Cells) /\ Len(ring') <= RingSize
    BY <1>12, <1>14, Together DEF LogInv, LogTyped
  <2>3. LogTyped'
    BY <1>2, <1>5, <2>1, <2>2 DEF LogInv, LogTyped
  <2>4. Feed' = Feed \o text
    <3> DEFINE before == sent \o (IF old THEN <<>> ELSE frame)
    <3>1. before \in Seq(Cells) /\ ring \in Seq(Cells)
      BY DEF LogInv, LogTyped
    <3>2. Feed = before \o ring /\ Feed' = before \o (ring \o text)
      BY <1>5, <1>14 DEF Feed
    <3> HIDE DEF before
    <3>3. (before \o ring) \o text = before \o (ring \o text)
      BY <3>1, <1>12, ConcatAssociative
    <3> QED
      BY <3>2, <3>3
  <2>5. LinesIn(Feed \o text) = LinesIn(Feed) + LinesIn(text)
    BY <1>7, <1>12, LinesOfBoth, Zenon
  <2>6. Balance'
    BY <1>1, <1>4, <1>5, <1>6, <1>7, <1>12, <2>1, <2>4, <2>5 DEF Balance
  <2>7. LinesPlaced'
    <3> SUFFICES ASSUME ~ lost
                 PROVE  \A i \in DOMAIN (Feed \o text) :
                          (Feed \o text)[i].kind = "line" =>
                            LinesIn(SubSeq(Feed \o text, 1, i - 1)) = (Feed \o text)[i].number - 1
      BY <1>5, <2>4 DEF LinesPlaced
    <3>1. \A i \in DOMAIN Feed :
            Feed[i].kind = "line" => LinesIn(SubSeq(Feed, 1, i - 1)) = Feed[i].number - 1
      BY DEF LogInv, LinesPlaced
    <3>2. \A i \in DOMAIN text :
            text[i].kind = "line" =>
              LinesIn(Feed) + LinesIn(SubSeq(text, 1, i - 1)) = text[i].number - 1
      BY <1>1, <1>6, <1>7, <1>12
    <3> QED
      BY <3>1, <3>2, <1>7, <1>12, PlacedBehind
  <2> QED
    BY <1>8, <1>9, <2>3, <2>6, <2>7 DEF LogInv
<1> QED
  BY <1>11, <1>13, <1>14

LEMMA LockRingStep == ASSUME LogInv, LockRing PROVE LogInv'
<1> USE DEF LockRing, viewerVars, lossVars
<1>1. LogTyped'
  BY DEF LogInv, LogTyped
<1>2. RingHeld'
  BY LogAssumption DEF LogInv, RingHeld, Unlocked, Sender
<1>3. Feed' = Feed
  BY DEF Feed
<1>4. InHandHeld' /\ Balance' /\ LinesPlaced'
  <2>1. dropped' >= dropped /\ dropped' - dropped = numbered' - numbered
    BY DEF LogInv, LogTyped
  <2> QED
    BY <1>1, <1>3, <2>1, TextSame
<1> QED
  BY <1>1, <1>2, <1>4 DEF LogInv

(* What is read out of the ring is in the batch instead.                    *)
LEMMA ReadRingStep == ASSUME LogInv, ReadRing PROVE LogInv'
<1> DEFINE n == IF Len(ring) < FrameMax THEN Len(ring) ELSE FrameMax
           batch == SubSeq(ring, 1, n)
           rest == SubSeq(ring, n + 1, Len(ring))
<1>1. /\ sender = "locked" /\ lock' = Unlocked /\ frame' = batch /\ ring' = rest
      /\ sender' = (IF n = 0 THEN "idle" ELSE "read") /\ old' = FALSE
      /\ UNCHANGED <<dropped, hook, clients, lost, unsure, numbered, sent>>
  BY DEF ReadRing, viewerVars, lossVars
<1>2. frame = <<>> /\ old = FALSE /\ lock = Sender
  BY <1>1 DEF LogInv, RingHeld, LogTyped
<1>3. /\ ring \in Seq(Cells) /\ Len(ring) \in Nat /\ Len(ring) <= RingSize
      /\ n \in 0 .. Len(ring) /\ n <= FrameMax
  BY LogAssumption DEF LogInv, LogTyped
<1> HIDE DEF n
<1>4. batch \in Seq(Cells) /\ Len(batch) = n /\ rest \in Seq(Cells) /\ Len(rest) <= Len(ring)
  BY <1>3
<1>5. batch \o rest = ring
  <2>1. SubSeq(ring, 1, n) \o SubSeq(ring, n + 1, Len(ring)) = SubSeq(ring, 1, Len(ring))
    <3>1. /\ 1 \in 1 .. Len(ring) + 1 /\ n \in 1 - 1 .. Len(ring)
          /\ Len(ring) \in n .. Len(ring)
      BY <1>3
    <3> QED
      BY <1>3, <3>1, ConcatAdjacentSubSeq, Zenon
  <2> QED
    BY <1>3, <2>1, SubSeqFull
<1> HIDE DEF batch, rest
<1>6. LogTyped'
  <2>1. /\ frame' \in Seq(Cells) /\ Len(frame') <= FrameMax
        /\ ring' \in Seq(Cells) /\ Len(ring') <= RingSize
    <3>1. /\ RingSize \in Nat /\ FrameMax \in Nat /\ n \in Nat /\ Len(rest) \in Nat
      BY <1>3, <1>4, LogAssumption
    <3> QED
      BY <3>1, <1>1, <1>3, <1>4
  <2>2. sender' \in {"idle", "locked", "read", "queued"} /\ old' \in BOOLEAN
    BY <1>1
  <2>3. lock' \in LogTasks \cup {Unlocked, Sender}
    BY <1>1
  <2> QED
    BY <1>1, <2>1, <2>2, <2>3 DEF LogInv, LogTyped
<1>7. RingHeld'
  <2>1. frame' # <<>> => n # 0
    BY <1>1, <1>4
  <2> QED
    BY <1>1, <1>2, <2>1, LogAssumption DEF LogInv, RingHeld, Unlocked, Sender
<1>8. Feed' = Feed
  <2>1. sent \in Seq(Cells) /\ sent \o <<>> = sent
    BY DEF LogInv, LogTyped
  <2>2. Feed = sent \o ring
    BY <1>2, <2>1 DEF Feed
  <2>3. Feed' = (sent \o batch) \o rest
    BY <1>1 DEF Feed
  <2>4. (sent \o batch) \o rest = sent \o (batch \o rest)
    BY <1>4, <2>1, ConcatAssociative
  <2> QED
    BY <1>5, <2>2, <2>3, <2>4
<1>9. InHandHeld' /\ Balance' /\ LinesPlaced'
  <2>1. dropped' >= dropped /\ dropped' - dropped = numbered' - numbered
    BY <1>1 DEF LogInv, LogTyped
  <2> QED
    BY <1>1, <1>6, <1>8, <2>1, TextSame
<1> QED
  BY <1>6, <1>7, <1>9 DEF LogInv

LEMMA QueueWorkStep == ASSUME LogInv, QueueWork PROVE LogInv'
<1> USE DEF QueueWork, ringVars, viewerVars, lossVars
<1>1. LogTyped'
  BY DEF LogInv, LogTyped
<1>2. RingHeld'
  BY DEF LogInv, RingHeld
<1>3. Feed' = Feed
  BY DEF Feed
<1>4. InHandHeld' /\ Balance' /\ LinesPlaced'
  <2>1. dropped' >= dropped /\ dropped' - dropped = numbered' - numbered
    BY DEF LogInv, LogTyped
  <2> QED
    BY <1>1, <1>3, <2>1, TextSame
<1> QED
  BY <1>1, <1>2, <1>4 DEF LogInv

(* What a batch without a marker accounts for is counted when it is lost.   *)
LEMMA LoseBatchStep == ASSUME LogInv, LoseBatch PROVE LogInv'
<1>1. /\ sender = "read" /\ sender' = "idle"
      /\ dropped' = dropped + Cardinality(Ends(frame))
      /\ frame' = <<>> /\ old' = FALSE /\ lost' = TRUE
      /\ unsure' = (unsure \/ old \/ \E i \in DOMAIN frame : frame[i].kind = "marker")
      /\ UNCHANGED <<ring, lock, hook, clients, numbered, sent>>
  BY DEF LoseBatch, viewerVars
<1>2. /\ ring \in Seq(Cells) /\ frame \in Seq(Cells) /\ sent \in Seq(Cells)
      /\ dropped \in Nat /\ numbered \in Nat /\ \A l \in LogTasks : hook[l].gap \in Nat
  BY DEF LogInv, LogTyped, Hooks
<1>3. Cardinality(Ends(frame)) \in Nat
  BY <1>2, EndsFinite, FS_CardinalityType
<1>4. LogTyped'
  <2>1. unsure' \in BOOLEAN
    BY <1>1 DEF LogInv, LogTyped
  <2>2. frame' \in Seq(Cells) /\ Len(frame') <= FrameMax
    BY <1>1, LogAssumption
  <2>3. dropped' \in Nat
    BY <1>1, <1>2, <1>3
  <2>4. sender' \in {"idle", "locked", "read", "queued"} /\ old' \in BOOLEAN /\ lost' \in BOOLEAN
    BY <1>1
  <2> QED
    BY <1>1, <2>1, <2>2, <2>3, <2>4 DEF LogInv, LogTyped
<1>5. RingHeld'
  BY <1>1 DEF LogInv, RingHeld
<1>6. InHand' = InHand
  BY <1>1 DEF InHand
<1>7. InHandHeld'
  <2> SUFFICES ASSUME NEW l \in InHand PROVE hook[l].gap <= dropped'
    BY <1>1, <1>6 DEF InHandHeld
  <2>1. hook[l].gap <= dropped /\ hook[l].gap \in Nat
    BY <1>2 DEF LogInv, InHandHeld, InHand
  <2> QED
    BY <2>1, <1>1, <1>2, <1>3
<1>8. Balance'
  <2> SUFFICES ASSUME ~ unsure' 
               PROVE  LinesIn(Feed') + dropped' + (IF InHand = {} THEN 0 ELSE 1) = numbered
    BY <1>1, <1>6 DEF Balance
  <2>1. ~ unsure /\ ~ old /\ \A i \in DOMAIN frame : frame[i].kind # "marker"
    BY <1>1
  <2>2. LinesIn(frame) = Cardinality(Ends(frame))
    BY <2>1, <1>2, LinesAreEnds
  <2>3. Feed = (sent \o frame) \o ring
    BY <2>1 DEF Feed
  <2>4. Feed' = sent \o ring
    <3>1. sent \o <<>> = sent
      BY <1>2
    <3> QED
      BY <1>1, <3>1 DEF Feed
  <2>5. LinesIn(sent \o frame) = LinesIn(sent) + LinesIn(frame) /\ sent \o frame \in Seq(Cells)
    BY <1>2, LinesOfBoth
  <2>6. LinesIn((sent \o frame) \o ring) = LinesIn(sent \o frame) + LinesIn(ring)
    BY <1>2, <2>5, LinesOfBoth, Zenon
  <2>7. LinesIn(sent \o ring) = LinesIn(sent) + LinesIn(ring)
    BY <1>2, LinesOfBoth, Zenon
  <2>8. LinesIn(sent) \in Nat /\ LinesIn(frame) \in Nat /\ LinesIn(ring) \in Nat
    BY <1>2, LinesNat
  <2>9. LinesIn(Feed) + dropped + (IF InHand = {} THEN 0 ELSE 1) = numbered
    BY <2>1 DEF LogInv, Balance
  <2>10. LinesIn(Feed) = LinesIn(Feed') + LinesIn(frame) /\ LinesIn(Feed') \in Nat
    BY <2>3, <2>4, <2>5, <2>6, <2>7, <2>8
  <2> QED
    BY <2>2, <2>8, <2>9, <2>10, <1>1, <1>2
<1>9. LinesPlaced'
  BY <1>1 DEF LinesPlaced
<1> QED
  BY <1>4, <1>5, <1>7, <1>8, <1>9 DEF LogInv

LEMMA SendFrameStep == ASSUME LogInv, SendFrame PROVE LogInv'
<1>1. PICK failing \in SUBSET clients : clients' = clients \ (closed \cup failing)
  BY DEF SendFrame
<1>2. /\ sender = "queued" /\ sender' = "idle"
      /\ sent' = (IF old THEN sent ELSE sent \o frame) /\ frame' = <<>> /\ old' = FALSE
      /\ UNCHANGED <<ring, dropped, lock, hook, lost, unsure, numbered>>
  BY DEF SendFrame, ringVars, lossVars
<1>3. ring \in Seq(Cells) /\ frame \in Seq(Cells) /\ sent \in Seq(Cells)
  BY DEF LogInv, LogTyped
<1>4. LogTyped'
  <2>1. /\ clients' \subseteq Browsers /\ IsFiniteSet(clients')
        /\ Cardinality(clients') <= MaxClients
    <3>1. /\ clients \subseteq Browsers /\ IsFiniteSet(clients)
          /\ Cardinality(clients) <= MaxClients /\ MaxClients \in Nat
      BY LogAssumption DEF LogInv, LogTyped
    <3>2. clients' \in SUBSET clients
      BY <1>1
    <3>3. IsFiniteSet(clients') /\ Cardinality(clients') <= Cardinality(clients)
      BY <3>1, <3>2, FS_Subset
    <3>4. Cardinality(clients) \in Nat /\ Cardinality(clients') \in Nat
      BY <3>1, <3>3, FS_CardinalityType
    <3> QED
      BY <3>1, <3>2, <3>3, <3>4
  <2>2. /\ sent' \in Seq(Cells) /\ frame' \in Seq(Cells) /\ Len(frame') <= FrameMax
    BY <1>2, <1>3, LogAssumption
  <2> QED
    BY <1>2, <2>1, <2>2 DEF LogInv, LogTyped
<1>5. RingHeld'
  BY <1>2 DEF LogInv, RingHeld
<1>6. Feed' = Feed
  <2>1. sent \o <<>> = sent /\ (sent \o frame) \o <<>> = sent \o frame
    BY <1>3
  <2> QED
    BY <1>2, <2>1 DEF Feed
<1>7. InHandHeld' /\ Balance' /\ LinesPlaced'
  <2>1. dropped' >= dropped /\ dropped' - dropped = numbered' - numbered
    BY <1>2 DEF LogInv, LogTyped
  <2> QED
    BY <1>2, <1>4, <1>6, <2>1, TextSame
<1> QED
  BY <1>4, <1>5, <1>7 DEF LogInv

LEMMA CloseViewerStep == ASSUME LogInv, NEW b, CloseViewer(b) PROVE LogInv'
<1> USE DEF CloseViewer, ringVars, senderVars, lossVars
<1>1. LogTyped'
  BY DEF LogInv, LogTyped
<1>2. RingHeld'
  BY DEF LogInv, RingHeld
<1>3. Feed' = Feed
  BY DEF Feed
<1>4. InHandHeld' /\ Balance' /\ LinesPlaced'
  <2>1. dropped' >= dropped /\ dropped' - dropped = numbered' - numbered
    BY DEF LogInv, LogTyped
  <2> QED
    BY <1>1, <1>3, <2>1, TextSame
<1> QED
  BY <1>1, <1>2, <1>4 DEF LogInv

(* The cap leaves room for the new viewer; with a reset nothing is left of  *)
(* the text, and a batch that is still on its way is of before it.          *)
LEMMA AddClientStep == ASSUME LogInv, NEW b \in Browsers, AddClient(b) PROVE LogInv'
<1> DEFINE open == clients \ closed
<1>1. PICK kept \in MadeRoom(open) :
        /\ clients' = kept \cup {b}
        /\ \/ kept = {} /\ lock = Unlocked /\ ResetRing
           \/ UNCHANGED <<ringVars, lossVars, numbered, sent, old>>
  BY DEF AddClient
<1>2. hook' = hook /\ sender' = sender /\ frame' = frame
  BY DEF AddClient, senderVars
<1>3. /\ clients' \subseteq Browsers /\ IsFiniteSet(clients')
      /\ Cardinality(clients') <= MaxClients
  <2>1. /\ clients \subseteq Browsers /\ IsFiniteSet(clients)
        /\ Cardinality(clients) <= MaxClients /\ MaxClients \in Nat \ {0}
    BY LogAssumption DEF LogInv, LogTyped
  <2>2. open \in SUBSET clients
    OBVIOUS
  <2>3. IsFiniteSet(open) /\ Cardinality(open) <= Cardinality(clients)
    BY <2>1, <2>2, FS_Subset
  <2>4. Cardinality(clients) \in Nat /\ Cardinality(open) \in Nat
    BY <2>1, <2>3, FS_CardinalityType
  <2> HIDE DEF open
  <2>5. /\ kept \subseteq open /\ IsFiniteSet(kept) /\ Cardinality(kept) \in Nat
        /\ Cardinality(kept) < MaxClients
    <3>1. CASE Cardinality(open) < MaxClients
      BY <3>1, <1>1, <2>3, <2>4 DEF MadeRoom
    <3>2. CASE ~ (Cardinality(open) < MaxClients)
      <4>1. PICK c \in open : kept = open \ {c}
        BY <3>2, <1>1 DEF MadeRoom
      <4>2. IsFiniteSet(kept) /\ Cardinality(kept) = Cardinality(open) - 1
        BY <4>1, <2>3, FS_RemoveElement
      <4>3. Cardinality(kept) \in Nat
        BY <4>2, FS_CardinalityType
      <4> QED
        BY <4>1, <4>2, <4>3, <2>1, <2>3, <2>4
    <3> QED
      BY <3>1, <3>2
  <2>6. IsFiniteSet(kept \cup {b}) /\ Cardinality(kept \cup {b}) <= MaxClients
    <3>1. /\ IsFiniteSet(kept \cup {b})
          /\ Cardinality(kept \cup {b}) = IF b \in kept THEN Cardinality(kept)
                                          ELSE Cardinality(kept) + 1
      BY <2>5, FS_AddElement
    <3> QED
      BY <3>1, <2>1, <2>5
  <2> QED
    BY <1>1, <2>1, <2>2, <2>5, <2>6
<1>4. CASE UNCHANGED <<ringVars, lossVars, numbered, sent, old>>
  <2>1. UNCHANGED <<ring, dropped, lock, lost, unsure, numbered, sent, old>>
    BY <1>4 DEF ringVars, lossVars
  <2>2. LogTyped'
    BY <1>2, <1>3, <2>1 DEF LogInv, LogTyped
  <2>3. RingHeld'
    BY <1>2, <2>1 DEF LogInv, RingHeld
  <2>4. Feed' = Feed
    BY <1>2, <2>1 DEF Feed
  <2>5. InHandHeld' /\ Balance' /\ LinesPlaced'
    <3>1. dropped' >= dropped /\ dropped' - dropped = numbered' - numbered
      BY <2>1 DEF LogInv, LogTyped
    <3> QED
      BY <1>2, <2>1, <2>2, <2>4, <3>1, TextSame
  <2> QED
    BY <2>2, <2>3, <2>5 DEF LogInv
<1>5. CASE lock = Unlocked /\ ResetRing
  <2>1. /\ ring' = <<>> /\ dropped' = 0 /\ numbered' = 0 /\ sent' = <<>>
        /\ old' = (frame # <<>>) /\ lost' = FALSE /\ unsure' = FALSE /\ lock' = lock
    BY <1>5 DEF ResetRing
  <2>2. LogTyped'
    <3>1. /\ ring' \in Seq(Cells) /\ sent' \in Seq(Cells) /\ Len(ring') <= RingSize
          /\ dropped' \in Nat /\ numbered' \in Nat /\ old' \in BOOLEAN
      BY <2>1, LogAssumption
    <3> QED
      BY <1>2, <1>3, <2>1, <3>1 DEF LogInv, LogTyped
  <2>3. RingHeld'
    BY <1>2, <2>1 DEF LogInv, RingHeld
  <2>4. InHand' = {}
    <3>1. \A l \in LogTasks : hook[l].at # "looked"
      BY <1>5, LogAssumption DEF LogInv, RingHeld
    <3> QED
      BY <3>1, <1>2 DEF InHand
  <2>5. Feed' = <<>>
    <3>1. (IF old' THEN <<>> ELSE frame') = <<>>
      BY <1>2, <2>1
    <3>2. <<>> \o <<>> = <<>>
      OBVIOUS
    <3> QED
      BY <2>1, <3>1, <3>2 DEF Feed
  <2>6. LinesIn(Feed') = 0
    <3>1. Ends(<<>>) = {}
      BY DEF Ends
    <3> QED
      BY <3>1, <2>5, LinesOfNone
  <2> QED
    BY <2>1, <2>2, <2>3, <2>4, <2>5, <2>6 DEF LogInv, InHandHeld, Balance, LinesPlaced
<1> QED
  BY <1>1, <1>4, <1>5

LEMMA LogStep == LogInv /\ [LogNext]_webLogVars => LogInv'
<1> SUFFICES ASSUME LogInv, [LogNext]_webLogVars PROVE LogInv'
  OBVIOUS
<1>1. ASSUME NEW l \in LogTasks, AppendLine(l) PROVE LogInv'
  BY <1>1, FormatStep, ContendedStep, TakeStep, LookStep, WriteStep DEF AppendLine
<1>2. CASE SenderTask
  BY <1>2, LockRingStep, ReadRingStep, QueueWorkStep, LoseBatchStep DEF SenderTask
<1>3. CASE ServerTask
  BY <1>3, SendFrameStep, CloseViewerStep, AddClientStep DEF ServerTask
<1>4. CASE UNCHANGED webLogVars
  BY <1>4 DEF webLogVars, ringVars, senderVars, viewerVars, lossVars, LogInv, LogTyped,
    RingHeld, InHandHeld, Balance, LinesPlaced, InHand, Feed
<1> QED
  BY <1>1, <1>2, <1>3, <1>4 DEF LogNext

(* A viewer that adds up lines and markers is where the log is, at every    *)
(* line until a batch is lost and in sum unless a marker was, for any tasks *)
(* and viewers and any sizes of ring, batch and line (web_log_append(),     *)
(* drain_ring_to_clients()).                                                *)
THEOREM GapsAreMarked == LogSpec => []GapsMarked
<1>1. LogInv => GapsMarked
  <2> SUFFICES ASSUME LogInv PROVE GapsMarked
    OBVIOUS
  <2>1. LogTypeOK
    BY DEF LogInv, LogTyped, LogTypeOK
  <2>2. ~ unsure /\ InHand = {} => LinesIn(Feed) + dropped = numbered
    <3>1. LinesIn(Feed) \in Nat /\ dropped \in Nat
      BY FeedTyped DEF LogInv, LogTyped
    <3> QED
      BY <3>1 DEF LogInv, Balance
  <2> QED
    BY <2>1, <2>2 DEF LogInv, LinesPlaced, GapsMarked
<1> QED
  BY <1>1, LogInitially, LogStep, PTL DEF LogSpec
=============================================================================
