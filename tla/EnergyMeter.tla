------------------------------ MODULE EnergyMeter ------------------------------
(***************************************************************************)
(* main/channel_energy.c: a task of the lowest priority samples the power  *)
(* of every channel, of the pump and of the system baseline, adds up what  *)
(* was drawn since the sample before, and publishes the totals now and     *)
(* then. The tick counter wraps; the task may find the pool state locked,  *)
(* and may sleep much longer than it asked for. Totals live in RAM only.   *)
(*                                                                         *)
(* Energy is counted in watts times ticks. A channel that is off, or not   *)
(* configured, or has no wattage, draws 0.                                 *)
(***************************************************************************)
EXTENDS Integers

CONSTANTS
  Meters,    \* channels, the pump, the baseline
  Baseline,  \* the one that is never switched off
  Watts,
  Wrap,      \* ticks until the counter is back at 0
  Sample,    \* CHANNEL_ENERGY_SAMPLE_INTERVAL_MS, in ticks
  Interval,  \* CHANNEL_ENERGY_PUBLISH_INTERVAL_MS
  MaxTime    \* bound: ticks since a boot

ASSUME MeterAssumption ==
  /\ Baseline \subseteq Meters /\ Watts \subseteq Nat /\ 0 \in Watts
  /\ Sample \in Nat \ {0} /\ Interval \in Nat /\ Wrap \in Nat
  /\ Sample < Interval /\ Interval < Wrap
  /\ MaxTime \in Nat

VARIABLES
  now,        \* xTaskGetTickCount()
  last,       \* last_tick
  published,  \* last_publish_tick
  slept,      \* ticks since the task went to sleep, up to Sample
  watts,      \* what each draws
  energy,     \* s_energy_kwh, s_pump_energy_kwh, s_system_energy_kwh
  unpublished, \* s_energy_pending, s_pump_energy_pending
  shown,      \* the totals the broker retains
  brokerUp,   \* s_mqtt_connected
  uptime,     \* history: ticks since the boot
  since,      \* history: ticks since the latest sample
  drawn,      \* history: what was drawn at the samples, for as long as it was
  sampled,    \* history: the latest sample
  fresh       \* history: the latest total published since the boot arrived,
              \* and is not of the baseline

timeVars == <<now, uptime, since>>
meterVars == <<last, published, energy, unpublished, shown, drawn, sampled, fresh>>
energyVars == <<timeVars, meterVars, slept, watts, brokerUp>>

Later(t) == IF t + 1 = Wrap THEN 0 ELSE t + 1

(* The unsigned difference of two readings of the counter.                  *)
Ticks(from, to) == IF from <= to THEN to - from ELSE to - from + Wrap

-----------------------------------------------------------------------------
(* Nothing keeps the task from sampling for nearly a turn of the counter.   *)
TimePasses ==
  /\ uptime < MaxTime /\ uptime' = uptime + 1
  /\ since + 1 + Interval < Wrap /\ since' = since + 1
  /\ now' = Later(now)
  /\ slept' = IF slept < Sample THEN slept + 1 ELSE slept
  /\ UNCHANGED <<meterVars, watts, brokerUp>>

PowerChanges ==
  /\ \E m \in Meters, w \in Watts : watts' = [watts EXCEPT ![m] = w]
  /\ UNCHANGED <<timeVars, meterVars, slept, brokerUp>>

ConnectionChanges ==
  /\ brokerUp' = ~ brokerUp
  /\ UNCHANGED <<timeVars, meterVars, slept, watts>>

-----------------------------------------------------------------------------
(* channel_energy_task()                                                    *)
Due == Ticks(published, now) >= Interval

(* Variant: also a pass that did not get the mutex moves last_tick.         *)
MovedOn == now

(* The next pass covers the interval of this one.                           *)
Untouched == last

Busy ==
  /\ slept = Sample /\ slept' = 0
  /\ last' = Untouched
  /\ UNCHANGED <<timeVars, published, energy, unpublished, shown, drawn, sampled, fresh,
                 watts, brokerUp>>

(* A meter that draws is published when that is due, and once more when it  *)
(* no longer draws; the baseline, only when due.                            *)
Publishes(m) ==
  IF m \in Baseline THEN watts[m] > 0 /\ Due
  ELSE (watts[m] > 0 /\ Due) \/ (watts[m] = 0 /\ unpublished[m])

Pass ==
  /\ slept = Sample /\ slept' = 0
  /\ energy' = [m \in Meters |-> energy[m] + watts[m] * Ticks(last, now)]
  /\ unpublished' = [m \in Meters |-> m \notin Baseline /\ watts[m] > 0 /\ ~ Due]
  /\ shown' = [m \in Meters |-> IF Publishes(m) /\ brokerUp THEN energy'[m] ELSE shown[m]]
  /\ fresh' =
       [m \in Meters |-> IF Publishes(m) THEN brokerUp /\ m \notin Baseline ELSE fresh[m]]
  /\ last' = now /\ published' = IF Due THEN now ELSE published
  /\ drawn' = [m \in Meters |-> drawn[m] + watts[m] * since]
  /\ sampled' = watts /\ since' = 0
  /\ UNCHANGED <<now, uptime, watts, brokerUp>>

(* Back-dated, so that the first pass publishes.                            *)
PowerUp ==
  /\ now' = 0 /\ last' = 0 /\ published' = Wrap - Interval /\ slept' = 0
  /\ energy' = [m \in Meters |-> 0] /\ unpublished' = [m \in Meters |-> FALSE]
  /\ brokerUp' = FALSE /\ uptime' = 0 /\ since' = 0
  /\ drawn' = [m \in Meters |-> 0] /\ sampled' = [m \in Meters |-> 0]
  /\ fresh' = [m \in Meters |-> FALSE]
  /\ UNCHANGED <<watts, shown>>

EnergyInit ==
  /\ now = 0 /\ last = 0 /\ published = Wrap - Interval /\ slept = 0
  /\ watts = [m \in Meters |-> 0] /\ energy = [m \in Meters |-> 0]
  /\ unpublished = [m \in Meters |-> FALSE] /\ shown = [m \in Meters |-> 0]
  /\ brokerUp = FALSE /\ uptime = 0 /\ since = 0
  /\ drawn = [m \in Meters |-> 0] /\ sampled = [m \in Meters |-> 0]
  /\ fresh = [m \in Meters |-> FALSE]

EnergyNext == TimePasses \/ PowerChanges \/ ConnectionChanges \/ Busy \/ Pass \/ PowerUp

EnergySpec == EnergyInit /\ [][EnergyNext]_energyVars

-----------------------------------------------------------------------------
(* channel_energy_task(): what was drawn between two samples is added once,  *)
(* over passes without the mutex and wraps of the counter, whatever the task *)
(* slept.                                                                    *)
EnergyExact == energy = drawn

(* "once more on the sample where a channel stops drawing, so a run's final  *)
(* total lands in the right HA time bucket" (channel_energy.c:84), and       *)
(* otherwise nothing is held back for longer than an interval.               *)
TotalsShown ==
  \A m \in Meters : fresh[m] =>
    /\ sampled[m] = 0 => shown[m] = energy[m]
    /\ \A w \in Watts : (\A v \in Watts : v <= w) =>
         energy[m] - shown[m] <= w * Ticks(published, last)
    /\ Ticks(published, last) < Interval

EnergyMetered == EnergyExact /\ TotalsShown
=============================================================================
