----------------------------- MODULE UsageReport -----------------------------
(***************************************************************************)
(* main/usage_report.c: the anonymous usage report and its opt-out.        *)
(*                                                                         *)
(* The web server's task switches reporting on and off                     *)
(* (usage_report_set_enabled), the firmware-update check task sends a ping *)
(* or a pending deletion (usage_report_run), with nothing but two          *)
(* unsynchronised flags between them. Both flags and the install ID have a *)
(* copy in flash, written one at a time; a restart leaves only those. The  *)
(* server is api/worker.js: a ping stores the install's row, a deletion    *)
(* removes it, and either request or its reply may be lost.                *)
(***************************************************************************)
EXTENDS Naturals, FiniteSets

CONSTANTS
  Ids,           (* install IDs a device could draw; 0 is none              *)
  FlashOutcomes  (* what a write to flash may do: "stored", "failed"        *)

ASSUME IdsAssumption == Ids \subseteq Nat \ {0}
ASSUME FlashAssumption == FlashOutcomes \subseteq {"stored", "failed"} /\ "stored" \in FlashOutcomes

VARIABLES
  enabled,  (* s_enabled, as "on" or "off"                                  *)
  pending,  (* s_delete_pending, as "yes" or "no"                           *)
  id,       (* s_id_hex                                                     *)
  flash,    (* the three NVS keys                                           *)
  userPc,   (* the web server in usage_report_set_enabled()                 *)
  runPc,    (* the check task in usage_report_run()                         *)
  rows,     (* the IDs the server has rows for                              *)
  counted,  (* history: every ID the server ever had a row for              *)
  late,     (* history: pings received since the latest opt-out, up to 2    *)
  torn      (* history: "yes" once a write of the latest switch failed or a *)
            (* restart cut it short, so that flash holds only part of it    *)

flags == <<enabled, pending>>
server == <<rows, counted, late>>
vars == <<flags, id, flash, userPc, runPc, server, torn>>

Written(key, value, outcome) ==
  flash' = IF outcome = "stored" THEN [flash EXCEPT ![key] = value] ELSE flash
StoreSwitch(key, value) ==
  \E outcome \in FlashOutcomes :
    /\ Written(key, value, outcome)
    /\ torn' = IF outcome = "stored" THEN torn ELSE "yes"

-----------------------------------------------------------------------------
(* usage_report_set_enabled(), four writes by the web server's task.        *)

Switch(onOff) ==
  /\ userPc = "idle" /\ userPc' = "store_enabled"
  /\ enabled' = onOff
  /\ late' = 0 /\ torn' = "no"
  /\ UNCHANGED <<pending, id, flash, runPc, rows, counted>>

StoreEnabled ==
  /\ userPc = "store_enabled" /\ userPc' = "mark_pending"
  /\ StoreSwitch("enabled", enabled)
  /\ UNCHANGED <<flags, id, runPc, server>>

(* Opting out asks for the deletion, opting back in withdraws it.           *)
Withdrawn == IF enabled = "off" THEN "yes" ELSE "no"

MarkPending ==
  /\ userPc = "mark_pending" /\ userPc' = "store_pending"
  /\ pending' = Withdrawn
  /\ UNCHANGED <<enabled, id, flash, runPc, server, torn>>

StorePending ==
  /\ userPc = "store_pending" /\ userPc' = "idle"
  /\ StoreSwitch("pending", Withdrawn)
  /\ UNCHANGED <<flags, id, runPc, server>>

-----------------------------------------------------------------------------
(* usage_report_run(), by the check task.                                   *)

RunStep(from, to) == runPc = from /\ runPc' = to

(* Variant: a due ping is sent before a pending deletion is looked at.      *)
PingFirst(due) ==
  IF due = "yes" THEN "create" ELSE IF pending = "yes" THEN "delete" ELSE "idle"
(* Variant: sends nothing at all while reporting is off.                    *)
SilentWhenOff(due) ==
  IF enabled = "off" THEN "idle"
  ELSE IF pending = "yes" THEN "delete" ELSE IF due = "yes" THEN "create" ELSE "idle"
(* Variant: does not see to the ID first.                                   *)
PingUnprepared(due) ==
  IF pending = "yes" THEN "delete"
  ELSE IF due = "yes" /\ enabled = "on" THEN "ping" ELSE "idle"
(* A deletion comes first; a ping only on schedule and while enabled.       *)
Chosen(due) ==
  IF pending = "yes" THEN "delete"
  ELSE IF due = "yes" /\ enabled = "on" THEN "create" ELSE "idle"

Run(due) ==
  /\ RunStep("idle", Chosen(due))
  /\ UNCHANGED <<flags, id, flash, userPc, server, torn>>

(* delete_from_server(): one request. It may not arrive, arrive without a   *)
(* confirmation coming back, or be confirmed.                               *)
NothingToDelete ==
  /\ RunStep("delete", "clear")
  /\ id = 0
  /\ UNCHANGED <<flags, id, flash, userPc, server, torn>>

(* Variant: takes the request being sent for the confirmation.              *)
LostIsDone == "clear"
LostIsPending == "idle"

DeleteLost ==
  /\ RunStep("delete", LostIsPending)
  /\ id # 0
  /\ UNCHANGED <<flags, id, flash, userPc, server, torn>>

DeleteUnconfirmed ==
  /\ RunStep("delete", "idle")
  /\ id # 0
  /\ rows' = rows \ {id}
  /\ UNCHANGED <<flags, id, flash, userPc, counted, late, torn>>

DeleteConfirmed ==
  /\ RunStep("delete", "clear")
  /\ id # 0
  /\ rows' = rows \ {id}
  /\ UNCHANGED <<flags, id, flash, userPc, counted, late, torn>>

ClearPending ==
  /\ RunStep("clear", "store_clear")
  /\ pending' = "no"
  /\ UNCHANGED <<enabled, id, flash, userPc, server, torn>>

StoreClear ==
  /\ RunStep("store_clear", "idle")
  /\ \E outcome \in FlashOutcomes : Written("pending", "no", outcome)
  /\ UNCHANGED <<flags, id, userPc, server, torn>>

(* ping(): an ID that could not be stored is not used.                      *)
HaveId ==
  /\ RunStep("create", "ping")
  /\ id # 0
  /\ UNCHANGED <<flags, id, flash, userPc, server, torn>>

(* Variant: uses the ID whether it was stored or not.                       *)
UsedAnyway(new, kept) == new
Used(new, kept) == kept

CreateId ==
  /\ id = 0
  /\ \E new \in Ids \ counted, outcome \in FlashOutcomes :
       LET kept == IF outcome = "stored" THEN new ELSE 0 IN
       /\ flash' = [flash EXCEPT !.id = kept]
       /\ id' = Used(new, kept)
       /\ RunStep("create", IF id' = 0 THEN "idle" ELSE "ping")
  /\ UNCHANGED <<flags, userPc, server, torn>>

PingArrives ==
  /\ RunStep("ping", "idle")
  /\ rows' = rows \cup {id}
  /\ counted' = counted \cup {id}
  /\ late' = IF enabled = "off" /\ late < 2 THEN late + 1 ELSE late
  /\ UNCHANGED <<flags, id, flash, userPc, torn>>

PingLost ==
  /\ RunStep("ping", "idle")
  /\ UNCHANGED <<flags, id, flash, userPc, server, torn>>

-----------------------------------------------------------------------------
(* A restart, with usage_report_init() before either task runs.             *)
Restart ==
  /\ enabled' = flash.enabled /\ pending' = flash.pending /\ id' = flash.id
  /\ userPc' = "idle" /\ runPc' = "idle"
  /\ torn' = IF userPc = "idle" THEN torn ELSE "yes"
  /\ UNCHANGED <<flash, server>>

(* A device that has never run: nothing stored, reporting on by default.    *)
Init ==
  /\ enabled = "on" /\ pending = "no" /\ id = 0
  /\ flash = [enabled |-> "on", pending |-> "no", id |-> 0]
  /\ userPc = "idle" /\ runPc = "idle"
  /\ rows = {} /\ counted = {} /\ late = 0 /\ torn = "no"

SetEnabled == StoreEnabled \/ MarkPending \/ StorePending
Running ==
  \/ NothingToDelete \/ DeleteLost \/ DeleteUnconfirmed \/ DeleteConfirmed
  \/ ClearPending \/ StoreClear
  \/ HaveId \/ CreateId \/ PingArrives \/ PingLost

Next ==
  \/ \E onOff \in {"on", "off"} : Switch(onOff)
  \/ SetEnabled
  \/ \E due \in {"yes", "no"} : Run(due)
  \/ Running
  \/ Restart

Spec == Init /\ [][Next]_vars

(* The tasks are scheduled, the check task runs again and again, and a      *)
(* server asked again and again confirms in the end.                        *)
Fairness ==
  /\ WF_vars(SetEnabled)
  /\ SF_vars(Run("no") /\ runPc' = "delete") /\ WF_vars(Running)
  /\ SF_vars(DeleteConfirmed)

FairSpec == Spec /\ Fairness

-----------------------------------------------------------------------------
Keys == [enabled : {"on", "off"}, pending : {"yes", "no"}, id : Ids \cup {0}]

(* Types; a ping or its ID is never made up for a device without one.       *)
TypeOK ==
  /\ enabled \in {"on", "off"} /\ pending \in {"yes", "no"} /\ id \in Ids \cup {0}
  /\ flash \in Keys
  /\ userPc \in {"idle", "store_enabled", "mark_pending", "store_pending"}
  /\ runPc \in {"idle", "delete", "clear", "store_clear", "create", "ping"}
  /\ runPc = "ping" => id # 0
  /\ rows \subseteq Ids /\ counted \subseteq Ids /\ rows \subseteq counted
  /\ late \in 0 .. 2 /\ torn \in {"no", "yes"}

(* "an ID that the next boot would replace would count this device as a new *)
(* install every time it restarts" (usage_report.c:57): the server counts   *)
(* one install, over restarts and failing writes.                           *)
OneInstall == Cardinality(counted) <= 1

(* "at most one ping either side of the switch" (usage_report.c:32).        *)
AtMostOneLatePing == late <= 1

OptedOut == enabled = "off" /\ userPc = "idle"

(* "caught by the deletion that follows" (usage_report.c:34): when nothing  *)
(* is pending any more after an opt-out that was stored, the server has no  *)
(* row, whatever the two tasks did to the flag in between.                  *)
Forgotten ==
  (OptedOut /\ torn = "no" /\ pending = "no" /\ runPc = "idle") => rows = {}

(* "Persisted, so the request survives being offline or a reboot"           *)
(* (usage_report.c:39): an opt-out that was stored ends with the rows gone, *)
(* unless the user opts in again.                                           *)
OptOutErases ==
  (OptedOut /\ torn = "no") ~> (rows = {} \/ enabled = "on" \/ torn = "yes")

(* "s_delete_pending is set on every opt-out" (usage_report.c:35), so the   *)
(* same holds of an opt-out that a restart cuts short.                      *)
EveryOptOutErases == OptedOut ~> (rows = {} \/ enabled = "on")
=============================================================================
