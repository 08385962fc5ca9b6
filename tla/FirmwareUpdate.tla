--------------------------- MODULE FirmwareUpdate ----------------------------
(***************************************************************************)
(* main/firmware_update.c: release checks and over-the-air installs.       *)
(*                                                                         *)
(* The check task queries the releases and, on the same loop, sends the    *)
(* usage report; every install is a task of its own. Both run under        *)
(* s_op_lock, a binary semaphore that firmware_update_start_install()      *)
(* takes and the install task gives back. The web server and the MQTT      *)
(* event task call in: check now, install, publish on connect.             *)
(*                                                                         *)
(* A section under s_status_lock is one step. Publishing copies the status *)
(* under that lock and sends the copy later, so it is two. A release is    *)
(* the number of its tag in version order. Left out: the status fields     *)
(* that follow from `versions` and `installed` (latest_version,            *)
(* update_available), the texts, and progress_pct.                         *)
(***************************************************************************)
EXTENDS Naturals, Sequences

CONSTANTS
  Callers,   (* tasks that call firmware_update_*(): web server and MQTT    *)
  MqttTask,  (* the one of them that publishes on connect                   *)
  Releases,  (* releases there can be, as numbers; 0 is none                *)
  Feeds,     (* what the release feed may list, newest first                *)
  FirstBoot  (* the release the device runs at first                        *)

ASSUME ReleasesAssumption ==
  /\ Releases \subseteq Nat \ {0} /\ FirstBoot \in Releases
  /\ Feeds \subseteq Seq(Releases) /\ <<>> \notin Feeds
ASSUME CallersAssumption ==
  MqttTask \in Callers /\ Callers \cap {"check", "install", "free"} = {}

VARIABLES
  installed,   (* the running release                                       *)
  state,       (* s_status.state                                            *)
  versions,    (* s_status.versions; the first is latest_version            *)
  autoCheck,   (* s_auto_check, as "on" or "off"                            *)
  opLock,      (* who holds s_op_lock, "free" when nobody does              *)
  installTag,  (* s_install_tag                                             *)
  notified,    (* notification bits of the check task                       *)
  checkPc,     (* the check task                                            *)
  installPc,   (* the install task, "none" when there is none               *)
  installing,  (* its local `tag`                                           *)
  ota,         (* its local `err`: "running", "success" or "error"          *)
  granted,     (* history: the release of the call that was told ESP_OK     *)
  callPc,      (* each caller                                               *)
  target,      (* its local `target`, 0 outside start_install               *)
  view,        (* copy of the status that a task is about to publish        *)
  shown        (* in_progress of the retained MQTT message                  *)

statusVars == <<state, versions>>
installVars == <<installPc, installing, ota, granted>>
callVars == <<callPc, target>>
mqttVars == <<view, shown>>
vars == <<installed, statusVars, autoCheck, opLock, installTag, notified,
          checkPc, installVars, callVars, mqttVars>>

States == {"idle", "checking", "downloading", "success", "error"}
InProgress == {"downloading", "success"}
Tasks == Callers \cup {"check", "install"}
Blank == [t \in Tasks |-> "none"]

(* firmware_update_publish_mqtt_state(): copy the status, then send it.      *)
TakeView(t) ==
  /\ view' = [view EXCEPT ![t] = IF state \in InProgress THEN "installing" ELSE "settled"]
  /\ UNCHANGED shown
SendView(t) ==
  /\ shown' = view[t]
  /\ view' = [view EXCEPT ![t] = "none"]

-----------------------------------------------------------------------------
(* The check task.                                                          *)

CheckStep(from, to) == checkPc = from /\ checkPc' = to

(* Woken by a notification or by its deadline; the run is `scheduled` when  *)
(* it is due and WiFi is up.                                                *)
Wake(scheduled) ==
  /\ CheckStep("wait", IF "check" \in notified \/ (scheduled = "yes" /\ autoCheck = "on")
                       THEN "lock" ELSE "gate")
  /\ notified' = {}
  /\ UNCHANGED <<installed, statusVars, autoCheck, opLock, installTag,
                 installVars, callVars, mqttVars>>

(* run_check(): waits out an install, then announces itself.                *)
BeginCheck ==
  /\ CheckStep("lock", "query")
  /\ opLock = "free" /\ opLock' = "check"
  /\ state' = "checking"
  /\ UNCHANGED <<installed, versions, autoCheck, installTag, notified,
                 installVars, callVars, mqttVars>>

QueryDone(feed) ==
  /\ CheckStep("query", "give")
  /\ versions' = feed
  /\ state' = "idle"
  /\ UNCHANGED <<installed, autoCheck, opLock, installTag, notified,
                 installVars, callVars, mqttVars>>

QueryFailed ==
  /\ CheckStep("query", "give")
  /\ state' = "error"
  /\ UNCHANGED <<installed, versions, autoCheck, opLock, installTag, notified,
                 installVars, callVars, mqttVars>>

GiveCheck ==
  /\ CheckStep("give", "view")
  /\ opLock' = "free"
  /\ UNCHANGED <<installed, statusVars, autoCheck, installTag, notified,
                 installVars, callVars, mqttVars>>

ViewCheck ==
  /\ CheckStep("view", "publish")
  /\ TakeView("check")
  /\ UNCHANGED <<installed, statusVars, autoCheck, opLock, installTag, notified,
                 installVars, callVars>>

PublishCheck ==
  /\ CheckStep("publish", "gate")
  /\ SendView("check")
  /\ UNCHANGED <<installed, statusVars, autoCheck, opLock, installTag, notified,
                 installVars, callVars>>

(* install_in_progress() is read once: usage_report_run() follows unless an *)
(* install shows or WiFi is down.                                           *)
EnterUsage == CheckStep("gate", "usage") /\ state \notin InProgress
SkipUsage == CheckStep("gate", "wait")
LeaveUsage == CheckStep("usage", "wait")
Usage ==
  /\ EnterUsage \/ SkipUsage \/ LeaveUsage
  /\ UNCHANGED <<installed, statusVars, autoCheck, opLock, installTag, notified,
                 installVars, callVars, mqttVars>>

-----------------------------------------------------------------------------
(* The callers.                                                             *)

CallStep(c, from, to) == callPc[c] = from /\ callPc' = [callPc EXCEPT ![c] = to]

(* Variant: announces itself whatever the status shows.                     *)
AnnouncedOver == "checking"
(* firmware_update_request_check(): announced at once, but not over an      *)
(* install.                                                                 *)
Announced == IF state \in {"idle", "error"} THEN "checking" ELSE state

Announce(c) ==
  /\ CallStep(c, "idle", "notify")
  /\ state' = Announced
  /\ UNCHANGED <<installed, versions, autoCheck, opLock, installTag, notified,
                 checkPc, installVars, target, mqttVars>>

(* Variant: only a check task that waits is notified.                       *)
NotifiedIfWaiting(bit) ==
  IF checkPc = "wait" THEN notified \cup {bit} ELSE notified
(* xTaskNotify(): the bit stays set until the task waits again.             *)
Notified(bit) == notified \cup {bit}

Notify(c) ==
  /\ CallStep(c, "notify", "idle")
  /\ notified' = Notified("check")
  /\ UNCHANGED <<installed, statusVars, autoCheck, opLock, installTag,
                 checkPc, installVars, target, mqttVars>>

(* firmware_update_wake(), after the usage report was switched off.         *)
WakeCheckTask(c) ==
  /\ CallStep(c, "idle", "idle")
  /\ notified' = Notified("wake")
  /\ UNCHANGED <<installed, statusVars, autoCheck, opLock, installTag,
                 checkPc, installVars, target, mqttVars>>

SetAutoCheck(c, onOff) ==
  /\ CallStep(c, "idle", "idle")
  /\ autoCheck' = onOff
  /\ UNCHANGED <<installed, statusVars, opLock, installTag, notified,
                 checkPc, installVars, target, mqttVars>>

(* The MQTT connected event publishes the status.                           *)
ViewOnConnect ==
  /\ CallStep(MqttTask, "idle", "publish")
  /\ TakeView(MqttTask)
  /\ UNCHANGED <<installed, statusVars, autoCheck, opLock, installTag, notified,
                 checkPc, installVars, target>>

PublishOnConnect ==
  /\ CallStep(MqttTask, "publish", "idle")
  /\ SendView(MqttTask)
  /\ UNCHANGED <<installed, statusVars, autoCheck, opLock, installTag, notified,
                 checkPc, installVars, target>>

(* firmware_update_start_install(): r = 0 asks for the latest release. Only *)
(* a release that the last check found is accepted; another one, or none    *)
(* known yet, is refused and changes nothing.                               *)
Resolved(r) == IF r = 0 /\ versions # <<>> THEN Head(versions) ELSE r
(* Variant: takes a release for known until a list is there to look in.     *)
KnownUntilChecked(r) == versions = <<>> \/ \E i \in DOMAIN versions : versions[i] = r
Known(r) == \E i \in DOMAIN versions : versions[i] = r

Resolve(c, r) ==
  /\ Known(Resolved(r))
  /\ CallStep(c, "idle", "claim")
  /\ target' = [target EXCEPT ![c] = Resolved(r)]
  /\ UNCHANGED <<installed, statusVars, autoCheck, opLock, installTag, notified,
                 checkPc, installVars, mqttVars>>

(* s_op_lock is taken without waiting, then s_install_tag is written.       *)
Claim(c) ==
  /\ CallStep(c, "claim", "create")
  /\ opLock = "free" /\ opLock' = c
  /\ installTag' = target[c]
  /\ UNCHANGED <<installed, statusVars, autoCheck, notified, checkPc,
                 installVars, target, mqttVars>>

Returned(c) == target' = [target EXCEPT ![c] = 0]

(* Variant: writes the tag before it knows that it may.                     *)
BusyTagWritten(c) ==
  /\ CallStep(c, "claim", "idle")
  /\ opLock # "free"
  /\ installTag' = target[c]
  /\ Returned(c)
  /\ UNCHANGED <<installed, statusVars, autoCheck, opLock, notified,
                 checkPc, installVars, mqttVars>>
Busy(c) ==
  /\ CallStep(c, "claim", "idle")
  /\ opLock # "free"
  /\ Returned(c)
  /\ UNCHANGED <<installed, statusVars, autoCheck, opLock, installTag, notified,
                 checkPc, installVars, mqttVars>>

(* The install task owns s_op_lock from its creation on.                    *)
CreateTask(c) ==
  /\ CallStep(c, "create", "idle")
  /\ opLock' = "install"
  /\ installPc' = "start" /\ installing' = 0 /\ ota' = "running"
  /\ granted' = target[c]
  /\ Returned(c)
  /\ UNCHANGED <<installed, statusVars, autoCheck, installTag, notified,
                 checkPc, mqttVars>>

(* Variant: the lock stays taken.                                           *)
CreateFailedLocked(c) ==
  /\ CallStep(c, "create", "idle")
  /\ state' = "error"
  /\ Returned(c)
  /\ UNCHANGED <<installed, versions, autoCheck, opLock, installTag, notified,
                 checkPc, installVars, mqttVars>>
(* The status is set and the lock given back: two steps in the code, with   *)
(* nothing in between that another task could tell apart.                   *)
CreateFailed(c) ==
  /\ CallStep(c, "create", "idle")
  /\ state' = "error"
  /\ opLock' = "free"
  /\ Returned(c)
  /\ UNCHANGED <<installed, versions, autoCheck, installTag, notified,
                 checkPc, installVars, mqttVars>>

-----------------------------------------------------------------------------
(* The install task.                                                        *)

InstallStep(from, to) == installPc = from /\ installPc' = to

BeginInstall ==
  /\ InstallStep("start", "view")
  /\ installing' = installTag
  /\ state' = "downloading"
  /\ UNCHANGED <<installed, versions, autoCheck, opLock, installTag, notified,
                 checkPc, ota, granted, callVars, mqttVars>>

(* Published at the start, every 5 percent and at the end.                  *)
ViewInstall ==
  /\ InstallStep("view", "publish")
  /\ TakeView("install")
  /\ UNCHANGED <<installed, statusVars, autoCheck, opLock, installTag, notified,
                 checkPc, installing, ota, granted, callVars>>

Published ==
  IF ota = "running" THEN "download" ELSE IF ota = "success" THEN "reboot" ELSE "give"

PublishInstall ==
  /\ InstallStep("publish", Published)
  /\ SendView("install")
  /\ UNCHANGED <<installed, statusVars, autoCheck, opLock, installTag, notified,
                 checkPc, installing, ota, granted, callVars>>

Progress ==
  /\ InstallStep("download", "view")
  /\ UNCHANGED <<installed, statusVars, autoCheck, opLock, installTag, notified,
                 checkPc, installing, ota, granted, callVars, mqttVars>>

(* The image is complete and valid, or the install failed on the way.       *)
EndInstall(outcome) ==
  /\ InstallStep("download", "view")
  /\ ota' = outcome
  /\ state' = outcome
  /\ UNCHANGED <<installed, versions, autoCheck, opLock, installTag, notified,
                 checkPc, installing, granted, callVars, mqttVars>>

(* A failed install gives the lock back and its task ends.                  *)
GiveInstall ==
  /\ InstallStep("give", "none")
  /\ opLock' = "free"
  /\ installing' = 0 /\ granted' = 0
  /\ UNCHANGED <<installed, statusVars, autoCheck, installTag, notified,
                 checkPc, ota, callVars, mqttVars>>

(* esp_restart() after a successful install: the new release boots; only    *)
(* the retained message and the stored setting remain.                      *)
Reboot ==
  /\ installPc = "reboot"
  /\ installed' = installing
  /\ state' = "idle" /\ versions' = <<>>
  /\ opLock' = "free" /\ installTag' = 0 /\ notified' = {}
  /\ checkPc' = "wait"
  /\ installPc' = "none" /\ installing' = 0 /\ ota' = "running" /\ granted' = 0
  /\ callPc' = [c \in Callers |-> "idle"]
  /\ target' = [c \in Callers |-> 0]
  /\ view' = Blank
  /\ UNCHANGED <<autoCheck, shown>>

-----------------------------------------------------------------------------
Init ==
  /\ installed = FirstBoot
  /\ autoCheck \in {"on", "off"}
  /\ state = "idle" /\ versions = <<>>
  /\ opLock = "free" /\ installTag = 0 /\ notified = {}
  /\ checkPc = "wait"
  /\ installPc = "none" /\ installing = 0 /\ ota = "running" /\ granted = 0
  /\ callPc = [c \in Callers |-> "idle"]
  /\ target = [c \in Callers |-> 0]
  /\ view = Blank
  /\ shown = "settled"

CheckTask ==
  \/ \E scheduled \in {"yes", "no"} : Wake(scheduled)
  \/ BeginCheck \/ QueryFailed \/ (\E feed \in Feeds : QueryDone(feed))
  \/ GiveCheck \/ ViewCheck \/ PublishCheck \/ Usage

Downloaded == \E outcome \in {"success", "error"} : EndInstall(outcome)
InstallTask ==
  \/ BeginInstall \/ ViewInstall \/ PublishInstall
  \/ Progress \/ Downloaded
  \/ GiveInstall \/ Reboot

(* The rest of a call that has started, and the calls.                      *)
Continue(c) == Notify(c) \/ Claim(c) \/ Busy(c) \/ CreateTask(c) \/ CreateFailed(c)
Call(c) ==
  \/ Announce(c) \/ WakeCheckTask(c)
  \/ \E onOff \in {"on", "off"} : SetAutoCheck(c, onOff)
  \/ \E r \in Releases \cup {0} : Resolve(c, r)

Next ==
  \/ CheckTask \/ InstallTask
  \/ ViewOnConnect \/ PublishOnConnect
  \/ \E c \in Callers : Continue(c) \/ Call(c)

Spec == Init /\ [][Next]_vars

(* Every task is scheduled and every request to a server ends, with a       *)
(* timeout if need be. A download ends: it has a length. The check task,    *)
(* blocked on s_op_lock, is readied whenever the lock is given back, while  *)
(* installs only poll it, so it gets the lock in the end.                   *)
Fairness ==
  /\ WF_vars(CheckTask) /\ SF_vars(BeginCheck)
  /\ WF_vars(InstallTask) /\ SF_vars(Downloaded)
  /\ WF_vars(PublishOnConnect)
  /\ \A c \in Callers : WF_vars(Continue(c))

FairSpec == Spec /\ Fairness

-----------------------------------------------------------------------------
(* Types; a call that got past the look-up has a release.                   *)
TypeOK ==
  /\ installed \in Releases
  /\ state \in States /\ versions \in Seq(Releases)
  /\ autoCheck \in {"on", "off"}
  /\ opLock \in Callers \cup {"free", "check", "install"}
  /\ installTag \in Releases \cup {0}
  /\ notified \subseteq {"check", "wake"}
  /\ checkPc \in {"wait", "lock", "query", "give", "view", "publish", "gate", "usage"}
  /\ installPc \in {"none", "start", "view", "publish", "download", "give", "reboot"}
  /\ installing \in Releases \cup {0} /\ granted \in Releases \cup {0}
  /\ ota \in {"running", "success", "error"}
  /\ callPc \in [Callers -> {"idle", "notify", "claim", "create", "publish"}]
  /\ target \in [Callers -> Releases \cup {0}]
  /\ \A c \in Callers : callPc[c] \in {"claim", "create"} <=> target[c] # 0
  /\ view \in [Tasks -> {"none", "installing", "settled"}]
  /\ shown \in {"installing", "settled"}

(* s_op_lock, handed from a caller to the task it creates, serializes the   *)
(* operations: whoever is inside one is the holder, and a status that shows *)
(* an install belongs to a running install task.                            *)
OneOperation ==
  /\ checkPc \in {"query", "give"} <=> opLock = "check"
  /\ installPc # "none" <=> opLock = "install"
  /\ \A c \in Callers : callPc[c] = "create" <=> opLock = c
  /\ state \in InProgress => installPc # "none"

(* The release being installed is the one that the call told ESP_OK asked   *)
(* for, whatever other callers asked for in the meantime.                   *)
InstallsWhatWasAsked ==
  /\ installPc = "start" => installTag = granted
  /\ installPc \notin {"none", "start"} => installing = granted

(* "Never over an install: its state drives the progress display"           *)
(* (firmware_update.c:671): once a download shows, only the install task    *)
(* changes the state.                                                       *)
InstallKeepsState ==
  [][(state \in InProgress /\ state' # state) => installPc' # installPc]_vars

(* "This announcement is always followed by a real result"                  *)
(* (firmware_update.c:674): nobody polls "checking" for ever; and s_op_lock *)
(* is always given back, or ends in a reboot.                               *)
WorkEnds ==
  /\ (state = "checking") ~> (state # "checking")
  /\ (opLock # "free") ~> (opLock = "free")
=============================================================================
