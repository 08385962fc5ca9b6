------------------------- MODULE FirmwareUpdateProofs ------------------------
(***************************************************************************)
(* s_op_lock serializes checks and installs, an install flashes the        *)
(* release that was asked for, and its status is nobody else's to change,  *)
(* for any callers, releases and feeds.                                    *)
(***************************************************************************)
EXTENDS FirmwareUpdate, TLAPS

(* What the hand-over leans on: the tag stays the claimant's until the      *)
(* install task has copied it, a task that publishes has its copy, and an   *)
(* install that failed no longer shows.                                     *)
TagHeld ==
  /\ \A c \in Callers : callPc[c] = "create" => installTag = target[c]
  /\ installPc # "none" => granted # 0
CopyHeld ==
  /\ checkPc = "publish" => view["check"] # "none"
  /\ installPc = "publish" => view["install"] # "none"
  /\ callPc[MqttTask] = "publish" => view[MqttTask] # "none"
FailureShown ==
  /\ installPc \in {"start", "download"} => ota = "running"
  /\ installPc \in {"view", "publish", "give"} /\ ota = "error" => state \notin InProgress
  /\ installPc = "give" => ota = "error"

Inv == TypeOK /\ OneOperation /\ InstallsWhatWasAsked /\ TagHeld /\ CopyHeld /\ FailureShown

(* Every step is one of these; the proofs below go through them.            *)
LEMMA Steps ==
  ASSUME [Next]_vars
  PROVE  \/ \E scheduled \in {"yes", "no"} : Wake(scheduled)
         \/ BeginCheck
         \/ \E feed \in Feeds : QueryDone(feed)
         \/ QueryFailed
         \/ GiveCheck
         \/ ViewCheck \/ PublishCheck \/ Usage
         \/ \E c \in Callers : Announce(c)
         \/ \E c \in Callers : Notify(c) \/ WakeCheckTask(c)
                                 \/ \E onOff \in {"on", "off"} : SetAutoCheck(c, onOff)
         \/ ViewOnConnect \/ PublishOnConnect
         \/ \E c \in Callers, r \in Releases \cup {0} : Resolve(c, r)
         \/ \E c \in Callers : Claim(c)
         \/ \E c \in Callers : Busy(c)
         \/ \E c \in Callers : CreateTask(c)
         \/ \E c \in Callers : CreateFailed(c)
         \/ BeginInstall
         \/ ViewInstall
         \/ PublishInstall
         \/ Progress
         \/ \E outcome \in {"success", "error"} : EndInstall(outcome)
         \/ GiveInstall
         \/ Reboot
         \/ UNCHANGED vars
BY DEF Next, CheckTask, InstallTask, Downloaded, Continue, Call

-----------------------------------------------------------------------------
LEMMA InitInv == Init => Inv
<1> SUFFICES ASSUME Init PROVE Inv
  OBVIOUS
<1>1. TypeOK
  BY ReleasesAssumption DEF Init, TypeOK, States, Blank
<1>2. OneOperation
  BY CallersAssumption DEF Init, OneOperation, InProgress
<1>3. InstallsWhatWasAsked /\ TagHeld /\ CopyHeld /\ FailureShown
  BY CallersAssumption DEF Init, InstallsWhatWasAsked, TagHeld, CopyHeld, FailureShown
<1> QED
  BY <1>1, <1>2, <1>3 DEF Inv

-----------------------------------------------------------------------------
(* One operation at a time.                                                 *)
LEMMA LockStep ==
  ASSUME Inv, [Next]_vars
  PROVE  OneOperation'
<1> USE CallersAssumption, ReleasesAssumption DEF Inv, TypeOK, OneOperation, FailureShown, InProgress, States
<1>1. CASE \E scheduled \in {"yes", "no"} : Wake(scheduled)
  BY <1>1 DEF Wake, CheckStep, statusVars, installVars, callVars, mqttVars
<1>2. CASE BeginCheck
  BY <1>2 DEF BeginCheck, CheckStep, statusVars, installVars, callVars, mqttVars
<1>3. CASE \E feed \in Feeds : QueryDone(feed)
  BY <1>3 DEF QueryDone, CheckStep, statusVars, installVars, callVars, mqttVars
<1>4. CASE QueryFailed
  BY <1>4 DEF QueryFailed, CheckStep, statusVars, installVars, callVars, mqttVars
<1>5. CASE GiveCheck
  BY <1>5 DEF GiveCheck, CheckStep, statusVars, installVars, callVars, mqttVars
<1>6. CASE ViewCheck \/ PublishCheck \/ Usage
  BY <1>6 DEF ViewCheck, PublishCheck, Usage, EnterUsage, SkipUsage, LeaveUsage, CheckStep, statusVars, installVars, callVars, mqttVars
<1>7. CASE \E c \in Callers : Announce(c)
  BY <1>7 DEF Announce, Announced, CallStep, statusVars, installVars, callVars, mqttVars
<1>8. CASE \E c \in Callers : Notify(c) \/ WakeCheckTask(c)
                   \/ \E onOff \in {"on", "off"} : SetAutoCheck(c, onOff)
  BY <1>8 DEF Notify, WakeCheckTask, SetAutoCheck, Notified, CallStep, statusVars, installVars, callVars, mqttVars
<1>9. CASE ViewOnConnect \/ PublishOnConnect
  BY <1>9 DEF ViewOnConnect, PublishOnConnect, CallStep, statusVars, installVars, callVars, mqttVars
<1>10. CASE \E c \in Callers, r \in Releases \cup {0} : Resolve(c, r)
  BY <1>10 DEF Resolve, CallStep, statusVars, installVars, callVars, mqttVars
<1>11. CASE \E c \in Callers : Claim(c)
  BY <1>11 DEF Claim, CallStep, statusVars, installVars, callVars, mqttVars
<1>12. CASE \E c \in Callers : Busy(c)
  BY <1>12 DEF Busy, Returned, CallStep, statusVars, installVars, callVars, mqttVars
<1>13. CASE \E c \in Callers : CreateTask(c)
  BY <1>13 DEF CreateTask, Returned, CallStep, statusVars, installVars, callVars, mqttVars
<1>14. CASE \E c \in Callers : CreateFailed(c)
  BY <1>14 DEF CreateFailed, Returned, CallStep, statusVars, installVars, callVars, mqttVars
<1>15. CASE BeginInstall
  BY <1>15 DEF BeginInstall, InstallStep, statusVars, installVars, callVars, mqttVars
<1>16. CASE ViewInstall
  BY <1>16 DEF ViewInstall, InstallStep, statusVars, installVars, callVars, mqttVars
<1>17. CASE PublishInstall
  BY <1>17 DEF PublishInstall, Published, InstallStep, statusVars, installVars, callVars, mqttVars
<1>18. CASE Progress
  BY <1>18 DEF Progress, InstallStep, statusVars, installVars, callVars, mqttVars
<1>19. CASE \E outcome \in {"success", "error"} : EndInstall(outcome)
  BY <1>19 DEF EndInstall, InstallStep, statusVars, installVars, callVars, mqttVars
<1>20. CASE GiveInstall
  BY <1>20 DEF GiveInstall, InstallStep, statusVars, installVars, callVars, mqttVars
<1>21. CASE Reboot
  BY <1>21 DEF Reboot, statusVars, installVars, callVars, mqttVars
<1>22. CASE UNCHANGED vars
  BY <1>22 DEF vars, statusVars, installVars, callVars, mqttVars
<1> QED
  BY Steps, <1>1, <1>2, <1>3, <1>4, <1>5, <1>6, <1>7, <1>8, <1>9, <1>10, <1>11, <1>12, <1>13, <1>14, <1>15, <1>16, <1>17, <1>18, <1>19, <1>20, <1>21, <1>22

(* The tag is written by its holder only.                                   *)
LEMMA TagStep ==
  ASSUME Inv, [Next]_vars
  PROVE  TagHeld' /\ InstallsWhatWasAsked'
<1> USE CallersAssumption, ReleasesAssumption DEF Inv, TypeOK, OneOperation, TagHeld, InstallsWhatWasAsked
<1>1. CASE \E scheduled \in {"yes", "no"} : Wake(scheduled)
  BY <1>1 DEF Wake, CheckStep, statusVars, installVars, callVars, mqttVars
<1>2. CASE BeginCheck
  BY <1>2 DEF BeginCheck, CheckStep, statusVars, installVars, callVars, mqttVars
<1>3. CASE \E feed \in Feeds : QueryDone(feed)
  BY <1>3 DEF QueryDone, CheckStep, statusVars, installVars, callVars, mqttVars
<1>4. CASE QueryFailed
  BY <1>4 DEF QueryFailed, CheckStep, statusVars, installVars, callVars, mqttVars
<1>5. CASE GiveCheck
  BY <1>5 DEF GiveCheck, CheckStep, statusVars, installVars, callVars, mqttVars
<1>6. CASE ViewCheck \/ PublishCheck \/ Usage
  BY <1>6 DEF ViewCheck, PublishCheck, Usage, EnterUsage, SkipUsage, LeaveUsage, CheckStep, statusVars, installVars, callVars, mqttVars
<1>7. CASE \E c \in Callers : Announce(c)
  BY <1>7 DEF Announce, Announced, CallStep, statusVars, installVars, callVars, mqttVars
<1>8. CASE \E c \in Callers : Notify(c) \/ WakeCheckTask(c)
                   \/ \E onOff \in {"on", "off"} : SetAutoCheck(c, onOff)
  BY <1>8 DEF Notify, WakeCheckTask, SetAutoCheck, Notified, CallStep, statusVars, installVars, callVars, mqttVars
<1>9. CASE ViewOnConnect \/ PublishOnConnect
  BY <1>9 DEF ViewOnConnect, PublishOnConnect, CallStep, statusVars, installVars, callVars, mqttVars
<1>10. CASE \E c \in Callers, r \in Releases \cup {0} : Resolve(c, r)
  BY <1>10 DEF Resolve, CallStep, statusVars, installVars, callVars, mqttVars
<1>11. CASE \E c \in Callers : Claim(c)
  BY <1>11 DEF Claim, CallStep, statusVars, installVars, callVars, mqttVars
<1>12. CASE \E c \in Callers : Busy(c)
  BY <1>12 DEF Busy, Returned, CallStep, statusVars, installVars, callVars, mqttVars
<1>13. CASE \E c \in Callers : CreateTask(c)
  BY <1>13 DEF CreateTask, Returned, CallStep, statusVars, installVars, callVars, mqttVars
<1>14. CASE \E c \in Callers : CreateFailed(c)
  BY <1>14 DEF CreateFailed, Returned, CallStep, statusVars, installVars, callVars, mqttVars
<1>15. CASE BeginInstall
  BY <1>15 DEF BeginInstall, InstallStep, statusVars, installVars, callVars, mqttVars
<1>16. CASE ViewInstall
  BY <1>16 DEF ViewInstall, InstallStep, statusVars, installVars, callVars, mqttVars
<1>17. CASE PublishInstall
  BY <1>17 DEF PublishInstall, Published, InstallStep, statusVars, installVars, callVars, mqttVars
<1>18. CASE Progress
  BY <1>18 DEF Progress, InstallStep, statusVars, installVars, callVars, mqttVars
<1>19. CASE \E outcome \in {"success", "error"} : EndInstall(outcome)
  BY <1>19 DEF EndInstall, InstallStep, statusVars, installVars, callVars, mqttVars
<1>20. CASE GiveInstall
  BY <1>20 DEF GiveInstall, InstallStep, statusVars, installVars, callVars, mqttVars
<1>21. CASE Reboot
  BY <1>21 DEF Reboot, statusVars, installVars, callVars, mqttVars
<1>22. CASE UNCHANGED vars
  BY <1>22 DEF vars, statusVars, installVars, callVars, mqttVars
<1> QED
  BY Steps, <1>1, <1>2, <1>3, <1>4, <1>5, <1>6, <1>7, <1>8, <1>9, <1>10, <1>11, <1>12, <1>13, <1>14, <1>15, <1>16, <1>17, <1>18, <1>19, <1>20, <1>21, <1>22

(* A task that publishes has its copy.                                      *)
LEMMA CopyStep ==
  ASSUME Inv, [Next]_vars
  PROVE  CopyHeld'
<1> USE CallersAssumption, ReleasesAssumption DEF Inv, TypeOK, CopyHeld, TakeView, SendView, Tasks, Blank
<1>1. CASE \E scheduled \in {"yes", "no"} : Wake(scheduled)
  BY <1>1 DEF Wake, CheckStep, statusVars, installVars, callVars, mqttVars
<1>2. CASE BeginCheck
  BY <1>2 DEF BeginCheck, CheckStep, statusVars, installVars, callVars, mqttVars
<1>3. CASE \E feed \in Feeds : QueryDone(feed)
  BY <1>3 DEF QueryDone, CheckStep, statusVars, installVars, callVars, mqttVars
<1>4. CASE QueryFailed
  BY <1>4 DEF QueryFailed, CheckStep, statusVars, installVars, callVars, mqttVars
<1>5. CASE GiveCheck
  BY <1>5 DEF GiveCheck, CheckStep, statusVars, installVars, callVars, mqttVars
<1>6. CASE ViewCheck \/ PublishCheck \/ Usage
  BY <1>6 DEF ViewCheck, PublishCheck, Usage, EnterUsage, SkipUsage, LeaveUsage, CheckStep, statusVars, installVars, callVars, mqttVars
<1>7. CASE \E c \in Callers : Announce(c)
  BY <1>7 DEF Announce, Announced, CallStep, statusVars, installVars, callVars, mqttVars
<1>8. CASE \E c \in Callers : Notify(c) \/ WakeCheckTask(c)
                   \/ \E onOff \in {"on", "off"} : SetAutoCheck(c, onOff)
  BY <1>8 DEF Notify, WakeCheckTask, SetAutoCheck, Notified, CallStep, statusVars, installVars, callVars, mqttVars
<1>9. CASE ViewOnConnect \/ PublishOnConnect
  BY <1>9 DEF ViewOnConnect, PublishOnConnect, CallStep, statusVars, installVars, callVars, mqttVars
<1>10. CASE \E c \in Callers, r \in Releases \cup {0} : Resolve(c, r)
  BY <1>10 DEF Resolve, CallStep, statusVars, installVars, callVars, mqttVars
<1>11. CASE \E c \in Callers : Claim(c)
  BY <1>11 DEF Claim, CallStep, statusVars, installVars, callVars, mqttVars
<1>12. CASE \E c \in Callers : Busy(c)
  BY <1>12 DEF Busy, Returned, CallStep, statusVars, installVars, callVars, mqttVars
<1>13. CASE \E c \in Callers : CreateTask(c)
  BY <1>13 DEF CreateTask, Returned, CallStep, statusVars, installVars, callVars, mqttVars
<1>14. CASE \E c \in Callers : CreateFailed(c)
  BY <1>14 DEF CreateFailed, Returned, CallStep, statusVars, installVars, callVars, mqttVars
<1>15. CASE BeginInstall
  BY <1>15 DEF BeginInstall, InstallStep, statusVars, installVars, callVars, mqttVars
<1>16. CASE ViewInstall
  BY <1>16 DEF ViewInstall, InstallStep, statusVars, installVars, callVars, mqttVars
<1>17. CASE PublishInstall
  BY <1>17 DEF PublishInstall, Published, InstallStep, statusVars, installVars, callVars, mqttVars
<1>18. CASE Progress
  BY <1>18 DEF Progress, InstallStep, statusVars, installVars, callVars, mqttVars
<1>19. CASE \E outcome \in {"success", "error"} : EndInstall(outcome)
  BY <1>19 DEF EndInstall, InstallStep, statusVars, installVars, callVars, mqttVars
<1>20. CASE GiveInstall
  BY <1>20 DEF GiveInstall, InstallStep, statusVars, installVars, callVars, mqttVars
<1>21. CASE Reboot
  BY <1>21 DEF Reboot, statusVars, installVars, callVars, mqttVars
<1>22. CASE UNCHANGED vars
  BY <1>22 DEF vars, statusVars, installVars, callVars, mqttVars
<1> QED
  BY Steps, <1>1, <1>2, <1>3, <1>4, <1>5, <1>6, <1>7, <1>8, <1>9, <1>10, <1>11, <1>12, <1>13, <1>14, <1>15, <1>16, <1>17, <1>18, <1>19, <1>20, <1>21, <1>22

(* A failed install no longer shows.                                        *)
LEMMA FailureStep ==
  ASSUME Inv, [Next]_vars
  PROVE  FailureShown'
<1> USE CallersAssumption, ReleasesAssumption DEF Inv, TypeOK, OneOperation, FailureShown, InProgress, States
<1>1. CASE \E scheduled \in {"yes", "no"} : Wake(scheduled)
  BY <1>1 DEF Wake, CheckStep, statusVars, installVars, callVars, mqttVars
<1>2. CASE BeginCheck
  BY <1>2 DEF BeginCheck, CheckStep, statusVars, installVars, callVars, mqttVars
<1>3. CASE \E feed \in Feeds : QueryDone(feed)
  BY <1>3 DEF QueryDone, CheckStep, statusVars, installVars, callVars, mqttVars
<1>4. CASE QueryFailed
  BY <1>4 DEF QueryFailed, CheckStep, statusVars, installVars, callVars, mqttVars
<1>5. CASE GiveCheck
  BY <1>5 DEF GiveCheck, CheckStep, statusVars, installVars, callVars, mqttVars
<1>6. CASE ViewCheck \/ PublishCheck \/ Usage
  BY <1>6 DEF ViewCheck, PublishCheck, Usage, EnterUsage, SkipUsage, LeaveUsage, CheckStep, statusVars, installVars, callVars, mqttVars
<1>7. CASE \E c \in Callers : Announce(c)
  BY <1>7 DEF Announce, Announced, CallStep, statusVars, installVars, callVars, mqttVars
<1>8. CASE \E c \in Callers : Notify(c) \/ WakeCheckTask(c)
                   \/ \E onOff \in {"on", "off"} : SetAutoCheck(c, onOff)
  BY <1>8 DEF Notify, WakeCheckTask, SetAutoCheck, Notified, CallStep, statusVars, installVars, callVars, mqttVars
<1>9. CASE ViewOnConnect \/ PublishOnConnect
  BY <1>9 DEF ViewOnConnect, PublishOnConnect, CallStep, statusVars, installVars, callVars, mqttVars
<1>10. CASE \E c \in Callers, r \in Releases \cup {0} : Resolve(c, r)
  BY <1>10 DEF Resolve, CallStep, statusVars, installVars, callVars, mqttVars
<1>11. CASE \E c \in Callers : Claim(c)
  BY <1>11 DEF Claim, CallStep, statusVars, installVars, callVars, mqttVars
<1>12. CASE \E c \in Callers : Busy(c)
  BY <1>12 DEF Busy, Returned, CallStep, statusVars, installVars, callVars, mqttVars
<1>13. CASE \E c \in Callers : CreateTask(c)
  BY <1>13 DEF CreateTask, Returned, CallStep, statusVars, installVars, callVars, mqttVars
<1>14. CASE \E c \in Callers : CreateFailed(c)
  BY <1>14 DEF CreateFailed, Returned, CallStep, statusVars, installVars, callVars, mqttVars
<1>15. CASE BeginInstall
  BY <1>15 DEF BeginInstall, InstallStep, statusVars, installVars, callVars, mqttVars
<1>16. CASE ViewInstall
  BY <1>16 DEF ViewInstall, InstallStep, statusVars, installVars, callVars, mqttVars
<1>17. CASE PublishInstall
  BY <1>17 DEF PublishInstall, Published, InstallStep, statusVars, installVars, callVars, mqttVars
<1>18. CASE Progress
  BY <1>18 DEF Progress, InstallStep, statusVars, installVars, callVars, mqttVars
<1>19. CASE \E outcome \in {"success", "error"} : EndInstall(outcome)
  BY <1>19 DEF EndInstall, InstallStep, statusVars, installVars, callVars, mqttVars
<1>20. CASE GiveInstall
  BY <1>20 DEF GiveInstall, InstallStep, statusVars, installVars, callVars, mqttVars
<1>21. CASE Reboot
  BY <1>21 DEF Reboot, statusVars, installVars, callVars, mqttVars
<1>22. CASE UNCHANGED vars
  BY <1>22 DEF vars, statusVars, installVars, callVars, mqttVars
<1> QED
  BY Steps, <1>1, <1>2, <1>3, <1>4, <1>5, <1>6, <1>7, <1>8, <1>9, <1>10, <1>11, <1>12, <1>13, <1>14, <1>15, <1>16, <1>17, <1>18, <1>19, <1>20, <1>21, <1>22

(* What Resolve() accepts is a release: the last check found it.            *)
LEMMA ResolvedRelease ==
  ASSUME TypeOK, NEW r \in Releases \cup {0}, Known(Resolved(r))
  PROVE  Resolved(r) \in Releases
<1>1. PICK i \in DOMAIN versions : versions[i] = Resolved(r)
  BY DEF Known
<1>2. versions \in Seq(Releases)
  BY DEF TypeOK
<1> QED
  BY <1>1, <1>2

(* Types.                                                                   *)
LEMMA TypeStep ==
  ASSUME Inv, [Next]_vars
  PROVE  TypeOK'
<1> USE CallersAssumption, ReleasesAssumption DEF Inv, TypeOK, CopyHeld, States, Tasks, Blank, InProgress, TakeView, SendView
<1>1. CASE \E scheduled \in {"yes", "no"} : Wake(scheduled)
  BY <1>1 DEF Wake, CheckStep, statusVars, installVars, callVars, mqttVars
<1>2. CASE BeginCheck
  BY <1>2 DEF BeginCheck, CheckStep, statusVars, installVars, callVars, mqttVars
<1>3. CASE \E feed \in Feeds : QueryDone(feed)
  BY <1>3 DEF QueryDone, CheckStep, statusVars, installVars, callVars, mqttVars
<1>4. CASE QueryFailed
  BY <1>4 DEF QueryFailed, CheckStep, statusVars, installVars, callVars, mqttVars
<1>5. CASE GiveCheck
  BY <1>5 DEF GiveCheck, CheckStep, statusVars, installVars, callVars, mqttVars
<1>6. CASE ViewCheck \/ PublishCheck \/ Usage
  <2>1. CASE ViewCheck
    BY <2>1 DEF ViewCheck, CheckStep, statusVars, installVars, callVars, mqttVars
  <2>2. CASE PublishCheck
    <3>1. view["check"] \in {"installing", "settled"}
      BY <2>2 DEF PublishCheck, CheckStep
    <3> QED
      BY <2>2, <3>1 DEF PublishCheck, CheckStep, statusVars, installVars, callVars, mqttVars
  <2>3. CASE Usage
    BY <2>3 DEF Usage, EnterUsage, SkipUsage, LeaveUsage, CheckStep, statusVars, installVars, callVars, mqttVars
  <2> QED
    BY <1>6, <2>1, <2>2, <2>3
<1>7. CASE \E c \in Callers : Announce(c)
  BY <1>7 DEF Announce, Announced, CallStep, statusVars, installVars, callVars, mqttVars
<1>8. CASE \E c \in Callers : Notify(c) \/ WakeCheckTask(c)
                   \/ \E onOff \in {"on", "off"} : SetAutoCheck(c, onOff)
  <2>1. CASE \E c \in Callers : Notify(c)
    BY <2>1 DEF Notify, Notified, CallStep, statusVars, installVars, callVars, mqttVars
  <2>2. CASE \E c \in Callers : WakeCheckTask(c)
    BY <2>2 DEF WakeCheckTask, Notified, CallStep, statusVars, installVars, callVars, mqttVars
  <2>3. CASE \E c \in Callers, onOff \in {"on", "off"} : SetAutoCheck(c, onOff)
    BY <2>3 DEF SetAutoCheck, CallStep, statusVars, installVars, callVars, mqttVars
  <2> QED
    BY <1>8, <2>1, <2>2, <2>3
<1>9. CASE ViewOnConnect \/ PublishOnConnect
  <2>1. CASE ViewOnConnect
    BY <2>1 DEF ViewOnConnect, CallStep, statusVars, installVars, callVars, mqttVars
  <2>2. CASE PublishOnConnect
    <3>1. view[MqttTask] \in {"installing", "settled"}
      BY <2>2 DEF PublishOnConnect, CallStep
    <3> QED
      BY <2>2, <3>1 DEF PublishOnConnect, CallStep, statusVars, installVars, callVars, mqttVars
  <2> QED
    BY <1>9, <2>1, <2>2
<1>10. CASE \E c \in Callers, r \in Releases \cup {0} : Resolve(c, r)
  <2>1. PICK c \in Callers, r \in Releases \cup {0} : Resolve(c, r)
    BY <1>10
  <2>2. Resolved(r) \in Releases
    BY <2>1, ResolvedRelease DEF Resolve
  <2> QED
    BY <2>1, <2>2 DEF Resolve, CallStep, statusVars, installVars, callVars, mqttVars
<1>11. CASE \E c \in Callers : Claim(c)
  BY <1>11 DEF Claim, CallStep, statusVars, installVars, callVars, mqttVars
<1>12. CASE \E c \in Callers : Busy(c)
  BY <1>12 DEF Busy, Returned, CallStep, statusVars, installVars, callVars, mqttVars
<1>13. CASE \E c \in Callers : CreateTask(c)
  BY <1>13 DEF CreateTask, Returned, CallStep, statusVars, installVars, callVars, mqttVars
<1>14. CASE \E c \in Callers : CreateFailed(c)
  BY <1>14 DEF CreateFailed, Returned, CallStep, statusVars, installVars, callVars, mqttVars
<1>15. CASE BeginInstall
  BY <1>15 DEF BeginInstall, InstallStep, statusVars, installVars, callVars, mqttVars
<1>16. CASE ViewInstall
  BY <1>16 DEF ViewInstall, InstallStep, statusVars, installVars, callVars, mqttVars
<1>17. CASE PublishInstall
  BY <1>17 DEF PublishInstall, Published, InstallStep, statusVars, installVars, callVars, mqttVars
<1>18. CASE Progress
  BY <1>18 DEF Progress, InstallStep, statusVars, installVars, callVars, mqttVars
<1>19. CASE \E outcome \in {"success", "error"} : EndInstall(outcome)
  BY <1>19 DEF EndInstall, InstallStep, statusVars, installVars, callVars, mqttVars
<1>20. CASE GiveInstall
  BY <1>20 DEF GiveInstall, InstallStep, statusVars, installVars, callVars, mqttVars
<1>21. CASE Reboot
  <2>1. installing \in Releases
    BY <1>21 DEF Reboot, InstallsWhatWasAsked, TagHeld
  <2> QED
    BY <1>21, <2>1 DEF Reboot
<1>22. CASE UNCHANGED vars
  BY <1>22 DEF vars, statusVars, installVars, callVars, mqttVars
<1> QED
  BY Steps, <1>1, <1>2, <1>3, <1>4, <1>5, <1>6, <1>7, <1>8, <1>9, <1>10, <1>11, <1>12, <1>13, <1>14, <1>15, <1>16, <1>17, <1>18, <1>19, <1>20, <1>21, <1>22

(* The inductive invariant holds.                                           *)
LEMMA Invariance == Spec => []Inv
<1>1. Init => Inv
  BY InitInv
<1>2. Inv /\ [Next]_vars => Inv'
  BY TypeStep, LockStep, TagStep, CopyStep, FailureStep DEF Inv
<1> QED
  BY <1>1, <1>2, PTL DEF Spec

-----------------------------------------------------------------------------
(* Types, and a call that got past the look-up has a release.               *)
THEOREM TypeCorrect == Spec => []TypeOK
<1>1. Inv => TypeOK
  BY DEF Inv
<1> QED
  BY <1>1, Invariance, PTL

(* s_op_lock serializes checks and installs through its hand-over from the  *)
(* caller to the install task.                                              *)
THEOREM OperationsSerialized == Spec => []OneOperation
<1>1. Inv => OneOperation
  BY DEF Inv
<1> QED
  BY <1>1, Invariance, PTL

(* The release that gets installed is the one asked for by the call that    *)
(* was told ESP_OK.                                                         *)
THEOREM RightRelease == Spec => []InstallsWhatWasAsked
<1>1. Inv => InstallsWhatWasAsked
  BY DEF Inv
<1> QED
  BY <1>1, Invariance, PTL

(* Once a download shows, only the install task changes the state.          *)
THEOREM StateIsTheInstalls == Spec => InstallKeepsState
<1>1. ASSUME Inv, [Next]_vars, state \in InProgress, state' # state
      PROVE  installPc' # installPc
  <2> USE <1>1, CallersAssumption DEF Inv, OneOperation, InProgress
  <2>1. CASE \E scheduled \in {"yes", "no"} : Wake(scheduled)
    BY <2>1 DEF Wake, CheckStep, statusVars, installVars, callVars, mqttVars
  <2>2. CASE BeginCheck
    BY <2>2 DEF BeginCheck, CheckStep, statusVars, installVars, callVars, mqttVars
  <2>3. CASE \E feed \in Feeds : QueryDone(feed)
    BY <2>3 DEF QueryDone, CheckStep, statusVars, installVars, callVars, mqttVars
  <2>4. CASE QueryFailed
    BY <2>4 DEF QueryFailed, CheckStep, statusVars, installVars, callVars, mqttVars
  <2>5. CASE GiveCheck
    BY <2>5 DEF GiveCheck, CheckStep, statusVars, installVars, callVars, mqttVars
  <2>6. CASE ViewCheck \/ PublishCheck \/ Usage
    BY <2>6 DEF ViewCheck, PublishCheck, Usage, EnterUsage, SkipUsage, LeaveUsage, CheckStep, statusVars, installVars, callVars, mqttVars
  <2>7. CASE \E c \in Callers : Announce(c)
    BY <2>7 DEF Announce, Announced, CallStep, statusVars, installVars, callVars, mqttVars
  <2>8. CASE \E c \in Callers : Notify(c) \/ WakeCheckTask(c)
                     \/ \E onOff \in {"on", "off"} : SetAutoCheck(c, onOff)
    BY <2>8 DEF Notify, WakeCheckTask, SetAutoCheck, Notified, CallStep, statusVars, installVars, callVars, mqttVars
  <2>9. CASE ViewOnConnect \/ PublishOnConnect
    BY <2>9 DEF ViewOnConnect, PublishOnConnect, CallStep, statusVars, installVars, callVars, mqttVars
  <2>10. CASE \E c \in Callers, r \in Releases \cup {0} : Resolve(c, r)
    BY <2>10 DEF Resolve, CallStep, statusVars, installVars, callVars, mqttVars
  <2>11. CASE \E c \in Callers : Claim(c)
    BY <2>11 DEF Claim, CallStep, statusVars, installVars, callVars, mqttVars
  <2>12. CASE \E c \in Callers : Busy(c)
    BY <2>12 DEF Busy, Returned, CallStep, statusVars, installVars, callVars, mqttVars
  <2>13. CASE \E c \in Callers : CreateTask(c)
    BY <2>13 DEF CreateTask, Returned, CallStep, statusVars, installVars, callVars, mqttVars
  <2>14. CASE \E c \in Callers : CreateFailed(c)
    BY <2>14 DEF CreateFailed, Returned, CallStep, statusVars, installVars, callVars, mqttVars
  <2>15. CASE BeginInstall
    BY <2>15 DEF BeginInstall, InstallStep, statusVars, installVars, callVars, mqttVars
  <2>16. CASE ViewInstall
    BY <2>16 DEF ViewInstall, InstallStep, statusVars, installVars, callVars, mqttVars
  <2>17. CASE PublishInstall
    BY <2>17 DEF PublishInstall, Published, InstallStep, statusVars, installVars, callVars, mqttVars
  <2>18. CASE Progress
    BY <2>18 DEF Progress, InstallStep, statusVars, installVars, callVars, mqttVars
  <2>19. CASE \E outcome \in {"success", "error"} : EndInstall(outcome)
    BY <2>19 DEF EndInstall, InstallStep, statusVars, installVars, callVars, mqttVars
  <2>20. CASE GiveInstall
    BY <2>20 DEF GiveInstall, InstallStep, statusVars, installVars, callVars, mqttVars
  <2>21. CASE Reboot
    BY <2>21 DEF Reboot, statusVars, installVars, callVars, mqttVars
  <2>22. CASE UNCHANGED vars
    BY <2>22 DEF vars, statusVars, installVars, callVars, mqttVars
  <2> QED
    BY Steps, <2>1, <2>2, <2>3, <2>4, <2>5, <2>6, <2>7, <2>8, <2>9, <2>10, <2>11, <2>12, <2>13, <2>14, <2>15, <2>16, <2>17, <2>18, <2>19, <2>20, <2>21, <2>22
<1>2. Inv /\ [Next]_vars
      => [(state \in InProgress /\ state' # state) => installPc' # installPc]_vars
  BY <1>1
<1> QED
  BY <1>2, Invariance, PTL DEF Spec, InstallKeepsState
=============================================================================
