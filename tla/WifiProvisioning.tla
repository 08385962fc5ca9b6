--------------------------- MODULE WifiProvisioning ----------------------------
(***************************************************************************)
(* main/wifi_provisioning.c: the station, which retries for ever with the  *)
(* credentials stored, and the rescue portal beside it. Three tasks decide *)
(* about them: the event loop, whose handler follows the driver's events   *)
(* some time after they happened; the timer task, which starts the next    *)
(* attempt; and the supervisor, which raises and drops the portal from     *)
(* what it read of the handler's variables.                                *)
(*                                                                         *)
(* The driver and the network are external: an attempt ends in an event.   *)
(* How long the backoff is does not matter here, only that it ends.        *)
(***************************************************************************)
EXTENDS Integers, Sequences

CONSTANTS
  Delay,         \* WIFI_RESCUE_PORTAL_DELAY_MS, in ticks
  AuthDelay,     \* WIFI_RESCUE_PORTAL_AUTH_MS
  AuthFailures,  \* WIFI_AUTH_FAIL_THRESHOLD
  MaxChanges     \* bound: changes of the network, chance failures, users,
                 \* timer commands that find the queue full

VARIABLES
  network,    \* external: "good", "no address", "away"
  creds,      \* the stored credentials: "none", "stale" or "right"
  station,    \* the driver: "idle", "connecting", "associated", "online"
  events,     \* events posted and not handled yet
  connected,  \* s_wifi_connected
  offline,    \* ticks since s_offline_since_us, or Never
  rejected,   \* s_auth_failures
  retry,      \* s_wifi_retry_timer is armed
  portal,     \* s_provisioning_active
  supervisor, \* what the supervisor is about to do
  refused,    \* history: the timer was to be armed and the command got lost
  changes     \* counter of the bound

driverVars == <<station, events>>
handlerVars == <<connected, offline, rejected, retry, refused>>
portalVars == <<portal, supervisor>>
outsideVars == <<network, creds, changes>>
wifiVars == <<driverVars, handlerVars, portalVars, outsideVars>>

Never == -1
Change == changes < MaxChanges /\ changes' = changes + 1

-----------------------------------------------------------------------------
(* The driver.                                                               *)
Fails(reason) ==
  /\ station = "connecting" /\ station' = "idle"
  /\ events' = Append(events, reason)
  /\ UNCHANGED <<handlerVars, portalVars, network, creds>>

AttemptFails ==
  \/ network = "away" /\ Fails("lost") /\ UNCHANGED changes
  \/ network # "away" /\ creds = "stale" /\ Fails("rejected") /\ UNCHANGED changes
  \/ \E reason \in {"lost", "rejected"} : Fails(reason) /\ Change

Associates ==
  /\ station = "connecting" /\ station' = "associated"
  /\ network # "away" /\ creds = "right"
  /\ UNCHANGED <<events, handlerVars, portalVars, outsideVars>>

GetsAddress ==
  /\ station = "associated" /\ station' = "online"
  /\ network = "good"
  /\ events' = Append(events, "address")
  /\ UNCHANGED <<handlerVars, portalVars, outsideVars>>

Drops ==
  /\ station \in {"associated", "online"} /\ station' = "idle"
  /\ \/ network = "away" /\ UNCHANGED changes
     \/ Change
  /\ events' = Append(events, "lost")
  /\ UNCHANGED <<handlerVars, portalVars, network, creds>>

-----------------------------------------------------------------------------
(* wifi_event_handler(), in the event loop.                                  *)
Handling(event) ==
  /\ events # <<>> /\ Head(events) = event /\ events' = Tail(events)
  /\ UNCHANGED <<portalVars, network, creds>>

Connecting == IF creds # "none" /\ station = "idle" THEN "connecting" ELSE station

StationStarts ==
  /\ Handling("start")
  /\ station' = Connecting
  /\ UNCHANGED <<handlerVars, changes>>

(* Variant: credentials the network rejects are not tried again.             *)
RearmUnlessRejected(event) ==
  retry' = (retry \/ event # "rejected") /\ refused' = FALSE /\ UNCHANGED changes

(* Whatever the reason, the timer is armed for another attempt. The handler  *)
(* does not wait for the timer task: a command that finds its queue full is  *)
(* lost, and the handler does not notice.                                    *)
Rearm(event) ==
  \/ retry' = TRUE /\ refused' = FALSE /\ UNCHANGED changes
  \/ retry' = retry /\ refused' = TRUE /\ Change

StopTimer ==
  /\ \/ retry' = FALSE /\ UNCHANGED changes
     \/ retry /\ retry' = TRUE /\ Change
  /\ refused' = FALSE

Disconnected ==
  \E event \in {"lost", "rejected"} :
    /\ Handling(event)
    /\ connected' = FALSE
    /\ offline' = IF offline = Never THEN 0 ELSE offline
    /\ rejected' = IF event = "lost" THEN 0
                   ELSE IF rejected < AuthFailures THEN rejected + 1 ELSE rejected
    /\ Rearm(event)
    /\ UNCHANGED station

GotAddress ==
  /\ Handling("address")
  /\ connected' = TRUE /\ offline' = Never /\ rejected' = 0 /\ StopTimer
  /\ UNCHANGED station

RetryTimer ==
  /\ retry /\ retry' = FALSE /\ refused' = FALSE
  /\ station' = Connecting
  /\ UNCHANGED <<events, connected, offline, rejected, portalVars, outsideVars>>

-----------------------------------------------------------------------------
(* wifi_supervisor_task(): it looks every WIFI_SUPERVISOR_INTERVAL_MS, and   *)
(* acts on what it saw.                                                      *)

(* rescue_portal_due()                                                       *)
PortalDue ==
  \/ creds = "none"
  \/ offline # Never /\ offline >= (IF rejected = AuthFailures THEN AuthDelay ELSE Delay)

Look ==
  /\ supervisor = "idle"
  /\ \/ connected /\ portal /\ supervisor' = "drop"
     \/ ~ connected /\ ~ portal /\ PortalDue /\ supervisor' = "raise"
  /\ UNCHANGED <<driverVars, handlerVars, portal, outsideVars>>

(* rescue_portal_start() leaves attempts in flight undisturbed, and may fail *)
(* to set the mode.                                                          *)
Raise ==
  /\ supervisor = "raise" /\ supervisor' = "idle"
  /\ \/ portal' = TRUE /\ UNCHANGED changes
     \/ portal' = portal /\ Change
  /\ UNCHANGED <<driverVars, handlerVars, network, creds>>

Drop ==
  /\ supervisor = "drop" /\ supervisor' = "idle" /\ portal' = FALSE
  /\ UNCHANGED <<driverVars, handlerVars, outsideVars>>

Tick ==
  /\ offline \in 0 .. Delay - 1 /\ offline' = offline + 1
  /\ UNCHANGED <<driverVars, connected, rejected, retry, refused, portalVars, outsideVars>>

-----------------------------------------------------------------------------
NetworkChanges ==
  /\ Change
  /\ \/ network' \in {"good", "no address", "away"} \ {network} /\ UNCHANGED creds
     \/ creds = "right" /\ creds' = "stale" /\ UNCHANGED network
  /\ UNCHANGED <<driverVars, handlerVars, portalVars>>

Boot ==
  /\ station' = "idle" /\ events' = <<"start">>
  /\ connected' = FALSE /\ offline' = Never /\ rejected' = 0
  /\ retry' = FALSE /\ refused' = FALSE
  /\ portal' = FALSE /\ supervisor' = "idle"

(* provision_post_handler(): new credentials, and a restart. The page is     *)
(* reached on the network or through the portal.                             *)
Provision ==
  /\ Change
  /\ connected \/ portal
  /\ creds' \in {"stale", "right"}
  /\ Boot /\ UNCHANGED network

WifiInit ==
  /\ network \in {"good", "no address", "away"} /\ creds \in {"none", "stale", "right"}
  /\ station = "idle" /\ events = <<"start">>
  /\ connected = FALSE /\ offline = Never /\ rejected = 0 /\ retry = FALSE /\ refused = FALSE
  /\ portal = FALSE /\ supervisor = "idle" /\ changes = 0

Driver == AttemptFails \/ Associates \/ GetsAddress \/ Drops
Handler == StationStarts \/ Disconnected \/ GotAddress
Supervisor == Look \/ Raise \/ Drop

WifiNext == Driver \/ Handler \/ RetryTimer \/ Supervisor \/ Tick \/ NetworkChanges \/ Provision

WifiTypeOK ==
  /\ offline \in {Never} \cup 0 .. Delay /\ rejected \in 0 .. AuthFailures
  /\ station = "online" /\ events = <<>> => connected

-----------------------------------------------------------------------------
(* An attempt that got no address is not noticed as an outage unless one was *)
(* going on before: nothing sets s_offline_since_us.                         *)
Unnoticed == station = "associated" /\ offline = Never

(* wifi_event_handler(), wifi_supervisor_task(): again and again the device  *)
(* is reached, on its network or through the portal; and once the network    *)
(* and the credentials are good the station heals by itself and the portal   *)
(* goes, unless the command that was to arm the timer got lost: then no      *)
(* attempt follows any more, and only the portal is left.                    *)
Reachable == []<>(connected \/ portal \/ Unnoticed)
Heals ==
  <>[](network = "good" /\ creds = "right" /\ ~ refused) => <>[](connected /\ ~ portal)
=============================================================================
