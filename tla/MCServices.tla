------------------------------ MODULE MCServices ------------------------------
(***************************************************************************)
(* The parts of the firmware beside the bus and the pool state, for TLC:   *)
(* the usage report, the client of the bridge, its lines, the energy       *)
(* meters, the live log, the reset of the entities and the station with    *)
(* its rescue portal. They share nothing: a behaviour is about one of      *)
(* them, the one in focus, and the others stay as they were when the       *)
(* device started.                                                         *)
(***************************************************************************)
EXTENDS MCUsageReport, TcpBridge, EnergyMeter, EntityReset, WebLog

VARIABLES
  network, creds, station, events, connected, offline, rejected, retry, refused, portal,
  supervisor
VARIABLES wifiChanges, focus

Lines == INSTANCE TcpBridge WITH
  Sockets <- {"s1"}, Loggers <- {}, MaxFrames <- 4, MaxTimeouts <- 0
System == INSTANCE EnergyMeter WITH Baseline <- Meters
Wifi == INSTANCE WifiProvisioning WITH
  Delay <- 2, AuthDelay <- 1, AuthFailures <- 2, MaxChanges <- 3, changes <- wifiChanges

wifiVars ==
  <<network, creds, station, events, connected, offline, rejected, retry, refused, portal,
    supervisor, wifiChanges>>
allVars == <<vars, bridgeVars, energyVars, webLogVars, resetVars, wifiVars, focus>>

AllInit ==
  /\ focus \in {"usage", "client", "lines", "channel", "system", "log", "reset", "wifi"}
  /\ Init /\ BridgeInit /\ EnergyInit /\ LogInit /\ ResetInit /\ Wifi!WifiInit
  /\ focus # "wifi" => network = "good" /\ creds = "right"

(* The parts that are not the one in focus.                                 *)
NotUsage == UNCHANGED <<bridgeVars, energyVars, webLogVars, resetVars, wifiVars>>
NotBridge == UNCHANGED <<vars, energyVars, webLogVars, resetVars, wifiVars>>
NotEnergy == UNCHANGED <<vars, bridgeVars, webLogVars, resetVars, wifiVars>>
NotLog == UNCHANGED <<vars, bridgeVars, energyVars, resetVars, wifiVars>>
NotReset == UNCHANGED <<vars, bridgeVars, energyVars, webLogVars, wifiVars>>
NotWifi == UNCHANGED <<vars, bridgeVars, energyVars, webLogVars, resetVars>>

AllNext ==
  /\ UNCHANGED focus
  /\ \/ focus = "usage" /\ Next /\ NotUsage
     \/ focus = "client" /\ BridgeNext /\ NotBridge
     \/ focus = "lines" /\ Lines!BridgeNext /\ NotBridge
     \/ focus = "channel" /\ EnergyNext /\ NotEnergy
     \/ focus = "system" /\ System!EnergyNext /\ NotEnergy
     \/ focus = "log" /\ LogNext /\ NotLog
     \/ focus = "reset" /\ ResetNext /\ NotReset
     \/ focus = "wifi" /\ Wifi!WifiNext /\ NotWifi

(* The tasks of the station and the driver go on: an attempt to connect     *)
(* ends, an address comes where the network gives one, the event loop, the  *)
(* timer and the supervisor run. Nothing makes the network or the user act. *)
WifiFairness ==
  /\ WF_wifiVars(focus = "wifi" /\ Wifi!AttemptFails)
  /\ WF_wifiVars(focus = "wifi" /\ Wifi!Associates)
  /\ WF_wifiVars(focus = "wifi" /\ Wifi!GetsAddress)
  /\ WF_wifiVars(focus = "wifi" /\ Wifi!Drops)
  /\ WF_wifiVars(focus = "wifi" /\ Wifi!Handler)
  /\ WF_wifiVars(focus = "wifi" /\ Wifi!RetryTimer)
  /\ WF_wifiVars(focus = "wifi" /\ Wifi!Supervisor)
  /\ WF_wifiVars(focus = "wifi" /\ Wifi!Tick)

AllSpec == AllInit /\ [][AllNext]_allVars /\ Fairness /\ WifiFairness

(* wifi_event_handler(), wifi_supervisor_task(): the device can be reached  *)
(* again and again, and the station heals when the network does, unless the *)
(* command to arm its timer was lost.                                       *)
StationHeals == focus = "wifi" => []Wifi!WifiTypeOK /\ Wifi!Reachable /\ Wifi!Heals
=============================================================================
