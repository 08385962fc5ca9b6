------------------------------- MODULE TcpBridge -------------------------------
(***************************************************************************)
(* The rest of main/tcp_bridge.c: the one TCP client, the log lines of any *)
(* task mirrored to it, and the lines it types, which are sent on the bus. *)
(* The receive loop itself is Framing.                                     *)
(*                                                                         *)
(* The log hook runs in every task that logs and never waits; the socket   *)
(* it sends to is guarded by s_log_mutex, which the bridge task gives up   *)
(* waiting for after a while. A descriptor that is closed is soon open     *)
(* again for something else.                                               *)
(*                                                                         *)
(* What the client sends is decoded at once, so its echo, which the bridge *)
(* task reads later among all other frames, is not.                        *)
(***************************************************************************)
EXTENDS Integers, Sequences

CONSTANTS
  Sockets,      \* descriptors
  Loggers,      \* tasks that log
  Frames,       \* what is sent on the bus
  Window,       \* LOOPBACK_DETECTION_MS, in ticks
  MaxFrames,    \* bound: frames on the bus
  MaxTimeouts   \* bound: waits for s_log_mutex given up

NoSocket == "no socket"
Free == "free"
NoFrame == "no frame"

ASSUME BridgeAssumption ==
  /\ NoSocket \notin Sockets /\ Free \notin Loggers /\ NoFrame \notin Frames
  /\ Window \in Nat \ {0} /\ MaxFrames \in Nat /\ MaxTimeouts \in Nat

VARIABLES
  client,     \* client_sock
  logClient,  \* s_log_client_sock
  openFor,    \* what each descriptor is open for
  mutex,      \* s_log_mutex: the task that has it
  logHook,    \* where each task is in the log hook
  target,     \* and the socket it sends to
  at,         \* where the bridge task is
  batch,      \* lines received and not processed
  tx,         \* s_last_tx_msg
  age,        \* time since s_last_tx_time, up to Window
  rx,         \* frames on their way to the bridge task, and whose they are
  frames, timeouts, \* counters of the bounds
  surplus,    \* history: how much more often a frame was decoded than sent
  excused,    \* history: an echo came too late, or not, or after another line
  stray       \* history: a log line was sent to something else

clientVars == <<client, openFor>>
logVars == <<logClient, mutex, timeouts>>
hookVars == <<logHook, target, stray>>
echoVars == <<batch, tx, age, rx, frames, surplus, excused>>
bridgeVars == <<clientVars, logVars, hookVars, at, echoVars>>

-----------------------------------------------------------------------------
(* tcp_bridge_vprintf(), in the task that logs.                              *)
Hint(l) ==
  /\ logHook[l] = "away" /\ logClient # NoSocket
  /\ logHook' = [logHook EXCEPT ![l] = "formatted"] /\ target' = [target EXCEPT ![l] = logClient]
  /\ UNCHANGED <<clientVars, logVars, stray, at, echoVars>>

TakeOrDrop(l) ==
  /\ logHook[l] = "formatted"
  /\ \/ mutex = Free /\ mutex' = l /\ logHook' = [logHook EXCEPT ![l] = "locked"]
     \/ mutex # Free /\ mutex' = mutex /\ logHook' = [logHook EXCEPT ![l] = "away"]
  /\ UNCHANGED <<clientVars, logClient, timeouts, target, stray, at, echoVars>>

(* Variant: the socket read before the mutex was taken is used.              *)
Hinted(l) == target[l]

(* The socket read before is only a hint.                                    *)
Rechecked(l) == logClient

Recheck(l) ==
  /\ logHook[l] = "locked"
  /\ \/ /\ Rechecked(l) # NoSocket
        /\ logHook' = [logHook EXCEPT ![l] = "sending"]
        /\ target' = [target EXCEPT ![l] = Rechecked(l)]
        /\ mutex' = mutex
     \/ /\ Rechecked(l) = NoSocket
        /\ logHook' = [logHook EXCEPT ![l] = "away"] /\ mutex' = Free /\ target' = target
  /\ UNCHANGED <<clientVars, logClient, timeouts, stray, at, echoVars>>

SendLine(l) ==
  /\ logHook[l] = "sending"
  /\ logHook' = [logHook EXCEPT ![l] = "away"] /\ mutex' = Free
  /\ stray' = (stray \/ openFor[target[l]] # "client")
  /\ UNCHANGED <<clientVars, logClient, timeouts, target, at, echoVars>>

-----------------------------------------------------------------------------
(* The bridge task and its client.                                           *)
Goes(from, to) == at = from /\ at' = to

(* tcp_bridge_set_log_client(): after MUTEX_TIMEOUT_MS it changes nothing.   *)
SetLogClient(socket) ==
  \/ mutex = Free /\ logClient' = socket /\ UNCHANGED <<mutex, timeouts>>
  \/ /\ mutex # Free /\ timeouts < MaxTimeouts
     /\ timeouts' = timeouts + 1 /\ UNCHANGED <<logClient, mutex>>

Accept ==
  /\ Goes("poll", "enable")
  /\ client = NoSocket
  /\ \E s \in Sockets :
       /\ openFor[s] = "nothing"
       /\ openFor' = [openFor EXCEPT ![s] = "client"] /\ client' = s
  /\ UNCHANGED <<logVars, hookVars, echoVars>>

NobodyConnects == Goes("poll", "read") /\ UNCHANGED <<clientVars, logVars, hookVars, echoVars>>

(* The greeting may fail.                                                    *)
Enable ==
  /\ Goes("enable", "read") \/ Goes("enable", "disable")
  /\ SetLogClient(client)
  /\ UNCHANGED <<clientVars, hookVars, echoVars>>

(* tcp_bridge_close_client()                                                 *)
Disable ==
  /\ Goes("disable", "close")
  /\ SetLogClient(NoSocket)
  /\ UNCHANGED <<clientVars, hookVars, echoVars>>

Close ==
  /\ Goes("close", "poll")
  /\ openFor' = [openFor EXCEPT ![client] = "nothing"] /\ client' = NoSocket
  /\ UNCHANGED <<logVars, hookVars, echoVars>>

(* Another task opens a socket, or closes it.                                *)
OtherSocket ==
  \E s \in Sockets :
    /\ \/ openFor[s] = "nothing" /\ openFor' = [openFor EXCEPT ![s] = "another"]
       \/ openFor[s] = "another" /\ openFor' = [openFor EXCEPT ![s] = "nothing"]
    /\ UNCHANGED <<client, logVars, hookVars, at, echoVars>>

-----------------------------------------------------------------------------
(* What comes over the bus, and what the client types.                       *)
EchoDue == \E i \in DOMAIN rx : rx[i].ours

FrameArrives(f) ==
  /\ frames < MaxFrames /\ frames' = frames + 1
  /\ rx' = Append(rx, [frame |-> f, ours |-> FALSE])
  /\ surplus' = [surplus EXCEPT ![f] = @ - 1]
  /\ UNCHANGED <<clientVars, logVars, hookVars, at, batch, tx, age, excused>>

(* Variant: once recognised, the frame is still looked for.                  *)
StillLookedFor(f) == f
Recognised(f) == NoFrame

ReadFrame ==
  /\ at = "read" /\ at' = "read"
  /\ rx # <<>> /\ rx' = Tail(rx)
  /\ LET f == Head(rx).frame
         loopback == tx = f /\ age < Window
     IN  /\ tx' = IF loopback THEN Recognised(f) ELSE tx
         /\ surplus' = IF loopback THEN surplus ELSE [surplus EXCEPT ![f] = @ + 1]
  /\ UNCHANGED <<clientVars, logVars, hookVars, batch, age, frames, excused>>

NoMoreToRead ==
  /\ Goes("read", IF client = NoSocket THEN "poll" ELSE "receive")
  /\ UNCHANGED <<clientVars, logVars, hookVars, echoVars>>

(* recv(): up to two lines, nothing, or the end of the connection.           *)
Receive ==
  /\ \/ Goes("receive", "line") /\ batch' \in {<<f>> : f \in Frames} \cup (Frames \X Frames)
     \/ (Goes("receive", "poll") \/ Goes("receive", "disable")) /\ batch' = batch
  /\ UNCHANGED <<clientVars, logVars, hookVars, tx, age, rx, frames, surplus, excused>>

(* The time is taken before uart_write() waits for a quiet bus.              *)
StartLine ==
  /\ Goes("line", "sending")
  /\ batch # <<>> /\ frames < MaxFrames /\ frames' = frames + 1
  /\ tx' = Head(batch) /\ age' = 0
  /\ excused' = (excused \/ EchoDue)
  /\ UNCHANGED <<clientVars, logVars, hookVars, batch, rx, surplus>>

(* Sent, and decoded; its echo may not come.                                 *)
Sent ==
  /\ at = "sending" /\ batch' = Tail(batch)
  /\ at' \in {"line", "disable"}
  /\ \/ rx' = Append(rx, [frame |-> Head(batch), ours |-> TRUE]) /\ excused' = excused
     \/ rx' = rx /\ excused' = TRUE
  /\ UNCHANGED <<clientVars, logVars, hookVars, tx, age, frames, surplus>>

NotSent ==
  /\ at = "sending" /\ batch' = Tail(batch)
  /\ at' \in {"line", "disable"}
  /\ tx' = NoFrame
  /\ UNCHANGED <<clientVars, logVars, hookVars, age, rx, frames, surplus, excused>>

(* All lines are done, or the client cannot be answered: those left are lost.*)
EndOfLines ==
  /\ (Goes("line", "poll") /\ batch = <<>>) \/ Goes("line", "disable")
  /\ batch' = <<>>
  /\ UNCHANGED <<clientVars, logVars, hookVars, tx, age, rx, frames, surplus, excused>>

Tick ==
  /\ age < Window /\ age' = age + 1
  /\ excused' = (excused \/ (age' = Window /\ tx # NoFrame /\ (at = "sending" \/ EchoDue)))
  /\ UNCHANGED <<clientVars, logVars, hookVars, at, batch, tx, rx, frames, surplus>>

-----------------------------------------------------------------------------
BridgeInit ==
  /\ client = NoSocket /\ logClient = NoSocket /\ openFor = [s \in Sockets |-> "nothing"]
  /\ mutex = Free /\ logHook = [l \in Loggers |-> "away"] /\ target = [l \in Loggers |-> NoSocket]
  /\ at = "poll" /\ batch = <<>> /\ tx = NoFrame /\ age = 0 /\ rx = <<>>
  /\ frames = 0 /\ timeouts = 0
  /\ surplus = [f \in Frames |-> 0] /\ excused = FALSE /\ stray = FALSE

LoggerSteps(l) == Hint(l) \/ TakeOrDrop(l) \/ Recheck(l) \/ SendLine(l)
ServeClient == Accept \/ NobodyConnects \/ Enable \/ Disable \/ Close
Relay == ReadFrame \/ NoMoreToRead \/ Receive \/ StartLine \/ Sent \/ NotSent \/ EndOfLines

BridgeNext ==
  \/ \E l \in Loggers : LoggerSteps(l)
  \/ ServeClient \/ OtherSocket \/ Relay
  \/ \E f \in Frames : FrameArrives(f)
  \/ Tick

BridgeSpec == BridgeInit /\ [][BridgeNext]_bridgeVars

-----------------------------------------------------------------------------
(* tcp_bridge_vprintf(), tcp_bridge_close_client(): "Disable log forwarding  *)
(* before closing the fd" (tcp_bridge.c:158). A line is sent to nothing but  *)
(* the client, whatever its descriptor is used for afterwards, as long as no *)
(* wait for the mutex is given up.                                           *)
LogOnlyToClient == timeouts = 0 => ~ stray

(* tcp_bridge_task(): once all frames are read, each was decoded as often as *)
(* it was sent, the client's as those of others, unless an echo came too     *)
(* late, or not at all, or was overtaken by another line.                    *)
DecodedOnce == rx = <<>> /\ ~ excused => \A f \in Frames : surplus[f] = 0
=============================================================================
