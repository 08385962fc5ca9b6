----------------------------- MODULE BridgeProofs ------------------------------
(***************************************************************************)
(* As long as the bridge task gets s_log_mutex in time, a log line goes to *)
(* the client or nowhere, for any number of tasks that log and any reuse   *)
(* of descriptors.                                                         *)
(*                                                                         *)
(* What the client sends is decoded once and its echo is not, for any      *)
(* frames, any number of them on the bus and any window of the loopback    *)
(* check, as long as the echo comes, in time, and before the next line.    *)
(*                                                                         *)
(* Reassembly, for every stream, buffer and read size: the type invariant, *)
(* that captures stay in the buffer, that frames are delivered once, what  *)
(* can delay them, and, when every announced message fits beside one more  *)
(* read, that nothing overflows and Framing implements FrameParse.         *)
(***************************************************************************)
EXTENDS Framing, TcpBridge, SequenceTheorems, FiniteSetTheorems, TLAPS

-----------------------------------------------------------------------------
(* The client and the log.                                                  *)

Typed ==
  /\ client \in Sockets \cup {NoSocket} /\ logClient \in Sockets \cup {NoSocket}
  /\ openFor \in [Sockets -> {"nothing", "client", "another"}]
  /\ mutex \in Loggers \cup {Free}
  /\ logHook \in [Loggers -> {"away", "formatted", "locked", "sending"}]
  /\ target \in [Loggers -> Sockets \cup {NoSocket}]
  /\ timeouts \in Nat

(* The mutex is with the task that looks at the socket or sends to it.      *)
MutexHeld == \A l \in Loggers : mutex = l <=> logHook[l] \in {"locked", "sending"}

ClientOpen == client # NoSocket => openFor[client] = "client"

(* No other socket than the client's is ever the target, and not even that  *)
(* when it is about to be closed.                                           *)
TargetIsClient ==
  timeouts = 0 =>
    /\ logClient # NoSocket => logClient = client /\ at # "close"
    /\ \A l \in Loggers : logHook[l] = "sending" => target[l] = logClient /\ logClient # NoSocket
    /\ ~ stray

Inv == Typed /\ MutexHeld /\ ClientOpen /\ TargetIsClient

-----------------------------------------------------------------------------
LEMMA InitInv == BridgeInit => Inv
BY BridgeAssumption DEF BridgeInit, Inv, Typed, MutexHeld, ClientOpen, TargetIsClient

LEMMA HintInv == ASSUME Inv, NEW l \in Loggers, Hint(l) PROVE Inv'
BY BridgeAssumption
DEF Inv, Typed, MutexHeld, ClientOpen, TargetIsClient, Hint, clientVars, logVars

LEMMA TakeOrDropInv == ASSUME Inv, NEW l \in Loggers, TakeOrDrop(l) PROVE Inv'
BY BridgeAssumption
DEF Inv, Typed, MutexHeld, ClientOpen, TargetIsClient, TakeOrDrop, clientVars

LEMMA RecheckInv == ASSUME Inv, NEW l \in Loggers, Recheck(l) PROVE Inv'
BY BridgeAssumption
DEF Inv, Typed, MutexHeld, ClientOpen, TargetIsClient, Recheck, Rechecked, clientVars

(* The line goes where logClient points, which is the client, still open.   *)
LEMMA SendLineInv == ASSUME Inv, NEW l \in Loggers, SendLine(l) PROVE Inv'
<1> USE BridgeAssumption DEF Inv
<1>1. timeouts = 0 => ~ stray'
  BY DEF SendLine, Typed, ClientOpen, TargetIsClient
<1>2. Typed' /\ MutexHeld'
  BY DEF SendLine, Typed, MutexHeld, clientVars
<1>3. ClientOpen' /\ TargetIsClient'
  BY <1>1 DEF SendLine, Typed, ClientOpen, TargetIsClient, clientVars
<1> QED
  BY <1>2, <1>3

-----------------------------------------------------------------------------
(* logClient changes only while nobody is sending to it.                    *)
LEMMA SetLogClientFree ==
  ASSUME Inv, NEW socket \in Sockets \cup {NoSocket}, SetLogClient(socket), timeouts' = 0
  PROVE  /\ timeouts = 0 /\ logClient' = socket
         /\ \A l \in Loggers : logHook[l] \notin {"locked", "sending"}
BY BridgeAssumption DEF Inv, Typed, MutexHeld, SetLogClient

LEMMA SetLogClientTyped ==
  ASSUME Inv, NEW socket \in Sockets \cup {NoSocket}, SetLogClient(socket)
  PROVE  logClient' \in Sockets \cup {NoSocket} /\ timeouts' \in Nat /\ mutex' = mutex
BY BridgeAssumption DEF Inv, Typed, SetLogClient

LEMMA AcceptInv == ASSUME Inv, Accept PROVE Inv'
BY BridgeAssumption
DEF Inv, Typed, MutexHeld, ClientOpen, TargetIsClient, Accept, Goes, logVars, hookVars

LEMMA EnableInv == ASSUME Inv, Enable PROVE Inv'
<1>1. client \in Sockets \cup {NoSocket} /\ SetLogClient(client)
  BY DEF Enable, Inv, Typed
<1>2. Typed' /\ MutexHeld' /\ ClientOpen'
  BY <1>1, SetLogClientTyped
  DEF Enable, Inv, Typed, MutexHeld, ClientOpen, clientVars, hookVars
<1>3. TargetIsClient'
  BY <1>1, SetLogClientFree DEF Enable, Goes, Inv, TargetIsClient, clientVars, hookVars
<1> QED
  BY <1>2, <1>3 DEF Inv

(* Log forwarding is disabled before the descriptor is closed.              *)
LEMMA DisableInv == ASSUME Inv, Disable PROVE Inv'
<1>1. SetLogClient(NoSocket)
  BY DEF Disable
<1>2. Typed' /\ MutexHeld' /\ ClientOpen'
  BY <1>1, SetLogClientTyped
  DEF Disable, Inv, Typed, MutexHeld, ClientOpen, clientVars, hookVars
<1>3. TargetIsClient'
  BY <1>1, SetLogClientFree DEF Disable, Inv, TargetIsClient, clientVars, hookVars
<1> QED
  BY <1>2, <1>3 DEF Inv

LEMMA CloseInv == ASSUME Inv, Close PROVE Inv'
BY BridgeAssumption
DEF Inv, Typed, MutexHeld, ClientOpen, TargetIsClient, Close, Goes, logVars, hookVars

LEMMA OtherSocketInv == ASSUME Inv, OtherSocket PROVE Inv'
BY BridgeAssumption
DEF Inv, Typed, MutexHeld, ClientOpen, TargetIsClient, OtherSocket, logVars, hookVars

(* The frames and lines that pass leave all this alone.                     *)
LEMMA RelayInv ==
  ASSUME Inv, NobodyConnects \/ Relay \/ (\E f \in Frames : FrameArrives(f)) \/ Tick
  PROVE  Inv'
<1>1. UNCHANGED <<clientVars, logVars, hookVars>>
  BY DEF NobodyConnects, Relay, ReadFrame, NoMoreToRead, Receive, StartLine, Sent, NotSent,
         EndOfLines, FrameArrives, Tick
<1>2. at' = "close" => at = "close"
  BY DEF NobodyConnects, Relay, ReadFrame, NoMoreToRead, Receive, StartLine, Sent, NotSent,
         EndOfLines, FrameArrives, Tick, Goes
<1> QED
  BY <1>1, <1>2 DEF Inv, Typed, MutexHeld, ClientOpen, TargetIsClient, clientVars, logVars, hookVars

LEMMA NextInv == Inv /\ [BridgeNext]_bridgeVars => Inv'
<1> SUFFICES ASSUME Inv, [BridgeNext]_bridgeVars PROVE Inv'
  OBVIOUS
<1>1. CASE UNCHANGED bridgeVars
  BY <1>1 DEF bridgeVars, clientVars, logVars, hookVars, Inv, Typed, MutexHeld, ClientOpen,
              TargetIsClient
<1>2. CASE \E l \in Loggers : LoggerSteps(l)
  BY <1>2, HintInv, TakeOrDropInv, RecheckInv, SendLineInv DEF LoggerSteps
<1>3. CASE ServeClient
  BY <1>3, AcceptInv, EnableInv, DisableInv, CloseInv, RelayInv DEF ServeClient
<1>4. CASE OtherSocket
  BY <1>4, OtherSocketInv
<1>5. CASE Relay \/ (\E f \in Frames : FrameArrives(f)) \/ Tick
  BY <1>5, RelayInv
<1> QED
  BY <1>1, <1>2, <1>3, <1>4, <1>5 DEF BridgeNext

LEMMA Invariance == BridgeSpec => []Inv
BY InitInv, NextInv, PTL DEF BridgeSpec

(* tcp_bridge_vprintf(), tcp_bridge_close_client(): a log line of any task  *)
(* is sent to the client and to nothing that got its descriptor later.      *)
THEOREM LogStaysWithClient == BridgeSpec => []LogOnlyToClient
<1>1. Inv => LogOnlyToClient
  BY DEF Inv, TargetIsClient, LogOnlyToClient
<1> QED
  BY <1>1, Invariance, PTL

-----------------------------------------------------------------------------
(* The lines of the client and their echoes.                                *)

(* How many of the frames on their way are f.                               *)
Entries == [frame : Frames, ours : BOOLEAN]
Places(q, f) == {i \in DOMAIN q : q[i].frame = f}
Count(q, f) == Cardinality(Places(q, f))

LEMMA CountFinite ==
  ASSUME NEW q \in Seq(Entries), NEW f
  PROVE  IsFiniteSet(Places(q, f)) /\ Count(q, f) \in Nat
<1>1. Len(q) \in Nat /\ Places(q, f) \subseteq 1 .. Len(q)
  BY DEF Places
<1>2. IsFiniteSet(1 .. Len(q))
  BY <1>1, FS_Interval
<1>3. IsFiniteSet(Places(q, f))
  BY <1>1, <1>2, FS_Subset
<1> QED
  BY <1>3, FS_CardinalityType DEF Count

LEMMA CountEmpty == ASSUME NEW f PROVE Count(<<>>, f) = 0
<1>1. Places(<<>>, f) = {}
  BY DEF Places
<1> QED
  BY <1>1, FS_EmptySet DEF Count

LEMMA CountAppend ==
  ASSUME NEW q \in Seq(Entries), NEW e \in Entries, NEW f
  PROVE  Count(Append(q, e), f) = Count(q, f) + (IF e.frame = f THEN 1 ELSE 0)
<1>1. IsFiniteSet(Places(q, f))
  BY CountFinite
<1>2. Len(q) + 1 \notin Places(q, f)
  BY DEF Places
<1>3. CASE e.frame = f
  <2>1. Places(Append(q, e), f) = Places(q, f) \cup {Len(q) + 1}
    BY <1>3 DEF Places
  <2> QED
    BY <1>1, <1>2, <1>3, <2>1, FS_AddElement DEF Count
<1>4. CASE e.frame # f
  <2>1. Places(Append(q, e), f) = Places(q, f)
    BY <1>4 DEF Places
  <2>2. Count(q, f) \in Nat
    BY CountFinite
  <2> QED
    BY <1>4, <2>1, <2>2 DEF Count
<1> QED
  BY <1>3, <1>4

(* The places in a tail are those in the queue but the first, shifted.      *)
LEMMA CountTail ==
  ASSUME NEW q \in Seq(Entries), q # <<>>, NEW f
  PROVE  Count(q, f) = Count(Tail(q), f) + (IF Head(q).frame = f THEN 1 ELSE 0)
<1> DEFINE S == Places(Tail(q), f)
           T == Places(q, f) \ {1}
           Shift == [i \in S |-> i + 1]
<1>1. /\ Tail(q) \in Seq(Entries) /\ Len(Tail(q)) = Len(q) - 1
      /\ Head(q) = q[1] /\ Len(q) \in Nat \ {0}
      /\ \A i \in 1 .. Len(q) - 1 : Tail(q)[i] = q[i + 1]
  OBVIOUS
<1>2. IsFiniteSet(S) /\ Cardinality(S) \in Nat /\ IsFiniteSet(Places(q, f))
  BY <1>1, CountFinite DEF Count
<1>3. Shift \in Bijection(S, T)
  <2>1. \A i \in S : i + 1 \in T
    BY <1>1 DEF Places
  <2>2. \A j \in T : j - 1 \in S
    BY <1>1 DEF Places
  <2>3. S \subseteq Int /\ T \subseteq Int
    BY <1>1 DEF Places
  <2>4. Shift \in [S -> T]
    BY <2>1
  <2>5. \A a, b \in S : Shift[a] = Shift[b] => a = b
    BY <2>3
  <2>6. \A j \in T : \E i \in S : Shift[i] = j
    <3> SUFFICES ASSUME NEW j \in T PROVE \E i \in S : Shift[i] = j
      OBVIOUS
    <3>1. j - 1 \in S /\ Shift[j - 1] = j
      BY <2>2, <2>3
    <3> QED
      BY <3>1
  <2> HIDE DEF S, T, Shift
  <2> QED
    BY <2>4, <2>5, <2>6, Z3 DEF Bijection, Injection, Surjection, IsInjective
<1>4. IsFiniteSet(T) /\ Cardinality(T) = Cardinality(S)
  <2> HIDE DEF S, T, Shift
  <2>1. ExistsBijection(S, T)
    BY <1>3 DEF ExistsBijection
  <2> QED
    BY <1>2, <2>1, FS_Bijection
<1>5. 1 \in Places(q, f) <=> Head(q).frame = f
  BY <1>1 DEF Places
<1>6. Cardinality(T) = IF 1 \in Places(q, f) THEN Count(q, f) - 1 ELSE Count(q, f)
  BY <1>2, FS_RemoveElement DEF Count
<1>7. Count(q, f) \in Nat
  BY CountFinite
<1> QED
  BY <1>2, <1>4, <1>5, <1>6, <1>7 DEF Count

-----------------------------------------------------------------------------
(* The lines are frames, the one being sent is what is looked for, and its  *)
(* time has not run out.                                                    *)
EchoTyped ==
  /\ batch \in Seq(Frames) /\ rx \in Seq(Entries) /\ tx \in Frames \cup {NoFrame}
  /\ age \in Nat /\ surplus \in [Frames -> Int] /\ excused \in BOOLEAN
  /\ at = "sending" => batch # <<>>

(* A line is sent when no echo of an earlier one is on its way; afterwards  *)
(* the frame is looked for only while its echo is, and that is in time.     *)
LookedFor ==
  ~ excused =>
    /\ at = "sending" => tx = Head(batch) /\ ~ EchoDue
    /\ tx # NoFrame => age < Window
    /\ tx # NoFrame /\ at # "sending" =>
         EchoDue /\ \A i \in DOMAIN rx : rx[i].ours => rx[i].frame = tx

(* What is still to be read makes up for what was decoded too seldom, but   *)
(* for one frame that will be taken for the echo.                           *)
Balanced ==
  ~ excused => \A f \in Frames :
    surplus[f] + Count(rx, f) = IF tx = f /\ at # "sending" THEN 1 ELSE 0

EchoInv == EchoTyped /\ LookedFor /\ Balanced

LEMMA InitEcho == BridgeInit => EchoInv
<1> SUFFICES ASSUME BridgeInit PROVE EchoInv
  OBVIOUS
<1> USE BridgeAssumption DEF BridgeInit
<1>1. EchoTyped
  <2>1. batch \in Seq(Frames) /\ rx \in Seq(Entries)
    OBVIOUS
  <2>2. surplus \in [Frames -> Int]
    OBVIOUS
  <2> QED
    BY <2>1, <2>2 DEF EchoTyped
<1>2. LookedFor
  BY DEF LookedFor
<1>3. \A f \in Frames : surplus[f] + Count(rx, f) = 0
  BY CountEmpty
<1> QED
  BY <1>1, <1>2, <1>3 DEF EchoInv, Balanced

(* What touches neither the frames nor the lines.                           *)
LEMMA AsideEcho ==
  ASSUME EchoInv, UNCHANGED echoVars, at' = "sending" <=> at = "sending"
  PROVE  EchoInv'
BY DEF EchoInv, EchoTyped, LookedFor, Balanced, EchoDue, Count, Places, echoVars

LEMMA FrameArrivesEcho == ASSUME EchoInv, NEW f \in Frames, FrameArrives(f) PROVE EchoInv'
<1> DEFINE e == [frame |-> f, ours |-> FALSE]
<1> USE DEF EchoInv
<1>1. /\ e \in Entries /\ e.frame = f /\ ~ e.ours
      /\ rx \in Seq(Entries) /\ rx' = Append(rx, e)
      /\ surplus \in [Frames -> Int] /\ surplus' = [surplus EXCEPT ![f] = @ - 1]
      /\ UNCHANGED <<at, batch, tx, age, excused>>
  BY DEF FrameArrives, EchoTyped, Entries
<1> HIDE DEF e
<1>2. EchoTyped'
  BY <1>1 DEF EchoTyped
<1>3. EchoDue' <=> EchoDue
  <2>1. DOMAIN rx' = DOMAIN rx \cup {Len(rx) + 1}
    BY <1>1
  <2>2. \A i \in DOMAIN rx : rx'[i] = rx[i]
    BY <1>1
  <2>3. ~ rx'[Len(rx) + 1].ours
    BY <1>1
  <2> QED
    BY <2>1, <2>2, <2>3 DEF EchoDue
<1>4. \A i \in DOMAIN rx' : rx'[i].ours => i \in DOMAIN rx /\ rx'[i] = rx[i]
  BY <1>1
<1>5. LookedFor'
  BY <1>1, <1>3, <1>4 DEF LookedFor
<1>6. ASSUME NEW g \in Frames
      PROVE  surplus'[g] + Count(rx', g) = surplus[g] + Count(rx, g)
  <2>1. Count(rx', g) = Count(rx, g) + (IF f = g THEN 1 ELSE 0)
    BY <1>1, CountAppend
  <2>2. surplus'[g] = surplus[g] - (IF f = g THEN 1 ELSE 0) /\ surplus[g] \in Int
    BY <1>1
  <2>3. Count(rx, g) \in Nat
    BY <1>1, CountFinite
  <2> QED
    BY <2>1, <2>2, <2>3
<1>7. Balanced'
  <2>1. Balanced' <=> (~ excused => \A g \in Frames :
          surplus'[g] + Count(rx', g) = IF tx = g /\ at # "sending" THEN 1 ELSE 0)
    BY <1>1 DEF Balanced, Count, Places
  <2> QED
    BY <2>1, <1>6 DEF Balanced
<1> QED
  BY <1>2, <1>5, <1>7

(* The frame looked for leaves the queue undecoded, any other one decoded.  *)
LEMMA ReadFrameEcho == ASSUME EchoInv, ReadFrame PROVE EchoInv'
<1> DEFINE f == Head(rx).frame
           loopback == tx = f /\ age < Window
<1> USE DEF EchoInv
<1>1. /\ rx \in Seq(Entries) /\ rx # <<>> /\ rx' = Tail(rx)
      /\ at = "read" /\ UNCHANGED <<at, batch, age, excused>>
      /\ tx' = IF loopback THEN NoFrame ELSE tx
      /\ surplus' = IF loopback THEN surplus ELSE [surplus EXCEPT ![f] = @ + 1]
      /\ surplus \in [Frames -> Int]
  BY DEF ReadFrame, EchoTyped, Recognised
<1>2. Head(rx) \in Entries /\ f \in Frames /\ Tail(rx) \in Seq(Entries) /\ Head(rx) = rx[1]
  <2>1. Head(rx) \in Entries /\ Tail(rx) \in Seq(Entries) /\ Head(rx) = rx[1]
    BY <1>1
  <2> QED
    BY <2>1 DEF Entries
<1>3. EchoTyped'
  BY <1>1, <1>2 DEF EchoTyped
<1>4. \A i \in DOMAIN rx' : i + 1 \in DOMAIN rx /\ rx'[i] = rx[i + 1]
  BY <1>1
<1>5. \A i \in DOMAIN rx : i = 1 \/ (i - 1 \in DOMAIN rx' /\ rx'[i - 1] = rx[i])
  BY <1>1
<1>6. LookedFor'
  <2> SUFFICES ASSUME ~ excused, tx' # NoFrame
               PROVE  /\ age < Window /\ EchoDue'
                      /\ \A i \in DOMAIN rx' : rx'[i].ours => rx'[i].frame = tx'
    BY <1>1 DEF LookedFor
  <2>1. ~ loopback /\ tx' = tx /\ tx # NoFrame
    BY <1>1
  <2>2. age < Window /\ EchoDue /\ \A i \in DOMAIN rx : rx[i].ours => rx[i].frame = tx
    BY <1>1, <2>1 DEF LookedFor
  <2>3. ~ rx[1].ours
    BY <1>1, <1>2, <2>1, <2>2
  <2>4. EchoDue'
    BY <1>5, <2>2, <2>3 DEF EchoDue
  <2> QED
    BY <1>4, <2>1, <2>2, <2>4
<1>7. ASSUME NEW g \in Frames
      PROVE  /\ Count(rx, g) = Count(rx', g) + (IF f = g THEN 1 ELSE 0)
             /\ Count(rx', g) \in Nat /\ surplus[g] \in Int
             /\ surplus'[g] = surplus[g] + (IF f = g /\ ~ loopback THEN 1 ELSE 0)
  <2>1. Count(rx, g) = Count(Tail(rx), g) + (IF f = g THEN 1 ELSE 0)
    BY <1>1, CountTail
  <2>2. Count(Tail(rx), g) \in Nat
    BY <1>2, CountFinite
  <2> HIDE DEF f, loopback
  <2>3. surplus'[g] = surplus[g] + (IF f = g /\ ~ loopback THEN 1 ELSE 0) /\ surplus[g] \in Int
    BY <1>1, <1>2
  <2> QED
    BY <1>1, <2>1, <2>2, <2>3
<1>8. Balanced'
  <2> HIDE DEF f, loopback
  <2> SUFFICES ASSUME ~ excused, NEW g \in Frames
               PROVE  surplus'[g] + Count(rx', g) = IF tx' = g THEN 1 ELSE 0
    BY <1>1 DEF Balanced, Count, Places
  <2>1. surplus[g] + Count(rx, g) = IF tx = g THEN 1 ELSE 0
    BY <1>1 DEF Balanced
  <2>2. CASE loopback
    <3>1. tx = f /\ tx' = NoFrame /\ tx' # g
      BY <1>1, <2>2, BridgeAssumption DEF loopback
    <3> QED
      BY <1>7, <2>1, <2>2, <3>1
  <2>3. CASE ~ loopback
    BY <1>1, <1>7, <2>1, <2>3
  <2> QED
    BY <2>2, <2>3
<1> QED
  BY <1>3, <1>6, <1>8

LEMMA ReceiveEcho == ASSUME EchoInv, Receive PROVE EchoInv'
<1>1. batch' \in Seq(Frames)
  <2>1. ASSUME NEW f \in Frames PROVE <<f>> \in Seq(Frames)
    OBVIOUS
  <2>2. ASSUME NEW b \in Frames \X Frames PROVE b \in Seq(Frames)
    <3>1. PICK f \in Frames, g \in Frames : b = <<f, g>>
      BY <2>2
    <3> QED
      BY <3>1
  <2> QED
    BY <2>1, <2>2 DEF Receive, EchoInv, EchoTyped
<1>2. UNCHANGED <<tx, age, rx, surplus, excused>> /\ at # "sending" /\ at' # "sending"
  BY DEF Receive, Goes
<1> QED
  BY <1>1, <1>2 DEF EchoInv, EchoTyped, LookedFor, Balanced, EchoDue, Count, Places

(* No echo is on its way, so no frame was looked for any more.              *)
LEMMA StartLineEcho == ASSUME EchoInv, StartLine PROVE EchoInv'
<1> USE DEF EchoInv
<1>1. /\ at = "line" /\ at' = "sending" /\ batch # <<>> /\ batch' = batch /\ batch \in Seq(Frames)
      /\ tx' = Head(batch) /\ age' = 0 /\ UNCHANGED <<rx, surplus>>
      /\ Head(batch) \in Frames
  BY DEF StartLine, Goes, EchoTyped
<1>2. (excused' <=> excused \/ EchoDue) /\ excused' \in BOOLEAN
  BY DEF StartLine, EchoTyped
<1>3. EchoTyped'
  BY <1>1, <1>2 DEF EchoTyped
<1>4. (EchoDue' <=> EchoDue) /\ \A f : Count(rx, f)' = Count(rx, f)
  BY <1>1 DEF EchoDue, Count, Places
<1>5. LookedFor'
  BY <1>1, <1>2, <1>4, BridgeAssumption DEF LookedFor
<1>6. Balanced'
  <2> SUFFICES ASSUME ~ excused', NEW f \in Frames PROVE surplus[f] + Count(rx, f) = 0
    BY <1>1, <1>4 DEF Balanced
  <2>1. ~ excused /\ tx = NoFrame
    BY <1>1, <1>2 DEF LookedFor
  <2> QED
    BY <2>1, BridgeAssumption DEF Balanced
<1> QED
  BY <1>3, <1>5, <1>6

LEMMA SentEcho == ASSUME EchoInv, Sent PROVE EchoInv'
<1> DEFINE e == [frame |-> Head(batch), ours |-> TRUE]
<1> USE DEF EchoInv
<1>1. /\ at = "sending" /\ at' # "sending" /\ batch # <<>> /\ batch \in Seq(Frames)
      /\ batch' = Tail(batch) /\ UNCHANGED <<tx, age, surplus>>
      /\ rx \in Seq(Entries) /\ surplus \in [Frames -> Int]
      /\ (rx' = Append(rx, e) /\ excused' = excused) \/ (rx' = rx /\ excused')
  BY DEF Sent, EchoTyped
<1>2. Head(batch) \in Frames /\ Tail(batch) \in Seq(Frames)
  BY <1>1
<1>3. e \in Entries /\ e.frame = Head(batch) /\ e.ours
  BY <1>2 DEF Entries
<1> HIDE DEF e
<1>4. EchoTyped'
  <2>1. rx' \in Seq(Entries)
    <3>1. rx \in Seq(Entries) /\ (rx' = Append(rx, e) \/ rx' = rx)
      BY <1>1
    <3> QED
      BY <1>3, <3>1
  <2>2. excused' \in BOOLEAN
    BY <1>1 DEF EchoTyped
  <2> QED
    BY <1>1, <1>2, <2>1, <2>2 DEF EchoTyped
<1>5. ASSUME ~ excused'
      PROVE  /\ rx' = Append(rx, e) /\ ~ excused /\ ~ EchoDue
             /\ tx = Head(batch) /\ age < Window
  BY <1>1, <1>2, <1>5, BridgeAssumption DEF LookedFor
<1>6. LookedFor'
  <2> SUFFICES ASSUME ~ excused'
               PROVE  /\ age < Window /\ EchoDue'
                      /\ \A i \in DOMAIN rx' : rx'[i].ours => rx'[i].frame = tx
    BY <1>1 DEF LookedFor
  <2>1. DOMAIN rx' = DOMAIN rx \cup {Len(rx) + 1} /\ rx'[Len(rx) + 1] = e
    BY <1>1, <1>5
  <2>2. \A i \in DOMAIN rx : rx'[i] = rx[i] /\ ~ rx[i].ours
    BY <1>1, <1>5 DEF EchoDue
  <2> QED
    BY <1>3, <1>5, <2>1, <2>2 DEF EchoDue
<1>7. Balanced'
  <2> SUFFICES ASSUME ~ excused', NEW f \in Frames
               PROVE  surplus[f] + Count(rx', f) = IF tx = f THEN 1 ELSE 0
    BY <1>1 DEF Balanced, Count, Places
  <2>1. surplus[f] + Count(rx, f) = 0
    BY <1>1, <1>5 DEF Balanced
  <2>2. Count(rx', f) = Count(rx, f) + (IF tx = f THEN 1 ELSE 0) /\ Count(rx, f) \in Nat
    <3>1. rx \in Seq(Entries) /\ rx' = Append(rx, e) /\ tx = e.frame
      BY <1>1, <1>3, <1>5
    <3> QED
      BY <1>3, <3>1, CountAppend, CountFinite
  <2> QED
    BY <1>1, <2>1, <2>2
<1> QED
  BY <1>4, <1>6, <1>7

LEMMA NotSentEcho == ASSUME EchoInv, NotSent PROVE EchoInv'
<1> USE DEF EchoInv
<1>1. /\ at = "sending" /\ at' # "sending" /\ batch' = Tail(batch) /\ tx' = NoFrame
      /\ UNCHANGED <<age, rx, surplus, excused>>
      /\ batch # <<>> /\ batch \in Seq(Frames)
  BY DEF NotSent, EchoTyped
<1>2. Tail(batch) \in Seq(Frames)
  BY <1>1
<1> QED
  BY <1>1, <1>2, BridgeAssumption DEF EchoTyped, LookedFor, Balanced, EchoDue, Count, Places

LEMMA EndOfLinesEcho == ASSUME EchoInv, EndOfLines PROVE EchoInv'
<1>1. at # "sending" /\ at' # "sending" /\ batch' \in Seq(Frames)
      /\ UNCHANGED <<tx, age, rx, surplus, excused>>
  BY DEF EndOfLines, Goes
<1> QED
  BY <1>1 DEF EchoInv, EchoTyped, LookedFor, Balanced, EchoDue, Count, Places

LEMMA TickEcho == ASSUME EchoInv, Tick PROVE EchoInv'
<1> USE DEF EchoInv
<1>1. /\ age < Window /\ age' = age + 1 /\ age \in Nat
      /\ UNCHANGED <<at, batch, tx, rx, surplus>>
      /\ excused' <=> excused \/ (age' = Window /\ tx # NoFrame /\ (at = "sending" \/ EchoDue))
      /\ excused' \in BOOLEAN
  BY DEF Tick, EchoTyped
<1>2. EchoTyped' /\ Balanced'
  BY <1>1 DEF EchoTyped, Balanced, Count, Places
<1>3. LookedFor'
  BY <1>1, BridgeAssumption DEF LookedFor, EchoDue
<1> QED
  BY <1>2, <1>3

-----------------------------------------------------------------------------
LEMMA NextEcho == EchoInv /\ [BridgeNext]_bridgeVars => EchoInv'
<1> SUFFICES ASSUME EchoInv, [BridgeNext]_bridgeVars PROVE EchoInv'
  OBVIOUS
<1>1. CASE UNCHANGED bridgeVars
  BY <1>1, AsideEcho DEF bridgeVars
<1>2. CASE \E l \in Loggers : LoggerSteps(l)
  <2>1. UNCHANGED <<at, echoVars>>
    BY <1>2 DEF LoggerSteps, Hint, TakeOrDrop, Recheck, SendLine
  <2> QED
    BY <2>1, AsideEcho
<1>3. CASE ServeClient \/ OtherSocket \/ NoMoreToRead
  <2>1. UNCHANGED echoVars /\ (at' = "sending" <=> at = "sending")
    BY <1>3 DEF ServeClient, Accept, NobodyConnects, Enable, Disable, Close, OtherSocket,
                NoMoreToRead, Goes
  <2> QED
    BY <2>1, AsideEcho
<1>4. CASE Relay
  BY <1>3, <1>4, ReadFrameEcho, ReceiveEcho, StartLineEcho, SentEcho, NotSentEcho, EndOfLinesEcho
  DEF Relay
<1>5. CASE (\E f \in Frames : FrameArrives(f)) \/ Tick
  BY <1>5, FrameArrivesEcho, TickEcho
<1> QED
  BY <1>1, <1>2, <1>3, <1>4, <1>5 DEF BridgeNext

LEMMA EchoInvariance == BridgeSpec => []EchoInv
BY InitEcho, NextEcho, PTL DEF BridgeSpec

(* tcp_bridge_task(): once all frames are read, each was decoded as often   *)
(* as it was sent. A frame of another device that equals the line may be    *)
(* taken for its echo, but then the echo is decoded in its place.           *)
THEOREM EchoNotDecoded == BridgeSpec => []DecodedOnce
<1>1. EchoInv => DecodedOnce
  <2> SUFFICES ASSUME EchoInv, rx = <<>>, ~ excused, NEW f \in Frames PROVE surplus[f] = 0
    BY DEF DecodedOnce
  <2>1. Count(rx, f) = 0 /\ ~ EchoDue
    BY CountEmpty DEF EchoDue
  <2>2. ~ (tx = f /\ at # "sending")
    BY <2>1, BridgeAssumption DEF EchoInv, LookedFor
  <2>3. surplus[f] \in Int
    BY DEF EchoInv, EchoTyped
  <2> QED
    BY <2>1, <2>2, <2>3 DEF EchoInv, Balanced
<1> QED
  BY <1>1, EchoInvariance, PTL

-----------------------------------------------------------------------------
(* The receive loop.                                                        *)

USE BufferAssumption DEF MinFrame

LEMMA ByteBounds == \A b \in Byte : b \in Nat /\ b <= 255
BY DEF Byte

(* A byte of the stream is a byte.                                           *)
LEMMA StreamByte ==
  ASSUME NEW s \in Seq(Byte), NEW o \in 0 .. Len(s) - 1
  PROVE  At(s, o) \in Byte
<1>1. o + 1 \in 1 .. Len(s)  OBVIOUS
<1> QED  BY <1>1, ElementOfSeq DEF At

LEMMA LengthRange ==
  ASSUME NEW m \in Nat, m <= 255, m = MinFrame \/ m \in 12 .. BufMax
  PROVE  m \in MinFrame .. 255
OBVIOUS

(* A message is announced with at least 11 bytes.                            *)
LEMMA LengthBounds ==
  ASSUME NEW s \in Seq(Byte), NEW o \in Nat, HeaderAt(s, o)
  PROVE  MsgLen(s, o) \in MinFrame .. 255
<1>2. o + 8 \in 0 .. Len(s) - 1  BY DEF HeaderAt, HeaderLen
<1>3. MsgLen(s, o) \in Nat /\ MsgLen(s, o) <= 255
  BY <1>2, StreamByte, ByteBounds DEF MsgLen
<1>4. LengthOK(s, o)  BY DEF HeaderAt
<1>5. MsgLen(s, o) = MinFrame \/ MsgLen(s, o) \in 12 .. BufMax
  BY <1>4 DEF LengthOK
<1> QED  BY <1>3, <1>5, LengthRange, Zenon

LEMMA StreamIsSequence ==
  ASSUME TypeOK
  PROVE  stream \in Streams /\ stream \in Seq(Byte)
BY StreamsAssumption DEF TypeOK

(* The offsets TypeOK speaks of, as the arithmetic below needs them.         *)
LEMMA ReadWindow ==
  ASSUME TypeOK
  PROVE  /\ Len(stream) \in Nat
         /\ lo \in Nat /\ hi \in Nat /\ lo <= hi /\ hi <= Len(stream)
         /\ Buffered <= BufMax
<1>1. hi \in 0 .. Len(stream) /\ lo \in 0 .. hi  BY DEF TypeOK
<1>2. Len(stream) \in Nat  BY StreamIsSequence
<1> QED  BY <1>1, <1>2 DEF TypeOK

LEMMA Offsets ==
  ASSUME TypeOK
  PROVE  lo \in Nat /\ hi \in Nat /\ lo <= hi
BY ReadWindow, Zenon

(* Arithmetic about a message of m bytes.                                    *)
LEMMA MessageFits ==
  ASSUME NEW f \in Nat, NEW m \in MinFrame .. 255, NEW h \in Nat, NEW n \in Nat,
         f + m <= h, h <= n
  PROVE  f + m <= n
OBVIOUS

LEMMA NoStartNoFrame ==
  ASSUME NEW s, NEW o, At(s, o) # START
  PROVE  ~FrameAt(s, o)
BY DEF FrameAt, HeaderAt

(* What the checks of framing_process_next() say of the front of the buffer. *)
LEMMA GoodHeader ==
  ASSUME TypeOK, NEW f \in lo .. hi - 1, Front(f), HaveHeader(f),
         HeaderFault(f) = "none"
  PROVE  HeaderAt(stream, f)
<1>2. /\ HeaderSumOK(stream, f)
      /\ PacketType(stream, f) # "invalid"
      /\ LengthOK(stream, f)
  BY DEF HeaderFault
<1>3. f + HeaderLen <= Len(stream)
  BY ReadWindow DEF HaveHeader, HeaderLen
<1> QED  BY <1>2, <1>3 DEF HeaderAt, Front

LEMMA GoodFrame ==
  ASSUME TypeOK, NEW f \in lo .. hi - 1, Front(f), HaveHeader(f),
         HeaderFault(f) = "none", HaveMessage(f), BodyFault(f) = "none"
  PROVE  FrameAt(stream, f)
<1>1. f \in Nat  BY ReadWindow
<1>2. HeaderAt(stream, f)  BY GoodHeader
<1>3. MsgLen(stream, f) \in MinFrame .. 255  BY <1>1, <1>2, LengthBounds, StreamIsSequence, Zenon
<1>4. f + MsgLen(stream, f) <= Len(stream)
  <2>1. f + MsgLen(stream, f) <= hi  BY DEF HaveMessage
  <2> QED  BY <1>1, <1>3, <2>1, ReadWindow, MessageFits, Zenon
<1>5. EndOK(stream, f) /\ DataSumOK(stream, f)  BY DEF BodyFault
<1> QED  BY <1>2, <1>4, <1>5 DEF FrameAt

LEMMA FaultNoFrame ==
  ASSUME NEW f, NEW why \in Faults,
         HeaderFault(f) = why \/ (HeaderFault(f) = "none" /\ BodyFault(f) = why)
  PROVE  ~FrameAt(stream, f)
<1>1. why # "none"  BY DEF Faults
<1>2. CASE HeaderFault(f) = why
  BY <1>1, <1>2 DEF HeaderFault, FrameAt, HeaderAt
<1>3. CASE BodyFault(f) = why
  BY <1>1, <1>3 DEF BodyFault, FrameAt
<1> QED  BY <1>2, <1>3

-----------------------------------------------------------------------------
(* What the buffer holds whenever the loop is back at uart_read().           *)
Settled ==
  phase = "read" => Buffered < MinFrame \/ Unfinished(hi)

(* TypeOK, split into what the parsing and what the bookkeeping changes.     *)
LEMMA TypeInit == Init => TypeOK
<1> SUFFICES ASSUME Init PROVE TypeOK  OBVIOUS
<1>1. stream \in Streams /\ stream \in Seq(Byte)
  BY StreamsAssumption DEF Init
<1>2. Len(stream) \in Nat  BY <1>1
<1> QED  BY <1>1, <1>2 DEF Init, TypeOK, Buffered

(* Where the window can be after a step that moves its front to l.           *)
LEMMA WindowMoves ==
  ASSUME TypeOK, NEW l \in lo .. hi, stream' = stream, hi' = hi, lo' = l
  PROVE  /\ stream' \in Streams /\ lo' \in 0 .. hi' /\ hi' \in 0 .. Len(stream')
         /\ Buffered' <= BufMax
<1>1. stream' \in Streams  BY StreamIsSequence
<1> QED  BY <1>1, ReadWindow DEF Buffered

LEMMA ReadyFacts ==
  ASSUME TypeOK, NEW f \in lo .. hi - 1, FrameReady(f)
  PROVE  /\ f \in Nat /\ FrameAt(stream, f)
         /\ MsgLen(stream, f) \in MinFrame .. 255
         /\ lo' = f + MsgLen(stream, f) /\ lo' \in lo .. hi
<1>1. FrameAt(stream, f)  BY GoodFrame DEF FrameReady
<1>2. f \in Nat  BY ReadWindow
<1>3. MsgLen(stream, f) \in MinFrame .. 255
  BY <1>1, <1>2, LengthBounds, StreamIsSequence, Zenon DEF FrameAt
<1>4. lo' = f + MsgLen(stream, f) /\ f + MsgLen(stream, f) <= hi
  BY DEF FrameReady, AfterFrame, HaveMessage
<1> QED  BY <1>1, <1>2, <1>3, <1>4, Offsets

LEMMA FaultFacts ==
  ASSUME TypeOK, NEW f \in lo .. hi - 1, NEW why \in Faults, Fault(f, why)
  PROVE  /\ f \in Nat /\ ~FrameAt(stream, f) /\ lo' = f + 1
         /\ Capture(f) \in Nat \ {0} /\ f + Capture(f) <= hi
<1>1. f \in Nat  BY ReadWindow
<1>2. ~FrameAt(stream, f)  BY FaultNoFrame DEF Fault
<1>3. lo' = f + 1  BY DEF Fault, ResyncTo
<1>4. Capture(f) \in Nat \ {0} /\ f + Capture(f) <= hi
  <2>1. CASE HeaderFault(f) # "none"
    BY <1>1, <2>1, Offsets DEF Capture, AtMost
  <2>2. CASE HeaderFault(f) = "none"
    <3>1. HaveMessage(f) /\ HaveHeader(f) /\ Front(f)
      BY <2>2 DEF Fault, Faults
    <3>2. HeaderAt(stream, f)  BY <3>1, <2>2, GoodHeader
    <3>3. MsgLen(stream, f) \in MinFrame .. 255
      BY <3>2, <1>1, LengthBounds, StreamIsSequence, Zenon
    <3>4. Capture(f) = MsgLen(stream, f)  BY <2>2 DEF Capture
    <3> QED  BY <1>1, <3>1, <3>3, <3>4 DEF HaveMessage
  <2> QED  BY <2>1, <2>2
<1> QED  BY <1>1, <1>2, <1>3, <1>4

-----------------------------------------------------------------------------
(* Every step of the loop keeps the window in place, and the buffer full     *)
(* only of what NeedMore waits for.                                          *)
LEMMA TypeNext == TypeOK /\ [Next]_vars => TypeOK'
<1> SUFFICES ASSUME TypeOK, [Next]_vars PROVE TypeOK'  OBVIOUS
<1> DEFINE Kept == /\ stream' \in Streams /\ lo' \in 0 .. hi'
                   /\ hi' \in 0 .. Len(stream') /\ Buffered' <= BufMax
           Reported == captured' \in [why : Faults \cup {"none", "no_start", "overflow"},
                                      from : Nat, len : Nat]
<1>r. delivered \in Seq(0 .. Len(stream)) /\ phase \in {"read", "parse"}
      /\ (captured' = captured => Reported)
  BY DEF TypeOK
<1>1. ASSUME NEW n \in 1 .. ChunkMax, Add(n) PROVE TypeOK'
  <2>1. Kept
    <3>1. stream' = stream /\ stream' \in Streams
      BY <1>1, StreamIsSequence DEF Add
    <3>2. CASE Fits(n)
      BY <1>1, <3>1, <3>2, ReadWindow DEF Add, Fits, Buffered
    <3>3. CASE ~Fits(n)
      BY <1>1, <3>1, <3>3, ReadWindow DEF Add, Buffered
    <3> QED  BY <3>2, <3>3
  <2>2. Reported
    <3>1. lo \in Nat /\ Buffered \in Nat  BY Offsets DEF Buffered
    <3> QED  BY <1>1, <1>r, <3>1 DEF Add
  <2>3. stream' = stream /\ delivered' = delivered /\ phase' = "parse"
    BY <1>1 DEF Add
  <2> HIDE DEF Kept, Reported
  <2>4. delivered' \in Seq(0 .. Len(stream')) /\ phase' \in {"read", "parse"}
    BY <1>r, <2>3
  <2> QED  BY <2>1, <2>2, <2>4 DEF TypeOK, Kept, Reported
<1>2. ASSUME TooShort PROVE TypeOK'
  BY <1>2, <1>r DEF TooShort, TypeOK, Buffered
<1>3. ASSUME NoStartByte PROVE TypeOK'
  <2>1. Kept  BY <1>3, WindowMoves, Offsets DEF NoStartByte
  <2>2. Reported
    <3>1. lo \in Nat /\ Buffered \in Nat  BY Offsets DEF Buffered
    <3> QED  BY <1>3, <3>1 DEF NoStartByte
  <2> QED  BY <1>3, <1>r, <2>1, <2>2 DEF NoStartByte, TypeOK
<1>4. ASSUME NEW f \in lo .. hi - 1, NeedMore(f) PROVE TypeOK'
  <2>1. f \in lo .. hi  BY Offsets
  <2>2. Kept  BY <1>4, <2>1, WindowMoves DEF NeedMore
  <2> QED  BY <1>4, <1>r, <2>2 DEF NeedMore, TypeOK
<1>5. ASSUME NEW f \in lo .. hi - 1, FrameReady(f) PROVE TypeOK'
  <2>1. stream' = stream /\ hi' = hi /\ phase' = phase /\ captured' = captured
        /\ delivered' = Append(delivered, f)
    BY <1>5 DEF FrameReady
  <2>2. lo' \in lo .. hi  BY <1>5, ReadyFacts
  <2>3. Kept  BY <2>1, <2>2, WindowMoves
  <2>4. f \in 0 .. Len(stream)  BY ReadWindow
  <2>5. delivered' \in Seq(0 .. Len(stream'))
    BY <1>r, <2>1, <2>4, AppendProperties
  <2> QED  BY <1>r, <2>1, <2>3, <2>5 DEF TypeOK
<1>6. ASSUME NEW f \in lo .. hi - 1, NEW why \in Faults, Fault(f, why)
      PROVE  TypeOK'
  <2>1. /\ stream' = stream /\ hi' = hi /\ phase' = phase /\ delivered' = delivered
        /\ captured' = [why |-> why, from |-> f, len |-> Capture(f)]
    BY <1>6 DEF Fault
  <2>2. f \in Nat /\ Capture(f) \in Nat /\ lo' = f + 1  BY <1>6, FaultFacts
  <2>3. lo' \in lo .. hi  BY <2>2, Offsets
  <2>4. Kept  BY <2>1, <2>3, WindowMoves
  <2>5. Reported  BY <2>1, <2>2
  <2> QED  BY <1>r, <2>1, <2>4, <2>5 DEF TypeOK
<1>7. CASE UNCHANGED vars
  BY <1>7 DEF TypeOK, vars, Buffered
<1> QED  BY <1>1, <1>2, <1>3, <1>4, <1>5, <1>6, <1>7 DEF Next, ProcessNext

(* TypeOK: the reassembly buffer never exceeds BUS_MESSAGE_MAX_SIZE and its  *)
(* window never leaves what was received (framing_add_bytes, framing.c:95).  *)
THEOREM TypeCorrect == Spec => []TypeOK
BY TypeInit, TypeNext, PTL DEF Spec

(* on_resync() is only ever handed bytes that were in the buffer, and every  *)
(* report discards something (framing_resync_one_byte, framing.c:34).        *)
THEOREM CapturesStayInside == Spec => CaptureInBuffer
<1> DEFINE Inside == /\ captured'.from >= lo /\ captured'.from + captured'.len <= hi
                     /\ captured'.len > 0 /\ lo' > lo
<1>1. ASSUME TypeOK, [Next]_vars, captured' # captured
      PROVE  Inside
  <2>1. ASSUME NEW n \in 1 .. ChunkMax, Add(n) PROVE Inside
    <3>1. captured' = [why |-> "overflow", from |-> lo, len |-> Buffered]
      BY <1>1, <2>1 DEF Add
    <3>2. ~Fits(n) /\ lo' = hi  BY <1>1, <2>1 DEF Add
    <3>3. lo < hi  BY <1>1, <3>2, Offsets DEF Fits, Buffered
    <3>4. captured'.from = lo /\ captured'.len = hi - lo
      BY <3>1 DEF Buffered
    <3> QED  BY <1>1, <3>2, <3>3, <3>4, Offsets
  <2>2. ASSUME NoStartByte PROVE Inside
    BY <1>1, <2>2, Offsets DEF NoStartByte, WorthParsing, Buffered
  <2>3. ASSUME NEW f \in lo .. hi - 1, NEW why \in Faults, Fault(f, why)
        PROVE  Inside
    <3>1. captured' = [why |-> why, from |-> f, len |-> Capture(f)]
      BY <2>3 DEF Fault
    <3>2. /\ f \in Nat /\ lo' = f + 1 /\ Capture(f) \in Nat \ {0}
          /\ f + Capture(f) <= hi
      BY <1>1, <2>3, FaultFacts
    <3>3. captured'.from = f /\ captured'.len = Capture(f)  BY <3>1
    <3> QED  BY <1>1, <3>2, <3>3, Offsets
  <2> QED
    BY <1>1, <2>1, <2>2, <2>3
    DEF Next, ProcessNext, TooShort, NeedMore, FrameReady, vars
<1>2. TypeOK /\ [Next]_vars => [captured' # captured => Inside]_vars
  BY <1>1
<1> QED  BY <1>2, TypeCorrect, PTL DEF Spec, CaptureInBuffer

-----------------------------------------------------------------------------
LEMMA SettledInit == Init => Settled
BY DEF Init, Settled, Buffered

LEMMA SettledNext == TypeOK /\ Settled /\ [Next]_vars => Settled'
<1> SUFFICES ASSUME TypeOK, Settled, [Next]_vars, phase' = "read" PROVE
             Buffered' < MinFrame \/ Unfinished(hi)'
  BY DEF Settled
<1>1. CASE TooShort
  <2>1. Buffered < MinFrame
    BY <1>1, Offsets DEF TooShort, WorthParsing, Buffered
  <2>2. lo' = lo /\ hi' = hi  BY <1>1 DEF TooShort
  <2> QED  BY <2>1, <2>2 DEF Buffered
<1>2. ASSUME NEW f \in lo .. hi - 1, NeedMore(f)
      PROVE  Buffered' < MinFrame \/ Unfinished(hi)'
  <2>1. stream' = stream /\ hi' = hi /\ lo' = f  BY <1>2 DEF NeedMore
  <2>2. CASE ~HaveHeader(f)
    BY <2>1, <2>2, Offsets DEF HaveHeader, HeaderLen, Buffered
  <2>3. CASE HaveHeader(f) /\ HeaderFault(f) = "none" /\ ~HaveMessage(f)
    <3>1. HeaderAt(stream, f)  BY <1>2, <2>3, GoodHeader DEF NeedMore
    <3>2. f \in Nat  BY Offsets
    <3>3. MsgLen(stream, f) \in MinFrame .. 255
      BY <3>1, <3>2, LengthBounds, StreamIsSequence, Zenon
    <3>4. f + MsgLen(stream, f) > hi  BY <2>3, <3>2, <3>3, Offsets DEF HaveMessage
    <3> QED  BY <2>1, <3>1, <3>4 DEF Unfinished
  <2> QED  BY <1>2, <2>2, <2>3 DEF NeedMore
<1>3. CASE UNCHANGED vars
  BY <1>3 DEF Settled, Unfinished, Buffered, vars
<1>4. CASE phase = "parse" /\ phase' = phase
  BY <1>4
<1>5. CASE \E n \in 1 .. ChunkMax : Add(n)
  BY <1>5 DEF Add
<1> QED
  BY <1>1, <1>2, <1>3, <1>4, <1>5
  DEF Next, ProcessNext, NoStartByte, FrameReady, Fault

(* While bytes are waited for, a complete frame in the buffer is behind an   *)
(* unfinished message (the tests of framing_process_next, framing.c:117,     *)
(* 161 and 212, keep nothing back that could be delivered).                  *)
THEOREM NothingElseDelays == Spec => []OnlyUnfinishedDelays
<1>1. TypeOK /\ Settled => OnlyUnfinishedDelays
  <2> SUFFICES ASSUME TypeOK, Settled, phase = "read",
                      NEW o \in lo .. hi - 1, FrameAt(stream, o),
                      o + MsgLen(stream, o) <= hi
               PROVE  Unfinished(hi)
    BY DEF OnlyUnfinishedDelays
  <2>1. o \in Nat  BY Offsets
  <2>2. MsgLen(stream, o) \in MinFrame .. 255
    BY <2>1, LengthBounds, StreamIsSequence, Zenon DEF FrameAt
  <2>3. ~(Buffered < MinFrame)  BY <2>1, <2>2, Offsets DEF Buffered
  <2> QED  BY <2>3 DEF Settled
<1> QED
  BY <1>1, SettledInit, SettledNext, TypeCorrect, PTL DEF Spec

-----------------------------------------------------------------------------
(* The end of the i-th delivered frame, and where the next one is.           *)
EndOf(i) == delivered[i] + MsgLen(stream, delivered[i])
NextAfter(i) == IF i < Len(delivered) THEN delivered[i + 1] ELSE lo

LEMMA EndIsNat ==
  ASSUME NEW f \in Nat, NEW m \in MinFrame .. 255
  PROVE  f + m \in Nat
OBVIOUS

LEMMA OnceInit == Init => DeliveredOnce
BY DEF Init, DeliveredOnce

(* The front of the buffer never moves back, and frames end before it.       *)
LEMMA Forward == TypeOK /\ [Next]_vars => stream' = stream /\ lo' \in Nat /\ lo <= lo'
<1> SUFFICES ASSUME TypeOK, [Next]_vars
             PROVE  stream' = stream /\ lo' \in Nat /\ lo <= lo'
  OBVIOUS
<1>1. stream' = stream
  BY DEF Next, ProcessNext, Add, TooShort, NoStartByte, NeedMore, FrameReady, Fault, vars
<1>2. ASSUME NEW f \in lo .. hi - 1, FrameReady(f) PROVE lo' \in lo .. hi
  BY <1>2, ReadyFacts
<1>3. ASSUME NEW f \in lo .. hi - 1, NEW why \in Faults, Fault(f, why)
      PROVE  lo' \in lo .. hi
  BY <1>3, Offsets DEF Fault, ResyncTo
<1>4. ASSUME NEW f \in lo .. hi - 1, NeedMore(f) PROVE lo' \in lo .. hi
  BY <1>4, Offsets DEF NeedMore
<1>5. lo' \in lo .. hi
  BY <1>2, <1>3, <1>4, Offsets
  DEF Next, ProcessNext, Add, TooShort, NoStartByte, vars
<1> QED  BY <1>1, <1>5, Offsets

LEMMA OnceNext == TypeOK /\ DeliveredOnce /\ [Next]_vars => DeliveredOnce'
<1> SUFFICES ASSUME TypeOK, DeliveredOnce, [Next]_vars PROVE DeliveredOnce'
  OBVIOUS
<1>1. stream' = stream /\ lo' \in Nat /\ lo <= lo' /\ lo \in Nat
  BY Forward, Offsets
<1>2. Len(delivered) \in Nat /\ \A i \in 1 .. Len(delivered) : delivered[i] \in Nat
  <2>1. delivered \in Seq(0 .. Len(stream))  BY DEF TypeOK
  <2>2. Len(delivered) \in Nat  BY <2>1
  <2>3. \A i \in 1 .. Len(delivered) : delivered[i] \in 0 .. Len(stream)
    BY <2>1, ElementOfSeq
  <2> QED  BY <2>2, <2>3, ReadWindow
<1>3. \A i \in 1 .. Len(delivered) :
        /\ FrameAt(stream, delivered[i])
        /\ EndOf(i) \in Nat /\ EndOf(i) <= NextAfter(i)
  <2> SUFFICES ASSUME NEW i \in 1 .. Len(delivered)
               PROVE  /\ FrameAt(stream, delivered[i])
                      /\ EndOf(i) \in Nat /\ EndOf(i) <= NextAfter(i)
    OBVIOUS
  <2>1. FrameAt(stream, delivered[i]) /\ EndOf(i) <= NextAfter(i)
    BY DEF DeliveredOnce, EndOf, NextAfter
  <2>2. MsgLen(stream, delivered[i]) \in MinFrame .. 255
    BY <1>2, <2>1, LengthBounds, StreamIsSequence, Zenon DEF FrameAt
  <2>3. EndOf(i) \in Nat  BY <1>2, <2>2, EndIsNat, Zenon DEF EndOf
  <2> QED  BY <2>1, <2>3
<1>4. ASSUME NEW f \in lo .. hi - 1, FrameReady(f) PROVE DeliveredOnce'
  <2>1. /\ f \in Nat /\ FrameAt(stream, f)
        /\ MsgLen(stream, f) \in MinFrame .. 255
        /\ lo' = f + MsgLen(stream, f)
    BY <1>4, ReadyFacts
  <2>2. delivered' = Append(delivered, f)  BY <1>4 DEF FrameReady
  <2>3. /\ Len(delivered') = Len(delivered) + 1
        /\ \A i \in 1 .. Len(delivered) : delivered'[i] = delivered[i]
        /\ delivered'[Len(delivered) + 1] = f
    <3>1. delivered \in Seq(0 .. Len(stream)) /\ f \in 0 .. Len(stream)
      BY ReadWindow DEF TypeOK
    <3> QED  BY <2>2, <3>1, AppendProperties
  <2>4. ASSUME NEW i \in 1 .. Len(delivered'), i # Len(delivered')
        PROVE  FrameAt(stream, delivered'[i]) /\ EndOf(i)' <= NextAfter(i)'
    <3>1. i \in 1 .. Len(delivered)  BY <1>2, <2>3, <2>4
    <3>2. EndOf(i)' = EndOf(i)  BY <1>1, <2>3, <3>1 DEF EndOf
    <3>3. NextAfter(i) <= NextAfter(i)'
      <4>1. CASE i < Len(delivered)
        BY <1>2, <2>3, <3>1, <4>1 DEF NextAfter
      <4>2. CASE i = Len(delivered)
        BY <1>1, <1>2, <2>1, <2>3, <4>2 DEF NextAfter
      <4> QED  BY <1>2, <3>1, <4>1, <4>2
    <3>4. NextAfter(i) \in Nat /\ NextAfter(i)' \in Nat
      BY <1>1, <1>2, <2>1, <2>3, <3>1 DEF NextAfter
    <3>5. EndOf(i)' <= NextAfter(i)'
      BY <1>3, <3>1, <3>2, <3>3, <3>4
    <3> QED  BY <1>3, <2>3, <3>1, <3>5
  <2>5. ASSUME NEW i \in 1 .. Len(delivered'), i = Len(delivered')
        PROVE  FrameAt(stream, delivered'[i]) /\ EndOf(i)' <= NextAfter(i)'
    <3>1. delivered'[i] = f  BY <1>2, <2>3, <2>5
    <3>2. EndOf(i)' = f + MsgLen(stream, f)  BY <1>1, <3>1 DEF EndOf
    <3>3. NextAfter(i)' = lo'  BY <1>2, <2>3, <2>5 DEF NextAfter
    <3>4. EndOf(i)' = lo'  BY <2>1, <3>2, Zenon
    <3> QED  BY <1>1, <2>1, <3>1, <3>3, <3>4
  <2>6. \A i \in 1 .. Len(delivered') :
          FrameAt(stream', delivered'[i]) /\ EndOf(i)' <= NextAfter(i)'
    BY <1>1, <2>4, <2>5
  <2> QED  BY <2>6 DEF DeliveredOnce, EndOf, NextAfter
<1>5. CASE delivered' = delivered
  <2>1. ASSUME NEW i \in 1 .. Len(delivered)
        PROVE  FrameAt(stream, delivered[i]) /\ EndOf(i)' <= NextAfter(i)'
    <3>1. EndOf(i)' = EndOf(i)  BY <1>1, <1>5 DEF EndOf
    <3>2. NextAfter(i) <= NextAfter(i)' /\ NextAfter(i) \in Nat /\ NextAfter(i)' \in Nat
      BY <1>1, <1>2, <1>5 DEF NextAfter
    <3> QED  BY <1>3, <3>1, <3>2
  <2>2. \A i \in 1 .. Len(delivered') :
          FrameAt(stream', delivered'[i]) /\ EndOf(i)' <= NextAfter(i)'
    BY <1>1, <1>5, <2>1
  <2> QED  BY <2>2 DEF DeliveredOnce, EndOf, NextAfter
<1> QED
  BY <1>4, <1>5
  DEF Next, ProcessNext, Add, TooShort, NoStartByte, NeedMore, Fault, vars

(* No frame is decoded twice, out of order or invented, also when the buffer *)
(* overflows (framing.c:241-256).                                            *)
THEOREM FramesDeliveredOnce == Spec => []DeliveredOnce
BY OnceInit, OnceNext, TypeCorrect, PTL DEF Spec

-----------------------------------------------------------------------------
LEMMA SettledHasRoom ==
  ASSUME ShortMessages, TypeOK, Settled
  PROVE  RoomForRead
<1> SUFFICES ASSUME phase = "read" PROVE Buffered + ChunkMax <= BufMax
  BY DEF RoomForRead
<1>1. CASE Buffered < MinFrame
  BY <1>1, Offsets DEF Buffered
<1>2. CASE Unfinished(hi)
  <2>1. lo < Len(stream) /\ lo \in 0 .. Len(stream) - 1
    BY <1>2, ReadWindow DEF Unfinished, HeaderAt, HeaderLen
  <2>2. MsgLen(stream, lo) + ChunkMax <= BufMax + 1
    BY <1>2, <2>1, StreamIsSequence, Zenon DEF ShortMessages, Unfinished
  <2>3. MsgLen(stream, lo) \in MinFrame .. 255
    BY <1>2, LengthBounds, StreamIsSequence, Offsets, Zenon DEF Unfinished
  <2>4. lo + MsgLen(stream, lo) > hi  BY <1>2 DEF Unfinished
  <2> QED  BY <2>2, <2>3, <2>4, Offsets DEF Buffered
<1> QED  BY <1>1, <1>2 DEF Settled

(* When no header announces more than BUS_MESSAGE_MAX_SIZE + 1 less a read,  *)
(* the overflow branch of the bridge task (tcp_bridge.c:283) is never taken. *)
THEOREM NeverOverflows ==
  ASSUME ShortMessages
  PROVE  Spec => []RoomForRead
<1>1. TypeOK /\ Settled => RoomForRead  BY SettledHasRoom
<1> QED  BY <1>1, SettledInit, SettledNext, TypeCorrect, PTL DEF Spec

LEMMA StepParses ==
  ASSUME TypeOK, RoomForRead, [Next]_vars
  PROVE  [Parse!Skip \/ Parse!Deliver]_<<stream, lo, delivered>>
<1> DEFINE Stutter == stream' = stream /\ lo' = lo /\ delivered' = delivered
<1>1. ASSUME NEW n \in 1 .. ChunkMax, Add(n) PROVE Stutter
  <2>1. Fits(n)  BY <1>1, Offsets DEF Add, Fits, RoomForRead, Buffered
  <2> QED  BY <1>1, <2>1 DEF Add
<1>2. CASE TooShort
  BY <1>2 DEF TooShort
<1>3. ASSUME NoStartByte PROVE Parse!Skip
  <2>1. lo' = hi /\ stream' = stream /\ delivered' = delivered
        /\ NoStartIn(lo, hi) /\ Buffered >= MinFrame
    BY <1>3 DEF NoStartByte, WorthParsing
  <2>2. hi \in lo + 1 .. Len(stream)  BY <2>1, ReadWindow DEF Buffered
  <2>3. \A o \in lo .. hi - 1 : ~FrameAt(stream, o)
    BY <2>1, NoStartNoFrame DEF NoStartIn
  <2> QED  BY <2>1, <2>2, <2>3 DEF Parse!Skip
<1>4. ASSUME NEW f \in lo .. hi - 1, NeedMore(f) PROVE Stutter \/ Parse!Skip
  <2>1. lo' = f /\ stream' = stream /\ delivered' = delivered /\ NoStartIn(lo, f)
    BY <1>4 DEF NeedMore, Front
  <2>2. CASE f = lo
    BY <2>1, <2>2
  <2>3. CASE f # lo
    <3>1. f \in lo + 1 .. Len(stream)  BY <2>3, ReadWindow
    <3>2. \A o \in lo .. f - 1 : ~FrameAt(stream, o)
      BY <2>1, NoStartNoFrame DEF NoStartIn
    <3> QED  BY <2>1, <3>1, <3>2 DEF Parse!Skip
  <2> QED  BY <2>2, <2>3
<1>5. ASSUME NEW f \in lo .. hi - 1, FrameReady(f) PROVE Parse!Deliver
  <2>1. stream' = stream /\ delivered' = Append(delivered, f) /\ NoStartIn(lo, f)
    BY <1>5 DEF FrameReady, Front
  <2>2. FrameAt(stream, f) /\ lo' = f + MsgLen(stream, f)  BY <1>5, ReadyFacts
  <2>3. f \in lo .. Len(stream) - 1  BY ReadWindow
  <2>4. \A p \in lo .. f - 1 : ~FrameAt(stream, p)
    BY <2>1, NoStartNoFrame DEF NoStartIn
  <2> QED  BY <2>1, <2>2, <2>3, <2>4, Zenon DEF Parse!Deliver
<1>6. ASSUME NEW f \in lo .. hi - 1, NEW why \in Faults, Fault(f, why)
      PROVE  Parse!Skip
  <2>1. stream' = stream /\ delivered' = delivered /\ NoStartIn(lo, f)
    BY <1>6 DEF Fault, Front
  <2>2. lo' = f + 1 /\ ~FrameAt(stream, f)  BY <1>6, FaultFacts
  <2>3. lo' \in lo + 1 .. Len(stream)  BY <2>2, ReadWindow
  <2>4. \A o \in lo .. lo' - 1 : o = f \/ o \in lo .. f - 1  BY <2>2, Offsets
  <2>5. \A o \in lo .. lo' - 1 : ~FrameAt(stream, o)
    BY <2>1, <2>2, <2>4, NoStartNoFrame, Zenon DEF NoStartIn
  <2> QED  BY <2>1, <2>3, <2>5, Zenon DEF Parse!Skip
<1>7. CASE UNCHANGED vars
  BY <1>7 DEF vars
<1> QED
  BY <1>1, <1>2, <1>3, <1>4, <1>5, <1>6, <1>7 DEF Next, ProcessNext

(* Reassembly keeps its promise: with messages that fit beside one read, no  *)
(* good frame is lost or repeated, however the reads cut the stream.         *)
THEOREM Reassembles ==
  ASSUME ShortMessages
  PROVE  Spec => ParsesStream
<1>1. Init => Parse!ParseInit  BY DEF Init, Parse!ParseInit
<1>2. TypeOK /\ RoomForRead /\ [Next]_vars
        => [Parse!Skip \/ Parse!Deliver]_<<stream, lo, delivered>>
  BY StepParses
<1> QED
  BY <1>1, <1>2, TypeCorrect, NeverOverflows, PTL
  DEF Spec, ParsesStream, Parse!ParseSpec
=============================================================================
