-------------------------------- MODULE Bus --------------------------------
(***************************************************************************)
(* main/bus.c: the half-duplex RS-485 style bus shared by several tasks of *)
(* the controller and by the other devices of the pool.                    *)
(*                                                                         *)
(* Everything the UART receives, our own echo included, is one stream.     *)
(* rx is that stream from boot; the driver's ring buffer and the stash of  *)
(* bus.c are FIFO windows of it, so two offsets stand for their contents:  *)
(*                                                                         *)
(*      1 .. handed      bytes bus_read() has handed to the reader         *)
(*      handed .. pulled the stash (s_rx_stash, StashCap bytes at most)    *)
(*      pulled .. Len(rx) the driver's ring buffer (DriverCap at most)     *)
(*                                                                         *)
(* A byte that arrives while the ring buffer is full is lost: it never     *)
(* enters rx. s_rx_pulled is pulled modulo Wrap (2^32 in the code).        *)
(***************************************************************************)
EXTENDS Integers, Sequences

CONSTANTS
  Senders,        (* tasks that call bus_send_bytes()                         *)
  Reader,         (* the task that calls bus_read(); it may be a sender too   *)
  Byte,           (* byte values                                              *)
  Frames,         (* the frames callers pass, malformed ones included         *)
  FrameMax,       (* BUS_MESSAGE_MAX_SIZE                                     *)
  StashCap,       (* BUS_RX_STASH_SIZE                                        *)
  DriverCap,      (* UART_RX_BUFFER_SIZE                                      *)
  ReadMax,        (* the reader's buffer, TCP_UART_BUFFER_SIZE                *)
  MaxAttempts,    (* BUS_TX_MAX_ATTEMPTS                                      *)
  TxTimeoutBytes, (* bytes that leave the UART within UART_TX_TIMEOUT_MS      *)
  HalfWrap,       (* half the range of the uint32_t stream offsets            *)
  MaxForeign,     (* bound: disturbances by other devices                     *)
  MaxCalls,       (* bound: calls of bus_send_bytes()                         *)
  NoTask          (* no task holds s_tx_lock                                  *)

Wrap == 2 * HalfWrap

ASSUME SenderAssumption == NoTask \notin Senders
ASSUME FrameAssumption == Frames \subseteq Seq(Byte) /\ FrameMax \in Nat
ASSUME SizeAssumption ==
  /\ StashCap \in Nat /\ DriverCap \in Nat /\ ReadMax \in Nat \ {0}
  /\ MaxAttempts \in Nat \ {0} /\ TxTimeoutBytes \in Nat
  /\ MaxForeign \in Nat /\ MaxCalls \in Nat
  /\ HalfWrap \in Nat \ {0}
  /\ FrameMax + StashCap <= HalfWrap /\ DriverCap <= HalfWrap

VARIABLES
  rx,        (* every byte received since boot                                *)
  pulled,    (* bytes taken from the driver; s_rx_pulled before it wraps      *)
  handed,    (* bytes bus_read() has returned                                 *)
  echoState, (* s_echo_state                                                  *)
  expected,  (* s_echo_expected and s_echo_len                                *)
  echoStart, (* s_echo_start, a wrapped offset                                *)
  armedAt,   (* history: the offset echoStart stands for                      *)
  judgedAt,  (* history: `pulled` when echo_wait() returned, 0 when disarmed  *)
  txLock,    (* holder of s_tx_lock                                           *)
  txQueue,   (* bytes the UART still has to send, with the task they came from *)
  pc,        (* where each sender is in bus_send_bytes()                      *)
  frame,     (* its argument                                                  *)
  attempt,   (* its loop counter                                              *)
  lastCount, (* `last` of wait_for_quiet_bus()                                *)
  queued,    (* bytes to be sent when uart_wait_tx_done() started waiting     *)
  verdict,   (* what echo_wait() returned                                     *)
  result,    (* return value of the latest call, 0 before the first           *)
  foreign,   (* disturbances so far                                           *)
  calls      (* calls so far                                                  *)

rxVars == <<rx, pulled, handed>>
echoVars == <<echoState, expected, echoStart, armedAt, judgedAt>>
callVars == <<frame, attempt, lastCount, queued, verdict, result>>
boundVars == <<foreign, calls>>
vars == <<rxVars, echoVars, txLock, txQueue, pc, callVars, boundVars>>

PC == {"idle", "lock", "listen", "quiet", "arm", "write", "drain", "echo",
       "disarm", "unlock"}
EchoStates == {"idle", "armed", "matched", "mismatch"}

(* The part of bus_send_bytes() that runs with s_tx_lock held, and the part *)
(* of it between echo_arm() and echo_disarm().                              *)
Holding == PC \ {"idle", "lock"}
Armed == {"write", "drain", "echo", "disarm"}

-----------------------------------------------------------------------------
(* The receive path.                                                        *)

StashLen == pulled - handed
Buffered == Len(rx) - pulled
ReceivedCount == Len(rx) % Wrap      \* pulled + buffered, as a uint32_t

(* int32_t of a difference of two stream offsets.                           *)
Signed(d) == IF d % Wrap < HalfWrap THEN d % Wrap ELSE (d % Wrap) - Wrap

(* Index into the expected frame of the byte at stream offset o.            *)
EchoIndex(o) == Signed((o % Wrap) - echoStart)

Differs(o) ==
  /\ EchoIndex(o) \in 0 .. Len(expected) - 1
  /\ rx[o + 1] # expected[EchoIndex(o) + 1]
(* Variant: off by one, the frame is complete one byte late.                *)
CompletesLate(o) == EchoIndex(o) = Len(expected)
Completes(o) == EchoIndex(o) = Len(expected) - 1

(* echo_observe_locked() on n newly pulled bytes: the first difference, or  *)
(* the last byte of the frame, decides; bytes before echoStart are skipped. *)
Observe(n) ==
  IF echoState # "armed" THEN echoState
  ELSE IF \E o \in pulled .. pulled + n - 1 : Differs(o) THEN "mismatch"
  ELSE IF \E o \in pulled .. pulled + n - 1 : Completes(o) THEN "matched"
  ELSE "armed"

(* Variant: the stash's remaining space is not looked at.                   *)
PullCountAll == Buffered

(* rx_pull_locked(): nothing is taken from the driver when the stash is full. *)
PullCount == IF StashCap - StashLen < Buffered THEN StashCap - StashLen
                                               ELSE Buffered
Pull == /\ pulled' = pulled + PullCount
        /\ echoState' = Observe(PullCount)

(* A byte reaches the UART; the driver drops it when its buffer is full.    *)
Receive(b) == rx' = IF Buffered < DriverCap THEN Append(rx, b) ELSE rx

(* bus_read(): the reader is inside a send when it is itself a sender that  *)
(* is not idle, and does not read then.                                     *)
Read ==
  /\ Reader \in Senders => pc[Reader] = "idle"
  /\ StashLen > 0 \/ Buffered > 0
  /\ Pull
  /\ handed' = IF pulled' - handed < ReadMax THEN pulled' ELSE handed + ReadMax
  /\ UNCHANGED <<rx, expected, echoStart, armedAt, judgedAt, txLock, txQueue,
                 pc, callVars, boundVars>>

-----------------------------------------------------------------------------
(* The wire (external).                                                     *)

(* Another device puts a byte on the bus, at any time.                      *)
ForeignByte(b) ==
  /\ foreign < MaxForeign
  /\ foreign' = foreign + 1
  /\ Receive(b)
  /\ UNCHANGED <<pulled, handed, echoVars, txLock, txQueue, pc, callVars, calls>>

(* The UART sends its next byte and the bus echoes it.                      *)
OwnByte ==
  /\ txQueue # <<>>
  /\ txQueue' = Tail(txQueue)
  /\ Receive(Head(txQueue).val)
  /\ UNCHANGED <<pulled, handed, echoVars, txLock, pc, callVars, boundVars>>

(* The same when another device drives the line too: the echo is another    *)
(* byte, or none is recognised.                                             *)
CollidedByte ==
  /\ txQueue # <<>>
  /\ foreign < MaxForeign
  /\ foreign' = foreign + 1
  /\ txQueue' = Tail(txQueue)
  /\ \/ \E b \in Byte \ {Head(txQueue).val} : Receive(b)
     \/ UNCHANGED rx
  /\ UNCHANGED <<pulled, handed, echoVars, txLock, pc, callVars, calls>>

-----------------------------------------------------------------------------
(* bus_send_bytes(), one action per critical section or driver call.        *)

Step(s, from, to) == pc[s] = from /\ pc' = [pc EXCEPT ![s] = to]

Sendable(f) == f # <<>> /\ Len(f) <= FrameMax

(* An empty or oversized frame is refused before the lock is taken.         *)
Refuse(s, f) ==
  /\ pc[s] = "idle" /\ ~Sendable(f)
  /\ calls < MaxCalls
  /\ calls' = calls + 1
  /\ result' = [result EXCEPT ![s] = -1]
  /\ UNCHANGED <<rxVars, echoVars, txLock, txQueue, pc, frame, attempt,
                 lastCount, queued, verdict, foreign>>

Call(s, f) ==
  /\ Sendable(f)
  /\ Step(s, "idle", "lock")
  /\ calls < MaxCalls
  /\ calls' = calls + 1
  /\ frame' = [frame EXCEPT ![s] = f]
  /\ UNCHANGED <<rxVars, echoVars, txLock, txQueue, attempt, lastCount, queued,
                 verdict, result, foreign>>

TakeLock(s) ==
  /\ Step(s, "lock", "listen")
  /\ txLock = NoTask
  /\ txLock' = s
  /\ attempt' = [attempt EXCEPT ![s] = 1]
  /\ result' = [result EXCEPT ![s] = -1]
  /\ UNCHANGED <<rxVars, echoVars, txQueue, frame, lastCount, queued, verdict,
                 boundVars>>

(* wait_for_quiet_bus(): sample the count of received bytes ...             *)
Listen(s) ==
  /\ Step(s, "listen", "quiet")
  /\ lastCount' = [lastCount EXCEPT ![s] = ReceivedCount]
  /\ UNCHANGED <<rxVars, echoVars, txLock, txQueue, frame, attempt, queued,
                 verdict, result, boundVars>>

(* ... it is still the same when the idle window has passed: quiet;         *)
Quiet(s) ==
  /\ Step(s, "quiet", "arm")
  /\ ReceivedCount = lastCount[s]
  /\ UNCHANGED <<rxVars, echoVars, txLock, txQueue, callVars, boundVars>>

(* ... it has changed: start again, or past the deadline transmit anyway.   *)
Busy(s) ==
  /\ ReceivedCount # lastCount[s]
  /\ Step(s, "quiet", "listen") \/ Step(s, "quiet", "arm")
  /\ UNCHANGED <<rxVars, echoVars, txLock, txQueue, callVars, boundVars>>

(* Variant: bytes still in the driver's buffer are not counted.             *)
ArmAtPulled(s) ==
  /\ Step(s, "arm", "write")
  /\ expected' = frame[s]
  /\ echoStart' = pulled % Wrap
  /\ armedAt' = Len(rx)
  /\ echoState' = "armed"
  /\ UNCHANGED <<rxVars, judgedAt, txLock, txQueue, callVars, boundVars>>

(* echo_arm(): the echo starts at the next byte to arrive.                  *)
Arm(s) ==
  /\ Step(s, "arm", "write")
  /\ expected' = frame[s]
  /\ echoStart' = ReceivedCount
  /\ armedAt' = Len(rx)
  /\ echoState' = "armed"
  /\ UNCHANGED <<rxVars, judgedAt, txLock, txQueue, callVars, boundVars>>

(* uart_write_bytes() copies the frame to the driver's TX buffer ...        *)
Write(s) ==
  /\ Step(s, "write", "drain")
  /\ txQueue' = txQueue \o [i \in 1 .. Len(frame[s]) |->
                              [by |-> s, val |-> frame[s][i]]]
  /\ queued' = [queued EXCEPT ![s] = Len(txQueue) + Len(frame[s])]
  /\ UNCHANGED <<rxVars, echoVars, txLock, frame, attempt, lastCount, verdict,
                 result, boundVars>>

(* ... or fails.                                                            *)
WriteError(s) ==
  /\ Step(s, "write", "disarm")
  /\ verdict' = [verdict EXCEPT ![s] = "error"]
  /\ UNCHANGED <<rxVars, echoVars, txLock, txQueue, frame, attempt, lastCount,
                 queued, result, boundVars>>

(* uart_wait_tx_done() ends when everything has been sent ...               *)
TxDone(s) ==
  /\ Step(s, "drain", "echo")
  /\ txQueue = <<>>
  /\ UNCHANGED <<rxVars, echoVars, txLock, txQueue, callVars, boundVars>>

(* Variant: the return value of uart_wait_tx_done() is not looked at.       *)
TxTimeoutIgnored(s) ==
  /\ Step(s, "drain", "echo")
  /\ txQueue # <<>>
  /\ queued[s] - Len(txQueue) >= TxTimeoutBytes
  /\ UNCHANGED <<rxVars, echoVars, txLock, txQueue, callVars, boundVars>>

(* ... or when UART_TX_TIMEOUT_MS was not enough for what was queued.       *)
TxTimeout(s) ==
  /\ Step(s, "drain", "disarm")
  /\ txQueue # <<>>
  /\ queued[s] - Len(txQueue) >= TxTimeoutBytes
  /\ verdict' = [verdict EXCEPT ![s] = "error"]
  /\ UNCHANGED <<rxVars, echoVars, txLock, txQueue, frame, attempt, lastCount,
                 queued, result, boundVars>>

(* One round of echo_wait(): pull and sample in one critical section, then  *)
(* return the state if it is decided.                                       *)
EchoDecided(s) ==
  /\ Step(s, "echo", "disarm")
  /\ Pull
  /\ echoState' # "armed"
  /\ verdict' = [verdict EXCEPT ![s] = echoState']
  /\ judgedAt' = pulled'
  /\ UNCHANGED <<rx, handed, expected, echoStart, armedAt, txLock, txQueue,
                 frame, attempt, lastCount, queued, result, boundVars>>

(* Variant: leaves the pulling to the reader.                               *)
EchoUnpulled(s) ==
  /\ Step(s, "echo", "disarm")
  /\ echoState = "armed"
  /\ verdict' = [verdict EXCEPT ![s] = "armed"]
  /\ UNCHANGED <<rxVars, echoVars, txLock, txQueue, frame, attempt, lastCount,
                 queued, result, boundVars>>

(* Undecided: poll again, or return ECHO_ARMED after BUS_TX_ECHO_TIMEOUT_MS. *)
EchoUndecided(s) ==
  /\ Pull
  /\ echoState' = "armed"
  /\ \/ /\ pc[s] = "echo" /\ PullCount > 0
        /\ UNCHANGED <<pc, verdict, judgedAt>>
     \/ /\ Step(s, "echo", "disarm")
        /\ verdict' = [verdict EXCEPT ![s] = "armed"]
        /\ judgedAt' = pulled'
  /\ UNCHANGED <<rx, handed, expected, echoStart, armedAt, txLock, txQueue,
                 frame, attempt, lastCount, queued, result, boundVars>>

(* Variant: a frame whose echo was not heard is sent again.                 *)
RetryableUnconfirmed(s) ==
  verdict[s] \in {"mismatch", "armed"} /\ attempt[s] < MaxAttempts

(* echo_disarm() and what follows it: a matched or absent echo is a         *)
(* success, a collision is retried MaxAttempts - 1 times.                   *)
Retryable(s) == verdict[s] = "mismatch" /\ attempt[s] < MaxAttempts

Retry(s) ==
  /\ Step(s, "disarm", "listen")
  /\ Retryable(s)
  /\ echoState' = "idle" /\ judgedAt' = 0
  /\ attempt' = [attempt EXCEPT ![s] = @ + 1]
  /\ UNCHANGED <<rxVars, expected, echoStart, armedAt, txLock, txQueue, frame,
                 lastCount, queued, verdict, result, boundVars>>

Conclude(s) ==
  /\ Step(s, "disarm", "unlock")
  /\ ~Retryable(s)
  /\ echoState' = "idle" /\ judgedAt' = 0
  /\ result' = [result EXCEPT ![s] = IF verdict[s] \in {"matched", "armed"}
                                     THEN Len(frame[s]) ELSE @]
  /\ UNCHANGED <<rxVars, expected, echoStart, armedAt, txLock, txQueue, frame,
                 attempt, lastCount, queued, verdict, boundVars>>

(* Variant: the error path leaves without giving the lock back.             *)
UnlockUnlessError(s) ==
  /\ Step(s, "unlock", "idle")
  /\ txLock' = IF verdict[s] = "error" THEN txLock ELSE NoTask
  /\ UNCHANGED <<rxVars, echoVars, txQueue, callVars, boundVars>>

Unlock(s) ==
  /\ Step(s, "unlock", "idle")
  /\ txLock' = NoTask
  /\ UNCHANGED <<rxVars, echoVars, txQueue, callVars, boundVars>>

-----------------------------------------------------------------------------
Init ==
  /\ rx = <<>> /\ pulled = 0 /\ handed = 0
  /\ echoState = "idle" /\ expected = <<>> /\ echoStart = 0 /\ armedAt = 0
  /\ judgedAt = 0
  /\ txLock = NoTask /\ txQueue = <<>>
  /\ pc = [s \in Senders |-> "idle"]
  /\ frame = [s \in Senders |-> <<>>]
  /\ attempt = [s \in Senders |-> 0]
  /\ lastCount = [s \in Senders |-> 0]
  /\ queued = [s \in Senders |-> 0]
  /\ verdict = [s \in Senders |-> "idle"]
  /\ result = [s \in Senders |-> 0]
  /\ foreign = 0 /\ calls = 0

(* A step of bus_send_bytes() after it has been called.                     *)
Send(s) ==
  \/ TakeLock(s) \/ Listen(s) \/ Quiet(s) \/ Busy(s) \/ Arm(s) \/ Write(s)
  \/ WriteError(s) \/ TxDone(s) \/ TxTimeout(s) \/ EchoDecided(s)
  \/ EchoUndecided(s) \/ Retry(s) \/ Conclude(s) \/ Unlock(s)

Next ==
  \/ Read
  \/ \E b \in Byte : ForeignByte(b)
  \/ OwnByte
  \/ CollidedByte
  \/ \E s \in Senders : \E f \in Frames : Refuse(s, f) \/ Call(s, f)
  \/ \E s \in Senders : Send(s)

Spec == Init /\ [][Next]_vars

(* Tasks are scheduled, the UART keeps sending, and s_tx_lock goes to a     *)
(* waiting task when it is given back.                                      *)
Fairness ==
  /\ WF_vars(OwnByte)
  /\ WF_vars(Read)
  /\ \A s \in Senders : WF_vars(Send(s))

FairSpec == Spec /\ Fairness

-----------------------------------------------------------------------------
StreamOK ==
  /\ rx \in Seq(Byte)
  /\ pulled \in Nat /\ handed \in Nat
  /\ handed <= pulled /\ pulled <= Len(rx)
  /\ StashLen <= StashCap /\ Buffered <= DriverCap

EchoOK ==
  /\ echoState \in EchoStates
  /\ expected \in Seq(Byte)
  /\ armedAt \in Nat /\ echoStart \in Nat /\ judgedAt \in Nat

CallOK ==
  /\ txLock \in Senders \cup {NoTask}
  /\ txQueue \in Seq([by : Senders, val : Byte])
  /\ pc \in [Senders -> PC]
  /\ frame \in [Senders -> Seq(Byte)]
  /\ attempt \in [Senders -> 0 .. MaxAttempts]
  /\ lastCount \in [Senders -> Nat]
  /\ queued \in [Senders -> Nat]
  /\ verdict \in [Senders -> EchoStates \cup {"error"}]
  /\ result \in [Senders -> Int]
  /\ foreign \in 0 .. MaxForeign /\ calls \in 0 .. MaxCalls

TypeOK == StreamOK /\ EchoOK /\ CallOK

(* The lock discipline the comment at s_tx_lock promises: one sender is     *)
(* past the lock at a time, and an echo is armed only for that sender and   *)
(* only for the frame it is sending.                                        *)
OneArmedEcho ==
  /\ \A s \in Senders : (pc[s] \in Holding) <=> (txLock = s)
  /\ echoState # "idle" =>
       \E s \in Senders : pc[s] \in Armed /\ expected = frame[s]

(* A difference between what was received since echo_arm() and frame f.     *)
HeardIntact(f) ==
  /\ Len(rx) >= armedAt + Len(f)
  /\ \A k \in 1 .. Len(f) : rx[armedAt + k] = f[k]
HeardCollision(f) ==
  \E k \in 1 .. Len(f) : armedAt + k <= Len(rx) /\ rx[armedAt + k] # f[k]

(* A send that found its echo matched really was heard intact on the bus,   *)
(* whoever pulled the bytes and however reads and pulls interleaved; a send *)
(* that found a collision really was disturbed (so it is never repeated     *)
(* after it was delivered undisturbed). bus.c, echo_observe_locked().       *)
VerdictTrue ==
  \A s \in Senders : pc[s] = "disarm" =>
    /\ verdict[s] = "matched" => HeardIntact(frame[s])
    /\ verdict[s] = "mismatch" => HeardCollision(frame[s])

(* While an echo is armed no byte at or past the end of the expected frame  *)
(* has been compared, and the next bytes are compared with the right ones:  *)
(* s_echo_expected is never read out of bounds, also when the offsets wrap. *)
EchoInBounds ==
  echoState = "armed" =>
    /\ pulled < armedAt + Len(expected)
    /\ \A o \in pulled .. pulled + PullCount - 1 : EchoIndex(o) = o - armedAt

(* "Confirming an echo doesn't depend on the reader task" (bus.c:27): when  *)
(* echo_wait() gives up undecided, what was received since echo_arm() is a  *)
(* proper beginning of the frame; no collision is taken for silence. This   *)
(* needs room in the stash: when it is full and the reader is itself        *)
(* sending, nothing more is pulled and the property fails.                  *)
NoEchoMeansSilence ==
  [][\A s \in Senders :
       (pc[s] = "echo" /\ pc'[s] = "disarm" /\ verdict'[s] = "armed")
         => ~HeardCollision(frame[s]) /\ ~HeardIntact(frame[s])]_vars

(* "One transmitter at a time" (bus.c:46), also past UART_TX_TIMEOUT_MS: a  *)
(* byte the UART still has to send is of the one task that waits for it to  *)
(* leave, or was left by a send that ran into a driver error and tells its  *)
(* caller -1. No send looks for its echo, or reports success, before        *)
(* everything has left.                                                     *)
OneTransmitter ==
  /\ \A i \in 1 .. Len(txQueue) : LET s == txQueue[i].by IN
       pc[s] = "drain" \/ (verdict[s] = "error" /\ result[s] = -1)
  /\ \A s \in Senders : pc[s] = "echo" => txQueue = <<>>

(* What n bytes of the stream tell of a frame f sent from armedAt on.       *)
DisturbedBy(f, n) ==
  \E k \in 1 .. Len(f) : armedAt + k <= n /\ rx[armedAt + k] # f[k]
EchoHeard(f, n) ==
  IF DisturbedBy(f, n) THEN "disturbed"
  ELSE IF armedAt + Len(f) <= n THEN "intact" ELSE "open"

(* How a sender's place in bus_send_bytes() looks to its caller.            *)
Listening == {"listen", "quiet", "arm"}
Trying == {"write", "drain", "echo"}
PhaseOf(p, v) ==
  CASE p = "idle" -> "idle"
    [] p = "lock" -> "waiting"
    [] p \in Listening -> "listening"
    [] p \in Trying -> "sending"
    [] p = "disarm" -> (IF v = "error" THEN "broken" ELSE "judged")
    [] p = "unlock" -> "ended"

linePhase == [s \in Senders |-> PhaseOf(pc[s], verdict[s])]
lineTries == [s \in Senders |-> IF pc[s] \in Listening THEN attempt[s] - 1
                                                      ELSE attempt[s]]
lineOutcome == [s \in Senders |-> IF result[s] > 0 THEN "sent" ELSE "failed"]

(* The echo is what the bytes on the bus say, as far as they have been      *)
(* pulled, and after echo_wait() as far as they were when it returned.      *)
EchoOf(s) ==
  CASE pc[s] \in Trying -> EchoHeard(frame[s], pulled)
    [] pc[s] = "disarm" /\ verdict[s] # "error" -> EchoHeard(frame[s], judgedAt)
    [] OTHER -> "open"
lineEcho == IF txLock \in Senders THEN EchoOf(txLock) ELSE "open"

(* bus_send_bytes() keeps the promise of bus.h that LineAccess states: it   *)
(* repeats a frame exactly when the bytes heard so far differ from it and   *)
(* tries are left, and reports success exactly when its last try was not    *)
(* contradicted by what was heard when echo_wait() returned.                *)
Line == INSTANCE LineAccess WITH
  owner <- txLock, phase <- linePhase, tries <- lineTries, echo <- lineEcho,
  outcome <- lineOutcome

KeepsLinePromise == Line!LineSpec

(* Every call returns, whatever collides and whichever error it meets.      *)
SendReturns == \A s \in Senders : (pc[s] # "idle") ~> (pc[s] = "idle")
=============================================================================
