----------------------------- MODULE BusProofs -----------------------------
(***************************************************************************)
(* Proofs about module Bus, for any set of senders, any frames and any     *)
(* buffer sizes that the assumptions of Bus allow.                         *)
(***************************************************************************)
EXTENDS Bus, SequenceTheorems, TLAPS

USE SenderAssumption, FrameAssumption, SizeAssumption

-----------------------------------------------------------------------------
(* Stream offsets that wrap.                                                *)

(* x % m lies below m and differs from x by a multiple of m.                *)
LEMMA Quotient ==
  ASSUME NEW m \in Nat, m > 0, NEW x \in Int
  PROVE  x % m \in 0 .. m - 1 /\ \E q \in Int : x = m * q + (x % m)
<1>1. x \div m \in Int /\ x = m * (x \div m) + (x % m) /\ x % m \in 0 .. m - 1
  BY SMT
<1> QED  BY <1>1

(* A multiple of m strictly between -2m and 2m is -m, 0 or m.               *)
LEMMA SmallMultiple ==
  ASSUME NEW m \in Nat, m > 0, NEW k \in Int, -2 * m < m * k, m * k < 2 * m
  PROVE  k \in {-1, 0, 1}
<1>1. ~(k >= 2)
  <2> SUFFICES ASSUME k >= 2 PROVE FALSE  OBVIOUS
  <2>1. m * k >= 2 * m  BY SMT
  <2> QED  BY <2>1, SMT
<1>2. ~(k <= -2)
  <2> SUFFICES ASSUME k <= -2 PROVE FALSE  OBVIOUS
  <2>1. m * k <= -2 * m  BY SMT
  <2> QED  BY <2>1, SMT
<1> QED  BY <1>1, <1>2, SMT

(* Remainders of numbers in one window around 0.                            *)
LEMMA RemainderNear ==
  ASSUME NEW m \in Nat, m > 0, NEW d \in Int, -m <= d, d < m
  PROVE  d % m = IF d >= 0 THEN d ELSE d + m
<1>1. CASE d >= 0  BY <1>1, SMT
<1>2. CASE d < 0   BY <1>2, SMT
<1> QED  BY <1>1, <1>2

(* The cast to int32_t in echo_observe_locked() recovers the distance of    *)
(* two offsets from their wrapped values when it is less than half a wrap.  *)
LEMMA SignedDistance ==
  ASSUME NEW a \in Int, NEW b \in Int, a - b < HalfWrap, -HalfWrap <= a - b
  PROVE  Signed((a % Wrap) - (b % Wrap)) = a - b
<1> DEFINE m == Wrap
           e == (a % m) - (b % m)
<1>1. m \in Nat /\ m > 0 /\ m = 2 * HalfWrap
  BY SMT DEF Wrap
<1>2. PICK q \in Int : a = m * q + (a % m)  BY <1>1, Quotient
<1>3. PICK r \in Int : b = m * r + (b % m)  BY <1>1, Quotient
<1>4. a % m \in 0 .. m - 1 /\ b % m \in 0 .. m - 1  BY <1>1, Quotient
<1>d. Signed(e) = IF e % m < HalfWrap THEN e % m ELSE (e % m) - m
  BY DEF Signed
<1> HIDE DEF m
<1>5. e \in Int /\ -m < e /\ e < m  BY <1>1, <1>4, SMT
<1>6. m * q - m * r = m * (q - r)  BY <1>1, SMT
<1>7. a - b = e + m * (q - r)  BY <1>1, <1>2, <1>3, <1>4, <1>6, SMT
<1> HIDE DEF e
<1>8. -2 * m < m * (q - r) /\ m * (q - r) < 2 * m  BY <1>1, <1>5, <1>7, SMT
<1>9. q - r \in {-1, 0, 1}  BY <1>1, <1>8, SmallMultiple
<1>10. a - b \in {e - m, e, e + m}  BY <1>1, <1>5, <1>7, <1>9, SMT
<1>11. e % m = IF e >= 0 THEN e ELSE e + m  BY <1>1, <1>5, RemainderNear
<1>12. Signed(e) = a - b  BY <1>1, <1>5, <1>10, <1>11, <1>d, SMT
<1> QED  BY <1>12 DEF m, e

-----------------------------------------------------------------------------
(* Type correctness.                                                        *)

(* A pull takes what fits: never more than the stash has room for, nor more *)
(* than the driver holds.                                                   *)
LEMMA PullFits ==
  ASSUME StreamOK
  PROVE  /\ PullCount \in Nat
         /\ pulled + PullCount <= Len(rx)
         /\ StashLen + PullCount <= StashCap
BY DEF StreamOK, PullCount, StashLen, Buffered

LEMMA WrapPositive == Wrap \in Nat /\ Wrap > 0
BY DEF Wrap

LEMMA CountType == StreamOK => ReceivedCount \in Nat
BY WrapPositive, Quotient DEF ReceivedCount, StreamOK

LEMMA ObserveType == EchoOK => \A n : Observe(n) \in EchoStates
BY DEF Observe, EchoStates, EchoOK

(* A pull keeps the stream well typed, whatever is handed to the reader of  *)
(* the stash afterwards.                                                    *)
LEMMA PullType ==
  ASSUME StreamOK, EchoOK, Pull, rx' = rx, handed' \in Nat,
         handed <= handed', handed' <= pulled', judgedAt' \in Nat,
         UNCHANGED <<expected, echoStart, armedAt>>
  PROVE  StreamOK' /\ EchoOK'
<1>1. pulled' \in Nat /\ pulled' <= Len(rx) /\ pulled <= pulled'
  BY PullFits DEF Pull, StreamOK
<1>2. StreamOK'
  BY <1>1, PullFits DEF Pull, StreamOK, StashLen, Buffered
<1>3. EchoOK'
  BY ObserveType DEF Pull, EchoOK
<1> QED  BY <1>2, <1>3

(* What a received byte does to the stream.                                 *)
LEMMA ReceiveType ==
  ASSUME StreamOK, NEW b \in Byte, Receive(b), UNCHANGED <<pulled, handed>>
  PROVE  /\ StreamOK'
         /\ Len(rx') >= Len(rx)
         /\ \A k \in 1 .. Len(rx) : rx'[k] = rx[k]
BY DEF StreamOK, Receive, Buffered, StashLen

(* A task's frame, as written to the UART, is a sequence of tagged bytes.   *)
LEMMA TaggedType ==
  ASSUME NEW s \in Senders, NEW f \in Seq(Byte)
  PROVE  [i \in 1 .. Len(f) |-> [by |-> s, val |-> f[i]]]
            \in Seq([by : Senders, val : Byte])
OBVIOUS

LEMMA TypeInit == Init => TypeOK
BY WrapPositive
DEF Init, TypeOK, StreamOK, EchoOK, CallOK, PC, EchoStates, StashLen, Buffered

LEMMA TypeStep == TypeOK /\ [Next]_vars => TypeOK'
<1> SUFFICES ASSUME TypeOK, [Next]_vars PROVE StreamOK' /\ EchoOK' /\ CallOK'
  BY DEF TypeOK
<1> USE DEF rxVars, echoVars, callVars, boundVars
<1>t. StreamOK /\ EchoOK /\ CallOK  BY DEF TypeOK
<1>r. ASSUME UNCHANGED rxVars PROVE StreamOK'
  BY <1>t, <1>r DEF StreamOK, StashLen, Buffered
<1>e. ASSUME UNCHANGED echoVars PROVE EchoOK'
  BY <1>t, <1>e DEF EchoOK
<1>c. ASSUME UNCHANGED <<txLock, txQueue, pc, callVars, boundVars>> PROVE CallOK'
  BY <1>t, <1>c DEF CallOK
<1>1. CASE Read
  <2>1. handed' \in Nat /\ handed <= handed' /\ handed' <= pulled'
    BY <1>1, <1>t, PullFits DEF Read, Pull, StreamOK
  <2>2. StreamOK' /\ EchoOK'
    BY <1>1, <1>t, <2>1, PullType DEF Read, EchoOK
  <2> QED
    BY <1>1, <1>c, <2>2 DEF Read
<1>2. ASSUME NEW b \in Byte, ForeignByte(b) PROVE StreamOK' /\ EchoOK' /\ CallOK'
  BY <1>2, <1>t, <1>e, ReceiveType DEF ForeignByte, CallOK
<1>q. ASSUME txQueue # <<>>
      PROVE  Head(txQueue).val \in Byte
             /\ Tail(txQueue) \in Seq([by : Senders, val : Byte])
  <2> DEFINE T == [by : Senders, val : Byte]
  <2>1. txQueue \in Seq(T)  BY <1>t DEF CallOK
  <2>2. Head(txQueue) \in T /\ Tail(txQueue) \in Seq(T)
    BY <1>q, <2>1, HeadTailProperties
  <2> QED  BY <2>2
<1>3. CASE OwnByte
  <2>1. StreamOK'  BY <1>3, <1>t, <1>q, ReceiveType DEF OwnByte
  <2>2. CallOK'  BY <1>3, <1>t, <1>q DEF OwnByte, CallOK
  <2> QED  BY <1>3, <1>e, <2>1, <2>2 DEF OwnByte
<1>4. CASE CollidedByte
  <2>1. StreamOK'
    <3>1. CASE UNCHANGED rx  BY <1>4, <1>r, <3>1 DEF CollidedByte
    <3>2. ASSUME NEW b \in Byte, Receive(b) PROVE StreamOK'
      BY <1>4, <1>t, <3>2, ReceiveType DEF CollidedByte
    <3> QED  BY <1>4, <3>1, <3>2 DEF CollidedByte
  <2>2. CallOK'
    <3>1. /\ txQueue # <<>> /\ txQueue' = Tail(txQueue)
          /\ foreign < MaxForeign /\ foreign' = foreign + 1
          /\ UNCHANGED <<txLock, pc, callVars, calls>>
      BY <1>4 DEF CollidedByte
    <3>2. foreign' \in 0 .. MaxForeign  BY <3>1, <1>t DEF CallOK
    <3>3. txQueue' \in Seq([by : Senders, val : Byte])  BY <3>1, <1>q
    <3> QED  BY <3>1, <3>2, <3>3, <1>t DEF CallOK
  <2> QED  BY <1>4, <1>e, <2>1, <2>2 DEF CollidedByte
<1>5. ASSUME NEW s \in Senders, NEW f \in Frames, Refuse(s, f) \/ Call(s, f)
      PROVE  StreamOK' /\ EchoOK' /\ CallOK'
  <2>1. CASE Refuse(s, f)
    <3>1. result' \in [Senders -> Int]  BY <2>1, <1>t DEF Refuse, CallOK
    <3>2. calls' \in 0 .. MaxCalls  BY <2>1, <1>t DEF Refuse, CallOK
    <3> QED  BY <2>1, <1>t, <1>r, <1>e, <3>1, <3>2 DEF Refuse, CallOK
  <2>2. CASE Call(s, f)
    <3>1. f \in Seq(Byte)  OBVIOUS
    <3>2. frame' \in [Senders -> Seq(Byte)] /\ pc' \in [Senders -> PC]
      BY <2>2, <1>t, <3>1 DEF Call, Step, CallOK, PC
    <3> QED  BY <2>2, <1>t, <1>r, <1>e, <3>2 DEF Call, CallOK
  <2> QED  BY <1>5, <2>1, <2>2
<1>6. ASSUME NEW s \in Senders, Send(s) PROVE StreamOK' /\ EchoOK' /\ CallOK'
  <2>p. ASSUME NEW a \in PC, NEW b \in PC, Step(s, a, b)
        PROVE  pc' \in [Senders -> PC]
    BY <2>p, <1>t DEF Step, CallOK
  <2>v. ASSUME NEW v \in EchoStates \cup {"error"}, verdict' = [verdict EXCEPT ![s] = v]
        PROVE  verdict' \in [Senders -> EchoStates \cup {"error"}]
    BY <2>v, <1>t DEF CallOK
  <2>1. CASE TakeLock(s)
    BY <2>1, <1>t, <1>r, <1>e DEF TakeLock, Step, CallOK, PC
  <2>2. CASE Listen(s)
    BY <2>2, <1>t, <1>r, <1>e, CountType DEF Listen, Step, CallOK, PC
  <2>3. CASE Quiet(s)
    BY <2>3, <1>t, <1>r, <1>e DEF Quiet, Step, CallOK, PC
  <2>4. CASE Busy(s)
    BY <2>4, <1>t, <1>r, <1>e DEF Busy, Step, CallOK, PC
  <2>5. CASE Arm(s)
    <3>1. EchoOK'
      BY <2>5, <1>t, CountType DEF Arm, EchoOK, EchoStates, CallOK, StreamOK
    <3> QED  BY <2>5, <1>t, <1>r, <3>1 DEF Arm, Step, CallOK, PC
  <2>6. CASE Write(s)
    <3>1. txQueue' \in Seq([by : Senders, val : Byte])
      BY <2>6, <1>t, TaggedType DEF Write, CallOK
    <3>2. queued' \in [Senders -> Nat]
      BY <2>6, <1>t DEF Write, CallOK
    <3> QED
      BY <2>6, <1>t, <1>r, <1>e, <3>1, <3>2 DEF Write, Step, CallOK, PC
  <2>7. CASE WriteError(s)
    BY <2>7, <1>t, <1>r, <1>e, <2>v DEF WriteError, Step, CallOK, PC
  <2>8. CASE TxDone(s)
    BY <2>8, <1>t, <1>r, <1>e DEF TxDone, Step, CallOK, PC
  <2>9. CASE TxTimeout(s)
    BY <2>9, <1>t, <1>r, <1>e, <2>v DEF TxTimeout, Step, CallOK, PC
  <2>10. CASE EchoDecided(s)
    <3>1. handed' \in Nat /\ handed <= handed' /\ handed' <= pulled'
      BY <2>10, <1>t, PullFits DEF EchoDecided, Pull, StreamOK
    <3>j. judgedAt' \in Nat
      BY <2>10, <1>t, PullFits DEF EchoDecided, Pull, StreamOK
    <3>2. StreamOK' /\ EchoOK'
      BY <2>10, <1>t, <3>1, <3>j, PullType DEF EchoDecided
    <3>3. verdict' \in [Senders -> EchoStates \cup {"error"}]
      BY <2>10, <2>v, <3>2 DEF EchoDecided, EchoOK
    <3>4. pc' \in [Senders -> PC]
      BY <2>10, <2>p DEF EchoDecided, PC
    <3> QED  BY <2>10, <1>t, <3>2, <3>3, <3>4 DEF EchoDecided, CallOK
  <2>11. CASE EchoUndecided(s)
    <3>1. handed' \in Nat /\ handed <= handed' /\ handed' <= pulled'
      BY <2>11, <1>t, PullFits DEF EchoUndecided, Pull, StreamOK
    <3>j. judgedAt' \in Nat
      BY <2>11, <1>t, PullFits DEF EchoUndecided, Pull, StreamOK, EchoOK
    <3>2. StreamOK' /\ EchoOK'
      BY <2>11, <1>t, <3>1, <3>j, PullType DEF EchoUndecided
    <3>3. verdict' \in [Senders -> EchoStates \cup {"error"}]
      BY <2>11, <2>v, <1>t DEF EchoUndecided, CallOK, EchoStates
    <3>4. pc' \in [Senders -> PC]
      BY <2>11, <2>p, <1>t DEF EchoUndecided, PC, CallOK
    <3> QED  BY <2>11, <1>t, <3>2, <3>3, <3>4 DEF EchoUndecided, CallOK
  <2>12. CASE Retry(s)
    <3>1. attempt' \in [Senders -> 0 .. MaxAttempts]
      BY <2>12, <1>t DEF Retry, Retryable, CallOK
    <3>2. EchoOK'  BY <2>12, <1>t DEF Retry, EchoOK, EchoStates
    <3>3. pc' \in [Senders -> PC]  BY <2>12, <2>p DEF Retry, PC
    <3> QED  BY <2>12, <1>t, <1>r, <3>1, <3>2, <3>3 DEF Retry, CallOK
  <2>13. CASE Conclude(s)
    <3>1. result' \in [Senders -> Int]  BY <2>13, <1>t DEF Conclude, CallOK
    <3>2. EchoOK'  BY <2>13, <1>t DEF Conclude, EchoOK, EchoStates
    <3>3. pc' \in [Senders -> PC]  BY <2>13, <2>p DEF Conclude, PC
    <3> QED  BY <2>13, <1>t, <1>r, <3>1, <3>2, <3>3 DEF Conclude, CallOK
  <2>14. CASE Unlock(s)
    BY <2>14, <1>t, <1>r, <1>e DEF Unlock, Step, CallOK, PC
  <2> QED
    BY <1>6, <2>1, <2>2, <2>3, <2>4, <2>5, <2>6, <2>7, <2>8, <2>9, <2>10,
       <2>11, <2>12, <2>13, <2>14 DEF Send
<1>7. CASE UNCHANGED vars
  BY <1>7, <1>r, <1>e, <1>c DEF vars
<1> QED
  BY <1>1, <1>2, <1>3, <1>4, <1>5, <1>6, <1>7 DEF Next

(* Every reachable state is well typed; the stash and the driver's buffer   *)
(* never hold more than their capacity (bus.c, rx_pull_locked()).           *)
THEOREM TypeCorrect == Spec => []TypeOK
<1>1. Init => TypeOK  BY TypeInit
<1>2. TypeOK /\ [Next]_vars => TypeOK'  BY TypeStep
<1> QED  BY <1>1, <1>2, PTL DEF Spec

-----------------------------------------------------------------------------
(* The inductive invariant behind OneArmedEcho, VerdictTrue and             *)
(* EchoInBounds.                                                            *)

(* Who holds the lock, who has armed the echo, and what is being sent.      *)
LockInv ==
  /\ \A s \in Senders : (pc[s] \in Holding) <=> (txLock = s)
  /\ \A s \in Senders :
       pc[s] \in Armed => echoState # "idle" /\ expected = frame[s]
  /\ echoState # "idle" => \E s \in Senders : pc[s] \in Armed
  /\ \A s \in Senders : pc[s] # "idle" => Sendable(frame[s])

(* What echoState says of the bytes received since echo_arm().              *)
TrackInv ==
  echoState # "idle" =>
    /\ Len(expected) \in 1 .. FrameMax
    /\ echoStart = armedAt % Wrap
    /\ armedAt <= Len(rx) /\ armedAt - pulled <= DriverCap
    /\ echoState = "armed" =>
         /\ pulled < armedAt + Len(expected)
         /\ \A k \in 1 .. Len(expected) :
              armedAt + k <= pulled => rx[armedAt + k] = expected[k]
    /\ echoState = "matched" =>
         armedAt + Len(expected) <= pulled /\ ~DisturbedBy(expected, pulled)
    /\ echoState = "mismatch" => DisturbedBy(expected, pulled)

(* The verdict of echo_wait() that fits what was heard.                     *)
VerdictOn(e) ==
  IF e = "disturbed" THEN "mismatch" ELSE IF e = "intact" THEN "matched" ELSE "armed"

(* A sender acts on what had been pulled when echo_wait() returned, and     *)
(* what is received or pulled later does not change that.                   *)
JudgeInv ==
  \A s \in Senders :
    pc[s] = "disarm" /\ verdict[s] # "error" =>
      judgedAt <= pulled /\ verdict[s] = VerdictOn(EchoHeard(frame[s], judgedAt))

IInv == TypeOK /\ LockInv /\ TrackInv /\ JudgeInv

LEMMA Strong == IInv => OneArmedEcho /\ VerdictTrue
<1> SUFFICES ASSUME IInv PROVE OneArmedEcho /\ VerdictTrue  OBVIOUS
<1>1. OneArmedEcho
  BY DEF IInv, LockInv, OneArmedEcho
<1>2. ASSUME NEW s \in Senders, pc[s] = "disarm"
      PROVE  /\ verdict[s] = "matched" => HeardIntact(frame[s])
             /\ verdict[s] = "mismatch" => HeardCollision(frame[s])
  <2>1. /\ rx \in Seq(Byte) /\ frame[s] \in Seq(Byte) /\ armedAt \in Nat
        /\ pulled \in Nat /\ judgedAt \in Nat /\ pulled <= Len(rx)
    BY DEF IInv, TypeOK, StreamOK, EchoOK, CallOK
  <2>2. verdict[s] # "error" =>
          judgedAt <= pulled /\ verdict[s] = VerdictOn(EchoHeard(frame[s], judgedAt))
    BY <1>2 DEF IInv, JudgeInv
  <2>3. ASSUME verdict[s] = "matched" PROVE HeardIntact(frame[s])
    <3>1. armedAt + Len(frame[s]) <= judgedAt /\ ~DisturbedBy(frame[s], judgedAt)
      BY <2>2, <2>3 DEF VerdictOn, EchoHeard
    <3> QED  BY <2>1, <2>2, <2>3, <3>1 DEF DisturbedBy, HeardIntact
  <2>4. ASSUME verdict[s] = "mismatch" PROVE HeardCollision(frame[s])
    <3>1. DisturbedBy(frame[s], judgedAt)
      BY <2>2, <2>4 DEF VerdictOn, EchoHeard
    <3> QED  BY <2>1, <2>2, <2>4, <3>1 DEF DisturbedBy, HeardCollision
  <2> QED
    BY <2>3, <2>4
<1> QED
  BY <1>1, <1>2 DEF VerdictTrue

(* While armed, the bytes a pull compares get the index of their place in   *)
(* the frame, negative when they came before it.                            *)
LEMMA IndexCorrect ==
  ASSUME StreamOK, EchoOK, TrackInv, echoState = "armed",
         NEW o \in pulled .. pulled + PullCount - 1
  PROVE  EchoIndex(o) = o - armedAt
<1>1. /\ pulled < armedAt + Len(expected) /\ Len(expected) \in 1 .. FrameMax
      /\ echoStart = armedAt % Wrap /\ armedAt - pulled <= DriverCap
  BY DEF TrackInv
<1>2. PullCount <= StashCap /\ PullCount \in Nat
  BY PullFits DEF StreamOK, StashLen
<1>3. o - armedAt < HalfWrap /\ -HalfWrap <= o - armedAt /\ o \in Int /\ armedAt \in Int
  BY <1>1, <1>2 DEF StreamOK, EchoOK
<1> QED
  BY <1>1, <1>3, SignedDistance DEF EchoIndex

LEMMA Bounds == IInv => EchoInBounds
BY IndexCorrect DEF IInv, TypeOK, TrackInv, EchoInBounds

(* A pull, by the reader or by the sender, keeps TrackInv: every byte that  *)
(* belongs to the echo is compared once, in order, and the first difference *)
(* or the last byte decides.                                                *)
LEMMA PullTracks ==
  ASSUME StreamOK, EchoOK, TrackInv, Pull,
         UNCHANGED <<rx, expected, echoStart, armedAt>>
  PROVE  TrackInv'
<1>n. PullCount \in Nat /\ pulled' = pulled + PullCount /\ pulled' <= Len(rx)
  BY PullFits DEF Pull
<1>s. echoState' = Observe(PullCount)  BY DEF Pull
<1>1. CASE echoState # "armed"
  <2>1. echoState' = echoState  BY <1>1, <1>s DEF Observe
  <2> QED
    BY <1>1, <1>n, <2>1 DEF TrackInv, DisturbedBy, StreamOK, EchoOK
<1>2. CASE echoState = "armed"
  <2> DEFINE L == Len(expected)
             New == pulled .. pulled + PullCount - 1
  <2>0. /\ L \in Nat /\ L >= 1 /\ L <= FrameMax
        /\ armedAt \in Nat /\ pulled \in Nat /\ rx \in Seq(Byte)
        /\ armedAt <= Len(rx) /\ pulled < armedAt + L
    BY <1>2 DEF TrackInv, StreamOK, EchoOK
  <2>1. \A k \in 1 .. L : armedAt + k <= pulled => rx[armedAt + k] = expected[k]
    BY <1>2 DEF TrackInv
  <2>2. \A o \in New : EchoIndex(o) = o - armedAt
    BY <1>2, IndexCorrect
  <2>3. \A o \in New : Differs(o) <=> /\ o - armedAt \in 0 .. L - 1
                                       /\ rx[o + 1] # expected[o - armedAt + 1]
    BY <2>2 DEF Differs
  <2>4. \A o \in New : Completes(o) <=> o - armedAt = L - 1
    BY <2>2 DEF Completes
  <2>5. \A k \in 1 .. L :
          armedAt + k <= pulled + PullCount /\ ~(armedAt + k <= pulled)
            => armedAt + k - 1 \in New
    BY <1>n, <2>0
  <2>c. /\ L' = L /\ echoStart' = armedAt' % Wrap /\ armedAt' <= Len(rx')
        /\ armedAt' - pulled' <= DriverCap
    BY <1>2, <1>n, <2>0 DEF TrackInv
  <2>6. CASE \E o \in New : Differs(o)
    <3>1. echoState' = "mismatch"  BY <1>2, <1>s, <2>6 DEF Observe
    <3>2. PICK o \in New : Differs(o)  BY <2>6
    <3>3. o - armedAt \in 0 .. L - 1 /\ rx[o + 1] # expected[o - armedAt + 1]
      BY <2>3, <3>2
    <3>4. DisturbedBy(expected, pulled)'
      <4> DEFINE k == o - armedAt + 1
      <4>1. k \in 1 .. L /\ armedAt + k = o + 1 /\ armedAt + k <= pulled'
        BY <1>n, <2>0, <3>3
      <4> QED  BY <3>3, <4>1 DEF DisturbedBy
    <3> QED  BY <2>0, <2>c, <3>1, <3>4 DEF TrackInv
  <2>7. CASE ~(\E o \in New : Differs(o)) /\ (\E o \in New : Completes(o))
    <3>1. echoState' = "matched"  BY <1>2, <1>s, <2>7 DEF Observe
    <3>2. armedAt + L <= pulled + PullCount  BY <1>n, <2>0, <2>4, <2>7
    <3>3. ASSUME NEW k \in 1 .. L PROVE rx[armedAt + k] = expected[k]
      <4>1. CASE armedAt + k <= pulled  BY <2>1, <4>1
      <4>2. CASE ~(armedAt + k <= pulled)
        <5> DEFINE o == armedAt + k - 1
        <5>1. o \in New  BY <1>n, <2>0, <2>5, <3>2, <4>2
        <5>2. o - armedAt \in 0 .. L - 1 /\ o + 1 = armedAt + k
              /\ o - armedAt + 1 = k
          BY <2>0
        <5>3. ~Differs(o)  BY <2>7, <5>1
        <5>4. ~(rx[o + 1] # expected[o - armedAt + 1])
          BY <2>3, <5>1, <5>2, <5>3
        <5> QED  BY <5>2, <5>4
      <4> QED  BY <4>1, <4>2
    <3>4. armedAt' + Len(expected') <= pulled' /\ ~DisturbedBy(expected, pulled)'
      BY <1>n, <2>0, <3>2, <3>3 DEF DisturbedBy
    <3> QED  BY <2>0, <2>c, <3>1, <3>4 DEF TrackInv
  <2>8. CASE ~(\E o \in New : Differs(o)) /\ ~(\E o \in New : Completes(o))
    <3>1. echoState' = "armed"  BY <1>2, <1>s, <2>8 DEF Observe
    <3>2. pulled' < armedAt + L
      <4>1. SUFFICES ASSUME ~(pulled' < armedAt + L) PROVE FALSE  OBVIOUS
      <4>2. armedAt + L - 1 \in New  BY <1>n, <2>0, <4>1
      <4>3. Completes(armedAt + L - 1)  BY <2>0, <2>4, <4>2
      <4> QED  BY <2>8, <4>2, <4>3
    <3>3. ASSUME NEW k \in 1 .. L, armedAt + k <= pulled'
          PROVE  rx[armedAt + k] = expected[k]
      <4>1. CASE armedAt + k <= pulled  BY <2>1, <4>1
      <4>2. CASE ~(armedAt + k <= pulled)
        <5> DEFINE o == armedAt + k - 1
        <5>1. o \in New  BY <1>n, <2>0, <2>5, <3>3, <4>2
        <5>2. o - armedAt \in 0 .. L - 1 /\ o + 1 = armedAt + k
              /\ o - armedAt + 1 = k
          BY <2>0
        <5>3. ~Differs(o)  BY <2>8, <5>1
        <5>4. ~(rx[o + 1] # expected[o - armedAt + 1])
          BY <2>3, <5>1, <5>2, <5>3
        <5> QED  BY <5>2, <5>4
      <4> QED  BY <4>1, <4>2
    <3> QED  BY <2>0, <2>c, <3>1, <3>2, <3>3 DEF TrackInv
  <2> QED  BY <2>6, <2>7, <2>8
<1> QED  BY <1>1, <1>2

(* A byte received keeps TrackInv: what was received before stays.          *)
LEMMA ReceiveTracks ==
  ASSUME StreamOK, EchoOK, TrackInv, UNCHANGED <<pulled, echoVars>>,
         rx' \in Seq(Byte), Len(rx') >= Len(rx),
         \A k \in 1 .. Len(rx) : rx'[k] = rx[k]
  PROVE  TrackInv'
<1> SUFFICES ASSUME echoState # "idle" PROVE TrackInv'
  BY DEF echoVars, TrackInv
<1>1. /\ Len(expected) \in Nat /\ Len(rx) \in Nat /\ Len(rx') \in Nat
      /\ armedAt \in Nat /\ pulled \in Nat /\ pulled <= Len(rx)
  BY DEF StreamOK, EchoOK
<1>r. \A i \in Nat : 1 <= i /\ i <= Len(rx) => rx'[i] = rx[i]
  BY <1>1
<1>2. ASSUME echoState = "armed", NEW k \in 1 .. Len(expected), armedAt + k <= pulled
      PROVE  rx'[armedAt + k] = expected[k]
  <2>1. armedAt + k \in Nat /\ 1 <= armedAt + k /\ armedAt + k <= Len(rx)
    BY <1>1, <1>2
  <2>2. rx[armedAt + k] = expected[k]  BY <1>2 DEF TrackInv
  <2> QED  BY <1>r, <2>1, <2>2
<1>3. DisturbedBy(expected, pulled)' <=> DisturbedBy(expected, pulled)
  <2>1. UNCHANGED <<armedAt, expected, pulled>>  BY DEF echoVars
  <2>2. ASSUME NEW k \in 1 .. Len(expected), armedAt + k <= pulled
        PROVE  rx'[armedAt + k] = rx[armedAt + k]
    <3>1. armedAt + k \in Nat /\ 1 <= armedAt + k /\ armedAt + k <= Len(rx)
      BY <1>1, <2>2
    <3> QED  BY <1>r, <3>1
  <2> QED  BY <2>1, <2>2 DEF DisturbedBy
<1> QED
  BY <1>1, <1>2, <1>3 DEF TrackInv, echoVars

LEMMA TrackStep == IInv /\ [Next]_vars => TrackInv'
<1> SUFFICES ASSUME IInv, [Next]_vars PROVE TrackInv'  OBVIOUS
<1> USE DEF rxVars, echoVars, callVars, boundVars
<1>t. StreamOK /\ EchoOK /\ CallOK /\ TrackInv  BY DEF IInv, TypeOK
<1>u. ASSUME UNCHANGED rxVars, UNCHANGED echoVars PROVE TrackInv'
  BY <1>t, <1>u DEF TrackInv, DisturbedBy
<1>i. ASSUME echoState' = "idle" PROVE TrackInv'
  BY <1>i DEF TrackInv
<1>r. ASSUME NEW b \in Byte, Receive(b), UNCHANGED <<pulled, handed, echoVars>>
      PROVE  TrackInv'
  <2>1. rx' \in Seq(Byte)  BY <1>t, <1>r, ReceiveType DEF StreamOK
  <2>2. Len(rx') >= Len(rx) /\ \A k \in 1 .. Len(rx) : rx'[k] = rx[k]
    BY <1>t, <1>r, ReceiveType
  <2> QED  BY <1>t, <1>r, <2>1, <2>2, ReceiveTracks
<1>1. CASE Read
  BY <1>1, <1>t, PullTracks DEF Read
<1>2. ASSUME NEW b \in Byte, ForeignByte(b) PROVE TrackInv'
  BY <1>2, <1>r DEF ForeignByte
<1>3. CASE OwnByte
  <2>1. Head(txQueue).val \in Byte
    <3>1. Head(txQueue) \in [by : Senders, val : Byte]
      BY <1>3, <1>t, HeadTailProperties DEF OwnByte, CallOK
    <3> QED  BY <3>1
  <2> QED  BY <1>3, <1>r, <2>1 DEF OwnByte
<1>4. CASE CollidedByte
  BY <1>4, <1>r, <1>u DEF CollidedByte
<1>5. ASSUME NEW s \in Senders, NEW f \in Frames, Refuse(s, f) \/ Call(s, f)
      PROVE  TrackInv'
  BY <1>5, <1>u DEF Refuse, Call
<1>6. ASSUME NEW s \in Senders, Send(s) PROVE TrackInv'
  <2>1. CASE Arm(s)
    <3>1. Sendable(frame[s])  BY <2>1 DEF Arm, Step, IInv, LockInv
    <3>2. Len(frame[s]) \in 1 .. FrameMax
      BY <1>t, <3>1 DEF Sendable, CallOK
    <3>3. ReceivedCount = Len(rx) % Wrap  BY DEF ReceivedCount
    <3> QED
      BY <2>1, <1>t, <3>2, <3>3 DEF Arm, TrackInv, StreamOK, Buffered
  <2>2. CASE EchoDecided(s)
    BY <2>2, <1>t, PullTracks DEF EchoDecided
  <2>3. CASE EchoUndecided(s)
    BY <2>3, <1>t, PullTracks DEF EchoUndecided
  <2>4. CASE Retry(s)  BY <2>4, <1>i DEF Retry
  <2>5. CASE Conclude(s)  BY <2>5, <1>i DEF Conclude
  <2>6. CASE \/ TakeLock(s) \/ Listen(s) \/ Quiet(s) \/ Busy(s) \/ Write(s)
             \/ WriteError(s) \/ TxDone(s) \/ TxTimeout(s) \/ Unlock(s)
    BY <2>6, <1>u DEF TakeLock, Listen, Quiet, Busy, Write, WriteError, TxDone,
                      TxTimeout, Unlock
  <2> QED
    BY <1>6, <2>1, <2>2, <2>3, <2>4, <2>5, <2>6 DEF Send
<1>7. CASE UNCHANGED vars
  BY <1>7, <1>u DEF vars
<1> QED
  BY <1>1, <1>2, <1>3, <1>4, <1>5, <1>6, <1>7 DEF Next

(* A pull decides nothing twice and never disarms.                          *)
LEMMA ObserveKeeps ==
  ASSUME NEW n
  PROVE  /\ echoState # "armed" => Observe(n) = echoState
         /\ echoState = "armed" => Observe(n) # "idle"
BY DEF Observe

LEMMA LockStep == IInv /\ [Next]_vars => LockInv'
<1> SUFFICES ASSUME IInv, [Next]_vars PROVE LockInv'  OBVIOUS
<1> USE DEF rxVars, echoVars, callVars, boundVars
<1>t. StreamOK /\ EchoOK /\ CallOK /\ LockInv  BY DEF IInv, TypeOK
<1>u. ASSUME UNCHANGED <<expected, txLock, pc, frame>>,
             echoState' # "idle" <=> echoState # "idle"
      PROVE  LockInv'
  BY <1>t, <1>u DEF LockInv
<1>p. ASSUME Pull PROVE echoState' # "idle" <=> echoState # "idle"
  BY <1>p, ObserveKeeps DEF Pull
<1>1. CASE Read  BY <1>1, <1>u, <1>p DEF Read
<1>2. ASSUME NEW b \in Byte, ForeignByte(b) PROVE LockInv'
  BY <1>2, <1>u DEF ForeignByte
<1>3. CASE OwnByte  BY <1>3, <1>u DEF OwnByte
<1>4. CASE CollidedByte  BY <1>4, <1>u DEF CollidedByte
<1>5. ASSUME NEW s \in Senders, NEW f \in Frames, Refuse(s, f) \/ Call(s, f)
      PROVE  LockInv'
  <2>1. CASE Refuse(s, f)  BY <2>1, <1>u DEF Refuse
  <2>2. CASE Call(s, f)
    BY <2>2, <1>t DEF Call, Step, LockInv, CallOK, Holding, Armed, PC
  <2> QED  BY <1>5, <2>1, <2>2
<1>6. ASSUME NEW s \in Senders, Send(s) PROVE LockInv'
  <2>m. ASSUME NEW a, NEW b, Step(s, a, b),
               (a \in Holding) <=> (b \in Holding), (a \in Armed) <=> (b \in Armed),
               a # "idle", UNCHANGED <<expected, txLock, frame>>,
               echoState' # "idle" <=> echoState # "idle"
        PROVE  LockInv'
    BY <2>m, <1>t DEF Step, LockInv, CallOK
  <2>1. CASE TakeLock(s)
    BY <2>1, <1>t DEF TakeLock, Step, LockInv, CallOK, Holding, Armed, PC
  <2>2. CASE Listen(s) \/ Quiet(s) \/ Busy(s)
    BY <2>2, <2>m DEF Listen, Quiet, Busy, Holding, Armed, PC
  <2>3. CASE Arm(s)
    <3>1. \A r \in Senders : pc[r] \in Armed => r = s
      BY <2>3, <1>t DEF Arm, Step, LockInv, Holding, Armed, PC
    <3>2. pc' = [pc EXCEPT ![s] = "write"] /\ pc[s] = "arm"
          /\ echoState' = "armed" /\ expected' = frame[s]
          /\ UNCHANGED <<txLock, frame>>
      BY <2>3 DEF Arm, Step
    <3> QED
      BY <3>1, <3>2, <1>t DEF LockInv, CallOK, Holding, Armed, PC
  <2>4. CASE Write(s) \/ WriteError(s) \/ TxDone(s) \/ TxTimeout(s)
    BY <2>4, <2>m DEF Write, WriteError, TxDone, TxTimeout, Holding, Armed, PC
  <2>5. CASE EchoDecided(s)
    BY <2>5, <2>m, <1>p DEF EchoDecided, Holding, Armed, PC
  <2>6. CASE EchoUndecided(s)
    <3>1. CASE Step(s, "echo", "disarm")
      BY <2>6, <3>1, <2>m, <1>p DEF EchoUndecided, Holding, Armed, PC
    <3>2. CASE UNCHANGED pc
      BY <2>6, <3>2, <1>u, <1>p DEF EchoUndecided
    <3> QED  BY <2>6, <3>1, <3>2 DEF EchoUndecided
  <2>7. CASE Retry(s) \/ Conclude(s)
    <3>1. \A r \in Senders : pc[r] \in Armed => r = s
      BY <2>7, <1>t DEF Retry, Conclude, Step, LockInv, Holding, Armed, PC
    <3>2. PICK b \in {"listen", "unlock"} :
            /\ pc[s] = "disarm" /\ pc' = [pc EXCEPT ![s] = b]
            /\ echoState' = "idle" /\ UNCHANGED <<txLock, frame>>
      BY <2>7 DEF Retry, Conclude, Step
    <3> QED
      BY <3>1, <3>2, <1>t DEF LockInv, CallOK, Holding, Armed, PC
  <2>8. CASE Unlock(s)
    BY <2>8, <1>t DEF Unlock, Step, LockInv, CallOK, Holding, Armed, PC
  <2> QED
    BY <1>6, <2>1, <2>2, <2>3, <2>4, <2>5, <2>6, <2>7, <2>8 DEF Send
<1>7. CASE UNCHANGED vars  BY <1>7, <1>u DEF vars
<1> QED
  BY <1>1, <1>2, <1>3, <1>4, <1>5, <1>6, <1>7 DEF Next

(* The stream only grows, and is only pulled further.                       *)
LEMMA StreamGrows ==
  ASSUME TypeOK, [Next]_vars
  PROVE  /\ Len(rx') >= Len(rx) /\ \A k \in 1 .. Len(rx) : rx'[k] = rx[k]
         /\ pulled' >= pulled
<1> USE DEF rxVars
<1>t. StreamOK /\ pulled \in Nat /\ rx \in Seq(Byte) /\ PullCount \in Nat
  BY PullFits DEF TypeOK, StreamOK
<1>p. ASSUME Pull, UNCHANGED rx
      PROVE  /\ Len(rx') >= Len(rx) /\ \A k \in 1 .. Len(rx) : rx'[k] = rx[k]
             /\ pulled' >= pulled
  BY <1>p, <1>t DEF Pull
<1>r. ASSUME NEW b, Receive(b), UNCHANGED pulled
      PROVE  /\ Len(rx') >= Len(rx) /\ \A k \in 1 .. Len(rx) : rx'[k] = rx[k]
             /\ pulled' >= pulled
  BY <1>r, <1>t DEF Receive
<1>u. ASSUME UNCHANGED <<rx, pulled>>
      PROVE  /\ Len(rx') >= Len(rx) /\ \A k \in 1 .. Len(rx) : rx'[k] = rx[k]
             /\ pulled' >= pulled
  BY <1>u, <1>t
<1>1. CASE Read  BY <1>1, <1>p DEF Read
<1>2. ASSUME NEW b \in Byte, ForeignByte(b)
      PROVE  /\ Len(rx') >= Len(rx) /\ \A k \in 1 .. Len(rx) : rx'[k] = rx[k]
             /\ pulled' >= pulled
  BY <1>2, <1>r DEF ForeignByte
<1>3. CASE OwnByte  BY <1>3, <1>r DEF OwnByte
<1>4. CASE CollidedByte  BY <1>4, <1>r, <1>u DEF CollidedByte
<1>5. ASSUME NEW s \in Senders, NEW f \in Frames, Refuse(s, f) \/ Call(s, f)
      PROVE  UNCHANGED <<rx, pulled>>
  BY <1>5 DEF Refuse, Call
<1>6. ASSUME NEW s \in Senders, Send(s)
      PROVE  UNCHANGED <<rx, pulled>> \/ (Pull /\ UNCHANGED rx)
  <2>1. CASE EchoDecided(s) \/ EchoUndecided(s)
    BY <2>1 DEF EchoDecided, EchoUndecided
  <2>2. CASE \/ TakeLock(s) \/ Listen(s) \/ Quiet(s) \/ Busy(s) \/ Arm(s)
             \/ Write(s) \/ WriteError(s)
    BY <2>2 DEF TakeLock, Listen, Quiet, Busy, Arm, Write, WriteError
  <2>3. CASE TxDone(s) \/ TxTimeout(s) \/ Retry(s) \/ Conclude(s) \/ Unlock(s)
    BY <2>3 DEF TxDone, TxTimeout, Retry, Conclude, Unlock
  <2> QED  BY <1>6, <2>1, <2>2, <2>3 DEF Send
<1>7. CASE UNCHANGED vars  BY <1>7, <1>u DEF vars
<1> QED
  BY <1>1, <1>2, <1>3, <1>4, <1>5, <1>6, <1>7, <1>p, <1>u DEF Next

(* EchoHeard() as a function of the stream and the offset too.              *)
HeardIn(x, at, f, n) ==
  IF \E k \in 1 .. Len(f) : at + k <= n /\ x[at + k] # f[k] THEN "disturbed"
  ELSE IF at + Len(f) <= n THEN "intact" ELSE "open"

(* What n bytes told is not changed by those that follow.                   *)
LEMMA HeardForGood ==
  ASSUME rx \in Seq(Byte), armedAt \in Nat, UNCHANGED armedAt,
         \A k \in 1 .. Len(rx) : rx'[k] = rx[k],
         NEW f \in Seq(Byte), NEW n \in Nat, n <= Len(rx)
  PROVE  HeardIn(rx', armedAt', f, n) = EchoHeard(f, n)
<1>1. ASSUME NEW k \in 1 .. Len(f), armedAt + k <= n
      PROVE  rx'[armedAt + k] = rx[armedAt + k]
  BY <1>1
<1>2. (\E k \in 1 .. Len(f) : armedAt' + k <= n /\ rx'[armedAt' + k] # f[k])
        <=> DisturbedBy(f, n)
  BY <1>1 DEF DisturbedBy
<1> QED
  BY <1>2 DEF EchoHeard, HeardIn

(* While an echo is armed, echoState says what the pulled bytes tell.       *)
LEMMA TrackVerdict ==
  TypeOK /\ TrackInv =>
    (echoState # "idle" => echoState = VerdictOn(EchoHeard(expected, pulled)))
<1> SUFFICES ASSUME TypeOK, TrackInv, echoState # "idle"
             PROVE  echoState = VerdictOn(EchoHeard(expected, pulled))
  OBVIOUS
<1>1. /\ echoState \in EchoStates /\ expected \in Seq(Byte) /\ armedAt \in Nat
      /\ pulled \in Nat
  BY DEF TypeOK, EchoOK, StreamOK
<1>2. CASE echoState = "armed"
  <2>1. /\ pulled < armedAt + Len(expected)
        /\ \A k \in 1 .. Len(expected) :
             armedAt + k <= pulled => rx[armedAt + k] = expected[k]
    BY <1>2 DEF TrackInv
  <2>2. ~DisturbedBy(expected, pulled)
    BY <2>1 DEF DisturbedBy
  <2>3. ~(armedAt + Len(expected) <= pulled)
    BY <1>1, <2>1
  <2> QED  BY <1>2, <2>2, <2>3 DEF EchoHeard, VerdictOn
<1>3. CASE echoState = "matched"
  BY <1>3 DEF TrackInv, EchoHeard, VerdictOn
<1>4. CASE echoState = "mismatch"
  BY <1>4 DEF TrackInv, EchoHeard, VerdictOn
<1> QED
  BY <1>1, <1>2, <1>3, <1>4 DEF EchoStates

LEMMA TrackVerdictAfter ==
  (TypeOK /\ TrackInv)' =>
    (echoState # "idle" => echoState = VerdictOn(EchoHeard(expected, pulled)))'
BY TrackVerdict, PTL

LEMMA JudgeStep == IInv /\ [Next]_vars => JudgeInv'
<1> SUFFICES ASSUME IInv, [Next]_vars PROVE JudgeInv'  OBVIOUS
<1> USE DEF rxVars, echoVars, callVars, boundVars
<1>t. CallOK /\ LockInv /\ JudgeInv /\ TypeOK /\ TypeOK' /\ TrackInv' /\ LockInv'
  BY TypeStep, TrackStep, LockStep DEF IInv, TypeOK
<1>y. /\ rx \in Seq(Byte) /\ armedAt \in Nat /\ judgedAt \in Nat
      /\ pulled \in Nat /\ pulled' \in Nat /\ pulled <= Len(rx)
      /\ frame \in [Senders -> Seq(Byte)] /\ pc \in [Senders -> PC]
      /\ verdict \in [Senders -> EchoStates \cup {"error"}]
  BY <1>t DEF TypeOK, StreamOK, EchoOK, CallOK
<1>g. /\ \A k \in 1 .. Len(rx) : rx'[k] = rx[k]
      /\ pulled' >= pulled
  BY <1>t, StreamGrows
(* A sender that has its verdict already.                                   *)
<1>k. ASSUME NEW r \in Senders, pc[r] = "disarm", verdict[r] # "error",
             UNCHANGED <<armedAt, judgedAt, verdict[r], frame[r]>>
      PROVE  judgedAt' <= pulled' /\ verdict'[r] = VerdictOn(EchoHeard(frame[r], judgedAt)')
  <2>1. judgedAt <= pulled /\ verdict[r] = VerdictOn(EchoHeard(frame[r], judgedAt))
    BY <1>k, <1>t DEF JudgeInv
  <2>2. judgedAt <= Len(rx) /\ frame[r] \in Seq(Byte)
    BY <1>y, <2>1
  <2>3. HeardIn(rx', armedAt', frame[r], judgedAt) = EchoHeard(frame[r], judgedAt)
    BY <1>k, <1>y, <1>g, <2>2, HeardForGood
  <2>5. EchoHeard(frame[r], judgedAt)' = HeardIn(rx', armedAt', frame'[r], judgedAt')
    BY DEF EchoHeard, DisturbedBy, HeardIn
  <2>4. EchoHeard(frame[r], judgedAt)' = EchoHeard(frame[r], judgedAt)
    BY <1>k, <2>3, <2>5
  <2> QED
    BY <1>k, <1>g, <1>y, <2>1, <2>4
<1>u. ASSUME UNCHANGED <<armedAt, judgedAt, pc, verdict, frame>> PROVE JudgeInv'
  BY <1>u, <1>k DEF JudgeInv, VerdictOn
<1>1. CASE Read  BY <1>1, <1>u DEF Read
<1>2. ASSUME NEW b \in Byte, ForeignByte(b) PROVE JudgeInv'
  BY <1>2, <1>u DEF ForeignByte
<1>3. CASE OwnByte  BY <1>3, <1>u DEF OwnByte
<1>4. CASE CollidedByte  BY <1>4, <1>u DEF CollidedByte
<1>m. ASSUME NEW s \in Senders, NEW a, NEW b, Step(s, a, b), b # "disarm",
             UNCHANGED <<armedAt, judgedAt, verdict>>,
             \A r \in Senders \ {s} : frame'[r] = frame[r]
      PROVE  JudgeInv'
  <2>1. \A r \in Senders : pc'[r] = "disarm" => r # s /\ pc[r] = "disarm"
    BY <1>m, <1>y DEF Step
  <2>2. \A r \in Senders : pc'[r] = "disarm" /\ verdict'[r] # "error" =>
          judgedAt' <= pulled' /\ verdict'[r] = VerdictOn(EchoHeard(frame[r], judgedAt)')
    BY <1>k, <1>m, <2>1
  <2> QED  BY <2>2 DEF JudgeInv, VerdictOn
<1>5. ASSUME NEW s \in Senders, NEW f \in Frames, Refuse(s, f) \/ Call(s, f)
      PROVE  JudgeInv'
  <2>1. CASE Refuse(s, f)  BY <2>1, <1>u DEF Refuse
  <2>2. CASE Call(s, f)
    <3>1. \A r \in Senders \ {s} : frame'[r] = frame[r]  BY <2>2, <1>y DEF Call
    <3> QED  BY <2>2, <3>1, <1>m DEF Call
  <2> QED  BY <1>5, <2>1, <2>2
<1>6. ASSUME NEW s \in Senders, Send(s) PROVE JudgeInv'
  <2>o. ASSUME pc[s] \in Holding, NEW r \in Senders, pc[r] = "disarm" PROVE r = s
    BY <1>t, <2>o DEF LockInv, Holding, PC
  <2>1. CASE TakeLock(s) \/ Listen(s) \/ Quiet(s) \/ Busy(s) \/ Write(s)
    BY <2>1, <1>m DEF TakeLock, Listen, Quiet, Busy, Write
  <2>2. CASE TxDone(s) \/ Unlock(s)
    BY <2>2, <1>m DEF TxDone, Unlock
  <2>3. CASE Arm(s)
    <3>1. \A r \in Senders : pc'[r] # "disarm"
      BY <2>3, <2>o, <1>y DEF Arm, Step, Holding, PC
    <3> QED  BY <3>1 DEF JudgeInv
  <2>4. CASE WriteError(s) \/ TxTimeout(s)
    <3>1. /\ pc[s] \in Holding /\ pc[s] # "disarm" /\ pc' = [pc EXCEPT ![s] = "disarm"]
          /\ verdict'[s] = "error"
      BY <2>4, <1>y DEF WriteError, TxTimeout, Step, Holding, PC
    <3>2. \A r \in Senders : pc'[r] = "disarm" => verdict'[r] = "error"
      BY <3>1, <2>o, <1>y
    <3> QED  BY <3>2 DEF JudgeInv
  <2>5. CASE EchoDecided(s) \/ (EchoUndecided(s) /\ Step(s, "echo", "disarm"))
    <3>1. /\ pc[s] = "echo" /\ pc' = [pc EXCEPT ![s] = "disarm"] /\ judgedAt' = pulled'
          /\ verdict' = [verdict EXCEPT ![s] = echoState'] /\ frame' = frame
      <4>1. CASE EchoDecided(s)
        BY <4>1 DEF EchoDecided, Step
      <4>2. CASE EchoUndecided(s) /\ Step(s, "echo", "disarm")
        <5>1. pc'[s] = "disarm" /\ pc[s] = "echo"  BY <4>2, <1>y DEF Step
        <5> QED  BY <4>2, <5>1 DEF EchoUndecided, Step
      <4> QED  BY <2>5, <4>1, <4>2
    <3>2. \A r \in Senders : pc'[r] = "disarm" => r = s
      BY <3>1, <2>o, <1>y DEF Holding, PC
    <3>3. expected' = frame'[s] /\ echoState' # "idle"
      BY <3>1, <1>t, <1>y DEF LockInv, Armed
    <3>4. echoState' = VerdictOn(EchoHeard(expected, pulled)')
      BY <1>t, <3>3, TrackVerdictAfter DEF VerdictOn
    <3>6. /\ EchoHeard(frame[s], judgedAt)' = HeardIn(rx', armedAt', frame'[s], judgedAt')
          /\ EchoHeard(expected, pulled)' = HeardIn(rx', armedAt', expected', pulled')
      BY DEF EchoHeard, DisturbedBy, HeardIn
    <3>5. verdict'[s] = VerdictOn(EchoHeard(frame[s], judgedAt)')
      BY <3>1, <3>3, <3>4, <3>6, <1>y
    <3> QED  BY <3>1, <3>2, <3>5, <1>y DEF JudgeInv, VerdictOn
  <2>6. CASE EchoUndecided(s) /\ UNCHANGED <<pc, verdict, judgedAt>>
    BY <2>6, <1>u DEF EchoUndecided
  <2>7. CASE Retry(s) \/ Conclude(s)
    <3>1. PICK b \in {"listen", "unlock"} :
            pc[s] = "disarm" /\ pc' = [pc EXCEPT ![s] = b]
      BY <2>7 DEF Retry, Conclude, Step
    <3>2. \A r \in Senders : pc'[r] # "disarm"
      BY <3>1, <2>o, <1>y DEF Holding, PC
    <3> QED  BY <3>2 DEF JudgeInv
  <2>8. EchoUndecided(s) => \/ Step(s, "echo", "disarm")
                            \/ UNCHANGED <<pc, verdict, judgedAt>>
    BY DEF EchoUndecided
  <2> QED
    BY <1>6, <2>1, <2>2, <2>3, <2>4, <2>5, <2>6, <2>7, <2>8 DEF Send
<1>7. CASE UNCHANGED vars  BY <1>7, <1>u DEF vars
<1> QED
  BY <1>1, <1>2, <1>3, <1>4, <1>5, <1>6, <1>7 DEF Next

LEMMA IInvInit == Init => IInv
<1> SUFFICES ASSUME Init PROVE IInv  OBVIOUS
<1>1. TypeOK  BY TypeInit
<1>2. LockInv  BY DEF Init, LockInv, Holding, Armed, PC
<1>3. TrackInv  BY DEF Init, TrackInv
<1>4. JudgeInv  BY DEF Init, JudgeInv
<1> QED  BY <1>1, <1>2, <1>3, <1>4 DEF IInv

LEMMA IInvStep == IInv /\ [Next]_vars => IInv'
BY TypeStep, LockStep, TrackStep, JudgeStep DEF IInv

THEOREM Invariance == Spec => []IInv
<1>1. Init => IInv  BY IInvInit
<1>2. IInv /\ [Next]_vars => IInv'  BY IInvStep
<1> QED  BY <1>1, <1>2, PTL DEF Spec

(* One sender is past s_tx_lock at a time and the echo is armed only for    *)
(* the frame it sends (bus.c, s_tx_lock).                                   *)
THEOREM LockDiscipline == Spec => []OneArmedEcho
BY Invariance, Strong, PTL

(* A confirmed send was heard intact and a repeated one was disturbed,      *)
(* however the reader's pulls interleave with the sender's (bus.c,          *)
(* echo_observe_locked()).                                                  *)
THEOREM EchoSound == Spec => []VerdictTrue
BY Invariance, Strong, PTL

(* The expected frame is never indexed past its end, also across the wrap   *)
(* of the 32-bit stream offsets (bus.c:67-77).                              *)
THEOREM EchoNeverOverruns == Spec => []EchoInBounds
BY Invariance, Bounds, PTL

-----------------------------------------------------------------------------
(* A byte the UART still has to send is excused when its task waits for it  *)
(* to leave or has met a driver error; a send that has not ended has not    *)
(* reported anything else than an error.                                    *)
Excused(s) == pc[s] = "drain" \/ (verdict[s] = "error" /\ result[s] = -1)

TxInv ==
  /\ \A i \in 1 .. Len(txQueue) : Excused(txQueue[i].by)
  /\ \A s \in Senders : pc[s] = "echo" => txQueue = <<>>
  /\ \A s \in Senders : pc[s] \in Holding \ {"unlock"} => result[s] = -1

(* The bytes of the queue are tagged with senders, and the empty queue has  *)
(* none.                                                                    *)
LEMMA QueueTags ==
  ASSUME TypeOK
  PROVE  /\ Len(txQueue) \in Nat
         /\ \A i \in 1 .. Len(txQueue) : txQueue[i].by \in Senders
         /\ txQueue = <<>> => 1 .. Len(txQueue) = {}
<1> DEFINE T == [by : Senders, val : Byte]
<1>1. txQueue \in Seq(T)
  BY DEF TypeOK, CallOK
<1>2. Len(txQueue) \in Nat /\ \A i \in 1 .. Len(txQueue) : txQueue[i] \in T
  <2> HIDE DEF T
  <2> QED  BY <1>1
<1>3. txQueue = <<>> => Len(txQueue) = 0
  OBVIOUS
<1> QED
  BY <1>2, <1>3

(* A byte leaves the queue.                                                 *)
LEMMA QueueShrinks ==
  ASSUME TypeOK, TxInv, txQueue # <<>>, txQueue' = Tail(txQueue),
         UNCHANGED <<pc, verdict, result>>
  PROVE  TxInv'
<1> DEFINE T == [by : Senders, val : Byte]
<1>1. txQueue \in Seq(T)
  BY DEF TypeOK, CallOK
<1>2. /\ Len(Tail(txQueue)) = Len(txQueue) - 1 /\ Len(txQueue) \in Nat
      /\ \A i \in 1 .. Len(Tail(txQueue)) : Tail(txQueue)[i] = txQueue[i + 1]
  <2> HIDE DEF T
  <2> QED
    BY <1>1
<1>3. \A i \in 1 .. Len(txQueue') : Excused(txQueue[i].by)'
  BY <1>2 DEF TxInv, Excused
<1>4. \A s \in Senders : pc'[s] # "echo"
  BY DEF TxInv
<1> QED
  BY <1>3, <1>4 DEF TxInv

(* Only the holder of the lock writes, and then it waits.                   *)
LEMMA QueueFilled ==
  ASSUME IInv, TxInv, NEW s \in Senders, Write(s)
  PROVE  TxInv'
<1> DEFINE T == [by : Senders, val : Byte]
           bytes == [i \in 1 .. Len(frame[s]) |-> [by |-> s, val |-> frame[s][i]]]
<1>1. /\ pc[s] = "write" /\ pc' = [pc EXCEPT ![s] = "drain"]
      /\ UNCHANGED <<verdict, result>> /\ txQueue' = txQueue \o bytes
  BY DEF Write, Step
<1>2. /\ pc \in [Senders -> PC] /\ frame[s] \in Seq(Byte) /\ txQueue \in Seq(T)
      /\ \A r \in Senders : pc[r] \in Holding => r = s
  BY <1>1 DEF IInv, LockInv, TypeOK, CallOK, Holding, PC
<1>3. bytes \in Seq(T) /\ \A i \in 1 .. Len(bytes) : bytes[i].by = s
  BY <1>2
<1>4. /\ Len(txQueue) \in Nat /\ Len(bytes) \in Nat
      /\ Len(txQueue') = Len(txQueue) + Len(bytes)
      /\ \A i \in 1 .. Len(txQueue) : txQueue'[i] = txQueue[i]
      /\ \A i \in Len(txQueue) + 1 .. Len(txQueue') : txQueue'[i] = bytes[i - Len(txQueue)]
  <2> HIDE DEF T, bytes
  <2> QED
    BY <1>1, <1>2, <1>3
<1>5. \A i \in 1 .. Len(txQueue) : txQueue[i].by \in Senders
  BY QueueTags DEF IInv
<1>e. \A r \in Senders : Excused(r) => Excused(r)'
  BY <1>1, <1>2 DEF Excused
<1>x. Excused(s)'
  BY <1>1, <1>2 DEF Excused
<1>6. ASSUME NEW i \in 1 .. Len(txQueue') PROVE Excused(txQueue[i].by)'
  <2>1. CASE i <= Len(txQueue)
    <3>1. i \in 1 .. Len(txQueue)  BY <2>1, <1>4
    <3>2. txQueue'[i].by = txQueue[i].by /\ txQueue[i].by \in Senders
      BY <3>1, <1>4, <1>5
    <3>3. Excused(txQueue[i].by)  BY <3>1 DEF TxInv
    <3> QED  BY <1>1, <1>2, <3>2, <3>3 DEF Excused
  <2>2. CASE ~(i <= Len(txQueue))
    <3>1. i \in Len(txQueue) + 1 .. Len(txQueue') /\ i - Len(txQueue) \in 1 .. Len(bytes)
      BY <2>2, <1>4
    <3>2. txQueue'[i].by = s
      <4> HIDE DEF bytes
      <4> QED  BY <3>1, <1>3, <1>4
    <3> QED  BY <3>2, <1>1, <1>2 DEF Excused
  <2> QED  BY <2>1, <2>2
<1>7. \A r \in Senders : pc'[r] # "echo"
  BY <1>1, <1>2 DEF Holding, PC
<1>8. \A r \in Senders : pc'[r] \in Holding \ {"unlock"} => result'[r] = -1
  BY <1>1, <1>2 DEF TxInv, Holding, PC
<1> QED
  BY <1>6, <1>7, <1>8 DEF TxInv

LEMMA TxStep == IInv /\ TxInv /\ [Next]_vars => TxInv'
<1> SUFFICES ASSUME IInv, TxInv, [Next]_vars PROVE TxInv'  OBVIOUS
<1> USE DEF rxVars, echoVars, callVars, boundVars
<1>t. /\ TypeOK /\ LockInv /\ pc \in [Senders -> PC] /\ result \in [Senders -> Int]
      /\ verdict \in [Senders -> EchoStates \cup {"error"}]
  BY DEF IInv, TypeOK, CallOK
<1>q. /\ \A i \in 1 .. Len(txQueue) : txQueue[i].by \in Senders /\ Excused(txQueue[i].by)
      /\ txQueue = <<>> => 1 .. Len(txQueue) = {}
  BY <1>t, QueueTags DEF TxInv
<1>u. ASSUME UNCHANGED <<txQueue, pc, verdict, result>> PROVE TxInv'
  BY <1>u DEF TxInv, Excused
(* One sender goes on and the queue stays.                                  *)
<1>m. ASSUME NEW s \in Senders, UNCHANGED txQueue,
             \A r \in Senders \ {s} :
               pc'[r] = pc[r] /\ verdict'[r] = verdict[r] /\ result'[r] = result[r],
             (Excused(s) => Excused(s)') \/ txQueue = <<>>,
             pc'[s] = "echo" => txQueue = <<>>,
             pc'[s] \in Holding \ {"unlock"} => result'[s] = -1
      PROVE  TxInv'
  <2>1. ASSUME NEW i \in 1 .. Len(txQueue') PROVE Excused(txQueue[i].by)'
    <3>1. /\ txQueue' = txQueue /\ i \in 1 .. Len(txQueue)
          /\ txQueue[i].by \in Senders /\ Excused(txQueue[i].by)
      BY <2>1, <1>m, <1>q
    <3>2. CASE txQueue[i].by = s  BY <3>1, <3>2, <1>m, <1>q DEF Excused
    <3>3. CASE txQueue[i].by # s  BY <3>1, <3>3, <1>m DEF Excused
    <3> QED  BY <3>2, <3>3
  <2>2. \A r \in Senders : pc'[r] = "echo" => txQueue' = <<>>
    BY <1>m DEF TxInv
  <2>3. \A r \in Senders : pc'[r] \in Holding \ {"unlock"} => result'[r] = -1
    BY <1>m DEF TxInv
  <2> QED  BY <2>1, <2>2, <2>3 DEF TxInv
<1>1. CASE Read \/ (\E b \in Byte : ForeignByte(b))
  BY <1>1, <1>u DEF Read, ForeignByte
<1>2. CASE OwnByte \/ CollidedByte
  BY <1>2, <1>t, QueueShrinks DEF OwnByte, CollidedByte
<1>3. ASSUME NEW s \in Senders, NEW f \in Frames, Refuse(s, f) \/ Call(s, f)
      PROVE  TxInv'
  BY <1>3, <1>m, <1>t DEF Refuse, Call, Step, Holding, PC, Excused
<1>4. ASSUME NEW s \in Senders, Send(s) PROVE TxInv'
  <2>r. pc[s] \in Holding \ {"unlock"} => result[s] = -1
    BY DEF TxInv
  <2>1. CASE TakeLock(s)
    BY <2>1, <1>m, <1>t DEF TakeLock, Step, Holding, PC, Excused
  <2>2. CASE Listen(s) \/ Quiet(s) \/ Busy(s) \/ Arm(s)
    BY <2>2, <2>r, <1>m, <1>t DEF Listen, Quiet, Busy, Arm, Step, Holding, PC, Excused
  <2>3. CASE Write(s)
    BY <2>3, QueueFilled
  <2>4. CASE WriteError(s) \/ TxTimeout(s)
    BY <2>4, <2>r, <1>m, <1>t DEF WriteError, TxTimeout, Step, Holding, PC, Excused
  <2>5. CASE TxDone(s)
    BY <2>5, <2>r, <1>m, <1>t DEF TxDone, Step, Holding, PC, Excused
  <2>6. CASE EchoDecided(s) \/ EchoUndecided(s)
    <3>1. CASE Step(s, "echo", "disarm")
      <4>1. txQueue = <<>>  BY <3>1 DEF Step, TxInv
      <4> QED
        BY <2>6, <3>1, <4>1, <2>r, <1>m, <1>t
        DEF EchoDecided, EchoUndecided, Step, Holding, PC, Excused
    <3>2. CASE UNCHANGED <<pc, verdict>>
      BY <2>6, <3>2, <1>u DEF EchoDecided, EchoUndecided
    <3> QED  BY <2>6, <3>1, <3>2 DEF EchoDecided, EchoUndecided
  <2>7. CASE Retry(s)
    BY <2>7, <2>r, <1>m, <1>t DEF Retry, Step, Holding, PC, Excused
  <2>8. CASE Conclude(s)
    <3>1. CASE verdict[s] = "error"
      BY <2>8, <3>1, <2>r, <1>m, <1>t DEF Conclude, Step, Holding, PC, Excused
    <3>2. CASE verdict[s] # "error"
      <4>1. ~Excused(s)  BY <2>8, <3>2 DEF Conclude, Step, Excused
      <4> QED
        BY <2>8, <4>1, <2>r, <1>m, <1>t DEF Conclude, Step, Holding, PC
    <3> QED  BY <3>1, <3>2
  <2>9. CASE Unlock(s)
    BY <2>9, <1>m, <1>t DEF Unlock, Step, Holding, PC, Excused
  <2> QED
    BY <1>4, <2>1, <2>2, <2>3, <2>4, <2>5, <2>6, <2>7, <2>8, <2>9 DEF Send
<1>5. CASE UNCHANGED vars
  BY <1>5, <1>u DEF vars
<1> QED
  BY <1>1, <1>2, <1>3, <1>4, <1>5 DEF Next

(* "One transmitter at a time" (bus.c:46), whatever the length of the       *)
(* frames and however often UART_TX_TIMEOUT_MS runs out: the UART's bytes   *)
(* are those of the task that waits for them or the rest of a send that     *)
(* reports -1, and a send looks for its echo in silence of the UART.        *)
THEOREM NobodyElseTransmits == Spec => []OneTransmitter
<1>1. Init => TxInv
  BY DEF Init, TxInv, Holding, PC
<1>2. IInv /\ TxInv /\ [Next]_vars => TxInv'
  BY TxStep
<1>3. TxInv => OneTransmitter
  BY DEF TxInv, OneTransmitter, Excused
<1> QED
  BY <1>1, <1>2, <1>3, Invariance, PTL DEF Spec

-----------------------------------------------------------------------------
(* A missing echo means silence, while the stash has room for what the      *)
(* reader has not fetched yet.                                              *)
StashHasRoom == Len(rx) - handed <= StashCap

(* The only way out of echo_wait() without a verdict is after a pull that   *)
(* took everything, and what was pulled undecided is a beginning of the     *)
(* frame, and a proper one.                                                 *)
LEMMA SilenceStep ==
  ASSUME IInv, IInv', StashHasRoom, [Next]_vars, NEW s \in Senders,
         pc[s] = "echo", pc'[s] = "disarm", verdict'[s] = "armed"
  PROVE  ~ HeardCollision(frame[s]) /\ ~ HeardIntact(frame[s])
<1>t. /\ pc \in [Senders -> PC] /\ verdict \in [Senders -> EchoStates \cup {"error"}]
      /\ Len(rx) \in Nat /\ pulled \in Nat /\ handed \in Nat /\ StashCap \in Nat
  <2>1. pc \in [Senders -> PC] /\ verdict \in [Senders -> EchoStates \cup {"error"}]
    BY DEF IInv, TypeOK, CallOK
  <2>2. rx \in Seq(Byte) /\ pulled \in Nat /\ handed \in Nat
    BY DEF IInv, TypeOK, StreamOK
  <2> QED
    BY <2>1, <2>2, SizeAssumption
(* A step that leaves this sender's place alone is not the one.             *)
<1>1. PICK t \in Senders : Send(t)
  <2>1. pc' # pc
    BY <1>t
  <2>2. ASSUME NEW t \in Senders, NEW f \in Frames, Refuse(t, f) \/ Call(t, f)
        PROVE  FALSE
    <3>1. Call(t, f) /\ t = s
      BY <2>1, <2>2, <1>t DEF Refuse, Call, Step
    <3> QED
      BY <3>1 DEF Call, Step
  <2>3. CASE Read \/ (\E b \in Byte : ForeignByte(b)) \/ OwnByte \/ CollidedByte
    BY <2>1, <2>3 DEF Read, ForeignByte, OwnByte, CollidedByte
  <2>4. CASE UNCHANGED vars
    BY <2>1, <2>4 DEF vars
  <2> QED
    BY <2>2, <2>3, <2>4 DEF Next
<1>2. EchoUndecided(s)
  <2>1. CASE EchoUndecided(t)
    BY <2>1, <1>1, <1>t DEF EchoUndecided, Step
  <2>2. CASE EchoDecided(t)
    BY <2>2, <1>1, <1>t DEF EchoDecided, Step
  <2>3. CASE TakeLock(t) \/ Listen(t) \/ Quiet(t) \/ Busy(t) \/ Arm(t) \/ Write(t)
    BY <2>3, <1>1, <1>t DEF TakeLock, Listen, Quiet, Busy, Arm, Write, Step
  <2>4. CASE WriteError(t) \/ TxDone(t) \/ TxTimeout(t) \/ Retry(t) \/ Conclude(t) \/ Unlock(t)
    BY <2>4, <1>1, <1>t DEF WriteError, TxDone, TxTimeout, Retry, Conclude, Unlock, Step
  <2> QED
    BY <1>1, <2>1, <2>2, <2>3, <2>4 DEF Send
<1>3. PullCount = Buffered /\ pulled' = Len(rx) /\ rx' = rx /\ armedAt' = armedAt
  <2>1. pulled <= Len(rx) /\ handed <= pulled
    BY DEF IInv, TypeOK, StreamOK
  <2>2. ~ (StashCap - StashLen < Buffered)
    BY <2>1, <1>t DEF StashHasRoom, StashLen, Buffered
  <2> QED
    BY <2>1, <2>2, <1>2, <1>t DEF EchoUndecided, Pull, PullCount, Buffered
<1>4. expected' = frame[s] /\ frame' = frame /\ echoState' = "armed"
  <2>1. expected = frame[s]
    BY DEF IInv, LockInv, Armed
  <2> QED
    BY <2>1, <1>2 DEF EchoUndecided
<1>5. /\ Len(rx) < armedAt + Len(frame[s])
      /\ \A k \in 1 .. Len(frame[s]) : armedAt + k <= Len(rx) => rx[armedAt + k] = frame[s][k]
  BY <1>3, <1>4 DEF IInv, TrackInv
<1>6. Len(frame[s]) \in Nat /\ armedAt \in Nat
  BY DEF IInv, TypeOK, CallOK, EchoOK
<1> QED
  BY <1>5, <1>6, <1>t DEF HeardCollision, HeardIntact

(* "Confirming an echo doesn't depend on the reader task" (bus.c:27): when  *)
(* echo_wait() gives up undecided no collision is taken for silence, as     *)
(* long as what the reader has not fetched fits in the stash.               *)
THEOREM NoEchoIsSilence == Spec /\ []StashHasRoom => NoEchoMeansSilence
<1>1. ASSUME IInv, IInv', StashHasRoom, [Next]_vars
      PROVE  [\A s \in Senders :
                (pc[s] = "echo" /\ pc'[s] = "disarm" /\ verdict'[s] = "armed")
                  => ~HeardCollision(frame[s]) /\ ~HeardIntact(frame[s])]_vars
  BY <1>1, SilenceStep
<1> QED
  BY <1>1, Invariance, PTL DEF Spec, NoEchoMeansSilence

-----------------------------------------------------------------------------
(* Bus implements LineAccess.                                               *)

(* What more bytes can do to what was heard: decide it, not change it.      *)
LEMMA HeardMore ==
  ASSUME rx \in Seq(Byte), armedAt \in Nat, UNCHANGED armedAt,
         \A k \in 1 .. Len(rx) : rx'[k] = rx[k],
         NEW f \in Seq(Byte), NEW n \in Nat, NEW m \in Nat, n <= Len(rx), n <= m
  PROVE  HeardIn(rx', armedAt', f, m) \in Line!Heard(EchoHeard(f, n))
<1>1. ASSUME NEW k \in 1 .. Len(f), armedAt + k <= n
      PROVE  rx'[armedAt + k] = rx[armedAt + k] /\ armedAt + k <= m
  BY <1>1
<1>2. CASE DisturbedBy(f, n)
  <2>1. \E k \in 1 .. Len(f) : armedAt' + k <= m /\ rx'[armedAt' + k] # f[k]
    BY <1>1, <1>2 DEF DisturbedBy
  <2> QED  BY <1>2, <2>1 DEF EchoHeard, HeardIn, Line!Heard
<1>3. CASE ~DisturbedBy(f, n) /\ armedAt + Len(f) <= n
  <2>1. ASSUME NEW k \in 1 .. Len(f) PROVE rx'[armedAt + k] = f[k]
    <3>1. armedAt + k <= n  BY <1>3
    <3>2. rx[armedAt + k] = f[k]  BY <1>3, <3>1 DEF DisturbedBy
    <3> QED  BY <1>1, <3>1, <3>2
  <2>2. ~(\E k \in 1 .. Len(f) : armedAt' + k <= m /\ rx'[armedAt' + k] # f[k])
    BY <2>1
  <2>3. armedAt' + Len(f) <= m  BY <1>3
  <2> QED  BY <1>3, <2>2, <2>3 DEF EchoHeard, HeardIn, Line!Heard
<1>4. CASE ~DisturbedBy(f, n) /\ ~(armedAt + Len(f) <= n)
  BY <1>4 DEF EchoHeard, HeardIn, Line!Heard, Line!Echo
<1> QED
  BY <1>2, <1>3, <1>4

LEMMA Phases ==
  ASSUME NEW v
  PROVE  /\ PhaseOf("idle", v) = "idle" /\ PhaseOf("lock", v) = "waiting"
         /\ \A p \in Listening : PhaseOf(p, v) = "listening"
         /\ \A p \in Trying : PhaseOf(p, v) = "sending"
         /\ PhaseOf("disarm", v) = IF v = "error" THEN "broken" ELSE "judged"
         /\ PhaseOf("unlock", v) = "ended"
BY DEF PhaseOf, Listening, Trying

LEMMA LineInitially == Init => Line!LineInit
<1> SUFFICES ASSUME Init PROVE Line!LineInit  OBVIOUS
<1>1. linePhase = [s \in Senders |-> "idle"]
  BY Phases DEF Init, linePhase
<1>2. lineTries = [s \in Senders |-> 0]
  BY DEF Init, lineTries, Listening
<1>3. lineOutcome = [s \in Senders |-> "failed"]
  BY DEF Init, lineOutcome
<1>4. lineEcho = "open"
  BY DEF Init, lineEcho
<1> QED  BY <1>1, <1>2, <1>3, <1>4 DEF Init, Line!LineInit

(* What the abstract echo is, by the place of the lock's holder.            *)
EchoPlace ==
  /\ \A s \in Senders : txLock = s =>
       /\ pc[s] \in Trying => lineEcho = EchoHeard(frame[s], pulled)
       /\ pc[s] = "disarm" /\ verdict[s] # "error" =>
            lineEcho = EchoHeard(frame[s], judgedAt)
       /\ pc[s] = "disarm" /\ verdict[s] = "error" => lineEcho = "open"
       /\ pc[s] \in Listening \cup {"idle", "lock", "unlock"} => lineEcho = "open"
  /\ txLock = NoTask => lineEcho = "open"

LEMMA EchoPlaces == EchoPlace
BY DEF EchoPlace, lineEcho, EchoOf, Trying, Listening

LEMMA EchoPlacesAfter == EchoPlace'
BY EchoPlaces, PTL

(* The line is heard, by the reader or by the sender: more of the stream is *)
(* there or has been pulled, and nobody has gone on.                        *)
LEMMA LineHears ==
  ASSUME IInv, [Next]_vars,
         UNCHANGED <<txLock, pc, frame, attempt, verdict, result, armedAt, judgedAt>>
  PROVE  Line!LineNext \/ UNCHANGED Line!lineVars
<1>x. TypeOK /\ TypeOK'
  BY TypeStep DEF IInv
<1>z. pulled' \in Nat
  BY <1>x DEF TypeOK, StreamOK
<1>y. /\ rx \in Seq(Byte) /\ armedAt \in Nat /\ judgedAt \in Nat
      /\ pulled \in Nat /\ pulled' \in Nat /\ pulled <= Len(rx) /\ Len(rx) \in Nat
      /\ frame \in [Senders -> Seq(Byte)] /\ pc \in [Senders -> PC]
      /\ txLock \in Senders \cup {NoTask}
  <2>1. rx \in Seq(Byte) /\ pulled \in Nat /\ pulled <= Len(rx)
    BY <1>x DEF TypeOK, StreamOK
  <2>2. armedAt \in Nat /\ judgedAt \in Nat
    BY <1>x DEF TypeOK, EchoOK
  <2>3. /\ frame \in [Senders -> Seq(Byte)] /\ pc \in [Senders -> PC]
        /\ txLock \in Senders \cup {NoTask}
    BY <1>x DEF TypeOK, CallOK
  <2> QED  BY <1>z, <2>1, <2>2, <2>3
<1>g. (\A k \in 1 .. Len(rx) : rx'[k] = rx[k]) /\ pulled' >= pulled
  BY StreamGrows DEF IInv
<1>u. UNCHANGED <<txLock, linePhase, lineTries, lineOutcome>>
  BY DEF linePhase, lineTries, lineOutcome
<1>1. CASE lineEcho' = lineEcho
  BY <1>1, <1>u DEF Line!lineVars
<1>2. CASE lineEcho' # lineEcho
  <2>1. PICK s \in Senders : txLock = s
    BY <1>2, <1>y, EchoPlaces, EchoPlacesAfter DEF EchoPlace
  <2>h. pc[s] \in Holding
    BY <2>1 DEF IInv, LockInv
  <2>2. pc[s] \in Trying
    <3>1. CASE pc[s] \in Listening \cup {"unlock"}
      BY <1>2, <2>1, <3>1, EchoPlaces, EchoPlacesAfter DEF EchoPlace
    <3>2. CASE pc[s] = "disarm" /\ verdict[s] = "error"
      BY <1>2, <2>1, <3>2, EchoPlaces, EchoPlacesAfter DEF EchoPlace
    <3>3. CASE pc[s] = "disarm" /\ verdict[s] # "error"
      <4>1. judgedAt <= Len(rx) /\ frame[s] \in Seq(Byte)
        BY <3>3, <1>y DEF IInv, JudgeInv
      <4>2. HeardIn(rx', armedAt', frame[s], judgedAt) = EchoHeard(frame[s], judgedAt)
        BY <1>y, <1>g, <4>1, HeardForGood
      <4>3. EchoHeard(frame[s], judgedAt)' = HeardIn(rx', armedAt', frame'[s], judgedAt')
        BY DEF EchoHeard, DisturbedBy, HeardIn
      <4>4. lineEcho = EchoHeard(frame[s], judgedAt)
        BY <2>1, <3>3, EchoPlaces DEF EchoPlace
      <4>5. lineEcho' = EchoHeard(frame[s], judgedAt)'
        BY <2>1, <3>3, EchoPlacesAfter DEF EchoPlace
      <4> QED  BY <1>2, <4>2, <4>3, <4>4, <4>5
    <3> QED
      BY <2>h, <3>1, <3>2, <3>3 DEF Holding, PC, Listening, Trying
  <2>3. lineEcho = EchoHeard(frame[s], pulled)
    BY <2>1, <2>2, EchoPlaces DEF EchoPlace
  <2>4. lineEcho' = EchoHeard(frame[s], pulled)'
    BY <2>1, <2>2, EchoPlacesAfter DEF EchoPlace
  <2>5. HeardIn(rx', armedAt', frame[s], pulled') \in Line!Heard(EchoHeard(frame[s], pulled))
    BY <1>y, <1>g, HeardMore
  <2>6. EchoHeard(frame[s], pulled)' = HeardIn(rx', armedAt', frame'[s], pulled')
    BY DEF EchoHeard, DisturbedBy, HeardIn
  <2>7. lineEcho' \in Line!Heard(lineEcho)
    BY <2>3, <2>4, <2>5, <2>6
  <2>8. linePhase[s] = "sending"
    BY <2>2, Phases DEF linePhase
  <2>9. Line!Hear(s)
    BY <1>u, <2>1, <2>7, <2>8 DEF Line!Hear
  <2> QED  BY <2>9 DEF Line!LineNext
<1> QED  BY <1>1, <1>2

LEMMA LineStep == IInv /\ [Next]_vars => [Line!LineNext]_(Line!lineVars)
<1> SUFFICES ASSUME IInv, [Next]_vars
             PROVE  Line!LineNext \/ UNCHANGED Line!lineVars
  OBVIOUS
<1> USE DEF rxVars, echoVars, callVars, boundVars
<1>t. CallOK /\ LockInv /\ JudgeInv /\ LockInv'
  BY LockStep DEF IInv, TypeOK
<1>x. TypeOK /\ TypeOK'
  BY TypeStep DEF IInv
<1>z. pulled' \in Nat /\ echoState' \in EchoStates
  BY <1>x DEF TypeOK, StreamOK, EchoOK
<1>y. /\ rx \in Seq(Byte) /\ armedAt \in Nat /\ judgedAt \in Nat
      /\ pulled \in Nat /\ pulled' \in Nat /\ pulled <= Len(rx) /\ Len(rx) \in Nat
      /\ frame \in [Senders -> Seq(Byte)] /\ pc \in [Senders -> PC]
      /\ verdict \in [Senders -> EchoStates \cup {"error"}]
      /\ echoState' \in EchoStates
  <2>1. rx \in Seq(Byte) /\ pulled \in Nat /\ pulled <= Len(rx)
    BY <1>x DEF TypeOK, StreamOK
  <2>2. armedAt \in Nat /\ judgedAt \in Nat
    BY <1>x DEF TypeOK, EchoOK
  <2>3. /\ frame \in [Senders -> Seq(Byte)] /\ pc \in [Senders -> PC]
        /\ verdict \in [Senders -> EchoStates \cup {"error"}]
    BY <1>x DEF TypeOK, CallOK
  <2> QED  BY <1>z, <2>1, <2>2, <2>3
<1>g. (\A k \in 1 .. Len(rx) : rx'[k] = rx[k]) /\ pulled' >= pulled
  BY StreamGrows DEF IInv
<1>1. CASE Read  BY <1>1, LineHears DEF Read
<1>2. ASSUME NEW b \in Byte, ForeignByte(b) PROVE Line!LineNext \/ UNCHANGED Line!lineVars
  BY <1>2, LineHears DEF ForeignByte
<1>3. CASE OwnByte  BY <1>3, LineHears DEF OwnByte
<1>4. CASE CollidedByte  BY <1>4, LineHears DEF CollidedByte
<1>5. ASSUME NEW s \in Senders, NEW f \in Frames, Refuse(s, f) \/ Call(s, f)
      PROVE  Line!LineNext
  <2>e. UNCHANGED lineEcho
    <3>1. \A r \in Senders : txLock = r => r # s
      BY <1>5, <1>t DEF Refuse, Call, Step, LockInv, Holding, PC
    <3>2. \A r \in Senders \ {s} : pc'[r] = pc[r] /\ frame'[r] = frame[r]
      BY <1>5, <1>y DEF Refuse, Call, Step
    <3>3. UNCHANGED <<rx, pulled, armedAt, judgedAt, verdict, txLock>>
      BY <1>5 DEF Refuse, Call
    <3>4. ASSUME NEW r \in Senders, txLock = r PROVE EchoOf(r)' = EchoOf(r)
      BY <3>1, <3>2, <3>3, <3>4 DEF EchoOf, EchoHeard, DisturbedBy
    <3>5. CASE txLock \in Senders
      BY <3>3, <3>4, <3>5 DEF lineEcho
    <3>6. CASE txLock \notin Senders
      BY <3>3, <3>6 DEF lineEcho
    <3> QED  BY <3>5, <3>6
  <2>1. CASE Refuse(s, f)
    <3>1. linePhase[s] = "idle" /\ UNCHANGED <<linePhase, lineTries>>
      BY <2>1, Phases DEF Refuse, linePhase, lineTries
    <3>2. lineOutcome' = [lineOutcome EXCEPT ![s] = "failed"]
      <4>1. result'[s] = -1 /\ \A r \in Senders \ {s} : result'[r] = result[r]
        BY <2>1, <1>t DEF Refuse, CallOK
      <4>2. lineOutcome' = [r \in Senders |-> IF r = s THEN "failed" ELSE lineOutcome[r]]
        BY <4>1 DEF lineOutcome
      <4> QED  BY <4>2 DEF lineOutcome
    <3>3. Line!RefuseCall(s)
      BY <2>1, <2>e, <3>1, <3>2 DEF Refuse, Line!RefuseCall
    <3> QED  BY <3>3 DEF Line!LineNext
  <2>2. CASE Call(s, f)
    <3>1. linePhase[s] = "idle" /\ linePhase' = [linePhase EXCEPT ![s] = "waiting"]
      BY <2>2, <1>t, Phases DEF Call, Step, linePhase, CallOK
    <3>2. UNCHANGED <<lineTries, lineOutcome>>
      BY <2>2, <1>t DEF Call, Step, lineTries, lineOutcome, CallOK, Listening
    <3>3. Line!Request(s)
      BY <2>2, <2>e, <3>1, <3>2 DEF Call, Line!Request, Line!Move
    <3> QED  BY <3>3 DEF Line!LineNext
  <2> QED  BY <1>5, <2>1, <2>2
<1>6. ASSUME NEW s \in Senders, Send(s)
      PROVE  Line!LineNext \/ UNCHANGED Line!lineVars
  <2>o. pc[s] \in Holding => txLock = s  BY <1>t DEF LockInv
  (* One sender goes on; the others stay where they are.                    *)
  <2>p. ASSUME NEW a, NEW b, Step(s, a, b),
               \A r \in Senders \ {s} : verdict'[r] = verdict[r]
        PROVE  linePhase[s] = PhaseOf(a, verdict[s])
               /\ linePhase' = [linePhase EXCEPT ![s] = PhaseOf(b, verdict'[s])]
    BY <2>p, <1>y DEF Step, linePhase
  <2>s. ASSUME NEW a, NEW b, Step(s, a, b),
               (a \in Listening /\ b \in Listening) \/ (a \in Trying /\ b \in Trying),
               UNCHANGED <<txLock, attempt, result, verdict, rx, pulled, frame, armedAt>>,
               txLock = s
        PROVE  UNCHANGED Line!lineVars
    <3>1. linePhase' = linePhase
      <4>1. linePhase[s] = PhaseOf(a, verdict[s])
            /\ linePhase' = [linePhase EXCEPT ![s] = PhaseOf(b, verdict'[s])]
        BY <2>s, <2>p
      <4>2. PhaseOf(b, verdict'[s]) = PhaseOf(a, verdict[s])
        BY <2>s, Phases
      <4> QED  BY <4>1, <4>2 DEF linePhase
    <3>2. lineTries' = lineTries
      BY <2>s, <1>t DEF lineTries, Step, CallOK, Listening, Trying
    <3>3. lineOutcome' = lineOutcome  BY <2>s DEF lineOutcome
    <3>4. lineEcho' = lineEcho
      <4>1. pc[s] = a /\ pc'[s] = b  BY <2>s, <1>y DEF Step
      <4>2. CASE a \in Listening /\ b \in Listening
        BY <2>s, <4>1, <4>2, EchoPlaces, EchoPlacesAfter DEF EchoPlace
      <4>3. CASE a \in Trying /\ b \in Trying
        <5>1. lineEcho = EchoHeard(frame[s], pulled)
          BY <2>s, <4>1, <4>3, EchoPlaces DEF EchoPlace
        <5>2. lineEcho' = EchoHeard(frame[s], pulled)'
          BY <2>s, <4>1, <4>3, EchoPlacesAfter DEF EchoPlace
        <5>3. EchoHeard(frame[s], pulled)' = EchoHeard(frame[s], pulled)
          BY <2>s DEF EchoHeard, DisturbedBy
        <5> QED  BY <5>1, <5>2, <5>3
      <4> QED  BY <2>s, <4>2, <4>3
    <3> QED  BY <2>s, <3>1, <3>2, <3>3, <3>4 DEF Line!lineVars
  (* A step out of listening or sending whose attempt stays.                *)
  <2>t. ASSUME NEW a, NEW b, Step(s, a, b), a \notin Listening, b \notin Listening,
               UNCHANGED attempt
        PROVE  lineTries' = lineTries
    BY <2>t, <1>t DEF lineTries, Step, CallOK
  <2>1. CASE TakeLock(s)
    <3>1. linePhase[s] = "waiting" /\ linePhase' = [linePhase EXCEPT ![s] = "listening"]
      BY <2>1, <2>p, Phases DEF TakeLock, Listening
    <3>2. lineTries' = [lineTries EXCEPT ![s] = 0]
      <4>1. pc'[s] \in Listening /\ attempt'[s] - 1 = 0
        BY <2>1, <1>t DEF TakeLock, Step, CallOK, Listening
      <4>2. \A r \in Senders \ {s} : pc'[r] = pc[r] /\ attempt'[r] = attempt[r]
        BY <2>1, <1>t DEF TakeLock, Step, CallOK
      <4> QED  BY <4>1, <4>2 DEF lineTries
    <3>3. lineOutcome' = [lineOutcome EXCEPT ![s] = "failed"]
      <4>1. result'[s] = -1 /\ \A r \in Senders \ {s} : result'[r] = result[r]
        BY <2>1, <1>t DEF TakeLock, CallOK
      <4>2. lineOutcome' = [r \in Senders |-> IF r = s THEN "failed" ELSE lineOutcome[r]]
        BY <4>1 DEF lineOutcome
      <4> QED  BY <4>2 DEF lineOutcome
    <3>5. UNCHANGED lineEcho
      <4>1. txLock = NoTask /\ txLock' = s /\ pc'[s] \in Listening
        BY <2>1, <1>y DEF TakeLock, Step, Listening
      <4> QED  BY <4>1, EchoPlaces, EchoPlacesAfter DEF EchoPlace
    <3>4. Line!Grant(s)
      BY <2>1, <3>1, <3>2, <3>3, <3>5 DEF TakeLock, Line!Grant, Line!Move
    <3> QED  BY <3>4 DEF Line!LineNext
  <2>2. CASE Listen(s) \/ Quiet(s) \/ Busy(s)
    BY <2>2, <2>s, <2>o DEF Listen, Quiet, Busy, Listening, Step, Holding, PC
  <2>3. CASE Arm(s)
    <3>1. /\ Step(s, "arm", "write") /\ UNCHANGED <<txLock, attempt, result, verdict>>
          /\ txLock = s /\ armedAt' = Len(rx) /\ UNCHANGED <<rx, pulled, frame>>
      BY <2>3, <2>o DEF Arm, Step, Holding, PC
    <3>2. linePhase[s] = "listening" /\ linePhase' = [linePhase EXCEPT ![s] = "sending"]
      BY <3>1, <2>p, Phases DEF Listening, Trying
    <3>3. lineTries' = [lineTries EXCEPT ![s] = @ + 1] /\ lineTries[s] < MaxAttempts
      <4>1. /\ pc[s] \in Listening /\ pc'[s] \notin Listening
            /\ attempt'[s] = attempt[s] /\ attempt[s] \in Int
            /\ attempt[s] <= MaxAttempts
        BY <3>1, <1>t DEF Step, CallOK, Listening
      <4>2. \A r \in Senders \ {s} : pc'[r] = pc[r] /\ attempt'[r] = attempt[r]
        BY <3>1, <1>t DEF Step, CallOK
      <4>3. lineTries[s] = attempt[s] - 1 /\ lineTries'[s] = attempt[s]
        BY <4>1 DEF lineTries
      <4>4. lineTries' = [r \in Senders |-> IF r = s THEN attempt[s] ELSE lineTries[r]]
        BY <4>1, <4>2 DEF lineTries
      <4>5. attempt[s] = lineTries[s] + 1 /\ lineTries[s] < MaxAttempts
        BY <4>1, <4>3
      <4> QED  BY <4>4, <4>5 DEF lineTries
    <3>4. UNCHANGED lineOutcome  BY <3>1 DEF lineOutcome
    <3>6. lineEcho' = "open"
      <4>1. pc'[s] \in Trying  BY <3>1, <1>y DEF Step, Trying
      <4>2. lineEcho' = EchoHeard(frame[s], pulled)'
        BY <3>1, <4>1, EchoPlacesAfter DEF EchoPlace
      <4>3. EchoHeard(frame[s], pulled)' = HeardIn(rx, Len(rx), frame[s], pulled)
        BY <3>1 DEF EchoHeard, DisturbedBy, HeardIn
      <4>4. frame[s] \in Seq(Byte) /\ frame[s] # <<>>
        BY <1>y, <1>t, <3>1 DEF Step, LockInv, Sendable
      <4>5. Len(frame[s]) \in Nat /\ Len(frame[s]) >= 1
        BY <4>4
      <4>6. HeardIn(rx, Len(rx), frame[s], pulled) = "open"
        BY <1>y, <4>5 DEF HeardIn
      <4> QED  BY <4>2, <4>3, <4>6
    <3>5. Line!Try(s)
      BY <3>1, <3>2, <3>3, <3>4, <3>6 DEF Line!Try, Line!Move
    <3> QED  BY <3>5 DEF Line!LineNext
  <2>4. CASE Write(s) \/ TxDone(s)
    BY <2>4, <2>s, <2>o DEF Write, TxDone, Trying, Step, Holding, PC
  <2>5. CASE WriteError(s) \/ TxTimeout(s)
    <3>1. PICK a \in {"write", "drain"} :
            /\ Step(s, a, "disarm") /\ verdict' = [verdict EXCEPT ![s] = "error"]
            /\ UNCHANGED <<txLock, attempt, result>>
      BY <2>5 DEF WriteError, TxTimeout
    <3>2. txLock = s /\ pc'[s] = "disarm" /\ verdict'[s] = "error"
      BY <3>1, <2>o, <1>y DEF Step, Holding, PC
    <3>3. linePhase[s] = "sending" /\ linePhase' = [linePhase EXCEPT ![s] = "broken"]
      BY <3>1, <3>2, <2>p, <1>y, Phases DEF Trying
    <3>4. lineEcho' = "open"
      BY <3>1, <3>2, EchoPlacesAfter DEF EchoPlace
    <3>5. UNCHANGED <<lineTries, lineOutcome>>
      BY <3>1, <2>t DEF lineOutcome, Listening
    <3>6. Line!Break(s)
      BY <3>1, <3>2, <3>3, <3>4, <3>5 DEF Line!Break, Line!Move
    <3> QED  BY <3>6 DEF Line!LineNext
  <2>6. CASE EchoDecided(s) \/ EchoUndecided(s)
    <3>1. CASE Step(s, "echo", "disarm")
      <4>1. /\ pc[s] = "echo" /\ pc'[s] = "disarm" /\ txLock = s
        BY <3>1, <2>o, <1>y DEF Step, Holding, PC
      <4>2. /\ verdict' = [verdict EXCEPT ![s] = echoState'] /\ judgedAt' = pulled'
            /\ UNCHANGED <<txLock, attempt, result, frame, armedAt>>
        BY <2>6, <4>1 DEF EchoDecided, EchoUndecided
      <4>3. verdict'[s] # "error"
        BY <4>2, <1>y DEF EchoStates
      <4>4. linePhase[s] = "sending" /\ linePhase' = [linePhase EXCEPT ![s] = "judged"]
        BY <3>1, <4>2, <4>3, <2>p, <1>y, Phases DEF Trying
      <4>5. lineEcho = EchoHeard(frame[s], pulled)
        BY <4>1, EchoPlaces DEF EchoPlace, Trying
      <4>6. lineEcho' = EchoHeard(frame[s], judgedAt)'
        BY <4>1, <4>2, <4>3, EchoPlacesAfter DEF EchoPlace
      <4>7. HeardIn(rx', armedAt', frame[s], pulled') \in Line!Heard(EchoHeard(frame[s], pulled))
        BY <1>y, <1>g, <4>2, HeardMore
      <4>8. EchoHeard(frame[s], judgedAt)' = HeardIn(rx', armedAt', frame'[s], judgedAt')
        BY DEF EchoHeard, DisturbedBy, HeardIn
      <4>9. lineEcho' \in Line!Heard(lineEcho)
        BY <4>2, <4>5, <4>6, <4>7, <4>8
      <4>10. UNCHANGED <<lineTries, lineOutcome>>
        BY <3>1, <4>2, <2>t DEF lineOutcome, Listening
      <4>11. Line!Judge(s)
        BY <4>1, <4>2, <4>4, <4>9, <4>10 DEF Line!Judge, Line!Move
      <4> QED  BY <4>11 DEF Line!LineNext
    <3>2. CASE EchoUndecided(s) /\ UNCHANGED <<pc, verdict, judgedAt>>
      BY <3>2, LineHears DEF EchoUndecided
    <3> QED  BY <2>6, <3>1, <3>2 DEF EchoDecided, EchoUndecided
  <2>7. CASE Retry(s)
    <3>1. /\ pc[s] = "disarm" /\ pc'[s] = "listen" /\ txLock = s /\ verdict[s] = "mismatch"
          /\ Step(s, "disarm", "listen") /\ UNCHANGED <<txLock, verdict, result>>
      BY <2>7, <2>o, <1>y DEF Retry, Retryable, Step, Holding, PC
    <3>2. linePhase[s] = "judged" /\ linePhase' = [linePhase EXCEPT ![s] = "listening"]
      BY <3>1, <2>p, Phases DEF Listening
    <3>3. UNCHANGED lineTries /\ lineTries[s] < MaxAttempts
      <4>1. /\ pc[s] \notin Listening /\ pc'[s] \in Listening
            /\ attempt'[s] = attempt[s] + 1 /\ attempt[s] \in Int
            /\ attempt[s] < MaxAttempts
        BY <2>7, <1>t DEF Retry, Retryable, Step, CallOK, Listening
      <4>2. \A r \in Senders \ {s} : pc'[r] = pc[r] /\ attempt'[r] = attempt[r]
        BY <2>7, <1>t DEF Retry, Step, CallOK
      <4>3. lineTries[s] = attempt[s]  BY <4>1 DEF lineTries
      <4>4. attempt'[s] - 1 = attempt[s]  BY <4>1
      <4>5. lineTries' = lineTries  BY <4>1, <4>2, <4>4 DEF lineTries
      <4> QED  BY <4>1, <4>3, <4>5
    <3>4. UNCHANGED lineOutcome  BY <3>1 DEF lineOutcome
    <3>5. lineEcho = "disturbed"
      <4>1. verdict[s] = VerdictOn(EchoHeard(frame[s], judgedAt))
        BY <3>1, <1>t DEF JudgeInv
      <4>2. EchoHeard(frame[s], judgedAt) = "disturbed"
        BY <3>1, <4>1 DEF VerdictOn
      <4> QED  BY <3>1, <4>2, EchoPlaces DEF EchoPlace
    <3>6. lineEcho' = "open"
      BY <3>1, EchoPlacesAfter DEF EchoPlace, Listening
    <3>7. Line!Collision(s)
      BY <3>1, <3>2, <3>3, <3>4, <3>5, <3>6 DEF Line!Collision, Line!Move
    <3> QED  BY <3>7 DEF Line!LineNext
  <2>8. CASE Conclude(s)
    <3>1. /\ pc[s] = "disarm" /\ pc'[s] = "unlock" /\ txLock = s
          /\ Step(s, "disarm", "unlock") /\ UNCHANGED <<txLock, verdict, attempt>>
      BY <2>8, <2>o, <1>y DEF Conclude, Step, Holding, PC
    <3>2. /\ linePhase[s] = IF verdict[s] = "error" THEN "broken" ELSE "judged"
          /\ linePhase' = [linePhase EXCEPT ![s] = "ended"]
      BY <3>1, <2>p, Phases
    <3>3. UNCHANGED lineTries /\ lineTries[s] = attempt[s]
      BY <3>1, <2>t DEF Listening, lineTries
    <3>4. lineEcho' = "open"
      BY <3>1, EchoPlacesAfter DEF EchoPlace
    <3>5. CASE verdict[s] = "error"
      <4>1. result' = result
        BY <2>8, <3>5, <1>t DEF Conclude, CallOK
      <4>2. UNCHANGED lineOutcome  BY <4>1 DEF lineOutcome
      <4>3. Line!GiveUp(s)
        BY <3>1, <3>2, <3>3, <3>4, <3>5, <4>2 DEF Line!GiveUp, Line!Move
      <4> QED  BY <4>3 DEF Line!LineNext
    <3>6. CASE verdict[s] # "error"
      <4>1. verdict[s] = VerdictOn(EchoHeard(frame[s], judgedAt))
        BY <3>1, <3>6, <1>t DEF JudgeInv
      <4>2. lineEcho = EchoHeard(frame[s], judgedAt)
        BY <3>1, <3>6, EchoPlaces DEF EchoPlace
      <4>3. CASE verdict[s] = "mismatch"
        <5>1. result' = result
          BY <2>8, <4>3, <1>t DEF Conclude, CallOK
        <5>2. UNCHANGED lineOutcome  BY <5>1 DEF lineOutcome
        <5>3. lineEcho = "disturbed"
          BY <4>1, <4>2, <4>3 DEF VerdictOn
        <5>4. attempt[s] = MaxAttempts
          BY <2>8, <4>3, <1>t DEF Conclude, Retryable, CallOK
        <5>5. Line!GiveUp(s)
          BY <3>1, <3>2, <3>3, <3>4, <3>6, <5>2, <5>3, <5>4 DEF Line!GiveUp, Line!Move
        <5> QED  BY <5>5 DEF Line!LineNext
      <4>4. CASE verdict[s] # "mismatch"
        <5>1. verdict[s] \in {"matched", "armed"} /\ lineEcho # "disturbed"
          BY <4>1, <4>2, <4>4 DEF VerdictOn
        <5>2. frame[s] \in Seq(Byte) /\ frame[s] # <<>>
          BY <1>y, <1>t, <3>1 DEF LockInv, Sendable
        <5>3. Len(frame[s]) > 0
          BY <5>2
        <5>4. result'[s] = Len(frame[s]) /\ \A r \in Senders \ {s} : result'[r] = result[r]
          BY <2>8, <5>1, <1>t DEF Conclude, CallOK
        <5>5. lineOutcome' = [r \in Senders |-> IF r = s THEN "sent" ELSE lineOutcome[r]]
          BY <5>3, <5>4 DEF lineOutcome
        <5>6. lineOutcome' = [lineOutcome EXCEPT ![s] = "sent"]
          BY <5>5 DEF lineOutcome
        <5>7. Line!Deliver(s)
          BY <3>1, <3>2, <3>3, <3>4, <3>6, <5>1, <5>6 DEF Line!Deliver, Line!Move
        <5> QED  BY <5>7 DEF Line!LineNext
      <4> QED  BY <4>3, <4>4
    <3> QED  BY <3>5, <3>6
  <2>9. CASE Unlock(s)
    <3>1. /\ txLock = s /\ txLock' = NoTask /\ pc[s] = "unlock"
          /\ Step(s, "unlock", "idle") /\ UNCHANGED <<verdict, attempt, result>>
      BY <2>9, <2>o DEF Unlock, Step, Holding, PC
    <3>2. linePhase[s] = "ended" /\ linePhase' = [linePhase EXCEPT ![s] = "idle"]
      BY <3>1, <2>p, Phases
    <3>3. UNCHANGED <<lineTries, lineOutcome>>
      BY <3>1, <2>t DEF lineOutcome, Listening
    <3>4. UNCHANGED lineEcho
      BY <3>1, EchoPlaces, EchoPlacesAfter DEF EchoPlace
    <3>5. Line!Release(s)
      BY <3>1, <3>2, <3>3, <3>4 DEF Line!Release, Line!Move
    <3> QED  BY <3>5 DEF Line!LineNext
  <2> QED
    BY <1>6, <2>1, <2>2, <2>3, <2>4, <2>5, <2>6, <2>7, <2>8, <2>9 DEF Send
<1>7. CASE UNCHANGED vars  BY <1>7, LineHears DEF vars
<1> QED
  BY <1>1, <1>2, <1>3, <1>4, <1>5, <1>6, <1>7 DEF Next

(* bus_send_bytes() keeps what bus.h promises its callers: the line to      *)
(* itself, at most BUS_TX_MAX_ATTEMPTS tries, a repeat only after a try     *)
(* that was heard disturbed, success only and always when the last try was  *)
(* not, as far as the bus had been pulled when echo_wait() returned.        *)
THEOREM PromiseKept == Spec => KeepsLinePromise
<1>1. Init => Line!LineInit  BY LineInitially
<1>2. IInv /\ [Next]_vars => [Line!LineNext]_(Line!lineVars)  BY LineStep
<1> QED  BY <1>1, <1>2, Invariance, PTL DEF Spec, KeepsLinePromise, Line!LineSpec
=============================================================================
