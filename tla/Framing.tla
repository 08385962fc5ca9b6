------------------------------- MODULE Framing -------------------------------
(***************************************************************************)
(* main/framing.c and the loop of main/tcp_bridge.c that drives it: bytes  *)
(* come from bus_read() in chunks of any size, are appended to the         *)
(* reassembly buffer and parsed until framing_process_next() needs more.   *)
(*                                                                         *)
(* The buffer is the window lo .. hi - 1 of the received stream: a memmove *)
(* moves lo, framing_add_bytes() moves hi.                                 *)
(***************************************************************************)
EXTENDS FrameFormat

CONSTANTS
  Streams,     (* what the bus may carry from boot on                       *)
  ChunkMax,    (* TCP_UART_BUFFER_SIZE                                      *)
  CaptureLen   (* FRAMING_HEADER_CAPTURE_LEN                                *)

ASSUME StreamsAssumption == Streams \subseteq Seq(Byte)
ASSUME BufferAssumption ==
  /\ BufMax \in Nat /\ ChunkMax \in Nat \ {0} /\ CaptureLen \in Nat \ {0}
  /\ MinFrame + ChunkMax <= BufMax + 1   \* a read fits beside half a header

VARIABLES
  stream,      (* all bytes that will be received                            *)
  lo, hi,      (* s_framing_buffer: offsets lo .. hi - 1 of the stream       *)
  phase,       (* "read": at uart_read(), "parse": in the inner loop         *)
  delivered,   (* offsets of the frames handed to the decoder                *)
  captured     (* the latest on_resync() call: why, and which bytes          *)

vars == <<stream, lo, hi, phase, delivered, captured>>

Buffered == hi - lo

-----------------------------------------------------------------------------
(* Variant: one byte too many.                                              *)
FitsOneMore(n) == Buffered + n <= BufMax + 1
Fits(n) == Buffered + n <= BufMax

(* uart_read() returned n bytes. They are appended; when they do not fit    *)
(* the buffer is captured and cleared first.                                *)
Add(n) ==
  /\ phase = "read"
  /\ hi + n <= Len(stream)
  /\ \/ Fits(n) /\ UNCHANGED <<lo, captured>>
     \/ /\ ~Fits(n)
        /\ lo' = hi
        /\ captured' = [why |-> "overflow", from |-> lo, len |-> Buffered]
  /\ hi' = hi + n
  /\ phase' = "parse"
  /\ UNCHANGED <<stream, delivered>>

-----------------------------------------------------------------------------
(* framing_process_next(), one action per result.                           *)

(* f is where the first start byte of the buffer is: the front of it once   *)
(* the bytes before are gone.                                               *)
NoStartIn(a, b) == \A o \in a .. b - 1 : At(stream, o) # START
Front(f) == f \in lo .. hi - 1 /\ At(stream, f) = START /\ NoStartIn(lo, f)

WorthParsing == Buffered >= MinFrame

TooShort ==
  /\ phase = "parse"
  /\ ~WorthParsing
  /\ phase' = "read"
  /\ UNCHANGED <<stream, lo, hi, delivered, captured>>

NoStartByte ==
  /\ phase = "parse"
  /\ WorthParsing /\ NoStartIn(lo, hi)
  /\ captured' = [why |-> "no_start", from |-> lo, len |-> Buffered]
  /\ lo' = hi
  /\ UNCHANGED <<stream, hi, phase, delivered>>

(* The first check the front of the buffer fails, in the code's order.      *)
HeaderFault(o) ==
  IF ~HeaderSumOK(stream, o) THEN "header_checksum"
  ELSE IF PacketType(stream, o) = "invalid" THEN "frame_type"
  ELSE IF ~LengthOK(stream, o) THEN "length"
  ELSE "none"

BodyFault(o) ==
  IF ~EndOK(stream, o) THEN "end"
  ELSE IF ~DataSumOK(stream, o) THEN "data_checksum"
  ELSE "none"

(* Variant: one byte more than the message is waited for.                   *)
HaveMessageLate(f) == f + MsgLen(stream, f) < hi
HaveMessage(f) == f + MsgLen(stream, f) <= hi

HaveHeader(f) == f + HeaderLen <= hi

(* The bytes before the start byte are gone even if more data is needed.    *)
NeedMore(f) ==
  /\ phase = "parse" /\ WorthParsing /\ Front(f)
  /\ \/ ~HaveHeader(f)
     \/ HaveHeader(f) /\ HeaderFault(f) = "none" /\ ~HaveMessage(f)
  /\ lo' = f
  /\ phase' = "read"
  /\ UNCHANGED <<stream, hi, delivered, captured>>

AtMost(bound, n) == IF n < bound THEN n ELSE bound

(* Variant: captures as much as for a fault in the body.                    *)
CaptureWhole(o) ==
  IF HeaderFault(o) # "none" THEN MsgLen(stream, o) ELSE AtMost(CaptureLen, hi - o)

(* How much framing_resync_one_byte() captures for the fault at o.          *)
Capture(o) ==
  IF HeaderFault(o) # "none" THEN AtMost(CaptureLen, hi - o) ELSE MsgLen(stream, o)

(* Variant: skips the whole message.                                        *)
ResyncPast(o) ==
  IF HeaderFault(o) # "none" THEN o + 1 ELSE o + MsgLen(stream, o)

(* framing_resync_one_byte()                                                *)
ResyncTo(o) == o + 1

Fault(f, why) ==
  /\ phase = "parse" /\ WorthParsing /\ Front(f) /\ HaveHeader(f)
  /\ \/ HeaderFault(f) = why
     \/ HeaderFault(f) = "none" /\ HaveMessage(f) /\ BodyFault(f) = why
  /\ captured' = [why |-> why, from |-> f, len |-> Capture(f)]
  /\ lo' = ResyncTo(f)
  /\ UNCHANGED <<stream, hi, phase, delivered>>

(* Variant: a buffer that holds nothing else is not shifted.                *)
AfterFrameUnlessLast(o) == IF o + MsgLen(stream, o) = hi THEN o ELSE o + MsgLen(stream, o)
AfterFrame(o) == o + MsgLen(stream, o)

FrameReady(f) ==
  /\ phase = "parse" /\ WorthParsing /\ Front(f) /\ HaveHeader(f)
  /\ HeaderFault(f) = "none" /\ HaveMessage(f) /\ BodyFault(f) = "none"
  /\ delivered' = Append(delivered, f)
  /\ lo' = AfterFrame(f)
  /\ UNCHANGED <<stream, hi, phase, captured>>

-----------------------------------------------------------------------------
Faults == {"header_checksum", "frame_type", "length", "end", "data_checksum"}

Init ==
  /\ stream \in Streams
  /\ lo = 0 /\ hi = 0
  /\ phase = "read"
  /\ delivered = <<>>
  /\ captured = [why |-> "none", from |-> 0, len |-> 0]

ProcessNext ==
  \/ TooShort
  \/ NoStartByte
  \/ \E f \in lo .. hi - 1 :
       NeedMore(f) \/ FrameReady(f) \/ \E why \in Faults : Fault(f, why)

Next == (\E n \in 1 .. ChunkMax : Add(n)) \/ ProcessNext

Spec == Init /\ [][Next]_vars

(* The bridge task keeps running and reads what arrives.                    *)
FairSpec == Spec /\ WF_vars(Next)

-----------------------------------------------------------------------------
TypeOK ==
  /\ stream \in Streams
  /\ lo \in 0 .. hi /\ hi \in 0 .. Len(stream)
  /\ Buffered <= BufMax
  /\ phase \in {"read", "parse"}
  /\ delivered \in Seq(0 .. Len(stream))
  /\ captured \in [why : Faults \cup {"none", "no_start", "overflow"},
                   from : Nat, len : Nat]

(* Every header with correct checksum, type and length on the bus announces *)
(* a message that fits the buffer together with one more read.              *)
ShortMessages ==
  \A s \in Streams : \A o \in 0 .. Len(s) - 1 :
    HeaderAt(s, o) => MsgLen(s, o) + ChunkMax <= BufMax + 1

(* framing.h promises reassembly as FrameParse states it: no good frame is  *)
(* lost, repeated, reordered or invented, however reads cut the stream.     *)
Parse == INSTANCE FrameParse WITH cursor <- lo

ParsesStream == Parse!ParseSpec

(* Overflow or not, what the decoder gets are good frames, in the order of  *)
(* the stream and without a byte in common: none is decoded twice.          *)
DeliveredOnce ==
  \A i \in 1 .. Len(delivered) :
    /\ FrameAt(stream, delivered[i])
    /\ delivered[i] + MsgLen(stream, delivered[i])
         <= IF i < Len(delivered) THEN delivered[i + 1] ELSE lo

(* With ShortMessages the buffer never overflows: before every read there   *)
(* is room for as many bytes as the read may return.                        *)
RoomForRead == phase = "read" => Buffered + ChunkMax <= BufMax

(* What on_resync() is handed lies within the bytes that were buffered when *)
(* the fault was found: the memcpy() calls of framing.c never read past     *)
(* fb->len, and something is always discarded.                              *)
CaptureInBuffer ==
  [][captured' # captured =>
       /\ captured'.from >= lo /\ captured'.from + captured'.len <= hi
       /\ captured'.len > 0 /\ lo' > lo]_vars

(* A header is good and the message it announces is not complete.           *)
Unfinished(last) == HeaderAt(stream, lo) /\ lo + MsgLen(stream, lo) > last

(* While the loop waits for bytes, the only thing that can hold up a frame  *)
(* that has been received completely is an unfinished message before it.    *)
OnlyUnfinishedDelays ==
  phase = "read" =>
    \A o \in lo .. hi - 1 :
      (FrameAt(stream, o) /\ o + MsgLen(stream, o) <= hi) => Unfinished(hi)

(* The loop comes to an end after every read, and once the bus is silent    *)
(* every good frame has been dealt with unless it is behind an unfinished   *)
(* message.                                                                 *)
EverythingParsed ==
  <>[](/\ phase = "read" /\ hi = Len(stream)
       /\ \A o \in lo .. hi - 1 : FrameAt(stream, o) => Unfinished(hi))
=============================================================================
