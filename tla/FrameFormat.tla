----------------------------- MODULE FrameFormat -----------------------------
(***************************************************************************)
(* The frame format of the pool bus as main/framing.c checks it.           *)
(*                                                                         *)
(*   offset 0 START, 5-6 frame type, 8 length of the whole frame,          *)
(*   9 checksum of 0-8, 10 .. payload, checksum of the payload, END        *)
(*                                                                         *)
(* A frame without data is 11 bytes and has no payload and no second       *)
(* checksum. Operators take the received bytes s and the offset o in them, *)
(* counted from 0, where a frame may start.                                *)
(***************************************************************************)
EXTENDS Integers, Sequences

CONSTANT BufMax     (* BUS_MESSAGE_MAX_SIZE *)

Byte == 0 .. 255
START == 2
END == 3
HeaderLen == 10     (* bytes that header validation looks at *)
MinFrame == 11      (* the smallest valid frame, one without data *)

At(s, o) == s[o + 1]

(* Sum of the bytes at offsets a .. b - 1, as a uint8_t.                    *)
ByteSum(s, a, b) ==
  LET sum[n \in a .. b] == IF n = a THEN 0 ELSE (sum[n - 1] + At(s, n - 1)) % 256
  IN  sum[b]

HeaderSumOK(s, o) == At(s, o + 9) = ByteSum(s, o, o + 9)

(* framing_classify_packet()                                                *)
Classify(hi, lo) ==
  CASE hi = 128 /\ lo = 0 -> "with_data"
    [] hi = 0 /\ lo = 0 -> "no_data"
    [] OTHER -> "invalid"

PacketType(s, o) == Classify(At(s, o + 5), At(s, o + 6))
MsgLen(s, o) == At(s, o + 8)

LengthOK(s, o) ==
  \/ PacketType(s, o) = "no_data" /\ MsgLen(s, o) = MinFrame
  \/ PacketType(s, o) # "no_data" /\ MsgLen(s, o) \in 12 .. BufMax

EndOK(s, o) == At(s, o + MsgLen(s, o) - 1) = END

DataSumOK(s, o) ==
  PacketType(s, o) = "with_data" =>
    At(s, o + MsgLen(s, o) - 2) = ByteSum(s, o + 10, o + MsgLen(s, o) - 2)

(* A good header starts at o, and a whole good frame does.                  *)
HeaderAt(s, o) ==
  /\ o + HeaderLen <= Len(s)
  /\ At(s, o) = START
  /\ HeaderSumOK(s, o)
  /\ PacketType(s, o) # "invalid"
  /\ LengthOK(s, o)

FrameAt(s, o) ==
  /\ HeaderAt(s, o)
  /\ o + MsgLen(s, o) <= Len(s)
  /\ EndOK(s, o)
  /\ DataSumOK(s, o)
=============================================================================
