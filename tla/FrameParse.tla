----------------------------- MODULE FrameParse ------------------------------
(***************************************************************************)
(* What reassembly promises (framing.h, framing_process_next()): the bytes *)
(* received are parsed from left to right, every good frame found on the   *)
(* way is delivered once and in order, and only bytes at which no good     *)
(* frame starts are skipped. Nothing depends on how the bytes were cut     *)
(* into reads.                                                             *)
(***************************************************************************)
EXTENDS Integers, Sequences

CONSTANTS
  Streams,          (* the byte streams the bus may carry                   *)
  FrameAt(_, _),    (* a good frame starts in a stream at an offset         *)
  MsgLen(_, _)      (* the length of that frame                             *)

VARIABLES stream,     (* all that will be received                          *)
          cursor,     (* bytes already parsed                               *)
          delivered   (* offsets of the frames handed to the decoder        *)

ParseInit == stream \in Streams /\ cursor = 0 /\ delivered = <<>>

Skip ==
  /\ cursor' \in cursor + 1 .. Len(stream)
  /\ \A o \in cursor .. cursor' - 1 : ~FrameAt(stream, o)
  /\ UNCHANGED <<stream, delivered>>

(* Bytes before the frame may be dropped in the same step.                  *)
Deliver ==
  \E o \in cursor .. Len(stream) - 1 :
    /\ delivered' = Append(delivered, o)
    /\ cursor' = o + MsgLen(stream, o)
    /\ FrameAt(stream, o)
    /\ \A p \in cursor .. o - 1 : ~FrameAt(stream, p)
    /\ UNCHANGED stream

ParseSpec == ParseInit /\ [][Skip \/ Deliver]_<<stream, cursor, delivered>>
=============================================================================
