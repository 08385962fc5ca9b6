------------------------------ MODULE MCFraming ------------------------------
(* Streams of three pieces: frames, damaged frames and noise.               *)
EXTENDS Framing

Sum(s) == ByteSum(s, 0, Len(s))
WithHeaderSum(h) == Append(h, Sum(h))
Header(hi_type, cmd, len) == WithHeaderSum(<<2, 0, 80, 255, 255, hi_type, 0, cmd, len>>)

NoData == Header(0, 18, 11) \o <<3>>
WithData(payload) ==
  Header(128, 20, 12 + Len(payload)) \o payload \o <<Sum(payload), 3>>

Pieces == {
  <<>>,
  NoData,
  WithData(<<>>),
  WithData(<<2>>),                          \* a start byte in the payload
  <<7, 3>>,                                 \* noise
  <<2>>,                                    \* noise that looks like a start
  SubSeq(WithData(<<1>>), 1, 10),           \* a frame cut off after its header
  Header(128, 20, 24) \o NoData \o <<9, 9, 3>>, \* bad data checksum around a frame
  Header(128, 20, 12) \o <<0, 4>>,          \* bad end byte
  Header(128, 20, 9) \o <<3>>,              \* bad lengths
  Header(0, 20, 240) \o <<3>>,
  Header(1, 20, 11) \o <<3>>                \* bad type
}

MCStreams == {a \o b \o c : a \in Pieces, b \in Pieces, c \in {<<>>, NoData, <<7, 3>>}}

(* A frame almost as long as a buffer of 64 bytes, with other traffic.      *)
Payload(n) == [i \in 1 .. n |-> 0]
MCLongStreams == {WithData(Payload(50)) \o NoData, NoData \o WithData(Payload(30)) \o NoData,
                  [i \in 1 .. 20 |-> 7], Header(1, 20, 11) \o <<3>> \o NoData}
=============================================================================
