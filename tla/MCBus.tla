------------------------------- MODULE MCBus -------------------------------
(* Instances of Bus for TLC. Two tasks send: tcp, which is also the task    *)
(* that reads the bus (a TCP client's command is sent from the reader), and *)
(* mqtt. Two byte values are enough to tell an echo from a collision.       *)
EXTENDS Bus

CONSTANTS tcp, mqtt

MCSenders == {tcp, mqtt}
MCByte == {0, 1}

(* One good frame of each length, an empty and an oversized one.            *)
MCFrames == {<<>>, <<1>>, <<0, 1>>, <<1, 1, 1>>}
=============================================================================
