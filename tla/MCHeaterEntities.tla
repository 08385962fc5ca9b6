-------------------------- MODULE MCHeaterEntities ---------------------------
(* Two temperatures, so that a setpoint can change.                         *)
EXTENDS HeaterEntities

MCSetpoints == {25, 30}
MCScales == {"C", "F"}
=============================================================================
