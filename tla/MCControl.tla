------------------------------- MODULE MCControl -------------------------------
(***************************************************************************)
(* What the firmware sends to the pool on its own account, for TLC: the    *)
(* requests of the register requester among setpoint and mode commands     *)
(* (RegisterRequester), and every command on its way to the pool and back  *)
(* (PoolCommands). A behaviour is about one of the two, the one in focus;  *)
(* in the others the requester knows every register and has nothing to do. *)
(***************************************************************************)
EXTENDS RegisterRequester, PoolCommands

VARIABLE focus

controlVars == <<vars, commandVars, focus>>

colors == <<"None", "Red", "Blue">>

(* A register no device has: a timer.                                       *)
silent == {<<"timer", 1>>}

AllKnown ==
  /\ actual = [r \in Registers |-> No] /\ held = actual
  /\ inUse = Equipment /\ gateway = FALSE
  /\ inbox = <<>> /\ applying = <<>> /\ heard = <<>>
  /\ phase = "wait" /\ plan = {} /\ queue = <<>> /\ await = 0
  /\ attempts = [r \in SetpointRegs |-> 0] /\ modeAsks = 0 /\ mqtt = Idle
  /\ events = MaxEvents /\ faults = 0
  /\ missed = {} /\ asked = Unknown /\ crossed = FALSE /\ unheard = FALSE

ControlInit ==
  /\ CommandsInit
  /\ \/ focus = "registers" /\ Init
     \/ focus = "commands" /\ AllKnown

ControlNext ==
  \/ focus = "registers" /\ Next /\ UNCHANGED <<commandVars, focus>>
  \/ focus = "commands" /\ CommandsNext /\ UNCHANGED <<vars, focus>>

ControlSpec == ControlInit /\ [][ControlNext]_controlVars /\ Fairness
=============================================================================
