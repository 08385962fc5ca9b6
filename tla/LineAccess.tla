----------------------------- MODULE LineAccess -----------------------------
(***************************************************************************)
(* What bus_send_bytes() promises its callers, without bytes, buffers or   *)
(* offsets (main/bus.h:20-26). A send has the line to itself. Each of its  *)
(* at most MaxAttempts tries puts the frame on the line, where it is heard *)
(* back intact, or disturbed, or not far enough to tell (`open`). Only a   *)
(* disturbed try is repeated; a try that is not disturbed is the last one  *)
(* and the send succeeds; it fails when its last try was disturbed or the  *)
(* driver failed.                                                          *)
(***************************************************************************)
EXTENDS Integers

CONSTANTS Senders, MaxAttempts, NoTask

VARIABLES
  owner,   (* the sender that has the line, or NoTask *)
  phase,   (* progress of each sender's call          *)
  tries,   (* tries of the current call               *)
  echo,    (* what is heard of the owner's try        *)
  outcome  (* of the latest call; failed before any   *)

lineVars == <<owner, phase, tries, echo, outcome>>

Phase == {"idle", "waiting", "listening", "sending", "judged", "broken", "ended"}
Echo == {"open", "intact", "disturbed"}

LineInit ==
  /\ owner = NoTask
  /\ phase = [s \in Senders |-> "idle"]
  /\ tries = [s \in Senders |-> 0]
  /\ echo = "open"
  /\ outcome = [s \in Senders |-> "failed"]

Move(s, from, to) == phase[s] = from /\ phase' = [phase EXCEPT ![s] = to]

(* What was heard decides for good.                                         *)
Heard(e) == IF e = "open" THEN Echo ELSE {e}

(* A frame that cannot be sent is refused at once.                          *)
RefuseCall(s) ==
  /\ phase[s] = "idle"
  /\ outcome' = [outcome EXCEPT ![s] = "failed"]
  /\ UNCHANGED <<owner, phase, tries, echo>>

Request(s) ==
  /\ Move(s, "idle", "waiting")
  /\ UNCHANGED <<owner, tries, echo, outcome>>

(* The line is given to one sender only.                                    *)
Grant(s) ==
  /\ Move(s, "waiting", "listening")
  /\ owner = NoTask
  /\ owner' = s
  /\ tries' = [tries EXCEPT ![s] = 0]
  /\ outcome' = [outcome EXCEPT ![s] = "failed"]
  /\ UNCHANGED echo

(* A try begins with nothing heard of it.                                   *)
Try(s) ==
  /\ owner = s
  /\ Move(s, "listening", "sending")
  /\ tries[s] < MaxAttempts
  /\ tries' = [tries EXCEPT ![s] = @ + 1]
  /\ echo' = "open"
  /\ UNCHANGED <<owner, outcome>>

(* The line is heard, by whoever reads it.                                  *)
Hear(s) ==
  /\ owner = s /\ phase[s] = "sending"
  /\ echo' \in Heard(echo)
  /\ UNCHANGED <<owner, phase, tries, outcome>>

(* The sender has heard enough, or has waited long enough.                  *)
Judge(s) ==
  /\ owner = s
  /\ Move(s, "sending", "judged")
  /\ echo' \in Heard(echo)
  /\ UNCHANGED <<owner, tries, outcome>>

(* The driver fails; what is heard of the try no longer matters.            *)
Break(s) ==
  /\ owner = s
  /\ Move(s, "sending", "broken")
  /\ echo' = "open"
  /\ UNCHANGED <<owner, tries, outcome>>

(* Only a try that was disturbed is repeated.                               *)
Collision(s) ==
  /\ owner = s
  /\ echo = "disturbed" /\ tries[s] < MaxAttempts
  /\ Move(s, "judged", "listening")
  /\ echo' = "open"
  /\ UNCHANGED <<owner, tries, outcome>>

(* Only a try that was not disturbed is a success, and it always is.        *)
Deliver(s) ==
  /\ owner = s
  /\ echo # "disturbed"
  /\ Move(s, "judged", "ended")
  /\ echo' = "open"
  /\ outcome' = [outcome EXCEPT ![s] = "sent"]
  /\ UNCHANGED <<owner, tries>>

(* Out of tries, or an error of the driver.                                 *)
GiveUp(s) ==
  /\ owner = s
  /\ \/ Move(s, "judged", "ended") /\ echo = "disturbed" /\ tries[s] = MaxAttempts
     \/ Move(s, "broken", "ended")
  /\ echo' = "open"
  /\ UNCHANGED <<owner, tries, outcome>>

Release(s) ==
  /\ owner = s
  /\ Move(s, "ended", "idle")
  /\ owner' = NoTask
  /\ UNCHANGED <<tries, echo, outcome>>

LineNext ==
  \E s \in Senders :
    \/ RefuseCall(s) \/ Request(s) \/ Grant(s) \/ Try(s) \/ Hear(s) \/ Judge(s)
    \/ Break(s) \/ Collision(s) \/ Deliver(s) \/ GiveUp(s) \/ Release(s)

LineSpec == LineInit /\ [][LineNext]_lineVars
=============================================================================
