-------------------------------- MODULE WebLog ---------------------------------
(***************************************************************************)
(* The live log of main/web_log.c: tasks that log append lines to a ring,  *)
(* a sender task takes batches out of it, and the HTTP server task sends   *)
(* them to the viewers it knows. Appending never blocks: a line that finds *)
(* the ring locked or full is counted, and the count is put in front of    *)
(* the next line that fits, as a marker.                                   *)
(*                                                                         *)
(* The ring is bytes, and a batch may cut a line in two. A line is the     *)
(* number it has since the ring was last reset, a marker its count.        *)
(***************************************************************************)
EXTENDS Integers, Sequences, FiniteSets

CONSTANTS
  LogTasks,    \* tasks that log
  Browsers,    \* sockets of viewers
  RingSize,    \* WEB_LOG_RING_SIZE
  FrameMax,    \* WEB_LOG_FRAME_MAX
  LineSizes,
  MaxClients,  \* WEB_LOG_MAX_CLIENTS
  MaxLines,    \* bound: lines since a reset
  MaxVisits,   \* bound: viewers that connect
  MaxLost      \* bound: batches the HTTP server could not take

Unlocked == "unlocked"
Sender == "sender"

ASSUME LogAssumption ==
  /\ Unlocked \notin LogTasks /\ Sender \notin LogTasks
  /\ RingSize \in Nat /\ FrameMax \in Nat /\ MaxClients \in Nat \ {0}
  /\ LineSizes \subseteq Nat \ {0}
  /\ MaxLines \in Nat /\ MaxVisits \in Nat /\ MaxLost \in Nat

VARIABLES
  ring,     \* s_ring
  dropped,  \* s_dropped
  lock,     \* s_ring_mutex: who has it
  hook,     \* what each task's log hook is doing, and what it has read
  sender,   \* where the sender task is
  frame,    \* s_frame
  clients,  \* s_clients
  closed,   \* viewers whose session has ended
  visits, losses,  \* counters of the bounds
  numbered, \* history: lines logged since the ring was reset
  sent,     \* history: what was sent since
  old,      \* history: the batch was taken before the ring was reset
  lost,     \* history: a batch was lost
  unsure    \* history: one with a marker, or from before the reset

ringVars == <<ring, dropped, lock>>
senderVars == <<sender, frame>>
viewerVars == <<clients, closed, visits>>
lossVars == <<losses, lost, unsure>>
webLogVars == <<ringVars, hook, senderVars, viewerVars, lossVars, numbered, sent, old>>

Away == [at |-> "away", gap |-> 0, number |-> 0]
MarkerSize == 1
Text(kind, number, size) ==
  [i \in 1 .. size |-> [kind |-> kind, number |-> number, last |-> i = size]]

-----------------------------------------------------------------------------
(* web_log_append(), called by the log hook of each task.                    *)

(* web_log_active() is read first, so the viewers may go meanwhile.          *)
Format(l) ==
  /\ hook[l].at = "away" /\ clients # {} /\ numbered < MaxLines
  /\ hook' = [hook EXCEPT ![l].at = "formatted"]
  /\ UNCHANGED <<ringVars, senderVars, viewerVars, lossVars, numbered, sent, old>>

Contended(l) ==
  /\ hook[l].at = "formatted" /\ lock # Unlocked
  /\ dropped' = dropped + 1 /\ numbered' = numbered + 1
  /\ hook' = [hook EXCEPT ![l] = Away]
  /\ UNCHANGED <<ring, lock, senderVars, viewerVars, lossVars, sent, old>>

Take(l) ==
  /\ hook[l].at = "formatted" /\ lock = Unlocked /\ lock' = l
  /\ hook' = [hook EXCEPT ![l].at = "locked"]
  /\ UNCHANGED <<ring, dropped, senderVars, viewerVars, lossVars, numbered, sent, old>>

Look(l) ==
  /\ hook[l].at = "locked"
  /\ numbered' = numbered + 1
  /\ hook' = [hook EXCEPT ![l] = [at |-> "looked", gap |-> dropped, number |-> numbered']]
  /\ UNCHANGED <<ringVars, senderVars, viewerVars, lossVars, sent, old>>

(* Variant: the count starts anew when a marker is written.                  *)
Anew(gap) == 0

Uncounted(gap) == dropped - gap

(* A marker is written only together with the line it stands in front of.    *)
Marker(gap) == IF gap > 0 THEN Text("marker", gap, MarkerSize) ELSE <<>>

Write(l) ==
  /\ hook[l].at = "looked"
  /\ \E size \in LineSizes :
       LET text == Marker(hook[l].gap) \o Text("line", hook[l].number, size)
       IN  \/ /\ Len(ring \o text) <= RingSize
              /\ ring' = ring \o text
              /\ dropped' = IF hook[l].gap > 0 THEN Uncounted(hook[l].gap) ELSE dropped
           \/ /\ Len(ring \o text) > RingSize
              /\ ring' = ring /\ dropped' = dropped + 1
  /\ lock' = Unlocked
  /\ hook' = [hook EXCEPT ![l] = Away]
  /\ UNCHANGED <<senderVars, viewerVars, lossVars, numbered, sent, old>>

-----------------------------------------------------------------------------
(* drain_ring_to_clients(), in the sender task.                              *)
LockRing ==
  /\ sender = "idle" /\ clients # {} /\ lock = Unlocked
  /\ lock' = Sender /\ sender' = "locked"
  /\ UNCHANGED <<ring, dropped, hook, frame, viewerVars, lossVars, numbered, sent, old>>

ReadRing ==
  /\ sender = "locked" /\ lock' = Unlocked
  /\ LET n == IF Len(ring) < FrameMax THEN Len(ring) ELSE FrameMax IN
       /\ frame' = SubSeq(ring, 1, n) /\ ring' = SubSeq(ring, n + 1, Len(ring))
       /\ sender' = IF n = 0 THEN "idle" ELSE "read"
  /\ old' = FALSE
  /\ UNCHANGED <<dropped, hook, viewerVars, lossVars, numbered, sent>>

QueueWork ==
  /\ sender = "read" /\ sender' = "queued"
  /\ UNCHANGED <<ringVars, hook, frame, viewerVars, lossVars, numbered, sent, old>>

(* The batch is lost, and every line that ends in it counted.                *)
Ends(cells) == {i \in DOMAIN cells : cells[i].last}
LoseBatch ==
  /\ sender = "read" /\ sender' = "idle"
  /\ losses < MaxLost /\ losses' = losses + 1
  /\ dropped' = dropped + Cardinality(Ends(frame))
  /\ frame' = <<>> /\ old' = FALSE /\ lost' = TRUE
  /\ unsure' = (unsure \/ old \/ \E i \in DOMAIN frame : frame[i].kind = "marker")
  /\ UNCHANGED <<ring, lock, hook, viewerVars, numbered, sent>>

-----------------------------------------------------------------------------
(* The HTTP server task: one thing at a time.                                *)

(* send_frame_work(): viewers that have gone, or cannot be sent to, are      *)
(* forgotten.                                                                *)
SendFrame ==
  /\ sender = "queued" /\ sender' = "idle"
  /\ \E failing \in SUBSET clients : clients' = clients \ (closed \cup failing)
  /\ sent' = IF old THEN sent ELSE sent \o frame
  /\ frame' = <<>> /\ old' = FALSE
  /\ UNCHANGED <<ringVars, hook, closed, visits, lossVars, numbered>>

CloseViewer(b) ==
  /\ b \in clients \ closed
  /\ closed' = closed \cup {b}
  /\ UNCHANGED <<ringVars, hook, senderVars, clients, visits, lossVars, numbered, sent, old>>

(* ring_reset(), for the first viewer.                                       *)
ResetRing ==
  /\ ring' = <<>> /\ dropped' = 0 /\ numbered' = 0 /\ sent' = <<>>
  /\ old' = (frame # <<>>) /\ lost' = FALSE /\ unsure' = FALSE
  /\ UNCHANGED <<lock, losses>>

(* At the cap one viewer, the oldest, makes room: which it is makes no       *)
(* difference to the log.                                                    *)
MadeRoom(open) ==
  IF Cardinality(open) < MaxClients THEN {open} ELSE {open \ {c} : c \in open}

(* add_client(): the reset waits for the lock, and is left out if that takes *)
(* too long.                                                                 *)
AddClient(b) ==
  /\ visits < MaxVisits /\ visits' = visits + 1
  /\ b \notin clients \ closed
  /\ \E kept \in MadeRoom(clients \ closed) :
       /\ clients' = kept \cup {b}
       /\ \/ kept = {} /\ lock = Unlocked /\ ResetRing
          \/ /\ kept # {} \/ lock # Unlocked
             /\ UNCHANGED <<ringVars, lossVars, numbered, sent, old>>
  /\ closed' = closed \ {b}
  /\ UNCHANGED <<hook, senderVars>>

-----------------------------------------------------------------------------
LogInit ==
  /\ ring = <<>> /\ dropped = 0 /\ lock = Unlocked
  /\ hook = [l \in LogTasks |-> Away]
  /\ sender = "idle" /\ frame = <<>>
  /\ clients = {} /\ closed = {}
  /\ visits = 0 /\ losses = 0
  /\ numbered = 0 /\ sent = <<>> /\ old = FALSE /\ lost = FALSE /\ unsure = FALSE

AppendLine(l) == Format(l) \/ Contended(l) \/ Take(l) \/ Look(l) \/ Write(l)
SenderTask == LockRing \/ ReadRing \/ QueueWork \/ LoseBatch
ServerTask == SendFrame \/ \E b \in Browsers : CloseViewer(b) \/ AddClient(b)

LogNext == (\E l \in LogTasks : AppendLine(l)) \/ SenderTask \/ ServerTask

LogSpec == LogInit /\ [][LogNext]_webLogVars

LogTypeOK ==
  /\ Len(ring) <= RingSize /\ Len(frame) <= FrameMax
  /\ dropped \in Nat
  /\ clients \subseteq Browsers /\ Cardinality(clients) <= MaxClients

-----------------------------------------------------------------------------
(* The lines some text accounts for: the i-th piece of it, where it ends,    *)
(* for itself or, if it is a marker, for as many as it says.                 *)
Worth(cell) == IF cell.kind = "line" THEN 1 ELSE cell.number
Accounted(cells) == UNION {{<<i, n>> : n \in 1 .. Worth(cells[i])} : i \in Ends(cells)}
LinesIn(cells) == Cardinality(Accounted(cells))

(* What viewers have been sent since the reset, with what is on its way.     *)
Feed == sent \o (IF old THEN <<>> ELSE frame) \o ring

InHand == {l \in LogTasks : hook[l].at = "looked"}

(* web_log_append(), drain_ring_to_clients(): a viewer that adds up lines    *)
(* and markers is at every line where the log is, until a batch is lost; the *)
(* sum is still right then, unless that batch held a marker.                 *)
GapsMarked ==
  /\ LogTypeOK
  /\ ~ lost =>
       \A i \in DOMAIN Feed :
         Feed[i].kind = "line" => LinesIn(SubSeq(Feed, 1, i - 1)) = Feed[i].number - 1
  /\ ~ unsure /\ InHand = {} => LinesIn(Feed) + dropped = numbered
=============================================================================
