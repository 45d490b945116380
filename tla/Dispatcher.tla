------------------------------ MODULE Dispatcher ------------------------------
(***************************************************************************)
(* What the event router promises its callers (events/router.py:3-31): a    *)
(* server that takes everything queued as one batch, works on one batch at  *)
(* a time, settles a batch as a whole and gives an interrupted one back in  *)
(* front of what arrived meanwhile.  EventRouter implements it.             *)
(***************************************************************************)
EXTENDS Sequences

CONSTANT Event          \* the events that may be handed in

VARIABLES
  queued,               \* accepted and waiting, oldest first
  running,              \* the batch being worked on, or <<>>
  settled               \* the events whose batch is over, or that were discarded

dispatcherVars == <<queued, running, settled>>

Members(s) == {s[i] : i \in DOMAIN s}

Init == queued = <<>> /\ running = <<>> /\ settled = {}

Enqueue(e) == queued' = Append(queued, e) /\ UNCHANGED <<running, settled>>

Accept(e) == e \notin Members(queued) \cup Members(running) \cup settled /\ Enqueue(e)

Begin ==
  /\ running = <<>> /\ queued # <<>>
  /\ running' = queued
  /\ queued' = <<>>
  /\ UNCHANGED settled

(* A batch is over; the next one, if there is one, starts at once.          *)
Finish ==
  /\ running # <<>>
  /\ settled' = settled \cup Members(running)
  /\ running' = queued
  /\ queued' = <<>>

PutBack ==
  /\ running # <<>>
  /\ queued' = running \o queued
  /\ running' = <<>>
  /\ UNCHANGED settled

Discard ==
  /\ settled' = settled \cup Members(queued)
  /\ queued' = <<>>
  /\ UNCHANGED running

Next ==
  \/ \E e \in Event : Accept(e)
  \/ Begin \/ Finish \/ PutBack \/ Discard

Spec == Init /\ [][Next]_dispatcherVars
==============================================================================
