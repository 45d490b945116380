------------------------------- MODULE Coalescer -------------------------------
(***************************************************************************)
(* events/coalescer.py: a batch of events is merged into the one event the  *)
(* brain is asked about.  An event has a type, a stamp and, if it is a      *)
(* TURN_END, a text; priorities are the ones default_priority() gives.      *)
(***************************************************************************)
EXTENDS SequencesExt, FiniteSetsExt, Naturals

EventType == {"turn_end", "long_silence", "canvas_change", "phase_timer"}

PriorityRank == [low |-> 0, medium |-> 1, high |-> 2]

DefaultPriority(type) ==
  CASE type = "canvas_change" -> "high"
    [] type = "phase_timer" -> "low"
    [] OTHER -> "medium"

Rank(e) == PriorityRank[DefaultPriority(e.type)]

(* Of those at the given places with the latest stamp, the first.           *)
Latest(events, places) ==
  CHOOSE i \in places :
    \A j \in places : events[j].t <= events[i].t /\ (j < i => events[j].t < events[i].t)

(* The texts of the turns among the events, in order.                       *)
Transcripts(events) ==
  LET collected[n \in 0 .. Len(events)] ==
        IF n = 0 THEN <<>>
        ELSE IF events[n].type = "turn_end" THEN Append(collected[n - 1], events[n].text)
        ELSE collected[n - 1]
  IN  collected[Len(events)]

High(events) == {i \in DOMAIN events : Rank(events[i]) = 2}

Coalesce_CanvasOnly(events) ==
  LET high == High(events)
  IN  [type |-> IF high # {} THEN "canvas_change" ELSE events[1].type,
       t |-> Max({events[i].t : i \in DOMAIN events}),
       transcripts |-> IF high # {} THEN <<>> ELSE Transcripts(events)]
Coalesce(events) ==
  LET high == High(events)
      turns == Transcripts(events)
  IN  [type |-> IF high # {} THEN events[Latest(events, high)].type
                ELSE IF turns # <<>> THEN "turn_end"
                ELSE events[Latest(events, DOMAIN events)].type,
       t |-> Max({events[i].t : i \in DOMAIN events}),
       transcripts |-> turns]
=============================================================================
