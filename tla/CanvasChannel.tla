---------------------------- MODULE CanvasChannel ----------------------------
(***************************************************************************)
(* The canvas on its way to the brain: the browser's publisher, LiveKit's   *)
(* text streams and the agent's on_canvas_scene_payload (main.py:800), one  *)
(* task per message, up to the scene in the stored session state.  What the *)
(* task then asks of the router and the ledger is EventRouter's subject,    *)
(* and the transactions under apply() are SessionStore's.                   *)
(*                                                                          *)
(* A message whose send has settled may arrive late or never, and the       *)
(* agent's tasks may run in any order.  A message is passed when one that   *)
(* was sent later has been dealt with before it.                            *)
(***************************************************************************)
EXTENDS CanvasPublisher

CONSTANTS
  Window,           \* CANVAS_RATE_LIMIT_WINDOW_S, in ticks
  Limit,            \* CANVAS_RATE_LIMIT_EVENTS
  MaxMail           \* bound on the messages the agent has not dealt with

ASSUME LimitAssumption == Window \in Nat \ {0} /\ Limit \in Nat \ {0} /\ MaxMail \in Nat \ {0}

VARIABLES
  mail,             \* [scene, applying, passed]: sent and not dealt with, in the order sent
  listening,        \* the agent has registered its handler
  history,          \* _canvas_event_history, as ages in ticks
  canvasState,      \* canvas_state of the stored session state
  behind            \* history: why canvasState is not the last message, if it is not

mentor == <<mail, listening, history, canvasState, behind>>
vars == <<tab, mentor>>

Init ==
  /\ PublisherInit
  /\ mail = <<>> /\ listening = FALSE /\ history = <<>>
  /\ canvasState = None /\ behind = "no"

-----------------------------------------------------------------------------
Draws ==
  /\ \E s \in Scenes : OnChange(s)
  /\ UNCHANGED mentor

Touches == OnChange(drawn) /\ UNCHANGED mentor

Browser ==
  /\ TimerFires \/ Hides \/ Leaves \/ Reconnects \/ \E i \in DOMAIN sending : SendFails(i)
  /\ UNCHANGED mentor

Sent ==
  /\ Len(mail) < MaxMail
  /\ \E i \in DOMAIN sending :
       /\ SendSettles(i)
       /\ mail' = Append(mail, [scene |-> sending[i], applying |-> FALSE, passed |-> FALSE])
  /\ UNCHANGED <<listening, history, canvasState, behind>>

Tick ==
  /\ SecondPasses
  /\ history' = [i \in DOMAIN history |-> IF history[i] < Window THEN history[i] + 1 ELSE Window]
  /\ UNCHANGED <<drawn, room, lastFingerprint, pendingScene, sending>>
  /\ UNCHANGED <<mail, listening, canvasState, behind>>

-----------------------------------------------------------------------------
(* The worker has joined the room, fetched its problem and built its brain; *)
(* the browser has been publishing since it connected.                      *)
Registers ==
  /\ ~listening /\ listening' = TRUE
  /\ UNCHANGED <<tab, mail, history, canvasState, behind>>

(* Those sent before the i-th are passed.                                   *)
Passed(i) == [k \in DOMAIN mail |-> IF k < i THEN [mail[k] EXCEPT !.passed = TRUE] ELSE mail[k]]
DealtWith(i) == mail' = RemoveAt(Passed(i), i)

Drops(i, why) ==
  /\ DealtWith(i) /\ behind' = IF mail[i].passed THEN behind ELSE why
  /\ UNCHANGED <<tab, listening, canvasState>>

(* No agent in the room, or no handler for the topic: dropped by the SDK.   *)
Unheard(i) == ~listening /\ Drops(i, "lost") /\ UNCHANGED history

(* read_all() raises: the stream broke off, or the connection is lost.      *)
ReadFails(i) == listening /\ ~mail[i].applying /\ Drops(i, "lost") /\ UNCHANGED history

Recent == SelectSeq(history, LAMBDA age : age < Window)

(* _allow_canvas_event                                                      *)
Allows == listening /\ Len(Recent) < Limit /\ history' = Append(Recent, 0)

TurnsAway(i) ==
  /\ listening /\ ~mail[i].applying
  /\ Len(Recent) >= Limit /\ history' = Recent
  /\ Drops(i, "limited")

(* The task's first step, up to its store.apply().                          *)
Handles(i) ==
  /\ ~mail[i].applying /\ Allows
  /\ mail' = [mail EXCEPT ![i].applying = TRUE]
  /\ UNCHANGED <<tab, listening, canvasState, behind>>

(* A message that is no scene: dropped by the parser, after the limit.      *)
OtherSends ==
  /\ room # "left" /\ Allows
  /\ UNCHANGED <<tab, mail, listening, canvasState, behind>>

(* _apply_canvas_state: the task of one message may overtake another's.     *)
Applies(i) ==
  /\ mail[i].applying /\ DealtWith(i)
  /\ canvasState' = mail[i].scene
  /\ behind' = IF mail[i].passed THEN "reordered" ELSE "no"
  /\ UNCHANGED <<tab, listening, history>>

(* No baseline state, or its transactions run out.                          *)
ApplyFails(i) == mail[i].applying /\ Drops(i, "unapplied") /\ UNCHANGED history

Deals(i) ==
  Unheard(i) \/ ReadFails(i) \/ TurnsAway(i) \/ Handles(i) \/ Applies(i) \/ ApplyFails(i)

-----------------------------------------------------------------------------
Next ==
  \/ Draws \/ Browser \/ Sent \/ Tick
  \/ Registers \/ OtherSends \/ \E i \in DOMAIN mail : Deals(i)

Spec == Init /\ [][Next]_vars

(* Time passes, timers fire, streams end, messages arrive or are lost,      *)
(* tasks run, and Excalidraw calls onChange again and again, as it does     *)
(* while the candidate uses it.                                             *)
FairSpec ==
  /\ Spec
  /\ WF_vars(Tick) /\ WF_vars(Touches) /\ WF_vars(TimerFires /\ UNCHANGED mentor)
  /\ WF_vars(Sent) /\ WF_vars(Registers) /\ WF_vars(\E i \in DOMAIN mail : Deals(i))
-----------------------------------------------------------------------------
(* PROPERTIES                                                               *)

(* canvas-scene-publisher.ts:75-92: a scene is not left pending: a timer    *)
(* publishes it, however onChange, the flush of a hidden tab and the last   *)
(* timer interleave.                                                        *)
PendingHasTimer == pendingScene # None => timer # "none"

(* canvas-scene-publisher.ts:42,110 with main.py:880: a scene the browser    *)
(* does not send again, since its fingerprint was the last one committed,   *)
(* is the canvas the brain is shown once no message is under way; unless    *)
(* the last message was lost, turned away, could not be stored, or was      *)
(* overtaken.                                                               *)
SkippedIsStored == mail = <<>> /\ behind = "no" => canvasState = lastFingerprint

(* The two together, canvas-scene-publisher.ts:30-118: what is drawn is     *)
(* waiting to be sent, on its way, with the brain, or lost on its way; the  *)
(* browser strands no scene.                                                *)
NothingStranded == PendingHasTimer /\ SkippedIsStored

(* canvas-scene-publisher.ts:106-114 with main.py:880: once the candidate   *)
(* has stopped drawing and the connection holds, the stored canvas comes to *)
(* be what is drawn, after any number of failed, repeated and overlapping   *)
(* sends; unless the last message was lost, turned away, could not be       *)
(* stored, or was overtaken.                                                *)
MentorCatchesUp ==
  <>[](room = "up") /\ <>[][UNCHANGED drawn]_vars
    => <>[](canvasState = drawn \/ behind # "no")

(* docs/plans/2026-04-25-001-feat-m3-canvas-and-session-lifecycle-plan.md:55, *)
(* "Reliable delivery; chunked transparently by LiveKit text streams": when  *)
(* nothing is waiting, being sent or on its way, what the browser committed  *)
(* as published is what the agent has.                                       *)
PublishedIsDelivered ==
  pendingScene = None /\ sending = <<>> /\ mail = <<>> => canvasState = lastFingerprint

(* canvas-scene-publisher.ts:36: "All work is synchronous so there are no   *)
(* async-overlap races."  A new drawing is skipped as the one sent last only *)
(* when no other send is still to settle.                                    *)
SkipsMeetNoSend ==
  [][drawn' # drawn /\ room # "left" /\ UNCHANGED publisher => sending = <<>>]_vars
=============================================================================
