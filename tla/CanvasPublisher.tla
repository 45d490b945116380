---------------------------- MODULE CanvasPublisher ----------------------------
(***************************************************************************)
(* The browser's CanvasScenePublisher (canvas-scene-publisher.ts) and the   *)
(* effects of excalidraw-canvas.tsx that drive it, for the one room a       *)
(* session is drawn in.  A scene stands for itself and for its fingerprint. *)
(*                                                                          *)
(* A tick is THROTTLE_MS.  The sends of a publisher overlap, and end in any *)
(* order.  sendText() resolves in the turn of the event loop that hands the *)
(* stream's last packet to the data channel: the fingerprint is committed   *)
(* before the message can be anywhere else, and whether or not it arrives.  *)
(***************************************************************************)
EXTENDS SequencesExt, Naturals

CONSTANTS
  Scenes,           \* what can be drawn
  None,
  MaxSends          \* bound on the sends in flight

ASSUME ScenesAssumption == None \notin Scenes
ASSUME SendsAssumption == MaxSends \in Nat \ {0}

VARIABLES
  drawn,            \* Excalidraw's elements
  room,             \* "up", "reconnecting" or "left"
  lastFingerprint,
  pendingScene,
  timer,            \* throttleTimer: "none", "set" or, when its time has come, "due"
  throttled,        \* less than a second has passed since lastPublishMs
  sending           \* the scenes whose sendText() has not settled

publisher == <<lastFingerprint, pendingScene, timer, throttled, sending>>
tab == <<drawn, room, publisher>>

PublisherInit ==
  /\ drawn \in Scenes /\ room = "up"
  /\ lastFingerprint = None /\ pendingScene = None
  /\ timer = "none" /\ throttled = FALSE
  /\ sending = <<>>

PublishPending(scene) ==
  /\ pendingScene' = None
  /\ IF scene = None THEN UNCHANGED sending
     ELSE Len(sending) < MaxSends /\ sending' = Append(sending, scene)

(* Leading edge, or the trailing edge's timer.                              *)
ScheduleFlush_NoTimer(scene) ==
  IF ~throttled
  THEN PublishPending(scene) /\ throttled' = TRUE /\ UNCHANGED timer
  ELSE pendingScene' = scene /\ UNCHANGED <<timer, throttled, sending>>
ScheduleFlush(scene) ==
  IF ~throttled
  THEN PublishPending(scene) /\ throttled' = TRUE /\ UNCHANGED timer
  ELSE /\ pendingScene' = scene
       /\ timer' = IF timer = "none" THEN "set" ELSE timer
       /\ UNCHANGED <<throttled, sending>>

OnSceneChange(scene) ==
  IF scene = lastFingerprint THEN UNCHANGED publisher
  ELSE ScheduleFlush(scene) /\ UNCHANGED lastFingerprint

(* Excalidraw's onChange also runs when nothing but its own state changed.  *)
(* The publisher is gone with the room.                                     *)
OnChange(scene) ==
  /\ drawn' = scene /\ UNCHANGED room
  /\ IF room = "left" THEN UNCHANGED publisher ELSE OnSceneChange(scene)

TimerFires ==
  /\ timer = "due" /\ timer' = "none"
  /\ throttled' = TRUE
  /\ PublishPending(pendingScene)
  /\ UNCHANGED <<drawn, room, lastFingerprint>>

FlushNow == timer' = "none" /\ PublishPending(pendingScene)

(* visibilitychange to hidden                                               *)
Hides ==
  /\ room # "left" /\ FlushNow
  /\ UNCHANGED <<drawn, room, lastFingerprint, throttled>>

(* leave(), or the page is left: dispose().                                 *)
Leaves ==
  /\ room # "left" /\ room' = "left"
  /\ FlushNow
  /\ UNCHANGED <<drawn, lastFingerprint, throttled>>

SecondPasses ==
  /\ throttled' = FALSE
  /\ timer' = IF timer = "set" THEN "due" ELSE timer

-----------------------------------------------------------------------------
(* What follows the await in publishPending, for the i-th send: its last    *)
(* packet is on its way.  It may still be in a room that is being left.     *)
SendSettles(i) ==
  /\ room # "reconnecting"
  /\ lastFingerprint' = sending[i]
  /\ sending' = RemoveAt(sending, i)
  /\ UNCHANGED <<drawn, room, pendingScene, timer, throttled>>

(* The stream was not completed: the agent has nothing of it.               *)
SendFails_Commits(i) ==
  /\ room # "up"
  /\ sending' = RemoveAt(sending, i)
  /\ lastFingerprint' = sending[i]
  /\ UNCHANGED <<drawn, room, pendingScene, timer, throttled>>
SendFails(i) ==
  /\ room # "up"
  /\ sending' = RemoveAt(sending, i)
  /\ UNCHANGED <<drawn, room, lastFingerprint, pendingScene, timer, throttled>>

(* The SDK loses the connection and gets it back.                           *)
Reconnects ==
  /\ room' = CASE room = "up" -> "reconnecting"
               [] room = "reconnecting" -> "up"
               [] OTHER -> "left"
  /\ UNCHANGED <<drawn, publisher>>
=============================================================================
