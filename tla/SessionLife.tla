------------------------------ MODULE SessionLife ------------------------------
(***************************************************************************)
(* One interview from its Join button to the agent's last step: the browser *)
(* (SessionRoom), the agent's worker (AgentWorker), the session's row at    *)
(* the API and the LiveKit server between them.                             *)
(*                                                                          *)
(* The API's part is what ControlPlane shows of it: a token or a problem is *)
(* read from the row as it is then, and an end is for good.                 *)
(***************************************************************************)
EXTENDS SessionRoom, AgentWorker

VARIABLES
  session,    \* the row's status
  inFlight,   \* POST /end requests on their way
  missed      \* history: an event of the room came before the worker's handlers

life == <<session, inFlight, missed>>
vars == <<browser, agent, life>>

Present == \E j \in Joins : link[j] = "up"

Init ==
  /\ BrowserInit /\ AgentInit
  /\ session = "active" /\ inFlight = FALSE
  /\ missed = FALSE

(* A step of the browser, with what the server tells the agent of it.       *)
Tells ==
  news' = IF connected /\ Present /\ ~(\E j \in Joins : link'[j] = "up") THEN news + 1 ELSE news

Alone(A) == A /\ Tells /\ UNCHANGED <<worker, brainEnabled, fetches, card, roomClosed, connected>>

-----------------------------------------------------------------------------
(* mint_token refuses a session that is not active.                         *)
Fetches(j) ==
  \E ok \in BOOLEAN :
    /\ ok => session = "active"
    /\ TokenFetched(j, ok)

JoinSteps(j) ==
  Fetches(j) \/ Connected(j) \/ ConnectFails(j) \/ AudioStarted(j)

BrowserStep ==
  /\ \/ \E j \in Joins :
          Join(j) \/ JoinSteps(j) \/ MicOn(j) \/ MicFails(j) \/ Drops(j)
     \/ Leave \/ Unmount \/ AuthChanges
  /\ UNCHANGED life

TabCloses ==
  /\ Unload /\ inFlight' = (ended' /\ ~ended)
  /\ UNCHANGED <<session, missed>>

(* The keepalive request arrives, or is lost with the tab.                  *)
EndArrives ==
  /\ inFlight /\ inFlight' = FALSE
  /\ session' \in {session, "ended"}
  /\ UNCHANGED <<browser, agent, missed>>

-----------------------------------------------------------------------------
(* The first participant makes the room, and with it the worker's job.      *)
WorkerDispatched == Present /\ Dispatch /\ UNCHANGED <<browser, life>>

Missing == missed' = (missed \/ ~Registered)

WorkerStep ==
  /\ \/ Connect \/ NoBrain \/ Starts \/ RoomClosed
     \/ Bootstrapped(session) \/ FetchFails \/ FetchRefused
  /\ UNCHANGED <<browser, life>>

WorkerHears ==
  /\ ParticipantLeft /\ Missing
  /\ UNCHANGED <<browser, session, inFlight>>

(* The server closes a room the candidate has left (empty_timeout); the     *)
(* agent's connection may also fail.                                        *)
RoomCloses ==
  /\ ~Present /\ Disconnected /\ Missing
  /\ UNCHANGED <<browser, session, inFlight>>

AgentDrops ==
  /\ Present /\ Disconnected /\ Missing
  /\ UNCHANGED <<browser, session, inFlight>>

-----------------------------------------------------------------------------
Next ==
  \/ Alone(BrowserStep) \/ Alone(TabCloses)
  \/ EndArrives
  \/ WorkerDispatched \/ WorkerStep \/ WorkerHears \/ RoomCloses \/ AgentDrops

Spec == Init /\ [][Next]_vars

(* The token request is aborted after 10 s and the SDK's calls time out; a  *)
(* disconnect() completes; the worker's awaits do, each fetch within its    *)
(* timeout; LiveKit delivers its events and closes an empty room.  Nobody   *)
(* has to click, to answer the microphone prompt or to leave.               *)
FairSpec ==
  /\ Spec
  /\ \A j \in Joins : WF_vars(Alone(JoinSteps(j) /\ UNCHANGED life))
  /\ WF_vars(WorkerDispatched) /\ WF_vars(WorkerStep) /\ WF_vars(WorkerHears)
  /\ WF_vars(RoomCloses) /\ WF_vars(EndArrives)
-----------------------------------------------------------------------------
(* PROPERTIES                                                               *)

(* session-room.tsx:271-274, :321-326: whatever ends a join or a session,   *)
(* the Join button the candidate then sees is not dead.                     *)
JoinButtonWorks == page = "mounted" /\ ~joined /\ ~joining => ~guard

(* session-room.tsx:285-293, :389-391: no room stays connected, with the    *)
(* candidate's microphone, that the component does not hold.                *)
NoRoomLeaks == \A j \in Joins : link[j] = "up" => page = "mounted" /\ room = j

(* session-room.tsx:270-281, :409-416, session-shell.tsx:14-19: while the   *)
(* page shows a session as joined the canvas publishes over its room, and   *)
(* over no other.                                                           *)
CanvasHasTheRoom ==
  /\ joined => room # None /\ parent = room
  /\ parent # None => joined /\ parent = room

(* session-room.tsx:319-326: a join ends, unless the browser is asking for  *)
(* the microphone.                                                          *)
JoinSettles ==
  joining ~> ~joining \/ page # "mounted" \/ \E j \in Joins : stage[j] = "asking"

(* main.py:1309-1316: once the candidate is gone for good the worker ends,  *)
(* unless an event of the room came before the handlers that wait for it.   *)
WorkerIsDone == worker \in {"none", "aborted", "over"}
WorkerEnds == <>[](~Present) => <>[](WorkerIsDone \/ missed)
=============================================================================
