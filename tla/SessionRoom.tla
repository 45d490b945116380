------------------------------ MODULE SessionRoom ------------------------------
(***************************************************************************)
(* The browser's side of a session (components/livekit/session-room.tsx):   *)
(* join() with its four awaits, leave(), the room's Disconnected event, the *)
(* unmount and the tab's beforeunload, over the component's refs and state. *)
(* Each join makes a Room of its own; the livekit-client SDK is external.   *)
(***************************************************************************)
EXTENDS Naturals

CONSTANTS MaxJoins, None

ASSUME JoinsAssumption == MaxJoins \in Nat \ {0} /\ None \notin Nat

VARIABLES
  page,       \* "mounted", "unmounted" or "closed"
  room,       \* roomRef
  guard,      \* joiningRef
  joined, joining,
  parent,     \* liveRoom, which SessionShell hands to the canvas
  stage,      \* the await each join() is in
  link,       \* the SDK's connection of each Room
  token,      \* tokenRef has an access token
  ended       \* the browser has sent POST /end

refs == <<room, guard, joined, joining, parent>>
browser == <<page, refs, stage, link, token, ended>>

Joins == 1 .. MaxJoins
Awaiting == {"fetching", "connecting", "starting", "asking"}

BrowserInit ==
  /\ page = "mounted" /\ room = None /\ parent = None
  /\ guard = FALSE /\ joined = FALSE /\ joining = FALSE
  /\ stage = [j \in Joins |-> "unused"]
  /\ link = [j \in Joins |-> "none"]
  /\ token = FALSE /\ ended = FALSE

Enter(j, s) == stage' = [stage EXCEPT ![j] = s]

(* Room.disconnect(): its events come later.                                *)
Disconnects(r) ==
  link' = [j \in Joins |-> IF j = r /\ link[j] = "up" THEN "leaving" ELSE link[j]]

ResetJoinedState_KeepsGuard == joined' = FALSE /\ guard' = guard
ResetJoinedState == joined' = FALSE /\ guard' = FALSE
PublishRoomToParent(r) == parent' = r

-----------------------------------------------------------------------------
(* join()                                                                   *)

(* The button is there while not joined, and disabled while joining.        *)
Join(j) ==
  /\ page = "mounted" /\ ~joined /\ ~joining /\ ~guard
  /\ stage[j] = "unused" /\ \A i \in 1 .. j - 1 : stage[i] # "unused"
  /\ guard' = TRUE /\ joining' = TRUE
  /\ room' = j
  /\ Enter(j, "fetching")
  /\ UNCHANGED <<page, joined, parent, link, token, ended>>

(* `finally`: a join that leaves a room in roomRef keeps the guard.         *)
Finally_NoReset(j) == Enter(j, "over") /\ joining' = joining /\ guard' = (guard /\ room' # None)
Finally(j) == Enter(j, "over") /\ joining' = FALSE /\ guard' = (guard /\ room' # None)

Throws(j) ==
  /\ Disconnects(room) /\ room' = None
  /\ PublishRoomToParent(None)
  /\ Finally(j)
  /\ UNCHANGED <<page, joined, token, ended>>

StillMounted_Unchecked == TRUE
StillMounted == page = "mounted"

(* fetchLiveKitToken: ok unless the user is signed out, the request fails   *)
(* or takes 10 s, or the API refuses.                                       *)
TokenFetched(j, ok) ==
  /\ stage[j] = "fetching"
  /\ \/ ~ok /\ Throws(j)
     \/ ok /\ StillMounted /\ Enter(j, "connecting") /\ UNCHANGED <<page, refs, link, token, ended>>
     \/ ok /\ ~StillMounted /\ UNCHANGED <<page, room, joined, parent, link, token, ended>>
        /\ Finally(j)

(* room.connect() may still resolve when the page has gone.                 *)
Connected(j) ==
  /\ stage[j] = "connecting"
  /\ \/ StillMounted /\ link' = [link EXCEPT ![j] = "up"] /\ Enter(j, "starting")
        /\ UNCHANGED <<page, refs, token, ended>>
     \/ ~StillMounted /\ link' = [link EXCEPT ![j] = "leaving"]
        /\ UNCHANGED <<page, room, joined, parent, token, ended>>
        /\ Finally(j)

ConnectFails(j) == stage[j] = "connecting" /\ Throws(j)

AudioStarted(j) ==
  /\ stage[j] = "starting" /\ Enter(j, "asking")
  /\ UNCHANGED <<page, refs, link, token, ended>>

(* setMicrophoneEnabled publishes a track: only a room that is up lets it.  *)
MicOn(j) ==
  /\ stage[j] = "asking" /\ link[j] = "up"
  /\ joined' = TRUE
  /\ PublishRoomToParent(j)
  /\ UNCHANGED <<page, room, link, token, ended>>
  /\ Finally(j)

(* Permission denied, no device, or the room is gone.                       *)
MicFails(j) == stage[j] = "asking" /\ Throws(j)

-----------------------------------------------------------------------------
(* The Disconnected handler, gone with the component.                       *)
OnDisconnected(j) ==
  IF page = "mounted" /\ room = j
  THEN room' = None /\ PublishRoomToParent(None) /\ ResetJoinedState /\ UNCHANGED joining
  ELSE UNCHANGED refs

(* A network drop or the server's doing, or the end of a disconnect().      *)
Drops(j) ==
  /\ link[j] \in {"up", "leaving"}
  /\ link' = [link EXCEPT ![j] = "down"]
  /\ OnDisconnected(j)
  /\ UNCHANGED <<page, stage, token, ended>>

(* The "End session" button.                                                *)
Leave_KeepsParent ==
  /\ page = "mounted" /\ joined
  /\ Disconnects(room) /\ room' = None /\ UNCHANGED parent
  /\ ResetJoinedState
  /\ UNCHANGED <<page, joining, stage, token, ended>>
Leave ==
  /\ page = "mounted" /\ joined
  /\ Disconnects(room) /\ room' = None
  /\ PublishRoomToParent(None)
  /\ ResetJoinedState
  /\ UNCHANGED <<page, joining, stage, token, ended>>

(* The page is left within the application: the component's state is gone,  *)
(* its refs are what a join() under way still sees.                         *)
Unmount ==
  /\ page = "mounted" /\ page' = "unmounted"
  /\ Disconnects(room) /\ room' = None
  /\ PublishRoomToParent(None)
  /\ joined' = FALSE
  /\ UNCHANGED <<guard, joining, stage, token, ended>>

(* The tab is closed or reloaded: the beforeunload handler sends the        *)
(* keepalive request, and every script stops.                               *)
EndSessionKeepalive == ended' = (ended \/ (joined /\ token))

Unload ==
  /\ page # "closed" /\ page' = "closed"
  /\ EndSessionKeepalive
  /\ room' = None /\ parent' = None /\ joined' = FALSE
  /\ stage' = [j \in Joins |-> "over"]
  /\ link' = [j \in Joins |-> IF link[j] = "none" THEN "none" ELSE "down"]
  /\ UNCHANGED <<guard, joining, token>>

(* AuthProvider: the first session, sign-in, refresh and sign-out.          *)
AuthChanges ==
  /\ page # "closed" /\ token' = ~token
  /\ UNCHANGED <<page, refs, stage, link, ended>>
=============================================================================
