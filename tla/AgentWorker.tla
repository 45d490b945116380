------------------------------ MODULE AgentWorker ------------------------------
(***************************************************************************)
(* The agent's entrypoint (main.py:1168-1365), one per LiveKit room: it     *)
(* connects, fetches the problem, aborts if the session is not active,      *)
(* registers for the room's events, runs until room_closed is set and then  *)
(* tears the session down.  What the voice loop does meanwhile is the       *)
(* subject of VoiceLoop, and the teardown that of EventRouter.              *)
(***************************************************************************)
EXTENDS Naturals

CONSTANT MaxFetches     \* max_retries + 1 of fetch_session_bootstrap

ASSUME FetchesAssumption == MaxFetches \in Nat \ {0}

VARIABLES
  worker,         \* how far the entrypoint is
  brainEnabled,   \* of its settings
  fetches,        \* failed attempts at the bootstrap route
  card,           \* "none", the session's "problem", or the "dev" card
  roomClosed,     \* the asyncio.Event
  connected,      \* its own connection to the room is up
  news            \* participant_disconnected events on their way to it

agent == <<worker, brainEnabled, fetches, card, roomClosed, connected, news>>

AgentInit ==
  /\ worker = "none" /\ brainEnabled \in BOOLEAN
  /\ fetches = 0 /\ card = "none"
  /\ roomClosed = FALSE /\ connected = FALSE /\ news = 0

Become(w) == worker' = w

(* LiveKit dispatches a worker when the room is made.                       *)
Dispatch ==
  /\ worker = "none" /\ Become("connecting")
  /\ UNCHANGED <<brainEnabled, fetches, card, roomClosed, connected, news>>

Connect ==
  /\ worker = "connecting" /\ Become("fetching")
  /\ connected' = TRUE
  /\ UNCHANGED <<brainEnabled, fetches, card, roomClosed, news>>

(* _fetch_bootstrap_problem.  The mentor is built and the handlers are      *)
(* registered in the step that ends the fetch.                              *)
Proceeds(c) ==
  /\ Become("starting") /\ card' = c
  /\ UNCHANGED <<brainEnabled, roomClosed, connected, news>>

NoBrain ==
  /\ worker = "fetching" /\ ~brainEnabled
  /\ Proceeds("dev") /\ UNCHANGED fetches

Fetching == worker = "fetching" /\ brainEnabled

IsActive(status) == status = "active"

Bootstrapped(status) ==
  /\ Fetching /\ UNCHANGED fetches
  /\ IF IsActive(status) THEN Proceeds("problem")
     ELSE /\ Become("aborted")
          /\ UNCHANGED <<brainEnabled, card, roomClosed, connected, news>>

(* 5xx or a transport error; the last one falls back to the dev card.       *)
FetchFails ==
  /\ Fetching /\ fetches' = fetches + 1
  /\ IF fetches' = MaxFetches THEN Proceeds("dev")
     ELSE UNCHANGED <<worker, brainEnabled, card, roomClosed, connected, news>>

(* 4xx: no retry.                                                           *)
FetchRefused == Fetching /\ UNCHANGED fetches /\ Proceeds("dev")

(* session.start()                                                          *)
Starts ==
  /\ worker = "starting" /\ Become("running")
  /\ UNCHANGED <<brainEnabled, fetches, card, roomClosed, connected, news>>

RoomClosed ==
  /\ worker = "running" /\ roomClosed /\ Become("over")
  /\ UNCHANGED <<brainEnabled, fetches, card, roomClosed, connected, news>>

Registered == worker \in {"starting", "running"}

(* An event finds a handler or is lost.                                     *)
MarkClosed_Never == UNCHANGED roomClosed
MarkClosed == roomClosed' = (roomClosed \/ Registered)

(* remote_participants when the event of p is emitted.  The candidate's     *)
(* identity is the user's id (livekit_tokens.py:87), so that a room has one *)
(* remote participant, and the SDK has taken p out by then.                 *)
RemoteParticipants(p) == {"candidate"} \ {p}

OnParticipantLeft(p) ==
  roomClosed' = (roomClosed \/ (Registered /\ RemoteParticipants(p) = {}))

ParticipantLeft ==
  /\ news > 0 /\ connected /\ news' = news - 1
  /\ OnParticipantLeft("candidate")
  /\ UNCHANGED <<worker, brainEnabled, fetches, card, connected>>

Disconnected ==
  /\ connected /\ connected' = FALSE /\ news' = 0
  /\ MarkClosed
  /\ UNCHANGED <<worker, brainEnabled, fetches, card>>

WorkerSteps ==
  Connect \/ NoBrain \/ Starts \/ RoomClosed \/ ParticipantLeft
=============================================================================
