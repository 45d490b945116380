----------------------------- MODULE ControlPlane -----------------------------
(***************************************************************************)
(* The API's session routes (routes/sessions.py, routes/livekit_tokens.py)  *)
(* over Postgres.  A call is one HTTP request; its handler runs in a thread *)
(* of its own, so handlers interleave between their database statements.    *)
(* SELECT ... FOR UPDATE takes the session's row lock, held until commit or *)
(* rollback; a plain SELECT does not wait for it, DELETE does.              *)
(*                                                                          *)
(* Anybody may make any call here.  IngestDelivery adds the agent's clients.*)
(***************************************************************************)
EXTENDS Naturals, FiniteSets

CONSTANTS
  Sessions,   \* ids of session rows, each for one POST /sessions
  Users,
  Agent,      \* who presents the ingest token,
  Impostor,   \* a wrong one,
  Nobody,     \* or no credentials
  Calls,
  None

ASSUME CallersAssumption ==
  /\ None \notin Calls
  /\ {Agent, Impostor, Nobody} \cap Users = {}

VARIABLES
  status,     \* of each session's row; "none" before it is inserted
  owner,
  rows,       \* the calls whose event or snapshot row is stored
  lock,       \* the call that has the row's lock, or None
  at,         \* where each call's handler is
  asked,      \* its request
  reply,      \* its status code, 0 until it is sent,
  view        \* and the session status it shows

tables == <<status, owner, rows, lock>>
vars == <<tables, at, asked, reply, view>>

Abstract == INSTANCE Ledger WITH Rows <- Calls

(* models/session.py; nothing writes "scheduled" or "errored".              *)
SessionStatus == {"none", "active", "ended", "deleted"}
(* models/session_event.py                                                  *)
SessionEventType ==
  {"utterance_candidate", "utterance_ai", "brain_decision", "canvas_change",
   "phase_transition", "rubric_update", "design_decision", "silence_check",
   "interruption", "error"}

UserRoutes == {"create", "list", "get", "end", "delete", "token"}
Ingest == {"event", "snapshot", "scene"}
Routes == UserRoutes \cup Ingest \cup {"bootstrap"}
Callers == Users \cup {Agent, Impostor, Nobody}

(* What the checks on a body tell apart: over the middleware's cap; over it *)
(* only as json.dumps writes it again; rejected by the body's model.        *)
Shapes == {"fits", "swells", "large", "malformed"}
Request == [route : Routes, session : Sessions, who : Callers, shape : Shapes]

Session(c) == asked[c].session
Route(c) == asked[c].route
-----------------------------------------------------------------------------
Init ==
  /\ status = [s \in Sessions |-> "none"]
  /\ owner = [s \in Sessions |-> None]
  /\ rows = [s \in Sessions |-> {}]
  /\ lock = [s \in Sessions |-> None]
  /\ at = [c \in Calls |-> "unused"]
  /\ asked = [c \in Calls |-> None]
  /\ reply = [c \in Calls |-> 0]
  /\ view = [c \in Calls |-> None]

Enter(c, stage) == at' = [at EXCEPT ![c] = stage]

Shows(c, code, shown) ==
  /\ Enter(c, "answered")
  /\ reply' = [reply EXCEPT ![c] = code]
  /\ view' = [view EXCEPT ![c] = shown]
Answers(c, code) == Shows(c, code, None)

Locks(c) == lock' = [lock EXCEPT ![Session(c)] = c]
Unlocks(c) == lock' = [s \in Sessions |-> IF lock[s] = c THEN None ELSE lock[s]]
Free(c) == lock[Session(c)] = None

(* The id a POST /sessions will give to its row is its own.                 *)
Send(c, r) ==
  /\ at[c] = "unused"
  /\ r.route = "create" =>
       \A d \in Calls : asked[d] # None => ~(Route(d) = "create" /\ Session(d) = r.session)
  /\ asked' = [asked EXCEPT ![c] = r]
  /\ Enter(c, "sent")
  /\ UNCHANGED <<tables, reply, view>>

-----------------------------------------------------------------------------
(* Before the handler: the body-size middleware, the credentials, the body. *)

OverCap(r) == r.route \in Ingest /\ r.shape = "large"

RequireUser(r) == IF r.who \in Users THEN 200 ELSE 401

RequireAgent(r) ==
  IF r.who = Agent THEN 200 ELSE IF r.who = Impostor THEN 403 ELSE 401

Gate(r) ==
  LET credentials == IF r.route \in UserRoutes THEN RequireUser(r) ELSE RequireAgent(r)
  IN  IF OverCap(r) THEN 413
      ELSE IF credentials # 200 THEN credentials
      ELSE IF r.shape = "malformed" THEN 422 ELSE 200

Turned(c) ==
  /\ at[c] = "sent" /\ Gate(asked[c]) # 200
  /\ Answers(c, Gate(asked[c]))
  /\ UNCHANGED <<tables, asked>>

Handles(c, routes) == at[c] = "sent" /\ Gate(asked[c]) = 200 /\ Route(c) \in routes

(* status[s] of a row there is.                                             *)
Exists(s) == status[s] \in {"active", "ended"}

-----------------------------------------------------------------------------
(* Handlers of one read                                                     *)

GetOwnedSession_AnyUser(s, u) == IF ~Exists(s) THEN 404 ELSE 200
GetOwnedSession(s, u) ==
  IF ~Exists(s) THEN 404 ELSE IF owner[s] # u THEN 403 ELSE 200

GetSession(c) ==
  /\ Handles(c, {"get"})
  /\ LET code == GetOwnedSession(Session(c), asked[c].who)
     IN  Shows(c, code, IF code = 200 THEN status[Session(c)] ELSE None)
  /\ UNCHANGED <<tables, asked>>

(* What it shows of the one session the request is about.                   *)
ListSessions(c) ==
  /\ Handles(c, {"list"})
  /\ Shows(c, 200,
           IF GetOwnedSession(Session(c), asked[c].who) = 200
           THEN status[Session(c)] ELSE None)
  /\ UNCHANGED <<tables, asked>>

(* Status-agnostic.                                                         *)
GetSessionBootstrap(c) ==
  /\ Handles(c, {"bootstrap"})
  /\ IF Exists(Session(c)) THEN Shows(c, 200, status[Session(c)]) ELSE Answers(c, 404)
  /\ UNCHANGED <<tables, asked>>

MintToken(c) ==
  /\ Handles(c, {"token"})
  /\ LET s == Session(c)
     IN  Answers(c, IF ~Exists(s) THEN 404
                    ELSE IF owner[s] # asked[c].who THEN 403
                    ELSE IF status[s] # "active" THEN 409 ELSE 201)
  /\ UNCHANGED <<tables, asked>>

-----------------------------------------------------------------------------
(* POST /sessions                                                           *)

CreateSession(c) ==
  /\ Handles(c, {"create"}) /\ status[Session(c)] = "none"
  /\ status' = [status EXCEPT ![Session(c)] = "active"]
  /\ owner' = [owner EXCEPT ![Session(c)] = asked[c].who]
  /\ Enter(c, "committed")
  /\ UNCHANGED <<rows, lock, asked, reply, view>>

-----------------------------------------------------------------------------
(* Ingest: the row's lock, the check, the row and the commit                *)

(* append_session_event measures the payload before it takes the lock,      *)
(* append_canvas_snapshot_endpoint after; a snapshot's is measured as the   *)
(* middleware measured it.                                                  *)
SwellsEarly(c) ==
  /\ Handles(c, {"event"}) /\ asked[c].shape = "swells"
  /\ Answers(c, 413)
  /\ UNCHANGED <<tables, asked>>

RequireActiveSession_NoLock(c) ==
  IF ~Exists(Session(c)) THEN Answers(c, 404) /\ UNCHANGED lock
  ELSE IF status[Session(c)] # "active" THEN Answers(c, 409) /\ UNCHANGED lock
  ELSE Enter(c, "locked") /\ UNCHANGED <<reply, view, lock>>
RequireActiveSession(c) ==
  /\ Free(c)
  /\ IF ~Exists(Session(c)) THEN Answers(c, 404) /\ UNCHANGED lock
     ELSE IF status[Session(c)] # "active" THEN Answers(c, 409) /\ UNCHANGED lock
     ELSE Enter(c, "locked") /\ Locks(c) /\ UNCHANGED <<reply, view>>

IngestLocks(c) ==
  /\ Handles(c, Ingest) /\ ~(Route(c) = "event" /\ asked[c].shape = "swells")
  /\ RequireActiveSession(c)
  /\ UNCHANGED <<status, owner, rows, asked>>

SwellsLate_Stored(c) ==
  /\ at[c] = "locked" /\ Route(c) = "scene" /\ asked[c].shape = "swells"
  /\ Answers(c, 413)
  /\ rows' = [rows EXCEPT ![Session(c)] = @ \cup {c}]
  /\ Unlocks(c)
  /\ UNCHANGED <<status, owner, asked>>
SwellsLate(c) ==
  /\ at[c] = "locked" /\ Route(c) = "scene" /\ asked[c].shape = "swells"
  /\ Answers(c, 413)
  /\ Unlocks(c)
  /\ UNCHANGED <<status, owner, rows, asked>>

(* The insert and its commit, of any of the three handlers.                 *)
Stores(c) ==
  /\ rows' = [rows EXCEPT ![Session(c)] = @ \cup {c}]
  /\ Unlocks(c)
  /\ Enter(c, "committed")
  /\ UNCHANGED <<status, owner, asked, reply, view>>

AppendSessionEvent(c) == at[c] = "locked" /\ Route(c) = "event" /\ Stores(c)

AppendBrainSnapshot(c) == at[c] = "locked" /\ Route(c) = "snapshot" /\ Stores(c)

AppendCanvasSnapshot(c) ==
  at[c] = "locked" /\ Route(c) = "scene" /\ asked[c].shape # "swells" /\ Stores(c)

-----------------------------------------------------------------------------
(* POST /sessions/{id}/end                                                  *)

EndSession(c) ==
  /\ Handles(c, {"end"}) /\ Free(c)
  /\ LET s == Session(c)
     IN  IF ~Exists(s) THEN Answers(c, 404) /\ UNCHANGED lock
         ELSE IF owner[s] # asked[c].who THEN Answers(c, 403) /\ UNCHANGED lock
         ELSE IF status[s] = "ended" THEN Shows(c, 200, "ended") /\ UNCHANGED lock
         ELSE Enter(c, "locked") /\ Locks(c) /\ UNCHANGED <<reply, view>>
  /\ UNCHANGED <<status, owner, rows, asked>>

EndCommits_Errored(c) ==
  /\ at[c] = "locked" /\ Route(c) = "end"
  /\ status' = [status EXCEPT ![Session(c)] = "errored"]
  /\ Unlocks(c)
  /\ Enter(c, "committed")
  /\ UNCHANGED <<owner, rows, asked, reply, view>>
EndCommits(c) ==
  /\ at[c] = "locked" /\ Route(c) = "end"
  /\ status' = [status EXCEPT ![Session(c)] = "ended"]
  /\ Unlocks(c)
  /\ Enter(c, "committed")
  /\ UNCHANGED <<owner, rows, asked, reply, view>>

-----------------------------------------------------------------------------
(* DELETE /sessions/{id}: a read without the lock, then the row and what    *)
(* refers to it, if it is still there.                                      *)

MayDelete(s) == status[s] # "active"

DeleteSession(c) ==
  /\ Handles(c, {"delete"})
  /\ LET code == GetOwnedSession(Session(c), asked[c].who)
     IN  IF code # 200 THEN Answers(c, code)
         ELSE IF ~MayDelete(Session(c)) THEN Answers(c, 409)
         ELSE Enter(c, "deleting") /\ UNCHANGED <<reply, view>>
  /\ UNCHANGED <<tables, asked>>

DeleteCommits(c) ==
  /\ at[c] = "deleting" /\ Free(c)
  /\ status' = [status EXCEPT ![Session(c)] = "deleted"]
  /\ rows' = [rows EXCEPT ![Session(c)] = {}]
  /\ Answers(c, 204)
  /\ UNCHANGED <<owner, lock, asked>>

-----------------------------------------------------------------------------
(* After its commit a handler reads its row again for the reply (refresh,   *)
(* or an attribute the commit expired), and raises if it has been deleted.  *)

Success(c) == IF Route(c) = "end" THEN 200 ELSE 201

Responds(c) ==
  /\ at[c] = "committed"
  /\ IF ~Exists(Session(c)) THEN Answers(c, 500)
     ELSE IF Route(c) \in Ingest THEN Answers(c, Success(c))
     ELSE Shows(c, Success(c), status[Session(c)])
  /\ UNCHANGED <<tables, asked>>

(* The database connection or the handler fails: rolled back, or committed  *)
(* with nothing to show for it.                                             *)
Fails(c) ==
  /\ at[c] \in {"sent", "locked", "deleting", "committed"}
  /\ Answers(c, 500)
  /\ Unlocks(c)
  /\ UNCHANGED <<status, owner, rows, asked>>

-----------------------------------------------------------------------------
Handler(c) ==
  \/ Turned(c)
  \/ GetSession(c) \/ ListSessions(c) \/ GetSessionBootstrap(c) \/ MintToken(c)
  \/ CreateSession(c)
  \/ SwellsEarly(c) \/ IngestLocks(c) \/ SwellsLate(c)
  \/ AppendSessionEvent(c) \/ AppendBrainSnapshot(c) \/ AppendCanvasSnapshot(c)
  \/ EndSession(c) \/ EndCommits(c)
  \/ DeleteSession(c) \/ DeleteCommits(c)
  \/ Responds(c) \/ Fails(c)

Next == \E c \in Calls : Handler(c) \/ \E r \in Request : Send(c, r)

Spec == Init /\ [][Next]_vars
-----------------------------------------------------------------------------
(* PROPERTIES                                                               *)

TypeOK ==
  /\ status \in [Sessions -> SessionStatus] /\ owner \in [Sessions -> Users \cup {None}]
  /\ rows \in [Sessions -> SUBSET Calls] /\ lock \in [Sessions -> Calls \cup {None}]
  /\ at \in [Calls -> {"unused", "sent", "locked", "deleting", "committed", "answered"}]
  /\ asked \in [Calls -> Request \cup {None}] /\ reply \in [Calls -> Nat]
  /\ view \in [Calls -> SessionStatus \cup {None}]

(* routes/sessions.py:60-65, :228-229, :262-265: whatever handlers          *)
(* interleave, a row is only stored while its session is active, a session  *)
(* ends once, and only an ended one is deleted, with all its rows.          *)
ImplementsLedger == Abstract!Spec

(* The replies hold when they are sent and for good: 201 for a row that is  *)
(* there or went with its session, 4xx for one that never is; 200 for an    *)
(* end, and 204 for a deletion, that nothing undoes.                        *)
AnswerHolds(c) ==
  LET s == Session(c)
      code == reply[c]
  IN  /\ Route(c) \in Ingest =>
           /\ code = 201 => c \in rows[s] \/ status[s] = "deleted"
           /\ code \in 400 .. 499 => c \notin rows[s]
      /\ Route(c) = "create" /\ code = 201 => status[s] # "none"
      /\ Route(c) = "end" /\ code = 200 =>
           view[c] = "ended" /\ status[s] \in {"ended", "deleted"}
      /\ Route(c) = "delete" /\ code = 204 => status[s] = "deleted"
AnswersHold == \A c \in Calls : at[c] = "answered" => AnswerHolds(c)

(* routes/sessions.py:75-98, livekit_tokens.py:8-12: only the owner of a    *)
(* session ends it, deletes it, is shown it or gets a token for its room.   *)
OnlyTheOwner ==
  \A c \in Calls :
    LET shown == Route(c) \in UserRoutes /\ (Route(c) = "list" => view[c] # None)
    IN  at[c] = "answered" /\ reply[c] \in 200 .. 299 /\ shown =>
          owner[Session(c)] = asked[c].who
=============================================================================
