---------------------------- MODULE IngestDelivery ----------------------------
(***************************************************************************)
(* The agent's ingest clients (ledger/client.py, snapshots/client.py,       *)
(* canvas/client.py) and the candidate's browser, as callers of the control *)
(* plane.  An append is a task that makes its attempts one after another: a *)
(* timeout or a lost connection does not stop the handler it was waiting    *)
(* for, so an attempt may still be stored while the next is under way.      *)
(***************************************************************************)
EXTENDS ControlPlane

CONSTANTS
  Payloads,       \* what the agent has to store
  MaxAttempts,    \* max_retries + 1
  UserCalls,
  Script,         \* the requests each user call may make
  LoggedTypes     \* the event types the agent logs

ASSUME DeliveryAssumption ==
  /\ MaxAttempts \in Nat \ {0}
  /\ Calls = UserCalls \cup (Payloads \X (1 .. MaxAttempts))
  /\ Script \in [UserCalls -> SUBSET Request]

VARIABLES
  attempt,    \* of each payload's append(); 0 before it is called
  result,     \* "none", "pending", "backoff", then what append() returned
  logged,     \* the type it was logged with
  lost        \* an attempt of it timed out or lost its connection

client == <<attempt, result, logged, lost>>
deliveryVars == <<vars, client>>

Attempt(p) == <<p, attempt[p]>>
Attempts(p) == {p} \X (1 .. attempt[p])

DeliveryInit ==
  /\ Init
  /\ attempt = [p \in Payloads |-> 0]
  /\ result = [p \in Payloads |-> "none"]
  /\ logged = [p \in Payloads |-> None]
  /\ lost = [p \in Payloads |-> FALSE]

-----------------------------------------------------------------------------
(* The three clients have the same loop.                                    *)

Sends(p, r) ==
  /\ attempt' = [attempt EXCEPT ![p] = @ + 1]
  /\ result' = [result EXCEPT ![p] = "pending"]
  /\ Send(<<p, attempt[p] + 1>>, r)

FromAgent(s, route, shape) == [route |-> route, session |-> s, who |-> Agent, shape |-> shape]

(* What the agent appends belongs to a session that was created.            *)
Begins(p, s) == result[p] = "none" /\ status[s] # "none"

(* MentorAgent._log; a type the route does not know is a malformed body.    *)
AppendEvent(p) ==
  \E s \in Sessions, type \in LoggedTypes, shape \in {"fits", "swells", "large"} :
    /\ Begins(p, s)
    /\ logged' = [logged EXCEPT ![p] = type]
    /\ Sends(p, FromAgent(s, "event", IF type \in SessionEventType THEN shape ELSE "malformed"))
    /\ UNCHANGED lost

(* The router's snapshot, of the columns the route has.                     *)
AppendSnapshot(p) ==
  \E s \in Sessions, shape \in {"fits", "large"} :
    /\ Begins(p, s)
    /\ Sends(p, FromAgent(s, "snapshot", shape))
    /\ UNCHANGED <<logged, lost>>

AppendScene(p) ==
  \E s \in Sessions, shape \in {"fits", "swells", "large"} :
    /\ Begins(p, s)
    /\ Sends(p, FromAgent(s, "scene", shape))
    /\ UNCHANGED <<logged, lost>>

Returns(p, r) == result' = [result EXCEPT ![p] = r]

IsLast_OneMore(p) == attempt[p] = MaxAttempts + 1
IsLast(p) == attempt[p] = MaxAttempts
FailsAttempt(p) == Returns(p, IF IsLast(p) THEN "false" ELSE "backoff")

(* 201, any other 4xx, anything else.                                       *)
Accepted_Conflict(code) == code \in {201, 409}
Accepted_Ok(code) == code = 200
Accepted(code) == code = 201

Receives(p) ==
  /\ result[p] = "pending" /\ at[Attempt(p)] = "answered"
  /\ LET code == reply[Attempt(p)]
     IN  IF Accepted(code) THEN Returns(p, "true")
         ELSE IF code \in 400 .. 499 THEN Returns(p, "false")
         ELSE FailsAttempt(p)
  /\ UNCHANGED <<vars, attempt, logged, lost>>

(* httpx.HTTPError: no answer within timeout_s, or no connection.           *)
TimesOut(p) ==
  /\ result[p] = "pending"
  /\ FailsAttempt(p)
  /\ lost' = [lost EXCEPT ![p] = TRUE]
  /\ UNCHANGED <<vars, attempt, logged>>

Retries(p) ==
  /\ result[p] = "backoff" /\ attempt[p] < MaxAttempts
  /\ Sends(p, asked[Attempt(p)])
  /\ UNCHANGED <<logged, lost>>

-----------------------------------------------------------------------------
(* The candidate's browser, and others'.                                    *)
UserSends(c) == \E r \in Script[c] : Send(c, r) /\ UNCHANGED client

Delivers(p) == AppendEvent(p) \/ AppendSnapshot(p) \/ AppendScene(p) \/ Retries(p)
Hears(p) == Receives(p) \/ TimesOut(p)

DeliveryNext ==
  \/ \E c \in Calls : Handler(c) /\ UNCHANGED client
  \/ \E c \in UserCalls : UserSends(c)
  \/ \E p \in Payloads : Delivers(p) \/ Hears(p)

DeliverySpec == DeliveryInit /\ [][DeliveryNext]_deliveryVars

(* timeout_s ends a wait and the event loop wakes a sleeper; of the server  *)
(* nothing is assumed.                                                      *)
FairDelivery ==
  /\ DeliverySpec
  /\ \A p \in Payloads : WF_deliveryVars(Hears(p)) /\ WF_deliveryVars(Retries(p))
-----------------------------------------------------------------------------
(* PROPERTIES                                                               *)

(* ledger/client.py:50, snapshots/client.py:66: append() returns True for a *)
(* row that is stored, and stays so until the session is deleted.           *)
Stored(p) == {a \in Attempts(p) : a \in rows[Session(a)]}
TrueIsStored ==
  \A p \in Payloads :
    result[p] = "true" => Stored(p) # {} \/ status[Session(Attempt(p))] = "deleted"

(* ledger/client.py:3-6, :62-88: the route has no idempotency key, so a     *)
(* payload may be stored twice, but only if an attempt of it timed out or   *)
(* its handler failed after the commit; one that was answered never is.     *)
Faulty(a) == at[a] = "answered" /\ reply[a] = 500
TwiceOnlyAfterLoss ==
  \A p \in Payloads :
    Cardinality(Stored(p)) > 1 => lost[p] \/ \E a \in Stored(p) : Faulty(a)

(* ledger/client.py:5-6, main.py:719-724: an append returns whatever the    *)
(* server does, so the teardown's drain of the task set ends.               *)
AppendReturns ==
  \A p \in Payloads : result[p] # "none" ~> result[p] \in {"true", "false"}

(* main.py:805-806, test_canvas_handler.py:210: a scene that cannot be      *)
(* parsed "becomes a `canvas_parse_error` ledger row": the append is not    *)
(* turned away while the session is active and the server up.               *)
ParseErrorsAreLogged ==
  \A p \in Payloads :
    result[p] = "false" /\ logged[p] = "canvas_parse_error" =>
      \/ lost[p]
      \/ \E a \in Attempts(p) : reply[a] \in {404, 409, 413, 500}
=============================================================================
