----------------------------- MODULE SessionStore -----------------------------
(***************************************************************************)
(* RedisSessionStore (state/redis_store.py) with the tasks that share a     *)
(* session's key: turns and canvas messages write to it before they go to   *)
(* the event router, the router's dispatches load it and write their        *)
(* decision, on_enter puts it and the teardown deletes it.  A step of a     *)
(* task is one Redis command, with the code up to the next.                 *)
(*                                                                          *)
(* The event router is the module Dispatcher, which EventRouter implements. *)
(***************************************************************************)
EXTENDS SessionState

CONSTANT MaxAttempts    \* max_retries + 1

ASSUME StoreAssumption == MaxAttempts \in Nat \ {0}

VARIABLES
  key,            \* the state under the session's key, or None
  version,        \* how often it has changed: what WATCH watches
  stage,          \* "new" until on_enter has run, "open", then the teardown's
  at,             \* where each writer's task is
  watched,        \* version at its last WATCH
  read,           \* what its last GET found
  tries,          \* transactions of its apply() that failed
  begun,          \* history: version when its apply() began
  commits,        \* history: of each kind, the writers in the order Redis ran their EXEC
  loaded,         \* the state each dispatch has loaded
  outcome,        \* what each apply() came to
  queued, running, settled    \* the dispatcher's

applyVars  == <<watched, read, tries, begun>>
routerVars == <<queued, running, settled>>
vars == <<key, version, stage, at, applyVars, commits, loaded, outcome, routerVars>>

Event == CandidateTurns \cup Canvases
Router == INSTANCE Dispatcher
Abstract == INSTANCE AtomicState WITH value <- key

Calling == {"reading", "executing", "retrying"}
Histories == [turns : Seq(Turns), canvases : Seq(Canvases), decisions : Seq(Dispatches)]
Outcomes == {"open", "applied", "refused", "exhausted", "unknown"}

-----------------------------------------------------------------------------
Init ==
  /\ key = None /\ version = 0 /\ stage = "new"
  /\ at = [w \in Writers |-> "none"]
  /\ watched = [w \in Writers |-> 0]
  /\ read = [w \in Writers |-> None]
  /\ tries = [w \in Writers |-> 0]
  /\ begun = [w \in Writers |-> 0]
  /\ commits = [turns |-> <<>>, canvases |-> <<>>, decisions |-> <<>>]
  /\ loaded = [d \in Dispatches |-> None]
  /\ outcome = [w \in Writers |-> "open"]
  /\ Router!Init

Enter(w, p) == at' = [at EXCEPT ![w] = p]

(* apply() is over, one way or another.  A dispatch goes on from there.     *)
Answers(w, o) ==
  /\ outcome' = [outcome EXCEPT ![w] = o]
  /\ Enter(w, IF w \in Dispatches THEN "returned" ELSE "done")
  /\ watched' = [watched EXCEPT ![w] = 0]
  /\ read' = [read EXCEPT ![w] = None]
  /\ tries' = [tries EXCEPT ![w] = 0]
  /\ begun' = [begun EXCEPT ![w] = 0]

-----------------------------------------------------------------------------
(* on_enter puts the first state or fails to; turns come either way.  The   *)
(* teardown gathers their tasks, drains the router and deletes the key;     *)
(* canvas messages still come.                                              *)

Put ==
  /\ stage = "new"
  /\ stage' = "open"
  /\ \/ key' = Fresh /\ version' = version + 1
     \/ UNCHANGED <<key, version>>
  /\ UNCHANGED <<at, applyVars, commits, loaded, outcome, routerVars>>

TurnsOver ==
  /\ \A t \in Turns : at[t] \in {"none", "done"}
  /\ \A t \in CandidateTurns : outcome[t] \notin {"open", "unknown"} => t \in settled

Drain ==
  /\ stage \in {"new", "open"} /\ TurnsOver
  /\ stage' = "draining"
  /\ Router!Discard
  /\ UNCHANGED <<key, version, at, applyVars, commits, loaded, outcome>>

Delete ==
  /\ stage = "draining"
  /\ stage' = "deleted"
  /\ key' = None
  /\ version' = IF key = None THEN version ELSE version + 1
  /\ UNCHANGED <<at, applyVars, commits, loaded, outcome, routerVars>>

-----------------------------------------------------------------------------
(* apply()                                                                  *)

(* A turn comes while the session is open; a canvas message whenever; a     *)
(* dispatch's decision once it has loaded the state.                        *)
Calls(w) ==
  \/ w \in Turns /\ at[w] = "none" /\ stage = "open"
  \/ w \in Canvases /\ at[w] = "none"
  \/ w \in Dispatches /\ at[w] = "deciding"

Watch(w) ==
  /\ Calls(w) \/ at[w] = "retrying"
  /\ Enter(w, "reading")
  /\ watched' = [watched EXCEPT ![w] = version]
  /\ begun' = IF Calls(w) THEN [begun EXCEPT ![w] = version] ELSE begun
  /\ UNCHANGED <<key, version, stage, read, tries, commits, loaded, outcome, routerVars>>

Baseline(w) == IF w \in Dispatches THEN loaded[w] ELSE None

(* The mutator runs on what GET found, and may refuse.                      *)
Get(w) ==
  /\ at[w] = "reading"
  /\ IF Refuses(w, key, Baseline(w))
     THEN Answers(w, "refused")
     ELSE /\ Enter(w, "executing")
          /\ read' = [read EXCEPT ![w] = key]
          /\ UNCHANGED <<watched, tries, begun, outcome>>
  /\ UNCHANGED <<key, version, stage, commits, loaded, routerVars>>

(* EXEC writes only if the key has not changed since WATCH.  The reply may   *)
(* be lost with the connection.                                             *)
Unchanged_Assumed(w) == TRUE
Unchanged(w) == version = watched[w]

Kind(w) ==
  IF w \in Turns THEN "turns" ELSE IF w \in Canvases THEN "canvases" ELSE "decisions"

Commits(w) ==
  /\ at[w] = "executing" /\ Unchanged(w)
  /\ key' = Merge(w, read[w], Baseline(w))
  /\ version' = version + 1
  /\ commits' = [commits EXCEPT ![Kind(w)] = Append(@, w)]
  /\ \E o \in {"applied", "unknown"} : Answers(w, o)
  /\ UNCHANGED <<stage, loaded, routerVars>>

(* WatchError: another attempt, or RedisCasExhaustedError.                  *)
OutOfTries_OneLate(w) == tries[w] = MaxAttempts
OutOfTries_OneEarly(w) == tries[w] + 2 >= MaxAttempts
OutOfTries(w) == tries[w] + 1 = MaxAttempts

Conflicts(w) ==
  /\ at[w] = "executing" /\ ~Unchanged(w)
  /\ IF OutOfTries(w)
     THEN Answers(w, "exhausted")
     ELSE /\ Enter(w, "retrying")
          /\ tries' = [tries EXCEPT ![w] = @ + 1]
          /\ read' = [read EXCEPT ![w] = None]
          /\ UNCHANGED <<watched, begun, outcome>>
  /\ UNCHANGED <<key, version, stage, commits, loaded, routerVars>>

(* A command of apply() raises: the connection is lost.                     *)
Raises(w) ==
  /\ at[w] \in Calling
  /\ Answers(w, "unknown")
  /\ UNCHANGED <<key, version, stage, commits, loaded, routerVars>>

-----------------------------------------------------------------------------
(* The event router                                                         *)

(* A turn or canvas message goes to the router when its apply() is over,    *)
(* also if it was refused or gave up; any other exception ends its task.    *)
MayDispatch_AtOnce(e) == at[e] # "none"
MayDispatch(e) == outcome[e] \in {"applied", "refused", "exhausted"}

HandsOver(e) ==
  /\ MayDispatch(e)
  /\ Router!Accept(e)
  /\ UNCHANGED <<key, version, stage, at, applyVars, commits, loaded, outcome>>

Begins(d) ==
  /\ at[d] = "none"
  /\ Router!Begin
  /\ Enter(d, "loading")
  /\ UNCHANGED <<key, version, stage, applyVars, commits, loaded, outcome>>

(* load(), and no decision where there is no state.                         *)
Load(d) ==
  /\ at[d] = "loading"
  /\ loaded' = [loaded EXCEPT ![d] = key]
  /\ IF key = None
     THEN Enter(d, "returned") /\ outcome' = [outcome EXCEPT ![d] = "refused"]
     ELSE Enter(d, "deciding") /\ UNCHANGED outcome
  /\ UNCHANGED <<key, version, stage, applyVars, commits, routerVars>>

LoadRaises(d) ==
  /\ at[d] = "loading"
  /\ Enter(d, "returned")
  /\ outcome' = [outcome EXCEPT ![d] = "unknown"]
  /\ UNCHANGED <<key, version, stage, applyVars, commits, loaded, routerVars>>

(* The rest of _dispatch, and the next batch if there is one.               *)
Concludes(d) ==
  /\ at[d] = "returned"
  /\ Router!Finish
  /\ \/ queued = <<>> /\ Enter(d, "done")
     \/ \E n \in Dispatches :
          /\ queued # <<>> /\ at[n] = "none"
          /\ at' = [at EXCEPT ![d] = "done", ![n] = "loading"]
  /\ UNCHANGED <<key, version, stage, applyVars, commits, loaded, outcome>>

(* A barge-in cancels the dispatch at any of its awaits.                    *)
Interrupted(d) ==
  /\ at[d] \in {"loading", "deciding", "returned"} \cup Calling
  /\ Router!PutBack
  /\ Enter(d, "done")
  /\ outcome' = [outcome EXCEPT ![d] = IF @ = "open" THEN "unknown" ELSE @]
  /\ watched' = [watched EXCEPT ![d] = 0] /\ read' = [read EXCEPT ![d] = None]
  /\ tries' = [tries EXCEPT ![d] = 0] /\ begun' = [begun EXCEPT ![d] = 0]
  /\ UNCHANGED <<key, version, stage, commits, loaded>>

-----------------------------------------------------------------------------
Applies(w) == Watch(w) \/ Get(w) \/ Commits(w) \/ Conflicts(w) \/ Raises(w)
Dispatching(d) ==
  Begins(d) \/ Load(d) \/ LoadRaises(d) \/ Concludes(d) \/ Interrupted(d)

Next ==
  \/ Put \/ Drain \/ Delete
  \/ \E w \in Writers : Applies(w)
  \/ \E e \in Event : HandsOver(e)
  \/ \E d \in Dispatches : Dispatching(d)

Spec == Init /\ [][Next]_vars
-----------------------------------------------------------------------------
(* PROPERTIES                                                               *)

KeyTypeOK ==
  /\ key \in State \cup {None} /\ version \in Nat
  /\ stage \in {"new", "open", "draining", "deleted"}
ApplyTypeOK ==
  /\ at \in [Writers -> {"none", "loading", "deciding", "returned", "done"} \cup Calling]
  /\ watched \in [Writers -> Nat] /\ begun \in [Writers -> Nat]
  /\ read \in [Writers -> State \cup {None}] /\ tries \in [Writers -> 0 .. MaxAttempts - 1]
  /\ commits \in Histories
  /\ loaded \in [Dispatches -> State \cup {None}] /\ outcome \in [Writers -> Outcomes]
RouterTypeOK == queued \in Seq(Event) /\ running \in Seq(Event) /\ settled \subseteq Event
TypeOK == KeyTypeOK /\ ApplyTypeOK /\ RouterTypeOK

(* redis_store.py:12: concurrent writers "can't lose an update".  Every     *)
(* apply() takes effect in one step on the state as it is then, or not at   *)
(* all and its caller is told; a lost connection may do either.             *)
ImplementsAtomicState == Abstract!Spec

(* redis_store.py:150-153: apply() gives up only where other writers kept   *)
(* getting through, at least one for each of its attempts.                  *)
GivesUpOnlyToRivals ==
  [][\A w \in Writers : outcome[w] = "open" /\ outcome'[w] = "exhausted" =>
       version - begun[w] >= MaxAttempts]_vars

(* session_state.py:98-105, main.py:999: until the teardown the state holds *)
(* every committed decision, the last committed canvas and the newest       *)
(* WindowCap committed turns, in the order they were committed.             *)
LastOf(n, s) == IF Len(s) > n THEN SubSeq(s, Len(s) - n + 1, Len(s)) ELSE s
NothingForgotten ==
  key # None /\ stage # "deleted" =>
    /\ key.decisions = commits.decisions
    /\ key.window = LastOf(WindowCap, commits.turns)
    /\ LastOf(1, commits.canvases) = (IF key.canvas = None THEN <<>> ELSE <<key.canvas>>)

(* main.py:994-997 and the same for canvas_state at main.py:881-884: until  *)
(* the key is deleted, the state a dispatch loads has the turns and canvas  *)
(* messages it is about, unless apply() told their writer otherwise or      *)
(* later ones displaced them.  After that a dispatch that loaded the state  *)
(* before may put an older one back.                                        *)
Precedes(e) ==
  \E i, j \in DOMAIN commits[Kind(e)] : i < j /\ commits[Kind(e)][i] = e
Shown(e, s) ==
  IF e \in Turns
  THEN e \in Router!Members(s.window) \/ (Len(s.window) = WindowCap /\ Precedes(e))
  ELSE s.canvas = e \/ (s.canvas # None /\ Precedes(e))
DispatchSeesItsEvents ==
  [][\A d \in Dispatches :
       at[d] = "loading" /\ at'[d] = "deciding" /\ stage # "deleted" =>
         \A e \in Router!Members(running) :
           outcome[e] \in {"refused", "exhausted"} \/ Shown(e, loaded'[d])]_vars
=============================================================================
