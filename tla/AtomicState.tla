------------------------------ MODULE AtomicState ------------------------------
(***************************************************************************)
(* What RedisSessionStore promises (state/redis_store.py:12, "can't lose an *)
(* update"): each update is applied to the current state in one step, or    *)
(* not at all and its writer learns of it; only a broken connection leaves  *)
(* a writer without an answer.  SessionStore implements it.                 *)
(***************************************************************************)
EXTENDS SessionState

VARIABLES
  value,          \* the state under the session's key, or None
  loaded,         \* the state each dispatch has loaded
  outcome         \* what each writer has been told

atomicVars == <<value, loaded, outcome>>

Init ==
  /\ value = None
  /\ loaded = [d \in Dispatches |-> None]
  /\ outcome = [w \in Writers |-> "open"]

Told(w, o) == outcome[w] = "open" /\ outcome' = [outcome EXCEPT ![w] = o]

Baseline(w) == IF w \in Dispatches THEN loaded[w] ELSE None

Create == value = None /\ value' = Fresh /\ UNCHANGED <<loaded, outcome>>

Remove == value' = None /\ UNCHANGED <<loaded, outcome>>

Load(d) ==
  /\ outcome[d] = "open"
  /\ loaded' = [loaded EXCEPT ![d] = value]
  /\ UNCHANGED <<value, outcome>>

Update(w) ==
  /\ ~Refuses(w, value, Baseline(w))
  /\ \E o \in {"applied", "unknown"} : Told(w, o)
  /\ value' = Merge(w, value, Baseline(w))
  /\ UNCHANGED loaded

Decline(w) ==
  /\ \E o \in {"refused", "exhausted", "unknown"} : Told(w, o)
  /\ UNCHANGED <<value, loaded>>

Next ==
  \/ Create \/ Remove
  \/ \E d \in Dispatches : Load(d)
  \/ \E w \in Writers : Update(w) \/ Decline(w)

Spec == Init /\ [][Next]_atomicVars
=============================================================================
