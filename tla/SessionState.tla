----------------------------- MODULE SessionState -----------------------------
(***************************************************************************)
(* The part of SessionState (state/session_state.py) that several tasks of  *)
(* the agent write, and the mutators they hand to RedisSessionStore.apply.  *)
(* A writer stands for what it writes: a turn for its transcript line, a    *)
(* canvas message for its description, a dispatch for its decision.         *)
(***************************************************************************)
EXTENDS Naturals, Sequences

CONSTANTS
  CandidateTurns, \* turns of the candidate, appended before they are dispatched
  AiTurns,        \* utterances of the agent, appended after they were spoken
  Canvases,       \* canvas messages
  Dispatches,     \* dispatches of the event router, in no order
  WindowCap,      \* _TRANSCRIPT_WINDOW_CAP
  None            \* the key is absent, or no canvas yet

Turns == CandidateTurns \cup AiTurns
Writers == Turns \cup Canvases \cup Dispatches

State == [window : Seq(Turns), canvas : Canvases \cup {None}, decisions : Seq(Dispatches)]

ASSUME StateAssumption ==
  /\ WindowCap \in Nat \ {0}
  /\ CandidateTurns \cap AiTurns = {} /\ Turns \cap Canvases = {}
  /\ (Turns \cup Canvases) \cap Dispatches = {}
  /\ None \notin Writers \cup State

(* build_initial_session_state                                              *)
Fresh == [window |-> <<>>, canvas |-> None, decisions |-> <<>>]

(* The newest WindowCap of a window that one turn was appended to.          *)
Newest_Oldest(w) == IF Len(w) > WindowCap THEN SubSeq(w, 1, WindowCap) ELSE w
Newest(w) == IF Len(w) > WindowCap THEN SubSeq(w, 2, Len(w)) ELSE w

(* A dispatch falls back on the state it loaded; turns and canvas messages  *)
(* have nothing to fall back on and refuse to write where there is no state. *)
Base_Loaded(w, found, baseline) == IF w \in Dispatches THEN baseline ELSE found
Base(w, found, baseline) == IF found = None THEN baseline ELSE found

Refuses(w, found, baseline) == Base(w, found, baseline) = None

(* What writer w makes of the state it finds.                               *)
Merge(w, found, baseline) ==
  LET base == Base(w, found, baseline) IN
  IF w \in Turns THEN [base EXCEPT !.window = Newest(Append(base.window, w))]
  ELSE IF w \in Canvases THEN [base EXCEPT !.canvas = w]
  ELSE [base EXCEPT !.decisions = Append(base.decisions, w)]
=============================================================================
