------------------------------- MODULE VoiceLoop -------------------------------
(***************************************************************************)
(* The speaking side of the agent: MentorAgent in main.py with the          *)
(* utterance queue and the speech-check gate of queue/.  Everyone who may   *)
(* speak is a task of one asyncio loop: the opening (on_enter), the task of *)
(* each final transcript (handle_user_input) and the apology for a brain    *)
(* timeout (_emit_synthetic_async).  A phase names where a task is          *)
(* suspended; an action is the code from there to its next suspension.      *)
(*                                                                          *)
(* The event router is the module Dispatcher, which EventRouter implements; *)
(* `loop` adds what decides when it takes a batch.                          *)
(***************************************************************************)
EXTENDS Naturals, Sequences

CONSTANTS
  Turns,          \* final transcripts, each handled by a task of its own
  Canvases,       \* canvas messages; those that are not queued together are not told apart
  Opening,        \* the on_enter task
  Apology,        \* the synthetic-utterance task; the router emits at most one
  MaxInterims,    \* bound on the interim transcripts
  MaxPushed,      \* bound on the utterances pushed
  MaxClock,       \* bound on the agent's millisecond clock
  TTL,            \* PendingUtterance.ttl_ms
  Grace,          \* SpeechCheckGate's grace_ms
  None            \* Python's None

Speakers == Turns \cup {Opening, Apology}

ASSUME VoiceAssumption ==
  /\ MaxInterims \in Nat /\ MaxPushed \in Nat /\ MaxClock \in Nat /\ TTL \in Nat /\ Grace \in Nat
  /\ Opening \notin Turns /\ Apology \notin Turns /\ Opening # Apology
  /\ None \notin Speakers

VARIABLES
  brain,          \* brain_enabled: the brain path, or the static acknowledgement
  clock,          \* _now_relative_ms()
  phase,          \* where each speaker's task is suspended
  arrived,        \* turn_t_ms of each turn
  reply,          \* the utterance each turn has popped
  sayLock,        \* _say_lock: the turn that holds it
  aiState,        \* the last state published to the browser
  utterances,     \* UtteranceQueue._items, as positions in pushed: a FIFO, so a set
  speaking,       \* SpeechCheckGate._speaking
  doneAt,         \* SpeechCheckGate._done_at_ms
  queued, running, settled,   \* the dispatcher's
  loop,           \* the dispatch loop task
  cancelled,      \* it has been cancelled and does not know it yet
  stamped,        \* snapshot_t_ms of the dispatch under way
  apologised,     \* _apology_used
  interims,       \* interim transcripts so far
  pushed,         \* generated_at_ms of every utterance pushed so far
  spoken          \* history: those that turns began to say, in that order

dispatchVars == <<queued, running, settled, loop, cancelled, stamped, apologised>>
gateVars     == <<speaking, doneAt>>
queueVars    == <<utterances, pushed>>
speakerVars  == <<phase, arrived, reply, sayLock, spoken>>
vars == <<brain, clock, interims, aiState, dispatchVars, gateVars, queueVars, speakerVars>>

Event == Turns \cup Canvases
Router == INSTANCE Dispatcher

(* A turn passes through all of these, except that it goes from waiting to  *)
(* closing when it has nothing to say.  The apology and the opening begin   *)
(* at created and skip appending, announcing and waiting.                   *)
Phases == {"none", "created", "appending", "announcing", "waiting", "starting",
           "saying", "recording", "closing", "done", "failed"}
Talking == {"starting", "saying", "recording"}
Over == {"done", "failed"}

-----------------------------------------------------------------------------
Init ==
  /\ brain \in BOOLEAN
  /\ clock = 0 /\ interims = 0 /\ aiState = "listening"
  /\ phase = [s \in Speakers |-> IF s = Opening THEN "created" ELSE "none"]
  /\ arrived = [t \in Turns |-> 0]
  /\ reply = [t \in Turns |-> 0]
  /\ sayLock = None
  /\ utterances = {} /\ pushed = <<>> /\ spoken = <<>>
  /\ speaking = FALSE /\ doneAt = None
  /\ Router!Init
  /\ loop = "none" /\ cancelled = FALSE /\ stamped = 0 /\ apologised = FALSE

Enter(s, p) == phase' = [phase EXCEPT ![s] = p]

Tick ==
  /\ clock < MaxClock
  /\ clock' = clock + 1
  /\ UNCHANGED <<brain, interims, aiState, dispatchVars, gateVars, queueVars, speakerVars>>

-----------------------------------------------------------------------------
(* The queue.  An utterance's age counts from its snapshot_t_ms, the start   *)
(* of the dispatch that made it.                                            *)

Expired(u) == clock - pushed[u] > TTL

(* pop_if_fresh: the oldest fresh utterance, if any.  The expired ones in   *)
(* front of it go with it; those behind it stay.                            *)
Fresh == {u \in utterances : ~Expired(u)}
IsNext(u) == u \in Fresh /\ \A v \in Fresh : u <= v
Behind(u) == {v \in utterances : v > u}

(* clear_stale_on_new_turn                                                   *)
NotSuperseded(t) == {u \in utterances : pushed[u] >= arrived[t]}

-----------------------------------------------------------------------------
(* A turn task, handle_user_input                                           *)

(* The session hands over a final transcript.  Finals that come before the  *)
(* opening is over are dropped.                                             *)
FinalArrives(t) ==
  /\ phase[Opening] \in Over
  /\ phase[t] = "none"
  /\ arrived' = [arrived EXCEPT ![t] = clock]
  /\ IF brain
     THEN Enter(t, "appending") /\ UNCHANGED aiState
     ELSE Enter(t, "announcing") /\ aiState' = "thinking"
  /\ UNCHANGED <<brain, clock, interims, dispatchVars, gateVars, queueVars,
                 reply, sayLock, spoken>>

(* The candidate's turn is in the transcript, or the store gave up on it.   *)
TurnAppended(t) ==
  /\ brain /\ phase[t] = "appending"
  /\ Enter(t, "announcing")
  /\ speaking' = FALSE /\ doneAt' = clock
  /\ utterances' = NotSuperseded(t)
  /\ aiState' = "thinking"
  /\ UNCHANGED <<brain, clock, interims, dispatchVars, pushed, arrived, reply,
                 sayLock, spoken>>

(* A lost Redis connection is not among what _append_transcript_turn        *)
(* catches.                                                                 *)
AppendRaises(t) ==
  /\ brain /\ phase[t] = "appending"
  /\ Enter(t, "failed")
  /\ UNCHANGED <<brain, clock, interims, aiState, dispatchVars, gateVars, queueVars,
                 arrived, reply, sayLock, spoken>>

(* router.handle, called with "thinking" published.                         *)
SpawnLoop == IF loop = "none" THEN "created" ELSE loop

HandsOver(t) ==
  /\ brain /\ phase[t] = "announcing"
  /\ Router!Accept(t)
  /\ loop' = SpawnLoop
  /\ Enter(t, "waiting")
  /\ UNCHANGED <<brain, clock, interims, aiState, cancelled, stamped, apologised,
                 gateVars, queueVars, arrived, reply, sayLock, spoken>>

(* _run_static_ack_turn publishes "speaking" and speaks without the lock.   *)
Acknowledges(t) ==
  /\ ~brain /\ phase[t] = "announcing"
  /\ Enter(t, "starting")
  /\ aiState' = "speaking"
  /\ UNCHANGED <<brain, clock, interims, dispatchVars, gateVars, queueVars, arrived,
                 reply, sayLock, spoken>>

(* wait_for_idle returns, and _drain_utterance_queue runs up to its first   *)
(* publication.                                                             *)
MayPop_Unlocked == TRUE
MayPop == sayLock = None

RouterIdle == queued = <<>> /\ running = <<>> /\ loop = "none"

(* A turn that finds the lock taken leaves the queue as it is.              *)
SkipState_Kept == aiState
SkipState_Unknown == "idle"
SkipState == "listening"

Skips(t) ==
  /\ ~MayPop
  /\ Enter(t, "closing") /\ aiState' = SkipState
  /\ UNCHANGED <<utterances, reply, sayLock>>

FindsNothing(t) ==
  /\ MayPop /\ Fresh = {}
  /\ Enter(t, "closing") /\ aiState' = "listening"
  /\ utterances' = {} /\ sayLock' = t
  /\ UNCHANGED reply

Pops(t) ==
  /\ MayPop
  /\ \E u \in Fresh :
       /\ IsNext(u)
       /\ reply' = [reply EXCEPT ![t] = u]
       /\ utterances' = Behind(u)
  /\ Enter(t, "starting") /\ aiState' = "speaking"
  /\ sayLock' = t

Drains(t) ==
  /\ phase[t] = "waiting" /\ RouterIdle
  /\ Skips(t) \/ FindsNothing(t) \/ Pops(t)
  /\ UNCHANGED <<brain, clock, interims, dispatchVars, gateVars, pushed, arrived, spoken>>

-----------------------------------------------------------------------------
(* Speaking: session.say, then the transcript, then "listening".  A task    *)
(* that leaves _drain_utterance_queue lets go of the lock it holds.         *)

Unlock(s) == IF sayLock = s THEN None ELSE sayLock

Says(s) ==
  /\ phase[s] = "starting"
  /\ Enter(s, "saying")
  /\ spoken' = IF brain /\ s \in Turns THEN Append(spoken, reply[s]) ELSE spoken
  /\ UNCHANGED <<brain, clock, interims, aiState, dispatchVars, gateVars, queueVars,
                 arrived, reply, sayLock>>

(* session.say raises RuntimeError: the session is closing.                 *)
SayRefused(s) ==
  /\ phase[s] = "starting"
  /\ Enter(s, "closing")
  /\ aiState' = "listening"
  /\ UNCHANGED <<brain, clock, interims, dispatchVars, gateVars, queueVars,
                 arrived, reply, sayLock, spoken>>

(* The playout is over.  Nothing appends an apology to the transcript, and   *)
(* without the brain there is none to append to.                            *)
SayEnds(s) ==
  /\ phase[s] = "saying"
  /\ IF brain /\ s # Apology
     THEN Enter(s, "recording") /\ UNCHANGED aiState
     ELSE Enter(s, "closing") /\ aiState' = "listening"
  /\ UNCHANGED <<brain, clock, interims, dispatchVars, gateVars, queueVars,
                 arrived, reply, sayLock, spoken>>

Recorded(s) ==
  /\ phase[s] = "recording"
  /\ Enter(s, "closing")
  /\ aiState' = "listening"
  /\ UNCHANGED <<brain, clock, interims, dispatchVars, gateVars, queueVars,
                 arrived, reply, sayLock, spoken>>

(* The connection is lost while the spoken text is appended: on_enter       *)
(* catches it and publishes "listening", a turn does not.                   *)
RecordRaises(s) ==
  /\ phase[s] = "recording"
  /\ IF s = Opening
     THEN Enter(s, "closing") /\ aiState' = "listening"
     ELSE Enter(s, "failed") /\ UNCHANGED aiState
  /\ sayLock' = Unlock(s)
  /\ UNCHANGED <<brain, clock, interims, dispatchVars, gateVars, queueVars,
                 arrived, reply, spoken>>

Closes(s) ==
  /\ phase[s] = "closing"
  /\ Enter(s, "done")
  /\ sayLock' = Unlock(s)
  /\ UNCHANGED <<brain, clock, interims, aiState, dispatchVars, gateVars, queueVars,
                 arrived, reply, spoken>>

(* on_enter has seeded the state and publishes "speaking", or failed to.    *)
OpeningStarts ==
  /\ phase[Opening] = "created"
  /\ \/ Enter(Opening, "starting") /\ aiState' = "speaking"
     \/ brain /\ Enter(Opening, "closing") /\ aiState' = "listening"
  /\ UNCHANGED <<brain, clock, interims, dispatchVars, gateVars, queueVars,
                 arrived, reply, sayLock, spoken>>

(* is_candidate_speaking, at the apology's first step                        *)
InGrace == doneAt # None /\ clock - doneAt <= Grace

ApologyStarts ==
  /\ phase[Apology] = "created"
  /\ IF speaking \/ InGrace
     THEN Enter(Apology, "done") /\ UNCHANGED <<aiState, doneAt>>
     ELSE Enter(Apology, "starting") /\ aiState' = "speaking" /\ doneAt' = None
  /\ UNCHANGED <<brain, clock, interims, dispatchVars, speaking, queueVars,
                 arrived, reply, sayLock, spoken>>

-----------------------------------------------------------------------------
(* The dispatcher at work                                                   *)

(* The candidate goes on drawing: a message comes whenever one has left the *)
(* queue.                                                                   *)
CanvasArrives(c) ==
  /\ brain
  /\ c \notin Router!Members(queued) /\ Router!Enqueue(c)
  /\ loop' = SpawnLoop
  /\ UNCHANGED <<brain, clock, interims, aiState, cancelled, stamped, apologised,
                 gateVars, queueVars, speakerVars>>

Begins ==
  /\ loop = "created" /\ ~cancelled
  /\ Router!Begin
  /\ loop' = "running"
  /\ stamped' = clock
  /\ UNCHANGED <<brain, clock, interims, aiState, cancelled, apologised, gateVars,
                 queueVars, speakerVars>>

(* A dispatch ends in something to say, in nothing, or in a brain timeout.   *)
(* A cancellation the SDK swallows ends in nothing.                         *)
LoopGoesOn_Always == TRUE
LoopGoesOn == queued # <<>>

Concludes(what) ==
  /\ loop = "running"
  /\ ~cancelled \/ what = "silent"
  /\ what = "speak" => Len(pushed) < MaxPushed
  /\ Router!Finish
  /\ IF LoopGoesOn
     THEN stamped' = clock /\ UNCHANGED loop
     ELSE stamped' = 0 /\ loop' = "none"
  /\ cancelled' = FALSE
  /\ IF what = "speak"
     THEN /\ pushed' = Append(pushed, stamped)
          /\ utterances' = utterances \cup {Len(pushed) + 1}
     ELSE UNCHANGED queueVars
  /\ IF what = "timeout" /\ ~apologised
     THEN apologised' = TRUE /\ Enter(Apology, "created")
     ELSE UNCHANGED <<apologised, phase>>
  /\ UNCHANGED <<brain, clock, interims, aiState, gateVars, arrived, reply, sayLock, spoken>>

(* handle_interim_transcript; interims too are dropped during the opening.  *)
InterimArrives ==
  /\ brain /\ interims < MaxInterims /\ phase[Opening] \in Over
  /\ interims' = interims + 1
  /\ speaking' = TRUE /\ doneAt' = None
  /\ cancelled' = (loop \in {"created", "running"})
  /\ UNCHANGED <<brain, clock, aiState, queued, running, settled, loop, stamped,
                 apologised, queueVars, speakerVars>>

(* The cancellation reaches the loop: a batch goes back in front, and a     *)
(* loop that has not begun never will.                                      *)
CancelLands ==
  /\ cancelled
  /\ cancelled' = FALSE /\ stamped' = 0
  /\ \/ loop = "created" /\ loop' = "stillborn" /\ UNCHANGED <<queued, running, settled>>
     \/ loop = "running" /\ loop' = "none" /\ Router!PutBack
  /\ UNCHANGED <<brain, clock, interims, aiState, apologised, gateVars, queueVars,
                 speakerVars>>

-----------------------------------------------------------------------------
TurnStep(t) ==
  \/ TurnAppended(t) \/ AppendRaises(t) \/ HandsOver(t) \/ Acknowledges(t) \/ Drains(t)
SpeakerStep(s) ==
  \/ Says(s) \/ SayRefused(s) \/ SayEnds(s)
  \/ Recorded(s) \/ RecordRaises(s) \/ Closes(s)
LoopStep == Begins \/ CancelLands \/ \E what \in {"speak", "silent", "timeout"} : Concludes(what)

Next ==
  \/ Tick
  \/ \E t \in Turns : FinalArrives(t) \/ TurnStep(t)
  \/ \E s \in Speakers : SpeakerStep(s)
  \/ OpeningStarts \/ ApologyStarts
  \/ \E c \in Canvases : CanvasArrives(c)
  \/ InterimArrives \/ LoopStep

(* asyncio runs every ready task; Redis, the brain's deadline and playout   *)
(* come to an end.  The candidate is free to do nothing.                    *)
Fairness ==
  /\ \A t \in Turns : WF_vars(TurnStep(t))
  /\ \A s \in Speakers : WF_vars(SpeakerStep(s))
  /\ WF_vars(OpeningStarts) /\ WF_vars(ApologyStarts) /\ WF_vars(LoopStep)

Spec == Init /\ [][Next]_vars
FairSpec == Spec /\ Fairness

(* Even if a waiting turn is never late when the router is idle.            *)
PromptSpec == FairSpec /\ \A t \in Turns : SF_vars(Drains(t))
-----------------------------------------------------------------------------
(* PROPERTIES                                                               *)

Serials == 1 .. Len(pushed)
SpeakerTypeOK ==
  /\ aiState \in {"listening", "thinking", "speaking"}
  /\ phase \in [Speakers -> Phases] /\ arrived \in [Turns -> 0 .. MaxClock]
  /\ sayLock \in Turns \cup {None}
QueueTypeOK ==
  /\ pushed \in Seq(0 .. MaxClock)
  /\ utterances \subseteq Serials /\ spoken \in Seq(Serials)
  /\ reply \in [Turns -> Serials \cup {0}]
ClockTypeOK ==
  /\ brain \in BOOLEAN /\ clock \in 0 .. MaxClock /\ interims \in 0 .. MaxInterims
  /\ speaking \in BOOLEAN /\ doneAt \in 0 .. MaxClock \cup {None}
DispatchTypeOK ==
  /\ queued \in Seq(Event) /\ running \in Seq(Event) /\ settled \subseteq Event
  /\ loop \in {"none", "created", "running", "stillborn"} /\ cancelled \in BOOLEAN
  /\ stamped \in 0 .. MaxClock /\ apologised \in BOOLEAN
TypeOK == SpeakerTypeOK /\ QueueTypeOK /\ ClockTypeOK /\ DispatchTypeOK

Ascending(s) == \A i, j \in DOMAIN s : i < j => s[i] < s[j]

(* main.py:585-590: however turns overlap, what turns say comes in the order *)
(* the brain decided it, one utterance at a time and each at most once.     *)
SpokenInOrder ==
  /\ Ascending(spoken)
  /\ brain => \A t, u \in Turns : phase[t] \in Talking /\ phase[u] \in Talking => t = u

(* main.py:688: with everyone finished and no turn cut short by an error,   *)
(* the browser has been told that the agent is listening.                   *)
QuietMeansListening ==
  (\A s \in Speakers : phase[s] \in {"none", "done"}) => aiState = "listening"

(* router.py:202-223, main.py:560: a turn comes to an end once the candidate *)
(* draws no more, unless somebody barged in: neither the router's wait nor  *)
(* another turn's speech holds it for ever.                                 *)
DrawingStops == <>[][\A c \in Canvases : ~CanvasArrives(c)]_vars
TurnsOver == \A t \in Turns : phase[t] \in {"none"} \cup Over
TurnsEndAfterDrawing == DrawingStops => []<>(TurnsOver \/ interims > 0)

(* router.py:203-209: wait_for_idle "lets the in-flight loop process        *)
(* whatever's queued and exit naturally", so that the turn "can pop a       *)
(* decision from the utterance queue once the brain call has finished".     *)
TurnsEnd == []<>(TurnsOver \/ interims > 0)

(* main.py:477-478: handle_user_input "Never raises: voice-loop errors      *)
(* degrade to silence, not session death"; the browser is told that the     *)
(* agent listens when nobody is left to speak, errors or not.               *)
OverMeansListening ==
  (\A s \in Speakers : phase[s] \in {"none"} \cup Over) => aiState = "listening"

(* utterance_queue.py:11: once a turn has cleared the queue, no utterance   *)
(* "generated *before* that turn" is spoken.                                *)
HasCleared(t) == phase[t] \notin {"none", "appending", "failed"}
RepliesToLatestTurn ==
  [][\A s \in Turns : brain /\ phase[s] = "starting" /\ phase'[s] = "saying" =>
       \A t \in Turns : HasCleared(t) => pushed[reply[s]] >= arrived[t]]_vars

(* utterance_queue.py:7: an utterance has the whole of its TTL to be spoken, *)
(* so it is fresh when it is pushed.                                        *)
FreshWhenPushed ==
  [][pushed' # pushed => clock - pushed'[Len(pushed')] <= TTL]_vars
=============================================================================
