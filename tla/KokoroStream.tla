----------------------------- MODULE KokoroStream -----------------------------
(***************************************************************************)
(* Speech synthesis (tts/kokoro.py).  An utterance is a generator on the    *)
(* event loop and two threads: engine.synthesize() fills the engine's one   *)
(* queue, the drain thread carries chunks from it to the generator's        *)
(* bridge.  A step of a thread is one operation on what they share.  The    *)
(* engine puts no sentinel of its own into the queue.                       *)
(***************************************************************************)
EXTENDS SequencesExt, Naturals

CONSTANTS
  Utterances,   \* serial numbers, in the order they are said
  Chunks        \* of each

ASSUME StreamAssumption ==
  /\ Utterances \subseteq Nat \ {0} /\ \A u \in Utterances : u > 1 => u - 1 \in Utterances
  /\ Chunks \in Nat \ {0}

VARIABLES
  engineQueue,  \* <<utterance, chunk>>s
  synth,        \* of each, the chunks put so far
  synthDone,    \* threading.Event
  synthError,
  drain,        \* "none", "polls", "empty" after an Empty, "gone"
  bridge,       \* chunks, and End
  stream,       \* the generator: "none", "streams", "joins", "closed"
  cut,          \* history: interrupted while it streamed
  cutShort,     \* history: End was posted while the queue held something
  played        \* what the open generator has yielded

kokoro == <<engineQueue, synth, synthDone, synthError, drain, bridge, stream, cut, cutShort, played>>

End == <<0, 0>>

KokoroInit ==
  /\ engineQueue = <<>>
  /\ synth = [u \in Utterances |-> 0]
  /\ synthDone = [u \in Utterances |-> FALSE]
  /\ synthError = [u \in Utterances |-> FALSE]
  /\ drain = [u \in Utterances |-> "none"]
  /\ bridge = [u \in Utterances |-> <<>>]
  /\ stream = [u \in Utterances |-> "none"]
  /\ cut = [u \in Utterances |-> FALSE]
  /\ cutShort = [u \in Utterances |-> FALSE]
  /\ played = [u \in Utterances |-> <<>>]

Started(u) == stream[u] # "none"
ConsumerGone(u) == stream[u] \in {"joins", "closed"}

(* The joins block the event loop, and with it every coroutine.             *)
Blocked == \E u \in Utterances : stream[u] = "joins"

-----------------------------------------------------------------------------
Synthesize(u) ==
  /\ stream[u] = "none" /\ stream' = [stream EXCEPT ![u] = "streams"]
  /\ drain' = [drain EXCEPT ![u] = "polls"]
  /\ UNCHANGED <<engineQueue, synth, synthDone, synthError, bridge, cut, cutShort, played>>

(* The synthesis thread                                                     *)
Puts(u) ==
  /\ Started(u) /\ ~synthDone[u] /\ synth[u] < Chunks
  /\ synth' = [synth EXCEPT ![u] = @ + 1]
  /\ engineQueue' = Append(engineQueue, <<u, synth[u] + 1>>)
  /\ UNCHANGED <<synthDone, synthError, drain, bridge, stream, cut, cutShort, played>>

RunSynthEnds(u) ==
  /\ Started(u) /\ ~synthDone[u] /\ synth[u] = Chunks
  /\ synthDone' = [synthDone EXCEPT ![u] = TRUE]
  /\ UNCHANGED <<engineQueue, synth, synthError, drain, bridge, stream, cut, cutShort, played>>

RunSynthRaises_NotDone(u) ==
  /\ Started(u) /\ ~synthDone[u] /\ ~synthError[u] /\ synth[u] < Chunks
  /\ synth' = [synth EXCEPT ![u] = Chunks + 1]
  /\ synthError' = [synthError EXCEPT ![u] = TRUE]
  /\ UNCHANGED <<engineQueue, synthDone, drain, bridge, stream, cut, cutShort, played>>
RunSynthRaises(u) ==
  /\ Started(u) /\ ~synthDone[u]
  /\ synthDone' = [synthDone EXCEPT ![u] = TRUE]
  /\ synthError' = [synthError EXCEPT ![u] = TRUE]
  /\ UNCHANGED <<engineQueue, synth, drain, bridge, stream, cut, cutShort, played>>

RunSynth(u) == Puts(u) \/ RunSynthEnds(u) \/ RunSynthRaises(u)

(* The drain thread                                                         *)
SafePost(u, item) ==
  bridge' = [bridge EXCEPT ![u] = IF ConsumerGone(u) THEN @ ELSE Append(@, item)]

Drains(u) == drain' = [drain EXCEPT ![u] = "polls"]

Gets(u) ==
  /\ drain[u] = "polls" /\ engineQueue # <<>>
  /\ SafePost(u, Head(engineQueue)) /\ engineQueue' = Tail(engineQueue)
  /\ UNCHANGED <<synth, synthDone, synthError, drain, stream, cut, cutShort, played>>

GetsEmpty(u) ==
  /\ drain[u] = "polls" /\ engineQueue = <<>>
  /\ drain' = [drain EXCEPT ![u] = "empty"]
  /\ UNCHANGED <<engineQueue, synth, synthDone, synthError, bridge, stream, cut, cutShort, played>>

(* synth_done is looked at only now.                                        *)
SeesDone_AnyEmpty(u) == TRUE
SeesDone(u) == synthDone[u]

ChecksDone(u) ==
  /\ drain[u] = "empty"
  /\ IF SeesDone(u)
     THEN /\ SafePost(u, End)
          /\ drain' = [drain EXCEPT ![u] = "gone"]
          /\ cutShort' = [cutShort EXCEPT ![u] = engineQueue # <<>>]
     ELSE Drains(u) /\ UNCHANGED <<bridge, cutShort>>
  /\ UNCHANGED <<engineQueue, synth, synthDone, synthError, stream, cut, played>>

SeesConsumerGone(u) ==
  /\ drain[u] = "polls" /\ ConsumerGone(u)
  /\ drain' = [drain EXCEPT ![u] = "gone"]
  /\ UNCHANGED <<engineQueue, synth, synthDone, synthError, bridge, stream, cut, cutShort, played>>

DrainQueue(u) == Gets(u) \/ GetsEmpty(u) \/ ChecksDone(u) \/ SeesConsumerGone(u)

(* The generator                                                            *)
Yields(u) ==
  /\ stream[u] = "streams" /\ bridge[u] # <<>>
  /\ bridge' = [bridge EXCEPT ![u] = Tail(@)]
  /\ IF Head(bridge[u]) = End
     THEN stream' = [stream EXCEPT ![u] = "joins"] /\ UNCHANGED played
     ELSE played' = [played EXCEPT ![u] = Append(@, Head(bridge[u]))] /\ UNCHANGED stream
  /\ UNCHANGED <<engineQueue, synth, synthDone, synthError, drain, cut, cutShort>>

(* The candidate speaks, or the session closes: cancelled at its await.     *)
Interrupted(u) ==
  /\ stream[u] = "streams"
  /\ stream' = [stream EXCEPT ![u] = "joins"]
  /\ cut' = [cut EXCEPT ![u] = TRUE]
  /\ UNCHANGED <<engineQueue, synth, synthDone, synthError, drain, bridge, cutShort, played>>

(* The synthesis may outlast its join(timeout=2.0); the drain thread, which *)
(* polls every 50 ms, does not.  A synth_error is raised here.              *)
Joins(u) ==
  /\ stream[u] = "joins" /\ drain[u] = "gone"
  /\ stream' = [stream EXCEPT ![u] = "closed"]
  /\ bridge' = [bridge EXCEPT ![u] = <<>>] /\ played' = [played EXCEPT ![u] = <<>>]
  /\ UNCHANGED <<engineQueue, synth, synthDone, synthError, drain, cut, cutShort>>
=============================================================================
