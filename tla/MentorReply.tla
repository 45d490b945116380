------------------------------ MODULE MentorReply ------------------------------
(***************************************************************************)
(* From what happens in the session to what the candidate hears: events     *)
(* are coalesced, the brain is asked, its utterance is queued and streamed, *)
(* and a candidate who speaks interrupts all of it.  The router is here     *)
(* only as far as it decides what is put into a prompt; EventRouter has the *)
(* rest of it, and VoiceLoop who speaks when.                               *)
(***************************************************************************)
EXTENDS Coalescer, BrainClient, KokoroStream

CONSTANTS
  Fired,        \* the event types that are fired
  Stamps,
  MaxEvents

ASSUME ReplyAssumption == Fired \subseteq EventType /\ Stamps \subseteq Nat /\ MaxEvents \in Nat

VARIABLES
  pending,      \* the router's queue
  batch,        \* the batch of the dispatch under way
  looping,      \* a dispatch loop runs
  step,         \* of the dispatch: "idle", "loading", "asking", "applying"
  capped,       \* _cost_capped
  outcome,      \* its decision: "none" yet, "capped", "failed" or "answered"
  speaks,       \* the decision has something to say
  said,         \* turns so far; the n-th has the text n
  arrivals,     \* events so far
  settled,      \* history: the turns of the batches that are over
  stored,       \* history: what the state was charged for the last call
  unapplied,    \* history: its decision was made, and may not be in the state
  utterances    \* replies queued and not yet spoken, and those spoken

turns == <<pending, batch, looping, said, arrivals, settled>>
dispatch == <<step, capped, outcome, speaks, stored, unapplied>>
router == <<turns, dispatch>>
vars == <<router, utterances, brain, kokoro>>

Init ==
  /\ BrainInit /\ KokoroInit
  /\ pending = <<>> /\ batch = <<>> /\ looping = FALSE
  /\ step = "idle" /\ capped = FALSE /\ outcome = "none" /\ speaks = FALSE
  /\ said = 0 /\ arrivals = 0 /\ settled = <<>>
  /\ stored = 0 /\ unapplied = FALSE
  /\ utterances = 0

-----------------------------------------------------------------------------
Handle ==
  /\ ~Blocked /\ arrivals < MaxEvents /\ arrivals' = arrivals + 1
  /\ \E type \in Fired, t \in Stamps :
       /\ said' = IF type = "turn_end" THEN said + 1 ELSE said
       /\ pending' = Append(pending, [type |-> type, t |-> t, text |-> said'])
  /\ looping' = TRUE
  /\ UNCHANGED <<batch, settled, dispatch, utterances, brain, kokoro>>

(* The loop takes everything as one batch and loads the state.              *)
Dispatch ==
  /\ ~Blocked /\ looping /\ step = "idle" /\ pending # <<>>
  /\ batch' = pending /\ pending' = <<>> /\ step' = "loading"
  /\ UNCHANGED <<looping, said, arrivals, settled, capped, outcome, speaks, stored, unapplied,
                 utterances, brain, kokoro>>

(* The turns a dispatch is about: if the brain answered, those in its prompt.*)
Answered == IF outcome = "answered" THEN Coalesce(batch).transcripts ELSE Transcripts(batch)

(* A batch is over, and the loop goes on if there is more.                  *)
Settles ==
  /\ ~Blocked
  /\ settled' = settled \o Answered
  /\ batch' = <<>> /\ looping' = (pending # <<>>)
  /\ step' = "idle" /\ outcome' = "none" /\ speaks' = FALSE
  /\ UNCHANGED <<pending, said, arrivals, capped, kokoro>>

(* Redis fails, or the key is gone: the batch is dropped.                   *)
LoadFails == step = "loading" /\ Settles /\ UNCHANGED <<stored, unapplied, utterances, brain>>

(* A dispatch over the cap decides without the brain, and so do all after   *)
(* it.                                                                      *)
ReachesCap ==
  /\ ~Blocked /\ step = "loading" /\ step' = "applying"
  /\ capped' = TRUE /\ outcome' = "capped"
  /\ UNCHANGED <<turns, speaks, stored, unapplied, utterances, brain, kokoro>>

Asks ==
  /\ ~Blocked /\ step = "loading" /\ ~capped /\ Decide /\ step' = "asking"
  /\ stored' = 0 /\ unapplied' = FALSE
  /\ UNCHANGED <<turns, capped, outcome, speaks, utterances, kokoro>>

(* _maybe_push_utterance; an unsure brain's utterance is not queued.        *)
Pushes(answer) == DecisionOf(answer).decision = "speak" /\ answer # "unsure"

Replies(answer) == Receives(answer) /\ outcome' = "answered" /\ speaks' = Pushes(answer)
GoesWithout == (FailsQuietly \/ TimesOut \/ Raises) /\ outcome' = "failed" /\ UNCHANGED speaks

Returns ==
  /\ ~Blocked /\ step = "asking" /\ step' = "applying"
  /\ GoesWithout \/ \E a \in Answers : Replies(a)
  /\ UNCHANGED <<turns, capped, stored, unapplied, utterances, kokoro>>

(* The transaction that adds the decision, its cost with it, to the state;  *)
(* a capped decision costs nothing.                                         *)
Stores == stored' = (IF outcome = "capped" THEN stored ELSE counted) /\ UNCHANGED unapplied
Misses == unapplied' = (unapplied \/ outcome # "capped") /\ UNCHANGED stored

(* The decision is in the state, or the attempts have run out: the dispatch *)
(* goes on to the utterance all the same.                                   *)
Applies ==
  /\ step = "applying" /\ Settles /\ (Stores \/ Misses)
  /\ utterances' = IF speaks THEN utterances + 1 ELSE utterances
  /\ UNCHANGED brain

(* Redis fails, before or after the transaction: the batch is dropped.      *)
ApplyRaises ==
  /\ step = "applying" /\ Settles /\ (Stores \/ Misses)
  /\ UNCHANGED <<utterances, brain>>

(* A barge-in: the batch is put back in front, and no loop goes on; or the  *)
(* cancellation was made into an error, which ends the call like any other. *)
PutBack_Behind == pending' = pending \o batch
PutBack == pending' = batch \o pending

Cancels ==
  \/ step = "loading" /\ UNCHANGED <<stored, unapplied, brain>>
  \/ step = "asking" /\ Cancelled /\ UNCHANGED <<stored, unapplied>>
  \/ step = "applying" /\ (Stores \/ Misses) /\ UNCHANGED brain

TakenBack ==
  /\ ~Blocked /\ Cancels
  /\ PutBack /\ batch' = <<>> /\ looping' = FALSE
  /\ step' = "idle" /\ outcome' = "none" /\ speaks' = FALSE
  /\ UNCHANGED <<said, arrivals, settled, capped, utterances, kokoro>>

Sdk == (Generates \/ Retries) /\ UNCHANGED <<router, utterances, kokoro>>

-----------------------------------------------------------------------------
(* One utterance at a time, under the say lock.                             *)
Says ==
  /\ ~Blocked /\ \A u \in Utterances : stream[u] # "streams"
  /\ \E u \in Utterances :
       u <= utterances /\ (u > 1 => Started(u - 1)) /\ Synthesize(u)
  /\ UNCHANGED <<router, utterances, brain>>

Consumes ==
  /\ ~Blocked /\ \E u \in Utterances : Yields(u)
  /\ UNCHANGED <<router, utterances, brain>>

BargesIn ==
  /\ ~Blocked /\ \E u \in Utterances : Interrupted(u)
  /\ UNCHANGED <<router, utterances, brain>>

Closes == (\E u \in Utterances : Joins(u)) /\ UNCHANGED <<router, utterances, brain>>

SynthThread(u) == RunSynth(u) /\ UNCHANGED <<router, utterances, brain>>
DrainThread(u) == DrainQueue(u) /\ UNCHANGED <<router, utterances, brain>>

-----------------------------------------------------------------------------
Loads == LoadFails \/ ReachesCap \/ Asks
Concludes == Applies \/ ApplyRaises

Next ==
  \/ Handle \/ Dispatch \/ Loads \/ Returns \/ Concludes \/ TakenBack \/ Sdk
  \/ Says \/ Consumes \/ BargesIn \/ Closes
  \/ \E u \in Utterances : SynthThread(u) \/ DrainThread(u)

Spec == Init /\ [][Next]_vars

(* Redis answers or fails, decide() runs under a deadline, threads are      *)
(* scheduled, and an inference, once begun, ends.                           *)
FairSpec ==
  /\ Spec
  /\ WF_vars(Loads) /\ WF_vars(Returns) /\ WF_vars(Concludes)
  /\ WF_vars(Consumes) /\ WF_vars(Closes)
  /\ \A u \in Utterances : WF_vars(SynthThread(u)) /\ WF_vars(DrainThread(u))
-----------------------------------------------------------------------------
(* PROPERTIES                                                               *)

(* events/coalescer.py:62-69, router.py:251-254: a turn that is not waiting *)
(* has gone with exactly one batch, in the order the turns were taken,      *)
(* however often it was put back and prompted again; and if the brain       *)
(* answered for that batch, the turn was in the prompt it answered.         *)
TurnsSettleOnce ==
  settled \o Transcripts(batch) \o Transcripts(pending) = [i \in 1 .. said |-> i]

(* brain/client.py:236-293, router.py:342-370: what the provider charged    *)
(* for a call is in the session's cost when its dispatch is over, whatever  *)
(* the brain answered; unless an attempt of the call was abandoned (it      *)
(* failed, timed out or was cancelled), or its decision was not stored.     *)
CostIsCounted ==
  step \notin {"asking", "applying"} => stored = charged \/ abandoned \/ unapplied

(* tts/kokoro.py:107-122: an utterance is heard in its own order and no     *)
(* chunk twice; what is heard in it of an earlier one comes from a stream   *)
(* that was interrupted or ended with the queue not empty.                  *)
Before(c, d) == c[1] < d[1] \/ (c[1] = d[1] /\ c[2] < d[2])
PlaysItsOwn ==
  \A u \in Utterances : \A i \in DOMAIN played[u] :
    LET c == played[u][i]
    IN  /\ c[1] = u \/ (c[1] < u /\ (cut[c[1]] \/ cutShort[c[1]]))
        /\ \A j \in 1 .. (i - 1) : played[u][j][1] = c[1] => Before(played[u][j], c)

(* router.py:262-318, tts/kokoro.py:124-145: every dispatch and every      *)
(* stream ends, whatever Redis, the provider and the engine do, so neither  *)
(* the router nor the say lock is held for ever.                            *)
RepliesEnd ==
  /\ []<>(step = "idle")
  /\ []<>(\A u \in Utterances : stream[u] \in {"none", "closed"})

(* tts/kokoro.py:108-109: "Drain engine.queue into the asyncio bridge until *)
(* the synth thread is done AND the queue is empty, then signal             *)
(* end-of-stream."                                                          *)
EndsDrained ==
  \A u \in Utterances :
    End \in ToSet(bridge[u]) => \A i \in DOMAIN engineQueue : engineQueue[i][1] # u
=============================================================================
