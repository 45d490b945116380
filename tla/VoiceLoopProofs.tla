---------------------------- MODULE VoiceLoopProofs ----------------------------
(***************************************************************************)
(* Proofs about VoiceLoop, for any number of turns, canvas messages,        *)
(* interims and ticks: what turns say is in order and never overlaps, and   *)
(* a quiet agent has told the browser that it listens.                      *)
(***************************************************************************)
EXTENDS VoiceLoop, SequenceTheorems, TLAPS

(* The lock covers everything a turn says.  What has been said is older     *)
(* than what is about to be, and that is older than what is queued.         *)
LockInv == \A t \in Turns : brain /\ phase[t] \in Talking => sayLock = t
OrderInv ==
  /\ Ascending(spoken)
  /\ \A i \in DOMAIN spoken : \A u \in utterances : spoken[i] < u
  /\ \A t \in Turns : brain /\ phase[t] = "starting" =>
       /\ reply[t] \in Serials
       /\ \A i \in DOMAIN spoken : spoken[i] < reply[t]
       /\ \A u \in utterances : reply[t] < u

(* Whoever last published something else than "listening" is still under    *)
(* way, or was cut short.                                                   *)
Busy == {"announcing", "waiting", "starting", "saying", "recording", "failed"}
BusyInv == aiState # "listening" => \E s \in Speakers : phase[s] \in Busy

(* The apology's task is created once.                                      *)
ApologyInv == ~apologised => phase[Apology] = "none"

VoiceInv == TypeOK /\ LockInv /\ OrderInv /\ BusyInv /\ ApologyInv

LEMMA SpeakersApart ==
  /\ \A t \in Turns : t \in Speakers /\ t # Opening /\ t # Apology
  /\ Opening \in Speakers /\ Apology \in Speakers /\ Opening # Apology
  /\ None \notin Turns
BY VoiceAssumption DEF Speakers

LEMMA InitVoice == Init => VoiceInv
<1> SUFFICES ASSUME Init PROVE VoiceInv
  OBVIOUS
<1> USE SpeakersApart, VoiceAssumption DEF Init
<1>1. SpeakerTypeOK
  BY DEF SpeakerTypeOK, Phases
<1>2. QueueTypeOK
  BY DEF QueueTypeOK, Serials
<1>3. ClockTypeOK
  <2>1. clock \in 0 .. MaxClock /\ interims \in 0 .. MaxInterims
    OBVIOUS
  <2>2. brain \in BOOLEAN /\ speaking \in BOOLEAN /\ doneAt \in 0 .. MaxClock \cup {None}
    BY Zenon
  <2> QED
    BY <2>1, <2>2 DEF ClockTypeOK
<1>4. DispatchTypeOK
  <2>1. queued \in Seq(Event) /\ running \in Seq(Event) /\ settled \subseteq Event
    BY DEF Router!Init
  <2>2. stamped \in 0 .. MaxClock
    OBVIOUS
  <2>3. cancelled \in BOOLEAN /\ apologised \in BOOLEAN /\ loop = "none"
    BY Zenon
  <2> QED
    BY <2>1, <2>2, <2>3 DEF DispatchTypeOK
<1>5. LockInv /\ OrderInv
  BY DEF LockInv, OrderInv, Ascending, Talking
<1>6. BusyInv /\ ApologyInv
  BY DEF BusyInv, ApologyInv
<1> QED
  BY <1>1, <1>2, <1>3, <1>4, <1>5, <1>6 DEF VoiceInv, TypeOK

(* The dispatcher's variables and the loop's keep their types.              *)
LEMMA DispatchTyped == DispatchTypeOK /\ ClockTypeOK /\ [Next]_vars => DispatchTypeOK'
<1> SUFFICES ASSUME DispatchTypeOK, ClockTypeOK, [Next]_vars PROVE DispatchTypeOK'
  OBVIOUS
<1> USE DEF DispatchTypeOK, ClockTypeOK
<1>1. CASE UNCHANGED dispatchVars
  BY <1>1 DEF dispatchVars
<1>2. ASSUME NEW e \in Event, Router!Enqueue(e), loop' = SpawnLoop,
             UNCHANGED <<cancelled, stamped, apologised>>
      PROVE  DispatchTypeOK'
  BY <1>2 DEF Router!Enqueue, SpawnLoop
<1>3. CASE Begins
  BY <1>3 DEF Begins, Router!Begin
<1>4. ASSUME NEW what, Concludes(what)
      PROVE  DispatchTypeOK'
  <2>1. queued' \in Seq(Event) /\ running' \in Seq(Event) /\ settled' \subseteq Event
    BY <1>4 DEF Concludes, Router!Finish, Router!Members
  <2>2. loop' \in {"none", "created", "running", "stillborn"} /\ stamped' \in 0 .. MaxClock
    BY <1>4, VoiceAssumption DEF Concludes
  <2>3. cancelled' \in BOOLEAN /\ apologised' \in BOOLEAN
    BY <1>4 DEF Concludes
  <2> QED
    BY <2>1, <2>2, <2>3
<1>5. CASE InterimArrives
  BY <1>5 DEF InterimArrives
<1>6. CASE CancelLands
  <2>1. queued' \in Seq(Event) /\ running' \in Seq(Event) /\ settled' \subseteq Event
    <3>1. CASE UNCHANGED <<queued, running, settled>>
      BY <3>1
    <3>2. CASE Router!PutBack
      BY <3>2, ConcatProperties, EmptySeq DEF Router!PutBack
    <3> QED
      BY <1>6, <3>1, <3>2 DEF CancelLands
  <2>2. stamped' \in 0 .. MaxClock /\ loop' \in {"stillborn", "none"}
    BY <1>6, VoiceAssumption DEF CancelLands
  <2>3. cancelled' \in BOOLEAN /\ UNCHANGED apologised
    BY <1>6, Zenon DEF CancelLands
  <2> QED
    BY <2>1, <2>2, <2>3
<1>7. ASSUME NEW s \in Speakers, SpeakerStep(s)
      PROVE  UNCHANGED dispatchVars
  BY <1>7 DEF SpeakerStep, Says, SayRefused, SayEnds, Recorded, RecordRaises, Closes
<1>8. ASSUME NEW t \in Turns, FinalArrives(t) \/ TurnStep(t)
      PROVE  DispatchTypeOK'
  <2>1. CASE HandsOver(t)
    BY <2>1, <1>2 DEF HandsOver, Event, Router!Accept
  <2>2. CASE FinalArrives(t) \/ TurnAppended(t) \/ AppendRaises(t) \/ Acknowledges(t) \/ Drains(t)
    BY <2>2, <1>1 DEF FinalArrives, TurnAppended, AppendRaises, Acknowledges, Drains
  <2> QED
    BY <1>8, <2>1, <2>2 DEF TurnStep
<1>9. ASSUME NEW c \in Canvases, CanvasArrives(c)
      PROVE  DispatchTypeOK'
  BY <1>9, <1>2 DEF CanvasArrives, Event
<1> QED
  BY <1>1, <1>3, <1>4, <1>5, <1>6, <1>7, <1>8, <1>9
     DEF Next, LoopStep, Tick, OpeningStarts, ApologyStarts, vars

(* The clock, the gate and the published state.                             *)
LEMMA ClockTyped == ClockTypeOK /\ [Next]_vars => ClockTypeOK'
<1> SUFFICES ASSUME ClockTypeOK, [Next]_vars PROVE ClockTypeOK'
  OBVIOUS
<1>1. brain' = brain /\ clock' \in 0 .. MaxClock /\ interims' \in 0 .. MaxInterims
  <2>1. CASE Tick
    BY <2>1, VoiceAssumption DEF Tick, ClockTypeOK
  <2>2. CASE InterimArrives
    BY <2>2, VoiceAssumption DEF InterimArrives, ClockTypeOK
  <2>3. ASSUME NEW t \in Turns, FinalArrives(t) \/ TurnStep(t)
        PROVE  UNCHANGED <<brain, clock, interims>>
    BY <2>3 DEF FinalArrives, TurnStep, TurnAppended, AppendRaises, HandsOver, Acknowledges, Drains
  <2>4. ASSUME NEW s \in Speakers, SpeakerStep(s)
        PROVE  UNCHANGED <<brain, clock, interims>>
    BY <2>4 DEF SpeakerStep, Says, SayRefused, SayEnds, Recorded, RecordRaises, Closes
  <2>5. CASE LoopStep
    BY <2>5 DEF LoopStep, Begins, CancelLands, Concludes, ClockTypeOK
  <2> QED
    BY <2>1, <2>2, <2>3, <2>4, <2>5 DEF Next, OpeningStarts, ApologyStarts, CanvasArrives, vars, ClockTypeOK
<1>2. speaking' \in BOOLEAN /\ doneAt' \in 0 .. MaxClock \cup {None}
  <2> USE DEF ClockTypeOK, gateVars
  <2>1. CASE InterimArrives
    BY <2>1, Zenon DEF InterimArrives
  <2>2. ASSUME NEW t \in Turns, TurnAppended(t)
        PROVE  speaking' \in BOOLEAN /\ doneAt' \in 0 .. MaxClock \cup {None}
    BY <2>2, Zenon DEF TurnAppended
  <2>3. ASSUME NEW t \in Turns, FinalArrives(t) \/ TurnStep(t), ~TurnAppended(t)
        PROVE  UNCHANGED gateVars
    BY <2>3 DEF FinalArrives, TurnStep, AppendRaises, HandsOver, Acknowledges, Drains
  <2>4. ASSUME NEW s \in Speakers, SpeakerStep(s)
        PROVE  UNCHANGED gateVars
    BY <2>4 DEF SpeakerStep, Says, SayRefused, SayEnds, Recorded, RecordRaises, Closes
  <2>5. CASE LoopStep
    BY <2>5 DEF LoopStep, Begins, CancelLands, Concludes
  <2>6. CASE ApologyStarts
    BY <2>6, Zenon DEF ApologyStarts
  <2>7. CASE Tick \/ OpeningStarts \/ UNCHANGED vars \/ \E c \in Canvases : CanvasArrives(c)
    BY <2>7 DEF Tick, OpeningStarts, CanvasArrives, vars
  <2> QED
    BY <2>1, <2>2, <2>3, <2>4, <2>5, <2>6, <2>7 DEF Next
<1> QED
  BY <1>1, <1>2, Zenon DEF ClockTypeOK

LEMMA SpeakerTyped == SpeakerTypeOK /\ ClockTypeOK /\ [Next]_vars => SpeakerTypeOK'
<1> SUFFICES ASSUME SpeakerTypeOK, ClockTypeOK, [Next]_vars PROVE SpeakerTypeOK'
  OBVIOUS
<1> USE SpeakersApart DEF SpeakerTypeOK, Enter, Phases
<1>1. CASE UNCHANGED <<speakerVars, aiState>>
  BY <1>1 DEF speakerVars
<1>2. ASSUME NEW t \in Turns, FinalArrives(t)
      PROVE  SpeakerTypeOK'
  BY <1>2 DEF FinalArrives, ClockTypeOK
<1>3. ASSUME NEW t \in Turns, TurnAppended(t) \/ AppendRaises(t) \/ HandsOver(t) \/ Acknowledges(t)
      PROVE  SpeakerTypeOK'
  BY <1>3 DEF TurnAppended, AppendRaises, HandsOver, Acknowledges
<1>4. ASSUME NEW t \in Turns, Drains(t)
      PROVE  SpeakerTypeOK'
  BY <1>4 DEF Drains, Skips, FindsNothing, Pops, SkipState
<1>5. ASSUME NEW s \in Speakers, SpeakerStep(s)
      PROVE  SpeakerTypeOK'
  BY <1>5 DEF SpeakerStep, Says, SayRefused, SayEnds, Recorded, RecordRaises, Closes, Unlock
<1>6. CASE OpeningStarts \/ ApologyStarts
  BY <1>6 DEF OpeningStarts, ApologyStarts
<1>7. ASSUME NEW what, Concludes(what)
      PROVE  SpeakerTypeOK'
  BY <1>7 DEF Concludes
<1> QED
  BY <1>1, <1>2, <1>3, <1>4, <1>5, <1>6, <1>7
     DEF Next, TurnStep, LoopStep, Tick, CanvasArrives, InterimArrives, Begins, CancelLands, vars

(* The steps that touch neither the queue, nor what is said, nor who holds  *)
(* the lock, and take nobody into a phase that needs it.                    *)
QuietStep ==
  /\ UNCHANGED <<brain, queueVars, reply, spoken, sayLock>>
  /\ \A s \in Speakers : phase'[s] # phase[s] => phase'[s] \notin Talking

LEMMA Steps ==
  ASSUME SpeakerTypeOK, [Next]_vars
  PROVE  \/ QuietStep
         \/ \E t \in Turns : TurnAppended(t) \/ Acknowledges(t) \/ Drains(t)
         \/ \E s \in Speakers : SpeakerStep(s)
         \/ OpeningStarts \/ ApologyStarts
         \/ \E what \in {"speak", "silent", "timeout"} : Concludes(what)
<1> USE SpeakersApart DEF QuietStep, SpeakerTypeOK, Enter, Talking, queueVars
<1>1. ASSUME NEW t \in Turns, FinalArrives(t) \/ AppendRaises(t) \/ HandsOver(t)
      PROVE  QuietStep
  BY <1>1 DEF FinalArrives, AppendRaises, HandsOver
<1>2. CASE Tick \/ InterimArrives \/ Begins \/ CancelLands \/ UNCHANGED vars
  BY <1>2 DEF Tick, InterimArrives, Begins, CancelLands, vars, speakerVars
<1>3. ASSUME NEW c \in Canvases, CanvasArrives(c)
      PROVE  QuietStep
  BY <1>3 DEF CanvasArrives, speakerVars
<1> QED
  BY <1>1, <1>2, <1>3 DEF Next, TurnStep, LoopStep

(* A dispatch that pushes gives its utterance the next serial number.       *)
LEMMA Pushes ==
  ASSUME QueueTypeOK, DispatchTypeOK, NEW what, Concludes(what)
  PROVE  /\ QueueTypeOK'
         /\ Serials \subseteq Serials'
         /\ \A u \in utterances' : u \in utterances \/ \A v \in Serials : v < u
         /\ UNCHANGED <<spoken, reply, sayLock, brain>>
<1> USE DEF QueueTypeOK, Serials
<1>1. UNCHANGED <<spoken, reply, sayLock, brain>>
  BY DEF Concludes
<1>2. CASE what = "speak"
  <2>1. pushed' = Append(pushed, stamped) /\ utterances' = utterances \cup {Len(pushed) + 1}
    BY <1>2 DEF Concludes
  <2>2. pushed' \in Seq(0 .. MaxClock) /\ Len(pushed') = Len(pushed) + 1 /\ Len(pushed) \in Nat
    BY <2>1, AppendProperties DEF DispatchTypeOK
  <2>3. Serials \subseteq Serials'
    BY <2>2
  <2>4. spoken' \in Seq(Serials')
    BY <1>1, <2>3, SeqMonotonic
  <2>5. reply' \in [Turns -> Serials' \cup {0}]
    BY <1>1, <2>3
  <2>6. utterances' \subseteq Serials' /\ \A v \in Serials : v < Len(pushed) + 1
    <3>1. Len(pushed) + 1 \in Serials' /\ \A v \in Serials : v < Len(pushed) + 1
      BY <2>2
    <3>2. utterances' \subseteq Serials'
      BY <2>1, <2>3, <3>1, Zenon
    <3> QED
      BY <3>1, <3>2
  <2>7. QueueTypeOK'
    BY <2>2, <2>4, <2>5, <2>6
  <2>8. \A u \in utterances' : u \in utterances \/ \A v \in Serials : v < u
    BY <2>1, <2>2
  <2> QED
    BY <1>1, <2>3, <2>7, <2>8
<1>3. CASE what # "speak"
  <2>1. UNCHANGED queueVars
    BY <1>3 DEF Concludes
  <2> QED
    BY <1>1, <2>1 DEF queueVars
<1> QED
  BY <1>2, <1>3

LEMMA QueueTyped == VoiceInv /\ [Next]_vars => QueueTypeOK'
<1> SUFFICES ASSUME VoiceInv, [Next]_vars PROVE QueueTypeOK'
  OBVIOUS
<1> USE SpeakersApart DEF VoiceInv, TypeOK, QueueTypeOK, Serials, queueVars
<1>1. CASE QuietStep \/ OpeningStarts \/ ApologyStarts
  BY <1>1 DEF QuietStep, OpeningStarts, ApologyStarts
<1>2. ASSUME NEW t \in Turns, TurnAppended(t) \/ Acknowledges(t)
      PROVE  QueueTypeOK'
  BY <1>2 DEF TurnAppended, Acknowledges, NotSuperseded
<1>3. ASSUME NEW t \in Turns, Drains(t)
      PROVE  QueueTypeOK'
  BY <1>3 DEF Drains, Skips, FindsNothing, Pops, Fresh, Behind
<1>4. ASSUME NEW s \in Speakers, SpeakerStep(s)
      PROVE  QueueTypeOK'
  <2>1. CASE Says(s)
    <3>1. CASE brain /\ s \in Turns
      BY <2>1, <3>1, AppendProperties DEF Says, OrderInv
    <3>2. CASE ~(brain /\ s \in Turns)
      BY <2>1, <3>2 DEF Says
    <3> QED
      BY <3>1, <3>2
  <2>2. CASE SayRefused(s) \/ SayEnds(s) \/ Recorded(s) \/ RecordRaises(s) \/ Closes(s)
    BY <2>2 DEF SayRefused, SayEnds, Recorded, RecordRaises, Closes
  <2> QED
    BY <1>4, <2>1, <2>2 DEF SpeakerStep
<1>5. ASSUME NEW what, Concludes(what)
      PROVE  QueueTypeOK'
  BY <1>5, Pushes
<1> QED
  BY <1>1, <1>2, <1>3, <1>4, <1>5, Steps

LEMMA LockKept == VoiceInv /\ [Next]_vars => LockInv'
<1> SUFFICES ASSUME VoiceInv, [Next]_vars PROVE LockInv'
  OBVIOUS
<1> USE SpeakersApart DEF VoiceInv, TypeOK, SpeakerTypeOK, LockInv, Enter, Talking
<1>1. CASE QuietStep
  BY <1>1 DEF QuietStep
<1>2. CASE OpeningStarts \/ ApologyStarts
  BY <1>2 DEF OpeningStarts, ApologyStarts
<1>3. ASSUME NEW t \in Turns, TurnAppended(t) \/ Acknowledges(t)
      PROVE  LockInv'
  BY <1>3 DEF TurnAppended, Acknowledges
<1>4. ASSUME NEW t \in Turns, Drains(t)
      PROVE  LockInv'
  <2>1. CASE Skips(t)
    BY <1>4, <2>1 DEF Drains, Skips
  <2>2. CASE FindsNothing(t) \/ Pops(t)
    <3>1. sayLock = None /\ sayLock' = t
      BY <2>2 DEF FindsNothing, Pops, MayPop
    <3>2. \A u \in Turns : brain => phase[u] \notin Talking
      BY <3>1
    <3> QED
      BY <1>4, <2>2, <3>1, <3>2 DEF Drains, FindsNothing, Pops
  <2> QED
    BY <1>4, <2>1, <2>2 DEF Drains
<1>5. ASSUME NEW s \in Speakers, SpeakerStep(s)
      PROVE  LockInv'
  BY <1>5 DEF SpeakerStep, Says, SayRefused, SayEnds, Recorded, RecordRaises, Closes, Unlock
<1>6. ASSUME NEW what, Concludes(what)
      PROVE  LockInv'
  BY <1>6 DEF Concludes
<1> QED
  BY <1>1, <1>2, <1>3, <1>4, <1>5, <1>6, Steps

(* What is said stays in order.                                             *)
LEMMA OrderKept == VoiceInv /\ [Next]_vars => OrderInv'
<1> SUFFICES ASSUME VoiceInv, [Next]_vars PROVE OrderInv'
  OBVIOUS
<1> USE SpeakersApart DEF VoiceInv, TypeOK, SpeakerTypeOK, QueueTypeOK, OrderInv, Enter, Talking
<1>1. CASE QuietStep
  <2>1. UNCHANGED <<brain, pushed, utterances, reply, spoken>>
    BY <1>1 DEF QuietStep, queueVars
  <2>2. \A t \in Turns : phase'[t] = "starting" => phase[t] = "starting"
    BY <1>1 DEF QuietStep
  <2> QED
    BY <2>1, <2>2 DEF Serials, Ascending
<1>2. CASE OpeningStarts \/ ApologyStarts
  <2>1. UNCHANGED <<brain, pushed, utterances, reply, spoken>>
    BY <1>2 DEF OpeningStarts, ApologyStarts, queueVars
  <2>2. \A t \in Turns : phase'[t] = phase[t]
    BY <1>2 DEF OpeningStarts, ApologyStarts
  <2> QED
    BY <2>1, <2>2 DEF Serials, Ascending
<1>3. ASSUME NEW t \in Turns, TurnAppended(t) \/ Acknowledges(t)
      PROVE  OrderInv'
  <2>1. UNCHANGED <<brain, pushed, reply, spoken>> /\ utterances' \subseteq utterances
    BY <1>3 DEF TurnAppended, Acknowledges, NotSuperseded, queueVars
  <2>2. \A u \in Turns : brain /\ phase'[u] = "starting" => phase[u] = "starting"
    BY <1>3 DEF TurnAppended, Acknowledges
  <2> QED
    BY <2>1, <2>2 DEF Serials, Ascending
<1>4. ASSUME NEW t \in Turns, Drains(t)
      PROVE  OrderInv'
  <2> USE <1>4 DEF Drains, Serials
  <2>1. CASE Skips(t) \/ FindsNothing(t)
    BY <2>1 DEF Skips, FindsNothing
  <2>2. CASE Pops(t)
    <3>1. PICK u \in Fresh : /\ IsNext(u)
                             /\ reply' = [reply EXCEPT ![t] = u]
                             /\ utterances' = Behind(u)
      BY <2>2 DEF Pops
    <3>2. u \in utterances /\ utterances' \subseteq utterances /\ \A v \in utterances' : u < v
      BY <3>1 DEF Fresh, Behind
    <3>3. \A s \in Turns : s # t => reply'[s] = reply[s] /\ phase'[s] = phase[s]
      BY <2>2, <3>1 DEF Pops
    <3>4. reply'[t] = u /\ UNCHANGED <<brain, pushed, spoken>>
      BY <3>1
    <3>5. u \in 1 .. Len(pushed) /\ \A i \in DOMAIN spoken : spoken[i] < u
      BY <3>2
    <3>6. Ascending(spoken') /\ \A i \in DOMAIN spoken' : \A v \in utterances' : spoken'[i] < v
      BY <3>2, <3>4 DEF Ascending
    <3>7. ASSUME NEW s \in Turns, brain, phase'[s] = "starting"
          PROVE  /\ reply'[s] \in 1 .. Len(pushed)
                 /\ \A i \in DOMAIN spoken : spoken[i] < reply'[s]
                 /\ \A v \in utterances' : reply'[s] < v
      <4>1. CASE s = t
        BY <4>1, <3>2, <3>4, <3>5
      <4>2. CASE s # t
        BY <4>2, <3>2, <3>3, <3>7
      <4> QED
        BY <4>1, <4>2
    <3> QED
      BY <3>4, <3>6, <3>7
  <2> QED
    BY <2>1, <2>2
<1>5. ASSUME NEW s \in Speakers, SpeakerStep(s)
      PROVE  OrderInv'
  <2>1. CASE Says(s) /\ brain /\ s \in Turns
    <3>1. /\ spoken' = Append(spoken, reply[s])
          /\ UNCHANGED <<brain, pushed, utterances, reply>>
          /\ phase[s] = "starting" /\ phase' = [phase EXCEPT ![s] = "saying"]
      BY <2>1 DEF Says, queueVars
    <3>2. \A t \in Turns : phase'[t] # "starting"
      BY <2>1, <3>1 DEF LockInv
    <3>3. /\ DOMAIN spoken' = 1 .. Len(spoken) + 1 /\ DOMAIN spoken = 1 .. Len(spoken)
          /\ \A i \in DOMAIN spoken : spoken'[i] = spoken[i]
          /\ spoken'[Len(spoken) + 1] = reply[s]
          /\ Len(spoken) \in Nat
      BY <2>1, <3>1, AppendProperties
    <3>4. \A i \in DOMAIN spoken : spoken[i] < reply[s]
      BY <2>1, <3>1
    <3>5. Ascending(spoken')
      BY <3>3, <3>4 DEF Ascending
    <3>6. \A i \in DOMAIN spoken' : \A u \in utterances' : spoken'[i] < u
      BY <2>1, <3>1, <3>3
    <3> QED
      BY <3>2, <3>5, <3>6
  <2>2. CASE Says(s) /\ ~(brain /\ s \in Turns)
    BY <2>2 DEF Says, queueVars, Serials
  <2>3. CASE SayRefused(s) \/ SayEnds(s) \/ Recorded(s) \/ RecordRaises(s) \/ Closes(s)
    <3>1. UNCHANGED <<brain, pushed, utterances, reply, spoken>>
      BY <2>3 DEF SayRefused, SayEnds, Recorded, RecordRaises, Closes, queueVars
    <3>2. \A t \in Turns : phase'[t] = "starting" => phase[t] = "starting"
      BY <2>3 DEF SayRefused, SayEnds, Recorded, RecordRaises, Closes
    <3> QED
      BY <3>1, <3>2 DEF Serials, Ascending
  <2> QED
    BY <1>5, <2>1, <2>2, <2>3 DEF SpeakerStep
<1>6. ASSUME NEW what, Concludes(what)
      PROVE  OrderInv'
  <2>1. /\ Serials \subseteq Serials'
        /\ \A u \in utterances' : u \in utterances \/ \A v \in Serials : v < u
        /\ UNCHANGED <<spoken, reply, brain>>
    BY <1>6, Pushes
  <2>2. \A t \in Turns : phase'[t] = phase[t]
    BY <1>6 DEF Concludes
  <2>3. \A i \in DOMAIN spoken : spoken[i] \in Serials
    OBVIOUS
  <2> QED
    BY <2>1, <2>2, <2>3
<1> QED
  BY <1>1, <1>2, <1>3, <1>4, <1>5, <1>6, Steps

(* Whoever is finished or about to finish has published "listening".        *)
LEMMA BusyKept == VoiceInv /\ [Next]_vars => BusyInv' /\ ApologyInv'
<1> SUFFICES ASSUME VoiceInv, [Next]_vars PROVE BusyInv' /\ ApologyInv'
  OBVIOUS
<1> USE SpeakersApart DEF VoiceInv, TypeOK, SpeakerTypeOK, BusyInv, ApologyInv, Busy, Enter
<1>1. CASE UNCHANGED <<phase, aiState, apologised>>
  BY <1>1
<1>2. ASSUME NEW t \in Turns, FinalArrives(t) \/ TurnStep(t)
      PROVE  BusyInv' /\ ApologyInv'
  <2>1. UNCHANGED apologised /\ phase'[Apology] = phase[Apology]
    BY <1>2 DEF FinalArrives, TurnStep, TurnAppended, AppendRaises, HandsOver, Acknowledges,
                Drains, Skips, FindsNothing, Pops, dispatchVars
  <2>2. aiState' = "listening" \/ phase'[t] \in Busy
        \/ (aiState' = aiState /\ phase' = [phase EXCEPT ![t] = "appending"] /\ phase[t] = "none")
    BY <1>2 DEF FinalArrives, TurnStep, TurnAppended, AppendRaises, HandsOver, Acknowledges,
                Drains, Skips, FindsNothing, Pops, SkipState
  <2> QED
    BY <2>1, <2>2
<1>3. ASSUME NEW s \in Speakers, SpeakerStep(s)
      PROVE  BusyInv' /\ ApologyInv'
  <2>1. UNCHANGED apologised /\ (phase[Apology] = "none" => phase'[Apology] = "none")
    BY <1>3 DEF SpeakerStep, Says, SayRefused, SayEnds, Recorded, RecordRaises, Closes, dispatchVars
  <2>2. aiState' = "listening" \/ phase'[s] \in Busy
        \/ (aiState' = aiState /\ phase' = [phase EXCEPT ![s] = "done"] /\ phase[s] = "closing")
    BY <1>3 DEF SpeakerStep, Says, SayRefused, SayEnds, Recorded, RecordRaises, Closes
  <2> QED
    BY <2>1, <2>2
<1>4. CASE OpeningStarts \/ ApologyStarts
  BY <1>4 DEF OpeningStarts, ApologyStarts, dispatchVars
<1>5. ASSUME NEW what, Concludes(what)
      PROVE  BusyInv' /\ ApologyInv'
  BY <1>5 DEF Concludes
<1> QED
  BY <1>1, <1>2, <1>3, <1>4, <1>5
     DEF Next, LoopStep, Tick, CanvasArrives, InterimArrives, Begins, CancelLands, vars,
         dispatchVars, speakerVars
-----------------------------------------------------------------------------
LEMMA VoiceStep == VoiceInv /\ [Next]_vars => VoiceInv'
BY DispatchTyped, ClockTyped, SpeakerTyped, QueueTyped, LockKept, OrderKept, BusyKept
   DEF VoiceInv, TypeOK

LEMMA VoiceInvariant == Spec => []VoiceInv
<1>1. Init => VoiceInv
  BY InitVoice
<1>2. VoiceInv /\ [Next]_vars => VoiceInv'
  BY VoiceStep
<1> QED
  BY <1>1, <1>2, PTL DEF Spec

(* Every variable of the voice loop stays in its type.                      *)
THEOREM VoiceTypeCorrect == Spec => []TypeOK
<1>1. VoiceInv => TypeOK
  BY DEF VoiceInv
<1> QED
  BY <1>1, VoiceInvariant, PTL

(* What turns say is said in the order the brain decided it, one utterance  *)
(* at a time and each at most once, for any number of overlapping turns     *)
(* (main.py:585-595, _say_lock).                                            *)
THEOREM SpeechInOrder == Spec => []SpokenInOrder
<1>1. VoiceInv => SpokenInOrder
  BY SpeakersApart DEF VoiceInv, TypeOK, LockInv, OrderInv, SpokenInOrder
<1> QED
  BY <1>1, VoiceInvariant, PTL

(* When everyone is finished and no turn was cut short, the last state the  *)
(* browser was told is "listening" (main.py:688).                           *)
THEOREM ListensWhenQuiet == Spec => []QuietMeansListening
<1>1. VoiceInv => QuietMeansListening
  BY DEF VoiceInv, BusyInv, Busy, QuietMeansListening
<1> QED
  BY <1>1, VoiceInvariant, PTL
=============================================================================
