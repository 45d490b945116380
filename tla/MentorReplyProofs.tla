--------------------------- MODULE MentorReplyProofs ---------------------------
(***************************************************************************)
(* Theorems about MentorReply, for any number of events, utterances, chunks *)
(* and retries.                                                             *)
(***************************************************************************)
EXTENDS MentorReply, SequenceTheorems, WellFoundedInduction, TLAPS

(* Induction, for sets of numbers.                                          *)
LEMMA NatSetInduction ==
  ASSUME NEW P \in SUBSET Nat, 0 \in P, \A n \in P : n + 1 \in P
  PROVE  P = Nat
<1> DEFINE R == OpToRel(<, Nat)
           T == Nat \ P
<1>1. IsWellFoundedOn(R, Nat)
  BY NatLessThanWellFounded
<1>2. R = {p \in Nat \X Nat : p[1] < p[2]}
  BY DEF OpToRel
<1> HIDE DEF R
<1> SUFFICES ASSUME T # {} PROVE FALSE
  OBVIOUS
<1>3. PICK x \in T : \A y \in T : ~(<<y, x>> \in R)
  BY <1>1, WFMin
<1>4. x - 1 \in Nat /\ <<x - 1, x>> \in R
  BY <1>2, <1>3
<1>5. x - 1 \in P  BY <1>3, <1>4
<1>6. QED  BY <1>3, <1>5

-----------------------------------------------------------------------------
(* What Transcripts makes of a batch                                        *)

Events == [type : EventType, t : Nat, text : Nat]
IsTurn(e) == e.type = "turn_end"

(* The recursion of Transcripts, on the first m of the events s.            *)
Collects(c, s, m) ==
  c = [n \in 0 .. m |->
        IF n = 0 THEN <<>>
        ELSE IF s[n].type = "turn_end" THEN Append(c[n - 1], s[n].text)
        ELSE c[n - 1]]

LEMMA CollectsSteps ==
  ASSUME NEW c, NEW s, NEW m \in Nat, Collects(c, s, m)
  PROVE  /\ c[0] = <<>>
         /\ \A n \in 1 .. m :
              c[n] = IF IsTurn(s[n]) THEN Append(c[n - 1], s[n].text) ELSE c[n - 1]
<1> DEFINE F(n) == IF n = 0 THEN <<>>
                   ELSE IF s[n].type = "turn_end" THEN Append(c[n - 1], s[n].text)
                   ELSE c[n - 1]
<1>1. c = [n \in 0 .. m |-> F(n)]
  BY DEF Collects
<1>2. \A n \in 0 .. m : [k \in 0 .. m |-> F(k)][n] = F(n)
  OBVIOUS
<1> HIDE DEF F
<1>3. \A n \in 0 .. m : c[n] = F(n)
  BY <1>1, <1>2
<1> USE DEF F
<1>4. \A n \in 1 .. m : n \in 0 .. m /\ n # 0
  OBVIOUS
<1>5. QED  BY <1>3, <1>4 DEF IsTurn

LEMMA CollectsExists ==
  ASSUME NEW s, NEW m \in Nat
  PROVE  \E c : Collects(c, s, m)
<1> DEFINE P == {n \in Nat : \E c : Collects(c, s, n)}
<1>1. 0 \in P
  <2> DEFINE c == [n \in 0 .. 0 |-> <<>>]
  <2>1. Collects(c, s, 0)  BY DEF Collects
  <2>2. QED  BY <2>1
<1>2. ASSUME NEW n \in P PROVE n + 1 \in P
  <2>1. PICK c : Collects(c, s, n)  OBVIOUS
  <2> DEFINE last == IF s[n + 1].type = "turn_end" THEN Append(c[n], s[n + 1].text) ELSE c[n]
             d == [k \in 0 .. n + 1 |-> IF k = n + 1 THEN last ELSE c[k]]
             e == [k \in 0 .. n + 1 |->
                    IF k = 0 THEN <<>>
                    ELSE IF s[k].type = "turn_end" THEN Append(d[k - 1], s[k].text)
                    ELSE d[k - 1]]
  <2>2. n \in Nat  OBVIOUS
  <2>3. ASSUME NEW k \in 0 .. n + 1 PROVE d[k] = e[k]
    <3>1. CASE k = 0  BY <3>1, <2>1, <2>2, CollectsSteps
    <3>2. CASE k = n + 1
      <4>1. k # 0 /\ k - 1 = n /\ d[k - 1] = c[n] /\ d[k] = last  BY <3>2, <2>2
      <4>2. QED  BY <4>1, <3>2
    <3>3. CASE k \in 1 .. n
      <4>1. d[k] = c[k] /\ d[k - 1] = c[k - 1] /\ k # 0  BY <3>3, <2>2
      <4>2. c[k] = IF s[k].type = "turn_end" THEN Append(c[k - 1], s[k].text) ELSE c[k - 1]
        BY <3>3, <2>1, <2>2, CollectsSteps DEF IsTurn
      <4>3. QED  BY <4>1, <4>2
    <3>4. QED  BY <3>1, <3>2, <3>3, <2>2
  <2>4. d = e
    <3> HIDE DEF last
    <3>1. QED  BY <2>3
  <2>5. Collects(d, s, n + 1)
    BY <2>4 DEF Collects
  <2>6. QED  BY <2>2, <2>5
<1> HIDE DEF P
<1>3. P = Nat
  <2>1. P \in SUBSET Nat  BY DEF P
  <2>2. QED  BY <1>1, <1>2, <2>1, NatSetInduction
<1>4. QED  BY <1>3 DEF P

LEMMA TranscriptsCollected ==
  ASSUME NEW s \in Seq(Events)
  PROVE  \E c : Collects(c, s, Len(s)) /\ Transcripts(s) = c[Len(s)]
<1>1. Len(s) \in Nat  BY LenProperties
<1> DEFINE c == CHOOSE d : Collects(d, s, Len(s))
<1>2. Collects(c, s, Len(s))
  BY <1>1, CollectsExists
<1>3. Transcripts(s) = c[Len(s)]
  BY DEF Transcripts, Collects
<1>4. QED  BY <1>2, <1>3

(* What is collected of m events does not depend on what follows them.      *)
LEMMA CollectsSame ==
  ASSUME NEW s, NEW t, NEW k \in Nat, NEW m \in Nat, NEW n \in Nat, k <= m, k <= n,
         \A i \in 1 .. k : s[i] = t[i],
         NEW c, Collects(c, s, m), NEW d, Collects(d, t, n)
  PROVE  c[k] = d[k]
<1> DEFINE P == {i \in Nat : i <= k => c[i] = d[i]}
<1>1. 0 \in P
  BY CollectsSteps
<1>2. ASSUME NEW i \in P PROVE i + 1 \in P
  <2> SUFFICES ASSUME i + 1 <= k PROVE c[i + 1] = d[i + 1]
    OBVIOUS
  <2>1. i \in Nat /\ c[i] = d[i] /\ s[i + 1] = t[i + 1]  OBVIOUS
  <2>2. i + 1 \in 1 .. m /\ i + 1 \in 1 .. n /\ (i + 1) - 1 = i  BY <2>1
  <2>3. c[i + 1] = IF IsTurn(s[i + 1]) THEN Append(c[i], s[i + 1].text) ELSE c[i]
    BY <2>2, CollectsSteps
  <2>4. d[i + 1] = IF IsTurn(t[i + 1]) THEN Append(d[i], t[i + 1].text) ELSE d[i]
    BY <2>2, CollectsSteps
  <2>5. QED  BY <2>1, <2>3, <2>4
<1>3. P = Nat
  <2> HIDE DEF P
  <2>1. P \in SUBSET Nat  BY DEF P
  <2>2. QED  BY <1>1, <1>2, <2>1, NatSetInduction
<1>4. QED  BY <1>3

LEMMA TranscriptsEmpty == Transcripts(<<>>) = <<>>
<1>1. <<>> \in Seq(Events) /\ Len(<<>>) = 0  BY EmptySeq
<1>2. PICK c : Collects(c, <<>>, 0) /\ Transcripts(<<>>) = c[0]
  BY <1>1, TranscriptsCollected
<1>3. QED  BY <1>2, CollectsSteps

LEMMA TranscriptsAppend ==
  ASSUME NEW s \in Seq(Events), NEW e \in Events
  PROVE  Transcripts(Append(s, e)) =
           IF IsTurn(e) THEN Append(Transcripts(s), e.text) ELSE Transcripts(s)
<1> DEFINE n == Len(s)
           t == Append(s, e)
<1>1. /\ n \in Nat /\ t \in Seq(Events) /\ Len(t) = n + 1 /\ t[n + 1] = e
      /\ \A i \in 1 .. n : s[i] = t[i]
  BY LenProperties, AppendProperties
<1>2. PICK c : Collects(c, s, n) /\ Transcripts(s) = c[n]
  BY TranscriptsCollected
<1>3. PICK d : Collects(d, t, n + 1) /\ Transcripts(t) = d[n + 1]
  BY <1>1, TranscriptsCollected
<1> HIDE DEF n, t
<1>4. c[n] = d[n]
  BY <1>1, <1>2, <1>3, CollectsSame
<1>5. n + 1 \in Nat /\ n + 1 \in 1 .. n + 1 /\ (n + 1) - 1 = n  BY <1>1
<1>6. d[n + 1] = IF IsTurn(e) THEN Append(d[n], e.text) ELSE d[n]
  BY <1>1, <1>3, <1>5, CollectsSteps
<1>7. QED  BY <1>2, <1>3, <1>4, <1>6 DEF t

LEMMA AppendToConcat ==
  ASSUME NEW a \in Seq(Nat), NEW b \in Seq(Nat), NEW x \in Nat
  PROVE  Append(a \o b, x) = a \o Append(b, x)
<1>1. a \o b \in Seq(Nat) /\ <<x>> \in Seq(Nat)
  BY ConcatProperties
<1>2. Append(a \o b, x) = (a \o b) \o <<x>> /\ Append(b, x) = b \o <<x>>
  BY <1>1, AppendIsConcat
<1>3. QED  BY <1>1, <1>2, ConcatAssociative

(* Induction on sequences of events, by their length.                       *)
LEMMA EventsInduction ==
  ASSUME NEW P \in SUBSET Seq(Events), <<>> \in P,
         \A s \in P : \A e \in Events : Append(s, e) \in P
  PROVE  P = Seq(Events)
<1> DEFINE L == {n \in Nat : \A s \in Seq(Events) : Len(s) = n => s \in P}
<1>1. 0 \in L
  BY EmptySeq
<1>2. ASSUME NEW n \in L PROVE n + 1 \in L
  <2> SUFFICES ASSUME NEW s \in Seq(Events), Len(s) = n + 1 PROVE s \in P
    OBVIOUS
  <2>1. s # <<>>  BY EmptySeq
  <2>2. PICK r \in Seq(Events), e \in Events : s = Append(r, e)
    BY <2>1, SequenceEmptyOrAppend
  <2>3. Len(r) \in Nat /\ Len(s) = Len(r) + 1
    BY <2>2, LenProperties, AppendProperties
  <2>4. Len(r) = n  BY <2>3
  <2>5. QED  BY <2>2, <2>4
<1>3. L = Nat
  <2> HIDE DEF L
  <2>1. L \in SUBSET Nat  BY DEF L
  <2>2. QED  BY <1>1, <1>2, <2>1, NatSetInduction
<1>4. ASSUME NEW s \in Seq(Events) PROVE s \in P
  BY <1>3, LenProperties
<1>5. QED  BY <1>4

LEMMA TranscriptsType ==
  ASSUME NEW s \in Seq(Events)
  PROVE  Transcripts(s) \in Seq(Nat)
<1> DEFINE P == {r \in Seq(Events) : Transcripts(r) \in Seq(Nat)}
<1>1. <<>> \in P
  BY TranscriptsEmpty, EmptySeq
<1>2. ASSUME NEW r \in P, NEW e \in Events PROVE Append(r, e) \in P
  <2>1. e.text \in Nat  BY DEF Events
  <2>2. Append(Transcripts(r), e.text) \in Seq(Nat)  BY <2>1, AppendProperties
  <2>3. Append(r, e) \in Seq(Events)  BY AppendProperties
  <2>4. QED  BY <2>2, <2>3, TranscriptsAppend
<1>3. P = Seq(Events)
  <2> HIDE DEF P
  <2>1. P \in SUBSET Seq(Events)  BY DEF P
  <2>2. QED  BY <1>1, <1>2, <2>1, EventsInduction
<1>4. QED  BY <1>3

(* Two batches, one put in front of the other.                              *)
LEMMA TranscriptsConcat ==
  ASSUME NEW s \in Seq(Events), NEW t \in Seq(Events)
  PROVE  Transcripts(s \o t) = Transcripts(s) \o Transcripts(t)
<1> DEFINE P == {r \in Seq(Events) : Transcripts(s \o r) = Transcripts(s) \o Transcripts(r)}
<1>1. <<>> \in P
  BY TranscriptsEmpty, TranscriptsType, EmptySeq, ConcatEmptySeq
<1>2. ASSUME NEW r \in P, NEW e \in Events PROVE Append(r, e) \in P
  <2>1. r \in Seq(Events) /\ s \o r \in Seq(Events) /\ Append(r, e) \in Seq(Events)
    BY ConcatProperties, AppendProperties
  <2>2. s \o Append(r, e) = Append(s \o r, e)
    BY <2>1
  <2>3. /\ Transcripts(s) \in Seq(Nat) /\ Transcripts(r) \in Seq(Nat)
        /\ Transcripts(s \o r) = Transcripts(s) \o Transcripts(r)
    BY <2>1, TranscriptsType
  <2>4. e.text \in Nat  BY DEF Events
  <2>5. CASE IsTurn(e)
    <3>1. Transcripts(s \o Append(r, e)) = Append(Transcripts(s) \o Transcripts(r), e.text)
      BY <2>1, <2>2, <2>3, <2>5, TranscriptsAppend
    <3>2. Transcripts(Append(r, e)) = Append(Transcripts(r), e.text)
      BY <2>1, <2>5, TranscriptsAppend
    <3>3. Append(Transcripts(s) \o Transcripts(r), e.text)
            = Transcripts(s) \o Append(Transcripts(r), e.text)
      BY ONLY <2>3, <2>4, AppendToConcat
    <3>4. QED  BY <2>1, <3>1, <3>2, <3>3
  <2>6. CASE ~IsTurn(e)
    BY <2>1, <2>2, <2>3, <2>6, TranscriptsAppend
  <2>7. QED  BY <2>5, <2>6
<1>3. P = Seq(Events)
  <2> HIDE DEF P
  <2>1. P \in SUBSET Seq(Events)  BY DEF P
  <2>2. QED  BY <1>1, <1>2, <2>1, EventsInduction
<1>4. QED  BY <1>3

-----------------------------------------------------------------------------
(* EVERY TURN SETTLED ONCE                                                  *)

(* A dispatch is under way for exactly the batch that is not over; the turns *)
(* that are not settled are the ones in hand.                               *)
BatchTypes ==
  /\ pending \in Seq(Events) /\ batch \in Seq(Events)
  /\ settled \in Seq(Nat) /\ said \in Nat
  /\ step = "idle" => batch = <<>>

Count(n) == [i \in 1 .. n |-> i]
SettledInv == BatchTypes /\ settled \o Transcripts(batch) \o Transcripts(pending) = Count(said)

LEMMA InHandTypes ==
  ASSUME BatchTypes
  PROVE  /\ Transcripts(batch) \in Seq(Nat) /\ Transcripts(pending) \in Seq(Nat)
         /\ settled \o Transcripts(batch) \in Seq(Nat)
BY TranscriptsType, ConcatProperties DEF BatchTypes

LEMMA CoalescedTranscripts == \A s : Coalesce(s).transcripts = Transcripts(s)
BY DEF Coalesce

LEMMA CountGrows ==
  ASSUME NEW n \in Nat
  PROVE  Count(n + 1) = Append(Count(n), n + 1)
<1>1. Count(n) \in Seq(Nat) /\ Len(Count(n)) = n /\ \A i \in 1 .. n : Count(n)[i] = i
  BY DEF Count
<1>2. QED
  BY <1>1 DEF Count

LEMMA HandleCounts ==
  ASSUME SettledInv, Handle
  PROVE  SettledInv'
<1> DEFINE b == settled \o Transcripts(batch)
           p == Transcripts(pending)
<1>1. PICK type \in Fired, t \in Stamps :
        /\ said' = IF type = "turn_end" THEN said + 1 ELSE said
        /\ pending' = Append(pending, [type |-> type, t |-> t, text |-> said'])
  BY DEF Handle
<1> DEFINE e == [type |-> type, t |-> t, text |-> said']
<1>2. UNCHANGED <<batch, settled, step>>  BY DEF Handle, dispatch
<1>3. /\ b \in Seq(Nat) /\ p \in Seq(Nat) /\ b \o p = Count(said)
      /\ pending \in Seq(Events) /\ said \in Nat
  BY InHandTypes DEF SettledInv, BatchTypes
<1>4. said' \in Nat /\ e \in Events
  BY <1>1, <1>3, ReplyAssumption DEF Events
<1>5. pending' \in Seq(Events)
  BY <1>1, <1>3, <1>4, AppendProperties
<1>6. BatchTypes'
  BY <1>2, <1>4, <1>5 DEF SettledInv, BatchTypes
<1>7. Transcripts(pending') = IF type = "turn_end" THEN Append(p, said') ELSE p
  <2>1. Transcripts(Append(pending, e)) = IF IsTurn(e) THEN Append(p, e.text) ELSE p
    BY <1>3, <1>4, TranscriptsAppend
  <2>2. QED  BY <2>1, <1>1 DEF IsTurn
<1> HIDE DEF b, p
<1>8. b \o Transcripts(pending') = Count(said')
  <2>1. CASE type = "turn_end"
    <3>1. b \o Append(p, said') = Append(b \o p, said')
      BY ONLY <1>3, <1>4, AppendToConcat
    <3>2. said' = said + 1 /\ Count(said + 1) = Append(Count(said), said + 1)
      BY <2>1, <1>1, <1>3, CountGrows
    <3>3. QED  BY <2>1, <3>1, <3>2, <1>3, <1>7
  <2>2. CASE type # "turn_end"  BY <2>2, <1>1, <1>3, <1>7
  <2>3. QED  BY <2>1, <2>2
<1>9. QED
  BY <1>2, <1>6, <1>8 DEF SettledInv, b

LEMMA DispatchCounts ==
  ASSUME SettledInv, Dispatch
  PROVE  SettledInv'
<1>1. /\ step = "idle" /\ batch = <<>> /\ step' # "idle"
      /\ batch' = pending /\ pending' = <<>> /\ UNCHANGED <<settled, said>>
  BY DEF Dispatch, SettledInv, BatchTypes
<1>2. BatchTypes'
  BY <1>1, EmptySeq DEF SettledInv, BatchTypes
<1>3. /\ settled \in Seq(Nat) /\ Transcripts(pending) \in Seq(Nat)
      /\ (settled \o <<>>) \o Transcripts(pending) = Count(said)
  BY <1>1, InHandTypes, TranscriptsEmpty DEF SettledInv, BatchTypes
<1>4. settled \o Transcripts(pending) \in Seq(Nat) /\ settled \o <<>> = settled
  BY <1>3, ConcatProperties, ConcatEmptySeq
<1>5. (settled \o Transcripts(pending)) \o <<>> = Count(said)
  BY <1>3, <1>4, ConcatEmptySeq
<1>6. QED  BY <1>1, <1>2, <1>5, TranscriptsEmpty DEF SettledInv

LEMMA SettleCounts ==
  ASSUME SettledInv, Settles
  PROVE  SettledInv'
<1>1. /\ settled' = settled \o Transcripts(batch)
      /\ batch' = <<>> /\ UNCHANGED <<pending, said>>
  BY CoalescedTranscripts DEF Settles, Answered
<1>2. settled' \in Seq(Nat) /\ settled' \o <<>> = settled'
  BY <1>1, InHandTypes, ConcatEmptySeq DEF SettledInv
<1>3. BatchTypes'
  BY <1>1, <1>2, EmptySeq DEF SettledInv, BatchTypes
<1>4. QED  BY <1>1, <1>2, <1>3, TranscriptsEmpty DEF SettledInv

LEMMA PutBackCounts ==
  ASSUME SettledInv, TakenBack
  PROVE  SettledInv'
<1>1. pending' = batch \o pending /\ batch' = <<>> /\ UNCHANGED <<settled, said>>
  BY DEF TakenBack, PutBack
<1>2. BatchTypes'
  BY <1>1, EmptySeq, ConcatProperties DEF SettledInv, BatchTypes
<1>3. Transcripts(pending') = Transcripts(batch) \o Transcripts(pending)
  BY <1>1, TranscriptsConcat DEF SettledInv, BatchTypes
<1>4. (settled \o <<>>) \o Transcripts(pending') = Count(said)
  <2>1. settled \in Seq(Nat) /\ Transcripts(batch) \in Seq(Nat) /\ Transcripts(pending) \in Seq(Nat)
    BY InHandTypes DEF SettledInv, BatchTypes
  <2>2. (settled \o Transcripts(batch)) \o Transcripts(pending)
          = settled \o (Transcripts(batch) \o Transcripts(pending))
    BY ONLY <2>1, ConcatAssociative
  <2>3. settled \o <<>> = settled  BY ONLY <2>1, ConcatEmptySeq
  <2>4. QED  BY <2>2, <2>3, <1>3 DEF SettledInv
<1>5. QED  BY <1>1, <1>2, <1>4, TranscriptsEmpty DEF SettledInv

LEMMA SettledInit == Init => SettledInv
<1> SUFFICES ASSUME Init PROVE SettledInv
  OBVIOUS
<1>1. BatchTypes  BY EmptySeq DEF Init, BatchTypes
<1>2. (<<>> \o <<>>) \o <<>> = Count(0)
  BY EmptySeq, ConcatEmptySeq DEF Count
<1>3. QED  BY <1>1, <1>2, TranscriptsEmpty DEF Init, SettledInv

LEMMA SettledNext == SettledInv /\ [Next]_vars => SettledInv'
<1> SUFFICES ASSUME SettledInv, [Next]_vars PROVE SettledInv'
  OBVIOUS
<1>1. CASE Handle  BY <1>1, HandleCounts
<1>2. CASE Dispatch  BY <1>2, DispatchCounts
<1>3. CASE Loads \/ Concludes
  <2>1. CASE Settles  BY <2>1, SettleCounts
  <2>2. CASE ~Settles
    <3>1. UNCHANGED turns /\ step' # "idle"
      BY <1>3, <2>2 DEF Loads, Concludes, LoadFails, ReachesCap, Asks, Applies, ApplyRaises
    <3>2. QED  BY <3>1 DEF turns, SettledInv, BatchTypes
  <2>3. QED  BY <2>1, <2>2
<1>4. CASE TakenBack  BY <1>4, PutBackCounts
<1>5. CASE Returns
  <2>1. UNCHANGED turns /\ step' # "idle"
    BY <1>5 DEF Returns
  <2>2. QED  BY <2>1 DEF turns, SettledInv, BatchTypes
<1>6. CASE UNCHANGED router
  BY <1>6 DEF router, turns, dispatch, SettledInv, BatchTypes
<1>7. QED
  BY <1>1, <1>2, <1>3, <1>4, <1>5, <1>6
  DEF Next, Sdk, Says, Consumes, BargesIn, Closes, SynthThread, DrainThread, vars

THEOREM SettledInvariant == Spec => []SettledInv
BY SettledInit, SettledNext, PTL DEF Spec

(* events/coalescer.py:62-69, router.py:251-254: every turn that is not       *)
(* waiting has gone with one batch, in the order the turns were taken, and    *)
(* was in the prompt if the brain answered for that batch; for any number of  *)
(* turns, batches and interruptions.                                          *)
THEOREM EveryTurnSettled == Spec => []TurnsSettleOnce
<1>1. SettledInv => TurnsSettleOnce
  BY DEF SettledInv, Count, TurnsSettleOnce
<1>2. QED
  BY <1>1, SettledInvariant, PTL

-----------------------------------------------------------------------------
(* EVERY COST IS COUNTED                                                    *)

(* What was charged for the call under way is the charge of its answer.     *)
ChargeInv ==
  \/ abandoned
  \/ call = "waiting" /\ charged = 0 /\ counted = 0
  \/ call = "ready" /\ charged = charge
  \/ call = "idle" /\ charged = counted

(* A call runs only in the dispatch that asks; after it the state was       *)
(* charged, and a capped dispatch changes nothing of that.                  *)
CostInv ==
  /\ ChargeInv
  /\ call # "idle" => step = "asking"
  /\ step \notin {"asking", "applying"} \/ (step = "applying" /\ outcome = "capped")
       => stored = charged \/ abandoned \/ unapplied

LEMMA CallKeeps ==
  ASSUME ChargeInv,
         Decide \/ Generates \/ Abandons \/ (\E a \in Answers : Receives(a)) \/ UNCHANGED brain
  PROVE  ChargeInv'
<1>1. CASE Decide  BY <1>1 DEF Decide, ChargeInv
<1>2. CASE Generates  BY <1>2 DEF Generates, ChargeInv
<1>3. CASE Abandons  BY <1>3 DEF Abandons, ChargeInv
<1>4. ASSUME NEW a \in Answers, Receives(a) PROVE ChargeInv'
  BY <1>4 DEF Receives, UsageOf, Finishes, ChargeInv
<1>5. CASE UNCHANGED brain  BY <1>5 DEF brain, ChargeInv
<1>6. QED  BY <1>1, <1>2, <1>3, <1>4, <1>5

LEMMA CostInvInductive == CostInv /\ [Next]_vars => CostInv'
<1> SUFFICES ASSUME CostInv, [Next]_vars PROVE CostInv'
  OBVIOUS
<1>1. CASE Handle \/ Says \/ Consumes \/ BargesIn \/ Closes
           \/ (\E u \in Utterances : SynthThread(u) \/ DrainThread(u)) \/ UNCHANGED vars
  <2>1. UNCHANGED <<dispatch, brain>>
    BY <1>1 DEF Handle, Says, Consumes, BargesIn, Closes, SynthThread, DrainThread, router, vars
  <2>2. QED  BY <2>1 DEF dispatch, brain, CostInv, ChargeInv
<1>2. CASE Dispatch \/ LoadFails \/ ReachesCap
  <2>1. /\ step \in {"idle", "loading"} /\ UNCHANGED <<stored, unapplied, brain>>
        /\ step' = "applying" => outcome' = "capped"
        /\ step' # "asking"
    BY <1>2 DEF Dispatch, LoadFails, ReachesCap, Settles
  <2>2. QED  BY <2>1 DEF brain, CostInv, ChargeInv
<1>3. CASE Asks
  BY <1>3, CallKeeps DEF Asks, Decide, CostInv
<1>4. CASE Returns
  <2>1. /\ call' = "idle" /\ step' = "applying" /\ outcome' # "capped"
        /\ Abandons \/ \E a \in Answers : Receives(a)
    BY <1>4 DEF Returns, Replies, GoesWithout, FailsQuietly, TimesOut, Raises, Receives, Finishes
  <2>2. QED  BY <2>1, CallKeeps DEF CostInv
<1>5. CASE Concludes
  <2>1. /\ step = "applying" /\ step' = "idle" /\ UNCHANGED brain /\ (Stores \/ Misses)
    BY <1>5 DEF Concludes, Applies, ApplyRaises, Settles
  <2>2. QED  BY <2>1 DEF Stores, Misses, brain, CostInv, ChargeInv
<1>6. CASE TakenBack
  <2>1. step' = "idle" /\ Cancels  BY <1>6 DEF TakenBack
  <2>2. CASE step = "asking" /\ Cancelled
    BY <2>1, <2>2 DEF Cancelled, Abandons, Finishes, CostInv, ChargeInv
  <2>3. CASE step = "loading" /\ UNCHANGED <<stored, unapplied, brain>>
    BY <2>1, <2>3 DEF brain, CostInv, ChargeInv
  <2>4. CASE step = "applying" /\ (Stores \/ Misses) /\ UNCHANGED brain
    BY <2>1, <2>4 DEF Stores, Misses, brain, CostInv, ChargeInv
  <2>5. QED  BY <2>1, <2>2, <2>3, <2>4 DEF Cancels
<1>7. CASE Sdk
  <2>1. call # "idle" /\ UNCHANGED dispatch /\ (Generates \/ Abandons)
    BY <1>7 DEF Sdk, Generates, Retries, Abandons, router
  <2>2. QED  BY <2>1, CallKeeps DEF dispatch, CostInv
<1>8. QED
  BY <1>1, <1>2, <1>3, <1>4, <1>5, <1>6, <1>7 DEF Next, Loads

(* brain/client.py:236-293, router.py:342-370: what the provider charged    *)
(* for a call is in the session's cost when its dispatch is over, whatever  *)
(* the answer and however many retries, unless an attempt was abandoned or  *)
(* the decision was not stored.                                             *)
THEOREM EveryCostCounted == Spec => []CostIsCounted
<1>1. Init => CostInv
  BY DEF Init, BrainInit, ChargeInv, CostInv
<1>2. CostInv => CostIsCounted
  BY DEF CostInv, CostIsCounted
<1>3. QED
  BY <1>1, <1>2, CostInvInductive, PTL DEF Spec

-----------------------------------------------------------------------------
(* EVERY UTTERANCE PLAYS ITS OWN                                            *)

Chunk == Utterances \X (Nat \ {0})
Item == Chunk \cup {End}

(* Chunks of one utterance come in their order.                             *)
Less(c, d) == c[1] = d[1] /\ c # End => c[2] < d[2]
Sorted(s) == \A i, j \in DOMAIN s : i < j => Less(s[i], s[j])
Ahead(cs, ds) == \A c \in cs : \A d \in ds : Less(c, d)

LEMMA ChunkParts ==
  ASSUME NEW c \in Chunk
  PROVE  /\ c[1] \in Utterances /\ c[1] \in Nat \ {0} /\ c[2] \in Nat \ {0} /\ c # End
         /\ c \in Item /\ Less(c, End) /\ Less(End, c)
<1>1. c[1] \in Utterances /\ c[2] \in Nat \ {0}  BY DEF Chunk
<1>2. c[1] \in Nat /\ c[1] # 0  BY <1>1, StreamAssumption
<1>3. End[1] = 0  BY DEF End
<1>4. c # End  BY <1>2, <1>3
<1>5. QED  BY <1>1, <1>2, <1>3, <1>4 DEF Item, Less

LEMMA SetOfEmpty == ToSet(<<>>) = {} /\ Sorted(<<>>)
BY DEF ToSet, Sorted

LEMMA SetOfAppend ==
  ASSUME NEW S, NEW s \in Seq(S), NEW x \in S
  PROVE  /\ Append(s, x) \in Seq(S) /\ ToSet(s) \subseteq S
         /\ ToSet(Append(s, x)) = ToSet(s) \cup {x}
         /\ Sorted(s) /\ (\A c \in ToSet(s) : Less(c, x)) => Sorted(Append(s, x))
<1> DEFINE n == Len(s)
           t == Append(s, x)
<1>1. /\ n \in Nat /\ DOMAIN s = 1 .. n /\ \A i \in 1 .. n : s[i] \in S
      /\ t \in Seq(S) /\ DOMAIN t = 1 .. n + 1
      /\ t[n + 1] = x /\ \A i \in 1 .. n : t[i] = s[i]
  BY LenProperties, AppendProperties, ElementOfSeq
<1> HIDE DEF n, t
<1>2. \A i \in 1 .. n + 1 : i \in 1 .. n \/ i = n + 1
  BY <1>1
<1>3. \A i \in 1 .. n : i \in 1 .. n + 1
  BY <1>1
<1>4. n + 1 \in 1 .. n + 1  BY <1>1
<1>5. ToSet(t) = ToSet(s) \cup {x} /\ ToSet(s) \subseteq S
  BY <1>1, <1>2, <1>3, <1>4 DEF ToSet
<1>6. ASSUME Sorted(s), \A c \in ToSet(s) : Less(c, x)
      PROVE  Sorted(t)
  <2> SUFFICES ASSUME NEW i \in 1 .. n + 1, NEW j \in 1 .. n + 1, i < j
               PROVE  Less(t[i], t[j])
    BY <1>1 DEF Sorted
  <2>1. i \in 1 .. n  BY <1>1
  <2>2. CASE j = n + 1
    <3>1. s[i] \in ToSet(s)  BY <2>1, <1>1 DEF ToSet
    <3>2. QED  BY <2>1, <2>2, <3>1, <1>1, <1>6
  <2>3. CASE j \in 1 .. n
    BY <2>1, <2>3, <1>1, <1>6 DEF Sorted
  <2>4. QED  BY <2>2, <2>3, <1>2
<1>7. QED  BY <1>1, <1>5, <1>6 DEF t

LEMMA SetOfTail ==
  ASSUME NEW S, NEW s \in Seq(S), s # <<>>
  PROVE  /\ Tail(s) \in Seq(S) /\ Head(s) \in S
         /\ ToSet(s) = ToSet(Tail(s)) \cup {Head(s)}
         /\ Sorted(s) => Sorted(Tail(s)) /\ \A d \in ToSet(Tail(s)) : Less(Head(s), d)
<1> DEFINE n == Len(s)
           t == Tail(s)
           h == Head(s)
<1>1. /\ n \in Nat \ {0} /\ DOMAIN s = 1 .. n /\ h = s[1] /\ h \in S
      /\ t \in Seq(S) /\ Len(t) = n - 1
      /\ \A i \in 1 .. n - 1 : t[i] = s[i + 1]
  BY EmptySeq, LenProperties, HeadTailProperties, ElementOfSeq
<1>2. DOMAIN t = 1 .. n - 1  BY <1>1, LenProperties
<1> HIDE DEF n, t, h
<1>3. \A i \in 1 .. n - 1 : i + 1 \in 1 .. n /\ 1 < i + 1
  BY <1>1
<1>4. \A i \in 1 .. n : i = 1 \/ (i - 1 \in 1 .. n - 1 /\ (i - 1) + 1 = i)
  BY <1>1
<1>5. 1 \in 1 .. n  BY <1>1
<1>6. ToSet(s) = ToSet(t) \cup {h}
  <2>1. ASSUME NEW i \in 1 .. n PROVE s[i] \in ToSet(t) \cup {h}
    <3>1. CASE i = 1  BY <3>1, <1>1
    <3>2. CASE i # 1
      <4>1. i - 1 \in 1 .. n - 1 /\ (i - 1) + 1 = i  BY <3>2, <1>4
      <4>2. t[i - 1] = s[(i - 1) + 1]  BY <4>1, <1>1
      <4>3. t[i - 1] = s[i]  BY <4>1, <4>2
      <4>4. QED  BY <4>1, <4>3, <1>2 DEF ToSet
    <3>3. QED  BY <3>1, <3>2
  <2>2. ASSUME NEW i \in 1 .. n - 1 PROVE t[i] \in ToSet(s)
    BY <1>1, <1>3 DEF ToSet
  <2>3. h \in ToSet(s)  BY <1>1, <1>5 DEF ToSet
  <2>4. QED  BY <2>1, <2>2, <2>3, <1>1, <1>2 DEF ToSet
<1>7. ASSUME Sorted(s) PROVE Sorted(t) /\ \A d \in ToSet(t) : Less(h, d)
  <2>1. ASSUME NEW i \in 1 .. n - 1, NEW j \in 1 .. n - 1, i < j PROVE Less(t[i], t[j])
    <3>1. i + 1 < j + 1 /\ i + 1 \in 1 .. n /\ j + 1 \in 1 .. n
      BY <2>1, <1>1
    <3>2. Less(s[i + 1], s[j + 1])  BY <3>1, <1>1, <1>7 DEF Sorted
    <3>3. QED  BY <3>2, <1>1
  <2>2. ASSUME NEW i \in 1 .. n - 1 PROVE Less(h, t[i])
    BY <1>1, <1>3, <1>5, <1>7 DEF Sorted
  <2>3. QED  BY <2>1, <2>2, <1>2 DEF Sorted, ToSet
<1>8. QED  BY <1>1, <1>6, <1>7 DEF t, h

-----------------------------------------------------------------------------
StreamTypes ==
  /\ engineQueue \in Seq(Chunk) /\ synth \in [Utterances -> Nat]
  /\ bridge \in [Utterances -> Seq(Item)] /\ played \in [Utterances -> Seq(Chunk)]
  /\ drain \in [Utterances -> {"none", "polls", "empty", "gone"}]
  /\ stream \in [Utterances -> {"none", "streams", "joins", "closed"}]
  /\ synthDone \in [Utterances -> BOOLEAN]
  /\ cut \in [Utterances -> BOOLEAN] /\ cutShort \in [Utterances -> BOOLEAN]

Unfinished(u) == cut[u] \/ cutShort[u]
Left(u) == \E c \in ToSet(engineQueue) : c[1] = u

(* Utterances are said in their order, one at a time.                       *)
TurnInv(u) ==
  /\ \A v \in Utterances : v < u /\ Started(u) => Started(v)
  /\ stream[u] \in {"streams", "joins"} => \A v \in Utterances : Started(v) => v <= u

(* A drain thread that is gone has left nothing in the queue and nothing    *)
(* will come, unless its stream was interrupted or cut short.               *)
ThreadInv(u) ==
  /\ Started(u) <=> drain[u] # "none"
  /\ stream[u] = "closed" => drain[u] = "gone"
  /\ stream[u] \in {"joins", "closed"} => cut[u] \/ drain[u] = "gone"
  /\ drain[u] = "gone" => Unfinished(u) \/ (synthDone[u] /\ ~Left(u))
  /\ cutShort[u] => drain[u] = "gone"
  /\ End \in ToSet(bridge[u]) => drain[u] = "gone"

Known(c) == c[2] <= synth[c[1]] /\ Started(c[1])
Own(u, c) == c[1] = u \/ (c[1] < u /\ Unfinished(c[1]))
Heard(u) == ToSet(played[u]) \cup ToSet(bridge[u])

FlowInv(u) ==
  /\ \A c \in Heard(u) \ {End} : Known(c) /\ Own(u, c)
  /\ Sorted(played[u]) /\ Sorted(bridge[u])
  /\ Ahead(ToSet(played[u]), ToSet(bridge[u])) /\ Ahead(Heard(u), ToSet(engineQueue))

QueueInv == Sorted(engineQueue) /\ \A c \in ToSet(engineQueue) : Known(c)

LifeInv == \A u \in Utterances : TurnInv(u) /\ ThreadInv(u)
StreamInv ==
  /\ StreamTypes /\ LifeInv /\ QueueInv
  /\ \A u \in Utterances : FlowInv(u)

LEMMA ItemSets ==
  ASSUME StreamTypes
  PROVE  /\ ToSet(engineQueue) \subseteq Chunk
         /\ \A u \in Utterances :
              /\ ToSet(played[u]) \subseteq Chunk /\ ToSet(bridge[u]) \subseteq Item
              /\ Heard(u) \ {End} \subseteq Chunk
<1>1. \A S : \A s \in Seq(S) : ToSet(s) \subseteq S
  BY LenProperties, ElementOfSeq DEF ToSet
<1>2. QED  BY <1>1 DEF StreamTypes, Heard, Item

(* Nothing that was known, started or unfinished ceases to be.              *)
Monotone ==
  \A v \in Utterances :
    /\ Unfinished(v) => Unfinished(v)'
    /\ Started(v) => Started(v)'
    /\ synth[v] <= synth'[v]

LEMMA KnownStays ==
  ASSUME StreamTypes, StreamTypes', Monotone, NEW c \in Chunk
  PROVE  /\ Known(c) => Known(c)'
         /\ \A u \in Utterances : Own(u, c) => Own(u, c)'
<1>1. c[1] \in Utterances /\ c[2] \in Nat  BY ChunkParts
<1>2. synth[c[1]] \in Nat /\ synth'[c[1]] \in Nat /\ synth[c[1]] <= synth'[c[1]]
  BY <1>1 DEF StreamTypes, Monotone
<1>3. Known(c) => Known(c)'
  BY <1>1, <1>2 DEF Known, Monotone
<1>4. QED  BY <1>1, <1>3 DEF Own, Monotone

(* What is heard in an utterance that the step does not concern.            *)
LEMMA FlowKept ==
  ASSUME StreamTypes, StreamTypes', Monotone, NEW u \in Utterances, FlowInv(u),
         played'[u] = played[u], bridge'[u] = bridge[u],
         \A d \in ToSet(engineQueue') :
           d \in ToSet(engineQueue) \/ \A c \in Heard(u) : Less(c, d)
  PROVE  FlowInv(u)'
<1>1. Heard(u)' = Heard(u)  BY DEF Heard
<1>2. \A c \in Heard(u) \ {End} : Known(c)' /\ Own(u, c)'
  BY ItemSets, KnownStays DEF FlowInv
<1>3. Ahead(Heard(u), ToSet(engineQueue'))  BY DEF Ahead, FlowInv
<1>4. QED  BY <1>1, <1>2, <1>3 DEF FlowInv, Ahead

(* A step that leaves queue, bridges and what was played alone.             *)
LEMMA AllFlowsKept ==
  ASSUME StreamInv, StreamTypes', Monotone, UNCHANGED <<engineQueue, bridge, played>>
  PROVE  QueueInv' /\ \A u \in Utterances : FlowInv(u)'
<1>1. \A u \in Utterances : FlowInv(u)'
  BY FlowKept DEF StreamInv
<1>2. \A c \in ToSet(engineQueue) : Known(c)'
  BY ItemSets, KnownStays DEF StreamInv, QueueInv
<1>3. QED  BY <1>1, <1>2 DEF StreamInv, QueueInv

-----------------------------------------------------------------------------
LEMMA SayStarts ==
  ASSUME StreamInv, Says
  PROVE  StreamInv'
<1>1. PICK u \in Utterances : (u > 1 => Started(u - 1)) /\ Synthesize(u)
  BY DEF Says
<1>2. \A v \in Utterances : stream[v] \notin {"streams", "joins"}
  BY DEF Says, Blocked
<1>3. /\ stream[u] = "none" /\ stream' = [stream EXCEPT ![u] = "streams"]
      /\ drain' = [drain EXCEPT ![u] = "polls"]
      /\ UNCHANGED <<engineQueue, synth, synthDone, bridge, cut, cutShort, played>>
  BY <1>1 DEF Synthesize
<1>4. StreamTypes'
  BY <1>3 DEF StreamInv, StreamTypes
<1>5. \A v \in Utterances : IF v = u THEN stream'[v] = "streams" /\ drain'[v] = "polls"
                            ELSE stream'[v] = stream[v] /\ drain'[v] = drain[v]
  BY <1>3 DEF StreamInv, StreamTypes
<1>6. Monotone
  BY <1>3, <1>5 DEF Monotone, Unfinished, Started, StreamInv, StreamTypes
<1>7. \A v \in Utterances : v \in Nat \ {0}
  BY StreamAssumption
<1>8. ASSUME NEW v \in Utterances PROVE TurnInv(v)'
  <2>1. ASSUME NEW w \in Utterances, w < v, Started(v)' PROVE Started(w)'
    <3>1. CASE v = u
      <4>1. w <= u - 1 /\ u > 1 /\ u - 1 \in Utterances
        BY <2>1, <3>1, <1>7, StreamAssumption
      <4>2. Started(w)
        BY <4>1, <1>1, <1>7 DEF StreamInv, LifeInv, TurnInv
      <4>3. QED  BY <4>2, <1>5 DEF Started
    <3>2. CASE v # u
      BY <2>1, <3>2, <1>5 DEF Started, StreamInv, LifeInv, TurnInv
    <3>3. QED  BY <3>1, <3>2
  <2>2. ASSUME stream'[v] \in {"streams", "joins"}, NEW w \in Utterances, Started(w)'
        PROVE  w <= v
    <3>1. v = u  BY <2>2, <1>2, <1>5
    <3>2. w = u \/ Started(w)  BY <2>2, <1>5 DEF Started
    <3>3. Started(w) => ~(u < w)
      BY <1>3 DEF StreamInv, LifeInv, TurnInv, Started
    <3>4. QED  BY <3>1, <3>2, <3>3, <1>7
  <2>3. QED  BY <2>1, <2>2 DEF TurnInv
<1>9. ASSUME NEW v \in Utterances PROVE ThreadInv(v)'
  BY <1>3, <1>5 DEF ThreadInv, StreamInv, LifeInv, Unfinished, Left, Started
<1>10. QED
  BY <1>3, <1>4, <1>6, <1>8, <1>9, AllFlowsKept DEF StreamInv, LifeInv

(* The turns are as they were where no stream starts.                       *)
LEMMA TurnsKept ==
  ASSUME StreamInv,
         \A v \in Utterances :
           /\ Started(v)' = Started(v)
           /\ stream'[v] \in {"streams", "joins"} => stream[v] \in {"streams", "joins"}
  PROVE  \A v \in Utterances : TurnInv(v)'
BY DEF StreamInv, LifeInv, TurnInv

LEMMA SynthesisKeeps ==
  ASSUME StreamInv, NEW u \in Utterances, RunSynthEnds(u) \/ RunSynthRaises(u)
  PROVE  StreamInv'
<1>1. /\ synthDone' = [synthDone EXCEPT ![u] = TRUE]
      /\ UNCHANGED <<engineQueue, synth, drain, bridge, stream, cut, cutShort, played>>
  BY DEF RunSynthEnds, RunSynthRaises
<1>2. StreamTypes' /\ Monotone
  BY <1>1 DEF StreamInv, StreamTypes, Monotone, Unfinished, Started
<1>3. \A v \in Utterances : TurnInv(v)'
  BY <1>1, TurnsKept DEF Started
<1>4. \A v \in Utterances : synthDone[v] => synthDone'[v]
  BY <1>1 DEF StreamInv, StreamTypes
<1>5. \A v \in Utterances : ThreadInv(v)'
  BY <1>1, <1>4 DEF ThreadInv, StreamInv, LifeInv, Unfinished, Left, Started
<1>6. QED
  BY <1>1, <1>2, <1>3, <1>5, AllFlowsKept DEF StreamInv, LifeInv

(* A chunk just made comes after every one that is anywhere.                *)
LEMMA PutsKeeps ==
  ASSUME StreamInv, NEW u \in Utterances, Puts(u)
  PROVE  StreamInv'
<1>1. /\ Started(u) /\ ~synthDone[u] /\ synth' = [synth EXCEPT ![u] = @ + 1]
      /\ engineQueue' = Append(engineQueue, <<u, synth[u] + 1>>)
      /\ UNCHANGED <<synthDone, drain, bridge, stream, cut, cutShort, played>>
  BY DEF Puts
<1>2. synth[u] \in Nat /\ u \in Nat \ {0}
  BY StreamAssumption DEF StreamInv, StreamTypes
<1>3. PICK d \in Chunk : d[1] = u /\ d[2] = synth[u] + 1 /\ engineQueue' = Append(engineQueue, d)
  <2>1. synth[u] + 1 \in Nat \ {0}  BY <1>2
  <2>2. <<u, synth[u] + 1>> \in Chunk  BY <2>1 DEF Chunk
  <2>3. QED  BY <1>1, <2>2
<1>4. /\ engineQueue' \in Seq(Chunk) /\ ToSet(engineQueue') = ToSet(engineQueue) \cup {d}
      /\ (\A c \in ToSet(engineQueue) : Less(c, d)) => Sorted(engineQueue')
  <2>1. engineQueue \in Seq(Chunk) /\ Sorted(engineQueue)
    BY DEF StreamInv, StreamTypes, QueueInv
  <2>2. QED  BY <1>3, <2>1, SetOfAppend
<1>5. \A v \in Utterances : synth'[v] = IF v = u THEN synth[v] + 1 ELSE synth[v]
  BY <1>1 DEF StreamInv, StreamTypes
<1>6. StreamTypes'
  <2>1. synth' \in [Utterances -> Nat]
    BY <1>1, <1>2 DEF StreamInv, StreamTypes
  <2>2. QED  BY <1>1, <1>4, <2>1 DEF StreamInv, StreamTypes
<1>7. Monotone
  BY <1>1, <1>5 DEF Monotone, Unfinished, Started, StreamInv, StreamTypes
<1>8. ASSUME NEW c \in Chunk, Known(c) PROVE Less(c, d)
  BY <1>2, <1>3, <1>8, ChunkParts DEF Known, Less
<1>9. \A v \in Utterances : FlowInv(v)'
  <2> SUFFICES ASSUME NEW v \in Utterances PROVE FlowInv(v)'
    OBVIOUS
  <2>1. ASSUME NEW c \in Heard(v) PROVE Less(c, d)
    <3>1. CASE c = End  BY <3>1, <1>3, ChunkParts
    <3>2. CASE c # End  BY <3>2, <1>8, ItemSets DEF StreamInv, FlowInv
    <3>3. QED  BY <3>1, <3>2
  <2>2. QED
    BY <1>1, <1>4, <1>6, <1>7, <2>1, FlowKept DEF StreamInv
<1>10. QueueInv'
  <2>1. ToSet(engineQueue) \subseteq Chunk  BY ItemSets DEF StreamInv
  <2>2. Sorted(engineQueue')
    BY <1>4, <1>8, <2>1 DEF StreamInv, QueueInv
  <2>3. Known(d)'
    BY <1>1, <1>2, <1>3, <1>5 DEF Known, Started
  <2>4. \A c \in ToSet(engineQueue) : Known(c)'
    BY <1>6, <1>7, <2>1, KnownStays DEF StreamInv, QueueInv
  <2>5. QED  BY <1>4, <2>2, <2>3, <2>4 DEF QueueInv
<1>11. \A v \in Utterances : TurnInv(v)'
  BY <1>1, TurnsKept DEF Started
<1>12. ASSUME NEW v \in Utterances PROVE ThreadInv(v)'
  <2>1. v # u => (Left(v)' <=> Left(v))
    BY <1>3, <1>4 DEF Left
  <2>2. drain[u] = "gone" => Unfinished(u)
    BY <1>1 DEF StreamInv, LifeInv, ThreadInv
  <2>3. QED
    BY <1>1, <2>1, <2>2 DEF ThreadInv, StreamInv, LifeInv, Unfinished, Started
<1>13. QED
  BY <1>6, <1>9, <1>10, <1>11, <1>12 DEF StreamInv, LifeInv

(* A chunk found in the queue is the reader's own, or of an utterance whose *)
(* stream closed before it had been read out.                               *)
LEMMA QueuedIsOwn ==
  ASSUME StreamInv, NEW u \in Utterances, stream[u] = "streams", NEW c \in ToSet(engineQueue)
  PROVE  Own(u, c)
<1> DEFINE v == c[1]
<1>1. v \in Utterances /\ Started(v) /\ \A w \in Utterances : w \in Nat
  BY ItemSets, ChunkParts, StreamAssumption DEF StreamInv, QueueInv, Known
<1>2. Started(u)  BY DEF Started
<1>3. v <= u  BY <1>1 DEF StreamInv, LifeInv, TurnInv
<1>4. CASE v < u
  <2>1. stream[v] \notin {"streams", "joins"}
    BY <1>1, <1>2, <1>4 DEF StreamInv, LifeInv, TurnInv
  <2>2. stream[v] = "closed"
    BY <1>1, <2>1 DEF StreamInv, StreamTypes, Started
  <2>3. Left(v)  BY DEF Left
  <2>4. Unfinished(v)
    BY <1>1, <2>2, <2>3 DEF StreamInv, LifeInv, ThreadInv
  <2>5. QED  BY <1>4, <2>4 DEF Own
<1>5. QED  BY <1>1, <1>3, <1>4 DEF Own

LEMMA GetsKeeps ==
  ASSUME StreamInv, NEW u \in Utterances, Gets(u)
  PROVE  StreamInv'
<1>1. PICK h \in Chunk : h = Head(engineQueue) /\ h \in ToSet(engineQueue)
  BY SetOfTail DEF Gets, StreamInv, StreamTypes
<1>2. /\ drain[u] = "polls" /\ engineQueue' = Tail(engineQueue)
      /\ bridge' = [bridge EXCEPT ![u] = IF ConsumerGone(u) THEN @ ELSE Append(@, h)]
      /\ UNCHANGED <<synth, synthDone, drain, stream, cut, cutShort, played>>
  BY <1>1 DEF Gets, SafePost
<1>3. /\ engineQueue' \in Seq(Chunk) /\ Sorted(engineQueue')
      /\ ToSet(engineQueue) = ToSet(engineQueue') \cup {h}
      /\ \A d \in ToSet(engineQueue') : Less(h, d)
  <2>1. engineQueue \in Seq(Chunk) /\ engineQueue # <<>> /\ Sorted(engineQueue)
    BY DEF Gets, StreamInv, StreamTypes, QueueInv
  <2>2. QED  BY <1>1, <1>2, <2>1, SetOfTail
<1>4. \A v \in Utterances :
        bridge'[v] = IF v = u /\ ~ConsumerGone(u) THEN Append(bridge[v], h) ELSE bridge[v]
  BY <1>2 DEF StreamInv, StreamTypes
<1>5. h \in Item /\ h # End /\ \A v \in Utterances : bridge[v] \in Seq(Item)
  BY ChunkParts DEF StreamInv, StreamTypes
<1>6. \A v \in Utterances : Append(bridge[v], h) \in Seq(Item)
  BY <1>5, SetOfAppend
<1>7. StreamTypes'
  <2>1. \A v \in Utterances : bridge'[v] \in Seq(Item)
    BY <1>4, <1>5, <1>6
  <2>2. bridge' \in [Utterances -> Seq(Item)]
    BY <1>2, <2>1 DEF StreamInv, StreamTypes
  <2>3. QED  BY <1>2, <1>3, <2>2 DEF StreamInv, StreamTypes
<1>8. Monotone
  BY <1>2 DEF Monotone, Unfinished, Started, StreamInv, StreamTypes
<1>9. ASSUME NEW v \in Utterances, v # u \/ ConsumerGone(u) PROVE FlowInv(v)'
  BY <1>2, <1>3, <1>4, <1>7, <1>8, <1>9, FlowKept DEF StreamInv
<1>10. ASSUME ~ConsumerGone(u) PROVE FlowInv(u)'
  <2>1. stream[u] = "streams"
    BY <1>2, <1>10 DEF StreamInv, StreamTypes, LifeInv, ThreadInv, ConsumerGone, Started
  <2>2. Known(h) /\ Own(u, h)
    BY <1>1, <2>1, QueuedIsOwn DEF StreamInv, QueueInv
  <2>3. /\ Ahead(Heard(u), ToSet(engineQueue)) /\ Sorted(bridge[u]) /\ Sorted(played[u])
        /\ Ahead(ToSet(played[u]), ToSet(bridge[u]))
        /\ \A c \in Heard(u) \ {End} : Known(c) /\ Own(u, c)
    BY DEF StreamInv, FlowInv
  <2>4. \A c \in Heard(u) : Less(c, h)
    BY <1>1, <2>3 DEF Ahead
  <2>5. /\ ToSet(bridge'[u]) = ToSet(bridge[u]) \cup {h} /\ Sorted(bridge'[u])
    BY <1>4, <1>5, <1>10, <2>3, <2>4, SetOfAppend DEF Heard
  <2>6. Heard(u)' = Heard(u) \cup {h}
    BY <1>2, <2>5 DEF Heard
  <2>7. \A c \in Heard(u)' \ {End} : Known(c)' /\ Own(u, c)'
    BY <1>7, <1>8, <2>2, <2>3, <2>6, ItemSets, KnownStays DEF StreamInv
  <2>8. Ahead(Heard(u)', ToSet(engineQueue'))
    BY <1>3, <2>3, <2>6 DEF Ahead
  <2>9. Ahead(ToSet(played[u]), ToSet(bridge'[u]))
    BY <2>3, <2>4, <2>5 DEF Ahead, Heard
  <2>10. QED  BY <1>2, <2>3, <2>5, <2>7, <2>8, <2>9 DEF FlowInv, Ahead
<1>11. QueueInv'
  BY <1>2, <1>3 DEF StreamInv, QueueInv, Known, Started
<1>12. \A v \in Utterances : TurnInv(v)'
  BY <1>2, TurnsKept DEF Started
<1>13. ASSUME NEW v \in Utterances PROVE ThreadInv(v)'
  <2>1. Left(v)' => Left(v)
    BY <1>3 DEF Left
  <2>2. End \in ToSet(bridge'[v]) => End \in ToSet(bridge[v])
    BY <1>4, <1>5, SetOfAppend
  <2>3. QED
    BY <1>2, <2>1, <2>2 DEF ThreadInv, StreamInv, LifeInv, Unfinished, Started
<1>14. QED
  BY <1>7, <1>9, <1>10, <1>11, <1>12, <1>13 DEF StreamInv, LifeInv

(* An Empty, and a consumer that is gone: the thread looks again or leaves. *)
LEMMA PollsKeep ==
  ASSUME StreamInv, NEW u \in Utterances,
         GetsEmpty(u) \/ (ChecksDone(u) /\ ~SeesDone(u)) \/ SeesConsumerGone(u)
  PROVE  StreamInv'
<1>1. PICK d \in {"polls", "empty", "gone"} :
        /\ drain[u] \in {"polls", "empty"} /\ drain' = [drain EXCEPT ![u] = d]
        /\ d = "gone" => drain[u] = "polls" /\ stream[u] \in {"joins", "closed"}
        /\ UNCHANGED <<engineQueue, synth, synthDone, bridge, stream, cut, cutShort, played>>
  BY DEF GetsEmpty, ChecksDone, SeesConsumerGone, Drains, ConsumerGone
<1>2. StreamTypes' /\ Monotone
  BY <1>1 DEF StreamInv, StreamTypes, Monotone, Unfinished, Started
<1>3. \A v \in Utterances : TurnInv(v)'
  BY <1>1, TurnsKept DEF Started
<1>4. \A v \in Utterances : drain'[v] = IF v = u THEN d ELSE drain[v]
  BY <1>1 DEF StreamInv, StreamTypes
<1>5. \A v \in Utterances : ThreadInv(v)'
  BY <1>1, <1>4 DEF ThreadInv, StreamInv, LifeInv, Unfinished, Left, Started
<1>6. QED
  BY <1>1, <1>2, <1>3, <1>5, AllFlowsKept DEF StreamInv, LifeInv

LEMMA EndIsPosted ==
  ASSUME StreamInv, NEW u \in Utterances, ChecksDone(u), SeesDone(u)
  PROVE  StreamInv'
<1>1. /\ drain[u] = "empty" /\ synthDone[u]
      /\ bridge' = [bridge EXCEPT ![u] = IF ConsumerGone(u) THEN @ ELSE Append(@, End)]
      /\ drain' = [drain EXCEPT ![u] = "gone"]
      /\ cutShort' = [cutShort EXCEPT ![u] = engineQueue # <<>>]
      /\ UNCHANGED <<engineQueue, synth, synthDone, stream, cut, played>>
  BY DEF ChecksDone, SeesDone, SafePost
<1>2. End \in Item /\ \A v \in Utterances : bridge[v] \in Seq(Item)
  BY DEF StreamInv, StreamTypes, Item
<1>3. \A v \in Utterances : Append(bridge[v], End) \in Seq(Item)
  BY <1>2, SetOfAppend
<1>4. \A v \in Utterances :
        /\ drain'[v] = IF v = u THEN "gone" ELSE drain[v]
        /\ cutShort'[v] = IF v = u THEN engineQueue # <<>> ELSE cutShort[v]
        /\ bridge'[v] = IF v = u /\ ~ConsumerGone(u) THEN Append(bridge[v], End) ELSE bridge[v]
  BY <1>1 DEF StreamInv, StreamTypes
<1>5. StreamTypes'
  <2>1. \A v \in Utterances : bridge'[v] \in Seq(Item)
    BY <1>2, <1>3, <1>4
  <2>2. bridge' \in [Utterances -> Seq(Item)]
    BY <1>1, <2>1 DEF StreamInv, StreamTypes
  <2>3. QED  BY <1>1, <2>2 DEF StreamInv, StreamTypes
<1>6. ~cutShort[u]
  BY <1>1 DEF StreamInv, LifeInv, ThreadInv
<1>7. Monotone
  BY <1>1, <1>4, <1>6 DEF Monotone, Unfinished, Started, StreamInv, StreamTypes
<1>8. ASSUME NEW v \in Utterances, v # u \/ ConsumerGone(u) PROVE FlowInv(v)'
  BY <1>1, <1>4, <1>5, <1>7, <1>8, FlowKept DEF StreamInv
<1>9. ASSUME ~ConsumerGone(u) PROVE FlowInv(u)'
  <2>1. /\ Ahead(Heard(u), ToSet(engineQueue)) /\ Sorted(bridge[u]) /\ Sorted(played[u])
        /\ Ahead(ToSet(played[u]), ToSet(bridge[u]))
        /\ \A c \in Heard(u) \ {End} : Known(c) /\ Own(u, c)
    BY DEF StreamInv, FlowInv
  <2>2. ToSet(engineQueue) \subseteq Chunk /\ ToSet(played[u]) \subseteq Chunk /\ ToSet(bridge[u]) \subseteq Item
        /\ Heard(u) \ {End} \subseteq Chunk
    BY ItemSets DEF StreamInv
  <2>3. \A c \in Item : Less(c, End)
    BY ChunkParts DEF Item, Less
  <2>4. /\ ToSet(bridge'[u]) = ToSet(bridge[u]) \cup {End} /\ Sorted(bridge'[u])
    BY <1>2, <1>4, <1>9, <2>1, <2>2, <2>3, SetOfAppend
  <2>5. Heard(u)' = Heard(u) \cup {End}
    BY <1>1, <2>4 DEF Heard
  <2>6. \A c \in Heard(u)' \ {End} : Known(c)' /\ Own(u, c)'
    BY <1>5, <1>7, <2>1, <2>2, <2>5, KnownStays DEF StreamInv
  <2>7. Ahead(Heard(u)', ToSet(engineQueue'))
    BY <1>1, <2>1, <2>2, <2>5, ChunkParts DEF Ahead
  <2>8. Ahead(ToSet(played[u]), ToSet(bridge'[u]))
    BY <2>1, <2>2, <2>3, <2>4, ChunkParts DEF Ahead
  <2>9. QED  BY <1>1, <2>1, <2>4, <2>6, <2>7, <2>8 DEF FlowInv, Ahead
<1>10. QueueInv'
  <2>1. \A c \in ToSet(engineQueue) : Known(c)'
    BY <1>5, <1>7, ItemSets, KnownStays DEF StreamInv, QueueInv
  <2>2. QED  BY <1>1, <2>1 DEF StreamInv, QueueInv
<1>11. \A v \in Utterances : TurnInv(v)'
  BY <1>1, TurnsKept DEF Started
<1>12. ASSUME NEW v \in Utterances PROVE ThreadInv(v)'
  <2>1. CASE v # u
    BY <1>1, <1>4, <2>1 DEF ThreadInv, StreamInv, LifeInv, Unfinished, Left, Started
  <2>2. CASE v = u
    <3>1. Started(u)
      BY <1>1 DEF StreamInv, LifeInv, ThreadInv
    <3>2. engineQueue = <<>> => ~Left(u)
      BY SetOfEmpty DEF Left
    <3>3. Unfinished(u)' \/ (synthDone'[u] /\ ~Left(u)')
      BY <1>1, <1>4, <3>2 DEF Unfinished, Left
    <3>4. QED  BY <1>1, <1>4, <2>2, <3>1, <3>3 DEF ThreadInv, Started
  <2>3. QED  BY <2>1, <2>2
<1>13. QED
  BY <1>5, <1>8, <1>9, <1>10, <1>11, <1>12 DEF StreamInv, LifeInv

LEMMA YieldsKeeps ==
  ASSUME StreamInv, NEW u \in Utterances, Yields(u)
  PROVE  StreamInv'
<1>1. PICK h \in Item : h = Head(bridge[u])
  BY SetOfTail DEF Yields, StreamInv, StreamTypes
<1>2. /\ stream[u] = "streams" /\ bridge' = [bridge EXCEPT ![u] = Tail(@)]
      /\ UNCHANGED <<engineQueue, synth, synthDone, drain, cut, cutShort>>
      /\ h = End => stream' = [stream EXCEPT ![u] = "joins"] /\ UNCHANGED played
      /\ h # End => played' = [played EXCEPT ![u] = Append(@, h)] /\ UNCHANGED stream
  BY <1>1 DEF Yields
<1>3. /\ Tail(bridge[u]) \in Seq(Item) /\ Sorted(Tail(bridge[u]))
      /\ ToSet(bridge[u]) = ToSet(Tail(bridge[u])) \cup {h}
      /\ \A d \in ToSet(Tail(bridge[u])) : Less(h, d)
  <2>1. bridge[u] \in Seq(Item) /\ bridge[u] # <<>> /\ Sorted(bridge[u])
    BY DEF Yields, StreamInv, StreamTypes, FlowInv
  <2>2. QED  BY <1>1, <2>1, SetOfTail
<1>4. \A v \in Utterances :
        /\ bridge'[v] = IF v = u THEN Tail(bridge[v]) ELSE bridge[v]
        /\ stream'[v] = IF v = u /\ h = End THEN "joins" ELSE stream[v]
        /\ played'[v] = IF v = u /\ h # End THEN Append(played[v], h) ELSE played[v]
  BY <1>2 DEF StreamInv, StreamTypes
<1>5. h # End => h \in Chunk /\ Append(played[u], h) \in Seq(Chunk)
  BY SetOfAppend DEF Item, StreamInv, StreamTypes
<1>6. StreamTypes'
  <2>1. bridge' \in [Utterances -> Seq(Item)]
    BY <1>2, <1>3 DEF StreamInv, StreamTypes
  <2>2. played' \in [Utterances -> Seq(Chunk)]
    BY <1>2, <1>5 DEF StreamInv, StreamTypes
  <2>3. stream' \in [Utterances -> {"none", "streams", "joins", "closed"}]
    BY <1>2 DEF StreamInv, StreamTypes
  <2>4. QED  BY <1>2, <2>1, <2>2, <2>3 DEF StreamInv, StreamTypes
<1>7. Monotone
  BY <1>2, <1>4 DEF Monotone, Unfinished, Started, StreamInv, StreamTypes
<1>8. ASSUME NEW v \in Utterances, v # u PROVE FlowInv(v)'
  BY <1>2, <1>4, <1>6, <1>7, <1>8, FlowKept DEF StreamInv
<1>9. FlowInv(u)'
  <2>1. /\ Ahead(Heard(u), ToSet(engineQueue)) /\ Sorted(played[u])
        /\ Ahead(ToSet(played[u]), ToSet(bridge[u]))
        /\ \A c \in Heard(u) \ {End} : Known(c) /\ Own(u, c)
    BY DEF StreamInv, FlowInv
  <2>2. /\ ToSet(played'[u]) \subseteq ToSet(played[u]) \cup {h} /\ Sorted(played'[u])
    <3>1. CASE h = End  BY <1>4, <2>1, <3>1
    <3>2. CASE h # End
      <4>1. \A c \in ToSet(played[u]) : Less(c, h)
        BY <1>3, <2>1 DEF Ahead
      <4>2. played[u] \in Seq(Chunk)  BY DEF StreamInv, StreamTypes
      <4>3. QED  BY <1>4, <1>5, <2>1, <3>2, <4>1, <4>2, SetOfAppend
    <3>3. QED  BY <3>1, <3>2
  <2>3. ToSet(bridge'[u]) \subseteq ToSet(bridge[u]) /\ Sorted(bridge'[u])
    BY <1>3, <1>4
  <2>4. Heard(u)' \subseteq Heard(u)
    BY <1>3, <2>2, <2>3 DEF Heard
  <2>5. \A c \in Heard(u)' \ {End} : Known(c)' /\ Own(u, c)'
    BY <1>6, <1>7, <2>1, <2>4, ItemSets, KnownStays DEF StreamInv
  <2>6. Ahead(Heard(u)', ToSet(engineQueue'))
    BY <1>2, <2>1, <2>4 DEF Ahead
  <2>7. Ahead(ToSet(played'[u]), ToSet(bridge'[u]))
    BY <1>3, <1>4, <2>1, <2>2, <2>3 DEF Ahead
  <2>8. QED  BY <2>2, <2>3, <2>5, <2>6, <2>7 DEF FlowInv, Ahead
<1>10. QueueInv'
  <2>1. \A c \in ToSet(engineQueue) : Known(c)'
    BY <1>6, <1>7, ItemSets, KnownStays DEF StreamInv, QueueInv
  <2>2. QED  BY <1>2, <2>1 DEF StreamInv, QueueInv
<1>11. \A v \in Utterances : TurnInv(v)'
  BY <1>2, <1>4, TurnsKept DEF Started
<1>12. ASSUME NEW v \in Utterances PROVE ThreadInv(v)'
  <2>1. End \in ToSet(bridge'[v]) => End \in ToSet(bridge[v])
    BY <1>3, <1>4
  <2>2. h = End => drain[u] = "gone"
    BY <1>3 DEF StreamInv, LifeInv, ThreadInv
  <2>3. QED
    BY <1>2, <1>4, <2>1, <2>2 DEF ThreadInv, StreamInv, LifeInv, Unfinished, Left, Started
<1>13. QED
  BY <1>6, <1>8, <1>9, <1>10, <1>11, <1>12 DEF StreamInv, LifeInv

LEMMA InterruptionKeeps ==
  ASSUME StreamInv, NEW u \in Utterances, Interrupted(u)
  PROVE  StreamInv'
<1>1. /\ stream[u] = "streams" /\ stream' = [stream EXCEPT ![u] = "joins"]
      /\ cut' = [cut EXCEPT ![u] = TRUE]
      /\ UNCHANGED <<engineQueue, synth, synthDone, drain, bridge, cutShort, played>>
  BY DEF Interrupted
<1>2. \A v \in Utterances : IF v = u THEN stream'[v] = "joins" /\ cut'[v]
                            ELSE stream'[v] = stream[v] /\ cut'[v] = cut[v]
  BY <1>1 DEF StreamInv, StreamTypes
<1>3. StreamTypes' /\ Monotone
  BY <1>1, <1>2 DEF StreamInv, StreamTypes, Monotone, Unfinished, Started
<1>4. \A v \in Utterances : TurnInv(v)'
  BY <1>1, <1>2, TurnsKept DEF Started
<1>5. \A v \in Utterances : ThreadInv(v)'
  BY <1>1, <1>2 DEF ThreadInv, StreamInv, LifeInv, Unfinished, Left, Started
<1>6. QED
  BY <1>1, <1>3, <1>4, <1>5, AllFlowsKept DEF StreamInv, LifeInv

LEMMA JoinKeeps ==
  ASSUME StreamInv, NEW u \in Utterances, Joins(u)
  PROVE  StreamInv'
<1>1. /\ stream[u] = "joins" /\ drain[u] = "gone" /\ stream' = [stream EXCEPT ![u] = "closed"]
      /\ bridge' = [bridge EXCEPT ![u] = <<>>] /\ played' = [played EXCEPT ![u] = <<>>]
      /\ UNCHANGED <<engineQueue, synth, synthDone, drain, cut, cutShort>>
  BY DEF Joins
<1>2. \A v \in Utterances :
        IF v = u THEN stream'[v] = "closed" /\ bridge'[v] = <<>> /\ played'[v] = <<>>
        ELSE stream'[v] = stream[v] /\ bridge'[v] = bridge[v] /\ played'[v] = played[v]
  BY <1>1 DEF StreamInv, StreamTypes
<1>3. StreamTypes'
  <2>1. <<>> \in Seq(Item) /\ <<>> \in Seq(Chunk)
    BY EmptySeq
  <2>2. bridge' \in [Utterances -> Seq(Item)] /\ played' \in [Utterances -> Seq(Chunk)]
    BY <1>1, <2>1 DEF StreamInv, StreamTypes
  <2>3. QED  BY <1>1, <2>2 DEF StreamInv, StreamTypes
<1>4. Monotone
  BY <1>1, <1>2 DEF Monotone, Unfinished, Started, StreamInv, StreamTypes
<1>5. ASSUME NEW v \in Utterances PROVE FlowInv(v)'
  <2>1. CASE v = u
    BY <1>2, <2>1, SetOfEmpty DEF FlowInv, Heard, Ahead
  <2>2. CASE v # u
    BY <1>1, <1>2, <1>3, <1>4, <2>2, FlowKept DEF StreamInv
  <2>3. QED  BY <2>1, <2>2
<1>6. QueueInv'
  <2>1. \A c \in ToSet(engineQueue) : Known(c)'
    BY <1>3, <1>4, ItemSets, KnownStays DEF StreamInv, QueueInv
  <2>2. QED  BY <1>1, <2>1 DEF StreamInv, QueueInv
<1>7. \A v \in Utterances : TurnInv(v)'
  BY <1>1, <1>2, TurnsKept DEF Started
<1>8. ASSUME NEW v \in Utterances PROVE ThreadInv(v)'
  <2>1. End \in ToSet(bridge'[v]) => End \in ToSet(bridge[v])
    BY <1>2, SetOfEmpty
  <2>2. QED
    BY <1>1, <1>2, <2>1 DEF ThreadInv, StreamInv, LifeInv, Unfinished, Left, Started
<1>9. QED
  BY <1>3, <1>5, <1>6, <1>7, <1>8 DEF StreamInv, LifeInv

-----------------------------------------------------------------------------
(* The strengthening is inductive.                                          *)
LEMMA StreamInitInv == Init => StreamInv
<1> SUFFICES ASSUME KokoroInit PROVE StreamInv
  BY DEF Init
<1>1. <<>> \in Seq(Item) /\ <<>> \in Seq(Chunk)
  BY EmptySeq
<1>2. StreamTypes
  BY <1>1 DEF KokoroInit, StreamTypes
<1>3. ASSUME NEW u \in Utterances PROVE TurnInv(u) /\ ThreadInv(u) /\ FlowInv(u)
  BY SetOfEmpty DEF KokoroInit, TurnInv, ThreadInv, FlowInv, Heard, Ahead, Started
<1>4. QueueInv
  BY SetOfEmpty DEF KokoroInit, QueueInv
<1>5. QED  BY <1>2, <1>3, <1>4 DEF StreamInv, LifeInv

LEMMA StreamNextInv == StreamInv /\ [Next]_vars => StreamInv'
<1> SUFFICES ASSUME StreamInv, [Next]_vars PROVE StreamInv'
  OBVIOUS
<1>1. CASE UNCHANGED kokoro
  BY <1>1 DEF StreamInv, StreamTypes, LifeInv, TurnInv, ThreadInv, QueueInv, FlowInv, Heard, Ahead,
    Known, Own, Unfinished, Left, Started, kokoro
<1>2. CASE Says
  BY <1>2, SayStarts
<1>3. CASE Consumes
  BY <1>3, YieldsKeeps DEF Consumes
<1>4. CASE BargesIn
  BY <1>4, InterruptionKeeps DEF BargesIn
<1>5. CASE Closes
  BY <1>5, JoinKeeps DEF Closes
<1>6. ASSUME NEW u \in Utterances, SynthThread(u) PROVE StreamInv'
  BY <1>6, PutsKeeps, SynthesisKeeps DEF SynthThread, RunSynth
<1>7. ASSUME NEW u \in Utterances, DrainThread(u) PROVE StreamInv'
  BY <1>7, GetsKeeps, PollsKeep, EndIsPosted DEF DrainThread, DrainQueue
<1>8. Handle \/ Dispatch \/ Loads \/ Returns \/ Concludes \/ TakenBack \/ Sdk \/ UNCHANGED vars
        => UNCHANGED kokoro
  BY DEF Handle, Dispatch, Loads, LoadFails, ReachesCap, Asks, Returns, Concludes, Applies,
    ApplyRaises, Settles, TakenBack, Sdk, vars
<1>9. QED
  BY <1>1, <1>2, <1>3, <1>4, <1>5, <1>6, <1>7, <1>8 DEF Next

(* tts/kokoro.py: what the threads, the queue and the bridges hold at every *)
(* moment, for any number of utterances and of chunks in each.              *)
THEOREM StreamInvariant == Spec => []StreamInv
BY StreamInitInv, StreamNextInv, PTL DEF Spec

(* tts/kokoro.py:107-122: an utterance is heard in its own order, no chunk  *)
(* twice, and with something of an earlier one in it only if that one was   *)
(* interrupted or ended with the queue not empty.                           *)
THEOREM UtterancesPlayTheirOwn == Spec => []PlaysItsOwn
<1>1. StreamInv => PlaysItsOwn
  <2> SUFFICES ASSUME StreamInv, NEW u \in Utterances, NEW i \in DOMAIN played[u]
               PROVE  LET c == played[u][i]
                      IN  /\ c[1] = u \/ (c[1] < u /\ (cut[c[1]] \/ cutShort[c[1]]))
                          /\ \A j \in 1 .. (i - 1) : played[u][j][1] = c[1] => Before(played[u][j], c)
    BY DEF PlaysItsOwn
  <2>1. /\ DOMAIN played[u] = 1 .. Len(played[u]) /\ Len(played[u]) \in Nat
        /\ \A j \in DOMAIN played[u] : played[u][j] \in Chunk
    BY LenProperties, ElementOfSeq DEF StreamInv, StreamTypes
  <2>2. Own(u, played[u][i])
    <3>1. played[u][i] \in Heard(u) \ {End}
      BY <2>1, ChunkParts DEF Heard, ToSet
    <3>2. QED  BY <3>1 DEF StreamInv, FlowInv
  <2>3. ASSUME NEW j \in 1 .. (i - 1) PROVE Less(played[u][j], played[u][i]) /\ played[u][j] # End
    <3>1. j \in DOMAIN played[u] /\ j < i  BY <2>1
    <3>2. QED  BY <2>1, <3>1, ChunkParts DEF StreamInv, FlowInv, Sorted
  <2>4. QED  BY <2>2, <2>3 DEF Own, Unfinished, Less, Before
<1>2. QED  BY <1>1, StreamInvariant, PTL
=============================================================================
