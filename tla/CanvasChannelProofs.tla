-------------------------- MODULE CanvasChannelProofs --------------------------
(***************************************************************************)
(* Theorems about CanvasChannel, for any scenes, rate limit and number of   *)
(* sends and messages under way.                                            *)
(***************************************************************************)
EXTENDS CanvasChannel, SequenceTheorems, TLAPS

Message == [scene : Scenes, applying : BOOLEAN, passed : BOOLEAN]

(* What the types of the queues have to say.                                *)
QueueTypes ==
  /\ pendingScene \in Scenes \cup {None} /\ sending \in Seq(Scenes)
  /\ mail \in Seq(Message)

(* Messages are passed from the oldest on.                                  *)
PassedInv ==
  \A k, n \in DOMAIN mail : k < n /\ mail[n].passed => mail[k].passed

(* The last message, if it is not passed, is what was committed last; or    *)
(* that is stored.                                                          *)
StoredInv ==
  LET n == Len(mail) IN
    IF n > 0 /\ ~mail[n].passed THEN mail[n].scene = lastFingerprint
    ELSE behind = "no" => canvasState = lastFingerprint

ChannelInv == QueueTypes /\ PassedInv /\ StoredInv

-----------------------------------------------------------------------------
(* Operators                                                                *)

LEMMA Removed ==
  ASSUME NEW S, NEW s \in Seq(S), NEW i \in DOMAIN s
  PROVE  /\ RemoveAt(s, i) \in Seq(S)
         /\ Len(RemoveAt(s, i)) = Len(s) - 1
         /\ \A k \in 1 .. Len(s) - 1 :
              RemoveAt(s, i)[k] = IF k < i THEN s[k] ELSE s[k + 1]
<1> DEFINE a == SubSeq(s, 1, i - 1)
           b == SubSeq(s, i + 1, Len(s))
<1>1. i \in 1 .. Len(s) /\ Len(s) \in Nat /\ \A k \in 1 .. Len(s) : s[k] \in S
  BY LenProperties, ElementOfSeq
<1>2. /\ a \in Seq(S) /\ Len(a) = i - 1
      /\ \A k \in 1 .. i - 1 : a[k] = s[k]
  BY <1>1, SubSeqProperties
<1>3. /\ b \in Seq(S) /\ Len(b) = Len(s) - i
      /\ \A k \in 1 .. Len(s) - i : b[k] = s[i + k]
  <2>1. \A k \in i + 1 .. Len(s) : s[k] \in S  BY <1>1
  <2>2. i + 1 \in Int /\ Len(s) \in Int  BY <1>1
  <2>3. /\ b \in Seq(S) /\ Len(b) = IF i + 1 <= Len(s) THEN Len(s) - (i + 1) + 1 ELSE 0
        /\ \A k \in 1 .. Len(s) - (i + 1) + 1 : b[k] = s[(i + 1) + k - 1]
    BY ONLY <2>1, <2>2, SubSeqProperties
  <2>4. QED  BY <2>3, <1>1
<1> HIDE DEF a, b
<1>4. /\ a \o b \in Seq(S) /\ Len(a \o b) = Len(a) + Len(b)
      /\ \A k \in 1 .. Len(a) + Len(b) : (a \o b)[k] = IF k <= Len(a) THEN a[k] ELSE b[k - Len(a)]
  BY <1>2, <1>3, ConcatProperties
<1>5. RemoveAt(s, i) = a \o b  BY DEF RemoveAt, a, b
<1>6. Len(a) + Len(b) = Len(s) - 1  BY <1>1, <1>2, <1>3
<1>7. ASSUME NEW k \in 1 .. Len(s) - 1
      PROVE  (a \o b)[k] = IF k < i THEN s[k] ELSE s[k + 1]
  <2>1. (a \o b)[k] = IF k <= i - 1 THEN a[k] ELSE b[k - (i - 1)]
    BY <1>2, <1>4, <1>6
  <2>2. CASE k < i
    <3>1. k \in 1 .. i - 1  BY <2>2, <1>1
    <3>2. QED  BY <3>1, <2>1, <2>2, <1>1, <1>2
  <2>3. CASE ~(k < i)
    <3>1. /\ k - (i - 1) \in 1 .. Len(s) - i /\ i + (k - (i - 1)) = k + 1
          /\ ~(k <= i - 1)
      BY <2>3, <1>1
    <3>2. (a \o b)[k] = b[k - (i - 1)]  BY <3>1, <2>1
    <3>3. b[k - (i - 1)] = s[i + (k - (i - 1))]  BY <3>1, <1>3
    <3>4. QED  BY <3>1, <3>2, <3>3, <2>3
  <2>4. QED  BY <2>2, <2>3
<1>8. QED
  BY <1>1, <1>4, <1>5, <1>6, <1>7

(* Those before the i-th are marked.                                        *)
LEMMA Marked ==
  ASSUME QueueTypes, NEW i \in Nat
  PROVE  LET n == Len(mail)
         IN  /\ n \in Nat /\ DOMAIN mail = 1 .. n
             /\ Passed(i) \in Seq(Message) /\ Len(Passed(i)) = n
             /\ \A k \in 1 .. n :
                  IF k < i THEN Passed(i)[k].passed
                  ELSE Passed(i)[k] = mail[k]
<1> DEFINE n == Len(mail)
           P(k) == IF k < i THEN [mail[k] EXCEPT !.passed = TRUE] ELSE mail[k]
<1>1. mail \in Seq(Message)  BY DEF QueueTypes
<1>2. DOMAIN mail = 1 .. n /\ n \in Nat
  BY <1>1, LenProperties
<1>3. ASSUME NEW k \in 1 .. n
      PROVE  /\ P(k) \in Message
             /\ IF k < i THEN P(k).passed
                ELSE P(k) = mail[k]
  <2>1. mail[k] \in Message  BY <1>1, ElementOfSeq
  <2>2. [mail[k] EXCEPT !.passed = TRUE] \in Message  BY <2>1 DEF Message
  <2>3. QED  BY <2>1, <2>2 DEF Message
<1>4. Passed(i) = [k \in 1 .. n |-> P(k)]
  BY <1>2 DEF Passed
<1>5. Passed(i) \in Seq(Message) /\ Len(Passed(i)) = n
  BY <1>2, <1>3, <1>4, IsASeq
<1>6. \A k \in 1 .. n : Passed(i)[k] = P(k)
  BY <1>4
<1> HIDE DEF P
<1>7. QED
  BY <1>2, <1>3, <1>5, <1>6

(* The messages left after the i-th.                                        *)
LEMMA MessageLeaves ==
  ASSUME QueueTypes, NEW i \in DOMAIN mail, DealtWith(i)
  PROVE  LET n == Len(mail)
         IN  /\ n \in Nat /\ DOMAIN mail = 1 .. n
             /\ mail' \in Seq(Message) /\ Len(mail') = n - 1
             /\ DOMAIN mail' = 1 .. n - 1
             /\ \A k \in 1 .. n - 1 :
                  IF k < i THEN mail'[k].passed
                  ELSE mail'[k] = mail[k + 1]
<1> DEFINE n == Len(mail)
           p == Passed(i)
<1>1. i \in Nat  BY LenProperties DEF QueueTypes
<1>2. /\ n \in Nat /\ DOMAIN mail = 1 .. n
      /\ p \in Seq(Message) /\ Len(p) = n
      /\ \A k \in 1 .. n : IF k < i THEN p[k].passed
                            ELSE p[k] = mail[k]
  BY <1>1, Marked
<1> HIDE DEF p
<1>3. i \in DOMAIN p  BY <1>2, LenProperties
<1>4. /\ mail' \in Seq(Message) /\ Len(mail') = n - 1
      /\ \A k \in 1 .. n - 1 : mail'[k] = IF k < i THEN p[k] ELSE p[k + 1]
  BY <1>2, <1>3, Removed DEF p, DealtWith
<1>5. DOMAIN mail' = 1 .. n - 1  BY <1>4, LenProperties
<1> HIDE DEF n
<1>6. ASSUME NEW k \in 1 .. n - 1
      PROVE  IF k < i THEN mail'[k].passed
             ELSE mail'[k] = mail[k + 1]
  <2>1. k \in 1 .. n /\ k + 1 \in 1 .. n  BY <1>2
  <2>2. CASE k < i  BY <2>1, <2>2, <1>2, <1>4
  <2>3. CASE ~(k < i)
    <3>1. ~(k + 1 < i)  BY <2>3, <1>1, <1>2
    <3>2. QED  BY <2>1, <2>3, <3>1, <1>2, <1>4
  <2>4. QED  BY <2>2, <2>3
<1>7. QED
  BY <1>2, <1>4, <1>5, <1>6 DEF n

-----------------------------------------------------------------------------
(* Steps                                                                    *)

(* The browser's steps other than the end of a send.                        *)
Publishes ==
  /\ pendingScene' \in Scenes \cup {None} /\ sending' \in Seq(Scenes)
  /\ UNCHANGED <<lastFingerprint, mentor>>

LEMMA PublishTypes ==
  ASSUME QueueTypes, NEW scene \in Scenes \cup {None}, PublishPending(scene)
  PROVE  pendingScene' \in Scenes \cup {None} /\ sending' \in Seq(Scenes)
BY AppendProperties DEF QueueTypes, PublishPending

LEMMA ChangePublishes ==
  ASSUME QueueTypes, NEW scene \in Scenes, OnChange(scene), UNCHANGED mentor
  PROVE  Publishes
BY PublishTypes DEF OnChange, OnSceneChange, ScheduleFlush, Publishes, publisher, QueueTypes

LEMMA BrowserPublishes ==
  ASSUME QueueTypes, Browser
  PROVE  Publishes
<1>1. UNCHANGED mentor  BY DEF Browser
<1>2. pendingScene \in Scenes \cup {None}  BY DEF QueueTypes
<1>3. CASE TimerFires
  BY <1>1, <1>2, <1>3, PublishTypes DEF TimerFires, Publishes
<1>4. CASE Hides
  BY <1>1, <1>2, <1>4, PublishTypes DEF Hides, FlushNow, Publishes
<1>5. CASE Leaves
  BY <1>1, <1>2, <1>5, PublishTypes DEF Leaves, FlushNow, Publishes
<1>6. CASE Reconnects
  BY <1>1, <1>6 DEF Reconnects, Publishes, publisher, QueueTypes
<1>7. ASSUME NEW i \in DOMAIN sending, SendFails(i) PROVE Publishes
  BY <1>1, <1>7, Removed DEF SendFails, Publishes, QueueTypes
<1>8. QED
  BY <1>3, <1>4, <1>5, <1>6, <1>7 DEF Browser

LEMMA PublishKeeps ==
  ASSUME ChannelInv, Publishes
  PROVE  ChannelInv'
BY DEF ChannelInv, QueueTypes, PassedInv, StoredInv, Publishes, mentor

(* A send ends: the last message is what was committed.                     *)
LEMMA SentKeeps ==
  ASSUME ChannelInv, Sent
  PROVE  ChannelInv'
<1> DEFINE n == Len(mail)
           m(i) == [scene |-> sending[i], applying |-> FALSE, passed |-> FALSE]
<1>1. PICK i \in DOMAIN sending : SendSettles(i) /\ mail' = Append(mail, m(i))
  BY DEF Sent
<1>2. m(i) \in Message /\ m(i).scene = sending[i] /\ ~m(i).passed
  BY ElementOfSeq, LenProperties DEF ChannelInv, QueueTypes, Message
<1> HIDE DEF m
<1>3. /\ mail' \in Seq(Message) /\ n \in Nat /\ DOMAIN mail = 1 .. n
      /\ Len(mail') = n + 1 /\ DOMAIN mail' = 1 .. n + 1
      /\ mail'[n + 1] = m(i) /\ \A k \in 1 .. n : mail'[k] = mail[k]
  BY <1>1, <1>2, AppendProperties, LenProperties DEF ChannelInv, QueueTypes
<1> HIDE DEF n
<1>4. lastFingerprint' = sending[i] /\ UNCHANGED pendingScene /\ sending' \in Seq(Scenes)
  BY <1>1, Removed DEF SendSettles, ChannelInv, QueueTypes
<1>5. PassedInv'
  <2> SUFFICES ASSUME NEW k \in 1 .. n + 1, NEW l \in 1 .. n + 1, k < l, mail'[l].passed
               PROVE  mail'[k].passed
    BY <1>3 DEF PassedInv
  <2>1. l # n + 1  BY <1>2, <1>3
  <2>2. k \in 1 .. n /\ l \in 1 .. n  BY <2>1, <1>3
  <2>3. QED  BY <2>2, <1>3 DEF ChannelInv, PassedInv
<1>6. StoredInv'
  BY <1>2, <1>3, <1>4 DEF StoredInv
<1>7. QED
  BY <1>3, <1>4, <1>5, <1>6 DEF ChannelInv, QueueTypes

(* A task starts.                                                           *)
LEMMA HandleKeeps ==
  ASSUME ChannelInv, NEW i \in DOMAIN mail, Handles(i)
  PROVE  ChannelInv'
<1> DEFINE n == Len(mail)
<1>1. mail' = [mail EXCEPT ![i].applying = TRUE] /\ UNCHANGED <<tab, canvasState, behind>>
  BY DEF Handles
<1>2. mail \in Seq(Message) /\ n \in Nat /\ DOMAIN mail = 1 .. n /\ \A k \in 1 .. n : mail[k] \in Message
  BY LenProperties, ElementOfSeq DEF ChannelInv, QueueTypes
<1>3. [mail[i] EXCEPT !.applying = TRUE] \in Message
  BY <1>2 DEF Message
<1>4. mail' \in Seq(Message) /\ Len(mail') = n /\ DOMAIN mail' = 1 .. n
  BY <1>1, <1>2, <1>3, ExceptSeq
<1>5. \A k \in 1 .. n : mail'[k].passed = mail[k].passed /\ mail'[k].scene = mail[k].scene
  BY <1>1, <1>2 DEF Message
<1> HIDE DEF n
<1>6. n > 0 => n \in 1 .. n  BY <1>2
<1>7. PassedInv' /\ StoredInv'
  BY <1>1, <1>2, <1>4, <1>5, <1>6 DEF ChannelInv, PassedInv, StoredInv, n, tab, publisher
<1>8. QED
  BY <1>1, <1>4, <1>7 DEF ChannelInv, QueueTypes, tab, publisher

(* A message has been dealt with.  If it was not passed, its scene is       *)
(* stored or there is a reason why not.                                     *)
Ends(i) ==
  /\ DealtWith(i) /\ UNCHANGED tab
  /\ IF mail[i].passed THEN behind' = "reordered" \/ UNCHANGED <<behind, canvasState>>
     ELSE behind' # "no" \/ canvasState' = mail[i].scene

LEMMA DealingEnds ==
  ASSUME NEW i \in DOMAIN mail, Deals(i), ~Handles(i)
  PROVE  Ends(i)
BY DEF Deals, Unheard, ReadFails, TurnsAway, Applies, ApplyFails, Drops, Ends

LEMMA EndKeeps ==
  ASSUME ChannelInv, NEW i \in DOMAIN mail, Ends(i)
  PROVE  ChannelInv'
<1> DEFINE n == Len(mail)
<1>1. UNCHANGED <<lastFingerprint, pendingScene, sending>>
  BY DEF Ends, tab, publisher
<1>2. /\ n \in Nat /\ DOMAIN mail = 1 .. n
      /\ mail' \in Seq(Message) /\ Len(mail') = n - 1
      /\ DOMAIN mail' = 1 .. n - 1
      /\ \A k \in 1 .. n - 1 :
           IF k < i THEN mail'[k].passed ELSE mail'[k] = mail[k + 1]
  BY MessageLeaves DEF ChannelInv, Ends
<1>a. IF n > 0 /\ ~mail[n].passed THEN mail[n].scene = lastFingerprint
      ELSE behind = "no" => canvasState = lastFingerprint
  BY DEF ChannelInv, StoredInv
<1>b. \A k, m \in 1 .. n : k < m /\ mail[m].passed => mail[k].passed
  BY <1>2 DEF ChannelInv, PassedInv
<1> HIDE DEF n
<1>3. i \in 1 .. n  BY <1>2
<1>4. PassedInv'
  <2> SUFFICES ASSUME NEW k \in 1 .. n - 1, NEW m \in 1 .. n - 1, k < m, mail'[m].passed
               PROVE  mail'[k].passed
    BY <1>2 DEF PassedInv
  <2>1. CASE k < i  BY <2>1, <1>2
  <2>2. CASE ~(k < i)
    <3>1. ~(m < i) /\ k + 1 \in 1 .. n /\ m + 1 \in 1 .. n /\ k + 1 < m + 1
      BY <2>2, <1>2, <1>3
    <3>2. mail'[m] = mail[m + 1] /\ mail'[k] = mail[k + 1]
      BY <2>2, <3>1, <1>2
    <3>3. QED  BY <3>1, <3>2, <1>b
  <2>3. QED  BY <2>1, <2>2
<1>5. IF n - 1 > 0 /\ ~mail'[n - 1].passed THEN mail'[n - 1].scene = lastFingerprint
      ELSE behind' = "no" => canvasState' = lastFingerprint
  <2>1. CASE i = n
    <3>1. n - 1 > 0 => n - 1 \in 1 .. n - 1 /\ n - 1 < i  BY <2>1, <1>2
    <3>2. n - 1 > 0 => mail'[n - 1].passed  BY <3>1, <1>2
    <3>3. behind' = "no" => canvasState' = lastFingerprint
      BY <2>1, <1>3, <1>a DEF Ends
    <3>4. QED  BY <3>2, <3>3
  <2>2. CASE i # n
    <3>1. i < n /\ n - 1 \in 1 .. n - 1 /\ ~(n - 1 < i) /\ (n - 1) + 1 = n /\ n \in 1 .. n
      BY <2>2, <1>2, <1>3
    <3>2. mail'[n - 1] = mail[n]  BY <3>1, <1>2
    <3>3. CASE ~mail[n].passed
      BY <3>1, <3>2, <3>3, <1>a
    <3>4. CASE mail[n].passed
      <4>1. mail[i].passed  BY <3>1, <3>4, <1>3, <1>b
      <4>2. QED  BY <4>1, <3>1, <3>2, <3>4, <1>a DEF Ends
    <3>5. QED  BY <3>3, <3>4
  <2>3. QED  BY <2>1, <2>2
<1>6. StoredInv'
  BY <1>1, <1>2, <1>5 DEF StoredInv
<1>7. QED
  BY <1>1, <1>2, <1>4, <1>6 DEF ChannelInv, QueueTypes

-----------------------------------------------------------------------------
(* Theorems                                                                 *)

LEMMA ChannelInitInv == Init => ChannelInv
BY EmptySeq DEF Init, PublisherInit, ChannelInv, QueueTypes, PassedInv, StoredInv

LEMMA ChannelNextInv == ChannelInv /\ [Next]_vars => ChannelInv'
<1> SUFFICES ASSUME ChannelInv, [Next]_vars PROVE ChannelInv'
  OBVIOUS
<1>1. CASE Draws
  BY <1>1, ChangePublishes, PublishKeeps DEF Draws, ChannelInv
<1>2. CASE Browser
  BY <1>2, BrowserPublishes, PublishKeeps DEF ChannelInv
<1>3. CASE Sent  BY <1>3, SentKeeps
<1>4. CASE Tick \/ Registers \/ OtherSends \/ UNCHANGED vars
  BY <1>4 DEF Tick, Registers, OtherSends, vars, tab, publisher, mentor, ChannelInv, QueueTypes,
    PassedInv, StoredInv
<1>5. ASSUME NEW i \in DOMAIN mail, Deals(i) PROVE ChannelInv'
  BY <1>5, HandleKeeps, DealingEnds, EndKeeps
<1>6. QED
  BY <1>1, <1>2, <1>3, <1>4, <1>5 DEF Next

THEOREM ChannelInvariant == Spec => []ChannelInv
BY ChannelInitInv, ChannelNextInv, PTL DEF Spec

(* canvas-scene-publisher.ts:42,110 with main.py:880: a scene the browser    *)
(* skips because its fingerprint was committed last is the stored canvas     *)
(* when no message is under way, unless the last one was lost, turned away,  *)
(* not stored or overtaken; for any number of overlapping sends and tasks.   *)
THEOREM SkippedScenesStored == Spec => []SkippedIsStored
<1>1. ChannelInv => SkippedIsStored
  BY EmptySeq DEF ChannelInv, StoredInv, SkippedIsStored
<1>2. QED
  BY <1>1, ChannelInvariant, PTL

(* canvas-scene-publisher.ts:75-92: whatever interleaves, a pending scene    *)
(* has a timer that will publish it.                                        *)
THEOREM PendingScenesTimed == Spec => []PendingHasTimer
<1>1. Init => PendingHasTimer
  BY DEF Init, PublisherInit, PendingHasTimer
<1>2. PendingHasTimer /\ [Next]_vars => PendingHasTimer'
  <2> SUFFICES ASSUME PendingHasTimer, [Next]_vars PROVE PendingHasTimer'
    OBVIOUS
  <2>1. ASSUME NEW scene, OnChange(scene) PROVE PendingHasTimer'
    BY <2>1 DEF OnChange, OnSceneChange, ScheduleFlush, PublishPending, publisher, PendingHasTimer
  <2>2. CASE Browser
    BY <2>2 DEF Browser, TimerFires, Hides, Leaves, Reconnects, SendFails, FlushNow,
       PublishPending, publisher, PendingHasTimer
  <2>3. CASE Sent
    BY <2>3 DEF Sent, SendSettles, PendingHasTimer
  <2>4. CASE Tick
    BY <2>4 DEF Tick, SecondPasses, PendingHasTimer
  <2>5. CASE UNCHANGED tab
    BY <2>5 DEF tab, publisher, PendingHasTimer
  <2>6. QED
    BY <2>1, <2>2, <2>3, <2>4, <2>5
    DEF Next, Draws, OtherSends, Registers, Deals, Unheard, ReadFails, TurnsAway, Handles, Applies,
      ApplyFails, Drops, vars
<1>3. QED
  BY <1>1, <1>2, PTL DEF Spec

(* canvas-scene-publisher.ts:30-118: the browser strands no scene: a timer   *)
(* will send it, or it is one that was sent, and it is stored unless it was  *)
(* lost on its way, turned away, not stored or overtaken.                    *)
THEOREM NoSceneStranded == Spec => []NothingStranded
BY SkippedScenesStored, PendingScenesTimed, PTL DEF NothingStranded
=============================================================================
