-------------------------- MODULE EventRouterProofs --------------------------
(* Theorems about EventRouter, for every value of its constants.            *)
EXTENDS EventRouter, SequenceTheorems, TLAPS

(* The next-state relation, one disjunct per action.                        *)
LEMMA Steps ==
  ASSUME Next
  PROVE  \/ Tick
         \/ \E t \in Nat : HandleTurn(t)
         \/ \E t \in Nat : HandleCanvas(t)
         \/ \E l \in Loops : Start(l)
         \/ \E l \in Loops : StartCancelled(l)
         \/ \E l \in Loops : LoadAnswers(l)
         \/ \E l \in Loops : BrainAnswers(l)
         \/ \E l \in Loops : BrainSwallowsCancel(l)
         \/ \E l \in Loops : ApplyCommits(l)
         \/ \E l \in Loops : ApplyReturns(l)
         \/ \E l \in Loops : ApplyExhausted(l)
         \/ \E l \in Loops : DispatchRaises(l)
         \/ \E l \in Loops : DispatchCancelled(l)
         \/ \E i \in Interims : CancelInFlight(i)
         \/ \E i \in Interims : CancelReturns(i)
         \/ \E e \in Events : WaitForIdle(e)
         \/ CloseSession \/ Drain \/ DeleteState
BY RouterAssumption DEF Next, LoopStep

LEMMA InitTypes == Init => TypeOK
<1> SUFFICES ASSUME Init PROVE TypeOK
  OBVIOUS
<1>1. RouterTypeOK
  <2>1. pending = <<>> /\ dispatching = FALSE /\ inFlight = None
    BY DEF Init
  <2>2. QED
    BY <2>1, EmptySeq DEF RouterTypeOK
<1>2. LoopTypeOK
  <2>1. batch \in [Loops -> Seq(Events)]
    BY EmptySeq DEF Init
  <2>2. decision \in [Loops -> Decisions]
    BY DEF Init, NoDecision, Decisions, FreeReasons
  <2>3. /\ pc = [l \in Loops |-> "unborn"] /\ tms = [l \in Loops |-> 0]
        /\ cancelReq = [l \in Loops |-> FALSE]
    BY DEF Init
  <2>4. QED
    BY <2>1, <2>2, <2>3 DEF LoopTypeOK, Points
<1>3. StateTypeOK
  <2>1. /\ violations = 0 /\ ~escalated /\ ~capped /\ ~apologyUsed
        /\ escalated \in BOOLEAN /\ capped \in BOOLEAN /\ apologyUsed \in BOOLEAN
        /\ stored \in BOOLEAN /\ cost = 0 /\ clock = 0 /\ handled = 0
        /\ stamp = [e \in Events |-> 0] /\ fate = [e \in Events |-> "none"]
    BY DEF Init
  <2>2. QED
    BY <2>1, RouterAssumption DEF StateTypeOK
<1>4. CallerTypeOK
  BY DEF Init, CallerTypeOK
<1>5. RowTypeOK
  <2>1. /\ queue = <<>> /\ records = <<>> /\ escalations = <<>>
        /\ apologies = 0 /\ commits = 0
    BY DEF Init
  <2>2. QED
    BY <2>1, EmptySeq DEF RowTypeOK
<1>6. QED
  BY <1>1, <1>2, <1>3, <1>4, <1>5 DEF TypeOK

(* What the loop's top does to the router's and the task's variables.       *)
LEMMA NextBatchTypes ==
  ASSUME TypeOK, NEW l \in Loops, NextBatch(l)
  PROVE  /\ RouterTypeOK'
         /\ pc' \in [Loops -> Points]
         /\ batch' \in [Loops -> Seq(Events)] /\ tms' \in [Loops -> Nat]
         /\ decision' \in [Loops -> Decisions]
<1> USE DEF TypeOK, RouterTypeOK, LoopTypeOK, Points
<1>1. decision' \in [Loops -> Decisions]
  BY DEF NextBatch, NoDecision, Decisions, FreeReasons
<1>2. CASE pending = <<>> /\ Retire(l) /\ UNCHANGED pending
  BY <1>1, <1>2, EmptySeq DEF Retire, Ends
<1>3. CASE pending # <<>> /\ TakeBatch(l)
  <2>1. \A e \in Elements(pending) : stamp[e] \in Nat
    BY ElementOfSeq, LenProperties DEF Elements, StateTypeOK
  <2>2. \A m \in {stamp[e] : e \in Elements(pending)} : SnapshotTime(m) \in Nat
    BY <2>1, RouterAssumption DEF SnapshotTime, Larger, StateTypeOK
  <2>3. tms' \in [Loops -> Nat]
    BY <1>3, <2>2 DEF TakeBatch
  <2>4. QED
    BY <1>1, <1>3, <2>3, EmptySeq DEF TakeBatch
<1>4. QED
  BY <1>2, <1>3 DEF NextBatch

LEMMA EnqueueTypes ==
  ASSUME TypeOK, NEW t \in Nat, Enqueue(t)
  PROVE  RouterTypeOK' /\ LoopTypeOK' /\ StateTypeOK'
<1> USE DEF TypeOK, RouterTypeOK, LoopTypeOK, StateTypeOK, Points
<1>1. handled + 1 \in Events /\ handled + 1 \in 0 .. MaxEvents
  BY RouterAssumption DEF Enqueue, Events
<1>2. pending' \in Seq(Events)
  BY <1>1, AppendProperties DEF Enqueue
<1>3. dispatching' \in BOOLEAN /\ inFlight' \in Loops \cup {None}
  BY <1>1 DEF Enqueue, Loops
<1>4. LoopTypeOK'
  BY <1>1 DEF Enqueue
<1>5. StateTypeOK'
  BY <1>1 DEF Enqueue, countVars, redisVars
<1>6. QED
  BY <1>2, <1>3, <1>4, <1>5

LEMMA SettleTypes ==
  ASSUME TypeOK, NEW l \in Loops, NEW what \in {"recorded", "skipped", "dropped"},
         Settle(l, what)
  PROVE  fate' \in [Events -> {"none", "open", "recorded", "skipped", "dropped", "drained"}]
BY DEF TypeOK, StateTypeOK, Settle

(* What _dispatch writes when a decision has been applied, or given up.     *)
LEMMA ConcludeTypes ==
  ASSUME TypeOK, NEW l \in Loops, NEW ok \in BOOLEAN, Conclude(l, ok)
  PROVE  TypeOK'
<1>1. RouterTypeOK' /\ LoopTypeOK'
  <2>1. NextBatch(l) /\ UNCHANGED cancelReq
    BY DEF Conclude
  <2>2. QED
    BY <2>1, NextBatchTypes DEF LoopTypeOK, TypeOK
<1>2. fate' \in [Events -> {"none", "open", "recorded", "skipped", "dropped", "drained"}]
  BY SettleTypes DEF Conclude
<1>3. /\ violations' \in Nat /\ escalated' \in BOOLEAN
      /\ escalations' \in Seq(Nat)
  <2>1. CountViolation(decision[l])
    BY DEF Conclude
  <2>2. Len(records) + 1 \in Nat
    BY LenProperties DEF TypeOK, RowTypeOK
  <2>3. Append(escalations, Len(records) + 1) \in Seq(Nat)
    BY <2>2, AppendProperties DEF TypeOK, RowTypeOK
  <2>4. escalated \in BOOLEAN /\ violations \in Nat /\ escalations \in Seq(Nat)
    BY DEF TypeOK, StateTypeOK, RowTypeOK
  <2>5. \/ escalated' = TRUE /\ escalations' = Append(escalations, Len(records) + 1)
        \/ escalated' = FALSE /\ escalations' = escalations
        \/ escalated' = escalated /\ escalations' = escalations
    BY <2>1 DEF CountViolation
  <2>6. violations' = violations + 1 \/ violations' = 0
    BY <2>1 DEF CountViolation
  <2>7. violations' \in Nat
    BY <2>4, <2>6
  <2>8. QED
    BY <2>3, <2>4, <2>5, <2>7
<1>4. apologyUsed' \in BOOLEAN /\ apologies' \in Nat
  <2>1. apologyUsed \in BOOLEAN /\ apologies \in Nat
    BY DEF TypeOK, StateTypeOK, RowTypeOK
  <2>2. \/ apologyUsed' = TRUE /\ apologies' = apologies + 1
        \/ apologyUsed' = apologyUsed /\ apologies' = apologies
    BY DEF Conclude, Apologise
  <2>3. apologyUsed' \in BOOLEAN
    BY <2>1, <2>2
  <2>4. apologies' \in Nat
    BY <2>1, <2>2
  <2>5. QED
    BY <2>3, <2>4
<1>5. StateTypeOK'
  BY <1>2, <1>3, <1>4 DEF Conclude, redisVars, eventVars, TypeOK, StateTypeOK
<1>6. CallerTypeOK'
  BY DEF Conclude, callerVars, TypeOK, CallerTypeOK
<1>7. RowTypeOK'
  <2>1. tms[l] \in Nat
    BY DEF TypeOK, LoopTypeOK
  <2>2. queue' \in Seq(Nat)
    BY <2>1, AppendProperties DEF Conclude, TypeOK, RowTypeOK
  <2>3. [t |-> tms[l], reason |-> decision[l].reason, events |-> batch[l], committed |-> ok]
          \in [t : Nat, reason : UsageReasons \cup FreeReasons,
               events : Seq(Events), committed : BOOLEAN]
    BY <2>1 DEF TypeOK, LoopTypeOK, Decisions
  <2>4. records' \in Seq([t : Nat, reason : UsageReasons \cup FreeReasons,
                          events : Seq(Events), committed : BOOLEAN])
    BY <2>3, AppendProperties DEF Conclude, TypeOK, RowTypeOK
  <2>5. commits' \in Nat
    BY DEF Conclude, TypeOK, RowTypeOK
  <2>6. QED
    BY <1>3, <1>4, <2>2, <2>4, <2>5 DEF RowTypeOK
<1>8. QED
  BY <1>1, <1>5, <1>6, <1>7 DEF TypeOK

LEMMA StepTypes == TypeOK /\ [Next]_vars => TypeOK'
<1> SUFFICES ASSUME TypeOK, [Next]_vars PROVE TypeOK'
  OBVIOUS
<1> USE DEF TypeOK, Points, eventVars, callerVars, rowVars, countVars, redisVars, routerVars, loopVars
<1>1. CASE Tick
  <2>1. StateTypeOK'
    BY <1>1, RouterAssumption DEF Tick, StateTypeOK
  <2>2. QED
    BY <1>1, <2>1 DEF Tick, RouterTypeOK, LoopTypeOK, CallerTypeOK, RowTypeOK
<1>2. ASSUME NEW t \in Nat, HandleTurn(t) PROVE TypeOK'
  <2>1. Enqueue(t) /\ waiter' = [waiter EXCEPT ![handled + 1] = "calling"]
    BY <1>2 DEF HandleTurn
  <2>2. CallerTypeOK' /\ RowTypeOK'
    BY <2>1 DEF Enqueue, CallerTypeOK, RowTypeOK
  <2>3. QED
    BY <2>1, <2>2, EnqueueTypes
<1>3. ASSUME NEW t \in Nat, HandleCanvas(t) PROVE TypeOK'
  <2>1. Enqueue(t) /\ UNCHANGED waiter
    BY <1>3 DEF HandleCanvas
  <2>2. CallerTypeOK' /\ RowTypeOK'
    BY <2>1 DEF Enqueue, CallerTypeOK, RowTypeOK
  <2>3. QED
    BY <2>1, <2>2, EnqueueTypes
<1>4. ASSUME NEW l \in Loops, Start(l) PROVE TypeOK'
  <2>1. RouterTypeOK' /\ LoopTypeOK'
    BY <1>4, NextBatchTypes DEF Start, LoopTypeOK
  <2>2. QED
    BY <1>4, <2>1 DEF Start, StateTypeOK, CallerTypeOK, RowTypeOK
<1>5. ASSUME NEW l \in Loops, StartCancelled(l) PROVE TypeOK'
  BY <1>5 DEF StartCancelled, RouterTypeOK, LoopTypeOK, StateTypeOK, CallerTypeOK, RowTypeOK
<1>6. ASSUME NEW l \in Loops, LoadAnswers(l) PROVE TypeOK'
  <2>1. CASE stored
    <3>1. [reason |-> "capped", cost |-> 0] \in Decisions
      BY DEF Decisions, FreeReasons
    <3>2. decision' \in [Loops -> Decisions]
      BY <1>6, <2>1, <3>1 DEF LoadAnswers, LoopTypeOK
    <3>3. /\ UNCHANGED <<pending, dispatching, inFlight, batch, tms, cancelReq, fate>>
          /\ \/ pc' = [pc EXCEPT ![l] = "applying"] \/ pc' = [pc EXCEPT ![l] = "deciding"]
          /\ capped' = TRUE \/ capped' = capped
      BY <1>6, <2>1 DEF LoadAnswers
    <3>4. RouterTypeOK' /\ LoopTypeOK'
      BY <3>2, <3>3 DEF RouterTypeOK, LoopTypeOK
    <3>5. capped' \in BOOLEAN
      BY <3>3 DEF StateTypeOK
    <3>6. QED
      BY <1>6, <3>3, <3>4, <3>5 DEF LoadAnswers, StateTypeOK, CallerTypeOK, RowTypeOK
  <2>2. CASE ~stored
    <3>1. Settle(l, "skipped") /\ NextBatch(l) /\ UNCHANGED <<capped, cancelReq>>
      BY <1>6, <2>2 DEF LoadAnswers
    <3>2. RouterTypeOK' /\ LoopTypeOK'
      BY <3>1, NextBatchTypes DEF LoopTypeOK
    <3>3. QED
      BY <1>6, <3>1, <3>2, SettleTypes DEF LoadAnswers, StateTypeOK, CallerTypeOK, RowTypeOK
  <2>3. QED
    BY <2>1, <2>2
<1>7. ASSUME NEW l \in Loops, BrainAnswers(l) PROVE TypeOK'
  <2>1. LoopTypeOK'
    BY <1>7 DEF BrainAnswers, LoopTypeOK
  <2>2. QED
    BY <1>7, <2>1 DEF BrainAnswers, RouterTypeOK, StateTypeOK, CallerTypeOK, RowTypeOK
<1>8. ASSUME NEW l \in Loops, BrainSwallowsCancel(l) PROVE TypeOK'
  <2>1. LoopTypeOK'
    BY <1>8 DEF BrainSwallowsCancel, LoopTypeOK, NoDecision, Decisions, FreeReasons
  <2>2. QED
    BY <1>8, <2>1 DEF BrainSwallowsCancel, RouterTypeOK, StateTypeOK, CallerTypeOK, RowTypeOK
<1>9. ASSUME NEW l \in Loops, ApplyCommits(l) PROVE TypeOK'
  <2>1. CostAfter(decision[l]) \in Nat
    <3>1. decision[l] \in Decisions /\ cost \in Nat
      BY DEF LoopTypeOK, StateTypeOK
    <3>2. decision[l].cost \in CallCosts \cup {0}
      BY <3>1 DEF Decisions
    <3>3. CallCosts \cup {0} \subseteq Nat
      BY RouterAssumption
    <3>4. decision[l].cost \in Nat
      BY <3>2, <3>3
    <3>5. QED
      BY <3>1, <3>4 DEF CostAfter
  <2>2. StateTypeOK'
    BY <1>9, <2>1 DEF ApplyCommits, StateTypeOK
  <2>3. QED
    BY <1>9, <2>2 DEF ApplyCommits, RouterTypeOK, LoopTypeOK, CallerTypeOK, RowTypeOK
<1>10. ASSUME NEW l \in Loops, ApplyReturns(l) PROVE TypeOK'
  BY <1>10, ConcludeTypes DEF ApplyReturns
<1>11. ASSUME NEW l \in Loops, ApplyExhausted(l) PROVE TypeOK'
  BY <1>11, ConcludeTypes DEF ApplyExhausted
<1>12. ASSUME NEW l \in Loops, DispatchRaises(l) PROVE TypeOK'
  <2>1. Settle(l, "dropped") /\ NextBatch(l) /\ UNCHANGED cancelReq
    BY <1>12 DEF DispatchRaises
  <2>2. RouterTypeOK' /\ LoopTypeOK'
    BY <2>1, NextBatchTypes DEF LoopTypeOK
  <2>3. QED
    BY <1>12, <2>1, <2>2, SettleTypes DEF DispatchRaises, StateTypeOK, CallerTypeOK, RowTypeOK
<1>13. ASSUME NEW l \in Loops, DispatchCancelled(l) PROVE TypeOK'
  <2>1. pending' \in Seq(Events)
    BY <1>13, ConcatProperties DEF DispatchCancelled, Requeued, RouterTypeOK, LoopTypeOK
  <2>2. RouterTypeOK'
    BY <1>13, <2>1 DEF DispatchCancelled, Retire, RouterTypeOK
  <2>3. LoopTypeOK'
    BY <1>13, EmptySeq DEF DispatchCancelled, Retire, Ends, LoopTypeOK, NoDecision, Decisions,
       FreeReasons
  <2>4. QED
    BY <1>13, <2>2, <2>3 DEF DispatchCancelled, StateTypeOK, CallerTypeOK, RowTypeOK
<1>14. ASSUME NEW i \in Interims, CancelInFlight(i) PROVE TypeOK'
  <2>1. RouterTypeOK' /\ LoopTypeOK' /\ CallerTypeOK'
    BY <1>14 DEF CancelInFlight, Running, RouterTypeOK, LoopTypeOK, CallerTypeOK
  <2>2. QED
    BY <1>14, <2>1 DEF CancelInFlight, StateTypeOK, RowTypeOK
<1>15. ASSUME NEW i \in Interims, CancelReturns(i) PROVE TypeOK'
  BY <1>15 DEF CancelReturns, RouterTypeOK, LoopTypeOK, StateTypeOK, CallerTypeOK, RowTypeOK
<1>16. ASSUME NEW e \in Events, WaitForIdle(e) PROVE TypeOK'
  <2>1. CallerTypeOK'
    BY <1>16 DEF WaitForIdle, RouterTypeOK, CallerTypeOK
  <2>2. QED
    BY <1>16, <2>1 DEF WaitForIdle, RouterTypeOK, LoopTypeOK, StateTypeOK, RowTypeOK
<1>17. CASE CloseSession
  BY <1>17 DEF CloseSession, RouterTypeOK, LoopTypeOK, StateTypeOK, CallerTypeOK, RowTypeOK
<1>18. CASE Drain
  <2>1. RouterTypeOK' /\ CallerTypeOK'
    BY <1>18, EmptySeq DEF Drain, RouterTypeOK, CallerTypeOK
  <2>2. StateTypeOK'
    BY <1>18 DEF Drain, StateTypeOK
  <2>3. QED
    BY <1>18, <2>1, <2>2 DEF Drain, LoopTypeOK, RowTypeOK
<1>19. CASE DeleteState
  BY <1>19 DEF DeleteState, RouterTypeOK, LoopTypeOK, StateTypeOK, CallerTypeOK, RowTypeOK
<1>20. CASE UNCHANGED vars
  BY <1>20 DEF vars, RouterTypeOK, LoopTypeOK, StateTypeOK, CallerTypeOK, RowTypeOK
<1>21. QED
  BY <1>1, <1>2, <1>3, <1>4, <1>5, <1>6, <1>7, <1>8, <1>9, <1>10, <1>11, <1>12, <1>13, <1>14,
     <1>15, <1>16, <1>17, <1>18, <1>19, <1>20, Steps

(* Every variable keeps its type, whatever the number of events, interim    *)
(* tasks and clock ticks.                                                   *)
THEOREM TypeCorrect == Spec => []TypeOK
<1>1. QED
  BY InitTypes, StepTypes, PTL DEF Spec

-----------------------------------------------------------------------------
(* Sequences of events: what concatenation and Append do to Elements and    *)
(* Increasing.                                                              *)

LEMMA ElementsFacts ==
  ASSUME NEW S, NEW s \in Seq(S)
  PROVE  /\ Elements(s) = {s[i] : i \in 1 .. Len(s)}
         /\ Elements(s) \subseteq S
         /\ s = <<>> => Elements(s) = {}
<1>1. DOMAIN s = 1 .. Len(s) /\ Len(s) \in Nat
  BY LenProperties
<1>2. \A i \in 1 .. Len(s) : s[i] \in S
  BY ElementOfSeq
<1>3. QED
  BY <1>1, <1>2 DEF Elements

LEMMA ConcatElements ==
  ASSUME NEW S, NEW s \in Seq(S), NEW t \in Seq(S)
  PROVE  Elements(s \o t) = Elements(s) \cup Elements(t)
<1> DEFINE u == s \o t
<1>1. u \in Seq(S) /\ Len(u) = Len(s) + Len(t) /\ Len(s) \in Nat /\ Len(t) \in Nat
  BY ConcatProperties, LenProperties
<1>2. \A i \in 1 .. Len(u) : u[i] = IF i <= Len(s) THEN s[i] ELSE t[i - Len(s)]
  BY <1>1, ConcatProperties
<1>3. /\ Elements(u) = {u[i] : i \in 1 .. Len(u)}
      /\ Elements(s) = {s[i] : i \in 1 .. Len(s)}
      /\ Elements(t) = {t[i] : i \in 1 .. Len(t)}
  BY <1>1, ElementsFacts
<1> HIDE DEF u
<1>4. ASSUME NEW x \in Elements(u) PROVE x \in Elements(s) \cup Elements(t)
  <2>1. PICK i \in 1 .. Len(u) : x = u[i]
    BY <1>3, <1>4
  <2>2. CASE i <= Len(s)
    BY <1>1, <1>2, <1>3, <2>1, <2>2
  <2>3. CASE ~(i <= Len(s))
    <3>1. i - Len(s) \in 1 .. Len(t) /\ x = t[i - Len(s)]
      BY <1>1, <1>2, <2>1, <2>3
    <3>2. QED
      BY <1>3, <3>1
  <2>4. QED
    BY <2>2, <2>3
<1>5. ASSUME NEW x \in Elements(s) PROVE x \in Elements(u)
  <2>1. PICK i \in 1 .. Len(s) : x = s[i]
    BY <1>3, <1>5
  <2>2. i \in 1 .. Len(u) /\ x = u[i]
    BY <1>1, <1>2, <2>1
  <2>3. QED
    BY <1>3, <2>2
<1>6. ASSUME NEW x \in Elements(t) PROVE x \in Elements(u)
  <2>1. PICK i \in 1 .. Len(t) : x = t[i]
    BY <1>3, <1>6
  <2>2. i + Len(s) \in 1 .. Len(u) /\ ~(i + Len(s) <= Len(s)) /\ (i + Len(s)) - Len(s) = i
    BY <1>1, <2>1
  <2>3. x = u[i + Len(s)]
    BY <1>2, <2>1, <2>2
  <2>4. QED
    BY <1>3, <2>2, <2>3
<1>7. Elements(u) = Elements(s) \cup Elements(t)
  BY <1>4, <1>5, <1>6
<1>8. QED
  BY <1>7 DEF u

(* Two lists in order, the first wholly before the second.                  *)
Ordered(s, t) ==
  /\ Increasing(s) /\ Increasing(t)
  /\ \A x \in Elements(s), y \in Elements(t) : x < y

LEMMA ConcatIncreasing ==
  ASSUME NEW s \in Seq(Nat), NEW t \in Seq(Nat)
  PROVE  Increasing(s \o t) <=> Ordered(s, t)
<1> DEFINE u == s \o t
<1>1. /\ u \in Seq(Nat) /\ Len(u) = Len(s) + Len(t) /\ Len(s) \in Nat /\ Len(t) \in Nat
      /\ DOMAIN u = 1 .. Len(u) /\ DOMAIN s = 1 .. Len(s) /\ DOMAIN t = 1 .. Len(t)
  BY ConcatProperties, LenProperties
<1>2. \A i \in 1 .. Len(u) : u[i] = IF i <= Len(s) THEN s[i] ELSE t[i - Len(s)]
  BY <1>1, ConcatProperties
<1>3. /\ Elements(s) = {s[i] : i \in 1 .. Len(s)}
      /\ Elements(t) = {t[i] : i \in 1 .. Len(t)}
  BY ElementsFacts
<1> HIDE DEF u
<1>4. /\ \A i \in 1 .. Len(s) : i \in 1 .. Len(u) /\ u[i] = s[i]
      /\ \A i \in 1 .. Len(t) : i + Len(s) \in 1 .. Len(u) /\ u[i + Len(s)] = t[i]
  <2>1. ASSUME NEW i \in 1 .. Len(t)
        PROVE  i + Len(s) \in 1 .. Len(u) /\ u[i + Len(s)] = t[i]
    <3>1. i + Len(s) \in 1 .. Len(u) /\ ~(i + Len(s) <= Len(s)) /\ (i + Len(s)) - Len(s) = i
      BY <1>1
    <3>2. QED
      BY <1>2, <3>1
  <2>2. \A i \in 1 .. Len(s) : i \in 1 .. Len(u) /\ u[i] = s[i]
    BY <1>1, <1>2
  <2>3. QED
    BY <2>1, <2>2
<1>5. ASSUME Increasing(u) PROVE Ordered(s, t)
  <2>1. \A i, j \in 1 .. Len(u) : i < j => u[i] < u[j]
    BY <1>1, <1>5 DEF Increasing
  <2>2. Increasing(s)
    BY <1>1, <1>4, <2>1 DEF Increasing
  <2>3. ASSUME NEW i \in 1 .. Len(t), NEW j \in 1 .. Len(t), i < j PROVE t[i] < t[j]
    <3>1. i + Len(s) < j + Len(s)
      BY <1>1, <2>3
    <3>2. QED
      BY <1>4, <2>1, <3>1
  <2>4. Increasing(t)
    BY <1>1, <2>3 DEF Increasing
  <2>5. ASSUME NEW i \in 1 .. Len(s), NEW j \in 1 .. Len(t) PROVE s[i] < t[j]
    <3>1. i < j + Len(s)
      BY <1>1
    <3>2. QED
      BY <1>4, <2>1, <3>1
  <2>6. QED
    BY <1>3, <2>2, <2>4, <2>5 DEF Ordered
<1>6. ASSUME Ordered(s, t) PROVE Increasing(u)
  <2>1. SUFFICES ASSUME NEW i \in 1 .. Len(u), NEW j \in 1 .. Len(u), i < j
                 PROVE  u[i] < u[j]
    BY <1>1 DEF Increasing
  <2>2. /\ \A k, m \in 1 .. Len(s) : k < m => s[k] < s[m]
        /\ \A k, m \in 1 .. Len(t) : k < m => t[k] < t[m]
        /\ \A k \in 1 .. Len(s), m \in 1 .. Len(t) : s[k] < t[m]
    BY <1>1, <1>3, <1>6 DEF Ordered, Increasing
  <2>3. CASE j <= Len(s)
    BY <1>1, <1>2, <2>1, <2>2, <2>3
  <2>4. CASE i <= Len(s) /\ ~(j <= Len(s))
    <3>1. j - Len(s) \in 1 .. Len(t) /\ i \in 1 .. Len(s)
      BY <1>1, <2>4
    <3>2. QED
      BY <1>2, <2>2, <2>4, <3>1
  <2>5. CASE ~(i <= Len(s))
    <3>1. /\ i - Len(s) \in 1 .. Len(t) /\ j - Len(s) \in 1 .. Len(t)
          /\ i - Len(s) < j - Len(s) /\ ~(j <= Len(s))
      BY <1>1, <2>1, <2>5
    <3>2. QED
      BY <1>2, <2>2, <2>5, <3>1
  <2>6. QED
    BY <1>1, <2>3, <2>4, <2>5
<1>7. QED
  BY <1>5, <1>6 DEF u

LEMMA AppendFacts ==
  ASSUME NEW s \in Seq(Nat), NEW e \in Nat
  PROVE  /\ Elements(Append(s, e)) = Elements(s) \cup {e}
         /\ Increasing(s) /\ (\A x \in Elements(s) : x < e) => Increasing(Append(s, e))
<1> DEFINE a == Append(s, e)
<1>1. /\ a \in Seq(Nat) /\ Len(a) = Len(s) + 1 /\ Len(s) \in Nat
      /\ \A i \in 1 .. Len(s) : a[i] = s[i]
      /\ a[Len(s) + 1] = e
      /\ DOMAIN s = 1 .. Len(s) /\ DOMAIN a = 1 .. Len(a)
  BY AppendProperties, LenProperties
<1>2. Elements(a) = {a[i] : i \in 1 .. Len(a)} /\ Elements(s) = {s[i] : i \in 1 .. Len(s)}
  BY <1>1, ElementsFacts
<1> HIDE DEF a
<1>3. 1 .. Len(a) = (1 .. Len(s)) \cup {Len(s) + 1}
  BY <1>1
<1>4. Elements(a) = Elements(s) \cup {e}
  BY <1>1, <1>2, <1>3
<1>5. ASSUME Increasing(s), \A x \in Elements(s) : x < e PROVE Increasing(a)
  <2>1. SUFFICES ASSUME NEW i \in 1 .. Len(a), NEW j \in 1 .. Len(a), i < j
                 PROVE  a[i] < a[j]
    BY <1>1 DEF Increasing
  <2>2. i \in 1 .. Len(s)
    BY <1>1, <2>1
  <2>3. CASE j \in 1 .. Len(s)
    BY <1>1, <1>5, <2>1, <2>2, <2>3 DEF Increasing
  <2>4. CASE j = Len(s) + 1
    BY <1>1, <1>2, <1>5, <2>2, <2>4
  <2>5. QED
    BY <1>3, <2>3, <2>4
<1>6. QED
  BY <1>4, <1>5 DEF a

-----------------------------------------------------------------------------
(* The inductive invariant behind the router's I1 and I2.  A loop task owns *)
(* a batch only while it is in a dispatch, so the loop that lives is the    *)
(* one place, beside _pending, where an event can be.                       *)

Open == {e \in Events : fate[e] = "open"}
InDispatch(l) == pc[l] \in {"loading", "deciding", "applying", "applied"}

FlagHoldsTask == dispatching <=> inFlight # None
HandsEmptyOutside == \A l \in Loops : ~InDispatch(l) => batch[l] = <<>>
UnbornFate == \A e \in Events : e > handled => fate[e] = "none"
HandsHoldOpen == Elements(Batch) \cup Elements(pending) = Open
HandsOrdered == Ordered(Batch, pending)

RouterInv ==
  /\ FlagHoldsTask /\ OneDispatcher /\ HandsEmptyOutside /\ UnbornFate
  /\ HandsHoldOpen /\ HandsOrdered /\ ServedInOrder

LEMMA SeqOfEvents ==
  ASSUME TypeOK
  PROVE  /\ Events \subseteq Nat
         /\ Batch \in Seq(Events) /\ pending \in Seq(Events)
         /\ Batch \in Seq(Nat) /\ pending \in Seq(Nat)
<1>1. Events \subseteq Nat
  BY RouterAssumption DEF Events
<1>2. Batch \in Seq(Events) /\ pending \in Seq(Events)
  BY EmptySeq DEF TypeOK, RouterTypeOK, LoopTypeOK, Batch
<1>3. QED
  BY <1>1, <1>2, SeqMonotonic

LEMMA InHandSplit ==
  ASSUME TypeOK
  PROVE  NothingLost <=> HandsHoldOpen /\ HandsOrdered
<1>1. InHand = Batch \o pending
  BY DEF InHand
<1>2. Elements(InHand) = Elements(Batch) \cup Elements(pending)
  BY <1>1, ConcatElements, SeqOfEvents
<1>3. Increasing(InHand) <=> HandsOrdered
  BY <1>1, ConcatIncreasing, SeqOfEvents DEF HandsOrdered
<1>4. QED
  BY <1>2, <1>3 DEF NothingLost, HandsHoldOpen, Open

LEMMA EmptyHands ==
  /\ Elements(<<>>) = {} /\ Increasing(<<>>)
  /\ \A s : Ordered(s, <<>>) <=> Increasing(s)
  /\ \A s : Ordered(<<>>, s) <=> Increasing(s)
<1>1. <<>> \in Seq(Nat) /\ DOMAIN <<>> = {}
  BY EmptySeq, LenProperties
<1>2. Elements(<<>>) = {} /\ Increasing(<<>>)
  BY <1>1, ElementsFacts DEF Increasing
<1>3. QED
  BY <1>2 DEF Ordered

LEMMA InitInv == Init => RouterInv
<1> SUFFICES ASSUME Init PROVE RouterInv
  OBVIOUS
<1>1. /\ pending = <<>> /\ dispatching = FALSE /\ inFlight = None
      /\ pc = [l \in Loops |-> "unborn"] /\ batch = [l \in Loops |-> <<>>]
      /\ fate = [e \in Events |-> "none"]
  BY DEF Init
<1>2. Batch = <<>> /\ Open = {}
  BY <1>1 DEF Batch, Open
<1>3. HandsHoldOpen /\ HandsOrdered
  BY <1>1, <1>2, EmptyHands DEF HandsHoldOpen, HandsOrdered
<1>4. QED
  BY <1>1, <1>3 DEF RouterInv, FlagHoldsTask, OneDispatcher, Live, HandsEmptyOutside, UnbornFate,
     ServedInOrder

(* A step that leaves the events and their holders alone.                   *)
LEMMA Frame ==
  ASSUME TypeOK, RouterInv,
         UNCHANGED <<pending, dispatching, inFlight, batch, fate, handled>>,
         \A l \in Loops : /\ Live(l)' => Live(l)
                          /\ InDispatch(l) => InDispatch(l)' \/ batch[l] = <<>>
  PROVE  RouterInv'
<1>1. Batch' = Batch /\ Open' = Open
  BY DEF Batch, Open
<1>2. HandsHoldOpen' /\ HandsOrdered'
  BY <1>1 DEF RouterInv, HandsHoldOpen, HandsOrdered
<1>3. OneDispatcher'
  BY DEF RouterInv, OneDispatcher
<1>4. HandsEmptyOutside'
  BY DEF RouterInv, HandsEmptyOutside
<1>5. QED
  BY <1>2, <1>3, <1>4 DEF RouterInv, FlagHoldsTask, UnbornFate, ServedInOrder

(* The loop's top passes the pending list into the task's hands.            *)
LEMMA NextBatchMoves ==
  ASSUME TypeOK, RouterInv, NEW l \in Loops, Live(l), NextBatch(l)
  PROVE  /\ FlagHoldsTask' /\ OneDispatcher' /\ HandsEmptyOutside'
         /\ Elements(Batch') \cup Elements(pending') = Elements(pending)
         /\ Increasing(pending) => Ordered(Batch', pending')
<1>1. dispatching /\ inFlight = l /\ \A m \in Loops : m # l => ~Live(m)
  BY DEF RouterInv, OneDispatcher
<1>2. l # None
  BY RouterAssumption DEF Loops, Events, None
<1>3. pc \in [Loops -> Points] /\ batch \in [Loops -> Seq(Events)]
  BY DEF TypeOK, LoopTypeOK
<1>4. CASE pending = <<>> /\ Retire(l) /\ UNCHANGED pending
  <2>1. /\ ~dispatching' /\ inFlight' = None /\ pending' = <<>> /\ pending = <<>>
        /\ pc' = [pc EXCEPT ![l] = "done"] /\ batch' = [batch EXCEPT ![l] = <<>>]
    BY <1>4 DEF Retire, Ends
  <2>2. Batch' = <<>>
    BY <2>1 DEF Batch
  <2>3. FlagHoldsTask' /\ OneDispatcher'
    BY <1>1, <1>3, <2>1 DEF FlagHoldsTask, OneDispatcher, Live
  <2>4. HandsEmptyOutside'
    BY <1>3, <2>1 DEF RouterInv, HandsEmptyOutside, InDispatch
  <2>5. QED
    BY <2>1, <2>2, <2>3, <2>4, EmptyHands
<1>5. CASE pending # <<>> /\ TakeBatch(l)
  <2>1. /\ pc' = [pc EXCEPT ![l] = "loading"] /\ batch' = [batch EXCEPT ![l] = pending]
        /\ pending' = <<>> /\ dispatching' = dispatching /\ inFlight' = inFlight
    BY <1>5 DEF TakeBatch
  <2>2. Batch' = pending
    BY <1>1, <1>2, <1>3, <2>1 DEF Batch
  <2>3. FlagHoldsTask' /\ OneDispatcher'
    BY <1>1, <1>3, <2>1 DEF RouterInv, FlagHoldsTask, OneDispatcher, Live
  <2>4. HandsEmptyOutside'
    BY <1>3, <2>1 DEF RouterInv, HandsEmptyOutside, InDispatch
  <2>5. QED
    BY <2>1, <2>2, <2>3, <2>4, EmptyHands
<1>6. QED
  BY <1>4, <1>5 DEF NextBatch

(* Settling the batch in hand and moving on.                                *)
LEMMA SettleMoves ==
  ASSUME TypeOK, RouterInv, NEW l \in Loops, InDispatch(l),
         NEW what \in {"recorded", "skipped", "dropped"},
         Settle(l, what), NextBatch(l), UNCHANGED handled
  PROVE  RouterInv'
<1>1. Live(l) /\ inFlight = l /\ l # None
  BY RouterAssumption DEF InDispatch, Live, RouterInv, OneDispatcher, Loops, Events, None
<1>2. Batch = batch[l]
  BY <1>1 DEF Batch
<1>3. /\ FlagHoldsTask' /\ OneDispatcher' /\ HandsEmptyOutside'
      /\ Elements(Batch') \cup Elements(pending') = Elements(pending)
      /\ Increasing(pending) => Ordered(Batch', pending')
  BY <1>1, NextBatchMoves
<1>4. /\ Increasing(pending)
      /\ \A x \in Elements(Batch), y \in Elements(pending) : x < y
      /\ Elements(Batch) \cup Elements(pending) = Open
  BY DEF RouterInv, HandsOrdered, HandsHoldOpen, Ordered
<1>5. /\ Elements(Batch) \subseteq Events /\ Elements(pending) \subseteq Events
      /\ Events \subseteq Nat
  BY SeqOfEvents, ElementsFacts
<1>6. Open' = Elements(pending)
  <2>1. Elements(Batch) \cap Elements(pending) = {}
    <3>1. SUFFICES ASSUME NEW x \in Elements(Batch), x \in Elements(pending) PROVE FALSE
      OBVIOUS
    <3>2. x \in Nat /\ x < x
      BY <1>4, <1>5, <3>1
    <3>3. QED
      BY <3>2
  <2>2. \A e \in Events : fate'[e] = "open" <=> e \notin Elements(Batch) /\ fate[e] = "open"
    BY <1>2 DEF Settle
  <2>3. QED
    BY <1>4, <1>5, <2>1, <2>2 DEF Open
<1>7. HandsHoldOpen' /\ HandsOrdered'
  BY <1>3, <1>4, <1>6 DEF HandsHoldOpen, HandsOrdered
<1>8. UnbornFate'
  <2>1. \A e \in Elements(Batch) : ~(e > handled)
    BY <1>4, <1>5 DEF RouterInv, UnbornFate, Open
  <2>2. QED
    BY <1>2, <2>1 DEF RouterInv, UnbornFate, Settle
<1>9. ServedInOrder'
  <2>1. SUFFICES ASSUME NEW e \in Events, NEW f \in Events,
                        fate'[e] \in {"recorded", "skipped", "dropped"}, fate'[f] = "open"
                 PROVE  e < f
    BY DEF ServedInOrder
  <2>2. f \in Elements(pending) /\ fate[f] = "open"
    BY <1>4, <1>6, <2>1 DEF Open
  <2>3. CASE e \in Elements(Batch)
    BY <1>4, <2>2, <2>3
  <2>4. CASE e \notin Elements(Batch)
    <3>1. fate[e] \in {"recorded", "skipped", "dropped"}
      BY <1>2, <2>1, <2>4 DEF Settle
    <3>2. QED
      BY <2>2, <3>1 DEF RouterInv, ServedInOrder
  <2>5. QED
    BY <2>3, <2>4
<1>10. QED
  BY <1>3, <1>7, <1>8, <1>9 DEF RouterInv

(* handle() puts the newest event last.                                     *)
LEMMA EnqueueMoves ==
  ASSUME TypeOK, RouterInv, NEW t \in Nat, Enqueue(t)
  PROVE  RouterInv'
<1> DEFINE e == handled + 1
<1>1. /\ e \in Events /\ e \in Nat /\ e \in Loops /\ e # None /\ handled' = e /\ handled \in Nat
      /\ Events \subseteq Nat
  BY RouterAssumption DEF Enqueue, TypeOK, StateTypeOK, Events, Loops, None
<1>2. /\ pending' = Append(pending, e) /\ fate' = [fate EXCEPT ![e] = "open"]
      /\ batch' = batch
  BY DEF Enqueue
<1> HIDE DEF e
<1>3. fate[e] = "none"
  <2>1. e > handled
    BY RouterAssumption DEF e, TypeOK, StateTypeOK
  <2>2. QED
    BY <1>1, <2>1 DEF RouterInv, UnbornFate
<1>4. Open' = Open \cup {e}
  BY <1>1, <1>2 DEF Open, TypeOK, StateTypeOK
<1>5. /\ Batch \in Seq(Nat) /\ pending \in Seq(Nat)
      /\ Elements(Batch) \subseteq Events /\ Elements(pending) \subseteq Events
  BY SeqOfEvents, ElementsFacts
<1>6. \A x \in Elements(Batch) \cup Elements(pending) : x < e
  <2>1. \A x \in Open : ~(x > handled)
    BY DEF RouterInv, UnbornFate, Open
  <2>2. \A x \in Open : x \in Nat /\ x < e
    BY <1>1, <2>1 DEF Open, e
  <2>3. QED
    BY <2>2 DEF RouterInv, HandsHoldOpen
<1>7. Batch' = Batch /\ FlagHoldsTask' /\ OneDispatcher' /\ HandsEmptyOutside'
  <2>1. pc \in [Loops -> Points]
    BY DEF TypeOK, LoopTypeOK
  <2>2. CASE dispatching
    <3>1. UNCHANGED <<dispatching, inFlight, pc>>
      BY <2>2 DEF Enqueue, OwnsDispatch
    <3>2. QED
      BY <1>2, <3>1 DEF RouterInv, FlagHoldsTask, OneDispatcher, HandsEmptyOutside, Batch, Live,
         InDispatch
  <2>3. CASE ~dispatching
    <3>1. /\ dispatching' = TRUE /\ inFlight' = e /\ pc' = [pc EXCEPT ![e] = "created"]
          /\ inFlight = None
      BY <1>1, <2>3 DEF Enqueue, OwnsDispatch, RouterInv, OneDispatcher, e
    <3>2. \A l \in Loops : ~Live(l)
      BY <2>3 DEF RouterInv, OneDispatcher
    <3>3. ~InDispatch(e) /\ batch[e] = <<>>
      BY <1>1, <3>2 DEF RouterInv, HandsEmptyOutside, InDispatch, Live
    <3>4. Batch' = Batch
      BY <1>1, <1>2, <3>1, <3>3 DEF Batch
    <3>5. FlagHoldsTask' /\ OneDispatcher'
      BY <1>1, <2>1, <3>1, <3>2 DEF FlagHoldsTask, OneDispatcher, Live
    <3>6. HandsEmptyOutside'
      BY <1>1, <1>2, <2>1, <3>1, <3>3 DEF RouterInv, HandsEmptyOutside, InDispatch
    <3>7. QED
      BY <3>4, <3>5, <3>6
  <2>4. QED
    BY <2>2, <2>3
<1>8. /\ Elements(pending') = Elements(pending) \cup {e}
      /\ Increasing(pending) => Increasing(pending')
  BY <1>1, <1>2, <1>5, <1>6, AppendFacts
<1>9. HandsHoldOpen' /\ HandsOrdered'
  <2>1. HandsHoldOpen'
    BY <1>4, <1>7, <1>8 DEF RouterInv, HandsHoldOpen
  <2>2. Ordered(Batch, pending')
    BY <1>6, <1>8 DEF RouterInv, HandsOrdered, Ordered
  <2>3. QED
    BY <1>7, <2>1, <2>2 DEF HandsOrdered
<1>10. UnbornFate'
  <2>1. SUFFICES ASSUME NEW f \in Events, f > e PROVE fate'[f] = "none"
    BY <1>1 DEF UnbornFate
  <2>2. f > handled /\ f # e
    BY <1>1, <2>1 DEF e
  <2>3. QED
    BY <1>1, <1>2, <2>2 DEF RouterInv, UnbornFate, TypeOK, StateTypeOK
<1>11. ServedInOrder'
  <2>1. SUFFICES ASSUME NEW d \in Events, NEW f \in Events,
                        fate'[d] \in {"recorded", "skipped", "dropped"}, fate'[f] = "open"
                 PROVE  d < f
    BY DEF ServedInOrder
  <2>2. d # e /\ fate[d] = fate'[d]
    BY <1>1, <1>2, <2>1 DEF TypeOK, StateTypeOK
  <2>3. CASE f = e
    <3>1. ~(d > handled)
      BY <2>1, <2>2 DEF RouterInv, UnbornFate
    <3>2. QED
      BY <1>1, <2>3, <3>1 DEF e
  <2>4. CASE f # e
    BY <1>1, <1>2, <2>1, <2>2, <2>4 DEF RouterInv, ServedInOrder, TypeOK, StateTypeOK
  <2>5. QED
    BY <2>3, <2>4
<1>12. QED
  BY <1>7, <1>9, <1>10, <1>11 DEF RouterInv

(* A cancelled dispatch puts its batch back where it was taken from.        *)
LEMMA CancelledMoves ==
  ASSUME TypeOK, RouterInv, NEW l \in Loops, DispatchCancelled(l)
  PROVE  RouterInv'
<1>1. InDispatch(l) /\ Live(l)
  BY DEF DispatchCancelled, InDispatch, Live
<1>2. inFlight = l /\ l # None /\ \A m \in Loops : m # l => ~Live(m)
  BY <1>1, RouterAssumption DEF RouterInv, OneDispatcher, Loops, Events, None
<1>3. /\ pending' = Batch \o pending /\ ~dispatching' /\ inFlight' = None
      /\ pc' = [pc EXCEPT ![l] = "done"] /\ batch' = [batch EXCEPT ![l] = <<>>]
      /\ fate' = fate /\ handled' = handled
  BY <1>2 DEF DispatchCancelled, Requeued, Retire, Ends, Batch, eventVars
<1>4. pc \in [Loops -> Points] /\ batch \in [Loops -> Seq(Events)]
  BY DEF TypeOK, LoopTypeOK
<1>5. FlagHoldsTask' /\ OneDispatcher'
  BY <1>2, <1>3, <1>4 DEF FlagHoldsTask, OneDispatcher, Live
<1>6. HandsEmptyOutside'
  BY <1>3, <1>4 DEF RouterInv, HandsEmptyOutside, InDispatch
<1>7. Batch' = <<>> /\ Open' = Open
  BY <1>3 DEF Batch, Open
<1>8. HandsHoldOpen'
  BY <1>3, <1>7, EmptyHands, ConcatElements, SeqOfEvents DEF RouterInv, HandsHoldOpen
<1>9. HandsOrdered'
  BY <1>3, <1>7, EmptyHands, ConcatIncreasing, SeqOfEvents DEF RouterInv, HandsOrdered
<1>10. QED
  BY <1>3, <1>5, <1>6, <1>8, <1>9 DEF RouterInv, UnbornFate, ServedInOrder

(* drain() drops what is pending and leaves the batch in flight.            *)
LEMMA DrainMoves ==
  ASSUME TypeOK, RouterInv, Drain
  PROVE  RouterInv'
<1>1. /\ pending' = <<>> /\ UNCHANGED <<dispatching, inFlight, pc, batch, handled>>
      /\ fate' = [e \in Events |-> IF e \in Elements(pending) THEN "drained" ELSE fate[e]]
  BY DEF Drain, loopVars, eventVars
<1>2. Batch' = Batch
  BY <1>1 DEF Batch
<1>3. /\ Elements(Batch) \subseteq Events /\ Elements(pending) \subseteq Events
      /\ Events \subseteq Nat
  BY SeqOfEvents, ElementsFacts
<1>4. /\ Increasing(Batch) /\ Elements(Batch) \cup Elements(pending) = Open
      /\ \A x \in Elements(Batch), y \in Elements(pending) : x < y
  BY DEF RouterInv, HandsOrdered, HandsHoldOpen, Ordered
<1>5. Elements(Batch) \cap Elements(pending) = {}
  <2>1. SUFFICES ASSUME NEW x \in Elements(Batch), x \in Elements(pending) PROVE FALSE
    OBVIOUS
  <2>2. x \in Nat /\ x < x
    BY <1>3, <1>4, <2>1
  <2>3. QED
    BY <2>2
<1>6. \A e \in Events : fate'[e] = "open" <=> e \notin Elements(pending) /\ fate[e] = "open"
  BY <1>1
<1>7. Open' = Elements(Batch)
  BY <1>3, <1>4, <1>5, <1>6 DEF Open
<1>8. HandsHoldOpen' /\ HandsOrdered'
  BY <1>1, <1>2, <1>4, <1>7, EmptyHands DEF HandsHoldOpen, HandsOrdered
<1>9. FlagHoldsTask' /\ OneDispatcher' /\ HandsEmptyOutside'
  BY <1>1 DEF RouterInv, FlagHoldsTask, OneDispatcher, HandsEmptyOutside, Live, InDispatch
<1>10. UnbornFate'
  <2>1. \A e \in Elements(pending) : ~(e > handled)
    BY <1>3, <1>4 DEF RouterInv, UnbornFate, Open
  <2>2. QED
    BY <1>1, <2>1 DEF RouterInv, UnbornFate
<1>11. ServedInOrder'
  BY <1>1, <1>6 DEF RouterInv, ServedInOrder
<1>12. QED
  BY <1>8, <1>9, <1>10, <1>11 DEF RouterInv

LEMMA StepInv == TypeOK /\ RouterInv /\ [Next]_vars => RouterInv'
<1> SUFFICES ASSUME TypeOK, RouterInv, [Next]_vars PROVE RouterInv'
  OBVIOUS
<1> DEFINE Kept == UNCHANGED <<pending, dispatching, inFlight, batch, fate, handled>>
<1>a. ASSUME Kept, UNCHANGED pc PROVE RouterInv'
  BY <1>a, Frame DEF Live, InDispatch
<1>b. ASSUME NEW l \in Loops, Kept, InDispatch(l),
             \E p \in {"loading", "deciding", "applying", "applied"} : pc' = [pc EXCEPT ![l] = p]
      PROVE  RouterInv'
  <2>1. pc \in [Loops -> Points]
    BY DEF TypeOK, LoopTypeOK
  <2>2. \A m \in Loops : /\ Live(m)' => Live(m)
                         /\ InDispatch(m) => InDispatch(m)'
    BY <1>b, <2>1 DEF Live, InDispatch
  <2>3. QED
    BY <1>b, <2>2, Frame
<1> HIDE DEF Kept
<1>1. CASE Tick
  BY <1>1, <1>a DEF Tick, Kept, routerVars, loopVars, eventVars
<1>2. ASSUME NEW t \in Nat, HandleTurn(t) PROVE RouterInv'
  BY <1>2, EnqueueMoves DEF HandleTurn
<1>3. ASSUME NEW t \in Nat, HandleCanvas(t) PROVE RouterInv'
  BY <1>3, EnqueueMoves DEF HandleCanvas
<1>4. ASSUME NEW l \in Loops, Start(l) PROVE RouterInv'
  <2>1. Live(l) /\ ~InDispatch(l) /\ inFlight = l
    BY <1>4 DEF Start, Live, InDispatch, RouterInv, OneDispatcher
  <2>2. /\ FlagHoldsTask' /\ OneDispatcher' /\ HandsEmptyOutside'
        /\ Elements(Batch') \cup Elements(pending') = Elements(pending)
        /\ Increasing(pending) => Ordered(Batch', pending')
        /\ UNCHANGED <<fate, handled>>
    BY <1>4, <2>1, NextBatchMoves DEF Start, eventVars
  <2>3. Batch = <<>>
    BY <2>1 DEF Batch, RouterInv, HandsEmptyOutside
  <2>4. HandsHoldOpen' /\ HandsOrdered'
    BY <2>2, <2>3, EmptyHands DEF RouterInv, HandsHoldOpen, HandsOrdered, Open
  <2>5. QED
    BY <2>2, <2>4 DEF RouterInv, UnbornFate, ServedInOrder
<1>5. ASSUME NEW l \in Loops, StartCancelled(l) PROVE RouterInv'
  <2>1. /\ Kept /\ pc' = [pc EXCEPT ![l] = "done"] /\ ~InDispatch(l)
        /\ pc \in [Loops -> Points]
    BY <1>5 DEF StartCancelled, Kept, routerVars, eventVars, InDispatch, TypeOK, LoopTypeOK
  <2>2. \A m \in Loops : /\ Live(m)' => Live(m)
                         /\ InDispatch(m) => InDispatch(m)'
    BY <2>1 DEF Live, InDispatch
  <2>3. QED
    BY <2>1, <2>2, Frame DEF Kept
<1>6. ASSUME NEW l \in Loops, LoadAnswers(l) PROVE RouterInv'
  <2>1. InDispatch(l) /\ UNCHANGED handled
    BY <1>6 DEF LoadAnswers, InDispatch, eventVars
  <2>2. CASE stored
    <3>1. /\ Kept
          /\ \/ pc' = [pc EXCEPT ![l] = "applying"] \/ pc' = [pc EXCEPT ![l] = "deciding"]
      BY <1>6, <2>2 DEF LoadAnswers, Kept, routerVars, eventVars
    <3>2. QED
      BY <2>1, <3>1, <1>b
  <2>3. CASE ~stored
    <3>1. Settle(l, "skipped") /\ NextBatch(l)
      BY <1>6, <2>3 DEF LoadAnswers
    <3>2. QED
      BY <2>1, <3>1, SettleMoves
  <2>4. QED
    BY <2>2, <2>3
<1>7. ASSUME NEW l \in Loops, BrainAnswers(l) PROVE RouterInv'
  BY <1>7, <1>b DEF BrainAnswers, Kept, InDispatch, routerVars, eventVars
<1>8. ASSUME NEW l \in Loops, BrainSwallowsCancel(l) PROVE RouterInv'
  BY <1>8, <1>b DEF BrainSwallowsCancel, Kept, InDispatch, routerVars, eventVars
<1>9. ASSUME NEW l \in Loops, ApplyCommits(l) PROVE RouterInv'
  BY <1>9, <1>b DEF ApplyCommits, Kept, InDispatch, routerVars, eventVars
<1>10. ASSUME NEW l \in Loops, ApplyReturns(l) PROVE RouterInv'
  BY <1>10, SettleMoves DEF ApplyReturns, Conclude, InDispatch, eventVars
<1>11. ASSUME NEW l \in Loops, ApplyExhausted(l) PROVE RouterInv'
  BY <1>11, SettleMoves DEF ApplyExhausted, Conclude, InDispatch, eventVars
<1>12. ASSUME NEW l \in Loops, DispatchRaises(l) PROVE RouterInv'
  BY <1>12, SettleMoves DEF DispatchRaises, InDispatch, eventVars
<1>13. ASSUME NEW l \in Loops, DispatchCancelled(l) PROVE RouterInv'
  BY <1>13, CancelledMoves
<1>14. ASSUME NEW i \in Interims, CancelInFlight(i) PROVE RouterInv'
  BY <1>14, <1>a DEF CancelInFlight, Kept, routerVars, eventVars
<1>15. ASSUME NEW i \in Interims, CancelReturns(i) PROVE RouterInv'
  BY <1>15, <1>a DEF CancelReturns, Kept, routerVars, loopVars, eventVars
<1>16. ASSUME NEW e \in Events, WaitForIdle(e) PROVE RouterInv'
  BY <1>16, <1>a DEF WaitForIdle, Kept, routerVars, loopVars, eventVars
<1>17. CASE CloseSession
  BY <1>17, <1>a DEF CloseSession, Kept, routerVars, loopVars, eventVars
<1>18. CASE Drain
  BY <1>18, DrainMoves
<1>19. CASE DeleteState
  BY <1>19, <1>a DEF DeleteState, Kept, routerVars, loopVars, eventVars
<1>20. CASE UNCHANGED vars
  BY <1>20, <1>a DEF vars, Kept, routerVars, loopVars, eventVars
<1>21. QED
  BY <1>1, <1>2, <1>3, <1>4, <1>5, <1>6, <1>7, <1>8, <1>9, <1>10, <1>11, <1>12, <1>13, <1>14,
     <1>15, <1>16, <1>17, <1>18, <1>19, <1>20, Steps

THEOREM RouterInvariant == Spec => [](TypeOK /\ RouterInv)
<1>1. Init => TypeOK /\ RouterInv
  BY InitTypes, InitInv
<1>2. TypeOK /\ RouterInv /\ [Next]_vars => (TypeOK /\ RouterInv)'
  BY StepTypes, StepInv
<1>3. QED
  BY <1>1, <1>2, PTL DEF Spec

(* I1: at most one dispatch loop lives, and it is the task the router holds. *)
THEOREM SingleDispatcher == Spec => []OneDispatcher
<1>1. TypeOK /\ RouterInv => OneDispatcher
  BY DEF RouterInv
<1>2. QED
  BY <1>1, RouterInvariant, PTL

(* I2: no event is lost, duplicated or reordered while it waits.            *)
THEOREM EventsKept == Spec => []NothingLost
<1>1. TypeOK /\ RouterInv => NothingLost
  BY InHandSplit DEF RouterInv
<1>2. QED
  BY <1>1, RouterInvariant, PTL

(* Events are settled in the order in which they were handled.              *)
THEOREM ServiceInOrder == Spec => []ServedInOrder
<1>1. TypeOK /\ RouterInv => ServedInOrder
  BY DEF RouterInv
<1>2. QED
  BY <1>1, RouterInvariant, PTL
==============================================================================
