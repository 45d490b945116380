-------------------------- MODULE RouterRecordsProofs --------------------------
(* What follows from the router's invariant, for every value of its          *)
(* constants: the cost under the session's key, the turns it lets through,   *)
(* what only a barge-in can break, the stamps of its snapshot rows, its      *)
(* escalations and its apology, and that it implements Dispatcher.           *)
EXTENDS EventRouterProofs

-----------------------------------------------------------------------------
(* Cost.  A call is under way, or billed and not yet applied, only while the *)
(* cost stored is below the cap: the one dispatcher alone changes it.        *)

CostInv ==
  \A l \in Loops :
    pc[l] = "deciding" \/ (pc[l] = "applying" /\ decision[l].cost # 0) => cost < CostCap

LEMMA CostInit == Init => CostInv /\ OvershootsByOneCall
BY RouterAssumption DEF Init, CostInv, OvershootsByOneCall

LEMMA CostStep ==
  ASSUME TypeOK, RouterInv, CostInv, OvershootsByOneCall, [Next]_vars
  PROVE  CostInv' /\ OvershootsByOneCall'
<1> DEFINE Goal == CostInv' /\ OvershootsByOneCall'
<1>0. /\ pc \in [Loops -> Points] /\ decision \in [Loops -> Decisions]
      /\ cost \in Nat /\ CostCap \in Nat /\ 0 < CostCap
  BY RouterAssumption DEF TypeOK, LoopTypeOK, StateTypeOK
<1>a. ASSUME UNCHANGED <<pc, decision, cost>> PROVE Goal
  BY <1>a DEF CostInv, OvershootsByOneCall
<1>b. ASSUME NEW l \in Loops, NextBatch(l), UNCHANGED cost PROVE Goal
  BY <1>b, <1>0 DEF NextBatch, TakeBatch, Retire, Ends, CostInv, OvershootsByOneCall
<1>c. ASSUME NEW t \in Nat, Enqueue(t) PROVE Goal
  BY <1>c, <1>0 DEF Enqueue, redisVars, CostInv, OvershootsByOneCall
<1>1. CASE Tick
  BY <1>1, <1>a DEF Tick, loopVars, redisVars
<1>2. ASSUME NEW t \in Nat, HandleTurn(t) PROVE Goal
  BY <1>2, <1>c DEF HandleTurn
<1>3. ASSUME NEW t \in Nat, HandleCanvas(t) PROVE Goal
  BY <1>3, <1>c DEF HandleCanvas
<1>4. ASSUME NEW l \in Loops, Start(l) PROVE Goal
  BY <1>4, <1>b DEF Start, redisVars
<1>5. ASSUME NEW l \in Loops, StartCancelled(l) PROVE Goal
  BY <1>5, <1>0 DEF StartCancelled, redisVars, CostInv, OvershootsByOneCall
<1>6. ASSUME NEW l \in Loops, LoadAnswers(l) PROVE Goal
  <2>1. CASE stored /\ CapReached
    BY <1>6, <1>0, <2>1 DEF LoadAnswers, redisVars, CostInv, OvershootsByOneCall
  <2>2. CASE stored /\ ~CapReached
    <3>1. cost < CostCap
      BY <1>0, <2>2 DEF CapReached
    <3>2. QED
      BY <1>6, <1>0, <2>2, <3>1 DEF LoadAnswers, redisVars, CostInv, OvershootsByOneCall
  <2>3. CASE ~stored
    BY <1>6, <2>3, <1>b DEF LoadAnswers, redisVars
  <2>4. QED
    BY <2>1, <2>2, <2>3
<1>7. ASSUME NEW l \in Loops, BrainAnswers(l) PROVE Goal
  <2>1. cost < CostCap
    BY <1>7 DEF BrainAnswers, CostInv
  <2>2. QED
    BY <1>7, <1>0, <2>1 DEF BrainAnswers, redisVars, CostInv, OvershootsByOneCall
<1>8. ASSUME NEW l \in Loops, BrainSwallowsCancel(l) PROVE Goal
  <2>1. cost < CostCap
    BY <1>8 DEF BrainSwallowsCancel, CostInv
  <2>2. QED
    BY <1>8, <1>0, <2>1 DEF BrainSwallowsCancel, redisVars, CostInv, OvershootsByOneCall
<1>9. ASSUME NEW l \in Loops, ApplyCommits(l) PROVE Goal
  <2>1. /\ pc' = [pc EXCEPT ![l] = "applied"] /\ cost' = cost + decision[l].cost
        /\ decision' = decision /\ pc[l] = "applying"
    BY <1>9 DEF ApplyCommits, CostAfter
  <2>2. \A m \in Loops : m # l => pc[m] \in {"unborn", "done"}
    <3>1. Live(l) /\ OneDispatcher
      BY <2>1 DEF RouterInv, Live
    <3>2. \A m \in Loops : m # l => ~Live(m)
      BY <3>1 DEF OneDispatcher
    <3>3. QED
      BY <3>2 DEF Live
  <2>3. CostInv'
    <3>1. \A m \in Loops : pc'[m] \in {"unborn", "done", "applied"}
      BY <1>0, <2>1, <2>2
    <3>2. QED
      BY <3>1 DEF CostInv
  <2>4. CASE decision[l].cost = 0
    BY <1>0, <2>1, <2>3, <2>4 DEF OvershootsByOneCall
  <2>5. CASE decision[l].cost # 0
    <3>1. cost < CostCap
      BY <2>1, <2>5 DEF CostInv
    <3>2. decision[l].cost \in CallCosts
      BY <1>0, <2>5 DEF Decisions
    <3>3. decision[l].cost \in Nat
      BY <3>2, RouterAssumption
    <3>4. cost' < CostCap + decision[l].cost
      BY <1>0, <2>1, <3>1, <3>3
    <3>5. QED
      BY <2>3, <3>2, <3>4 DEF OvershootsByOneCall
  <2>6. QED
    BY <2>3, <2>4, <2>5
<1>10. ASSUME NEW l \in Loops, ApplyReturns(l) PROVE Goal
  BY <1>10, <1>b DEF ApplyReturns, Conclude, redisVars
<1>11. ASSUME NEW l \in Loops, ApplyExhausted(l) PROVE Goal
  BY <1>11, <1>b DEF ApplyExhausted, Conclude, redisVars
<1>12. ASSUME NEW l \in Loops, DispatchRaises(l) PROVE Goal
  BY <1>12, <1>b DEF DispatchRaises, redisVars
<1>13. ASSUME NEW l \in Loops, DispatchCancelled(l) PROVE Goal
  BY <1>13, <1>0 DEF DispatchCancelled, Retire, Ends, redisVars, CostInv, OvershootsByOneCall
<1>14. ASSUME NEW i \in Interims, CancelInFlight(i) PROVE Goal
  BY <1>14, <1>a DEF CancelInFlight, redisVars
<1>15. ASSUME NEW i \in Interims, CancelReturns(i) PROVE Goal
  BY <1>15, <1>a DEF CancelReturns, loopVars, redisVars
<1>16. ASSUME NEW e \in Events, WaitForIdle(e) PROVE Goal
  BY <1>16, <1>a DEF WaitForIdle, loopVars, redisVars
<1>17. CASE CloseSession \/ Drain \/ DeleteState \/ UNCHANGED vars
  BY <1>17, <1>a DEF CloseSession, Drain, DeleteState, vars, loopVars, redisVars
<1>18. QED
  BY <1>1, <1>2, <1>3, <1>4, <1>5, <1>6, <1>7, <1>8, <1>9, <1>10, <1>11, <1>12, <1>13, <1>14,
     <1>15, <1>16, <1>17, Steps

(* router.py:25: whatever is cancelled, retried or lost, the session's cost  *)
(* passes its cap by less than the cost of one call.                         *)
THEOREM CostBounded == Spec => []OvershootsByOneCall
<1>1. QED
  BY CostInit, CostStep, RouterInvariant, PTL DEF Spec

-----------------------------------------------------------------------------
(* Turns.  An event that has not been handled has no waiter yet.             *)

UnbornWaiter == \A e \in Events : e > handled => waiter[e] = "none"

LEMMA WaiterInit == Init => UnbornWaiter /\ WaiterSeesItsDecision
BY DEF Init, UnbornWaiter, WaiterSeesItsDecision

LEMMA WaiterStep ==
  ASSUME TypeOK, RouterInv, UnbornWaiter, WaiterSeesItsDecision, [Next]_vars
  PROVE  UnbornWaiter' /\ WaiterSeesItsDecision'
<1> DEFINE Goal == UnbornWaiter' /\ WaiterSeesItsDecision'
<1>0. /\ waiter \in [Events -> {"none", "calling", "awaiting", "spinning", "returned"}]
      /\ DOMAIN fate = Events /\ handled \in Nat /\ Events \subseteq Nat
  BY RouterAssumption DEF TypeOK, StateTypeOK, CallerTypeOK, Events
<1>a. ASSUME UNCHANGED <<waiter, handled>>, \A e \in Events : fate'[e] = "open" => fate[e] = "open"
      PROVE  Goal
  BY <1>a DEF UnbornWaiter, WaiterSeesItsDecision
<1>b. ASSUME NEW l \in Loops, NEW what \in {"recorded", "skipped", "dropped"}, Settle(l, what),
             UNCHANGED <<waiter, handled>>
      PROVE  Goal
  BY <1>b, <1>a DEF Settle
<1>c. ASSUME NEW t \in Nat, Enqueue(t),
             UNCHANGED waiter \/ waiter' = [waiter EXCEPT ![handled + 1] = "calling"]
      PROVE  Goal
  <2> DEFINE e == handled + 1
  <2>1. /\ handled' = e /\ fate' = [fate EXCEPT ![e] = "open"] /\ e \in Events
        /\ UNCHANGED waiter \/ waiter' = [waiter EXCEPT ![e] = "calling"]
    BY <1>c, RouterAssumption DEF Enqueue, TypeOK, StateTypeOK, Events
  <2>2. waiter[e] = "none" /\ e > handled
    BY <1>0, <2>1 DEF UnbornWaiter
  <2>3. \A f \in Events : f > e => f > handled /\ f # e
    BY <1>0
  <2> HIDE DEF e
  <2>4. UnbornWaiter'
    BY <1>0, <2>1, <2>3 DEF UnbornWaiter
  <2>5. WaiterSeesItsDecision'
    BY <1>0, <2>1, <2>2 DEF WaiterSeesItsDecision
  <2>6. QED
    BY <2>4, <2>5
<1>1. CASE Tick
  BY <1>1, <1>a DEF Tick, callerVars, eventVars
<1>2. ASSUME NEW t \in Nat, HandleTurn(t) PROVE Goal
  BY <1>2, <1>c DEF HandleTurn
<1>3. ASSUME NEW t \in Nat, HandleCanvas(t) PROVE Goal
  BY <1>3, <1>c DEF HandleCanvas
<1>4. ASSUME NEW l \in Loops, Start(l) PROVE Goal
  BY <1>4, <1>a DEF Start, callerVars, eventVars
<1>5. ASSUME NEW l \in Loops, StartCancelled(l) PROVE Goal
  BY <1>5, <1>a DEF StartCancelled, callerVars, eventVars
<1>6. ASSUME NEW l \in Loops, LoadAnswers(l) PROVE Goal
  <2>1. CASE stored
    BY <1>6, <2>1, <1>a DEF LoadAnswers, callerVars, eventVars
  <2>2. CASE ~stored
    BY <1>6, <2>2, <1>b DEF LoadAnswers, callerVars, eventVars
  <2>3. QED
    BY <2>1, <2>2
<1>7. ASSUME NEW l \in Loops, BrainAnswers(l) \/ BrainSwallowsCancel(l) PROVE Goal
  BY <1>7, <1>a DEF BrainAnswers, BrainSwallowsCancel, callerVars, eventVars
<1>8. ASSUME NEW l \in Loops, ApplyCommits(l) PROVE Goal
  BY <1>8, <1>a DEF ApplyCommits, callerVars, eventVars
<1>9. ASSUME NEW l \in Loops, ApplyReturns(l) \/ ApplyExhausted(l) PROVE Goal
  BY <1>9, <1>b DEF ApplyReturns, ApplyExhausted, Conclude, callerVars, eventVars
<1>10. ASSUME NEW l \in Loops, DispatchRaises(l) PROVE Goal
  BY <1>10, <1>b DEF DispatchRaises, callerVars, eventVars
<1>11. ASSUME NEW l \in Loops, DispatchCancelled(l) PROVE Goal
  BY <1>11, <1>a DEF DispatchCancelled, callerVars, eventVars
<1>12. ASSUME NEW i \in Interims, CancelInFlight(i) \/ CancelReturns(i) PROVE Goal
  BY <1>12, <1>a DEF CancelInFlight, CancelReturns, eventVars
<1>13. ASSUME NEW e \in Events, WaitForIdle(e) PROVE Goal
  <2>1. /\ fate' = fate /\ handled' = handled
        /\ waiter' = [waiter EXCEPT ![e] =
                        IF Idle THEN "returned"
                        ELSE IF Running(inFlight) THEN "awaiting" ELSE "spinning"]
        /\ waiter[e] # "none"
    BY <1>13 DEF WaitForIdle, eventVars
  <2>2. UnbornWaiter'
    BY <1>0, <2>1 DEF UnbornWaiter
  <2>3. Idle => Open = {}
    BY EmptyHands DEF Idle, Batch, RouterInv, HandsHoldOpen
  <2>4. waiter'[e] = "returned" => fate[e] # "open"
    BY <1>0, <2>1, <2>3 DEF Open
  <2>5. WaiterSeesItsDecision'
    BY <1>0, <2>1, <2>4 DEF WaiterSeesItsDecision
  <2>6. QED
    BY <2>2, <2>5
<1>14. CASE CloseSession \/ DeleteState \/ UNCHANGED vars
  BY <1>14, <1>a DEF CloseSession, DeleteState, vars, callerVars, eventVars
<1>15. CASE Drain
  BY <1>15, <1>a DEF Drain, eventVars
<1>16. QED
  BY <1>1, <1>2, <1>3, <1>4, <1>5, <1>6, <1>7, <1>8, <1>9, <1>10, <1>11, <1>12, <1>13, <1>14,
     <1>15, Steps

(* wait_for_idle (router.py:202) lets a turn through only when the event of  *)
(* that turn is settled.                                                     *)
THEOREM TurnsSeeTheirDecision == Spec => []WaiterSeesItsDecision
<1>1. QED
  BY WaiterInit, WaiterStep, RouterInvariant, PTL DEF Spec

-----------------------------------------------------------------------------
(* Barge-ins.  Only a cancellation leaves the flag up without a loop, events *)
(* queued without a flag, or a turn looking again and again for a task that  *)
(* it could await.                                                           *)

AwakeInv ==
  BargedIn \/ /\ \A l \in Loops : ~cancelReq[l]
              /\ dispatching => Live(inFlight)
              /\ pending # <<>> => dispatching
              /\ \A e \in Events : waiter[e] # "spinning"

LEMMA AwakeInit == Init => AwakeInv
BY DEF Init, AwakeInv

LEMMA AwakeStep ==
  ASSUME TypeOK, RouterInv, AwakeInv, [Next]_vars
  PROVE  AwakeInv'
<1>0. /\ waiter \in [Events -> {"none", "calling", "awaiting", "spinning", "returned"}]
      /\ pc \in [Loops -> Points] /\ cancelReq \in [Loops -> BOOLEAN]
      /\ canceller \in [Interims -> {"none", "awaiting", "returned"}]
      /\ inFlight \in Loops \cup {None} /\ (dispatching <=> inFlight # None)
  BY DEF TypeOK, RouterTypeOK, LoopTypeOK, CallerTypeOK, RouterInv, FlagHoldsTask
<1>a. ASSUME BargedIn, \A i \in Interims : canceller[i] # "none" => canceller'[i] # "none"
      PROVE  AwakeInv'
  BY <1>a DEF AwakeInv, BargedIn
<1>b. ASSUME UNCHANGED <<pending, dispatching, inFlight, waiter, canceller>>,
             \A l \in Loops : cancelReq'[l] => cancelReq[l],
             \A l \in Loops : Live(l) => Live(l)'
      PROVE  AwakeInv'
  BY <1>0, <1>b DEF AwakeInv, BargedIn
<1>c. ASSUME NEW l \in Loops, Live(l), NextBatch(l), UNCHANGED <<cancelReq, waiter, canceller>>
      PROVE  AwakeInv'
  <2>1. inFlight = l  BY <1>c DEF RouterInv, OneDispatcher
  <2>2. CASE pending = <<>> /\ Retire(l) /\ UNCHANGED pending
    BY <1>c, <2>2 DEF AwakeInv, BargedIn, Retire
  <2>3. CASE pending # <<>> /\ TakeBatch(l)
    <3>1. pc' = [pc EXCEPT ![l] = "loading"] /\ pending' = <<>> /\ inFlight' = l
      BY <2>1, <2>3 DEF TakeBatch
    <3>2. Live(l)'  BY <1>0, <3>1 DEF Live
    <3>3. QED  BY <1>c, <3>1, <3>2 DEF AwakeInv, BargedIn
  <2>4. QED  BY <1>c, <2>2, <2>3 DEF NextBatch
<1>d. ASSUME NEW t \in Nat, Enqueue(t),
             UNCHANGED waiter \/ waiter' = [waiter EXCEPT ![handled + 1] = "calling"]
      PROVE  AwakeInv'
  <2>1. handled + 1 \in Loops
    BY <1>d, RouterAssumption DEF Enqueue, TypeOK, StateTypeOK, Loops, Events
  <2>2. /\ UNCHANGED <<cancelReq, canceller>> /\ dispatching'
        /\ \A e \in Events : waiter'[e] = "spinning" => waiter[e] = "spinning"
    BY <1>0, <1>d DEF Enqueue, OwnsDispatch
  <2>3. ~BargedIn => Live(inFlight)'
    BY <1>0, <1>d, <2>1 DEF Enqueue, OwnsDispatch, AwakeInv, Live
  <2>4. QED  BY <2>2, <2>3 DEF AwakeInv, BargedIn
<1>1. CASE Tick
  BY <1>1, <1>b DEF Tick, routerVars, loopVars, callerVars, Live
<1>2. ASSUME NEW t \in Nat, HandleTurn(t) \/ HandleCanvas(t) PROVE AwakeInv'
  BY <1>2, <1>d DEF HandleTurn, HandleCanvas
<1>3. ASSUME NEW l \in Loops, Start(l) PROVE AwakeInv'
  BY <1>3, <1>c DEF Start, Live, callerVars
<1>4. ASSUME NEW l \in Loops, StartCancelled(l) \/ DispatchCancelled(l) PROVE AwakeInv'
  BY <1>4, <1>a DEF StartCancelled, DispatchCancelled, AwakeInv, callerVars
<1>5. ASSUME NEW l \in Loops, LoadAnswers(l) PROVE AwakeInv'
  <2>1. CASE stored
    BY <1>0, <1>5, <2>1, <1>b DEF LoadAnswers, Live, routerVars, callerVars
  <2>2. CASE ~stored
    BY <1>5, <2>2, <1>c DEF LoadAnswers, Live, callerVars
  <2>3. QED  BY <2>1, <2>2
<1>6. ASSUME NEW l \in Loops, BrainAnswers(l) \/ BrainSwallowsCancel(l) \/ ApplyCommits(l)
      PROVE  AwakeInv'
  BY <1>0, <1>6, <1>b DEF BrainAnswers, BrainSwallowsCancel, ApplyCommits, Live, routerVars, callerVars
<1>7. ASSUME NEW l \in Loops, ApplyReturns(l) \/ ApplyExhausted(l) PROVE AwakeInv'
  BY <1>7, <1>c DEF ApplyReturns, ApplyExhausted, Conclude, Live, callerVars
<1>8. ASSUME NEW l \in Loops, DispatchRaises(l) PROVE AwakeInv'
  BY <1>8, <1>c DEF DispatchRaises, Live, callerVars
<1>9. ASSUME NEW i \in Interims, CancelInFlight(i) \/ CancelReturns(i) PROVE AwakeInv'
  BY <1>0, <1>9 DEF CancelInFlight, CancelReturns, AwakeInv, BargedIn
<1>10. ASSUME NEW e \in Events, WaitForIdle(e) PROVE AwakeInv'
  <2>1. /\ UNCHANGED <<pending, dispatching, inFlight, pc, cancelReq, canceller>>
        /\ waiter' = [waiter EXCEPT ![e] =
                        IF Idle THEN "returned"
                        ELSE IF Running(inFlight) THEN "awaiting" ELSE "spinning"]
    BY <1>10 DEF WaitForIdle, routerVars, loopVars
  <2>2. ~BargedIn => Idle \/ Running(inFlight)
    BY <1>0 DEF AwakeInv, Idle, Running, Live
  <2>3. QED  BY <1>0, <2>1, <2>2 DEF AwakeInv, BargedIn, Live
<1>11. CASE CloseSession \/ DeleteState \/ UNCHANGED vars
  BY <1>11, <1>b DEF CloseSession, DeleteState, vars, routerVars, loopVars, callerVars, Live
<1>12. CASE Drain
  BY <1>12 DEF Drain, AwakeInv, BargedIn, loopVars, Live
<1>13. QED
  BY <1>1, <1>2, <1>3, <1>4, <1>5, <1>6, <1>7, <1>8, <1>9, <1>10, <1>11, <1>12, Steps

LEMMA AwakeInvariant == Spec => []AwakeInv
BY AwakeInit, AwakeStep, RouterInvariant, PTL DEF Spec

(* router.py:163-180: until a candidate barges in, the flag has a live loop  *)
(* behind it: a cancellation is the only way to what router.py:232 says      *)
(* never happens.                                                            *)
THEOREM FlagTrueUntilBargeIn == Spec => [](BargedIn \/ FlagHasLiveLoop)
<1>1. TypeOK /\ RouterInv /\ AwakeInv => BargedIn \/ FlagHasLiveLoop
  BY DEF AwakeInv, FlagHasLiveLoop, RouterInv, FlagHoldsTask, TypeOK, RouterTypeOK
<1>2. QED  BY <1>1, AwakeInvariant, RouterInvariant, PTL

(* router.py:202-237: until a candidate barges in, an event that is waiting  *)
(* has a live loop that will take it, and no turn in wait_for_idle looks     *)
(* again and again without a task to await.                                  *)
THEOREM NoneWaitsInVain ==
  Spec => [](\/ BargedIn
             \/ /\ Open # {} => \E l \in Loops : Live(l)
                /\ \A e \in Events : waiter[e] # "spinning")
<1>1. TypeOK /\ RouterInv /\ AwakeInv =>
        \/ BargedIn
        \/ /\ Open # {} => \E l \in Loops : Live(l)
           /\ \A e \in Events : waiter[e] # "spinning"
  <2> SUFFICES ASSUME TypeOK, RouterInv, AwakeInv, ~BargedIn, Open # {}
               PROVE  \E l \in Loops : Live(l)
    BY DEF AwakeInv
  <2>1. pending = <<>> => inFlight # None
    BY EmptyHands DEF RouterInv, HandsHoldOpen, Batch
  <2>2. dispatching /\ inFlight \in Loops
    BY <2>1 DEF AwakeInv, RouterInv, FlagHoldsTask, TypeOK, RouterTypeOK
  <2>3. QED  BY <2>2 DEF AwakeInv
<1>2. QED  BY <1>1, AwakeInvariant, RouterInvariant, PTL

-----------------------------------------------------------------------------
(* Stamps.  Every row on record was stamped at most BrowserLead past the     *)
(* clock of its dispatch, and no dispatch that starts later is stamped       *)
(* below the clock.                                                          *)

Limit == clock + BrowserLead

RowsBefore(t) == \A i \in DOMAIN records : records[i].t <= t

ClockInv ==
  /\ \A e \in Events : stamp[e] <= Limit
  /\ RowsBefore(Limit)
  /\ \A l \in Loops : InDispatch(l) =>
       tms[l] <= Limit /\ RowsBefore(tms[l] + BrowserLead)

LEMMA ClockInit == Init => ClockInv /\ SortedUpToLead
<1> SUFFICES ASSUME Init PROVE ClockInv /\ SortedUpToLead
  OBVIOUS
<1>1. /\ records = <<>> /\ stamp = [e \in Events |-> 0] /\ clock = 0
      /\ pc = [l \in Loops |-> "unborn"]
  BY DEF Init
<1>2. DOMAIN records = {}
  BY <1>1, EmptySeq, LenProperties
<1>3. QED
  BY <1>1, <1>2, RouterAssumption DEF ClockInv, Limit, RowsBefore, SortedUpToLead, InDispatch

(* The loop's top stamps the batch no earlier than the clock, and no later   *)
(* than the latest event may be stamped.                                     *)
LEMMA StampIsNearClock ==
  ASSUME TypeOK, NEW l \in Loops, TakeBatch(l), \A e \in Events : stamp[e] <= Limit
  PROVE  \E t \in Nat : tms' = [tms EXCEPT ![l] = t] /\ clock <= t /\ t <= Limit
<1>1. /\ Elements(pending) \subseteq Events /\ stamp \in [Events -> Nat]
      /\ clock \in Nat /\ BrowserLead \in Nat
  BY SeqOfEvents, ElementsFacts, RouterAssumption DEF TypeOK, StateTypeOK
<1>2. PICK m \in {stamp[e] : e \in Elements(pending)} : tms' = [tms EXCEPT ![l] = SnapshotTime(m)]
  BY DEF TakeBatch
<1>3. m <= Limit /\ m \in Nat
  BY <1>1, <1>2
<1>4. SnapshotTime(m) \in Nat /\ clock <= SnapshotTime(m) /\ SnapshotTime(m) <= Limit
  BY <1>1, <1>3 DEF SnapshotTime, Larger, Limit
<1>5. QED
  BY <1>2, <1>4

(* The rows as they are, or with the row of dispatch l at the end.          *)
RowsGrow(l) ==
  \/ records' = records
  \/ \E r : r.t = tms[l] /\ records' = Append(records, r)

RowsAreTimed(rs) == \A i \in DOMAIN rs : rs[i].t \in Nat
LEMMA RowTimes ==
  ASSUME NEW rs, rs \in Seq([t : Nat, reason : UsageReasons \cup FreeReasons,
                             events : Seq(Events), committed : BOOLEAN])
  PROVE  RowsAreTimed(rs)
<1> DEFINE Row == [t : Nat, reason : UsageReasons \cup FreeReasons,
                   events : Seq(Events), committed : BOOLEAN]
<1>1. \A r \in Row : r.t \in Nat
  OBVIOUS
<1>2. rs \in Seq(Row)
  OBVIOUS
<1> HIDE DEF Row
<1>3. \A i \in DOMAIN rs : rs[i] \in Row
  BY <1>2, LenProperties
<1>4. QED
  BY <1>1, <1>3 DEF RowsAreTimed

LEMMA GrownRows ==
  ASSUME TypeOK, ClockInv, SortedUpToLead, NEW l \in Loops, InDispatch(l), RowsGrow(l),
         clock' = clock
  PROVE  SortedUpToLead' /\ RowsBefore(Limit)'
<1>1. CASE records' = records
  BY <1>1 DEF SortedUpToLead, ClockInv, RowsBefore, Limit
<1>2. CASE \E r : r.t = tms[l] /\ records' = Append(records, r)
  <2>1. PICK r : r.t = tms[l] /\ records' = Append(records, r)
    BY <1>2
  <2>2. /\ DOMAIN records = 1 .. Len(records) /\ Len(records) \in Nat
        /\ DOMAIN records' = 1 .. Len(records) + 1
        /\ records'[Len(records) + 1] = r
        /\ \A i \in DOMAIN records : records'[i] = records[i]
    BY <2>1 DEF TypeOK, RowTypeOK
  <2>3. \A i \in DOMAIN records' : i \in DOMAIN records \/ i = Len(records) + 1
    BY <2>2
  <2>4. /\ tms[l] <= Limit /\ tms[l] \in Nat /\ Limit' = Limit
        /\ \A i \in DOMAIN records : records[i].t <= tms[l] + BrowserLead
    BY DEF ClockInv, RowsBefore, TypeOK, LoopTypeOK, Limit
  <2>5. RowsBefore(Limit)'
    BY <2>1, <2>2, <2>3, <2>4 DEF ClockInv, RowsBefore
  <2>6. SortedUpToLead'
    <3>1. SUFFICES ASSUME NEW i \in DOMAIN records', NEW j \in DOMAIN records', i < j
                   PROVE  records'[i].t <= records'[j].t + BrowserLead
      BY DEF SortedUpToLead
    <3>2. i \in DOMAIN records
      BY <2>2, <2>3, <3>1
    <3>3. CASE j \in DOMAIN records
      BY <2>2, <3>1, <3>2, <3>3 DEF SortedUpToLead
    <3>4. CASE j = Len(records) + 1
      BY <2>1, <2>2, <2>4, <3>2, <3>4
    <3>5. QED
      BY <2>3, <3>3, <3>4
  <2>7. QED
    BY <2>5, <2>6
<1>3. QED
  BY <1>1, <1>2 DEF RowsGrow

LEMMA ClockStep ==
  ASSUME TypeOK, RouterInv, ClockInv, SortedUpToLead, [Next]_vars
  PROVE  ClockInv' /\ SortedUpToLead'
<1> DEFINE Goal == ClockInv' /\ SortedUpToLead'
<1>0. /\ pc \in [Loops -> Points] /\ tms \in [Loops -> Nat] /\ stamp \in [Events -> Nat]
      /\ clock \in Nat /\ BrowserLead \in Nat
  BY RouterAssumption DEF TypeOK, LoopTypeOK, StateTypeOK
<1>0a. RowsAreTimed(records) /\ RowsAreTimed(records')
  <2>1. TypeOK'
    BY StepTypes
  <2>2. QED
    BY <2>1, RowTimes DEF TypeOK, RowTypeOK
<1>a. ASSUME UNCHANGED <<stamp, records, clock, tms>>,
             \A m \in Loops : InDispatch(m)' => InDispatch(m)
      PROVE  Goal
  BY <1>a DEF ClockInv, Limit, RowsBefore, SortedUpToLead
<1>b. ASSUME NEW l \in Loops, Live(l), NextBatch(l), UNCHANGED <<clock, stamp>>,
             SortedUpToLead', RowsBefore(Limit)'
      PROVE  Goal
  <2>1. \A m \in Loops : m # l => ~Live(m)
    BY <1>b DEF RouterInv, OneDispatcher
  <2>2. \A m \in Loops : m # l => ~InDispatch(m)
    BY <2>1 DEF Live, InDispatch
  <2>3. CASE pending = <<>> /\ Retire(l) /\ UNCHANGED pending
    <3>1. \A m \in Loops : ~InDispatch(m)'
      BY <1>0, <2>2, <2>3 DEF Retire, Ends, InDispatch
    <3>2. QED
      BY <1>b, <3>1 DEF ClockInv, Limit
  <2>4. CASE pending # <<>> /\ TakeBatch(l)
    <3>1. PICK t \in Nat : tms' = [tms EXCEPT ![l] = t] /\ clock <= t /\ t <= Limit
      BY <2>4, StampIsNearClock DEF ClockInv
    <3>2. \A m \in Loops : InDispatch(m)' => m = l
      BY <1>0, <2>2, <2>4 DEF TakeBatch, InDispatch
    <3>3. tms'[l] = t /\ clock' = clock /\ Limit' = Limit
      BY <1>0, <1>b, <3>1 DEF Limit
    <3>4. \A i \in DOMAIN records' : records'[i].t \in Nat
      BY <1>0a DEF RowsAreTimed
    <3>5. tms'[l] <= Limit' /\ RowsBefore(tms[l] + BrowserLead)'
      BY <1>0, <1>b, <3>1, <3>3, <3>4 DEF RowsBefore, Limit
    <3>6. QED
      BY <1>b, <3>2, <3>3, <3>5 DEF ClockInv, Limit
  <2>5. QED
    BY <1>b, <2>3, <2>4 DEF NextBatch
<1>c. ASSUME NEW t \in 0 .. Limit, Enqueue(t) PROVE Goal
  <2>1. /\ stamp' = [stamp EXCEPT ![handled + 1] = t] /\ UNCHANGED <<records, clock, tms>>
        /\ UNCHANGED pc \/ pc' = [pc EXCEPT ![handled + 1] = "created"]
    BY <1>c DEF Enqueue, rowVars
  <2>2. \A e \in Events : stamp'[e] <= Limit
    BY <1>0, <2>1 DEF ClockInv, Limit
  <2>3. \A m \in Loops : InDispatch(m)' => InDispatch(m)
    BY <1>0, <2>1 DEF InDispatch
  <2>4. QED
    BY <2>1, <2>2, <2>3 DEF ClockInv, Limit, RowsBefore, SortedUpToLead
<1>d. ASSUME NEW l \in Loops, InDispatch(l), NextBatch(l), UNCHANGED <<clock, stamp>>, RowsGrow(l)
      PROVE  Goal
  BY <1>b, <1>d, GrownRows DEF InDispatch, Live
<1>e. ASSUME NEW l \in Loops, InDispatch(l), NEW p, pc' = [pc EXCEPT ![l] = p],
             UNCHANGED <<stamp, records, clock, tms>>
      PROVE  Goal
  BY <1>0, <1>a, <1>e DEF InDispatch
<1>1. CASE Tick
  <2>1. clock' = clock + 1 /\ UNCHANGED <<stamp, records, tms, pc>>
    BY <1>1 DEF Tick, eventVars, rowVars, loopVars
  <2>2. Limit' = Limit + 1 /\ Limit \in Nat
    BY <1>0, <2>1 DEF Limit
  <2>3. \A e \in Events : stamp[e] <= Limit'
    BY <1>0, <2>2 DEF ClockInv
  <2>4. RowsBefore(Limit)'
    BY <1>0a, <2>1, <2>2 DEF ClockInv, RowsBefore, RowsAreTimed
  <2>5. \A l \in Loops : InDispatch(l) => tms[l] <= Limit'
    BY <1>0, <2>2 DEF ClockInv
  <2>6. QED
    BY <2>1, <2>3, <2>4, <2>5 DEF ClockInv, InDispatch, RowsBefore, SortedUpToLead
<1>2. ASSUME NEW t \in Nat, HandleTurn(t) PROVE Goal
  BY <1>0, <1>2, <1>c DEF HandleTurn, Limit
<1>3. ASSUME NEW t \in Nat, HandleCanvas(t) PROVE Goal
  BY <1>3, <1>c DEF HandleCanvas, Limit
<1>4. ASSUME NEW l \in Loops, Start(l) PROVE Goal
  <2>1. Live(l) /\ UNCHANGED <<clock, stamp, records>>
    BY <1>4 DEF Start, Live, eventVars, rowVars
  <2>2. SortedUpToLead' /\ RowsBefore(Limit)'
    BY <2>1 DEF SortedUpToLead, ClockInv, RowsBefore, Limit
  <2>3. QED
    BY <1>4, <1>b, <2>1, <2>2 DEF Start
<1>5. ASSUME NEW l \in Loops, StartCancelled(l) PROVE Goal
  BY <1>5, <1>0, <1>a DEF StartCancelled, InDispatch, eventVars, rowVars
<1>6. ASSUME NEW l \in Loops, LoadAnswers(l) PROVE Goal
  <2>1. InDispatch(l) /\ UNCHANGED <<clock, stamp, records>>
    BY <1>6 DEF LoadAnswers, InDispatch, eventVars, rowVars
  <2>2. CASE stored
    BY <1>6, <2>1, <2>2, <1>e DEF LoadAnswers
  <2>3. CASE ~stored
    BY <1>6, <2>1, <2>3, <1>d DEF LoadAnswers, RowsGrow
  <2>4. QED
    BY <2>2, <2>3
<1>7. ASSUME NEW l \in Loops, BrainAnswers(l) \/ BrainSwallowsCancel(l) PROVE Goal
  BY <1>7, <1>e DEF BrainAnswers, BrainSwallowsCancel, InDispatch, eventVars, rowVars
<1>8. ASSUME NEW l \in Loops, ApplyCommits(l) PROVE Goal
  BY <1>8, <1>e DEF ApplyCommits, InDispatch, eventVars, rowVars
<1>9. ASSUME NEW l \in Loops, ApplyReturns(l) \/ ApplyExhausted(l) PROVE Goal
  <2>1. InDispatch(l) /\ \E c \in BOOLEAN : Conclude(l, c)
    BY <1>9 DEF ApplyReturns, ApplyExhausted, InDispatch
  <2>2. PICK c \in BOOLEAN : Conclude(l, c)
    BY <2>1
  <2>3. RowsGrow(l)
    <3>1. records' = Append(records, [t |-> tms[l], reason |-> decision[l].reason,
                                      events |-> batch[l], committed |-> c])
      BY <2>2 DEF Conclude
    <3>2. QED
      BY <3>1 DEF RowsGrow
  <2>4. QED
    BY <2>1, <2>2, <2>3, <1>d DEF Conclude, eventVars
<1>10. ASSUME NEW l \in Loops, DispatchRaises(l) PROVE Goal
  BY <1>10, <1>d DEF DispatchRaises, InDispatch, RowsGrow, eventVars, rowVars
<1>11. ASSUME NEW l \in Loops, DispatchCancelled(l) PROVE Goal
  <2>1. /\ pc' = [pc EXCEPT ![l] = "done"] /\ tms' = [tms EXCEPT ![l] = 0]
        /\ UNCHANGED <<clock, stamp, records>>
    BY <1>11 DEF DispatchCancelled, Retire, Ends, eventVars, rowVars
  <2>2. \A m \in Loops : InDispatch(m)' => InDispatch(m) /\ tms'[m] = tms[m]
    BY <1>0, <2>1 DEF InDispatch
  <2>3. QED
    BY <2>1, <2>2 DEF ClockInv, Limit, RowsBefore, SortedUpToLead
<1>12. ASSUME NEW i \in Interims, CancelInFlight(i) \/ CancelReturns(i) PROVE Goal
  BY <1>12, <1>a DEF CancelInFlight, CancelReturns, InDispatch, loopVars, eventVars, rowVars
<1>13. ASSUME NEW e \in Events, WaitForIdle(e) PROVE Goal
  BY <1>13, <1>a DEF WaitForIdle, InDispatch, loopVars, eventVars, rowVars
<1>14. CASE CloseSession \/ Drain \/ DeleteState \/ UNCHANGED vars
  BY <1>14, <1>a DEF CloseSession, Drain, DeleteState, vars, InDispatch, loopVars, eventVars, rowVars
<1>15. QED
  BY <1>1, <1>2, <1>3, <1>4, <1>5, <1>6, <1>7, <1>8, <1>9, <1>10, <1>11, <1>12, <1>13, <1>14,
     Steps

(* What is left of I3 (router.py:21): a row sorts before one of an earlier   *)
(* dispatch by no more than the lead of the browser's clock, whatever that   *)
(* lead is.                                                                  *)
THEOREM RowsSortedUpToLead == Spec => []SortedUpToLead
<1>1. Init => ClockInv /\ SortedUpToLead
  BY ClockInit
<1>2. TypeOK /\ RouterInv /\ ClockInv /\ SortedUpToLead /\ [Next]_vars
        => ClockInv' /\ SortedUpToLead'
  BY ClockStep
<1>3. QED
  BY <1>1, <1>2, RouterInvariant, PTL DEF Spec

-----------------------------------------------------------------------------
(* Escalations.  The counter is the length of the run of violations that the *)
(* rows end in, and the latch is up once that run is long enough.            *)

RunInv ==
  LET n == Len(records) IN
  /\ violations <= n
  /\ \A i \in n - violations + 1 .. n : Violates(i)
  /\ violations < n => ~Violates(n - violations)
  /\ escalated <=> violations >= Escalation

LEMMA RunInit == Init => RunInv /\ EscalatesOncePerRun
<1> SUFFICES ASSUME Init PROVE RunInv /\ EscalatesOncePerRun
  OBVIOUS
<1>1. /\ records = <<>> /\ escalations = <<>> /\ violations = 0 /\ escalated = FALSE
      /\ Escalation \in Nat /\ Escalation > 0
  BY RouterAssumption DEF Init
<1>2. Len(records) = 0 /\ DOMAIN records = {} /\ DOMAIN escalations = {}
  BY <1>1, EmptySeq, LenProperties
<1>3. RunInv
  BY <1>1, <1>2 DEF RunInv
<1>4. EscalatesOncePerRun
  BY <1>2 DEF EscalatesOncePerRun, Increasing, Elements
<1>5. QED
  BY <1>3, <1>4

(* One more row: the older ones complete the runs they completed, and the   *)
(* new one completes one if it brings the counter to the threshold.         *)
LEMMA RunGrows ==
  ASSUME RowTypeOK, violations \in Nat, RunInv, NEW r, NEW n, n = Len(records) + 1,
         records' = Append(records, r),
         violations' = IF r.reason = "violation" THEN violations + 1 ELSE 0
  PROVE  /\ Len(records') = n /\ n \in Nat \ {0}
         /\ DOMAIN records' = DOMAIN records \cup {n} /\ DOMAIN records = 1 .. n - 1
         /\ \A i \in 1 .. n - 1 : Violates(i)' <=> Violates(i)
         /\ Violates(n)' <=> r.reason = "violation"
         /\ \A i \in DOMAIN records : CompletesRun(i)' <=> CompletesRun(i)
         /\ CompletesRun(n)' <=> violations' = Escalation
<1>1. /\ n \in Nat \ {0} /\ DOMAIN records = 1 .. n - 1 /\ DOMAIN records' = 1 .. n
      /\ Len(records') = n /\ records'[n] = r
      /\ \A i \in 1 .. n - 1 : records'[i] = records[i]
  BY DEF RowTypeOK
<1>2. Escalation \in Nat \ {0} /\ Escalation' = Escalation
  BY RouterAssumption
<1>3. \A i \in 1 .. n - 1 : Violates(i)' <=> Violates(i)
  BY <1>1 DEF Violates
<1>4. Violates(n)' <=> r.reason = "violation"
  BY <1>1 DEF Violates
<1>5. \A i \in 1 .. n - 1 : CompletesRun(i)' <=> CompletesRun(i)
  BY <1>1, <1>2, <1>3 DEF CompletesRun
<1>6. /\ violations <= n - 1
      /\ \A i \in n - violations .. n - 1 : Violates(i)
      /\ violations < n - 1 => ~Violates(n - 1 - violations)
  BY <1>1 DEF RunInv
<1>7. CompletesRun(n)' <=> violations' = Escalation
  <2>1. CASE r.reason # "violation"
    BY <1>1, <1>2, <1>4, <2>1 DEF CompletesRun
  <2>2. CASE r.reason = "violation"
    <3>1. violations' = violations + 1
      BY <2>2
    <3>2. CASE violations + 1 < Escalation
      <4>1. SUFFICES ASSUME n >= Escalation, \A i \in (n - Escalation) + 1 .. n : Violates(i)'
                     PROVE  FALSE
        BY <1>2, <3>1, <3>2 DEF CompletesRun
      <4>2. violations < n - 1
        BY <1>1, <1>2, <3>2, <4>1
      <4>3. PICK k : k = n - 1 - violations
        OBVIOUS
      <4>4. k \in 1 .. n - 1 /\ k \in (n - Escalation) + 1 .. n /\ ~Violates(k)
        BY <1>1, <1>2, <1>6, <3>2, <4>2, <4>3
      <4>5. QED
        BY <1>3, <4>1, <4>4
    <3>3. CASE violations + 1 = Escalation
      <4>1. n >= Escalation
        BY <1>1, <1>2, <1>6, <3>3
      <4>2. \A i \in (n - Escalation) + 1 .. n : i = n \/ i \in n - violations .. n - 1
        BY <1>1, <1>2, <3>3
      <4>3. \A i \in (n - Escalation) + 1 .. n : Violates(i)'
        BY <1>1, <1>3, <1>4, <1>6, <2>2, <4>2
      <4>4. n > Escalation => ~Violates(n - Escalation)'
        BY <1>1, <1>2, <1>3, <1>6, <3>3
      <4>5. QED
        BY <1>2, <3>1, <3>3, <4>1, <4>3, <4>4 DEF CompletesRun
    <3>4. CASE violations + 1 > Escalation
      <4>1. n > Escalation /\ n - Escalation \in n - violations .. n - 1
        BY <1>1, <1>2, <1>6, <3>4
      <4>2. Violates(n - Escalation)'
        BY <1>1, <1>3, <1>6, <4>1
      <4>3. QED
        BY <1>2, <3>1, <3>4, <4>1, <4>2 DEF CompletesRun
    <3>5. QED
      BY <1>2, <3>2, <3>3, <3>4
  <2>3. QED
    BY <2>1, <2>2
<1>8. QED
  BY <1>1, <1>3, <1>4, <1>5, <1>7

LEMMA EscalationsGrow ==
  ASSUME TypeOK, RunInv, EscalatesOncePerRun, NEW d, NEW r, d.reason = r.reason,
         records' = Append(records, r), CountViolation(d)
  PROVE  RunInv' /\ EscalatesOncePerRun'
<1>1. PICK n : n = Len(records) + 1
  OBVIOUS
<1>2. /\ RowTypeOK /\ violations \in Nat /\ escalated \in BOOLEAN
      /\ escalations \in Seq(Nat) /\ Escalation \in Nat \ {0}
  BY RouterAssumption DEF TypeOK, RowTypeOK, RouterTypeOK, StateTypeOK
<1>3. violations' = IF r.reason = "violation" THEN violations + 1 ELSE 0
  BY DEF CountViolation
<1>4. /\ Len(records') = n /\ n \in Nat \ {0}
      /\ DOMAIN records' = DOMAIN records \cup {n} /\ DOMAIN records = 1 .. n - 1
      /\ \A i \in 1 .. n - 1 : Violates(i)' <=> Violates(i)
      /\ Violates(n)' <=> r.reason = "violation"
      /\ \A i \in DOMAIN records : CompletesRun(i)' <=> CompletesRun(i)
      /\ CompletesRun(n)' <=> violations' = Escalation
  BY <1>1, <1>2, <1>3, RunGrows
<1>5. /\ violations <= n - 1
      /\ \A i \in n - violations .. n - 1 : Violates(i)
      /\ violations < n - 1 => ~Violates(n - 1 - violations)
      /\ escalated <=> violations >= Escalation
  <2>1. n - 1 = Len(records) /\ n - violations = Len(records) - violations + 1
    BY <1>1, <1>2 DEF RowTypeOK
  <2>2. n - 1 - violations = Len(records) - violations
    BY <1>1, <1>2 DEF RowTypeOK
  <2>3. QED
    BY <2>1, <2>2 DEF RunInv
<1>6. escalated' <=> violations' >= Escalation
  <2>1. CASE d.reason # "violation"
    <3>1. violations' = 0 /\ escalated' = FALSE
      BY <2>1 DEF CountViolation
    <3>2. QED
      BY <1>2, <3>1
  <2>2. CASE d.reason = "violation" /\ violations + 1 >= Escalation
    <3>1. violations' = violations + 1 /\ escalated' = TRUE
      BY <1>2, <2>2 DEF CountViolation
    <3>2. QED
      BY <2>2, <3>1
  <2>3. CASE d.reason = "violation" /\ ~(violations + 1 >= Escalation)
    <3>1. violations' = violations + 1 /\ escalated' = escalated
      BY <2>3 DEF CountViolation
    <3>2. QED
      BY <1>2, <1>5, <2>3, <3>1
  <2>4. QED
    BY <2>1, <2>2, <2>3
<1>7. RunInv'
  <2>1. PICK v : v = violations'
    OBVIOUS
  <2>2. v <= n /\ \A i \in n - v + 1 .. n : Violates(i)'
    BY <1>2, <1>3, <1>4, <1>5, <2>1
  <2>3. v < n => ~Violates(n - v)'
    BY <1>2, <1>3, <1>4, <1>5, <2>1
  <2>4. QED
    BY <1>4, <1>6, <2>1, <2>2, <2>3 DEF RunInv
<1>8. CASE violations' = Escalation
  <2>1. ~escalated /\ escalations' = Append(escalations, n)
    BY <1>1, <1>2, <1>3, <1>5, <1>8 DEF CountViolation
  <2>2. \A x \in Elements(escalations) : x < n
    BY <1>4 DEF EscalatesOncePerRun
  <2>3. Elements(escalations') = Elements(escalations) \cup {n} /\ Increasing(escalations')
    BY <1>2, <1>4, <2>1, <2>2, AppendFacts DEF EscalatesOncePerRun
  <2>4. {i \in DOMAIN records : CompletesRun(i)} \cup {n}
           = {i \in DOMAIN records \cup {n} : CompletesRun(i)'}
    BY <1>4, <1>8
  <2>5. QED
    BY <1>4, <1>7, <2>3, <2>4 DEF EscalatesOncePerRun
<1>9. CASE violations' # Escalation
  <2>1. escalations' = escalations
    BY <1>2, <1>3, <1>5, <1>9 DEF CountViolation
  <2>2. {i \in DOMAIN records : CompletesRun(i)}
           = {i \in DOMAIN records \cup {n} : CompletesRun(i)'}
    BY <1>4, <1>9
  <2>3. QED
    BY <1>4, <1>7, <2>1, <2>2 DEF EscalatesOncePerRun, Elements, Increasing
<1>10. QED
  BY <1>8, <1>9

-----------------------------------------------------------------------------
(* Apologies.  The flag is up once a timeout is on record.                   *)

TimeoutSeen == \E i \in DOMAIN records : records[i].reason = "timeout"
ApologyInv == apologyUsed <=> TimeoutSeen

LEMMA ApologyInit == Init => ApologyInv /\ ApologisesOnce
<1> SUFFICES ASSUME Init PROVE ApologyInv /\ ApologisesOnce
  OBVIOUS
<1>1. records = <<>> /\ apologies = 0 /\ apologyUsed = FALSE
  BY DEF Init
<1>2. DOMAIN records = {}
  BY <1>1, EmptySeq, LenProperties
<1>3. QED
  BY <1>1, <1>2 DEF ApologyInv, TimeoutSeen, ApologisesOnce

LEMMA ApologiesGrow ==
  ASSUME TypeOK, ApologyInv, ApologisesOnce, NEW d, NEW r, d.reason = r.reason,
         records' = Append(records, r), Apologise(d)
  PROVE  ApologyInv' /\ ApologisesOnce'
<1>1. TimeoutSeen' <=> TimeoutSeen \/ d.reason = "timeout"
  <2>1. PICK n : n = Len(records) + 1
    OBVIOUS
  <2>2. /\ DOMAIN records' = DOMAIN records \cup {n} /\ records'[n] = r
        /\ \A i \in DOMAIN records : records'[i] = records[i]
    BY <2>1 DEF TypeOK, RowTypeOK
  <2>3. QED
    BY <2>2 DEF TimeoutSeen
<1>2. apologies = IF TimeoutSeen THEN 1 ELSE 0
  BY DEF ApologisesOnce, TimeoutSeen
<1>3. apologyUsed' <=> TimeoutSeen'
  BY <1>1, <1>2 DEF Apologise, ApologyInv
<1>4. apologies' = IF TimeoutSeen' THEN 1 ELSE 0
  BY <1>1, <1>2 DEF Apologise, ApologyInv
<1>5. QED
  BY <1>3, <1>4 DEF ApologyInv, ApologisesOnce, TimeoutSeen

(* Only the end of a dispatch touches rows, counters and flags.             *)
LEMMA RowsStep ==
  ASSUME TypeOK, [Next]_vars, RunInv, EscalatesOncePerRun, ApologyInv, ApologisesOnce
  PROVE  RunInv' /\ EscalatesOncePerRun' /\ ApologyInv' /\ ApologisesOnce'
<1> DEFINE Goal == RunInv' /\ EscalatesOncePerRun' /\ ApologyInv' /\ ApologisesOnce'
<1>a. ASSUME UNCHANGED <<violations, escalated, apologyUsed, rowVars>> PROVE Goal
  BY <1>a DEF rowVars, RunInv, EscalatesOncePerRun, CompletesRun, Violates, Elements, Increasing,
              ApologyInv, ApologisesOnce, TimeoutSeen
<1>b. ASSUME NEW l \in Loops, NEW committed \in BOOLEAN, Conclude(l, committed) PROVE Goal
  <2> DEFINE d == decision[l]
             r == [t |-> tms[l], reason |-> d.reason, events |-> batch[l],
                   committed |-> committed]
  <2>1. records' = Append(records, r) /\ CountViolation(d) /\ Apologise(d)
    BY <1>b DEF Conclude
  <2>2. d.reason = r.reason
    OBVIOUS
  <2>3. QED
    BY <2>1, <2>2, EscalationsGrow, ApologiesGrow
<1>1. CASE Tick
  BY <1>1, <1>a DEF Tick, countVars
<1>2. ASSUME NEW t \in Nat, HandleTurn(t) \/ HandleCanvas(t) PROVE Goal
  BY <1>2, <1>a DEF HandleTurn, HandleCanvas, Enqueue, countVars
<1>3. ASSUME NEW l \in Loops, Start(l) \/ StartCancelled(l) PROVE Goal
  BY <1>3, <1>a DEF Start, StartCancelled, countVars
<1>4. ASSUME NEW l \in Loops, LoadAnswers(l) PROVE Goal
  BY <1>4, <1>a DEF LoadAnswers
<1>5. ASSUME NEW l \in Loops, BrainAnswers(l) \/ BrainSwallowsCancel(l) \/ ApplyCommits(l)
      PROVE  Goal
  BY <1>5, <1>a DEF BrainAnswers, BrainSwallowsCancel, ApplyCommits, countVars
<1>6. ASSUME NEW l \in Loops, ApplyReturns(l) \/ ApplyExhausted(l) PROVE Goal
  BY <1>6, <1>b DEF ApplyReturns, ApplyExhausted
<1>7. ASSUME NEW l \in Loops, DispatchRaises(l) \/ DispatchCancelled(l) PROVE Goal
  BY <1>7, <1>a DEF DispatchRaises, DispatchCancelled, countVars
<1>8. ASSUME NEW i \in Interims, CancelInFlight(i) \/ CancelReturns(i) PROVE Goal
  BY <1>8, <1>a DEF CancelInFlight, CancelReturns, countVars
<1>9. ASSUME NEW e \in Events, WaitForIdle(e) PROVE Goal
  BY <1>9, <1>a DEF WaitForIdle, countVars
<1>10. CASE CloseSession \/ Drain \/ DeleteState \/ UNCHANGED vars
  BY <1>10, <1>a DEF CloseSession, Drain, DeleteState, vars, countVars
<1>11. QED
  BY <1>1, <1>2, <1>3, <1>4, <1>5, <1>6, <1>7, <1>8, <1>9, <1>10, Steps

(* router.py:30: whatever is cancelled, put back, skipped or dropped between *)
(* them, the dispatches that escalate are those that complete a run of       *)
(* exactly _SCHEMA_VIOLATION_ESCALATION violations, each of them once.       *)
THEOREM EscalatesPerRun == Spec => []EscalatesOncePerRun
<1>1. QED
  BY RunInit, ApologyInit, RowsStep, TypeCorrect, PTL DEF Spec

(* R27 (router.py:146): one apology from the first timeout on record, and    *)
(* none before it.                                                           *)
THEOREM OneApology == Spec => []ApologisesOnce
<1>1. QED
  BY RunInit, ApologyInit, RowsStep, TypeCorrect, PTL DEF Spec

-----------------------------------------------------------------------------
(* EventRouter implements Dispatcher: each step of the router is a step of   *)
(* the dispatcher or leaves it alone.                                        *)

LEMMA InitImplements == Init => Abstract!Init
<1> SUFFICES ASSUME Init PROVE Abstract!Init
  OBVIOUS
<1>1. pending = <<>> /\ inFlight = None /\ fate = [e \in Events |-> "none"]
  BY DEF Init
<1>2. Batch = <<>> /\ Settled = {}
  BY <1>1 DEF Batch, Settled
<1>3. QED
  BY <1>1, <1>2 DEF Abstract!Init

(* The two modules speak of the same elements.                              *)
LEMMA SameElements == \A s : Abstract!Members(s) = Elements(s)
BY DEF Abstract!Members, Elements

(* A step that leaves the events where they are is a stutter.               *)
LEMMA Stutters ==
  ASSUME UNCHANGED <<pending, inFlight, batch, fate>>
  PROVE  UNCHANGED Abstract!dispatcherVars
BY DEF Abstract!dispatcherVars, Batch, Settled

(* handle() accepts an event the dispatcher has not seen.                   *)
LEMMA EnqueueAccepts ==
  ASSUME TypeOK, RouterInv, NEW t \in Nat, Enqueue(t)
  PROVE  \E e \in Events : Abstract!Accept(e)
<1> DEFINE e == handled + 1
<1>1. /\ e \in Events /\ e > handled /\ e \in Loops
      /\ pending' = Append(pending, e) /\ fate' = [fate EXCEPT ![e] = "open"]
      /\ batch' = batch
  BY RouterAssumption DEF Enqueue, TypeOK, StateTypeOK, Events, Loops
<1> HIDE DEF e
<1>2. fate[e] = "none"
  BY <1>1 DEF RouterInv, UnbornFate
<1>3. e \notin Elements(pending) \cup Elements(Batch) \cup Settled
  BY <1>2 DEF RouterInv, HandsHoldOpen, Open, Settled
<1>4. Settled' = Settled
  BY <1>1, <1>2 DEF Settled, TypeOK, StateTypeOK
<1>5. Batch' = Batch
  <2>1. CASE dispatching
    BY <1>1, <2>1 DEF Enqueue, OwnsDispatch, Batch
  <2>2. CASE ~dispatching
    <3>1. inFlight = None /\ inFlight' = e
      BY <2>2 DEF Enqueue, OwnsDispatch, RouterInv, OneDispatcher, e
    <3>2. batch[e] = <<>>
      BY <1>1, <2>2 DEF RouterInv, OneDispatcher, HandsEmptyOutside, InDispatch, Live
    <3>3. QED
      BY <1>1, <3>1, <3>2 DEF Batch
  <2>3. QED
    BY <2>1, <2>2
<1>6. QED
  BY <1>1, <1>3, <1>4, <1>5, SameElements DEF Abstract!Accept, Abstract!Enqueue

(* What the loop's top does to the batch and the pending list: it hands the *)
(* whole list over, be it empty or not.                                     *)
LEMMA NextBatchTakesAll ==
  ASSUME TypeOK, RouterInv, NEW l \in Loops, Live(l), NextBatch(l)
  PROVE  Batch' = pending /\ pending' = <<>>
<1>1. inFlight = l /\ l # None
  BY RouterAssumption DEF RouterInv, OneDispatcher, Loops, Events, None
<1>2. batch \in [Loops -> Seq(Events)]
  BY DEF TypeOK, LoopTypeOK
<1>3. CASE pending = <<>> /\ Retire(l) /\ UNCHANGED pending
  BY <1>3 DEF Retire, Batch
<1>4. CASE pending # <<>> /\ TakeBatch(l)
  BY <1>1, <1>2, <1>4 DEF TakeBatch, Batch
<1>5. QED
  BY <1>3, <1>4 DEF NextBatch

(* A loop in a dispatch has a batch with something in it.                   *)
BatchInDispatch == \A l \in Loops : InDispatch(l) => batch[l] # <<>>

LEMMA BatchInDispatchStep ==
  ASSUME TypeOK, RouterInv, BatchInDispatch, [Next]_vars
  PROVE  BatchInDispatch'
<1>0. pc \in [Loops -> Points] /\ batch \in [Loops -> Seq(Events)]
  BY DEF TypeOK, LoopTypeOK
<1>a. ASSUME UNCHANGED <<pc, batch>> PROVE BatchInDispatch'
  BY <1>a DEF BatchInDispatch, InDispatch
<1>b. ASSUME NEW l \in Loops, UNCHANGED batch, InDispatch(l), NEW p, pc' = [pc EXCEPT ![l] = p]
      PROVE  BatchInDispatch'
  BY <1>b, <1>0 DEF BatchInDispatch, InDispatch
<1>c. ASSUME NEW l \in Loops, NextBatch(l) PROVE BatchInDispatch'
  BY <1>c, <1>0 DEF NextBatch, TakeBatch, Retire, Ends, BatchInDispatch, InDispatch
<1>d. ASSUME NEW t \in Nat, Enqueue(t) PROVE BatchInDispatch'
  BY <1>d, <1>0 DEF Enqueue, BatchInDispatch, InDispatch
<1>1. CASE Tick
  BY <1>1, <1>a DEF Tick, loopVars
<1>2. ASSUME NEW t \in Nat, HandleTurn(t) PROVE BatchInDispatch'
  BY <1>2, <1>d DEF HandleTurn
<1>3. ASSUME NEW t \in Nat, HandleCanvas(t) PROVE BatchInDispatch'
  BY <1>3, <1>d DEF HandleCanvas
<1>4. ASSUME NEW l \in Loops, Start(l) PROVE BatchInDispatch'
  BY <1>4, <1>c DEF Start
<1>5. ASSUME NEW l \in Loops, StartCancelled(l) PROVE BatchInDispatch'
  BY <1>5, <1>0 DEF StartCancelled, BatchInDispatch, InDispatch
<1>6. ASSUME NEW l \in Loops, LoadAnswers(l) PROVE BatchInDispatch'
  <2>1. CASE stored
    BY <1>6, <2>1, <1>b DEF LoadAnswers, InDispatch
  <2>2. CASE ~stored
    BY <1>6, <2>2, <1>c DEF LoadAnswers
  <2>3. QED
    BY <2>1, <2>2
<1>7. ASSUME NEW l \in Loops, BrainAnswers(l) PROVE BatchInDispatch'
  BY <1>7, <1>b DEF BrainAnswers, InDispatch
<1>8. ASSUME NEW l \in Loops, BrainSwallowsCancel(l) PROVE BatchInDispatch'
  BY <1>8, <1>b DEF BrainSwallowsCancel, InDispatch
<1>9. ASSUME NEW l \in Loops, ApplyCommits(l) PROVE BatchInDispatch'
  BY <1>9, <1>b DEF ApplyCommits, InDispatch
<1>10. ASSUME NEW l \in Loops, ApplyReturns(l) PROVE BatchInDispatch'
  BY <1>10, <1>c DEF ApplyReturns, Conclude
<1>11. ASSUME NEW l \in Loops, ApplyExhausted(l) PROVE BatchInDispatch'
  BY <1>11, <1>c DEF ApplyExhausted, Conclude
<1>12. ASSUME NEW l \in Loops, DispatchRaises(l) PROVE BatchInDispatch'
  BY <1>12, <1>c DEF DispatchRaises
<1>13. ASSUME NEW l \in Loops, DispatchCancelled(l) PROVE BatchInDispatch'
  BY <1>13, <1>0 DEF DispatchCancelled, Retire, Ends, BatchInDispatch, InDispatch
<1>14. ASSUME NEW i \in Interims, CancelInFlight(i) PROVE BatchInDispatch'
  BY <1>14, <1>a DEF CancelInFlight
<1>15. ASSUME NEW i \in Interims, CancelReturns(i) PROVE BatchInDispatch'
  BY <1>15, <1>a DEF CancelReturns, loopVars
<1>16. ASSUME NEW e \in Events, WaitForIdle(e) PROVE BatchInDispatch'
  BY <1>16, <1>a DEF WaitForIdle, loopVars
<1>17. CASE CloseSession \/ Drain \/ DeleteState \/ UNCHANGED vars
  BY <1>17, <1>a DEF CloseSession, Drain, DeleteState, vars, loopVars
<1>18. QED
  BY <1>1, <1>2, <1>3, <1>4, <1>5, <1>6, <1>7, <1>8, <1>9, <1>10, <1>11, <1>12, <1>13, <1>14,
     <1>15, <1>16, <1>17, Steps

(* A dispatch that ends settles its batch, and the next one starts at once. *)
LEMMA SettleFinishes ==
  ASSUME TypeOK, RouterInv, BatchInDispatch, NEW l \in Loops, InDispatch(l),
         NEW what \in {"recorded", "skipped", "dropped"}, Settle(l, what), NextBatch(l)
  PROVE  Abstract!Finish
<1>1. Live(l) /\ inFlight = l /\ l # None
  BY RouterAssumption DEF InDispatch, Live, RouterInv, OneDispatcher, Loops, Events, None
<1>2. Batch = batch[l] /\ Batch # <<>>
  BY <1>1 DEF Batch, BatchInDispatch
<1>3. Elements(Batch) \subseteq Events
  BY SeqOfEvents, ElementsFacts
<1>4. Settled' = Settled \cup Elements(Batch)
  BY <1>2, <1>3 DEF Settle, Settled
<1>5. QED
  BY <1>1, <1>2, <1>4, NextBatchTakesAll, SameElements DEF Abstract!Finish

LEMMA StartBegins ==
  ASSUME TypeOK, RouterInv, NEW l \in Loops, Start(l)
  PROVE  Abstract!Begin \/ UNCHANGED Abstract!dispatcherVars
<1>1. Live(l) /\ ~InDispatch(l) /\ inFlight = l /\ Settled' = Settled
  BY DEF Start, Live, InDispatch, RouterInv, OneDispatcher, Settled
<1>2. Batch = <<>>
  BY <1>1 DEF Batch, RouterInv, HandsEmptyOutside
<1>3. Batch' = pending /\ pending' = <<>>
  BY <1>1, NextBatchTakesAll DEF Start
<1>4. QED
  BY <1>1, <1>2, <1>3 DEF Abstract!Begin, Abstract!dispatcherVars

LEMMA CancelPutsBack ==
  ASSUME TypeOK, RouterInv, BatchInDispatch, NEW l \in Loops, DispatchCancelled(l)
  PROVE  Abstract!PutBack
<1>1. InDispatch(l) /\ Live(l)
  BY DEF DispatchCancelled, InDispatch, Live
<1>2. inFlight = l /\ l # None
  BY <1>1, RouterAssumption DEF RouterInv, OneDispatcher, Loops, Events, None
<1>3. Batch = batch[l] /\ Batch # <<>>
  BY <1>1, <1>2 DEF Batch, BatchInDispatch
<1>4. pending' = Batch \o pending /\ inFlight' = None /\ fate' = fate
  BY <1>3 DEF DispatchCancelled, Requeued, Retire
<1>5. QED
  BY <1>3, <1>4 DEF Abstract!PutBack, Batch, Settled

LEMMA DrainDiscards ==
  ASSUME TypeOK, RouterInv, Drain
  PROVE  Abstract!Discard
<1>1. /\ pending' = <<>> /\ UNCHANGED <<inFlight, batch>>
      /\ fate' = [e \in Events |-> IF e \in Elements(pending) THEN "drained" ELSE fate[e]]
  BY DEF Drain, loopVars
<1>2. Elements(pending) \subseteq Events
  BY SeqOfEvents, ElementsFacts
<1>3. Settled' = Settled \cup Elements(pending)
  BY <1>1, <1>2 DEF Settled
<1>4. QED
  BY <1>1, <1>3, SameElements DEF Abstract!Discard, Batch

LEMMA StepImplements ==
  ASSUME TypeOK, RouterInv, BatchInDispatch, [Next]_vars
  PROVE  [Abstract!Next]_Abstract!dispatcherVars
<1> DEFINE Goal == [Abstract!Next]_Abstract!dispatcherVars
<1>a. ASSUME UNCHANGED <<pending, inFlight, batch, fate>> PROVE Goal
  BY <1>a, Stutters
<1>b. ASSUME NEW l \in Loops, InDispatch(l), NEW what \in {"recorded", "skipped", "dropped"},
             Settle(l, what), NextBatch(l)
      PROVE  Goal
  BY <1>b, SettleFinishes DEF Abstract!Next
<1>c. ASSUME NEW t \in Nat, Enqueue(t) PROVE Goal
  BY <1>c, EnqueueAccepts DEF Abstract!Next
<1>1. CASE Tick
  BY <1>1, <1>a DEF Tick, routerVars, loopVars
<1>2. ASSUME NEW t \in Nat, HandleTurn(t) PROVE Goal
  BY <1>2, <1>c DEF HandleTurn
<1>3. ASSUME NEW t \in Nat, HandleCanvas(t) PROVE Goal
  BY <1>3, <1>c DEF HandleCanvas
<1>4. ASSUME NEW l \in Loops, Start(l) PROVE Goal
  BY <1>4, StartBegins DEF Abstract!Next
<1>5. ASSUME NEW l \in Loops, StartCancelled(l) PROVE Goal
  BY <1>5, <1>a DEF StartCancelled, routerVars
<1>6. ASSUME NEW l \in Loops, LoadAnswers(l) PROVE Goal
  <2>1. CASE stored
    BY <1>6, <2>1, <1>a DEF LoadAnswers, routerVars
  <2>2. CASE ~stored
    BY <1>6, <2>2, <1>b DEF LoadAnswers, InDispatch
  <2>3. QED
    BY <2>1, <2>2
<1>7. ASSUME NEW l \in Loops, BrainAnswers(l) PROVE Goal
  BY <1>7, <1>a DEF BrainAnswers, routerVars
<1>8. ASSUME NEW l \in Loops, BrainSwallowsCancel(l) PROVE Goal
  BY <1>8, <1>a DEF BrainSwallowsCancel, routerVars
<1>9. ASSUME NEW l \in Loops, ApplyCommits(l) PROVE Goal
  BY <1>9, <1>a DEF ApplyCommits, routerVars
<1>10. ASSUME NEW l \in Loops, ApplyReturns(l) PROVE Goal
  BY <1>10, <1>b DEF ApplyReturns, Conclude, InDispatch
<1>11. ASSUME NEW l \in Loops, ApplyExhausted(l) PROVE Goal
  BY <1>11, <1>b DEF ApplyExhausted, Conclude, InDispatch
<1>12. ASSUME NEW l \in Loops, DispatchRaises(l) PROVE Goal
  BY <1>12, <1>b DEF DispatchRaises, InDispatch
<1>13. ASSUME NEW l \in Loops, DispatchCancelled(l) PROVE Goal
  BY <1>13, CancelPutsBack DEF Abstract!Next
<1>14. ASSUME NEW i \in Interims, CancelInFlight(i) PROVE Goal
  BY <1>14, <1>a DEF CancelInFlight, routerVars
<1>15. ASSUME NEW i \in Interims, CancelReturns(i) PROVE Goal
  BY <1>15, <1>a DEF CancelReturns, routerVars, loopVars
<1>16. ASSUME NEW e \in Events, WaitForIdle(e) PROVE Goal
  BY <1>16, <1>a DEF WaitForIdle, routerVars, loopVars
<1>17. CASE CloseSession \/ DeleteState \/ UNCHANGED vars
  BY <1>17, <1>a DEF CloseSession, DeleteState, vars, routerVars, loopVars
<1>18. CASE Drain
  BY <1>18, DrainDiscards DEF Abstract!Next
<1>19. QED
  BY <1>1, <1>2, <1>3, <1>4, <1>5, <1>6, <1>7, <1>8, <1>9, <1>10, <1>11, <1>12, <1>13, <1>14,
     <1>15, <1>16, <1>17, <1>18, Steps

(* router.py:3-31: the router is a server of one whole batch at a time, in   *)
(* arrival order, whatever is cancelled, failed or drained.                  *)
THEOREM Implementation == Spec => ImplementsDispatcher
<1>1. Init => BatchInDispatch /\ Abstract!Init
  BY InitImplements DEF Init, BatchInDispatch, InDispatch
<1>2. TypeOK /\ RouterInv /\ BatchInDispatch /\ [Next]_vars => BatchInDispatch'
  BY BatchInDispatchStep
<1>3. TypeOK /\ RouterInv /\ BatchInDispatch /\ [Next]_vars
        => [Abstract!Next]_Abstract!dispatcherVars
  BY StepImplements
<1>4. QED
  BY <1>1, <1>2, <1>3, RouterInvariant, PTL DEF Spec, ImplementsDispatcher, Abstract!Spec
=============================================================================
