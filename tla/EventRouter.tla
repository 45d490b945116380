----------------------------- MODULE EventRouter -----------------------------
(***************************************************************************)
(* The serialized brain dispatcher of the agent, events/router.py, with    *)
(* the tasks that call it: turn tasks (handle, then wait_for_idle), canvas  *)
(* tasks (handle), interim-transcript tasks (cancel_in_flight) and the      *)
(* entrypoint's shutdown (drain, then store.delete).                        *)
(*                                                                          *)
(* One asyncio loop runs everything, so a step is the code from one         *)
(* suspension to the next.  `_lock` is never held across a suspension and   *)
(* never suspends its taker: the critical sections are plain steps.  The    *)
(* n-th event handled is the number n, and the dispatch loop that handle(n) *)
(* spawns is task n.  Any ready task may run next, which allows every order *)
(* the event loop's ready queue can produce.                                *)
(*                                                                          *)
(* A definition named D_Variant is D with a fault a programmer could make;  *)
(* each is there to show that some property notices it.                     *)
(***************************************************************************)
EXTENDS Naturals, Sequences, FiniteSets

CONSTANTS
  MaxEvents,      \* bound on the number of handle() calls
  MaxTurns,       \* bound on those that turn tasks make
  MaxClock,       \* bound on the agent's millisecond clock
  BrowserLead,    \* how far a canvas event's browser t_ms may run ahead of it
  Interims,       \* the interim-transcript tasks, each calls cancel_in_flight once
  CostCap,        \* state.cost_cap_usd, in units of cost
  CallCosts,      \* what one brain call may cost
  Reasons,        \* the outcomes brain.decide() may have
  Escalation,     \* _SCHEMA_VIOLATION_ESCALATION
  Faults          \* may Redis calls fail, exhaust their retries or reject an update?

ASSUME RouterAssumption ==
  /\ MaxEvents \in Nat /\ MaxTurns \in Nat /\ MaxClock \in Nat /\ BrowserLead \in Nat
  /\ CostCap \in Nat \ {0} /\ CallCosts \subseteq Nat /\ CallCosts # {}
  /\ Reasons \subseteq {"speak", "quiet", "violation", "timeout", "unexpected"}
  /\ Reasons # {}
  /\ Escalation \in Nat \ {0}
  /\ Faults \in BOOLEAN

VARIABLES
  pending,        \* _pending, the events not yet in a batch
  dispatching,    \* _dispatching
  inFlight,       \* _in_flight: the loop task it holds, or None
  pc,             \* where each loop task is suspended
  batch,          \* the batch each loop task holds in its local
  tms,            \* snapshot_t_ms of the dispatch each loop task is in
  decision,       \* the BrainDecision of that dispatch
  cancelReq,      \* task.cancel() called, CancelledError not yet thrown
  violations,     \* _consecutive_schema_violations
  escalated,      \* _escalation_emitted
  capped,         \* _cost_capped
  apologyUsed,    \* _apology_used
  queue,          \* generated_at_ms of the utterances pushed to UtteranceQueue
  stored,         \* does the session's Redis key exist?
  cost,           \* cost_usd_total under that key
  clock,          \* now_ms()
  handled,        \* events handled so far
  stamp,          \* t_ms of each event
  waiter,         \* the wait_for_idle call of each turn event's task
  waitsOn,        \* the loop task that call awaits
  canceller,      \* the cancel_in_flight call of each interim task
  cancels,        \* the loop task that call awaits
  stage,          \* the entrypoint's teardown
  drains,         \* the loop task drain() awaits
  fate,           \* history: what became of each event
  records,        \* history: the snapshot and ledger rows, one per dispatch
  escalations,    \* history: positions in records that escalated
  apologies,      \* history: recovery utterances emitted
  commits         \* history: decisions written to Redis

routerVars == <<pending, dispatching, inFlight>>
loopVars   == <<pc, batch, tms, decision, cancelReq>>
countVars  == <<violations, escalated, capped, apologyUsed>>
redisVars  == <<stored, cost>>
eventVars  == <<handled, stamp>>
callerVars == <<waiter, waitsOn, canceller, cancels, stage, drains>>
rowVars    == <<queue, records, escalations, apologies>>
vars == <<routerVars, loopVars, countVars, redisVars, eventVars, callerVars,
          rowVars, clock, fate, commits>>

Events == 1 .. MaxEvents
None   == 0
Loops  == Events

(* The decisions the router tells apart.  "speak" stands for a speak        *)
(* decision that _maybe_push_utterance queues, "quiet" for every other one  *)
(* that was billed, "unexpected" for every silent one that was not.         *)
UsageReasons == {"speak", "quiet", "violation"}
FreeReasons  == {"timeout", "unexpected", "capped"}
Decisions    == [reason : UsageReasons, cost : CallCosts]
                  \cup [reason : FreeReasons, cost : {0}]
NoDecision   == [reason |-> "unexpected", cost |-> 0]

(* Where a dispatch-loop task can be suspended, or not yet or no longer be. *)
Points == {"unborn", "created", "loading", "deciding", "applying", "applied", "done"}

Elements(s) == {s[i] : i \in DOMAIN s}
Live(l) == pc[l] \notin {"unborn", "done"}
Larger(a, b) == IF a >= b THEN a ELSE b

-----------------------------------------------------------------------------
Init ==
  /\ pending = <<>> /\ dispatching = FALSE /\ inFlight = None
  /\ pc = [l \in Loops |-> "unborn"]
  /\ batch = [l \in Loops |-> <<>>]
  /\ tms = [l \in Loops |-> 0]
  /\ decision = [l \in Loops |-> NoDecision]
  /\ cancelReq = [l \in Loops |-> FALSE]
  /\ violations = 0 /\ escalated = FALSE /\ capped = FALSE /\ apologyUsed = FALSE
  /\ stored \in BOOLEAN      \* on_enter's seeding may have failed
  /\ cost = 0 /\ clock = 0 /\ handled = 0
  /\ stamp = [e \in Events |-> 0]
  /\ waiter = [e \in Events |-> "none"]
  /\ waitsOn = [e \in Events |-> None]
  /\ canceller = [i \in Interims |-> "none"]
  /\ cancels = [i \in Interims |-> None]
  /\ stage = "open" /\ drains = None
  /\ fate = [e \in Events |-> "none"]
  /\ queue = <<>> /\ records = <<>> /\ escalations = <<>>
  /\ apologies = 0 /\ commits = 0

(* A millisecond passes.                                                    *)
Tick ==
  /\ clock < MaxClock
  /\ clock' = clock + 1
  /\ UNCHANGED <<routerVars, loopVars, countVars, redisVars, eventVars,
                 callerVars, rowVars, fate, commits>>

-----------------------------------------------------------------------------
(* handle(): the flag, never task.done(), decides who spawns the loop.      *)

OwnsDispatch_IfFirst == pending = <<>>
OwnsDispatch == ~dispatching

Enqueue(t) ==
  LET e == handled + 1 IN
  /\ handled < MaxEvents
  /\ handled' = e
  /\ stamp' = [stamp EXCEPT ![e] = t]
  /\ fate' = [fate EXCEPT ![e] = "open"]
  /\ pending' = Append(pending, e)
  /\ IF OwnsDispatch
     THEN /\ dispatching' = TRUE
          /\ inFlight' = e
          /\ pc' = [pc EXCEPT ![e] = "created"]
     ELSE UNCHANGED <<dispatching, inFlight, pc>>
  /\ UNCHANGED <<batch, tms, decision, cancelReq, countVars, redisVars, rowVars,
                 clock, commits, waitsOn, canceller, cancels, stage, drains>>

(* A turn task stamps its event on entry, before it awaits the transcript   *)
(* append, and goes on to wait_for_idle().  session.aclose() ends new turns; *)
(* the tasks it finds still run until they are gathered.                    *)
HandleTurn(t) ==
  /\ stage \in {"open", "gathering"}
  /\ Cardinality({e \in Events : waiter[e] # "none"}) < MaxTurns
  /\ t \in 0 .. clock
  /\ Enqueue(t)
  /\ waiter' = [waiter EXCEPT ![handled + 1] = "calling"]

(* A canvas event carries the browser's t_ms.  Nothing unregisters its      *)
(* stream handler.                                                          *)
HandleCanvas(t) ==
  /\ stage # "closed"
  /\ t \in 0 .. clock + BrowserLead
  /\ Enqueue(t)
  /\ UNCHANGED waiter

-----------------------------------------------------------------------------
(* _dispatch_loop()                                                         *)

(* _dispatch's stamp: the clock, or the merged event's t_ms if that is      *)
(* later; coalesce() gives the merged event the latest t_ms of the batch.   *)
SnapshotTime_EventOnly(m) == m
SnapshotTime(m) == Larger(clock, m)

(* The loop task ends and its locals go with it.                            *)
Ends(l) ==
  /\ pc' = [pc EXCEPT ![l] = "done"]
  /\ batch' = [batch EXCEPT ![l] = <<>>]
  /\ tms' = [tms EXCEPT ![l] = 0]

(* It releases the flag and _in_flight in the same step.                    *)
Retire_KeepsTask(l) == Ends(l) /\ dispatching' = FALSE /\ UNCHANGED inFlight
Retire_KeepsFlag(l) == Ends(l) /\ inFlight' = None /\ UNCHANGED dispatching
Retire(l) == Ends(l) /\ dispatching' = FALSE /\ inFlight' = None

(* The top of the loop: take everything pending, or retire if there is      *)
(* nothing.  _dispatch stamps the batch and suspends in load().             *)
TakeBatch(l) ==
  /\ pc' = [pc EXCEPT ![l] = "loading"]
  /\ batch' = [batch EXCEPT ![l] = pending]
  /\ pending' = <<>>
  /\ \E m \in {stamp[e] : e \in Elements(pending)} :
       /\ \A e \in Elements(pending) : stamp[e] <= m
       /\ tms' = [tms EXCEPT ![l] = SnapshotTime(m)]
  /\ UNCHANGED <<dispatching, inFlight>>

NextBatch(l) ==
  /\ decision' = [decision EXCEPT ![l] = NoDecision]
  /\ \/ pending = <<>> /\ Retire(l) /\ UNCHANGED pending
     \/ pending # <<>> /\ TakeBatch(l)

Settle(l, what) ==
  fate' = [e \in Events |-> IF e \in Elements(batch[l]) THEN what ELSE fate[e]]

Start(l) ==
  /\ pc[l] = "created" /\ ~cancelReq[l]
  /\ NextBatch(l)
  /\ UNCHANGED <<cancelReq, countVars, redisVars, eventVars, callerVars,
                 rowVars, clock, fate, commits>>

(* A task cancelled before its first step never enters its coroutine, so    *)
(* neither the flag nor _in_flight is reset.                                *)
StartCancelled(l) ==
  /\ pc[l] = "created" /\ cancelReq[l]
  /\ pc' = [pc EXCEPT ![l] = "done"]
  /\ cancelReq' = [cancelReq EXCEPT ![l] = FALSE]
  /\ UNCHANGED <<routerVars, batch, tms, decision, countVars, redisVars, eventVars,
                 callerVars, rowVars, clock, fate, commits>>

(* The store answers load(): no state, a cap already reached, or the call.  *)
CapReached_LatchOnly == capped
CapReached == capped \/ cost >= CostCap

LoadAnswers(l) ==
  /\ pc[l] = "loading" /\ ~cancelReq[l]
  /\ IF stored
     THEN /\ IF CapReached
             THEN /\ capped' = TRUE
                  /\ pc' = [pc EXCEPT ![l] = "applying"]
                  /\ decision' = [decision EXCEPT ![l] =
                                    [reason |-> "capped", cost |-> 0]]
             ELSE /\ pc' = [pc EXCEPT ![l] = "deciding"]
                  /\ UNCHANGED <<capped, decision>>
          /\ UNCHANGED <<routerVars, batch, tms, fate>>
     ELSE /\ Settle(l, "skipped")
          /\ NextBatch(l)
          /\ UNCHANGED capped
  /\ UNCHANGED <<cancelReq, violations, escalated, apologyUsed, redisVars,
                 eventVars, callerVars, rowVars, clock, commits>>

(* brain.decide() returns one of its decisions or raises ("unexpected").    *)
BrainAnswers(l) ==
  /\ pc[l] = "deciding" /\ ~cancelReq[l]
  /\ \E d \in Decisions :
       /\ d.reason \in Reasons
       /\ decision' = [decision EXCEPT ![l] = d]
  /\ pc' = [pc EXCEPT ![l] = "applying"]
  /\ UNCHANGED <<routerVars, batch, tms, cancelReq, countVars, redisVars, eventVars,
                 callerVars, rowVars, clock, fate, commits>>

(* Cancelled in its retry backoff, the SDK turns CancelledError into        *)
(* APIConnectionError: the dispatch goes on as if the call had failed.      *)
BrainSwallowsCancel(l) ==
  /\ pc[l] = "deciding" /\ cancelReq[l]
  /\ decision' = [decision EXCEPT ![l] = NoDecision]
  /\ cancelReq' = [cancelReq EXCEPT ![l] = FALSE]
  /\ pc' = [pc EXCEPT ![l] = "applying"]
  /\ UNCHANGED <<routerVars, batch, tms, countVars, redisVars, eventVars,
                 callerVars, rowVars, clock, fate, commits>>

(* Redis runs the EXEC of _apply_decision; the task has not resumed yet.    *)
CostAfter_Refunds(d) == cost - d.cost
CostAfter(d) == cost + d.cost

ApplyCommits(l) ==
  /\ pc[l] = "applying"
  /\ pc' = [pc EXCEPT ![l] = "applied"]
  /\ stored' = TRUE          \* `current or baseline`
  /\ cost' = CostAfter(decision[l])
  /\ commits' = commits + 1
  /\ UNCHANGED <<routerVars, batch, tms, decision, cancelReq, countVars, eventVars,
                 callerVars, rowVars, clock, fate>>

(* _update_violation_counter                                                *)
CountViolation_KeepsLatch(d) ==
  IF d.reason = "violation"
  THEN /\ violations' = violations + 1
       /\ IF violations + 1 >= Escalation /\ ~escalated
          THEN /\ escalated' = TRUE
               /\ escalations' = Append(escalations, Len(records) + 1)
          ELSE UNCHANGED <<escalated, escalations>>
  ELSE violations' = 0 /\ UNCHANGED <<escalated, escalations>>

CountViolation(d) ==
  IF d.reason = "violation"
  THEN /\ violations' = violations + 1
       /\ IF violations + 1 >= Escalation /\ ~escalated
          THEN /\ escalated' = TRUE
               /\ escalations' = Append(escalations, Len(records) + 1)
          ELSE UNCHANGED <<escalated, escalations>>
  ELSE /\ violations' = 0
       /\ escalated' = FALSE
       /\ UNCHANGED escalations

(* _maybe_emit_recovery_utterance                                           *)
Apologise_EveryTime(d) ==
  IF d.reason = "timeout"
  THEN apologyUsed' = TRUE /\ apologies' = apologies + 1
  ELSE UNCHANGED <<apologyUsed, apologies>>

Apologise(d) ==
  IF d.reason = "timeout" /\ ~apologyUsed
  THEN apologyUsed' = TRUE /\ apologies' = apologies + 1
  ELSE UNCHANGED <<apologyUsed, apologies>>

(* The rest of _dispatch once apply() is over, then the loop's next round.  *)
Conclude(l, committed) ==
  LET d == decision[l] IN
  /\ records' = Append(records, [t |-> tms[l], reason |-> d.reason,
                                 events |-> batch[l], committed |-> committed])
  /\ CountViolation(d)
  /\ queue' = IF d.reason = "speak" THEN Append(queue, tms[l]) ELSE queue
  /\ Apologise(d)
  /\ Settle(l, "recorded")
  /\ NextBatch(l)
  /\ UNCHANGED <<cancelReq, capped, redisVars, eventVars, callerVars,
                 clock, commits>>

ApplyReturns(l) ==
  /\ pc[l] = "applied" /\ ~cancelReq[l]
  /\ Conclude(l, TRUE)

(* RedisCasExhaustedError: the baseline stands in, the rest runs as usual.  *)
ApplyExhausted(l) ==
  /\ Faults
  /\ pc[l] = "applying" /\ ~cancelReq[l]
  /\ Conclude(l, FALSE)

(* Any other exception out of load() or apply() drops the batch: a lost     *)
(* connection (the EXEC may have run), or a state update that fails the     *)
(* model's validation.                                                      *)
DispatchRaises(l) ==
  /\ Faults
  /\ pc[l] \in {"loading", "applying", "applied"} /\ ~cancelReq[l]
  /\ Settle(l, "dropped")
  /\ NextBatch(l)
  /\ UNCHANGED <<cancelReq, countVars, redisVars, eventVars, callerVars,
                 rowVars, clock, commits>>

(* CancelledError out of _dispatch: the batch goes back in front.           *)
Requeued_Lost(l) == pending
Requeued_Behind(l) == pending \o batch[l]
Requeued(l) == batch[l] \o pending

DispatchCancelled(l) ==
  /\ pc[l] \in {"loading", "deciding", "applying", "applied"} /\ cancelReq[l]
  /\ pending' = Requeued(l)
  /\ Retire(l)
  /\ decision' = [decision EXCEPT ![l] = NoDecision]
  /\ cancelReq' = [cancelReq EXCEPT ![l] = FALSE]
  /\ UNCHANGED <<countVars, redisVars, eventVars, callerVars,
                 rowVars, clock, fate, commits>>

LoopStep(l) ==
  \/ Start(l) \/ StartCancelled(l)
  \/ LoadAnswers(l)
  \/ BrainAnswers(l) \/ BrainSwallowsCancel(l)
  \/ ApplyCommits(l) \/ ApplyReturns(l) \/ ApplyExhausted(l)
  \/ DispatchRaises(l) \/ DispatchCancelled(l)

-----------------------------------------------------------------------------
(* cancel_in_flight(), called by handle_interim_transcript                  *)

Running(l) == l # None /\ pc[l] # "done"     \* task is not None and not done()

CancelInFlight(i) ==
  /\ stage \in {"open", "gathering"}
  /\ canceller[i] = "none"
  /\ IF Running(inFlight)
     THEN /\ cancelReq' = [cancelReq EXCEPT ![inFlight] = TRUE]
          /\ canceller' = [canceller EXCEPT ![i] = "awaiting"]
          /\ cancels' = [cancels EXCEPT ![i] = inFlight]
     ELSE /\ canceller' = [canceller EXCEPT ![i] = "returned"]
          /\ UNCHANGED <<cancelReq, cancels>>
  /\ UNCHANGED <<routerVars, pc, batch, tms, decision, countVars, redisVars, eventVars,
                 waiter, waitsOn, stage, drains, rowVars, clock, fate, commits>>

CancelReturns(i) ==
  /\ canceller[i] = "awaiting" /\ ~Running(cancels[i])
  /\ canceller' = [canceller EXCEPT ![i] = "returned"]
  /\ cancels' = [cancels EXCEPT ![i] = None]
  /\ UNCHANGED <<routerVars, loopVars, countVars, redisVars, eventVars, waiter,
                 waitsOn, stage, drains, rowVars, clock, fate, commits>>

-----------------------------------------------------------------------------
(* wait_for_idle(): one round of its loop.  A round that finds neither an   *)
(* idle router nor a task to await yields with sleep(0) and looks again.    *)

Idle_IgnoresPending == inFlight = None /\ ~dispatching
Idle == inFlight = None /\ ~dispatching /\ pending = <<>>

WaitForIdle(e) ==
  /\ \/ waiter[e] \in {"calling", "spinning"}
     \/ waiter[e] = "awaiting" /\ ~Running(waitsOn[e])
  /\ waiter' = [waiter EXCEPT ![e] =
                  IF Idle THEN "returned"
                  ELSE IF Running(inFlight) THEN "awaiting" ELSE "spinning"]
  /\ waitsOn' = [waitsOn EXCEPT ![e] = IF Running(inFlight) THEN inFlight ELSE None]
  /\ UNCHANGED <<routerVars, loopVars, countVars, redisVars, eventVars, canceller,
                 cancels, stage, drains, rowVars, clock, fate, commits>>

-----------------------------------------------------------------------------
(* The entrypoint's teardown: session.aclose(), gather the turn and interim *)
(* tasks, mentor.shutdown() = router.drain() ... store.delete().            *)

CloseSession ==
  /\ stage = "open"
  /\ stage' = "gathering"
  /\ UNCHANGED <<routerVars, loopVars, countVars, redisVars, eventVars, waiter, waitsOn,
                 canceller, cancels, drains, rowVars, clock, fate, commits>>

Gathered ==
  /\ \A e \in Events : waiter[e] \in {"none", "returned"}
  /\ \A i \in Interims : canceller[i] \in {"none", "returned"}

Drain ==
  /\ stage = "gathering" /\ Gathered
  /\ pending' = <<>>
  /\ fate' = [e \in Events |-> IF e \in Elements(pending) THEN "drained" ELSE fate[e]]
  /\ stage' = "draining"
  /\ drains' = inFlight
  /\ UNCHANGED <<dispatching, inFlight, loopVars, countVars, redisVars, eventVars,
                 waiter, waitsOn, canceller, cancels, rowVars, clock, commits>>

DeleteState ==
  /\ stage = "draining" /\ ~Running(drains)
  /\ stage' = "closed"
  /\ stored' = FALSE
  /\ UNCHANGED <<routerVars, loopVars, countVars, cost, eventVars, waiter, waitsOn,
                 canceller, cancels, drains, rowVars, clock, fate, commits>>

Next ==
  \/ Tick
  \/ \E t \in 0 .. MaxClock : HandleTurn(t)
  \/ \E t \in 0 .. MaxClock + BrowserLead : HandleCanvas(t)
  \/ \E l \in Loops : LoopStep(l)
  \/ \E i \in Interims : CancelInFlight(i) \/ CancelReturns(i)
  \/ \E e \in Events : WaitForIdle(e)
  \/ CloseSession \/ Drain \/ DeleteState

(* asyncio runs every ready task, Redis answers and brain.decide() has a    *)
(* deadline; nothing forces a candidate to speak, draw or leave.            *)
Fairness ==
  /\ \A l \in Loops : WF_vars(LoopStep(l))
  /\ \A i \in Interims : WF_vars(CancelReturns(i))
  /\ \A e \in Events : WF_vars(WaitForIdle(e))
  /\ WF_vars(Drain) /\ WF_vars(DeleteState)

Spec == Init /\ [][Next]_vars
FairSpec == Spec /\ Fairness
-----------------------------------------------------------------------------
(* PROPERTIES                                                               *)

RouterTypeOK ==
  /\ pending \in Seq(Events) /\ dispatching \in BOOLEAN
  /\ inFlight \in Loops \cup {None}
LoopTypeOK ==
  /\ pc \in [Loops -> Points]
  /\ batch \in [Loops -> Seq(Events)] /\ tms \in [Loops -> Nat]
  /\ decision \in [Loops -> Decisions] /\ cancelReq \in [Loops -> BOOLEAN]
StateTypeOK ==
  /\ violations \in Nat /\ escalated \in BOOLEAN
  /\ capped \in BOOLEAN /\ apologyUsed \in BOOLEAN
  /\ stored \in BOOLEAN /\ cost \in Nat /\ clock \in 0 .. MaxClock
  /\ handled \in 0 .. MaxEvents /\ stamp \in [Events -> Nat]
  /\ fate \in [Events -> {"none", "open", "recorded", "skipped", "dropped", "drained"}]
CallerTypeOK ==
  /\ waiter \in [Events -> {"none", "calling", "awaiting", "spinning", "returned"}]
  /\ waitsOn \in [Events -> Loops \cup {None}]
  /\ canceller \in [Interims -> {"none", "awaiting", "returned"}]
  /\ cancels \in [Interims -> Loops \cup {None}]
  /\ stage \in {"open", "gathering", "draining", "closed"}
  /\ drains \in Loops \cup {None}
RowTypeOK ==
  /\ queue \in Seq(Nat)
  /\ records \in Seq([t : Nat, reason : UsageReasons \cup FreeReasons,
                      events : Seq(Events), committed : BOOLEAN])
  /\ escalations \in Seq(Nat) /\ apologies \in Nat /\ commits \in Nat
TypeOK == RouterTypeOK /\ LoopTypeOK /\ StateTypeOK /\ CallerTypeOK /\ RowTypeOK

(* I1 (router.py:11): at most one dispatch loop lives, it is the one        *)
(* _in_flight holds, and a cleared flag leaves no task behind, whatever     *)
(* handle, cancel and drain calls interleave.                               *)
OneDispatcher ==
  /\ \A l \in Loops : Live(l) => dispatching /\ inFlight = l
  /\ ~dispatching => inFlight = None

(* The batch of the task in _in_flight, and with it everything unserved,    *)
(* oldest first.                                                            *)
Batch == IF inFlight = None THEN <<>> ELSE batch[inFlight]
InHand == Batch \o pending

Increasing(s) == \A i, j \in DOMAIN s : i < j => s[i] < s[j]

(* I2 (router.py:17, "no event is lost"): every event not yet settled is in *)
(* the batch in flight or in _pending, exactly once and in arrival order,   *)
(* however often the batch is cancelled and put back.                       *)
NothingLost ==
  /\ Elements(InHand) = {e \in Events : fate[e] = "open"}
  /\ Increasing(InHand)

(* A batch is settled as a whole and before anything that arrived later:    *)
(* cancellation never lets a younger event overtake an older one.           *)
ServedInOrder ==
  \A e, f \in Events :
    fate[e] \in {"recorded", "skipped", "dropped"} /\ fate[f] = "open" => e < f

(* What is left of I3 with a browser that shares its room before the agent  *)
(* starts its clock: a row may sort before one of an earlier dispatch, but  *)
(* by no more than the browser's lead, because router.py:278 keeps the      *)
(* agent's clock as a floor under every stamp.                              *)
SortedUpToLead ==
  \A i, j \in DOMAIN records : i < j => records[i].t <= records[j].t + BrowserLead

(* I3 as stated (router.py:21): the agent's monotonic clock guarantees that *)
(* snapshot rows sort in the order of their dispatches.  A canvas event's   *)
(* stamp is of another clock.                                               *)
SnapshotsSorted ==
  \A i, j \in DOMAIN records : i < j => records[i].t <= records[j].t

(* The cost guard (router.py:25): the session's cost passes the cap by less *)
(* than one call, whatever is cancelled, retried or lost in between.        *)
OvershootsByOneCall ==
  \/ cost < CostCap
  \/ \E c \in CallCosts : cost < CostCap + c

(* router.py:30: the dispatches that escalate are those that complete a run *)
(* of exactly _SCHEMA_VIOLATION_ESCALATION consecutive violations.          *)
Violates(i) == records[i].reason = "violation"
CompletesRun(i) ==
  /\ i >= Escalation
  /\ \A j \in (i - Escalation) + 1 .. i : Violates(j)
  /\ i > Escalation => ~Violates(i - Escalation)
EscalatesOncePerRun ==
  /\ Elements(escalations) = {i \in DOMAIN records : CompletesRun(i)}
  /\ Increasing(escalations)

(* R27 (router.py:146): the first brain timeout on record is apologised for *)
(* and no later one is.                                                     *)
ApologisesOnce ==
  apologies = IF \E i \in DOMAIN records : records[i].reason = "timeout" THEN 1 ELSE 0

(* wait_for_idle (router.py:202) returns to a turn only when the turn's own *)
(* event is settled: a barge-in that puts it back does not let it through.  *)
WaiterSeesItsDecision ==
  \A e \in Events : waiter[e] = "returned" => fate[e] # "open"

(* An event that some loop has in its hands once every cancel_in_flight     *)
(* call has been made and has returned is eventually settled, together with *)
(* every event an earlier cancellation put back.                            *)
InterimsOver == \A i \in Interims : canceller[i] = "returned"
SettledAfterInterims ==
  \A e \in Events :
    (fate[e] = "open" /\ InterimsOver /\ \E l \in Loops : Live(l)) ~> fate[e] # "open"

(* A turn task gets past wait_for_idle (router.py:203) unless someone has   *)
(* barged in.                                                               *)
BargedIn == \E i \in Interims : canceller[i] # "none"
WaitStuckOnlyByBargeIn ==
  \A e \in Events : waiter[e] = "calling" ~> (waiter[e] = "returned" \/ BargedIn)

(* So does the entrypoint's teardown (main.py:1334-1362) reach the deletion *)
(* of the session's Redis key, Redis faults included.                       *)
TeardownStuckOnlyByBargeIn ==
  stage = "gathering" ~> (stage = "closed" \/ BargedIn)

(* main.py:1343: the teardown always reaches the deletion of the key.       *)
TeardownCompletes == stage = "gathering" ~> stage = "closed"

(* router.py:232: no event is left in _pending behind a raised flag "with   *)
(* no live loop".                                                           *)
FlagHasLiveLoop == dispatching => \E l \in Loops : Live(l)

(* With no dispatch under way, every decision rolled into Redis has its     *)
(* snapshot row (snapshots/serializer.py:3, "Every brain call writes one    *)
(* snapshot row").                                                          *)
AppliedIsRecorded ==
  (\A l \in Loops : ~Live(l)) =>
     commits = Len(SelectSeq(records, LAMBDA r : r.committed))

(* The abstract dispatcher this module implements.                          *)
Settled == {e \in Events : fate[e] \notin {"none", "open"}}
Abstract == INSTANCE Dispatcher WITH
  Event <- Events, queued <- pending, running <- Batch, settled <- Settled

(* router.py:3-31: whatever is cancelled, failed or drained, the router is  *)
(* a server of one whole batch at a time, in arrival order.                 *)
ImplementsDispatcher == Abstract!Spec

(* main.py:646: shutdown's "`store.delete` removes the no-TTL session key", *)
(* and nothing writes it again.                                             *)
KeyGoneWhenClosed == stage = "closed" => ~stored
==============================================================================
