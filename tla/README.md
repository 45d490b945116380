# ArchMentor: TLA+ models of the voice mentor

ArchMentor interviews a candidate on system design: a LiveKit voice agent
(`src/apps/agent`) listens, watches an Excalidraw canvas, asks a language model
("the brain") what to say, and records everything through a FastAPI control plane
(`src/apps/api`); a Next.js client (`src/apps/web`) joins the room, publishes the
canvas and ends the session. These modules model the parts whose correctness
depends on order: who runs when on the agent's event loop, what is cancelled,
retried, stamped, stored or lost.

## 1. The system

### Components, their state and their operations

| component | state it keeps | operations |
|---|---|---|
| Event router, `events/router.py` | `_pending`, `_dispatching`, `_in_flight`, violation counter, escalation latch, cost and apology latches | `handle`, `cancel_in_flight`, `drain`, `wait_for_idle`, the dispatch loop |
| Coalescer, `events/coalescer.py` | none (pure) | `coalesce` |
| Utterance queue, speech gate, `queue/` | a deque of utterances; speaking flag and grace time | `push`, `pop_if_fresh`, `clear_stale_on_new_turn`; `mark_speaking`, `mark_done_speaking`, `is_candidate_speaking` |
| Session state store, `state/redis_store.py` | one Redis key per session | `put`, `load`, `apply` (WATCH/GET/EXEC with retries), `delete` |
| Voice agent, `main.py` | `opening_complete`, `_t0_ms`, `_say_lock`, task sets, canvas rate window | `on_enter`, turn, interim, canvas and synthetic tasks, `shutdown`; the entrypoint's teardown |
| Brain client, `brain/` | singleton SDK client | `decide`, with its timeouts and typed outcomes |
| Ingest clients, `ledger/`, `snapshots/`, `canvas/client.py` | HTTP pool | `append` with three attempts |
| Bootstrap client, `api_client/` | none | `fetch_session_bootstrap`, two attempts |
| STT, noise gate, Kokoro TTS, `audio/`, `tts/` | model singletons, gate hysteresis, the engine's chunk queue | transcribe; synthesize and drain threads |
| Sessions API, `routes/sessions.py`, `services/` | session rows and their child rows in Postgres | create, end, delete, bootstrap, three ingest routes |
| Token API, `routes/livekit_tokens.py` | none | mint against an ACTIVE session |
| Body-size middleware | bytes counted of one request | cap by header, then by stream |
| Canvas publisher, `canvas-scene-publisher.ts` | pending scene, last fingerprint, throttle timer | `onSceneChange`, `flushNow`, `dispose`, the timer |
| Session room, `session-room.tsx` | room ref, joining and mounted refs, React state | join, leave, end, `Disconnected`, unmount, keepalive |

### How they interact

A final transcript starts a *turn task*: it appends the turn to the Redis state,
clears older utterances, calls `router.handle`, then waits in `wait_for_idle` and
finally speaks one utterance. An interim transcript starts an *interim task* that
cancels the dispatch in flight (barge-in). A canvas message starts a *canvas
task*: it writes the canvas to the Redis state, then calls `router.handle`. The
router serializes all of it into dispatches: load the state, call the brain,
apply the decision by compare-and-swap, schedule the snapshot and ledger rows,
queue an utterance. The teardown gathers the tasks, drains the router and
deletes the Redis key. The API accepts rows only while the session row is ACTIVE,
under a row lock that `/end` takes too.

### What is hard about it

* Everything in the agent runs on one asyncio loop, so steps are atomic between
  suspensions and only there; the router's correctness rests on which code runs
  without suspending.
* Cancellation can land at any suspension of a dispatch, before the task's first
  step, or between Redis running a transaction and the task learning of it; the
  model SDK sometimes turns it into an ordinary error.
* Several tasks write the one Redis key; retries are bounded.
* Row POSTs are retried after a lost reply, race with `/end`, and are dropped on
  any 4xx.
* The session room's `join` has four awaits, and the candidate, the network and the
  router of the page may act in each; the worker's handlers are registered late.
* The canvas passes a throttle, overlapping sends, a text stream that nobody may be
  listening to, a rate limit and a compare-and-swap before the brain sees it, and each of
  them may drop it.
* Speech synthesis is two threads and a coroutine over one queue that outlives them.
* Two clocks stamp events: the agent's and the browser's.
* The teardown waits for tasks that may themselves be waiting.

`PROJECT.json` lists each hazard at its line, with the properties that cover it.

### What makes each component correct

* Router: one dispatcher; no event lost, doubled or overtaken; a turn resumes only
  when its own event is settled; rows sort in dispatch order up to the browser's lead;
  cost passes the cap by less than one call; one escalation per run of violations, one apology per session;
  everything in hand is eventually settled; the teardown ends.
* Voice loop: turns never speak over each other or out of order; once all is quiet and no
  turn was cut short by an error the indicator is back at "listening"; a turn ends once the
  candidate neither draws nor interrupts.
* Store: every update is atomic, none is lost, giving up is the rivals' doing, and a
  dispatch loads what it was called for.
* Ingest: `append` returns; what it reports stored is stored; a payload is stored twice
  only after a loss.
* Sessions API: rows only go into an active session, it ends once, only an ended one is
  deleted; a reply holds for good; nobody but the owner acts on a session.
* Canvas: no scene stays pending without a timer; a scene the browser skips as already sent
  is the one stored, and what is drawn last comes to be stored, both as long as the last
  message is not lost on its way, turned away, overtaken or refused by the store.
* Session room and worker: no room is left connected, the Join button is never dead, the
  worker ends when the candidate leaves after the worker has registered its handlers.
* Brain and speech: every turn goes with one batch, in order, and is in the prompt that was
  answered for it; what a call was charged is in the session's cost unless an attempt was
  abandoned or the decision not stored; an utterance is heard in its own order; dispatches
  and streams end.

## 2. The modules

### EventRouter

The router and the tasks that call it, in one module, since the properties are about
their interleaving. One action is the code between two suspensions:

| code | actions |
|---|---|
| `handle` from a turn task, from a canvas task | `HandleTurn`, `HandleCanvas` (both `Enqueue`) |
| `_dispatch_loop` up to the `await` in `store.load` | `Start`, and `NextBatch` at the end of every dispatch |
| a task cancelled before its first step | `StartCancelled` |
| `load` returns; no state, cap, or call | `LoadAnswers` |
| `brain.decide` returns, or swallows a cancellation | `BrainAnswers`, `BrainSwallowsCancel` |
| Redis runs the EXEC; the task resumes | `ApplyCommits`; `ApplyReturns` |
| CAS retries exhausted, any other exception | `ApplyExhausted`, `DispatchRaises` |
| `CancelledError` in a dispatch | `DispatchCancelled` |
| `cancel_in_flight` before and after its `await` | `CancelInFlight`, `CancelReturns` |
| one round of `wait_for_idle` | `WaitForIdle` |
| the entrypoint's `finally` | `CloseSession`, `Drain`, `DeleteState` |

The n-th event is the number n and the loop task that `handle` may spawn for it is
task n, so arrival order is the order of numbers. A brain decision keeps what the
router looks at: its reason and its cost. The history variables `fate`, `records`,
`escalations`, `apologies` and `commits` say what became of each event and which rows
were scheduled; no action reads them, except `Len(records)` to number a row.

Two over-approximations: any ready task may run next (asyncio's ready queue is FIFO,
the network decides the rest), and a clock tick may fall between any two steps. One
assumption: an EXEC is run by Redis before the cancellation reaches its caller or not
at all. The bundled `WhisperCppSTT` advertises no interim results, so the barge-in path
runs only with a recognizer that has them; `_on_user_input` handles both.

### Dispatcher

The router as its callers see it: three variables (`queued`, `running`, `settled`) and
five steps (`Accept` takes an event that has not come before, `Enqueue` any). It takes everything queued as one batch, works on one batch at a time,
settles a batch as a whole, and puts an interrupted one back in front. `EventRouter`
implements it under the mapping at the end of `EventRouter.tla` (`Abstract`): `queued` is
`pending`, `running` the batch the live loop holds, `settled` the events that have a
fate. `VoiceLoop` and `SessionStore` are composed with
`Dispatcher`, not with the router's internals, so what they show holds for any router
that keeps this promise.

### VoiceLoop

`MentorAgent`'s speaking side with the utterance queue and the speech gate. Everyone who
may speak is a task: `Opening` (`on_enter`), one per final transcript
(`handle_user_input`), and `Apology` (`_emit_synthetic_async`). `phase` says where each is
suspended; both settings of `brain_enabled` are initial states.

| code | actions |
|---|---|
| `handle_user_input` up to the transcript append; the append returns or raises | `FinalArrives`; `TurnAppended`, `AppendRaises` |
| `router.handle` | `HandsOver` |
| `wait_for_idle` returns and `_drain_utterance_queue` decides | `Drains`: `Skips` (lock taken), `FindsNothing`, `Pops` |
| `_run_static_ack_turn` | `Acknowledges` |
| `session.say` starts, raises, ends | `Says`, `SayRefused`, `SayEnds` |
| the append of what was said returns or raises | `Recorded`, `RecordRaises` |
| the last publication and the release of `_say_lock` | `Closes` |
| `on_enter` after seeding; `_emit_synthetic_async` | `OpeningStarts`, `ApologyStarts` |
| canvas message, interim transcript | `CanvasArrives`, `InterimArrives` |
| the dispatch loop begins, ends a batch, is cancelled | `Begins`, `Concludes`, `CancelLands` |

Utterances are serial numbers; `pushed` keeps the stamp of each, so the FIFO queue is a
set. `loop` is `stillborn` after a cancel that came before the loop's first step: the
dispatching flag stays set for ever, as `EventRouter` shows. Canvas messages keep coming:
one may be queued whenever no other is, since messages that wait together go in one batch
and only their number would differ. `spoken` is a history variable; `pushed` is one as far
as the utterances no longer queued are concerned. The browser's clock is taken not to run ahead, so the stamp of a dispatch is the agent's
clock. The teardown is left to `EventRouter`.

### SessionState, SessionStore and AtomicState

`SessionState` is the stored record with the three fields that several kinds of task
touch (transcript window, canvas, decisions; the counters, phase and rubric are written
by dispatches only, like the decisions) and the three mutators as `Merge`. A writer
stands for what it writes.

`SessionStore` has the tasks that share a session's key. A step is one Redis command:

| code | actions |
|---|---|
| `put` in `_initialize_brain_state`, or its failure | `Put` |
| WATCH, GET with the mutator, EXEC | `Watch`, `Get` (may refuse), `Commits` or `Conflicts` |
| a connection lost in `apply`, before or after the EXEC ran | `Raises`, `Commits` with outcome `unknown` |
| after `_apply_canvas_state`, `_append_transcript_turn`: `router.handle` | `HandsOver` |
| a dispatch: `load`, then `apply`, then the next batch | `Begins`, `Load`, `LoadRaises`, `Concludes` |
| a barge-in at any await of a dispatch | `Interrupted` |
| the entrypoint's `finally`: tasks gathered, router drained, `delete` | `Drain` (guard `TurnsOver`), `Delete` |

WATCH is a version counter. `begun` and `commits` are history variables. Dispatches are
those the bound allows, in no order; a dispatch whose session state is missing ends
without calling the brain. The key is taken to be absent when the agent starts.

`AtomicState` is what the store promises: each update is one step on the current
state, or is declined; the writer is told which, unless the connection broke.
`SessionStore` implements it with `value <- key`.

### Ledger, ControlPlane and IngestDelivery

`ControlPlane` is the API's session routes over Postgres. A call is one HTTP request, and
its handler is a sequence of steps between its database statements; handlers run in a
thread pool, so any two interleave. `SELECT ... FOR UPDATE` is `lock`, held from the check
of the status to the commit; a plain read does not wait for it, an UPDATE or DELETE does.

| code | actions |
|---|---|
| body-size middleware, `require_user`, `require_agent`, the body's model | `Turned` (with `Gate`) |
| one read: get, list, bootstrap, token | `GetSession`, `ListSessions`, `GetSessionBootstrap`, `MintToken` |
| `create_session` | `CreateSession` |
| `append_session_event`'s measure of the payload | `SwellsEarly` |
| `_require_active_session` | `IngestLocks` |
| `append_canvas_snapshot_endpoint`'s measure, under the lock | `SwellsLate` |
| the insert and commit of the three ingest routes | `AppendSessionEvent`, `AppendBrainSnapshot`, `AppendCanvasSnapshot` |
| `end_session` up to its commit; the commit | `EndSession`; `EndCommits` |
| `delete_session` up to the DELETE; its commit | `DeleteSession`; `DeleteCommits` |
| the row read again for the reply | `Responds` |
| an exception anywhere, before or after the commit | `Fails` |

A body is one of four shapes: it fits; it is over the middleware's cap; it is over the
cap only as `json.dumps` writes it again; the body's model rejects it. A session's id is
its own, so a row that was deleted is not made again.

`Ledger` is what this promises: rows are added while the session is active, it ends once,
and only an ended one is deleted, its rows with it. `ControlPlane` implements it, a row
being the call that stored it.

`IngestDelivery` adds the agent's three clients (`ledger/client.py`,
`snapshots/client.py`, `canvas/client.py`, which share one loop of attempts) and the
browser. An attempt is a call of `ControlPlane`; a client that times out or loses the
connection (`TimesOut`) does not stop the handler it was waiting for. A `Script` says
which requests the browser and others may make.

### SessionRoom, AgentWorker and SessionLife

`SessionRoom` is `session-room.tsx`: `page` tells the mounted component from the one whose
state is gone but whose `join()` still runs, and from the closed tab. A step is the code
between two awaits (`TokenFetched`, `Connected`, `AudioStarted`, `MicOn`, and the failure of
each, `Throws`), a click (`Join`, `Leave`), or an event (`Drops` with `OnDisconnected`,
`Unmount`, `Unload`, `AuthChanges`). Each join makes a `Room` of its own; `link` is what the
SDK, which is external, has of it.

`AgentWorker` is the entrypoint: connect, fetch the problem (`Bootstrapped`, `FetchFails`
with its retry, `FetchRefused`, `NoBrain`), start, wait for `room_closed`. `Registered` says
from where on the room's events find a handler.

`SessionLife` composes the two with the session's row and the LiveKit server: the server
tells the agent that the candidate left, closes an empty room, and dispatches one worker
for it; the tab's keepalive `/end` may be lost. `missed` is a history variable.

### CanvasPublisher and CanvasChannel

`CanvasPublisher` is `canvas-scene-publisher.ts` under the effects of
`excalidraw-canvas.tsx`: a tick is the throttle's second; a scene stands for its
fingerprint too. `OnSceneChange`, `FlushNow` and `TimerFires` publish; `SendSettles` and
`SendFails` are what follows the await, in any order of the sends.

`CanvasChannel` adds the way to the brain. A send that settles (`Sent`) commits the
fingerprint and leaves the message in `mail`, whether or not anybody will read it: before
the worker has registered its handler (`Registers`) messages are dropped (`Unheard`), and a
stream may break off (`ReadFails`). The agent's tasks check the rate limit (`Handles`,
`TurnsAway`) and write the scene (`Applies`, `ApplyFails`), in any order; a message is
`passed` when one sent later was dealt with first. That sends commit and reach the wire in
the same order is a reading of the SDK: `sendText()` resolves in the turn of the browser's
event loop that hands over the last packet. `behind` is a history variable: why the stored
canvas is not the last message. A message of another participant only takes a place in the
rate limit (`OtherSends`).

### Coalescer, BrainClient, KokoroStream and MentorReply

`Coalescer` is `coalesce()` as an operator; `Transcripts`, the texts of a batch's turns, is
a recursive function, so that it can be reasoned about. `BrainClient` is `decide()`: the SDK's
attempts under the deadline, what `decide()` makes of each class of answer, and what it
counts of what the provider charged. `KokoroStream` is `_stream_engine`: the generator on
the event loop, the synthesis thread and the drain thread, a step per operation on the
engine's queue, the `Event`s and the bridge; `Utterances` are serial numbers without a
gap, since the say lock takes them in order. `Blocked` is the join of the threads, which
holds the event loop. The engine's end-of-stream sentinel is left out: Kokoro's engine
never puts one, and the drain thread's branch for it (`kokoro.py:118-120`) does what the
`synth_done` branch does.

`MentorReply` composes them with as much of the router as decides what goes into a
prompt, what is charged and what is said. A dispatch loads the state (`LoadFails` if Redis
fails or the key is gone: the batch is dropped), meets the cap (`ReachesCap`: no prompt) or
calls the brain (`Asks`, `Returns`), and applies the decision (`Applies`, with `Misses` for
attempts that ran out; `ApplyRaises`: dropped, before or after the transaction). A barge-in
at any of the three awaits puts the batch back in front (`TakenBack`), also after the
transaction ran, so a turn may be prompted twice; or the SDK makes an error of the
cancellation, and the call counts as failed. `settled`, `stored` and `unapplied` are history
variables.

### Modules for checking and proving

`MCEventRouter`, `MCVoiceLoop`, `MCSessionStore`, `MCIngestDelivery`, `MCSessionLife`,
`MCCanvasChannel` and `MCMentorReply` are the TLC instances. `EventRouterProofs`,
`RouterRecordsProofs`, `VoiceLoopProofs`, `SessionStoreProofs`, `ControlPlaneProofs`,
`SessionLifeProofs`, `CanvasChannelProofs` and `MentorReplyProofs` hold the theorems
(section 5). A definition `D_Variant` is `D` with a plausible fault; every property is
shown to notice one.

## 3. Runs

| run | bounds | shows |
|---|---|---|
| `router_safety` | 3 events of either kind, 1 turn, 1 barge-in, 1 tick, cap 3, calls costing 2 that violate the schema or time out, escalation at 1, Redis faults | one dispatcher, nothing lost or reordered, cost bound, turns wait for their own event, one escalation per run of violations, one apology, `Dispatcher` implemented |
| `router_live` | 2 events (1 turn), 2 barge-ins, 1 tick, a browser clock 1 ahead, faults, fair | a row sorts before an earlier one by no more than the browser's lead; once the barge-ins are over what a loop holds is settled; a turn's wait and the teardown can only be stuck by a barge-in |
| `voice_loop` | 2 turns, canvas messages without end (1 queued at a time), 1 interim, 2 utterances, 1 tick, TTL and grace 0, fair | replies in order and never two at once, quiet means "listening"; turns end once the candidate draws no more, unless somebody barges in |
| `session_store` | 1 candidate turn, 1 agent turn, 1 canvas message, 2 dispatches, window of 1, 2 attempts | `AtomicState` implemented, nothing forgotten, giving up only to rivals, a dispatch sees its events |
| `control_plane` | 1 session, 2 users, 3 user calls (create; end, token or bootstrap; end, delete, get or list), 1 payload with 2 attempts and 2 event types, fair clients | `Ledger` implemented, answers hold, only the owner acts, what is reported stored is, twice only after a loss, appends return |
| `session_life` | 3 joins, 2 bootstrap attempts, fair | the Join button works, no room leaks, the canvas has the session's room, joins and the worker end |
| `canvas` | 2 scenes, 2 overlapping sends, 2 messages under way, a rate limit of 1 per tick, a late worker, fair | no pending scene without a timer; what the browser skips is what is stored, and the last scene drawn comes to be stored, unless the last message was lost, turned away, overtaken or not stored |
| `speech` | 2 events (turns or canvas changes, 2 stamps), 1 SDK retry, 2 utterances of 2 chunks, fair | a turn goes with one batch, in order, and in the prompt answered for it; costs are in the state unless abandoned or not stored; an utterance plays its own chunks in order, dispatches and streams end |
| `router_flag`, `router_teardown`, `router_unsorted`, `kokoro_drain` | 2 events; 1 utterance of 1 chunk | what comments and docs promise and the code does not do (section 4) |

Why these bounds are enough to make the cases happen. Three events are one batch in
flight, one put back and one arriving: a cancelled batch is merged with a later event
and two loops follow each other. Cap 3 with calls of 2 lets one call start below the cap
and end above it, and a third dispatch meet the cap; that `>=` is right for any costs is
`CostBounded`. One violation stands for the code's three, since `Escalation` is a
constant: three dispatches are a run, a reset and a second run. Two turns are the holder
of the say lock and the one that finds it taken; a TTL of 0 and one tick give fresh and
expired utterances. Five writers on a key with two attempts let each kind of writer run
out of retries, and a window of one is full at the first turn. Three user calls and two
attempts are enough for an end, a deletion and an append that is retried to be under way
together; a script keeps the requests to those that matter to one session. Three joins
are a join that fails or drops, one that follows it and one after an end. Two scenes are
what the fingerprint tells apart, drawn back and forth without bound. Two utterances of
two chunks leave one chunk of the first for the second to find. Two events are a batch
put back before, in or after its prompt and one that joins it, or two batches in turn;
`EveryTurnSettled` holds for any number. Two events in `router_live` are an event put back
and one that takes it along, with a barge-in to spare; a browser a millisecond ahead and a
tick let a row fall behind an earlier one by exactly the lead. The bound on events in `router_live` hides one thing: that events which keep coming
starve a waiting turn. `VoiceLoop` has canvas messages without a bound for that.

Named bounds: `MaxEvents`, `MaxTurns`, `MaxClock` and `Interims` (`EventRouter`,
`MentorReply`), `MaxInterims`, `MaxPushed` (utterances) and `MaxClock` (`VoiceLoop`),
`MaxSends` and `MaxMail` (sends in flight, messages not dealt with),
`MaxJoins` (clicks on Join). `MaxAttempts`, `MaxFetches`, `MaxRetries`, `WindowCap`, `Limit` and
`Escalation` are the code's own limits made small.

Fairness. In the agent each loop task, each returning `cancel_in_flight`, each round of
`wait_for_idle`, the teardown's steps and each step of a task once it has started are
weakly fair, because asyncio runs every ready task, Redis answers or fails, playout ends
and `brain.decide` runs under a deadline (`client.py:141-147`). Of the API nothing is
assumed: an append's attempt ends by its own timeout (`ledger/client.py:61-68`). In the
browser the token request is aborted after 10 s and the SDK's calls time out; the
microphone prompt may stay unanswered for ever. LiveKit delivers its events and closes an
empty room. For the canvas, timers fire, streams end, messages arrive or are lost, the
worker comes to register its handler, its tasks run, and Excalidraw goes on calling
`onChange`, which `MentorCatchesUp` needs: a scene whose send failed is only sent again by
the next `onChange`. Threads are scheduled and an inference ends. Nothing is assumed of
the candidate: turns, canvas changes, interims, clicks and leaving may or may not happen.

Deadlock checking is off in every run: a closed session whose bounds are reached has
nothing left to do.

## 4. What disagrees

Four runs are expected to find a violation; each refutes one sentence of the repository,
quoted in `PROJECT.json`.

* `router_flag`: a cancel before the dispatch loop's first step ends the task without
  running the code that clears `_dispatching`; no later event starts a loop.
* `router_teardown`: a turn whose dispatch was put back spins in `wait_for_idle`; the
  entrypoint gathers that task before it drains the router, and never ends.
* `kokoro_drain`: the drain thread looks at `synth_done` after the queue was empty, so a
  chunk put in between stays in the engine's queue and the next utterance plays it.
* `router_unsorted`: the browser shares its room, and starts its clock, before the agent
  starts its own, and a row gets the larger of the two: the next row without a canvas event
  sorts before it (`router.py:278`). What is left is `SortedUpToLead`.

Also seen while modelling. TLC found the first nine with runs that are no longer kept;
each is the case of a property of the module, given in brackets, that no run checks:

* `wait_for_idle` waits for the loop task, which goes on while canvas messages keep coming
  (up to one a second, against calls of several): the turn's reply is in the queue and
  nobody speaks it, even if a waiting turn is never too late for a router that falls idle
  (`TurnsEnd` under `PromptSpec`). Hence the premise of `TurnsEndAfterDrawing`;
* Redis is lost while the spoken reply is appended: the turn ends without publishing
  "listening", although `main.py:477-478` says that it never raises (`main.py:614`,
  `OverMeansListening`);
* a scene published before the agent listens is committed as sent and not sent again while
  it stays as it is (`canvas-scene-publisher.ts:110`, `main.py:1303`, `PublishedIsDelivered`);
* a drawing is compared with the fingerprint of the send before the one that is under way,
  and skipped (`canvas-scene-publisher.ts:42`, `SkipsMeetNoSend`);
* a scene that cannot be parsed is logged as an event of type `canvas_parse_error`, which
  the route's `SessionEventType` does not have; the row is refused with 422 and dropped,
  against `main.py:805-806` (`ParseErrorsAreLogged`);
* a cancel after Redis ran the EXEC puts the batch back although its decision is stored:
  the decision has no row, and the batch is decided twice (`router.py:318`, `AppliedIsRecorded`);
* a canvas event during the teardown is dispatched, and `current or baseline` writes the
  deleted key again (`router.py:345`), and with the state it loaded before the delete: what
  was written in between is gone, also for the dispatch that is about it (`KeyGoneWhenClosed`);
* an older turn's dispatch pushes its reply after a newer turn cleared the queue, and it
  is spoken (`main.py:600`, `RepliesToLatestTurn`);
* the TTL of a reply runs from the start of its dispatch, so a slow brain call yields one
  that has expired when it is queued (`router.py:498`, `FreshWhenPushed`);
* the cost of an answer whose decision could not be stored is lost (`router.py:364-370`, and
  `docs/plans/2026-04-22-001-feat-m2-brain-mvp-plan.md:80` names the gap);
* a candidate who leaves before the worker has registered its handlers is never noticed by
  it: nothing looks at `remote_participants` (`main.py:1327-1331`);
* the "End session" button leaves the room but posts no `/end`; only closing the tab does
  (`session-room.tsx:409-416`);
* in a batch without HIGH and without turns the latest event wins, whatever its priority
  (`coalescer.py:98-105`), so a later `LOW` beats a `MEDIUM` long silence; `types.py:23` says
  that LOW survives only where nothing else fired (`test_event_coalescer.py:99-111` has the code's way);
* the SDK may make an `APIConnectionError` of a cancellation before the deadline
  (`brain/client.py:172-221`); the batch is then dropped, not put back;
* after the last bootstrap attempt fails the worker goes on with the dev card
  (`main.py:1401-1422`), where `api_client/bootstrap.py:42-44` calls that correct on the dev path only;
* a candidate who leaves and joins again meets a worker that is already tearing down,
  since any `participant_disconnected` closes it (`main.py:1322-1325`);
* the timer of the throttle stamps its publication, and a leading edge may follow a
  publication of a hidden tab at once: two publications within a second;
* joining the synthesis threads blocks the event loop for up to two seconds for each
  thread (`kokoro.py:138-143`), and with it the router and the canvas.

## 5. Proofs

All theorems hold for every value of the constants that the named assumptions allow
(`RouterAssumption`, `VoiceAssumption`, `StateAssumption`, `StoreAssumption`,
`CallersAssumption`, `DeliveryAssumption`, `JoinsAssumption`, `FetchesAssumption`,
`ScenesAssumption`, `SendsAssumption`, `LimitAssumption`,
`RetriesAssumption`, `StreamAssumption`, `ReplyAssumption`). Every safety invariant and
every refinement that a passing run checks is one of them.

`EventRouterProofs`: `TypeCorrect`; `RouterInvariant`, with the inductive strengthening
`RouterInv`. `OneDispatcher` and `NothingLost` are not inductive by themselves: a step of
loop l disturbs the queue only if l is the loop `_in_flight` names, only if a task that is
not live holds no batch, and only if events not yet handled are in no list.
`SingleDispatcher`, `EventsKept` and `ServiceInOrder` follow. The lemmas underneath say
what concatenating, appending to and emptying an increasing sequence does to its
elements, and what each way the loop moves events does, so that `StepInv` is a case split.

`RouterRecordsProofs`: `CostBounded` (a dispatch that has passed the cap check has seen the
current cost, because no other loop can write in between), `TurnsSeeTheirDecision`,
`RowsSortedUpToLead`, from `ClockInv`: no row and no dispatch is stamped more than
`BrowserLead` past the clock, and a batch is never stamped below it; `EscalatesPerRun`, from `RunInv` (the counter is the length of the run of
violations the rows end in, and the latch is up exactly when that run is long enough), and
`OneApology`, from `ApologyInv` (the flag is up exactly when a timeout is on record);
`Implementation`, the refinement of `Dispatcher`, which needs one fact beyond `RouterInv`: a
loop has a batch exactly while it is in a dispatch. `FlagTrueUntilBargeIn` and
`NoneWaitsInVain`, from `AwakeInv`, are the safety side of what `router_live` checks and bound
what `router_flag` and `router_teardown` find: until a candidate barges in, the flag has a
live loop behind it, whatever is unsettled has a loop, and no turn spins in `wait_for_idle`,
Redis faults included.

`VoiceLoopProofs`: `VoiceTypeCorrect`, `SpeechInOrder`, `ListensWhenQuiet`, from `VoiceInv`:
the lock's holder is the one turn talking (`LockInv`); what was said is older than what is
about to be said, and that is older than what is queued (`OrderInv`); whoever published
last something else than "listening" is still under way or was cut short (`BusyInv`).

`SessionStoreProofs`: `StoreTypeCorrect`; `StoreIsAtomic`, the refinement of `AtomicState`;
`GivesUp`. `StoreInv` adds to the types that a version unmoved since WATCH means the key
is what GET read (`ReadIsCurrent`), that every failed attempt saw the version move
(`TriesAreMoves`), that a writer who has not answered is open and a dispatch that decides
has loaded a state (`OpenInv`), and that nobody has a state before `on_enter` put one
(`NewInv`). `StateRemembers` (nothing is forgotten) is inductive with `AbsentInv`: while
nothing is stored and the key is not yet deleted, nothing is committed and no dispatch has
loaded a state, so a baseline written over committed updates can only come after the delete.
`DispatchesSee` follows from `SeenInv`: an event the router holds is of a writer that has
its answer (`HandedInv`), and the writer of an event told "applied" is in the history of
commits (`AppliedInv`), which the state shows by `StateRemembers`. It ends where the key is
deleted (`stage # "deleted"`), and needs to: with two canvas messages, one more than the
run has, a dispatch that loaded the state before the delete puts it back without the
second (section 4).

`ControlPlaneProofs`: `ControlTypeCorrect`, `LedgerImplemented`, `RepliesHold` and
`OwnersOnly`, from `PlaneInv`: a call past the check of the status holds the session's lock
and the status is still "active" (`HeldInv`); a deletion's unlocked check stays true,
because "ended" never goes back (`DeletingInv`); what a call committed is there or went with
its session (`CommittedInv`); a reply that was sent still holds (`Fits`); a row is of a call
that committed it (`RowInv`). The lemma `ReplyKeeps` disposes of every step that only
answers, `StepKeeps` and `OthersKept` of what any other step leaves to the other calls.

Of `IngestDelivery`: `PlaneWithClients`, by which the four theorems above hold under the
agent's clients too; `TrueRowsStored` and `TwiceNeedsLoss`, from `DeliveryInv`: as long as
none was lost, every attempt but the last was answered with neither 201 nor 4xx, which
leaves 500.

`SessionLifeProofs`: `ButtonNeverDead`, `NoOrphanRoom` and `CanvasFollows`, from `RoomInv`: a
join under way is the only one, has the button and, unless the connection dropped,
`roomRef`; a page that neither shows a session nor joins one holds nothing.

`CanvasChannelProofs`: `NoSceneStranded` joins `PendingScenesTimed`, inductive by itself, and
`SkippedScenesStored`, from `ChannelInv`: messages are passed from the oldest on
(`PassedInv`); the last one, unless it is passed, has the fingerprint the browser holds, and
without one that is stored, or `behind` says why not (`StoredInv`). Nothing is assumed of
arrival: messages may be lost, late or out of order.

`MentorReplyProofs` has three independent parts. `EveryTurnSettled` (`SettledInv`): the turns
settled, in the batch and in the queue are 1 .. `said` in order, whatever is merged, put
back after any await, or dropped. It needs `Transcripts` of a concatenation and of an
appended event; these are proved by induction over the length, which `NatSetInduction`
gives for a set of numbers from the well-foundedness of < (an induction theorem with an
operator parameter is out of the provers' reach, one with a set is not).
`EveryCostCounted` (`CostInv`): a call runs only in the dispatch that asks; unless an attempt
was abandoned, nothing is charged before the answer and an answer in hand has the cost
that was charged (`ChargeInv`); a capped dispatch changes nothing of what was stored.
`UtterancesPlayTheirOwn` (`StreamInv`): utterances are taken in order and one at a time
(`TurnInv`); a drain thread that is gone left nothing in the queue unless its stream was
interrupted or cut short (`ThreadInv`); so a chunk of an earlier utterance found in the queue
is of one that was (lemma `QueuedIsOwn`). Chunks keep their order because played, bridge and
queue, in this sequence, are sorted and each lies before the next (`FlowInv`, `QueueInv`);
lemmas `SetOfAppend` and `SetOfTail` say what the two operations on a queue do to that.

Model-checked only: every liveness property (fairness and ENABLED are out of the prover's
reach), and the four properties of section 4's runs, which the code does not have.

## 6. Plan

Done: every module of section 2, the runs of section 3 and the proofs of section 5.
Next, in this order:

1. The safety side of the other liveness properties, as `NoneWaitsInVain` is for the router:
   what an append, a join, a stream and the worker wait for whenever they wait.
2. The brain client's and the speech models' singletons behind their locks.

## 7. Not modelled

* `canvas/parser.py` and the snapshot serializer: pure functions from a record to prompt
  text; what they say is wording. That a scene may fail to parse is in `CanvasChannel`.
* `audio/stt.py`: decoding of audio by the recognizer, one blocking call per segment.
  `audio/noise_gate.py` is not wired into the agent.
* Prompt text, pricing tables, token counting; `config.py`'s validators.
* `routes/problems.py`, `reports.py`, `me.py`, `health.py`: single reads of rows that no route
  writes. Migrations.
* Page rendering, forms, sign-in and styling; authentication against the identity
  provider.
* `scripts/`: `replay.py`, the seeds and the smoke tests are developer tools, run by hand
  one step after another.
* A crash of the agent process: nothing in the code restarts a session's agent from what
  the crashed one stored. A crash of the API is `Fails` of its calls: it keeps no state
  outside Postgres.

`PROJECT.json` gives the status of each component.
