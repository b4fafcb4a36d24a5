# A verification of river_gang

river_gang watches a Linear project and lets a Codex agent work on every issue
in an active state, within concurrency caps, with retries, stall detection and
live reconfiguration. It is one asyncio process; the hard part is not
parallelism but everything that happens between two awaits of one dispatcher
coroutine. This directory holds TLA+ models of that process, the TLC
configurations that check them and machine-checked proofs about them.

## 1. Inventory

| Part (under `src/src/river_gang/`) | State | Operations | Interacts with |
|---|---|---|---|
| dispatcher loop (`orchestrator/loop.py`) | effective config, tick timer, cleanup and cancelled tasks | `run`, `on_tick`, `_reconcile`, the gate | reads the mailbox; is the only writer of the scheduling state; awaits tracker and gate |
| mailbox (`orchestrator/mailbox.py`) | unbounded FIFO | `send`, `send_nowait`, `recv` | written by timers, workers, watcher, HTTP, signals |
| scheduling state (`orchestrator/state.py`, `retry.py`) | `running`, `claimed`, `completed`, caps, retry entries and their timers | claim, add, remove, schedule, cancel, pop | dispatcher |
| policies (`orchestrator/dispatch.py`, `reconcile.py`, `lifecycle.py`, `codex/stall.py`) | none | eligibility, slots, dispatch, exit, retry, stall | dispatcher |
| worker attempt (`orchestrator/worker.py`) | stage of one attempt | workspace, hooks, session, one turn, transitions, exit | tracker, workspace, Codex; posts to the mailbox |
| clarification gate (`orchestrator/clarification.py`, `loop.py`) | one wait entry per issue | analyse, ask, poll | tracker, workspace, Codex |
| Codex client (`codex/`) | request ids, buffered turn events, subprocess | handshake, turn, approvals, stop | worker, gate |
| workspace (`workspace/`) | directories, one lock per identifier | ensure, clean up, hooks | worker, gate, dispatcher |
| tracker client (`tracker/`) | state-id cache | fetch, transition, comment | dispatcher, gate, worker |
| workflow (`workflow/`, `config/`, `prompt/`) | last known good configuration | load, validate, reload | posts `ConfigReloaded` |
| service (`orchestrator/startup.py`, `cli.py`) | start order, grace period | start, terminal clean-up, drain | everything |
| HTTP, observability, tools | none of their own | snapshots, `POST /refresh` | posts `PollTick` |

What makes each part correct, and where it is hard:

* **Dispatcher.** At most one agent per issue, never more than the caps allow,
  no issue blocked for ever by a leaked claim or a dead entry, a next tick in
  every case, no retry lost or served early. Hard because a decision and its
  use are separated by awaits, because messages outlive what they speak of
  (exits, timers, configurations), and because a cancelled task is silent.
* **Worker and Codex client.** Every attempt ends in exactly one exit or one
  cancellation; its process and hooks end with it; answers are matched to
  requests. Hard because of cancellation at any await and late frames.
* **Workspace.** One user at a time, never a half-prepared directory.
* **Gate.** No question asked twice, no answer overlooked.
* **Service.** Everything it started is stopped when it returns.

`PROJECT.json` lists every component with its status and every hazard with the
line where it bites.

## 2. Plan

1. **Done** `Orchestrator`: dispatcher, mailbox, scheduling state, retries,
   reconciliation, workers as the dispatcher sees them; `ClaimLifecycle`, the
   abstract specification it implements; proofs of both.
2. **Done** `WorkerAttempt`: the stages of an attempt with exceptions and
   cancellation at every await, hooks and subprocess; `AttemptLifecycle`, the
   abstract specification it implements.
3. **Done** `CodexClient`: request correlation, approvals and tool calls,
   turn outcomes, timeouts, process end.
4. **Done** `Workspace`: the lock, partial preparation, clean-up against
   `ensure`, cancellation and restart.
5. **Done** `ClarificationGate`: wait entries, fingerprints and questions against
   users who edit at any time, lost replies and restarts.
6. **Done** `TrackerClient`: the cache of state ids and its lock, the pages of a
   fetch, against users and administrators of Linear.
7. **Done** `Service`: start order, the workflow watcher, signals, the bounded
   drain, the end of the process.
8. **Done** Proofs: every invariant, action property and refinement that a passing
   run checks has a theorem (section 5), those of `Orchestrator` that need the order
   of the mailbox included.
9. **Not done** Composition of `WorkerAttempt` and `Workspace`: a cancelled attempt
   that is still in its clean-up, beside its successor in the same workspace.

## 3. Modules

| Module | What it is |
|---|---|
| `Orchestrator` | the dispatcher and everything interleaved with it |
| `ClaimLifecycle` | abstract: what an issue's life looks like from outside |
| `MCOrchestrator` | instances for TLC: configurations and symmetry |
| `Orchestrator_proofs` | its types, claims, retries, caps and mailbox; refinement of `ClaimLifecycle` |
| `WorkerAttempt` | one attempt: its awaits, its process, its hooks, its exit |
| `AttemptLifecycle` | abstract: what the dispatcher takes an attempt for |
| `WorkerAttempt_proofs` | its invariant; refinement of `AttemptLifecycle` |
| `CodexClient` | one client and the app-server at the other end of its pipe |
| `CodexClient_proofs` | ids, order and replies of a session |
| `Workspace` | the callers, lock, directory and processes of one workspace |
| `Workspace_proofs` | one preparation at a time, and nobody else unwinds it |
| `ClarificationGate` | the gate for one issue, its wait entry, and the users in Linear |
| `ClarificationGate_proofs` | what an entry remembers, and when an issue passes |
| `TrackerClient` | state-id cache, transitions and a paginated fetch, and Linear |
| `MCTracker` | instances for TLC: teams and symmetry |
| `TrackerClient_proofs` | the lock and the cache; the pages of a fetch |
| `LockQueue_proofs` | lemmas on the queue of an `asyncio.Lock`, for the two modules that have one |
| `Service` | the life of the process: start, watcher, signals, drain, end |
| `Service_proofs` | what each stage of start and shutdown leaves behind |

### How Orchestrator corresponds to the code

An action is what the code executes between two suspension points, so the
dispatcher is interleaved with the rest only where it awaits. `pc` says where:

| `pc` | the dispatcher is |
|---|---|
| `recv` | in `mailbox.recv()`; suspended only if `asleep` |
| `refresh`, `fetch` | in the two tracker calls of `on_tick` |
| `loop` | running between two gate calls (not suspended: nobody else runs, except people in Linear and time) |
| `gate` | inside `_clarification_gate_allows_dispatch` |
| `retryFetch` | in the tracker call of `on_retry_timer` |
| `stopped`, `drained` | past `run()`, past `_graceful_shutdown` |

`asyncio.Queue.get` does not suspend when the queue has a message, so a handler
that leaves messages behind is followed by the next one at once: `asleep` says that
`recv` found the mailbox empty, and others run in `recv` only then. It is `TRUE` at the
start, when edits and refreshes may come before `run()` does.

`running` keeps of a `RunningEntry` the task, `retry_attempt` and the state of
the issue snapshot; `retry` keeps of a `RetryEntry` the attempt and whether its
`call_later` is still pending; `loose` are timers whose entry was popped before
they fired. `phase` is how far a task is: `starting` (workspace, client, hook,
handshake), `turn`, `succeeded` and `failed` (waiting for Linear's answer to the
final transition), `cancelling` (in its `finally` blocks), `settled`.
`on_tick` is the chain `ReconcileStalled`, `RefreshFails` or `RefreshReturns`,
`FetchFails` or `FetchReturns`, then `SkipFullIssue`, `AskGate`, `GateDenies`,
`GateAllows` until `EndTick`. `on_retry_timer` is `HandleRetryTimer` and the
four outcomes of its await. The other handlers are one action each.

Decisions a reader should know:

* Linear answers with the state at the moment the dispatcher resumes. An issue
  "gone" from Linear is one in a state of `Other`.
* The dispatch order (priority, age, identifier) is any order, since Linear
  can set priorities at will.
* Time appears as `GoesQuiet` (no event for `stall_timeout_ms`) and as timers
  that may fire whenever they are armed; hence also retry kinds and delays are
  left out. Reports of a worker are modelled only where they can matter: when
  the entry is quiet.
* The gate answers anything at any time.
* `WorkerExit` carries in the model the task it speaks of, which no handler
  reads; the properties need it.
* The production worker factory is `create_task`, which does not fail, so the
  spawn-failure branch of `dispatch_issue` is unreachable. `workflow_loader`
  is `last_known_good.peek`, which is set before the first tick and does not
  raise: the two early returns for it are unreachable too.
* A cancelled task leaves silently through its `finally` blocks, with one narrow
  exception, which `WorkerAttempt` has in detail: a cancellation that arrives while
  `aclose` awaits the task that reads stderr is swallowed, and the attempt goes on
  and reports its outcome. `AttemptLifecycle` allows this. In `Orchestrator`, a
  cancelled task in `turn`, which covers the end of the session, may go on
  (`MayBeInAclose`), once, if the constant `MaySwallow` says so; `swallowed` is a
  history variable: the tasks that did. Their identities are not reused.
* A deletion (`cleaning`) holds the lock of its workspace, and the successor's
  `ensure_for_issue` waits behind it (`WorkspaceFree`, the lock itself is in
  `Workspace`). The task that an entry names came after every deletion of its
  issue that is under way, since the reconciliation that spawns one cancels the
  task of that time; it is therefore always the one that waits. A task that no
  entry names any more may have come before or after, and may go on.
* `cleaning` and `loose` are sets: a second clean-up or timer of one issue is
  not counted (`LooseTimerFires` may keep its element).
* A settled task may be reused once nothing refers to it (`Free`).

Some helpers are preceded by a one-line variant named for a slip
(`ForgetTick`, `KeepClaim`, `CancelNothing`, ...). They are not used by the
specification: put in place of the helper they precede, each makes a run fail,
which shows that the property it breaks depends on that line.

### WorkerAttempt

`stage` is the await `run_agent_attempt` is suspended in, and each action is what
runs from there to the next one: `Begin`, `EnsureReturns`, `FactoryReturns`,
`BeforeRunReturns`, `HandshakeReturns`, `StartTransitionReturns`, `TurnReturns`
up to the `finally` block; `stop`, `kill` and `drain` are the three awaits of
`stop_session`; `after_run`, `comment` and `final_transition` follow.
`RunAfterRun`, `EndAttempt` and `Finalize` are the pieces of code that several of
them run into. `Cancel` is `task.cancel()` at any of these awaits; it comes
twice in the runs because reconciliation cancels a task and the drain of the
shutdown cancels it again. `unwinding` tells that a `CancelledError` is on its
way through the `finally` block. The factory launches the app-server before
`before_run` (SPED.md:392 puts the hook before the launch), so the process
is there from `FactoryReturns` on. Scripts whose attempt was cancelled go on by
themselves (`ScriptEnds`). `turn_failed` stands for the four typed reasons of a
failed turn, which all take the same way.

### CodexClient

`pc` is the response or notification the client waits for: the three requests
of the handshake, the ack of `stream_turn`, the stream itself. `ReadFrame` is
one `read_frame` with the dispatch on what came; `handling` is the dynamic tool
call during which nothing is read. The server is external and as free as the
client's code provides for: with `ServerFails` it refuses requests, answers
without ids, sends what no client can use, and exits. A frame keeps of its body
what the client tells apart. A write to a process that has exited may raise or
go unnoticed. Not in this module: `stop_session` (in `WorkerAttempt`), and a
second turn on one client, which the worker no longer asks for.

### Workspace

One issue identifier: each has a lock and a directory of its own. `at` is where
a task is in `ensure_for_issue` or `cleanup_for_issue`, `queue` the FIFO of the
`asyncio.Lock` with its holder at the head; a cancelled waiter leaves it from any
place (`Leave`). `dir` distinguishes `partial` (from
`git clone` or a removal that was cut short), `populated` (before `after_create`
succeeded) and `ready`. Processes of callers that were cancelled, or of a
program that was stopped, go on as `orphans`. `damaged` is a history variable:
something cut short the preparation or removal of the present directory.
`settings` is any combination of repository and hooks. `run_hook` itself may raise in
`before_remove`; `cleanup_for_issue` is left then and the directory stays.

### ClarificationGate

`at` is the await of `_clarification_gate_allows_dispatch` the dispatcher is in:
`comments` (fetch_comments), `workspace` (ensure, the client factory and
`start_session`), `turn`, `stop` (the `finally` of `analyze`), `post` before and
`posted` after Linear executed `commentCreate`; before them `candidate`, between
the fetch of the tick and the gate. `call` holds the locals of one call,
`waiting` the entry. `FetchCandidates` takes the text of the issue, so it is older
than the comments, as in the code. Decisions:

* An `Input` is what a fingerprint covers; hashing does not collide. A version
  number of the text stands for title, description and `updated_at`. The bot's
  own comments are left out by their marker. Linear may count them as an update
  of the issue (`PostArrives`), which no document rules out.
* Any verdict may come back on any input, and it takes one of a few lists of
  questions; payloads that are no JSON yield one list more.
* `due` says that `next_poll_at` is past. It counts from the start of the call, so
  a new entry may be due already when the analysis was long.
* An entry without `last_input_fingerprint` never arises: both places that make
  one set it. The comparison of comment ids alone is dead code, and returns as
  the slip `OldIds`.
* `unrecorded` allows one kind of repetition: the questions were posted, and the
  entry that says so is gone or was never made.

### TrackerClient

A call of `transition_state` is `lock` (waits for the cache lock, or has just
got it), `query` (StatesForIssue), `update` (issueUpdate sent), `moved` or `refused`
(Linear has executed it, the reply is on its way). The state ids of two teams
never coincide, so an id is its team and its name; names are compared in lower
case, so a `Name` is a class of spellings. Which team's id a cached name yields
is the first in the order of the dictionary: the model takes any. Linear is
assumed to refuse an id of another team (`Valid`). A request that is cut off is
`UpdateFails` before or after Linear executed it.

A fetch reads the issues in Linear's order, which does not change, after a cursor
that is the last issue read. `kept` is a history variable: the issues that have
been active since the first request. `fetch_issue_states_by_ids` and
`fetch_issues_by_states` run through the same `_paginate_issues`, whose envelope
helpers are `PageFails`.

### Service

`phase` follows `start_service` and `_graceful_shutdown`: `load`, `cleanup`,
`watch`, `serve`, `run`, `stop_http`, `drain` (the grace period), `force` (the
second wait), `stop_watcher`, then `returned`, `close` (`asyncio.run` cancels what
is left and waits for it) and `ended`; `killed` is SIGTERM without a handler. A
version of WORKFLOW.md is a number, `rejected` says which ones do not load or do not
pass the preflight. A worker task is kept to what a drain meets: `working`,
`cleaning` (in the `finally` blocks of the attempt), `cut` (cancelled there once
more), `done`. What a task does before is in `WorkerAttempt`, what the dispatcher
does with its entry in `Orchestrator`; here an entry leaves `running` by an exit or
by stall detection, and stays when only its task was cancelled. `timers` says that
some retry timer is armed. External, and modelled from what `startup.py` and
`cli.py` expect of them: `Task.cancel`, `asyncio.run`, the default handlers of
signals. That uvicorn handles signals of its own until the service's handlers
replace them is left out. Not an input: `http_app_factory`, `state_hook`,
`shutdown_event`, which only tests use.

## 4. Runs

`Orch_*.cfg` use `MCOrchestrator`, `Tracker_*.cfg` use `MCTracker`; the others
instantiate their module as it stands. `CHECK_DEADLOCK FALSE`: the service may
stop, a session and an attempt end, nobody has to call the workspace manager;
then nothing is left to do.

| Run | Instance | Shows |
|---|---|---|
| `slots` | 2 issues, 2 workers, 2 active states with one slot each | `TypeOK`, `WorkersOwned`, `ExitsAreCurrent`, `BackoffHonoured`, `OneTickAtATime`, `DispatchWithinCaps`, without HTTP server and swallowed cancellations |
| `reload` | 1 issue, 2 workers, caps 2 and 0 (a pause), stall detection on and off, one `POST /refresh`, swallowed cancellations | `ConfigCatchesUp`; `ClaimsOwned`, `RetryOrRunning`, `NoStrandedRetry`, `TickChainAlive`, `EntriesNotReplaced` with overlapping ticks and late exits; `ImplementsLifecycle` |
| `live` | 1 issue that may be blocked, 2 workers, signals, terminal state, fairness, no symmetry | `PollingGoesOn`, `DeadEntriesReaped`, `ShutdownHonoured`; `ShutdownReachesAll`, `NoTurnInCleanup` |
| `two_workers` | violated; one `POST /refresh` | two workers on one issue |
| `attempt` | 2 cancellations, fairness | `AttemptInv` (`TypeOK`, `ExitMeansReleased`, `FailureExplained`), `AttemptEnds`; `ImplementsAttempt` |
| `session` | 2 frames nobody asked for, timeouts, failures, fairness | `SessionInv` (`TypeOK`, `ServerAccepts`, `OutcomeReported`), `NoRequestForgotten`, `TurnEnds`, `SessionEnds` |
| `own_turn` | violated | the end of the handshake's turn is taken for the end of the second |
| `share` | 3 callers, fairness | `SharingInv` (`TypeOK`, `PreparedOnce`), `PreparedWhenReturned`, `ReadyUntilCleaned`, `CallsReturn` |
| `gate` | 2 comments, 2 lists of questions, 2 edits of the text, 1 restart, fairness | `TypeOK`, `OnlyJudgedInput`, `WaitsForNewInput`, `NotAskedTwice`, `AnswersConsidered` |
| `tracker` | 2 issues of 2 teams, 2 names, 2 callers, pages of 1 | `CacheInv` (`TypeOK`, `NoNeedlessQuery`), `FetchComplete` |
| `own_team` | violated | a state name resolves to another team's state id |
| `service` | 2 workers, 2 edits, any of the versions rejected, fairness | `ServiceInv` (`TypeOK`, `LastGoodAccepted`, `CleanReturn`), `GraceGiven`, `EditsLand`, `ShutdownEnds` |

An invariant whose name ends in `Inv` is the conjunction of the named parts in
brackets; every part has a slip of its own that breaks it.

**Bounds.** Interference needs one issue and its successive workers, or two issues
competing for one slot. Two workers per issue are a cancelled one in its clean-up
and its successor; `two_workers` has a third, stale one. `MaxAttempt = 2` (attempts
saturate) suffices since no handler compares attempts. `MaxMail` limits only what
others may post while the dispatcher is busy, the dispatcher's own posts always
succeed; 3 covers a message about to be consumed and two behind it; `live` uses 5,
and `reload`, where much else happens, 2: the overlapping ticks, or a message and
one behind it, beside the exits that a reconciliation posts.
What section 5 proves holds for every bound and any number of actors, so the bounds
matter to the liveness properties and to the search for what might be wrong.
`MaxRefresh = 1` gives the overlap of two ticks; a second refresh adds only
longer queues. `MaxNoise = 2` puts two unasked frames, for instance two requests, or
a request and a notification, at every place of a session; the client handles one
frame at a time and keeps nothing between frames but `pc` and `handling`. Three
callers of a workspace are a holder, a waiter and one who comes after a
cancellation; restarts and cancellations are unbounded there. `MaxCancels = 2` is
all the program does to one task.

In `gate`, two comments and two edits of the text are an answer before and one
after any await, and an answer that is taken back; two lists of questions are an
old and a new one; one restart loses an entry, after a second there is nothing
new to lose. In `tracker`, two teams with two names, which administrators
remove and add, give every relation of a cache to the states it was read from;
two callers are the holder of the lock and a waiter; two pages of one issue with
moves before, between and after them are what a page boundary can do. In
`service`, three versions of the file, each good or bad, are a start, a rejected
and an accepted edit in either order; two workers are one that ends within
the grace period and one that does not.

**What the violated runs mean.** With the HTTP server, two `PollTick`s can be in the
mailbox at once. A worker goes quiet, the first tick cancels it and posts a synthetic
exit; the second tick posts another one for the same entry, or the worker's own exit
was already under way. The first exit schedules a retry and releases the claim, the
issue is dispatched again, and the second exit removes the new entry although its
worker is alive; the retry that follows starts a second worker (`two_workers`). Tasks
and timers move in the trace only while the dispatcher awaits Linear, the gate or an
empty mailbox. There is another way, without any refresh: stall detection cancels a
worker just when it awaits the stderr reader in `aclose`, the worker goes on and,
after its `after_run` and its last transition, posts an exit of its own behind the
synthetic one, perhaps when its successor is at work. (TLC finds it in the instance
of `two_workers` when `MaxRefresh` is 0 and `MaySwallow` is `TRUE`; it has no run of
its own.) As long as neither happens (`Calm`), no issue gets two workers
(`WorkersOwned`, `ExitsAreCurrent`), because there is one tick at a time and a
dispatch happens only in a tick that began after the exits were queued. What `reload`
checks holds in any case: the claims and the exclusion of retries do not depend on
whose exit is handled.

In the client, the handshake's `turn/start` carries the prompt and `stream_turn`
sends it again, so a session has two turns; the `turn/completed` of either is
accepted, and normally the first one's ends the attempt while the second has
hardly begun (`own_turn`). `OutcomeReported` is what is left: success means that
one of the two was completed.

In the tracker client, one team's cached "In Progress" answers for every team's
(`own_team`), and the second team is never asked for its states, so its issues
cannot be moved as long as the client lives; the caller learns that much, since
`success=false` raises.

Further disagreements between documents and code, which are in the models but
have no run of their own:

* an issue that left the active states loses its task in the tracker refresh, but
  not its entry in `running` (loop.py:444), while SPED.md:616 says of Running
  "Worker task exists"; with stall detection off nothing ever removes it.
  `DeadEntriesReaped` shows that stall detection does;
* in the workspace manager, `CancelledError` passes by `except Exception`
  (manager.py:142), so a cancelled clone leaves a directory that the next `ensure`
  takes for a finished one, while the comment there says "so the next ensure call
  starts clean"; `PreparedWhenReturned` says that nothing else does;
* `stop_session` belongs to the `finally` block of the turn (worker.py:391), and
  an attempt that fails in `before_run` or in the handshake has launched its
  app-server already and leaves it running, while client.py:47 says "The worker
  calls this on every exit branch"; the gate does the same when its handshake
  fails (clarification.py:111);
* a reload replaces the configuration only: the prompt template, the workspace
  manager with its root and hooks, and the tracker client are those of the start
  (startup.py:221-253), while SPED.md:527 asks for "workflow config and prompt
  template without restart";
* edits of WORKFLOW.md between its load and the start of the watcher, during the
  terminal clean-up, go unnoticed until the next one: `EditsLand` speaks of edits
  made while the watcher watches. A watch loop that has crashed is not started again;
* the grace period is for entries of `state.running` that are at work. A task that
  reconciliation has cancelled just before is cut short at once, as is one that
  is already in its clean-up (startup.py:576-578); `GraceGiven` says which do get it;
* an issue waits for its retry unclaimed (`on_worker_exit` schedules the retry, then
  releases the claim, as lifecycle.py:12 says; no reschedule claims it again), while
  SPED.md:613 says that claimed issues are "either `Running` or `RetryQueued`",
  loop.py:630 that the issue is "still in ``state.claimed`` between the worker exit
  and the timer firing" and lifecycle.py:142 that a rescheduled one has its "claim
  retained". An ordinary tick may therefore dispatch the issue before its backoff is
  over. `ClaimsOwned` says of claims what documents and code agree on: an issue
  that runs is claimed, and a claimed issue runs or has its retry.
  `RetryOrRunning` and `BackoffHonoured` show what the early dispatch leaves intact;
* the workspace is deleted (loop.py:442) while the task cancelled two lines before may
  still be in its `finally` blocks: stopping its app-server, running `after_run`. No
  document rules it out. `NoTurnInCleanup` says less: no agent that is still in its
  turn, the successor's included, has its workspace deleted;
* hazards without a property, since the code has no defence: a second
  cancellation skips `after_run` or the kill (worker.py:388), a reply to a posted
  question that is lost, or a restart, lets it be asked again (loop.py:346), and an
  analysis may follow the bot's own comment (clarification.py:222). The models have
  them; `NotAskedTwice` excuses the repetition by name (`unrecorded`), as
  `PreparedWhenReturned` excuses preparations that were cut short (`damaged`);
* a retry is dispatched from the raw candidates, also for an issue with an open
  blocker, while the docstring at lifecycle.py:131 expects them "already-filtered";
* `completed` drops retries of a reopened issue (lifecycle.py:163), while
  SPED.md:271 says "bookkeeping only, not dispatch gating";
* `ResponseError` can leave `stream_turn`, which client.py:1138 says "breaks the
  typed-exit contract";
* an attempt cancelled in its handshake ends without `after_run`, while
  SPED.md:396 promises it for every attempt.

**Fairness**. In `live`: `WF(Dispatcher)`: tracker calls and the gate's turn
have timeouts and the coroutine is always resumed. Timers and tasks wait while
the dispatcher is not suspended, which it need not be in `recv` while there are messages,
but the event loop runs all ready callbacks before it resumes it again: strong
fairness for `TickTimerFires`, `RetryTimerFires` and for each worker's progress (handshake, turn, hooks and process end have timeouts). Time
passes: `WF(GoesQuiet)`. Nothing is assumed of people,
HTTP clients, reloads, signals or Linear. `DeadEntriesReaped` needs
`stall_timeout_ms > 0`.

In `attempt`, `WF(Task)`: every await has a limit (hook and read timeouts, the
turn timeout, HTTP timeouts, SIGTERM then SIGKILL), except `git clone`, whose end
is assumed. The app-server is never obliged to leave by itself. In `session`,
only `WF(Client)`: a coroutine that can go on is resumed. The two liveness
properties name the rest as a premise: `TurnEnds` that time passes, whatever the
server does; `SessionEnds` that the server reads its pipe and ends its turns,
also when no timeout ever helps, so that it says that the two never wait for
each other. In `share`, each caller is resumed when the lock or its process lets
it; cancelling, calling and restarting are free. A write to a full pipe has a
limit of its own only inside the turn; the models let writes complete.

In `gate`, the dispatcher goes on (`WF(Gate)`: ticks go on, every await has a
timeout) and time passes. Strong fairness of the steps that succeed says that
Linear, the workspace, the analysis and the slots do not refuse for ever; without
it no answer need ever be considered. Nothing is assumed of users and restarts,
of which there are finitely many. In `service`, `start_service` goes on and so does
the watch loop; a worker's finally blocks may take for ever unless they are cut
short, since hooks have timeouts longer than any grace period. `ShutdownEnds`
rests on the two limits of the drain and the second cancel.

## 5. Proofs

Checked with TLAPS (1.4.5): every invariant, action property and refinement of the
passing runs, for every set of issues, workers, callers, states, configurations,
comments and questions and for every bound.

| Module | Theorem | States |
|---|---|---|
| `Orchestrator_proofs` | `TypeCorrect`, `ClaimsCorrect`, `RetryExclusive` | `TypeOK`, `ClaimsOwned`, `RetryOrRunning` |
| | `NoEntryReplaced`, `CapsHold` | `EntriesNotReplaced`, `DispatchWithinCaps` |
| | `LifecycleImplemented` | `ImplementsLifecycle` |
| | `TicksNeverStop`, `RetriesNotStranded`, `ConfigsConverge` | `TickChainAlive`, `NoStrandedRetry`, `ConfigCatchesUp` |
| while `Calm` | `NoWorkerEscapes`, `ExitsSpeakOfTheEntry`, `RetriesWait` | `WorkersOwned`, `ExitsAreCurrent`, `BackoffHonoured` |
| while `Calm` | `TicksDoNotPileUp`, `ShutdownIsComplete` | `OneTickAtATime`, `ShutdownReachesAll` |
| while `Calm` | `OneWorkerUntilThen`, `NoTurnIsCleanedUp` | `OneWorkerPerIssue`, `NoTurnInCleanup` |
| `WorkerAttempt_proofs` | `AttemptInvariant`, `AttemptImplemented` | `AttemptInv`, `ImplementsAttempt` |
| `CodexClient_proofs` | `SessionCorrect`, `NothingForgotten` | `SessionInv`, `NoRequestForgotten` |
| `Workspace_proofs` | `SharingInvariant`, `PreparedWhenGiven`, `NobodyElseUnwinds` | `SharingInv`, `PreparedWhenReturned`, `ReadyUntilCleaned` |
| `ClarificationGate_proofs` | `TypeCorrect`, `EntriesAreJudged` | `TypeOK`, `OnlyJudgedInput` |
| | `WaitingIsKept`, `QuestionsPostedOnce` | `WaitsForNewInput`, `NotAskedTwice` |
| `TrackerClient_proofs` | `CacheInvariant`, `FetchesComplete` | `CacheInv`, `FetchComplete` |
| one team only | `OneTeamResolves` | `OwnTeam` |
| `Service_proofs` | `ServiceInvariant`, `GracePeriodKept` | `ServiceInv`, `GraceGiven` |

**Assumptions.** In `Orchestrator`, finitely many issues and workers and disjoint
classes of states (`IssuesAssumption`, `StatesAssumption`, `ConfigAssumption`); in
the others, bounds are natural numbers, and pages and teams are what
`ClientAssumption` says. `None` is no value of the sets it is added to
(`NoneAssumption` in `Orchestrator` and `CodexClient`, `NoneIsNoReason`,
`GateAssumption`): a model of Python's `None` beside strings, ids and records.
Seven theorems are about the time until something upsets the order of exits:
`Spec => [](Calm => ...)`, where `Calm` says that no `POST /api/v1/refresh` came so far
(without HTTP server, the default, none comes) and that no cancellation was swallowed
so far. They have no hypothesis about constants. Neither half of `Calm` can be left
out, as section 4 says.

**Orchestrator.**

* `TypeOK` is not inductive: a resumed await uses its locals. `LocalsOK` says they
  are there, and that a task that has not settled has an issue to report.
* `ClaimInv` strengthens `ClaimsOwned` to what the code makes of it, that exactly the
  running issues are claimed (`ClaimsAreRunning`), and adds the exclusion of retries
  and what stays true during the gate's awaits: the scanned issues that wait for their turn do not run
  (`EligibleIdle`), and the one at the gate still has its slot (`GateKeepsSlot`). The
  argument is that only the dispatcher adds entries and changes caps, and it is
  inside the tick. Every dispatch, from a tick or a retry, then meets the same lemma
  (`EveryDispatch`), from which `NoEntryReplaced` and `CapsHold` follow, and with
  which every step maps to a step of `ClaimLifecycle` or to none.
* `TicksNeverStop` and `RetriesNotStranded` are inductive with the types; the lemmas
  say that consuming a message loses no other and posting none. `ConfigsConverge`
  is strengthened by `LastReloadIsHeld`: the last waiting reload carries what the
  watcher holds; the proof follows its position through the mailbox.
* While `Calm`, which no step brings back (`CalmBefore`), `QuietInv` says what the handlers, which look at the
  issue of a message only, rely on without checking. `OneTick`: the next tick is
  armed, queued or under way, one of them and once. `ExitsSettled`: an exit in the
  mailbox is that of the entry of its issue, and its task works no more.
  `StaleExitsFirst`: a second exit of one entry, a synthetic one and the task's own,
  is handled before the next tick, the only step that dispatches without having
  looked up a retry. `ExitsInOrder`, `FiredOnce`, `TickExits` and `RetryAlone`: where
  the due retries of an issue stand among its exits, so that no retry is looked up
  while an exit is left. The step lemmas use them together. `WorkersOwned` and
  `BackoffHonoured` are conjuncts of it, the others follow; `ShutdownIsComplete`
  then takes only that the drain reaches the tasks that entries name.
  `NoTurnIsCleanedUp` takes that a task in its turn is the one its entry names: the
  reconciliation that gives the workspace to a deletion cancels that very task, and
  its successor waits for the deletion before its turn opens.

**WorkerAttempt.** What an exit promises was decided awaits earlier: `ResultKnown` says
from when the reason is known and that a cancellation leaves none, `ScriptsAwaited`
and `ProcessStopped` what runs at each await, `OneExit` that the exit is the last
step. In the refinement, the steps between two changes of what the dispatcher can see
are stutters.

**CodexClient.** The two pipes are unbounded, so the invariant speaks of positions in
them. `StepsInOrder`: each message of the protocol is under way once at most, and
suits the stage the server is in or reaches with the message before it.
`Synchronized`: when the awaited answer is accepted, nothing of the client's own is
still under way, which is why a request is never early. `OnlyRequested`: no answer
to an id that has not been used, so an answer that is taken is that of the request
just sent. `RequestsTracked`: a request of the server is in one place, unread, at
the tool or answered. `EndsTold`: a frame that tells the end of a turn tells what
happened to one. That a reply goes to a request that waits rests on `RequestsTracked`,
that a reported success is a completed turn on `EndsTold`.

**Workspace, TrackerClient.** The lock of both is a queue of tasks without repetition,
its holder first (`LockOK`); `LockQueue_proofs` says what joining it and leaving it
from any place do. `DirectoryAsFarAsCaller` then ties the directory to the place of
the one caller who prepares it, unless damaged, and `OrphansDamage` excuses what runs
on. No query is needless, because only the holder fills the cache, and it looks there
after it got the lock. For a fetch, `ReadUpToCursor` says that what was found lies
before the cursor and has every issue there that stayed active; a page is a prefix
of what lies behind (`PageIsPrefix`, from least and greatest elements of sets of
numbers), so moving the cursor keeps that (`CursorMoves`). `IdsOfProject`: an id in
use is of a team that has an issue in the project, so that one team has only its own.

**ClarificationGate.** A call uses locals it read several awaits ago. `EntryIsCurrent`:
the entry read at its start is still the entry, since nobody else writes it.
`PostIsJudged`: what is posted is new, and about the input judged last.
`AskedIsRecorded`: the entry has the questions on the ticket, unless it was lost.

**Service.** `StagesOK` has a conjunct for what each stage of the shutdown leaves behind,
which the return adds up; `DrainedOK` says that the tasks found at work are entries
the drain waits for, so that only its limit lets them be cut short.

**Only model-checked**: the liveness properties (`PollingGoesOn`, `DeadEntriesReaped`,
`ShutdownHonoured`, `AttemptEnds`, `TurnEnds`, `SessionEnds`, `CallsReturn`,
`AnswersConsidered`, `EditsLand`, `ShutdownEnds`), since liveness under fairness and
`ENABLED` are out of the prover's reach; and that three properties are violated. For two
of these, `OneWorkerUntilThen` and `OneTeamResolves` say what the violation takes: a
refresh or a swallowed cancellation, and a second team.

## 6. Not modelled

* Token totals, rate limits, runtime seconds and recent events: bookkeeping that
  is reported and that no decision reads.
* The order of candidates and the length of delays (`sort_for_dispatch`,
  `compute_backoff_ms`): any order and any delay is in the models.
* The contents of prompts, comments, logs and snapshots; the read-only HTTP
  routes; the `linear_graphql` tool, which forwards one request.
* Parsing and defaults of configuration and of Linear's payloads: data without
  state, present as accepted or rejected, answered or failed.
* A cancelled attempt beside its successor in one workspace, which needs
  `WorkerAttempt` and `Workspace` composed. Nothing in the code keeps the two apart:
  the lock covers preparation and removal, not hooks and sessions.
