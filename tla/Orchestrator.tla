---------------------------- MODULE Orchestrator ----------------------------
(***************************************************************************)
(* The dispatcher of river_gang: one coroutine that drains an unbounded    *)
(* FIFO mailbox and is the only writer of the scheduling state, together   *)
(* with everything that runs between two of its awaits: worker tasks,      *)
(* timers, the workflow watcher, the HTTP refresh endpoint, signal         *)
(* handlers and the people who edit the tracker.                           *)
(*                                                                         *)
(* One action is what the code executes between two suspension points: the *)
(* dispatcher may only be interleaved with the rest of the system where it *)
(* awaits the tracker or the clarification gate ("refresh", "fetch",       *)
(* "gate", "retryFetch") or an empty mailbox ("recv" and asleep).          *)
(***************************************************************************)
EXTENDS Integers, Sequences, FiniteSets, SequencesExt

CONSTANTS
  Issue,         \* tracker issues, by id
  Worker,        \* worker tasks; settled ones are reused
  None,          \* "no entry" / "not set"
  Active,        \* tracker.active_states
  Terminal,      \* tracker.terminal_states
  Other,         \* states in neither list; also "gone from the tracker"
  StartState,    \* tracker.start_state, None disables the transition
  SuccessState,  \* tracker.success_state, None disables the transition
  Config,        \* the effective configurations WORKFLOW.md may hold
  InitConfig,    \* the one the service starts with
  Blockable,     \* issues that may acquire a non-terminal blocker
  MaxRefresh,    \* how often POST /api/v1/refresh is called; 0: no HTTP server
  MayStop,       \* may SIGINT or SIGTERM arrive?
  MaySwallow,    \* may a cancellation find its task inside aclose?
  MaxAttempt,    \* attempts are counted up to here, then saturate
  MaxMail        \* others post to the mailbox below this length only

State == Active \cup Terminal \cup Other

ASSUME IssuesAssumption ==
  /\ IsFiniteSet(Issue) /\ IsFiniteSet(Worker)
  /\ Blockable \subseteq Issue /\ MaxRefresh \in Nat
  /\ MayStop \in BOOLEAN /\ MaySwallow \in BOOLEAN

ASSUME StatesAssumption ==
  /\ Active \cap Terminal = {} /\ Active \cap Other = {} /\ Terminal \cap Other = {}
  /\ None \notin State /\ None \notin Issue
  /\ StartState \in State \cup {None} /\ SuccessState \in State \cup {None}

(***************************************************************************)
(* What the dispatcher reads of an EffectiveConfig: the global cap, the    *)
(* per-state caps (None: not in the map) and whether stall_timeout_ms is   *)
(* positive.                                                               *)
(***************************************************************************)
ConfigType == [cap : Nat, stateCap : [State -> Nat \cup {None}], stall : BOOLEAN]

ASSUME ConfigAssumption ==
  /\ Config \subseteq ConfigType /\ InitConfig \in Config
  /\ MaxAttempt \in Nat \ {0} /\ MaxMail \in Nat

Attempt == 1..MaxAttempt
RunningEntry == [worker : Worker, attempt : Attempt, state : State]
RetryEntry == [attempt : Attempt, armed : BOOLEAN]

ASSUME NoneAssumption == None \notin RunningEntry \cup RetryEntry \cup Nat

(***************************************************************************)
(* OrchestratorMessage.  WorkerExit names only the issue in the code; the  *)
(* worker field is the task the exit speaks of, which no handler reads.    *)
(***************************************************************************)
PollTick == [type |-> "PollTick"]
Shutdown == [type |-> "Shutdown"]
CodexUpdate(i) == [type |-> "CodexUpdate", issue |-> i]
RetryTimerFired(i) == [type |-> "RetryTimerFired", issue |-> i]
ConfigReloaded(c) == [type |-> "ConfigReloaded", config |-> c]
WorkerExit(i, w, ok) == [type |-> "WorkerExit", issue |-> i, worker |-> w, ok |-> ok]

Message ==
  [type : {"PollTick", "Shutdown"}]
  \cup [type : {"CodexUpdate", "RetryTimerFired"}, issue : Issue]
  \cup [type : {"ConfigReloaded"}, config : Config]
  \cup [type : {"WorkerExit"}, issue : Issue, worker : Worker, ok : BOOLEAN]

VARIABLES
  \* OrchestratorState and RetryQueue
  running,     \* [Issue -> RunningEntry or None]
  claimed,     \* issue ids
  completed,   \* issue ids
  maxAgents,   \* state.max_concurrent_agents
  retry,       \* [Issue -> RetryEntry or None]; armed: call_later pending
  loose,       \* issues with call_later timers whose entry was popped unfired
  \* Orchestrator
  config,      \* self.config
  ticks,       \* pending _next_tick_handle timers
  cleaning,    \* issues with an outstanding cleanup_for_issue task
  mailbox,     \* the asyncio.Queue
  \* where the dispatcher coroutine stands, and its locals there
  pc,          \* "recv" or the await it is suspended in
  asleep,      \* in recv: the mailbox was empty, so Queue.get suspended
  eligible,    \* rest of the dispatch loop: [Issue -> fetched state or None]
  current,     \* the issue at the gate, or of the retry being handled
  popped,      \* attempt of the retry entry being handled
  \* worker tasks, watcher and tracker
  phase,       \* [Worker -> stage of its attempt]
  job,         \* [Worker -> issue it was spawned for]
  swallowed,   \* tasks that were cancelled inside aclose and went on (history)
  quiet,       \* running issues with no Codex event for stall_timeout_ms
  holder,      \* the watcher's last_known_good
  refreshes,   \* POST /api/v1/refresh so far
  tracker,     \* [Issue -> state in Linear]
  blocked      \* issues with a non-terminal blocker in Linear

stateVars == <<running, claimed, completed, maxAgents, retry, loose>>
localVars == <<pc, eligible, current, popped>>
dispVars == <<localVars, asleep>>
taskVars == <<phase, job, swallowed>>
outsideVars == <<holder, refreshes, tracker, blocked>>
vars == <<stateVars, config, ticks, cleaning, mailbox, dispVars, taskVars,
          quiet, outsideVars>>

PC == {"recv", "refresh", "fetch", "loop", "gate", "retryFetch", "stopped", "drained"}
Phase == {"starting", "turn", "succeeded", "failed", "cancelling", "settled"}

TypeOK ==
  /\ running \in [Issue -> RunningEntry \cup {None}]
  /\ claimed \in SUBSET Issue /\ completed \in SUBSET Issue
  /\ maxAgents \in Nat
  /\ retry \in [Issue -> RetryEntry \cup {None}]
  /\ loose \in SUBSET Issue
  /\ config \in Config /\ holder \in Config
  /\ ticks \in Nat /\ refreshes \in 0..MaxRefresh
  /\ cleaning \in SUBSET Issue /\ quiet \in SUBSET Issue
  /\ mailbox \in Seq(Message)
  /\ pc \in PC /\ asleep \in BOOLEAN
  /\ eligible \in [Issue -> State \cup {None}]
  /\ current \in Issue \cup {None} /\ popped \in Attempt \cup {None}
  /\ phase \in [Worker -> Phase] /\ job \in [Worker -> Issue \cup {None}]
  /\ swallowed \in SUBSET Worker
  /\ tracker \in [Issue -> State] /\ blocked \in SUBSET Blockable

(***************************************************************************)
(* Helpers                                                                 *)
(***************************************************************************)
Running == {i \in Issue : running[i] # None}
InMail(m) == \E k \in DOMAIN mailbox : mailbox[k] = m
MailOf(t) == {k \in DOMAIN mailbox : mailbox[k].type = t}
\* A message from outside the dispatcher coroutine.
Post(m) == Len(mailbox) < MaxMail /\ mailbox' = Append(mailbox, m)

\* The next message is of type t and is consumed; more is posted behind it.
Receive(t) == pc = "recv" /\ mailbox # <<>> /\ Head(mailbox).type = t
Consume == mailbox' = Tail(mailbox)

(***************************************************************************)
(* Each of the small steps below comes with the slip the runs must notice  *)
(* when it takes its place.                                                *)
(***************************************************************************)
\* next_attempt_from.  Slip: counts down (compute_backoff_ms rejects 0).
CountDown(a) == a - 1
NextAttempt(a) == IF a < MaxAttempt THEN a + 1 ELSE MaxAttempt

\* A task at the end of its turn may await the stderr reader in aclose, which
\* suppresses the CancelledError; this happens once at most.
MayBeInAclose(w) == MaySwallow /\ phase[w] = "turn" /\ w \notin swallowed

\* task.cancel() on the tasks of ws: nothing happens to one that is done, and
\* some of those in aclose go on.  Slip: the tasks are forgotten instead.
CancelNothing(ws) == UNCHANGED <<phase, swallowed>>
Cancel(ws) ==
  \E deaf \in SUBSET {w \in ws : MayBeInAclose(w)} :
    /\ phase' = [w \in Worker |-> IF w \in ws \ deaf /\ phase[w] # "settled"
                                  THEN "cancelling" ELSE phase[w]]
    /\ swallowed' = swallowed \cup deaf

HandlesOf(is) == {running[i].worker : i \in is}

\* available_slots_for_dispatch > 0.  Slips: the cap of the state is not looked at;
\* >= for >, and no cap of the state.
StateCap(s) == IF config.stateCap[s] = None THEN maxAgents ELSE config.stateCap[s]
HasGlobalSlot(s) == Cardinality(Running) < maxAgents
HasClampedSlot(s) == Cardinality(Running) <= maxAgents
HasSlot(s) ==
  /\ Cardinality(Running) < maxAgents
  /\ Cardinality({i \in Running : running[i].state = s}) < StateCap(s)

\* RetryQueue.schedule supersedes the entry and its timer.
\* Slip: a callback that does nothing, as in dispatch_issue's spawn failure.
ScheduleDeaf(i, a) == retry' = [retry EXCEPT ![i] = [attempt |-> a, armed |-> FALSE]]
Schedule(i, a) == retry' = [retry EXCEPT ![i] = [attempt |-> a, armed |-> TRUE]]

\* RetryQueue.cancel.  Slip: a dispatch leaves the pending retry alone.
KeepRetry(i) == UNCHANGED retry
CancelRetry(i) == retry' = [retry EXCEPT ![i] = None]

\* OrchestratorState.unclaim.  Slip: the claim stays.
KeepClaim(i) == UNCHANGED claimed
Unclaim(i) == claimed' = claimed \ {i}

\* _schedule_next_tick cancels the previous handle, then arms one timer.
\* Slips: a return of on_tick forgets it; the previous handle is not cancelled.
ForgetTick == UNCHANGED ticks
PileUpTicks == ticks' = ticks + 1
ScheduleNextTick == ticks' = 1

\* ConfigReloaded.  Slip: the cap kept in OrchestratorState is not refreshed.
AdoptConfigOnly(c) == config' = c /\ UNCHANGED maxAgents
AdoptConfig(c) == config' = c /\ maxAgents' = c.cap

\* Shutdown.  Slip: the loop waits for its workers first.
StopWhenIdle == Running = {} /\ pc' = "stopped" /\ ticks' = 0
StopLoop == pc' = "stopped" /\ ticks' = 0

Init ==
  /\ running = [i \in Issue |-> None] /\ claimed = {} /\ completed = {}
  /\ maxAgents = InitConfig.cap
  /\ retry = [i \in Issue |-> None] /\ loose = {}
  /\ config = InitConfig /\ holder = InitConfig
  /\ ticks = 0 /\ refreshes = 0 /\ cleaning = {} /\ quiet = {}
  /\ mailbox = <<PollTick>>
  /\ pc = "recv" /\ asleep = TRUE /\ eligible = [i \in Issue |-> None]
  /\ current = None /\ popped = None
  /\ phase = [w \in Worker |-> "settled"] /\ job = [w \in Worker |-> None]
  /\ swallowed = {}
  /\ tracker \in [Issue -> State] /\ blocked \in SUBSET Blockable

(***************************************************************************)
(* on_tick.  Reconcile first: every stalled task is cancelled and gets a   *)
(* synthetic WorkerExit, posted in the order of the running dict, before   *)
(* the dispatcher awaits anything.                                         *)
(***************************************************************************)
\* Slip: a task that is already done is not worth terminating.
StalledAlive ==
  IF config.stall THEN {i \in Running \cap quiet : phase[running[i].worker] # "settled"} ELSE {}
Stalled == IF config.stall THEN Running \cap quiet ELSE {}
StallExit(i) == WorkerExit(i, running[i].worker, FALSE)

\* The defensive reload swaps self.config only; then the tick awaits the fetch.
LoadConfig == config' = holder /\ pc' = "fetch"

ReconcileStalled ==
  /\ Receive("PollTick")
  /\ \E order \in SetToSeqs(Stalled) :
       mailbox' = Tail(mailbox) \o [k \in DOMAIN order |-> StallExit(order[k])]
  /\ Cancel(HandlesOf(Stalled))
  /\ IF Running = {} THEN LoadConfig ELSE pc' = "refresh" /\ UNCHANGED config
  /\ UNCHANGED <<stateVars, ticks, cleaning, eligible, current, popped, job,
                 quiet, outsideVars>>

\* fetch_issue_states_by_ids failed: the workers are kept.
RefreshFails ==
  /\ pc = "refresh" /\ LoadConfig
  /\ UNCHANGED <<stateVars, ticks, cleaning, mailbox, eligible, current, popped,
                 taskVars, quiet, outsideVars>>

(***************************************************************************)
(* Part B of the reconciliation.  A task whose issue is terminal is        *)
(* cancelled and a background cleanup of its workspace is spawned, one     *)
(* whose issue is in neither list (or gone) is cancelled, and the snapshot *)
(* of an active one is replaced.  No entry leaves state.running here.      *)
(***************************************************************************)
Gone == {i \in Running : tracker[i] \notin Active}

RefreshReturns ==
  /\ pc = "refresh" /\ LoadConfig
  /\ Cancel(HandlesOf(Gone))
  /\ cleaning' = cleaning \cup {i \in Gone : tracker[i] \in Terminal}
  /\ running' = [i \in Issue |-> IF i \in Running \ Gone
                                 THEN [running[i] EXCEPT !.state = tracker[i]]
                                 ELSE running[i]]
  /\ UNCHANGED <<claimed, completed, maxAgents, retry, loose, ticks, mailbox,
                 eligible, current, popped, job, quiet, outsideVars>>

FetchFails ==
  /\ pc = "fetch" /\ pc' = "recv" /\ ScheduleNextTick
  /\ UNCHANGED <<stateVars, config, cleaning, mailbox, eligible, current, popped,
                 taskVars, quiet, outsideVars>>

\* filter_candidates: active, not running, not claimed, no open blocker.
\* Slip: what the orchestrator already does with the issue is not looked at.
EligibleInTracker(i) == tracker[i] \in Active /\ i \notin blocked
Eligible(i) ==
  tracker[i] \in Active /\ i \notin Running \cup claimed \cup blocked

FetchReturns ==
  /\ pc = "fetch" /\ pc' = "loop"
  /\ eligible' = [i \in Issue |-> IF Eligible(i) THEN tracker[i] ELSE None]
  /\ UNCHANGED <<stateVars, config, ticks, cleaning, mailbox, current, popped,
                 taskVars, quiet, outsideVars>>

(***************************************************************************)
(* The dispatch loop.  sort_for_dispatch depends on priorities, which the  *)
(* tracker may set at will, so the next issue is any of the rest.          *)
(***************************************************************************)
SkipFullIssue(i) ==
  /\ pc = "loop" /\ eligible[i] # None /\ ~HasSlot(eligible[i])
  /\ eligible' = [eligible EXCEPT ![i] = None]
  /\ UNCHANGED <<stateVars, config, ticks, cleaning, mailbox, pc, current, popped,
                 taskVars, quiet, outsideVars>>

AskGate(i) ==
  /\ pc = "loop" /\ eligible[i] # None /\ HasSlot(eligible[i])
  /\ pc' = "gate" /\ current' = i
  /\ UNCHANGED <<stateVars, config, ticks, cleaning, mailbox, eligible, popped,
                 taskVars, quiet, outsideVars>>

EndTick ==
  /\ pc = "loop" /\ \A i \in Issue : eligible[i] = None
  /\ pc' = "recv" /\ ScheduleNextTick
  /\ UNCHANGED <<stateVars, config, cleaning, mailbox, eligible, current, popped,
                 taskVars, quiet, outsideVars>>

LeaveGate ==
  /\ pc = "gate" /\ pc' = "loop" /\ current' = None
  /\ eligible' = [eligible EXCEPT ![current] = None]

GateDenies ==
  /\ LeaveGate
  /\ UNCHANGED <<stateVars, config, ticks, cleaning, mailbox, popped, taskVars,
                 quiet, outsideVars>>

\* A task identity nothing refers to any more.
Free(w) ==
  /\ phase[w] = "settled" /\ w \notin swallowed
  /\ \A i \in Running : running[i].worker # w
  /\ \A k \in MailOf("WorkerExit") : mailbox[k].worker # w

(***************************************************************************)
(* dispatch_issue: cancel a pending retry, claim, spawn, add the entry.    *)
(* The production worker factory is create_task, which does not fail.      *)
(***************************************************************************)
DispatchIssue(i, s, a, w) ==
  /\ Free(w)
  /\ CancelRetry(i) /\ claimed' = claimed \cup {i}
  /\ running' = [running EXCEPT ![i] = [worker |-> w, attempt |-> a, state |-> s]]
  /\ phase' = [phase EXCEPT ![w] = "starting"] /\ job' = [job EXCEPT ![w] = i]
  /\ UNCHANGED swallowed
  /\ quiet' = quiet \ {i}

GateAllows(w) ==
  /\ LeaveGate
  /\ DispatchIssue(current, eligible[current], 1, w)
  /\ UNCHANGED <<completed, maxAgents, loose, config, ticks, cleaning, mailbox,
                 popped, outsideVars>>

(***************************************************************************)
(* on_worker_exit: the entry of the issue goes, whoever's exit this is; a  *)
(* retry is scheduled and the claim is released.                           *)
(***************************************************************************)
HandleWorkerExit ==
  LET m == Head(mailbox) IN
  /\ Receive("WorkerExit") /\ Consume
  /\ IF running[m.issue] = None
     THEN UNCHANGED <<running, claimed, completed, retry, quiet>>
     ELSE /\ running' = [running EXCEPT ![m.issue] = None]
          /\ quiet' = quiet \ {m.issue}
          /\ completed' = IF m.ok THEN completed \cup {m.issue} ELSE completed
          /\ Schedule(m.issue, NextAttempt(running[m.issue].attempt))
          /\ Unclaim(m.issue)
  /\ UNCHANGED <<maxAgents, loose, config, ticks, cleaning, localVars, taskVars,
                 outsideVars>>

\* on_codex_update: last_codex_timestamp of the issue's entry, if it has one.
HandleCodexUpdate ==
  /\ Receive("CodexUpdate") /\ Consume
  /\ quiet' = quiet \ {Head(mailbox).issue}
  /\ UNCHANGED <<stateVars, config, ticks, cleaning, localVars, taskVars, outsideVars>>

HandleConfigReloaded ==
  /\ Receive("ConfigReloaded") /\ Consume
  /\ AdoptConfig(Head(mailbox).config)
  /\ UNCHANGED <<running, claimed, completed, retry, loose, ticks, cleaning,
                 localVars, taskVars, quiet, outsideVars>>

(***************************************************************************)
(* on_retry_timer: the entry is popped without touching its timer; a       *)
(* completed issue is dropped, any other is looked up in the tracker.      *)
(***************************************************************************)
HandleRetryTimer ==
  LET i == Head(mailbox).issue IN
  /\ Receive("RetryTimerFired") /\ Consume
  /\ IF retry[i] = None
     THEN UNCHANGED <<retry, loose, claimed, pc, current, popped>>
     ELSE /\ retry' = [retry EXCEPT ![i] = None]
          /\ loose' = IF retry[i].armed THEN loose \cup {i} ELSE loose
          /\ IF i \in completed
             THEN Unclaim(i) /\ UNCHANGED <<pc, current, popped>>
             ELSE /\ pc' = "retryFetch" /\ current' = i
                  /\ popped' = retry[i].attempt /\ UNCHANGED claimed
  /\ UNCHANGED <<running, completed, maxAgents, config, ticks, cleaning, eligible,
                 taskVars, quiet, outsideVars>>

EndRetry == pc = "retryFetch" /\ pc' = "recv" /\ current' = None /\ popped' = None

\* The entry goes back with its attempt and a new timer.
Requeue ==
  /\ Schedule(current, popped)
  /\ UNCHANGED <<running, claimed, completed, maxAgents, loose, config, ticks,
                 cleaning, mailbox, eligible, taskVars, quiet, outsideVars>>

RetryFetchFails == EndRetry /\ Requeue

RetryFindsNoSlot ==
  EndRetry /\ tracker[current] \in Active /\ ~HasSlot(tracker[current]) /\ Requeue

RetryIssueAbsent ==
  /\ EndRetry /\ tracker[current] \notin Active
  /\ Unclaim(current)
  /\ UNCHANGED <<running, completed, maxAgents, retry, loose, config, ticks,
                 cleaning, mailbox, eligible, taskVars, quiet, outsideVars>>

RetryDispatches(w) ==
  /\ EndRetry /\ tracker[current] \in Active /\ HasSlot(tracker[current])
  /\ DispatchIssue(current, tracker[current], popped, w)
  /\ UNCHANGED <<completed, maxAgents, loose, config, ticks, cleaning, mailbox,
                 eligible, outsideVars>>

(***************************************************************************)
(* Shutdown: the loop returns, then _graceful_shutdown cancels the retry   *)
(* timers of the queue and the tasks in state.running.                     *)
(***************************************************************************)
HandleShutdown ==
  /\ Receive("Shutdown") /\ Consume /\ StopLoop
  /\ UNCHANGED <<stateVars, config, cleaning, eligible, current, popped, taskVars,
                 quiet, outsideVars>>

CancelAllRetries == retry' = [i \in Issue |-> None]
DrainWorkers == Cancel(HandlesOf(Running))

GracefulShutdown ==
  /\ pc = "stopped" /\ pc' = "drained"
  /\ CancelAllRetries /\ DrainWorkers
  /\ UNCHANGED <<running, claimed, completed, maxAgents, loose, config, ticks,
                 cleaning, mailbox, eligible, current, popped, job, quiet, outsideVars>>

(***************************************************************************)
(* Timers (call_later callbacks)                                           *)
(***************************************************************************)
\* Other callbacks run only while the dispatcher is suspended.
Suspended == pc # "loop" /\ (pc = "recv" => asleep)

TickTimerFires ==
  /\ Suspended /\ ticks > 0
  /\ ticks' = ticks - 1 /\ Post(PollTick)
  /\ UNCHANGED <<stateVars, config, cleaning, dispVars, taskVars, quiet, outsideVars>>

RetryTimerFires(i) ==
  /\ Suspended /\ retry[i] # None /\ retry[i].armed
  /\ retry' = [retry EXCEPT ![i].armed = FALSE]
  /\ Post(RetryTimerFired(i))
  /\ UNCHANGED <<running, claimed, completed, maxAgents, loose, config, ticks,
                 cleaning, dispVars, taskVars, quiet, outsideVars>>

\* One of them fires; it may have been the last.
LooseTimerFires(i) ==
  /\ Suspended /\ i \in loose
  /\ loose' \in {loose, loose \ {i}}
  /\ Post(RetryTimerFired(i))
  /\ UNCHANGED <<running, claimed, completed, maxAgents, retry, config, ticks,
                 cleaning, dispVars, taskVars, quiet, outsideVars>>

\* No Codex event of issue i has been handled for stall_timeout_ms.
GoesQuiet(i) ==
  /\ i \in Running \ quiet
  /\ quiet' = quiet \cup {i}
  /\ UNCHANGED <<stateVars, config, ticks, cleaning, mailbox, dispVars, taskVars,
                 outsideVars>>

(***************************************************************************)
(* Worker tasks (run_agent_attempt), seen from the dispatcher.  "succeeded"*)
(* and "failed" are the wait for Linear's answer to the final transition,  *)
(* which Linear has already applied or refused.                            *)
(***************************************************************************)
\* _safe_transition: applied by Linear, or swallowed.
Transition(i, s) ==
  \/ UNCHANGED tracker
  \/ s # None /\ tracker' = [tracker EXCEPT ![i] = s]

\* ensure_for_issue waits for the lock of a clean-up that was spawned before it.
\* The task an entry names comes after every clean-up of its issue, for those
\* before were cancelled by RefreshReturns.  Slip: no lock.
WorkspaceUnlocked(w) == TRUE
WorkspaceFree(w) ==
  job[w] \in cleaning => running[job[w]] = None \/ running[job[w]].worker # w

WorkerOpensTurn(w) ==
  /\ Suspended /\ phase[w] = "starting" /\ WorkspaceFree(w)
  /\ phase' = [phase EXCEPT ![w] = "turn"]
  /\ Transition(job[w], StartState)
  /\ UNCHANGED <<stateVars, config, ticks, cleaning, mailbox, dispVars, job,
                 swallowed, quiet, holder, refreshes, blocked>>

WorkerConcludes(w) ==
  /\ Suspended
  /\ \/ phase[w] \in {"starting", "turn"} /\ phase' = [phase EXCEPT ![w] = "failed"]
     \/ phase[w] = "turn" /\ phase' = [phase EXCEPT ![w] = "succeeded"]
  /\ Transition(job[w], SuccessState)
  /\ UNCHANGED <<stateVars, config, ticks, cleaning, mailbox, dispVars, job,
                 swallowed, quiet, holder, refreshes, blocked>>

WorkerSettles(w) ==
  /\ phase' = [phase EXCEPT ![w] = "settled"] /\ job' = [job EXCEPT ![w] = None]
  /\ UNCHANGED <<stateVars, config, ticks, cleaning, dispVars, swallowed, quiet, outsideVars>>

WorkerExits(w) ==
  /\ Suspended /\ phase[w] \in {"succeeded", "failed"}
  /\ Post(WorkerExit(job[w], w, phase[w] = "succeeded"))
  /\ WorkerSettles(w)

\* CancelledError leaves the task through its finally blocks: no WorkerExit.
CancelledWorkerSettles(w) ==
  /\ Suspended /\ phase[w] = "cancelling"
  /\ WorkerSettles(w) /\ UNCHANGED mailbox

\* Only a report that can matter: the entry's last timestamp is old.  A task in
\* aclose is past its reports.
WorkerReports(w) ==
  /\ Suspended /\ phase[w] = "turn" /\ w \notin swallowed
  /\ job[w] \in quiet /\ ~InMail(CodexUpdate(job[w]))
  /\ Post(CodexUpdate(job[w]))
  /\ UNCHANGED <<stateVars, config, ticks, cleaning, dispVars, taskVars, quiet,
                 outsideVars>>

CleanupEnds(i) ==
  /\ Suspended /\ i \in cleaning
  /\ cleaning' = cleaning \ {i}
  /\ UNCHANGED <<stateVars, config, ticks, mailbox, dispVars, taskVars, quiet,
                 outsideVars>>

(***************************************************************************)
(* The outside: HTTP clients, operators, people editing the tracker        *)
(***************************************************************************)
PostRefresh ==
  /\ refreshes < MaxRefresh /\ Suspended /\ pc \notin {"stopped", "drained"}
  /\ refreshes' = refreshes + 1 /\ Post(PollTick)
  /\ UNCHANGED <<stateVars, config, ticks, cleaning, dispVars, taskVars, quiet,
                 holder, tracker, blocked>>

\* _reload_once: a rejected file changes nothing; an accepted one is held first.
ReloadWorkflow(c) ==
  /\ Suspended /\ c # holder
  /\ holder' = c /\ Post(ConfigReloaded(c))
  /\ UNCHANGED <<stateVars, config, ticks, cleaning, dispVars, taskVars, quiet,
                 refreshes, tracker, blocked>>

RequestShutdown ==
  /\ MayStop /\ Suspended /\ pc \notin {"stopped", "drained"} /\ ~InMail(Shutdown)
  /\ Post(Shutdown)
  /\ UNCHANGED <<stateVars, config, ticks, cleaning, dispVars, taskVars, quiet,
                 outsideVars>>

UserMoves(i, s) ==
  /\ tracker[i] # s /\ tracker' = [tracker EXCEPT ![i] = s]
  /\ UNCHANGED <<stateVars, config, ticks, cleaning, mailbox, dispVars, taskVars,
                 quiet, holder, refreshes, blocked>>

UserBlocks(b) ==
  /\ blocked # b /\ blocked' = b
  /\ UNCHANGED <<stateVars, config, ticks, cleaning, mailbox, dispVars, taskVars,
                 quiet, holder, refreshes, tracker>>

(***************************************************************************)
(* Next                                                                    *)
(***************************************************************************)
Tick ==
  \/ ReconcileStalled \/ RefreshFails \/ RefreshReturns
  \/ FetchFails \/ FetchReturns \/ EndTick \/ GateDenies
  \/ \E i \in Issue : SkipFullIssue(i) \/ AskGate(i)
  \/ \E w \in Worker : GateAllows(w)

Retry ==
  \/ HandleRetryTimer \/ RetryFetchFails \/ RetryFindsNoSlot \/ RetryIssueAbsent
  \/ \E w \in Worker : RetryDispatches(w)

\* A handler that leaves messages behind goes on with the next one at once.
Dispatcher ==
  /\ \/ Tick \/ Retry \/ HandleWorkerExit \/ HandleCodexUpdate
     \/ HandleConfigReloaded \/ HandleShutdown \/ GracefulShutdown
  /\ asleep' = (pc' = "recv" /\ mailbox' = <<>>)

Timers ==
  \/ TickTimerFires
  \/ \E i \in Issue : RetryTimerFires(i) \/ LooseTimerFires(i) \/ GoesQuiet(i)

WorkerStep(w) ==
  \/ WorkerOpensTurn(w) \/ WorkerConcludes(w) \/ WorkerExits(w)
  \/ CancelledWorkerSettles(w) \/ WorkerReports(w)

Outside ==
  \/ PostRefresh \/ RequestShutdown
  \/ \E c \in Config : ReloadWorkflow(c)
  \/ \E i \in Issue, s \in State : UserMoves(i, s)
  \/ \E b \in SUBSET Blockable : UserBlocks(b)

Next ==
  \/ Dispatcher \/ Timers \/ Outside
  \/ \E w \in Worker : WorkerStep(w)
  \/ \E i \in Issue : CleanupEnds(i)

Spec == Init /\ [][Next]_vars
(***************************************************************************)
(* Fairness.  The dispatcher never stops between two awaits, every tracker *)
(* call and gate analysis has a timeout, and time passes.  The event loop  *)
(* runs every ready callback before it resumes the dispatcher again, hence *)
(* strong fairness for timers and tasks (they wait while it is not         *)
(* suspended); a worker's session, turn and hooks are bounded by timeouts. *)
(***************************************************************************)
WorkerProgress(w) ==
  WorkerOpensTurn(w) \/ WorkerConcludes(w) \/ WorkerExits(w) \/ CancelledWorkerSettles(w)

Fairness ==
  /\ WF_vars(Dispatcher) /\ SF_vars(TickTimerFires)
  /\ \A i \in Issue : SF_vars(RetryTimerFires(i)) /\ WF_vars(GoesQuiet(i))
  /\ \A w \in Worker : SF_vars(WorkerProgress(w))

FairSpec == Spec /\ Fairness

(***************************************************************************)
(* Safety, whatever the environment does                                   *)
(***************************************************************************)
\* Where an issue is in the claim life cycle.
Status(i) ==
  IF running[i] # None THEN "running"
  ELSE IF retry[i] # None \/ (pc = "retryFetch" /\ current = i) THEN "retrying"
  ELSE "idle"

\* Every running issue is claimed, and no claim is leaked: one whose issue neither
\* runs nor waits for its retry (SPED.md 7.1) would bar it from every later tick.
ClaimsOwned ==
  Running \subseteq claimed /\ \A i \in claimed : Status(i) # "idle"

\* An issue with a pending retry, or whose retry is being looked up, does not
\* run: on_retry_timer dispatches without looking at state.running.
RetryOrRunning ==
  /\ \A i \in Running : retry[i] = None
  /\ pc = "retryFetch" => current \notin Running /\ retry[current] = None

\* A retry entry whose timer has fired has its message still in the mailbox;
\* otherwise it would wait in the queue for ever.
NoStrandedRetry ==
  \A i \in Issue : retry[i] # None /\ ~retry[i].armed => InMail(RetryTimerFired(i))

\* Outside a tick the next tick is always coming, by timer or in the mailbox,
\* whichever of on_tick's returns the last one took; refreshes never add timers.
TickChainAlive ==
  /\ pc \in {"recv", "retryFetch"} => ticks > 0 \/ InMail(PollTick)
  /\ ticks <= 1

\* Ticks and reload messages both install configurations, and only messages
\* install the cap: once no message waits, both are the watcher's latest.
ConfigCatchesUp ==
  MailOf("ConfigReloaded") = {} => config = holder /\ maxAgents = holder.cap

\* Slots are checked before the gate is awaited and used after it; still no
\* dispatch, by tick or retry, ever exceeds the global or the state's cap.
DispatchWithinCaps ==
  [][\A i \in Issue : running[i] = None /\ running'[i] # None =>
       /\ Cardinality(Running') <= maxAgents
       /\ LET s == running'[i].state IN
          Cardinality({j \in Issue : running'[j] # None /\ running'[j].state = s})
            <= StateCap(s)]_vars

\* The eligibility scan happens before the gate's awaits and the dispatch after
\* them; still no dispatch replaces an entry, whose task nobody would own.
EntriesNotReplaced ==
  [][\A i \in Issue : running[i] # None /\ running'[i] # None
       => running'[i].worker = running[i].worker]_vars

(***************************************************************************)
(* Safety as long as no POST /api/v1/refresh came and no cancellation was  *)
(* swallowed; the runs have MaxRefresh = 0 and MaySwallow = FALSE.         *)
(***************************************************************************)
Calm == refreshes = 0 /\ swallowed = {}

\* The tasks at work that have not been cancelled.
Busy == {w \in Worker \ swallowed : phase[w] \in {"starting", "turn", "succeeded", "failed"}}
InTick == pc \in {"refresh", "fetch", "loop", "gate"}

\* Every task that has not been cancelled is the one its issue's entry names:
\* at most one agent works on an issue and none escapes the caps.
WorkersOwned == \A w \in Busy : running[job[w]] # None /\ running[job[w]].worker = w

\* A WorkerExit names only the issue; it still never removes the entry of a
\* later worker of that issue.
ExitsAreCurrent ==
  \A k \in MailOf("WorkerExit") :
    LET m == mailbox[k] IN running[m.issue] # None => running[m.issue].worker = m.worker

\* A retry is never served before its own backoff timer has fired.
BackoffHonoured == loose = {}

\* There is one tick at a time: a timer, a queued PollTick or a tick under way.
OneTickAtATime ==
  pc \notin {"stopped", "drained"} =>
    ticks + Cardinality(MailOf("PollTick")) + (IF InTick THEN 1 ELSE 0) = 1

\* No agent is in its turn in a workspace that is being deleted: a clean-up is
\* spawned for an issue, the cancellation before it reaches the task of its entry
\* only, and a successor may come while it deletes.  (The finally blocks of the
\* cancelled task do run beside it.)
NoTurnInCleanup == \A w \in Worker : phase[w] = "turn" => job[w] \notin cleaning

\* _drain_workers cancels the tasks of state.running: that is all of them, and
\* no retry timer survives cancel_all.
ShutdownReachesAll ==
  pc = "drained" => Busy = {} /\ loose = {} /\ \A i \in Issue : retry[i] = None

(***************************************************************************)
(* Liveness                                                                *)
(***************************************************************************)
\* Polling goes on for ever unless the service is stopped.
PollingGoesOn == []<>(pc \in {"fetch", "stopped", "drained"})

\* A slot held by an entry whose task is gone without a WorkerExit (cancelled
\* by the reconciliation) is given back: the stall detection reaps it.
DeadEntriesReaped ==
  \A i \in Issue, w \in Worker :
    (running[i] # None /\ running[i].worker = w /\ phase[w] = "settled")
      ~> (pc \in {"stopped", "drained"} \/ running[i] = None \/ running[i].worker # w)

\* A requested shutdown is reached behind whatever the mailbox holds.
ShutdownHonoured == InMail(Shutdown) ~> pc = "drained"

(***************************************************************************)
(* Refinement: the claim life cycle                                        *)
(***************************************************************************)
Lifecycle == INSTANCE ClaimLifecycle WITH
  Limit <- {c.cap : c \in Config}, limit <- maxAgents,
  status <- [i \in Issue |-> Status(i)], open <- pc # "drained"

\* Every dispatcher step is a step of the claim life cycle, or none.
ImplementsLifecycle == Lifecycle!Spec

(***************************************************************************)
(* What the documents and comments say, and the code does not do           *)
(***************************************************************************)
\* SPED.md 7.4: one authority serializes dispatch, so no issue has two workers.
OneWorkerPerIssue == \A v, w \in Busy : job[v] = job[w] => v = w

=============================================================================
