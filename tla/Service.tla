------------------------------ MODULE Service ------------------------------
(***************************************************************************)
(* The life of the process: cli.main, start_service with its order of      *)
(* starting and stopping, the workflow watcher and last_known_good, the    *)
(* HTTP server, signals, and what asyncio.run does with the tasks left     *)
(* over.  The dispatcher is kept to what shutdown meets: worker tasks, the *)
(* entries of state.running, and retry timers; Orchestrator has the rest.  *)
(*                                                                         *)
(* WORKFLOW.md is the number of its last edit; which versions the loader   *)
(* or the validation rejects is fixed in rejected.                         *)
(***************************************************************************)
EXTENDS Naturals

CONSTANTS
  Worker,    \* worker tasks, each dispatched once
  MaxEdit    \* bound: edits of WORKFLOW.md

ASSUME EditAssumption == MaxEdit \in Nat

VARIABLES
  phase,     \* where start_service is
  exit,      \* what main returns
  port,      \* an HTTP port is configured
  file, rejected,
  loaded,    \* the version start_service loaded
  lastGood,  \* watcher.last_known_good
  watcher,
  noticed,   \* a change the watch loop has not handled
  base,      \* history: the version when watching began
  http,
  asked,     \* Shutdown is in the mailbox
  worker,    \* each task: "cleaning" are its finally blocks, "cut" a cancel in them
  running,   \* the tasks of state.running
  drained,   \* history: tasks the shutdown found at work
  timers,    \* retry timers are armed
  hurried    \* history: a signal came after the handlers were removed

workflow == <<file, rejected, loaded, lastGood, watcher, noticed, base>>
tasks == <<worker, running, drained, timers>>
vars == <<phase, exit, port, workflow, http, asked, tasks, hurried>>

Starting == {"load", "cleanup", "watch", "serve"}
Stopping == {"stop_http", "drain", "force", "stop_watcher"}
Over == {"returned", "close", "ended", "killed"}

Version == 0..MaxEdit

TypeOK ==
  /\ phase \in Starting \cup {"run"} \cup Stopping \cup Over /\ exit \in 0..2
  /\ file \in Version /\ rejected \subseteq Version
  /\ loaded \in Version /\ lastGood \in Version /\ base \in Version
  /\ watcher \in {"off", "watching", "crashed", "stopped"} /\ http \in {"off", "up"}
  /\ {port, noticed, asked, timers, hurried} \subseteq BOOLEAN
  /\ worker \in [Worker -> {"none", "working", "cleaning", "cut", "done"}]
  /\ running \subseteq Worker /\ drained \subseteq Worker
  /\ \A w \in running : worker[w] # "none"
  /\ http = "up" => port

-----------------------------------------------------------------------------
(* Starting. *)

\* load_workflow, resolve_and_validate and validate_for_dispatch.  Slip: the
\* last of them is forgotten.  A factory may raise before anything is started.
NoPreflight(v) == TRUE
Accepted(v) == v \notin rejected

Load ==
  /\ phase = "load"
  /\ \/ Accepted(file) /\ loaded' = file /\ phase' = "cleanup" /\ UNCHANGED exit
     \/ Accepted(file) /\ phase' = "returned" /\ exit' = 2 /\ UNCHANGED loaded
     \/ ~Accepted(file) /\ phase' = "returned" /\ exit' = 1 /\ UNCHANGED loaded
  /\ UNCHANGED <<port, file, rejected, lastGood, watcher, noticed, base, http, asked,
                 tasks, hurried>>

\* _startup_terminal_cleanup: whatever fails in it.
TerminalCleanup ==
  /\ phase = "cleanup" /\ phase' = "watch"
  /\ UNCHANGED <<exit, port, workflow, http, asked, tasks, hurried>>

\* watcher.start and last_known_good.set(config): edits made until here go
\* unnoticed.
StartWatcher ==
  /\ phase = "watch" /\ phase' = "serve"
  /\ watcher' \in {"watching", "crashed"} /\ base' = file /\ lastGood' = loaded
  /\ UNCHANGED <<exit, port, file, rejected, loaded, noticed, http, asked, tasks, hurried>>

\* "None keeps the HTTP path inert".  Slip: a default port is bound.
AlwaysHttp == TRUE
WantsHttp == port

\* start_server, then the signal handlers and the first tick.  A server that
\* does not come up ends start_service; the watcher is left to asyncio.run.
StartHttp ==
  /\ phase = "serve"
  /\ \/ phase' = "run" /\ http' = (IF WantsHttp THEN "up" ELSE "off") /\ UNCHANGED exit
     \/ WantsHttp /\ phase' = "returned" /\ exit' = 2 /\ UNCHANGED http
  /\ UNCHANGED <<port, workflow, asked, tasks, hurried>>

-----------------------------------------------------------------------------
(* WORKFLOW.md and its watcher. *)

Edit ==
  /\ file < MaxEdit /\ file' = file + 1 /\ noticed' = (noticed \/ watcher = "watching")
  /\ UNCHANGED <<phase, exit, port, rejected, loaded, lastGood, watcher, base, http, asked,
                 tasks, hurried>>

\* What the loop does after a version it rejects.  Slip: it ends.
LoopEnds == "stopped"
LoopGoesOn == watcher

Reload ==
  /\ watcher = "watching" /\ noticed /\ noticed' = FALSE
  /\ \/ Accepted(file) /\ lastGood' = file /\ UNCHANGED watcher
     \/ ~Accepted(file) /\ watcher' = LoopGoesOn /\ UNCHANGED lastGood
  /\ UNCHANGED <<phase, exit, port, file, rejected, loaded, base, http, asked, tasks, hurried>>

\* An exception in awatch ends the loop for good.
WatcherCrashes ==
  /\ watcher = "watching" /\ watcher' = "crashed"
  /\ UNCHANGED <<phase, exit, port, file, rejected, loaded, lastGood, noticed, base, http,
                 asked, tasks, hurried>>

-----------------------------------------------------------------------------
(* The dispatcher and its workers. *)

\* Task.cancel(): the finally blocks begin, or are cut short where they wait.
AfterCancel(w) ==
  CASE worker[w] = "working" -> "cleaning"
    [] worker[w] = "cleaning" -> "cut"
    [] OTHER -> worker[w]
Cancel(ws) == worker' = [w \in Worker |-> IF w \in ws THEN AfterCancel(w) ELSE worker[w]]

\* It takes the timer of the issue with it.
Dispatch(w) ==
  /\ phase = "run" /\ worker[w] = "none"
  /\ worker' = [worker EXCEPT ![w] = "working"] /\ running' = running \cup {w}
  /\ timers' \in {timers, FALSE}
  /\ UNCHANGED <<phase, exit, port, workflow, http, asked, drained, hurried>>

\* The tracker refresh leaves the entry in state.running, stall detection drops
\* it, with a retry; neither waits for the task.  An entry whose task has left
\* silently stays until then.
Terminate(w) ==
  /\ phase = "run" /\ w \in running /\ Cancel({w})
  /\ \/ UNCHANGED <<running, timers>>
     \/ running' = running \ {w} /\ timers' = TRUE
  /\ UNCHANGED <<phase, exit, port, workflow, http, asked, drained, hurried>>

WorkerExits(w) ==
  /\ phase = "run" /\ w \in running /\ worker[w] = "done"
  /\ running' = running \ {w} /\ timers' = TRUE
  /\ UNCHANGED <<phase, exit, port, workflow, http, asked, worker, drained, hurried>>

RetryFires ==
  /\ phase \in {"run", "stop_http"} /\ timers /\ timers' \in BOOLEAN
  /\ UNCHANGED <<phase, exit, port, workflow, http, asked, worker, running, drained, hurried>>

\* A worker's own steps.
AttemptEnds(w) ==
  /\ phase \notin {"ended", "killed"} /\ worker[w] = "working"
  /\ worker' = [worker EXCEPT ![w] = "cleaning"]
  /\ UNCHANGED <<phase, exit, port, workflow, http, asked, running, drained, timers, hurried>>

CleanupEnds(w) ==
  /\ phase \notin {"ended", "killed"} /\ worker[w] \in {"cleaning", "cut"}
  /\ worker' = [worker EXCEPT ![w] = "done"]
  /\ UNCHANGED <<phase, exit, port, workflow, http, asked, running, drained, timers, hurried>>

-----------------------------------------------------------------------------
(* Signals and stopping. *)

\* SIGTERM outside the handlers kills; SIGINT there is a KeyboardInterrupt that
\* asyncio.run and main turn into an exit with 0.
Signal ==
  \/ /\ phase = "run" /\ asked' = TRUE
     /\ UNCHANGED <<phase, exit, port, workflow, http, tasks, hurried>>
  \/ /\ phase \in Starting \cup Stopping /\ hurried' = TRUE
     /\ \/ phase' = "killed" /\ UNCHANGED exit
        \/ phase' = "returned" /\ exit' = 0
     /\ UNCHANGED <<port, workflow, http, asked, tasks>>

\* Orchestrator.run returns; the handlers are removed.
RunReturns ==
  /\ phase = "run" /\ asked /\ phase' = "stop_http"
  /\ UNCHANGED <<exit, port, workflow, http, asked, tasks, hurried>>

\* What _drain_workers waits for: the tasks it has cancelled.  Slips: nothing;
\* no end of the grace period.
Unfinished == {w \in running : worker[w] # "done"}
AwaitNothing(ws) == ws \subseteq Worker
Awaited(ws) == \A w \in ws : worker[w] = "done"
GraceForEver == FALSE
GraceExpired == phase = "drain"

\* ServerHandle.stop has returned: cancel_all, and the first cancel.
CancelAll ==
  /\ phase = "stop_http" /\ phase' = "drain" /\ http' = "off" /\ timers' = FALSE
  /\ Cancel(running) /\ drained' = {w \in running : worker[w] = "working"}
  /\ UNCHANGED <<exit, port, workflow, asked, running, hurried>>

Drained ==
  /\ phase \in {"drain", "force"} /\ Awaited(running) /\ phase' = "stop_watcher"
  /\ UNCHANGED <<exit, port, workflow, http, asked, tasks, hurried>>

ForceCancel ==
  /\ GraceExpired /\ Unfinished # {} /\ phase' = "force" /\ Cancel(Unfinished)
  /\ UNCHANGED <<exit, port, workflow, http, asked, running, drained, timers, hurried>>

\* The second wait is given up after a second.
GiveUp ==
  /\ phase = "force" /\ phase' = "stop_watcher"
  /\ UNCHANGED <<exit, port, workflow, http, asked, tasks, hurried>>

StopWatcher ==
  /\ phase = "stop_watcher" /\ phase' = "returned" /\ exit' = 0
  /\ watcher' = (IF watcher = "off" THEN "off" ELSE "stopped")
  /\ UNCHANGED <<port, file, rejected, loaded, lastGood, noticed, base, http, asked, tasks,
                 hurried>>

\* asyncio.run cancels every task that is left, once, and waits for them.
Left == {w \in Worker : worker[w] \notin {"none", "done"}}
CancelLeftovers ==
  /\ phase = "returned" /\ watcher' = (IF watcher = "off" THEN "off" ELSE "stopped")
  /\ http' = "off" /\ Cancel(Left) /\ phase' = "close"
  /\ UNCHANGED <<exit, port, file, rejected, loaded, lastGood, noticed, base, asked, running,
                 drained, timers, hurried>>
End ==
  /\ phase = "close" /\ Left = {} /\ phase' = "ended"
  /\ UNCHANGED <<exit, port, workflow, http, asked, tasks, hurried>>

-----------------------------------------------------------------------------
Init ==
  /\ phase = "load" /\ exit = 0 /\ port \in BOOLEAN
  /\ file = 0 /\ rejected \in SUBSET Version /\ loaded = 0 /\ lastGood = 0
  /\ watcher = "off" /\ noticed = FALSE /\ base = 0
  /\ http = "off" /\ asked = FALSE /\ timers = FALSE /\ hurried = FALSE
  /\ worker = [w \in Worker |-> "none"] /\ running = {} /\ drained = {}

Start == Load \/ TerminalCleanup \/ StartWatcher \/ StartHttp
Stop ==
  \/ RunReturns \/ CancelAll \/ Drained \/ ForceCancel \/ GiveUp \/ StopWatcher
  \/ CancelLeftovers \/ End

Next ==
  \/ Load \/ TerminalCleanup \/ StartWatcher \/ StartHttp
  \/ Edit \/ Reload \/ WatcherCrashes
  \/ \E w \in Worker :
       Dispatch(w) \/ Terminate(w) \/ WorkerExits(w) \/ AttemptEnds(w) \/ CleanupEnds(w)
  \/ RetryFires \/ Signal
  \/ RunReturns \/ CancelAll \/ Drained \/ ForceCancel \/ GiveUp \/ StopWatcher
  \/ CancelLeftovers \/ End

Spec == Init /\ [][Next]_vars

\* start_service goes on, its waits have timeouts, and the watch loop runs.  A
\* task that is cancelled twice ends: what is left of its finally blocks does
\* not wait.  A hook may take longer than any grace period.
FairSpec ==
  /\ Spec /\ WF_vars(Start) /\ WF_vars(Stop) /\ WF_vars(Reload)
  /\ \A w \in Worker : WF_vars(worker[w] = "cut" /\ CleanupEnds(w))

-----------------------------------------------------------------------------
(* Properties. *)

\* A version that the loader or the preflight rejects never gets to the
\* dispatcher, at the start or by a reload: "keep last known good".
LastGoodAccepted == watcher # "off" => lastGood \notin rejected

\* An edit made while the watcher watches becomes last known good, however many
\* rejected ones come before it, unless the next edit, a crash of the watch loop
\* or the shutdown is faster.
EditsLand ==
  \A v \in Version :
    watcher # "off" /\ file = v /\ v # base /\ v \notin rejected ~>
      lastGood = v \/ file # v \/ watcher = "crashed" \/ phase \in Stopping \cup Over

\* When start_service returns after a shutdown, the HTTP server and the watcher
\* have stopped, no retry timer is left to fire, and every task of state.running
\* has ended or has been cancelled a second time.
CleanReturn ==
  phase = "returned" /\ exit = 0 /\ ~hurried =>
    /\ http = "off" /\ watcher # "watching" /\ ~timers
    /\ \A w \in running : worker[w] \in {"cut", "done"}

\* What holds of every state: the types, the configuration, and the end.
ServiceInv == TypeOK /\ LastGoodAccepted /\ CleanReturn

\* A worker that is at work when the shutdown cancels it gets the grace period
\* for stop_session and after_run: nothing but its end cuts them short.  (One
\* that is in them already, or was cancelled before, is cut short at once.)
GraceGiven ==
  [][\A w \in drained :
       worker[w] = "cleaning" /\ worker'[w] = "cut" => phase' = "force" \/ hurried]_vars

\* A shutdown that was asked for ends the process, whatever hangs in a worker's
\* finally blocks.
ShutdownEnds == asked ~> phase \in {"ended", "killed"} \/ hurried
=============================================================================
