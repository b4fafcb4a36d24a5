--------------------------- MODULE WorkerAttempt ---------------------------
(***************************************************************************)
(* orchestrator/worker.py: one run_agent_attempt, from its first step to   *)
(* the end of its task, with the app-server process of its client          *)
(* (startup.py, codex/process.py, CodexClient.stop_session), its hook      *)
(* scripts, and cancellations that arrive at any await.                    *)
(*                                                                         *)
(* stage is the await the task is suspended in.  stop, kill and drain are  *)
(* the three awaits of stop_session: for the process to leave by itself,   *)
(* for the signalled process, for the task that reads stderr.              *)
(***************************************************************************)
EXTENDS Naturals, Sequences

CONSTANTS
  None,
  MaxCancels  \* how often the task is cancelled: reconciliation, then the drain

ASSUME CancelsAssumption == MaxCancels \in Nat

VARIABLES
  config,     \* hooks, and which of the two transitions are configured
  stage,      \* the await of the task
  result,     \* the reason of the outcome, or None
  unwinding,  \* whether CancelledError is on its way through the finally block
  cancels,    \* cancellations so far
  process,    \* the app-server
  scripts,    \* hook scripts that run
  explained,  \* whether the failure comment has been tried
  ticket,     \* where the attempt has moved the ticket: nowhere, start, success
  exits       \* the reasons of the WorkerExits it posted

idle == <<config, cancels>>
vars == <<config, stage, result, unwinding, cancels, process, scripts, explained,
          ticket, exits>>

Starting == {"new", "ensure", "factory", "before_run", "handshake", "start_transition"}
CleaningUp == {"stop", "kill", "drain", "after_run"}
Stage == Starting \cup CleaningUp
           \cup {"turn", "comment", "final_transition", "settled"}

\* turn_failed stands for the four typed exits of a turn.
Failure == {"prompt_failed", "workspace_failed", "session_failed",
            "before_run_failed", "turn_failed", "unexpected"}
Reason == Failure \cup {"normal"}

ASSUME NoneIsNoReason == None \notin Reason

Config == [hooks : SUBSET {"before_run", "after_run"},
           start : BOOLEAN, success : BOOLEAN]

TypeOK ==
  /\ config \in Config /\ stage \in Stage /\ result \in Reason \cup {None}
  /\ unwinding \in BOOLEAN /\ cancels \in 0 .. MaxCancels
  /\ process \in {"none", "alive", "exited"}
  /\ scripts \subseteq {"before_run", "after_run"}
  /\ explained \in BOOLEAN /\ ticket \in {"nowhere", "start", "success"}
  /\ exits \in Seq(Reason)

-----------------------------------------------------------------------------
(* _finalize_attempt *)

\* WorkerExit, the last step.  Slip: ok keeps its initial value.
PostOk(reason) == stage' = "settled" /\ exits' = Append(exits, "normal")
PostExit(reason) == stage' = "settled" /\ exits' = Append(exits, reason)

\* _safe_transition(success_state), skipped when there is none.
MoveToSuccess(reason) ==
  \/ config.success /\ stage' = "final_transition" /\ UNCHANGED exits
  \/ ~config.success /\ PostExit(reason)

\* Slip: the ticket moves first.
MoveFirst(reason) == result' = reason /\ MoveToSuccess(reason)
Finalize(reason) ==
  /\ result' = reason
  /\ \/ reason # "normal" /\ stage' = "comment" /\ UNCHANGED exits
     \/ reason = "normal" /\ MoveToSuccess(reason)

-----------------------------------------------------------------------------
(* The finally block of the turn, and after_run. *)

\* What follows the clean-up, cancelled or not.  Slip: a cancelled attempt
\* goes on.
EndAnyway(reason, cancelled) == Finalize(reason)
EndAttempt(reason, cancelled) ==
  \/ ~cancelled /\ Finalize(reason)
  \/ cancelled /\ stage' = "settled" /\ UNCHANGED <<result, exits>>

RunAfterRun(reason, cancelled) ==
  \/ /\ "after_run" \in config.hooks /\ scripts' = scripts \cup {"after_run"}
     /\ stage' = "after_run" /\ result' = reason /\ UNCHANGED exits
  \/ "after_run" \notin config.hooks /\ EndAttempt(reason, cancelled) /\ UNCHANGED scripts

\* The end of aclose: the stderr task is awaited unless it is done already.
Close(reason, cancelled) ==
  \/ stage' = "drain" /\ result' = reason /\ UNCHANGED <<exits, scripts>>
  \/ RunAfterRun(reason, cancelled)

\* stop_session: wait_for_exit returns at once for a process that is gone.
\* Slip: after a failed turn the process is left alone.
StopIfSuccessful(reason, cancelled) ==
  \/ /\ process = "alive" /\ reason = "normal" /\ stage' = "stop"
     /\ result' = reason /\ UNCHANGED <<exits, scripts>>
  \/ (process # "alive" \/ reason # "normal") /\ RunAfterRun(reason, cancelled)
StopSession(reason, cancelled) ==
  \/ /\ process = "alive" /\ stage' = "stop"
     /\ result' = reason /\ UNCHANGED <<exits, scripts>>
  \/ process # "alive" /\ Close(reason, cancelled)

-----------------------------------------------------------------------------
(* _run_agent_attempt_impl *)

Resumes(s) == stage = s /\ UNCHANGED idle

\* render_prompt, and on to ensure_for_issue.
Begin ==
  /\ Resumes("new")
  /\ \/ stage' = "ensure" /\ UNCHANGED <<result, exits>>
     \/ Finalize("prompt_failed")
  /\ UNCHANGED <<unwinding, process, scripts, explained, ticket>>

EnsureReturns ==
  /\ Resumes("ensure")
  /\ \/ stage' = "factory" /\ UNCHANGED <<result, exits>>
     \/ Finalize("workspace_failed")
  /\ UNCHANGED <<unwinding, process, scripts, explained, ticket>>

\* The factory launches the app-server, before before_run.
FactoryReturns ==
  /\ Resumes("factory")
  /\ \/ /\ process' = "alive" /\ UNCHANGED <<result, exits>>
        /\ \/ /\ "before_run" \in config.hooks /\ stage' = "before_run"
              /\ scripts' = scripts \cup {"before_run"}
           \/ /\ "before_run" \notin config.hooks /\ stage' = "handshake"
              /\ UNCHANGED scripts
     \/ Finalize("session_failed") /\ UNCHANGED <<process, scripts>>
  /\ UNCHANGED <<unwinding, explained, ticket>>

\* The script has ended, or was killed after its timeout.
BeforeRunReturns ==
  /\ Resumes("before_run") /\ scripts' = scripts \ {"before_run"}
  /\ \/ stage' = "handshake" /\ UNCHANGED <<result, exits>>
     \/ Finalize("before_run_failed") \/ Finalize("unexpected")
  /\ UNCHANGED <<unwinding, process, explained, ticket>>

\* start_session: a CodexError is followed by after_run, anything else is not.
HandshakeReturns ==
  /\ Resumes("handshake")
  /\ \/ /\ stage' = IF config.start THEN "start_transition" ELSE "turn"
        /\ UNCHANGED <<result, exits, scripts>>
     \/ RunAfterRun("session_failed", FALSE)
     \/ Finalize("unexpected") /\ UNCHANGED scripts
  /\ UNCHANGED <<unwinding, process, explained, ticket>>

StartTransitionReturns ==
  /\ Resumes("start_transition") /\ stage' = "turn"
  /\ ticket' \in {ticket, "start"}
  /\ UNCHANGED <<result, exits, unwinding, process, scripts, explained>>

\* _run_single_turn returns or raises what it does not map to a reason.
TurnReturns ==
  /\ Resumes("turn")
  /\ \E reason \in {"normal", "turn_failed", "unexpected"} : StopSession(reason, FALSE)
  /\ UNCHANGED <<unwinding, process, explained, ticket>>

\* wait_for_exit returns: the process has left, or gets SIGTERM.  Slip: it is
\* only waited for.
WaitForExit ==
  /\ Resumes("stop") /\ process = "exited" /\ Close(result, unwinding)
  /\ UNCHANGED <<unwinding, process, explained, ticket>>
StopReturns ==
  /\ Resumes("stop")
  /\ \/ process = "exited" /\ Close(result, unwinding)
     \/ /\ process = "alive" /\ stage' = "kill"
        /\ UNCHANGED <<result, exits, scripts>>
  /\ UNCHANGED <<unwinding, process, explained, ticket>>

\* wait returns, after SIGKILL if need be.
KillReturns ==
  /\ Resumes("kill") /\ process' = "exited" /\ Close(result, unwinding)
  /\ UNCHANGED <<unwinding, explained, ticket>>

DrainReturns ==
  /\ Resumes("drain") /\ RunAfterRun(result, unwinding)
  /\ UNCHANGED <<unwinding, process, explained, ticket>>

AfterRunReturns ==
  /\ Resumes("after_run") /\ scripts' = scripts \ {"after_run"}
  /\ EndAttempt(result, unwinding)
  /\ UNCHANGED <<unwinding, process, explained, ticket>>

\* _safe_add_comment swallows every failure.
CommentReturns ==
  /\ Resumes("comment") /\ explained' = TRUE /\ MoveToSuccess(result)
  /\ UNCHANGED <<result, unwinding, process, scripts, ticket>>

FinalTransitionReturns ==
  /\ Resumes("final_transition") /\ ticket' \in {ticket, "success"}
  /\ PostExit(result)
  /\ UNCHANGED <<result, unwinding, process, scripts, explained>>

-----------------------------------------------------------------------------
\* task.cancel(): CancelledError is raised in the await.  Only the turn has a
\* finally block, whose own awaits can be interrupted again; aclose swallows it
\* while it awaits the stderr task.  Linear may have moved the ticket already.
Cancel ==
  /\ cancels < MaxCancels /\ stage # "settled"
  /\ cancels' = cancels + 1
  /\ \/ stage = "turn" /\ unwinding' = TRUE /\ StopSession(result, TRUE)
     \/ stage = "drain" /\ RunAfterRun(result, unwinding) /\ UNCHANGED unwinding
     \/ /\ stage \notin {"turn", "drain"} /\ stage' = "settled"
        /\ UNCHANGED <<result, exits, scripts, unwinding>>
  /\ ticket' \in {ticket} \cup (IF stage = "start_transition" THEN {"start"} ELSE {})
                    \cup (IF stage = "final_transition" THEN {"success"} ELSE {})
  /\ UNCHANGED <<config, process, explained>>

\* The app-server exits, and scripts that were left behind end, when they like.
ProcessExits ==
  /\ process = "alive" /\ process' = "exited"
  /\ UNCHANGED <<idle, stage, result, unwinding, scripts, explained, ticket, exits>>
ScriptEnds(hook) ==
  /\ hook \in scripts /\ stage # hook /\ scripts' = scripts \ {hook}
  /\ UNCHANGED <<idle, stage, result, unwinding, process, explained, ticket, exits>>

-----------------------------------------------------------------------------
Init ==
  /\ config \in Config /\ stage = "new" /\ result = None /\ unwinding = FALSE
  /\ cancels = 0 /\ process = "none" /\ scripts = {} /\ explained = FALSE
  /\ ticket = "nowhere" /\ exits = <<>>

Task ==
  \/ Begin \/ EnsureReturns \/ FactoryReturns \/ BeforeRunReturns
  \/ HandshakeReturns \/ StartTransitionReturns \/ TurnReturns \/ StopReturns
  \/ KillReturns \/ DrainReturns \/ AfterRunReturns \/ CommentReturns
  \/ FinalTransitionReturns

Next ==
  \/ Task \/ Cancel \/ ProcessExits
  \/ \E hook \in {"before_run", "after_run"} : ScriptEnds(hook)

Spec == Init /\ [][Next]_vars

\* Every await of the task has a limit: hook, read and turn timeouts, HTTP
\* timeouts, SIGKILL.  The end of git clone is assumed; that of the process is
\* not.
FairSpec == Spec /\ WF_vars(Task)

-----------------------------------------------------------------------------
(* Properties. *)

phase ==
  CASE stage = "settled" -> "settled"
    [] stage \in Starting \/ (stage = "after_run" /\ result = "session_failed") -> "starting"
    [] unwinding -> "cancelling"
    [] stage \in {"comment", "final_transition"} ->
         IF result = "normal" THEN "succeeded" ELSE "failed"
    [] OTHER -> "turn"
exit == CASE exits = <<>> -> "none" [] exits = <<"normal">> -> "ok" [] OTHER -> "failed"

\* The attempt is what the dispatcher takes it for: one exit, true to the turn,
\* unless it was cancelled, wherever exceptions and cancellations strike.
Lifecycle ==
  INSTANCE AttemptLifecycle WITH phase <- phase, exit <- exit, cancelled <- (cancels > 0)
ImplementsAttempt == Lifecycle!Spec

\* When the exit of a turn is posted, and the next attempt may start in the same
\* workspace, its app-server is gone and no script of it runs.
ExitMeansReleased ==
  exits # <<>> /\ result \in {"normal", "turn_failed"} =>
    process = "exited" /\ scripts = {}

\* The failure comment is tried before the ticket leaves the active states
\* (_finalize_attempt).
FailureExplained ==
  result \in Failure /\ (stage = "final_transition" \/ ticket = "success" \/ exits # <<>>)
    => explained

\* What holds of every state of an attempt: its types, and the order in which it
\* releases, explains and reports.
AttemptInv == TypeOK /\ ExitMeansReleased /\ FailureExplained

\* The task ends, even with an app-server that never leaves by itself and with
\* cancellations during the clean-up.
AttemptEnds == <>(stage = "settled")
=============================================================================
