-------------------------- MODULE AttemptLifecycle --------------------------
(***************************************************************************)
(* What the dispatcher may rely on in a worker attempt: it concludes once; *)
(* it ends with one exit that tells how the turn went, or silently when it *)
(* was cancelled; a cancellation may come too late to have an effect.      *)
(***************************************************************************)
VARIABLES phase,     \* "starting", "turn", "succeeded", "failed", "cancelling", "settled"
          exit,      \* the WorkerExit posted: "none", "ok" or "failed"
          cancelled  \* whether the task was ever cancelled

attemptVars == <<phase, exit, cancelled>>

Init == phase = "starting" /\ exit = "none" /\ cancelled = FALSE

OpenTurn == phase = "starting" /\ phase' = "turn" /\ UNCHANGED exit
Fail == phase \in {"starting", "turn"} /\ phase' = "failed" /\ UNCHANGED exit
Succeed == phase = "turn" /\ phase' = "succeeded" /\ UNCHANGED exit
ReportFailure == phase = "failed" /\ phase' = "settled" /\ exit' = "failed"

\* Without a final transition a success is reported at once.
ReportSuccess ==
  phase \in {"turn", "succeeded"} /\ phase' = "settled" /\ exit' = "ok"
SettleSilently == phase = "cancelling" /\ phase' = "settled" /\ UNCHANGED exit

Work ==
  \/ OpenTurn \/ Fail \/ Succeed \/ ReportFailure \/ ReportSuccess \/ SettleSilently

Cancel ==
  /\ cancelled' = TRUE /\ phase # "settled"
  /\ \/ phase' \in {phase, "cancelling", "settled"} /\ UNCHANGED exit
     \/ phase = "turn" /\ (Fail \/ Succeed \/ ReportSuccess)

Next == (Work /\ UNCHANGED cancelled) \/ Cancel

Spec == Init /\ [][Next]_attemptVars
=============================================================================
