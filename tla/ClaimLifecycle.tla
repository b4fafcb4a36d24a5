--------------------------- MODULE ClaimLifecycle ---------------------------
(***************************************************************************)
(* What the orchestrator promises about one issue, whatever its mailbox,   *)
(* timers and workers do: an issue is idle, running or waiting for a retry;*)
(* it leaves "running" only through a retry, and it enters "running" only  *)
(* when fewer than limit issues run.                                       *)
(***************************************************************************)
EXTENDS Naturals, FiniteSets

CONSTANTS Issue,  \* tracker issues
          Limit   \* the values max_concurrent_agents may take

VARIABLES status,  \* [Issue -> "idle", "running" or "retrying"]
          limit,   \* state.max_concurrent_agents
          open     \* FALSE once the service shuts down

lifecycleVars == <<status, limit, open>>

Init ==
  /\ status = [i \in Issue |-> "idle"] /\ limit \in Limit /\ open = TRUE

RunningNow == {i \in Issue : status[i] = "running"}

Dispatch(i) ==
  /\ open /\ status[i] \in {"idle", "retrying"} /\ Cardinality(RunningNow) < limit
  /\ status' = [status EXCEPT ![i] = "running"] /\ UNCHANGED <<limit, open>>

WorkerEnds(i) ==
  /\ open /\ status[i] = "running"
  /\ status' = [status EXCEPT ![i] = "retrying"] /\ UNCHANGED <<limit, open>>

Release(i) ==
  /\ open /\ status[i] = "retrying"
  /\ status' = [status EXCEPT ![i] = "idle"] /\ UNCHANGED <<limit, open>>

SetLimit(n) == open /\ limit' = n /\ UNCHANGED <<status, open>>

Close ==
  /\ open /\ open' = FALSE /\ UNCHANGED limit
  /\ status' = [i \in Issue |-> IF status[i] = "retrying" THEN "idle" ELSE status[i]]

Next ==
  \/ \E i \in Issue : Dispatch(i) \/ WorkerEnds(i) \/ Release(i)
  \/ \E n \in Limit : SetLimit(n)
  \/ Close

Spec == Init /\ [][Next]_lifecycleVars
=============================================================================
