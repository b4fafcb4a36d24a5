--------------------------- MODULE MCOrchestrator ---------------------------
(***************************************************************************)
(* Small instances of Orchestrator for TLC: the configurations WORKFLOW.md *)
(* may hold, and the symmetry of issues and workers.                       *)
(***************************************************************************)
EXTENDS Orchestrator

\* A cap for every active state, or none (None), and stall detection on or off.
Cfg(cap, perState, stall) ==
  [cap |-> cap, stateCap |-> [s \in State |-> IF s \in Active THEN perState ELSE None],
   stall |-> stall]

OneAgent == Cfg(1, None, TRUE)
TwoAgents == Cfg(2, None, TRUE)
OnePerState == Cfg(2, 1, TRUE)
\* max_concurrent_agents is not checked to be positive: 0 is a pause.
Paused == Cfg(0, None, FALSE)

OnlyOneAgent == {OneAgent}
OnlyTwoAgents == {TwoAgents}
Reloads == {TwoAgents, Paused}
OnlyOnePerState == {OnePerState}

Symmetry == Permutations(Issue) \cup Permutations(Worker)
=============================================================================
