----------------------------- MODULE MCTracker -----------------------------
(***************************************************************************)
(* Instances of TrackerClient for TLC.                                     *)
(***************************************************************************)
EXTENDS TrackerClient, TLC

CONSTANTS a, b

\* Issues of two teams, alternating in the order Linear lists them.
TwoTeams == [i \in 1..Issues |-> IF i % 2 = 1 THEN a ELSE b]

Symmetry == Permutations(Caller)
=============================================================================
