----------------------------- MODULE MCGoalWake -----------------------------
(* TLC instances of GoalWake. *)
EXTENDS GoalWake, TLC

CONSTANTS p1, p2, e1, r1, r2, k1

(* Calls of one kind are interchangeable. *)
Symmetry == Permutations(Pollers) \cup Permutations(Reconcilers)
==============================================================================
