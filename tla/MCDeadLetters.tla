------------------------------ MODULE MCDeadLetters ------------------------------
(* An instance of DeadLetters for TLC.                                             *)
EXTENDS DeadLetters, TLC

CONSTANTS early, late, job, r1, r2

\* Two failed updates and a failed job.
TypeOfItem == [i \in Items |-> IF i = job THEN "scheduled_job" ELSE "update"]

Symmetry == Permutations({early, late}) \cup Permutations(Replays)
=================================================================================
