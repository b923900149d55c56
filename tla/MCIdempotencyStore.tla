--------------------------- MODULE MCIdempotencyStore ---------------------------
(* An instance of IdempotencyStore for TLC.                                        *)
EXTENDS IdempotencyStore, TLC

CONSTANTS p1, p2, c1, c2, c3, k1

\* A restart that overlaps the old process: one task in the old, the rest in the new.
TwoProcesses == [c \in Callers |-> IF c = c1 THEN p1 ELSE p2]

NewTasks == Permutations({c2, c3})
=================================================================================
