------------------------------- MODULE MCLimiters --------------------------------
(* An instance for TLC of the two limiters of a process, the adaptive one and that *)
(* of the button presses.  They share no state, so a behaviour of both is one of   *)
(* each, side by side: here one of them moves and the other is as it started.      *)
EXTENDS RateLimits, Callbacks, TLC

CONSTANTS usual, strict, p1, p2, k1

\* The default scope has the usual setting; the custom one has no default.
UsualByDefault == [s \in Scopes |-> usual]

Alike == Permutations(Processes)

LimitersInit == Init /\ BucketInit

LimitersNext ==
    \/ Next /\ BucketInit /\ UNCHANGED bucketVars
    \/ BucketNext /\ Init /\ UNCHANGED vars

LimitersSpec == LimitersInit /\ [][LimitersNext]_<<vars, bucketVars>>
=================================================================================
