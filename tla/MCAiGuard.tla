-------------------------------- MODULE MCAiGuard --------------------------------
(* Instances of AiGuard for TLC.                                                   *)
EXTENDS AiGuard, TLC

CONSTANTS c1, c2

CallerSymmetry == Permutations(Callers)
=================================================================================
