------------------------------- MODULE MCPayments --------------------------------
(* Instances of Payments for TLC.                                                  *)
EXTENDS Payments, TLC

CONSTANTS u1, c1, c2

\* Two charges of one user: a purchase and a renewal.
SameOwner == [c \in Charges |-> u1]

ChargeSymmetry == Permutations(Charges)
=================================================================================
