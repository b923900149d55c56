------------------------------ MODULE MCModeration -------------------------------
(* An instance of Moderation for TLC.                                              *)
EXTENDS Moderation

CONSTANTS t1, t2
=================================================================================
