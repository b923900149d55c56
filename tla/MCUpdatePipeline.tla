---------------------------- MODULE MCUpdatePipeline -----------------------------
(* Instances of UpdatePipeline for TLC.                                            *)
EXTENDS UpdatePipeline

CONSTANTS u1, u2
=================================================================================
