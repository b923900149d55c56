------------------------------ MODULE MCMigrations -------------------------------
(* An instance of Migrations for TLC.                                              *)
EXTENDS Migrations

CONSTANT saving
=================================================================================
