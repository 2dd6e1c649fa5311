----------------------------- MODULE MCMigrate -----------------------------
(* A small instance of Migrate: a rollout from two files to three. *)
EXTENDS Migrate, TLC

CONSTANTS r1, r2

MCRelease == r1 :> 2 @@ r2 :> 3
=============================================================================
