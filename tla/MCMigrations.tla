---------------------------- MODULE MCMigrations ----------------------------
(* Small instances of Migrations: processes are interchangeable. *)
EXTENDS Migrations, TLC

Symmetric == Permutations(Proc)
=============================================================================
