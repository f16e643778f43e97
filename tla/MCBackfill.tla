----------------------------- MODULE MCBackfill -----------------------------
(* The instance of Backfill that TLC checks: its constants are in the cfg. *)
EXTENDS Backfill
=============================================================================
