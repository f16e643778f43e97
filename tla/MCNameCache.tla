---------------------------- MODULE MCNameCache ----------------------------
(* The instance of NameCache that TLC checks: its constants are in the cfg. *)
EXTENDS NameCache
=============================================================================
