-------------------------- MODULE MCMediaDownload --------------------------
(* Small instances of MediaDownload. *)
EXTENDS MediaDownload, TLC
=============================================================================
