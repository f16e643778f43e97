---------------------------- MODULE MCStoreLock ----------------------------
(* Small instances of StoreLock.  Every run of the program may leave its pid
   behind, so three runs already give a dead owner and two contenders. *)
EXTENDS StoreLock, TLC

=============================================================================
