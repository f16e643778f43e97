----------------------------- MODULE MCDaemonIPC -----------------------------
(* Two daemons, one ending while the next starts, and two commands. *)
EXTENDS DaemonIPC, TLC

CONSTANTS d1, d2, c1, c2

TwoDaemons == {d1, d2}
TwoClients == {c1, c2}
\* The second command competes for the lock; one at a time is delegated.
OneDelegates == conn[c2] = None
=============================================================================
