---------------------------- MODULE CommandLedger ----------------------------
(***************************************************************************)
(* What a user may conclude from the end of a command that acts on         *)
(* WhatsApp, whoever executes it (internal/ipc/client.go:12-17): it acts   *)
(* at most once; it acted if the answer is "ok", it did not and never will *)
(* if it was refused, it will not any more if it failed, and only in doubt *)
(* may it still be executing.                                              *)
(***************************************************************************)
EXTENDS Naturals

CONSTANT Client

VARIABLES
    times,      \* how often the command of a client has acted
    answer      \* what the client was told

Final == {"ok", "failed", "refused"}

Init ==
    /\ times = [c \in Client |-> 0]
    /\ answer = [c \in Client |-> "pending"]

Act(c) ==
    /\ times[c] = 0 /\ answer[c] \notin Final
    /\ times' = [times EXCEPT ![c] = 1]
    /\ UNCHANGED answer

Tell(c) ==
    /\ answer[c] = "pending"
    /\ \E r \in Final \cup {"doubt"} :
           /\ r = "ok" => times[c] = 1
           /\ r = "refused" => times[c] = 0
           /\ answer' = [answer EXCEPT ![c] = r]
    /\ UNCHANGED times

Next == \E c \in Client : Act(c) \/ Tell(c)

Spec == Init /\ [][Next]_<<times, answer>>
=============================================================================
