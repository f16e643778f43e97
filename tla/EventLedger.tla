---------------------------- MODULE EventLedger ----------------------------
(***************************************************************************)
(* What Sync promises about the WhatsApp events it takes: WhatsApp has     *)
(* already been told an event arrived when Sync's handler sees it, so      *)
(* nobody will send it again.  Only accepted events are processed, none    *)
(* after Sync has returned, and Sync does not return while an accepted     *)
(* event is outstanding.  How (queue, worker, inline processing, sweep) is *)
(* SyncPipeline's business.                                                *)
(***************************************************************************)
CONSTANT Events        \* the events that must not be lost

VARIABLES accepted,    \* events Sync has taken responsibility for
          done,        \* events whose processing has finished
          closed       \* Sync has returned

ledger == <<accepted, done, closed>>

Init == /\ accepted = {}
        /\ done = {}
        /\ closed = FALSE

Accept(e) == /\ ~closed
             /\ e \notin accepted
             /\ accepted' = accepted \cup {e}
             /\ UNCHANGED <<done, closed>>

Process(e) == /\ ~closed
              /\ e \in accepted \ done
              /\ done' = done \cup {e}
              /\ UNCHANGED <<accepted, closed>>

Close == /\ ~closed
         /\ accepted = done
         /\ closed' = TRUE
         /\ UNCHANGED <<accepted, done>>

Next == \/ \E e \in Events : Accept(e) \/ Process(e)
        \/ Close

Spec == Init /\ [][Next]_ledger
=============================================================================
