--------------------------- MODULE MCSyncPipeline ---------------------------
(* Small instances of SyncPipeline: what WhatsApp delivers, and to whom. *)
EXTENDS SyncPipeline, TLC

CONSTANTS m1, m2, m3, s1, x1,  \* messages, a chat-state update, a Disconnected
          node, hist           \* whatsmeow's node loop and its history loop

mcEvents == {m1, m2, m3, s1, x1}
mcMessages == {m1, m2, m3}
mcDisconnects == {x1}

(* a message and the update of the chat it creates, and a history sync that
   arrives at the same time *)
mcTwo == {node, hist}
mcFeedTwo == node :> <<m1, s1, x1>> @@ hist :> <<m2, m3>>
=============================================================================
