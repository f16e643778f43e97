---------------------------- MODULE MCChatState ----------------------------
(* A small instance of ChatState: either the chat is only archived, under both
   addresses, or everything is changed, under one. *)
EXTENDS ChatState

Archiving == last["muted"] = 0 /\ last["pinned"] <= last["archived"]

OneAddress ==
  /\ ~mapped /\ rows \subseteq {"number"}
  /\ \A e \in Flight : e.addr = "number"
  /\ \A c \in Command : want[c].addr = "number"

Small == Archiving \/ OneAddress
=============================================================================
