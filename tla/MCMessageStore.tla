--------------------------- MODULE MCMessageStore ---------------------------
(* Small conversations for TLC. *)
EXTENDS MessageStore, TLC

CONSTANTS m1, m2, w1, w2

TwoMessages == {m1, m2}
OneMessage == {m1}
TwoWriters == {w1, w2}
OnlyNumber == {"pn"}
\* The second message is not edited; where the mapping is learnt late, one writer
\* and the message of somebody else are explored.
Small ==
    /\ Current(m2) <= 1
    /\ early \/ (~Sent(m1) /\ Cardinality({w \in Writer : writer[w] # Idle}) <= 1)
WriterSymmetry == Permutations(Writer)
=============================================================================
