------------------------------ MODULE MCServer ------------------------------
(* A peer that sends two requests ahead, and one that waits for its answer *)
EXTENDS Server

TwoConns == {0, 1}
TwoAndOne == [c \in TwoConns |-> 2 - c]
=============================================================================
