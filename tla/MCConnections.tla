--------------------------- MODULE MCConnections ---------------------------
(* Two ids: two connections can have the same one or different ones.       *)
EXTENDS Connections

TwoIds == {0, 1}
=============================================================================
