---------------------------- MODULE MCConnection ----------------------------
(* Four packages are needed only where a second answer must wait while    *)
(* one is being sent and others are taken.                                 *)
EXTENDS Connection

CONSTANTS p1, p2, p3, p4

TwoPackages == {p1, p2}
ThreePackages == {p1, p2, p3}
FourPackages == {p1, p2, p3, p4}
=============================================================================
