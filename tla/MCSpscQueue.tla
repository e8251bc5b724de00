---------------------------- MODULE MCSpscQueue ----------------------------
(* Two values suffice: no step looks at what an element is.                *)
EXTENDS SpscQueue

CONSTANTS v1, v2

TwoElements == {v1, v2}
OneElement == {v1}
=============================================================================
