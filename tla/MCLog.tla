------------------------------- MODULE MCLog --------------------------------
(* Two or three processes and blocks, operations of up to two blocks each. *)
EXTENDS Log

CONSTANTS p1, p2, p3, b1, b2, b3
TwoProcs == {p1, p2}
ThreeProcs == {p1, p2, p3}
ThreeBlocks == {b1, b2, b3}
=============================================================================
