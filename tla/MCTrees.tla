------------------------------ MODULE MCTrees ------------------------------
(* Sizes of maps for TLC: every small one, both sides of a step of the     *)
(* range of the search, and the size the drivers use.                      *)
EXTENDS Trees

SomeSizes == 1 .. 256 \union {392, 393, 1024, 1025, 10000}
=============================================================================
