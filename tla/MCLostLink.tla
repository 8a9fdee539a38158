----------------------------- MODULE MCLostLink -----------------------------
(* A small instance of LostLink for TLC. *)
EXTENDS LostLink

DepthOne == [l \in Layers |-> 1]
=============================================================================
