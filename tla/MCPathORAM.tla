----------------------------- MODULE MCPathORAM -----------------------------
(* Small instances of PathORAM for TLC. *)
EXTENDS PathORAM_inv

(* one value per layer, top to bottom *)
PerLayer(a, b, c) == [l \in Layers |-> CASE l = 1 -> a [] l = 2 -> b [] OTHER -> c]

Depth001 == PerLayer(0, 0, 1)
Depth002 == PerLayer(0, 0, 2)

(* P1 = Z and P2 = 2: server::server and client::finish use trees for P1,  *)
(* P1*P2 and P1*P2^2 nodes, and midNode1::Insert draws from the second.    *)
Depth012 == PerLayer(0, 1, 2)
CodeSplitDepth == PerLayer(1, 1, 2)
=============================================================================
