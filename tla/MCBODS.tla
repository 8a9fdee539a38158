------------------------------- MODULE MCBODS -------------------------------
(* Small instances of BODS for TLC. *)
EXTENDS BODS

PerLayer(a, b, c) == <<a, b, c>>
Depth000 == PerLayer(0, 0, 0)
Depth001 == PerLayer(0, 0, 1)
Depth011 == PerLayer(0, 1, 1)

(* every content the operations can make of these keys *)
Contents_ ==
  LET links == [key : Keys, pos : {Unplaced}]
      pairs == [key : Keys, val : Values]
      rest(x) == [max : Keys, old : Keys, pos : {Unplaced}]
  IN  [arr : UNION {[1 .. n -> pairs] : n \in 1 .. C},
       max : Keys, old : Keys, pos : {Unplaced}]
      \union [kids : UNION {[1 .. n -> links] : n \in 1 .. P2},
              max : Keys, old : Keys, pos : {Unplaced}]

(* No operation looks at a value. *)
ValueSymmetry == Permutations(Values)
=============================================================================
