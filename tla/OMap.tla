-------------------------------- MODULE OMap --------------------------------
(***************************************************************************)
(* What bODS promises its user: a map from keys to values (client.hpp,     *)
(* insert_map and search_map).                                             *)
(***************************************************************************)
EXTENDS Integers

CONSTANTS Keys, Values

NoValue == -1   \* what search_map returns for a key it does not find

VARIABLES
  map,     \* the value of each key
  result   \* the key of the last search_map and what it returned

vars == <<map, result>>

TypeOK ==
  /\ map \in [Keys -> Values \union {NoValue}]
  /\ result \in SUBSET [key : Keys, val : Values \union {NoValue}]

Init ==
  /\ map = [k \in Keys |-> NoValue]
  /\ result = {}

InsertMap(k, v) ==
  /\ map' = [map EXCEPT ![k] = v]
  /\ UNCHANGED result

SearchMap(k) ==
  /\ result' = {[key |-> k, val |-> map[k]]}
  /\ UNCHANGED map

Next == \E k \in Keys : SearchMap(k) \/ \E v \in Values : InsertMap(k, v)

Spec == Init /\ [][Next]_vars
=============================================================================
