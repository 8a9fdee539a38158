----------------------------- MODULE BlockStore -----------------------------
(***************************************************************************)
(* What the Path ORAM layer promises the map above it: in every layer a    *)
(* store of nodes by id, in which a node can be created, read, and changed *)
(* (and renamed).  Buckets, caches, positions and messages do not show.    *)
(***************************************************************************)
CONSTANTS Layers, Ids, Data

VARIABLES
  content,  \* the nodes of each layer: pairs of an id and its data
  answer    \* what the last read returned

vars == <<content, answer>>

Entry == [id : Ids, data : Data]

TypeOK ==
  /\ content \in [Layers -> SUBSET Entry]
  /\ answer \in SUBSET [layer : Layers, id : Ids, data : Data]

Init ==
  /\ content = [l \in Layers |-> {}]
  /\ answer = {}

IsFree(l, id) == \A e \in content[l] : e.id # id

(* Write...Node(false, ...) *)
Create(l, id, data) ==
  /\ IsFree(l, id)
  /\ content' = [content EXCEPT ![l] = @ \union {[id |-> id, data |-> data]}]
  /\ UNCHANGED answer

(* Read...Node: the node with that id, as last written *)
Read(l) ==
  /\ \E e \in content[l] :
       answer' = {[layer |-> l, id |-> e.id, data |-> e.data]}
  /\ UNCHANGED content

(* Insert or Update on a node read, and Write...Node(true, ...) *)
Update(l, id, data) ==
  /\ \E e \in content[l] :
       /\ id = e.id \/ IsFree(l, id)
       /\ content' = [content EXCEPT ![l] =
                        (@ \ {e}) \union {[id |-> id, data |-> data]}]
  /\ UNCHANGED answer

(* the start of another operation *)
Forget ==
  /\ answer' = {}
  /\ UNCHANGED content

Next ==
  \/ \E l \in Layers, i \in Ids, x \in Data : Create(l, i, x) \/ Update(l, i, x)
  \/ \E l \in Layers : Read(l)
  \/ Forget

Spec == Init /\ [][Next]_vars
=============================================================================
