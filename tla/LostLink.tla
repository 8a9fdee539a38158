------------------------------ MODULE LostLink ------------------------------
(***************************************************************************)
(* The storage protocol when the server goes away, at any point of any     *)
(* operation.  The client does not look at what send and recv return: a    *)
(* fetch without an answer brings no blocks (Fetch...Path), a bucket whose *)
(* write is not acknowledged is reported as "Send WRONG!", and both times  *)
(* it goes on, unless the signal of a broken connection kills it.          *)
(*                                                                         *)
(* An operator named X_Something, before the operator X, is a wrong X: a    *)
(* bug the properties are shown to tell from the code.                      *)
(***************************************************************************)
EXTENDS PathORAM

VARIABLES
  link,    \* "up", "down"
  written  \* history: what insert has left in every layer

linkVars == <<vars, link, written>>

InitLink ==
  /\ Init
  /\ link = "up"
  /\ written = [l \in Layers |-> {}]

Without(l, id) == {e \in written[l] : e.id # id}

(* Write...Node(false, ...), Insert and Update: the steps that change what *)
(* a later read is to find                                                 *)
Creates ==
  /\ ReceiveWrite
  /\ LET n == call.node IN
     written' = [written EXCEPT ![call.layer] =
                   Without(call.layer, n.id) \union {[id |-> n.id, data |-> n.data]}]

Changes(l, id, data) ==
  /\ Modify(l, id, data)
  /\ \E n \in hand[l] :
       written' = [written EXCEPT ![l] =
                     Without(l, n.id) \union {[id |-> id, data |-> data]}]

(* every other step of the client *)
ClientStep ==
  \/ \E k \in {"first", "insert", "search"} : Begin(k)
  \/ \E l \in Layers, i \in Ids : ReadCached(l, i) \/ ReadRemote(l, i)
  \/ ReceiveRead
  \/ \E l \in Layers, i \in Ids, x \in Data :
       \E p \in Leaves(l) \union LeavesOf(SplitDepth[l]) : WriteNew(l, i, x, p)
  \/ \E l \in Layers : WriteBack(l)
  \/ EndUpdate
  \/ \E l \in Layers : \E leaf \in Leaves(l) : Pad(l, leaf)
  \/ ReceivePad
  \/ \E l \in Layers : Remap(l)
  \/ \E l \in Layers : \E d \in 0 .. Depth[l] : Evict(l, d)
  \/ ReceiveAck
  \/ \E l \in Layers : EndEvict(l)

(* What the recv of the client makes of a message nobody answers: no       *)
(* blocks, and an ACK that is none, of which nothing but a line of output  *)
(* depends.                                                                *)
NoBlocks == [type |-> "path", layer |-> wire.layer, blocks |-> {}]
Unheard_OldBuffer ==
  IF wire.type = "fetch"
    THEN [NoBlocks EXCEPT !.blocks =
            UNION {store[<<wire.layer, b>>] : b \in Path(wire.layer, wire.leaf)}]
    ELSE [type |-> "ack"]
Unheard_Retried == IF wire.type = "fetch" THEN NoBlocks ELSE wire
Unheard == IF wire.type = "fetch" THEN NoBlocks ELSE [type |-> "ack"]

RecvNothing ==
  /\ link = "down"
  /\ crashed = {}
  /\ wire.type \in {"fetch", "write"}
  /\ wire' = Unheard
  /\ UNCHANGED <<clientVars, crashed, serverVars, exposed, link, written>>

(* SIGPIPE: a send on a connection the other side has closed *)
Killed ==
  /\ link = "down"
  /\ crashed = {}
  /\ wire.type \in {"fetch", "write"}
  /\ crashed' = {"client"}
  /\ UNCHANGED <<clientVars, wire, serverVars, exposed, link, written>>

(* The server goes, before, between or after its two steps for a message;  *)
(* an answer on its way arrives or is lost.                                *)
ServerDies ==
  /\ link = "up"
  /\ crashed = {}
  /\ link' = "down"
  /\ wire' \in {wire} \union (IF wire.type = "path" THEN {NoBlocks} ELSE {})
  /\ UNCHANGED <<clientVars, crashed, serverVars, exposed, written>>

ClientLink ==
  \/ /\ \/ Creates
        \/ \E l \in Layers, i \in Ids, x \in Data : Changes(l, i, x)
        \/ ClientStep /\ UNCHANGED written
     /\ UNCHANGED link
  \/ RecvNothing

ServerLink == link = "up" /\ Server /\ UNCHANGED <<link, written>>

NextLink == ClientLink \/ ServerLink \/ ServerDies \/ Killed

SpecLink == InitLink /\ [][NextLink]_linkVars

(* Both run on; nobody need begin an operation, no server need die, and no *)
(* signal need reach the client.                                           *)
GoesOn == phase # "idle" /\ ClientLink
FairSpecLink == SpecLink /\ WF_linkVars(GoesOn) /\ WF_linkVars(ServerLink)

(***************************************************************************)
(* Correctness                                                             *)
(***************************************************************************)

(* Nodes written while the server is gone are lost, but none is ever read  *)
(* as it was before: whatever is lost and whenever, a read that returns    *)
(* (ReadleafNode and the others) returns what was last written under that  *)
(* id.  The client fails rather than answer from an old copy.              *)
Stored == INSTANCE BlockStore WITH content <- written
ReadsLastWritten == Stored!Spec

(* Nobody waits for a server that is gone: every operation comes to its    *)
(* end, or to that of the client.                                          *)
OperationsEndOrFail == phase # "idle" ~> phase = "idle" \/ crashed # {}
=============================================================================
