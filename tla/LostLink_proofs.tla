--------------------------- MODULE LostLink_proofs ---------------------------
(***************************************************************************)
(* No read returns an old copy, whatever is lost when the server goes.     *)
(*                                                                         *)
(* Until it goes, the invariant of PathORAM holds, and what has been       *)
(* written is the content of the live nodes (Up).  Afterwards live nodes   *)
(* may be missing; it remains that what the client holds, or is about to   *)
(* get, is what was last written, and that it holds no two versions of a   *)
(* node in different places (Down).                                        *)
(***************************************************************************)
EXTENDS LostLink, PathORAM_proofs

(* the blocks of an answer the client has not received *)
Coming(l) ==
  IF wire.type = "path" /\ wire.layer = l THEN wire.blocks ELSE {}

AtClient(l) == cache[l] \union hand[l] \union Coming(l)

Remembered(l) ==
  /\ \A e, f \in written[l] : e.id = f.id => e = f
  /\ \A i \in Ids : Known(l, i) <=> \E e \in written[l] : e.id = i
  /\ \A n \in AtClient(l) : Bare(n) \in written[l]
  /\ \A n \in hand[l], m \in cache[l] \union Coming(l) : n.id # m.id
  /\ \A m, n \in hand[l] : m = n

NewIsUnknown == call.op = "write" => ~Known(call.layer, call.node.id)

Up == Inv /\ written = [l \in Layers |-> Content(l)]
Down ==
  /\ TypeInv
  /\ written = [l \in Layers |-> written[l]]
  /\ \A l \in Layers : Remembered(l)
  /\ NewIsUnknown

LinkInv ==
  \/ link = "up" /\ Up
  \/ link = "down" /\ Down

(* a step without a write: what it lets the caller read *)
ReadsWritten ==
  \/ answer' = answer
  \/ answer' = {}
  \/ \E l \in Layers : \E e \in written[l] :
       answer' = {[layer |-> l, id |-> e.id, data |-> e.data]}

-----------------------------------------------------------------------------
LEMMA ReadsAreSteps ==
  ASSUME ReadsWritten, UNCHANGED written
  PROVE  [Stored!Next]_(Stored!vars)
BY DEF ReadsWritten, Stored!Next, Stored!Read, Stored!Forget, Stored!vars

(* The link breaks: what was live is what was written, and what reaches    *)
(* the client afterwards is at most that.                                  *)
LEMMA Breaks ==
  ASSUME Up, ServerDies PROVE Down'
<1>1. /\ UNCHANGED <<phase, kind, done, grown, call, answer, cache, hand, modified,
                     leafList, readCnt, writeview, pmap, crashed, store, readview,
                     recvOdd, taken, exposed, written>>
      /\ wire' = wire \/ (wire.type = "path" /\ wire' = NoBlocks)
  BY DEF ServerDies, clientVars, serverVars
<1>2. TypeInv'
  <2>1. CASE wire' = wire
    BY <1>1, <2>1 DEF Up, Inv, TypeInv, TypeOK, InRange, Lockstep
  <2>2. CASE wire.type = "path" /\ wire' = NoBlocks
    <3>1. wire.layer \in Layers
      BY <2>2 DEF Up, Inv, TypeInv, TypeOK, Message, Silence
    <3>2. wire' \in Message
      BY <2>2, <3>1 DEF NoBlocks, Message
    <3> QED
      BY <1>1, <2>2, <3>2 DEF Up, Inv, TypeInv, TypeOK, InRange, Lockstep, NoBlocks
  <2> QED BY <1>1, <2>1, <2>2
<1>3. ASSUME NEW l \in Layers PROVE Remembered(l)'
  <2>1. /\ Live(l) \subseteq Node
        /\ \A m, n \in Live(l) : m.id = n.id => m = n
        /\ \A n \in Live(l) : Known(l, n.id)
        /\ \A i \in Ids : Known(l, i) => \E n \in Live(l) : n.id = i
    BY LiveNodes DEF LiveFacts, Up
  <2>2. written'[l] = {Bare(n) : n \in Live(l)}
    BY <1>1 DEF Up, Content
  <2>3. Coming(l)' \subseteq InFlight(l)
    BY <1>1 DEF Coming, InFlight, NoBlocks
  <2>4. AtClient(l)' \subseteq Live(l)
    BY <1>1, <2>3 DEF AtClient, Live
  <2>5. \A n \in hand[l], m \in cache[l] \union InFlight(l) : n.id # m.id
    BY PlacesAre DEF Up, Inv, NodeInv, NodesAt, Unique, PlaceFacts
  <2>6. \A i \in Ids : Known(l, i)' <=> Known(l, i)
    BY <1>1 DEF Known
  <2>7. \A e, f \in written'[l] : e.id = f.id => e = f
    BY <2>1, <2>2 DEF Bare
  <2>8. \A i \in Ids : Known(l, i)' <=> \E e \in written'[l] : e.id = i
    <3>1. \A n \in Live(l) : n.id \in Ids /\ Bare(n).id = n.id
      BY <2>1 DEF Node, Bare
    <3>2. \A i \in Ids : Known(l, i) <=> \E n \in Live(l) : Bare(n).id = i
      BY <2>1, <3>1
    <3>3. \A i \in Ids : (\E n \in Live(l) : Bare(n).id = i)
                           <=> \E e \in written'[l] : e.id = i
      BY <2>2
    <3> QED BY <2>6, <3>2, <3>3
  <2>9. \A n \in AtClient(l)' : Bare(n) \in written'[l]
    BY <2>2, <2>4
  <2>10. /\ \A n \in hand'[l], m \in cache'[l] \union Coming(l)' : n.id # m.id
         /\ \A m, n \in hand'[l] : m = n
    BY <1>1, <2>3, <2>5 DEF Up, Inv, OneInHand
  <2> QED BY <2>7, <2>8, <2>9, <2>10 DEF Remembered
<1>4. written' = [l \in Layers |-> written'[l]]
  BY <1>1 DEF Up
<1>5. NewIsUnknown'
  BY <1>1 DEF NewIsUnknown, Up, Inv, Waits, Known
<1> QED BY <1>2, <1>3, <1>4, <1>5 DEF Down

-----------------------------------------------------------------------------
(* The client alone.  A step that brings nothing to the client but what    *)
(* was with it or on its way, and gives no node to insert, forgets nothing. *)
LEMMA NothingNew ==
  ASSUME NEW l \in Layers, Remembered(l), written' = written,
         \A i \in Ids : Known(l, i)' <=> Known(l, i),
         hand'[l] \subseteq hand[l],
         \A n \in cache'[l] \union Coming(l)' :
           \E m \in cache[l] \union Coming(l) : Bare(m) = Bare(n)
  PROVE  Remembered(l)'
<1>1. \A n \in cache'[l] \union Coming(l)' : Bare(n) \in written[l]
  BY DEF Remembered, AtClient
<1>2. \A n \in hand'[l] : Bare(n) \in written[l]
  BY DEF Remembered, AtClient
<1>3. \A n \in AtClient(l)' : Bare(n) \in written'[l]
  BY <1>1, <1>2 DEF AtClient
<1>4. ASSUME NEW n \in hand'[l], NEW m \in cache'[l] \union Coming(l)'
      PROVE  n.id # m.id
  <2>1. PICK k \in cache[l] \union Coming(l) : Bare(k) = Bare(m)
    OBVIOUS
  <2>2. k.id = m.id
    BY <2>1 DEF Bare
  <2> QED BY <2>2 DEF Remembered
<1>5. \A m, n \in hand'[l] : m = n
  BY DEF Remembered
<1>6. /\ \A e, f \in written'[l] : e.id = f.id => e = f
      /\ \A i \in Ids : Known(l, i)' <=> \E e \in written'[l] : e.id = i
  BY DEF Remembered
<1> QED BY <1>3, <1>4, <1>5, <1>6 DEF Remembered

(* ... in particular one that keeps the entries and sends or receives. *)
LEMMA NothingMoves ==
  ASSUME Down, UNCHANGED <<pmap, written, hand>>,
         \A l \in Layers :
           /\ cache'[l] \subseteq cache[l] \union Coming(l)
           /\ Coming(l)' \subseteq Coming(l)
  PROVE  \A l \in Layers : Remembered(l)'
<1> SUFFICES ASSUME NEW l \in Layers PROVE Remembered(l)'
  OBVIOUS
<1>1. \A i \in Ids : Known(l, i)' <=> Known(l, i)
  BY DEF Known
<1>2. \A n \in cache'[l] \union Coming(l)' :
        \E m \in cache[l] \union Coming(l) : Bare(m) = Bare(n)
  OBVIOUS
<1>3. Remembered(l) /\ hand'[l] \subseteq hand[l] /\ written' = written
  BY DEF Down
<1> QED BY <1>1, <1>2, <1>3, NothingNew

LEMMA NothingComes ==
  ASSUME NEW l \in Layers, wire.type # "path" PROVE Coming(l) = {}
BY DEF Coming

LEMMA NothingComesNext ==
  ASSUME NEW l \in Layers, wire'.type # "path" PROVE Coming(l)' = {}
BY DEF Coming

(* What ReceiveRead, ReceivePad and ReceiveWrite put together *)
LEMMA MergesComing ==
  ASSUME Down, wire.type = "path"
  PROVE  /\ call.layer \in Layers
         /\ Merged(call.layer, wire.blocks)
              \subseteq cache[call.layer] \union Coming(call.layer)
         /\ Merged(call.layer, wire.blocks) \in SUBSET NodeIn(call.layer)
<1>1. call.layer = wire.layer
  BY DEF Down, TypeInv, Lockstep
<1>2. Coming(call.layer) = wire.blocks
  BY <1>1 DEF Coming
<1> QED BY <1>2, MergedIn DEF Down, Merged

(* Sending a request, and the steps without a message *)
LEMMA Sends ==
  ASSUME Down, UNCHANGED <<pmap, written, hand>>, wire'.type # "path",
         \A l \in Layers : cache'[l] \subseteq cache[l]
  PROVE  \A l \in Layers : Remembered(l)'
<1>1. \A l \in Layers : Coming(l)' = {}
  BY NothingComesNext
<1> QED BY <1>1, NothingMoves

LEMMA QuietSteps ==
  ASSUME Down, UNCHANGED written,
         \/ \E k \in {"first", "insert", "search"} : Begin(k)
         \/ \E l \in Layers, i \in Ids : ReadRemote(l, i)
         \/ \E l \in Layers, i \in Ids, x \in Data :
              \E p \in Leaves(l) \union LeavesOf(SplitDepth[l]) : WriteNew(l, i, x, p)
         \/ EndUpdate
         \/ \E l \in Layers : \E leaf \in Leaves(l) : Pad(l, leaf)
         \/ \E l \in Layers : \E d \in 0 .. Depth[l] : Evict(l, d)
         \/ ReceiveAck
         \/ \E l \in Layers : EndEvict(l)
  PROVE  (\A l \in Layers : Remembered(l)') /\ ReadsWritten
<1>1. Running => wire.type = "none"
  BY DEF Running, NoCall, Down, TypeInv, Lockstep
<1>2. CASE \E k \in {"first", "insert", "search"} : Begin(k)
  BY <1>1, <1>2, Sends DEF Begin, ReadsWritten
<1>3. CASE \E l \in Layers, i \in Ids : ReadRemote(l, i)
  BY <1>3, Sends DEF ReadRemote, SendFetch, ReadsWritten
<1>4. CASE \E l \in Layers, i \in Ids, x \in Data :
             \E p \in Leaves(l) \union LeavesOf(SplitDepth[l]) : WriteNew(l, i, x, p)
  BY <1>4, Sends DEF WriteNew, SendFetch, ReadsWritten
<1>5. CASE EndUpdate
  BY <1>1, <1>5, Sends DEF EndUpdate, ReadsWritten
<1>6. CASE \E l \in Layers : \E leaf \in Leaves(l) : Pad(l, leaf)
  BY <1>6, Sends DEF Pad, SendFetch, ReadsWritten
<1>7. ASSUME NEW l \in Layers, NEW d \in 0 .. Depth[l], Evict(l, d)
      PROVE  (\A m \in Layers : Remembered(m)') /\ ReadsWritten
  <2>1. PICK b \in Unwritten(l, d) : \E blocks \in SUBSET Intersecting(l, b, d) :
          /\ cache' = [cache EXCEPT ![l] = @ \ blocks]
          /\ wire' = [type |-> "write", layer |-> l, index |-> b, blocks |-> blocks]
    BY <1>7 DEF Evict
  <2>2. wire'.type # "path" /\ \A m \in Layers : cache'[m] \subseteq cache[m]
    BY <2>1 DEF Down, TypeInv, TypeOK
  <2>3. UNCHANGED <<answer, pmap, hand>>
    BY <1>7 DEF Evict
  <2> QED BY <2>2, <2>3, Sends DEF ReadsWritten
<1>8. CASE ReceiveAck
  BY <1>8, Sends DEF ReceiveAck, Silence, ReadsWritten
<1>9. CASE \E l \in Layers : EndEvict(l)
  BY <1>1, <1>9, Sends DEF EndEvict, Evicting, ReadsWritten
<1> QED BY <1>2, <1>3, <1>4, <1>5, <1>6, <1>7, <1>8, <1>9

LEMMA PadGets ==
  ASSUME Down, UNCHANGED written, ReceivePad
  PROVE  (\A l \in Layers : Remembered(l)') /\ ReadsWritten
<1>1. /\ wire.type = "path" /\ wire'.type # "path"
      /\ cache' = [cache EXCEPT ![call.layer] = Merged(call.layer, wire.blocks)]
      /\ UNCHANGED <<answer, hand, pmap>>
  BY DEF ReceivePad, Answers, Silence
<1>2. \A l \in Layers : cache'[l] \subseteq cache[l] \union Coming(l)
  BY <1>1, MergesComing DEF Down, TypeInv, TypeOK
<1>3. \A l \in Layers : Coming(l)' = {}
  BY <1>1, NothingComesNext
<1> QED BY <1>1, <1>2, <1>3, NothingMoves DEF ReadsWritten

(* A node that is delivered, at whatever position, is as it was written. *)
LEMMA DeliverGives ==
  ASSUME Down, UNCHANGED <<written, pmap>>, wire'.type # "path",
         NEW l \in Layers, NEW c \in SUBSET (cache[l] \union Coming(l)),
         NEW o \in c, NEW n \in Node, Bare(n) = Bare(o), Deliver(l, n, c)
  PROVE  (\A m \in Layers : Remembered(m)') /\ ReadsWritten
<1> DEFINE others == c \ Named(c, n.id)
<1>1. /\ answer' = {[layer |-> l, id |-> n.id, data |-> n.data]}
      /\ \/ /\ cache' = [cache EXCEPT ![l] = others]
            /\ hand' = [hand EXCEPT ![l] = {n}]
         \/ /\ cache' = [cache EXCEPT ![l] = others \union {n}]
            /\ UNCHANGED hand
  BY DEF Deliver
<1>2. o.id = n.id /\ o.data = n.data
  BY DEF Bare
<1>3. Bare(o) \in written[l] /\ Remembered(l)
  BY DEF Down, Remembered, AtClient
<1>4. ReadsWritten
  <2>1. Bare(o).id = n.id /\ Bare(o).data = n.data
    BY <1>2 DEF Bare
  <2> QED BY <1>1, <1>3, <2>1 DEF ReadsWritten
<1>5. \A m \in Layers : Coming(m)' = {}
  BY NothingComesNext
<1>6. \A m \in Layers : \A i \in Ids : Known(m, i)' <=> Known(m, i)
  BY DEF Known
<1>7. ASSUME NEW m \in Layers \ {l} PROVE Remembered(m)'
  <2>1. cache'[m] = cache[m] /\ hand'[m] = hand[m]
    BY <1>1 DEF Down, TypeInv, TypeOK
  <2> QED BY <1>5, <1>6, <2>1, NothingNew DEF Down
<1>8. Remembered(l)'
  <2>1. CASE cache' = [cache EXCEPT ![l] = others] /\ hand' = [hand EXCEPT ![l] = {n}]
    <3>1. cache'[l] = others /\ hand'[l] = {n}
      BY <2>1 DEF Down, TypeInv, TypeOK
    <3> HIDE DEF others
    <3>2. AtClient(l)' = others \union {n}
      BY <1>5, <3>1 DEF AtClient
    <3>3. \A m \in others : m.id # n.id /\ Bare(m) \in written[l]
      BY <1>3 DEF others, Named, Remembered, AtClient
    <3>4. \A m \in AtClient(l)' : Bare(m) \in written'[l]
      BY <1>3, <3>2, <3>3
    <3>5. /\ \A e, f \in written'[l] : e.id = f.id => e = f
          /\ \A i \in Ids : Known(l, i)' <=> \E e \in written'[l] : e.id = i
      BY <1>3, <1>6 DEF Remembered
    <3>6. /\ \A m \in hand'[l], k \in cache'[l] \union Coming(l)' : m.id # k.id
          /\ \A m, k \in hand'[l] : m = k
      BY <1>5, <3>1, <3>3
    <3> QED BY <3>4, <3>5, <3>6 DEF Remembered
  <2>2. CASE cache' = [cache EXCEPT ![l] = others \union {n}] /\ UNCHANGED hand
    <3>1. cache'[l] = others \union {n} /\ hand'[l] = hand[l]
      BY <2>2 DEF Down, TypeInv, TypeOK
    <3>2. \A m \in cache'[l] \union Coming(l)' :
            \E k \in cache[l] \union Coming(l) : Bare(k) = Bare(m)
      BY <1>5, <3>1
    <3> QED BY <1>3, <1>6, <3>1, <3>2, NothingNew
  <2> QED BY <1>1, <2>1, <2>2
<1> QED BY <1>4, <1>7, <1>8

LEMMA ReadCachedGives ==
  ASSUME Down, UNCHANGED written, NEW l \in Layers, NEW i \in Ids, ReadCached(l, i)
  PROVE  (\A m \in Layers : Remembered(m)') /\ ReadsWritten
<1>1. wire'.type # "path" /\ UNCHANGED pmap
  BY DEF ReadCached, Descends, Running, NoCall, Down, TypeInv, Lockstep
<1>2. PICK o \in Named(cache[l], i) :
        Deliver(l, [o EXCEPT !.pos = IF l = Mid1 THEN o.pos ELSE pmap[l][i]],
                cache[l])
  BY DEF ReadCached
<1> DEFINE n == [o EXCEPT !.pos = IF l = Mid1 THEN o.pos ELSE pmap[l][i]]
<1>3. o \in cache[l] /\ o \in Node /\ pmap[l][i] \in Nat
  BY LeavesNat DEF Named, ReadCached, Descends, Known, Down, TypeInv, TypeOK
<1>4. n \in Node /\ Bare(n) = Bare(o)
  BY <1>3 DEF Node, Bare
<1>5. Deliver(l, n, cache[l])
  BY <1>2
<1>6. cache[l] \in SUBSET (cache[l] \union Coming(l))
  OBVIOUS
<1> HIDE DEF n
<1> QED BY <1>1, <1>3, <1>4, <1>5, <1>6, DeliverGives

LEMMA ReceiveReadGives ==
  ASSUME Down, UNCHANGED written, ReceiveRead
  PROVE  (\A m \in Layers : Remembered(m)') /\ ReadsWritten
<1>1. /\ wire.type = "path" /\ wire'.type # "path" /\ call.op = "read"
      /\ UNCHANGED pmap
  BY DEF ReceiveRead, Answers, Silence
<1>2. PICK l \in Layers : l = call.layer
  BY <1>1, MergesComing
<1>3. PICK c \in SUBSET NodeIn(l) : c = Merged(l, wire.blocks)
  BY <1>1, <1>2, MergesComing
<1>4. c \in SUBSET (cache[l] \union Coming(l))
  BY <1>1, <1>2, <1>3, MergesComing
<1>5. CASE Named(c, call.id) # {}
  <2>1. PICK o \in Named(c, call.id) :
          Deliver(l, [o EXCEPT !.pos = call.leaf], c)
    BY <1>2, <1>3, <1>5 DEF ReceiveRead
  <2> DEFINE n == [o EXCEPT !.pos = call.leaf]
  <2>2. o \in c /\ o \in Node /\ call.leaf \in Nat
    BY <1>1, <1>2, LeavesNat DEF Named, NodeIn, Down, TypeInv, InRange
  <2>3. n \in Node /\ Bare(n) = Bare(o)
    BY <2>2 DEF Node, Bare
  <2>4. Deliver(l, n, c)
    BY <2>1
  <2> HIDE DEF n
  <2> QED BY <1>1, <1>4, <2>2, <2>3, <2>4, DeliverGives
<1>6. CASE Named(c, call.id) = {}
  <2>1. cache' = [cache EXCEPT ![l] = c] /\ UNCHANGED <<answer, hand>>
    BY <1>2, <1>3, <1>6 DEF ReceiveRead
  <2>2. \A m \in Layers : cache'[m] \subseteq cache[m] \union Coming(m)
    BY <1>4, <2>1 DEF Down, TypeInv, TypeOK
  <2>3. \A m \in Layers : Coming(m)' = {}
    BY <1>1, NothingComesNext
  <2> QED BY <1>1, <2>1, <2>2, <2>3, NothingMoves DEF ReadsWritten
<1> QED BY <1>5, <1>6

LEMMA WriteBackPuts ==
  ASSUME Down, UNCHANGED written, NEW l \in Layers, WriteBack(l)
  PROVE  (\A m \in Layers : Remembered(m)') /\ ReadsWritten
<1>1. /\ wire.type = "none" /\ wire' = wire
      /\ hand' = [hand EXCEPT ![l] = {}]
      /\ UNCHANGED <<answer, pmap>>
  BY DEF WriteBack, Running, NoCall, Down, TypeInv, Lockstep
<1>2. PICK n \in hand[l] :
        cache' = [cache EXCEPT ![l] = (@ \ Named(@, n.id)) \union {n}]
  BY DEF WriteBack
<1>3. \A m \in Layers : Coming(m)' = {}
  BY <1>1, NothingComesNext
<1>4. \A m \in Layers : \A i \in Ids : Known(m, i)' <=> Known(m, i)
  BY <1>1 DEF Known
<1>5. ASSUME NEW m \in Layers \ {l} PROVE Remembered(m)'
  <2>1. cache'[m] = cache[m] /\ hand'[m] = hand[m]
    BY <1>1, <1>2 DEF Down, TypeInv, TypeOK
  <2> QED BY <1>3, <1>4, <2>1, NothingNew DEF Down
<1>6. Remembered(l)'
  <2>1. hand'[l] = {} /\ cache'[l] \subseteq cache[l] \union hand[l]
    BY <1>1, <1>2 DEF Down, TypeInv, TypeOK
  <2>2. AtClient(l)' \subseteq AtClient(l)
    BY <1>3, <2>1 DEF AtClient
  <2>3. \A m \in AtClient(l)' : Bare(m) \in written'[l]
    BY <2>2 DEF Down, Remembered
  <2>4. /\ \A e, f \in written'[l] : e.id = f.id => e = f
        /\ \A i \in Ids : Known(l, i)' <=> \E e \in written'[l] : e.id = i
    BY <1>4 DEF Down, Remembered
  <2> QED BY <2>1, <2>3, <2>4 DEF Remembered
<1> QED BY <1>1, <1>5, <1>6 DEF ReadsWritten

LEMMA RemapStays ==
  ASSUME Down, UNCHANGED written, NEW l \in Layers, Remap(l)
  PROVE  (\A m \in Layers : Remembered(m)') /\ ReadsWritten
<1>1. UNCHANGED <<answer, hand, wire>> /\ wire.type = "none"
  BY DEF Remap, Running, NoCall, Down, TypeInv, Lockstep
<1>2. PICK new \in [IdsOf(cache[l]) \intersect modified[l] -> Leaves(l)] :
        LET nodes == {IF n.id \in DOMAIN new
                        THEN [n EXCEPT !.pos = new[n.id]] ELSE n
                      : n \in cache[l]}
        IN  /\ cache' = [cache EXCEPT ![l] = nodes]
            /\ pmap' = [pmap EXCEPT ![l] = Entries(l, nodes)]
  BY DEF Remap
<1> DEFINE F(n) == IF n.id \in DOMAIN new THEN [n EXCEPT !.pos = new[n.id]] ELSE n
           nodes == {F(n) : n \in cache[l]}
<1>3. /\ cache'[l] = nodes
      /\ pmap'[l] = Entries(l, nodes)
      /\ \A m \in Layers \ {l} : cache'[m] = cache[m] /\ pmap'[m] = pmap[m]
  BY <1>2 DEF Down, TypeInv, TypeOK
<1>4. \A n \in cache[l] : Bare(F(n)) = Bare(n) /\ F(n).pos # NoPos
  <2>1. cache[l] \subseteq Node
    BY DEF Down, TypeInv, TypeOK
  <2> QED
    BY <2>1, LeavesNat DEF Node, Bare, NoPos
<1> HIDE DEF F
<1>5. \A m \in Layers : \A i \in Ids : Known(m, i)' <=> Known(m, i)
  <2> SUFFICES ASSUME NEW i \in Ids PROVE Known(l, i)' <=> Known(l, i)
    BY <1>3 DEF Known
  <2>1. CASE Named(nodes, i) # {}
    <3>1. (CHOOSE n \in nodes : n.id = i) \in nodes
      BY <2>1 DEF Named
    <3> QED BY <1>3, <1>4, <2>1, <3>1 DEF Known, Entries
  <2>2. CASE Named(nodes, i) = {}
    BY <1>3, <2>2 DEF Known, Entries
  <2> QED BY <2>1, <2>2
<1>6. \A m \in Layers : Coming(m)' = {}
  BY <1>1, NothingComesNext
<1>7. \A m \in Layers : \A n \in cache'[m] : \E k \in cache[m] : Bare(k) = Bare(n)
  BY <1>3, <1>4
<1>8. ASSUME NEW m \in Layers PROVE Remembered(m)'
  <2>1. \A n \in cache'[m] \union Coming(m)' :
          \E k \in cache[m] \union Coming(m) : Bare(k) = Bare(n)
    BY <1>6, <1>7
  <2>2. \A i \in Ids : Known(m, i)' <=> Known(m, i)
    BY <1>5
  <2>3. Remembered(m) /\ hand'[m] \subseteq hand[m]
    BY <1>1 DEF Down
  <2> QED BY <2>1, <2>2, <2>3, NothingNew
<1> QED BY <1>1, <1>8 DEF ReadsWritten

-----------------------------------------------------------------------------
(* The two steps that write *)
LEMMA ChangeWrites ==
  ASSUME Down, NEW l \in Layers, NEW id \in Ids, NEW x \in Data, Changes(l, id, x)
  PROVE  /\ \A m \in Layers : Remembered(m)'
         /\ written' = [m \in Layers |-> written'[m]]
         /\ Stored!Update(l, id, x)
<1> DEFINE M(n) == [n EXCEPT !.id = id, !.data = x]
           new == [id |-> id, data |-> x]
<1>1. /\ wire.type = "none" /\ UNCHANGED <<answer, wire>>
  BY DEF Changes, Modify, Running, NoCall, Down, TypeInv, Lockstep
<1>2. PICK n \in hand[l] :
        /\ id = n.id \/ ~Known(l, id)
        /\ pmap' = [pmap EXCEPT ![l] = Renamed(@, n.id, id)]
        /\ \/ /\ hand' = [hand EXCEPT ![l] = {}]
              /\ cache' = [cache EXCEPT ![l] = (@ \ Named(@, id)) \union {M(n)}]
           \/ /\ hand' = [hand EXCEPT ![l] = {M(n)}]
              /\ UNCHANGED cache
  BY DEF Changes, Modify
<1>3. Remembered(l) /\ n \in Node
  BY DEF Down, TypeInv, TypeOK
<1>4. /\ hand[l] = {n} /\ Bare(n) \in written[l] /\ n.id \in Ids
      /\ Bare(n).id = n.id /\ Known(l, n.id)
  BY <1>3 DEF Remembered, AtClient, Node, Bare
<1>5. written' = [written EXCEPT ![l] = Without(l, n.id) \union {new}]
  BY <1>4 DEF Changes
<1> DEFINE m == M(n)
<1>6. m.id = id /\ m.data = x /\ Bare(m) = new
  BY <1>3 DEF Node, Bare
<1>7. /\ m \in cache'[l] \union hand'[l]
      /\ cache'[l] \union hand'[l] \subseteq cache[l] \union {m}
      /\ \/ hand'[l] = {}
         \/ hand'[l] = {m} /\ cache'[l] = cache[l]
      /\ \A k \in Layers \ {l} : cache'[k] = cache[k] /\ hand'[k] = hand[k]
  BY <1>2 DEF Down, TypeInv, TypeOK
<1>8. /\ \A k \in Layers \ {l} : pmap'[k] = pmap[k]
      /\ \A i \in Ids : pmap'[l][i] = IF i = id THEN pmap[l][n.id]
                                      ELSE IF i = n.id THEN NoPos ELSE pmap[l][i]
  BY <1>2 DEF Renamed, Down, TypeInv, TypeOK
<1>9. \A k \in Layers : Coming(k)' = {} /\ Coming(k) = {}
  BY <1>1, NothingComes, NothingComesNext
<1> HIDE DEF m, M
<1>10. /\ written'[l] = Without(l, n.id) \union {new}
       /\ \A k \in Layers \ {l} : written'[k] = written[k]
       /\ written' = [k \in Layers |-> written'[k]]
  BY <1>5 DEF Down
<1>11. /\ Without(l, n.id) = written[l] \ {Bare(n)}
       /\ \A e \in Without(l, n.id) : e.id # id
  <2>1. \A e \in written[l] : e.id = n.id => e = Bare(n)
    BY <1>3, <1>4 DEF Remembered
  <2>2. \A e \in written[l] : e.id = id => Known(l, id)
    BY <1>3 DEF Remembered
  <2> QED BY <1>2, <1>4, <2>1, <2>2 DEF Without
<1>12. ASSUME NEW k \in Layers \ {l} PROVE Remembered(k)'
  <2>1. Remembered(k)
    BY DEF Down
  <2>2. AtClient(k)' = AtClient(k)
    BY <1>7, <1>9 DEF AtClient
  <2>3. \A i \in Ids : Known(k, i)' <=> Known(k, i)
    BY <1>8 DEF Known
  <2>4. /\ \A e, f \in written'[k] : e.id = f.id => e = f
        /\ \A i \in Ids : Known(k, i)' <=> \E e \in written'[k] : e.id = i
        /\ \A j \in AtClient(k)' : Bare(j) \in written'[k]
    BY <1>10, <2>1, <2>2, <2>3 DEF Remembered
  <2>5. /\ \A j \in hand'[k], h \in cache'[k] \union Coming(k)' : j.id # h.id
        /\ \A j, h \in hand'[k] : j = h
    BY <1>7, <1>9, <2>1 DEF Remembered
  <2> QED BY <2>4, <2>5 DEF Remembered
<1>13. Remembered(l)'
  <2>1. \A e, f \in written'[l] : e.id = f.id => e = f
    BY <1>3, <1>10, <1>11 DEF Remembered
  <2>2. ASSUME NEW i \in Ids PROVE Known(l, i)' <=> \E e \in written'[l] : e.id = i
    <3>1. Known(l, i)' <=> i = id \/ (i # n.id /\ Known(l, i))
      BY <1>4, <1>8 DEF Known
    <3>2. (\E e \in written'[l] : e.id = i) <=>
            i = id \/ (i # n.id /\ \E e \in written[l] : e.id = i)
      <4>1. new \in written'[l] /\ new.id = id
        BY <1>10
      <4>2. \A e : e # new => (e \in written'[l] <=> e \in written[l] /\ e.id # n.id)
        BY <1>10 DEF Without
      <4> HIDE DEF new
      <4>3. CASE i = id
        BY <4>1, <4>3
      <4>4. CASE i # id
        BY <4>1, <4>2, <4>4
      <4> QED BY <4>3, <4>4
    <3> QED BY <1>3, <3>1, <3>2 DEF Remembered
  <2>3. ASSUME NEW j \in AtClient(l)' PROVE Bare(j) \in written'[l]
    <3>1. j = m \/ j \in cache[l]
      BY <1>7, <1>9 DEF AtClient
    <3>2. CASE j \in cache[l]
      <4>1. Bare(j) \in written[l] /\ j.id # n.id
        BY <1>3, <3>2 DEF Remembered, AtClient
      <4>2. Bare(j).id = j.id
        BY DEF Bare
      <4> QED BY <1>10, <4>1, <4>2 DEF Without
    <3> QED BY <1>6, <1>10, <3>1, <3>2
  <2>4. ASSUME NEW j \in cache[l], j.id = id PROVE id = n.id
    <3>1. Bare(j) \in written[l] /\ Bare(j).id = id
      BY <1>3, <2>4 DEF Remembered, AtClient, Bare
    <3> QED BY <1>2, <1>3, <3>1 DEF Remembered
  <2>5. \A j \in cache[l] : j.id # n.id
    BY <1>3, <1>4 DEF Remembered
  <2>6. /\ \A j \in hand'[l], h \in cache'[l] \union Coming(l)' : j.id # h.id
        /\ \A j, h \in hand'[l] : j = h
    BY <1>6, <1>7, <1>9, <2>4, <2>5
  <2> QED BY <2>1, <2>2, <2>3, <2>6 DEF Remembered
<1>14. id = Bare(n).id \/ \A e \in written[l] : e.id # id
  BY <1>2, <1>3, <1>4 DEF Remembered
<1>15. written' = [written EXCEPT ![l] = (@ \ {Bare(n)}) \union {new}]
  BY <1>5, <1>11 DEF Down
<1>16. Stored!Update(l, id, x)
  BY <1>1, <1>4, <1>14, <1>15 DEF Stored!Update, Stored!IsFree
<1> QED BY <1>10, <1>12, <1>13, <1>16

LEMMA CreateWrites ==
  ASSUME Down, Creates
  PROVE  /\ \A m \in Layers : Remembered(m)'
         /\ written' = [m \in Layers |-> written'[m]]
         /\ \E l \in Layers, i \in Ids, x \in Data : Stored!Create(l, i, x)
<1>1. /\ wire.type = "path" /\ wire'.type # "path" /\ call.op = "write"
      /\ UNCHANGED <<answer, hand>>
  BY DEF Creates, ReceiveWrite, Answers, Silence
<1>2. PICK l \in Layers : l = call.layer
  BY <1>1, MergesComing
<1>3. PICK n \in NodeIn(l) : n = call.node
  BY <1>1, <1>2 DEF Down, TypeInv, InRange
<1>4. PICK c \in SUBSET (cache[l] \union Coming(l)) : c = Merged(l, wire.blocks)
  BY <1>1, <1>2, MergesComing
<1>5. /\ cache' = [cache EXCEPT ![l] = (c \ Named(c, n.id)) \union {n}]
      /\ pmap' = [pmap EXCEPT ![l][n.id] = n.pos]
      /\ written' = [written EXCEPT ![l] =
                       Without(l, n.id) \union {[id |-> n.id, data |-> n.data]}]
  BY <1>2, <1>3, <1>4 DEF Creates, ReceiveWrite
<1>6. n.id \in Ids /\ n.data \in Data /\ n.pos # NoPos
  BY LeavesNat DEF NodeIn, Node, NoPos
<1>7. Remembered(l) /\ ~Known(l, n.id)
  BY <1>1, <1>2, <1>3 DEF Down, NewIsUnknown
<1>8. \A e \in written[l] : e.id # n.id
  BY <1>6, <1>7 DEF Remembered
<1>9. Without(l, n.id) = written[l]
  BY <1>8 DEF Without
<1>10. Bare(n) = [id |-> n.id, data |-> n.data] /\ Bare(n).id = n.id
  BY DEF Bare
<1>11. /\ written'[l] = written[l] \union {Bare(n)}
       /\ \A k \in Layers \ {l} : written'[k] = written[k]
       /\ written' = [k \in Layers |-> written'[k]]
       /\ written' = [written EXCEPT ![l] =
                        @ \union {[id |-> n.id, data |-> n.data]}]
  BY <1>5, <1>9, <1>10 DEF Down
<1>12. /\ cache'[l] \subseteq cache[l] \union Coming(l) \union {n}
       /\ \A k \in Layers \ {l} : cache'[k] = cache[k] /\ pmap'[k] = pmap[k]
       /\ \A i \in Ids : pmap'[l][i] = IF i = n.id THEN n.pos ELSE pmap[l][i]
  BY <1>5, <1>6 DEF Down, TypeInv, TypeOK
<1>13. \A k \in Layers : Coming(k)' = {}
  BY <1>1, NothingComesNext
<1>14. ASSUME NEW k \in Layers \ {l} PROVE Remembered(k)'
  <2>1. \A i \in Ids : Known(k, i)' <=> Known(k, i)
    BY <1>12 DEF Known
  <2>2. \A j \in cache'[k] \union Coming(k)' :
          \E h \in cache[k] \union Coming(k) : Bare(h) = Bare(j)
    BY <1>12, <1>13
  <2>3. Remembered(k) /\ written'[k] = written[k]
    BY <1>11 DEF Down
  <2>4. /\ \A e, f \in written'[k] : e.id = f.id => e = f
        /\ \A i \in Ids : Known(k, i)' <=> \E e \in written'[k] : e.id = i
    BY <2>1, <2>3 DEF Remembered
  <2>5. AtClient(k)' \subseteq AtClient(k)
    BY <1>1, <1>12, <1>13 DEF AtClient
  <2>6. \A j \in AtClient(k)' : Bare(j) \in written'[k]
    BY <2>3, <2>5 DEF Remembered
  <2>7. /\ \A j \in hand'[k], h \in cache'[k] \union Coming(k)' : j.id # h.id
        /\ \A j, h \in hand'[k] : j = h
    BY <1>1, <1>12, <1>13, <2>3 DEF Remembered
  <2> QED BY <2>4, <2>6, <2>7 DEF Remembered
<1>15. Remembered(l)'
  <2>1. \A e, f \in written'[l] : e.id = f.id => e = f
    BY <1>7, <1>8, <1>10, <1>11 DEF Remembered
  <2>2. ASSUME NEW i \in Ids PROVE Known(l, i)' <=> \E e \in written'[l] : e.id = i
    <3>1. Known(l, i)' <=> i = n.id \/ Known(l, i)
      BY <1>6, <1>12 DEF Known
    <3> QED BY <1>7, <1>10, <1>11, <3>1 DEF Remembered
  <2>3. AtClient(l)' \subseteq AtClient(l) \union {n}
    BY <1>1, <1>12, <1>13 DEF AtClient
  <2>4. \A j \in AtClient(l)' : Bare(j) \in written'[l]
    BY <1>7, <1>11, <2>3 DEF Remembered
  <2>5. \A j \in hand[l] : j.id # n.id
    <3> SUFFICES ASSUME NEW j \in hand[l] PROVE j.id # n.id
      OBVIOUS
    <3>1. Bare(j) \in written[l] /\ Bare(j).id = j.id
      BY <1>7 DEF Remembered, AtClient, Bare
    <3> QED BY <1>8, <3>1
  <2>6. /\ \A j \in hand'[l], h \in cache'[l] \union Coming(l)' : j.id # h.id
        /\ \A j, h \in hand'[l] : j = h
    BY <1>1, <1>7, <1>12, <1>13, <2>5 DEF Remembered
  <2> QED BY <2>1, <2>2, <2>4, <2>6 DEF Remembered
<1>16. Stored!Create(l, n.id, n.data)
  BY <1>1, <1>8, <1>11 DEF Stored!Create, Stored!IsFree
<1> QED BY <1>6, <1>11, <1>14, <1>15, <1>16

-----------------------------------------------------------------------------
(* As long as the link is up, every step is one of PathORAM. *)
LEMMA ClientStepIsStep == ClientStep => Next
BY DEF ClientStep, Client, Next

(* Those that write nothing leave the stored content as it is. *)
LEMMA ContentStays ==
  ASSUME Inv, Inv', ClientStep \/ Server
  PROVE  [l \in Layers |-> Content(l)'] = [l \in Layers |-> Content(l)]
<1>1. UNCHANGED Blocks!vars \/ (\E l \in Layers : Blocks!Read(l)) \/ Blocks!Forget
  <2>1. CASE Server
    BY <2>1, FetchMoves, WriteMoves DEF Server
  <2>2. CASE \E k \in {"first", "insert", "search"} : Begin(k)
    BY <2>2, BeginForgets
  <2>3. CASE \E l \in Layers, i \in Ids : ReadCached(l, i)
    BY <2>3, ReadCachedReads
  <2>4. CASE ReceiveRead
    BY <2>4, ReceiveReadReads
  <2>5. CASE \E l \in Layers : WriteBack(l)
    BY <2>5, WriteBackMoves
  <2>6. CASE ReceivePad
    BY <2>6, PadMoves
  <2>7. CASE \E l \in Layers : Remap(l)
    BY <2>7, RemapMoves
  <2>8. CASE \E l \in Layers : \E d \in 0 .. Depth[l] : Evict(l, d)
    BY <2>8, EvictMoves
  <2>9. CASE \/ \E l \in Layers, i \in Ids : ReadRemote(l, i)
             \/ \E l \in Layers, i \in Ids, x \in Data :
                  \E p \in Leaves(l) \union LeavesOf(SplitDepth[l]) : WriteNew(l, i, x, p)
             \/ EndUpdate
             \/ \E l \in Layers : \E leaf \in Leaves(l) : Pad(l, leaf)
             \/ ReceiveAck
             \/ \E l \in Layers : EndEvict(l)
    BY <2>9, SilentSteps
  <2> QED BY <2>1, <2>2, <2>3, <2>4, <2>5, <2>6, <2>7, <2>8, <2>9 DEF ClientStep
<1>2. CASE UNCHANGED Blocks!vars
  BY <1>2, ContentIs DEF Blocks!vars
<1>3. CASE \E l \in Layers : Blocks!Read(l)
  BY <1>3, ContentIs DEF Blocks!Read
<1>4. CASE Blocks!Forget
  BY <1>4, ContentIs DEF Blocks!Forget
<1> QED BY <1>1, <1>2, <1>3, <1>4

(* The others change it as the history variable says. *)
LEMMA CreateStores ==
  ASSUME SplitsKept', Up, Creates PROVE Up'
<1>1. ReceiveWrite /\ Inv
  BY DEF Creates, Up
<1>2. Inv'
  BY <1>1, InvStep DEF Next, Client
<1>3. call.layer \in Layers /\ call.op = "write"
  BY <1>1, Merging DEF ReceiveWrite, Answers
<1>4. PICK l \in Layers : l = call.layer
  BY <1>3
<1>5. PICK n \in NodeIn(l) : n = call.node
  BY <1>1, <1>3, <1>4 DEF Inv, TypeInv, InRange
<1>6. Blocks!Create(l, n.id, n.data)
  BY <1>1, <1>2, <1>4, <1>5, ReceiveWriteCreates
<1> DEFINE new == [id |-> n.id, data |-> n.data]
           content == [m \in Layers |-> Content(m)]
<1>7. /\ \A e \in content[l] : e.id # n.id
      /\ [m \in Layers |-> Content(m)'] = [content EXCEPT ![l] = @ \union {new}]
  BY <1>6, ContentIs DEF Blocks!Create, Blocks!IsFree
<1>8. written' = [written EXCEPT ![l] = Without(l, n.id) \union {new}]
  BY <1>4, <1>5 DEF Creates
<1>9. Without(l, n.id) = written[l]
  BY <1>7 DEF Up, Without
<1> QED BY <1>2, <1>7, <1>8, <1>9 DEF Up

LEMMA ChangeStores ==
  ASSUME SplitsKept', Up, NEW l \in Layers, NEW id \in Ids, NEW x \in Data,
         Changes(l, id, x)
  PROVE  Up'
<1>1. Modify(l, id, x) /\ Inv
  BY DEF Changes, Up
<1>2. Inv'
  BY <1>1, InvStep DEF Next, Client
<1> DEFINE new == [id |-> id, data |-> x]
           content == [m \in Layers |-> Content(m)]
<1>3. \A n \in hand[l] :
        [m \in Layers |-> Content(m)'] =
          [content EXCEPT ![l] = (@ \ {Bare(n)}) \union {new}]
  BY <1>1, <1>2, ModifyUpdates
<1>4. PICK n \in hand[l] :
        written' = [written EXCEPT ![l] = Without(l, n.id) \union {new}]
  BY DEF Changes
<1>5. Without(l, n.id) = Content(l) \ {Bare(n)}
  <2>1. n \in Live(l) /\ \A m \in Live(l) : m.id = n.id => m = n
    BY <1>1, LiveNodes DEF LiveFacts, Live
  <2>2. written[l] = {Bare(m) : m \in Live(l)}
    BY DEF Up, Content
  <2>3. \A m : Bare(m).id = m.id
    BY DEF Bare
  <2>4. \A m \in Live(l) : Bare(m).id = n.id <=> Bare(m) = Bare(n)
    BY <2>1, <2>3
  <2> QED BY <2>2, <2>4 DEF Without, Content
<1> QED BY <1>2, <1>3, <1>4, <1>5 DEF Up

LEMMA SameStore ==
  ASSUME Up, Up', [Blocks!Next]_(Blocks!vars)
  PROVE  [Stored!Next]_(Stored!vars)
<1> DEFINE content == [l \in Layers |-> {[id |-> n.id, data |-> n.data] : n \in Live(l)}]
<1>1. content = written
  BY ContentIs DEF Up
<1>2. content' = written'
  BY ContentIs DEF Up
<1> HIDE DEF content
<1>3. CASE UNCHANGED Blocks!vars
  BY <1>1, <1>2, <1>3 DEF Blocks!vars, Stored!vars, content
<1>4. ASSUME NEW l \in Layers, NEW i \in Ids, NEW x \in Data, Blocks!Create(l, i, x)
      PROVE  Stored!Create(l, i, x)
  BY <1>1, <1>2, <1>4 DEF Blocks!Create, Stored!Create, Blocks!IsFree, Stored!IsFree, content
<1>5. ASSUME NEW l \in Layers, NEW i \in Ids, NEW x \in Data, Blocks!Update(l, i, x)
      PROVE  Stored!Update(l, i, x)
  BY <1>1, <1>2, <1>5 DEF Blocks!Update, Stored!Update, Blocks!IsFree, Stored!IsFree, content
<1>6. ASSUME NEW l \in Layers, Blocks!Read(l) PROVE Stored!Read(l)
  BY <1>1, <1>2, <1>6 DEF Blocks!Read, Stored!Read, content
<1>7. CASE Blocks!Forget
  BY <1>1, <1>2, <1>7 DEF Blocks!Forget, Stored!Forget, Stored!Next, content
<1> QED BY <1>3, <1>4, <1>5, <1>6, <1>7 DEF Blocks!Next, Stored!Next

LEMMA UpStep ==
  ASSUME SplitsKept', Up, UNCHANGED link,
         \/ Creates
         \/ \E l \in Layers, i \in Ids, x \in Data : Changes(l, i, x)
         \/ (ClientStep \/ Server) /\ UNCHANGED written
  PROVE  Up' /\ [Stored!Next]_(Stored!vars)
<1>1. Next
  BY ClientStepIsStep DEF Creates, Changes, Client, Server, Next
<1>2. Inv /\ Inv'
  BY <1>1, InvStep DEF Up
<1>3. Up'
  BY <1>2, CreateStores, ChangeStores, ContentStays DEF Up
<1>4. [Blocks!Next]_(Blocks!vars)
  BY <1>1, <1>2, StepRefines
<1> QED BY <1>3, <1>4, SameStore

-----------------------------------------------------------------------------
(* Without a server the client goes on as far as its cache allows. *)
LEMMA UnknownStays ==
  ASSUME Down,
         \/ Creates
         \/ \E l \in Layers, i \in Ids, x \in Data : Changes(l, i, x)
         \/ ClientStep
  PROVE  NewIsUnknown'
<1>1. CASE \E l \in Layers, i \in Ids, x \in Data :
             \E p \in Leaves(l) \union LeavesOf(SplitDepth[l]) : WriteNew(l, i, x, p)
  BY <1>1 DEF WriteNew, NewIsUnknown, Known
<1>2. CASE call'.op # "write"
  BY <1>2 DEF NewIsUnknown
<1>3. Running => call.op = "none"
  BY DEF Running, NoCall
<1>4. Creates \/ ReceiveRead \/ ReceivePad \/ ReceiveAck => call'.op # "write"
  BY DEF Creates, ReceiveRead, ReceiveWrite, ReceivePad, ReceiveAck, Answers, NoCall
<1>5. ASSUME NEW l \in Layers, NEW i \in Ids,
             \/ ReadCached(l, i) \/ ReadRemote(l, i)
             \/ \E x \in Data : Changes(l, i, x)
      PROVE  call'.op # "write"
  <2>1. CASE ReadCached(l, i)
    BY <1>3, <2>1 DEF ReadCached, Descends
  <2>2. CASE ReadRemote(l, i)
    BY <2>2 DEF ReadRemote
  <2>3. CASE \E x \in Data : Changes(l, i, x)
    BY <1>3, <2>3 DEF Changes, Modify
  <2> QED BY <1>5, <2>1, <2>2, <2>3
<1>6. ASSUME NEW l \in Layers,
             \/ WriteBack(l) \/ Remap(l) \/ EndEvict(l)
             \/ \E leaf \in Leaves(l) : Pad(l, leaf)
             \/ \E d \in 0 .. Depth[l] : Evict(l, d)
      PROVE  call'.op # "write"
  BY <1>3, <1>6 DEF WriteBack, Remap, EndEvict, Evicting, Pad, Evict
<1>7. EndUpdate \/ (\E k \in {"first", "insert", "search"} : Begin(k)) => call'.op # "write"
  BY <1>3 DEF EndUpdate, Begin
<1> QED BY <1>1, <1>2, <1>4, <1>5, <1>6, <1>7 DEF ClientStep

LEMMA DownStep ==
  ASSUME SplitsKept', Down,
         \/ Creates
         \/ \E l \in Layers, i \in Ids, x \in Data : Changes(l, i, x)
         \/ ClientStep /\ UNCHANGED written
  PROVE  Down' /\ [Stored!Next]_(Stored!vars)
<1>1. TypeInv'
  <2>1. Next
    BY ClientStepIsStep DEF Creates, Changes, Client, Next
  <2> QED BY <2>1, TypeStep DEF Down
<1>2. NewIsUnknown'
  BY UnknownStays
<1>3. CASE Creates
  BY <1>1, <1>2, <1>3, CreateWrites DEF Down, Stored!Next
<1>4. CASE \E l \in Layers, i \in Ids, x \in Data : Changes(l, i, x)
  BY <1>1, <1>2, <1>4, ChangeWrites DEF Down, Stored!Next
<1>5. CASE ClientStep /\ UNCHANGED written
  <2>1. (\A l \in Layers : Remembered(l)') /\ ReadsWritten
    BY <1>5, QuietSteps, ReadCachedGives, ReceiveReadGives, PadGets, WriteBackPuts,
       RemapStays DEF ClientStep
  <2>2. written' = [l \in Layers |-> written'[l]]
    BY <1>5 DEF Down
  <2> QED BY <1>1, <1>2, <1>5, <2>1, <2>2, ReadsAreSteps DEF Down
<1> QED BY <1>3, <1>4, <1>5

LEMMA NothingStep ==
  ASSUME Down, RecvNothing \/ Killed
  PROVE  Down' /\ UNCHANGED Stored!vars
<1>1. UNCHANGED <<phase, kind, done, grown, call, answer, cache, hand, modified,
                  leafList, readCnt, writeview, pmap, store, readview,
                  recvOdd, taken, exposed, written>>
  BY DEF RecvNothing, Killed, clientVars, serverVars
<1>2. \/ wire' = wire /\ crashed' = {"client"}
      \/ wire.type = "fetch" /\ wire' = NoBlocks /\ UNCHANGED crashed
      \/ wire.type = "write" /\ wire' = [type |-> "ack"] /\ UNCHANGED crashed
  BY DEF RecvNothing, Killed, Unheard
<1>3. TypeInv'
  <2>1. CASE wire' = wire /\ crashed' = {"client"}
    BY <1>1, <2>1 DEF Down, TypeInv, TypeOK, InRange, Lockstep
  <2>2. CASE wire.type = "fetch" /\ wire' = NoBlocks /\ UNCHANGED crashed
    <3>1. wire' \in Message
      BY <2>2 DEF NoBlocks, Message, Silence, Down, TypeInv, TypeOK
    <3> QED
      BY <1>1, <2>2, <3>1 DEF Down, TypeInv, TypeOK, InRange, Lockstep, NoBlocks
  <2>3. CASE wire.type = "write" /\ wire' = [type |-> "ack"] /\ UNCHANGED crashed
    BY <1>1, <2>3 DEF Down, TypeInv, TypeOK, InRange, Lockstep, Message
  <2> QED BY <1>2, <2>1, <2>2, <2>3
<1>4. \A l \in Layers : Coming(l)' \subseteq Coming(l)
  BY <1>2 DEF Coming, NoBlocks
<1>5. \A l \in Layers : Remembered(l)'
  BY <1>1, <1>4, NothingMoves
<1>6. NewIsUnknown' /\ written' = [l \in Layers |-> written'[l]]
  BY <1>1 DEF Down, NewIsUnknown, Known
<1> QED BY <1>1, <1>3, <1>5, <1>6 DEF Down, Stored!vars

-----------------------------------------------------------------------------
LEMMA InitLinkInv == InitLink => LinkInv /\ Stored!Init
<1> SUFFICES ASSUME InitLink PROVE LinkInv /\ Stored!Init
  OBVIOUS
<1>1. Inv
  BY InvInit DEF InitLink
<1>2. [l \in Layers |-> Content(l)] = [l \in Layers |-> {}]
  BY InitRefines, ContentIs DEF InitLink, Blocks!Init
<1> QED BY <1>1, <1>2 DEF InitLink, LinkInv, Up, Stored!Init, Init

LEMMA LinkStep ==
  ASSUME SplitsKept', LinkInv, [NextLink]_linkVars
  PROVE  LinkInv' /\ [Stored!Next]_(Stored!vars)
<1>1. CASE UNCHANGED linkVars
  <2>1. UNCHANGED <<vars, link, written, answer>>
    BY <1>1 DEF linkVars, vars, clientVars
  <2>2. CASE link = "up" /\ Up
    <3>1. Inv'
      BY <2>1, <2>2, InvStep DEF Up
    <3>2. \A l \in Layers : Content(l)' = Content(l)
      BY <2>1 DEF vars, clientVars, serverVars, Content, Live, InFlight, InStore,
                  LiveBuckets, Buckets
    <3> QED BY <2>1, <2>2, <3>1, <3>2 DEF LinkInv, Up, Stored!vars
  <2>3. CASE link = "down" /\ Down
    <3>1. TypeInv'
      BY <2>1, <2>3, TypeStep DEF Down
    <3>2. \A l \in Layers : Remembered(l)'
      BY <2>1, <2>3 DEF Down, vars, clientVars, Remembered, AtClient, Coming, Known
    <3> QED
      BY <2>1, <2>3, <3>1, <3>2
      DEF LinkInv, Down, NewIsUnknown, Known, vars, clientVars, Stored!vars
  <2> QED BY <2>2, <2>3 DEF LinkInv
<1>2. CASE link = "up" /\ Up /\ NextLink
  <2>1. CASE ServerDies
    <3>1. Down' /\ link' = "down"
      BY <1>2, <2>1, Breaks DEF ServerDies
    <3>2. UNCHANGED Stored!vars
      BY <2>1 DEF ServerDies, clientVars, Stored!vars
    <3> QED BY <3>1, <3>2 DEF LinkInv
  <2>2. CASE ClientLink \/ ServerLink
    BY <1>2, <2>2, UpStep DEF ClientLink, ServerLink, RecvNothing, LinkInv
  <2>3. ~Killed
    BY <1>2 DEF Killed
  <2> QED BY <1>2, <2>1, <2>2, <2>3 DEF NextLink
<1>3. CASE link = "down" /\ Down /\ NextLink
  <2>1. ~ServerDies /\ ~ServerLink
    BY <1>3 DEF ServerDies, ServerLink
  <2>2. CASE RecvNothing \/ Killed
    <3>1. UNCHANGED link
      BY <2>2 DEF RecvNothing, Killed
    <3> QED BY <1>3, <2>2, <3>1, NothingStep DEF LinkInv
  <2>3. CASE ClientLink /\ ~RecvNothing
    BY <1>3, <2>3, DownStep DEF ClientLink, LinkInv
  <2> QED BY <1>3, <2>1, <2>2, <2>3 DEF NextLink
<1> QED BY <1>1, <1>2, <1>3 DEF LinkInv

(* For every instance: whatever is lost when the server goes away, and      *)
(* whenever it goes, no Read...Node returns anything but what was last      *)
(* written under that id.  Fetch...Path and Write...Path not looking at     *)
(* what recv returned costs the client nodes, never their last version.     *)
THEOREM NoOldCopyIsRead ==
  SpecLink /\ []SplitsKept => ReadsLastWritten
<1>1. LinkInv /\ SplitsKept' /\ [NextLink]_linkVars => LinkInv' /\ [Stored!Next]_(Stored!vars)
  BY LinkStep
<1> QED BY InitLinkInv, <1>1, PTL DEF SpecLink, ReadsLastWritten, Stored!Spec
=============================================================================
