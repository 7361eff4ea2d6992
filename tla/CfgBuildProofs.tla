---------------------------- MODULE CfgBuildProofs ----------------------------
(***************************************************************************)
(* For every listing, all unroll limits and whatever static_analysis finds *)
(* out: both ends of each edge agree at all times (EdgesConsistent), the   *)
(* merged blocks have exactly the runs of the listing (MergeKeepsRuns),    *)
(* unrolling and static_analysis add none (OnlyRuns), and what topo_sort   *)
(* accepts is sorted and free of loops (SortIsSound).                      *)
(*                                                                         *)
(* BuildInv has one part per function that runs.  ChainInv is about blocks:*)
(* each is a chain of instructions that follow one another in the listing, *)
(* and a node leads on where the last instruction of its block does.       *)
(* FollowInv is what copying and cutting leave of that: an edge that is    *)
(* there leads to where the last instruction may.                          *)
(* PlaceInv is about the sort: seen[nd] is exactly the number of edges into*)
(* nd that leave sorted nodes, and a node waits or is sorted once that are *)
(* all of them.                                                            *)
(***************************************************************************)
EXTENDS CfgBuild, ProofBasics, FiniteSetTheorems

Node == Nat \X Nat
EdgeT == Node \X BOOLEAN

\* The records that stand for graphs
IsGraph(g) ==
  LET ns == DOMAIN g.block
  IN  /\ ns \subseteq Node
      /\ g \in [block : [ns -> Seq(Nat)], succ : [ns -> [BOOLEAN -> Node \cup {NoNode}]],
                pred : [ns -> SUBSET EdgeT]]

Sound(g, nds) ==
  /\ IsGraph(g) /\ IsFiniteSet(GraphNodes(g))
  /\ nds \subseteq GraphNodes(g) /\ Consistent(g, nds)

LEMMA NoNodeIsNone == NoNode \notin Node
BY ListingAssumption DEF Node

\* Where an edge leads that is there, and what Consistent says of one node
LEMMA SuccThere ==
  ASSUME NEW g, NEW nds, Sound(g, nds)
  PROVE  \A nd \in nds, b \in BOOLEAN :
           /\ g.succ[nd][b] \in Node \cup {NoNode}
           /\ b \in Outs(g, nd) <=> g.succ[nd][b] # NoNode
           /\ g.succ[nd][b] # NoNode => g.succ[nd][b] \in nds
           /\ g.succ[nd][b] # NoNode => <<nd, b>> \in g.pred[g.succ[nd][b]]
BY DEF Sound, IsGraph, Consistent, Succs, Outs, GraphNodes

LEMMA ConsistentIff ==
  ASSUME NEW g, IsGraph(g), NEW nds, nds \subseteq GraphNodes(g)
  PROVE  Consistent(g, nds) <=>
           /\ \A nd \in nds, b \in BOOLEAN : g.succ[nd][b] \in nds \cup {NoNode}
           /\ \A nd \in nds : g.pred[nd] \subseteq nds \X BOOLEAN
           /\ \A nd \in nds, m \in nds, b \in BOOLEAN :
                <<m, b>> \in g.pred[nd] <=> g.succ[m][b] = nd
<1>1. \A nd \in nds : Succs(g, nd) \subseteq nds
        <=> \A b \in BOOLEAN : g.succ[nd][b] \in nds \cup {NoNode}
  BY NoNodeIsNone DEF IsGraph, GraphNodes, Succs, Outs
<1>2. ASSUME NEW nd \in nds
      PROVE  g.pred[nd] = {p \in nds \X BOOLEAN : g.succ[p[1]][p[2]] = nd}
        <=> /\ g.pred[nd] \subseteq nds \X BOOLEAN
            /\ \A m \in nds, b \in BOOLEAN : <<m, b>> \in g.pred[nd] <=> g.succ[m][b] = nd
  OBVIOUS
<1>3. QED
  BY <1>1, <1>2 DEF Consistent

-----------------------------------------------------------------------------
(* What the methods of a node make of a sound graph                        *)

\* h is g with an edge more; h is g with an edge less
Linked(g, h, nds, nd, b, to) ==
  /\ Sound(h, nds) /\ GraphNodes(h) = GraphNodes(g) /\ h.block = g.block
  /\ h.succ = [g.succ EXCEPT ![nd] = [g.succ[nd] EXCEPT ![b] = to]]
  /\ h.pred = [g.pred EXCEPT ![to] = @ \cup {<<nd, b>>}]

Unlinks(g, h, nds, nd, b) ==
  /\ Sound(h, nds) /\ GraphNodes(h) = GraphNodes(g) /\ h.block = g.block
  /\ h.succ = [g.succ EXCEPT ![nd] = [g.succ[nd] EXCEPT ![b] = NoNode]]
  /\ h.pred = [g.pred EXCEPT ![g.succ[nd][b]] = @ \ {<<nd, b>>}]

LEMMA LinkSound ==
  ASSUME NEW g, NEW nds, Sound(g, nds), NEW nd \in nds, NEW b \in BOOLEAN, NEW to \in nds,
         g.succ[nd][b] = NoNode
  PROVE  Linked(g, Link(g, nd, b, to), nds, nd, b, to)
<1> DEFINE h == Link(g, nd, b, to)
<1>1. /\ h.block = g.block
      /\ h.succ = [g.succ EXCEPT ![nd][b] = to]
      /\ h.pred = [g.pred EXCEPT ![to] = @ \cup {<<nd, b>>}]
      /\ h = [block |-> h.block, succ |-> h.succ, pred |-> h.pred]
  <2>1. h = [g EXCEPT !.succ[nd][b] = to, !.pred[to] = @ \cup {<<nd, b>>}]
    BY DEF Link
  <2> HIDE DEF h
  <2>2. g \in [block : [DOMAIN g.block -> Seq(Nat)],
                succ : [DOMAIN g.block -> [BOOLEAN -> Node \cup {NoNode}]],
                pred : [DOMAIN g.block -> SUBSET EdgeT]]
    BY DEF Sound, IsGraph
  <2>3. h.block = g.block
    BY <2>1, <2>2
  <2>4. h.succ = [g.succ EXCEPT ![nd][b] = to]
    BY <2>1, <2>2
  <2>5. h.pred = [g.pred EXCEPT ![to] = @ \cup {<<nd, b>>}]
    BY <2>1, <2>2
  <2>6. h = [block |-> h.block, succ |-> h.succ, pred |-> h.pred]
    BY <2>1, <2>2
  <2>7. QED
    BY <2>3, <2>4, <2>5, <2>6
<1> HIDE DEF h
<1>2. nd \in Node /\ to \in Node /\ nds \subseteq DOMAIN g.block
  BY DEF Sound, IsGraph, GraphNodes
<1>3. IsGraph(h) /\ GraphNodes(h) = GraphNodes(g)
  <2>1. h.succ \in [DOMAIN g.block -> [BOOLEAN -> Node \cup {NoNode}]]
    BY <1>1, <1>2 DEF Sound, IsGraph
  <2>2. h.pred \in [DOMAIN g.block -> SUBSET EdgeT]
    <3>1. g.pred \in [DOMAIN g.block -> SUBSET EdgeT]
      BY DEF Sound, IsGraph
    <3>2. <<nd, b>> \in EdgeT
      BY <1>2 DEF EdgeT
    <3>3. QED
      BY <3>1, <3>2, <1>1, <1>2
  <2>3. QED
    BY <1>1, <2>1, <2>2 DEF Sound, IsGraph, GraphNodes
<1>4. Consistent(h, nds)
  <2>1. /\ \A m \in nds, c \in BOOLEAN : g.succ[m][c] \in nds \cup {NoNode}
        /\ \A m \in nds : g.pred[m] \subseteq nds \X BOOLEAN
        /\ \A n \in nds, m \in nds, c \in BOOLEAN : <<m, c>> \in g.pred[n] <=> g.succ[m][c] = n
    BY ConsistentIff DEF Sound
  <2>2. \A m \in nds, c \in BOOLEAN :
           h.succ[m][c] = IF m = nd /\ c = b THEN to ELSE g.succ[m][c]
    BY <1>1, <1>2 DEF Sound, IsGraph
  <2>3. \A m \in nds : h.pred[m] = IF m = to THEN g.pred[m] \cup {<<nd, b>>} ELSE g.pred[m]
    BY <1>1, <1>2 DEF Sound, IsGraph
  <2>4. \A m \in nds, c \in BOOLEAN : h.succ[m][c] \in nds \cup {NoNode}
    BY <2>1, <2>2
  <2>5. \A m \in nds : h.pred[m] \subseteq nds \X BOOLEAN
    <3>1. <<nd, b>> \in nds \X BOOLEAN
      OBVIOUS
    <3>2. QED
      <4>1. \A m \in nds : g.pred[m] \subseteq nds \X BOOLEAN
        BY <2>1, Zenon
      <4>2. QED
        BY <3>1, <4>1, <2>3, ZenonT(40)
  <2>6. ASSUME NEW n \in nds, NEW m \in nds, NEW c \in BOOLEAN
        PROVE  <<m, c>> \in h.pred[n] <=> h.succ[m][c] = n
    <3>1. CASE m = nd /\ c = b
      <4>1. <<m, c>> \notin g.pred[n]
        BY <2>1, <3>1, <1>2, NoNodeIsNone DEF Sound, IsGraph
      <4>2. QED
        BY <4>1, <2>2, <2>3, <3>1
    <3>2. CASE ~(m = nd /\ c = b)
      <4>1. <<m, c>> # <<nd, b>>
        BY <3>2
      <4>2. <<m, c>> \in h.pred[n] <=> <<m, c>> \in g.pred[n]
        BY <4>1, <2>3
      <4>3. h.succ[m][c] = g.succ[m][c]
        BY <3>2, <2>2
      <4>4. QED
        BY <4>2, <4>3, <2>1
    <3>3. QED
      BY <3>1, <3>2
  <2>7. QED
    BY <1>3, <2>4, <2>5, <2>6, ConsistentIff DEF Sound
<1>5. QED
  BY <1>1, <1>3, <1>4 DEF Sound, Linked, h

LEMMA UnlinkSound ==
  ASSUME NEW g, NEW nds, Sound(g, nds), NEW nd \in nds, NEW b \in BOOLEAN,
         g.succ[nd][b] # NoNode
  PROVE  Unlinks(g, Unlink(g, nd, b), nds, nd, b)
<1> DEFINE h == Unlink(g, nd, b)
           to == g.succ[nd][b]
<1>1. /\ h.block = g.block
      /\ h.succ = [g.succ EXCEPT ![nd][b] = NoNode]
      /\ h.pred = [g.pred EXCEPT ![to] = @ \ {<<nd, b>>}]
      /\ h = [block |-> h.block, succ |-> h.succ, pred |-> h.pred]
  <2>1. h = [g EXCEPT !.succ[nd][b] = NoNode, !.pred[to] = @ \ {<<nd, b>>}]
    BY DEF Unlink
  <2> HIDE DEF h
  <2>2. g \in [block : [DOMAIN g.block -> Seq(Nat)],
                succ : [DOMAIN g.block -> [BOOLEAN -> Node \cup {NoNode}]],
                pred : [DOMAIN g.block -> SUBSET EdgeT]]
    BY DEF Sound, IsGraph
  <2>3. h.block = g.block
    BY <2>1, <2>2
  <2>4. h.succ = [g.succ EXCEPT ![nd][b] = NoNode]
    BY <2>1, <2>2
  <2>5. h.pred = [g.pred EXCEPT ![to] = @ \ {<<nd, b>>}]
    BY <2>1, <2>2
  <2>6. h = [block |-> h.block, succ |-> h.succ, pred |-> h.pred]
    BY <2>1, <2>2
  <2>7. QED
    BY <2>3, <2>4, <2>5, <2>6
<1>a. to \in nds
  <2>1. \A n \in nds, c \in BOOLEAN : g.succ[n][c] # NoNode => g.succ[n][c] \in nds
    BY SuccThere, ZenonT(40)
  <2>2. QED
    BY <2>1
<1> HIDE DEF h
<1>2. nd \in Node /\ to \in Node /\ nds \subseteq DOMAIN g.block
  BY <1>a DEF Sound, IsGraph, GraphNodes
<1>3. IsGraph(h) /\ GraphNodes(h) = GraphNodes(g)
  <2>1. h.succ \in [DOMAIN g.block -> [BOOLEAN -> Node \cup {NoNode}]]
    BY <1>1, <1>2 DEF Sound, IsGraph
  <2>2. h.pred \in [DOMAIN g.block -> SUBSET EdgeT]
    <3>1. g.pred \in [DOMAIN g.block -> SUBSET EdgeT]
      BY DEF Sound, IsGraph
    <3>2. <<nd, b>> \in EdgeT
      BY <1>2 DEF EdgeT
    <3>3. QED
      BY <3>1, <3>2, <1>1, <1>2, ZenonT(40)
  <2>3. QED
    BY <1>1, <2>1, <2>2 DEF Sound, IsGraph, GraphNodes
<1>4. Consistent(h, nds)
  <2>1. /\ \A m \in nds, c \in BOOLEAN : g.succ[m][c] \in nds \cup {NoNode}
        /\ \A m \in nds : g.pred[m] \subseteq nds \X BOOLEAN
        /\ \A n \in nds, m \in nds, c \in BOOLEAN : <<m, c>> \in g.pred[n] <=> g.succ[m][c] = n
    BY ConsistentIff DEF Sound
  <2>2. \A m \in nds, c \in BOOLEAN :
           h.succ[m][c] = IF m = nd /\ c = b THEN NoNode ELSE g.succ[m][c]
    BY <1>1, <1>2 DEF Sound, IsGraph
  <2>3. \A m \in nds : h.pred[m] = IF m = to THEN g.pred[m] \ {<<nd, b>>} ELSE g.pred[m]
    BY <1>1, <1>2 DEF Sound, IsGraph
  <2>4. \A m \in nds, c \in BOOLEAN : h.succ[m][c] \in nds \cup {NoNode}
    BY <2>1, <2>2
  <2>5. \A m \in nds : h.pred[m] \subseteq nds \X BOOLEAN
    <3>1. <<nd, b>> \in nds \X BOOLEAN
      OBVIOUS
    <3>2. QED
      <4>1. \A m \in nds : g.pred[m] \subseteq nds \X BOOLEAN
        BY <2>1, Zenon
      <4>2. QED
        BY <3>1, <4>1, <2>3
  <2>6. ASSUME NEW n \in nds, NEW m \in nds, NEW c \in BOOLEAN
        PROVE  <<m, c>> \in h.pred[n] <=> h.succ[m][c] = n
    <3>1. CASE m = nd /\ c = b
      <4>1. <<m, c>> \in g.pred[n] <=> n = to
        BY <2>1, <3>1
      <4>2. h.succ[m][c] # n
        BY <2>2, <3>1, <1>2, NoNodeIsNone DEF Sound, IsGraph
      <4>3. QED
        BY <4>1, <4>2, <2>3, <3>1
    <3>2. CASE ~(m = nd /\ c = b)
      <4>1. <<m, c>> # <<nd, b>>
        BY <3>2
      <4>2. <<m, c>> \in h.pred[n] <=> <<m, c>> \in g.pred[n]
        BY <4>1, <2>3
      <4>3. h.succ[m][c] = g.succ[m][c]
        BY <3>2, <2>2
      <4>4. QED
        BY <4>2, <4>3, <2>1
    <3>3. QED
      BY <3>1, <3>2
  <2>7. QED
    BY <1>3, <2>4, <2>5, <2>6, ConsistentIff DEF Sound
<1>5. QED
  BY <1>1, <1>3, <1>4 DEF Sound, Unlinks, h

\* A node without edges may stay one of the nodes or not.
LEMMA UnlinkAllSound ==
  ASSUME NEW g, NEW nds, Sound(g, nds), NEW nd \in nds
  PROVE  /\ Sound(UnlinkAll(g, nd), nds)
         /\ Sound(UnlinkAll(g, nd), nds \ {nd})
         /\ GraphNodes(UnlinkAll(g, nd)) = GraphNodes(g)
         /\ UnlinkAll(g, nd).block = g.block
         /\ \A m \in nds, b \in BOOLEAN :
              UnlinkAll(g, nd).succ[m][b] =
                IF m = nd \/ g.succ[m][b] = nd THEN NoNode ELSE g.succ[m][b]
<1> DEFINE h == UnlinkAll(g, nd)
<1>1. /\ h.block = g.block
      /\ h.succ = [m \in GraphNodes(g) |->
                     [b \in BOOLEAN |-> IF m = nd \/ <<m, b>> \in g.pred[nd]
                                        THEN NoNode ELSE g.succ[m][b]]]
      /\ h.pred = [m \in GraphNodes(g) |-> IF m = nd THEN {} ELSE g.pred[m] \ ({nd} \X BOOLEAN)]
      /\ h = [block |-> h.block, succ |-> h.succ, pred |-> h.pred]
  BY DEF UnlinkAll
<1> HIDE DEF h
<1>2. nd \in Node /\ nds \subseteq DOMAIN g.block /\ nds \subseteq Node
  BY DEF Sound, IsGraph, GraphNodes
<1>3. IsGraph(h) /\ GraphNodes(h) = GraphNodes(g)
  <2>1. h.succ \in [DOMAIN g.block -> [BOOLEAN -> Node \cup {NoNode}]]
    BY <1>1, <1>2 DEF Sound, IsGraph, GraphNodes
  <2>2. h.pred \in [DOMAIN g.block -> SUBSET EdgeT]
    BY <1>1, <1>2 DEF Sound, IsGraph, EdgeT, GraphNodes
  <2>3. QED
    BY <1>1, <2>1, <2>2 DEF Sound, IsGraph, GraphNodes
<1>4. /\ \A m \in nds, c \in BOOLEAN : g.succ[m][c] \in nds \cup {NoNode}
      /\ \A m \in nds : g.pred[m] \subseteq nds \X BOOLEAN
      /\ \A n \in nds, m \in nds, c \in BOOLEAN : <<m, c>> \in g.pred[n] <=> g.succ[m][c] = n
  BY ConsistentIff DEF Sound
<1>5. \A m \in nds, b \in BOOLEAN :
         h.succ[m][b] = IF m = nd \/ g.succ[m][b] = nd THEN NoNode ELSE g.succ[m][b]
  <2>1. ASSUME NEW m \in nds, NEW b \in BOOLEAN
        PROVE  h.succ[m][b] = IF m = nd \/ <<m, b>> \in g.pred[nd] THEN NoNode ELSE g.succ[m][b]
    BY <1>1, <1>2 DEF GraphNodes
  <2>2. \A m \in nds, b \in BOOLEAN : <<m, b>> \in g.pred[nd] <=> g.succ[m][b] = nd
    BY <1>4, Zenon
  <2>3. QED
    BY <2>1, <2>2, Zenon
<1>6. \A m \in nds : h.pred[m] = IF m = nd THEN {} ELSE g.pred[m] \ ({nd} \X BOOLEAN)
  BY <1>1, <1>2 DEF GraphNodes
<1>7. \A m \in nds, c \in BOOLEAN : h.succ[m][c] \in (nds \ {nd}) \cup {NoNode}
  BY <1>4, <1>5
<1>8. \A m \in nds : h.pred[m] \subseteq (nds \ {nd}) \X BOOLEAN
  <2>1. \A m \in nds : g.pred[m] \ ({nd} \X BOOLEAN) \subseteq (nds \ {nd}) \X BOOLEAN
    BY <1>4
  <2>2. QED
    BY <2>1, <1>6
<1>9. ASSUME NEW n \in nds, NEW m \in nds, NEW c \in BOOLEAN
      PROVE  <<m, c>> \in h.pred[n] <=> h.succ[m][c] = n
  <2>1. n # NoNode
    BY <1>2, NoNodeIsNone
  <2>2. <<m, c>> \in {nd} \X BOOLEAN <=> m = nd
    OBVIOUS
  <2>3. <<m, c>> \in h.pred[n] <=> n # nd /\ m # nd /\ <<m, c>> \in g.pred[n]
    BY <2>2, <1>6
  <2>4. <<m, c>> \in g.pred[n] <=> g.succ[m][c] = n
    BY <1>4
  <2>5. QED
    BY <2>1, <2>3, <2>4, <1>5
<1>10. Consistent(h, nds)
  BY <1>2, <1>3, <1>7, <1>8, <1>9, ConsistentIff DEF GraphNodes
<1>11. Consistent(h, nds \ {nd})
  <2>1. nds \ {nd} \subseteq GraphNodes(h)
    BY <1>2, <1>3 DEF GraphNodes
  <2>2. QED
    BY <2>1, <1>3, <1>7, <1>8, <1>9, ConsistentIff
<1>12. QED
  BY <1>1, <1>2, <1>3, <1>5, <1>10, <1>11 DEF Sound, h, GraphNodes

\* old has no other predecessor, nd no other successor.
Merged(g, h, nds, nd, old) ==
  /\ Sound(h, nds \ {old}) /\ GraphNodes(h) = GraphNodes(g)
  /\ h.block = [g.block EXCEPT ![nd] = @ \o g.block[old], ![old] = <<>>]
  /\ h.succ = [g.succ EXCEPT ![nd] = g.succ[old]]

LEMMA MergeSound ==
  ASSUME NEW g, NEW nds, Sound(g, nds), NEW nd \in nds, NEW old \in nds, nd # old,
         \A p \in g.pred[old] : p[1] = nd,
         \A b \in BOOLEAN : g.succ[nd][b] \in {old, NoNode}
  PROVE  Merged(g, MergeNode(g, nd, old), nds, nd, old)
<1> DEFINE h == MergeNode(g, nd, old)
           New(m) == {IF p[1] = old /\ m \in Succs(g, old) THEN <<nd, p[2]>> ELSE p : p \in g.pred[m]}
<1>1. /\ h.block = [g.block EXCEPT ![nd] = @ \o g.block[old], ![old] = <<>>]
      /\ h.succ = [g.succ EXCEPT ![nd] = g.succ[old]]
      /\ h.pred = [m \in GraphNodes(g) |-> New(m)]
      /\ h = [block |-> h.block, succ |-> h.succ, pred |-> h.pred]
  BY DEF MergeNode
<1> HIDE DEF h
<1>2. /\ nds \subseteq DOMAIN g.block /\ nds \subseteq Node /\ GraphNodes(g) = DOMAIN g.block
      /\ g.block \in [DOMAIN g.block -> Seq(Nat)]
      /\ g.succ \in [DOMAIN g.block -> [BOOLEAN -> Node \cup {NoNode}]]
      /\ g.pred \in [DOMAIN g.block -> SUBSET EdgeT]
  BY DEF Sound, IsGraph, GraphNodes
<1>3. /\ \A m \in nds, c \in BOOLEAN : g.succ[m][c] \in nds \cup {NoNode}
      /\ \A m \in nds : g.pred[m] \subseteq nds \X BOOLEAN
      /\ \A n \in nds, m \in nds, c \in BOOLEAN : <<m, c>> \in g.pred[n] <=> g.succ[m][c] = n
  BY ConsistentIff DEF Sound
<1>4. \A m \in DOMAIN g.block : h.pred[m] = New(m) /\ New(m) \subseteq EdgeT
  <2>1. ASSUME NEW m \in DOMAIN g.block, NEW p \in g.pred[m]
        PROVE  <<nd, p[2]>> \in EdgeT /\ p \in EdgeT
    BY <1>2 DEF EdgeT
  <2>2. QED
    BY <2>1, <1>1, <1>2
<1>5. IsGraph(h) /\ GraphNodes(h) = GraphNodes(g)
  <2>1. h.block \in [DOMAIN g.block -> Seq(Nat)]
    <3>1. g.block[nd] \in Seq(Nat) /\ g.block[old] \in Seq(Nat) /\ <<>> \in Seq(Nat)
      BY <1>2
    <3> DEFINE v == g.block[nd] \o g.block[old]
    <3>2. v \in Seq(Nat)
      BY <3>1
    <3>3. h.block = [g.block EXCEPT ![nd] = v, ![old] = <<>>]
      BY <1>1
    <3> HIDE DEF v
    <3>4. QED
      BY <1>2, <3>1, <3>2, <3>3
  <2>2. h.succ \in [DOMAIN g.block -> [BOOLEAN -> Node \cup {NoNode}]]
    BY <1>1, <1>2
  <2>3. h.pred \in [DOMAIN g.block -> SUBSET EdgeT]
    BY <1>1, <1>2, <1>4
  <2>4. DOMAIN h.block = DOMAIN g.block
    BY <1>1
  <2>5. DOMAIN g.block \subseteq Node
    BY DEF Sound, IsGraph
  <2>6. QED
    BY <1>1, <2>1, <2>2, <2>3, <2>4, <2>5 DEF IsGraph, GraphNodes
<1>6. \A m \in nds, c \in BOOLEAN : h.succ[m][c] = IF m = nd THEN g.succ[old][c] ELSE g.succ[m][c]
  BY <1>1, <1>2
<1>7. \A c \in BOOLEAN : g.succ[old][c] # old
  <2>1. ASSUME NEW c \in BOOLEAN, g.succ[old][c] = old PROVE FALSE
    <3>1. <<old, c>> \in g.pred[old]
      BY <1>3, <2>1, Zenon
    <3>2. QED
      BY <3>1
  <2>2. QED
    BY <2>1
<1>8. ASSUME NEW m \in nds \ {old}, NEW c \in BOOLEAN, m # nd PROVE g.succ[m][c] # old
  <2>1. SUFFICES ASSUME g.succ[m][c] = old PROVE FALSE
    OBVIOUS
  <2>2. <<m, c>> \in g.pred[old]
    BY <1>3, <2>1, Zenon
  <2>3. QED
    BY <2>2, <1>8
<1>9. \A m \in nds \ {old}, c \in BOOLEAN : h.succ[m][c] \in (nds \ {old}) \cup {NoNode}
  <2>1. ASSUME NEW m \in nds \ {old}, NEW c \in BOOLEAN
        PROVE  h.succ[m][c] \in (nds \ {old}) \cup {NoNode}
    <3>1. g.succ[m][c] \in nds \cup {NoNode} /\ g.succ[old][c] \in nds \cup {NoNode}
      BY <1>3, Zenon
    <3>2. g.succ[old][c] # old /\ (m # nd => g.succ[m][c] # old)
      BY <1>7, <1>8, Zenon
    <3>3. h.succ[m][c] = IF m = nd THEN g.succ[old][c] ELSE g.succ[m][c]
      BY <1>6, Zenon
    <3>4. QED
      BY <3>1, <3>2, <3>3
  <2>2. QED
    BY <2>1
<1>10. ASSUME NEW n \in nds \ {old}, NEW m, NEW c
       PROVE  <<m, c>> \in New(n) <=> \/ m = nd /\ <<old, c>> \in g.pred[n]
                                      \/ m # old /\ <<m, c>> \in g.pred[n]
  <2>1. \A p \in g.pred[n] : p \in nds \X BOOLEAN
    BY <1>3
  <2>2. \A p \in g.pred[n] : p[1] = old => n \in Succs(g, old)
    <3>1. ASSUME NEW p \in g.pred[n], p[1] = old PROVE n \in Succs(g, old)
      <4>1. p[2] \in BOOLEAN /\ p = <<old, p[2]>>
        BY <2>1, <3>1
      <4>2. g.succ[old][p[2]] = n
        <5>1. \A d \in BOOLEAN : <<old, d>> \in g.pred[n] <=> g.succ[old][d] = n
          BY <1>3, Zenon
        <5>2. QED
          BY <4>1, <5>1, Zenon
      <4>3. n # NoNode
        BY <1>2, NoNodeIsNone
      <4>4. QED
        BY <4>1, <4>2, <4>3 DEF Succs, Outs
    <3>2. QED
      BY <3>1
  <2>3. New(n) = {IF p[1] = old THEN <<nd, p[2]>> ELSE p : p \in g.pred[n]}
    BY <2>2
  <2>4. ASSUME <<m, c>> \in New(n)
        PROVE  \/ m = nd /\ <<old, c>> \in g.pred[n]
               \/ m # old /\ <<m, c>> \in g.pred[n]
    <3>1. PICK p \in g.pred[n] : <<m, c>> = IF p[1] = old THEN <<nd, p[2]>> ELSE p
      BY <2>3, <2>4
    <3>2. p = <<p[1], p[2]>>
      BY <2>1
    <3>3. CASE p[1] = old
      <4>1. m = nd /\ c = p[2]
        BY <3>1, <3>3
      <4>2. QED
        BY <4>1, <3>2, <3>3
    <3>4. CASE p[1] # old
      BY <3>1, <3>4
    <3>5. QED
      BY <3>3, <3>4
  <2>5. ASSUME m = nd, <<old, c>> \in g.pred[n] PROVE <<m, c>> \in New(n)
    <3>1. <<old, c>>[1] = old /\ <<old, c>>[2] = c
      OBVIOUS
    <3>2. QED
      BY <2>3, <2>5, <3>1
  <2>6. ASSUME m # old, <<m, c>> \in g.pred[n] PROVE <<m, c>> \in New(n)
    <3>1. <<m, c>>[1] # old
      BY <2>6
    <3>2. QED
      BY <2>3, <2>6, <3>1
  <2> HIDE DEF New
  <2>7. QED
    BY <2>4, <2>5, <2>6
<1>11. \A n \in nds \ {old} : h.pred[n] \subseteq (nds \ {old}) \X BOOLEAN
  <2>1. ASSUME NEW n \in nds \ {old}, NEW p \in h.pred[n] PROVE p \in (nds \ {old}) \X BOOLEAN
    <3>1. h.pred[n] = New(n) /\ n \in DOMAIN g.block
      BY <1>2, <1>4
    <3>2. PICK q \in g.pred[n] : p = IF q[1] = old /\ n \in Succs(g, old) THEN <<nd, q[2]>> ELSE q
      BY <3>1
    <3>3. q \in nds \X BOOLEAN
      BY <1>3
    <3>4. p = <<p[1], p[2]>> /\ p[1] \in nds /\ p[2] \in BOOLEAN
      BY <3>2, <3>3
    <3>5. p[1] # old
      <4>1. <<p[1], p[2]>> \in New(n)
        BY <3>1, <3>4
      <4>2. QED
        BY <4>1, <1>10
    <3>6. QED
      BY <3>4, <3>5
  <2>2. QED
    BY <2>1
<1>12. ASSUME NEW n \in nds \ {old}, NEW m \in nds \ {old}, NEW c \in BOOLEAN
       PROVE  <<m, c>> \in h.pred[n] <=> h.succ[m][c] = n
  <2>1. <<m, c>> \in h.pred[n] <=> (m = nd /\ <<old, c>> \in g.pred[n]) \/ <<m, c>> \in g.pred[n]
    <3>1. h.pred[n] = New(n) /\ m # old
      BY <1>2, <1>4
    <3>2. <<m, c>> \in New(n) <=> \/ m = nd /\ <<old, c>> \in g.pred[n]
                                  \/ m # old /\ <<m, c>> \in g.pred[n]
      BY <1>10, Zenon
    <3>3. QED
      BY <3>1, <3>2, Zenon
  <2>2. /\ <<m, c>> \in g.pred[n] <=> g.succ[m][c] = n
        /\ <<old, c>> \in g.pred[n] <=> g.succ[old][c] = n
    BY <1>3, Zenon
  <2>3. m = nd => g.succ[m][c] # n
    <3>1. g.succ[nd][c] \in {old, NoNode} /\ n # NoNode
      BY <1>2, NoNodeIsNone
    <3>2. QED
      BY <3>1
  <2>4. h.succ[m][c] = IF m = nd THEN g.succ[old][c] ELSE g.succ[m][c]
    BY <1>6, Zenon
  <2>5. QED
    BY <2>1, <2>2, <2>3, <2>4
<1>13. QED
  <2>1. nds \ {old} \subseteq GraphNodes(h)
    BY <1>2, <1>5
  <2>2. Consistent(h, nds \ {old})
    BY <2>1, <1>5, <1>9, <1>11, <1>12, ConsistentIff
  <2>3. QED
    BY <1>1, <1>5, <2>1, <2>2 DEF Sound, Merged, h

Cloned(g, h, nds, copy) ==
  /\ Sound(h, nds \cup {copy}) /\ GraphNodes(h) = GraphNodes(g) \cup {copy}
  /\ \A m \in GraphNodes(g) : h.succ[m] = g.succ[m]

LEMMA CloneSound ==
  ASSUME NEW g, NEW nds, Sound(g, nds), NEW nd \in nds, NEW copy \in Node,
         copy \notin GraphNodes(g)
  PROVE  Cloned(g, Clone(g, nd, copy), nds, copy)
<1> DEFINE h == Clone(g, nd, copy)
           G == GraphNodes(g)
           Into(m) == {<<copy, b>> : b \in {c \in BOOLEAN : g.succ[nd][c] = m}}
<1>1. /\ h.block = [m \in G \cup {copy} |-> IF m = copy THEN g.block[nd] ELSE g.block[m]]
      /\ h.succ = [m \in G \cup {copy} |-> IF m = copy THEN g.succ[nd] ELSE g.succ[m]]
      /\ h.pred = [m \in G \cup {copy} |-> IF m = copy THEN {} ELSE g.pred[m] \cup Into(m)]
      /\ h = [block |-> h.block, succ |-> h.succ, pred |-> h.pred]
  BY DEF Clone
<1> HIDE DEF h
<1>2. /\ nds \subseteq G /\ nds \subseteq Node /\ G = DOMAIN g.block /\ G \subseteq Node
      /\ g.block \in [G -> Seq(Nat)]
      /\ g.succ \in [G -> [BOOLEAN -> Node \cup {NoNode}]]
      /\ g.pred \in [G -> SUBSET EdgeT]
  BY DEF Sound, IsGraph, GraphNodes
<1>3. /\ \A m \in nds, c \in BOOLEAN : g.succ[m][c] \in nds \cup {NoNode}
      /\ \A m \in nds : g.pred[m] \subseteq nds \X BOOLEAN
      /\ \A n \in nds, m \in nds, c \in BOOLEAN : <<m, c>> \in g.pred[n] <=> g.succ[m][c] = n
  BY ConsistentIff DEF Sound
<1> HIDE DEF G
<1>4. \A m : Into(m) \subseteq {copy} \X BOOLEAN
  OBVIOUS
<1>5. IsGraph(h) /\ GraphNodes(h) = G \cup {copy}
  <2>1. h.block \in [G \cup {copy} -> Seq(Nat)]
    BY <1>1, <1>2
  <2>2. h.succ \in [G \cup {copy} -> [BOOLEAN -> Node \cup {NoNode}]]
    BY <1>1, <1>2
  <2>3. h.pred \in [G \cup {copy} -> SUBSET EdgeT]
    <3>1. \A m \in G : g.pred[m] \cup Into(m) \subseteq EdgeT
      BY <1>2, <1>4 DEF EdgeT
    <3>2. QED
      BY <3>1, <1>1
  <2>4. DOMAIN h.block = G \cup {copy}
    BY <1>1
  <2>5. QED
    BY <1>1, <1>2, <2>1, <2>2, <2>3, <2>4 DEF IsGraph, GraphNodes
<1>6. \A m \in nds \cup {copy}, c \in BOOLEAN :
         h.succ[m][c] = IF m = copy THEN g.succ[nd][c] ELSE g.succ[m][c]
  BY <1>1, <1>2
<1>7. \A m \in nds \cup {copy}, c \in BOOLEAN : h.succ[m][c] \in nds \cup {NoNode}
  <2>1. ASSUME NEW m \in nds \cup {copy}, NEW c \in BOOLEAN
        PROVE  h.succ[m][c] \in nds \cup {NoNode}
    <3>1. g.succ[nd][c] \in nds \cup {NoNode} /\ (m \in nds => g.succ[m][c] \in nds \cup {NoNode})
      BY <1>3, Zenon
    <3>2. QED
      BY <1>6, <3>1, Zenon
  <2>2. QED
    BY <2>1
<1>8. \A m \in nds \cup {copy} :
         h.pred[m] = IF m = copy THEN {} ELSE g.pred[m] \cup Into(m)
  BY <1>1, <1>2
<1>9. \A m \in nds \cup {copy} : h.pred[m] \subseteq (nds \cup {copy}) \X BOOLEAN
  <2>1. ASSUME NEW m \in nds PROVE g.pred[m] \cup Into(m) \subseteq (nds \cup {copy}) \X BOOLEAN
    <3>1. g.pred[m] \subseteq nds \X BOOLEAN
      BY <1>3, Zenon
    <3>2. QED
      BY <3>1, <1>4
  <2>2. QED
    BY <1>8, <2>1
<1>10. ASSUME NEW n \in nds \cup {copy}, NEW m \in nds \cup {copy}, NEW c \in BOOLEAN
       PROVE  <<m, c>> \in h.pred[n] <=> h.succ[m][c] = n
  <2>1. h.succ[m][c] = IF m = copy THEN g.succ[nd][c] ELSE g.succ[m][c]
    BY <1>6, Zenon
  <2>2. copy \notin nds /\ copy # NoNode
    BY <1>2, NoNodeIsNone DEF G
  <2>3. CASE n = copy
    <3>1. h.succ[m][c] \in nds \cup {NoNode}
      BY <1>7, Zenon
    <3>2. h.pred[n] = {}
      BY <1>8, <2>3
    <3>3. QED
      BY <3>1, <3>2, <2>2, <2>3
  <2>4. CASE n # copy /\ m = copy
    <3>1. h.pred[n] = g.pred[n] \cup Into(n)
      BY <1>8, <2>4
    <3>2. <<m, c>> \notin g.pred[n]
      <4>1. g.pred[n] \subseteq nds \X BOOLEAN
        BY <1>3, <2>4, Zenon
      <4>2. QED
        BY <4>1, <2>2, <2>4
    <3>3. <<m, c>> \in Into(n) <=> g.succ[nd][c] = n
      BY <2>4
    <3>4. QED
      BY <3>1, <3>2, <3>3, <2>1, <2>4
  <2>5. CASE n # copy /\ m # copy
    <3>1. h.pred[n] = g.pred[n] \cup Into(n)
      BY <1>8, <2>5
    <3>2. <<m, c>> \notin Into(n)
      BY <1>4, <2>5
    <3>3. <<m, c>> \in g.pred[n] <=> g.succ[m][c] = n
      BY <1>3, <2>5, Zenon
    <3>4. QED
      BY <3>1, <3>2, <3>3, <2>1, <2>5
  <2>6. QED
    BY <2>3, <2>4, <2>5
<1>11. QED
  <2>1. nds \cup {copy} \subseteq GraphNodes(h)
    BY <1>2, <1>5
  <2>2. Consistent(h, nds \cup {copy})
    <3>1. \A m \in nds \cup {copy}, c \in BOOLEAN : h.succ[m][c] \in (nds \cup {copy}) \cup {NoNode}
      BY <1>7, Zenon
    <3>2. QED
      BY <2>1, <3>1, <1>5, <1>9, <1>10, ConsistentIff
  <2>3. \A m \in G : h.succ[m] = g.succ[m]
    BY <1>1 DEF G
  <2>4. QED
    <3>1. IsFiniteSet(G \cup {copy})
      BY FS_AddElement DEF Sound, G
    <3>2. QED
      BY <1>5, <2>1, <2>2, <2>3, <3>1 DEF Sound, Cloned, h, G

-----------------------------------------------------------------------------
(* The invariant                                                           *)

Live == nodes \cup unrolled

\* How the blocks of a program whose nodes are not copied yet are linked
Onward(id) ==
  [b \in BOOLEAN |->
     IF b THEN IF TypeAt(id) \in {"jump", "branch"} THEN Target(Instr(id).br) ELSE NoNode
          ELSE IF TypeAt(id) \in {"branch", "other"} THEN Target(id + 1) ELSE NoNode]

Phases ==
  {"init_nodes", "bad_listing", "create_edges", "reach", "remove_unreachable", "merge_edges",
   "unroll", "begin_sort", "topo_sort", "sorted", "not_loop_free", "static_analysis", "dead_ends"}

PhaseInv ==
  /\ listing \in Listings /\ options \in Options /\ phase \in Phases /\ analysed \in BOOLEAN
  /\ phase \in {"init_nodes", "bad_listing"} => nodes = {} /\ unrolled = {}
  /\ phase \in {"init_nodes", "create_edges", "merge_edges", "unroll"} => ~analysed
  /\ phase \in {"static_analysis", "dead_ends"} => analysed

GraphInv ==
  phase \notin {"init_nodes", "bad_listing"} =>
    /\ ~Malformed
    /\ Sound(graph, Live) /\ IsFiniteSet(Live)
    /\ Start \in nodes

\* Until unroll, a block ends behind its beginning and its last instruction
\* says where it leads to, once its edges are there and unless it is removed.
BlockInv ==
  phase \in {"create_edges", "reach", "remove_unreachable", "merge_edges"} /\ ~analysed =>
    /\ unrolled = {}
    /\ \A nd \in GraphNodes(graph) : LoopDepth(nd) = 0
    /\ \A nd \in nodes :
         /\ graph.block[nd] # <<>> /\ ExitId(nd) \in Ids \cup {FinId} /\ Id(nd) <= ExitId(nd)
         /\ CASE phase = "create_edges"       -> nd \in ToSet(pending) \/ graph.succ[nd] = Onward(ExitId(nd))
              [] phase = "remove_unreachable" -> nd \in reached => graph.succ[nd] = Onward(ExitId(nd))
              [] OTHER                        -> graph.succ[nd] = Onward(ExitId(nd))

LinkInv ==
  phase = "create_edges" =>
    /\ pending \in Seq(nodes)
    /\ nodes = {<<id, 0>> : id \in Ids \cup {FinId}}
    /\ \A i \in DOMAIN pending :
         ExitId(pending[i]) \in Ids /\ graph.succ[pending[i]] = Unlinked
    /\ \A i, j \in DOMAIN pending : pending[i] = pending[j] => i = j

ReachInv ==
  /\ phase = "reach" =>
       /\ pending \in Seq(Live) /\ reached \subseteq Live
       /\ Start \in reached \cup ToSet(pending)
       /\ \A nd \in reached : Succs(graph, nd) \subseteq reached \cup ToSet(pending)
  /\ phase = "remove_unreachable" =>
       Start \in reached /\ reached \subseteq Live /\ \A nd \in reached : Succs(graph, nd) \subseteq reached

UnrollInv ==
  /\ \A nd \in unrolled : LoopDepth(nd) > 0
  /\ phase = "merge_edges" => todo \subseteq nodes
  /\ phase = "unroll" =>
       /\ stack \in Seq([nd : Live, i : Nat])
       /\ visited \in [DOMAIN visited -> Int] /\ \A nd \in Live : Id(nd) \in DOMAIN visited
       /\ \A nd \in GraphNodes(graph) : LoopDepth(nd) > 0 => nd \in unrolled

SortInv ==
  /\ phase \in {"topo_sort", "sorted", "static_analysis", "dead_ends"} => order \in Seq(Live)
  /\ phase \in {"topo_sort", "static_analysis", "dead_ends"} => pending \in Seq(Live)
  /\ phase = "topo_sort" => seen \in [GraphNodes(graph) -> Nat]
  /\ phase \in {"static_analysis", "dead_ends"} => todo \subseteq Live

BuildInv ==
  PhaseInv /\ GraphInv /\ BlockInv /\ LinkInv /\ ReachInv /\ UnrollInv /\ SortInv

-----------------------------------------------------------------------------
(* Each step keeps the invariant                                           *)

LEMMA ListingFacts ==
  ASSUME listing \in Listings
  PROVE  /\ listing \in Seq([id : Nat, type : {"branch", "jump", "other"}, br : Nat])
         /\ Ids \subseteq Nat /\ IsFiniteSet(Ids)
         /\ \A id \in Ids : /\ Instr(id).id = id /\ Instr(id).br \in Nat
                            /\ Instr(id).type \in {"branch", "jump", "other"}
         /\ ~Malformed => 0 \in Ids /\ FinId \notin Ids /\ \A id \in Ids : id < FinId
<1> DEFINE R == [id : Nat, type : {"branch", "jump", "other"}, br : Nat]
<1>1. listing \in Seq(R)
  BY ListingAssumption
<1>2. \A i \in DOMAIN listing : listing[i] \in R
  <2> HIDE DEF R
  <2>1. QED
    BY <1>1
<1>3. \A i \in DOMAIN listing : /\ listing[i].id \in Nat /\ listing[i].br \in Nat
                                /\ listing[i].type \in {"branch", "jump", "other"}
  BY <1>2
<1>4. Ids \subseteq Nat
  BY <1>3 DEF Ids
<1>5. IsFiniteSet(Ids)
  <2> DEFINE f == [i \in 1..Len(listing) |-> listing[i].id]
  <2>1. Len(listing) \in Nat /\ DOMAIN listing = 1..Len(listing)
    BY <1>1
  <2>2. IsFiniteSet(1..Len(listing))
    BY <2>1, FS_Interval
  <2>3. f \in [1..Len(listing) -> Nat]
    BY <1>3, <2>1
  <2>4. Ids = {f[i] : i \in 1..Len(listing)}
    BY <2>1 DEF Ids
  <2> HIDE DEF f
  <2>5. \A i \in 1..Len(listing) : f[i] \in Ids
    BY <2>4
  <2>6. f \in Surjection(1..Len(listing), Ids)
    BY <2>3, <2>4, <2>5 DEF Surjection
  <2>7. QED
    BY <2>2, <2>6, FS_Surjection
<1>6. ASSUME NEW id \in Ids
      PROVE  Instr(id).id = id /\ Instr(id).br \in Nat /\ Instr(id).type \in {"branch", "jump", "other"}
  <2>1. \E n \in ToSet(listing) : n.id = id
    BY DEF Ids, ToSet
  <2>2. Instr(id) \in ToSet(listing) /\ Instr(id).id = id
    BY <2>1 DEF Instr
  <2>3. QED
    BY <1>3, <2>2 DEF ToSet
<1>7. ~Malformed => 0 \in Ids /\ FinId \notin Ids /\ \A id \in Ids : id < FinId
  BY <1>3, ListingAssumption, SMTT(30) DEF Malformed, Ids
<1>8. QED
  BY <1>1, <1>4, <1>5, <1>6, <1>7

LEMMA InitInv == Init => BuildInv
BY DEF Init, BuildInv, PhaseInv, GraphInv, BlockInv, LinkInv, ReachInv, UnrollInv, SortInv, Phases

\* What the listing says of the instruction at the end of a block
LEMMA OnwardType ==
  ASSUME listing \in Listings, ~Malformed, NEW id \in Ids \cup {FinId}
  PROVE  /\ id \in Nat
         /\ id = FinId => Onward(id) = Unlinked
         /\ Onward(id) \in [BOOLEAN -> {<<a, 0>> : a \in Ids \cup {FinId}} \cup {NoNode}]
<1>1. id \in Nat
  BY ListingFacts, ListingAssumption
<1>2. id = FinId => Onward(id) = Unlinked
  BY DEF Onward, Unlinked, TypeAt
<1>3. \A a : Target(a) \in {<<c, 0>> : c \in Ids \cup {FinId}}
  BY DEF Target, Fin
<1>4. QED
  BY <1>1, <1>2, <1>3 DEF Onward

LEMMA InitNodesInv == BuildInv /\ InitNodes => BuildInv'
<1> SUFFICES ASSUME BuildInv, InitNodes PROVE BuildInv'
  OBVIOUS
<1>1. /\ phase = "init_nodes" /\ nodes = {} /\ unrolled = {} /\ ~analysed
      /\ listing \in Listings /\ options \in Options /\ analysed \in BOOLEAN
  BY DEF BuildInv, PhaseInv, InitNodes
<1>2. /\ listing' = listing /\ options' = options /\ unrolled' = unrolled /\ analysed' = analysed
  BY DEF InitNodes, unrollVars, staticVars
<1>3. CASE Malformed
  <2>1. phase' = "bad_listing" /\ nodes' = nodes
    BY <1>3 DEF InitNodes
  <2>2. QED
    BY <1>1, <1>2, <2>1
       DEF BuildInv, PhaseInv, GraphInv, BlockInv, LinkInv, ReachInv, UnrollInv, SortInv, Phases
<1>4. CASE ~Malformed
  <2>1. /\ phase' = "create_edges"
        /\ nodes' = {<<id, 0>> : id \in Ids \cup {FinId}}
        /\ graph' = [block |-> [nd \in nodes' |-> <<Id(nd)>>],
                     succ  |-> [nd \in nodes' |-> Unlinked],
                     pred  |-> [nd \in nodes' |-> {}]]
        /\ pending' = [i \in DOMAIN listing |-> <<listing[i].id, 0>>]
    BY <1>4 DEF InitNodes
  <2>2. /\ Ids' = Ids /\ (Malformed)' = Malformed
    BY <1>2 DEF Ids, Malformed
  <2>3. /\ Ids \subseteq Nat /\ IsFiniteSet(Ids) /\ 0 \in Ids /\ FinId \notin Ids /\ FinId \in Nat
        /\ listing \in Seq([id : Nat, type : {"branch", "jump", "other"}, br : Nat])
    BY <1>1, <1>4, ListingFacts, ListingAssumption
  <2>4. /\ GraphNodes(graph') = nodes' /\ graph'.succ = [nd \in nodes' |-> Unlinked]
        /\ graph'.block = [nd \in nodes' |-> <<Id(nd)>>] /\ graph'.pred = [nd \in nodes' |-> {}]
    BY <2>1 DEF GraphNodes
  <2>5. \A nd \in nodes' : nd \in Node /\ Id(nd) \in Ids \cup {FinId} /\ LoopDepth(nd) = 0
    BY <2>1, <2>3 DEF Node, Id, LoopDepth
  <2>6. IsGraph(graph')
    <3>1. <<>> \in Seq(Nat) /\ \A nd \in nodes' : <<Id(nd)>> \in Seq(Nat)
      <4>1. \A nd \in nodes' : Id(nd) \in Nat
        BY <2>3, <2>5
      <4>2. \A n \in Nat : <<n>> \in Seq(Nat)
        OBVIOUS
      <4>3. QED
        BY <4>1, <4>2
    <3>2. graph'.block \in [nodes' -> Seq(Nat)]
      BY <2>4, <3>1
    <3>3. Unlinked \in [BOOLEAN -> Node \cup {NoNode}]
      BY DEF Unlinked
    <3>4. graph'.succ \in [nodes' -> [BOOLEAN -> Node \cup {NoNode}]]
      BY <2>4, <3>3
    <3>5. graph'.pred \in [nodes' -> SUBSET EdgeT]
      BY <2>4
    <3>6. nodes' \subseteq Node
      BY <2>5
    <3>7. graph' = [block |-> graph'.block, succ |-> graph'.succ, pred |-> graph'.pred]
      BY <2>1
    <3>8. DOMAIN graph'.block = nodes'
      BY <2>4
    <3>9. QED
      BY <3>2, <3>4, <3>5, <3>6, <3>7, <3>8 DEF IsGraph
  <2>7. \A nd \in nodes', b \in BOOLEAN : graph'.succ[nd][b] = NoNode
    BY <2>4 DEF Unlinked
  <2>a. IsFiniteSet(nodes')
    <3>1. IsFiniteSet(Ids \cup {FinId}) /\ IsFiniteSet({0})
      BY <2>3, FS_AddElement, FS_Singleton
    <3>2. IsFiniteSet((Ids \cup {FinId}) \X {0})
      BY <3>1, FS_Product
    <3>3. nodes' = (Ids \cup {FinId}) \X {0}
      BY <2>1
    <3>4. QED
      BY <3>2, <3>3
  <2>8. Sound(graph', nodes')
    <3>1. \A nd \in nodes' : graph'.pred[nd] = {} /\ nd # NoNode
      BY <2>4, <2>5, NoNodeIsNone
    <3>2. Consistent(graph', nodes')
      <4>1. \A nd \in nodes', b \in BOOLEAN : graph'.succ[nd][b] \in nodes' \cup {NoNode}
        BY <2>7
      <4>2. \A nd \in nodes' : graph'.pred[nd] \subseteq nodes' \X BOOLEAN
        BY <3>1
      <4>3. \A nd \in nodes', m \in nodes', b \in BOOLEAN :
              <<m, b>> \in graph'.pred[nd] <=> graph'.succ[m][b] = nd
        BY <2>7, <3>1
      <4>4. nodes' \subseteq GraphNodes(graph')
        BY <2>4
      <4>5. QED
        BY <2>6, <4>1, <4>2, <4>3, <4>4, ConsistentIff
    <3>3. QED
      BY <2>4, <2>6, <2>a, <3>2 DEF Sound
  <2>10. Start \in nodes' /\ Live' = nodes'
    BY <1>1, <1>2, <2>1, <2>3 DEF Start, Live
  <2>11. GraphInv'
    BY <1>4, <2>2, <2>8, <2>a, <2>10 DEF GraphInv
  <2>12. /\ DOMAIN pending' = DOMAIN listing
         /\ \A i \in DOMAIN listing : pending'[i] = <<listing[i].id, 0>> /\ listing[i].id \in Ids
    BY <2>1 DEF Ids
  <2>13. pending' \in Seq(nodes')
    <3>1. \A i \in DOMAIN listing : <<listing[i].id, 0>> \in nodes'
      BY <2>1, <2>12
    <3>2. DOMAIN listing = 1..Len(listing) /\ Len(listing) \in Nat
      BY <2>3
    <3>3. QED
      BY <2>1, <3>1, <3>2
  <2>14. LinkInv'
    <3>1. \A i \in DOMAIN listing : ExitId(pending[i])' \in Ids /\ graph'.succ[pending'[i]] = Unlinked
      <4>1. ASSUME NEW i \in DOMAIN listing
            PROVE  Last(graph'.block[pending'[i]]) \in Ids /\ graph'.succ[pending'[i]] = Unlinked
        <5>1. pending'[i] = <<listing[i].id, 0>> /\ listing[i].id \in Ids
          BY <2>12
        <5>2. pending'[i] \in nodes' /\ Id(pending'[i]) = listing[i].id
          BY <2>1, <5>1 DEF Id
        <5>3. graph'.block[pending'[i]] = <<listing[i].id>>
          BY <2>4, <5>2
        <5>4. Last(<<listing[i].id>>) = listing[i].id
          BY DEF Last
        <5>5. QED
          BY <2>4, <5>1, <5>2, <5>3, <5>4
      <4>2. QED
        BY <4>1 DEF ExitId
    <3>2. \A i, j \in DOMAIN listing : pending'[i] = pending'[j] => i = j
      BY <2>12, <1>4 DEF Malformed
    <3>3. QED
      BY <2>1, <2>2, <2>12, <2>13, <3>1, <3>2 DEF LinkInv
  <2>15. BlockInv'
    <3>1. ASSUME NEW nd \in nodes'
          PROVE  /\ graph'.block[nd] # <<>> /\ Last(graph'.block[nd]) = Id(nd)
                 /\ Id(nd) \in Ids \cup {FinId} /\ Id(nd) <= Id(nd)
      <4>1. graph'.block[nd] = <<Id(nd)>>
        BY <2>4
      <4>2. Id(nd) \in Nat
        BY <2>3, <2>5
      <4>3. QED
        BY <2>5, <4>1, <4>2 DEF Last
    <3>2. ASSUME NEW nd \in nodes', nd \notin ToSet(pending')
          PROVE  graph'.succ[nd] = Onward(FinId) /\ Id(nd) = FinId
      <4>1. PICK id \in Ids \cup {FinId} : nd = <<id, 0>>
        BY <2>1
      <4>2. id \notin Ids
        <5>1. SUFFICES ASSUME NEW i \in DOMAIN listing, listing[i].id = id PROVE FALSE
          BY DEF Ids
        <5>2. pending'[i] = nd
          BY <2>12, <4>1, <5>1
        <5>3. QED
          BY <2>12, <3>2, <5>2 DEF ToSet
      <4>3. QED
        BY <1>1, <1>4, <2>4, <4>1, <4>2, OnwardType DEF Id
    <3>3. \A id : (Onward(id))' = Onward(id)
      BY <1>2 DEF Onward, TypeAt, Target, Instr, Ids
    <3>4. QED
      BY <1>1, <1>2, <2>1, <2>2, <2>4, <2>5, <3>1, <3>2, <3>3, ZenonT(40) DEF BlockInv, ExitId
  <2>16. QED
    BY <1>1, <1>2, <2>1, <2>11, <2>14, <2>15
       DEF BuildInv, PhaseInv, ReachInv, UnrollInv, SortInv, Phases
<1>5. QED
  BY <1>3, <1>4

\* Sound graphs are typed.
LEMMA SoundTypes ==
  ASSUME NEW g, NEW nds, Sound(g, nds)
  PROVE  /\ nds \subseteq GraphNodes(g) /\ GraphNodes(g) \subseteq Node /\ GraphNodes(g) = DOMAIN g.block
         /\ g.block \in [GraphNodes(g) -> Seq(Nat)]
         /\ g.succ \in [GraphNodes(g) -> [BOOLEAN -> Node \cup {NoNode}]]
         /\ g.pred \in [GraphNodes(g) -> SUBSET EdgeT]
BY DEF Sound, IsGraph, GraphNodes

\* LinkSound for an edge of either kind
LEMMA LinkEither ==
  ASSUME NEW g, NEW nds, Sound(g, nds), NEW nd \in nds, NEW to \in nds
  PROVE  /\ g.succ[nd][TRUE] = NoNode => Linked(g, Link(g, nd, TRUE, to), nds, nd, TRUE, to)
         /\ g.succ[nd][FALSE] = NoNode => Linked(g, Link(g, nd, FALSE, to), nds, nd, FALSE, to)
<1> DEFINE P(b) == g.succ[nd][b] = NoNode => Linked(g, Link(g, nd, b, to), nds, nd, b, to)
<1>1. ASSUME NEW b \in BOOLEAN PROVE P(b)
  BY LinkSound, Zenon
<1> HIDE DEF P
<1>2. \A b \in BOOLEAN : P(b)
  BY <1>1
<1>3. TRUE \in BOOLEAN /\ FALSE \in BOOLEAN
  OBVIOUS
<1>4. P(TRUE) /\ P(FALSE)
  BY <1>2, <1>3, Zenon
<1>5. QED
  BY <1>4, Zenon DEF P

LEMMA WithEdgesSound ==
  ASSUME BuildInv, phase = "create_edges", NEW nd \in nodes, ExitId(nd) \in Ids,
         graph.succ[nd] = Unlinked
  PROVE  LET h == WithEdges(graph, nd)
         IN  /\ Sound(h, nodes) /\ GraphNodes(h) = GraphNodes(graph) /\ h.block = graph.block
             /\ h.succ = [graph.succ EXCEPT ![nd] = Onward(ExitId(nd))]
<1> DEFINE e == ExitId(nd)
           fall == Target(e + 1)
           jump == Target(Instr(e).br)
<1>1. /\ Sound(graph, nodes) /\ listing \in Listings /\ ~Malformed
      /\ nodes = {<<id, 0>> : id \in Ids \cup {FinId}}
  <2>1. unrolled = {}
    BY DEF BuildInv, BlockInv, PhaseInv
  <2>2. QED
    BY <2>1 DEF BuildInv, GraphInv, LinkInv, Live, PhaseInv
<1>2. fall \in nodes /\ jump \in nodes
  BY <1>1 DEF Target, Fin
<1>3. FinId \notin Ids /\ Instr(e).type \in {"branch", "jump", "other"}
  BY <1>1, ListingFacts
<1>4. ExitType(nd) = Instr(e).type /\ TypeAt(e) = Instr(e).type
  BY <1>3 DEF ExitType, TypeAt
<1>5. \A b \in BOOLEAN : graph.succ[nd][b] = NoNode
  BY DEF Unlinked
<1>6. /\ graph.succ \in [GraphNodes(graph) -> [BOOLEAN -> Node \cup {NoNode}]]
      /\ nd \in GraphNodes(graph)
  BY <1>1, SoundTypes
<1>7. graph.succ[nd][TRUE] = NoNode /\ graph.succ[nd][FALSE] = NoNode
  BY <1>5
<1>8. Onward(e) = [b \in BOOLEAN |->
                     IF b THEN IF Instr(e).type \in {"jump", "branch"} THEN jump ELSE NoNode
                          ELSE IF Instr(e).type \in {"branch", "other"} THEN fall ELSE NoNode]
  BY <1>4 DEF Onward
<1> HIDE DEF e, fall, jump
<1>9. CASE Instr(e).type = "jump"
  <2> DEFINE k == Link(graph, nd, TRUE, jump)
  <2>1. WithEdges(graph, nd) = k
    BY <1>4, <1>9 DEF WithEdges, WithJump, jump, e
  <2>2. Linked(graph, k, nodes, nd, TRUE, jump)
    BY <1>1, <1>2, <1>7, LinkEither, Zenon
  <2>3. [graph.succ[nd] EXCEPT ![TRUE] = jump] = Onward(e)
    BY <1>5, <1>6, <1>8, <1>9
  <2> HIDE DEF k
  <2>4. QED
    BY <2>1, <2>2, <2>3 DEF Linked, e
<1>10. CASE Instr(e).type = "other"
  <2> DEFINE k == Link(graph, nd, FALSE, fall)
  <2>1. WithEdges(graph, nd) = k
    BY <1>4, <1>10 DEF WithEdges, WithFall, fall, e
  <2>2. Linked(graph, k, nodes, nd, FALSE, fall)
    BY <1>1, <1>2, <1>7, LinkEither, Zenon
  <2>3. [graph.succ[nd] EXCEPT ![FALSE] = fall] = Onward(e)
    BY <1>5, <1>6, <1>8, <1>10
  <2> HIDE DEF k
  <2>4. QED
    BY <2>1, <2>2, <2>3 DEF Linked, e
<1>11. CASE Instr(e).type = "branch"
  <2> DEFINE k == Link(graph, nd, FALSE, fall)
             h == Link(k, nd, TRUE, jump)
  <2>1. WithEdges(graph, nd) = h
    BY <1>4, <1>11 DEF WithEdges, WithFall, WithJump, fall, jump, e
  <2>2. Linked(graph, k, nodes, nd, FALSE, fall)
    BY <1>1, <1>2, <1>7, LinkEither, Zenon
  <2> HIDE DEF k
  <2>3. k.succ[nd] = [graph.succ[nd] EXCEPT ![FALSE] = fall]
    BY <1>6, <2>2 DEF Linked
  <2>4. k.succ[nd][TRUE] = NoNode
    BY <1>5, <1>6, <2>3
  <2>5. Sound(k, nodes)
    BY <2>2 DEF Linked
  <2>6. Linked(k, h, nodes, nd, TRUE, jump)
    BY <1>2, <2>4, <2>5, LinkEither, Zenon
  <2> HIDE DEF h
  <2>7. [k.succ[nd] EXCEPT ![TRUE] = jump] = Onward(e)
    BY <1>5, <1>6, <1>8, <1>11, <2>3
  <2>8. h.succ = [graph.succ EXCEPT ![nd] = Onward(e)]
    BY <1>6, <2>2, <2>6, <2>7 DEF Linked
  <2>9. QED
    BY <2>1, <2>2, <2>6, <2>8 DEF Linked, e
<1>12. QED
  BY <1>3, <1>9, <1>10, <1>11

LEMMA CreateEdgesInv == BuildInv /\ CreateEdges => BuildInv'
<1> SUFFICES ASSUME BuildInv, CreateEdges PROVE BuildInv'
  OBVIOUS
<1>1. /\ phase = "create_edges" /\ ~analysed /\ analysed \in BOOLEAN
      /\ listing \in Listings /\ options \in Options
      /\ ~Malformed /\ Sound(graph, Live) /\ IsFiniteSet(Live) /\ Start \in nodes
      /\ unrolled = {} /\ Live = nodes
  BY DEF BuildInv, PhaseInv, GraphInv, BlockInv, CreateEdges, Live
<1>2. /\ listing' = listing /\ options' = options /\ nodes' = nodes /\ unrolled' = unrolled
      /\ analysed' = analysed /\ (Malformed)' = Malformed /\ Ids' = Ids /\ Live' = Live
  BY DEF CreateEdges, unrollVars, staticVars, Malformed, Ids, Live
<1>3. \A id : (Onward(id))' = Onward(id)
  BY <1>2 DEF Onward, TypeAt, Target, Instr, Ids
<1>4. /\ \A nd \in GraphNodes(graph) : LoopDepth(nd) = 0
      /\ \A nd \in nodes :
           /\ graph.block[nd] # <<>> /\ ExitId(nd) \in Ids \cup {FinId} /\ Id(nd) <= ExitId(nd)
           /\ nd \in ToSet(pending) \/ graph.succ[nd] = Onward(ExitId(nd))
  BY <1>1 DEF BuildInv, BlockInv
<1>5. /\ pending \in Seq(nodes) /\ nodes = {<<id, 0>> : id \in Ids \cup {FinId}}
      /\ \A i \in DOMAIN pending : ExitId(pending[i]) \in Ids /\ graph.succ[pending[i]] = Unlinked
      /\ \A i, j \in DOMAIN pending : pending[i] = pending[j] => i = j
  BY <1>1 DEF BuildInv, LinkInv
<1>6. CASE pending # <<>>
  <2> DEFINE nd == Head(pending)
  <2>1. graph' = WithEdges(graph, nd) /\ pending' = Tail(pending) /\ phase' = phase
    BY <1>6 DEF CreateEdges
  <2>2. /\ nd = pending[1] /\ 1 \in DOMAIN pending /\ nd \in nodes
        /\ pending' \in Seq(nodes)
        /\ \A i \in DOMAIN pending' : i \in Nat /\ i + 1 \in DOMAIN pending /\ pending'[i] = pending[i + 1]
        /\ \A i \in DOMAIN pending : i = 1 \/ (i - 1 \in DOMAIN pending' /\ pending'[i - 1] = pending[i])
    <3>1. pending \in Seq(nodes)
      BY <1>5
    <3>2. QED
      <4>1. /\ 1 \in DOMAIN pending /\ Head(pending) = pending[1] /\ Head(pending) \in nodes
            /\ Tail(pending) \in Seq(nodes) /\ DOMAIN pending \subseteq Nat
            /\ DOMAIN Tail(pending) \subseteq Nat
            /\ \A i \in DOMAIN Tail(pending) :
                 i + 1 \in DOMAIN pending /\ Tail(pending)[i] = pending[i + 1]
            /\ \A i \in DOMAIN pending :
                 i = 1 \/ (i - 1 \in DOMAIN Tail(pending) /\ Tail(pending)[i - 1] = pending[i])
        BY <1>6, <3>1, Rest
      <4> HIDE DEF nd
      <4>2. nd = Head(pending)
        BY DEF nd
      <4>3. QED
        BY <2>1, <4>1, <4>2
  <2> HIDE DEF nd
  <2>3. ExitId(nd) \in Ids /\ graph.succ[nd] = Unlinked
    BY <1>5, <2>2
  <2>4. /\ Sound(graph', nodes) /\ GraphNodes(graph') = GraphNodes(graph) /\ graph'.block = graph.block
        /\ graph'.succ = [graph.succ EXCEPT ![nd] = Onward(ExitId(nd))]
    BY <1>1, <2>1, <2>2, <2>3, WithEdgesSound
  <2>5. \A m : (ExitId(m))' = ExitId(m)
    BY <2>4 DEF ExitId
  <2>6. \A m \in nodes : graph'.succ[m] = IF m = nd THEN Onward(ExitId(nd)) ELSE graph.succ[m]
    BY <1>1, <2>4, SoundTypes
  <2>7. \A m \in nodes : m \in ToSet(pending) => m = nd \/ m \in ToSet(pending')
    BY <2>2 DEF ToSet
  <2>8. LinkInv'
    <3>1. ASSUME NEW i \in DOMAIN pending'
          PROVE  ExitId(pending'[i]) \in Ids /\ graph'.succ[pending'[i]] = Unlinked
      <4>1. pending'[i] = pending[i + 1] /\ i + 1 \in DOMAIN pending /\ pending'[i] # nd
        BY <1>5, <2>2
      <4>2. pending'[i] \in nodes
        BY <1>5, <4>1
      <4>3. QED
        BY <1>5, <2>5, <2>6, <4>1, <4>2
    <3>2. ASSUME NEW i \in DOMAIN pending', NEW j \in DOMAIN pending', pending'[i] = pending'[j]
          PROVE  i = j
      <4>1. pending[i + 1] = pending[j + 1] /\ i \in Nat /\ j \in Nat
        BY <2>2, <3>2
      <4>2. i + 1 = j + 1
        BY <1>5, <2>2, <4>1
      <4>3. QED
        BY <4>1, <4>2
    <3>3. QED
      <4>1. \A i \in DOMAIN pending' :
              (ExitId(pending[i]))' \in Ids /\ graph'.succ[pending'[i]] = Unlinked
        BY <2>4, <3>1 DEF ExitId
      <4>2. QED
        BY <1>2, <1>5, <2>2, <3>2, <4>1 DEF LinkInv
  <2>9. BlockInv'
    <3>1. \A m \in nodes : m \in ToSet(pending') \/ graph'.succ[m] = Onward(ExitId(m))
      BY <1>4, <2>6, <2>7
    <3>2. QED
      BY <1>1, <1>2, <1>3, <1>4, <2>1, <2>4, <2>5, <3>1 DEF BlockInv
  <2>10. QED
    BY <1>1, <1>2, <2>1, <2>4, <2>8, <2>9
       DEF BuildInv, PhaseInv, GraphInv, ReachInv, UnrollInv, SortInv
<1>7. CASE pending = <<>>
  <2>1. phase' = "reach" /\ pending' = <<Start>> /\ reached' = {} /\ graph' = graph
    BY <1>7 DEF CreateEdges
  <2>2. ToSet(pending) = {}
    BY <1>7 DEF ToSet
  <2>3. ToSet(pending') = {Start} /\ pending' \in Seq(Live)
    BY <1>1, <2>1 DEF ToSet
  <2>4. \A m : (ExitId(m))' = ExitId(m)
    BY <2>1 DEF ExitId
  <2>5. BlockInv'
    BY <1>1, <1>2, <1>3, <1>4, <2>1, <2>2, <2>4 DEF BlockInv
  <2>6. QED
    BY <1>1, <1>2, <2>1, <2>3, <2>5
       DEF BuildInv, PhaseInv, GraphInv, LinkInv, ReachInv, UnrollInv, SortInv, Phases
<1>8. QED
  BY <1>6, <1>7

LEMMA ReachInvStep == BuildInv /\ Reach => BuildInv'
<1> SUFFICES ASSUME BuildInv, Reach PROVE BuildInv'
  OBVIOUS
<1>1. /\ phase = "reach" /\ analysed \in BOOLEAN /\ listing \in Listings /\ options \in Options
      /\ ~Malformed /\ Sound(graph, Live) /\ IsFiniteSet(Live) /\ Start \in nodes
  BY DEF BuildInv, PhaseInv, GraphInv, Reach
<1>2. /\ listing' = listing /\ options' = options /\ nodes' = nodes /\ unrolled' = unrolled
      /\ graph' = graph /\ analysed' = analysed
      /\ (Malformed)' = Malformed /\ Ids' = Ids /\ Live' = Live
  BY DEF Reach, unrollVars, staticVars, Malformed, Ids, Live
<1>3. /\ \A id : (Onward(id))' = Onward(id)
      /\ \A nd : (ExitId(nd))' = ExitId(nd)
  BY <1>2 DEF Onward, TypeAt, Target, Instr, Ids, ExitId
<1>4. /\ pending \in Seq(Live) /\ reached \subseteq Live
      /\ Start \in reached \cup ToSet(pending)
      /\ \A nd \in reached : Succs(graph, nd) \subseteq reached \cup ToSet(pending)
  BY <1>1 DEF BuildInv, ReachInv
<1>5. ~analysed =>
        /\ unrolled = {}
        /\ \A nd \in GraphNodes(graph) : LoopDepth(nd) = 0
        /\ \A nd \in nodes :
             /\ graph.block[nd] # <<>> /\ ExitId(nd) \in Ids \cup {FinId} /\ Id(nd) <= ExitId(nd)
             /\ graph.succ[nd] = Onward(ExitId(nd))
  BY <1>1 DEF BuildInv, BlockInv
<1>6. CASE pending # <<>>
  <2> DEFINE nd == Last(pending)
             found(b) == IF graph.succ[nd][b] \notin {NoNode} \cup reached'
                         THEN <<graph.succ[nd][b]>> ELSE <<>>
  <2>1. /\ phase' = phase /\ reached' = reached \cup {nd}
        /\ pending' = Front(pending) \o found(TRUE) \o found(FALSE)
    BY <1>6 DEF Reach
  <2>2. Front(pending) \in Seq(Live) /\ nd \in Live /\ ToSet(pending) = ToSet(Front(pending)) \cup {nd}
    BY <1>4, <1>6, Shorter, ElementsFront
  <2> HIDE DEF nd
  <2>3. ASSUME NEW b \in BOOLEAN
        PROVE  /\ found(b) \in Seq(Live)
               /\ b \in Outs(graph, nd) => graph.succ[nd][b] \in reached' \cup ToSet(found(b))
    <3>1. /\ b \in Outs(graph, nd) <=> graph.succ[nd][b] # NoNode
          /\ graph.succ[nd][b] # NoNode => graph.succ[nd][b] \in Live
      <4>1. Sound(graph, Live)
        BY <1>1
      <4>2. \A m \in Live, c \in BOOLEAN :
              /\ graph.succ[m][c] \in Node \cup {NoNode}
              /\ c \in Outs(graph, m) <=> graph.succ[m][c] # NoNode
              /\ graph.succ[m][c] # NoNode => graph.succ[m][c] \in Live
              /\ graph.succ[m][c] # NoNode => <<m, c>> \in graph.pred[graph.succ[m][c]]
        BY <4>1, SuccThere, Zenon
      <4>3. QED
        BY <2>2, <4>2, Zenon
    <3> DEFINE s == graph.succ[nd][b]
    <3>2. found(b) = IF s \notin {NoNode} \cup reached' THEN <<s>> ELSE <<>>
      OBVIOUS
    <3> HIDE DEF s, found
    <3>3. s # NoNode => <<s>> \in Seq(Live) /\ ToSet(<<s>>) = {s}
      BY <3>1 DEF ToSet, s
    <3>4. QED
      BY <3>1, <3>2, <3>3 DEF s
  <2> HIDE DEF found
  <2>4. found(TRUE) \in Seq(Live) /\ found(FALSE) \in Seq(Live)
    BY <2>3, Zenon
  <2>5. /\ pending' \in Seq(Live)
        /\ ToSet(pending') = ToSet(Front(pending)) \cup ToSet(found(TRUE)) \cup ToSet(found(FALSE))
    <3> DEFINE s == Front(pending)
               t == found(TRUE)
               f == found(FALSE)
    <3>1. s \in Seq(Live) /\ t \in Seq(Live) /\ f \in Seq(Live) /\ pending' = s \o t \o f
      BY <2>1, <2>2, <2>4
    <3> HIDE DEF s, t, f
    <3>2. s \o t \in Seq(Live) /\ ToSet(s \o t) = ToSet(s) \cup ToSet(t)
      BY <3>1, ElementsConcat
    <3> DEFINE st == s \o t
    <3>3. st \in Seq(Live) /\ ToSet(st) = ToSet(s) \cup ToSet(t) /\ pending' = st \o f
      BY <3>1, <3>2
    <3> HIDE DEF st
    <3>4. st \o f \in Seq(Live) /\ ToSet(st \o f) = ToSet(st) \cup ToSet(f)
      BY <3>1, <3>3, ElementsConcat
    <3>5. QED
      BY <3>3, <3>4 DEF s, t, f
  <2>6. Succs(graph, nd) \subseteq reached' \cup ToSet(pending')
    <3>1. ASSUME NEW b \in BOOLEAN, b \in Outs(graph, nd)
          PROVE  graph.succ[nd][b] \in reached' \cup ToSet(pending')
      <4>1. graph.succ[nd][b] \in reached' \cup ToSet(found(b))
        BY <2>3, <3>1, Zenon
      <4>2. ToSet(found(b)) \subseteq ToSet(found(TRUE)) \cup ToSet(found(FALSE))
        <5>1. CASE b = TRUE
          BY <5>1
        <5>2. CASE b = FALSE
          BY <5>2
        <5>3. QED
          BY <5>1, <5>2
      <4>3. QED
        BY <2>5, <4>1, <4>2, Zenon
    <3>2. Outs(graph, nd) \subseteq BOOLEAN
      BY DEF Outs
    <3>3. QED
      BY <3>1, <3>2 DEF Succs
  <2>7. \A m \in reached' : Succs(graph, m) \subseteq reached' \cup ToSet(pending')
    BY <1>4, <2>1, <2>2, <2>5, <2>6
  <2>8. ReachInv'
    BY <1>1, <1>2, <1>4, <2>1, <2>2, <2>5, <2>7 DEF ReachInv
  <2>9. BlockInv'
    BY <1>1, <1>2, <1>3, <1>5, <2>1 DEF BlockInv
  <2>10. QED
    BY <1>1, <1>2, <2>1, <2>8, <2>9
       DEF BuildInv, PhaseInv, GraphInv, LinkInv, UnrollInv, SortInv, Phases
<1>7. CASE pending = <<>>
  <2>1. phase' = "remove_unreachable" /\ reached' = reached
    BY <1>7 DEF Reach
  <2>2. ToSet(pending) = {}
    BY <1>7 DEF ToSet
  <2>3. ReachInv'
    BY <1>1, <1>2, <1>4, <2>1, <2>2 DEF ReachInv
  <2>4. BlockInv'
    BY <1>1, <1>2, <1>3, <1>5, <2>1 DEF BlockInv
  <2>5. QED
    BY <1>1, <1>2, <2>1, <2>3, <2>4
       DEF BuildInv, PhaseInv, GraphInv, LinkInv, UnrollInv, SortInv, Phases
<1>8. QED
  BY <1>6, <1>7

LEMMA RemoveUnreachableInv == BuildInv /\ RemoveUnreachable => BuildInv'
<1> SUFFICES ASSUME BuildInv, RemoveUnreachable PROVE BuildInv'
  OBVIOUS
<1>1. /\ phase = "remove_unreachable" /\ analysed \in BOOLEAN
      /\ listing \in Listings /\ options \in Options
      /\ ~Malformed /\ Sound(graph, Live) /\ IsFiniteSet(Live) /\ Start \in nodes
  BY DEF BuildInv, PhaseInv, GraphInv, RemoveUnreachable
<1>2. /\ listing' = listing /\ options' = options /\ unrolled' = unrolled
      /\ reached' = reached /\ analysed' = analysed
      /\ (Malformed)' = Malformed /\ Ids' = Ids
  BY DEF RemoveUnreachable, unrollVars, staticVars, Malformed, Ids
<1>3. \A id : (Onward(id))' = Onward(id)
  BY <1>2 DEF Onward, TypeAt, Target, Instr, Ids
<1>4. Start \in reached /\ reached \subseteq Live /\ \A nd \in reached : Succs(graph, nd) \subseteq reached
  BY <1>1 DEF BuildInv, ReachInv
<1>5. ~analysed =>
        /\ unrolled = {}
        /\ \A nd \in GraphNodes(graph) : LoopDepth(nd) = 0
        /\ \A nd \in nodes :
             /\ graph.block[nd] # <<>> /\ ExitId(nd) \in Ids \cup {FinId} /\ Id(nd) <= ExitId(nd)
             /\ nd \in reached => graph.succ[nd] = Onward(ExitId(nd))
  BY <1>1 DEF BuildInv, BlockInv
<1>6. ASSUME NEW nd \in nodes \ reached,
             graph' = UnlinkAll(graph, nd), nodes' = nodes \ {nd}, phase' = phase
      PROVE  BuildInv'
  <2>1. nd \in Live /\ nodes \subseteq Live
    BY DEF Live
  <2>2. /\ Sound(graph', Live) /\ Sound(graph', Live \ {nd})
        /\ GraphNodes(graph') = GraphNodes(graph) /\ graph'.block = graph.block
        /\ \A m \in Live, b \in BOOLEAN :
             graph'.succ[m][b] = IF m = nd \/ graph.succ[m][b] = nd THEN NoNode ELSE graph.succ[m][b]
    BY <1>1, <1>6, <2>1, UnlinkAllSound
  <2>3. Live' = Live \/ Live' = Live \ {nd}
    BY <1>2, <1>6 DEF Live
  <2>4. Sound(graph', Live') /\ IsFiniteSet(Live') /\ Live \ {nd} \subseteq Live'
    <3>1. IsFiniteSet(Live) /\ IsFiniteSet(Live \ {nd})
      BY <1>1, FS_RemoveElement
    <3>2. Sound(graph', Live) /\ Sound(graph', Live \ {nd})
      BY <2>2
    <3>3. QED
      BY <2>3, <3>1, <3>2
  <2>5. Start \in nodes'
    BY <1>1, <1>4, <1>6
  <2>6. ASSUME NEW m \in reached PROVE graph'.succ[m] = graph.succ[m]
    <3>1. \A b \in BOOLEAN : graph.succ[m][b] # nd
      <4>1. SUFFICES ASSUME NEW b \in BOOLEAN, graph.succ[m][b] = nd PROVE FALSE
        OBVIOUS
      <4>2. nd # NoNode
        BY <1>1, <2>1, NoNodeIsNone, SoundTypes
      <4>3. nd \in Succs(graph, m)
        BY <4>1, <4>2 DEF Succs, Outs
      <4>4. QED
        BY <1>4, <4>3
    <3>2. m \in Live /\ m # nd
      BY <1>4
    <3>3. \A b \in BOOLEAN : graph'.succ[m][b] = graph.succ[m][b]
      BY <2>2, <3>1, <3>2
    <3>4. graph'.succ[m] \in [BOOLEAN -> Node \cup {NoNode}] /\ graph.succ[m] \in [BOOLEAN -> Node \cup {NoNode}]
      BY <1>1, <2>2, <3>2, SoundTypes
    <3>5. QED
      BY <3>3, <3>4
  <2>7. \A m \in reached : Succs(graph', m) = Succs(graph, m)
    BY <2>6 DEF Succs, Outs
  <2>8. ReachInv'
    BY <1>1, <1>2, <1>4, <1>6, <2>4, <2>7 DEF ReachInv
  <2>9. \A m : (ExitId(m))' = ExitId(m)
    BY <2>2 DEF ExitId
  <2>10. BlockInv'
    BY <1>1, <1>2, <1>3, <1>5, <1>6, <2>2, <2>6, <2>9 DEF BlockInv
  <2>11. QED
    BY <1>1, <1>2, <1>6, <2>4, <2>5, <2>8, <2>10
       DEF BuildInv, PhaseInv, GraphInv, LinkInv, UnrollInv, SortInv, Phases
<1>7. ASSUME nodes \subseteq reached, graph' = graph, nodes' = nodes,
             IF analysed THEN phase' = "begin_sort" /\ UNCHANGED todo
                         ELSE phase' = "merge_edges" /\ todo' = nodes
      PROVE  BuildInv'
  <2>1. Live' = Live /\ \A m : (ExitId(m))' = ExitId(m)
    BY <1>2, <1>7 DEF Live, ExitId
  <2>2. BlockInv'
    BY <1>1, <1>2, <1>3, <1>5, <1>7, <2>1 DEF BlockInv
  <2>3. QED
    BY <1>1, <1>2, <1>7, <2>1, <2>2
       DEF BuildInv, PhaseInv, GraphInv, LinkInv, ReachInv, UnrollInv, SortInv, Phases
<1>8. QED
  BY <1>6, <1>7 DEF RemoveUnreachable

\* The edges out of a node are finitely many.
LEMMA OutsFinite ==
  ASSUME NEW g, NEW nd
  PROVE  Outs(g, nd) \subseteq BOOLEAN /\ IsFiniteSet(Outs(g, nd)) /\ IsFiniteSet(BOOLEAN)
<1>1. Outs(g, nd) \subseteq BOOLEAN
  BY DEF Outs
<1>2. IsFiniteSet({TRUE}) /\ BOOLEAN = {TRUE} \cup {FALSE}
  BY FS_Singleton
<1>3. IsFiniteSet(BOOLEAN)
  BY <1>2, FS_AddElement
<1>4. QED
  BY <1>1, <1>3, FS_Subset

\* What merge_edges joins: a block that does not jump, and what follows it.
LEMMA MergeableFacts ==
  ASSUME BuildInv, phase = "merge_edges", NEW nd \in nodes, Mergeable(nd),
         NEW s \in Succs(graph, nd)
  PROVE  /\ s \in nodes /\ s # Start
         /\ ExitId(nd) \in Nat /\ Id(s) \in Nat /\ Id(nd) \in Nat
         /\ Id(nd) <= ExitId(nd) /\ ExitId(nd) < Id(s)
         /\ \A p \in graph.pred[s] : p[1] = nd
         /\ \A b \in BOOLEAN : graph.succ[nd][b] \in {s, NoNode}
         /\ TypeAt(ExitId(nd)) = "other" /\ s = Target(ExitId(nd) + 1)
<1> DEFINE e == ExitId(nd)
<1>1. /\ listing \in Listings /\ ~Malformed /\ Sound(graph, nodes) /\ IsFiniteSet(nodes)
      /\ graph.succ[nd] = Onward(e) /\ e \in Ids \cup {FinId} /\ Id(nd) <= e
  <2>1. ~analysed /\ phase # "init_nodes" /\ phase # "bad_listing" /\ listing \in Listings
    BY DEF BuildInv, PhaseInv
  <2>2. unrolled = {} /\ Live = nodes
    BY <2>1 DEF BuildInv, BlockInv, Live
  <2>3. ~Malformed /\ Sound(graph, nodes) /\ IsFiniteSet(nodes)
    BY <2>1, <2>2 DEF BuildInv, GraphInv
  <2>4. graph.succ[nd] = Onward(e) /\ e \in Ids \cup {FinId} /\ Id(nd) <= e
    BY <2>1 DEF BuildInv, BlockInv
  <2>5. QED
    BY <2>1, <2>3, <2>4
<1>2. /\ Ids \subseteq Nat /\ 0 \in Ids /\ FinId \notin Ids /\ FinId \in Nat
      /\ \A id \in Ids : id < FinId /\ Instr(id).type \in {"branch", "jump", "other"}
  BY <1>1, ListingFacts, ListingAssumption
<1>3. nd \in Node /\ Id(nd) \in Nat /\ nodes \subseteq Node
  BY <1>1, SoundTypes DEF Node, Id
<1> HIDE DEF e
<1>4. \A a : Target(a) # NoNode
  <2>1. \A id \in Nat : <<id, 0>> # NoNode
    BY NoNodeIsNone DEF Node
  <2>2. QED
    BY <1>2, <2>1 DEF Target, Fin
<1>5. PICK b \in BOOLEAN : Outs(graph, nd) = {b}
  <2>1. Cardinality(Outs(graph, nd)) = 1
    BY DEF Mergeable
  <2>2. QED
    BY <2>1, OutsFinite, FS_Singleton
<1>6. \A c \in BOOLEAN : Onward(e)[c] # NoNode <=> c = b
  BY <1>1, <1>5 DEF Outs
<1>7. e \in Ids /\ TypeAt(e) = "other"
  <2>1. e # FinId
    BY <1>1, <1>6, OnwardType DEF Unlinked
  <2>2. e \in Ids /\ TypeAt(e) \in {"branch", "jump", "other"}
    BY <1>1, <1>2, <2>1 DEF TypeAt
  <2>3. TypeAt(e) # "jump"
    BY DEF Mergeable, ExitType, e
  <2>4. TypeAt(e) # "branch"
    <3>1. SUFFICES ASSUME TypeAt(e) = "branch" PROVE FALSE
      OBVIOUS
    <3>2. \A c \in BOOLEAN : Onward(e)[c] = IF c THEN Target(Instr(e).br) ELSE Target(e + 1)
      BY <3>1 DEF Onward
    <3>3. \A c \in BOOLEAN : Onward(e)[c] # NoNode
      BY <1>4, <3>2
    <3>4. QED
      BY <1>6, <3>3
  <2>5. QED
    BY <2>2, <2>3, <2>4
<1>8. \A c \in BOOLEAN : Onward(e)[c] = IF c THEN NoNode ELSE Target(e + 1)
  BY <1>7 DEF Onward
<1>9. s = Target(e + 1)
  <2>1. PICK c \in BOOLEAN : c \in Outs(graph, nd) /\ s = graph.succ[nd][c]
    BY DEF Succs, Outs
  <2>2. s = Onward(e)[c] /\ s # NoNode
    BY <1>1, <2>1 DEF Outs
  <2>3. QED
    BY <1>8, <2>2
<1>10. e \in Nat /\ Id(s) \in Nat /\ e < Id(s) /\ s # Start
  BY <1>2, <1>7, <1>9 DEF Target, Fin, Start, Id
<1>11. \A c \in BOOLEAN : graph.succ[nd][c] \in {s, NoNode}
  BY <1>1, <1>8, <1>9
<1>12. s \in nodes /\ \E c \in BOOLEAN : graph.succ[nd][c] = s /\ <<nd, c>> \in graph.pred[s]
  <2>1. PICK c \in BOOLEAN : s = graph.succ[nd][c] /\ s # NoNode
    BY DEF Succs, Outs
  <2>2. \A m \in nodes, d \in BOOLEAN :
           /\ graph.succ[m][d] \in Node \cup {NoNode}
           /\ d \in Outs(graph, m) <=> graph.succ[m][d] # NoNode
           /\ graph.succ[m][d] # NoNode => graph.succ[m][d] \in nodes
           /\ graph.succ[m][d] # NoNode => <<m, d>> \in graph.pred[graph.succ[m][d]]
    <3>1. Sound(graph, nodes)
      BY <1>1
    <3>2. QED
      BY <3>1, SuccThere, Zenon
  <2>3. s \in nodes /\ <<nd, c>> \in graph.pred[s]
    BY <2>1, <2>2, Zenon
  <2>4. QED
    BY <2>1, <2>3
<1>13. \A p \in graph.pred[s] : p[1] = nd
  <2>1. graph.pred[s] \subseteq nodes \X BOOLEAN
    BY <1>1, <1>12, ConsistentIff DEF Sound
  <2>2. IsFiniteSet(nodes \X BOOLEAN)
    BY <1>1, OutsFinite, FS_Product
  <2>3. IsFiniteSet(graph.pred[s])
    BY <2>1, <2>2, FS_Subset
  <2>4. Cardinality(graph.pred[s]) = 1
    BY DEF Mergeable, InDegree
  <2>5. PICK q : graph.pred[s] = {q}
    BY <2>3, <2>4, FS_Singleton
  <2>6. PICK c \in BOOLEAN : <<nd, c>> \in graph.pred[s]
    BY <1>12
  <2>7. QED
    BY <2>5, <2>6
<1>14. QED
  BY <1>1, <1>3, <1>7, <1>9, <1>10, <1>11, <1>12, <1>13 DEF e

LEMMA MergeEdgesInv == BuildInv /\ MergeEdges => BuildInv'
<1> SUFFICES ASSUME BuildInv, MergeEdges PROVE BuildInv'
  OBVIOUS
<1>1. /\ phase = "merge_edges" /\ analysed = FALSE /\ listing \in Listings /\ options \in Options
      /\ ~Malformed /\ unrolled = {} /\ Live = nodes
      /\ Sound(graph, nodes) /\ IsFiniteSet(nodes) /\ Start \in nodes /\ todo \subseteq nodes
  BY DEF BuildInv, PhaseInv, GraphInv, BlockInv, UnrollInv, MergeEdges, Live
<1>2. /\ listing' = listing /\ options' = options /\ unrolled' = unrolled /\ phase' = phase
      /\ analysed' = analysed
      /\ (Malformed)' = Malformed /\ Ids' = Ids
  BY DEF MergeEdges, unrollVars, staticVars, Malformed, Ids
<1>3. \A id : (Onward(id))' = Onward(id)
  BY <1>2 DEF Onward, TypeAt, Target, Instr, Ids
<1>4. /\ \A nd \in GraphNodes(graph) : LoopDepth(nd) = 0
      /\ \A nd \in nodes :
           /\ graph.block[nd] # <<>> /\ ExitId(nd) \in Ids \cup {FinId} /\ Id(nd) <= ExitId(nd)
           /\ graph.succ[nd] = Onward(ExitId(nd))
  BY <1>1 DEF BuildInv, BlockInv
<1>5. ASSUME NEW nd \in todo, NEW s \in Succs(graph, nd), Mergeable(nd),
             graph' = MergeNode(graph, nd, s), nodes' = nodes \ {s}, todo' = todo \ {s}
      PROVE  BuildInv'
  <2>1. /\ s \in nodes /\ s # Start
        /\ ExitId(nd) \in Nat /\ Id(s) \in Nat /\ Id(nd) \in Nat
        /\ Id(nd) <= ExitId(nd) /\ ExitId(nd) < Id(s)
        /\ \A p \in graph.pred[s] : p[1] = nd
        /\ \A b \in BOOLEAN : graph.succ[nd][b] \in {s, NoNode}
    BY <1>1, <1>5, MergeableFacts
  <2>2. nd \in nodes /\ nd # s
    BY <1>1, <2>1
  <2>3. /\ Sound(graph', nodes') /\ GraphNodes(graph') = GraphNodes(graph)
        /\ graph'.block = [graph.block EXCEPT ![nd] = @ \o graph.block[s], ![s] = <<>>]
        /\ graph'.succ = [graph.succ EXCEPT ![nd] = graph.succ[s]]
    <3>1. Sound(graph, nodes) /\ s \in nodes /\ nd # s
      BY <1>1, <2>1, <2>2
    <3>2. Merged(graph, MergeNode(graph, nd, s), nodes, nd, s)
      BY <2>1, <2>2, <3>1, MergeSound
    <3>3. QED
      BY <1>5, <3>2 DEF Merged
  <2>4. /\ graph.block \in [GraphNodes(graph) -> Seq(Nat)] /\ nodes \subseteq GraphNodes(graph)
        /\ graph.succ \in [GraphNodes(graph) -> [BOOLEAN -> Node \cup {NoNode}]]
    BY <1>1, SoundTypes
  <2>5. Live' = nodes' /\ IsFiniteSet(nodes') /\ Start \in nodes' /\ todo' \subseteq nodes'
    BY <1>1, <1>2, <1>5, <2>1, FS_RemoveElement DEF Live
  <2>6. ASSUME NEW m \in nodes', m # nd
        PROVE  graph'.block[m] = graph.block[m] /\ graph'.succ[m] = graph.succ[m]
    BY <1>5, <2>3, <2>4, <2>6
  <2>7. /\ graph'.block[nd] # <<>> /\ Last(graph'.block[nd]) = ExitId(s)
        /\ graph'.succ[nd] = graph.succ[s]
    <3>1. graph.block[nd] \in Seq(Nat) /\ graph.block[s] \in Seq(Nat) /\ graph.block[s] # <<>>
      BY <1>4, <2>1, <2>2, <2>4
    <3> DEFINE v == graph.block[nd] \o graph.block[s]
    <3>2. v # <<>> /\ Last(v) = Last(graph.block[s])
      BY <3>1, LastConcat
    <3>3. graph'.block = [graph.block EXCEPT ![nd] = v, ![s] = <<>>]
      BY <2>3
    <3> HIDE DEF v
    <3>4. graph'.block[nd] = v
      BY <2>2, <2>4, <3>3
    <3>5. graph'.succ[nd] = graph.succ[s]
      BY <2>2, <2>3, <2>4
    <3>6. QED
      BY <3>2, <3>4, <3>5 DEF ExitId
  <2>8. ASSUME NEW m \in nodes'
        PROVE  /\ graph'.block[m] # <<>> /\ Last(graph'.block[m]) \in Ids \cup {FinId}
               /\ Id(m) <= Last(graph'.block[m])
               /\ graph'.succ[m] = Onward(Last(graph'.block[m]))
    <3>1. CASE m = nd
      <4>1. ExitId(s) \in Ids \cup {FinId} /\ Id(s) <= ExitId(s) /\ graph.succ[s] = Onward(ExitId(s))
        BY <1>4, <2>1
      <4>2. ExitId(s) \in Nat
        BY <1>1, <4>1, OnwardType
      <4>3. Id(nd) <= ExitId(s)
        BY <2>1, <4>1, <4>2
      <4>4. QED
        BY <2>7, <3>1, <4>1, <4>3
    <3>2. CASE m # nd
      <4>1. m \in nodes
        BY <1>5
      <4>2. QED
        BY <1>4, <2>6, <3>2, <4>1 DEF ExitId
    <3>3. QED
      BY <3>1, <3>2
  <2>9. BlockInv'
    <3>1. \A m \in nodes' :
            /\ graph'.block[m] # <<>> /\ (ExitId(m))' \in Ids' \cup {FinId}
            /\ Id(m) <= (ExitId(m))' /\ graph'.succ[m] = (Onward(ExitId(m)))'
      BY <1>2, <2>8 DEF ExitId, Onward, TypeAt, Target, Instr, Ids
    <3>2. QED
      BY <1>1, <1>2, <1>4, <2>3, <3>1 DEF BlockInv
  <2>10. QED
    BY <1>1, <1>2, <2>3, <2>5, <2>9
       DEF BuildInv, PhaseInv, GraphInv, LinkInv, ReachInv, UnrollInv, SortInv, Phases
<1>6. ASSUME NEW nd \in todo, todo' = todo \ {nd}, graph' = graph, nodes' = nodes
      PROVE  BuildInv'
  <2>1. Live' = Live /\ \A m : (ExitId(m))' = ExitId(m)
    BY <1>2, <1>6 DEF Live, ExitId
  <2>2. BlockInv'
    BY <1>1, <1>2, <1>3, <1>4, <1>6, <2>1 DEF BlockInv
  <2>3. QED
    BY <1>1, <1>2, <1>6, <2>1, <2>2
       DEF BuildInv, PhaseInv, GraphInv, LinkInv, ReachInv, UnrollInv, SortInv, Phases
<1>7. QED
  BY <1>5, <1>6 DEF MergeEdges

LEMMA EndMergeEdgesInv == BuildInv /\ EndMergeEdges => BuildInv'
<1> SUFFICES ASSUME BuildInv, EndMergeEdges PROVE BuildInv'
  OBVIOUS
<1>1. /\ phase = "merge_edges" /\ analysed = FALSE /\ listing \in Listings /\ options \in Options
      /\ ~Malformed /\ unrolled = {} /\ Live = nodes
      /\ Sound(graph, nodes) /\ IsFiniteSet(nodes) /\ Start \in nodes
      /\ \A nd \in GraphNodes(graph) : LoopDepth(nd) = 0
  BY DEF BuildInv, PhaseInv, GraphInv, BlockInv, EndMergeEdges, Live
<1>2. /\ listing' = listing /\ options' = options /\ nodes' = nodes /\ graph' = graph
      /\ analysed' = analysed /\ (Malformed)' = Malformed
  BY DEF EndMergeEdges, staticVars, Malformed, Ids
<1>3. CASE Unrolls
  <2>1. /\ phase' = "unroll" /\ stack' = <<[nd |-> Start, i |-> 0]>>
        /\ visited' = [id \in {Id(nd) : nd \in nodes} |-> 0] /\ unrolled' = unrolled
    BY <1>3 DEF EndMergeEdges
  <2>2. Live' = nodes
    BY <1>1, <1>2, <2>1 DEF Live
  <2>3. stack' \in Seq([nd : nodes, i : Nat])
    BY <1>1, <2>1
  <2>4. visited' \in [DOMAIN visited' -> Int] /\ \A nd \in nodes : Id(nd) \in DOMAIN visited'
    BY <2>1
  <2>5. UnrollInv'
    BY <1>1, <1>2, <2>1, <2>2, <2>3, <2>4 DEF UnrollInv
  <2>6. QED
    BY <1>1, <1>2, <2>1, <2>2, <2>5
       DEF BuildInv, PhaseInv, GraphInv, BlockInv, LinkInv, ReachInv, SortInv, Phases
<1>4. CASE ~Unrolls
  <2>1. phase' = "begin_sort" /\ unrolled' = unrolled
    BY <1>4 DEF EndMergeEdges, unrollVars
  <2>2. Live' = nodes
    BY <1>1, <1>2, <2>1 DEF Live
  <2>3. QED
    BY <1>1, <1>2, <2>1, <2>2
       DEF BuildInv, PhaseInv, GraphInv, BlockInv, LinkInv, ReachInv, UnrollInv, SortInv, Phases
<1>5. QED
  BY <1>3, <1>4

\* succ() lists the edges a node has.
LEMMA SuccOrderIn ==
  ASSUME NEW g, NEW nd
  PROVE  /\ SuccOrder(g, nd) \in Seq(Outs(g, nd))
         /\ \A i \in 1..Len(SuccOrder(g, nd)) : SuccOrder(g, nd)[i] \in Outs(g, nd)
<1> DEFINE S == Outs(g, nd)
           t == IF TRUE \in Outs(g, nd) THEN <<TRUE>> ELSE <<>>
           f == IF FALSE \in Outs(g, nd) THEN <<FALSE>> ELSE <<>>
<1>1. /\ SuccOrder(g, nd) = t \o f
  BY DEF SuccOrder
<1>2. \A x \in S : <<x>> \in Seq(S)
  <2> HIDE DEF S
  <2>1. QED
    OBVIOUS
<1>3. t \in Seq(S)
  <2>1. <<>> \in Seq(S)
    <3> HIDE DEF S
    <3>1. QED
      OBVIOUS
  <2>2. TRUE \in S => <<TRUE>> \in Seq(S)
    BY <1>2, Zenon
  <2>3. QED
    BY <2>1, <2>2, Zenon
<1>4. f \in Seq(S)
  <2>1. <<>> \in Seq(S)
    <3> HIDE DEF S
    <3>1. QED
      OBVIOUS
  <2>2. FALSE \in S => <<FALSE>> \in Seq(S)
    BY <1>2, Zenon
  <2>3. QED
    BY <2>1, <2>2, Zenon
<1> HIDE DEF S, t, f
<1>5. t \o f \in Seq(S)
  BY <1>3, <1>4
<1>6. SuccOrder(g, nd) \in Seq(S)
  BY <1>1, <1>5, Zenon
<1>7. QED
  BY <1>6, ElementIn DEF S

\* What unroll looks at
LEMMA TopFacts ==
  ASSUME BuildInv, phase = "unroll", stack # <<>>
  PROVE  /\ Sound(graph, Live) /\ IsFiniteSet(Live)
         /\ stack \in Seq([nd : Live, i : Nat]) /\ Len(stack) \in 1..Len(stack)
         /\ Top \in [nd : Live, i : Nat]
         /\ Front(stack) \in Seq([nd : Live, i : Nat])
         /\ [stack EXCEPT ![Len(stack)].i = @ + 1] \in Seq([nd : Live, i : Nat])
         /\ Top.i < Len(Edges) =>
              /\ Branch \in BOOLEAN /\ Branch \in Outs(graph, Top.nd)
              /\ Succ # NoNode /\ Succ \in Live
<1>1. /\ Sound(graph, Live) /\ IsFiniteSet(Live) /\ stack \in Seq([nd : Live, i : Nat])
  BY DEF BuildInv, GraphInv, UnrollInv
<1>2. Len(stack) \in 1..Len(stack)
  BY <1>1
<1> DEFINE R == [nd : Live, i : Nat]
<1>3. Top \in R /\ Front(stack) \in Seq(R)
  <2>1. Last(stack) = stack[Len(stack)] /\ Last(stack) \in R /\ Front(stack) \in Seq(R)
    BY <1>1, Shorter
  <2>2. QED
    BY <2>1 DEF Top
<1>4. [stack EXCEPT ![Len(stack)].i = @ + 1] \in Seq(R)
  <2>1. [Top EXCEPT !.i = Top.i + 1] \in R
    BY <1>3
  <2>2. [stack EXCEPT ![Len(stack)].i = @ + 1] = [stack EXCEPT ![Len(stack)] = [Top EXCEPT !.i = Top.i + 1]]
    BY DEF Top
  <2> DEFINE r == [Top EXCEPT !.i = Top.i + 1]
  <2> HIDE DEF r, R
  <2>3. [stack EXCEPT ![Len(stack)] = r] \in Seq(R)
    BY <1>1, <1>2, <2>1 DEF r, R
  <2>4. QED
    BY <2>2, <2>3 DEF r
<1>5. ASSUME Top.i < Len(Edges)
      PROVE  /\ Branch \in BOOLEAN /\ Branch \in Outs(graph, Top.nd)
             /\ Succ # NoNode /\ Succ \in Live
  <2>1. Top.nd \in Live /\ Top.i \in Nat
    BY <1>3
  <2>2. SuccOrder(graph, Top.nd) \in Seq(Outs(graph, Top.nd))
    BY SuccOrderIn
  <2>3. Len(Edges) \in Nat
    BY <2>2 DEF Edges
  <2>4. Top.i + 1 \in 1..Len(Edges)
    BY <1>5, <2>1, <2>3
  <2>5. Branch \in Outs(graph, Top.nd)
    BY <2>4, SuccOrderIn, Zenon DEF Branch, Edges
  <2>6. Branch \in BOOLEAN /\ graph.succ[Top.nd][Branch] # NoNode
    BY <2>5 DEF Outs
  <2>7. \A m \in Live, c \in BOOLEAN :
           /\ graph.succ[m][c] \in Node \cup {NoNode}
           /\ c \in Outs(graph, m) <=> graph.succ[m][c] # NoNode
           /\ graph.succ[m][c] # NoNode => graph.succ[m][c] \in Live
           /\ graph.succ[m][c] # NoNode => <<m, c>> \in graph.pred[graph.succ[m][c]]
    <3>1. Sound(graph, Live)
      BY <1>1
    <3>2. QED
      BY <3>1, SuccThere, Zenon
  <2>8. graph.succ[Top.nd][Branch] \in Live
    BY <2>1, <2>6, <2>7, Zenon
  <2>9. QED
    BY <2>5, <2>6, <2>8 DEF Succ
<1>6. QED
  BY <1>1, <1>2, <1>3, <1>4, <1>5

\* An edge that is followed into a copy
LEMMA DeeperLinks ==
  ASSUME BuildInv, phase = "unroll", stack # <<>>, Top.i < Len(Edges), Deeper
  PROVE  LET copy == <<Id(Succ), Depth>>
             known == IF copy \in unrolled THEN graph ELSE Clone(graph, Succ, copy)
             k == Unlink(known, Top.nd, Branch)
             h == Link(k, Top.nd, Branch, copy)
             L == Live \cup {copy}
         IN  /\ Sound(known, L) /\ GraphNodes(known) \subseteq GraphNodes(graph) \cup {copy}
             /\ known.succ[Top.nd] = graph.succ[Top.nd]
             /\ Unlinks(known, k, L, Top.nd, Branch) /\ Linked(k, h, L, Top.nd, Branch, copy)
             /\ Id(copy) = Id(Succ) /\ LoopDepth(copy) > 0
             /\ copy \notin unrolled => copy \notin GraphNodes(graph)
<1> DEFINE copy == <<Id(Succ), Depth>>
           known == IF copy \in unrolled THEN graph ELSE Clone(graph, Succ, copy)
           k == Unlink(known, Top.nd, Branch)
           h == Link(k, Top.nd, Branch, copy)
           L == Live \cup {copy}
<1>1. /\ Sound(graph, Live) /\ Top.nd \in Live
      /\ Branch \in BOOLEAN /\ Succ # NoNode /\ Succ \in Live /\ Succ = graph.succ[Top.nd][Branch]
  BY TopFacts DEF Succ
<1>2. /\ visited \in [DOMAIN visited -> Int] /\ Id(Succ) \in DOMAIN visited
      /\ \A nd \in GraphNodes(graph) : LoopDepth(nd) > 0 => nd \in unrolled
  BY <1>1 DEF BuildInv, UnrollInv
<1>3. /\ \A nd \in Live : nd \in Node /\ nd \in GraphNodes(graph) /\ Id(nd) \in Nat /\ LoopDepth(nd) \in Nat
  BY <1>1, SoundTypes DEF Node, Id, LoopDepth
<1>4. Depth \in Nat /\ Depth > 0
  <2>1. visited[Id(Succ)] \in Int
    BY <1>2
  <2>2. Depth \in Nat
    BY <1>1, <1>3, <2>1 DEF Depth
  <2>3. Depth > LoopDepth(Succ) /\ LoopDepth(Succ) \in Nat
    BY <1>1, <1>3 DEF Deeper
  <2>4. QED
    BY <2>2, <2>3
<1>5. copy \in Node /\ LoopDepth(copy) = Depth /\ Id(copy) = Id(Succ)
  BY <1>1, <1>3, <1>4 DEF Node, LoopDepth, Id
<1> HIDE DEF copy
<1>6. /\ Sound(known, L) /\ GraphNodes(known) \subseteq GraphNodes(graph) \cup {copy}
      /\ known.succ[Top.nd] = graph.succ[Top.nd]
  <2>1. CASE copy \in unrolled
    BY <1>1, <2>1 DEF Live
  <2>2. CASE copy \notin unrolled
    <3>1. copy \notin GraphNodes(graph)
      BY <1>2, <1>4, <1>5, <2>2
    <3>2. known = Clone(graph, Succ, copy)
      BY <2>2
    <3>3. Cloned(graph, Clone(graph, Succ, copy), Live, copy)
      BY <1>1, <1>5, <3>1, CloneSound, Zenon
    <3> HIDE DEF known
    <3>4. QED
      BY <1>1, <1>3, <3>2, <3>3 DEF Cloned
  <2>3. QED
    BY <2>1, <2>2
<1> HIDE DEF known
<1>7. Top.nd \in L /\ copy \in L
  BY <1>1
<1>8. known.succ[Top.nd][Branch] # NoNode
  BY <1>1, <1>6
<1>9. Unlinks(known, k, L, Top.nd, Branch)
  BY <1>1, <1>6, <1>7, <1>8, UnlinkSound, Zenon
<1> HIDE DEF k
<1>10. Sound(k, L) /\ GraphNodes(k) = GraphNodes(known)
  BY <1>9 DEF Unlinks
<1>11. k.succ[Top.nd][Branch] = NoNode
  <2>1. k.succ = [known.succ EXCEPT ![Top.nd] = [known.succ[Top.nd] EXCEPT ![Branch] = NoNode]]
    BY <1>9 DEF Unlinks
  <2>2. /\ known.succ \in [GraphNodes(known) -> [BOOLEAN -> Node \cup {NoNode}]]
        /\ Top.nd \in GraphNodes(known)
    BY <1>6, <1>7, SoundTypes
  <2>3. QED
    BY <1>1, <2>1, <2>2
<1>12. Linked(k, h, L, Top.nd, Branch, copy)
  BY <1>1, <1>7, <1>10, <1>11, LinkSound, Zenon
<1> HIDE DEF h
<1>13. copy \notin unrolled => copy \notin GraphNodes(graph)
  BY <1>2, <1>4, <1>5
<1>14. QED
  BY <1>4, <1>5, <1>6, <1>9, <1>12, <1>13 DEF h, k, known, copy

\* and the graph that comes out
LEMMA DeeperSound ==
  ASSUME BuildInv, phase = "unroll", stack # <<>>, Top.i < Len(Edges), Deeper
  PROVE  LET copy == <<Id(Succ), Depth>>
             known == IF copy \in unrolled THEN graph ELSE Clone(graph, Succ, copy)
             h == Link(Unlink(known, Top.nd, Branch), Top.nd, Branch, copy)
         IN  /\ Sound(h, Live \cup {copy})
             /\ GraphNodes(h) \subseteq GraphNodes(graph) \cup {copy}
             /\ Id(copy) = Id(Succ) /\ LoopDepth(copy) > 0
<1> DEFINE copy == <<Id(Succ), Depth>>
           known == IF copy \in unrolled THEN graph ELSE Clone(graph, Succ, copy)
           k == Unlink(known, Top.nd, Branch)
           h == Link(k, Top.nd, Branch, copy)
           L == Live \cup {copy}
<1>1. /\ GraphNodes(known) \subseteq GraphNodes(graph) \cup {copy}
      /\ Unlinks(known, k, L, Top.nd, Branch) /\ Linked(k, h, L, Top.nd, Branch, copy)
      /\ Id(copy) = Id(Succ) /\ LoopDepth(copy) > 0
  BY DeeperLinks, Zenon
<1> HIDE DEF copy, known, k, h, L
<1>2. Sound(h, L) /\ GraphNodes(h) \subseteq GraphNodes(graph) \cup {copy}
  BY <1>1 DEF Unlinks, Linked
<1>3. QED
  BY <1>1, <1>2 DEF h, k, known, copy, L

LEMMA UnrollStepInv == BuildInv /\ UnrollStep => BuildInv'
<1> SUFFICES ASSUME BuildInv, UnrollStep PROVE BuildInv'
  OBVIOUS
<1> DEFINE R == [nd : Live, i : Nat]
<1>1. /\ phase = "unroll" /\ stack # <<>> /\ analysed = FALSE
      /\ listing \in Listings /\ options \in Options /\ ~Malformed /\ Start \in nodes
      /\ visited \in [DOMAIN visited -> Int]
      /\ \A nd \in Live : Id(nd) \in DOMAIN visited
      /\ \A nd \in GraphNodes(graph) : LoopDepth(nd) > 0 => nd \in unrolled
      /\ \A nd \in unrolled : LoopDepth(nd) > 0
  BY DEF BuildInv, PhaseInv, GraphInv, UnrollInv, UnrollStep
<1>2. /\ listing' = listing /\ options' = options /\ nodes' = nodes /\ phase' = phase
      /\ analysed' = analysed /\ (Malformed)' = Malformed
  BY DEF UnrollStep, staticVars, Malformed, Ids
<1>3. /\ Sound(graph, Live) /\ IsFiniteSet(Live)
      /\ stack \in Seq(R) /\ Len(stack) \in 1..Len(stack)
      /\ Top \in R /\ Front(stack) \in Seq(R)
      /\ [stack EXCEPT ![Len(stack)].i = @ + 1] \in Seq(R)
      /\ Top.i < Len(Edges) =>
           /\ Branch \in BOOLEAN /\ Branch \in Outs(graph, Top.nd)
           /\ Succ # NoNode /\ Succ \in Live
  BY <1>1, TopFacts
<1>4. SUFFICES /\ Sound(graph', Live') /\ IsFiniteSet(Live') /\ \A nd \in unrolled' : LoopDepth(nd) > 0
               /\ stack' \in Seq([nd : Live', i : Nat])
               /\ visited' \in [DOMAIN visited -> Int]
               /\ \A nd \in Live' : Id(nd) \in DOMAIN visited
               /\ \A nd \in GraphNodes(graph') : LoopDepth(nd) > 0 => nd \in unrolled'
  <2>1. SUFFICES ASSUME /\ Sound(graph', Live') /\ IsFiniteSet(Live') /\ \A nd \in unrolled' : LoopDepth(nd) > 0
                        /\ stack' \in Seq([nd : Live', i : Nat])
                        /\ visited' \in [DOMAIN visited -> Int]
                        /\ \A nd \in Live' : Id(nd) \in DOMAIN visited
                        /\ \A nd \in GraphNodes(graph') : LoopDepth(nd) > 0 => nd \in unrolled'
                 PROVE  BuildInv'
    BY <1>1
  <2>2. DOMAIN visited' = DOMAIN visited
    BY <2>1
  <2>3. UnrollInv'
    BY <1>1, <1>2, <2>1, <2>2 DEF UnrollInv
  <2>4. QED
    BY <1>1, <1>2, <2>1, <2>3
       DEF BuildInv, PhaseInv, GraphInv, BlockInv, LinkInv, ReachInv, SortInv, Phases
<1>5. CASE Top.i < Len(Edges) /\ AtLimit /\ Cut
  <2>1. graph' = Unlink(graph, Top.nd, Branch) /\ stack' = stack /\ visited' = visited /\ unrolled' = unrolled
    BY <1>5 DEF Cut
  <2>2. Top.nd \in Live /\ graph.succ[Top.nd][Branch] # NoNode /\ Branch \in BOOLEAN
    BY <1>3, <1>5 DEF Succ
  <2>3. Unlinks(graph, Unlink(graph, Top.nd, Branch), Live, Top.nd, Branch)
    BY <1>3, <2>2, UnlinkSound, Zenon
  <2>4. Live' = Live
    BY <1>2, <2>1 DEF Live
  <2>5. Sound(graph', Live) /\ GraphNodes(graph') = GraphNodes(graph)
    BY <2>1, <2>3 DEF Unlinks
  <2>6. QED
    BY <1>1, <1>3, <2>1, <2>4, <2>5
<1>6. CASE Top.i < Len(Edges) /\ ~AtLimit /\ Follow
  <2> DEFINE copy == <<Id(Succ), Depth>>
             to == IF Deeper THEN copy ELSE Succ
             gone == [stack EXCEPT ![Len(stack)].i = @ + 1]
  <2>1. /\ IF to \in finished
           THEN stack' = gone /\ UNCHANGED visited
           ELSE /\ stack' = Append(gone, [nd |-> to, i |-> 0])
                /\ visited' = [visited EXCEPT ![Id(to)] = @ + 1]
    BY <1>6 DEF Follow
  <2>2. Succ \in Live /\ gone \in Seq(R)
    BY <1>3, <1>6
  <2>3. /\ Sound(graph', Live') /\ IsFiniteSet(Live') /\ Live \subseteq Live' /\ to \in Live'
        /\ \A nd \in unrolled' : LoopDepth(nd) > 0
        /\ \A nd \in Live' : Id(nd) \in DOMAIN visited
        /\ \A nd \in GraphNodes(graph') : LoopDepth(nd) > 0 => nd \in unrolled'
    <3>1. CASE Deeper
      <4> DEFINE known == IF copy \in unrolled THEN graph ELSE Clone(graph, Succ, copy)
                 h == Link(Unlink(known, Top.nd, Branch), Top.nd, Branch, copy)
      <4>1. graph' = h /\ unrolled' = unrolled \cup {copy}
        BY <1>6, <3>1 DEF Follow
      <4>2. /\ Sound(h, Live \cup {copy})
            /\ GraphNodes(h) \subseteq GraphNodes(graph) \cup {copy}
            /\ Id(copy) = Id(Succ) /\ LoopDepth(copy) > 0
        BY <1>1, <1>6, <3>1, DeeperSound, Zenon
      <4>3. to = copy
        BY <3>1
      <4> HIDE DEF h, copy, to
      <4>4. Live' = Live \cup {copy}
        BY <1>2, <4>1 DEF Live
      <4>5. IsFiniteSet(Live')
        BY <1>3, <4>4, FS_AddElement
      <4>6. Id(copy) \in DOMAIN visited
        BY <1>1, <2>2, <4>2
      <4>7. QED
        BY <1>1, <4>1, <4>2, <4>3, <4>4, <4>5, <4>6
    <3>2. CASE ~Deeper
      <4>1. graph' = graph /\ unrolled' = unrolled
        BY <1>6, <3>2 DEF Follow
      <4>2. Live' = Live /\ to = Succ
        BY <1>2, <3>2, <4>1 DEF Live
      <4>3. QED
        BY <1>1, <1>3, <2>2, <4>1, <4>2
    <3>3. QED
      BY <3>1, <3>2
  <2> HIDE DEF to, gone
  <2>4. gone \in Seq([nd : Live', i : Nat])
    <3> DEFINE Q == [nd : Live', i : Nat]
    <3>1. R \subseteq Q
      BY <2>3
    <3> HIDE DEF R, Q
    <3>2. gone \in Seq(Q)
      BY <2>2, <3>1
    <3>3. QED
      BY <3>2 DEF Q
  <2>5. stack' \in Seq([nd : Live', i : Nat]) /\ visited' \in [DOMAIN visited -> Int]
    <3>1. CASE to \in finished
      BY <1>1, <2>1, <2>4, <3>1
    <3>2. CASE to \notin finished
      <4>1. [nd |-> to, i |-> 0] \in [nd : Live', i : Nat]
        BY <2>3
      <4>2. stack' = Append(gone, [nd |-> to, i |-> 0])
        BY <2>1, <3>2
      <4>3. stack' \in Seq([nd : Live', i : Nat])
        BY <2>4, <4>1, <4>2, Longer
      <4>4. Id(to) \in DOMAIN visited /\ visited' = [visited EXCEPT ![Id(to)] = @ + 1]
        BY <2>1, <2>3, <3>2
      <4>5. visited' \in [DOMAIN visited -> Int]
        BY <1>1, <4>4
      <4>6. QED
        BY <4>3, <4>5
    <3>3. QED
      BY <3>1, <3>2
  <2>6. QED
    BY <2>3, <2>5
<1>7. CASE Top.i >= Len(Edges) /\ Return
  <2>1. /\ visited' = [visited EXCEPT ![Id(Top.nd)] = @ - 1] /\ stack' = Front(stack)
        /\ graph' = graph /\ unrolled' = unrolled
    BY <1>7 DEF Return
  <2>2. Live' = Live
    BY <1>2, <2>1 DEF Live
  <2>3. visited' \in [DOMAIN visited -> Int]
    <3>1. Id(Top.nd) \in DOMAIN visited
      BY <1>1, <1>3
    <3>2. QED
      BY <1>1, <2>1, <3>1
  <2>4. QED
    BY <1>1, <1>3, <2>1, <2>2, <2>3
<1>8. QED
  BY <1>5, <1>6, <1>7 DEF UnrollStep

LEMMA EndUnrollInv == BuildInv /\ EndUnroll => BuildInv'
<1> SUFFICES ASSUME BuildInv, EndUnroll PROVE BuildInv'
  OBVIOUS
<1>1. /\ phase = "unroll" /\ analysed = FALSE /\ listing \in Listings /\ options \in Options
      /\ ~Malformed /\ Sound(graph, Live) /\ IsFiniteSet(Live) /\ Start \in nodes
  BY DEF BuildInv, PhaseInv, GraphInv, EndUnroll
<1>2. /\ listing' = listing /\ options' = options /\ graph' = graph /\ unrolled' = unrolled
      /\ nodes' = nodes \cup unrolled /\ phase' = "begin_sort"
      /\ analysed' = analysed /\ (Malformed)' = Malformed
  BY DEF EndUnroll, unrollVars, staticVars, Malformed, Ids
<1>3. Live' = Live
  BY <1>2 DEF Live
<1>4. QED
  BY <1>1, <1>2, <1>3
     DEF BuildInv, PhaseInv, GraphInv, BlockInv, LinkInv, ReachInv, UnrollInv, SortInv, Phases

LEMMA BeginSortInv == BuildInv /\ BeginSort => BuildInv'
<1> SUFFICES ASSUME BuildInv, BeginSort PROVE BuildInv'
  OBVIOUS
<1>1. /\ phase = "begin_sort" /\ analysed \in BOOLEAN /\ listing \in Listings /\ options \in Options
      /\ ~Malformed /\ Sound(graph, Live) /\ IsFiniteSet(Live) /\ Start \in nodes
  BY DEF BuildInv, PhaseInv, GraphInv, BeginSort
<1>2. /\ listing' = listing /\ options' = options /\ graph' = graph /\ unrolled' = unrolled
      /\ nodes' = nodes /\ phase' = "topo_sort" /\ pending' = <<Start>> /\ order' = <<>>
      /\ seen' = [nd \in GraphNodes(graph) |-> 0]
      /\ analysed' = analysed /\ (Malformed)' = Malformed /\ Live' = Live
  BY DEF BeginSort, unrollVars, staticVars, Malformed, Ids, Live
<1>3. pending' \in Seq(Live) /\ order' \in Seq(Live) /\ seen' \in [GraphNodes(graph) -> Nat]
  <2>1. Start \in Live
    BY <1>1 DEF Live
  <2> DEFINE L == Live
  <2>2. Start \in L
    BY <2>1
  <2> HIDE DEF L
  <2>3. <<Start>> \in Seq(L) /\ <<>> \in Seq(L)
    BY <2>2
  <2>4. QED
    BY <1>2, <2>3 DEF L
<1>4. SortInv'
  BY <1>2, <1>3 DEF SortInv
<1>5. QED
  BY <1>1, <1>2, <1>4
     DEF BuildInv, PhaseInv, GraphInv, BlockInv, LinkInv, ReachInv, UnrollInv, Phases

\* How topo_sort counts an edge: See of SortStep
SeeEdge(acc, nd, b) ==
  LET s == graph.succ[nd][b]
      n == acc.seen[s] + 1
  IN IF s = NoNode THEN acc
     ELSE [seen |-> [acc.seen EXCEPT ![s] = n],
           pending |-> IF Complete(n, s) THEN Append(acc.pending, s) ELSE acc.pending]

LEMMA SortStepIs ==
  ASSUME SortStep
  PROVE  LET nd == Last(pending)
             all == SeeEdge(SeeEdge([seen |-> seen, pending |-> Front(pending)], nd, TRUE), nd, FALSE)
         IN  /\ seen' = all.seen /\ pending' = all.pending /\ order' = Append(order, nd)
BY DEF SortStep, SeeEdge

SortState == [seen : [GraphNodes(graph) -> Nat], pending : Seq(Live)]

LEMMA SeeEdgeType ==
  ASSUME Sound(graph, Live), NEW acc \in SortState, NEW nd \in Live
  PROVE  \A b \in BOOLEAN : SeeEdge(acc, nd, b) \in SortState
<1> SUFFICES ASSUME NEW b \in BOOLEAN PROVE SeeEdge(acc, nd, b) \in SortState
  OBVIOUS
<1> DEFINE s == graph.succ[nd][b]
           L == Live
<1>1. CASE s = NoNode
  BY <1>1 DEF SeeEdge
<1>2. CASE s # NoNode
  <2>1. \A m \in Live, c \in BOOLEAN :
           /\ graph.succ[m][c] \in Node \cup {NoNode}
           /\ c \in Outs(graph, m) <=> graph.succ[m][c] # NoNode
           /\ graph.succ[m][c] # NoNode => graph.succ[m][c] \in Live
           /\ graph.succ[m][c] # NoNode => <<m, c>> \in graph.pred[graph.succ[m][c]]
    BY SuccThere, Zenon
  <2>2. s \in L
    BY <1>2, <2>1
  <2>3. s \in GraphNodes(graph)
    BY <2>2, SoundTypes
  <2>4. acc.seen \in [GraphNodes(graph) -> Nat] /\ acc.pending \in Seq(L)
    BY DEF SortState
  <2> HIDE DEF s, L
  <2>5. [acc.seen EXCEPT ![s] = acc.seen[s] + 1] \in [GraphNodes(graph) -> Nat]
    BY <2>3, <2>4
  <2>6. Append(acc.pending, s) \in Seq(L)
    BY <2>2, <2>4
  <2>7. SeeEdge(acc, nd, b) =
          [seen |-> [acc.seen EXCEPT ![s] = acc.seen[s] + 1],
           pending |-> IF Complete(acc.seen[s] + 1, s) THEN Append(acc.pending, s) ELSE acc.pending]
    BY <1>2 DEF SeeEdge, s
  <2>8. QED
    BY <2>4, <2>5, <2>6, <2>7 DEF SortState, L
<1>3. QED
  BY <1>1, <1>2

LEMMA SortStepInv == BuildInv /\ SortStep => BuildInv'
<1> SUFFICES ASSUME BuildInv, SortStep PROVE BuildInv'
  OBVIOUS
<1>1. /\ phase = "topo_sort" /\ analysed \in BOOLEAN /\ listing \in Listings /\ options \in Options
      /\ ~Malformed /\ Sound(graph, Live) /\ IsFiniteSet(Live) /\ Start \in nodes
      /\ pending # <<>> /\ pending \in Seq(Live) /\ order \in Seq(Live)
      /\ seen \in [GraphNodes(graph) -> Nat]
  BY DEF BuildInv, PhaseInv, GraphInv, SortInv, SortStep
<1>2. /\ listing' = listing /\ options' = options /\ graph' = graph /\ unrolled' = unrolled
      /\ nodes' = nodes /\ phase' = phase
      /\ analysed' = analysed /\ (Malformed)' = Malformed /\ Live' = Live
  BY DEF SortStep, unrollVars, staticVars, Malformed, Ids, Live
<1> DEFINE nd == Last(pending)
           one == [seen |-> seen, pending |-> Front(pending)]
           two == SeeEdge(one, nd, TRUE)
           all == SeeEdge(two, nd, FALSE)
<1>3. nd \in Live /\ Front(pending) \in Seq(Live)
  BY <1>1, Shorter
<1>4. one \in SortState
  BY <1>1, <1>3 DEF SortState
<1>5. seen' = all.seen /\ pending' = all.pending /\ order' = Append(order, nd)
  BY SortStepIs
<1> HIDE DEF nd, one
<1>6. two \in SortState
  <2>1. \A b \in BOOLEAN : SeeEdge(one, nd, b) \in SortState
    BY <1>1, <1>3, <1>4, SeeEdgeType
  <2>2. QED
    BY <2>1
<1> HIDE DEF two
<1>7. all \in SortState
  <2>1. \A b \in BOOLEAN : SeeEdge(two, nd, b) \in SortState
    BY <1>1, <1>3, <1>6, SeeEdgeType
  <2>2. QED
    BY <2>1
<1> HIDE DEF all
<1>8. seen' \in [GraphNodes(graph) -> Nat] /\ pending' \in Seq(Live)
  BY <1>5, <1>7 DEF SortState
<1>9. order' \in Seq(Live)
  BY <1>1, <1>3, <1>5, Longer
<1>10. SortInv'
  BY <1>1, <1>2, <1>8, <1>9 DEF SortInv
<1>11. QED
  BY <1>1, <1>2, <1>10
     DEF BuildInv, PhaseInv, GraphInv, BlockInv, LinkInv, ReachInv, UnrollInv, Phases

LEMMA EndSortInv == BuildInv /\ EndSort => BuildInv'
<1> SUFFICES ASSUME BuildInv, EndSort PROVE BuildInv'
  OBVIOUS
<1>1. /\ phase = "topo_sort" /\ analysed \in BOOLEAN /\ listing \in Listings /\ options \in Options
      /\ ~Malformed /\ Sound(graph, Live) /\ IsFiniteSet(Live) /\ Start \in nodes
      /\ order \in Seq(Live)
  BY DEF BuildInv, PhaseInv, GraphInv, SortInv, EndSort
<1>2. /\ listing' = listing /\ options' = options /\ graph' = graph /\ unrolled' = unrolled
      /\ nodes' = nodes /\ phase' \in {"not_loop_free", "sorted"} /\ order' = order
      /\ analysed' = analysed /\ (Malformed)' = Malformed /\ Live' = Live
  BY DEF EndSort, unrollVars, sortVars, staticVars, Malformed, Ids, Live
<1>3. QED
  BY <1>1, <1>2
     DEF BuildInv, PhaseInv, GraphInv, BlockInv, LinkInv, ReachInv, UnrollInv, SortInv, Phases

LEMMA BeginStaticInv == BuildInv /\ BeginStatic => BuildInv'
<1> SUFFICES ASSUME BuildInv, BeginStatic PROVE BuildInv'
  OBVIOUS
<1>1. /\ phase = "sorted" /\ listing \in Listings /\ options \in Options
      /\ ~Malformed /\ Sound(graph, Live) /\ IsFiniteSet(Live) /\ Start \in nodes
      /\ order \in Seq(Live)
  BY DEF BuildInv, PhaseInv, GraphInv, SortInv, BeginStatic
<1>2. /\ listing' = listing /\ options' = options /\ graph' = graph /\ unrolled' = unrolled
      /\ nodes' = nodes /\ phase' = "static_analysis" /\ order' = order
      /\ pending' = order /\ todo' = nodes \ ToSet(order)
      /\ analysed' = TRUE /\ (Malformed)' = Malformed /\ Live' = Live
  BY DEF BeginStatic, unrollVars, Malformed, Ids, Live
<1>3. todo' \subseteq Live
  BY <1>2 DEF Live
<1>4. QED
  BY <1>1, <1>2, <1>3
     DEF BuildInv, PhaseInv, GraphInv, BlockInv, LinkInv, ReachInv, UnrollInv, SortInv, Phases

LEMMA UnlinkEither ==
  ASSUME NEW g, NEW nds, Sound(g, nds), NEW nd \in nds
  PROVE  /\ g.succ[nd][TRUE] # NoNode => Unlinks(g, Unlink(g, nd, TRUE), nds, nd, TRUE)
         /\ g.succ[nd][FALSE] # NoNode => Unlinks(g, Unlink(g, nd, FALSE), nds, nd, FALSE)
<1> DEFINE P(b) == g.succ[nd][b] # NoNode => Unlinks(g, Unlink(g, nd, b), nds, nd, b)
<1>1. ASSUME NEW b \in BOOLEAN PROVE P(b)
  BY UnlinkSound, Zenon
<1> HIDE DEF P
<1>2. \A b \in BOOLEAN : P(b)
  BY <1>1
<1>3. TRUE \in BOOLEAN /\ FALSE \in BOOLEAN
  OBVIOUS
<1>4. P(TRUE) /\ P(FALSE)
  BY <1>2, <1>3, Zenon
<1>5. QED
  BY <1>4, Zenon DEF P

LEMMA WithoutSound ==
  ASSUME NEW g, NEW nds, Sound(g, nds), NEW nd \in nds, NEW edges \in SUBSET Outs(g, nd)
  PROVE  Sound(Without(g, nd, edges), nds)
<1> DEFINE h == IF TRUE \in edges THEN Unlink(g, nd, TRUE) ELSE g
<1>1. /\ TRUE \in edges => g.succ[nd][TRUE] # NoNode
      /\ FALSE \in edges => g.succ[nd][FALSE] # NoNode
  BY DEF Outs
<1>2. Sound(h, nds) /\ (FALSE \in edges => h.succ[nd][FALSE] # NoNode)
  <2>1. CASE TRUE \in edges
    <3> DEFINE k == Unlink(g, nd, TRUE)
    <3>1. Unlinks(g, k, nds, nd, TRUE)
      BY <1>1, <2>1, UnlinkEither, Zenon
    <3>2. h = k
      BY <2>1
    <3> HIDE DEF k, h
    <3>3. /\ nd \in GraphNodes(g)
          /\ g.succ \in [GraphNodes(g) -> [BOOLEAN -> Node \cup {NoNode}]]
      BY SoundTypes
    <3>4. k.succ = [g.succ EXCEPT ![nd] = [g.succ[nd] EXCEPT ![TRUE] = NoNode]]
      BY <3>1 DEF Unlinks
    <3>5. k.succ[nd] = [g.succ[nd] EXCEPT ![TRUE] = NoNode]
      BY <3>3, <3>4
    <3>6. k.succ[nd][FALSE] = g.succ[nd][FALSE]
      BY <3>3, <3>5
    <3>7. QED
      BY <1>1, <3>1, <3>2, <3>6 DEF Unlinks
  <2>2. CASE TRUE \notin edges
    BY <1>1, <2>2
  <2>3. QED
    BY <2>1, <2>2
<1>3. Without(g, nd, edges) = IF FALSE \in edges THEN Unlink(h, nd, FALSE) ELSE h
  BY DEF Without
<1> HIDE DEF h
<1>4. FALSE \in edges => Unlinks(h, Unlink(h, nd, FALSE), nds, nd, FALSE)
  BY <1>2, UnlinkEither, Zenon
<1>5. FALSE \in edges => Sound(Unlink(h, nd, FALSE), nds)
  BY <1>4 DEF Unlinks
<1>6. QED
  BY <1>2, <1>3, <1>5

LEMMA StaticKeeps ==
  ASSUME BuildInv, phase \in {"static_analysis", "dead_ends"},
         phase' \in {"static_analysis", "dead_ends"},
         UNCHANGED <<listing, options, nodes, unrolled, order, analysed>>,
         Sound(graph', Live), pending' \in Seq(Live), todo' \subseteq Live
  PROVE  BuildInv'
<1>1. /\ analysed = TRUE /\ listing \in Listings /\ options \in Options
      /\ ~Malformed /\ IsFiniteSet(Live) /\ Start \in nodes /\ order \in Seq(Live)
  BY DEF BuildInv, PhaseInv, GraphInv, SortInv
<1>2. (Malformed)' = Malformed /\ Live' = Live
  BY DEF Malformed, Ids, Live
<1>3. QED
  BY <1>1, <1>2
     DEF BuildInv, PhaseInv, GraphInv, BlockInv, LinkInv, ReachInv, UnrollInv, SortInv, Phases

LEMMA VisitForwardInv == BuildInv /\ VisitForward => BuildInv'
<1> SUFFICES ASSUME BuildInv, VisitForward PROVE BuildInv'
  OBVIOUS
<1>1. /\ phase = "static_analysis" /\ Sound(graph, Live)
      /\ pending \in Seq(Live) /\ order \in Seq(Live) /\ todo \subseteq Live
  BY DEF BuildInv, PhaseInv, GraphInv, SortInv, VisitForward
<1>2. UNCHANGED <<listing, options, nodes, unrolled, order, analysed>>
  BY DEF VisitForward, unrollVars
<1>3. ASSUME NEW nd \in Live, Analyse(nd) PROVE Sound(graph', Live)
  <2>1. CASE graph' = UnlinkAll(graph, nd)
    BY <1>1, <2>1, UnlinkAllSound
  <2>2. CASE \E edges \in SUBSET Outs(graph, nd) : graph' = Without(graph, nd, edges)
    BY <1>1, <2>2, WithoutSound
  <2>3. QED
    BY <1>3, <2>1, <2>2 DEF Analyse
<1>4. CASE pending # <<>> /\ Analyse(Head(pending)) /\ pending' = Tail(pending) /\ UNCHANGED <<phase, todo>>
  <2>1. Head(pending) \in Live /\ Tail(pending) \in Seq(Live)
    BY <1>1, <1>4, Rest
  <2>2. Sound(graph', Live)
    BY <1>3, <1>4, <2>1
  <2>3. QED
    BY <1>1, <1>2, <1>4, <2>1, <2>2, StaticKeeps
<1>5. ASSUME NEW nd \in todo, Analyse(nd), todo' = todo \ {nd}, UNCHANGED <<phase, pending>>
      PROVE  BuildInv'
  <2>1. Sound(graph', Live)
    BY <1>1, <1>3, <1>5
  <2>2. QED
    BY <1>1, <1>2, <1>5, <2>1, StaticKeeps
<1>6. CASE phase' = "dead_ends" /\ pending' = order /\ todo' = nodes \ ToSet(order) /\ graph' = graph
  <2>1. todo' \subseteq Live
    BY <1>6 DEF Live
  <2>2. QED
    BY <1>1, <1>2, <1>6, <2>1, StaticKeeps
<1>7. QED
  BY <1>4, <1>5, <1>6 DEF VisitForward

LEMMA VisitBackwardInv == BuildInv /\ VisitBackward => BuildInv'
<1> SUFFICES ASSUME BuildInv, VisitBackward PROVE BuildInv'
  OBVIOUS
<1>1. /\ phase = "dead_ends" /\ Sound(graph, Live) /\ IsFiniteSet(Live) /\ Start \in nodes
      /\ pending \in Seq(Live) /\ order \in Seq(Live) /\ todo \subseteq Live
      /\ analysed = TRUE /\ listing \in Listings /\ options \in Options /\ ~Malformed
  BY DEF BuildInv, PhaseInv, GraphInv, SortInv, VisitBackward
<1>2. UNCHANGED <<listing, options, nodes, unrolled, order, analysed>>
  BY DEF VisitBackward, unrollVars, staticVars
<1>3. ASSUME NEW nd \in Live, DropDeadEnd(nd) PROVE Sound(graph', Live)
  BY <1>1, <1>3, UnlinkAllSound DEF DropDeadEnd
<1>4. ASSUME NEW nd \in todo, DropDeadEnd(nd), todo' = todo \ {nd}, UNCHANGED <<phase, pending>>
      PROVE  BuildInv'
  <2>1. Sound(graph', Live)
    BY <1>1, <1>3, <1>4
  <2>2. QED
    BY <1>1, <1>2, <1>4, <2>1, StaticKeeps
<1>5. CASE pending # <<>> /\ DropDeadEnd(Last(pending)) /\ pending' = Front(pending) /\ UNCHANGED <<phase, todo>>
  <2>1. Last(pending) \in Live /\ Front(pending) \in Seq(Live)
    BY <1>1, <1>5, Shorter
  <2>2. Sound(graph', Live)
    BY <1>3, <1>5, <2>1
  <2>3. QED
    BY <1>1, <1>2, <1>5, <2>1, <2>2, StaticKeeps
<1>6. CASE phase' = "reach" /\ pending' = <<Start>> /\ reached' = {} /\ graph' = graph
  <2>1. (Malformed)' = Malformed /\ Live' = Live
    BY <1>2 DEF Malformed, Ids, Live
  <2>2. pending' \in Seq(Live) /\ Start \in ToSet(pending')
    <3> DEFINE L == Live
    <3>1. Start \in L
      BY <1>1 DEF Live
    <3> HIDE DEF L
    <3>2. <<Start>> \in Seq(L) /\ Start \in ToSet(<<Start>>)
      BY <3>1 DEF ToSet
    <3>3. QED
      BY <1>6, <3>2 DEF L
  <2>3. QED
    BY <1>1, <1>2, <1>6, <2>1, <2>2
       DEF BuildInv, PhaseInv, GraphInv, BlockInv, LinkInv, ReachInv, UnrollInv, SortInv, Phases
<1>7. QED
  BY <1>4, <1>5, <1>6 DEF VisitBackward

LEMMA BuildInvStutters == BuildInv /\ UNCHANGED vars => BuildInv'
<1> SUFFICES ASSUME BuildInv, UNCHANGED vars PROVE BuildInv'
  OBVIOUS
<1>1. /\ UNCHANGED <<listing, options, phase, graph, nodes, todo, reached, stack, visited,
                     unrolled, pending, seen, order, analysed>>
      /\ (Malformed)' = Malformed /\ Ids' = Ids /\ Live' = Live
  BY DEF vars, Malformed, Ids, Live
<1>2. (\A id : (Onward(id))' = Onward(id)) /\ (\A nd : (ExitId(nd))' = ExitId(nd))
  BY <1>1 DEF Onward, TypeAt, Target, Instr, ExitId
<1>3. BlockInv' = BlockInv
  BY <1>1, <1>2 DEF BlockInv
<1>4. LinkInv' = LinkInv
  BY <1>1, <1>2 DEF LinkInv
<1>5. QED
  BY <1>1, <1>3, <1>4 DEF BuildInv, PhaseInv, GraphInv, ReachInv, UnrollInv, SortInv

\* The invariant of the whole construction
THEOREM BuildInvariant == Spec => []BuildInv
<1>1. BuildInv /\ [Next]_vars => BuildInv'
  BY InitNodesInv, CreateEdgesInv, ReachInvStep, RemoveUnreachableInv, MergeEdgesInv,
     EndMergeEdgesInv, UnrollStepInv, EndUnrollInv, BeginSortInv, SortStepInv, EndSortInv,
     BeginStaticInv, VisitForwardInv, VisitBackwardInv, BuildInvStutters, Zenon DEF Next
<1>2. QED
  BY InitInv, <1>1, PTL DEF Spec

\* Every edge is known at both of its ends, whatever cfg::build_cfg,
\* cfg::unroll and cfg::static_analysis do to the graph.
THEOREM EdgesConsistent == Spec => []LinksConsistent
<1>1. BuildInv => LinksConsistent
  BY DEF BuildInv, GraphInv, LinksConsistent, Sound, Live
<1>2. QED
  BY BuildInvariant, <1>1, PTL

-----------------------------------------------------------------------------
(* The order of topo_sort.  The first conjunct is what it keeps while some *)
(* edges were seen: how many of those into a node, and that nodes wait for *)
(* their turn once, when all of theirs are among them.                     *)

Counted(acc, edges, sorted) ==
  /\ \A nd \in Live : acc.seen[nd] = Cardinality(graph.pred[nd] \cap edges)
  /\ \A i, j \in DOMAIN acc.pending : acc.pending[i] = acc.pending[j] => i = j
  /\ \A nd \in ToSet(acc.pending) : nd \notin sorted /\ graph.pred[nd] \subseteq edges

Placed ==
  /\ \A i \in DOMAIN order : \A p \in graph.pred[order[i]] : \E k \in 1..i - 1 : p[1] = order[k]
  /\ \A i, j \in DOMAIN order : order[i] = order[j] => i = j

PlaceInv ==
  /\ phase = "sorted" => Fin \notin nodes \ ToSet(order)
  /\ NothingBeforeStart =>
       /\ phase = "topo_sort" =>
            Counted([seen |-> seen, pending |-> pending], ToSet(order) \X BOOLEAN, ToSet(order))
       /\ phase \in {"topo_sort", "sorted"} => Placed

\* Every edge into a node of the graph comes from one, finitely many do.
LEMMA PredOf ==
  ASSUME NEW g, NEW nds, Sound(g, nds), NEW n \in nds
  PROVE  /\ n # NoNode /\ g.pred[n] \subseteq nds \X BOOLEAN /\ IsFiniteSet(g.pred[n])
         /\ \A m \in nds, b \in BOOLEAN : <<m, b>> \in g.pred[n] <=> g.succ[m][b] = n
<1>a. /\ \A m \in nds, c \in BOOLEAN : g.succ[m][c] \in nds \cup {NoNode}
      /\ \A m \in nds : g.pred[m] \subseteq nds \X BOOLEAN
      /\ \A k \in nds, m \in nds, c \in BOOLEAN : <<m, c>> \in g.pred[k] <=> g.succ[m][c] = k
  BY ConsistentIff DEF Sound
<1>1. g.pred[n] \subseteq nds \X BOOLEAN
  BY <1>a, Zenon
<1>2. \A m \in nds, b \in BOOLEAN : <<m, b>> \in g.pred[n] <=> g.succ[m][b] = n
  BY <1>a, Zenon
<1>3. IsFiniteSet(nds)
  BY FS_Subset DEF Sound
<1>4. IsFiniteSet(nds \X BOOLEAN)
  BY <1>3, OutsFinite, FS_Product
<1>5. IsFiniteSet(g.pred[n])
  BY <1>1, <1>4, FS_Subset
<1>6. n # NoNode
  BY SoundTypes, NoNodeIsNone
<1>7. QED
  BY <1>1, <1>2, <1>5, <1>6

LEMMA SeeEdgeCounted ==
  ASSUME Sound(graph, Live), NEW acc \in SortState, NEW nd \in Live, NEW b \in BOOLEAN,
         NEW edges, NEW sorted, Counted(acc, edges, sorted),
         <<nd, b>> \notin edges, \A n \in sorted : <<nd, b>> \notin graph.pred[n]
  PROVE  Counted(SeeEdge(acc, nd, b), edges \cup {<<nd, b>>}, sorted)
<1> DEFINE e == <<nd, b>>
           s == graph.succ[nd][b]
           more == edges \cup {e}
           h == SeeEdge(acc, nd, b)
           L == Live
<1>1. \A n \in L : /\ n # NoNode /\ IsFiniteSet(graph.pred[n])
                   /\ e \in graph.pred[n] <=> s = n
  <2>1. ASSUME NEW n \in Live
        PROVE  /\ n # NoNode /\ IsFiniteSet(graph.pred[n])
               /\ e \in graph.pred[n] <=> s = n
    <3>1. \A m \in Live, c \in BOOLEAN : <<m, c>> \in graph.pred[n] <=> graph.succ[m][c] = n
      BY PredOf, Zenon
    <3>2. n # NoNode
      BY SoundTypes, NoNodeIsNone
    <3>3. IsFiniteSet(graph.pred[n])
      BY PredOf, Zenon
    <3>4. QED
      BY <3>1, <3>2, <3>3, Zenon
  <2>2. QED
    BY <2>1
<1>2. s # NoNode => s \in L
  <2>1. \A m \in Live, c \in BOOLEAN :
           /\ graph.succ[m][c] \in Node \cup {NoNode}
           /\ c \in Outs(graph, m) <=> graph.succ[m][c] # NoNode
           /\ graph.succ[m][c] # NoNode => graph.succ[m][c] \in Live
           /\ graph.succ[m][c] # NoNode => <<m, c>> \in graph.pred[graph.succ[m][c]]
    BY SuccThere, Zenon
  <2>2. QED
    BY <2>1
<1>3. /\ acc.seen \in [GraphNodes(graph) -> Nat] /\ acc.pending \in Seq(L) /\ L \subseteq GraphNodes(graph)
  BY SoundTypes DEF SortState
<1>4. /\ h = IF s = NoNode THEN acc
             ELSE [seen |-> [acc.seen EXCEPT ![s] = acc.seen[s] + 1],
                   pending |-> IF Complete(acc.seen[s] + 1, s) THEN Append(acc.pending, s) ELSE acc.pending]
  BY DEF SeeEdge
<1>5. /\ \A n \in L : acc.seen[n] = Cardinality(graph.pred[n] \cap edges)
      /\ \A i, j \in DOMAIN acc.pending : acc.pending[i] = acc.pending[j] => i = j
      /\ \A n \in ToSet(acc.pending) : n \notin sorted /\ graph.pred[n] \subseteq edges
  BY DEF Counted
<1>6. e \notin edges /\ \A n \in sorted : e \notin graph.pred[n]
  OBVIOUS
<1> HIDE DEF e, s, h, L
<1>7. \A n \in L : n # s => graph.pred[n] \cap more = graph.pred[n] \cap edges
  BY <1>1
<1>8. CASE s = NoNode
  <2>1. \A n \in L : graph.pred[n] \cap more = graph.pred[n] \cap edges
    BY <1>1, <1>7, <1>8
  <2>2. h = acc
    BY <1>4, <1>8
  <2>3. QED
    BY <1>5, <2>1, <2>2 DEF Counted, L, h, e
<1>9. CASE s # NoNode
  <2>1. s \in L /\ e \in graph.pred[s] /\ IsFiniteSet(graph.pred[s])
    BY <1>1, <1>2, <1>9
  <2>2. /\ IsFiniteSet(graph.pred[s] \cap edges)
        /\ Cardinality(graph.pred[s] \cap more) = Cardinality(graph.pred[s] \cap edges) + 1
    <3>1. IsFiniteSet(graph.pred[s] \cap edges)
      BY <2>1, FS_Subset
    <3>2. graph.pred[s] \cap more = (graph.pred[s] \cap edges) \cup {e}
      BY <2>1
    <3>3. e \notin graph.pred[s] \cap edges
      BY <1>6
    <3>4. QED
      BY <3>1, <3>2, <3>3, FS_AddElement
  <2>3. h.seen = [acc.seen EXCEPT ![s] = acc.seen[s] + 1]
    BY <1>4, <1>9
  <2>4. h.pending = IF Complete(acc.seen[s] + 1, s) THEN Append(acc.pending, s) ELSE acc.pending
    BY <1>4, <1>9
  <2>5. ASSUME NEW n \in L PROVE h.seen[n] = Cardinality(graph.pred[n] \cap more)
    <3>1. CASE n = s
      <4>1. h.seen[s] = acc.seen[s] + 1
        BY <1>3, <2>1, <2>3
      <4>2. acc.seen[s] = Cardinality(graph.pred[s] \cap edges)
        BY <1>5, <2>1
      <4>3. QED
        BY <2>2, <3>1, <4>1, <4>2
    <3>2. CASE n # s
      <4>1. h.seen[n] = acc.seen[n]
        BY <1>3, <2>3, <3>2
      <4>2. QED
        BY <1>5, <1>7, <3>2, <4>1
    <3>3. QED
      BY <3>1, <3>2
  <2>6. /\ \A i, j \in DOMAIN h.pending : h.pending[i] = h.pending[j] => i = j
        /\ \A n \in ToSet(h.pending) : n \notin sorted /\ graph.pred[n] \subseteq more
    <3>1. CASE ~Complete(acc.seen[s] + 1, s)
      BY <1>5, <2>4, <3>1
    <3>2. CASE Complete(acc.seen[s] + 1, s)
      <4>1. h.pending = Append(acc.pending, s)
        BY <2>4, <3>2
      <4>2. graph.pred[s] \subseteq more
        <5>1. Cardinality(graph.pred[s]) = Cardinality(graph.pred[s] \cap more)
          BY <1>5, <2>1, <2>2, <3>2 DEF Complete, InDegree
        <5>2. graph.pred[s] = graph.pred[s] \cap more
          BY <2>1, <5>1, FS_Subset
        <5>3. QED
          BY <5>2
      <4>3. s \notin sorted /\ s \notin ToSet(acc.pending)
        BY <1>5, <1>6, <2>1
      <4>4. ToSet(h.pending) = ToSet(acc.pending) \cup {s}
        BY <1>3, <2>1, <4>1, ElementsAppend
      <4>5. /\ Len(acc.pending) \in Nat /\ DOMAIN acc.pending = 1..Len(acc.pending)
            /\ Len(h.pending) = Len(acc.pending) + 1 /\ DOMAIN h.pending = 1..Len(h.pending)
            /\ \A i \in 1..Len(acc.pending) : h.pending[i] = acc.pending[i]
            /\ h.pending[Len(acc.pending) + 1] = s
        BY <1>3, <2>1, <4>1, Longer
      <4>6. \A i \in 1..Len(acc.pending) : acc.pending[i] # s
        BY <4>3, <4>5 DEF ToSet
      <4>7. ASSUME NEW i \in DOMAIN h.pending, NEW j \in DOMAIN h.pending, h.pending[i] = h.pending[j]
            PROVE  i = j
        <5> DEFINE m == Len(acc.pending)
        <5>1. m \in Nat /\ (i \in 1..m \/ i = m + 1) /\ (j \in 1..m \/ j = m + 1)
          BY <4>5
        <5>2. CASE i \in 1..m /\ j \in 1..m
          <6>1. acc.pending[i] = acc.pending[j]
            BY <4>5, <4>7, <5>2
          <6>2. QED
            BY <1>5, <4>5, <5>2, <6>1
        <5>3. CASE i = m + 1 /\ j \in 1..m
          BY <4>5, <4>6, <4>7, <5>3
        <5>4. CASE i \in 1..m /\ j = m + 1
          BY <4>5, <4>6, <4>7, <5>4
        <5>5. CASE i = m + 1 /\ j = m + 1
          BY <5>5
        <5>6. QED
          BY <5>1, <5>2, <5>3, <5>4, <5>5
      <4>8. QED
        BY <1>5, <4>2, <4>3, <4>4, <4>7
    <3>3. QED
      BY <3>1, <3>2
  <2>7. QED
    BY <2>5, <2>6 DEF Counted, L, h, e
<1>10. QED
  BY <1>8, <1>9

\* Both edges out of a node, one after the other
LEMMA SeeBothCounted ==
  ASSUME Sound(graph, Live), NEW acc \in SortState, NEW nd \in Live,
         NEW edges, NEW sorted, Counted(acc, edges, sorted),
         \A b \in BOOLEAN : <<nd, b>> \notin edges,
         \A n \in sorted, b \in BOOLEAN : <<nd, b>> \notin graph.pred[n]
  PROVE  Counted(SeeEdge(SeeEdge(acc, nd, TRUE), nd, FALSE), edges \cup ({nd} \X BOOLEAN), sorted)
<1> DEFINE After(a, E, b) ==
             SeeEdge(a, nd, b) \in SortState /\ Counted(SeeEdge(a, nd, b), E \cup {<<nd, b>>}, sorted)
           one == SeeEdge(acc, nd, TRUE)
           some == edges \cup {<<nd, TRUE>>}
<1>1. ASSUME NEW a \in SortState, NEW E, Counted(a, E, sorted), NEW b \in BOOLEAN, <<nd, b>> \notin E
      PROVE  After(a, E, b)
  <2>1. \A c \in BOOLEAN : SeeEdge(a, nd, c) \in SortState
    BY SeeEdgeType
  <2>2. \A n \in sorted : <<nd, b>> \notin graph.pred[n]
    OBVIOUS
  <2>3. Counted(SeeEdge(a, nd, b), E \cup {<<nd, b>>}, sorted)
    BY <1>1, <2>2, SeeEdgeCounted, Zenon
  <2>4. QED
    BY <2>1, <2>3, Zenon
<1>2. TRUE \in BOOLEAN /\ FALSE \in BOOLEAN
  OBVIOUS
<1>3. <<nd, TRUE>> \notin edges
  BY <1>2, Zenon
<1> HIDE DEF After
<1>4. After(acc, edges, TRUE)
  <2> DEFINE Q(b) == <<nd, b>> \notin edges => After(acc, edges, b)
  <2>1. ASSUME NEW b \in BOOLEAN PROVE Q(b)
    BY <1>1, Zenon
  <2> HIDE DEF Q
  <2>2. Q(TRUE)
    BY <1>2, <2>1, Zenon
  <2>3. QED
    BY <1>3, <2>2, Zenon DEF Q
<1>5. one \in SortState /\ Counted(one, some, sorted)
  BY <1>4, Zenon DEF After
<1>6. <<nd, FALSE>> \notin some
  <2>1. <<nd, FALSE>> \notin edges
    BY <1>2, Zenon
  <2>2. <<nd, FALSE>> # <<nd, TRUE>>
    OBVIOUS
  <2>3. QED
    BY <2>1, <2>2
<1> HIDE DEF one, some
<1>7. After(one, some, FALSE)
  <2> DEFINE Q(b) == <<nd, b>> \notin some => After(one, some, b)
  <2>1. ASSUME NEW b \in BOOLEAN PROVE Q(b)
    BY <1>1, <1>5, Zenon
  <2> HIDE DEF Q
  <2>2. Q(FALSE)
    BY <1>2, <2>1, Zenon
  <2>3. QED
    BY <1>6, <2>2, Zenon DEF Q
<1>8. Counted(SeeEdge(one, nd, FALSE), some \cup {<<nd, FALSE>>}, sorted)
  BY <1>7, Zenon DEF After
<1>9. some \cup {<<nd, FALSE>>} = edges \cup ({nd} \X BOOLEAN)
  <2>1. {nd} \X BOOLEAN = {<<nd, TRUE>>, <<nd, FALSE>>}
    <3>1. \A x, y : {nd} \X {x, y} = {<<nd, x>>, <<nd, y>>}
      OBVIOUS
    <3>2. BOOLEAN = {TRUE, FALSE}
      OBVIOUS
    <3>3. QED
      BY <3>1, <3>2, Zenon
  <2>2. QED
    BY <2>1 DEF some
<1>10. QED
  BY <1>8, <1>9, Zenon DEF one

LEMMA SortStepPlace == BuildInv /\ PlaceInv /\ SortStep => PlaceInv'
<1> SUFFICES ASSUME BuildInv, PlaceInv, SortStep PROVE PlaceInv'
  OBVIOUS
<1>1. /\ phase = "topo_sort" /\ Sound(graph, Live) /\ pending # <<>>
      /\ pending \in Seq(Live) /\ order \in Seq(Live) /\ seen \in [GraphNodes(graph) -> Nat]
  BY DEF BuildInv, GraphInv, SortInv, SortStep
<1>2. /\ graph' = graph /\ phase' = phase /\ Live' = Live
  BY DEF SortStep, unrollVars, Live
<1>3. SUFFICES ASSUME NothingBeforeStart
               PROVE  /\ Counted([seen |-> seen, pending |-> pending], ToSet(order) \X BOOLEAN, ToSet(order))'
                      /\ Placed'
  BY <1>1, <1>2 DEF PlaceInv, NothingBeforeStart
<1> DEFINE nd == Last(pending)
           O == ToSet(order)
           base == O \X BOOLEAN
           one == [seen |-> seen, pending |-> Front(pending)]
           all == SeeEdge(SeeEdge(one, nd, TRUE), nd, FALSE)
           L == Live
<1>4. seen' = all.seen /\ pending' = all.pending /\ order' = Append(order, nd)
  BY SortStepIs
<1>5. /\ Counted([seen |-> seen, pending |-> pending], base, O) /\ Placed
  BY <1>1, <1>3 DEF PlaceInv
<1>6. /\ \A n \in L : seen[n] = Cardinality(graph.pred[n] \cap base)
      /\ \A i, j \in DOMAIN pending : pending[i] = pending[j] => i = j
      /\ \A n \in ToSet(pending) : n \notin O /\ graph.pred[n] \subseteq base
  BY <1>5 DEF Counted
<1>7. /\ \A i \in DOMAIN order : \A p \in graph.pred[order[i]] : \E k \in 1..i - 1 : p[1] = order[k]
      /\ \A i, j \in DOMAIN order : order[i] = order[j] => i = j
  BY <1>5 DEF Placed
<1>8. /\ Front(pending) \in Seq(L) /\ Len(Front(pending)) = Len(pending) - 1 /\ Len(pending) \in Nat \ {0}
      /\ \A n \in 1..Len(pending) - 1 : Front(pending)[n] = pending[n]
      /\ nd = pending[Len(pending)] /\ nd \in L
      /\ ToSet(pending) = ToSet(Front(pending)) \cup {nd}
  BY <1>1, Shorter, ElementsFront
<1>9. /\ order' \in Seq(L) /\ Len(order') = Len(order) + 1 /\ Len(order) \in Nat
      /\ \A n \in 1..Len(order) : order'[n] = order[n]
      /\ order'[Len(order) + 1] = nd /\ ToSet(order') = O \cup {nd}
      /\ DOMAIN order = 1..Len(order) /\ DOMAIN order' = 1..Len(order')
  BY <1>1, <1>4, <1>8, Longer, ElementsAppend
<1> HIDE DEF nd, L
<1>10. nd \notin O /\ graph.pred[nd] \subseteq base
  BY <1>6, <1>8
<1>11. \A n \in O \cup {nd}, b \in BOOLEAN : <<nd, b>> \notin graph.pred[n]
  <2>1. ASSUME NEW b \in BOOLEAN PROVE <<nd, b>> \notin graph.pred[nd]
    BY <1>10
  <2>2. ASSUME NEW n \in O, NEW b \in BOOLEAN PROVE <<nd, b>> \notin graph.pred[n]
    <3>1. PICK i \in DOMAIN order : n = order[i]
      BY DEF ToSet
    <3>2. SUFFICES ASSUME <<nd, b>> \in graph.pred[order[i]] PROVE FALSE
      BY <3>1
    <3>3. PICK k \in 1..i - 1 : <<nd, b>>[1] = order[k]
      BY <1>7, <3>2
    <3>4. k \in DOMAIN order /\ order[k] = nd
      BY <1>9, <3>3
    <3>5. QED
      BY <1>10, <3>4 DEF ToSet
  <2>3. QED
    BY <2>1, <2>2
<1>12. nd \notin ToSet(Front(pending))
  <2>1. SUFFICES ASSUME NEW i \in DOMAIN Front(pending), Front(pending)[i] = nd PROVE FALSE
    BY DEF ToSet
  <2>2. i \in 1..Len(pending) - 1 /\ pending[i] = pending[Len(pending)]
    BY <1>8, <2>1
  <2>3. DOMAIN pending = 1..Len(pending)
    BY <1>1
  <2>4. i = Len(pending)
    BY <1>6, <1>8, <2>2, <2>3
  <2>5. QED
    BY <1>8, <2>2, <2>4
<1> HIDE DEF O, base
<1>13. one \in SortState /\ Counted(one, base, O \cup {nd})
  <2>1. one \in SortState
    BY <1>1, <1>8 DEF SortState, L
  <2>2. \A i, j \in DOMAIN Front(pending) : Front(pending)[i] = Front(pending)[j] => i = j
    <3>1. DOMAIN Front(pending) = 1..Len(pending) - 1 /\ DOMAIN pending = 1..Len(pending)
      BY <1>1, <1>8
    <3>2. QED
      BY <1>6, <1>8, <3>1
  <2>3. \A n \in ToSet(Front(pending)) : n \notin O \cup {nd} /\ graph.pred[n] \subseteq base
    BY <1>6, <1>8, <1>12
  <2>4. QED
    BY <1>6, <2>1, <2>2, <2>3 DEF Counted, L
<1> HIDE DEF one
<1>14. \A b \in BOOLEAN : <<nd, b>> \notin base
  BY <1>10 DEF base
<1>15. Counted(all, base \cup ({nd} \X BOOLEAN), O \cup {nd})
  <2>1. nd \in Live /\ one \in SortState
    BY <1>8, <1>13 DEF L
  <2>2. QED
    BY <1>1, <1>11, <1>13, <1>14, <2>1, SeeBothCounted, Zenon
<1>16. base \cup ({nd} \X BOOLEAN) = ToSet(order') \X BOOLEAN
  BY <1>9 DEF base
<1> HIDE DEF all
<1>17. Counted([seen |-> seen', pending |-> pending'], ToSet(order') \X BOOLEAN, ToSet(order'))
  BY <1>4, <1>9, <1>15, <1>16 DEF Counted
<1>18. Counted([seen |-> seen, pending |-> pending], ToSet(order) \X BOOLEAN, ToSet(order))'
  BY <1>2, <1>17 DEF Counted
<1>19. Placed'
  <2>1. ASSUME NEW i \in DOMAIN order', NEW p \in graph.pred[order'[i]]
        PROVE  \E k \in 1..i - 1 : p[1] = order'[k]
    <3>1. CASE i \in 1..Len(order)
      <4>1. PICK k \in 1..i - 1 : p[1] = order[k]
        BY <1>7, <1>9, <2>1, <3>1
      <4>2. k \in 1..Len(order)
        BY <1>9, <3>1
      <4>3. QED
        BY <1>9, <4>1, <4>2
    <3>2. CASE i = Len(order) + 1
      <4>1. p \in base
        BY <1>9, <1>10, <2>1, <3>2
      <4>2. p[1] \in O
        BY <4>1 DEF base
      <4>3. PICK k \in DOMAIN order : p[1] = order[k]
        BY <4>2 DEF O, ToSet
      <4>4. QED
        BY <1>9, <3>2, <4>3
    <3>3. QED
      BY <1>9, <3>1, <3>2
  <2>2. ASSUME NEW i \in DOMAIN order', NEW j \in DOMAIN order', order'[i] = order'[j]
        PROVE  i = j
    <3> DEFINE m == Len(order)
    <3>1. m \in Nat /\ (i \in 1..m \/ i = m + 1) /\ (j \in 1..m \/ j = m + 1)
      BY <1>9
    <3>2. \A k \in 1..m : order[k] # nd
      BY <1>9, <1>10 DEF O, ToSet
    <3>3. CASE i \in 1..m /\ j \in 1..m
      <4>1. order[i] = order[j]
        BY <1>9, <2>2, <3>3
      <4>2. QED
        BY <1>7, <1>9, <3>3, <4>1
    <3>4. CASE i = m + 1 /\ j \in 1..m
      BY <1>9, <2>2, <3>2, <3>4
    <3>5. CASE i \in 1..m /\ j = m + 1
      BY <1>9, <2>2, <3>2, <3>5
    <3>6. CASE i = m + 1 /\ j = m + 1
      BY <3>6
    <3>7. QED
      BY <3>1, <3>3, <3>4, <3>5, <3>6
  <2>3. QED
    BY <1>2, <2>1, <2>2 DEF Placed
<1>20. QED
  BY <1>18, <1>19

\* What is reached from within a set that no edge leaves is in that set.
LEMMA ReachedWithin ==
  ASSUME NEW g, IsFiniteSet(GraphNodes(g)), NEW S, NEW T, S \subseteq T,
         \A nd \in T : Succs(g, nd) \subseteq T
  PROVE  ReachedFrom(g, S) \subseteq T
<1> DEFINE n == Cardinality(GraphNodes(g))
           Step(X) == X \cup UNION {Succs(g, x) : x \in X}
           IsReach(C, m) == C = [k \in 0..m |-> IF k = 0 THEN S ELSE Step(C[k - 1])]
           C == CHOOSE C : IsReach(C, n)
<1>1. ReachedFrom(g, S) = C[n]
  BY DEF ReachedFrom, Closure
<1>2. n \in Nat
  BY FS_CardinalityType
<1> HIDE DEF n, Step
<1>3. \A m \in Nat : \E D : IsReach(D, m)
  <2> DEFINE M == {m \in Nat : \E D : IsReach(D, m)}
  <2>1. 0 \in M
    <3>1. IsReach([k \in 0..0 |-> S], 0)
      OBVIOUS
    <3>2. QED
      BY <3>1
  <2>2. ASSUME NEW m \in Nat, m \in M PROVE m + 1 \in M
    <3>1. PICK D : IsReach(D, m)
      BY <2>2
    <3> DEFINE F == [k \in 0..m + 1 |-> IF k <= m THEN D[k] ELSE Step(D[m])]
    <3>2. \A k \in 0..m : F[k] = IF k = 0 THEN S ELSE Step(D[k - 1])
      BY <3>1
    <3>3. F[m + 1] = Step(F[m])
      OBVIOUS
    <3>a. F = [k \in 0..m + 1 |-> F[k]] /\ \A k \in 0..m : F[k] = D[k]
      OBVIOUS
    <3> HIDE DEF F
    <3>4. ASSUME NEW k \in 0..m + 1 PROVE F[k] = IF k = 0 THEN S ELSE Step(F[k - 1])
      <4>1. CASE k = 0
        BY <3>2, <4>1
      <4>2. CASE k \in 1..m
        <5>1. k - 1 \in 0..m /\ k \in 0..m /\ k # 0
          BY <4>2
        <5>2. F[k - 1] = D[k - 1]
          BY <3>a, <5>1, Zenon
        <5>3. QED
          BY <3>2, <5>1, <5>2
      <4>3. CASE k = m + 1
        BY <3>3, <4>3
      <4>4. QED
        BY <4>1, <4>2, <4>3
    <3>5. F = [k \in 0..m + 1 |-> IF k = 0 THEN S ELSE Step(F[k - 1])]
      BY <3>4, <3>a
    <3>6. QED
      BY <3>5
  <2> HIDE DEF M
  <2>3. Nat \subseteq M
    BY <2>1, <2>2, Induction
  <2>4. QED
    BY <2>3 DEF M
<1>4. IsReach(C, n)
  BY <1>2, <1>3
<1> HIDE DEF C
<1>5. /\ C[0] = S
      /\ \A k \in 0..n - 1 : C[k + 1] = Step(C[k])
  <2>1. \A k \in 0..n : C[k] = IF k = 0 THEN S ELSE Step(C[k - 1])
    BY <1>4
  <2>2. QED
    BY <1>2, <2>1
<1>6. \A X \in SUBSET T : Step(X) \subseteq T
  BY DEF Step
<1> DEFINE K == {k \in 0..n : C[k] \subseteq T}
<1>7. 0 \in K
  BY <1>2, <1>5
<1>8. \A k \in 0..n - 1 : k \in K => k + 1 \in K
  BY <1>2, <1>5, <1>6
<1> HIDE DEF K
<1>9. 0..n \subseteq K
  BY <1>2, <1>7, <1>8, InductionUpTo
<1>10. n \in 0..n
  BY <1>2
<1>11. QED
  BY <1>1, <1>9, <1>10 DEF K

LEMMA BeginSortPlace == BuildInv /\ BeginSort => PlaceInv'
<1> SUFFICES ASSUME BuildInv, BeginSort PROVE PlaceInv'
  OBVIOUS
<1>1. /\ Sound(graph, Live) /\ Start \in nodes
  BY DEF BuildInv, GraphInv, BeginSort
<1>2. /\ graph' = graph /\ nodes' = nodes /\ Live' = Live /\ phase' = "topo_sort"
      /\ pending' = <<Start>> /\ order' = <<>> /\ seen' = [nd \in GraphNodes(graph) |-> 0]
  BY DEF BeginSort, unrollVars, Live
<1>3. ToSet(order') = {} /\ ToSet(pending') = {Start}
  BY <1>2 DEF ToSet
<1>4. SUFFICES ASSUME graph.pred[Start] = {}
               PROVE  Counted([seen |-> seen', pending |-> pending'], {} \X BOOLEAN, {}) /\ Placed'
  <2>1. Counted([seen |-> seen, pending |-> pending], ToSet(order) \X BOOLEAN, ToSet(order))'
          = Counted([seen |-> seen', pending |-> pending'], {} \X BOOLEAN, {})
    BY <1>2, <1>3 DEF Counted
  <2>2. QED
    BY <1>2, <1>4, <2>1 DEF PlaceInv, NothingBeforeStart
<1>5. \A nd \in Live : seen'[nd] = Cardinality(graph.pred[nd] \cap ({} \X BOOLEAN))
  <2>1. Live \subseteq GraphNodes(graph)
    BY <1>1, SoundTypes
  <2>2. \A nd : graph.pred[nd] \cap ({} \X BOOLEAN) = {}
    OBVIOUS
  <2>3. Cardinality({}) = 0
    BY FS_EmptySet
  <2>4. QED
    BY <1>2, <2>1, <2>2, <2>3
<1>6. \A i, j \in DOMAIN pending' : pending'[i] = pending'[j] => i = j
  BY <1>2
<1>7. Placed'
  BY <1>2 DEF Placed
<1>8. QED
  BY <1>3, <1>4, <1>5, <1>6, <1>7 DEF Counted

LEMMA OtherPhases ==
  ASSUME BuildInv, PlaceInv, Next \/ UNCHANGED vars, ~BeginSort, ~SortStep
  PROVE  PlaceInv'
<1>1. CASE EndSort
  <2>1. /\ phase = "topo_sort" /\ UNCHANGED <<graph, nodes, order>>
        /\ phase' = IF Fin \in nodes \ ToSet(order) THEN "not_loop_free" ELSE "sorted"
    BY <1>1 DEF EndSort, sortVars
  <2>2. QED
    BY <2>1 DEF PlaceInv, NothingBeforeStart, Placed
<1>2. CASE UNCHANGED vars
  <2>1. UNCHANGED <<phase, graph, nodes, seen, pending, order>> /\ Live' = Live
    BY <1>2 DEF vars, Live
  <2>2. QED
    BY <2>1 DEF PlaceInv, NothingBeforeStart, Placed, Counted
<1>3. CASE ~EndSort /\ Next
  <2>1. phase' \notin {"topo_sort", "sorted"}
    <3>1. InitNodes => phase' \notin {"topo_sort", "sorted"}
      BY DEF InitNodes
    <3>2. CreateEdges => phase' \notin {"topo_sort", "sorted"}
      BY DEF CreateEdges
    <3>3. Reach => phase' \notin {"topo_sort", "sorted"}
      BY DEF Reach
    <3>4. RemoveUnreachable => phase' \notin {"topo_sort", "sorted"}
      BY DEF RemoveUnreachable
    <3>5. MergeEdges \/ EndMergeEdges => phase' \notin {"topo_sort", "sorted"}
      BY DEF MergeEdges, EndMergeEdges
    <3>6. UnrollStep \/ EndUnroll => phase' \notin {"topo_sort", "sorted"}
      BY DEF UnrollStep, EndUnroll
    <3>7. BeginStatic \/ VisitForward \/ VisitBackward => phase' \notin {"topo_sort", "sorted"}
      BY DEF BeginStatic, VisitForward, VisitBackward
    <3>8. QED
      BY <1>3, <3>1, <3>2, <3>3, <3>4, <3>5, <3>6, <3>7 DEF Next
  <2>2. QED
    BY <2>1 DEF PlaceInv
<1>4. QED
  BY <1>1, <1>2, <1>3

\* topo_sort's counters are those of the edges it has passed, at each step.
THEOREM PlaceInvariant == Spec => []PlaceInv
<1>1. Init => PlaceInv
  BY DEF Init, PlaceInv
<1>2. BuildInv /\ PlaceInv /\ [Next]_vars => PlaceInv'
  BY BeginSortPlace, SortStepPlace, OtherPhases
<1>3. QED
  BY BuildInvariant, <1>1, <1>2, PTL DEF Spec

\* Nodes that are sorted are not part of a loop, and what leads to them is
\* sorted too.
LEMMA SortedNodes ==
  ASSUME Sound(graph, Live), order \in Seq(Live), Placed, NEW nd \in Live
  PROVE  /\ nd \in ToSet(order) => ~InLoop(graph, nd)
         /\ \A m \in ToSet(order) : m \in ReachedFrom(graph, {nd}) => nd \in ToSet(order)
<1> DEFINE Others(i) == Live \ {order[k] : k \in 1..i}
           L == Live
<1>1. Len(order) \in Nat /\ DOMAIN order = 1..Len(order) /\ \A i \in 1..Len(order) : order[i] \in L
  BY ElementIn
<1>2. /\ \A i \in DOMAIN order : \A p \in graph.pred[order[i]] : \E k \in 1..i - 1 : p[1] = order[k]
      /\ \A i, j \in DOMAIN order : order[i] = order[j] => i = j
  BY DEF Placed
<1>3. \A m \in L : /\ Succs(graph, m) \subseteq L
                   /\ \A s \in Succs(graph, m) : \E b \in BOOLEAN : <<m, b>> \in graph.pred[s]
  <2>1. ASSUME NEW m \in Live, NEW s \in Succs(graph, m)
        PROVE  s \in Live /\ \E b \in BOOLEAN : <<m, b>> \in graph.pred[s]
    <3>1. PICK b \in BOOLEAN : s = graph.succ[m][b] /\ s # NoNode
      BY DEF Succs, Outs
    <3>2. \A k \in Live, c \in BOOLEAN :
             /\ graph.succ[k][c] \in Node \cup {NoNode}
             /\ c \in Outs(graph, k) <=> graph.succ[k][c] # NoNode
             /\ graph.succ[k][c] # NoNode => graph.succ[k][c] \in Live
             /\ graph.succ[k][c] # NoNode => <<k, c>> \in graph.pred[graph.succ[k][c]]
      BY SuccThere, Zenon
    <3>3. s \in Live /\ <<m, b>> \in graph.pred[s]
      BY <3>1, <3>2, Zenon
    <3>4. QED
      BY <3>3
  <2>2. QED
    BY <2>1
<1>4. IsFiniteSet(GraphNodes(graph))
  BY DEF Sound
<1>5. ASSUME NEW m \in L, NEW i \in 1..Len(order), order[i] \in Succs(graph, m)
      PROVE  \E k \in 1..i - 1 : m = order[k]
  <2>1. PICK b \in BOOLEAN : <<m, b>> \in graph.pred[order[i]]
    BY <1>3, <1>5
  <2>2. PICK k \in 1..i - 1 : <<m, b>>[1] = order[k]
    BY <1>1, <1>2, <2>1
  <2>3. QED
    BY <2>2
<1> HIDE DEF L
<1>6. ASSUME NEW i \in 1..Len(order), NEW m \in Others(i)
      PROVE  Succs(graph, m) \subseteq Others(i)
  <2>1. SUFFICES ASSUME NEW s \in Succs(graph, m), s \notin Others(i) PROVE FALSE
    OBVIOUS
  <2>2. m \in L /\ s \in L
    BY <1>3 DEF L
  <2>3. PICK j \in 1..i : s = order[j]
    BY <2>1, <2>2 DEF L
  <2>4. j \in 1..Len(order)
    BY <1>1
  <2>5. PICK k \in 1..j - 1 : m = order[k]
    BY <1>5, <2>2, <2>3, <2>4
  <2>6. k \in 1..i
    BY <1>1
  <2>7. QED
    BY <2>5, <2>6
<1>7. ASSUME nd \in ToSet(order), InLoop(graph, nd) PROVE FALSE
  <2>1. PICK i \in 1..Len(order) : nd = order[i]
    BY <1>1, <1>7 DEF ToSet
  <2>2. Succs(graph, nd) \subseteq Others(i)
    <3>1. SUFFICES ASSUME NEW s \in Succs(graph, nd), s \notin Others(i) PROVE FALSE
      OBVIOUS
    <3>2. nd \in L /\ s \in L
      BY <1>3 DEF L
    <3>3. PICK j \in 1..i : s = order[j]
      BY <3>1, <3>2 DEF L
    <3>4. j \in 1..Len(order)
      BY <1>1
    <3>5. PICK k \in 1..j - 1 : nd = order[k]
      BY <1>5, <3>2, <3>3, <3>4
    <3>6. k = i
      <4>1. k \in DOMAIN order /\ i \in DOMAIN order /\ order[k] = order[i]
        BY <1>1, <2>1, <3>4, <3>5
      <4>2. \A a, b \in DOMAIN order : order[a] = order[b] => a = b
        BY <1>2
      <4>3. QED
        BY <4>1, <4>2
    <3>7. QED
      BY <1>1, <3>3, <3>4, <3>5, <3>6
  <2> DEFINE T == Others(i)
  <2>3. \A m \in T : Succs(graph, m) \subseteq T
    BY <1>6
  <2>4. Succs(graph, nd) \subseteq T
    BY <2>2
  <2>5. nd \notin T
    BY <2>1
  <2> HIDE DEF T
  <2>6. ReachedFrom(graph, Succs(graph, nd)) \subseteq T
    BY <1>4, <2>3, <2>4, ReachedWithin
  <2>7. QED
    BY <1>7, <2>5, <2>6 DEF InLoop
<1>8. ASSUME NEW m \in ToSet(order), m \in ReachedFrom(graph, {nd}), nd \notin ToSet(order) PROVE FALSE
  <2> DEFINE T == L \ ToSet(order)
  <2>1. ASSUME NEW x \in T PROVE Succs(graph, x) \subseteq T
    <3>1. SUFFICES ASSUME NEW s \in Succs(graph, x), s \in ToSet(order) PROVE FALSE
      BY <1>3
    <3>2. PICK i \in 1..Len(order) : s = order[i]
      BY <1>1, <3>1 DEF ToSet
    <3>3. PICK k \in 1..i - 1 : x = order[k]
      BY <1>5, <3>2
    <3>4. k \in DOMAIN order
      BY <1>1
    <3>5. QED
      BY <3>3, <3>4 DEF ToSet
  <2>2. {nd} \subseteq T /\ m \notin T
    BY <1>8 DEF L
  <2> HIDE DEF T
  <2>3. ReachedFrom(graph, {nd}) \subseteq T
    BY <1>4, <2>1, <2>2, ReachedWithin
  <2>4. QED
    BY <1>8, <2>2, <2>3
<1>9. QED
  BY <1>7, <1>8

\* If topo_sort accepts a graph into whose first node no edge leads, each node
\* comes after its predecessors and none comes twice, and a loop that is left
\* does not lead on to the end of the program.
THEOREM SortIsSound == Spec => []SortSound
<1>1. BuildInv /\ PlaceInv => SortSound
  <2> SUFFICES ASSUME BuildInv, PlaceInv, phase = "sorted", NothingBeforeStart
               PROVE  /\ \A i \in DOMAIN order :
                           \A p \in graph.pred[order[i]] : \E k \in 1..i - 1 : p[1] = order[k]
                      /\ \A i, j \in DOMAIN order : order[i] = order[j] => i = j
                      /\ \A nd \in ReachedFrom(graph, {Start}) :
                           InLoop(graph, nd) => Fin \notin ReachedFrom(graph, {nd})
    BY DEF SortSound
  <2>1. /\ Sound(graph, Live) /\ Start \in Live /\ order \in Seq(Live) /\ Placed
        /\ Fin \notin nodes \ ToSet(order)
        /\ \A nd \in unrolled : LoopDepth(nd) > 0
    BY DEF BuildInv, GraphInv, SortInv, PlaceInv, UnrollInv, Live
  <2>2. \A nd \in Live : Succs(graph, nd) \subseteq Live
    BY <2>1 DEF Sound, Consistent
  <2>3. IsFiniteSet(GraphNodes(graph))
    BY <2>1 DEF Sound
  <2>4. \A nd \in Live : ReachedFrom(graph, {nd}) \subseteq Live
    BY <2>2, <2>3, ReachedWithin
  <2>5. Fin \in Live => Fin \in ToSet(order)
    <3>1. Fin \notin unrolled
      BY <2>1 DEF Fin, LoopDepth
    <3>2. QED
      BY <2>1, <3>1 DEF Live
  <2>6. ASSUME NEW nd \in ReachedFrom(graph, {Start}), InLoop(graph, nd),
               Fin \in ReachedFrom(graph, {nd})
        PROVE  FALSE
    <3>1. nd \in Live
      BY <2>1, <2>4
    <3>2. Fin \in ToSet(order)
      BY <2>4, <2>5, <2>6, <3>1
    <3>3. QED
      BY <2>1, <2>6, <3>1, <3>2, SortedNodes
  <2>7. QED
    BY <2>1, <2>6 DEF Placed
<1>2. QED
  BY BuildInvariant, PlaceInvariant, <1>1, PTL

-----------------------------------------------------------------------------
(* Merging keeps the runs.  Until then a block is a piece of the program   *)
(* that can only be run from its first to its last instruction, and where  *)
(* it leads to is where the last one does.                                 *)

Code == Ids \cup {FinId}

\* nd's block is a chain: its instructions follow each other, and all but the
\* last lead nowhere else.
Chain(b) ==
  /\ b \in Seq(Code) /\ b # <<>>
  /\ \A i \in 1..Len(b) - 1 : TypeAt(b[i]) = "other" /\ b[i + 1] = Id(Target(b[i] + 1))

\* Every block begins where its node says and is a chain.
Chained == \A nd \in nodes : Chain(graph.block[nd]) /\ graph.block[nd][1] = Id(nd)

ChainInv ==
  /\ phase \in {"create_edges", "reach", "remove_unreachable", "merge_edges"} /\ ~analysed =>
       Chained
  /\ phase = "begin_sort" /\ ~analysed /\ ~Unrolls =>
       Chained /\ unrolled = {} /\ \A nd \in nodes : graph.succ[nd] = Onward(ExitId(nd))
  /\ phase = "unroll" => Unrolls

\* Two chains of which one leads to the other
LEMMA ChainJoin ==
  ASSUME NEW b, Chain(b), NEW c, Chain(c), TypeAt(Last(b)) = "other",
         c[1] = Id(Target(Last(b) + 1))
  PROVE  Chain(b \o c) /\ (b \o c)[1] = b[1]
<1> DEFINE d == b \o c
<1>1. /\ b \in Seq(Code) /\ c \in Seq(Code)
      /\ Len(b) \in Nat \ {0} /\ Len(c) \in Nat \ {0} /\ Last(b) = b[Len(b)]
  BY DEF Chain, Last
<1>2. /\ d \in Seq(Code) /\ Len(d) = Len(b) + Len(c)
      /\ \A i \in 1..Len(b) : d[i] = b[i]
      /\ \A i \in 1..Len(c) : d[Len(b) + i] = c[i]
  BY <1>1
<1> HIDE DEF d
<1>3. ASSUME NEW i \in 1..Len(d) - 1
      PROVE  TypeAt(d[i]) = "other" /\ d[i + 1] = Id(Target(d[i] + 1))
  <2>1. CASE i < Len(b)
    <3>1. i \in 1..Len(b) - 1 /\ i \in 1..Len(b) /\ i + 1 \in 1..Len(b)
      BY <1>1, <1>2, <2>1
    <3>2. d[i] = b[i] /\ d[i + 1] = b[i + 1]
      BY <1>2, <3>1
    <3>3. QED
      BY <3>1, <3>2 DEF Chain
  <2>2. CASE i = Len(b)
    <3>1. i \in 1..Len(b) /\ 1 \in 1..Len(c)
      BY <1>1, <2>2
    <3>2. d[i] = Last(b) /\ d[i + 1] = c[1]
      BY <1>1, <1>2, <2>2, <3>1
    <3>3. QED
      BY <3>2
  <2>3. CASE i > Len(b)
    <3>a. i - Len(b) \in 1..Len(c) - 1 /\ i = Len(b) + (i - Len(b))
      BY <1>1, <1>2, <2>3
    <3>1. PICK j \in 1..Len(c) - 1 : i = Len(b) + j
      BY <3>a
    <3>2. j \in 1..Len(c) /\ j + 1 \in 1..Len(c) /\ i + 1 = Len(b) + (j + 1)
      BY <1>1, <3>1
    <3>3. d[i] = c[j] /\ d[i + 1] = c[j + 1]
      BY <1>2, <3>1, <3>2
    <3>4. QED
      BY <3>1, <3>3 DEF Chain
  <2>4. QED
    <3>1. i \in Int /\ Len(b) \in Int
      BY <1>1, <1>2
    <3>2. QED
      BY <2>1, <2>2, <2>3, <3>1
<1>4. d # <<>> /\ d[1] = b[1]
  BY <1>1, <1>2
<1>5. QED
  BY <1>2, <1>3, <1>4 DEF Chain, d

\* Nothing but the listing says what a chain is.
LEMMA ChainedNext ==
  ASSUME listing' = listing,
         \A nd \in nodes' : Chain(graph'.block[nd]) /\ graph'.block[nd][1] = Id(nd)
  PROVE  Chained'
<1>1. Code' = Code /\ \A id : TypeAt(id)' = TypeAt(id) /\ Target(id)' = Target(id)
  BY DEF Code, Ids, TypeAt, Instr, Target
<1>2. ASSUME NEW nd \in nodes'
      PROVE  Chain(graph.block[nd])' /\ graph'.block[nd][1] = Id(nd)
  <2>1. /\ graph'.block[nd] \in Seq(Code') /\ graph'.block[nd] # <<>>
        /\ \A i \in 1..Len(graph'.block[nd]) - 1 :
             /\ TypeAt(graph'.block[nd][i]) = "other"
             /\ graph'.block[nd][i + 1] = Id(Target(graph'.block[nd][i] + 1))
    BY <1>1 DEF Chain
  <2>2. \A i \in 1..Len(graph'.block[nd]) - 1 :
          /\ TypeAt(graph.block[nd][i])' = "other"
          /\ graph'.block[nd][i + 1] = Id(Target(graph.block[nd][i] + 1)')
    BY <1>1, <2>1
  <2>3. QED
    BY <2>1, <2>2 DEF Chain
<1>3. QED
  BY <1>2 DEF Chained

LEMMA InitChain == Init => ChainInv
BY DEF Init, ChainInv

LEMMA InitNodesChain == BuildInv /\ InitNodes => ChainInv'
<1> SUFFICES ASSUME BuildInv, InitNodes PROVE ChainInv'
  OBVIOUS
<1>1. listing' = listing
  BY DEF InitNodes
<1>2. CASE Malformed
  BY <1>2 DEF InitNodes, ChainInv
<1>3. CASE ~Malformed
  <2>1. /\ phase' = "create_edges" /\ nodes' = {<<id, 0>> : id \in Code}
        /\ graph'.block = [nd \in nodes' |-> <<Id(nd)>>]
    BY <1>3 DEF InitNodes, Code
  <2>2. ASSUME NEW nd \in nodes' PROVE Chain(graph'.block[nd]) /\ graph'.block[nd][1] = Id(nd)
    <3>1. graph'.block[nd] = <<Id(nd)>> /\ Id(nd) \in Code
      BY <2>1 DEF Id
    <3>2. QED
      BY <3>1 DEF Chain
  <2>3. Chained'
    BY <1>1, <2>2, ChainedNext
  <2>4. QED
    BY <2>1, <2>3 DEF ChainInv
<1>4. QED
  BY <1>2, <1>3

\* What is true of all blocks is true of the ones that are left.
LEMMA BlocksStay ==
  ASSUME Chained, listing' = listing, nodes' \subseteq nodes, graph'.block = graph.block
  PROVE  Chained'
<1>1. \A nd \in nodes' : Chain(graph'.block[nd]) /\ graph'.block[nd][1] = Id(nd)
  BY DEF Chained
<1>2. QED
  BY <1>1, ChainedNext

LEMMA CreateEdgesChain == BuildInv /\ ChainInv /\ CreateEdges => ChainInv'
<1> SUFFICES ASSUME BuildInv, ChainInv, CreateEdges PROVE ChainInv'
  OBVIOUS
<1>1. /\ phase = "create_edges" /\ ~analysed
      /\ listing' = listing /\ nodes' = nodes /\ phase' \in {"create_edges", "reach"}
  BY DEF BuildInv, PhaseInv, CreateEdges
<1>2. graph'.block = graph.block
  <2>1. CASE graph' = graph
    BY <2>1
  <2>2. CASE pending # <<>> /\ graph' = WithEdges(graph, Head(pending))
    <3>1. /\ pending \in Seq(nodes)
          /\ \A i \in DOMAIN pending : ExitId(pending[i]) \in Ids /\ graph.succ[pending[i]] = Unlinked
      BY <1>1 DEF BuildInv, LinkInv
    <3>2. Head(pending) = pending[1] /\ 1 \in DOMAIN pending /\ Head(pending) \in nodes
      BY <2>2, <3>1
    <3>3. ExitId(Head(pending)) \in Ids /\ graph.succ[Head(pending)] = Unlinked
      BY <3>1, <3>2
    <3>4. QED
      BY <1>1, <2>2, <3>2, <3>3, WithEdgesSound
  <2>3. QED
    BY <2>1, <2>2 DEF CreateEdges
<1>3. Chained'
  BY <1>1, <1>2, BlocksStay DEF ChainInv
<1>4. QED
  BY <1>1, <1>3 DEF ChainInv

LEMMA ReachChain == BuildInv /\ ChainInv /\ Reach => ChainInv'
<1> SUFFICES ASSUME BuildInv, ChainInv, Reach PROVE ChainInv'
  OBVIOUS
<1>1. /\ phase = "reach" /\ phase' \in {"reach", "remove_unreachable"} /\ analysed' = analysed
      /\ listing' = listing /\ nodes' = nodes /\ graph' = graph
  BY DEF Reach, staticVars
<1>2. ~analysed => Chained'
  BY <1>1, BlocksStay DEF ChainInv
<1>3. QED
  BY <1>1, <1>2 DEF ChainInv

LEMMA RemoveUnreachableChain == BuildInv /\ ChainInv /\ RemoveUnreachable => ChainInv'
<1> SUFFICES ASSUME BuildInv, ChainInv, RemoveUnreachable PROVE ChainInv'
  OBVIOUS
<1>1. /\ phase = "remove_unreachable" /\ analysed' = analysed /\ listing' = listing
      /\ phase' \in {"remove_unreachable", "begin_sort", "merge_edges"}
      /\ phase' = "begin_sort" => analysed
      /\ nodes' \subseteq nodes /\ graph'.block = graph.block
  BY DEF RemoveUnreachable, staticVars, UnlinkAll
<1>2. ~analysed => Chained'
  BY <1>1, BlocksStay DEF ChainInv
<1>3. QED
  BY <1>1, <1>2 DEF ChainInv

LEMMA MergeEdgesChain == BuildInv /\ ChainInv /\ MergeEdges => ChainInv'
<1> SUFFICES ASSUME BuildInv, ChainInv, MergeEdges PROVE ChainInv'
  OBVIOUS
<1>1. /\ phase = "merge_edges" /\ phase' = phase /\ ~analysed
      /\ listing' = listing /\ Chained /\ todo \subseteq nodes
      /\ graph.block \in [GraphNodes(graph) -> Seq(Nat)] /\ nodes \subseteq GraphNodes(graph)
  <2>1. Sound(graph, Live) /\ nodes \subseteq Live
    BY DEF BuildInv, GraphInv, MergeEdges, Live
  <2>2. graph.block \in [GraphNodes(graph) -> Seq(Nat)] /\ nodes \subseteq GraphNodes(graph)
    BY <2>1, SoundTypes
  <2>3. QED
    BY <2>2 DEF BuildInv, PhaseInv, UnrollInv, MergeEdges, ChainInv
<1>2. ASSUME NEW nd \in todo, NEW s \in Succs(graph, nd), Mergeable(nd),
             graph' = MergeNode(graph, nd, s), nodes' = nodes \ {s}
      PROVE  Chained'
  <2>1. /\ nd \in nodes /\ s \in nodes /\ nd # s
        /\ TypeAt(ExitId(nd)) = "other" /\ s = Target(ExitId(nd) + 1)
    <3>1. nd \in nodes
      BY <1>1
    <3>2. /\ s \in nodes /\ TypeAt(ExitId(nd)) = "other" /\ s = Target(ExitId(nd) + 1)
          /\ ExitId(nd) \in Nat /\ Id(s) \in Nat /\ Id(nd) \in Nat
          /\ Id(nd) <= ExitId(nd) /\ ExitId(nd) < Id(s)
      BY <1>1, <1>2, <3>1, MergeableFacts
    <3>3. QED
      BY <3>1, <3>2
  <2> DEFINE b == graph.block[nd]
             c == graph.block[s]
  <2>2. Chain(b) /\ Chain(c) /\ b[1] = Id(nd) /\ c[1] = Id(s)
    BY <1>1, <2>1 DEF Chained
  <2>3. Chain(b \o c) /\ (b \o c)[1] = Id(nd)
    BY <2>1, <2>2, ChainJoin DEF ExitId
  <2>4. graph'.block = [graph.block EXCEPT ![nd] = b \o c, ![s] = <<>>]
    BY <1>2 DEF MergeNode
  <2> HIDE DEF b, c
  <2>5. ASSUME NEW m \in nodes'
        PROVE  Chain(graph'.block[m]) /\ graph'.block[m][1] = Id(m)
    <3>1. m \in nodes /\ m # s /\ m \in GraphNodes(graph)
      BY <1>1, <1>2
    <3>2. CASE m = nd
      <4>1. graph'.block[m] = b \o c
        BY <1>1, <2>1, <2>4, <3>1, <3>2
      <4>2. QED
        BY <2>3, <3>2, <4>1
    <3>3. CASE m # nd
      <4>1. graph'.block[m] = graph.block[m]
        BY <1>1, <2>1, <2>4, <3>1, <3>3
      <4>2. QED
        BY <1>1, <3>1, <4>1 DEF Chained
    <3>4. QED
      BY <3>2, <3>3
  <2>6. QED
    BY <1>1, <2>5, ChainedNext
<1>3. ASSUME graph' = graph, nodes' = nodes PROVE Chained'
  BY <1>1, <1>3, BlocksStay
<1>4. Chained'
  BY <1>2, <1>3 DEF MergeEdges
<1>5. QED
  BY <1>1, <1>4 DEF ChainInv

LEMMA EndMergeEdgesChain == BuildInv /\ ChainInv /\ EndMergeEdges => ChainInv'
<1> SUFFICES ASSUME BuildInv, ChainInv, EndMergeEdges PROVE ChainInv'
  OBVIOUS
<1>1. /\ phase = "merge_edges" /\ ~analysed /\ unrolled = {} /\ Chained
      /\ \A nd \in nodes : graph.succ[nd] = Onward(ExitId(nd))
      /\ listing' = listing /\ options' = options /\ nodes' = nodes /\ graph' = graph
  BY DEF BuildInv, PhaseInv, BlockInv, ChainInv, EndMergeEdges
<1>2. Unrolls' = Unrolls
  BY <1>1 DEF Unrolls
<1>3. Chained'
  BY <1>1, BlocksStay
<1>4. CASE Unrolls
  BY <1>2, <1>4 DEF EndMergeEdges, ChainInv
<1>5. CASE ~Unrolls
  <2>1. phase' = "begin_sort" /\ unrolled' = {}
    BY <1>1, <1>5 DEF EndMergeEdges, unrollVars
  <2>2. \A nd \in nodes' : graph'.succ[nd] = Onward(ExitId(nd))'
    BY <1>1 DEF Onward, ExitId, TypeAt, Target, Instr, Ids
  <2>3. QED
    BY <1>3, <2>1, <2>2 DEF ChainInv
<1>6. QED
  BY <1>4, <1>5

LEMMA LaterChain ==
  ASSUME BuildInv, ChainInv,
         \/ UnrollStep \/ EndUnroll
         \/ BeginSort \/ SortStep \/ EndSort
         \/ BeginStatic \/ VisitForward \/ VisitBackward
  PROVE  ChainInv'
<1>1. Unrolls' = Unrolls
  <2>1. UnrollStep => options' = options
    BY DEF UnrollStep
  <2>2. EndUnroll \/ BeginSort \/ EndSort \/ BeginStatic => options' = options
    BY DEF EndUnroll, BeginSort, EndSort, BeginStatic
  <2>3. SortStep => options' = options
    BY DEF SortStep
  <2>4. VisitForward => options' = options
    BY DEF VisitForward
  <2>5. VisitBackward => options' = options
    BY DEF VisitBackward
  <2>6. options' = options
    BY <2>1, <2>2, <2>3, <2>4, <2>5
  <2>7. QED
    BY <2>6 DEF Unrolls
<1>2. CASE UnrollStep \/ EndUnroll
  BY <1>1, <1>2 DEF UnrollStep, EndUnroll, ChainInv
<1>3. CASE BeginSort \/ SortStep \/ EndSort
  <2>1. phase' \in {"topo_sort", "not_loop_free", "sorted"}
    <3>1. SortStep => phase' = "topo_sort"
      BY DEF SortStep
    <3>2. BeginSort \/ EndSort => phase' \in {"topo_sort", "not_loop_free", "sorted"}
      BY DEF BeginSort, EndSort
    <3>3. QED
      BY <1>3, <3>1, <3>2
  <2>2. QED
    BY <2>1 DEF ChainInv
<1>4. CASE BeginStatic \/ VisitForward
  BY <1>4 DEF BeginStatic, VisitForward, ChainInv
<1>5. CASE VisitBackward
  <2>1. analysed' = TRUE /\ phase' \in {"dead_ends", "reach"}
    BY <1>5 DEF VisitBackward, staticVars, BuildInv, PhaseInv
  <2>2. QED
    BY <2>1 DEF ChainInv
<1>6. QED
  BY <1>2, <1>3, <1>4, <1>5

LEMMA ChainStutters == ChainInv /\ UNCHANGED vars => ChainInv'
<1> SUFFICES ASSUME ChainInv, UNCHANGED vars PROVE ChainInv'
  OBVIOUS
<1>1. UNCHANGED <<listing, options, phase, graph, nodes, unrolled, analysed>>
  BY DEF vars, unrollVars, staticVars
<1>2. Chained => Chained'
  BY <1>1, BlocksStay
<1>3. Unrolls' = Unrolls /\ \A nd : Onward(ExitId(nd))' = Onward(ExitId(nd))
  BY <1>1 DEF Unrolls, Onward, ExitId, TypeAt, Target, Instr, Ids
<1>4. QED
  BY <1>1, <1>2, <1>3 DEF ChainInv

\* Until they are unrolled, blocks are pieces of the program that can only be
\* run as a whole, and lead to where their last instructions do.
THEOREM ChainInvariant == Spec => []ChainInv
<1>1. BuildInv /\ ChainInv /\ [Next]_vars => ChainInv'
  BY InitNodesChain, CreateEdgesChain, ReachChain, RemoveUnreachableChain, MergeEdgesChain,
     EndMergeEdgesChain, LaterChain, ChainStutters, Zenon DEF Next
<1>2. QED
  BY BuildInvariant, InitChain, <1>1, PTL DEF Spec

\* What follows an instruction, by its type
LEMMA NextIdsAre ==
  ASSUME listing \in Listings, ~Malformed, NEW id \in Code
  PROVE  /\ Code \subseteq Nat /\ 0 \in Code /\ NextIds(id) \subseteq Code
         /\ TypeAt(id) \in {"fin", "jump", "branch", "other"} /\ (TypeAt(id) = "fin" <=> id = FinId)
         /\ TypeAt(id) = "fin" => NextIds(id) = {}
         /\ TypeAt(id) = "jump" => NextIds(id) = {Id(Target(Instr(id).br))}
         /\ TypeAt(id) = "branch" => NextIds(id) = {Id(Target(id + 1)), Id(Target(Instr(id).br))}
         /\ TypeAt(id) = "other" => NextIds(id) = {Id(Target(id + 1))}
<1>1. /\ Ids \subseteq Nat /\ FinId \in Nat /\ 0 \in Ids /\ FinId \notin Ids
      /\ \A a \in Ids : Instr(a).type \in {"branch", "jump", "other"}
  BY ListingFacts, ListingAssumption
<1>2. \A a : Id(Target(a)) \in Code
  BY DEF Id, Target, Fin, Code
<1>3. NextIds(id) \subseteq Code
  BY <1>2 DEF NextIds
<1>4. TypeAt(id) \in {"fin", "jump", "branch", "other"} /\ (TypeAt(id) = "fin" <=> id = FinId)
  BY <1>1 DEF TypeAt, Code
<1>5. CASE id = FinId
  BY <1>1, <1>3, <1>4, <1>5 DEF NextIds, TypeAt, Code
<1>6. CASE id # FinId
  <2>1. TypeAt(id) = Instr(id).type
    BY <1>6 DEF TypeAt
  <2>2. TypeAt(id) = "jump" => NextIds(id) = {Id(Target(Instr(id).br))}
    BY <1>6, <2>1 DEF NextIds
  <2>3. TypeAt(id) = "branch" => NextIds(id) = {Id(Target(id + 1)), Id(Target(Instr(id).br))}
    BY <1>6, <2>1 DEF NextIds
  <2>4. TypeAt(id) = "other" => NextIds(id) = {Id(Target(id + 1))}
    BY <1>6, <2>1 DEF NextIds
  <2>5. QED
    BY <1>1, <1>3, <1>4, <1>6, <2>2, <2>3, <2>4 DEF Code
<1>7. QED
  BY <1>5, <1>6

-----------------------------------------------------------------------------
(* From merge_edges on: whatever is copied or cut, an edge leads to where  *)
(* the last instruction of its block may.                                  *)

Follows(g, nds) ==
  \A nd \in nds :
    /\ Chain(g.block[nd]) /\ g.block[nd][1] = Id(nd)
    /\ \A b \in BOOLEAN :
         g.succ[nd][b] # NoNode => Id(g.succ[nd][b]) \in NextIds(Last(g.block[nd]))

Built ==
  \/ phase \in {"unroll", "begin_sort", "topo_sort", "sorted", "not_loop_free",
                "static_analysis", "dead_ends"}
  \/ phase \in {"reach", "remove_unreachable"} /\ analysed

FollowInv == Built => Follows(graph, Live)

\* Nothing but the listing says what follows an instruction.
LEMMA FollowsNext ==
  ASSUME listing' = listing, Follows(graph', Live')
  PROVE  Follows(graph, Live)'
<1>1. Code' = Code /\ \A id : TypeAt(id)' = TypeAt(id) /\ Target(id)' = Target(id)
  BY DEF Code, Ids, TypeAt, Instr, Target
<1>2. \A id : NextIds(id)' = NextIds(id)
  BY <1>1 DEF NextIds, Instr, Target, Ids
<1>3. ASSUME NEW nd \in Live'
      PROVE  /\ Chain(graph.block[nd])' /\ graph'.block[nd][1] = Id(nd)
             /\ \A b \in BOOLEAN :
                  graph'.succ[nd][b] # NoNode => Id(graph'.succ[nd][b]) \in NextIds(Last(graph.block[nd]))'
  <2>1. /\ graph'.block[nd] \in Seq(Code') /\ graph'.block[nd] # <<>>
        /\ \A i \in 1..Len(graph'.block[nd]) - 1 :
             /\ TypeAt(graph'.block[nd][i]) = "other"
             /\ graph'.block[nd][i + 1] = Id(Target(graph'.block[nd][i] + 1))
    BY <1>1 DEF Follows, Chain
  <2>2. \A i \in 1..Len(graph'.block[nd]) - 1 :
          /\ TypeAt(graph.block[nd][i])' = "other"
          /\ graph'.block[nd][i + 1] = Id(Target(graph.block[nd][i] + 1)')
    BY <1>1, <2>1
  <2>3. Chain(graph.block[nd])'
    BY <2>1, <2>2 DEF Chain
  <2>4. NextIds(Last(graph.block[nd]))' = NextIds(Last(graph'.block[nd]))
    BY <1>2
  <2>5. QED
    BY <2>3, <2>4 DEF Follows
<1>4. QED
  BY <1>3 DEF Follows

\* What is true of all edges is true of those that are left.
LEMMA FewerEdges ==
  ASSUME NEW g, NEW nds, Follows(g, nds), NEW h, h.block = g.block,
         \A nd \in nds, b \in BOOLEAN : h.succ[nd][b] \in {NoNode, g.succ[nd][b]}
  PROVE  Follows(h, nds)
<1>1. ASSUME NEW nd \in nds, NEW b \in BOOLEAN, h.succ[nd][b] # NoNode
      PROVE  Id(h.succ[nd][b]) \in NextIds(Last(h.block[nd]))
  <2>1. h.succ[nd][b] = g.succ[nd][b]
    BY <1>1
  <2>2. QED
    BY <1>1, <2>1 DEF Follows
<1>2. QED
  BY <1>1 DEF Follows

\* Where an instruction leads to by Onward, a run may go.
LEMMA OnwardFollows ==
  ASSUME listing \in Listings, ~Malformed, NEW id \in Code, NEW b \in BOOLEAN,
         Onward(id)[b] # NoNode
  PROVE  Id(Onward(id)[b]) \in NextIds(id)
<1>1. /\ TypeAt(id) = "jump" => NextIds(id) = {Id(Target(Instr(id).br))}
      /\ TypeAt(id) = "branch" => NextIds(id) = {Id(Target(id + 1)), Id(Target(Instr(id).br))}
      /\ TypeAt(id) = "other" => NextIds(id) = {Id(Target(id + 1))}
  BY NextIdsAre
<1>2. Onward(id)[b] =
        IF b THEN IF TypeAt(id) \in {"jump", "branch"} THEN Target(Instr(id).br) ELSE NoNode
             ELSE IF TypeAt(id) \in {"branch", "other"} THEN Target(id + 1) ELSE NoNode
  BY DEF Onward
<1>3. QED
  BY <1>1, <1>2

LEMMA ChainsFollow ==
  ASSUME listing \in Listings, ~Malformed, Chained,
         \A nd \in nodes : graph.succ[nd] = Onward(ExitId(nd))
  PROVE  Follows(graph, nodes)
<1>1. ASSUME NEW nd \in nodes
      PROVE  /\ Chain(graph.block[nd]) /\ graph.block[nd][1] = Id(nd)
             /\ \A b \in BOOLEAN :
                  graph.succ[nd][b] # NoNode => Id(graph.succ[nd][b]) \in NextIds(Last(graph.block[nd]))
  <2>1. Chain(graph.block[nd]) /\ graph.block[nd][1] = Id(nd)
    BY DEF Chained
  <2>2. ExitId(nd) \in Code /\ ExitId(nd) = Last(graph.block[nd])
    BY <2>1 DEF Chain, ExitId, Last
  <2>3. \A b \in BOOLEAN : graph.succ[nd][b] = Onward(ExitId(nd))[b]
    OBVIOUS
  <2>4. QED
    BY <2>1, <2>2, <2>3, OnwardFollows
<1>2. QED
  BY <1>1 DEF Follows

\* A copy has the instructions and the edges of the node it is made from.
LEMMA CloneFollows ==
  ASSUME NEW g, NEW nds, Follows(g, nds), nds \subseteq GraphNodes(g), NEW nd \in nds,
         NEW copy, copy \notin GraphNodes(g), Id(copy) = Id(nd)
  PROVE  Follows(Clone(g, nd, copy), nds \cup {copy})
<1> DEFINE h == Clone(g, nd, copy)
           G == GraphNodes(g)
<1>1. /\ h.block = [m \in G \cup {copy} |-> IF m = copy THEN g.block[nd] ELSE g.block[m]]
      /\ h.succ = [m \in G \cup {copy} |-> IF m = copy THEN g.succ[nd] ELSE g.succ[m]]
  BY DEF Clone
<1> HIDE DEF h, G
<1>2. ASSUME NEW m \in nds \cup {copy}
      PROVE  /\ Chain(h.block[m]) /\ h.block[m][1] = Id(m)
             /\ \A b \in BOOLEAN :
                  h.succ[m][b] # NoNode => Id(h.succ[m][b]) \in NextIds(Last(h.block[m]))
  <2> DEFINE from == IF m = copy THEN nd ELSE m
  <2>1. from \in nds /\ Id(from) = Id(m)
    OBVIOUS
  <2>2. h.block[m] = g.block[from] /\ h.succ[m] = g.succ[from]
    BY <1>1 DEF G
  <2> HIDE DEF from
  <2>3. QED
    BY <2>1, <2>2 DEF Follows
<1>3. QED
  BY <1>2 DEF Follows, h

\* An edge that is followed into a copy still leads to the same instruction.
LEMMA DeeperFollows ==
  ASSUME BuildInv, phase = "unroll", stack # <<>>, Top.i < Len(Edges), Deeper,
         Follows(graph, Live)
  PROVE  LET copy == <<Id(Succ), Depth>>
             known == IF copy \in unrolled THEN graph ELSE Clone(graph, Succ, copy)
         IN  Follows(Link(Unlink(known, Top.nd, Branch), Top.nd, Branch, copy), Live \cup {copy})
<1> DEFINE copy == <<Id(Succ), Depth>>
           known == IF copy \in unrolled THEN graph ELSE Clone(graph, Succ, copy)
           k == Unlink(known, Top.nd, Branch)
           h == Link(k, Top.nd, Branch, copy)
           L == Live \cup {copy}
<1>1. /\ Sound(graph, Live) /\ Top.nd \in Live
      /\ Branch \in BOOLEAN /\ Succ # NoNode /\ Succ \in Live /\ Succ = graph.succ[Top.nd][Branch]
  BY TopFacts DEF Succ
<1>2. /\ Sound(known, L) /\ known.succ[Top.nd] = graph.succ[Top.nd]
      /\ Unlinks(known, k, L, Top.nd, Branch) /\ Linked(k, h, L, Top.nd, Branch, copy)
      /\ Id(copy) = Id(Succ) /\ (copy \notin unrolled => copy \notin GraphNodes(graph))
  BY DeeperLinks, Zenon
<1>3. Follows(known, L)
  <2>1. CASE copy \in unrolled
    <3>1. L = Live /\ known = graph
      BY <2>1 DEF Live
    <3> HIDE DEF L, known
    <3>2. QED
      BY <3>1
  <2>2. CASE copy \notin unrolled
    <3>1. Live \subseteq GraphNodes(graph)
      BY <1>1, SoundTypes
    <3>2. known = Clone(graph, Succ, copy)
      BY <2>2
    <3> HIDE DEF known, copy
    <3>3. Follows(Clone(graph, Succ, copy), Live \cup {copy})
      BY <1>1, <1>2, <2>2, <3>1, CloneFollows
    <3>4. QED
      BY <3>2, <3>3
  <2>3. QED
    BY <2>1, <2>2
<1> HIDE DEF known, k, h, copy, L
<1>4. /\ known.succ \in [GraphNodes(known) -> [BOOLEAN -> Node \cup {NoNode}]]
      /\ L \subseteq GraphNodes(known)
  BY <1>2, SoundTypes
<1>5. Top.nd \in L /\ Top.nd \in GraphNodes(known)
  BY <1>1, <1>4 DEF L
<1>6. /\ k.block = known.block /\ h.block = known.block
      /\ k.succ = [known.succ EXCEPT ![Top.nd] = [known.succ[Top.nd] EXCEPT ![Branch] = NoNode]]
      /\ h.succ = [k.succ EXCEPT ![Top.nd] = [k.succ[Top.nd] EXCEPT ![Branch] = copy]]
  BY <1>2 DEF Unlinks, Linked
<1>7. ASSUME NEW m \in L, NEW b \in BOOLEAN
      PROVE  h.succ[m][b] = IF m = Top.nd /\ b = Branch THEN copy ELSE known.succ[m][b]
  BY <1>1, <1>4, <1>5, <1>6
<1>8. Id(copy) \in NextIds(Last(known.block[Top.nd]))
  <2>1. known.succ[Top.nd][Branch] = Succ
    BY <1>1, <1>2
  <2>2. Id(Succ) \in NextIds(Last(known.block[Top.nd]))
    BY <1>1, <1>3, <1>5, <2>1 DEF Follows
  <2>3. QED
    BY <1>2, <2>2
<1>9. ASSUME NEW m \in L
      PROVE  /\ Chain(h.block[m]) /\ h.block[m][1] = Id(m)
             /\ \A b \in BOOLEAN :
                  h.succ[m][b] # NoNode => Id(h.succ[m][b]) \in NextIds(Last(h.block[m]))
  <2>1. Chain(h.block[m]) /\ h.block[m][1] = Id(m)
    BY <1>3, <1>6 DEF Follows
  <2>2. ASSUME NEW b \in BOOLEAN, h.succ[m][b] # NoNode
        PROVE  Id(h.succ[m][b]) \in NextIds(Last(h.block[m]))
    <3>1. CASE m = Top.nd /\ b = Branch
      BY <1>6, <1>7, <1>8, <3>1
    <3>2. CASE ~(m = Top.nd /\ b = Branch)
      <4>1. h.succ[m][b] = known.succ[m][b]
        BY <1>7, <3>2
      <4>2. QED
        BY <1>3, <1>6, <2>2, <4>1 DEF Follows
    <3>3. QED
      BY <3>1, <3>2
  <2>3. QED
    BY <2>1, <2>2
<1>10. Follows(h, L)
  BY <1>9 DEF Follows
<1>11. QED
  BY <1>10 DEF h, k, L, known, copy

\* What unlinking leaves of the edges
LEMMA UnlinkFollows ==
  ASSUME NEW g, NEW nds, Sound(g, nds), Follows(g, nds), NEW nd \in nds, NEW b \in BOOLEAN,
         NEW h, Unlinks(g, h, nds, nd, b)
  PROVE  Follows(h, nds)
<1>1. /\ g.succ \in [GraphNodes(g) -> [BOOLEAN -> Node \cup {NoNode}]]
      /\ nds \subseteq GraphNodes(g)
  BY SoundTypes
<1>2. h.block = g.block /\ h.succ = [g.succ EXCEPT ![nd] = [g.succ[nd] EXCEPT ![b] = NoNode]]
  BY DEF Unlinks
<1>3. ASSUME NEW m \in nds, NEW c \in BOOLEAN PROVE h.succ[m][c] \in {NoNode, g.succ[m][c]}
  BY <1>1, <1>2
<1>4. QED
  BY <1>2, <1>3, FewerEdges

LEMMA UnlinkAllFollows ==
  ASSUME NEW g, NEW nds, Sound(g, nds), Follows(g, nds), NEW nd \in nds,
         NEW h, h = UnlinkAll(g, nd)
  PROVE  Follows(h, nds)
<1>1. /\ h.block = g.block
      /\ h.succ = [m \in GraphNodes(g) |->
                     [b \in BOOLEAN |-> IF m = nd \/ <<m, b>> \in g.pred[nd]
                                        THEN NoNode ELSE g.succ[m][b]]]
  BY DEF UnlinkAll
<1>2. nds \subseteq GraphNodes(g)
  BY SoundTypes
<1>3. ASSUME NEW m \in nds, NEW b \in BOOLEAN PROVE h.succ[m][b] \in {NoNode, g.succ[m][b]}
  BY <1>1, <1>2
<1>4. QED
  BY <1>1, <1>3, FewerEdges

LEMMA WithoutFollows ==
  ASSUME NEW g, NEW nds, Sound(g, nds), Follows(g, nds), NEW nd \in nds,
         NEW edges \in SUBSET Outs(g, nd)
  PROVE  Follows(Without(g, nd, edges), nds)
<1> DEFINE h == IF TRUE \in edges THEN Unlink(g, nd, TRUE) ELSE g
<1>1. /\ TRUE \in edges => g.succ[nd][TRUE] # NoNode
      /\ FALSE \in edges => g.succ[nd][FALSE] # NoNode
  BY DEF Outs
<1>2. Sound(h, nds) /\ Follows(h, nds) /\ (FALSE \in edges => h.succ[nd][FALSE] # NoNode)
  <2>1. CASE TRUE \in edges
    <3> DEFINE k == Unlink(g, nd, TRUE)
    <3>1. Unlinks(g, k, nds, nd, TRUE)
      BY <1>1, <2>1, UnlinkEither, Zenon
    <3>2. h = k
      BY <2>1
    <3> HIDE DEF k, h
    <3>3. /\ nd \in GraphNodes(g)
          /\ g.succ \in [GraphNodes(g) -> [BOOLEAN -> Node \cup {NoNode}]]
      BY SoundTypes
    <3>4. k.succ = [g.succ EXCEPT ![nd] = [g.succ[nd] EXCEPT ![TRUE] = NoNode]] /\ Sound(k, nds)
      BY <3>1 DEF Unlinks
    <3>5. k.succ[nd][FALSE] = g.succ[nd][FALSE]
      BY <3>3, <3>4
    <3>6. Follows(k, nds)
      BY <3>1, UnlinkFollows
    <3>7. QED
      BY <1>1, <3>2, <3>4, <3>5, <3>6
  <2>2. CASE TRUE \notin edges
    BY <1>1, <2>2
  <2>3. QED
    BY <2>1, <2>2
<1>3. Without(g, nd, edges) = IF FALSE \in edges THEN Unlink(h, nd, FALSE) ELSE h
  BY DEF Without
<1> HIDE DEF h
<1>4. ASSUME FALSE \in edges PROVE Follows(Unlink(h, nd, FALSE), nds)
  <2>1. Unlinks(h, Unlink(h, nd, FALSE), nds, nd, FALSE)
    BY <1>2, <1>4, UnlinkEither, Zenon
  <2>2. QED
    BY <1>2, <2>1, UnlinkFollows
<1>5. QED
  BY <1>2, <1>3, <1>4

LEMMA UnrollStepFollows ==
  ASSUME BuildInv, Follows(graph, Live), UnrollStep
  PROVE  Follows(graph', Live')
<1>1. phase = "unroll" /\ stack # <<>> /\ nodes' = nodes
  BY DEF UnrollStep
<1>2. /\ Sound(graph, Live) /\ Top.nd \in Live
      /\ Top.i < Len(Edges) => Branch \in BOOLEAN /\ graph.succ[Top.nd][Branch] # NoNode
  BY <1>1, TopFacts DEF Succ
<1>3. CASE Top.i < Len(Edges) /\ AtLimit /\ Cut
  <2>1. graph' = Unlink(graph, Top.nd, Branch) /\ Live' = Live
    BY <1>1, <1>3 DEF Cut, Live
  <2>2. Unlinks(graph, Unlink(graph, Top.nd, Branch), Live, Top.nd, Branch)
    BY <1>2, <1>3, UnlinkSound, Zenon
  <2>3. Follows(Unlink(graph, Top.nd, Branch), Live)
    BY <1>2, <1>3, <2>2, UnlinkFollows
  <2>4. QED
    BY <2>1, <2>3
<1>4. CASE Top.i < Len(Edges) /\ ~AtLimit /\ Follow
  <2>1. CASE Deeper
    <3> DEFINE copy == <<Id(Succ), Depth>>
               known == IF copy \in unrolled THEN graph ELSE Clone(graph, Succ, copy)
               h == Link(Unlink(known, Top.nd, Branch), Top.nd, Branch, copy)
    <3>1. graph' = h /\ unrolled' = unrolled \cup {copy}
      BY <1>4, <2>1 DEF Follow
    <3>2. Follows(h, Live \cup {copy})
      BY <1>1, <1>4, <2>1, DeeperFollows, Zenon
    <3> HIDE DEF h, copy
    <3>3. Live' = Live \cup {copy}
      BY <1>1, <3>1 DEF Live
    <3>4. QED
      BY <3>1, <3>2, <3>3
  <2>2. CASE ~Deeper
    <3>1. graph' = graph /\ Live' = Live
      BY <1>1, <1>4, <2>2 DEF Follow, Live
    <3>2. QED
      BY <3>1
  <2>3. QED
    BY <2>1, <2>2
<1>5. CASE Top.i >= Len(Edges) /\ Return
  <2>1. graph' = graph /\ Live' = Live
    BY <1>1, <1>5 DEF Return, Live
  <2>2. QED
    BY <2>1
<1>6. QED
  BY <1>3, <1>4, <1>5 DEF UnrollStep

\* Where neither the graph nor its nodes change
LEMMA GraphStays ==
  ASSUME Follows(graph, Live), listing' = listing, graph' = graph, Live' = Live
  PROVE  FollowInv'
<1>1. Follows(graph', Live')
  OBVIOUS
<1>2. QED
  BY <1>1, FollowsNext DEF FollowInv

LEMMA EarlyFollows ==
  ASSUME BuildInv, ChainInv, FollowInv,
         \/ InitNodes \/ CreateEdges \/ Reach \/ RemoveUnreachable
         \/ MergeEdges \/ EndMergeEdges
  PROVE  FollowInv'
<1>1. CASE InitNodes \/ CreateEdges \/ MergeEdges
  <2>1. InitNodes => ~Built'
    BY DEF InitNodes, Built
  <2>2. CreateEdges => ~Built'
    BY DEF CreateEdges, Built, staticVars, BuildInv, PhaseInv
  <2>3. MergeEdges => ~Built'
    BY DEF MergeEdges, Built
  <2>4. QED
    BY <1>1, <2>1, <2>2, <2>3 DEF FollowInv
<1>2. CASE Reach
  <2>1. /\ listing' = listing /\ graph' = graph /\ Live' = Live /\ analysed' = analysed
        /\ phase = "reach" /\ phase' \in {"reach", "remove_unreachable"}
    BY <1>2 DEF Reach, Live, unrollVars, staticVars
  <2>2. CASE analysed
    BY <2>1, <2>2, GraphStays DEF FollowInv, Built
  <2>3. CASE ~analysed
    BY <2>1, <2>3 DEF FollowInv, Built
  <2>4. QED
    BY <2>2, <2>3
<1>3. CASE RemoveUnreachable
  <2>1. /\ phase = "remove_unreachable" /\ analysed' = analysed /\ listing' = listing
        /\ phase' \in {"remove_unreachable", "begin_sort", "merge_edges"}
        /\ phase' = "begin_sort" => analysed
        /\ unrolled' = unrolled
        /\ \/ \E nd \in nodes : graph' = UnlinkAll(graph, nd) /\ nodes' = nodes \ {nd}
           \/ graph' = graph /\ nodes' = nodes
    BY <1>3 DEF RemoveUnreachable, staticVars, unrollVars
  <2>2. CASE analysed
    <3>1. Follows(graph, Live) /\ Sound(graph, Live)
      BY <2>1, <2>2 DEF FollowInv, Built, BuildInv, GraphInv
    <3>2. Follows(graph', Live')
      <4>1. ASSUME NEW nd \in nodes, graph' = UnlinkAll(graph, nd), nodes' = nodes \ {nd}
            PROVE  Follows(graph', Live')
        <5>1. nd \in Live /\ Live' \subseteq Live
          BY <2>1, <4>1 DEF Live
        <5>2. Follows(UnlinkAll(graph, nd), Live)
          BY <3>1, <5>1, UnlinkAllFollows
        <5>3. Follows(graph', Live)
          BY <4>1, <5>2
        <5>4. QED
          BY <5>1, <5>3 DEF Follows
      <4>2. ASSUME graph' = graph, nodes' = nodes PROVE Follows(graph', Live')
        <5>1. Live' = Live
          BY <2>1, <4>2 DEF Live
        <5>2. QED
          BY <3>1, <4>2, <5>1
      <4>3. QED
        BY <2>1, <4>1, <4>2
    <3>3. QED
      BY <2>1, <3>2, FollowsNext DEF FollowInv
  <2>3. CASE ~analysed
    BY <2>1, <2>3 DEF FollowInv, Built
  <2>4. QED
    BY <2>2, <2>3
<1>4. CASE EndMergeEdges
  <2>1. /\ phase = "merge_edges" /\ ~analysed /\ unrolled = {} /\ Chained
        /\ \A nd \in nodes : graph.succ[nd] = Onward(ExitId(nd))
        /\ listing \in Listings /\ ~Malformed
    BY <1>4 DEF BuildInv, PhaseInv, GraphInv, BlockInv, ChainInv, EndMergeEdges
  <2>2. listing' = listing /\ nodes' = nodes /\ graph' = graph /\ unrolled' = unrolled
    BY <1>4 DEF EndMergeEdges, unrollVars
  <2>3. Live = nodes /\ Live' = Live
    BY <2>1, <2>2 DEF Live
  <2>4. Follows(graph, Live)
    BY <2>1, <2>3, ChainsFollow
  <2>5. QED
    BY <2>2, <2>3, <2>4, GraphStays
<1>5. QED
  BY <1>1, <1>2, <1>3, <1>4

LEMMA LateFollows ==
  ASSUME BuildInv, FollowInv,
         \/ UnrollStep \/ EndUnroll
         \/ BeginSort \/ SortStep \/ EndSort
         \/ BeginStatic \/ VisitForward \/ VisitBackward
  PROVE  FollowInv'
<1>1. Follows(graph, Live) /\ Sound(graph, Live)
  <2>1. Built
    BY DEF UnrollStep, EndUnroll, BeginSort, SortStep, EndSort, BeginStatic, VisitForward,
           VisitBackward, Built
  <2>2. QED
    BY <2>1 DEF FollowInv, Built, BuildInv, GraphInv
<1>2. CASE UnrollStep
  <2>1. Follows(graph', Live') /\ listing' = listing
    BY <1>1, <1>2, UnrollStepFollows DEF UnrollStep
  <2>2. QED
    BY <2>1, FollowsNext DEF FollowInv
<1>3. CASE EndUnroll \/ BeginSort \/ SortStep \/ EndSort \/ BeginStatic
  <2>1. listing' = listing /\ graph' = graph /\ Live' = Live
    <3>1. EndUnroll => listing' = listing /\ graph' = graph /\ Live' = Live
      BY DEF EndUnroll, Live, unrollVars
    <3>2. BeginSort \/ EndSort \/ BeginStatic => listing' = listing /\ graph' = graph /\ Live' = Live
      BY DEF BeginSort, EndSort, BeginStatic, Live, unrollVars
    <3>3. SortStep => listing' = listing /\ graph' = graph /\ Live' = Live
      BY DEF SortStep, Live, unrollVars
    <3>4. QED
      BY <1>3, <3>1, <3>2, <3>3
  <2>2. QED
    BY <1>1, <2>1, GraphStays
<1>4. CASE VisitForward \/ VisitBackward
  <2>1. listing' = listing /\ nodes' = nodes /\ unrolled' = unrolled
    BY <1>4 DEF VisitForward, VisitBackward, unrollVars
  <2>2. Live' = Live
    BY <2>1 DEF Live
  <2>3. \/ graph' = graph
        \/ \E nd \in Live : Analyse(nd) \/ DropDeadEnd(nd)
    <3>1. ASSUME VisitForward
          PROVE  graph' = graph \/ \E nd \in Live : Analyse(nd)
      <4>1. pending \in Seq(Live) /\ todo \subseteq Live
        BY <3>1 DEF BuildInv, SortInv, VisitForward
      <4>2. pending # <<>> => Head(pending) \in Live
        BY <4>1, Rest
      <4>3. QED
        BY <3>1, <4>1, <4>2 DEF VisitForward
    <3>2. ASSUME VisitBackward
          PROVE  graph' = graph \/ \E nd \in Live : DropDeadEnd(nd)
      <4>1. pending \in Seq(Live) /\ todo \subseteq Live
        BY <3>2 DEF BuildInv, SortInv, VisitBackward
      <4>2. pending # <<>> => Last(pending) \in Live
        BY <4>1, Shorter
      <4>3. QED
        BY <3>2, <4>1, <4>2 DEF VisitBackward
    <3>3. QED
      BY <1>4, <3>1, <3>2
  <2>4. ASSUME NEW nd \in Live, Analyse(nd) \/ DropDeadEnd(nd) PROVE Follows(graph', Live)
    <3>1. CASE graph' = graph
      BY <1>1, <3>1
    <3>2. CASE graph' = UnlinkAll(graph, nd)
      BY <1>1, <3>2, UnlinkAllFollows
    <3>3. CASE \E edges \in SUBSET Outs(graph, nd) : graph' = Without(graph, nd, edges)
      BY <1>1, <3>3, WithoutFollows
    <3>4. QED
      BY <2>4, <3>1, <3>2, <3>3 DEF Analyse, DropDeadEnd
  <2>5. Follows(graph', Live')
    BY <1>1, <2>2, <2>3, <2>4
  <2>6. QED
    BY <2>1, <2>5, FollowsNext DEF FollowInv
<1>5. QED
  BY <1>2, <1>3, <1>4

\* Whatever is copied, cut or found unsatisfiable: each edge of the graph goes
\* where the program may go behind the block it leaves.
THEOREM FollowInvariant == Spec => []FollowInv
<1>1. Init => FollowInv
  BY DEF Init, FollowInv, Built
<1>2. BuildInv /\ ChainInv /\ FollowInv /\ [Next]_vars => FollowInv'
  <2>1. ASSUME FollowInv, UNCHANGED vars PROVE FollowInv'
    <3>1. UNCHANGED <<listing, phase, graph, nodes, unrolled, analysed>>
      BY <2>1 DEF vars, unrollVars, staticVars
    <3>2. Live' = Live /\ Built' = Built
      BY <3>1 DEF Live, Built
    <3>3. QED
      BY <2>1, <3>1, <3>2, GraphStays DEF FollowInv
  <2>2. QED
    BY <2>1, EarlyFollows, LateFollows, Zenon DEF Next
<1>3. QED
  BY BuildInvariant, ChainInvariant, <1>1, <1>2, PTL DEF Spec

-----------------------------------------------------------------------------
(* The runs of the listing and the paths of the graph                      *)

\* Each step on a path of the graph is one of the program: within a block
\* there is no other, and an edge is one.
Fits ==
  /\ Code \subseteq Nat /\ 0 \in Code /\ (\A id \in Code : NextIds(id) \subseteq Code)
  /\ Start \in Live
  /\ \A nd \in Live :
       /\ Chain(graph.block[nd]) /\ graph.block[nd][1] = Id(nd)
       /\ Succs(graph, nd) \subseteq Live
       /\ \A s \in Succs(graph, nd) : Id(s) \in NextIds(ExitId(nd))
       /\ \A i \in 1..Len(graph.block[nd]) - 1 :
            /\ NextIds(graph.block[nd][i]) = {graph.block[nd][i + 1]}
            /\ graph.block[nd][i] # FinId

\* Each step of the program from the end of a block is an edge.
LeadsOn == \A nd \in Live : \A id \in NextIds(ExitId(nd)) : \E s \in Succs(graph, nd) : id = Id(s)

\* Blocks and edges as FollowInv has them
LEMMA BlockFacts ==
  ASSUME BuildInv, phase \notin {"init_nodes", "bad_listing"}, Follows(graph, Live)
  PROVE  Fits
<1>1. listing \in Listings /\ ~Malformed /\ Start \in Live /\ Sound(graph, Live)
  BY DEF BuildInv, PhaseInv, GraphInv, Live
<1>2. Code \subseteq Nat /\ 0 \in Code /\ \A id \in Code : NextIds(id) \subseteq Code
  <2>1. FinId \in Code
    BY DEF Code
  <2>2. QED
    BY <1>1, <2>1, NextIdsAre
<1>3. ASSUME NEW nd \in Live
      PROVE  /\ Chain(graph.block[nd]) /\ graph.block[nd][1] = Id(nd)
             /\ Succs(graph, nd) \subseteq Live
             /\ \A s \in Succs(graph, nd) : Id(s) \in NextIds(ExitId(nd))
             /\ \A i \in 1..Len(graph.block[nd]) - 1 :
                  /\ NextIds(graph.block[nd][i]) = {graph.block[nd][i + 1]}
                  /\ graph.block[nd][i] # FinId
  <2> DEFINE b == graph.block[nd]
  <2>1. Chain(b) /\ b[1] = Id(nd)
    BY DEF Follows
  <2>2. Succs(graph, nd) \subseteq Live
    BY <1>1 DEF Sound, Consistent
  <2>3. \A s \in Succs(graph, nd) : Id(s) \in NextIds(ExitId(nd))
    BY DEF Follows, Succs, Outs, ExitId
  <2>4. b \in Seq(Code) /\ Len(b) \in Nat \ {0}
    BY <2>1 DEF Chain
  <2> HIDE DEF b
  <2>5. ASSUME NEW i \in 1..Len(b) - 1
        PROVE  NextIds(b[i]) = {b[i + 1]} /\ b[i] # FinId
    <3>1. TypeAt(b[i]) = "other" /\ b[i + 1] = Id(Target(b[i] + 1)) /\ b[i] \in Code
      BY <2>1, <2>4 DEF Chain
    <3>2. QED
      BY <1>1, <3>1, NextIdsAre
  <2>6. QED
    BY <2>1, <2>2, <2>3, <2>5 DEF b
<1>4. QED
  BY <1>1, <1>2, <1>3 DEF Fits

\* When the sort begins and nothing was unrolled
Merging == phase = "begin_sort" /\ ~analysed /\ ~Unrolls

LEMMA MergedFacts ==
  ASSUME BuildInv, ChainInv, Merging
  PROVE  Fits /\ LeadsOn /\ Live = nodes
<1>1. /\ listing \in Listings /\ ~Malformed /\ Chained /\ Live = nodes
      /\ \A nd \in nodes : graph.succ[nd] = Onward(ExitId(nd))
  <2>1. listing \in Listings /\ ~Malformed
    BY DEF BuildInv, PhaseInv, GraphInv, Merging
  <2>2. Chained /\ unrolled = {} /\ \A nd \in nodes : graph.succ[nd] = Onward(ExitId(nd))
    BY DEF ChainInv, Merging
  <2>3. QED
    BY <2>1, <2>2 DEF Live
<1>2. Fits
  <2>1. Follows(graph, Live)
    BY <1>1, ChainsFollow
  <2>2. QED
    BY <2>1, BlockFacts DEF Merging
<1>3. ASSUME NEW nd \in Live, NEW id \in NextIds(ExitId(nd))
      PROVE  \E s \in Succs(graph, nd) : id = Id(s)
  <2> DEFINE e == ExitId(nd)
             on == Onward(e)
  <2>1. e \in Code /\ graph.succ[nd] = on
    BY <1>1 DEF Chained, Chain, ExitId, Last
  <2>2. \A a : Target(a) # NoNode
    <3>1. Code \subseteq Nat
      BY <1>2 DEF Fits
    <3>2. \A c \in Code : <<c, 0>> # NoNode
      BY <3>1, NoNodeIsNone DEF Node
    <3>3. QED
      BY <3>2 DEF Target, Fin, Code
  <2>3. /\ on[TRUE] = IF TypeAt(e) \in {"jump", "branch"} THEN Target(Instr(e).br) ELSE NoNode
        /\ on[FALSE] = IF TypeAt(e) \in {"branch", "other"} THEN Target(e + 1) ELSE NoNode
    BY DEF Onward
  <2>4. /\ TypeAt(e) \in {"fin", "jump", "branch", "other"}
        /\ TypeAt(e) = "fin" => NextIds(e) = {}
        /\ TypeAt(e) = "jump" => NextIds(e) = {Id(Target(Instr(e).br))}
        /\ TypeAt(e) = "branch" => NextIds(e) = {Id(Target(e + 1)), Id(Target(Instr(e).br))}
        /\ TypeAt(e) = "other" => NextIds(e) = {Id(Target(e + 1))}
    BY <1>1, <2>1, NextIdsAre
  <2> HIDE DEF e, on
  <2>5. id \in NextIds(e)
    BY DEF e
  <2>6. \E c \in BOOLEAN : on[c] # NoNode /\ id = Id(on[c])
    <3>1. \/ on[TRUE] # NoNode /\ id = Id(on[TRUE])
          \/ on[FALSE] # NoNode /\ id = Id(on[FALSE])
      BY <2>2, <2>3, <2>4, <2>5
    <3>2. QED
      BY <3>1
  <2>7. QED
    BY <2>1, <2>6 DEF Succs, Outs
<1>4. QED
  BY <1>1, <1>2, <1>3 DEF LeadsOn

\* A set of addresses that is not left holds all that is reached from it.
LEMMA IdsWithin ==
  ASSUME listing \in Listings, ~Malformed, NEW T \in SUBSET Code, 0 \in T,
         \A id \in T : NextIds(id) \subseteq T
  PROVE  IdsFrom({0}) \subseteq T
<1> DEFINE n == Len(listing) + 1
           Grow(X) == X \cup UNION {NextIds(x) : x \in X}
           IsReach(C) == C = [k \in 0..n |-> IF k = 0 THEN {0} ELSE Grow(C[k - 1])]
           reach == CHOOSE C : IsReach(C)
<1>1. IdsFrom({0}) = reach[n]
  BY DEF IdsFrom, Closure
<1>2. n \in Nat
  BY ListingFacts
<1> HIDE DEF n
<1>3. {0} \in SUBSET T /\ \A X \in SUBSET T : Grow(X) \in SUBSET T
  OBVIOUS
<1> HIDE DEF Grow
<1> DEFINE h == [X \in SUBSET T |-> Grow(X)]
<1>4. h \in [SUBSET T -> SUBSET T]
  BY <1>3
<1>5. PICK D \in [0..n -> SUBSET T] : D[0] = {0} /\ \A k \in 1..n : D[k] = h[D[k - 1]]
  <2> DEFINE P == SUBSET T
             first == {0}
  <2>1. first \in P /\ h \in [P -> P]
    BY <1>3, <1>4
  <2> HIDE DEF h, P, first
  <2>2. PICK D : Iterates(D, P, first, h, n)
    BY <1>2, <2>1, Iterate
  <2>3. D \in [0..n -> P] /\ D[0] = first /\ \A k \in 1..n : D[k] = h[D[k - 1]]
    BY <2>2 DEF Iterates
  <2>4. QED
    BY <2>3 DEF P, first
<1>6. IsReach(D)
  <2>1. ASSUME NEW k \in 0..n PROVE D[k] = IF k = 0 THEN {0} ELSE Grow(D[k - 1])
    <3>1. CASE k = 0
      BY <1>5, <3>1
    <3>2. CASE k # 0
      <4>1. k \in 1..n /\ k - 1 \in 0..n
        BY <1>2, <3>2
      <4>2. D[k - 1] \in SUBSET T
        BY <4>1
      <4>3. D[k] = h[D[k - 1]]
        BY <1>5, <4>1
      <4>4. h[D[k - 1]] = Grow(D[k - 1])
        BY <4>2
      <4>5. QED
        BY <3>2, <4>3, <4>4
    <3>3. QED
      BY <3>1, <3>2
  <2>2. QED
    BY <2>1
<1>7. IsReach(reach)
  <2> HIDE DEF IsReach
  <2>1. QED
    BY <1>6
<1> HIDE DEF reach
<1>8. \A k \in 0..n : reach[k] = IF k = 0 THEN {0} ELSE Grow(reach[k - 1])
  BY <1>7
<1> DEFINE K == {k \in 0..n : reach[k] \subseteq T}
<1>9. 0 \in K
  BY <1>2, <1>3, <1>8
<1>10. ASSUME NEW k \in 0..n - 1, k \in K PROVE k + 1 \in K
  <2>1. PICK j \in 0..n : j = k + 1
    BY <1>2
  <2>2. j # 0 /\ j - 1 = k /\ reach[k] \in SUBSET T
    BY <1>10, <2>1
  <2>3. reach[j] = Grow(reach[k])
    BY <1>8, <2>2
  <2>4. QED
    BY <1>3, <2>1, <2>2, <2>3
<1> HIDE DEF K
<1>11. 0..n \subseteq K
  BY <1>2, <1>9, <1>10, InductionUpTo
<1>12. n \in 0..n
  BY <1>2
<1>13. QED
  BY <1>1, <1>11, <1>12 DEF K

\* Where an instruction that is reached branches to the end, fin_nd is still there.
LEMMA FinStays ==
  ASSUME BuildInv, ChainInv, Merging
  PROVE  \/ Fin \in nodes
         \/ \A id \in IdsFrom({0}) \ {FinId} : TypeAt(id) = "other" \/ Target(Instr(id).br) # Fin
<1> DEFINE T == UNION {{graph.block[nd][i] : i \in 1..Len(graph.block[nd])} : nd \in nodes}
<1>1. /\ listing \in Listings /\ ~Malformed /\ Sound(graph, nodes)
      /\ \A nd \in nodes : graph.succ[nd] = Onward(ExitId(nd))
  <2>1. listing \in Listings /\ ~Malformed /\ Sound(graph, Live)
    BY DEF BuildInv, PhaseInv, GraphInv, Merging
  <2>2. unrolled = {} /\ \A nd \in nodes : graph.succ[nd] = Onward(ExitId(nd))
    BY DEF ChainInv, Merging
  <2>3. Live = nodes
    BY <2>2 DEF Live
  <2>4. QED
    BY <2>1, <2>2, <2>3
<1>2. /\ Code \subseteq Nat /\ Start \in nodes
      /\ \A nd \in nodes :
           /\ Chain(graph.block[nd]) /\ graph.block[nd][1] = Id(nd)
           /\ Succs(graph, nd) \subseteq nodes
           /\ \A s \in Succs(graph, nd) : Id(s) \in NextIds(ExitId(nd))
           /\ \A id \in NextIds(ExitId(nd)) : \E s \in Succs(graph, nd) : id = Id(s)
           /\ \A i \in 1..Len(graph.block[nd]) - 1 :
                NextIds(graph.block[nd][i]) = {graph.block[nd][i + 1]}
  BY MergedFacts DEF Fits, LeadsOn
<1>3. ASSUME NEW nd \in nodes
      PROVE  /\ graph.block[nd] \in Seq(Code) /\ Len(graph.block[nd]) \in Nat \ {0}
             /\ ExitId(nd) = graph.block[nd][Len(graph.block[nd])]
             /\ 1 \in 1..Len(graph.block[nd]) /\ Id(nd) \in T
  BY <1>2 DEF Chain, ExitId, Last
<1>4. T \subseteq Code
  BY <1>3
<1>5. 0 \in T
  BY <1>2, <1>3 DEF Start, Id
<1>6. ASSUME NEW nd \in nodes, NEW i \in 1..Len(graph.block[nd])
      PROVE  NextIds(graph.block[nd][i]) \subseteq T
  <2>1. CASE i < Len(graph.block[nd])
    <3>1. i \in 1..Len(graph.block[nd]) - 1 /\ i + 1 \in 1..Len(graph.block[nd])
      BY <1>3, <2>1
    <3>2. NextIds(graph.block[nd][i]) = {graph.block[nd][i + 1]}
      BY <1>2, <3>1
    <3>3. QED
      BY <3>1, <3>2
  <2>2. CASE i = Len(graph.block[nd])
    <3>1. \A id \in NextIds(graph.block[nd][i]) : \E s \in Succs(graph, nd) : id = Id(s)
      BY <1>2, <1>3, <2>2
    <3>2. \A s \in Succs(graph, nd) : s \in nodes
      BY <1>2
    <3> HIDE DEF T
    <3>3. QED
      BY <1>3, <3>1, <3>2
  <2>3. i < Len(graph.block[nd]) \/ i = Len(graph.block[nd])
    BY <1>3
  <2>4. QED
    BY <2>1, <2>2, <2>3, Zenon
<1>7. ASSUME NEW id \in T PROVE NextIds(id) \subseteq T
  <2>1. PICK nd \in nodes : \E i \in 1..Len(graph.block[nd]) : id = graph.block[nd][i]
    BY <1>7
  <2>2. PICK i \in 1..Len(graph.block[nd]) : id = graph.block[nd][i]
    BY <2>1
  <2> HIDE DEF T
  <2>3. QED
    BY <1>6, <2>2, Zenon
<1>8. IdsFrom({0}) \subseteq T
  <2> HIDE DEF T
  <2>1. QED
    BY <1>1, <1>4, <1>5, <1>7, IdsWithin
<1>9. ASSUME NEW id \in T, id # FinId, TypeAt(id) # "other", Target(Instr(id).br) = Fin
      PROVE  Fin \in nodes
  <2>1. PICK nd \in nodes : \E i \in 1..Len(graph.block[nd]) : id = graph.block[nd][i]
    BY <1>9
  <2>a. PICK i \in 1..Len(graph.block[nd]) : id = graph.block[nd][i]
    BY <2>1
  <2>2. i = Len(graph.block[nd])
    <3>1. CASE i < Len(graph.block[nd])
      <4>1. i \in 1..Len(graph.block[nd]) - 1
        BY <1>3, <3>1
      <4>2. QED
        BY <1>2, <1>9, <2>a, <4>1 DEF Chain
    <3>2. QED
      BY <1>3, <3>1
  <2>3. id = ExitId(nd) /\ id \in Code
    BY <1>3, <1>4, <1>9, <2>a, <2>2
  <2>4. TypeAt(id) \in {"jump", "branch"}
    BY <1>1, <1>9, <2>3, NextIdsAre
  <2>5. graph.succ[nd][TRUE] = Fin
    BY <1>1, <1>9, <2>3, <2>4 DEF Onward
  <2>6. Fin # NoNode
    BY NoNodeIsNone, ListingAssumption DEF Fin, Node
  <2>7. TRUE \in BOOLEAN
    OBVIOUS
  <2>8. QED
    BY <1>1, <2>5, <2>6, <2>7, SuccThere
<1> HIDE DEF T
<1>10. QED
  BY <1>8, <1>9

\* The walks of k steps from first, each along N, of which each beginning is
\* allowed, that is in Q
Walks(A, N, Q, first, k) ==
  {w \in Seq(A) : /\ Len(w) = k + 1 /\ w[1] = first
                  /\ \A i \in 1..k : w[i + 1] \in N[w[i]] /\ SubSeq(w, 1, i + 1) \in Q}

LEMMA NoSteps ==
  ASSUME NEW A, NEW N, NEW Q, NEW first \in A
  PROVE  Walks(A, N, Q, first, 0) = {<<first>>}
<1>1. ASSUME NEW w \in Walks(A, N, Q, first, 0) PROVE w = <<first>>
  BY <1>1 DEF Walks
<1>2. <<first>> \in Walks(A, N, Q, first, 0)
  BY DEF Walks
<1>3. QED
  BY <1>1, <1>2

\* A walk that goes one step further
LEMMA StepOn ==
  ASSUME NEW A, NEW N \in [A -> SUBSET A], NEW Q, NEW first \in A, NEW k \in Nat,
         NEW v \in Walks(A, N, Q, first, k), NEW x \in N[Last(v)], Append(v, x) \in Q
  PROVE  Append(v, x) \in Walks(A, N, Q, first, k + 1)
<1> DEFINE w == Append(v, x)
<1>1. /\ v \in Seq(A) /\ Len(v) = k + 1 /\ v[1] = first /\ Last(v) = v[k + 1] /\ Last(v) \in A
      /\ \A i \in 1..k : v[i + 1] \in N[v[i]] /\ SubSeq(v, 1, i + 1) \in Q
  <2>1. v \in Seq(A) /\ Len(v) = k + 1 /\ v[1] = first
        /\ \A i \in 1..k : v[i + 1] \in N[v[i]] /\ SubSeq(v, 1, i + 1) \in Q
    BY DEF Walks
  <2>2. QED
    BY <2>1 DEF Last
<1>2. x \in A
  BY <1>1
<1>3. /\ w \in Seq(A) /\ Len(w) = k + 2 /\ w[k + 2] = x
      /\ \A i \in 1..k + 1 : w[i] = v[i]
  BY <1>1, <1>2
<1>4. w \in Q
  OBVIOUS
<1> HIDE DEF w
<1>5. ASSUME NEW i \in 1..k + 1 PROVE w[i + 1] \in N[w[i]] /\ SubSeq(w, 1, i + 1) \in Q
  <2>1. CASE i = k + 1
    <3>1. w[i + 1] = x /\ w[i] = Last(v)
      BY <1>1, <1>3, <2>1
    <3>2. SubSeq(w, 1, i + 1) = w
      BY <1>3, <2>1
    <3>3. QED
      BY <1>4, <3>1, <3>2
  <2>2. CASE i \in 1..k
    <3>1. w[i] = v[i] /\ w[i + 1] = v[i + 1]
      BY <1>3, <2>2
    <3>2. SubSeq(w, 1, i + 1) = SubSeq(v, 1, i + 1)
      <4> DEFINE a == SubSeq(w, 1, i + 1)
                 b == SubSeq(v, 1, i + 1)
      <4>1. i + 1 \in 1..Len(w) /\ i + 1 \in 1..Len(v)
        BY <1>1, <1>3, <2>2
      <4>2. /\ a \in Seq(A) /\ Len(a) = i + 1 /\ \A j \in 1..i + 1 : a[j] = w[j]
            /\ b \in Seq(A) /\ Len(b) = i + 1 /\ \A j \in 1..i + 1 : b[j] = v[j]
        BY <1>1, <1>3, <4>1, Beginning
      <4> HIDE DEF a, b
      <4>3. \A j \in 1..i + 1 : a[j] = b[j]
        BY <1>3, <2>2, <4>2
      <4>4. a = b
        BY <4>2, <4>3
      <4>5. QED
        BY <4>4 DEF a, b
    <3>3. QED
      BY <1>1, <2>2, <3>1, <3>2
  <2>3. QED
    BY <2>1, <2>2
<1>6. w[1] = first /\ Len(w) = k + 1 + 1
  BY <1>1, <1>3
<1>7. w \in Walks(A, N, Q, first, k + 1)
  BY <1>3, <1>5, <1>6 DEF Walks
<1>8. QED
  BY <1>7 DEF w

\* What the walks V become with one step more
Onwards(N, Q, V) == {w \in UNION {{Append(v, x) : x \in N[Last(v)]} : v \in V} : w \in Q}

\* A walk without its last step
LEMMA StepBack ==
  ASSUME NEW A, NEW N \in [A -> SUBSET A], NEW Q, NEW first \in A, NEW k \in Nat,
         NEW w \in Walks(A, N, Q, first, k + 1)
  PROVE  w \in Onwards(N, Q, Walks(A, N, Q, first, k))
<1> DEFINE v == SubSeq(w, 1, k + 1)
           x == w[k + 2]
<1>1. /\ w \in Seq(A) /\ Len(w) = k + 2 /\ w[1] = first
      /\ \A i \in 1..k + 1 : w[i + 1] \in N[w[i]] /\ SubSeq(w, 1, i + 1) \in Q
  BY DEF Walks
<1>2. /\ v \in Seq(A) /\ Len(v) = k + 1 /\ Last(v) = w[k + 1]
      /\ \A i \in 1..k + 1 : v[i] = w[i]
  BY <1>1, Beginning
<1>3. x \in A /\ x \in N[Last(v)]
  <2>1. k + 1 \in 1..k + 1 /\ k + 1 + 1 = k + 2
    OBVIOUS
  <2>2. w[k + 2] \in N[w[k + 1]]
    BY <1>1, <2>1
  <2>3. w[k + 2] \in A
    BY <1>1
  <2>4. QED
    BY <1>2, <2>2, <2>3
<1>4. SubSeq(w, 1, k + 2) = w /\ SubSeq(w, 1, k + 2) \in Q
  <2>1. k + 1 \in 1..k + 1 /\ k + 1 + 1 = k + 2
    OBVIOUS
  <2>2. SubSeq(w, 1, k + 2) \in Q
    BY <1>1, <2>1
  <2>3. SubSeq(w, 1, k + 2) = w
    BY <1>1
  <2>4. QED
    BY <2>2, <2>3
<1> HIDE DEF v, x
<1>5. w = Append(v, x)
  <2> DEFINE a == Append(v, x)
  <2>1. a \in Seq(A) /\ Len(a) = k + 2 /\ a[k + 2] = x /\ \A i \in 1..k + 1 : a[i] = v[i]
    BY <1>2, <1>3
  <2> HIDE DEF a
  <2>2. \A i \in 1..k + 2 : a[i] = w[i]
    BY <1>2, <2>1 DEF x
  <2>3. a = w
    BY <1>1, <2>1, <2>2
  <2>4. QED
    BY <2>3 DEF a
<1>6. ASSUME NEW i \in 1..k PROVE v[i + 1] \in N[v[i]] /\ SubSeq(v, 1, i + 1) \in Q
  <2>1. /\ i \in 1..k + 1 /\ i + 1 \in 1..k + 1
        /\ v[i] = w[i] /\ v[i + 1] = w[i + 1]
    BY <1>2
  <2> DEFINE a == SubSeq(w, 1, i + 1)
             b == SubSeq(v, 1, i + 1)
  <2>2. i + 1 \in 1..Len(w) /\ i + 1 \in 1..Len(v)
    BY <1>1, <1>2, <2>1
  <2>3. /\ a \in Seq(A) /\ Len(a) = i + 1 /\ \A j \in 1..i + 1 : a[j] = w[j]
        /\ b \in Seq(A) /\ Len(b) = i + 1 /\ \A j \in 1..i + 1 : b[j] = v[j]
    BY <1>1, <1>2, <2>2, Beginning
  <2>4. a \in Q
    BY <1>1, <2>1
  <2> HIDE DEF a, b
  <2>5. \A j \in 1..i + 1 : a[j] = b[j]
    BY <1>2, <2>3
  <2>6. a = b
    BY <2>3, <2>5
  <2>7. QED
    BY <1>1, <2>1, <2>4, <2>6 DEF b
<1>7. v[1] = first
  BY <1>1, <1>2
<1>8. v \in Walks(A, N, Q, first, k)
  BY <1>2, <1>6, <1>7 DEF Walks
<1> DEFINE V == Walks(A, N, Q, first, k)
<1> HIDE DEF V
<1>9. v \in V /\ w \in {Append(v, y) : y \in N[Last(v)]} /\ w \in Q
  BY <1>3, <1>4, <1>5, <1>8 DEF V
<1>10. w \in Onwards(N, Q, V)
  BY <1>9 DEF Onwards
<1>11. QED
  BY <1>10 DEF V

\* The walks of CompleteWalks, for a set A that they do not leave
LEMMA WalksNext ==
  ASSUME NEW A, NEW N \in [A -> SUBSET A], NEW Q, NEW first \in A, NEW k \in Nat
  PROVE  /\ Walks(A, N, Q, first, k) \subseteq Seq(A)
         /\ \A v \in Walks(A, N, Q, first, k) : Last(v) \in A
         /\ Walks(A, N, Q, first, k + 1) = Onwards(N, Q, Walks(A, N, Q, first, k))
<1>1. Walks(A, N, Q, first, k) \subseteq Seq(A)
  BY DEF Walks
<1>2. ASSUME NEW v \in Walks(A, N, Q, first, k) PROVE Last(v) \in A
  <2>1. v \in Seq(A) /\ Len(v) = k + 1
    BY DEF Walks
  <2>2. QED
    BY <2>1 DEF Last
<1>3. \A v \in Walks(A, N, Q, first, k) : \A x \in N[Last(v)] :
         Append(v, x) \in Q => Append(v, x) \in Walks(A, N, Q, first, k + 1)
  BY StepOn
<1> DEFINE V == Walks(A, N, Q, first, k)
           U == Walks(A, N, Q, first, k + 1)
<1>4. U \subseteq Onwards(N, Q, V)
  BY StepBack
<1> HIDE DEF V, U
<1>5. \A v \in V : \A x \in N[Last(v)] : Append(v, x) \in Q => Append(v, x) \in U
  BY <1>3 DEF V, U
<1>6. ASSUME NEW w \in Onwards(N, Q, V) PROVE w \in U
  <2>1. w \in Q /\ w \in UNION {{Append(v, x) : x \in N[Last(v)]} : v \in V}
    BY DEF Onwards
  <2>2. PICK v \in V : w \in {Append(v, x) : x \in N[Last(v)]}
    BY <2>1
  <2>3. QED
    BY <1>5, <2>1, <2>2
<1>7. U = Onwards(N, Q, V)
  BY <1>4, <1>6
<1>8. QED
  BY <1>1, <1>2, <1>7 DEF V, U

\* The walks through the graph
NodeWalks(k) == Walks(Live, [nd \in Live |-> Succs(graph, nd)], Seq(Live), Start, k)
Flat(w) == FlattenSeq([i \in DOMAIN w |-> graph.block[w[i]]])

LEMMA GraphRunsAre ==
  ASSUME Start \in Live, \A nd \in Live : Succs(graph, nd) \subseteq Live, NEW n \in Nat
  PROVE  GraphRuns(n) =
           {Flat(w) : w \in {v \in UNION {NodeWalks(k) : k \in 0..n} : ExitId(Last(v)) = FinId}}
<1> DEFINE Further(V) == {w \in UNION {{Append(v, x) : x \in Succs(graph, Last(v))} : v \in V} : TRUE}
           IsW(f) == f = [k \in 0..n |-> IF k = 0 THEN {<<Start>>} ELSE Further(f[k - 1])]
           W == CHOOSE f : IsW(f)
           all == [k \in 0..n |-> NodeWalks(k)]
<1>1. GraphRuns(n) =
        {Flat(w) : w \in {v \in UNION {W[k] : k \in 0..n} : ExitId(Last(v)) = FinId}}
  BY DEF GraphRuns, CompleteWalks, Flat
<1> DEFINE N == [nd \in Live |-> Succs(graph, nd)]
<1>2. N \in [Live -> SUBSET Live] /\ \A nd \in Live : N[nd] = Succs(graph, nd)
  OBVIOUS
<1> HIDE DEF N
<1>3. \A k \in Nat : NodeWalks(k) = Walks(Live, N, Seq(Live), Start, k)
  BY DEF NodeWalks, N
<1>4. NodeWalks(0) = {<<Start>>}
  BY <1>3, NoSteps
<1>5. ASSUME NEW k \in Nat PROVE NodeWalks(k + 1) = Further(NodeWalks(k))
  <2> DEFINE V == NodeWalks(k)
  <2>1. /\ V \subseteq Seq(Live) /\ \A v \in V : Last(v) \in Live
        /\ NodeWalks(k + 1) = Onwards(N, Seq(Live), V)
    BY <1>2, <1>3, WalksNext
  <2> HIDE DEF V
  <2>2. \A v \in V : N[Last(v)] = Succs(graph, Last(v)) /\ N[Last(v)] \subseteq Live
    BY <1>2, <2>1
  <2>3. \A v \in V : \A x \in Succs(graph, Last(v)) : Append(v, x) \in Seq(Live)
    BY <2>1, <2>2
  <2>4. NodeWalks(k + 1) = Further(V)
    BY <2>1, <2>2, <2>3 DEF Onwards
  <2>5. QED
    BY <2>4 DEF V
<1> HIDE DEF Further
<1>6. IsW(all)
  <2>1. ASSUME NEW k \in 0..n
        PROVE  NodeWalks(k) = IF k = 0 THEN {<<Start>>} ELSE Further(all[k - 1])
    <3>1. CASE k = 0
      BY <1>4, <3>1
    <3>2. CASE k # 0
      <4>1. k - 1 \in 0..n /\ k - 1 \in Nat /\ k - 1 + 1 = k
        BY <3>2
      <4>2. all[k - 1] = NodeWalks(k - 1)
        BY <4>1
      <4>3. NodeWalks(k - 1 + 1) = Further(NodeWalks(k - 1))
        BY <1>5, <4>1
      <4>4. QED
        BY <3>2, <4>1, <4>2, <4>3
    <3>3. QED
      BY <3>1, <3>2
  <2>2. QED
    BY <2>1
<1>7. IsW(W)
  <2> HIDE DEF IsW, all
  <2>1. QED
    BY <1>6
<1> HIDE DEF W
<1>8. \A k \in 0..n : W[k] = IF k = 0 THEN {<<Start>>} ELSE Further(W[k - 1])
  BY <1>7
<1> DEFINE K == {k \in 0..n : W[k] = NodeWalks(k)}
<1>9. 0 \in K
  BY <1>4, <1>8
<1>10. ASSUME NEW k \in 0..n - 1, k \in K PROVE k + 1 \in K
  <2>1. PICK j \in 0..n : j = k + 1
    OBVIOUS
  <2>2. j # 0 /\ j - 1 = k /\ W[k] = NodeWalks(k) /\ k \in Nat
    BY <1>10, <2>1
  <2>3. W[j] = Further(W[k])
    BY <1>8, <2>2
  <2>4. NodeWalks(k + 1) = Further(NodeWalks(k))
    BY <1>5, <2>2
  <2>5. QED
    BY <2>1, <2>2, <2>3, <2>4
<1> HIDE DEF K
<1>11. 0..n \subseteq K
  BY <1>9, <1>10, InductionUpTo
<1>12. \A k \in 0..n : W[k] = NodeWalks(k)
  BY <1>11 DEF K
<1>13. UNION {W[k] : k \in 0..n} = UNION {NodeWalks(k) : k \in 0..n}
  BY <1>12
<1>14. QED
  BY <1>1, <1>13

\* The runs of the program that pass no instruction more than n times
IdWalks(n, k) ==
  Walks(Code, [id \in Code |-> NextIds(id)], {w \in Seq(Code) : Count(w, Last(w)) <= n}, 0, k)

LEMMA RunsAre ==
  ASSUME 0 \in Code, \A id \in Code : NextIds(id) \subseteq Code, NEW n \in Nat
  PROVE  Runs(LAMBDA id : n, n) = {w \in UNION {IdWalks(n, k) : k \in 0..n} : Last(w) = FinId}
<1> DEFINE Further(V) == {w \in UNION {{Append(v, x) : x \in NextIds(Last(v))} : v \in V} :
                            Count(w, Last(w)) <= n}
           IsW(f) == f = [k \in 0..n |-> IF k = 0 THEN {<<0>>} ELSE Further(f[k - 1])]
           W == CHOOSE f : IsW(f)
           all == [k \in 0..n |-> IdWalks(n, k)]
<1>1. Runs(LAMBDA id : n, n) = {w \in UNION {W[k] : k \in 0..n} : Last(w) = FinId}
  BY DEF Runs, CompleteWalks
<1> DEFINE N == [id \in Code |-> NextIds(id)]
           Q == {w \in Seq(Code) : Count(w, Last(w)) <= n}
<1>2. /\ N \in [Code -> SUBSET Code] /\ \A id \in Code : N[id] = NextIds(id)
      /\ \A w \in Seq(Code) : w \in Q <=> Count(w, Last(w)) <= n
  OBVIOUS
<1> HIDE DEF N, Q
<1>3. \A k \in Nat : IdWalks(n, k) = Walks(Code, N, Q, 0, k)
  BY DEF IdWalks, N, Q
<1>4. IdWalks(n, 0) = {<<0>>}
  BY <1>3, NoSteps
<1>5. ASSUME NEW k \in Nat PROVE IdWalks(n, k + 1) = Further(IdWalks(n, k))
  <2> DEFINE V == IdWalks(n, k)
  <2>1. /\ V \subseteq Seq(Code) /\ \A v \in V : Last(v) \in Code
        /\ IdWalks(n, k + 1) = Onwards(N, Q, V)
    BY <1>2, <1>3, WalksNext
  <2> HIDE DEF V
  <2>2. \A v \in V : N[Last(v)] = NextIds(Last(v)) /\ N[Last(v)] \subseteq Code
    BY <1>2, <2>1
  <2>3. \A v \in V : \A x \in NextIds(Last(v)) : Append(v, x) \in Seq(Code)
    BY <2>1, <2>2
  <2> DEFINE U == UNION {{Append(v, x) : x \in N[Last(v)]} : v \in V}
  <2>4. U = UNION {{Append(v, x) : x \in NextIds(Last(v))} : v \in V} /\ U \subseteq Seq(Code)
    <3>1. \A v \in V : {Append(v, x) : x \in N[Last(v)]} = {Append(v, x) : x \in NextIds(Last(v))}
      BY <2>2, Zenon
    <3>2. U = UNION {{Append(v, x) : x \in NextIds(Last(v))} : v \in V}
      <4> DEFINE A(v) == {Append(v, x) : x \in N[Last(v)]}
                 B(v) == {Append(v, x) : x \in NextIds(Last(v))}
      <4>1. \A v \in V : A(v) = B(v)
        BY <3>1
      <4> HIDE DEF A, B
      <4>2. {A(v) : v \in V} = {B(v) : v \in V}
        BY <4>1
      <4>3. QED
        BY <4>2, Zenon DEF A, B
    <3>3. \A v \in V : {Append(v, x) : x \in NextIds(Last(v))} \subseteq Seq(Code)
      BY <2>3, Zenon
    <3> HIDE DEF U
    <3>4. QED
      BY <3>2, <3>3, Zenon
  <2>5. IdWalks(n, k + 1) = {w \in U : w \in Q}
    BY <2>1 DEF Onwards
  <2> HIDE DEF U
  <2>6. {w \in U : w \in Q} = {w \in U : Count(w, Last(w)) <= n}
    BY <1>2, <2>4
  <2>7. IdWalks(n, k + 1) = Further(V)
    BY <2>4, <2>5, <2>6
  <2>8. QED
    BY <2>7 DEF V
<1> HIDE DEF Further
<1>6. IsW(all)
  <2>1. ASSUME NEW k \in 0..n
        PROVE  IdWalks(n, k) = IF k = 0 THEN {<<0>>} ELSE Further(all[k - 1])
    <3>1. CASE k = 0
      BY <1>4, <3>1
    <3>2. CASE k # 0
      <4>1. k - 1 \in 0..n /\ k - 1 \in Nat /\ k - 1 + 1 = k
        BY <3>2
      <4>2. all[k - 1] = IdWalks(n, k - 1)
        BY <4>1
      <4>3. IdWalks(n, k - 1 + 1) = Further(IdWalks(n, k - 1))
        BY <1>5, <4>1
      <4>4. QED
        BY <3>2, <4>1, <4>2, <4>3
    <3>3. QED
      BY <3>1, <3>2
  <2>2. QED
    BY <2>1
<1>7. IsW(W)
  <2> HIDE DEF IsW, all
  <2>1. QED
    BY <1>6
<1> HIDE DEF W
<1>8. \A k \in 0..n : W[k] = IF k = 0 THEN {<<0>>} ELSE Further(W[k - 1])
  BY <1>7
<1> DEFINE K == {k \in 0..n : W[k] = IdWalks(n, k)}
<1>9. 0 \in K
  <2>1. 0 \in 0..n
    OBVIOUS
  <2>2. W[0] = {<<0>>}
    BY <1>8, <2>1, Zenon
  <2>3. QED
    BY <1>4, <2>1, <2>2
<1>10. ASSUME NEW k \in 0..n - 1, k \in K PROVE k + 1 \in K
  <2>1. PICK j \in 0..n : j = k + 1
    OBVIOUS
  <2>2. j # 0 /\ j - 1 = k /\ W[k] = IdWalks(n, k) /\ k \in Nat
    BY <1>10, <2>1
  <2>3. W[j] = Further(W[k])
    BY <1>8, <2>2
  <2>4. IdWalks(n, k + 1) = Further(IdWalks(n, k))
    BY <1>5, <2>2
  <2>5. QED
    BY <2>1, <2>2, <2>3, <2>4
<1> HIDE DEF K
<1>11. 0..n \subseteq K
  BY <1>9, <1>10, InductionUpTo
<1>12. \A k \in 0..n : W[k] = IdWalks(n, k)
  BY <1>11 DEF K
<1>13. UNION {W[k] : k \in 0..n} = UNION {IdWalks(n, k) : k \in 0..n}
  BY <1>12
<1>14. QED
  BY <1>1, <1>13

-----------------------------------------------------------------------------
(* The runs of the program and the walks through the blocks                *)

IsRun(u) ==
  /\ u \in Seq(Code) /\ u # <<>> /\ u[1] = 0
  /\ \A i \in 1..Len(u) - 1 : u[i + 1] \in NextIds(u[i])

\* b is what u ends with
Ends(u, b) == Len(b) <= Len(u) /\ \A i \in 1..Len(b) : u[Len(u) - Len(b) + i] = b[i]

\* A run goes on by what its last instruction leads to.
LEMMA RunOn ==
  ASSUME NEW u, IsRun(u), NEW c \in Seq(Code), c # <<>>, c[1] \in NextIds(u[Len(u)]),
         \A i \in 1..Len(c) - 1 : c[i + 1] \in NextIds(c[i])
  PROVE  /\ IsRun(u \o c) /\ Ends(u \o c, c) /\ Len(u \o c) = Len(u) + Len(c)
         /\ \A i \in 1..Len(u) : (u \o c)[i] = u[i]
<1> DEFINE d == u \o c
<1>1. /\ u \in Seq(Code) /\ Len(u) \in Nat \ {0} /\ Len(c) \in Nat \ {0}
      /\ u[1] = 0 /\ \A i \in 1..Len(u) - 1 : u[i + 1] \in NextIds(u[i])
  BY DEF IsRun
<1>2. /\ d \in Seq(Code) /\ Len(d) = Len(u) + Len(c)
      /\ \A i \in 1..Len(u) : d[i] = u[i]
      /\ \A i \in 1..Len(c) : d[Len(u) + i] = c[i]
  BY <1>1
<1> HIDE DEF d
<1>3. ASSUME NEW i \in 1..Len(d) - 1 PROVE d[i + 1] \in NextIds(d[i])
  <2>1. CASE i < Len(u)
    <3>1. i \in 1..Len(u) - 1 /\ i \in 1..Len(u) /\ i + 1 \in 1..Len(u)
      BY <1>1, <1>2, <2>1
    <3>2. d[i] = u[i] /\ d[i + 1] = u[i + 1]
      BY <1>2, <3>1
    <3>3. QED
      BY <1>1, <3>1, <3>2
  <2>2. CASE i = Len(u)
    <3>1. i \in 1..Len(u) /\ 1 \in 1..Len(c)
      BY <1>1, <2>2
    <3>2. d[i] = u[Len(u)] /\ d[i + 1] = c[1]
      BY <1>1, <1>2, <2>2, <3>1
    <3>3. QED
      BY <3>2
  <2>3. CASE i > Len(u)
    <3>1. i - Len(u) \in 1..Len(c) - 1 /\ i = Len(u) + (i - Len(u))
      BY <1>1, <1>2, <2>3
    <3>2. PICK j \in 1..Len(c) - 1 : i = Len(u) + j
      BY <3>1
    <3>3. j \in 1..Len(c) /\ j + 1 \in 1..Len(c) /\ i + 1 = Len(u) + (j + 1)
      BY <1>1, <3>2
    <3>4. d[i] = c[j] /\ d[i + 1] = c[j + 1]
      BY <1>2, <3>2, <3>3
    <3>5. QED
      BY <3>2, <3>4
  <2>4. QED
    <3>1. i \in Int /\ Len(u) \in Int
      BY <1>1, <1>2
    <3>2. QED
      BY <2>1, <2>2, <2>3, <3>1
<1>4. IsRun(d)
  <2>1. d # <<>> /\ d[1] = 0
    BY <1>1, <1>2
  <2>2. QED
    BY <1>2, <1>3, <2>1 DEF IsRun
<1>5. Ends(d, c)
  <2>1. Len(c) <= Len(d) /\ Len(d) - Len(c) = Len(u)
    BY <1>1, <1>2
  <2>2. QED
    BY <1>2, <2>1 DEF Ends
<1>6. QED
  BY <1>2, <1>4, <1>5 DEF d

\* What the block of a node is, as the end of a run
LEMMA BlockIs ==
  ASSUME Fits, NEW nd \in Live
  PROVE  LET b == graph.block[nd]
         IN  /\ b \in Seq(Code) /\ b # <<>> /\ Len(b) \in Nat \ {0} /\ b[1] = Id(nd)
             /\ ExitId(nd) = b[Len(b)]
             /\ \A i \in 1..Len(b) - 1 : b[i + 1] \in NextIds(b[i])
<1>1. /\ Chain(graph.block[nd]) /\ graph.block[nd][1] = Id(nd)
      /\ \A i \in 1..Len(graph.block[nd]) - 1 :
           NextIds(graph.block[nd][i]) = {graph.block[nd][i + 1]}
  BY DEF Fits
<1>2. /\ graph.block[nd] \in Seq(Code) /\ graph.block[nd] # <<>>
      /\ ExitId(nd) = graph.block[nd][Len(graph.block[nd])]
  BY <1>1 DEF Chain, ExitId, Last
<1>3. Len(graph.block[nd]) \in Nat \ {0}
  BY <1>2
<1>4. QED
  BY <1>1, <1>2, <1>3

\* The blocks of a walk, and of one that goes further
LEMMA FlatFirst ==
  ASSUME Fits
  PROVE  Flat(<<Start>>) = graph.block[Start]
<1>1. Start \in Live /\ graph.block[Start] \in Seq(Code)
  BY BlockIs DEF Fits
<1> DEFINE w == <<Start>>
<1>2. [i \in DOMAIN w |-> graph.block[w[i]]] = <<graph.block[Start]>>
  OBVIOUS
<1> HIDE DEF w
<1>3. QED
  BY <1>1, <1>2, FlattenOne DEF Flat, w

LEMMA FlatFurther ==
  ASSUME Fits, NEW w \in Seq(Live), w # <<>>, NEW x \in Live
  PROVE  Flat(Append(w, x)) = Flat(w) \o graph.block[x]
<1> DEFINE B(v) == [i \in DOMAIN v |-> graph.block[v[i]]]
           a == Append(w, x)
           S == Seq(Code)
<1>1. \A nd \in Live : graph.block[nd] \in S
  BY BlockIs
<1>2. /\ Len(w) \in Nat \ {0} /\ DOMAIN w = 1..Len(w) /\ \A i \in 1..Len(w) : w[i] \in Live
      /\ DOMAIN a = 1..Len(w) + 1 /\ a[Len(w) + 1] = x /\ \A i \in 1..Len(w) : a[i] = w[i]
  OBVIOUS
<1> HIDE DEF a, S
<1>3. B(w) \in Seq(S) /\ Len(B(w)) = Len(w) /\ \A i \in 1..Len(w) : B(w)[i] = graph.block[w[i]]
  BY <1>1, <1>2
<1>4. B(a) \in Seq(S) /\ Len(B(a)) = Len(w) + 1
  <2>1. \A i \in 1..Len(w) + 1 : a[i] \in Live
    BY <1>2
  <2>2. QED
    BY <1>1, <1>2, <2>1
<1>5. \A i \in 1..Len(w) + 1 : B(a)[i] = IF i = Len(w) + 1 THEN graph.block[x] ELSE B(w)[i]
  BY <1>2
<1> DEFINE bw == B(w)
           ba == B(a)
           bx == graph.block[x]
<1>6. bx \in S /\ bw # <<>>
  BY <1>1, <1>2, <1>3
<1> HIDE DEF bw, ba, bx
<1>7. Append(bw, bx) \in Seq(S) /\ Len(Append(bw, bx)) = Len(w) + 1
      /\ \A i \in 1..Len(w) + 1 : Append(bw, bx)[i] = IF i = Len(w) + 1 THEN bx ELSE bw[i]
  BY <1>2, <1>3, <1>6 DEF bw
<1>8. ba \in Seq(S) /\ Len(ba) = Len(w) + 1
      /\ \A i \in 1..Len(w) + 1 : ba[i] = IF i = Len(w) + 1 THEN bx ELSE bw[i]
  BY <1>4, <1>5 DEF ba, bw, bx
<1>9. ba = Append(bw, bx)
  BY <1>2, <1>7, <1>8
<1>10. FlattenSeq(Append(bw, bx)) = FlattenSeq(bw) \o bx
  BY <1>3, <1>6, FlattenAppend DEF S, bw
<1>11. QED
  BY <1>9, <1>10 DEF Flat, ba, bw, bx, a

\* A walk through the graph and one that goes further
LEMMA NodeWalkFacts ==
  ASSUME Fits, NEW k \in Nat
  PROVE  /\ NodeWalks(0) = {<<Start>>}
         /\ \A w \in NodeWalks(k) : w \in Seq(Live) /\ Len(w) = k + 1 /\ w # <<>> /\ Last(w) \in Live
         /\ \A w \in NodeWalks(k) : \A x \in Succs(graph, Last(w)) : Append(w, x) \in NodeWalks(k + 1)
         /\ \A v \in NodeWalks(k + 1) :
              \E w \in NodeWalks(k) : \E x \in Succs(graph, Last(w)) : v = Append(w, x)
<1> DEFINE N == [nd \in Live |-> Succs(graph, nd)]
           V == NodeWalks(k)
<1>1. N \in [Live -> SUBSET Live] /\ (\A nd \in Live : N[nd] = Succs(graph, nd)) /\ Start \in Live
  BY DEF Fits
<1>2. \A j \in Nat : NodeWalks(j) = Walks(Live, N, Seq(Live), Start, j)
  BY DEF NodeWalks
<1> HIDE DEF N
<1>3. NodeWalks(0) = {<<Start>>}
  BY <1>1, <1>2, NoSteps
<1>4. /\ V \subseteq Seq(Live) /\ \A v \in V : Last(v) \in Live
      /\ NodeWalks(k + 1) = Onwards(N, Seq(Live), V)
  BY <1>1, <1>2, WalksNext
<1>5. \A w \in V : w \in Seq(Live) /\ Len(w) = k + 1 /\ w # <<>>
  BY <1>2 DEF Walks
<1> HIDE DEF V
<1>6. ASSUME NEW w \in V, NEW x \in Succs(graph, Last(w)) PROVE Append(w, x) \in NodeWalks(k + 1)
  <2>1. w \in Seq(Live) /\ Last(w) \in Live
    BY <1>4
  <2>2. x \in N[Last(w)] /\ x \in Live
    BY <1>1, <2>1
  <2>3. Append(w, x) \in Seq(Live)
    BY <2>1, <2>2
  <2>4. Append(w, x) \in {Append(w, y) : y \in N[Last(w)]}
    BY <2>2
  <2>5. Append(w, x) \in Onwards(N, Seq(Live), V)
    BY <2>3, <2>4 DEF Onwards
  <2>6. QED
    BY <1>4, <2>5
<1>7. ASSUME NEW v \in NodeWalks(k + 1)
      PROVE  \E w \in V : \E x \in Succs(graph, Last(w)) : v = Append(w, x)
  <2>1. v \in UNION {{Append(w, x) : x \in N[Last(w)]} : w \in V}
    BY <1>4 DEF Onwards
  <2>2. PICK w \in V : v \in {Append(w, x) : x \in N[Last(w)]}
    BY <2>1
  <2>3. PICK x \in N[Last(w)] : v = Append(w, x)
    BY <2>2
  <2>4. x \in Succs(graph, Last(w))
    BY <1>1, <1>4
  <2>5. QED
    BY <2>3, <2>4
<1>8. QED
  BY <1>3, <1>4, <1>5, <1>6, <1>7 DEF V

\* Each walk through the graph is a run of the program.
LEMMA WalkIsRun ==
  ASSUME Fits, NEW n \in Nat, NEW w \in NodeWalks(n)
  PROVE  IsRun(Flat(w)) /\ Ends(Flat(w), graph.block[Last(w)]) /\ Len(Flat(w)) >= n + 1
<1> DEFINE Good(v, k) == /\ IsRun(Flat(v)) /\ Ends(Flat(v), graph.block[Last(v)])
                         /\ Len(Flat(v)) >= k + 1
           K == {k \in Nat : \A v \in NodeWalks(k) : Good(v, k)}
<1>1. 0 \in K
  <2> DEFINE b == graph.block[Start]
  <2>1. NodeWalks(0) = {<<Start>>} /\ Flat(<<Start>>) = b /\ Last(<<Start>>) = Start
    BY NodeWalkFacts, FlatFirst DEF Last
  <2>2. /\ b \in Seq(Code) /\ b # <<>> /\ Len(b) \in Nat \ {0} /\ b[1] = 0
        /\ \A i \in 1..Len(b) - 1 : b[i + 1] \in NextIds(b[i])
    BY BlockIs DEF Fits, Start, Id
  <2> HIDE DEF b
  <2>3. IsRun(b) /\ Ends(b, b) /\ Len(b) >= 0 + 1
    BY <2>2 DEF IsRun, Ends
  <2>4. Good(<<Start>>, 0)
    BY <2>1, <2>3 DEF b
  <2> HIDE DEF Good
  <2>5. QED
    BY <2>1, <2>4
<1>2. ASSUME NEW k \in Nat, k \in K PROVE k + 1 \in K
  <2>1. ASSUME NEW v \in NodeWalks(k + 1) PROVE Good(v, k + 1)
    <3>1. PICK u \in NodeWalks(k) : \E x \in Succs(graph, Last(u)) : v = Append(u, x)
      BY NodeWalkFacts
    <3>2. PICK x \in Succs(graph, Last(u)) : v = Append(u, x)
      BY <3>1
    <3>3. u \in Seq(Live) /\ u # <<>> /\ Last(u) \in Live
      BY NodeWalkFacts
    <3>4. x \in Live /\ Id(x) \in NextIds(ExitId(Last(u)))
      BY <3>3 DEF Fits
    <3>5. Last(v) = x
      BY <3>2, <3>3, <3>4, Longer
    <3> DEFINE F == Flat(u)
               b == graph.block[Last(u)]
               c == graph.block[x]
    <3>6. Flat(v) = F \o c
      BY <3>2, <3>3, <3>4, FlatFurther
    <3>7. IsRun(F) /\ Ends(F, b) /\ Len(F) >= k + 1
      BY <1>2
    <3>8. Len(b) \in Nat \ {0} /\ ExitId(Last(u)) = b[Len(b)]
      BY <3>3, BlockIs
    <3>9. /\ c \in Seq(Code) /\ c # <<>> /\ Len(c) \in Nat \ {0} /\ c[1] = Id(x)
          /\ \A i \in 1..Len(c) - 1 : c[i + 1] \in NextIds(c[i])
      BY <3>4, BlockIs
    <3> HIDE DEF F, b, c
    <3>10. F[Len(F)] = b[Len(b)] /\ Len(F) \in Nat
      <4>1. Len(F) \in Nat
        BY <3>7 DEF IsRun
      <4>2. Len(b) \in 1..Len(b) /\ Len(F) - Len(b) + Len(b) = Len(F)
        BY <3>8, <4>1
      <4>3. F[Len(F) - Len(b) + Len(b)] = b[Len(b)]
        BY <3>7, <4>2 DEF Ends
      <4>4. QED
        BY <4>1, <4>2, <4>3
    <3>11. c[1] \in NextIds(F[Len(F)])
      BY <3>4, <3>8, <3>9, <3>10
    <3>12. IsRun(F \o c) /\ Ends(F \o c, c) /\ Len(F \o c) = Len(F) + Len(c)
      BY <3>7, <3>9, <3>11, RunOn
    <3>13. Len(F \o c) >= k + 1 + 1
      BY <3>7, <3>9, <3>10, <3>12
    <3>14. IsRun(Flat(v)) /\ Ends(Flat(v), graph.block[Last(v)]) /\ Len(Flat(v)) >= k + 1 + 1
      BY <3>5, <3>6, <3>12, <3>13 DEF c
    <3>15. QED
      BY <3>14
  <2> HIDE DEF Good
  <2>2. QED
    BY <2>1
<1> HIDE DEF K
<1>3. n \in K
  BY <1>1, <1>2, Induction
<1>4. QED
  BY <1>3 DEF K

\* u ends in the last block of w.
Covers(w, u) ==
  /\ Len(u) <= Len(Flat(w)) /\ Len(Flat(w)) - Len(graph.block[Last(w)]) < Len(u)
  /\ \A i \in 1..Len(u) : Flat(w)[i] = u[i]

\* What the end of a run says of where it is in the last block
LEMMA WithinLast ==
  ASSUME Fits, NEW k \in Nat, NEW w \in NodeWalks(k), NEW u \in Seq(Code), Covers(w, u)
  PROVE  /\ Len(u) = Len(Flat(w)) => u = Flat(w) /\ u[Len(u)] = ExitId(Last(w))
         /\ Len(u) < Len(Flat(w)) => /\ NextIds(u[Len(u)]) = {Flat(w)[Len(u) + 1]}
                                     /\ u[Len(u)] # FinId
<1> DEFINE F == Flat(w)
           b == graph.block[Last(w)]
           m == Len(u)
<1>1. Last(w) \in Live
  BY NodeWalkFacts
<1>2. /\ b \in Seq(Code) /\ Len(b) \in Nat \ {0} /\ ExitId(Last(w)) = b[Len(b)]
      /\ \A i \in 1..Len(b) - 1 : NextIds(b[i]) = {b[i + 1]} /\ b[i] # FinId
  BY <1>1, BlockIs DEF Fits
<1>3. /\ F \in Seq(Code) /\ Len(F) \in Nat /\ Len(b) <= Len(F)
      /\ \A i \in 1..Len(b) : F[Len(F) - Len(b) + i] = b[i]
  <2>1. IsRun(F) /\ Ends(F, b)
    BY WalkIsRun
  <2> HIDE DEF F, b
  <2>2. F \in Seq(Code)
    BY <2>1 DEF IsRun
  <2>3. QED
    BY <2>1, <2>2 DEF Ends
<1>4. m \in Nat /\ m <= Len(F) /\ Len(F) - Len(b) < m /\ \A i \in 1..m : F[i] = u[i]
  BY DEF Covers
<1> HIDE DEF F, b
<1>5. CASE m = Len(F)
  <2>1. u = F
    BY <1>3, <1>4, <1>5
  <2>2. Len(b) \in 1..Len(b) /\ Len(F) - Len(b) + Len(b) = Len(F)
    BY <1>2, <1>3
  <2>3. F[Len(F)] = b[Len(b)]
    BY <1>3, <2>2
  <2>4. QED
    BY <1>2, <1>5, <2>1, <2>3 DEF F
<1>6. CASE m < Len(F)
  <2> HIDE DEF m
  <2>a. m - (Len(F) - Len(b)) \in 1..Len(b) - 1
    BY <1>2, <1>3, <1>4, <1>6
  <2>1. PICK i \in 1..Len(b) - 1 : i = m - (Len(F) - Len(b))
    BY <2>a
  <2>2. /\ i \in 1..Len(b) /\ i + 1 \in 1..Len(b) /\ m \in 1..m
        /\ Len(F) - Len(b) + i = m /\ Len(F) - Len(b) + (i + 1) = m + 1
    <3> DEFINE lf == Len(F)
               lb == Len(b)
    <3>1. lf \in Nat /\ lb \in Nat /\ m \in Nat /\ lb <= lf /\ lf - lb < m
      BY <1>2, <1>3, <1>4
    <3>2. i \in 1..lb - 1 /\ i = m - (lf - lb)
      BY <2>1
    <3> HIDE DEF lf, lb
    <3>3. i \in 1..lb /\ i + 1 \in 1..lb /\ m \in 1..m /\ lf - lb + i = m /\ lf - lb + (i + 1) = m + 1
      BY <3>1, <3>2
    <3>4. QED
      BY <3>3 DEF lf, lb
  <2>3. F[m] = b[i]
    BY <1>3, <2>2
  <2>4. F[m + 1] = b[i + 1]
    BY <1>3, <2>2
  <2>5. F[m] = u[m]
    BY <1>4, <2>2
  <2>6. NextIds(b[i]) = {b[i + 1]} /\ b[i] # FinId
    BY <1>2, <2>1
  <2>7. QED
    BY <1>6, <2>3, <2>4, <2>5, <2>6 DEF F, m
<1>7. QED
  BY <1>3, <1>4, <1>5, <1>6 DEF F

\* Each run of the program is the beginning of a walk through the graph.
LEMMA RunIsWalk ==
  ASSUME Fits, LeadsOn, NEW run, IsRun(run)
  PROVE  \E k \in Nat : \E w \in NodeWalks(k) : Covers(w, run)
<1> DEFINE Found(u) == \E k \in Nat : \E w \in NodeWalks(k) : Covers(w, u)
           K == {m \in Nat : \A u \in Seq(Code) : IsRun(u) /\ Len(u) = m + 1 => Found(u)}
<1>1. 0 \in K
  <2>1. ASSUME NEW u \in Seq(Code), IsRun(u), Len(u) = 1 PROVE Found(u)
    <3> DEFINE b == graph.block[Start]
               w == <<Start>>
    <3>1. w \in NodeWalks(0) /\ Flat(w) = b /\ Last(w) = Start
      BY NodeWalkFacts, FlatFirst DEF Last
    <3>2. Len(b) \in Nat \ {0} /\ b[1] = 0
      BY BlockIs DEF Fits, Start, Id
    <3>3. u[1] = 0
      BY <2>1 DEF IsRun
    <3> HIDE DEF b, w
    <3>4. Covers(w, u)
      <4>1. graph.block[Last(w)] = b
        BY <3>1 DEF b
      <4>2. Len(u) <= Len(b) /\ Len(b) - Len(b) < Len(u) /\ \A i \in 1..Len(u) : b[i] = u[i]
        BY <2>1, <3>2, <3>3
      <4>3. QED
        BY <3>1, <4>1, <4>2 DEF Covers
    <3>5. QED
      BY <3>1, <3>4
  <2> HIDE DEF Found
  <2>2. QED
    BY <2>1
<1>2. ASSUME NEW m \in Nat, m \in K PROVE m + 1 \in K
  <2>1. ASSUME NEW u \in Seq(Code), IsRun(u), Len(u) = m + 2 PROVE Found(u)
    <3> DEFINE v == SubSeq(u, 1, m + 1)
               x == u[m + 2]
    <3>1. /\ v \in Seq(Code) /\ Len(v) = m + 1 /\ \A i \in 1..m + 1 : v[i] = u[i]
      <4>1. m + 1 \in 1..Len(u)
        BY <2>1
      <4>2. QED
        BY <4>1, Beginning
    <3>2. u[1] = 0 /\ \A i \in 1..m + 1 : u[i + 1] \in NextIds(u[i])
      BY <2>1 DEF IsRun
    <3> HIDE DEF v
    <3>3. IsRun(v)
      <4>1. \A i \in 1..Len(v) - 1 : v[i + 1] \in NextIds(v[i])
        BY <3>1, <3>2, SMTT(30)
      <4>2. v # <<>> /\ v[1] = 0
        BY <3>1, <3>2
      <4>3. QED
        BY <3>1, <4>1, <4>2 DEF IsRun
    <3>4. x \in NextIds(v[m + 1])
      <4>1. m + 1 \in 1..m + 1 /\ m + 1 + 1 = m + 2
        OBVIOUS
      <4>2. u[m + 1 + 1] \in NextIds(u[m + 1]) /\ v[m + 1] = u[m + 1]
        BY <3>1, <3>2, <4>1
      <4>3. QED
        BY <4>1, <4>2
    <3>5. Found(v)
      BY <1>2, <3>1, <3>3
    <3>6. PICK k \in Nat : \E w \in NodeWalks(k) : Covers(w, v)
      BY <3>5
    <3>7. PICK w \in NodeWalks(k) : Covers(w, v)
      BY <3>6
    <3> DEFINE F == Flat(w)
    <3>8. /\ F \in Seq(Code) /\ Len(F) \in Nat /\ IsRun(F)
      BY WalkIsRun DEF IsRun
    <3>9. /\ Len(v) <= Len(F) /\ Len(F) - Len(graph.block[Last(w)]) < Len(v)
          /\ \A i \in 1..m + 1 : F[i] = v[i]
      BY <3>1, <3>7 DEF Covers
    <3>10. /\ Len(v) = Len(F) => v = F /\ v[Len(v)] = ExitId(Last(w))
           /\ Len(v) < Len(F) => NextIds(v[Len(v)]) = {F[Len(v) + 1]}
      BY <3>1, <3>7, WithinLast
    <3>11. w \in Seq(Live) /\ w # <<>> /\ Last(w) \in Live
      BY NodeWalkFacts
    <3>12. CASE m + 1 < Len(F)
      <4>1. F[m + 2] = x
        BY <3>1, <3>4, <3>10, <3>12
      <4>2. ASSUME NEW i \in 1..m + 2 PROVE F[i] = u[i]
        <5>1. i = m + 2 \/ i \in 1..m + 1
          OBVIOUS
        <5>2. QED
          BY <3>1, <3>9, <4>1, <5>1
      <4>3. Len(graph.block[Last(w)]) \in Nat
        BY <3>11, BlockIs
      <4>4. Covers(w, u)
        <5>1. Len(u) <= Len(F) /\ Len(F) - Len(graph.block[Last(w)]) < Len(u)
          BY <2>1, <3>1, <3>8, <3>9, <3>12, <4>3
        <5>2. QED
          BY <2>1, <4>2, <5>1 DEF Covers
      <4>5. QED
        BY <4>4
    <3>13. CASE m + 1 = Len(F)
      <4>1. v = F /\ x \in NextIds(ExitId(Last(w)))
        BY <3>1, <3>4, <3>10, <3>13
      <4>2. PICK s \in Succs(graph, Last(w)) : x = Id(s)
        BY <3>11, <4>1 DEF LeadsOn
      <4>3. s \in Live
        BY <3>11 DEF Fits
      <4> DEFINE c == graph.block[s]
                 a == Append(w, s)
      <4>4. a \in NodeWalks(k + 1) /\ Flat(a) = F \o c /\ Last(a) = s
        <5>1. a \in NodeWalks(k + 1)
          BY NodeWalkFacts
        <5>2. Flat(a) = F \o c
          BY <3>11, <4>3, FlatFurther
        <5>3. Last(a) = s
          BY <3>11, <4>3, Longer
        <5>4. QED
          BY <5>1, <5>2, <5>3
      <4>5. c \in Seq(Code) /\ Len(c) \in Nat \ {0} /\ c[1] = x
        BY <4>2, <4>3, BlockIs
      <4> HIDE DEF F, c, a
      <4>6. /\ Len(F \o c) = Len(F) + Len(c)
            /\ \A i \in 1..Len(F) : (F \o c)[i] = F[i]
            /\ (F \o c)[Len(F) + 1] = c[1]
        BY <3>8, <4>5
      <4>7. ASSUME NEW i \in 1..m + 2 PROVE (F \o c)[i] = u[i]
        <5>1. i = m + 2 \/ i \in 1..m + 1
          OBVIOUS
        <5>2. CASE i = m + 2
          <6>1. Len(F) + 1 = m + 2
            BY <3>13
          <6>2. QED
            BY <4>5, <4>6, <5>2, <6>1
        <5>3. CASE i \in 1..m + 1
          BY <3>1, <3>9, <3>13, <4>6, <5>3
        <5>4. QED
          BY <5>1, <5>2, <5>3
      <4>8. Len(F \o c) - Len(c) < m + 2 /\ m + 2 <= Len(F \o c)
        BY <3>8, <3>13, <4>5, <4>6
      <4>9. Covers(a, u)
        BY <2>1, <4>4, <4>7, <4>8 DEF Covers, c
      <4>10. k + 1 \in Nat
        OBVIOUS
      <4>11. QED
        BY <4>4, <4>9, <4>10
    <3>14. QED
      <4>1. m + 1 < Len(F) \/ m + 1 = Len(F)
        BY <3>1, <3>8, <3>9
      <4>2. QED
        BY <3>12, <3>13, <4>1
  <2> HIDE DEF Found
  <2>2. ASSUME NEW u \in Seq(Code), IsRun(u), Len(u) = m + 1 + 1 PROVE Found(u)
    BY <2>1, <2>2
  <2>3. QED
    BY <2>2
<1> HIDE DEF K, Found
<1>3. Nat \subseteq K
  BY <1>1, <1>2, Induction
<1>4. run \in Seq(Code) /\ Len(run) - 1 \in Nat /\ Len(run) = Len(run) - 1 + 1
  BY DEF IsRun
<1>5. Len(run) - 1 \in K
  BY <1>3, <1>4
<1>6. Found(run)
  BY <1>4, <1>5 DEF K
<1>7. QED
  BY <1>6 DEF Found

\* Instructions are counted at different places of a run.
LEMMA CountBound ==
  ASSUME NEW w \in Seq(Code), NEW id
  PROVE  Count(w, id) <= Len(w) /\ Count(w, id) \in Nat /\ Len(w) \in Nat
<1> DEFINE D == {i \in DOMAIN w : w[i] = id}
<1>1. Len(w) \in Nat /\ DOMAIN w = 1..Len(w)
  OBVIOUS
<1>2. IsFiniteSet(1..Len(w)) /\ Cardinality(1..Len(w)) = Len(w)
  BY <1>1, FS_Interval
<1>3. D \subseteq 1..Len(w)
  BY <1>1
<1> HIDE DEF D
<1>4. IsFiniteSet(D) /\ Cardinality(D) <= Cardinality(1..Len(w))
  BY <1>2, <1>3, FS_Subset
<1>5. Cardinality(D) \in Nat
  BY <1>4, FS_CardinalityType
<1>6. QED
  BY <1>1, <1>2, <1>4, <1>5 DEF Count, D

\* The runs of the program of at most n instructions, as sequences
LEMMA ShortRuns ==
  ASSUME Fits, NEW n \in Nat, NEW u, Len(u) <= n
  PROVE  u \in Runs(LAMBDA id : n, n) <=> IsRun(u) /\ Last(u) = FinId
<1>1. Runs(LAMBDA id : n, n) = {w \in UNION {IdWalks(n, k) : k \in 0..n} : Last(w) = FinId}
  BY RunsAre DEF Fits
<1>2. ASSUME NEW k \in 0..n, u \in IdWalks(n, k) PROVE IsRun(u)
  <2>1. /\ u \in Seq(Code) /\ Len(u) = k + 1 /\ u[1] = 0
        /\ \A i \in 1..k : u[i + 1] \in [id \in Code |-> NextIds(id)][u[i]]
    BY <1>2 DEF IdWalks, Walks
  <2>2. ASSUME NEW i \in 1..k PROVE u[i + 1] \in NextIds(u[i])
    <3>1. i \in 1..Len(u)
      BY <2>1
    <3>2. u[i] \in Code
      BY <2>1, <3>1
    <3>3. QED
      BY <2>1, <3>2
  <2>3. k \in Nat /\ Len(u) - 1 = k /\ u # <<>>
    BY <2>1
  <2>4. QED
    BY <2>1, <2>2, <2>3 DEF IsRun
<1>3. ASSUME IsRun(u) PROVE \E k \in 0..n : u \in IdWalks(n, k)
  <2> DEFINE k == Len(u) - 1
  <2>1. /\ u \in Seq(Code) /\ u[1] = 0 /\ k \in 0..n /\ Len(u) = k + 1
        /\ \A i \in 1..k : u[i + 1] \in NextIds(u[i])
    BY <1>3 DEF IsRun
  <2> HIDE DEF k
  <2>2. ASSUME NEW i \in 1..k
        PROVE  /\ u[i + 1] \in [id \in Code |-> NextIds(id)][u[i]]
               /\ SubSeq(u, 1, i + 1) \in {w \in Seq(Code) : Count(w, Last(w)) <= n}
    <3> DEFINE v == SubSeq(u, 1, i + 1)
    <3>1. i + 1 \in 1..Len(u) /\ i \in 1..Len(u)
      BY <2>1
    <3>2. v \in Seq(Code) /\ Len(v) = i + 1
      BY <2>1, <3>1, Beginning
    <3> HIDE DEF v
    <3>3. Count(v, Last(v)) <= Len(v) /\ Count(v, Last(v)) \in Nat
      BY <3>2, CountBound
    <3>4. Len(v) <= n
      BY <2>1, <3>2
    <3>5. Count(v, Last(v)) <= n
      BY <3>2, <3>3, <3>4
    <3>6. u[i] \in Code
      BY <2>1, <3>1
    <3>7. QED
      BY <2>1, <3>2, <3>5, <3>6 DEF v
  <2>3. u \in IdWalks(n, k)
    BY <2>1, <2>2 DEF IdWalks, Walks
  <2>4. QED
    BY <2>1, <2>3
<1>4. QED
  BY <1>1, <1>2, <1>3

\* A path of the graph is a run of the program,
LEMMA PathIsRun ==
  ASSUME Fits, NEW n \in Nat, NEW u \in GraphRuns(n), Len(u) <= n
  PROVE  u \in Runs(LAMBDA id : n, n)
<1>1. GraphRuns(n) =
        {Flat(w) : w \in {v \in UNION {NodeWalks(k) : k \in 0..n} : ExitId(Last(v)) = FinId}}
  BY GraphRunsAre DEF Fits
<1>2. PICK w \in {v \in UNION {NodeWalks(k) : k \in 0..n} : ExitId(Last(v)) = FinId} : u = Flat(w)
  BY <1>1
<1>3. w \in UNION {NodeWalks(k) : k \in 0..n}
  BY <1>2
<1>4. PICK k \in 0..n : w \in NodeWalks(k)
  BY <1>3
<1>5. k \in Nat /\ ExitId(Last(w)) = FinId
  BY <1>2
<1>6. IsRun(u) /\ Ends(u, graph.block[Last(w)]) /\ Last(w) \in Live
  BY <1>2, <1>4, <1>5, WalkIsRun, NodeWalkFacts
<1> DEFINE b == graph.block[Last(w)]
<1>7. Len(b) \in Nat \ {0} /\ b[Len(b)] = FinId
  BY <1>5, <1>6, BlockIs
<1> HIDE DEF b
<1>8. Len(u) \in Nat /\ u \in Seq(Code) /\ u # <<>>
  BY <1>6 DEF IsRun
<1>9. u[Len(u)] = FinId
  <2>1. Len(b) \in 1..Len(b) /\ Len(u) - Len(b) + Len(b) = Len(u)
    BY <1>7, <1>8
  <2>2. u[Len(u) - Len(b) + Len(b)] = b[Len(b)]
    BY <1>6, <2>1 DEF Ends, b
  <2>3. QED
    BY <1>7, <2>1, <2>2
<1>10. Last(u) = FinId
  BY <1>9 DEF Last
<1>11. QED
  BY <1>6, <1>10, ShortRuns

\* and where edges lead everywhere a run may go, each run is one.
LEMMA RunsKept ==
  ASSUME Fits, LeadsOn, NEW n \in Nat
  PROVE  {w \in GraphRuns(n) : Len(w) <= n} = {w \in Runs(LAMBDA id : n, n) : Len(w) <= n}
<1>1. GraphRuns(n) =
        {Flat(w) : w \in {v \in UNION {NodeWalks(k) : k \in 0..n} : ExitId(Last(v)) = FinId}}
  BY GraphRunsAre DEF Fits
<1>2. ASSUME NEW u \in GraphRuns(n), Len(u) <= n
      PROVE  u \in Runs(LAMBDA id : n, n)
  BY <1>2, PathIsRun, Zenon
<1>3. ASSUME NEW u \in Runs(LAMBDA id : n, n), Len(u) <= n
      PROVE  u \in GraphRuns(n)
  <2>1. IsRun(u) /\ Last(u) = FinId
    BY <1>3, ShortRuns
  <2>2. PICK k \in Nat : \E w \in NodeWalks(k) : Covers(w, u)
    BY <2>1, RunIsWalk
  <2>3. PICK w \in NodeWalks(k) : Covers(w, u)
    BY <2>2
  <2>4. u \in Seq(Code) /\ Len(u) \in Nat \ {0} /\ u[Len(u)] = FinId
    BY <2>1 DEF IsRun, Last
  <2>5. /\ Len(u) = Len(Flat(w)) => u = Flat(w) /\ u[Len(u)] = ExitId(Last(w))
        /\ Len(u) < Len(Flat(w)) => u[Len(u)] # FinId
    BY <2>3, <2>4, WithinLast
  <2>6. Len(Flat(w)) >= k + 1 /\ Flat(w) \in Seq(Code)
    BY WalkIsRun DEF IsRun
  <2>7. Len(Flat(w)) \in Nat /\ Len(u) <= Len(Flat(w))
    BY <2>3, <2>6 DEF Covers
  <2>8. Len(u) = Len(Flat(w))
    BY <2>4, <2>5, <2>7
  <2>9. u = Flat(w) /\ ExitId(Last(w)) = FinId /\ k \in 0..n
    BY <1>3, <2>4, <2>5, <2>6, <2>7, <2>8
  <2>10. w \in UNION {NodeWalks(j) : j \in 0..n}
    BY <2>3, <2>9
  <2>11. QED
    BY <1>1, <2>9, <2>10
<1>4. QED
  BY <1>2, <1>3

\* create_edges, remove_unreachable and merge_edges: the paths of the graph
\* are the runs of the program, whatever is unreachable and whatever was merged.
THEOREM MergingKeepsRuns == Spec => []MergeKeepsRuns
<1>1. BuildInv /\ ChainInv => MergeKeepsRuns
  <2>1. SUFFICES ASSUME BuildInv, ChainInv, Merging
                 PROVE  LET n == 2 * Len(listing)
                        IN /\ Start \in nodes
                           /\ \/ Fin \in nodes
                              \/ \A id \in IdsFrom({0}) \ {FinId} :
                                   TypeAt(id) = "other" \/ Target(Instr(id).br) # Fin
                           /\ {w \in GraphRuns(n) : Len(w) <= n} =
                                {w \in Runs(LAMBDA id : n, n) : Len(w) <= n}
    BY DEF MergeKeepsRuns, Merging
  <2> DEFINE n == 2 * Len(listing)
  <2>2. n \in Nat
    BY ListingFacts DEF BuildInv, PhaseInv
  <2> HIDE DEF n
  <2>3. Fits /\ LeadsOn /\ Live = nodes
    BY <2>1, MergedFacts
  <2>4. Start \in nodes
    BY <2>3 DEF Fits
  <2>5. \/ Fin \in nodes
        \/ \A id \in IdsFrom({0}) \ {FinId} : TypeAt(id) = "other" \/ Target(Instr(id).br) # Fin
    BY <2>1, FinStays
  <2>6. {w \in GraphRuns(n) : Len(w) <= n} = {w \in Runs(LAMBDA id : n, n) : Len(w) <= n}
    BY <2>2, <2>3, RunsKept
  <2>7. QED
    BY <2>4, <2>5, <2>6 DEF n
<1>2. QED
  BY BuildInvariant, ChainInvariant, <1>1, PTL

\* Whenever the graph is built: nothing that unroll copied, or the sort and
\* static_analysis left, is a path that the program does not take.
THEOREM NothingAdded ==
  Spec => [](Built => \A n \in Nat : {w \in GraphRuns(n) : Len(w) <= n} \subseteq AllRuns(n))
<1>1. BuildInv /\ FollowInv
        => (Built => \A n \in Nat : {w \in GraphRuns(n) : Len(w) <= n} \subseteq AllRuns(n))
  <2>1. SUFFICES ASSUME BuildInv, FollowInv, Built, NEW n \in Nat,
                        NEW w \in GraphRuns(n), Len(w) <= n
                 PROVE  w \in AllRuns(n)
    OBVIOUS
  <2>2. phase \notin {"init_nodes", "bad_listing"} /\ Follows(graph, Live)
    BY <2>1 DEF Built, FollowInv
  <2>3. Fits
    BY <2>1, <2>2, BlockFacts
  <2>4. w \in Runs(LAMBDA id : n, n)
    BY <2>1, <2>3, PathIsRun
  <2>5. QED
    BY <2>4 DEF AllRuns
<1>2. QED
  BY BuildInvariant, FollowInvariant, <1>1, PTL

\* The graph that the estimator searches has no path but runs of the program.
THEOREM OnlyRunsLeft == Spec => []OnlyRuns
<1>1. BuildInv /\ FollowInv => OnlyRuns
  <2> DEFINE n == 2 * Len(listing)
  <2>1. SUFFICES ASSUME BuildInv, FollowInv, phase \in {"sorted", "not_loop_free"}
                 PROVE  {w \in GraphRuns(n) : Len(w) <= n} \subseteq AllRuns(n)
    BY DEF OnlyRuns
  <2>2. n \in Nat
    BY <2>1, ListingFacts DEF BuildInv, PhaseInv
  <2> HIDE DEF n
  <2>3. phase \notin {"init_nodes", "bad_listing"} /\ Follows(graph, Live)
    BY <2>1 DEF FollowInv, Built
  <2>4. Fits
    BY <2>1, <2>3, BlockFacts
  <2>5. ASSUME NEW w \in GraphRuns(n), Len(w) <= n PROVE w \in AllRuns(n)
    <3>1. w \in Runs(LAMBDA id : n, n)
      BY <2>2, <2>4, <2>5, PathIsRun
    <3>2. QED
      BY <3>1 DEF AllRuns
  <2>6. QED
    BY <2>5
<1>2. QED
  BY BuildInvariant, FollowInvariant, <1>1, PTL
=============================================================================
