------------------------------ MODULE CfgGraph ------------------------------
(***************************************************************************)
(* The control flow graph as a value, and what the methods of cfg::node    *)
(* make of it.  A node is the pair <<id(), loopdepth()>>: the address of   *)
(* its first instruction and the depth of the copy.  A graph is a record:  *)
(*   block  the addresses of a node's instructions,                        *)
(*   succ   successor_true and successor_false of a node,                  *)
(*   pred   its predecessors, pairs of node and branchtrue; their order is *)
(*          left out.                                                      *)
(***************************************************************************)
EXTENDS Naturals, FiniteSets, Sequences

CONSTANT NoNode   \* a null pointer in a succ_data

Id(nd) == nd[1]
LoopDepth(nd) == nd[2]

GraphNodes(g) == DOMAIN g.block
Outs(g, nd) == {b \in BOOLEAN : g.succ[nd][b] # NoNode}
Succs(g, nd) == {g.succ[nd][b] : b \in Outs(g, nd)}
InDegree(g, nd) == Cardinality(g.pred[nd])

\* the order in which node::succ() lists the edges
SuccOrder(g, nd) ==
  (IF TRUE \in Outs(g, nd) THEN <<TRUE>> ELSE <<>>)
    \o (IF FALSE \in Outs(g, nd) THEN <<FALSE>> ELSE <<>>)

NoGraph == [block |-> [nd \in {} |-> <<>>], succ |-> [nd \in {} |-> {}], pred |-> [nd \in {} |-> {}]]
Unlinked == [b \in BOOLEAN |-> NoNode]

Link(g, nd, b, to) ==
  [g EXCEPT !.succ[nd][b] = to, !.pred[to] = @ \cup {<<nd, b>>}]

Unlink(g, nd, b) ==
  [g EXCEPT !.succ[nd][b] = NoNode, !.pred[g.succ[nd][b]] = @ \ {<<nd, b>>}]

\* unlink() without an argument: all edges from and to nd
UnlinkAll(g, nd) ==
  [block |-> g.block,
   succ  |-> [m \in GraphNodes(g) |->
                [b \in BOOLEAN |-> IF m = nd \/ <<m, b>> \in g.pred[nd]
                                   THEN NoNode ELSE g.succ[m][b]]],
   pred  |-> [m \in GraphNodes(g) |->
                IF m = nd THEN {} ELSE g.pred[m] \ ({nd} \X BOOLEAN)]]

\* Operators named Faulty... are what a plausible bug would make of the
\* definition behind them; nothing uses them.
FaultyMergeNode(g, nd, old) ==
  [g EXCEPT !.block = [@ EXCEPT ![nd] = @ \o g.block[old], ![old] = <<>>],
            !.succ[nd] = g.succ[old]]

\* The successors of old become those of nd.  old keeps its own edges; it
\* is no longer part of the cfg.
MergeNode(g, nd, old) ==
  [block |-> [g.block EXCEPT ![nd] = @ \o g.block[old], ![old] = <<>>],
   succ  |-> [g.succ EXCEPT ![nd] = g.succ[old]],
   pred  |-> [m \in GraphNodes(g) |->
                {IF p[1] = old /\ m \in Succs(g, old) THEN <<nd, p[2]>> ELSE p :
                   p \in g.pred[m]}]]

\* copy takes the instructions and links itself to the successors of nd
Clone(g, nd, copy) ==
  LET Extended(f, v) == [m \in GraphNodes(g) \cup {copy} |-> IF m = copy THEN v ELSE f[m]]
      Into(m) == {<<copy, b>> : b \in {c \in BOOLEAN : g.succ[nd][c] = m}}
  IN [block |-> Extended(g.block, g.block[nd]),
      succ  |-> Extended(g.succ, g.succ[nd]),
      pred  |-> Extended([m \in GraphNodes(g) |-> g.pred[m] \cup Into(m)], {})]

-----------------------------------------------------------------------------
\* What is reached from the members of S in at most n steps
Closure(Next(_), S, n) ==
  LET C[k \in 0..n] ==
        IF k = 0 THEN S
        ELSE LET known == C[k - 1] IN known \cup UNION {Next(x) : x \in known}
  IN C[n]

ReachedFrom(g, S) ==
  Closure(LAMBDA nd : Succs(g, nd), S, Cardinality(GraphNodes(g)))

\* cfg::is_in_loop
InLoop(g, nd) == nd \in ReachedFrom(g, Succs(g, nd))

\* pred is the inverse of succ among the nodes nds
Consistent(g, nds) ==
  \A nd \in nds :
    /\ Succs(g, nd) \subseteq nds
    /\ g.pred[nd] = {p \in nds \X BOOLEAN : g.succ[p[1]][p[2]] = nd}
=============================================================================
