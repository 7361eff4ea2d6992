------------------------------ MODULE CfgBuild ------------------------------
(***************************************************************************)
(* How the control flow graph comes about: cfg::build_cfg with             *)
(* create_edges, remove_unreachable, merge_edges and unroll, then          *)
(* cfg::topo_sort, with which every analysis begins, and                   *)
(* cfg::static_analysis, which removes the edges no packet can take.       *)
(*                                                                         *)
(* A listing is a sequence of instructions [id, type, br]: its address,    *)
(* "branch", "jump" or "other", and the target of the first two.  An       *)
(* address that is not in the listing is the end of the program: fin_nd,   *)
(* whose instruction has the address FinId.                                *)
(***************************************************************************)
EXTENDS CfgGraph, Integers, SequencesExt

CONSTANTS
  Listings,
  Options,      \* [limit |-> UNROLL_LIMIT, limits |-> UNROLL_LIMITS,
                \*  static |-> whether static_analysis is asked for]
  MaxUnsat,     \* how many edges static_analysis may find unsatisfiable
  FinId         \* instr::fin::ID

VARIABLES
  listing, options,
  phase,        \* the function that runs, or how it ended
  graph,
  nodes,        \* cfg::nodes as a set: its order only decides which of
                \* several equal results is found
  todo,         \* what the loop of merge_edges has yet to see; nodes that
                \* are not in order, for static_analysis
  reached,                                        \* visited of remove_unreachable
  nounroll, stack, visited, finished, unrolled,   \* locals of unroll
  pending,                                        \* nodes the running function
                                                  \* has yet to come to
  seen, order,                                    \* of topo_sort; order is
                                                  \* the sorted part of nodes
  analysed, whole, unsat   \* static_analysis has begun; history: on what
                           \* graph, and the edges it found unsatisfiable

vars == <<listing, options, phase, graph, nodes, todo, reached, nounroll, stack, visited,
          finished, unrolled, pending, seen, order, analysed, whole, unsat>>
unrollVars == <<nounroll, stack, visited, finished, unrolled>>
sortVars == <<pending, seen, order>>
staticVars == <<analysed, whole, unsat>>

Start == <<0, 0>>
Fin == <<FinId, 0>>

Ids == {listing[i].id : i \in DOMAIN listing}
Instr(id) == CHOOSE n \in ToSet(listing) : n.id = id
TypeAt(id) == IF id = FinId THEN "fin" ELSE Instr(id).type
ExitId(nd) == Last(graph.block[nd])
ExitType(nd) == TypeAt(ExitId(nd))

\* the order of cfg::link_nodes: what an address stands for
Target(id) == IF id \in Ids THEN <<id, 0>> ELSE Fin

ASSUME ListingAssumption ==
  /\ FinId \in Nat /\ MaxUnsat \in Nat
  /\ NoNode \notin Nat \X Nat
  /\ \A l \in Listings :
       l \in Seq([id : Nat, type : {"branch", "jump", "other"}, br : Nat])
  /\ \A o \in Options : o.limit \in Nat /\ o.static \in BOOLEAN /\ \A id \in DOMAIN o.limits : o.limits[id] \in Nat

Init ==
  /\ listing \in Listings /\ options \in Options
  /\ phase = "init_nodes"
  /\ graph = NoGraph
  /\ nodes = {} /\ todo = {} /\ reached = {}
  /\ nounroll = {} /\ stack = <<>> /\ visited = <<>> /\ finished = {} /\ unrolled = {}
  /\ pending = <<>> /\ seen = <<>> /\ order = <<>>
  /\ analysed = FALSE /\ whole = graph /\ unsat = {}

-----------------------------------------------------------------------------
(* init_nodes, the map from addresses to nodes, create_edges (which leaves *)
(* fin_nd without edges)                                                   *)

Malformed ==
  \/ \E i \in DOMAIN listing : listing[i].id >= FinId
  \/ \E i, j \in DOMAIN listing : i # j /\ listing[i].id = listing[j].id
  \/ 0 \notin Ids

InitNodes ==
  /\ phase = "init_nodes"
  /\ UNCHANGED <<listing, options, todo, reached, unrollVars, seen, order, staticVars>>
  /\ IF Malformed
     THEN phase' = "bad_listing" /\ UNCHANGED <<graph, nodes, pending>>
     ELSE /\ phase' = "create_edges"
          /\ nodes' = {<<id, 0>> : id \in Ids \cup {FinId}}
          /\ graph' = [block |-> [nd \in nodes' |-> <<Id(nd)>>],
                       succ  |-> [nd \in nodes' |-> Unlinked],
                       pred  |-> [nd \in nodes' |-> {}]]
          /\ pending' = [i \in DOMAIN listing |-> <<listing[i].id, 0>>]

WithFall(g, nd) == Link(g, nd, FALSE, Target(ExitId(nd) + 1))
WithJump(g, nd) == Link(g, nd, TRUE, Target(Instr(ExitId(nd)).br))

\* as if jumps were linked like branches
FaultyWithEdges(g, nd) ==
  CASE ExitType(nd) \in {"jump", "branch"} -> WithJump(WithFall(g, nd), nd)
    [] OTHER                              -> WithFall(g, nd)

WithEdges(g, nd) ==
  CASE ExitType(nd) = "jump"   -> WithJump(g, nd)
    [] ExitType(nd) = "branch" -> WithJump(WithFall(g, nd), nd)
    [] OTHER                   -> WithFall(g, nd)

CreateEdges ==
  /\ phase = "create_edges"
  /\ \/ /\ pending # <<>>
        /\ graph' = WithEdges(graph, Head(pending)) /\ pending' = Tail(pending)
        /\ UNCHANGED <<phase, reached>>
     \/ /\ pending = <<>>
        /\ phase' = "reach" /\ pending' = <<Start>> /\ reached' = {}
        /\ UNCHANGED graph
  /\ UNCHANGED <<listing, options, nodes, todo, unrollVars, seen, order, staticVars>>

-----------------------------------------------------------------------------
(* remove_unreachable                                                      *)

Reach ==
  /\ phase = "reach"
  /\ \/ /\ pending # <<>>
        /\ LET nd == Last(pending)
               new(b) == graph.succ[nd][b] \notin {NoNode} \cup reached'
               found(b) == IF new(b) THEN <<graph.succ[nd][b]>> ELSE <<>>
           IN /\ reached' = reached \cup {nd}
              /\ pending' = Front(pending) \o found(TRUE) \o found(FALSE)
        /\ UNCHANGED phase
     \/ /\ pending = <<>>
        /\ phase' = "remove_unreachable" /\ UNCHANGED <<reached, pending>>
  /\ UNCHANGED <<listing, options, graph, nodes, todo, unrollVars, seen, order, staticVars>>

RemoveUnreachable ==
  /\ phase = "remove_unreachable"
  /\ \/ \E nd \in nodes \ reached :
          /\ graph' = UnlinkAll(graph, nd)
          /\ nodes' = nodes \ {nd}
          /\ UNCHANGED <<phase, todo>>
     \/ /\ nodes \subseteq reached
        /\ IF analysed THEN phase' = "begin_sort" /\ UNCHANGED todo
                       ELSE phase' = "merge_edges" /\ todo' = nodes
        /\ UNCHANGED <<graph, nodes>>
  /\ UNCHANGED <<listing, options, reached, unrollVars, sortVars, staticVars>>

\* nd's only way leads to a node that has no other way in, and nd does not
\* end in a jump, whose cost differs from that of falling through
FaultyMergeable(nd) ==
  /\ Cardinality(Outs(graph, nd)) = 1
  /\ \A s \in Succs(graph, nd) : InDegree(graph, s) = 1

Mergeable(nd) ==
  /\ ExitType(nd) # "jump"
  /\ Cardinality(Outs(graph, nd)) = 1
  /\ \A s \in Succs(graph, nd) : InDegree(graph, s) = 1

MergeEdges ==
  /\ phase = "merge_edges"
  /\ \E nd \in todo :
       IF Mergeable(nd)
       THEN \E s \in Succs(graph, nd) :
              /\ graph' = MergeNode(graph, nd, s)
              /\ nodes' = nodes \ {s} /\ todo' = todo \ {s}
       ELSE todo' = todo \ {nd} /\ UNCHANGED <<graph, nodes>>
  /\ UNCHANGED <<listing, options, phase, reached, unrollVars, sortVars, staticVars>>

-----------------------------------------------------------------------------
(* unroll: depth first from the first node; a node of a loop that is on    *)
(* the way already is replaced by a copy, at the limit the edge is cut.    *)
(* The first node is not counted when it is put on the stack, but when it  *)
(* leaves: its count ends at -1, where the code's size_t wraps around.     *)

Unrolls == options.limit > 0 \/ DOMAIN options.limits # {}
LimitOf(id) == IF id \in DOMAIN options.limits THEN options.limits[id] ELSE options.limit

EndMergeEdges ==
  /\ phase = "merge_edges" /\ todo = {}
  /\ IF Unrolls
     THEN /\ phase' = "unroll"
          /\ nounroll' = {nd \in nodes : ~InLoop(graph, nd)}
          /\ stack' = <<[nd |-> Start, i |-> 0]>>
          /\ visited' = [id \in {Id(nd) : nd \in nodes} |-> 0]
          /\ UNCHANGED <<finished, unrolled>>
     ELSE phase' = "begin_sort" /\ UNCHANGED unrollVars
  /\ UNCHANGED <<listing, options, graph, nodes, todo, reached, sortVars, staticVars>>

Top == stack[Len(stack)]
Edges == SuccOrder(graph, Top.nd)
Branch == Edges[Top.i + 1]
Succ == graph.succ[Top.nd][Branch]
Depth == IF visited[Id(Succ)] > LoopDepth(Top.nd) THEN visited[Id(Succ)] ELSE LoopDepth(Top.nd)
Limited == LimitOf(Id(Succ)) > 0 /\ Succ \notin nounroll

FaultyAtLimit == Limited /\ Depth > LimitOf(Id(Succ))
FaultyEarlyLimit == Limited /\ Depth + 1 >= LimitOf(Id(Succ))
AtLimit == Limited /\ Depth >= LimitOf(Id(Succ))
Deeper == Limited /\ Depth > LoopDepth(Succ)

Follow ==
  LET copy == <<Id(Succ), Depth>>
      known == IF copy \in unrolled THEN graph ELSE Clone(graph, Succ, copy)
      to == IF Deeper THEN copy ELSE Succ
      gone == [stack EXCEPT ![Len(stack)].i = @ + 1]
  IN /\ IF Deeper
        THEN /\ graph' = Link(Unlink(known, Top.nd, Branch), Top.nd, Branch, copy)
             /\ unrolled' = unrolled \cup {copy}
        ELSE UNCHANGED <<graph, unrolled>>
     /\ IF to \in finished
        THEN stack' = gone /\ UNCHANGED visited
        ELSE /\ stack' = Append(gone, [nd |-> to, i |-> 0])
             /\ visited' = [visited EXCEPT ![Id(to)] = @ + 1]
     /\ UNCHANGED finished

FaultyCut == UNCHANGED <<graph, stack, visited, finished, unrolled>>

Cut ==
  /\ graph' = Unlink(graph, Top.nd, Branch)
  /\ UNCHANGED <<stack, visited, finished, unrolled>>

Return ==
  /\ finished' = finished \cup {Top.nd}
  /\ visited' = [visited EXCEPT ![Id(Top.nd)] = @ - 1]
  /\ stack' = Front(stack)
  /\ UNCHANGED <<graph, unrolled>>

UnrollStep ==
  /\ phase = "unroll" /\ stack # <<>>
  /\ \/ Top.i < Len(Edges) /\ AtLimit /\ Cut
     \/ Top.i < Len(Edges) /\ ~AtLimit /\ Follow
     \/ Top.i >= Len(Edges) /\ Return
  /\ UNCHANGED <<listing, options, phase, nodes, todo, reached, nounroll, sortVars, staticVars>>

EndUnroll ==
  /\ phase = "unroll" /\ stack = <<>>
  /\ nodes' = nodes \cup unrolled
  /\ phase' = "begin_sort"
  /\ UNCHANGED <<listing, options, graph, todo, reached, unrollVars, sortVars, staticVars>>

-----------------------------------------------------------------------------
(* topo_sort: a node follows once all edges into it were seen              *)

BeginSort ==
  /\ phase = "begin_sort"
  /\ phase' = "topo_sort"
  /\ pending' = <<Start>> /\ order' = <<>>
  /\ seen' = [nd \in GraphNodes(graph) |-> 0]
  /\ UNCHANGED <<listing, options, graph, nodes, todo, reached, unrollVars, staticVars>>

FaultyComplete(n, nd) == n = 1
Complete(n, nd) == n = InDegree(graph, nd)

SortStep ==
  /\ phase = "topo_sort" /\ pending # <<>>
  /\ LET nd == Last(pending)
         See(acc, b) ==
           LET s == graph.succ[nd][b]
               n == acc.seen[s] + 1
           IN IF s = NoNode THEN acc
              ELSE [seen |-> [acc.seen EXCEPT ![s] = n],
                    pending |-> IF Complete(n, s) THEN Append(acc.pending, s) ELSE acc.pending]
         all == See(See([seen |-> seen, pending |-> Front(pending)], TRUE), FALSE)
     IN /\ seen' = all.seen /\ pending' = all.pending
        /\ order' = Append(order, nd)
  /\ UNCHANGED <<listing, options, phase, graph, nodes, todo, reached, unrollVars, staticVars>>

EndSort ==
  /\ phase = "topo_sort" /\ pending = <<>>
  /\ phase' = IF Fin \in nodes \ ToSet(order) THEN "not_loop_free" ELSE "sorted"
  /\ UNCHANGED <<listing, options, graph, nodes, todo, reached, unrollVars, sortVars, staticVars>>

-----------------------------------------------------------------------------
(* static_analysis: nodes are visited in sorted order, those that were not  *)
(* sorted last and in any order, then all of them backwards.  Which edges  *)
(* are unsatisfiable is up to the execution; the callbacks of one node run *)
(* before the next one is visited.                                         *)

BeginStatic ==
  /\ phase = "sorted" /\ options.static /\ ~analysed
  /\ phase' = "static_analysis" /\ analysed' = TRUE /\ whole' = graph
  /\ pending' = order /\ todo' = nodes \ ToSet(order)
  /\ UNCHANGED <<listing, options, graph, nodes, reached, unrollVars, seen, order, unsat>>

Without(g, nd, edges) ==
  LET h == IF TRUE \in edges THEN Unlink(g, nd, TRUE) ELSE g
  IN IF FALSE \in edges THEN Unlink(h, nd, FALSE) ELSE h

Analyse(nd) ==
  \/ /\ graph.pred[nd] = {} /\ nd # Start
     /\ graph' = UnlinkAll(graph, nd) /\ UNCHANGED unsat
  \/ /\ graph.pred[nd] # {} \/ nd = Start
     /\ \E edges \in SUBSET Outs(graph, nd) :
          /\ unsat' = unsat \cup ({nd} \X edges) /\ Cardinality(unsat') <= MaxUnsat
          /\ graph' = Without(graph, nd, edges)

VisitForward ==
  /\ phase = "static_analysis"
  /\ \/ pending # <<>> /\ Analyse(Head(pending)) /\ pending' = Tail(pending) /\ UNCHANGED <<phase, todo>>
     \/ /\ pending = <<>>
        /\ \E nd \in todo : Analyse(nd) /\ todo' = todo \ {nd}
        /\ UNCHANGED <<phase, pending>>
     \/ /\ pending = <<>> /\ todo = {}
        /\ phase' = "dead_ends" /\ pending' = order /\ todo' = nodes \ ToSet(order)
        /\ UNCHANGED <<graph, unsat>>
  /\ UNCHANGED <<listing, options, nodes, reached, unrollVars, seen, order, analysed, whole>>

FaultyDropDeadEnd(nd) ==
  graph' = IF Outs(graph, nd) = {} THEN UnlinkAll(graph, nd) ELSE graph

DropDeadEnd(nd) ==
  graph' = IF Outs(graph, nd) = {} /\ nd # Fin THEN UnlinkAll(graph, nd) ELSE graph

VisitBackward ==
  /\ phase = "dead_ends"
  /\ \/ /\ \E nd \in todo : DropDeadEnd(nd) /\ todo' = todo \ {nd}
        /\ UNCHANGED <<phase, pending, reached>>
     \/ /\ todo = {} /\ pending # <<>>
        /\ DropDeadEnd(Last(pending)) /\ pending' = Front(pending)
        /\ UNCHANGED <<phase, todo, reached>>
     \/ /\ todo = {} /\ pending = <<>>
        /\ phase' = "reach" /\ pending' = <<Start>> /\ reached' = {}
        /\ UNCHANGED <<graph, todo>>
  /\ UNCHANGED <<listing, options, nodes, unrollVars, seen, order, staticVars>>

Next ==
  \/ InitNodes \/ CreateEdges \/ Reach \/ RemoveUnreachable
  \/ MergeEdges \/ EndMergeEdges
  \/ UnrollStep \/ EndUnroll
  \/ BeginSort \/ SortStep \/ EndSort
  \/ BeginStatic \/ VisitForward \/ VisitBackward

Spec == Init /\ [][Next]_vars /\ WF_vars(Next)

-----------------------------------------------------------------------------
(* What the listing alone says, to compare the graph with                  *)

NextIds(id) ==
  {Id(Target(a)) :
     a \in IF id = FinId THEN {}
           ELSE CASE Instr(id).type = "jump"   -> {Instr(id).br}
                  [] Instr(id).type = "branch" -> {id + 1, Instr(id).br}
                  [] OTHER                     -> {id + 1}}

IdsFrom(S) == Closure(NextIds, S, Len(listing) + 1)
Loops == {id \in IdsFrom({0}) : id \in IdsFrom(NextIds(id))}

\* Every way from the first instruction to id passes d: a branch from id
\* back to d then closes a loop that is only entered at d
Dominates(d, id) ==
  \/ d = 0
  \/ id \notin Closure(LAMBDA a : NextIds(a) \ {d}, {0}, Len(listing) + 1)

\* every loop is entered at one instruction
SingleEntry ==
  LET forward(a) == {t \in NextIds(a) : ~Dominates(t, a)}
  IN \A id \in Loops : id \notin Closure(forward, forward(id), Len(listing) + 1)

\* the program has one loop, without a choice in it how to go round
LoneLoop ==
  /\ \A id \in Loops : Cardinality(NextIds(id) \cap Loops) = 1
  /\ \A id, other \in Loops : other \in IdsFrom({id})

Count(w, id) == Cardinality({i \in DOMAIN w : w[i] = id})

\* All walks of at most n steps from first that end where End holds
CompleteWalks(NextOf(_), End(_), Allowed(_), first, n) ==
  LET W[k \in 0..n] ==
        IF k = 0 THEN {<<first>>}
        ELSE {w \in UNION {{Append(v, x) : x \in NextOf(Last(v))} : v \in W[k - 1]} : Allowed(w)}
  IN {w \in UNION {W[k] : k \in 0..n} : End(Last(w))}

\* the runs of the program that pass no instruction more often than Most(id)
Runs(Most(_), n) ==
  CompleteWalks(NextIds, LAMBDA id : id = FinId,
                LAMBDA w : Count(w, Last(w)) <= Most(Last(w)), 0, n)

\* those of at most n instructions: none can pass one more than n times
AllRuns(n) == Runs(LAMBDA id : n, n)

\* the instructions on the paths of the graph
GraphRuns(n) ==
  {FlattenSeq([i \in DOMAIN w |-> graph.block[w[i]]]) :
     w \in CompleteWalks(LAMBDA nd : Succs(graph, nd), LAMBDA nd : ExitId(nd) = FinId,
                         LAMBDA w : TRUE, Start, n)}

\* -U for the block of an instruction; 1 outside of loops
Most(id) ==
  LET head == CHOOSE nd \in nodes : LoopDepth(nd) = 0 /\ Contains(graph.block[nd], id)
  IN IF head \in nounroll THEN 1 ELSE LimitOf(Id(head))

LongestRun == Len(listing) * Max({1} \cup {LimitOf(id) : id \in Ids}) + 1

\* every block of a loop has an unroll limit
EachLoopLimited ==
  Unrolls /\ \A nd \in nodes \ nounroll : LimitOf(Id(nd)) > 0

-----------------------------------------------------------------------------
(* Properties                                                              *)

\* link(), unlink(), merge_node() and clone() maintain both ends of an edge:
\* the predecessors of a node of the cfg are exactly the edges that lead to
\* it.  topo_sort and the queues of the search count on it.
LinksConsistent ==
  phase \notin {"init_nodes", "bad_listing"} => Consistent(graph, nodes \cup unrolled)

\* Removing and merging nodes changes no run of the program, the first
\* instruction starts a block, and where a branch leads to the end of the
\* program, fin_nd stays a node of its own.
MergeKeepsRuns ==
  phase = "begin_sort" /\ ~analysed /\ ~Unrolls =>
    LET n == 2 * Len(listing)
    IN /\ Start \in nodes
       /\ \/ Fin \in nodes
          \/ \A id \in IdsFrom({0}) \ {FinId} :
               TypeAt(id) = "other" \/ Target(Instr(id).br) # Fin
       /\ {w \in GraphRuns(n) : Len(w) <= n} = {w \in Runs(LAMBDA id : n, n) : Len(w) <= n}

\* In the graph that the search gets, unrolled, sorted and analysed, no path
\* takes the program where it cannot go.
OnlyRuns ==
  phase \in {"sorted", "not_loop_free"} =>
    LET n == 2 * Len(listing)
    IN {w \in GraphRuns(n) : Len(w) <= n} \subseteq AllRuns(n)

\* After unrolling no loop is left, and nothing was added: each path is a
\* run of the program that passes no block more often than its limit.
UnrollSound ==
  phase = "begin_sort" /\ ~analysed /\ EachLoopLimited =>
    /\ \A nd \in ReachedFrom(graph, {Start}) : ~InLoop(graph, nd)
    /\ GraphRuns(LongestRun + 1) \subseteq Runs(Most, LongestRun)

\* If each loop has a single entry, which is not the first block, unrolling
\* keeps the runs that repeat nothing, and, where there is only one loop and
\* one way round it, all runs within the limit.
UnrollComplete ==
  phase = "begin_sort" /\ ~analysed /\ EachLoopLimited /\ 0 \notin Loops /\ SingleEntry =>
    /\ Runs(LAMBDA id : 1, LongestRun) \subseteq GraphRuns(LongestRun)
    /\ LoneLoop => Runs(Most, LongestRun) \subseteq GraphRuns(LongestRun)

\* No edge leads to the first node, which is visited before any edge was seen.
NothingBeforeStart == graph.pred[Start] = {}

\* A sorted node comes after all its predecessors, no node comes twice, and no
\* node of a loop that leads on to the end is left in a graph that is accepted.
SortSound ==
  phase = "sorted" /\ NothingBeforeStart =>
    /\ \A i \in DOMAIN order :
         \A p \in graph.pred[order[i]] : \E k \in 1..i - 1 : p[1] = order[k]
    /\ \A i, j \in DOMAIN order : order[i] = order[j] => i = j
    /\ \A nd \in ReachedFrom(graph, {Start}) :
         InLoop(graph, nd) => Fin \notin ReachedFrom(graph, {nd})

\* Unless a loop leads back to the first block, the sort begins where nothing
\* leads to.  A loop-free or unrolled program is accepted, and of it the search
\* takes for granted, after static_analysis: exactly the paths over
\* unsatisfiable edges are gone, and if one is left, then all nodes are sorted,
\* lead on and are led to.
GraphReady ==
  phase \in {"sorted", "not_loop_free"} /\ 0 \notin Loops =>
    LET Paths(g, out) ==
          CompleteWalks(LAMBDA nd : {g.succ[nd][b] : b \in {c \in Outs(g, nd) : <<nd, c>> \notin out}},
                        LAMBDA nd : nd = Fin, LAMBDA w : TRUE, Start, LongestRun)
    IN /\ ~analysed => NothingBeforeStart
       /\ ~analysed /\ (Loops = {} \/ EachLoopLimited) => phase = "sorted"
       /\ analysed /\ phase = "sorted" /\ (Loops = {} \/ EachLoopLimited) =>
            /\ Paths(graph, {}) = Paths(whole, unsat)
            /\ Fin \in nodes =>
                 /\ ToSet(order) = nodes
                 /\ \A nd \in nodes : /\ Outs(graph, nd) = {} <=> nd = Fin
                                      /\ graph.pred[nd] = {} <=> nd = Start

\* Given a limit for each block of a loop, the graph is built, or refused.
Finishes ==
  (Malformed \/ ~Unrolls \/ \A id \in Loops : LimitOf(id) > 0)
    ~> \/ phase \in {"not_loop_free", "bad_listing"}
       \/ phase = "sorted" /\ (analysed \/ ~options.static)

\* What src/README.md:596 promises: a program with a loop for which no limit
\* was given is refused.
LoopsRefused == phase = "sorted" /\ ~Unrolls => Loops = {}
=============================================================================
