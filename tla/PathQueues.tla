----------------------------- MODULE PathQueues -----------------------------
(***************************************************************************)
(* What both searches of the estimator work on: the control flow graph     *)
(* with its costs, the paths that grow through it (path::none,             *)
(* path::impossible, path::possible) and pathq, the queue of paths.        *)
(*                                                                         *)
(* What the solver knows is given by constants: `Conflicts', sets of edges *)
(* no packet takes together, and `Needs', how long a packet has to be that *)
(* takes a set of edges.                                                   *)
(***************************************************************************)
EXTENDS Naturals, FiniteSets, SequencesExt

CONSTANTS
  Links,        \* the edges [src, dst, taken], by destination and, among
                \* those into one node, in the order of link()
  FinNd,        \* nodes are 1..FinNd in topological order
  Enter,        \* S of the instructions behind an edge, up to the last one
  Leave,        \* S of that last one, for both ways to go on: the instruction
                \* is the node's, its cost may depend on the edge
  CostFirmware,
  MinSize,      \* succ_data.min_packetsize: what static analysis knows
  Conflicts, Needs,
  Obvious,      \* the conflicts that are noticed without the solver
  SizeMax       \* the largest sizet

Nodes == 1..FinNd
Edges == ToSet(Links)

\* cfg::start, and next_k()'s local pred_data(fin_nd, true)
Entry == [src |-> 0, dst |-> 1, taken |-> TRUE]
Out   == [src |-> FinNd, dst |-> FinNd + 1, taken |-> TRUE]

\* loop-free, without unreachable nodes, at most one edge for each way to go on;
\* fin_nd has an instruction of its own
ASSUME GraphAssumption ==
  /\ FinNd \in Nat /\ FinNd > 1
  /\ Links \in Seq([src : 1..FinNd - 1, dst : 2..FinNd, taken : BOOLEAN])
  /\ \A i \in DOMAIN Links : Links[i].src < Links[i].dst
  /\ \A i, j \in DOMAIN Links :
       Links[i].src = Links[j].src /\ Links[i].taken = Links[j].taken => i = j
  /\ \A i, j \in DOMAIN Links : i < j => Links[i].dst <= Links[j].dst
  /\ \A nd \in Nodes \ {1} : \E e \in Edges : e.dst = nd
  /\ \A nd \in Nodes \ {FinNd} : \E e \in Edges : e.src = nd

\* The smallest packets that take an edge came by some edge, and go on.
ASSUME SizeAssumption ==
  /\ MinSize \in [Edges \cup {Entry} -> Nat \ {0}]
  /\ \A x \in Edges : \E p \in Edges \cup {Entry} : p.dst = x.src /\ MinSize[p] <= MinSize[x]
  /\ \A x \in Edges : x.dst # FinNd => \E y \in Edges : y.src = x.dst /\ MinSize[y] <= MinSize[x]

ASSUME CostAssumption ==
  /\ CostFirmware \in Nat \ {0}
  /\ Enter \in [Edges \cup {Entry} -> Nat]
  /\ Leave \in [Edges \cup {Entry} -> [BOOLEAN -> Nat]]
  /\ Obvious \subseteq Conflicts /\ Conflicts \subseteq SUBSET Edges
  /\ \A n \in Needs : n.edges \subseteq Edges /\ n.size \in Nat

\* succ(): the branch, then the other way to go on; and that of all nodes, in
\* order
Leaving(nd, taken) == {x \in Edges : x.src = nd /\ x.taken = taken}
Only(ways) == IF ways = {} THEN <<>> ELSE <<CHOOSE x \in ways : TRUE>>
Succ(nd) == Only(Leaving(nd, TRUE)) \o Only(Leaving(nd, FALSE))
Visit == FoldLeft(LAMBDA before, nd : before \o Succ(nd), <<>>, [nd \in Nodes |-> nd])

\* node by node, what link() has appended
Predecessors ==
  [nd \in Nodes |->
     FoldLeft(LAMBDA before, e : IF e.dst = nd THEN Append(before, e) ELSE before, <<>>, Links)]
Pred(nd) == Predecessors[nd]
Sibling(e) == {s \in Edges : s.src = e.src /\ s.taken # e.taken}

-----------------------------------------------------------------------------
(* Paths: path::possible, path::impossible and path::none.  `at' is the    *)
(* edge a path arrived by, `via' the edges of a possible one, `min' what   *)
(* min_packetsize() is before the solver was asked.                        *)

\* Operators named Faulty... are what a plausible bug would make of the
\* definition behind them; no action uses one.
FaultyNone == [kind |-> "none", at |-> Entry, cost |-> 0, count |-> 1, via |-> <<>>,
               min |-> MinSize[Entry]]

None == [kind |-> "none", at |-> Entry, cost |-> 0, count |-> SizeMax, via |-> <<>>,
         min |-> MinSize[Entry]]
Start == [kind |-> "possible", at |-> Entry, cost |-> CostFirmware + Enter[Entry],
          count |-> 1, via |-> <<Entry>>, min |-> MinSize[Entry]]

NotedUnsat(via) == \E c \in Obvious : c \subseteq ToSet(via)

\* S{}(p, branchtrue): what p will cost once extended along e
CostVia(p, e) ==
  IF p.kind = "none" THEN 0 ELSE p.cost + Leave[p.at][e.taken] + Enter[e]

\* marked_unsat, which mark_unsat() and extendn() hand on to all extensions
Marked(via, dead) == \E n \in DOMAIN via : SubSeq(via, 1, n) \in dead

IsUnsat(p, dead) ==
  p.kind = "impossible" \/ (p.kind = "possible" /\ Marked(p.via, dead))

ToImpossible(p) == [p EXCEPT !.kind = "impossible", !.via = <<>>]

Extend(p, e, dead) ==
  LET longer == [p EXCEPT !.at = e, !.cost = CostVia(p, e), !.via = Append(@, e),
                          !.min = Max({@, MinSize[e]})]
  IN  IF p.kind = "none" THEN p
      ELSE IF IsUnsat(p, dead) \/ NotedUnsat(longer.via) THEN ToImpossible(longer)
      ELSE longer

-----------------------------------------------------------------------------
(* pathq, with its cached and saturating number of paths                   *)

Plus(a, b)  == IF SizeMax - a < b THEN SizeMax ELSE a + b
Minus(a, b) == IF a = SizeMax THEN SizeMax ELSE IF a < b THEN 0 ELSE a - b

Total(paths) == FoldLeft(LAMBDA n, p : Plus(n, p.count), 0, paths)

Empty    == [paths |-> <<>>, count |-> 0]
Queue(p) == [paths |-> <<p>>, count |-> p.count]

Mergeable(p, o) == p.kind = o.kind /\ p.kind # "possible"

\* p->merge(o): the later and cheaper of two impossible paths stands for both
\* (its number of paths is no sizet, and wraps around)
MergePaths(p, o) ==
  IF p.kind = "none" THEN p ELSE [p EXCEPT !.count = (p.count + o.count) % (SizeMax + 1)]

\* push(const pathq&)
Push(q, r) ==
  [paths |-> IF /\ q.paths # <<>> /\ r.paths # <<>>
                /\ Mergeable(Head(r.paths), Last(q.paths))
             THEN Front(q.paths) \o <<MergePaths(Head(r.paths), Last(q.paths))>>
                  \o Tail(r.paths)
             ELSE q.paths \o r.paths,
   count |-> Plus(q.count, r.count)]

\* push(pathq&&)
Move(q, r) == IF q.count = 0 THEN r ELSE Push(q, r)

FaultyTake(q) ==                  \* a saturated size is never counted again
  [paths |-> Tail(q.paths), count |-> Minus(q.count, Head(q.paths).count)]

Take(q) ==
  LET left == Minus(q.count, Head(q.paths).count)
  IN  [paths |-> Tail(q.paths),
       count |-> IF left = SizeMax THEN Total(Tail(q.paths)) ELSE left]

-----------------------------------------------------------------------------
(* The solver                                                              *)

Feasible(via) == \A c \in Conflicts : ~(c \subseteq ToSet(via))

FaultyDecisive(via, c) ==         \* the prefix in front of the last conflict edge
  SubSeq(via, 1, (CHOOSE n \in DOMAIN via :
                    via[n] \in c /\ \A m \in n + 1..Len(via) : via[m] \notin c) - 1)

\* apply_unsat_core(): the shortest prefix of a path that contains the core c
Decisive(via, c) ==
  SubSeq(via, 1, CHOOSE n \in DOMAIN via :
                   via[n] \in c /\ \A m \in n + 1..Len(via) : via[m] \notin c)

\* exec::minimum_value() once the solver has found the smallest packet
RealMin(via) ==
  Max({MinSize[via[n]] : n \in DOMAIN via}
      \cup {need.size : need \in {n \in Needs : n.edges \subseteq ToSet(via)}})

-----------------------------------------------------------------------------
(* For the properties: the complete paths through the program, and what    *)
(* they are priced at                                                      *)

AllPaths ==
  LET Ways[nd \in Nodes] ==
        IF nd = 1 THEN {<<Entry>>}
        ELSE UNION {{Append(w, x) : w \in Ways[x.src]} : x \in ToSet(Pred(nd))}
  IN  Ways[FinNd]

PathCost(via) ==
  FoldLeft(LAMBDA c, n : c + Leave[via[n]][via[n + 1].taken] + Enter[via[n + 1]],
           CostFirmware + Enter[Entry], [n \in 1..Len(via) - 1 |-> n])
=============================================================================
