--------------------------- MODULE PathEnumeration ---------------------------
(***************************************************************************)
(* The search for the slowest paths: cfg::enumerate_by_packetrate for one  *)
(* metric S, with cfg::next_k and cfg::push_impossible.                    *)
(*                                                                         *)
(* A path grows from the entry of a loop-free control flow graph towards   *)
(* fin_nd.  The paths that have arrived at a node wait, once for each of   *)
(* its out-edges, to be extended along it.  Per edge, what its source has  *)
(* to offer is collected in succ_data.q and moved to pred_data.q when      *)
(* next_k() comes to the edge; a node always draws the path that will be   *)
(* the slowest one after its extension.  k paths at a time arrive at fin,  *)
(* are checked by the solver in parallel and reported in order.  A path    *)
(* found unsatisfiable takes with it every path that shares the decisive   *)
(* prefix; such paths are counted instead of being enumerated.             *)
(*                                                                         *)
(* The default features are modelled: impossible prefixes, merging and     *)
(* keeping of impossible paths, no solver calls before a path is complete. *)
(***************************************************************************)
EXTENDS PathQueues

CONSTANTS
  Parallelism,
  Counts        \* the values of -c to look at

ASSUME ParallelismAssumption ==
  /\ Parallelism \in Nat \ {0}
  /\ SizeMax \in Nat /\ 30 * Parallelism <= SizeMax

ASSUME CountsAssumption == Counts \subseteq Nat

VARIABLES
  count,      \* -c
  pq, sq,     \* per edge: pred_data.q and succ_data.q
  rr,         \* per node: pred_begin, where the next scan starts
  dead,       \* the paths marked unsat by an unsatisfiable core
  pc,
  e,          \* next_k(): the edge to fill and how many paths it needs
  stack,
  got, size,  \* the paths drawn for e so far, and i, the size they reach
  k,
  batch,      \* the complete paths of this round
  checked,    \* those whose check() is over and whose callback is stored
  next,       \* the one to call back next
  index, done, max, bound,   \* bound: the "max cycles" printed last
  prune,      \* push_impossible(): the position in Links
  shown,      \* history: the paths reported as satisfiable
  hidden      \* history: how many were reported as unsatisfiable

search == <<pq, sq, rr, e, stack, got, size>>
round  == <<batch, checked, next, index, done, max, bound, shown, hidden>>
vars   == <<count, dead, pc, k, prune, search, round>>

FaultySlower(o, p) == p           \* the last arrival instead of the worst
Slower(o, p) == IF o.cost < p.cost THEN p ELSE o

\* underestimate_packetrate(): node by node, the worst arrival at each
Worst ==
  LET arrive(m, x) == [m EXCEPT ![x.dst] = Slower(@, Extend(m[x.src], x, {}))]
  IN  FoldLeft(arrive, [nd \in Nodes |-> IF nd = 1 THEN ToImpossible(Start) ELSE None],
               Visit)[FinNd].cost

Init ==
  /\ count \in Counts
  /\ pq = [x \in Edges \cup {Out} |-> Empty]
  /\ sq = [x \in Edges |-> IF x.src = 1 THEN Push(Queue(Start), Queue(None)) ELSE Empty]
  /\ rr = [nd \in Nodes |-> 1]
  /\ dead = {}
  /\ pc = IF count = 0 THEN "over" ELSE "pull"
  /\ e = [to |-> Out, k |-> 0] /\ stack = <<>> /\ got = Empty /\ size = 0
  /\ k = Parallelism
  /\ batch = <<>> /\ checked = {} /\ next = 1
  /\ index = 0 /\ done = FALSE /\ max = Worst /\ bound = Worst
  /\ prune = 1
  /\ shown = <<>> /\ hidden = 0

-----------------------------------------------------------------------------
(* next_k()                                                                *)

\* shortest_q(): the first of the shortest queues in front of a node; a node
\* without predecessors yields a static dummy with an empty queue.
NoEdge == [src |-> 0, dst |-> 0, taken |-> TRUE]

Shortest(q, nd) ==
  IF Pred(nd) = <<>> THEN NoEdge
  ELSE Pred(nd)[SelectInSeq(Pred(nd), LAMBDA x :
         \A y \in ToSet(Pred(nd)) : q[x].count <= q[y].count)]

ShortestSize(q, nd) == IF Pred(nd) = <<>> THEN 0 ELSE q[Shortest(q, nd)].count

FaultyFrontCost(x) ==             \* the extension is not priced in
  IF pq[x].paths = <<>> THEN 0 ELSE Head(pq[x].paths).cost

\* q_with_longest_path(): the first edge into nd, round robin from pred_begin,
\* whose front would be the slowest path; an empty queue has cost S::MIN.
FrontCost(x) == IF pq[x].paths = <<>> THEN 0 ELSE CostVia(Head(pq[x].paths), x)

Longest(nd) ==
  LET turn == SubSeq(Pred(nd), rr[nd], Len(Pred(nd))) \o SubSeq(Pred(nd), 1, rr[nd] - 1)
  IN  turn[SelectInSeq(turn, LAMBDA x : \A y \in ToSet(turn) : FrontCost(y) <= FrontCost(x))]

Advance(nd, x) ==
  rr' = [rr EXCEPT ![nd] = (SelectInSeq(Pred(nd), LAMBDA y : y = x) % Len(Pred(nd))) + 1]

\* next_k() goes on with the request r: draw from the queues in front of its
\* edge, or, if they hold too little, fill the emptiest of them first.
GoOn(r, q) ==
  /\ e' = r
  /\ pc' = IF Plus(ShortestSize(q, r.to.src), q[r.to].count) < r.k
           THEN "descend" ELSE "draw"
  /\ got' = Empty
  /\ size' = q[r.to].count

Begin ==
  /\ pc = "pull"
  /\ pc' = "descend"
  /\ e' = [to |-> Out, k |-> k]
  /\ pq' = [pq EXCEPT ![Out] = Empty]
  /\ UNCHANGED <<count, dead, k, prune, sq, rr, stack, got, size, round>>

\* x is the emptiest edge in front of e
Descend(x) ==
  /\ pc = "descend"
  /\ x = Shortest(pq, e.to.src)
  /\ pq' = [pq EXCEPT ![x] = Move(@, sq[x])]
  /\ sq' = [sq EXCEPT ![x] = Empty]
  /\ stack' = Append(stack, e)
  /\ GoOn([to |-> x, k |-> e.k - pq[e.to].count], pq')
  /\ UNCHANGED <<count, dead, k, prune, rr, round>>

\* The slowest path in front of e arrives by x; it is extended.
Draw(x) ==
  /\ pc = "draw" /\ size < e.k
  /\ x = Longest(e.to.src)
  /\ pq' = [pq EXCEPT ![x] = Take(@)]
  /\ Advance(e.to.src, x)
  /\ got' = Move(got, Queue(Extend(Head(pq[x].paths), x, dead)))
  /\ size' = Plus(size, Head(pq[x].paths).count)
  /\ UNCHANGED <<count, dead, pc, k, prune, sq, e, stack, round>>

\* What was drawn for an edge is offered along its source's other edge too.
Offer(to) ==
  /\ pq' = [pq EXCEPT ![to] = Move(@, got)]
  /\ sq' = [x \in Edges |-> IF x \in Sibling(to) THEN Push(sq[x], got) ELSE sq[x]]

Ascend ==
  /\ pc = "draw" /\ size >= e.k /\ stack # <<>>
  /\ Offer(e.to)
  /\ stack' = Front(stack)
  /\ GoOn(Last(stack), pq')
  /\ UNCHANGED <<count, dead, k, prune, rr, round>>

-----------------------------------------------------------------------------
(* enumerate_by_packetrate()                                               *)

\* !is_decided()
Undecided(p) == p.kind = "possible" /\ ~Marked(p.via, dead)

\* next_k() returns the complete paths; all of them are delegated
Delegate ==
  /\ pc = "draw" /\ size >= e.k /\ stack = <<>>
  /\ Offer(e.to)
  /\ batch' = pq'[Out].paths
  /\ checked' = {}
  /\ next' = 1
  /\ bound' = IF Undecided(batch'[1]) /\ batch'[1].cost < max THEN batch'[1].cost ELSE bound
  /\ pc' = "check"
  /\ UNCHANGED <<count, dead, k, prune, rr, e, stack, got, size,
                 index, done, max, shown, hidden>>

\* A worker checks a path; the pool starts them in order, Parallelism at a
\* time.  The solver names any one conflict the path contains.
Check(i) ==
  LET via == batch[i].via
  IN  /\ pc = "check" /\ i \notin checked
      /\ Cardinality({j \in 1..i - 1 : j \notin checked}) < Parallelism
      /\ checked' = checked \cup {i}
      /\ IF Undecided(batch[i]) /\ ~Feasible(via)
         THEN \E c \in Conflicts : /\ c \subseteq ToSet(via)
                                   /\ dead' = dead \cup {Decisive(via, c)}
         ELSE UNCHANGED dead
      /\ UNCHANGED <<count, pc, k, prune, search, batch, next, index, done, max, bound,
                     shown, hidden>>

\* The callbacks are called in the order of the paths (OrderedCompletion).
Report ==
  LET p == batch[next]
      sat == p.kind = "possible" /\ Feasible(p.via)
  IN  /\ pc = "check" /\ next \in checked
      /\ next' = next + 1
      /\ index' = IF sat THEN index + 1 ELSE index
      /\ shown' = IF sat THEN Append(shown, p.via) ELSE shown
      /\ hidden' = IF sat \/ p.kind = "none" THEN hidden ELSE hidden + p.count
      /\ done' = (done \/ index' >= count \/ p.kind = "none")
      /\ max' = p.cost
      /\ bound' = IF /\ next < Len(batch) /\ next + 1 \notin checked
                     /\ Undecided(batch[next + 1])
                     /\ batch[next + 1].cost < p.cost
                  THEN batch[next + 1].cost ELSE bound
      /\ UNCHANGED <<count, dead, pc, k, prune, search, batch, checked>>

\* pool.wait() has returned; push_impossible() begins
Close ==
  /\ pc = "check" /\ next > Len(batch)
  /\ pc' = "prune"
  /\ prune' = 1
  /\ batch' = <<>> /\ checked' = {} /\ next' = 1
  /\ UNCHANGED <<count, dead, k, search, index, done, max, bound, shown, hidden>>

-----------------------------------------------------------------------------
(* push_impossible(): along every edge, in topological order, as long as   *)
(* the slowest path in front of its source is known to be impossible       *)

Prune ==
  LET x == Links[prune]
  IN  /\ pc = "prune" /\ prune <= Len(Links)
      /\ pq' = [pq EXCEPT ![x] = Move(@, sq[x])]
      /\ sq' = [sq EXCEPT ![x] = Empty]
      /\ e' = [to |-> x, k |-> 0]
      /\ got' = Empty
      /\ pc' = "sweep"
      /\ UNCHANGED <<count, dead, k, prune, rr, stack, size, round>>

Sweep(x) ==
  /\ pc = "sweep" /\ ShortestSize(pq, e.to.src) > 0
  /\ x = Longest(e.to.src)
  /\ Advance(e.to.src, x)
  /\ IF IsUnsat(Head(pq[x].paths), dead)
     THEN /\ pq' = [pq EXCEPT ![x] = Take(@)]
          /\ got' = Move(got, Queue(Extend(Head(pq[x].paths), x, dead)))
          /\ UNCHANGED <<pc, sq, prune>>
     ELSE /\ Offer(e.to)
          /\ prune' = prune + 1
          /\ pc' = "prune"
          /\ UNCHANGED got
  /\ UNCHANGED <<count, dead, k, e, stack, size, round>>

Swept ==
  /\ pc = "sweep" /\ ShortestSize(pq, e.to.src) = 0
  /\ Offer(e.to)
  /\ prune' = prune + 1
  /\ pc' = "prune"
  /\ UNCHANGED <<count, dead, k, rr, e, stack, got, size, round>>

\* Larger rounds as long as there is memory for them; at the end, reset().
NextRound ==
  /\ pc = "prune" /\ prune > Len(Links)
  /\ \/ k < 20 * Parallelism /\ k' = k + k \div 2
     \/ UNCHANGED k
  /\ IF done
     THEN /\ pc' = "over"
          /\ pq' = [x \in DOMAIN pq |-> Empty]
          /\ sq' = [x \in DOMAIN sq |-> Empty]
          /\ rr' = [nd \in Nodes |-> 1]
     ELSE pc' = "pull" /\ UNCHANGED <<pq, sq, rr>>
  /\ UNCHANGED <<count, dead, prune, e, stack, got, size, round>>

-----------------------------------------------------------------------------

Finished == pc = "over" /\ UNCHANGED vars

Next ==
  \/ Begin \/ Ascend
  \/ \E x \in ToSet(Pred(e.to.src)) : Descend(x) \/ Draw(x) \/ Sweep(x)
  \/ Delegate \/ (\E i \in DOMAIN batch : Check(i)) \/ Report \/ Close
  \/ Prune \/ Swept \/ NextRound
  \/ Finished

\* the tool runs, and the solver answers
Spec == Init /\ [][Next]_vars /\ WF_vars(Next)

-----------------------------------------------------------------------------

\* next_k() never follows the dummy of a node without predecessors, and no
\* take() or front() finds its queue empty: all would dereference a null
\* pointer.
NoNullDeref ==
  /\ pc = "descend" => Pred(e.to.src) # <<>>
  /\ pc = "draw" /\ size < e.k => Pred(e.to.src) # <<>> /\ pq[Longest(e.to.src)].paths # <<>>
  /\ pc = "sweep" /\ ShortestSize(pq, e.to.src) > 0 => pq[Longest(e.to.src)].paths # <<>>

\* The size a queue has cached is the number of paths in it, also after it
\* was saturated by `none'.
CountExact ==
  /\ \A x \in Edges \cup {Out} : pq[x].count = Total(pq[x].paths)
  /\ \A x \in Edges : sq[x].count = Total(sq[x].paths)

\* When the search ends by itself, every path of the program was accounted
\* for exactly once: the satisfiable ones reported, the others counted.
Complete ==
  pc = "over" /\ index < count =>
    /\ ToSet(shown) = {v \in AllPaths : Feasible(v)}
    /\ Len(shown) = Cardinality(ToSet(shown))
    /\ hidden = Cardinality({v \in AllPaths : ~Feasible(v)})

\* The paths come sorted from slowest to fastest.
SlowestFirst ==
  \A i \in 1..Len(shown) - 1 : PathCost(shown[i + 1]) <= PathCost(shown[i])

\* The "max cycles" printed last bounds every satisfiable path to come: this
\* is what a user reads off a search that was stopped early.
BoundHolds ==
  \A v \in AllPaths : Feasible(v) /\ v \notin ToSet(shown) => PathCost(v) <= bound

\* The enumeration ends, by itself or because of -c.
Ends == <>(pc = "over")
=============================================================================
