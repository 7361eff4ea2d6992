------------------------- MODULE BitrateEnumeration -------------------------
(***************************************************************************)
(* The search for the paths with the lowest bit rate: cfg::tpathq,         *)
(* cfg::propagate_sizes and cfg::enumerate_by_bitrate for one metric S,    *)
(* with cfg::next_k(sizev) and cfg::push_mimpossible.                      *)
(*                                                                         *)
(* The rate of a path is S divided by the size of the smallest packet that *)
(* takes it, which is only known once the path was checked.  There is one  *)
(* search for each size static analysis found, each edge has a queue for   *)
(* each size its paths may need (mpathq), and all searches share the edges *)
(* and the round robin.  Complete paths are collected in tpathq, ordered   *)
(* by rate, and may be reported once no search can yield a higher rate.    *)
(*                                                                         *)
(* Default features, as in PathEnumeration.                                *)
(***************************************************************************)
EXTENDS PathQueues, TLC

CONSTANTS
  Parallelism,
  Counts        \* the values of -c to look at

ASSUME ParallelismAssumption == Parallelism > 0

-----------------------------------------------------------------------------
(* propagate_sizes()                                                       *)

AtLeast(x, S) == {s \in S : s >= MinSize[x]}

\* the sizes that are needed behind an edge, those a path may have
\* to grow to, and those a path may have got to
Sizes ==
  LET Needed[x \in Edges] ==
        {MinSize[x]} \cup AtLeast(x, UNION {Needed[y] : y \in {y \in Edges : y.src = x.dst}})
      Before(x) == ToSet(Pred(x.src))
      Possible[x \in Edges] ==
        IF x.src = 1 THEN Needed[x] ELSE AtLeast(x, UNION {Possible[y] : y \in Before(x)})
      Produced[x \in Edges] ==
        {MinSize[x]} \cup AtLeast(x, UNION {Produced[y] : y \in Before(x)})
  IN  [x \in Edges |-> (Needed[x] \cap Possible[x]) \cup Produced[x]]

\* the sizes of the searches
Searches == UNION {Sizes[x] : x \in ToSet(Pred(FinNd))}

AllSizes == UNION {Sizes[x] : x \in Edges}

-----------------------------------------------------------------------------
(* sizev: how many paths of each size, where no entry means none           *)

NoSizes == [s \in AllSizes |-> 0]

\* mpathq is a function from its sizes to queues
SizeIn(mq, s) == IF s \in DOMAIN mq THEN mq[s].count ELSE SizeMax
Held(mq, s)   == IF s \in DOMAIN mq THEN mq[s].count ELSE 0

EmptyMq(S) == [s \in S |-> Empty]
MMove(mq, nq) == [s \in DOMAIN mq |-> IF s \in DOMAIN nq THEN Move(mq[s], nq[s]) ELSE mq[s]]
MPush(mq, nq) == [s \in DOMAIN mq |-> IF s \in DOMAIN nq THEN Push(mq[s], nq[s]) ELSE mq[s]]

-----------------------------------------------------------------------------
(* tratio, ordered by the quotient                                         *)

Less(a, b) == a.cost * b.size < b.cost * a.size
MaxRate == [cost |-> 1, size |-> 0]
Rate(p, s) == [cost |-> p.cost, size |-> s]

Greatest(R) == CHOOSE r \in R : \A o \in R : ~Less(r, o)

\* multimap::emplace: behind what is not less
Emplace(q, x) ==
  SelectSeq(q, LAMBDA y : ~Less(y.rate, x.rate)) \o <<x>> \o
  SelectSeq(q, LAMBDA y : Less(y.rate, x.rate))

-----------------------------------------------------------------------------

VARIABLES
  count,       \* -c
  pq, sq,      \* per edge: pred_data.mq and succ_data.mq
  rr,          \* per node: pred_begin
  dead,        \* the paths marked unsat
  pc,
  e,           \* next_k(): the edge to fill, and what it needs of each size
  stack,
  cls,         \* the sizes that are still to be drawn for e
  got, size,   \* the paths drawn for the first of them, and i
  k,
  paths,       \* tpathq::q; its paths are the keys of tpathq::pathes
  undecided,   \* tpathq::undecided
  limits,      \* tpathq::sizes: per search the last rate drawn
  limit,       \* and the highest of them
  batch,       \* the paths delegated in this round
  checked,     \* per check that is over: min_packetsize() of the result
  next,        \* the one to call back next
  index, done, max, bound,    \* bound: the "max cycles/b" printed last
  prune,       \* push_mimpossible(): the position in Links
  shown        \* history: the satisfiable paths reported, with their rates

search == <<pq, sq, rr, e, stack, cls, got, size>>
collected == <<paths, undecided, limits, limit>>
round  == <<batch, checked, next, index, done, max, bound, shown>>
vars   == <<count, dead, pc, k, prune, search, collected, round>>

FaultySlower(o, p) == p            \* the last arrival instead of the worst
Slower(o, p) == IF o.cost < p.cost THEN p ELSE o

\* underestimate_bitrate(): node by node, the worst arrival of each size
Worst ==
  LET arrive(m, x) ==
        [m EXCEPT ![x.dst] = [s \in AllSizes |->
           IF s \in Sizes[x] THEN Slower(@[s], Extend(m[x.src][s], x, {})) ELSE @[s]]]
      first == [nd \in Nodes |-> [s \in AllSizes |-> IF nd = 1 THEN ToImpossible(Start) ELSE None]]
      last == FoldLeft(arrive, first, Visit)[FinNd]
  IN  Greatest({Rate(last[s], s) : s \in Searches})

Init ==
  /\ count \in Counts
  /\ pq = [x \in Edges \cup {Out} |-> EmptyMq(IF x = Out THEN {} ELSE Sizes[x])]
  /\ sq = [x \in Edges |->
             [s \in Sizes[x] |-> IF x.src = 1 THEN Push(Queue(Start), Queue(None)) ELSE Empty]]
  /\ rr = [nd \in Nodes |-> 1]
  /\ dead = {}
  /\ pc = IF count = 0 THEN "over" ELSE "pull"
  /\ e = [to |-> Out, k |-> NoSizes] /\ stack = <<>>
  /\ cls = <<>> /\ got = Empty /\ size = 0
  /\ k = Parallelism
  /\ paths = <<>> /\ undecided = <<>> /\ limits = [s \in Searches |-> MaxRate] /\ limit = MaxRate
  /\ batch = <<>> /\ checked = <<>> /\ next = 1
  /\ index = 0 /\ done = FALSE /\ max = Worst /\ bound = Worst
  /\ prune = 1
  /\ shown = <<>>

-----------------------------------------------------------------------------
(* next_k(sizev)                                                           *)

\* what an edge still needs of each size
Lacks(q, r) == [s \in AllSizes |-> Minus(r.k[s], Held(q[r.to], s))]

\* the least any edge into nd holds of size s; SIZE_MAX if none is for s
Least(q, nd, s) == Min({SizeIn(q[x], s) : x \in ToSet(Pred(nd))})

\* shortest_mq(): the sizes of which some edge in front of r holds too little
Scarce(q, r) ==
  IF Pred(r.to.src) = <<>> THEN {s \in AllSizes : Lacks(q, r)[s] > 0}
  ELSE {s \in AllSizes : Least(q, r.to.src, s) < Lacks(q, r)[s]}

\* and the first of the emptiest edges, for the least of these sizes
Emptiest(q, r) ==
  LET s == Min(Scarce(q, r))
  IN  Pred(r.to.src)[SelectInSeq(Pred(r.to.src), LAMBDA x : SizeIn(q[x], s) = Least(q, r.to.src, s))]

\* q_with_longest_path(s): of the edges with a path of this size the first
\* one, round robin from pred_begin, whose front would be the slowest path
Longest(nd, s) ==
  LET turn == SelectSeq(SubSeq(Pred(nd), rr[nd], Len(Pred(nd))) \o SubSeq(Pred(nd), 1, rr[nd] - 1),
                        LAMBDA x : s \in DOMAIN pq[x] /\ pq[x][s].paths # <<>>)
      front(x) == CostVia(Head(pq[x][s].paths), x)
  IN  turn[SelectInSeq(turn, LAMBDA x : \A y \in ToSet(turn) : front(y) <= front(x))]

Advance(nd, x) ==
  rr' = [rr EXCEPT ![nd] = (SelectInSeq(Pred(nd), LAMBDA y : y = x) % Len(Pred(nd))) + 1]

\* the sizes of a request, in ascending order
Asked(r) == SetToSortSeq({s \in AllSizes : r.k[s] > 0}, <)

GoOn(r, q) ==
  /\ e' = r
  /\ pc' = IF Scarce(q, r) # {} THEN "descend" ELSE "draw"
  /\ cls' = Asked(r)
  /\ got' = Empty
  /\ size' = IF Asked(r) = <<>> THEN 0 ELSE Held(q[r.to], Head(Asked(r)))

Counted(s) == SelectSeq(paths, LAMBDA y : ~Less(y.rate, limits[s]))

\* sizes_to(): k more paths of each size, less those above its limit
Begin ==
  /\ pc = "pull"
  /\ LET want(s) == Minus(k, Total([i \in DOMAIN Counted(s) |-> Counted(s)[i].path]))
         r == [to |-> Out, k |-> [s \in AllSizes |-> IF s \in Searches THEN want(s) ELSE 0]]
     IN  /\ pq' = [pq EXCEPT ![Out] = EmptyMq({s \in Searches : r.k[s] > 0})]
         /\ GoOn(r, pq')
  /\ stack' = <<>>
  /\ UNCHANGED <<count, dead, k, prune, sq, rr, collected, round>>

\* x is the edge to fill first
Descend(x) ==
  /\ pc = "descend"
  /\ x = Emptiest(pq, e)
  /\ pq' = [pq EXCEPT ![x] = MMove(@, sq[x])]
  /\ sq' = [sq EXCEPT ![x] = EmptyMq(Sizes[x])]
  /\ stack' = Append(stack, e)
  /\ GoOn([to |-> x, k |-> [s \in AllSizes |-> IF s \in Sizes[x] THEN Lacks(pq, e)[s] ELSE 0]], pq')
  /\ UNCHANGED <<count, dead, k, prune, rr, collected, round>>

Draw(x) ==
  /\ pc = "draw" /\ cls # <<>> /\ size < e.k[Head(cls)]
  /\ LET s == Head(cls)
         p == Head(pq[x][s].paths)
     IN  /\ x = Longest(e.to.src, s)
         /\ pq' = [pq EXCEPT ![x][s] = Take(@)]
         /\ got' = Move(got, Queue(Extend(p, x, dead)))
         /\ size' = Plus(size, p.count)
  /\ Advance(e.to.src, x)
  /\ UNCHANGED <<count, dead, pc, k, prune, sq, e, stack, cls, collected, round>>

\* What was drawn is offered along the other edge too, if it has this size.
Offer(to, s) ==
  /\ pq' = [pq EXCEPT ![to] = MMove(@, s :> got)]
  /\ sq' = [x \in Edges |-> IF x \in Sibling(to) THEN MPush(sq[x], s :> got) ELSE sq[x]]

NextSize ==
  /\ pc = "draw" /\ cls # <<>> /\ size >= e.k[Head(cls)]
  /\ Offer(e.to, Head(cls))
  /\ cls' = Tail(cls)
  /\ got' = Empty
  /\ size' = IF Tail(cls) = <<>> THEN 0 ELSE Held(pq'[e.to], Head(Tail(cls)))
  /\ UNCHANGED <<count, dead, pc, k, prune, rr, e, stack, collected, round>>

Ascend ==
  /\ pc = "draw" /\ cls = <<>> /\ stack # <<>>
  /\ stack' = Front(stack)
  /\ GoOn(Last(stack), pq)
  /\ UNCHANGED <<count, dead, k, prune, pq, sq, rr, collected, round>>

-----------------------------------------------------------------------------
(* tpathq                                                                  *)

\* The paths at the head of a map that are above the limit and, if they have
\* to be, decided
Leading(q, decided) ==
  SubSeq(q, 1, Cardinality({i \in DOMAIN q :
                  \A j \in 1..i : ~Less(q[j].rate, limit) /\ (decided => q[j].decided)}))

\* !is_decided()
Undecided(p) == p.kind = "possible" /\ ~Marked(p.via, dead)

\* A path that is in the map already is the same object, whichever queue it
\* came from.
Collect(p) ==
  LET x == [path |-> p, rate |-> Rate(p, p.min), decided |-> ~Undecided(p)]
  IN  IF \E i \in DOMAIN paths : paths[i].path = p THEN UNCHANGED <<paths, undecided>>
      ELSE /\ paths' = Emplace(paths, x)
           /\ undecided' = IF Undecided(p) THEN Emplace(undecided, x) ELSE undecided

\* what a search cannot exceed once it has drawn p
Limit(p, s) == Rate(p, s)

\* adjust_size(): the entry is decided, and moves if its size has changed
FaultyAdjust(q, p, s) ==          \* the order is kept
  [i \in DOMAIN q |-> IF q[i].path # p THEN q[i]
                      ELSE [q[i] EXCEPT !.decided = TRUE, !.rate = Rate(p, s)]]

Adjust(q, p, s) ==
  LET i == SelectInSeq(q, LAMBDA y : y.path = p)
      x == [q[i] EXCEPT !.decided = TRUE]
  IN  IF x.rate.size = s THEN [q EXCEPT ![i] = x]
      ELSE Emplace(RemoveAt(q, i), [x EXCEPT !.rate = Rate(p, s)])

-----------------------------------------------------------------------------
(* enumerate_by_bitrate()                                                  *)

Satisfiable(y) == y.path.kind = "possible" /\ ~Marked(y.path.via, dead)

\* !is_decided(), also of a path whose check is over but not its callback
Open(y) == Undecided(y.path) /\ \A i \in DOMAIN checked : batch[i].path # y.path

\* front() yields nothing
Dry(q) == q = <<>> \/ Less(Head(q).rate, limit)

\* The lambda w: report the decided paths at the head of q, then the rate of
\* an undecided one that comes next.  If front() yields nothing it is read all
\* the same, which may end the program.
Deliver(q, goOn) ==
  \E out \in {Leading(q, TRUE)} :
  \E rest \in {SubSeq(q, Len(out) + 1, Len(q))} :
    LET sat  == SelectSeq(out, Satisfiable)
        last == IF out = <<>> THEN max ELSE Last(out).rate
        news == ~Dry(rest) /\ Open(Head(rest)) /\ Less(Head(rest).rate, last)
    IN  /\ paths' = rest
        /\ shown' = shown \o [i \in DOMAIN sat |-> [via |-> sat[i].path.via, rate |-> sat[i].rate]]
        /\ index' = index + Len(sat)
        /\ done' = \/ done \/ (out # <<>> /\ index + Len(sat) >= count)
                   \/ \E i \in DOMAIN out : out[i].path.kind = "none"
        /\ max' = IF news THEN Head(rest).rate ELSE last
        /\ bound' = IF news THEN Head(rest).rate ELSE bound
        /\ pc' \in {goOn} \cup (IF Dry(rest) THEN {"crashed"} ELSE {})

\* next_k() has returned complete paths, which are pushed into itq.
Drawn == {s \in DOMAIN pq[Out] : pq[Out][s].paths # <<>>}

Pull ==
  /\ pc = "draw" /\ cls = <<>> /\ stack = <<>> /\ Drawn # {}
  /\ LET s == Min(Drawn)
         p == Head(pq[Out][s].paths)
     IN  /\ Collect(p)
         /\ limits' = [limits EXCEPT ![s] = Limit(p, s)]
         /\ pq' = [pq EXCEPT ![Out][s].paths = Tail(@)]
  /\ UNCHANGED <<count, dead, pc, k, prune, sq, rr, e, stack, cls, got, size, limit, round>>

Pulled ==
  /\ pc = "draw" /\ cls = <<>> /\ stack = <<>> /\ Drawn = {}
  /\ pc' = "pulled"
  /\ limit' = Greatest({limits[s] : s \in Searches})
  /\ UNCHANGED <<count, dead, k, prune, search, paths, undecided, limits, round>>

\* w(), then what is undecided above the limit is delegated
Delegate ==
  /\ pc = "pulled"
  /\ Deliver(paths, "check")
  /\ \E b \in {Leading(undecided, FALSE)} :
       batch' = b /\ undecided' = SubSeq(undecided, Len(b) + 1, Len(undecided))
  /\ checked' = <<>> /\ next' = 1
  /\ UNCHANGED <<count, dead, k, prune, search, limits, limit>>

\* A worker checks a path; the pool starts them in order.
Check(i) ==
  LET p == batch[i].path
      Result(s) == checked' = checked @@ (i :> s)
  IN  /\ pc = "check" /\ i \notin DOMAIN checked
      /\ Cardinality({j \in 1..i - 1 : j \notin DOMAIN checked}) < Parallelism
      /\ \/ /\ Undecided(p) /\ Feasible(p.via)
            /\ Result(RealMin(p.via))
            /\ UNCHANGED dead
         \/ /\ Undecided(p) /\ Result(p.min)
            /\ \E c \in Conflicts : c \subseteq ToSet(p.via) /\ dead' = dead \cup {Decisive(p.via, c)}
         \/ /\ ~Undecided(p) /\ Result(p.min)
            /\ UNCHANGED dead
      /\ UNCHANGED <<count, pc, k, prune, search, collected, batch, next, index, done, max, bound,
                     shown>>

\* The callbacks are called in the order of the paths (OrderedCompletion).
Callback ==
  /\ pc = "check" /\ next \in DOMAIN checked
  /\ \E q \in {Adjust(paths, batch[next].path, checked[next])} : Deliver(q, "check")
  /\ next' = next + 1
  /\ UNCHANGED <<count, dead, k, prune, search, undecided, limits, limit, batch, checked>>

\* pool.wait() has returned; push_mimpossible() begins
Close ==
  /\ pc = "check" /\ next > Len(batch)
  /\ pc' = "prune" /\ prune' = 1
  /\ batch' = <<>> /\ checked' = <<>> /\ next' = 1
  /\ UNCHANGED <<count, dead, k, search, collected, index, done, max, bound, shown>>

-----------------------------------------------------------------------------
(* push_mimpossible(): along every edge, for every size, as long as the    *)
(* slowest path in front of its source is known to be impossible           *)

Prune ==
  LET x == Links[prune]
  IN  /\ pc = "prune" /\ prune <= Len(Links)
      /\ pq' = [pq EXCEPT ![x] = MMove(@, sq[x])]
      /\ sq' = [sq EXCEPT ![x] = EmptyMq(Sizes[x])]
      /\ e' = [to |-> x, k |-> NoSizes]
      /\ cls' = SetToSortSeq(Sizes[x], <)
      /\ got' = Empty
      /\ pc' = "sweep"
      /\ UNCHANGED <<count, dead, k, prune, rr, stack, size, collected, round>>

Available(s) == Pred(e.to.src) # <<>> /\ Least(pq, e.to.src, s) > 0

Sweep(x) ==
  /\ pc = "sweep" /\ cls # <<>> /\ Available(Head(cls))
  /\ LET s == Head(cls)
         p == Head(pq[x][s].paths)
     IN  /\ x = Longest(e.to.src, s)
         /\ IF IsUnsat(p, dead)
            THEN /\ pq' = [pq EXCEPT ![x][s] = Take(@)]
                 /\ got' = Move(got, Queue(Extend(p, x, dead)))
                 /\ UNCHANGED <<sq, cls>>
            ELSE Offer(e.to, s) /\ cls' = Tail(cls) /\ got' = Empty
  /\ Advance(e.to.src, x)
  /\ UNCHANGED <<count, dead, pc, k, prune, e, stack, size, collected, round>>

Swept ==
  /\ pc = "sweep"
  /\ IF cls = <<>>
     THEN /\ pc' = "prune" /\ prune' = prune + 1
          /\ UNCHANGED <<pq, sq, cls, got>>
     ELSE /\ ~Available(Head(cls))
          /\ Offer(e.to, Head(cls)) /\ cls' = Tail(cls) /\ got' = Empty
          /\ UNCHANGED <<pc, prune>>
  /\ UNCHANGED <<count, dead, k, rr, e, stack, size, collected, round>>

\* Larger rounds as long as there is memory for them; at the end, reset().
NextRound ==
  /\ pc = "prune" /\ prune > Len(Links)
  /\ \/ k < 20 * Parallelism /\ k' = k + k \div 2
     \/ UNCHANGED k
  /\ IF done
     THEN /\ pc' = "over"
          /\ pq' = [x \in DOMAIN pq |-> EmptyMq({})]
          /\ sq' = [x \in DOMAIN sq |-> EmptyMq({})]
          /\ rr' = [nd \in Nodes |-> 1]
     ELSE pc' = "pull" /\ UNCHANGED <<pq, sq, rr>>
  /\ UNCHANGED <<count, dead, prune, e, stack, cls, got, size, collected, round>>

-----------------------------------------------------------------------------

Finished == pc \in {"over", "crashed"} /\ UNCHANGED vars

Next ==
  \/ Begin \/ NextSize \/ Ascend
  \/ \E x \in ToSet(Pred(e.to.src)) : Descend(x)
  \/ \E x \in ToSet(Pred(e.to.src)) : Draw(x)
  \/ \E x \in ToSet(Pred(e.to.src)) : Sweep(x)
  \/ Pull \/ Pulled \/ Delegate \/ (\E i \in DOMAIN batch : Check(i)) \/ Callback \/ Close
  \/ Prune \/ Swept \/ NextRound
  \/ Finished

\* the tool runs, and the solver answers
Spec == Init /\ [][Next]_vars /\ WF_vars(Next)

-----------------------------------------------------------------------------
(* Properties                                                              *)

RealRate(via) == [cost |-> PathCost(via), size |-> RealMin(via)]
Paths == {v \in AllPaths : Feasible(v)}

\* When the search ends by itself, every path a packet takes was reported,
\* with the size of the smallest such packet.
Complete ==
  pc = "over" /\ index < count =>
    {shown[i] : i \in DOMAIN shown} = {[via |-> v, rate |-> RealRate(v)] : v \in Paths}

\* No path is reported twice, each counting for -c (src/README.md:608).
ReportedOnce ==
  \A i, j \in DOMAIN shown : shown[i].via = shown[j].via => i = j

\* The paths come sorted, the one with the lowest bit rate first
\* (src/README.md:580), though sizes change while others are checked.
LowestRateFirst ==
  \A i \in 1..Len(shown) - 1 : ~Less(shown[i].rate, shown[i + 1].rate)

\* The "max cycles/b" printed last bounds every path to come.
BoundHolds ==
  \A v \in Paths : (\A i \in DOMAIN shown : shown[i].via # v) => ~Less(bound, RealRate(v))

\* The search ends, unless it reads the front of an empty map and crashes.
Ends == <>(pc \in {"over", "crashed"})
=============================================================================
