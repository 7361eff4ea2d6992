--------------------------- MODULE PathChecksProofs ---------------------------
(***************************************************************************)
(* With the unsat-core strategy, whatever the program, the packets, the    *)
(* features and the number of workers: a path is refuted or marked only if *)
(* no packet takes it, and the complete paths are reported as what they    *)
(* are.                                                                    *)
(*                                                                         *)
(* The difficult part is the prefix that is marked.  The core may contain  *)
(* the lower bound of the packet size, which a check of a shorter prefix   *)
(* has raised; it does not hold for all packets that take a still shorter  *)
(* one.  But a packet was found then that takes the path up to there and   *)
(* has exactly this size: the core contains a branch from behind.          *)
(*                                                                         *)
(* Then, that nothing escapes: while no thread is inside mark_unsat,       *)
(* whatever grew out of a marked path is marked or impossible.  Without    *)
(* checks of branches the main thread extends while nobody marks; with     *)
(* checks of all branches, what is still extended is taken by some packet  *)
(* and never marked.                                                       *)
(*                                                                         *)
(* Last come the solvers, with both strategies: what is believed to be on  *)
(* the stack of z3 is what z3 has asserted.                                *)
(***************************************************************************)
EXTENDS PathChecks, ProofBasics

\* The operators below have the branches of the program as an argument.
Sides(bs)   == (DOMAIN bs) \X BOOLEAN
PathSet(bs) == Seq(Sides(bs))

\* what branch side b assumes
Asm(bs, b) == Assumption(bs[b[1]].test, IF b[2] THEN 1 ELSE 0, b)

\* the packets that take the first n branches of a path, and all of them
Upto(bs, path, n)  == {p \in Packets : \A k \in 1..n : IsTrue(Asm(bs, path[k]).e, p)}
Passing(bs, path)  == Upto(bs, path, Len(path))

\* where a path has got to, and one step further
To(bs, path) ==
  IF path = <<>> THEN 1
  ELSE LET b == Last(path) IN IF b[2] THEN bs[b[1]].T ELSE bs[b[1]].F
Ext(bs, path, side) == Append(path, <<To(bs, path), side>>)

\* The lower bound comes from a packet that takes a prefix of the path.
BoundOf(bs, path, min) ==
  \E m \in 0..Len(path) :
    /\ \A p \in Upto(bs, path, m) : min <= Length[p]
    /\ min = MIN_PACKETSIZE \/ \E p \in Upto(bs, path, m) : Length[p] = min

Assumed(bs) == {Asm(bs, b) : b \in Sides(bs)}
AllIds(bs)  == Sides(bs) \cup {<<0, FALSE>>, <<0, TRUE>>}

ExecType(bs) ==
  [assumptions : Seq(Assumed(bs)), min_value : Nat, max_value : {MTU},
   sat : {"unknown", "yes", "no"}, model : Packets \cup {Nothing},
   core : SUBSET AllIds(bs)]

\* the packets that fit what has been assumed
Fitting(st) ==
  {p \in Packets : \A n \in DOMAIN st.assumptions : IsTrue(st.assumptions[n].e, p)}

\* what z3 is told
Told(st) == ToSet(Bounds(st)) \cup ToSet(st.assumptions)

\* what a state of a path tells of it
Tells(bs, path, st) ==
  /\ \A n \in DOMAIN st.assumptions :
       \E k \in 1..Len(path) : st.assumptions[n] = Asm(bs, path[k])
  /\ st.sat # "no" => Fitting(st) \subseteq Passing(bs, path)
  /\ st.sat = "no" => Passing(bs, path) = {}
  /\ st.sat = "yes" => st.model \in Least(Passing(bs, path)) /\ st.min_value = Length[st.model]
  /\ BoundOf(bs, path, st.min_value)

NodeType(bs) ==
  [kind : {"possible", "impossible"}, st : ExecType(bs), marked : BOOLEAN,
   succ : SUBSET BOOLEAN]

TaskType(bs) ==
  [op : {"extend", "check"}, at : {"solve", "mark", "finish"}, path : PathSet(bs),
   becomes : {"possible", "impossible"}, st : ExecType(bs), stack : Seq(PathSet(bs))]

Fresh == [z : [scopes : {<<EmptyScope>>}, error : BOOLEAN], stack : {<<>>},
          minimize : {FALSE}, model : {Nothing}]

SolversOK == strategy = "unsat-core" /\ solver \in [Actors -> Fresh]

ProgramOK(bs) ==
  /\ 1 \in DOMAIN bs /\ End \notin DOMAIN bs
  /\ \A n \in DOMAIN bs : {bs[n].T, bs[n].F} \subseteq DOMAIN bs \cup {End}

\* a path in the tree is told of rightly, and what it grew out of is there
NodeOK(bs, path, node) ==
  /\ Tells(bs, path, node.st)
  /\ node.kind = "impossible" \/ node.marked => Passing(bs, path) = {}

TreeOK ==
  /\ DOMAIN tree \subseteq PathSet(Branches)
  /\ tree \in [DOMAIN tree -> NodeType(Branches)]
  /\ \A path \in DOMAIN tree : NodeOK(Branches, path, tree[path])

Linked ==
  \A path \in DOMAIN tree :
    /\ \A n \in 0..Len(path) : SubSeq(path, 1, n) \in DOMAIN tree
    /\ \A side \in tree[path].succ : Ext(Branches, path, side) \in DOMAIN tree

\* What can be extended is not refuted, and was not extended that way.
TodoOK ==
  /\ todo \subseteq (DOMAIN tree) \X BOOLEAN
  /\ \A x \in todo : /\ To(Branches, x[1]) \in DOMAIN Branches
                     /\ tree[x[1]].st.sat # "no"
                     /\ Ext(Branches, x[1], x[2]) \notin DOMAIN tree

ReadyOK == ready \subseteq {path \in DOMAIN tree : To(Branches, path) = End}

TaskOK(bs, t) ==
  /\ Tells(bs, t.path, t.st)
  /\ t.becomes = "impossible" => Passing(bs, t.path) = {}
  /\ t.becomes = "possible" => t.st.sat # "no"
  /\ t.at = "solve" => t.becomes = "possible" /\ t.st.assumptions # <<>>
  /\ t.at = "mark" => t.becomes = "impossible"
  /\ t.op = "check" /\ t.at = "finish" /\ t.becomes = "possible" => Passing(bs, t.path) # {}

Busy(a)     == task[a].at # "idle"
Extender(a) == Busy(a) /\ task[a].op = "extend"
Checker(a)  == Busy(a) /\ task[a].op = "check"

TasksOK ==
  /\ task \in [Actors -> {Idle} \cup TaskType(Branches)]
  /\ \A a \in Actors : Busy(a) => TaskOK(Branches, task[a])

\* Only paths that no packet takes are waiting to be marked.
Doomed == {path \in DOMAIN tree : Passing(Branches, path) = {}}
StacksOK == \A a \in Actors : Busy(a) => task[a].stack \in Seq(Doomed)

\* No path is built twice, and a checked one is complete.
New(path) ==
  /\ path # <<>> /\ path \notin DOMAIN tree /\ Front(path) \in DOMAIN tree
  /\ path = Ext(Branches, Front(path), Last(path)[2])
Apart ==
  /\ \A a \in Actors : Extender(a) =>
       /\ New(task[a].path)
       /\ \A x \in todo : Ext(Branches, x[1], x[2]) # task[a].path
       /\ \A b \in Actors \ {a} : Extender(b) => task[b].path # task[a].path
  /\ \A a \in Actors : Checker(a) =>
       task[a].path \in DOMAIN tree /\ To(Branches, task[a].path) = End

VerdictsOK ==
  \A path \in DOMAIN verdict :
    path \in PathSet(Branches) /\ ((verdict[path] = "possible") = (Passing(Branches, path) # {}))

PCInv ==
  /\ SolversOK /\ ProgramOK(Branches) /\ TreeOK /\ Linked /\ TodoOK /\ ReadyOK
  /\ TasksOK /\ StacksOK /\ Apart /\ VerdictsOK

-----------------------------------------------------------------------------
(* Paths                                                                   *)

\* A longer prefix is taken by fewer packets.
LEMMA UptoShrinks ==
  ASSUME NEW bs, NEW path \in PathSet(bs), NEW m \in 0..Len(path), NEW n \in m..Len(path)
  PROVE  Upto(bs, path, n) \subseteq Upto(bs, path, m)
BY DEF Upto, PathSet

\* The packets that take a prefix
LEMMA PassingPrefix ==
  ASSUME NEW bs, NEW path \in PathSet(bs), NEW n \in 1..Len(path)
  PROVE  /\ SubSeq(path, 1, n) \in PathSet(bs)
         /\ Passing(bs, SubSeq(path, 1, n)) = Upto(bs, path, n)
<1>1. /\ SubSeq(path, 1, n) \in PathSet(bs) /\ Len(SubSeq(path, 1, n)) = n
      /\ \A k \in 1..n : SubSeq(path, 1, n)[k] = path[k]
  BY Beginning DEF PathSet
<1>2. QED
  BY <1>1 DEF Passing, Upto

\* Of the packets that take a path, those that take the next side go on.
LEMMA PassingLonger ==
  ASSUME NEW bs, NEW path \in PathSet(bs), NEW b \in Sides(bs)
  PROVE  /\ Append(path, b) \in PathSet(bs)
         /\ Passing(bs, Append(path, b)) = {p \in Passing(bs, path) : IsTrue(Asm(bs, b).e, p)}
         /\ \A m \in 0..Len(path) : Upto(bs, Append(path, b), m) = Upto(bs, path, m)
<1> DEFINE child == Append(path, b)
<1>1. /\ child \in PathSet(bs) /\ Len(child) = Len(path) + 1 /\ Len(path) \in Nat
      /\ \A n \in 1..Len(path) : child[n] = path[n]
      /\ child[Len(path) + 1] = b
  BY Longer DEF PathSet
<1> HIDE DEF child
<1>2. \A m \in 0..Len(path) : Upto(bs, child, m) = Upto(bs, path, m)
  BY <1>1 DEF Upto
<1>3. Upto(bs, child, Len(child)) = {p \in Upto(bs, path, Len(path)) : IsTrue(Asm(bs, b).e, p)}
  BY <1>1 DEF Upto
<1>4. QED
  BY <1>1, <1>2, <1>3 DEF child, Passing

\* The operators of the module, with the branches of its program
LEMMA InModule ==
  /\ \A path : Target(path) = To(Branches, path)
  /\ \A path, side : Extension(path, side) = Ext(Branches, path, side)
  /\ \A path \in PathSet(Branches) : Takes(path) = Passing(Branches, path)
  /\ \A path \in PathSet(Branches), b \in Sides(Branches) :
       AssumptionOf(Append(path, b)) = Asm(Branches, b)
<1>1. \A path : Target(path) = To(Branches, path)
  BY DEF Target, To
<1>2. \A path, side : Extension(path, side) = Ext(Branches, path, side)
  BY <1>1 DEF Extension, Ext
<1>3. ASSUME NEW s \in PathSet(Branches) PROVE Takes(s) = Passing(Branches, s)
  <2>1. \A n \in 1..Len(s) : AssumptionOf(SubSeq(s, 1, n)) = Asm(Branches, s[n])
    BY Beginning DEF PathSet, AssumptionOf, Asm
  <2>2. DOMAIN s = 1..Len(s)
    BY DEF PathSet
  <2>3. {AssumptionOf(SubSeq(s, 1, n)).e : n \in DOMAIN s} = {Asm(Branches, s[n]).e : n \in 1..Len(s)}
    BY <2>1, <2>2
  <2>4. QED
    BY <2>3 DEF Takes, Fits, Passing, Upto
<1>4. ASSUME NEW path \in PathSet(Branches), NEW b \in Sides(Branches)
      PROVE  AssumptionOf(Append(path, b)) = Asm(Branches, b)
  <2>1. Last(Append(path, b)) = b
    BY Longer DEF PathSet
  <2>2. QED
    BY <2>1 DEF AssumptionOf, Asm
<1>5. QED
  BY <1>1, <1>2, <1>3, <1>4

-----------------------------------------------------------------------------
(* What a path's state is asked                                            *)

\* A side of a branch
LEMMA Side ==
  ASSUME NEW bs, NEW b \in Sides(bs)
  PROVE  /\ Asm(bs, b) \in Assumed(bs) /\ Asm(bs, b).id = b
         /\ Asm(bs, b).e.of = bs[b[1]].test /\ Asm(bs, b).e.arg \in {0, 1}
BY DEF Asm, Assumption, Assumed

\* All packets that take a path fit what was assumed.
LEMMA PassingFits ==
  ASSUME NEW bs, NEW path \in PathSet(bs), NEW st \in ExecType(bs), Tells(bs, path, st)
  PROVE  Passing(bs, path) \subseteq Fitting(st)
<1>1. \A n \in DOMAIN st.assumptions : \E k \in 1..Len(path) : st.assumptions[n] = Asm(bs, path[k])
  BY DEF Tells
<1>2. QED
  BY <1>1 DEF Passing, Upto, Fitting

\* Assuming a side of a branch: the new state tells of the longer path.
LEMMA Applies ==
  ASSUME NEW bs, NEW path \in PathSet(bs), NEW b \in Sides(bs),
         NEW st \in ExecType(bs), Tells(bs, path, st), st.sat # "no"
  PROVE  /\ Apply(st, Asm(bs, b)) \in ExecType(bs)
         /\ Tells(bs, Append(path, b), Apply(st, Asm(bs, b)))
<1> DEFINE a     == Asm(bs, b)
           child == Append(path, b)
           open  == [st EXCEPT !.sat = "unknown", !.model = Nothing]
           more  == [open EXCEPT !.assumptions = Append(@, a)]
           never == [open EXCEPT !.sat = "no", !.core = {a.id}]
<1>a. a \in Assumed(bs) /\ a.id = b /\ a.e.arg \in {0, 1}
  BY Side
<1>b. /\ child \in PathSet(bs)
      /\ Passing(bs, child) = {p \in Passing(bs, path) : IsTrue(a.e, p)}
      /\ \A m \in 0..Len(path) : Upto(bs, child, m) = Upto(bs, path, m)
  BY PassingLonger
<1>c. /\ Len(child) = Len(path) + 1 /\ Len(path) \in Nat /\ child[Len(path) + 1] = b
      /\ \A n \in 1..Len(path) : child[n] = path[n]
  BY Longer DEF PathSet
<1>d. /\ \A n \in DOMAIN st.assumptions :
           \E k \in 1..Len(path) : st.assumptions[n] = Asm(bs, path[k])
      /\ Fitting(st) \subseteq Passing(bs, path)
      /\ BoundOf(bs, path, st.min_value)
  BY DEF Tells
<1>e. \A n \in DOMAIN st.assumptions :
        \E k \in 1..Len(child) : st.assumptions[n] = Asm(bs, child[k])
  BY <1>c, <1>d
<1>f. BoundOf(bs, child, st.min_value)
  BY <1>b, <1>c, <1>d DEF BoundOf
<1>g. /\ open \in ExecType(bs) /\ open.sat = "unknown"
      /\ open.assumptions = st.assumptions /\ open.min_value = st.min_value
  BY DEF ExecType
<1>h. Fitting(open) = Fitting(st)
  BY <1>g DEF Fitting
<1>i. Fitting(st) \cap {p \in Packets : IsTrue(a.e, p)} \subseteq Passing(bs, child)
  BY <1>b, <1>d DEF Fitting
<1> HIDE DEF a, child
<1>1. CASE a.e.of \in Known /\ a.e.arg = 1
  <2>1. Apply(st, a) = open
    BY <1>1 DEF Apply
  <2>2. \A p \in Packets : IsTrue(a.e, p)
    BY <1>1, KnownAssumption DEF IsTrue
  <2>3. Fitting(open) \subseteq Passing(bs, child)
    BY <1>h, <1>i, <2>2 DEF Fitting
  <2>4. Tells(bs, child, open)
    BY <1>e, <1>f, <1>g, <2>3 DEF Tells
  <2>5. QED
    BY <1>g, <2>1, <2>4 DEF a, child
<1>2. CASE a.e.of \in Known /\ a.e.arg # 1
  <2>1. Apply(st, a) = never
    BY <1>2 DEF Apply
  <2>2. \A p \in Packets : ~IsTrue(a.e, p)
    BY <1>2, KnownAssumption DEF IsTrue
  <2>3. Passing(bs, child) = {}
    BY <1>b, <2>2 DEF Passing, Upto
  <2>4. /\ never \in ExecType(bs) /\ never.sat = "no"
        /\ never.assumptions = st.assumptions /\ never.min_value = st.min_value
    BY <1>a DEF ExecType, AllIds
  <2>5. Tells(bs, child, never)
    BY <1>e, <1>f, <2>3, <2>4 DEF Tells
  <2>6. QED
    BY <2>1, <2>4, <2>5 DEF a, child
<1>3. CASE a.e.of \notin Known /\ \E n \in DOMAIN st.assumptions : st.assumptions[n].e = a.e
  <2>1. Apply(st, a) = open
    BY <1>3 DEF Apply
  <2>2. \A p \in Fitting(st) : IsTrue(a.e, p)
    BY <1>3 DEF Fitting
  <2>3. Fitting(open) \subseteq Passing(bs, child)
    BY <1>h, <1>i, <2>2 DEF Fitting
  <2>4. Tells(bs, child, open)
    BY <1>e, <1>f, <1>g, <2>3 DEF Tells
  <2>5. QED
    BY <1>g, <2>1, <2>4 DEF a, child
<1>4. CASE a.e.of \notin Known /\ ~\E n \in DOMAIN st.assumptions : st.assumptions[n].e = a.e
  <2>1. Apply(st, a) = more
    BY <1>4 DEF Apply
  <2>2. st.assumptions \in Seq(Assumed(bs))
    BY DEF ExecType
  <2>3. /\ Append(st.assumptions, a) \in Seq(Assumed(bs))
        /\ DOMAIN Append(st.assumptions, a) = (DOMAIN st.assumptions) \cup {Len(st.assumptions) + 1}
        /\ \A n \in DOMAIN st.assumptions : Append(st.assumptions, a)[n] = st.assumptions[n]
        /\ Append(st.assumptions, a)[Len(st.assumptions) + 1] = a
    BY <1>a, <2>2
  <2>4. /\ more \in ExecType(bs) /\ more.sat = "unknown"
        /\ more.assumptions = Append(st.assumptions, a) /\ more.min_value = st.min_value
    BY <2>3 DEF ExecType
  <2>5. Fitting(more) = Fitting(st) \cap {p \in Packets : IsTrue(a.e, p)}
    BY <2>3, <2>4 DEF Fitting
  <2>6. \A n \in DOMAIN more.assumptions :
          \E k \in 1..Len(child) : more.assumptions[n] = Asm(bs, child[k])
    BY <1>c, <1>e, <2>3, <2>4 DEF a
  <2>7. Tells(bs, child, more)
    BY <1>f, <1>i, <2>4, <2>5, <2>6 DEF Tells
  <2>8. QED
    BY <2>1, <2>4, <2>7 DEF a, child
<1>5. QED
  BY <1>1, <1>2, <1>3, <1>4

\* The only element of a sequence is replaced.
LEMMA Only ==
  ASSUME NEW x, NEW y
  PROVE  Front(<<x>>) \o <<y>> = <<y>> /\ Last(<<x>>) = x
<1>1. Front(<<x>>) = <<>>
  BY DEF Front
<1>2. <<>> \o <<y>> = <<y>>
  OBVIOUS
<1>3. Last(<<x>>) = x
  BY DEF Last
<1>4. QED
  BY <1>1, <1>2, <1>3

\* After a reset z3 holds what it is told, and the next reset forgets it.
LEMMA ToldAfresh ==
  ASSUME NEW s \in Fresh, NEW names, NEW as, NEW z,
         z = AssertZ3(DeclareZ3(ResetZ3(s.z), names), as)
  PROVE  Asserted(z) = as /\ [s EXCEPT !.z = ResetZ3(z)] \in Fresh
<1> DEFINE r == ResetZ3(s.z)
           d == DeclareZ3(r, names)
           Z == [scopes : {<<EmptyScope>>}, error : BOOLEAN]
<1>1. s.z \in Z
  BY DEF Fresh
<1>2. r \in Z /\ r.scopes = <<EmptyScope>>
  BY <1>1 DEF ResetZ3
<1> HIDE DEF r
<1> DEFINE declared == [decls |-> EmptyScope.decls \cup names, holds |-> EmptyScope.holds]
           told     == [decls |-> declared.decls, holds |-> declared.holds \cup as]
<1>3. Last(r.scopes) = EmptyScope /\ Front(r.scopes) \o <<declared>> = <<declared>>
  BY <1>2, Only
<1>4. d \in [scopes : {<<declared>>}, error : BOOLEAN] /\ d.scopes = <<declared>>
  <2> DEFINE failed == r.error \/ names \cap Declared(r) # {}
  <2>1. d = [scopes |-> <<declared>>, error |-> failed]
    BY <1>3 DEF DeclareZ3
  <2>2. failed \in BOOLEAN
    BY <1>2
  <2> HIDE DEF failed, declared, d
  <2>3. QED
    BY <1>2, <2>1, <2>2
<1> HIDE DEF d
<1>5. declared \in [decls : {declared.decls}, holds : {{}}] /\ declared.holds = {}
  BY DEF EmptyScope
<1> HIDE DEF declared
<1>6. Last(d.scopes) = declared /\ Front(d.scopes) \o <<told>> = <<told>>
  BY <1>4, Only
<1>7. z \in [scopes : {<<told>>}, error : BOOLEAN] /\ z.scopes = <<told>>
  <2>1. z = AssertZ3(d, as)
    BY DEF d, r
  <2> DEFINE failed == d.error \/ \E a \in as : ~(SymbolsOf(a.e) \subseteq Declared(d))
  <2>2. z = [scopes |-> <<told>>, error |-> failed]
    BY <1>6, <2>1 DEF AssertZ3
  <2>3. failed \in BOOLEAN
    BY <1>4
  <2> HIDE DEF failed, told
  <2>4. QED
    BY <1>4, <2>2, <2>3
<1>8. told.holds = as
  BY <1>5
<1> HIDE DEF told
<1>9. Asserted(z) = as
  <2>1. DOMAIN z.scopes = {1} /\ z.scopes[1] = told
    BY <1>7
  <2>2. {z.scopes[n].holds : n \in DOMAIN z.scopes} = {as}
    BY <1>8, <2>1
  <2>3. QED
    BY <2>2 DEF Asserted
<1>10. ResetZ3(z) \in Z
  BY <1>7 DEF ResetZ3
<1>11. [s EXCEPT !.z = ResetZ3(z)] \in Fresh
  BY <1>10 DEF Fresh
<1>12. QED
  BY <1>9, <1>11

\* What the strategy asks and what it makes of the answer
LEMMA Answered ==
  ASSUME NEW s \in Fresh, NEW st, NEW prefixes \in BOOLEAN,
         NEW answer \in UnsatCore(s, st, prefixes)
  PROVE  /\ answer.s \in Fresh /\ answer.sat \in BOOLEAN
         /\ answer.sat => answer.model \in Least(Fits(Terms(Told(st))))
         /\ ~answer.sat => Fits(Terms(Told(st))) = {}
         /\ ~answer.sat /\ prefixes =>
              \E c \in SUBSET Told(st) : Fits(Terms(c)) = {} /\ answer.core = Ids(c)
         /\ ~answer.sat /\ ~prefixes => answer.core = {Last(st.assumptions).id}
<1> DEFINE as    == Told(st)
           names == {"packetsize"} \cup UNION {SymbolsOf(a.e) : a \in as}
           z     == AssertZ3(DeclareZ3(ResetZ3(s.z), names), as)
           sn    == [s EXCEPT !.z = ResetZ3(z)]
<1>1. Asserted(z) = as /\ sn \in Fresh
  <2>1. z = AssertZ3(DeclareZ3(ResetZ3(s.z), names), as)
    OBVIOUS
  <2> HIDE DEF z, names
  <2>2. QED
    BY <2>1, ToldAfresh
<1>2. Possible(z) = Fits(Terms(as))
  BY <1>1 DEF Possible
<1>3. UnsatCore(s, st, prefixes) =
        IF Possible(z) # {} THEN {Sat(sn, m) : m \in Least(Possible(z))}
        ELSE IF prefixes THEN {Unsat(sn, Ids(c)) : c \in Cores(z)}
        ELSE {Unsat(sn, {Last(st.assumptions).id})}
  BY DEF UnsatCore, Told
<1>4. \A c \in Cores(z) : c \in SUBSET as /\ Fits(Terms(c)) = {}
  BY <1>1 DEF Cores
<1> HIDE DEF z, sn
<1>5. CASE Possible(z) # {}
  <2>1. PICK m \in Least(Possible(z)) : answer = Sat(sn, m)
    BY <1>3, <1>5
  <2>2. answer.s = sn /\ answer.sat = TRUE /\ answer.model = m
    BY <2>1 DEF Sat
  <2>3. QED
    BY <1>1, <1>2, <2>1, <2>2
<1>6. CASE Possible(z) = {} /\ prefixes
  <2>1. PICK c \in Cores(z) : answer = Unsat(sn, Ids(c))
    BY <1>3, <1>6
  <2>2. answer.s = sn /\ answer.sat = FALSE /\ answer.core = Ids(c)
    BY <2>1 DEF Unsat
  <2>3. QED
    BY <1>1, <1>2, <1>4, <1>6, <2>2
<1>7. CASE Possible(z) = {} /\ ~prefixes
  <2>1. answer = Unsat(sn, {Last(st.assumptions).id})
    BY <1>3, <1>7
  <2>2. answer.s = sn /\ answer.sat = FALSE /\ answer.core = {Last(st.assumptions).id}
    BY <2>1 DEF Unsat
  <2>3. QED
    BY <1>1, <1>2, <1>7, <2>2
<1>8. QED
  BY <1>5, <1>6, <1>7

\* What z3 is told besides the branches: the bounds of the packet size
LEMMA BoundsAre ==
  ASSUME NEW bs, NEW st \in ExecType(bs)
  PROVE  \E ge, le :
           /\ ToSet(Bounds(st)) = {ge, le}
           /\ ge.id = <<0, FALSE>> /\ le.id = <<0, TRUE>>
           /\ \A p \in Packets : IsTrue(ge.e, p) = (Length[p] >= st.min_value)
           /\ \A p \in Packets : IsTrue(le.e, p)
<1> DEFINE ge == Assumption("ge", st.min_value, <<0, FALSE>>)
           le == Assumption("le", st.max_value, <<0, TRUE>>)
<1>1. /\ ge.id = <<0, FALSE>> /\ le.id = <<0, TRUE>>
      /\ ge.e.of = "ge" /\ ge.e.arg = st.min_value /\ le.e.of = "le" /\ le.e.arg = MTU
  BY DEF Assumption, ExecType
<1>2. ToSet(Bounds(st)) = {ge, le}
  <2>1. Bounds(st) = <<ge, le>>
    BY DEF Bounds
  <2> HIDE DEF ge, le
  <2>2. DOMAIN <<ge, le>> = {1, 2} /\ <<ge, le>>[1] = ge /\ <<ge, le>>[2] = le
    OBVIOUS
  <2>3. QED
    BY <2>1, <2>2 DEF ToSet
<1> HIDE DEF ge, le
<1>3. \A p \in Packets : IsTrue(ge.e, p) = (Length[p] >= st.min_value)
  BY <1>1 DEF IsTrue
<1>4. \A p \in Packets : IsTrue(le.e, p)
  BY <1>1, SizesAssumption DEF IsTrue
<1>5. QED
  BY <1>1, <1>2, <1>3, <1>4

\* The packets that fit what z3 is told are those that take the path.
LEMMA AsksRight ==
  ASSUME NEW bs, NEW path \in PathSet(bs), NEW st \in ExecType(bs),
         Tells(bs, path, st), st.sat # "no"
  PROVE  Fits(Terms(Told(st))) = Passing(bs, path)
<1>1. PICK ge, le : /\ ToSet(Bounds(st)) = {ge, le}
                    /\ \A p \in Packets : IsTrue(ge.e, p) = (Length[p] >= st.min_value)
                    /\ \A p \in Packets : IsTrue(le.e, p)
  BY BoundsAre
<1>2. ToSet(st.assumptions) = {st.assumptions[n] : n \in DOMAIN st.assumptions}
  BY DEF ToSet
<1>3. \A p \in Fits(Terms(Told(st))) : p \in Fitting(st)
  BY <1>2 DEF Fits, Terms, Fitting, Told
<1>4. Fitting(st) \subseteq Passing(bs, path)
  BY DEF Tells
<1>5. Passing(bs, path) \subseteq Fitting(st)
  BY PassingFits
<1>6. ASSUME NEW p \in Passing(bs, path) PROVE Length[p] >= st.min_value
  <2>1. PICK m \in 0..Len(path) : \A q \in Upto(bs, path, m) : st.min_value <= Length[q]
    BY DEF Tells, BoundOf
  <2>2. Len(path) \in m..Len(path)
    BY DEF PathSet
  <2>3. Upto(bs, path, Len(path)) \subseteq Upto(bs, path, m)
    BY <2>2, UptoShrinks
  <2>4. st.min_value <= Length[p]
    BY <2>1, <2>3 DEF Passing
  <2>5. st.min_value \in Nat /\ Length[p] \in Nat
    BY PacketsAssumption DEF ExecType, Passing, Upto
  <2>6. QED
    BY <2>4, <2>5
<1>7. Passing(bs, path) \subseteq Packets
  BY DEF Passing, Upto
<1>8. \A p \in Passing(bs, path) : \A a \in Told(st) : IsTrue(a.e, p)
  BY <1>1, <1>2, <1>5, <1>6, <1>7 DEF Fitting, Told
<1>9. QED
  BY <1>3, <1>4, <1>7, <1>8 DEF Fits, Terms

\* No packet takes the prefix that ends with the last branch in the core.
LEMMA BlamesRight ==
  ASSUME NEW bs, NEW path \in PathSet(bs), NEW st \in ExecType(bs), Tells(bs, path, st),
         NEW c \in SUBSET Told(st), Fits(Terms(c)) = {},
         NEW n, n = Blamed(path, Ids(c)), n # 0
  PROVE  n \in 1..Len(path) /\ Upto(bs, path, n) = {}
<1> DEFINE in == {k \in DOMAIN path : path[k] \in Ids(c)}
<1>1. in \subseteq 1..Len(path) /\ Len(path) \in Nat /\ in # {}
  BY DEF PathSet, Blamed
<1>2. \E m \in in : \A k \in in : k <= m
  BY <1>1, LastOne
<1>3. n \in in /\ \A k \in in : k <= n
  BY <1>1, <1>2 DEF Blamed
<1>4. n \in 1..Len(path)
  BY <1>1, <1>3
<1> HIDE DEF in
<1>5. PICK ge, le : /\ ToSet(Bounds(st)) = {ge, le}
                    /\ \A p \in Packets : IsTrue(ge.e, p) = (Length[p] >= st.min_value)
                    /\ \A p \in Packets : IsTrue(le.e, p)
  BY BoundsAre
<1>6. ASSUME NEW a \in c, a # ge, a # le, NEW p \in Upto(bs, path, n)
      PROVE  IsTrue(a.e, p)
  <2>1. a \in ToSet(st.assumptions)
    BY <1>5, <1>6 DEF Told
  <2>2. PICK i \in DOMAIN st.assumptions : a = st.assumptions[i]
    BY <2>1 DEF ToSet
  <2>3. PICK k \in 1..Len(path) : a = Asm(bs, path[k])
    BY <2>2 DEF Tells
  <2>4. path[k] \in Sides(bs)
    BY ElementIn DEF PathSet
  <2>5. a.id = path[k]
    BY <2>3, <2>4, Side
  <2>6. k \in in
    BY <2>5 DEF in, Ids, PathSet
  <2>7. k \in 1..n
    BY <1>3, <1>4, <2>6
  <2>8. QED
    BY <2>3, <2>7 DEF Upto
<1>7. ASSUME NEW p \in Upto(bs, path, n), Length[p] >= st.min_value
      PROVE  FALSE
  <2>1. p \in Packets
    BY DEF Upto
  <2>2. \A a \in c : IsTrue(a.e, p)
    BY <1>5, <1>6, <1>7, <2>1
  <2>3. p \in Fits(Terms(c))
    BY <2>1, <2>2 DEF Fits, Terms
  <2>4. QED
    BY <2>3
<1>8. PICK m \in 0..Len(path) :
        /\ \A p \in Upto(bs, path, m) : st.min_value <= Length[p]
        /\ st.min_value = MIN_PACKETSIZE \/ \E p \in Upto(bs, path, m) : Length[p] = st.min_value
  BY DEF Tells, BoundOf
<1>9. st.min_value \in Nat /\ \A p \in Packets : Length[p] \in Nat /\ Length[p] >= MIN_PACKETSIZE
  BY PacketsAssumption, SizesAssumption DEF ExecType
<1>10. CASE m <= n
  <2>1. Upto(bs, path, n) \subseteq Upto(bs, path, m)
    BY <1>4, <1>10, UptoShrinks
  <2>2. \A p \in Upto(bs, path, n) : Length[p] >= st.min_value
    BY <1>8, <1>9, <2>1 DEF Upto
  <2>3. QED
    BY <1>4, <1>7, <2>2
<1>11. CASE n < m /\ st.min_value = MIN_PACKETSIZE
  <2>1. \A p \in Upto(bs, path, n) : Length[p] >= st.min_value
    BY <1>9, <1>11 DEF Upto
  <2>2. QED
    BY <1>4, <1>7, <2>1
<1>12. CASE n < m /\ st.min_value # MIN_PACKETSIZE
  <2>1. PICK p \in Upto(bs, path, m) : Length[p] = st.min_value
    BY <1>8, <1>12
  <2>2. Upto(bs, path, m) \subseteq Upto(bs, path, n)
    BY <1>4, <1>12, UptoShrinks
  <2>3. p \in Upto(bs, path, n) /\ Length[p] >= st.min_value
    BY <1>9, <2>1, <2>2
  <2>4. QED
    BY <1>7, <2>3
<1>13. QED
  BY <1>4, <1>10, <1>11, <1>12

\* What becomes of a state that is checked: the answer is right, what the
\* state tells remains right, and so is the blame.
LEMMA Checks ==
  ASSUME NEW bs, NEW path \in PathSet(bs), NEW st \in ExecType(bs),
         Tells(bs, path, st), st.sat # "no", st.assumptions # <<>>,
         NEW s \in Fresh, NEW prefixes \in BOOLEAN,
         NEW answer \in UnsatCore(s, st, prefixes)
  PROVE  /\ answer.s \in Fresh /\ answer.sat \in BOOLEAN
         /\ answer.sat = (Passing(bs, path) # {})
         /\ CheckSat(st, answer) \in ExecType(bs)
         /\ CheckSat(st, answer).sat = IF answer.sat THEN "yes" ELSE "no"
         /\ Tells(bs, path, CheckSat(st, answer))
         /\ ~answer.sat /\ prefixes /\ Blamed(path, answer.core) # 0 =>
              /\ Blamed(path, answer.core) \in 1..Len(path)
              /\ Upto(bs, path, Blamed(path, answer.core)) = {}
<1>1. /\ answer.s \in Fresh /\ answer.sat \in BOOLEAN
      /\ answer.sat => answer.model \in Least(Fits(Terms(Told(st))))
      /\ ~answer.sat => Fits(Terms(Told(st))) = {}
      /\ ~answer.sat /\ prefixes =>
           \E c \in SUBSET Told(st) : Fits(Terms(c)) = {} /\ answer.core = Ids(c)
      /\ ~answer.sat /\ ~prefixes => answer.core = {Last(st.assumptions).id}
  BY Answered
<1>2. Fits(Terms(Told(st))) = Passing(bs, path)
  BY AsksRight
<1>3. ~answer.sat /\ prefixes /\ Blamed(path, answer.core) # 0 =>
        /\ Blamed(path, answer.core) \in 1..Len(path)
        /\ Upto(bs, path, Blamed(path, answer.core)) = {}
  BY <1>1, BlamesRight
<1>4. \A a \in Told(st) : a.id \in AllIds(bs)
  <2>1. \A a \in ToSet(Bounds(st)) : a.id \in AllIds(bs)
    BY BoundsAre DEF AllIds
  <2>2. ASSUME NEW a \in Assumed(bs) PROVE a.id \in AllIds(bs)
    <3>1. PICK b \in Sides(bs) : a = Asm(bs, b)
      BY DEF Assumed
    <3>2. a.id = b
      BY <3>1 DEF Asm, Assumption
    <3>3. QED
      BY <3>2 DEF AllIds
  <2>3. \A a \in ToSet(st.assumptions) : a \in Assumed(bs)
    BY ElementIn DEF ToSet, ExecType
  <2>4. QED
    BY <2>1, <2>2, <2>3 DEF Told
<1>5. Last(st.assumptions) \in Told(st)
  <2>1. st.assumptions \in Seq(Assumed(bs))
    BY DEF ExecType
  <2>2. Len(st.assumptions) \in Nat \ {0}
        /\ Last(st.assumptions) = st.assumptions[Len(st.assumptions)]
    BY <2>1, Shorter
  <2>3. Len(st.assumptions) \in DOMAIN st.assumptions
    BY <2>1, <2>2
  <2>4. QED
    BY <2>2, <2>3 DEF ToSet, Told
<1>6. ~answer.sat => answer.core \in SUBSET AllIds(bs)
  BY <1>1, <1>4, <1>5 DEF Ids
<1>7. /\ \A n \in DOMAIN st.assumptions :
           \E k \in 1..Len(path) : st.assumptions[n] = Asm(bs, path[k])
      /\ Fitting(st) \subseteq Passing(bs, path)
      /\ BoundOf(bs, path, st.min_value)
  BY DEF Tells
<1>8. CASE answer.sat
  <2> DEFINE min == IF Length[answer.model] > st.min_value THEN Length[answer.model] ELSE st.min_value
             new == [st EXCEPT !.sat = "yes", !.model = answer.model, !.core = {}, !.min_value = min]
  <2>1. CheckSat(st, answer) = new
    BY <1>8 DEF CheckSat
  <2>2. answer.model \in Least(Passing(bs, path))
    BY <1>1, <1>2, <1>8
  <2>3. answer.model \in Packets /\ answer.model \in Passing(bs, path)
        /\ \A p \in Passing(bs, path) : Length[answer.model] <= Length[p]
    BY <2>2 DEF Least, Passing, Upto
  <2>4. Length[answer.model] \in Nat /\ st.min_value \in Nat
    BY <2>3, PacketsAssumption DEF ExecType
  <2>5. Length[answer.model] >= st.min_value
    <3>1. PICK m \in 0..Len(path) : \A q \in Upto(bs, path, m) : st.min_value <= Length[q]
      BY <1>7 DEF BoundOf
    <3>2. Len(path) \in m..Len(path)
      BY DEF PathSet
    <3>3. Upto(bs, path, Len(path)) \subseteq Upto(bs, path, m)
      BY <3>2, UptoShrinks
    <3>4. QED
      BY <2>3, <2>4, <3>1, <3>3 DEF Passing
  <2>6. min = Length[answer.model]
    BY <2>4, <2>5
  <2>7. BoundOf(bs, path, min)
    <3>1. Len(path) \in 0..Len(path)
      BY DEF PathSet
    <3>2. QED
      BY <2>3, <2>6, <3>1 DEF BoundOf, Passing
  <2> HIDE DEF min
  <2>8. /\ new \in ExecType(bs) /\ new.sat = "yes" /\ new.model = answer.model
        /\ new.min_value = min /\ new.assumptions = st.assumptions
    BY <2>3, <2>4, <2>6 DEF ExecType
  <2> HIDE DEF new
  <2>9. Fitting(new) = Fitting(st)
    BY <2>8 DEF Fitting
  <2>10. Tells(bs, path, new)
    BY <1>7, <2>2, <2>6, <2>7, <2>8, <2>9 DEF Tells
  <2>11. QED
    BY <1>1, <1>3, <1>8, <2>1, <2>3, <2>8, <2>10
<1>9. CASE ~answer.sat
  <2> DEFINE new == [st EXCEPT !.sat = "no", !.model = Nothing, !.core = answer.core]
  <2>1. CheckSat(st, answer) = new
    BY <1>9 DEF CheckSat
  <2>2. /\ new \in ExecType(bs) /\ new.sat = "no"
        /\ new.min_value = st.min_value /\ new.assumptions = st.assumptions
    BY <1>6, <1>9 DEF ExecType
  <2> HIDE DEF new
  <2>3. Passing(bs, path) = {}
    BY <1>1, <1>2, <1>9
  <2>4. Tells(bs, path, new)
    BY <1>7, <2>2, <2>3 DEF Tells
  <2>5. QED
    BY <1>1, <1>3, <1>9, <2>1, <2>2, <2>3, <2>4
<1>10. QED
  BY <1>1, <1>8, <1>9

-----------------------------------------------------------------------------
(* What a step leaves as it is                                             *)

LEMMA IdleIs ==
  /\ Idle.at = "idle"
  /\ \A bs : \A t \in TaskType(bs) : t.at # "idle" /\ t.op \in {"extend", "check"}
BY DEF Idle, TaskType

\* Two extensions differ in the path or in the side.
LEMMA ExtDiffers ==
  ASSUME NEW bs, NEW p \in PathSet(bs), NEW q \in PathSet(bs), NEW i \in BOOLEAN, NEW j \in BOOLEAN,
         To(bs, p) \in DOMAIN bs, To(bs, q) \in DOMAIN bs, Ext(bs, p, i) = Ext(bs, q, j)
  PROVE  p = q /\ i = j
<1>1. <<To(bs, p), i>> \in Sides(bs) /\ <<To(bs, q), j>> \in Sides(bs)
  BY DEF Sides
<1>2. Front(Ext(bs, p, i)) = p /\ Last(Ext(bs, p, i)) = <<To(bs, p), i>>
  BY <1>1, Longer, SMTT(30) DEF PathSet, Ext
<1>3. Front(Ext(bs, q, j)) = q /\ Last(Ext(bs, q, j)) = <<To(bs, q), j>>
  BY <1>1, Longer DEF PathSet, Ext
<1>4. QED
  BY <1>2, <1>3

\* One thread goes on, with a task that is in order.
LEMMA TaskChanges ==
  ASSUME TasksOK, Branches' = Branches, NEW a \in Actors, NEW t,
         task' = [task EXCEPT ![a] = t], t \in {Idle} \cup TaskType(Branches),
         t.at # "idle" => TaskOK(Branches, t)
  PROVE  /\ TasksOK' /\ task'[a] = t
         /\ \A b \in Actors \ {a} : task'[b] = task[b]
<1>1. task \in [Actors -> {Idle} \cup TaskType(Branches)]
  BY DEF TasksOK
<1>2. task'[a] = t /\ \A b \in Actors \ {a} : task'[b] = task[b]
  BY <1>1
<1>3. task' \in [Actors -> {Idle} \cup TaskType(Branches)]
  BY <1>1
<1>4. \A b \in Actors : task'[b].at # "idle" => TaskOK(Branches, task'[b])
  BY <1>2 DEF TasksOK, Busy
<1>5. QED
  BY <1>2, <1>3, <1>4 DEF TasksOK, Busy

\* Only paths that are doomed are put on its stack.
LEMMA StackChanges ==
  ASSUME StacksOK, Branches' = Branches, DOMAIN tree \subseteq DOMAIN tree', NEW a \in Actors,
         \A b \in Actors \ {a} : task'[b] = task[b],
         task'[a].at # "idle" => task'[a].stack \in Seq(Doomed)
  PROVE  StacksOK'
<1>1. Doomed \subseteq Doomed'
  BY DEF Doomed
<1>2. \A b \in Actors : task'[b].at # "idle" => task'[b].stack \in Seq(Doomed)
  BY DEF StacksOK, Busy
<1>3. Seq(Doomed) \subseteq Seq(Doomed')
  BY <1>1
<1>4. QED
  BY <1>2, <1>3 DEF StacksOK, Busy

\* The threads work on the paths they have worked on.
LEMMA ApartSame ==
  ASSUME Apart, Branches' = Branches, UNCHANGED todo, DOMAIN tree' = DOMAIN tree,
         \A b \in Actors : task'[b].at # "idle" =>
            task[b].at # "idle" /\ task'[b].op = task[b].op /\ task'[b].path = task[b].path
  PROVE  Apart'
BY DEF Apart, Extender, Checker, Busy, New

\* One thread takes up another path.
LEMMA ApartChanges ==
  ASSUME Apart, Branches' = Branches, NEW a \in Actors, DOMAIN tree \subseteq DOMAIN tree',
         \A b \in Actors \ {a} : task'[b] = task[b],
         \A b \in Actors \ {a} : Extender(b) =>
            /\ task[b].path \notin DOMAIN tree'
            /\ \A x \in todo' : Ext(Branches, x[1], x[2]) # task[b].path,
         task'[a].at # "idle" /\ task'[a].op = "extend" =>
            /\ task'[a].path # <<>> /\ task'[a].path \notin DOMAIN tree'
            /\ Front(task'[a].path) \in DOMAIN tree'
            /\ task'[a].path = Ext(Branches, Front(task'[a].path), Last(task'[a].path)[2])
            /\ \A x \in todo' : Ext(Branches, x[1], x[2]) # task'[a].path
            /\ \A b \in Actors \ {a} : Extender(b) => task[b].path # task'[a].path,
         task'[a].at # "idle" /\ task'[a].op = "check" =>
            task'[a].path \in DOMAIN tree' /\ To(Branches, task'[a].path) = End
  PROVE  Apart'
<1>1. ASSUME NEW b \in Actors, task'[b].at # "idle", task'[b].op = "extend"
      PROVE  /\ task'[b].path # <<>> /\ task'[b].path \notin DOMAIN tree'
             /\ Front(task'[b].path) \in DOMAIN tree'
             /\ task'[b].path = Ext(Branches, Front(task'[b].path), Last(task'[b].path)[2])
             /\ \A x \in todo' : Ext(Branches, x[1], x[2]) # task'[b].path
             /\ \A d \in Actors \ {b} : task'[d].at # "idle" /\ task'[d].op = "extend" =>
                   task'[d].path # task'[b].path
  <2>1. CASE b = a
    BY <1>1, <2>1 DEF Extender, Busy
  <2>2. CASE b # a
    <3>1. Extender(b) /\ task'[b] = task[b]
      BY <1>1, <2>2 DEF Extender, Busy
    <3>2. QED
      BY <1>1, <2>2, <3>1 DEF Apart, Extender, Busy, New
  <2>3. QED
    BY <2>1, <2>2
<1>2. ASSUME NEW b \in Actors, task'[b].at # "idle", task'[b].op = "check"
      PROVE  task'[b].path \in DOMAIN tree' /\ To(Branches, task'[b].path) = End
  <2>1. CASE b = a
    BY <1>2, <2>1
  <2>2. CASE b # a
    BY <1>2, <2>2 DEF Apart, Checker, Busy
  <2>3. QED
    BY <2>1, <2>2
<1>3. QED
  BY <1>1, <1>2 DEF Apart, Extender, Checker, Busy, New

-----------------------------------------------------------------------------
(* The first state                                                         *)

\* A fresh path
LEMMA FirstExec ==
  ASSUME NEW bs
  PROVE  Exec0 \in ExecType(bs) /\ Tells(bs, <<>>, Exec0) /\ Passing(bs, <<>>) = Packets
<1>1. /\ Exec0 \in ExecType(bs) /\ Exec0.sat = "unknown"
      /\ Exec0.assumptions = <<>> /\ Exec0.min_value = MIN_PACKETSIZE
  BY SizesAssumption DEF Exec0, ExecType
<1>2. Len(<<>>) = 0 /\ DOMAIN <<>> = {}
  OBVIOUS
<1>3. Upto(bs, <<>>, 0) = Packets
  BY DEF Upto
<1>4. Passing(bs, <<>>) = Packets
  BY <1>2, <1>3 DEF Passing
<1>5. 0 \in 0..Len(<<>>)
  BY <1>2
<1>6. \A p \in Packets : MIN_PACKETSIZE <= Length[p]
  BY SizesAssumption, PacketsAssumption
<1>7. BoundOf(bs, <<>>, MIN_PACKETSIZE)
  BY <1>3, <1>5, <1>6 DEF BoundOf
<1>8. Tells(bs, <<>>, Exec0)
  BY <1>1, <1>2, <1>4, <1>7 DEF Tells, Fitting
<1>9. QED
  BY <1>1, <1>4, <1>8

\* Everything is in order before the first step.
LEMMA InitPCInv ==
  ASSUME Init, strategy = "unsat-core"
  PROVE  PCInv
<1>1. SolversOK
  BY DEF Init, SolversOK, Fresh, NewSolver, NewZ3
<1>2. ProgramOK(Branches)
  BY ProgramsAssumption DEF Init, ProgramOK, Branches
<1>3. DOMAIN tree = {<<>>} /\ tree[<<>>] = NewPath("possible", Exec0)
  BY DEF Init
<1>4. <<>> \in PathSet(Branches)
  BY DEF PathSet
<1>5. NewPath("possible", Exec0) \in NodeType(Branches)
  BY FirstExec DEF NewPath, NodeType
<1>6. TreeOK
  <2>1. tree \in [{<<>>} -> NodeType(Branches)]
    BY <1>5 DEF Init
  <2>2. NodeOK(Branches, <<>>, tree[<<>>])
    BY <1>3, FirstExec DEF NodeOK, NewPath
  <2>3. QED
    BY <1>3, <1>4, <2>1, <2>2 DEF TreeOK
<1>7. Linked
  <2>1. \A n \in 0..Len(<<>>) : SubSeq(<<>>, 1, n) = <<>>
    OBVIOUS
  <2>2. tree[<<>>].succ = {}
    BY <1>3 DEF NewPath
  <2>3. QED
    BY <1>3, <2>1, <2>2 DEF Linked
<1>8. TodoOK
  <2>1. To(Branches, <<>>) = 1
    BY DEF To
  <2>2. \A side \in BOOLEAN : Ext(Branches, <<>>, side) # <<>>
    BY DEF Ext
  <2>3. tree[<<>>].st.sat = "unknown"
    BY <1>3 DEF NewPath, Exec0
  <2>4. todo = {<<>>} \X BOOLEAN
    BY DEF Init
  <2>5. QED
    BY <1>2, <1>3, <2>1, <2>2, <2>3, <2>4 DEF TodoOK, ProgramOK
<1>9. ReadyOK
  BY DEF Init, ReadyOK
<1>10. task = [a \in Actors |-> Idle]
  BY DEF Init
<1>11. \A a \in Actors : ~Busy(a)
  BY <1>10, IdleIs DEF Busy
<1>12. TasksOK
  BY <1>10, <1>11 DEF TasksOK
<1>13. StacksOK /\ Apart
  BY <1>11 DEF StacksOK, Apart, Extender, Checker
<1>14. VerdictsOK
  BY DEF Init, VerdictsOK
<1>15. QED
  BY <1>1, <1>2, <1>6, <1>7, <1>8, <1>9, <1>12, <1>13, <1>14 DEF PCInv

-----------------------------------------------------------------------------
(* The steps                                                               *)

\* A step that keeps the program, the solvers and the verdicts
LEMMA Kept ==
  ASSUME UNCHANGED <<program, strategy>>
  PROVE  /\ Branches' = Branches
         /\ ProgramOK(Branches) => ProgramOK(Branches)'
         /\ SolversOK /\ UNCHANGED solver => SolversOK'
         /\ VerdictsOK /\ UNCHANGED verdict => VerdictsOK'
         /\ TreeOK /\ UNCHANGED tree => TreeOK'
         /\ Linked /\ UNCHANGED tree => Linked'
         /\ ReadyOK /\ UNCHANGED <<tree, ready>> => ReadyOK'
         /\ TodoOK /\ UNCHANGED <<tree, todo>> => TodoOK'
<1>1. Branches' = Branches
  BY DEF Branches
<1>2. QED
  BY <1>1 DEF ProgramOK, SolversOK, VerdictsOK, TreeOK, Linked, ReadyOK, TodoOK

\* A side is taken up: the new state tells of the longer path.
LEMMA StartExtendKeeps ==
  ASSUME PCInv, NEW a \in Actors, NEW path, NEW side, StartExtend(a, path, side)
  PROVE  PCInv'
<1> DEFINE child   == Extension(path, side)
           st      == Apply(tree[path].st, AssumptionOf(child))
           unsat   == tree[path].marked \/ st.sat = "no"
           becomes == IF unsat THEN "impossible" ELSE "possible"
           at      == IF ~unsat /\ may_satcheck(path, side) /\ st.assumptions # <<>> THEN "solve" ELSE "finish"
           t       == Task("extend", at, child, becomes, st)
<1>1. /\ <<path, side>> \in todo /\ todo' = todo \ {<<path, side>>}
      /\ task' = [task EXCEPT ![a] = t] /\ task[a] = Idle
      /\ UNCHANGED <<program, strategy, tree, ready, solver, verdict>>
  BY DEF StartExtend
<1>2. /\ SolversOK /\ ProgramOK(Branches) /\ TreeOK /\ Linked /\ TodoOK /\ ReadyOK
      /\ TasksOK /\ StacksOK /\ Apart /\ VerdictsOK
  BY DEF PCInv
<1>3. Branches' = Branches
  BY <1>1, Kept
<1>4. /\ path \in DOMAIN tree /\ side \in BOOLEAN /\ To(Branches, path) \in DOMAIN Branches
      /\ tree[path].st.sat # "no" /\ Ext(Branches, path, side) \notin DOMAIN tree
  BY <1>1, <1>2 DEF TodoOK
<1>5. /\ path \in PathSet(Branches) /\ tree[path] \in NodeType(Branches)
      /\ NodeOK(Branches, path, tree[path])
  BY <1>2, <1>4 DEF TreeOK
<1>6. tree[path].st \in ExecType(Branches) /\ Tells(Branches, path, tree[path].st)
      /\ (tree[path].marked => Passing(Branches, path) = {})
  BY <1>5 DEF NodeType, NodeOK
<1> DEFINE b == <<To(Branches, path), side>>
<1>7. b \in Sides(Branches)
  BY <1>4 DEF Sides
<1>8. child = Append(path, b) /\ child = Ext(Branches, path, side)
  BY InModule DEF Ext
<1>9. AssumptionOf(child) = Asm(Branches, b)
  BY <1>5, <1>7, <1>8, InModule
<1> HIDE DEF child, b
<1>10. st \in ExecType(Branches) /\ Tells(Branches, child, st)
  <2>1. st = Apply(tree[path].st, Asm(Branches, b))
    BY <1>9
  <2> HIDE DEF st
  <2>2. QED
    BY <1>4, <1>5, <1>6, <1>7, <1>8, <2>1, Applies
<1>11. /\ child \in PathSet(Branches) /\ child # <<>> /\ Front(child) = path
       /\ child = Ext(Branches, Front(child), Last(child)[2])
  <2>1. path \in Seq(Sides(Branches))
    BY <1>5 DEF PathSet
  <2>2. /\ Append(path, b) \in Seq(Sides(Branches))
        /\ Append(path, b) # <<>> /\ Front(Append(path, b)) = path
        /\ Last(Append(path, b)) = b
    BY <1>7, <2>1, Longer
  <2>3. b[2] = side
    BY DEF b
  <2>4. QED
    BY <1>8, <2>2, <2>3, SMTT(30) DEF PathSet
<1>12. Passing(Branches, child) \subseteq Passing(Branches, path)
  <2>1. Passing(Branches, child) =
          {p \in Passing(Branches, path) : IsTrue(Asm(Branches, b).e, p)}
    <3>1. path \in PathSet(Branches) /\ b \in Sides(Branches)
      BY <1>5, <1>7
    <3>2. Passing(Branches, Append(path, b)) =
            {p \in Passing(Branches, path) : IsTrue(Asm(Branches, b).e, p)}
      BY <3>1, PassingLonger, Zenon
    <3>3. QED
      BY <1>8, <3>2, Zenon
  <2>2. QED
    BY <2>1
<1> HIDE DEF st
<1>13. unsat => Passing(Branches, child) = {}
  BY <1>6, <1>10, <1>12 DEF Tells
<1>14. /\ becomes \in {"possible", "impossible"} /\ at \in {"solve", "finish"}
       /\ becomes = "impossible" => unsat
       /\ becomes = "possible" => st.sat # "no"
       /\ at = "solve" => becomes = "possible" /\ st.assumptions # <<>>
  OBVIOUS
<1> HIDE DEF becomes, at, unsat
<1>15. /\ t.op = "extend" /\ t.at = at /\ t.path = child /\ t.becomes = becomes
       /\ t.st = st /\ t.stack = <<>> /\ t \in TaskType(Branches)
  BY <1>10, <1>11, <1>14 DEF Task, TaskType
<1> HIDE DEF t
<1>16. TaskOK(Branches, t)
  BY <1>10, <1>13, <1>14, <1>15 DEF TaskOK
<1>17. /\ TasksOK' /\ task'[a] = t
       /\ \A d \in Actors \ {a} : task'[d] = task[d]
  BY <1>1, <1>2, <1>3, <1>15, <1>16, TaskChanges
<1>18. StacksOK'
  <2>1. task'[a].stack = <<>>
    BY <1>15, <1>17
  <2>2. <<>> \in Seq(Doomed)
    OBVIOUS
  <2>3. DOMAIN tree \subseteq DOMAIN tree'
    BY <1>1
  <2>4. QED
    BY <1>2, <1>3, <1>17, <2>1, <2>2, <2>3, StackChanges
<1>19. TodoOK'
  BY <1>1, <1>2, <1>3 DEF TodoOK
<1>20. \A x \in todo' : Ext(Branches, x[1], x[2]) # child
  <2>1. SUFFICES ASSUME NEW x \in todo, x # <<path, side>>, Ext(Branches, x[1], x[2]) = child
                 PROVE  FALSE
    BY <1>1
  <2>2. x[1] \in PathSet(Branches) /\ x[2] \in BOOLEAN /\ To(Branches, x[1]) \in DOMAIN Branches
        /\ x = <<x[1], x[2]>>
    BY <1>2 DEF TodoOK, TreeOK
  <2>3. x[1] = path /\ x[2] = side
    BY <1>4, <1>5, <1>8, <2>1, <2>2, ExtDiffers
  <2>4. QED
    BY <2>1, <2>2, <2>3
<1>21. \A d \in Actors \ {a} : Extender(d) =>
         /\ task[d].path \notin DOMAIN tree /\ task[d].path # child
         /\ \A x \in todo' : Ext(Branches, x[1], x[2]) # task[d].path
  BY <1>1, <1>2, <1>8 DEF Apart, New
<1>22. Apart'
  BY <1>1, <1>2, <1>3, <1>4, <1>8, <1>11, <1>15, <1>17, <1>20, <1>21, ApartChanges
<1>23. QED
  BY <1>1, <1>2, <1>17, <1>18, <1>19, <1>22, Kept DEF PCInv

\* A complete path is taken up to be checked.
LEMMA StartCheckKeeps ==
  ASSUME PCInv, NEW a \in Actors, NEW path, StartCheck(a, path)
  PROVE  PCInv'
<1> DEFINE st      == tree[path].st
           becomes == IF IsUnsat(path) THEN "impossible" ELSE "possible"
           at      == IF IsDecided(path) \/ st.assumptions = <<>> THEN "finish" ELSE "solve"
           t       == Task("check", at, path, becomes, st)
<1>1. /\ path \in ready /\ ready' = ready \ {path}
      /\ task' = [task EXCEPT ![a] = t] /\ task[a] = Idle
      /\ UNCHANGED <<program, strategy, tree, todo, solver, verdict>>
  BY DEF StartCheck
<1>2. /\ SolversOK /\ ProgramOK(Branches) /\ TreeOK /\ Linked /\ TodoOK /\ ReadyOK
      /\ TasksOK /\ StacksOK /\ Apart /\ VerdictsOK
  BY DEF PCInv
<1>3. Branches' = Branches
  BY <1>1, Kept
<1>4. path \in DOMAIN tree /\ To(Branches, path) = End
  BY <1>1, <1>2 DEF ReadyOK
<1>5. /\ path \in PathSet(Branches) /\ tree[path] \in NodeType(Branches)
      /\ NodeOK(Branches, path, tree[path])
  BY <1>2, <1>4 DEF TreeOK
<1>6. st \in ExecType(Branches) /\ Tells(Branches, path, st)
      /\ (tree[path].kind = "impossible" \/ tree[path].marked => Passing(Branches, path) = {})
  BY <1>5 DEF NodeType, NodeOK
<1>7. IsUnsat(path) => Passing(Branches, path) = {}
  BY <1>6 DEF IsUnsat, Tells
<1>8. ~IsUnsat(path) => st.sat # "no"
  BY DEF IsUnsat
<1>9. IsDecided(path) /\ ~IsUnsat(path) => Passing(Branches, path) # {}
  <2>1. SUFFICES ASSUME IsDecided(path), ~IsUnsat(path)
                 PROVE  Passing(Branches, path) # {}
    OBVIOUS
  <2>2. st.sat = "yes"
    BY <1>6, <1>8, <2>1 DEF IsDecided, ExecType
  <2>3. st.model \in Least(Passing(Branches, path))
    BY <1>6, <2>2 DEF Tells
  <2>4. QED
    BY <2>3 DEF Least
<1>10. st.assumptions = <<>> /\ ~IsUnsat(path) => Passing(Branches, path) # {}
  <2>1. SUFFICES ASSUME st.assumptions = <<>>, ~IsUnsat(path)
                 PROVE  Passing(Branches, path) # {}
    OBVIOUS
  <2>2. DOMAIN st.assumptions = {}
    BY <2>1
  <2>3. Fitting(st) = Packets
    BY <2>2 DEF Fitting
  <2>4. Fitting(st) \subseteq Passing(Branches, path)
    BY <1>6, <1>8, <2>1 DEF Tells
  <2>5. QED
    BY <2>3, <2>4, PacketsAssumption
<1>11. /\ becomes \in {"possible", "impossible"} /\ at \in {"solve", "finish"}
       /\ becomes = "impossible" => IsUnsat(path)
       /\ becomes = "possible" => ~IsUnsat(path)
       /\ at = "solve" => becomes = "possible" /\ st.assumptions # <<>>
       /\ at = "finish" => IsDecided(path) \/ st.assumptions = <<>>
  BY DEF IsDecided
<1> HIDE DEF becomes, at, st
<1>12. /\ t.op = "check" /\ t.at = at /\ t.path = path /\ t.becomes = becomes
       /\ t.st = st /\ t.stack = <<>> /\ t \in TaskType(Branches)
  BY <1>5, <1>6, <1>11 DEF Task, TaskType
<1> HIDE DEF t
<1>13. TaskOK(Branches, t)
  BY <1>6, <1>7, <1>8, <1>9, <1>10, <1>11, <1>12 DEF TaskOK
<1>14. /\ TasksOK' /\ task'[a] = t
       /\ \A d \in Actors \ {a} : task'[d] = task[d]
  BY <1>1, <1>2, <1>3, <1>12, <1>13, TaskChanges
<1>15. StacksOK'
  <2>1. task'[a].stack = <<>>
    BY <1>12, <1>14
  <2>2. <<>> \in Seq(Doomed)
    OBVIOUS
  <2>3. DOMAIN tree \subseteq DOMAIN tree'
    BY <1>1
  <2>4. QED
    BY <1>2, <1>3, <1>14, <2>1, <2>2, <2>3, StackChanges
<1>16. \A d \in Actors \ {a} : Extender(d) =>
         /\ task[d].path \notin DOMAIN tree
         /\ \A x \in todo : Ext(Branches, x[1], x[2]) # task[d].path
  BY <1>2 DEF Apart, New
<1>17. Apart'
  BY <1>1, <1>2, <1>3, <1>4, <1>12, <1>14, <1>16, ApartChanges
<1>18. ReadyOK'
  BY <1>1, <1>2, <1>3 DEF ReadyOK
<1>19. QED
  BY <1>1, <1>2, <1>14, <1>15, <1>17, <1>18, Kept DEF PCInv

\* What a thread knows of its task
LEMMA OfTask ==
  ASSUME PCInv, NEW a \in Actors, Busy(a)
  PROVE  /\ task[a] \in TaskType(Branches) /\ TaskOK(Branches, task[a])
         /\ task[a].stack \in Seq(Doomed)
         /\ task[a].path \in PathSet(Branches) /\ task[a].st \in ExecType(Branches)
         /\ task[a].op \in {"extend", "check"} /\ task[a].becomes \in {"possible", "impossible"}
         /\ task[a].op = "extend" => New(task[a].path)
         /\ task[a].op = "check" => task[a].path \in DOMAIN tree /\ To(Branches, task[a].path) = End
<1>1. TasksOK /\ StacksOK /\ Apart
  BY DEF PCInv
<1>2. task[a] \in TaskType(Branches)
  BY <1>1, IdleIs DEF TasksOK, Busy
<1>3. /\ task[a].path \in PathSet(Branches) /\ task[a].st \in ExecType(Branches)
      /\ task[a].op \in {"extend", "check"} /\ task[a].becomes \in {"possible", "impossible"}
  BY <1>2 DEF TaskType
<1>4. TaskOK(Branches, task[a]) /\ task[a].stack \in Seq(Doomed)
  BY <1>1 DEF TasksOK, StacksOK
<1>5. /\ task[a].op = "extend" => New(task[a].path)
      /\ task[a].op = "check" => task[a].path \in DOMAIN tree /\ To(Branches, task[a].path) = End
  BY <1>1 DEF Apart, Extender, Checker
<1>6. QED
  BY <1>2, <1>3, <1>4, <1>5

\* Doomed paths on a stack
LEMMA OnStack ==
  ASSUME NEW path, path \in Doomed
  PROVE  <<path>> \in Seq(Doomed)
OBVIOUS

\* A prefix of a path that a thread works on, shorter than the path, is there.
LEMMA PrefixThere ==
  ASSUME PCInv, NEW a \in Actors, Busy(a), NEW n \in 1..Len(task[a].path), n # Len(task[a].path)
  PROVE  SubSeq(task[a].path, 1, n) \in DOMAIN tree
<1> DEFINE path == task[a].path
<1>1. path \in PathSet(Branches) /\ Linked
  BY OfTask DEF PCInv
<1>2. Len(path) \in Nat /\ path \in Seq(Sides(Branches))
  BY <1>1 DEF PathSet
<1>3. CASE task[a].op = "check"
  <2>1. path \in DOMAIN tree
    BY <1>3, OfTask
  <2>2. n \in 0..Len(path)
    BY <1>2
  <2>3. QED
    BY <1>1, <2>1, <2>2 DEF Linked
<1>4. CASE task[a].op = "extend"
  <2>1. path # <<>> /\ Front(path) \in DOMAIN tree
    BY <1>4, OfTask DEF New
  <2>2. /\ Front(path) \in Seq(Sides(Branches)) /\ Len(Front(path)) = Len(path) - 1
        /\ \A k \in 1..Len(path) - 1 : Front(path)[k] = path[k]
    BY <1>2, <2>1, Shorter
  <2>3. n \in 0..Len(Front(path)) /\ n \in 1..Len(path) - 1
    BY <1>2, <2>2
  <2> HIDE DEF path
  <2>4. SubSeq(Front(path), 1, n) = SubSeq(path, 1, n)
    BY <1>2, <2>2, <2>3
  <2>5. QED
    BY <1>1, <2>1, <2>3, <2>4 DEF Linked, path
<1>5. QED
  BY <1>3, <1>4, OfTask

\* z3 has answered: what is put on the stack to be marked, no packet takes.
LEMMA SolveKeeps ==
  ASSUME PCInv, NEW a \in Actors, Solve(a)
  PROVE  PCInv'
<1> DEFINE t        == task[a]
           path     == t.path
           prefixes == "impossible-prefixes" \in features
<1>1. PICK answer \in Answers(strategy, solver[a], t.st, prefixes) :
        LET st     == CheckSat(t.st, answer)
            blamed == IF answer.sat \/ ~prefixes THEN 0 ELSE Blamed(t.path, answer.core)
            self   == IF answer.sat \/ t.op = "extend" THEN <<>> ELSE <<t.path>>
            prefix == IF blamed \in {0, Len(t.path)} THEN <<>> ELSE <<SubSeq(t.path, 1, blamed)>>
        IN  /\ solver' = [solver EXCEPT ![a] = answer.s]
            /\ task' = [task EXCEPT ![a] =
                    [t EXCEPT !.at = IF answer.sat THEN "finish" ELSE "mark",
                              !.becomes = IF answer.sat THEN t.becomes ELSE "impossible",
                              !.st = st,
                              !.stack = self \o prefix]]
            /\ tree' = IF t.op = "check" THEN [tree EXCEPT ![t.path].st = st] ELSE tree
  BY DEF Solve
<1> DEFINE st     == CheckSat(t.st, answer)
           blamed == IF answer.sat \/ ~prefixes THEN 0 ELSE Blamed(t.path, answer.core)
           self   == IF answer.sat \/ t.op = "extend" THEN <<>> ELSE <<t.path>>
           prefix == IF blamed \in {0, Len(t.path)} THEN <<>> ELSE <<SubSeq(t.path, 1, blamed)>>
           at     == IF answer.sat THEN "finish" ELSE "mark"
           becomes == IF answer.sat THEN t.becomes ELSE "impossible"
           u      == [t EXCEPT !.at = at, !.becomes = becomes, !.st = st, !.stack = self \o prefix]
<1>2. /\ solver' = [solver EXCEPT ![a] = answer.s] /\ task' = [task EXCEPT ![a] = u]
      /\ tree' = IF t.op = "check" THEN [tree EXCEPT ![t.path].st = st] ELSE tree
  BY <1>1
<1>3. t.at = "solve" /\ UNCHANGED <<program, strategy, todo, ready, verdict>>
  BY DEF Solve
<1>4. /\ SolversOK /\ ProgramOK(Branches) /\ TreeOK /\ Linked /\ TodoOK /\ ReadyOK
      /\ TasksOK /\ StacksOK /\ Apart /\ VerdictsOK
  BY DEF PCInv
<1>5. Branches' = Branches
  BY <1>3, Kept
<1>6. Busy(a)
  BY <1>3 DEF Busy
<1>7. /\ t \in TaskType(Branches) /\ TaskOK(Branches, t)
      /\ path \in PathSet(Branches) /\ t.st \in ExecType(Branches)
      /\ t.op \in {"extend", "check"} /\ t.becomes \in {"possible", "impossible"}
      /\ t.op = "check" => path \in DOMAIN tree /\ To(Branches, path) = End
  BY <1>6, OfTask
<1>8. /\ Tells(Branches, path, t.st) /\ t.becomes = "possible"
      /\ t.st.assumptions # <<>> /\ t.st.sat # "no"
  BY <1>3, <1>7 DEF TaskOK
<1>9. solver[a] \in Fresh /\ answer \in UnsatCore(solver[a], t.st, prefixes)
  BY <1>4 DEF SolversOK, Answers
<1>10. prefixes \in BOOLEAN
  OBVIOUS
<1> HIDE DEF prefixes
<1>11. /\ answer.s \in Fresh /\ answer.sat \in BOOLEAN
       /\ answer.sat = (Passing(Branches, path) # {})
       /\ st \in ExecType(Branches)
       /\ st.sat = IF answer.sat THEN "yes" ELSE "no"
       /\ Tells(Branches, path, st)
       /\ ~answer.sat /\ prefixes /\ Blamed(path, answer.core) # 0 =>
            /\ Blamed(path, answer.core) \in 1..Len(path)
            /\ Upto(Branches, path, Blamed(path, answer.core)) = {}
  <2> HIDE DEF path, t
  <2>1. /\ answer.s \in Fresh /\ answer.sat \in BOOLEAN
        /\ answer.sat = (Passing(Branches, path) # {})
    BY <1>7, <1>8, <1>9, <1>10, Checks
  <2>2. /\ CheckSat(t.st, answer) \in ExecType(Branches)
        /\ CheckSat(t.st, answer).sat = IF answer.sat THEN "yes" ELSE "no"
        /\ Tells(Branches, path, CheckSat(t.st, answer))
    BY <1>7, <1>8, <1>9, <1>10, Checks
  <2>3. ~answer.sat /\ prefixes /\ Blamed(path, answer.core) # 0 =>
          /\ Blamed(path, answer.core) \in 1..Len(path)
          /\ Upto(Branches, path, Blamed(path, answer.core)) = {}
    BY <1>7, <1>8, <1>9, <1>10, Checks
  <2>4. QED
    BY <2>1, <2>2, <2>3
<1>12. SolversOK'
  BY <1>2, <1>3, <1>4, <1>11 DEF SolversOK
<1> HIDE DEF st
<1>13. self \in Seq(Doomed)
  <2>1. CASE answer.sat \/ t.op = "extend"
    BY <2>1
  <2>2. CASE ~(answer.sat \/ t.op = "extend")
    <3>1. path \in Doomed /\ self = <<path>>
      BY <1>7, <1>11, <2>2 DEF Doomed
    <3>2. QED
      BY <3>1, OnStack
  <2>3. QED
    BY <2>1, <2>2
<1>14. prefix \in Seq(Doomed)
  <2>1. CASE blamed \in {0, Len(path)}
    BY <2>1
  <2>2. CASE blamed \notin {0, Len(path)}
    <3>1. ~answer.sat /\ prefixes /\ blamed = Blamed(path, answer.core) /\ blamed # 0
      BY <2>2
    <3>2. blamed \in 1..Len(path) /\ Upto(Branches, path, blamed) = {}
      BY <1>11, <3>1
    <3>3. blamed # Len(path) /\ prefix = <<SubSeq(path, 1, blamed)>>
      BY <2>2
    <3> HIDE DEF blamed, prefix
    <3>4. SubSeq(path, 1, blamed) \in DOMAIN tree
      BY <1>6, <3>2, <3>3, PrefixThere
    <3>5. Passing(Branches, SubSeq(path, 1, blamed)) = {}
      BY <1>7, <3>2, PassingPrefix
    <3>6. SubSeq(path, 1, blamed) \in Doomed
      BY <3>4, <3>5 DEF Doomed
    <3>7. QED
      BY <3>3, <3>6, OnStack
  <2>3. QED
    BY <2>1, <2>2
<1> HIDE DEF self, prefix, blamed
<1>15. self \o prefix \in Seq(Doomed) /\ Doomed \subseteq PathSet(Branches)
  BY <1>4, <1>13, <1>14 DEF Doomed, TreeOK
<1>16. self \o prefix \in Seq(PathSet(Branches))
  BY <1>15
<1>17. /\ at \in {"finish", "mark"} /\ becomes \in {"possible", "impossible"}
       /\ becomes = "impossible" => ~answer.sat
       /\ becomes = "possible" => answer.sat
       /\ at = "mark" => becomes = "impossible"
  BY <1>8
<1> HIDE DEF at, becomes
<1>18. /\ u.op = t.op /\ u.at = at /\ u.path = path /\ u.becomes = becomes
       /\ u.st = st /\ u.stack = self \o prefix /\ u \in TaskType(Branches)
  BY <1>7, <1>11, <1>16, <1>17 DEF TaskType
<1> HIDE DEF u
<1>19. TaskOK(Branches, u)
  BY <1>11, <1>17, <1>18 DEF TaskOK
<1>20. /\ TasksOK' /\ task'[a] = u
       /\ \A b \in Actors \ {a} : task'[b] = task[b]
  BY <1>2, <1>4, <1>5, <1>18, <1>19, TaskChanges
<1>21. /\ DOMAIN tree' = DOMAIN tree
       /\ \A q \in DOMAIN tree : q # path => tree'[q] = tree[q]
       /\ path \in DOMAIN tree => \/ tree'[path] = [tree[path] EXCEPT !.st = st]
                                  \/ tree'[path] = tree[path]
       /\ t.op # "check" => tree' = tree
  BY <1>2
<1>22. StacksOK'
  <2>1. task'[a].stack \in Seq(Doomed)
    BY <1>15, <1>18, <1>20
  <2>2. QED
    BY <1>4, <1>5, <1>20, <1>21, <2>1, StackChanges
<1>23. TreeOK'
  <2>1. ASSUME NEW q \in DOMAIN tree
        PROVE  tree'[q] \in NodeType(Branches) /\ NodeOK(Branches, q, tree'[q])
    <3>1. tree[q] \in NodeType(Branches) /\ NodeOK(Branches, q, tree[q])
      BY <1>4 DEF TreeOK
    <3>2. CASE tree'[q] = tree[q]
      BY <3>1, <3>2
    <3>3. CASE q = path /\ tree'[q] = [tree[q] EXCEPT !.st = st]
      <4>1. /\ tree'[q].kind = tree[q].kind /\ tree'[q].marked = tree[q].marked
            /\ tree'[q].st = st /\ tree'[q] \in NodeType(Branches)
        BY <1>11, <3>1, <3>3 DEF NodeType
      <4>2. QED
        BY <1>11, <3>1, <3>3, <4>1 DEF NodeOK
    <3>4. QED
      BY <1>21, <3>2, <3>3
  <2>2. tree' \in [DOMAIN tree -> NodeType(Branches)]
    <3>1. tree' = [q \in DOMAIN tree |-> tree'[q]]
      BY <1>2, <1>4 DEF TreeOK
    <3>2. QED
      BY <2>1, <3>1
  <2>3. QED
    BY <1>4, <1>5, <1>21, <2>1, <2>2 DEF TreeOK
<1>24. \A q \in DOMAIN tree : tree'[q].succ = tree[q].succ
  <2>1. \A q \in DOMAIN tree : tree[q] \in NodeType(Branches)
    BY <1>4 DEF TreeOK
  <2>2. QED
    BY <1>21, <2>1 DEF NodeType
<1>25. Linked'
  BY <1>4, <1>5, <1>21, <1>24 DEF Linked
<1>26. TodoOK'
  <2>1. ASSUME NEW x \in todo PROVE tree'[x[1]] = tree[x[1]]
    BY <1>4, <1>7, <1>21 DEF TodoOK, ProgramOK
  <2>2. QED
    BY <1>3, <1>4, <1>5, <1>21, <2>1 DEF TodoOK
<1>27. ReadyOK'
  BY <1>3, <1>4, <1>5, <1>21 DEF ReadyOK
<1>28. Apart'
  <2>1. \A b \in Actors : task'[b].at # "idle" =>
          task[b].at # "idle" /\ task'[b].op = task[b].op /\ task'[b].path = task[b].path
    BY <1>3, <1>18, <1>20
  <2>2. QED
    BY <1>3, <1>4, <1>5, <1>21, <2>1, ApartSame
<1>29. QED
  BY <1>3, <1>4, <1>12, <1>20, <1>22, <1>23, <1>25, <1>26, <1>27, <1>28, Kept DEF PCInv

\* Where a path has got to is a branch or the end.
LEMMA ToThere ==
  ASSUME NEW bs, ProgramOK(bs), NEW path \in PathSet(bs)
  PROVE  To(bs, path) \in DOMAIN bs \cup {End}
<1>1. CASE path = <<>>
  BY <1>1 DEF To, ProgramOK
<1>2. CASE path # <<>>
  <2>1. path \in Seq(Sides(bs))
    BY DEF PathSet
  <2>2. Last(path) = path[Len(path)] /\ Len(path) \in Nat \ {0}
    BY <1>2, <2>1, Shorter
  <2>3. Len(path) \in 1..Len(path)
    BY <2>2
  <2>4. Last(path) \in Sides(bs)
    BY <2>1, <2>2, <2>3, ElementIn
  <2>5. Last(path)[1] \in DOMAIN bs
    BY <2>4 DEF Sides
  <2>6. QED
    BY <1>2, <2>5 DEF To, ProgramOK
<1>3. QED
  BY <1>1, <1>2

\* What grew out of a doomed path is doomed.
LEMMA DoomGrows ==
  ASSUME TreeOK, Linked, NEW path \in Doomed, NEW side \in tree[path].succ
  PROVE  Extension(path, side) \in Doomed
<1> DEFINE b == <<To(Branches, path), side>>
<1>1. path \in DOMAIN tree /\ path \in PathSet(Branches) /\ Passing(Branches, path) = {}
  BY DEF Doomed, TreeOK
<1>2. Extension(path, side) = Append(path, b)
  BY InModule DEF Ext
<1>3. Append(path, b) \in DOMAIN tree /\ Append(path, b) \in PathSet(Branches)
  BY <1>1, <1>2, InModule DEF Linked, TreeOK
<1> HIDE DEF b
<1>4. b \in Sides(Branches)
  <2>1. path \in Seq(Sides(Branches)) /\ Append(path, b) \in Seq(Sides(Branches))
    BY <1>1, <1>3 DEF PathSet
  <2>2. Len(path) + 1 \in 1..Len(Append(path, b)) /\ Append(path, b)[Len(path) + 1] = b
    BY <2>1
  <2>3. QED
    BY <2>1, <2>2, ElementIn
<1>5. Passing(Branches, Append(path, b)) =
        {p \in Passing(Branches, path) : IsTrue(Asm(Branches, b).e, p)}
  BY <1>1, <1>4, PassingLonger
<1>6. Passing(Branches, Append(path, b)) = {}
  BY <1>1, <1>5
<1>7. QED
  BY <1>2, <1>3, <1>6 DEF Doomed

\* The sides that grew out of a path
LEMMA GrownSides ==
  ASSUME NEW path
  PROVE  Grown(path) \in Seq(tree[path].succ)
<1> DEFINE S == tree[path].succ
           if_grown(side) ==
             IF side \in S /\ tree[Extension(path, side)].kind = "possible"
             THEN <<side>> ELSE <<>>
           T == if_grown(TRUE)
           F == if_grown(FALSE)
<1>1. Grown(path) = T \o F
  BY DEF Grown
<1> HIDE DEF S
<1>2. \A side \in S : <<side>> \in Seq(S)
  OBVIOUS
<1>3. <<>> \in Seq(S)
  OBVIOUS
<1>4. T \in Seq(S) /\ F \in Seq(S)
  BY <1>2, <1>3
<1> HIDE DEF T, F
<1>5. T \o F \in Seq(S)
  BY <1>4
<1>6. QED
  BY <1>1, <1>5 DEF S

\* One path of the stack is marked.
LEMMA MarkKeeps ==
  ASSUME PCInv, NEW a \in Actors, Mark(a)
  PROVE  PCInv'
<1> DEFINE t     == task[a]
           path  == Last(t.stack)
           sides == Grown(path)
           kids  == [n \in DOMAIN sides |-> Extension(path, sides[n])]
           rest  == IF tree[path].marked THEN Front(t.stack) ELSE Front(t.stack) \o kids
           u     == [t EXCEPT !.stack = rest]
<1>1. /\ t.at = "mark" /\ t.stack # <<>>
      /\ task' = [task EXCEPT ![a] = u]
      /\ tree' = tree \/ tree' = [tree EXCEPT ![path].marked = TRUE, ![path].succ = @ \ ToSet(sides)]
      /\ UNCHANGED <<program, strategy, todo, ready, solver, verdict>>
  BY DEF Mark
<1>2. /\ SolversOK /\ ProgramOK(Branches) /\ TreeOK /\ Linked /\ TodoOK /\ ReadyOK
      /\ TasksOK /\ StacksOK /\ Apart /\ VerdictsOK
  BY DEF PCInv
<1>3. Branches' = Branches
  BY <1>1, Kept
<1>4. Busy(a)
  BY <1>1 DEF Busy
<1>5. t \in TaskType(Branches) /\ TaskOK(Branches, t) /\ t.stack \in Seq(Doomed)
  BY <1>4, OfTask
<1>6. path \in Doomed /\ Front(t.stack) \in Seq(Doomed)
  <2>1. /\ Front(t.stack) \in Seq(Doomed)
        /\ Last(t.stack) = t.stack[Len(t.stack)] /\ Len(t.stack) \in Nat \ {0}
    BY <1>1, <1>5, Shorter
  <2>2. Len(t.stack) \in 1..Len(t.stack)
    BY <2>1
  <2>3. QED
    BY <1>5, <2>1, <2>2, ElementIn
<1> HIDE DEF path
<1>7. path \in DOMAIN tree /\ path \in PathSet(Branches) /\ Passing(Branches, path) = {}
      /\ tree[path] \in NodeType(Branches) /\ NodeOK(Branches, path, tree[path])
  BY <1>2, <1>6 DEF Doomed, TreeOK
<1>8. kids \in Seq(Doomed)
  <2>1. sides \in Seq(tree[path].succ)
    BY GrownSides
  <2> HIDE DEF sides
  <2>2. \A n \in DOMAIN sides : Extension(path, sides[n]) \in Doomed
    BY <1>2, <1>6, <2>1, ElementIn, DoomGrows
  <2>3. DOMAIN sides = 1..Len(sides) /\ Len(sides) \in Nat
    BY <2>1
  <2>4. QED
    BY <2>2, <2>3
<1> HIDE DEF kids, sides
<1>9. rest \in Seq(Doomed) /\ Doomed \subseteq PathSet(Branches)
  BY <1>2, <1>6, <1>8 DEF Doomed, TreeOK
<1>10. rest \in Seq(PathSet(Branches))
  BY <1>9
<1> HIDE DEF rest
<1>11. /\ u.op = t.op /\ u.at = t.at /\ u.path = t.path /\ u.becomes = t.becomes
       /\ u.st = t.st /\ u.stack = rest /\ u \in TaskType(Branches)
  BY <1>5, <1>10 DEF TaskType
<1> HIDE DEF u
<1>12. TaskOK(Branches, u)
  BY <1>5, <1>11 DEF TaskOK
<1>13. /\ TasksOK' /\ task'[a] = u
       /\ \A b \in Actors \ {a} : task'[b] = task[b]
  BY <1>1, <1>2, <1>3, <1>11, <1>12, TaskChanges
<1>14. tree' \in [DOMAIN tree -> NodeType(Branches)] /\ DOMAIN tree' = DOMAIN tree
       /\ \A q \in DOMAIN tree :
            /\ tree'[q].st = tree[q].st /\ tree'[q].kind = tree[q].kind
            /\ tree'[q].succ \subseteq tree[q].succ
            /\ tree'[q].marked => tree[q].marked \/ q = path
  <2>1. tree \in [DOMAIN tree -> NodeType(Branches)]
    BY <1>2 DEF TreeOK
  <2>2. CASE tree' = tree
    BY <2>1, <2>2
  <2>3. CASE tree' = [tree EXCEPT ![path].marked = TRUE, ![path].succ = @ \ ToSet(sides)]
    <3> DEFINE node == [tree[path] EXCEPT !.marked = TRUE, !.succ = @ \ ToSet(sides)]
    <3>1. /\ node.st = tree[path].st /\ node.kind = tree[path].kind
          /\ node.succ \subseteq tree[path].succ /\ node \in NodeType(Branches)
      BY <1>7 DEF NodeType
    <3>2. tree' = [tree EXCEPT ![path] = node]
      BY <1>7, <2>1, <2>3
    <3> HIDE DEF node
    <3>3. tree'[path] = node /\ \A q \in DOMAIN tree : q # path => tree'[q] = tree[q]
      BY <1>7, <2>1, <3>2
    <3>4. tree' \in [DOMAIN tree -> NodeType(Branches)] /\ DOMAIN tree' = DOMAIN tree
      BY <2>1, <3>1, <3>2
    <3>5. QED
      BY <3>1, <3>3, <3>4
  <2>4. QED
    BY <1>1, <2>2, <2>3
<1>15. TreeOK'
  <2>1. ASSUME NEW q \in DOMAIN tree PROVE NodeOK(Branches, q, tree'[q])
    BY <1>2, <1>7, <1>14 DEF TreeOK, NodeOK
  <2>2. QED
    BY <1>2, <1>3, <1>14, <2>1 DEF TreeOK
<1>16. Linked'
  BY <1>2, <1>3, <1>14 DEF Linked
<1>17. TodoOK'
  BY <1>1, <1>2, <1>3, <1>14 DEF TodoOK
<1>18. ReadyOK'
  BY <1>1, <1>2, <1>3, <1>14 DEF ReadyOK
<1>19. StacksOK'
  <2>1. task'[a].stack \in Seq(Doomed)
    BY <1>9, <1>11, <1>13
  <2>2. QED
    BY <1>2, <1>3, <1>13, <1>14, <2>1, StackChanges
<1>20. Apart'
  <2>1. \A b \in Actors : task'[b].at # "idle" =>
          task[b].at # "idle" /\ task'[b].op = task[b].op /\ task'[b].path = task[b].path
    BY <1>1, <1>11, <1>13
  <2>2. QED
    BY <1>1, <1>2, <1>3, <1>14, <2>1, ApartSame
<1>21. QED
  BY <1>1, <1>2, <1>13, <1>15, <1>16, <1>17, <1>18, <1>19, <1>20, Kept DEF PCInv

\* A path that has been extended is published in its predecessor.
LEMMA PublishKeeps ==
  ASSUME PCInv, NEW a \in Actors, Finish(a), task[a].op = "extend"
  PROVE  PCInv'
<1> DEFINE t      == task[a]
           path   == t.path
           parent == Front(path)
           side   == Last(path)[2]
           node   == NewPath(t.becomes, t.st)
           older  == [tree[parent] EXCEPT !.succ = @ \cup {side}]
<1>1. /\ t.at = "finish" \/ t.at = "mark"
      /\ task' = [task EXCEPT ![a] = Idle]
      /\ tree' = [q \in DOMAIN tree \cup {path} |->
                    IF q = path THEN node
                    ELSE IF q = parent THEN [tree[q] EXCEPT !.succ = @ \cup {side}]
                    ELSE tree[q]]
      /\ todo' = IF t.becomes = "possible" /\ ~(To(Branches, path) = End)
                 THEN todo \cup {path} \X BOOLEAN ELSE todo
      /\ ready' = IF t.becomes = "possible" /\ To(Branches, path) = End
                  THEN ready \cup {path} ELSE ready
      /\ UNCHANGED <<program, strategy, solver, verdict>>
  BY InModule DEF Finish
<1>2. /\ SolversOK /\ ProgramOK(Branches) /\ TreeOK /\ Linked /\ TodoOK /\ ReadyOK
      /\ TasksOK /\ StacksOK /\ Apart /\ VerdictsOK
  BY DEF PCInv
<1>3. Branches' = Branches
  BY <1>1, Kept
<1>4. Busy(a)
  BY <1>1 DEF Busy
<1>5. /\ TaskOK(Branches, t) /\ path \in PathSet(Branches) /\ t.st \in ExecType(Branches)
      /\ t.becomes \in {"possible", "impossible"} /\ New(path)
  BY <1>4, OfTask
<1>6. /\ Tells(Branches, path, t.st)
      /\ t.becomes = "impossible" => Passing(Branches, path) = {}
      /\ t.becomes = "possible" => t.st.sat # "no"
  BY <1>5 DEF TaskOK
<1>7. /\ path # <<>> /\ path \notin DOMAIN tree /\ parent \in DOMAIN tree
      /\ path = Ext(Branches, parent, side)
  BY <1>5 DEF New
<1>8. /\ path \in Seq(Sides(Branches)) /\ parent \in Seq(Sides(Branches))
      /\ Len(path) \in Nat \ {0} /\ Len(parent) = Len(path) - 1
      /\ \A n \in 1..Len(path) - 1 : parent[n] = path[n]
      /\ side \in BOOLEAN
  <2>1. path \in Seq(Sides(Branches))
    BY <1>5 DEF PathSet
  <2>2. /\ parent \in Seq(Sides(Branches)) /\ Len(parent) = Len(path) - 1
        /\ \A n \in 1..Len(path) - 1 : parent[n] = path[n]
        /\ Last(path) = path[Len(path)] /\ Len(path) \in Nat \ {0}
    BY <1>7, <2>1, Shorter
  <2>3. Len(path) \in 1..Len(path)
    BY <2>2
  <2>4. Last(path) \in Sides(Branches)
    BY <2>1, <2>2, <2>3, ElementIn
  <2>5. side \in BOOLEAN
    BY <2>4 DEF Sides
  <2>6. QED
    BY <2>1, <2>2, <2>5
<1>9. node \in NodeType(Branches) /\ node.st = t.st /\ node.kind = t.becomes
      /\ node.marked = FALSE /\ node.succ = {}
  BY <1>5 DEF NewPath, NodeType
<1>10. /\ tree[parent] \in NodeType(Branches) /\ older \in NodeType(Branches)
       /\ older.st = tree[parent].st /\ older.kind = tree[parent].kind
       /\ older.marked = tree[parent].marked /\ older.succ = tree[parent].succ \cup {side}
  <2>1. tree[parent] \in NodeType(Branches)
    BY <1>2, <1>7 DEF TreeOK
  <2>2. QED
    BY <1>8, <2>1 DEF NodeType
<1> HIDE DEF node
<1>11. /\ DOMAIN tree' = DOMAIN tree \cup {path} /\ tree'[path] = node
       /\ tree'[parent] = older
       /\ \A q \in DOMAIN tree : q # parent => tree'[q] = tree[q]
  BY <1>1, <1>7
<1> HIDE DEF older, parent, side, path
<1>12. \A q \in DOMAIN tree :
         /\ tree'[q].st = tree[q].st /\ tree'[q].kind = tree[q].kind
         /\ tree'[q].marked = tree[q].marked
         /\ tree'[q].succ \subseteq tree[q].succ \cup {s \in {side} : q = parent}
         /\ tree'[q] \in NodeType(Branches)
  <2>1. \A q \in DOMAIN tree : tree[q] \in NodeType(Branches)
    BY <1>2 DEF TreeOK
  <2>2. QED
    BY <1>10, <1>11, <2>1
<1>13. TreeOK'
  <2>1. DOMAIN tree' \subseteq PathSet(Branches)
    BY <1>2, <1>5, <1>11 DEF TreeOK, path
  <2>2. \A q \in DOMAIN tree' : tree'[q] \in NodeType(Branches)
    BY <1>9, <1>11, <1>12
  <2>3. tree' \in [DOMAIN tree' -> NodeType(Branches)]
    <3>1. tree' = [q \in DOMAIN tree' |-> tree'[q]]
      BY <1>1
    <3>2. QED
      BY <2>2, <3>1
  <2>4. \A q \in DOMAIN tree : NodeOK(Branches, q, tree'[q])
    BY <1>2, <1>12 DEF TreeOK, NodeOK
  <2>5. NodeOK(Branches, path, node)
    BY <1>6, <1>9 DEF NodeOK, path
  <2>6. QED
    BY <1>3, <1>11, <2>1, <2>3, <2>4, <2>5 DEF TreeOK
<1>14. Linked'
  <2>1. ASSUME NEW q \in DOMAIN tree, NEW n \in 0..Len(q)
        PROVE  SubSeq(q, 1, n) \in DOMAIN tree'
    BY <1>2, <1>11, <2>1 DEF Linked
  <2>2. ASSUME NEW n \in 0..Len(path) PROVE SubSeq(path, 1, n) \in DOMAIN tree'
    <3>1. CASE n = Len(path)
      <4>1. SubSeq(path, 1, Len(path)) = path
        BY <1>8
      <4>2. QED
        BY <1>11, <3>1, <4>1
    <3>2. CASE n # Len(path)
      <4>1. n \in 0..Len(parent) /\ n \in 0..Len(path) - 1
        BY <1>8, <3>2
      <4>2. SubSeq(path, 1, n) = SubSeq(parent, 1, n)
        BY <1>8, <4>1
      <4>3. QED
        BY <1>7, <2>1, <4>1, <4>2 DEF path, parent
    <3>3. QED
      BY <3>1, <3>2
  <2>3. ASSUME NEW q \in DOMAIN tree', NEW s \in tree'[q].succ
        PROVE  Ext(Branches, q, s) \in DOMAIN tree'
    <3>1. CASE q = path
      BY <1>9, <1>11, <3>1
    <3>2. CASE q \in DOMAIN tree /\ s \in tree[q].succ
      BY <1>2, <1>11, <3>2 DEF Linked
    <3>3. CASE q \in DOMAIN tree /\ s \notin tree[q].succ
      <4>1. q = parent /\ s = side
        BY <1>12, <3>3
      <4>2. QED
        BY <1>7, <1>11, <4>1 DEF path, parent, side
    <3>4. QED
      BY <1>11, <3>1, <3>2, <3>3
  <2>4. QED
    BY <1>3, <1>11, <2>1, <2>2, <2>3 DEF Linked
<1>15. \A x \in todo : /\ x[1] \in DOMAIN tree /\ x[2] \in BOOLEAN
                       /\ To(Branches, x[1]) \in DOMAIN Branches
                       /\ tree'[x[1]].st.sat # "no"
                       /\ Ext(Branches, x[1], x[2]) \notin DOMAIN tree'
  BY <1>2, <1>4, <1>11, <1>12 DEF TodoOK, Apart, Extender, path
<1>16. \A s \in BOOLEAN :
         /\ Ext(Branches, path, s) \notin DOMAIN tree'
         /\ Front(Ext(Branches, path, s)) = path \/ To(Branches, path) \notin DOMAIN Branches
  <2>1. SUFFICES ASSUME NEW s \in BOOLEAN
                 PROVE  /\ Ext(Branches, path, s) \notin DOMAIN tree'
                        /\ Front(Ext(Branches, path, s)) = path \/ To(Branches, path) \notin DOMAIN Branches
    OBVIOUS
  <2> DEFINE b == <<To(Branches, path), s>>
  <2>2. Ext(Branches, path, s) = Append(path, b)
    BY DEF Ext
  <2>3. b \in Sides(Branches) => Front(Append(path, b)) = path
    BY <1>8, Longer
  <2>4. To(Branches, path) \in DOMAIN Branches => b \in Sides(Branches)
    BY DEF Sides
  <2> HIDE DEF b
  <2>5. Append(path, b) # path
    BY <1>8
  <2>6. Append(path, b) \notin DOMAIN tree
    <3>1. SUFFICES ASSUME Append(path, b) \in DOMAIN tree PROVE FALSE
      OBVIOUS
    <3>2. /\ Len(Append(path, b)) = Len(path) + 1
          /\ SubSeq(Append(path, b), 1, Len(path)) = path
      BY <1>8
    <3>3. Len(path) \in 0..Len(Append(path, b))
      BY <1>8, <3>2
    <3>4. path \in DOMAIN tree
      BY <1>2, <3>1, <3>2, <3>3 DEF Linked
    <3>5. QED
      BY <1>7, <3>4 DEF path
  <2>7. QED
    BY <1>11, <2>2, <2>3, <2>4, <2>5, <2>6
<1>17. To(Branches, path) \in DOMAIN Branches \cup {End}
  BY <1>2, <1>5, ToThere DEF path
<1>18. \A x \in todo' : x \in todo \/
         (/\ x \in {path} \X BOOLEAN /\ t.becomes = "possible"
          /\ To(Branches, path) \in DOMAIN Branches)
  BY <1>1, <1>17 DEF path
<1>19. TodoOK'
  <2>1. ASSUME NEW x \in todo'
        PROVE  /\ x \in (DOMAIN tree') \X BOOLEAN
               /\ To(Branches, x[1]) \in DOMAIN Branches
               /\ tree'[x[1]].st.sat # "no"
               /\ Ext(Branches, x[1], x[2]) \notin DOMAIN tree'
    <3>1. CASE x \in todo
      <4>1. x \in (DOMAIN tree) \X BOOLEAN
        BY <1>2, <3>1 DEF TodoOK
      <4>2. QED
        BY <1>11, <1>15, <3>1, <4>1
    <3>2. CASE /\ x \in {path} \X BOOLEAN /\ t.becomes = "possible"
               /\ To(Branches, path) \in DOMAIN Branches
      <4>1. x[1] = path /\ x[2] \in BOOLEAN
        BY <3>2
      <4>2. tree'[path].st.sat # "no"
        BY <1>6, <1>9, <1>11, <3>2
      <4>3. QED
        BY <1>11, <1>16, <3>2, <4>1, <4>2
    <3>3. QED
      BY <1>18, <3>1, <3>2
  <2>2. QED
    BY <1>3, <2>1 DEF TodoOK
<1>20. ReadyOK'
  <2>1. ASSUME NEW q \in ready' PROVE q \in DOMAIN tree' /\ To(Branches, q) = End
    BY <1>1, <1>2, <1>11 DEF ReadyOK, path
  <2>2. QED
    BY <1>3, <2>1 DEF ReadyOK
<1>21. /\ TasksOK' /\ task'[a] = Idle
       /\ \A b \in Actors \ {a} : task'[b] = task[b]
  BY <1>1, <1>2, <1>3, IdleIs, TaskChanges
<1>22. DOMAIN tree \subseteq DOMAIN tree'
  BY <1>11
<1>23. StacksOK'
  BY <1>2, <1>3, <1>21, <1>22, IdleIs, StackChanges
<1>24. ASSUME NEW b \in Actors \ {a}, Extender(b)
       PROVE  /\ task[b].path \notin DOMAIN tree'
              /\ \A x \in todo' : Ext(Branches, x[1], x[2]) # task[b].path
  <2>1. /\ New(task[b].path) /\ task[b].path # path
        /\ \A x \in todo : Ext(Branches, x[1], x[2]) # task[b].path
    <3>1. Extender(a)
      BY <1>4 DEF Extender
    <3>2. QED
      BY <1>2, <1>24, <3>1 DEF Apart, path
  <2>2. task[b].path \notin DOMAIN tree /\ Front(task[b].path) # path
    BY <1>7, <2>1 DEF New, path
  <2>3. \A s \in BOOLEAN : To(Branches, path) \in DOMAIN Branches =>
          Ext(Branches, path, s) # task[b].path
    BY <1>16, <2>2
  <2>4. QED
    BY <1>11, <1>18, <2>1, <2>2, <2>3
<1>25. Apart'
  BY <1>2, <1>3, <1>21, <1>22, <1>24, IdleIs, ApartChanges
<1>26. QED
  BY <1>1, <1>2, <1>13, <1>14, <1>19, <1>20, <1>21, <1>23, <1>25, Kept DEF PCInv

\* A checked path is reported as what it is.
LEMMA ReportKeeps ==
  ASSUME PCInv, NEW a \in Actors, Finish(a), task[a].op = "check"
  PROVE  PCInv'
<1> DEFINE t    == task[a]
           path == t.path
<1>1. /\ t.at = "finish" \/ t.at = "mark"
      /\ task' = [task EXCEPT ![a] = Idle]
      /\ verdict' = [q \in DOMAIN verdict \cup {path} |->
                       IF q = path THEN t.becomes ELSE verdict[q]]
      /\ UNCHANGED <<program, strategy, tree, todo, ready, solver>>
  BY DEF Finish
<1>2. /\ SolversOK /\ ProgramOK(Branches) /\ TreeOK /\ Linked /\ TodoOK /\ ReadyOK
      /\ TasksOK /\ StacksOK /\ Apart /\ VerdictsOK
  BY DEF PCInv
<1>3. Branches' = Branches
  BY <1>1, Kept
<1>4. Busy(a)
  BY <1>1 DEF Busy
<1>5. /\ TaskOK(Branches, t) /\ path \in PathSet(Branches)
      /\ t.becomes \in {"possible", "impossible"}
  BY <1>4, OfTask
<1>6. (t.becomes = "possible") = (Passing(Branches, path) # {})
  BY <1>1, <1>5 DEF TaskOK
<1>7. VerdictsOK'
  <2>1. ASSUME NEW q \in DOMAIN verdict'
        PROVE  /\ q \in PathSet(Branches)
               /\ (verdict'[q] = "possible") = (Passing(Branches, q) # {})
    <3>1. CASE q = path
      BY <1>1, <1>5, <1>6, <3>1
    <3>2. CASE q # path
      <4>1. q \in DOMAIN verdict /\ verdict'[q] = verdict[q]
        BY <1>1, <3>2
      <4>2. QED
        BY <1>2, <4>1 DEF VerdictsOK
    <3>3. QED
      BY <3>1, <3>2
  <2>2. QED
    BY <1>3, <2>1 DEF VerdictsOK
<1>8. /\ TasksOK' /\ task'[a] = Idle
      /\ \A b \in Actors \ {a} : task'[b] = task[b]
  BY <1>1, <1>2, <1>3, IdleIs, TaskChanges
<1>9. DOMAIN tree' = DOMAIN tree
  BY <1>1
<1>10. StacksOK'
  BY <1>2, <1>3, <1>8, <1>9, IdleIs, StackChanges
<1>11. Apart'
  <2>1. \A b \in Actors : task'[b].at # "idle" =>
          task[b].at # "idle" /\ task'[b].op = task[b].op /\ task'[b].path = task[b].path
    BY <1>8, IdleIs
  <2>2. QED
    BY <1>1, <1>2, <1>3, <1>9, <2>1, ApartSame
<1>12. QED
  BY <1>1, <1>2, <1>7, <1>8, <1>10, <1>11, Kept DEF PCInv

\* Nothing that the invariant speaks of changes.
LEMMA SameKeeps ==
  ASSUME PCInv, UNCHANGED <<program, strategy, tree, todo, ready, task, solver, verdict>>
  PROVE  PCInv'
<1>1. Branches' = Branches
  BY Kept
<1>2. /\ SolversOK /\ ProgramOK(Branches) /\ TreeOK /\ Linked /\ TodoOK /\ ReadyOK
      /\ TasksOK /\ StacksOK /\ Apart /\ VerdictsOK
  BY DEF PCInv
<1>3. TasksOK' /\ StacksOK'
  BY <1>1, <1>2 DEF TasksOK, StacksOK, Busy, Doomed
<1>4. Apart'
  BY <1>1, <1>2, ApartSame
<1>5. QED
  BY <1>2, <1>3, <1>4, Kept DEF PCInv

LEMMA NextPCInv ==
  ASSUME PCInv, [Next]_vars
  PROVE  PCInv'
<1>1. ASSUME NEW a \in Actors, NEW x \in todo, StartExtend(a, x[1], x[2]) PROVE PCInv'
  BY <1>1, StartExtendKeeps
<1>2. ASSUME NEW a \in Actors, NEW path \in ready, StartCheck(a, path) PROVE PCInv'
  BY <1>2, StartCheckKeeps
<1>3. ASSUME NEW a \in Actors, Solve(a) PROVE PCInv'
  BY <1>3, SolveKeeps
<1>4. ASSUME NEW a \in Actors, Mark(a) PROVE PCInv'
  BY <1>4, MarkKeeps
<1>5. ASSUME NEW a \in Actors, Finish(a) PROVE PCInv'
  <2>1. Busy(a)
    BY <1>5 DEF Finish, Busy
  <2>2. task[a].op \in {"extend", "check"}
    BY <2>1, OfTask
  <2>3. QED
    BY <1>5, <2>2, PublishKeeps, ReportKeeps
<1>6. ASSUME Turn \/ Over \/ UNCHANGED vars PROVE PCInv'
  BY <1>6, SameKeeps DEF Turn, Over, vars
<1>7. QED
  BY <1>1, <1>2, <1>3, <1>4, <1>5, <1>6 DEF Next

\* PCInv is an invariant under the default strategy: every check that z3 has
\* answered, every mark and every report happened for the right reason.
THEOREM PCInvariance == Spec /\ strategy = "unsat-core" => []PCInv
<1>1. Init /\ strategy = "unsat-core" => PCInv
  BY InitPCInv
<1>2. PCInv /\ [Next]_vars => PCInv'
  BY NextPCInv
<1>3. QED
  BY <1>1, <1>2, PTL DEF Spec

\* apply_unsat_core and mark_unsat mark no path that a packet could take,
\* whichever checks and extensions run at the same time.
THEOREM NoPossiblePathMarked == Spec /\ strategy = "unsat-core" => []MarksSound
<1>1. PCInv => MarksSound
  <2>1. SUFFICES ASSUME PCInv, NEW path \in DOMAIN tree, Refuted(path)
                 PROVE  Takes(path) = {}
    BY DEF MarksSound
  <2>2. path \in PathSet(Branches) /\ NodeOK(Branches, path, tree[path])
    BY <2>1 DEF PCInv, TreeOK
  <2>3. Passing(Branches, path) = {}
    BY <2>1, <2>2 DEF Refuted, NodeOK, Tells
  <2>4. QED
    BY <2>2, <2>3, InModule
<1>2. QED
  BY <1>1, PCInvariance, PTL

\* possible::check reports a complete path as possible exactly if a packet
\* takes it.
THEOREM ReportsRight == Spec /\ strategy = "unsat-core" => []VerdictsRight
<1>1. PCInv => VerdictsRight
  BY InModule DEF PCInv, VerdictsOK, VerdictsRight
<1>2. QED
  BY <1>1, PCInvariance, PTL

\* The min_value that check_sat raises is a lower bound of the sizes of all
\* packets that take the path, and its model is one of the smallest.
THEOREM SizesRight == Spec /\ strategy = "unsat-core" => []BoundFits
<1>1. PCInv => BoundFits
  <2>1. SUFFICES ASSUME PCInv, NEW path \in DOMAIN tree
                 PROVE  LET st == tree[path].st
                        IN  /\ \A p \in Takes(path) : st.min_value <= Length[p]
                            /\ st.sat = "yes" /\ st.assumptions # <<>> =>
                                 st.model \in Least(Takes(path)) /\ st.min_value = Length[st.model]
    BY DEF BoundFits
  <2> DEFINE st == tree[path].st
  <2>2. path \in PathSet(Branches) /\ Tells(Branches, path, st)
    BY <2>1 DEF PCInv, TreeOK, NodeOK
  <2>3. Takes(path) = Passing(Branches, path)
    BY <2>2, InModule
  <2>4. PICK m \in 0..Len(path) : \A p \in Upto(Branches, path, m) : st.min_value <= Length[p]
    BY <2>2 DEF Tells, BoundOf
  <2>5. Len(path) \in m..Len(path)
    BY <2>2 DEF PathSet
  <2>6. Upto(Branches, path, Len(path)) \subseteq Upto(Branches, path, m)
    BY <2>2, <2>5, UptoShrinks
  <2>7. \A p \in Takes(path) : st.min_value <= Length[p]
    BY <2>3, <2>4, <2>6 DEF Passing
  <2>8. QED
    BY <2>2, <2>3, <2>7 DEF Tells
<1>2. QED
  BY <1>1, PCInvariance, PTL

-----------------------------------------------------------------------------
(* Everything that has grown out of a marked path is marked in the end.    *)
(*                                                                         *)
(* A path that is published while its predecessor is marked would be       *)
(* missed.  Without checks of branches this cannot happen as only Main     *)
(* extends, and nobody marks then.  If all branches are checked, a path    *)
(* that can be extended is taken by a packet, and is never marked.         *)

Each     == "check-each-branch" \in features
Unlikely == "check-unlikely-edges" \in features

\* Only what is possible is extended.
Rooted ==
  /\ \A path \in DOMAIN tree : path # <<>> =>
       /\ Front(path) \in DOMAIN tree /\ tree[Front(path)].kind = "possible"
       /\ path = Ext(Branches, Front(path), Last(path)[2])
  /\ \A x \in todo : tree[x[1]].kind = "possible"
  /\ \A a \in Actors : Extender(a) => tree[Front(task[a].path)].kind = "possible"

\* A path that was not marked knows what has grown out of it.
Children ==
  \A path \in DOMAIN tree :
    path # <<>> /\ ~tree[Front(path)].marked => Last(path)[2] \in tree[Front(path)].succ

\* If all branches are checked, a possible path is taken by a packet.
EachTaken ==
  Each =>
    /\ \A path \in DOMAIN tree : tree[path].kind = "possible" => path \notin Doomed
    /\ \A a \in Actors : Extender(a) /\ task[a].at = "finish" /\ task[a].becomes = "possible" =>
         Passing(Branches, task[a].path) # {}

\* If no branch is checked, paths are extended or checked but never both.
InTurn ==
  ~Each /\ ~Unlikely =>
    /\ satcheck = {}
    /\ \A a \in Actors : Extender(a) =>
         /\ phase = "extend" /\ task[a].at = "finish"
         /\ tree[Front(task[a].path)].marked => task[a].becomes = "impossible"
    /\ \A a \in Actors : Checker(a) => phase = "check"

\* What grew out of a marked path and was not reached yet is on some stack.
OnSomeStack(path) == \E a \in Actors : task[a].at = "mark" /\ path \in ToSet(task[a].stack)

Followed ==
  ~Unlikely =>
    \A path \in DOMAIN tree :
      path # <<>> /\ tree[Front(path)].marked =>
        tree[path].marked \/ tree[path].kind = "impossible" \/ OnSomeStack(path)

MarkInv == Rooted /\ Children /\ EachTaken /\ InTurn /\ Followed

LEMMA InitMarkInv ==
  ASSUME Init, PCInv
  PROVE  MarkInv
<1>1. /\ tree = [path \in {<<>>} |-> NewPath("possible", Exec0)]
      /\ todo = {<<>>} \X BOOLEAN /\ satcheck = {} /\ task = [a \in Actors |-> Idle]
  BY DEF Init
<1>2. DOMAIN tree = {<<>>} /\ tree[<<>>].kind = "possible"
  BY <1>1 DEF NewPath
<1>3. \A a \in Actors : ~Busy(a)
  BY <1>1, IdleIs DEF Busy
<1>4. Rooted
  <2>1. \A x \in {<<>>} \X BOOLEAN : x[1] = <<>>
    OBVIOUS
  <2>2. QED
    BY <1>1, <1>2, <1>3, <2>1 DEF Rooted, Extender
<1>5. Children /\ Followed
  BY <1>2 DEF Children, Followed
<1>6. EachTaken
  <2>1. Passing(Branches, <<>>) = Packets
    BY DEF Passing, Upto
  <2>2. <<>> \notin Doomed
    BY <2>1, PacketsAssumption DEF Doomed
  <2>3. QED
    BY <1>2, <1>3, <2>2 DEF EachTaken, Extender
<1>7. InTurn
  BY <1>1, <1>3 DEF InTurn, Extender, Checker
<1>8. QED
  BY <1>4, <1>5, <1>6, <1>7 DEF MarkInv

\* One thread goes on; no path is added or marked.
LEMMA MarksStay ==
  ASSUME MarkInv, UNCHANGED <<program, strategy, features, phase>>, DOMAIN tree' = DOMAIN tree,
         \A path \in DOMAIN tree :
           /\ tree'[path].kind = tree[path].kind /\ tree'[path].marked = tree[path].marked
           /\ tree'[path].succ = tree[path].succ,
         todo' \subseteq todo,
         NEW a \in Actors, \A b \in Actors \ {a} : task'[b] = task[b],
         task[a].at = "mark" => task[a].stack = <<>>,
         Extender(a)' => /\ Front(task'[a].path) \in DOMAIN tree
                         /\ tree[Front(task'[a].path)].kind = "possible",
         \A x \in todo : x[1] \in DOMAIN tree,
         \A b \in Actors : Extender(b) => Front(task[b].path) \in DOMAIN tree,
         Each /\ Extender(a)' /\ task'[a].at = "finish" /\ task'[a].becomes = "possible" =>
           Passing(Branches, task'[a].path) # {},
         ~Each /\ ~Unlikely =>
           /\ satcheck' = {}
           /\ Extender(a)' =>
                /\ phase = "extend" /\ task'[a].at = "finish"
                /\ tree[Front(task'[a].path)].marked => task'[a].becomes = "impossible"
           /\ Checker(a)' => phase = "check"
  PROVE  MarkInv'
<1>1. Branches' = Branches /\ Each' = Each /\ Unlikely' = Unlikely
  BY Kept DEF Each, Unlikely
<1>2. Rooted /\ Children /\ EachTaken /\ InTurn /\ Followed
  BY DEF MarkInv
<1>3. \A b \in Actors \ {a} : (Extender(b)' <=> Extender(b)) /\ (Checker(b)' <=> Checker(b))
  BY DEF Extender, Checker, Busy
<1>4. Rooted'
  <2>1. \A path \in DOMAIN tree' : path # <<>> =>
          /\ Front(path) \in DOMAIN tree' /\ tree'[Front(path)].kind = "possible"
          /\ path = Ext(Branches, Front(path), Last(path)[2])
    BY <1>2 DEF Rooted
  <2>2. \A x \in todo' : tree'[x[1]].kind = "possible"
    BY <1>2 DEF Rooted
  <2>3. \A b \in Actors : Extender(b)' => tree'[Front(task'[b].path)].kind = "possible"
    BY <1>2, <1>3 DEF Rooted
  <2>4. QED
    BY <1>1, <2>1, <2>2, <2>3 DEF Rooted
<1>5. Children'
  BY <1>2 DEF Children, Rooted
<1>6. EachTaken'
  <2>1. Doomed' = Doomed
    BY <1>1 DEF Doomed
  <2>2. ASSUME Each
        PROVE  /\ \A path \in DOMAIN tree' : tree'[path].kind = "possible" => path \notin Doomed
               /\ \A b \in Actors :
                    Extender(b)' /\ task'[b].at = "finish" /\ task'[b].becomes = "possible" =>
                      Passing(Branches, task'[b].path) # {}
    BY <1>2, <1>3, <2>2 DEF EachTaken
  <2>3. QED
    BY <1>1, <2>1, <2>2 DEF EachTaken
<1>7. InTurn'
  <2>1. ASSUME ~Each, ~Unlikely
        PROVE  /\ satcheck' = {}
               /\ \A b \in Actors : Extender(b)' =>
                    /\ phase' = "extend" /\ task'[b].at = "finish"
                    /\ tree'[Front(task'[b].path)].marked => task'[b].becomes = "impossible"
               /\ \A b \in Actors : Checker(b)' => phase' = "check"
    <3>1. /\ \A b \in Actors : Extender(b) =>
               /\ phase = "extend" /\ task[b].at = "finish"
               /\ tree[Front(task[b].path)].marked => task[b].becomes = "impossible"
          /\ \A b \in Actors : Checker(b) => phase = "check"
      BY <1>2, <2>1 DEF InTurn
    <3>2. QED
      BY <1>3, <2>1, <3>1
  <2>2. QED
    BY <1>1, <2>1 DEF InTurn
<1>8. Followed'
  <2>1. ASSUME NEW path, OnSomeStack(path) PROVE OnSomeStack(path)'
    <3>1. PICK b \in Actors : task[b].at = "mark" /\ path \in ToSet(task[b].stack)
      BY <2>1 DEF OnSomeStack
    <3>2. b # a
      BY <3>1 DEF ToSet
    <3>3. QED
      BY <3>1, <3>2 DEF OnSomeStack
  <2>2. QED
    BY <1>1, <1>2, <2>1 DEF Followed, Rooted
<1>9. QED
  BY <1>4, <1>5, <1>6, <1>7, <1>8 DEF MarkInv

LEMMA InTree ==
  ASSUME PCInv
  PROVE  /\ \A x \in todo : x[1] \in DOMAIN tree
         /\ \A b \in Actors : Extender(b) => Front(task[b].path) \in DOMAIN tree
         /\ DOMAIN task = Actors
         /\ \A path \in DOMAIN tree : tree[path].kind \in {"possible", "impossible"}
         /\ \A path \in DOMAIN tree : tree[path].marked => path \in Doomed
BY DEF PCInv, TodoOK, Apart, New, TasksOK, TreeOK, NodeType, NodeOK, Doomed

LEMMA StartExtendMarks ==
  ASSUME PCInv, PCInv', MarkInv, NEW a \in Actors, NEW path, NEW side, StartExtend(a, path, side)
  PROVE  MarkInv'
<1> DEFINE child   == Extension(path, side)
           st      == Apply(tree[path].st, AssumptionOf(child))
           unsat   == tree[path].marked \/ st.sat = "no"
           becomes == IF unsat THEN "impossible" ELSE "possible"
           at      == IF ~unsat /\ may_satcheck(path, side) /\ st.assumptions # <<>> THEN "solve" ELSE "finish"
           t       == Task("extend", at, child, becomes, st)
<1>1. /\ <<path, side>> \in todo /\ todo' \subseteq todo /\ phase = "extend" /\ task[a] = Idle
      /\ task' = [task EXCEPT ![a] = t]
      /\ UNCHANGED <<program, features, strategy, phase, tree, ready, satcheck>>
  BY DEF StartExtend
<1>2. MarkInv /\ Branches' = Branches
  BY <1>1, Kept
<1>3. path \in DOMAIN tree /\ To(Branches, path) \in DOMAIN Branches /\ side \in BOOLEAN
      /\ tree[path].kind = "possible"
  BY <1>1 DEF PCInv, TodoOK, MarkInv, Rooted
<1>4. child # <<>> /\ Front(child) = path
  <2>1. <<To(Branches, path), side>> \in Sides(Branches) /\ path \in Seq(Sides(Branches))
    BY <1>3 DEF Sides, PCInv, TreeOK, PathSet
  <2>2. child = Append(path, <<To(Branches, path), side>>)
    BY InModule DEF Extension
  <2> HIDE DEF child
  <2>3. QED
    BY <2>1, <2>2, Longer
<1> HIDE DEF child, st
<1>5. /\ t.op = "extend" /\ t.at = at /\ t.path = child /\ t.becomes = becomes /\ t.st = st
      /\ at \in {"solve", "finish"}
  BY DEF Task
<1> HIDE DEF t
<1>6. task'[a] = t /\ \A b \in Actors \ {a} : task'[b] = task[b]
  BY <1>1, InTree
<1>7. task[a].at # "mark"
  BY <1>1, IdleIs
<1>8. Each /\ task'[a].at = "finish" /\ task'[a].becomes = "possible" =>
        Passing(Branches, task'[a].path) # {}
  <2>1. SUFFICES ASSUME Each, at = "finish", becomes = "possible"
                 PROVE  Passing(Branches, child) # {}
    BY <1>5, <1>6
  <2>2. st.sat # "no" /\ st.assumptions = <<>>
    BY <2>1 DEF may_satcheck, Each
  <2>3. Busy(a)'
    BY <1>5, <1>6 DEF Busy
  <2>4. TaskOK(Branches, t)
    BY <1>2, <1>6, <2>3 DEF PCInv, TasksOK
  <2>5. Fitting(st) \subseteq Passing(Branches, child)
    BY <1>5, <2>2, <2>4 DEF TaskOK, Tells
  <2>6. Fitting(st) = Packets
    BY <2>2 DEF Fitting
  <2>7. QED
    BY <2>5, <2>6, PacketsAssumption
<1>9. ~Each /\ ~Unlikely =>
        /\ satcheck' = {}
        /\ task'[a].at = "finish"
        /\ tree[Front(task'[a].path)].marked => task'[a].becomes = "impossible"
  <2>1. SUFFICES ASSUME ~Each, ~Unlikely
                 PROVE  satcheck = {} /\ at = "finish" /\ (tree[path].marked => becomes = "impossible")
    BY <1>1, <1>4, <1>5, <1>6
  <2>2. satcheck = {}
    BY <2>1 DEF MarkInv, InTurn
  <2>3. ~may_satcheck(path, side)
    BY <2>1, <2>2 DEF may_satcheck, Each
  <2>4. QED
    BY <2>2, <2>3
<1>10. Front(task'[a].path) \in DOMAIN tree /\ tree[Front(task'[a].path)].kind = "possible"
  BY <1>3, <1>4, <1>5, <1>6
<1>11. ~Checker(a)'
  BY <1>5, <1>6 DEF Checker
<1>12. QED
  BY <1>1, <1>6, <1>7, <1>8, <1>9, <1>10, <1>11, InTree, MarksStay

LEMMA StartCheckMarks ==
  ASSUME PCInv, MarkInv, NEW a \in Actors, NEW path, StartCheck(a, path)
  PROVE  MarkInv'
<1> DEFINE at == IF IsDecided(path) \/ tree[path].st.assumptions = <<>> THEN "finish" ELSE "solve"
           becomes == IF IsUnsat(path) THEN "impossible" ELSE "possible"
           t == Task("check", at, path, becomes, tree[path].st)
<1>1. /\ todo' = todo /\ phase = "check" /\ task[a] = Idle
      /\ task' = [task EXCEPT ![a] = t]
      /\ UNCHANGED <<program, features, strategy, phase, tree, satcheck>>
  BY DEF StartCheck
<1>2. t.op = "check"
  BY DEF Task
<1> HIDE DEF t
<1>3. task'[a] = t /\ \A b \in Actors \ {a} : task'[b] = task[b]
  BY <1>1, InTree
<1>4. ~Extender(a)'
  BY <1>2, <1>3 DEF Extender
<1>5. task[a].at # "mark"
  BY <1>1, IdleIs
<1>6. ~Each /\ ~Unlikely => satcheck' = {}
  BY <1>1 DEF MarkInv, InTurn
<1>7. QED
  BY <1>1, <1>3, <1>4, <1>5, <1>6, InTree, MarksStay

LEMMA SolveMarks ==
  ASSUME PCInv, PCInv', MarkInv, NEW a \in Actors, Solve(a)
  PROVE  MarkInv'
<1> DEFINE t        == task[a]
           path     == t.path
           prefixes == "impossible-prefixes" \in features
<1>1. PICK answer \in Answers(strategy, solver[a], t.st, prefixes) :
        LET st     == CheckSat(t.st, answer)
            blamed == IF answer.sat \/ ~prefixes THEN 0 ELSE Blamed(t.path, answer.core)
            self   == IF answer.sat \/ t.op = "extend" THEN <<>> ELSE <<t.path>>
            prefix == IF blamed \in {0, Len(t.path)} THEN <<>> ELSE <<SubSeq(t.path, 1, blamed)>>
        IN  /\ satcheck' = satcheck \cup Enabled(t.path, blamed)
            /\ task' = [task EXCEPT ![a] =
                    [t EXCEPT !.at = IF answer.sat THEN "finish" ELSE "mark",
                              !.becomes = IF answer.sat THEN t.becomes ELSE "impossible",
                              !.st = st,
                              !.stack = self \o prefix]]
            /\ tree' = IF t.op = "check" THEN [tree EXCEPT ![t.path].st = st] ELSE tree
  BY Zenon DEF Solve
<1> DEFINE st     == CheckSat(t.st, answer)
           blamed == IF answer.sat \/ ~prefixes THEN 0 ELSE Blamed(t.path, answer.core)
           self   == IF answer.sat \/ t.op = "extend" THEN <<>> ELSE <<t.path>>
           prefix == IF blamed \in {0, Len(t.path)} THEN <<>> ELSE <<SubSeq(t.path, 1, blamed)>>
           at     == IF answer.sat THEN "finish" ELSE "mark"
           becomes == IF answer.sat THEN t.becomes ELSE "impossible"
           stack  == self \o prefix
           u      == [t EXCEPT !.at = at, !.becomes = becomes, !.st = st, !.stack = stack]
<1>2. /\ satcheck' = satcheck \cup Enabled(t.path, blamed) /\ task' = [task EXCEPT ![a] = u]
      /\ tree' = IF t.op = "check" THEN [tree EXCEPT ![t.path].st = st] ELSE tree
  BY <1>1
<1>3. t.at = "solve" /\ UNCHANGED <<program, features, strategy, phase, todo>>
  BY DEF Solve
<1>4. Branches' = Branches
  BY <1>3, Kept
<1>5. Busy(a)
  BY <1>3 DEF Busy
<1>6. /\ t \in TaskType(Branches) /\ t.op \in {"extend", "check"}
      /\ t.op = "extend" => path # <<>> /\ Front(path) \in DOMAIN tree
  BY <1>5, OfTask DEF New
<1> HIDE DEF st, at, becomes, stack
<1>7. u.at = at /\ u.becomes = becomes /\ u.st = st /\ u.op = t.op /\ u.path = path
  <2> HIDE DEF t
  <2>1. QED
    BY <1>6 DEF TaskType, path
<1> HIDE DEF u
<1>8. task'[a] = u /\ \A b \in Actors \ {a} : task'[b] = task[b]
  BY <1>2, InTree
<1>9. /\ DOMAIN tree' = DOMAIN tree
      /\ \A q \in DOMAIN tree :
           /\ tree'[q].kind = tree[q].kind /\ tree'[q].marked = tree[q].marked
           /\ tree'[q].succ = tree[q].succ
  <2>1. CASE t.op = "check"
    <3>1. tree' = [tree EXCEPT ![path].st = st]
      BY <1>2, <2>1
    <3> HIDE DEF path
    <3>2. \A q \in DOMAIN tree : tree[q] \in NodeType(Branches)
      BY DEF PCInv, TreeOK
    <3>3. QED
      BY <3>1, <3>2 DEF NodeType
  <2>2. CASE t.op # "check"
    BY <1>2, <2>2
  <2>3. QED
    BY <2>1, <2>2
<1>10. Each /\ task'[a].at = "finish" => Passing(Branches, task'[a].path) # {}
  <2>1. SUFFICES ASSUME at = "finish" PROVE Passing(Branches, path) # {}
    BY <1>7, <1>8
  <2>2. answer.sat
    BY <2>1 DEF at
  <2>3. st.sat = "yes"
    <3>1. t.st \in ExecType(Branches)
      BY <1>5, OfTask
    <3>2. QED
      BY <2>2, <3>1 DEF st, CheckSat, ExecType
  <2>4. Busy(a)'
    BY <1>7, <1>8, <2>1 DEF Busy
  <2>5. TaskOK(Branches, u)
    BY <1>4, <1>8, <2>4 DEF PCInv, TasksOK
  <2>6. st.model \in Least(Passing(Branches, path))
    BY <1>7, <2>3, <2>5 DEF TaskOK, Tells
  <2>7. QED
    BY <2>6 DEF Least
<1>11. ~Each /\ ~Unlikely => satcheck' = {} /\ ~Extender(a)' /\ (Checker(a)' => phase = "check")
  <2>1. SUFFICES ASSUME ~Each, ~Unlikely
                 PROVE  satcheck' = {} /\ ~Extender(a)' /\ (Checker(a)' => phase = "check")
    OBVIOUS
  <2>2. /\ satcheck = {} /\ (Extender(a) => t.at = "finish") /\ (Checker(a) => phase = "check")
    BY <2>1 DEF MarkInv, InTurn
  <2>3. Enabled(path, blamed) = {}
    BY <2>1 DEF Enabled, Unlikely
  <2>4. ~Extender(a) /\ Checker(a)
    BY <1>3, <1>5, <1>6, <2>2 DEF Extender, Checker
  <2>5. ~Extender(a)'
    BY <1>5, <1>7, <1>8, <2>4 DEF Extender
  <2>6. QED
    BY <1>2, <2>2, <2>3, <2>4, <2>5
<1>12. Extender(a)' => Front(task'[a].path) \in DOMAIN tree /\ tree[Front(task'[a].path)].kind = "possible"
  <2>1. Extender(a)' => Extender(a)
    BY <1>5, <1>7, <1>8 DEF Extender
  <2>2. QED
    BY <1>6, <1>7, <1>8, <2>1 DEF MarkInv, Rooted, Extender
<1>13. task[a].at # "mark"
  BY <1>3
<1>14. QED
  BY <1>3, <1>8, <1>9, <1>10, <1>11, <1>12, <1>13, InTree, MarksStay

\* What is in two sequences is in the one they make.
LEMMA InBoth ==
  ASSUME NEW S, NEW s \in Seq(S), NEW t \in Seq(S)
  PROVE  ToSet(s) \subseteq ToSet(s \o t) /\ ToSet(t) \subseteq ToSet(s \o t)
<1> DEFINE st == s \o t
<1>1. /\ Len(s) \in Nat /\ Len(t) \in Nat /\ DOMAIN st = 1..Len(s) + Len(t)
      /\ DOMAIN s = 1..Len(s) /\ DOMAIN t = 1..Len(t)
      /\ \A n \in 1..Len(s) : st[n] = s[n]
      /\ \A n \in 1..Len(t) : st[Len(s) + n] = t[n]
  OBVIOUS
<1> HIDE DEF st
<1>2. \A n \in 1..Len(s) : n \in DOMAIN st
  BY <1>1
<1>3. \A n \in 1..Len(t) : Len(s) + n \in DOMAIN st
  BY <1>1
<1>4. QED
  BY <1>1, <1>2, <1>3 DEF ToSet, st

\* What is in a sequence is at its end or before it.
LEMMA InFront ==
  ASSUME NEW S, NEW s \in Seq(S), s # <<>>
  PROVE  ToSet(s) \subseteq ToSet(Front(s)) \cup {Last(s)}
<1> DEFINE f == Front(s)
<1>1. /\ f \in Seq(S) /\ Len(f) = Len(s) - 1
      /\ \A n \in 1..Len(s) - 1 : f[n] = s[n]
      /\ Last(s) = s[Len(s)] /\ Len(s) \in Nat \ {0}
  BY Shorter
<1> HIDE DEF f
<1>2. DOMAIN s = 1..Len(s) /\ DOMAIN f = 1..Len(s) - 1
  BY <1>1
<1>3. ASSUME NEW n \in DOMAIN s PROVE s[n] = Last(s) \/ \E m \in DOMAIN f : f[m] = s[n]
  <2>1. n = Len(s) \/ n \in 1..Len(s) - 1
    BY <1>1, <1>2
  <2>2. QED
    BY <1>1, <1>2, <2>1
<1>4. QED
  BY <1>3 DEF ToSet, f

\* All possible extensions are among them.
LEMMA GrownHas ==
  ASSUME NEW path, NEW side \in BOOLEAN, side \in tree[path].succ,
         tree[Extension(path, side)].kind = "possible"
  PROVE  \E n \in DOMAIN Grown(path) : Grown(path)[n] = side
<1> DEFINE if_grown(s) ==
             IF s \in tree[path].succ /\ tree[Extension(path, s)].kind = "possible"
             THEN <<s>> ELSE <<>>
           i == TRUE
           j == FALSE
           T == if_grown(i)
           F == if_grown(j)
<1>1. Grown(path) = T \o F
  BY DEF Grown
<1>2. T \in {<<i>>, <<>>} /\ F \in {<<j>>, <<>>}
  OBVIOUS
<1>3. (side = i => T = <<i>>) /\ (side = j => F = <<j>>)
  OBVIOUS
<1>4. side = i \/ side = j
  OBVIOUS
<1>5. T \in Seq({i, j}) /\ F \in Seq({i, j})
  <2> HIDE DEF T, F, i, j
  <2>1. <<i>> \in Seq({i, j}) /\ <<j>> \in Seq({i, j}) /\ <<>> \in Seq({i, j})
    OBVIOUS
  <2>2. QED
    BY <1>2, <2>1
<1>6. (side = i => side \in ToSet(T)) /\ (side = j => side \in ToSet(F))
  <2>1. \A x : x \in ToSet(<<x>>)
    <3>1. ASSUME NEW x PROVE 1 \in DOMAIN <<x>> /\ <<x>>[1] = x
      OBVIOUS
    <3>2. QED
      BY <3>1 DEF ToSet
  <2> HIDE DEF T, F, i, j
  <2>2. QED
    BY <1>3, <2>1
<1> HIDE DEF T, F, i, j
<1>7. side \in ToSet(T \o F)
  BY <1>4, <1>5, <1>6, InBoth
<1>8. QED
  BY <1>1, <1>7 DEF ToSet

\* What grew out of a path that is marked now is put on the stack.
LEMMA MarkMarks ==
  ASSUME PCInv, MarkInv, NEW a \in Actors, Mark(a)
  PROVE  MarkInv'
<1> DEFINE t     == task[a]
           path  == Last(t.stack)
           sides == Grown(path)
           kids  == [n \in DOMAIN sides |-> Extension(path, sides[n])]
           rest  == IF tree[path].marked THEN Front(t.stack) ELSE Front(t.stack) \o kids
           u     == [t EXCEPT !.stack = rest]
<1>1. /\ t.at = "mark" /\ t.stack # <<>> /\ task' = [task EXCEPT ![a] = u]
      /\ IF tree[path].marked THEN tree' = tree
         ELSE tree' = [tree EXCEPT ![path].marked = TRUE, ![path].succ = @ \ ToSet(sides)]
      /\ UNCHANGED <<program, features, strategy, phase, todo, satcheck>>
  BY DEF Mark
<1>2. Branches' = Branches /\ Each' = Each /\ Unlikely' = Unlikely
  BY <1>1, Kept DEF Each, Unlikely
<1>3. Busy(a)
  BY <1>1 DEF Busy
<1>4. t \in TaskType(Branches) /\ t.stack \in Seq(Doomed)
  BY <1>3, OfTask
<1>5. u.at = "mark" /\ u.stack = rest /\ u.op = t.op /\ u.path = t.path /\ u.becomes = t.becomes
  <2> HIDE DEF t, rest
  <2>1. QED
    BY <1>1, <1>4 DEF TaskType
<1>6. /\ Front(t.stack) \in Seq(Doomed) /\ path \in Doomed
      /\ ToSet(t.stack) \subseteq ToSet(Front(t.stack)) \cup {path}
  <2>1. Front(t.stack) \in Seq(Doomed) /\ path = t.stack[Len(t.stack)] /\ Len(t.stack) \in Nat \ {0}
    BY <1>1, <1>4, Shorter
  <2>2. Len(t.stack) \in 1..Len(t.stack)
    BY <2>1
  <2>3. path \in Doomed
    BY <1>4, <2>1, <2>2
  <2> DEFINE s == t.stack
  <2>4. s \in Seq(Doomed) /\ s # <<>>
    BY <1>1, <1>4
  <2> HIDE DEF s
  <2>5. ToSet(s) \subseteq ToSet(Front(s)) \cup {Last(s)}
    BY <2>4, InFront
  <2>6. QED
    BY <2>1, <2>3, <2>5 DEF s
<1>7. path \in DOMAIN tree /\ \A q \in DOMAIN tree : tree[q] \in NodeType(Branches)
  BY <1>6 DEF Doomed, PCInv, TreeOK
<1>8. sides \in Seq(tree[path].succ)
  BY GrownSides
<1>9. /\ Rooted /\ Children /\ EachTaken /\ InTurn /\ Followed
  BY DEF MarkInv
<1>10. ToSet(Front(t.stack)) \subseteq ToSet(rest) /\ (~tree[path].marked => ToSet(kids) \subseteq ToSet(rest))
  <2>1. CASE tree[path].marked
    BY <2>1
  <2>2. CASE ~tree[path].marked
    <3> DEFINE f == Front(t.stack)
               k == kids
               K == {Extension(path, sides[n]) : n \in DOMAIN sides}
    <3>1. rest = f \o k /\ k \in Seq(K) /\ f \in Seq(Doomed)
      BY <1>6, <1>8, <2>2
    <3> HIDE DEF f, k, K
    <3>2. ToSet(f) \subseteq ToSet(f \o k) /\ ToSet(k) \subseteq ToSet(f \o k)
      <4>1. f \in Seq(Doomed \cup K) /\ k \in Seq(Doomed \cup K)
        BY <3>1
      <4>2. QED
        BY <4>1, InBoth
    <3>3. QED
      BY <3>1, <3>2 DEF f, k
  <2>3. QED
    BY <2>1, <2>2
<1> HIDE DEF u, rest
<1>11. task'[a] = u /\ \A b \in Actors \ {a} : task'[b] = task[b]
  BY <1>1, InTree
<1> HIDE DEF path
<1>12. /\ DOMAIN tree' = DOMAIN tree
       /\ \A q \in DOMAIN tree : tree'[q].kind = tree[q].kind
       /\ \A q \in DOMAIN tree : q # path => tree'[q] = tree[q]
       /\ tree'[path].marked
  <2> HIDE DEF sides
  <2>1. QED
    BY <1>1, <1>7 DEF NodeType
<1>13. \A b \in Actors :
         /\ (Extender(b)' <=> Extender(b)) /\ (Checker(b)' <=> Checker(b))
         /\ task'[b].at = task[b].at
         /\ Extender(b) => task'[b].path = task[b].path /\ task'[b].becomes = task[b].becomes
  BY <1>1, <1>3, <1>5, <1>11 DEF Extender, Checker, Busy
<1>14. Rooted'
  BY <1>1, <1>2, <1>9, <1>12, <1>13, InTree DEF Rooted
<1>15. Children'
  BY <1>9, <1>12 DEF Children, Rooted
<1>16. EachTaken'
  <2>1. Doomed' = Doomed
    BY <1>2, <1>12 DEF Doomed
  <2>2. QED
    BY <1>2, <1>9, <1>12, <1>13, <2>1 DEF EachTaken
<1>17. InTurn'
  <2>1. ASSUME ~Each, ~Unlikely
        PROVE  /\ satcheck = {} /\ \A b \in Actors : ~Extender(b)
               /\ \A b \in Actors : Checker(b) => phase = "check"
    <3>1. /\ satcheck = {}
          /\ \A b \in Actors : Extender(b) => phase = "extend" /\ task[b].at = "finish"
          /\ \A b \in Actors : Checker(b) => phase = "check"
      BY <1>9, <2>1 DEF InTurn
    <3>2. Checker(a)
      BY <1>1, <1>3, <3>1, OfTask DEF Extender, Checker
    <3>3. QED
      BY <3>1, <3>2
  <2>2. QED
    BY <1>1, <1>2, <1>13, <2>1 DEF InTurn
<1>18. Followed'
  <2>1. ASSUME ~Unlikely, NEW q \in DOMAIN tree, q # <<>>, tree'[Front(q)].marked
        PROVE  tree'[q].marked \/ tree'[q].kind = "impossible" \/ OnSomeStack(q)'
    <3>1. Front(q) \in DOMAIN tree /\ q = Ext(Branches, Front(q), Last(q)[2])
      BY <1>9, <2>1 DEF Rooted
    <3>2. CASE tree[Front(q)].marked
      <4>1. tree[q].marked \/ tree[q].kind = "impossible" \/ OnSomeStack(q)
        BY <1>9, <2>1, <3>2 DEF Followed
      <4>2. CASE tree[q].marked \/ tree[q].kind = "impossible"
        BY <1>12, <4>2
      <4>3. CASE OnSomeStack(q)
        <5>1. PICK b \in Actors : task[b].at = "mark" /\ q \in ToSet(task[b].stack)
          BY <4>3 DEF OnSomeStack
        <5>2. CASE b # a
          BY <1>11, <5>1, <5>2 DEF OnSomeStack
        <5>3. CASE b = a /\ q # path
          <6>1. q \in ToSet(u.stack)
            BY <1>5, <1>6, <1>10, <5>1, <5>3
          <6>2. QED
            BY <1>5, <1>11, <6>1 DEF OnSomeStack
        <5>4. CASE q = path
          BY <1>12, <5>4
        <5>5. QED
          BY <5>2, <5>3, <5>4
      <4>4. QED
        BY <4>1, <4>2, <4>3
    <3>3. CASE ~tree[Front(q)].marked
      <4>1. Front(q) = path /\ ~tree[path].marked
        BY <1>12, <2>1, <3>1, <3>3
      <4> DEFINE side == Last(q)[2]
      <4>2. side \in tree[path].succ /\ q = Extension(path, side)
        BY <1>9, <2>1, <3>1, <3>3, <4>1, InModule DEF Children
      <4>3. CASE tree[q].kind = "possible"
        <5>1. side \in BOOLEAN
          BY <1>7, <4>2 DEF NodeType
        <5>2. \E n \in DOMAIN sides : sides[n] = side
          BY <4>2, <4>3, <5>1, GrownHas
        <5>3. q \in ToSet(kids)
          BY <4>2, <5>2 DEF ToSet
        <5>4. q \in ToSet(u.stack)
          BY <1>5, <1>10, <4>1, <5>3
        <5>5. QED
          BY <1>5, <1>11, <5>4 DEF OnSomeStack
      <4>4. CASE tree[q].kind = "impossible"
        BY <1>12, <4>4
      <4>5. QED
        BY <4>3, <4>4, InTree
    <3>4. QED
      BY <3>2, <3>3
  <2>2. QED
    BY <1>2, <1>12, <2>1 DEF Followed
<1>19. QED
  BY <1>14, <1>15, <1>16, <1>17, <1>18 DEF MarkInv

\* A path is published.  Its predecessor was not marked meanwhile.
LEMMA PublishMarks ==
  ASSUME PCInv, MarkInv, NEW a \in Actors, Finish(a), task[a].op = "extend"
  PROVE  MarkInv'
<1> DEFINE t      == task[a]
           path   == t.path
           parent == Front(path)
           side   == Last(path)[2]
           node   == NewPath(t.becomes, t.st)
<1>1. /\ t.at = "finish" \/ (t.at = "mark" /\ t.stack = <<>>)
      /\ task' = [task EXCEPT ![a] = Idle]
      /\ tree' = [q \in DOMAIN tree \cup {path} |->
                    IF q = path THEN node
                    ELSE IF q = parent THEN [tree[q] EXCEPT !.succ = @ \cup {side}]
                    ELSE tree[q]]
      /\ todo' \subseteq todo \cup (IF t.becomes = "possible" THEN {path} \X BOOLEAN ELSE {})
      /\ UNCHANGED <<program, features, strategy, phase, satcheck>>
  BY DEF Finish
<1>2. Branches' = Branches /\ Each' = Each /\ Unlikely' = Unlikely
  BY <1>1, Kept DEF Each, Unlikely
<1>3. Busy(a) /\ Extender(a)
  BY <1>1 DEF Busy, Extender
<1>4. /\ TaskOK(Branches, t) /\ t.becomes \in {"possible", "impossible"}
      /\ path # <<>> /\ path \notin DOMAIN tree /\ parent \in DOMAIN tree
      /\ path = Ext(Branches, parent, side)
  BY <1>3, OfTask DEF New
<1>5. /\ Rooted /\ Children /\ EachTaken /\ InTurn /\ Followed
  BY DEF MarkInv
<1>6. \A q \in DOMAIN tree : tree[q] \in NodeType(Branches)
  BY DEF PCInv, TreeOK
<1>7. t.at = "finish" \/ t.becomes = "impossible"
  BY <1>1, <1>4 DEF TaskOK
<1>8. /\ task'[a] = Idle /\ \A b \in Actors \ {a} : task'[b] = task[b]
      /\ \A b \in Actors : Extender(b) => Front(task[b].path) \in DOMAIN tree
      /\ \A x \in todo : x[1] \in DOMAIN tree
  BY <1>1, InTree
<1>9. /\ node.kind = t.becomes /\ ~node.marked
  BY DEF NewPath
<1> HIDE DEF node, path, side
<1>10. DOMAIN tree' = DOMAIN tree \cup {path} /\ tree'[path] = node
  BY <1>1
<1>11. \A q \in DOMAIN tree :
         /\ tree'[q].kind = tree[q].kind /\ tree'[q].marked = tree[q].marked
         /\ tree[q].succ \subseteq tree'[q].succ
         /\ q = parent => side \in tree'[q].succ
  <2> HIDE DEF parent
  <2>1. \A q \in DOMAIN tree :
          tree'[q] = IF q = parent THEN [tree[q] EXCEPT !.succ = @ \cup {side}] ELSE tree[q]
    BY <1>1, <1>4
  <2>2. ASSUME NEW n \in NodeType(Branches), NEW S
        PROVE  /\ [n EXCEPT !.succ = S].kind = n.kind /\ [n EXCEPT !.succ = S].marked = n.marked
               /\ [n EXCEPT !.succ = S].succ = S
    BY DEF NodeType
  <2>3. \A q \in DOMAIN tree : q # parent => tree'[q] = tree[q]
    BY <2>1
  <2>4. ASSUME parent \in DOMAIN tree
        PROVE  /\ tree'[parent].kind = tree[parent].kind
               /\ tree'[parent].marked = tree[parent].marked
               /\ tree'[parent].succ = tree[parent].succ \cup {side}
    <3>1. tree'[parent] = [tree[parent] EXCEPT !.succ = tree[parent].succ \cup {side}]
      BY <2>1, <2>4
    <3>2. QED
      BY <1>6, <2>2, <2>4, <3>1
  <2>5. QED
    BY <2>3, <2>4
<1>12. ~Busy(a)' /\ ~Extender(a)' /\ ~Checker(a)'
  BY <1>8, IdleIs DEF Busy, Extender, Checker
<1>13. \A b \in Actors \ {a} : (Extender(b)' <=> Extender(b)) /\ (Checker(b)' <=> Checker(b))
  BY <1>8 DEF Extender, Checker, Busy
<1>14. Rooted'
  <2>1. ASSUME NEW q \in DOMAIN tree', q # <<>>
        PROVE  /\ Front(q) \in DOMAIN tree' /\ tree'[Front(q)].kind = "possible"
               /\ q = Ext(Branches, Front(q), Last(q)[2])
    <3>1. CASE q = path
      <4>1. tree[parent].kind = "possible"
        BY <1>3, <1>5 DEF Rooted, path
      <4>2. QED
        BY <1>4, <1>10, <1>11, <3>1, <4>1 DEF side
    <3>2. CASE q # path
      BY <1>5, <1>10, <1>11, <2>1, <3>2 DEF Rooted
    <3>3. QED
      BY <3>1, <3>2
  <2>2. ASSUME NEW x \in todo' PROVE tree'[x[1]].kind = "possible"
    <3>1. CASE x \in todo
      BY <1>5, <1>8, <1>11, <3>1 DEF Rooted
    <3>2. CASE x \notin todo
      <4>1. t.becomes = "possible" /\ x \in {path} \X BOOLEAN
        BY <1>1, <3>2
      <4>2. x[1] = path
        BY <4>1
      <4>3. QED
        BY <1>9, <1>10, <4>1, <4>2
    <3>3. QED
      BY <3>1, <3>2
  <2>3. ASSUME NEW b \in Actors, Extender(b)' PROVE tree'[Front(task'[b].path)].kind = "possible"
    <3>1. b # a /\ Extender(b) /\ task'[b] = task[b]
      BY <1>8, <1>12, <1>13, <2>3
    <3>2. QED
      BY <1>5, <1>8, <1>11, <3>1 DEF Rooted
  <2>4. QED
    BY <1>2, <2>1, <2>2, <2>3 DEF Rooted
<1>15. Children'
  <2>1. ASSUME NEW q \in DOMAIN tree', q # <<>>, ~tree'[Front(q)].marked
        PROVE  Last(q)[2] \in tree'[Front(q)].succ
    <3>1. CASE q = path
      BY <1>4, <1>11, <3>1 DEF side
    <3>2. CASE q # path
      <4>1. q \in DOMAIN tree /\ Front(q) \in DOMAIN tree
        BY <1>5, <1>10, <2>1, <3>2 DEF Rooted
      <4>2. ~tree[Front(q)].marked
        BY <1>11, <2>1, <4>1
      <4>3. QED
        BY <1>5, <1>11, <2>1, <4>1, <4>2 DEF Children
    <3>3. QED
      BY <3>1, <3>2
  <2>2. QED
    BY <2>1 DEF Children
<1>16. EachTaken'
  <2>1. ASSUME Each, NEW q \in DOMAIN tree', tree'[q].kind = "possible"
        PROVE  Passing(Branches, q) # {}
    <3>1. CASE q = path
      <4>1. t.at = "finish" /\ t.becomes = "possible"
        BY <1>7, <1>9, <1>10, <2>1, <3>1
      <4>2. QED
        BY <1>3, <1>5, <2>1, <3>1, <4>1 DEF EachTaken, path
    <3>2. CASE q # path
      BY <1>5, <1>10, <1>11, <2>1, <3>2 DEF EachTaken, Doomed
    <3>3. QED
      BY <3>1, <3>2
  <2>2. ASSUME Each, NEW b \in Actors, Extender(b)', task'[b].at = "finish", task'[b].becomes = "possible"
        PROVE  Passing(Branches, task'[b].path) # {}
    BY <1>5, <1>8, <1>12, <1>13, <2>2 DEF EachTaken
  <2>3. QED
    BY <1>2, <2>1, <2>2 DEF EachTaken, Doomed
<1>17. InTurn'
  <2>1. ASSUME ~Each, ~Unlikely
        PROVE  /\ satcheck' = {}
               /\ \A b \in Actors : Extender(b)' =>
                    /\ phase' = "extend" /\ task'[b].at = "finish"
                    /\ tree'[Front(task'[b].path)].marked => task'[b].becomes = "impossible"
               /\ \A b \in Actors : Checker(b)' => phase' = "check"
    <3>1. /\ satcheck = {}
          /\ \A b \in Actors : Extender(b) =>
               /\ phase = "extend" /\ task[b].at = "finish"
               /\ tree[Front(task[b].path)].marked => task[b].becomes = "impossible"
          /\ \A b \in Actors : Checker(b) => phase = "check"
      BY <1>5, <2>1 DEF InTurn
    <3>2. ASSUME NEW b \in Actors, Extender(b)'
          PROVE  /\ phase = "extend" /\ task'[b].at = "finish"
                 /\ tree'[Front(task'[b].path)].marked => task'[b].becomes = "impossible"
      BY <1>8, <1>11, <1>12, <1>13, <3>1, <3>2
    <3>3. QED
      BY <1>1, <1>12, <1>13, <3>1, <3>2
  <2>2. QED
    BY <1>2, <2>1 DEF InTurn
<1>18. Followed'
  <2>1. ASSUME ~Unlikely, NEW q \in DOMAIN tree', q # <<>>, tree'[Front(q)].marked
        PROVE  tree'[q].marked \/ tree'[q].kind = "impossible" \/ OnSomeStack(q)'
    <3>1. CASE q = path
      <4>1. tree[parent].marked
        BY <1>4, <1>11, <2>1, <3>1
      <4>2. ~Each
        <5>1. parent \in Doomed /\ tree[parent].kind = "possible"
          BY <1>3, <1>4, <1>5, <4>1, InTree DEF Rooted, path
        <5>2. QED
          BY <1>4, <1>5, <5>1 DEF EachTaken
      <4>3. t.becomes = "impossible"
        BY <1>3, <1>5, <2>1, <4>1, <4>2 DEF InTurn, path
      <4>4. QED
        BY <1>9, <1>10, <3>1, <4>3
    <3>2. CASE q # path
      <4>1. q \in DOMAIN tree /\ Front(q) \in DOMAIN tree
        BY <1>5, <1>10, <2>1, <3>2 DEF Rooted
      <4>2. tree[Front(q)].marked
        BY <1>11, <2>1, <4>1
      <4>3. tree[q].marked \/ tree[q].kind = "impossible" \/ OnSomeStack(q)
        BY <1>5, <2>1, <4>1, <4>2 DEF Followed
      <4>4. OnSomeStack(q) => OnSomeStack(q)'
        <5>1. SUFFICES ASSUME NEW b \in Actors, task[b].at = "mark", q \in ToSet(task[b].stack)
                       PROVE  OnSomeStack(q)'
          BY DEF OnSomeStack
        <5>2. b # a
          BY <1>1, <5>1 DEF ToSet
        <5>3. QED
          BY <1>8, <5>1, <5>2 DEF OnSomeStack
      <4>5. QED
        BY <1>11, <4>1, <4>3, <4>4
    <3>3. QED
      BY <3>1, <3>2
  <2>2. QED
    BY <1>2, <2>1 DEF Followed
<1>19. QED
  BY <1>14, <1>15, <1>16, <1>17, <1>18 DEF MarkInv

LEMMA ReportMarks ==
  ASSUME PCInv, MarkInv, NEW a \in Actors, Finish(a), task[a].op = "check"
  PROVE  MarkInv'
<1>1. /\ task[a].at = "mark" => task[a].stack = <<>>
      /\ task' = [task EXCEPT ![a] = Idle]
      /\ UNCHANGED <<program, features, strategy, phase, tree, todo, satcheck>>
  BY DEF Finish
<1>2. task'[a] = Idle /\ \A b \in Actors \ {a} : task'[b] = task[b]
  BY <1>1, InTree
<1>3. ~Extender(a)' /\ ~Checker(a)'
  BY <1>2, IdleIs DEF Busy, Extender, Checker
<1>4. ~Each /\ ~Unlikely => satcheck' = {}
  BY <1>1 DEF MarkInv, InTurn
<1>5. QED
  BY <1>1, <1>2, <1>3, <1>4, InTree, MarksStay

\* The turn changes while nobody does anything.
LEMMA TurnMarks ==
  ASSUME MarkInv, Turn
  PROVE  MarkInv'
<1>1. /\ \A a \in Actors : task[a] = Idle
      /\ UNCHANGED <<program, features, strategy, tree, todo, task, satcheck>>
  BY DEF Turn
<1>2. Branches' = Branches /\ Each' = Each /\ Unlikely' = Unlikely
  BY <1>1, Kept DEF Each, Unlikely
<1>3. \A a \in Actors : ~Extender(a) /\ ~Checker(a) /\ ~Extender(a)' /\ ~Checker(a)'
  BY <1>1, IdleIs DEF Extender, Checker, Busy
<1>4. QED
  BY <1>1, <1>2, <1>3
     DEF MarkInv, Rooted, Children, EachTaken, InTurn, Followed, OnSomeStack, Doomed

LEMMA NextMarkInv ==
  ASSUME PCInv, PCInv', MarkInv, [Next]_vars
  PROVE  MarkInv'
<1>1. ASSUME NEW a \in Actors, NEW x \in todo, StartExtend(a, x[1], x[2]) PROVE MarkInv'
  BY <1>1, StartExtendMarks
<1>2. ASSUME NEW a \in Actors, NEW path \in ready, StartCheck(a, path) PROVE MarkInv'
  BY <1>2, StartCheckMarks
<1>3. ASSUME NEW a \in Actors, Solve(a) PROVE MarkInv'
  BY <1>3, SolveMarks
<1>4. ASSUME NEW a \in Actors, Mark(a) PROVE MarkInv'
  BY <1>4, MarkMarks
<1>5. ASSUME NEW a \in Actors, Finish(a) PROVE MarkInv'
  <2>1. Busy(a)
    BY <1>5 DEF Finish, Busy
  <2>2. task[a].op \in {"extend", "check"}
    BY <2>1, OfTask
  <2>3. QED
    BY <1>5, <2>2, PublishMarks, ReportMarks
<1>6. CASE Turn
  BY <1>6, TurnMarks
<1>7. ASSUME Over \/ UNCHANGED vars PROVE MarkInv'
  <2>1. UNCHANGED vars
    BY <1>7 DEF Over
  <2>2. Branches' = Branches
    BY <2>1, Kept DEF vars
  <2>3. QED
    BY <2>1, <2>2 DEF vars, MarkInv, Rooted, Children, EachTaken, InTurn, Followed, OnSomeStack,
       Doomed, Extender, Checker, Busy, Each, Unlikely
<1>8. QED
  BY <1>1, <1>2, <1>3, <1>4, <1>5, <1>6, <1>7 DEF Next

\* Once mark_unsat has come to an end in all threads, everything that has
\* grown out of a marked path is marked or impossible: no extension slips
\* through between a mark and the paths it is handed on to.
THEOREM NothingEscapes == Spec /\ strategy = "unsat-core" => []MarksComplete
<1>1. Init /\ PCInv => MarkInv
  BY InitMarkInv
<1>2. MarkInv /\ PCInv /\ PCInv' /\ [Next]_vars => MarkInv'
  BY NextMarkInv
<1>3. MarkInv => MarksComplete
  BY DEF MarkInv, Followed, OnSomeStack, MarksComplete, Unlikely
<1>4. QED
  BY <1>1, <1>2, <1>3, PCInvariance, PTL DEF Spec

-----------------------------------------------------------------------------
(* The solvers: for both strategies, and whatever the threads ask in which *)
(* order, z3 understands every command, and what the incremental strategy  *)
(* believes to be on its stack is what z3 has asserted.  The requests come *)
(* from paths that have anything assumed, in any order: nothing is needed  *)
(* to know of them but that they are sequences.                            *)

\* Solvers whose stack holds assumptions of B, which need symbols of D
Scope(B, D) == [decls : SUBSET D, holds : SUBSET B]
Frame(B, D) == [assumption : B, decls : SUBSET D]
Process(B, D)  == [scopes : Seq(Scope(B, D)), error : {FALSE}]
Solver3(B, D, M) == [z : Process(B, D), stack : Seq(Frame(B, D)), minimize : {TRUE}, model : M]

\* A z3 that has understood every command, and what is declared in it
Running(scopes) == [scopes |-> scopes, error |-> FALSE]
Decls(scopes)   == UNION {scopes[n].decls : n \in DOMAIN scopes}

\* The bottom has the objective; above it z3 has a scope for each frame.
Bottom == [decls |-> {"packetsize"}, holds |-> {}]
Above(f) == [decls |-> f.decls, holds |-> {f.assumption}]

Paired(scopes, frames) ==
  /\ Len(scopes) = Len(frames) + 1 /\ scopes[1] = Bottom
  /\ \A n \in 1..Len(frames) : scopes[n + 1] = Above(frames[n])

Aligned(B, D, M) == {s \in Solver3(B, D, M) : Paired(s.z.scopes, s.stack)}

\* A solver that was not asked yet, or by the strategy unsat-core only
Afresh == [z |-> NewZ3, stack |-> <<>>, minimize |-> FALSE, model |-> Nothing]

SolverOK(s) == s = Afresh \/ \E B, D, M : s \in Aligned(B, D, M)

-----------------------------------------------------------------------------
(* The commands of z3, on the topmost scope                                *)

LEMMA RunningIs ==
  ASSUME NEW ss
  PROVE  /\ Running(ss).scopes = ss /\ ~Running(ss).error /\ Declared(Running(ss)) = Decls(ss)
BY DEF Running, Declared, Decls

LEMMA OnTop ==
  ASSUME NEW S, NEW ss \in Seq(S), NEW x \in S, NEW y \in S
  PROVE  /\ Last(Append(ss, x)) = x /\ Front(Append(ss, x)) \o <<y>> = Append(ss, y)
         /\ DOMAIN Append(ss, x) = 1..Len(ss) + 1
<1>1. Last(Append(ss, x)) = x /\ Front(Append(ss, x)) = ss /\ Len(Append(ss, x)) = Len(ss) + 1
  BY Longer
<1>2. ss \o <<y>> = Append(ss, y)
  OBVIOUS
<1>3. QED
  BY <1>1, <1>2

\* What has been declared in the scopes below, and at the top
LEMMA DeclaredOnTop ==
  ASSUME NEW B, NEW D, NEW ss \in Seq(Scope(B, D)), NEW x \in Scope(B, D)
  PROVE  Decls(Append(ss, x)) = Decls(ss) \cup x.decls
<1> DEFINE t == Append(ss, x)
<1>1. /\ DOMAIN t = 1..Len(ss) + 1 /\ DOMAIN ss = 1..Len(ss) /\ Len(ss) \in Nat
      /\ \A n \in 1..Len(ss) : t[n] = ss[n]
      /\ t[Len(ss) + 1] = x
  OBVIOUS
<1> HIDE DEF t
<1>2. {t[n].decls : n \in DOMAIN t} = {ss[n].decls : n \in DOMAIN ss} \cup {x.decls}
  BY <1>1
<1>3. UNION {t[n].decls : n \in DOMAIN t} = (UNION {ss[n].decls : n \in DOMAIN ss}) \cup x.decls
  BY <1>2
<1>4. QED
  BY <1>3 DEF Decls, t

LEMMA DeclareOnTop ==
  ASSUME NEW B, NEW D, NEW ss \in Seq(Scope(B, D)), NEW x \in Scope(B, D), NEW names \in SUBSET D,
         names \cap Decls(Append(ss, x)) = {}
  PROVE  DeclareZ3(Running(Append(ss, x)), names)
           = Running(Append(ss, [decls |-> x.decls \cup names, holds |-> x.holds]))
<1> DEFINE y == [decls |-> x.decls \cup names, holds |-> x.holds]
       z == Running(Append(ss, x))
<1>1. y \in Scope(B, D)
  BY DEF Scope
<1>2. z.scopes = Append(ss, x) /\ ~z.error /\ Declared(z) = Decls(Append(ss, x))
  BY RunningIs
<1> HIDE DEF y, z
<1>3. Last(z.scopes) = x /\ Front(z.scopes) \o <<y>> = Append(ss, y)
  BY <1>1, <1>2, OnTop
<1>4. DeclareZ3(z, names) = Running(Append(ss, y))
  <2>1. names \cap Declared(z) = {}
    BY <1>2
  <2>2. [decls |-> Last(z.scopes).decls \cup names, holds |-> Last(z.scopes).holds] = y
    BY <1>3 DEF y
  <2>3. QED
    BY <1>2, <1>3, <2>1, <2>2 DEF DeclareZ3, Running
<1>5. QED
  BY <1>4 DEF y, z

LEMMA AssertOnTop ==
  ASSUME NEW B, NEW D, NEW ss \in Seq(Scope(B, D)), NEW x \in Scope(B, D), NEW as \in SUBSET B,
         \A a \in as : SymbolsOf(a.e) \subseteq Decls(Append(ss, x))
  PROVE  AssertZ3(Running(Append(ss, x)), as)
           = Running(Append(ss, [decls |-> x.decls, holds |-> x.holds \cup as]))
<1> DEFINE y == [decls |-> x.decls, holds |-> x.holds \cup as]
       z == Running(Append(ss, x))
<1>1. y \in Scope(B, D)
  BY DEF Scope
<1>2. z.scopes = Append(ss, x) /\ ~z.error /\ Declared(z) = Decls(Append(ss, x))
  BY RunningIs
<1> HIDE DEF y, z
<1>3. Last(z.scopes) = x /\ Front(z.scopes) \o <<y>> = Append(ss, y)
  BY <1>1, <1>2, OnTop
<1>4. AssertZ3(z, as) = Running(Append(ss, y))
  <2>1. \A a \in as : SymbolsOf(a.e) \subseteq Declared(z)
    BY <1>2
  <2>2. [decls |-> Last(z.scopes).decls, holds |-> Last(z.scopes).holds \cup as] = y
    BY <1>3 DEF y
  <2>3. QED
    BY <1>2, <1>3, <2>1, <2>2 DEF AssertZ3, Running
<1>5. QED
  BY <1>4 DEF y, z

-----------------------------------------------------------------------------
(* One more assumption                                                     *)

\* The frames declare what z3 has declared.
LEMMA DeclaredIs ==
  ASSUME NEW B, NEW D, NEW M, NEW s \in Aligned(B, D, M)
  PROVE  Decls(s.z.scopes)
           = {"packetsize"} \cup UNION {s.stack[n].decls : n \in DOMAIN s.stack}
<1> DEFINE ss == s.z.scopes
           fs == s.stack
<1>1. /\ ss \in Seq(Scope(B, D)) /\ fs \in Seq(Frame(B, D)) /\ Paired(ss, fs)
  BY DEF Aligned, Solver3, Process
<1> HIDE DEF ss, fs
<1>2. /\ Len(fs) \in Nat /\ DOMAIN fs = 1..Len(fs) /\ DOMAIN ss = 1..Len(fs) + 1
      /\ ss[1].decls = {"packetsize"} /\ \A n \in 1..Len(fs) : ss[n + 1].decls = fs[n].decls
  <2>1. Len(fs) \in Nat /\ DOMAIN fs = 1..Len(fs) /\ DOMAIN ss = 1..Len(ss)
    BY <1>1
  <2>2. /\ Len(ss) = Len(fs) + 1 /\ ss[1].decls = {"packetsize"}
        /\ \A n \in 1..Len(fs) : ss[n + 1].decls = fs[n].decls
    <3>1. Len(ss) = Len(fs) + 1 /\ ss[1] = Bottom /\ \A n \in 1..Len(fs) : ss[n + 1] = Above(fs[n])
      BY <1>1 DEF Paired
    <3>2. Bottom.decls = {"packetsize"} /\ \A g : Above(g).decls = g.decls
      BY DEF Bottom, Above
    <3>3. QED
      BY <3>1, <3>2
  <2>3. QED
    BY <2>1, <2>2
<1>3. ASSUME NEW x PROVE (\E n \in DOMAIN ss : x \in ss[n].decls)
                          <=> x = "packetsize" \/ \E n \in DOMAIN fs : x \in fs[n].decls
  <2>1. ASSUME NEW n \in DOMAIN ss, x \in ss[n].decls
        PROVE  x = "packetsize" \/ \E k \in DOMAIN fs : x \in fs[k].decls
    <3>1. CASE n = 1
      BY <1>2, <2>1, <3>1
    <3>2. CASE n # 1
      <4>1. n - 1 \in DOMAIN fs /\ n = (n - 1) + 1
        BY <1>2, <3>2
      <4>2. ss[n].decls = fs[n - 1].decls
        BY <1>2, <4>1
      <4>3. QED
        BY <2>1, <4>1, <4>2
    <3>3. QED
      BY <3>1, <3>2
  <2>2. ASSUME NEW n \in DOMAIN fs, x \in fs[n].decls PROVE \E k \in DOMAIN ss : x \in ss[k].decls
    <3>1. n + 1 \in DOMAIN ss /\ ss[n + 1].decls = fs[n].decls
      BY <1>2
    <3>2. QED
      BY <2>2, <3>1
  <2>3. x = "packetsize" => \E k \in DOMAIN ss : x \in ss[k].decls
    <3>1. 1 \in DOMAIN ss
      BY <1>2
    <3>2. QED
      BY <1>2, <3>1
  <2>4. QED
    BY <2>1, <2>2, <2>3
<1>4. UNION {ss[n].decls : n \in DOMAIN ss} = {"packetsize"} \cup UNION {fs[n].decls : n \in DOMAIN fs}
  BY <1>3
<1>5. QED
  BY <1>4 DEF Decls, ss, fs

LEMMA PairLonger ==
  ASSUME NEW B, NEW D, NEW ss \in Seq(Scope(B, D)), NEW fs \in Seq(Frame(B, D)), Paired(ss, fs),
         NEW f \in Frame(B, D)
  PROVE  /\ Append(ss, Above(f)) \in Seq(Scope(B, D)) /\ Append(fs, f) \in Seq(Frame(B, D))
         /\ Paired(Append(ss, Above(f)), Append(fs, f))
<1>1. Above(f) \in Scope(B, D)
  BY DEF Above, Scope, Frame
<1>2. /\ Append(ss, Above(f)) \in Seq(Scope(B, D)) /\ Append(fs, f) \in Seq(Frame(B, D))
      /\ Len(Append(ss, Above(f))) = Len(ss) + 1 /\ Len(Append(fs, f)) = Len(fs) + 1
      /\ \A n \in 1..Len(ss) : Append(ss, Above(f))[n] = ss[n]
      /\ \A n \in 1..Len(fs) : Append(fs, f)[n] = fs[n]
      /\ Append(ss, Above(f))[Len(ss) + 1] = Above(f) /\ Append(fs, f)[Len(fs) + 1] = f
      /\ Len(fs) \in Nat /\ Len(ss) = Len(fs) + 1
      /\ ss[1] = Bottom /\ \A n \in 1..Len(fs) : ss[n + 1] = Above(fs[n])
  BY <1>1 DEF Paired
<1> DEFINE tt == Append(ss, Above(f))
           gs == Append(fs, f)
<1> HIDE DEF tt, gs
<1>3. ASSUME NEW n \in 1..Len(fs) + 1 PROVE tt[n + 1] = Above(gs[n])
  <2>1. CASE n \in 1..Len(fs)
    <3>1. n + 1 \in 1..Len(ss)
      BY <1>2, <2>1
    <3>2. QED
      BY <1>2, <2>1, <3>1 DEF tt, gs
  <2>2. CASE n = Len(fs) + 1
    BY <1>2, <2>2 DEF tt, gs
  <2>3. QED
    BY <2>1, <2>2
<1>4. Paired(tt, gs)
  <2>1. 1 \in 1..Len(ss) /\ Len(tt) = Len(gs) + 1 /\ Len(gs) = Len(fs) + 1
    BY <1>2 DEF tt, gs
  <2>2. tt[1] = Bottom
    BY <1>2, <2>1 DEF tt
  <2>3. QED
    BY <1>3, <2>1, <2>2 DEF Paired
<1>5. QED
  BY <1>2, <1>4 DEF tt, gs

LEMMA NewScope ==
  ASSUME NEW B, NEW D, NEW ss \in Seq(Scope(B, D)), NEW a \in B, NEW new \in SUBSET D,
         new \cap Decls(ss) = {},
         SymbolsOf(a.e) \subseteq Decls(ss) \cup new
  PROVE  AssertZ3(DeclareZ3(PushZ3(Running(ss)), new), {a})
           = Running(Append(ss, [decls |-> new, holds |-> {a}]))
<1> DEFINE known == Decls(ss)
           x == [decls |-> {}, holds |-> {}]
           y == [decls |-> new, holds |-> {}]
<1>1. PushZ3(Running(ss)) = Running(Append(ss, x))
  BY RunningIs DEF PushZ3, EmptyScope, Running
<1>2. x \in Scope(B, D) /\ y \in Scope(B, D)
  BY DEF Scope
<1>3. /\ x.decls = {} /\ x.holds = {} /\ y.decls = new /\ y.holds = {}
      /\ y = [decls |-> x.decls \cup new, holds |-> x.holds]
      /\ [decls |-> y.decls, holds |-> y.holds \cup {a}] = [decls |-> new, holds |-> {a}]
  OBVIOUS
<1> HIDE DEF x, y
<1>4. ASSUME NEW t \in Scope(B, D)
      PROVE  Decls(Append(ss, t)) = known \cup t.decls
  BY DeclaredOnTop
<1> HIDE DEF known
<1>5. DeclareZ3(Running(Append(ss, x)), new) = Running(Append(ss, y))
  <2>1. new \cap Decls(Append(ss, x)) = {}
    BY <1>2, <1>3, <1>4 DEF known
  <2>2. DeclareZ3(Running(Append(ss, x)), new)
          = Running(Append(ss, [decls |-> x.decls \cup new, holds |-> x.holds]))
    BY <1>2, <2>1, DeclareOnTop
  <2>3. QED
    BY <1>3, <2>2
<1>6. AssertZ3(Running(Append(ss, y)), {a})
        = Running(Append(ss, [decls |-> new, holds |-> {a}]))
  <2>1. \A b \in {a} : SymbolsOf(b.e) \subseteq Decls(Append(ss, y))
    BY <1>2, <1>3, <1>4 DEF known
  <2>2. {a} \in SUBSET B
    OBVIOUS
  <2>3. AssertZ3(Running(Append(ss, y)), {a})
          = Running(Append(ss, [decls |-> y.decls, holds |-> y.holds \cup {a}]))
    BY <1>2, <2>1, <2>2, AssertOnTop
  <2>4. QED
    BY <1>3, <2>3
<1>7. QED
  BY <1>1, <1>5, <1>6

\* A new frame declares what is not declared yet, and everything the
\* assumption needs is declared then.
LEMMA EnterAligned ==
  ASSUME NEW B, NEW D, NEW M, NEW s \in Aligned(B, D, M), NEW a \in B, SymbolsOf(a.e) \subseteq D
  PROVE  Enter(s, a) \in Aligned(B, D, M)
<1> DEFINE ss == s.z.scopes
           known == {"packetsize"} \cup UNION {s.stack[n].decls : n \in DOMAIN s.stack}
           new == SymbolsOf(a.e) \ known
           f == [assumption |-> a, decls |-> new]
           z == AssertZ3(DeclareZ3(PushZ3(s.z), new), {a})
<1>1. /\ s.z = Running(ss) /\ s.model \in M
      /\ ss \in Seq(Scope(B, D)) /\ s.stack \in Seq(Frame(B, D)) /\ Paired(ss, s.stack)
  BY DEF Aligned, Solver3, Process, Running
<1>2. new \in SUBSET D /\ f \in Frame(B, D) /\ Above(f) = [decls |-> new, holds |-> {a}]
  BY DEF Frame, Above
<1>3. Decls(ss) = known
  BY DeclaredIs
<1>4. new \cap known = {} /\ SymbolsOf(a.e) \subseteq known \cup new
  OBVIOUS
<1>5. Enter(s, a) = [s EXCEPT !.stack = Append(s.stack, f), !.z = z]
  BY DEF Enter
<1> HIDE DEF ss, known, new, f
<1>6. z = Running(Append(ss, Above(f)))
  BY <1>1, <1>2, <1>3, <1>4, NewScope
<1>7. /\ Append(ss, Above(f)) \in Seq(Scope(B, D)) /\ Append(s.stack, f) \in Seq(Frame(B, D))
      /\ Paired(Append(ss, Above(f)), Append(s.stack, f))
  BY <1>1, <1>2, PairLonger
<1> HIDE DEF z
<1>8. z \in Process(B, D)
  BY <1>6, <1>7 DEF Process, Running
<1>9. Enter(s, a) \in Solver3(B, D, M)
  BY <1>5, <1>7, <1>8 DEF Aligned, Solver3
<1>10. Enter(s, a).z = z /\ Enter(s, a).stack = Append(s.stack, f)
  BY <1>5 DEF Aligned, Solver3
<1>11. z.scopes = Append(ss, Above(f))
  BY <1>6, RunningIs
<1>12. QED
  BY <1>7, <1>9, <1>10, <1>11 DEF Aligned

LEMMA EnterAll ==
  ASSUME NEW B, NEW D, NEW M, NEW s \in Aligned(B, D, M), NEW as \in Seq(B),
         \A a \in B : SymbolsOf(a.e) \subseteq D
  PROVE  FoldLeft(Enter, s, as) \in Aligned(B, D, M)
<1> DEFINE A == Aligned(B, D, M)
           n == Len(as)
           h == [x \in A \X B |-> Enter(x[1], x[2])]
           Goes(F) == F = [S \in SUBSET DOMAIN as |->
                             IF S = {} THEN s ELSE Enter(F[S \ {Max(S)}], as[Max(S)])]
           F == CHOOSE F : Goes(F)
<1>1. FoldLeft(Enter, s, as) = F[DOMAIN as]
  BY DEF FoldLeft, MapThenFoldSet
<1>2. n \in Nat /\ DOMAIN as = 1..n /\ as \in [1..n -> B]
  BY SeqFunction
<1>3. \A x \in A, a \in B : Enter(x, a) \in A
  BY EnterAligned
<1> HIDE DEF A, n
<1>4. h \in [A \X B -> A] /\ \A x \in A, a \in B : h[<<x, a>>] = Enter(x, a)
  BY <1>3
<1>5. s \in A
  BY DEF A
<1> HIDE DEF h
<1>6. PICK G : /\ G \in [SUBSET (1..n) -> A]
               /\ \A S \in SUBSET (1..n) :
                    G[S] = IF S = {} THEN s ELSE h[<<G[S \ {Max(S)}], as[Max(S)]>>]
  <2>1. \E G : IsFold(G, A, h, s, n, as)
    BY <1>2, <1>4, <1>5, FoldExists
  <2>2. QED
    BY <2>1 DEF IsFold
<1>7. ASSUME NEW S \in SUBSET (1..n), S # {}
      PROVE  G[S] = Enter(G[S \ {Max(S)}], as[Max(S)])
  <2>1. Max(S) \in 1..n
    BY <1>2, <1>7, MaxPlace
  <2>2. G[S \ {Max(S)}] \in A /\ as[Max(S)] \in B
    <3>1. S \ {Max(S)} \in SUBSET (1..n)
      OBVIOUS
    <3>2. QED
      BY <1>2, <1>6, <2>1, <3>1
  <2>3. QED
    BY <1>4, <1>6, <1>7, <2>2
<1>8. Goes(G)
  BY <1>2, <1>6, <1>7
<1>9. Goes(F)
  BY <1>8
<1> HIDE DEF F
<1>10. /\ F[{}] = s
       /\ \A S \in SUBSET (1..n) : S # {} => F[S] = Enter(F[S \ {Max(S)}], as[Max(S)])
  BY <1>2, <1>9
<1> DEFINE K == {k \in 0..n : F[1..k] \in A}
<1>11. 0 \in K
  <2>1. 1..0 = {}
    OBVIOUS
  <2>2. QED
    BY <1>2, <1>5, <1>10, <2>1
<1>12. ASSUME NEW k \in 0..n - 1, k \in K PROVE k + 1 \in K
  <2>1. 1..k + 1 # {} /\ Max(1..k + 1) = k + 1 /\ (1..k + 1) \ {k + 1} = 1..k
    <3>1. k \in Nat
      BY <1>2
    <3>2. QED
      BY <3>1, MaxOfRange
  <2>2. 1..k + 1 \in SUBSET (1..n) /\ as[k + 1] \in B /\ k + 1 \in 0..n
    <3>1. k + 1 \in 1..n /\ k + 1 \in 0..n /\ 1..k + 1 \in SUBSET (1..n)
      BY <1>2
    <3>2. QED
      BY <1>2, <3>1
  <2>3. F[1..k + 1] = Enter(F[1..k], as[k + 1])
    BY <1>10, <2>1, <2>2
  <2>4. QED
    BY <1>3, <1>12, <2>2, <2>3
<1> HIDE DEF K
<1>13. 0..n \subseteq K /\ n \in 0..n
  BY <1>2, <1>11, <1>12, InductionUpTo
<1>14. QED
  BY <1>1, <1>2, <1>13 DEF K, A

-----------------------------------------------------------------------------
(* What is kept of the stack                                               *)

LEMMA MatchedIs ==
  ASSUME NEW B, NEW C, NEW u \in Seq(B), NEW v \in Seq(C)
  PROVE  /\ Len(LongestCommonPrefix({u, v})) \in 0..Len(u)
         /\ Len(LongestCommonPrefix({u, v})) \in 0..Len(v)
<1> DEFINE P == CommonPrefixes({u, v})
           L == {Len(w) : w \in P}
<1>1. ASSUME NEW w \in P PROVE Len(w) \in 0..Len(u) /\ Len(w) \in 0..Len(v)
  <2>1. IsPrefix(w, u) /\ IsPrefix(w, v) /\ \E x \in {u, v} : w \in Prefixes(x)
    BY DEF CommonPrefixes
  <2>2. Len(w) \in Nat
    BY <2>1 DEF Prefixes
  <2>3. QED
    BY <2>1, <2>2 DEF IsPrefix
<1>2. <<>> \in P
  <2>1. <<>> \in Prefixes(u)
    <3>1. SubSeq(u, 1, 0) = <<>> /\ 0 \in 0..Len(u)
      OBVIOUS
    <3>2. QED
      BY <3>1 DEF Prefixes
  <2>2. ASSUME NEW D, NEW t \in Seq(D) PROVE IsPrefix(<<>>, t)
    BY DEF IsPrefix
  <2>3. QED
    BY <2>1, <2>2 DEF CommonPrefixes
<1> HIDE DEF P
<1>3. \E w \in P : \A x \in P : Len(x) <= Len(w)
  <2> DEFINE T == {Len(u) - Len(w) : w \in P}
  <2>1. T \in SUBSET Nat /\ T # {}
    BY <1>1, <1>2
  <2>2. PICK t \in T : \A y \in T : t <= y
    <3> HIDE DEF T
    <3>1. QED
      BY <2>1, LeastNat
  <2>3. PICK w \in P : t = Len(u) - Len(w)
    BY Zenon
  <2>4. ASSUME NEW x \in P PROVE Len(x) <= Len(w)
    <3>1. Len(u) - Len(w) <= Len(u) - Len(x)
      BY <2>2, <2>3
    <3>2. QED
      BY <1>1, <3>1
  <2>5. QED
    BY <2>4
<1>4. LongestCommonPrefix({u, v}) \in P
  BY <1>3 DEF LongestCommonPrefix, P
<1>5. QED
  BY <1>1, <1>4

\* n frames and n + 1 scopes are kept; no scope is popped that was not pushed.
LEMMA KeepAligned ==
  ASSUME NEW B, NEW D, NEW M, NEW s \in Aligned(B, D, M), NEW n \in 0..Len(s.stack)
  PROVE  Keep(s, n) \in Aligned(B, D, M)
<1> DEFINE ss == s.z.scopes
           fs == s.stack
<1>1. /\ s.z = Running(ss) /\ ss \in Seq(Scope(B, D)) /\ fs \in Seq(Frame(B, D)) /\ Paired(ss, fs)
  BY DEF Aligned, Solver3, Process, Running
<1>2. CASE n = Len(s.stack)
  BY <1>2 DEF Keep
<1>3. CASE n # Len(s.stack)
  <2> DEFINE tt == SubSeq(ss, 1, n + 1)
             gs == SubSeq(fs, 1, n)
  <2>1. Len(fs) \in Nat /\ Len(ss) = Len(fs) + 1 /\ n \in 0..Len(fs) - 1
    BY <1>1, <1>3 DEF Paired
  <2>2. /\ tt \in Seq(Scope(B, D)) /\ Len(tt) = n + 1 /\ \A k \in 1..n + 1 : tt[k] = ss[k]
        /\ gs \in Seq(Frame(B, D)) /\ Len(gs) = n /\ \A k \in 1..n : gs[k] = fs[k]
    <3>1. n + 1 \in 0..Len(ss) /\ n \in 0..Len(fs)
      BY <2>1
    <3> HIDE DEF ss, fs
    <3>2. QED
      BY <1>1, <3>1, FirstOnes
  <2>3. PopZ3(s.z, Len(fs) - n) = Running(tt)
    <3>1. s.z.scopes = ss /\ s.z.error = FALSE
      BY <1>1 DEF Running
    <3> HIDE DEF ss, fs
    <3>2. ~(Len(fs) - n >= Len(ss)) /\ Len(ss) - (Len(fs) - n) = n + 1
      BY <2>1
    <3>3. PopZ3(s.z, Len(fs) - n) = [scopes |-> tt, error |-> s.z.error]
      BY <3>1, <3>2 DEF PopZ3
    <3> HIDE DEF tt
    <3>4. QED
      BY <3>1, <3>3 DEF Running
  <2>4. Keep(s, n) = [s EXCEPT !.z = Running(tt), !.stack = gs]
    BY <1>3, <2>3 DEF Keep
  <2> HIDE DEF tt, gs, ss, fs
  <2>5. Paired(tt, gs)
    <3>1. 1 \in 1..n + 1 /\ \A k \in 1..n : k + 1 \in 1..n + 1 /\ k \in 1..Len(fs)
      BY <2>1
    <3>2. QED
      BY <1>1, <2>1, <2>2, <3>1 DEF Paired
  <2>6. Running(tt) \in Process(B, D) /\ Running(tt).scopes = tt
    BY <2>2 DEF Running, Process
  <2>7. /\ [s EXCEPT !.z = Running(tt), !.stack = gs] \in Solver3(B, D, M)
        /\ [s EXCEPT !.z = Running(tt), !.stack = gs].z = Running(tt)
        /\ [s EXCEPT !.z = Running(tt), !.stack = gs].stack = gs
    <3> HIDE DEF Process, Running
    <3>1. QED
      BY <2>2, <2>6 DEF Aligned, Solver3
  <2>8. QED
    BY <2>4, <2>5, <2>6, <2>7 DEF Aligned
<1>4. QED
  BY <1>2, <1>3

\* Before the first request only the objective is declared.
LEMMA BegunAfresh ==
  Begun(Afresh) \in Aligned({}, {"packetsize"}, {Nothing})
<1>1. DeclareZ3(ResetZ3(NewZ3), {"packetsize"}) = Running(<<Bottom>>)
  <2> DEFINE x == EmptyScope
  <2>1. x \in Scope({}, {"packetsize"}) /\ x.decls = {} /\ x.holds = {}
    BY DEF EmptyScope, Scope
  <2>2. ResetZ3(NewZ3) = Running(<<x>>)
    BY DEF ResetZ3, NewZ3, Running
  <2> HIDE DEF x
  <2>3. <<x>> = Append(<<>>, x) /\ <<>> \in Seq(Scope({}, {"packetsize"}))
    OBVIOUS
  <2>4. Decls(<<x>>) = {}
    BY <2>1 DEF Decls
  <2>5. [decls |-> x.decls \cup {"packetsize"}, holds |-> x.holds] = Bottom
    BY <2>1 DEF Bottom
  <2>6. DeclareZ3(Running(Append(<<>>, x)), {"packetsize"})
          = Running(Append(<<>>, [decls |-> x.decls \cup {"packetsize"}, holds |-> x.holds]))
    <3>1. {"packetsize"} \cap Decls(Append(<<>>, x)) = {}
      BY <2>3, <2>4
    <3>2. \A names \in SUBSET {"packetsize"} :
             names \cap Decls(Append(<<>>, x)) = {} =>
               DeclareZ3(Running(Append(<<>>, x)), names)
                 = Running(Append(<<>>, [decls |-> x.decls \cup names, holds |-> x.holds]))
      <4> DEFINE D == {"packetsize"}
                 N == <<>>
      <4>1. x \in Scope({}, D) /\ N \in Seq(Scope({}, D))
        BY <2>1, <2>3
      <4> HIDE DEF D, N
      <4>2. \A names \in SUBSET D :
              names \cap Decls(Append(N, x)) = {} =>
                DeclareZ3(Running(Append(N, x)), names)
                  = Running(Append(N, [decls |-> x.decls \cup names, holds |-> x.holds]))
        BY <4>1, DeclareOnTop
      <4>3. QED
        BY <4>2 DEF D, N
    <3>3. QED
      BY <3>1, <3>2
  <2>7. Append(<<>>, Bottom) = <<Bottom>>
    OBVIOUS
  <2>8. QED
    BY <2>2, <2>3, <2>5, <2>6, <2>7
<1>2. Begun(Afresh) = [Afresh EXCEPT !.z = Running(<<Bottom>>), !.stack = <<>>, !.minimize = TRUE]
  BY <1>1 DEF Begun, Afresh
<1> DEFINE r == [z |-> Running(<<Bottom>>), stack |-> <<>>, minimize |-> TRUE, model |-> Nothing]
<1>3. Begun(Afresh) = r
  BY <1>2 DEF Afresh
<1>4. Bottom \in Scope({}, {"packetsize"})
  BY DEF Bottom, Scope
<1>5. Running(<<Bottom>>) \in Process({}, {"packetsize"}) /\ Running(<<Bottom>>).scopes = <<Bottom>>
  BY <1>4 DEF Running, Process
<1>6. r \in Solver3({}, {"packetsize"}, {Nothing}) /\ r.z = Running(<<Bottom>>) /\ r.stack = <<>>
  BY <1>5 DEF Solver3
<1>7. Paired(<<Bottom>>, <<>>)
  BY DEF Paired
<1> HIDE DEF r
<1>8. QED
  BY <1>3, <1>5, <1>6, <1>7 DEF Aligned

-----------------------------------------------------------------------------
(* A whole request                                                         *)

LEMMA AlignedWider ==
  ASSUME NEW B, NEW D, NEW M, NEW s \in Aligned(B, D, M),
         NEW C, NEW E, NEW N, B \subseteq C, D \subseteq E, M \subseteq N
  PROVE  s \in Aligned(C, E, N)
<1>1. Scope(B, D) \subseteq Scope(C, E) /\ Frame(B, D) \subseteq Frame(C, E)
  BY DEF Scope, Frame
<1>2. s.z.scopes \in Seq(Scope(B, D)) /\ s.stack \in Seq(Frame(B, D))
  BY DEF Aligned, Solver3, Process
<1>3. s.z.scopes \in Seq(Scope(C, E)) /\ s.stack \in Seq(Frame(C, E))
  BY <1>1, <1>2, SeqWider
<1>4. s.z \in Process(C, E)
  BY <1>3 DEF Aligned, Solver3, Process
<1>5. s \in Solver3(C, E, N)
  <2> HIDE DEF Process
  <2>1. QED
    BY <1>3, <1>4 DEF Aligned, Solver3
<1>6. QED
  BY <1>5 DEF Aligned

LEMMA UpToIs ==
  ASSUME NEW s, NEW B, NEW request \in Seq(B), NEW n \in 0..Len(request)
  PROVE  UpTo(s, n, request) \in n..Len(request)
<1> DEFINE hopeless == {m \in n + 1..Len(request) :
                          Fits(Terms(Asserted(s.z) \cup ToSet(SubSeq(request, 1, m)))) = {}}
<1>1. hopeless \in SUBSET Nat /\ hopeless \subseteq n + 1..Len(request) /\ Len(request) \in Nat
  OBVIOUS
<1>2. UpTo(s, n, request) = IF hopeless = {} THEN Len(request)
                            ELSE CHOOSE m \in hopeless : \A l \in hopeless : m <= l
  BY DEF UpTo
<1> HIDE DEF hopeless
<1>3. CASE hopeless = {}
  BY <1>1, <1>2, <1>3
<1>4. CASE hopeless # {}
  <2>1. \E m \in hopeless : \A l \in hopeless : m <= l
    BY <1>1, <1>4, LeastNat
  <2>2. UpTo(s, n, request) \in hopeless
    BY <1>2, <1>4, <2>1
  <2>3. ASSUME NEW m \in n + 1..Len(request) PROVE m \in n..Len(request)
    BY <1>1
  <2>4. QED
    BY <1>1, <2>2, <2>3
<1>5. QED
  BY <1>3, <1>4

LEMMA DecideAligned ==
  ASSUME NEW B, NEW D, NEW M, Packets \cup {Nothing} \subseteq M, NEW s \in Aligned(B, D, M),
         NEW answer \in Decide(s)
  PROVE  answer.s \in Aligned(B, D, M)
<1>1. \A m \in M : [s EXCEPT !.model = m] \in Aligned(B, D, M)
  BY DEF Aligned, Solver3
<1>2. \E m \in M : answer.s = [s EXCEPT !.model = m]
  <2>1. CASE Possible(s.z) # {}
    <3>1. PICK m \in Least(Possible(s.z)) : answer = Sat([s EXCEPT !.model = m], m)
      BY <2>1 DEF Decide
    <3>2. m \in M
      BY DEF Least, Possible, Fits
    <3>3. QED
      BY <3>1, <3>2 DEF Sat
  <2>2. CASE Possible(s.z) = {}
    <3>1. answer = Unsat([s EXCEPT !.model = Nothing], {s.stack[n].assumption.id : n \in DOMAIN s.stack})
      BY <2>2 DEF Decide
    <3>2. QED
      BY <3>1 DEF Unsat
  <2>3. QED
    BY <2>1, <2>2
<1>3. QED
  BY <1>1, <1>2

LEMMA IncrementalAligned ==
  ASSUME NEW s0, SolverOK(s0), NEW st, NEW C, st.assumptions \in Seq(C),
         NEW answer \in Incremental(s0, st)
  PROVE  SolverOK(answer.s)
<1> DEFINE request == st.assumptions \o Bounds(st)
           s == Begun(s0)
           n == Matched(s, request)
           kept == Keep(s, n)
           as == SubSeq(request, n + 1, UpTo(kept, n, request))
<1>1. PICK B0, D0, M0 : s \in Aligned(B0, D0, M0)
  <2>1. CASE s0 = Afresh
    BY <2>1, BegunAfresh
  <2>2. ASSUME NEW B1, NEW D1, NEW M1, s0 \in Aligned(B1, D1, M1) PROVE s = s0
    BY <2>2 DEF Begun, Aligned, Solver3
  <2>3. QED
    BY <2>1, <2>2 DEF SolverOK
<1> DEFINE B == B0 \cup C \cup ToSet(Bounds(st))
           D == D0 \cup UNION {SymbolsOf(a.e) : a \in B}
           M == M0 \cup Packets \cup {Nothing}
<1>2. s \in Aligned(B, D, M)
  <2>1. B0 \subseteq B /\ D0 \subseteq D /\ M0 \subseteq M
    OBVIOUS
  <2> HIDE DEF B, D, M, s
  <2>2. QED
    BY <1>1, <2>1, AlignedWider
<1>3. \A a \in B : SymbolsOf(a.e) \subseteq D
  OBVIOUS
<1>4. request \in Seq(B)
  <2>1. Bounds(st) \in Seq(ToSet(Bounds(st)))
    BY DEF Bounds, ToSet
  <2>2. st.assumptions \in Seq(B) /\ Bounds(st) \in Seq(B)
    <3>1. C \subseteq B /\ ToSet(Bounds(st)) \subseteq B
      OBVIOUS
    <3> HIDE DEF B
    <3>2. QED
      BY <2>1, <3>1, SeqWider
  <2> HIDE DEF B
  <2>3. QED
    BY <2>2
<1> HIDE DEF request, s
<1>5. n \in 0..Len(s.stack) /\ n \in 0..Len(request)
  <2> DEFINE u == [k \in DOMAIN s.stack |-> s.stack[k].assumption.e]
             v == [k \in DOMAIN request |-> request[k].e]
             U == {s.stack[k].assumption.e : k \in DOMAIN s.stack}
             V == {request[k].e : k \in DOMAIN request}
  <2>1. s.stack \in Seq(Frame(B, D))
    BY <1>2 DEF Aligned, Solver3
  <2>2. u \in Seq(U) /\ Len(u) = Len(s.stack)
    BY <2>1
  <2>3. v \in Seq(V) /\ Len(v) = Len(request)
    BY <1>4
  <2>4. n = Len(LongestCommonPrefix({u, v}))
    BY DEF Matched
  <2> HIDE DEF u, v, U, V, n
  <2>5. QED
    BY <2>2, <2>3, <2>4, MatchedIs
<1> HIDE DEF n, B, D
<1>6. kept \in Aligned(B, D, M)
  BY <1>2, <1>5, KeepAligned
<1> HIDE DEF kept
<1>7. as \in Seq(B)
  BY <1>4, <1>5, UpToIs, Piece
<1> HIDE DEF as
<1>8. FoldLeft(Enter, kept, as) \in Aligned(B, D, M)
  BY <1>3, <1>6, <1>7, EnterAll
<1>9. answer = Sat(s, s.model) \/ answer \in Decide(FoldLeft(Enter, kept, as))
  BY DEF Incremental, request, s, n, kept, as
<1>10. Packets \cup {Nothing} \subseteq M
  OBVIOUS
<1> HIDE DEF M
<1>11. CASE answer = Sat(s, s.model)
  BY <1>2, <1>11 DEF Sat, SolverOK
<1>12. CASE answer \in Decide(FoldLeft(Enter, kept, as))
  BY <1>8, <1>10, <1>12, DecideAligned DEF SolverOK
<1>13. QED
  BY <1>9, <1>11, <1>12

-----------------------------------------------------------------------------
(* A question that starts afresh                                           *)

\* All symbols are declared at once, and all assumptions made at once.
LEMMA Questioned ==
  ASSUME NEW B, NEW D, NEW ss \in Seq(Scope(B, D)), D \cap Decls(ss) = {},
         \A a \in B : SymbolsOf(a.e) \subseteq D
  PROVE  AssertZ3(DeclareZ3(Running(Append(ss, EmptyScope)), D), B)
           = Running(Append(ss, [decls |-> D, holds |-> B]))
<1> DEFINE x == EmptyScope
           y == [decls |-> D, holds |-> {}]
<1>1. x \in Scope(B, D) /\ x.decls = {} /\ x.holds = {}
  BY DEF EmptyScope, Scope
<1>2. y \in Scope(B, D) /\ y.decls = D /\ y.holds = {}
  BY DEF Scope
<1>3. [decls |-> x.decls \cup D, holds |-> x.holds] = y
  BY <1>1
<1>4. [decls |-> y.decls, holds |-> y.holds \cup B] = [decls |-> D, holds |-> B]
  BY <1>2
<1>a. ASSUME NEW u \in Scope(B, D) PROVE Decls(Append(ss, u)) = Decls(ss) \cup u.decls
  BY DeclaredOnTop
<1> HIDE DEF x, y
<1>5. D \cap Decls(Append(ss, x)) = {}
  BY <1>1, <1>a
<1>6. D \subseteq Decls(Append(ss, y))
  BY <1>2, <1>a
<1>7. DeclareZ3(Running(Append(ss, x)), D) = Running(Append(ss, y))
  <2>1. x \in Scope(B, D) /\ D \in SUBSET D /\ D \cap Decls(Append(ss, x)) = {}
    BY <1>1, <1>5
  <2>2. DeclareZ3(Running(Append(ss, x)), D)
          = Running(Append(ss, [decls |-> x.decls \cup D, holds |-> x.holds]))
    BY <2>1, DeclareOnTop
  <2>3. QED
    BY <1>3, <2>2
<1>8. AssertZ3(Running(Append(ss, y)), B) = Running(Append(ss, [decls |-> D, holds |-> B]))
  <2>1. /\ y \in Scope(B, D) /\ B \in SUBSET B
        /\ \A a \in B : SymbolsOf(a.e) \subseteq Decls(Append(ss, y))
    BY <1>2, <1>6
  <2>2. AssertZ3(Running(Append(ss, y)), B)
          = Running(Append(ss, [decls |-> y.decls, holds |-> y.holds \cup B]))
    BY <2>1, AssertOnTop
  <2>3. QED
    BY <1>4, <2>2
<1>9. QED
  BY <1>7, <1>8 DEF x

LEMMA UnsatCoreAfresh ==
  ASSUME NEW st, NEW prefixes, NEW answer \in UnsatCore(Afresh, st, prefixes)
  PROVE  answer.s = Afresh
<1> DEFINE B == ToSet(Bounds(st)) \cup ToSet(st.assumptions)
           D == {"packetsize"} \cup UNION {SymbolsOf(a.e) : a \in B}
           N == <<>>
           z == AssertZ3(DeclareZ3(ResetZ3(NewZ3), D), B)
           sn == [Afresh EXCEPT !.z = ResetZ3(z)]
<1>1. \A a \in B : SymbolsOf(a.e) \subseteq D
  OBVIOUS
<1>2. N \in Seq(Scope(B, D)) /\ D \cap Decls(N) = {}
  BY DEF Decls
<1>3. ResetZ3(NewZ3) = Running(Append(N, EmptyScope))
  BY DEF ResetZ3, NewZ3, Running
<1>4. ResetZ3(z) = NewZ3
  <2> HIDE DEF B, D, N
  <2>1. AssertZ3(DeclareZ3(Running(Append(N, EmptyScope)), D), B)
          = Running(Append(N, [decls |-> D, holds |-> B]))
    BY <1>1, <1>2, Questioned
  <2>2. z = Running(Append(N, [decls |-> D, holds |-> B]))
    BY <1>3, <2>1
  <2> HIDE DEF z
  <2>3. QED
    BY <2>2 DEF ResetZ3, NewZ3, Running
<1>5. sn = Afresh
  <2> HIDE DEF z
  <2> DEFINE r == NewZ3
  <2>1. sn = [[z |-> r, stack |-> <<>>, minimize |-> FALSE, model |-> Nothing] EXCEPT !.z = r]
    BY <1>4 DEF Afresh
  <2> HIDE DEF sn, r
  <2>2. sn = [z |-> r, stack |-> <<>>, minimize |-> FALSE, model |-> Nothing]
    BY <2>1
  <2>3. QED
    BY <2>2 DEF Afresh, r
<1>6. answer.s = sn
  <2>1. z = AssertZ3(DeclareZ3(ResetZ3(Afresh.z), D), B)
    BY DEF Afresh
  <2>2. answer \in IF Possible(z) # {} THEN {Sat(sn, m) : m \in Least(Possible(z))}
                   ELSE IF prefixes THEN {Unsat(sn, Ids(c)) : c \in Cores(z)}
                   ELSE {Unsat(sn, {Last(st.assumptions).id})}
    BY <2>1 DEF UnsatCore
  <2> HIDE DEF sn, z
  <2>3. (\E m : answer = Sat(sn, m)) \/ (\E c : answer = Unsat(sn, c))
    BY <2>2
  <2>4. QED
    BY <2>3 DEF Sat, Unsat
<1>7. QED
  BY <1>5, <1>6

-----------------------------------------------------------------------------
(* What the threads ask                                                    *)

\* A path's state, a path and a task can be asked about: the assumptions are
\* a sequence.
Asks(st)       == "assumptions" \in DOMAIN st /\ \E C : st.assumptions \in Seq(C)
NodeAsks(node) == "st" \in DOMAIN node /\ Asks(node.st)
TaskAsks(t)    == t = Idle \/ ("st" \in DOMAIN t /\ Asks(t.st))

TreeAsks == \A path \in DOMAIN tree : NodeAsks(tree[path])
ToAsk    == /\ \A x \in todo : x[1] \in DOMAIN tree
            /\ \A path \in ready : path \in DOMAIN tree
AllAsk   == DOMAIN task = Actors /\ \A a \in Actors : TaskAsks(task[a])

SolversFit ==
  /\ DOMAIN solver = Actors
  /\ \A a \in Actors : IF strategy = "unsat-core" THEN solver[a] = Afresh ELSE SolverOK(solver[a])

StrategyInv == TreeAsks /\ ToAsk /\ AllAsk /\ SolversFit

LEMMA ApplyAsks ==
  ASSUME NEW st, Asks(st), NEW a
  PROVE  Asks(Apply(st, a))
<1> DEFINE open == [st EXCEPT !.sat = "unknown", !.model = Nothing]
<1>1. Asks(open)
  BY DEF Asks
<1>2. Apply(st, a) \in {open, [open EXCEPT !.sat = "no", !.core = {a.id}],
                        [open EXCEPT !.assumptions = Append(@, a)]}
  BY DEF Apply
<1> HIDE DEF open
<1>3. Asks([open EXCEPT !.sat = "no", !.core = {a.id}])
  BY <1>1 DEF Asks
<1>4. Asks([open EXCEPT !.assumptions = Append(@, a)])
  <2>1. PICK C : open.assumptions \in Seq(C)
    BY <1>1 DEF Asks
  <2>2. Append(open.assumptions, a) \in Seq(C \cup {a})
    BY <2>1
  <2>3. QED
    BY <1>1, <2>2 DEF Asks
<1>5. QED
  BY <1>1, <1>2, <1>3, <1>4

LEMMA CheckAsks ==
  ASSUME NEW st, Asks(st), NEW answer
  PROVE  Asks(CheckSat(st, answer))
<1> DEFINE m == IF Length[answer.model] > st.min_value THEN Length[answer.model] ELSE st.min_value
<1>1. CheckSat(st, answer)
        \in {[st EXCEPT !.sat = "yes", !.model = answer.model, !.core = {}, !.min_value = m],
             [st EXCEPT !.sat = "no", !.model = Nothing, !.core = answer.core]}
  BY DEF CheckSat
<1> HIDE DEF m
<1>2. Asks([st EXCEPT !.sat = "yes", !.model = answer.model, !.core = {}, !.min_value = m])
  BY DEF Asks
<1>3. Asks([st EXCEPT !.sat = "no", !.model = Nothing, !.core = answer.core])
  BY DEF Asks
<1>4. QED
  BY <1>1, <1>2, <1>3

\* Whatever is asked, a solver stays what it has to be.
LEMMA AnswersFit ==
  ASSUME SolversFit, NEW a \in Actors, NEW st, Asks(st), NEW prefixes,
         NEW answer \in Answers(strategy, solver[a], st, prefixes)
  PROVE  IF strategy = "unsat-core" THEN answer.s = Afresh ELSE SolverOK(answer.s)
<1>1. CASE strategy = "unsat-core"
  <2>1. answer \in UnsatCore(Afresh, st, prefixes)
    BY <1>1 DEF SolversFit, Answers
  <2>2. QED
    BY <1>1, <2>1, UnsatCoreAfresh
<1>2. CASE strategy # "unsat-core"
  <2>1. SolverOK(solver[a]) /\ answer \in Incremental(solver[a], st)
    BY <1>2 DEF SolversFit, Answers
  <2>2. PICK C : st.assumptions \in Seq(C)
    BY DEF Asks
  <2>3. SolverOK(answer.s)
    BY <2>1, <2>2, IncrementalAligned
  <2>4. QED
    BY <1>2, <2>3
<1>3. QED
  BY <1>1, <1>2

LEMMA InitStrategyInv == Init => StrategyInv
<1> SUFFICES ASSUME Init PROVE StrategyInv
  OBVIOUS
<1>1. Asks(Exec0)
  BY DEF Exec0, Asks
<1>2. NodeAsks(NewPath("possible", Exec0))
  <2> DEFINE node == [kind |-> "possible", st |-> Exec0, marked |-> FALSE, succ |-> {}]
  <2>1. "st" \in DOMAIN node /\ node.st = Exec0
    OBVIOUS
  <2> HIDE DEF node
  <2>2. NodeAsks(node)
    BY <1>1, <2>1 DEF NodeAsks
  <2>3. QED
    BY <2>2 DEF node, NewPath
<1>3. TreeAsks
  <2>1. tree = [path \in {<<>>} |-> NewPath("possible", Exec0)]
    BY DEF Init
  <2>2. DOMAIN tree = {<<>>} /\ tree[<<>>] = NewPath("possible", Exec0)
    BY <2>1
  <2>3. QED
    BY <1>2, <2>2 DEF TreeAsks
<1>4. ToAsk
  <2>1. DOMAIN tree = {<<>>} /\ todo = {<<>>} \X BOOLEAN /\ ready = {}
    BY DEF Init
  <2>2. \A x \in {<<>>} \X BOOLEAN : x[1] \in {<<>>}
    OBVIOUS
  <2>3. QED
    BY <2>1, <2>2 DEF ToAsk
<1>5. AllAsk
  BY DEF Init, AllAsk, TaskAsks
<1>6. SolversFit
  <2>1. solver = [a \in Actors |-> Afresh]
    BY DEF Init, NewSolver, Afresh
  <2>2. QED
    BY <2>1 DEF SolversFit, SolverOK
<1>7. QED
  BY <1>3, <1>4, <1>5, <1>6 DEF StrategyInv

LEMMA StartExtendFits ==
  ASSUME StrategyInv, NEW a, NEW path, NEW side, StartExtend(a, path, side)
  PROVE  StrategyInv'
<1> DEFINE child   == Extension(path, side)
           st      == Apply(tree[path].st, AssumptionOf(child))
<1>1. PICK op, at, becomes : task' = [task EXCEPT ![a] = Task(op, at, child, becomes, st)]
  BY Zenon DEF StartExtend
<1>2. UNCHANGED <<strategy, tree, ready, solver>> /\ <<path, side>> \in todo /\ todo' \subseteq todo
  BY DEF StartExtend
<1>3. TreeAsks' /\ ToAsk' /\ SolversFit'
  BY <1>2 DEF StrategyInv, TreeAsks, ToAsk, SolversFit, SolverOK
<1>4. Asks(st)
  <2>1. path \in DOMAIN tree
    <3>1. <<path, side>>[1] \in DOMAIN tree
      BY <1>2, Zenon DEF StrategyInv, ToAsk
    <3>2. QED
      BY <3>1
  <2>2. Asks(tree[path].st)
    BY <2>1 DEF StrategyInv, TreeAsks, NodeAsks
  <2>3. QED
    BY <2>2, ApplyAsks
<1> HIDE DEF st, child
<1>5. TaskAsks(Task(op, at, child, becomes, st))
  BY <1>4 DEF TaskAsks, Task
<1>6. AllAsk'
  BY <1>1, <1>5 DEF StrategyInv, AllAsk
<1>7. QED
  BY <1>3, <1>6 DEF StrategyInv

LEMMA StartCheckFits ==
  ASSUME StrategyInv, NEW a, NEW path, StartCheck(a, path)
  PROVE  StrategyInv'
<1>1. PICK op, at, becomes : task' = [task EXCEPT ![a] = Task(op, at, path, becomes, tree[path].st)]
  BY Zenon DEF StartCheck
<1>2. UNCHANGED <<strategy, tree, todo, solver>> /\ path \in ready /\ ready' \subseteq ready
  BY DEF StartCheck
<1>3. TreeAsks' /\ ToAsk' /\ SolversFit'
  BY <1>2 DEF StrategyInv, TreeAsks, ToAsk, SolversFit, SolverOK
<1>4. Asks(tree[path].st)
  BY <1>2 DEF StrategyInv, ToAsk, TreeAsks, NodeAsks
<1> DEFINE st == tree[path].st
<1> HIDE DEF st
<1>5. TaskAsks(Task(op, at, path, becomes, st))
  BY <1>4 DEF TaskAsks, Task, st
<1>6. AllAsk'
  BY <1>1, <1>5 DEF StrategyInv, AllAsk, st
<1>7. QED
  BY <1>3, <1>6 DEF StrategyInv

\* A thread that is at a task has a state to ask about.
LEMMA AtTask ==
  ASSUME AllAsk, NEW a \in Actors, task[a].at # "idle"
  PROVE  "st" \in DOMAIN task[a] /\ Asks(task[a].st)
BY DEF AllAsk, TaskAsks, Idle

LEMMA SolveFits ==
  ASSUME StrategyInv, NEW a \in Actors, Solve(a)
  PROVE  StrategyInv'
<1> DEFINE t == task[a]
           prefixes == "impossible-prefixes" \in features
<1>1. t.at = "solve" /\ UNCHANGED <<strategy, todo, ready>>
  BY DEF Solve
<1>2. PICK answer \in Answers(strategy, solver[a], t.st, prefixes) :
        LET st     == CheckSat(t.st, answer)
            blamed == IF answer.sat \/ ~prefixes THEN 0 ELSE Blamed(t.path, answer.core)
            self   == IF answer.sat \/ t.op = "extend" THEN <<>> ELSE <<t.path>>
            prefix == IF blamed \in {0, Len(t.path)} THEN <<>> ELSE <<SubSeq(t.path, 1, blamed)>>
        IN  /\ solver' = [solver EXCEPT ![a] = answer.s]
            /\ task' = [task EXCEPT ![a] =
                    [t EXCEPT !.at = IF answer.sat THEN "finish" ELSE "mark",
                              !.becomes = IF answer.sat THEN t.becomes ELSE "impossible",
                              !.st = st,
                              !.stack = self \o prefix]]
            /\ tree' = IF t.op = "check" THEN [tree EXCEPT ![t.path].st = st] ELSE tree
  BY DEF Solve
<1> DEFINE st      == CheckSat(t.st, answer)
           blamed  == IF answer.sat \/ ~prefixes THEN 0 ELSE Blamed(t.path, answer.core)
           self    == IF answer.sat \/ t.op = "extend" THEN <<>> ELSE <<t.path>>
           prefix  == IF blamed \in {0, Len(t.path)} THEN <<>> ELSE <<SubSeq(t.path, 1, blamed)>>
           at      == IF answer.sat THEN "finish" ELSE "mark"
           becomes == IF answer.sat THEN t.becomes ELSE "impossible"
           stack   == self \o prefix
           u       == [t EXCEPT !.at = at, !.becomes = becomes, !.st = st, !.stack = stack]
<1>a. /\ solver' = [solver EXCEPT ![a] = answer.s] /\ task' = [task EXCEPT ![a] = u]
      /\ tree' = IF t.op = "check" THEN [tree EXCEPT ![t.path].st = st] ELSE tree
  BY <1>2
<1>3. "st" \in DOMAIN t /\ Asks(t.st)
  BY <1>1, AtTask DEF StrategyInv
<1>4. Asks(st)
  BY <1>3, CheckAsks
<1>5. SolversFit'
  <2>1. IF strategy = "unsat-core" THEN answer.s = Afresh ELSE SolverOK(answer.s)
    BY <1>3, AnswersFit DEF StrategyInv
  <2>2. strategy' = strategy /\ solver' = [solver EXCEPT ![a] = answer.s] /\ SolversFit
    BY <1>1, <1>a DEF StrategyInv
  <2> DEFINE Fit(s) == IF strategy = "unsat-core" THEN s = Afresh ELSE SolverOK(s)
  <2>3. DOMAIN solver = Actors /\ \A b \in Actors : Fit(solver[b])
    BY <2>2 DEF SolversFit
  <2>4. Fit(answer.s)
    BY <2>1
  <2> HIDE DEF Fit
  <2>5. DOMAIN solver' = Actors /\ \A b \in Actors : Fit(solver'[b])
    BY <2>2, <2>3, <2>4
  <2>6. QED
    BY <2>2, <2>5 DEF Fit, SolversFit, SolverOK
<1> HIDE DEF st, at, becomes, stack
<1>6. AllAsk'
  <2>1. TaskAsks(u)
    <3> HIDE DEF t
    <3>1. "st" \in DOMAIN u /\ u.st = st
      BY <1>3
    <3> HIDE DEF u
    <3>2. QED
      BY <1>4, <3>1 DEF TaskAsks
  <2> HIDE DEF u
  <2>2. QED
    BY <1>a, <2>1 DEF StrategyInv, AllAsk, u
<1>7. TreeAsks' /\ DOMAIN tree' = DOMAIN tree
  <2>1. CASE t.op = "check"
    <3> DEFINE p == t.path
    <3>1. tree' = [tree EXCEPT ![p].st = st]
      BY <1>a, <2>1
    <3> HIDE DEF p
    <3>2. NodeAsks([tree[p] EXCEPT !.st = st]) \/ p \notin DOMAIN tree
      BY <1>4 DEF StrategyInv, TreeAsks, NodeAsks
    <3>3. QED
      BY <3>1, <3>2 DEF StrategyInv, TreeAsks
  <2>2. CASE t.op # "check"
    BY <1>a, <2>2 DEF StrategyInv, TreeAsks
  <2>3. QED
    BY <2>1, <2>2
<1>8. ToAsk'
  BY <1>1, <1>7 DEF StrategyInv, ToAsk
<1>9. QED
  BY <1>5, <1>6, <1>7, <1>8 DEF StrategyInv

LEMMA MarkFits ==
  ASSUME StrategyInv, NEW a \in Actors, Mark(a)
  PROVE  StrategyInv'
<1> DEFINE t == task[a]
           path == Last(t.stack)
           sides == Grown(path)
<1>1. t.at = "mark" /\ UNCHANGED <<strategy, todo, ready, solver>>
  BY DEF Mark
<1>2. PICK stack : task' = [task EXCEPT ![a].stack = stack]
  BY Zenon DEF Mark
<1>3. "st" \in DOMAIN t /\ Asks(t.st)
  BY <1>1, AtTask DEF StrategyInv
<1>4. AllAsk'
  <2>1. TaskAsks([t EXCEPT !.stack = stack])
    <3> HIDE DEF t
    <3>1. QED
      BY <1>3 DEF TaskAsks
  <2>2. QED
    BY <1>2, <2>1 DEF StrategyInv, AllAsk
<1>5. tree' = tree \/ tree' = [tree EXCEPT ![path].marked = TRUE, ![path].succ = @ \ ToSet(sides)]
  BY DEF Mark
<1> HIDE DEF path, sides
<1>6. TreeAsks' /\ DOMAIN tree' = DOMAIN tree
  <2>1. CASE tree' = tree
    BY <2>1 DEF StrategyInv, TreeAsks
  <2>2. CASE tree' = [tree EXCEPT ![path].marked = TRUE, ![path].succ = @ \ ToSet(sides)]
    <3>1. NodeAsks([tree[path] EXCEPT !.marked = TRUE, !.succ = @ \ ToSet(sides)]) \/ path \notin DOMAIN tree
      BY DEF StrategyInv, TreeAsks, NodeAsks
    <3>2. QED
      BY <2>2, <3>1 DEF StrategyInv, TreeAsks
  <2>3. QED
    BY <1>5, <2>1, <2>2
<1>7. ToAsk' /\ SolversFit'
  BY <1>1, <1>6 DEF StrategyInv, ToAsk, SolversFit, SolverOK
<1>8. QED
  BY <1>4, <1>6, <1>7 DEF StrategyInv

LEMMA FinishFits ==
  ASSUME StrategyInv, NEW a \in Actors, Finish(a)
  PROVE  StrategyInv'
<1> DEFINE t == task[a]
<1>1. task' = [task EXCEPT ![a] = Idle] /\ UNCHANGED <<strategy, solver>>
  BY DEF Finish
<1>2. AllAsk' /\ SolversFit'
  BY <1>1 DEF StrategyInv, AllAsk, TaskAsks, SolversFit, SolverOK
<1>3. t.at # "idle"
  BY DEF Finish
<1>4. Asks(t.st)
  BY <1>3, AtTask DEF StrategyInv
<1>5. CASE t.op = "extend"
  <2> DEFINE path == t.path
             node == NewPath(t.becomes, t.st)
             side == Last(path)[2]
  <2>1. NodeAsks(node)
    <3> DEFINE k == t.becomes
               st == t.st
               n == [kind |-> k, st |-> st, marked |-> FALSE, succ |-> {}]
    <3> HIDE DEF k, st
    <3>1. "st" \in DOMAIN n /\ n.st = st
      OBVIOUS
    <3> HIDE DEF n
    <3>2. NodeAsks(n)
      BY <1>4, <3>1 DEF NodeAsks, st
    <3>3. QED
      BY <3>2 DEF k, st, n, NewPath
  <2>2. /\ tree' = [p \in DOMAIN tree \cup {path} |->
                      IF p = path THEN node
                      ELSE IF p = Front(path) THEN [tree[p] EXCEPT !.succ = @ \cup {side}]
                      ELSE tree[p]]
        /\ todo' \subseteq todo \cup {path} \X BOOLEAN
        /\ ready' \subseteq ready \cup {path}
    BY <1>5 DEF Finish
  <2> HIDE DEF path, node, side
  <2>3. DOMAIN tree' = DOMAIN tree \cup {path}
    BY <2>2
  <2>4. TreeAsks'
    <3>1. ASSUME NEW p \in DOMAIN tree PROVE NodeAsks([tree[p] EXCEPT !.succ = @ \cup {side}])
      BY DEF StrategyInv, TreeAsks, NodeAsks
    <3>2. ASSUME NEW p \in DOMAIN tree' PROVE NodeAsks(tree'[p])
      <4>1. tree'[p] = IF p = path THEN node
                       ELSE IF p = Front(path) THEN [tree[p] EXCEPT !.succ = @ \cup {side}]
                       ELSE tree[p]
        BY <2>2, <2>3
      <4>2. p = path \/ p \in DOMAIN tree
        BY <2>3
      <4>3. QED
        BY <2>1, <3>1, <4>1, <4>2 DEF StrategyInv, TreeAsks
    <3>3. QED
      BY <3>2 DEF TreeAsks
  <2>5. ToAsk'
    <3>1. \A x \in {path} \X BOOLEAN : x[1] = path
      OBVIOUS
    <3>2. QED
      BY <2>2, <2>3, <3>1 DEF StrategyInv, ToAsk
  <2>6. QED
    BY <1>2, <2>4, <2>5 DEF StrategyInv
<1>6. CASE t.op # "extend"
  <2>1. UNCHANGED <<tree, todo, ready>>
    BY <1>6 DEF Finish
  <2>2. QED
    BY <1>2, <2>1 DEF StrategyInv, TreeAsks, ToAsk
<1>7. QED
  BY <1>5, <1>6

LEMMA SameFits ==
  ASSUME StrategyInv, UNCHANGED <<strategy, tree, todo, ready, task, solver>>
  PROVE  StrategyInv'
BY DEF StrategyInv, TreeAsks, ToAsk, AllAsk, SolversFit, SolverOK

LEMMA NextStrategyInv == StrategyInv /\ [Next]_vars => StrategyInv'
<1> SUFFICES ASSUME StrategyInv, [Next]_vars PROVE StrategyInv'
  OBVIOUS
<1>1. CASE \E a \in Actors : \E x \in todo : StartExtend(a, x[1], x[2])
  BY <1>1, StartExtendFits
<1>2. CASE \E a \in Actors : \E path \in ready : StartCheck(a, path)
  BY <1>2, StartCheckFits
<1>3. CASE \E a \in Actors : Solve(a)
  BY <1>3, SolveFits
<1>4. CASE \E a \in Actors : Mark(a)
  BY <1>4, MarkFits
<1>5. CASE \E a \in Actors : Finish(a)
  BY <1>5, FinishFits
<1>6. CASE Turn
  BY <1>6, SameFits DEF Turn
<1>7. CASE Over
  BY <1>7, SameFits DEF Over, vars
<1>8. CASE UNCHANGED vars
  BY <1>8, SameFits DEF vars
<1>9. QED
  BY <1>1, <1>2, <1>3, <1>4, <1>5, <1>6, <1>7, <1>8 DEF Next

-----------------------------------------------------------------------------
\* StrategyInv is an invariant: every thread's solver stays aligned with its z3.
THEOREM StrategyInvariance == Spec => []StrategyInv
<1>1. Init => StrategyInv
  BY InitStrategyInv
<1>2. StrategyInv /\ [Next]_vars => StrategyInv'
  BY NextStrategyInv
<1>3. QED
  BY <1>1, <1>2, PTL DEF Spec

\* Under both strategies z3 understands every command - what is popped was
\* pushed, a symbol is declared once and before it is used - and the
\* incremental strategy's stack is what z3 has asserted, scope by scope, after
\* any sequence of pushes, pops and early ends.
THEOREM SolversInStep == Spec => []InStep
<1>1. StrategyInv => InStep
  <2> SUFFICES ASSUME StrategyInv PROVE InStep
    OBVIOUS
  <2>1. ASSUME NEW a \in Actors PROVE SolverOK(solver[a])
    BY DEF StrategyInv, SolversFit, SolverOK
  <2>2. ASSUME NEW s, SolverOK(s)
        PROVE  /\ s.z.error = FALSE
               /\ Len(s.z.scopes) = Len(s.stack) + 1
               /\ \A n \in DOMAIN s.stack : s.z.scopes[n + 1].holds = {s.stack[n].assumption}
    <3>1. CASE s = Afresh
      BY <3>1 DEF Afresh, NewZ3
    <3>2. CASE \E B, D, M : s \in Aligned(B, D, M)
      <4>1. PICK B, D, M : s \in Aligned(B, D, M)
        BY <3>2
      <4>2. /\ s.z.error = FALSE /\ s.stack \in Seq(Frame(B, D)) /\ Paired(s.z.scopes, s.stack)
        BY <4>1 DEF Aligned, Solver3, Process
      <4>3. DOMAIN s.stack = 1..Len(s.stack)
        BY <4>2
      <4>4. \A f : Above(f).holds = {f.assumption}
        BY DEF Above
      <4>5. QED
        BY <4>2, <4>3, <4>4 DEF Paired
    <3>3. QED
      BY <2>2, <3>1, <3>2 DEF SolverOK
  <2>3. QED
    BY <2>1, <2>2 DEF InStep
<1>2. QED
  BY <1>1, StrategyInvariance, PTL
=============================================================================
