---------------------------- MODULE SymbolicExec ----------------------------
(***************************************************************************)
(* Symbolic execution (estimator/state.cpp) next to the machine it stands  *)
(* for.  A path is a state::exec and the runs of the packets that take     *)
(* this path.  apply() executes an instruction, assume() adds the          *)
(* condition of a branch or judges the path impossible, static_merge()     *)
(* joins what two branches of the control flow graph found out             *)
(* (cfg::static_analysis).                                                 *)
(*                                                                         *)
(* A program is a sequence of places with the instructions that may stand  *)
(* there: "both" executes one on each path, "branch" follows one side of a *)
(* branch, "fork" both sides, "sides" executes a pair of instructions, one *)
(* per side, "join" merges the sides.                                      *)
(***************************************************************************)
EXTENDS Machine

CONSTANTS
    Programs,           \* [names -> sequences of [kind, of]]
    Packets,            \* names of environments
    Env,                \* what they stand for: [Packets -> environments]
    Places,             \* the registers and flags of the machine
    MIN_PACKETSIZE,
    MTU,
    PACKET_HEADROOM     \* offset of a packet in its buffer

\* The arrays of initial_state()
Stack  == 0
Ctx    == 1
Packet == 2
Map    == 3

packetsize == Var(LenBits, 1)

VARIABLES
    program,    \* its name
    next,       \* the place to be executed next
    paths       \* one, or two between fork and join: [exec, runs, joined]

vars == <<program, next, paths>>

-----------------------------------------------------------------------------
(* state::exec.                                                            *)

\* update::store; after > 0: update::defered
StoreOne(st, u) ==
    IF u.after > 0
    THEN [st EXCEPT !.defered = Append(@, <<st.sumcycles + u.after, [u EXCEPT !.after = 0]>>)]
    ELSE IF u.at = Forget.at
    THEN [st EXCEPT !.at = [l \in {l \in DOMAIN @ : ~IsMem(l)} |-> @[l]]]
    ELSE [st EXCEPT !.at = [l \in DOMAIN @ \cup {u.at} |-> IF l = u.at THEN u.e ELSE @[l]]]

StoreAll(st, updates) ==
    LET after[j \in 0..Len(updates)] == IF j = 0 THEN st ELSE StoreOne(after[j - 1], updates[j])
    IN  after[Len(updates)]

Exec0 == [at |-> <<>>, defered |-> <<>>, made |-> 1,
          sumcycles |-> 0, lastcc |-> 0, lastmem |-> 0,
          min_value |-> 0, max_value |-> 2^LenBits, assumptions |-> <<>>, unsat |-> FALSE]

\* cfg::initial_state
initial_state ==
    LET zero == Const(Word, 0)
        ctx  == Store(Store(ArrayVar(Ctx), zero, Extend(Word - LenBits, packetsize)),
                      Const(Word, 2), BvAdd(Ptr(Packet, zero), Const(Word, PACKET_HEADROOM)))
    IN  StoreAll([Exec0 EXCEPT !.min_value = MIN_PACKETSIZE, !.max_value = MTU],
            <<Update(Mem(Packet), ArrayVar(Packet)), Update(Mem(Stack), ArrayVar(Stack)),
              Update(Mem(Map), ArrayVar(Map)), Update(Mem(Ctx), ctx),
              Update(<<"A", 22>>, Ptr(Stack, zero)), Update(<<"B", 23>>, PtrBase(Map, Byte, zero)),
              Update(<<"lmaddr", 0>>, Ptr(Stack, zero)), Update(<<"lmaddr", 1>>, Ptr(Ctx, zero))>>)

\* A comparison of the packet size with a constant narrows the bounds, if it
\* is one of the LenBits bits the size has.
Bounds(op, e) == e.op = op /\ Same(Left(e), packetsize) /\ IsConst(Right(e))

Larger(a, b)  == IF a >= b THEN a ELSE b
Smaller(a, b) == IF a <= b THEN a ELSE b

\* assume(): empty bounds and a condition that is false rule the path out.
Narrow(st, min, max) ==
    [st EXCEPT !.min_value = min, !.max_value = max, !.unsat = @ \/ min >= max]

Assume(st, e) ==
    IF IsConst(e) THEN [st EXCEPT !.unsat = @ \/ Val(e) = 0]
    ELSE IF \E j \in DOMAIN st.assumptions : Same(e, st.assumptions[j]) THEN st
    ELSE IF Bounds("bvuge", e) THEN Narrow(st, Larger(st.min_value, Val(Right(e))), st.max_value)
    ELSE IF Bounds("bvult", e) THEN Narrow(st, st.min_value, Smaller(st.max_value, Val(Right(e))))
    ELSE [st EXCEPT !.assumptions = Append(@, e)]

\* The other side of a branch is not told that its condition is false.
FaultyAssumeBranch(st, check, branchtrue) == IF branchtrue THEN Assume(st, check) ELSE st

AssumeBranch(st, check, branchtrue) == Assume(st, IF branchtrue THEN check ELSE IsFalse(check))

\* One cycle late.
FaultyDue(st) ==
    LET due == SelectSeq(st.defered, LAMBDA d : d[1] < st.sumcycles)
    IN  StoreAll([st EXCEPT !.defered = SelectSeq(@, LAMBDA d : d[1] >= st.sumcycles)],
                 [j \in DOMAIN due |-> due[j][2]])

\* What was deferred long enough ago is stored first.
Due(st) ==
    LET due == SelectSeq(st.defered, LAMBDA d : d[1] <= st.sumcycles)
    IN  StoreAll([st EXCEPT !.defered = SelectSeq(@, LAMBDA d : d[1] > st.sumcycles)],
                 [j \in DOMAIN due |-> due[j][2]])

Count(st, i, branchtrue) ==
    LET now == st.sumcycles + Cycles(i, st.sumcycles - st.lastcc, st.sumcycles - st.lastmem, branchtrue)
    IN  [st EXCEPT !.sumcycles = now,
                   !.lastmem = IF i.op \in Mems THEN now ELSE @,
                   !.lastcc = IF WritesCC(i) THEN now ELSE @]

Performed(st, i) == [StoreAll(Due(st), Perform(st, i)) EXCEPT !.made = @ + 1]

\* state::exec::apply
Apply(st, i, branchtrue) ==
    LET counted == Count(st, i, branchtrue)
    IN  IF st.unsat THEN counted
        ELSE Performed(IF i.op \in Branches THEN AssumeBranch(counted, Check(counted, i), branchtrue)
                       ELSE counted, i)

\* Deferred updates of merged states: nobody knows.
ToUndef(d) == IF IsMem(d[2].at) THEN Forget ELSE Update(d[2].at, New([made |-> 0], 1, WidthOf(d[2].at)))
Undefs(st) == [j \in DOMAIN st.defered |-> ToUndef(st.defered[j])]

\* The assumptions of one side hold behind the join.
FaultyMerge(a, b) ==
    [a EXCEPT !.at = [l \in DOMAIN a.at \cap DOMAIN b.at |-> StaticMerge(a.at[l], b.at[l])]]

\* state::exec::static_merge
Merge(a, b) ==
    LET common == SelectSeq(a.assumptions, LAMBDA e : \E j \in DOMAIN b.assumptions : Same(e, b.assumptions[j]))
    IN  StoreAll(StoreAll(
            [Exec0 EXCEPT
                !.sumcycles = Larger(a.sumcycles, b.sumcycles),
                !.lastmem = Larger(a.lastmem, b.lastmem),
                !.lastcc = Larger(a.lastcc, b.lastcc),
                !.assumptions = common,
                !.at = [l \in DOMAIN a.at \cap DOMAIN b.at |-> StaticMerge(a.at[l], b.at[l])],
                !.unsat = a.unsat /\ b.unsat,
                !.made = Larger(a.made, b.made),
                !.min_value = Smaller(a.min_value, b.min_value),
                !.max_value = Larger(a.max_value, b.max_value)],
            Undefs(a)), Undefs(b))

-----------------------------------------------------------------------------
(* Programs run.                                                           *)

StartRun(p) ==
    [pkt |-> p, clock |-> 0, lastcc |-> 0, lastmem |-> 0, waiting |-> <<>>,
     lm |-> [a \in DOMAIN Env[p].lm |->
                IF a = Env[p].base[Ctx] \div 4 THEN Env[p].len
                ELSE IF a = Env[p].base[Ctx] \div 4 + 2 THEN (Env[p].base[Packet] + PACKET_HEADROOM) % M
                ELSE Env[p].lm[a]],
     byte |-> Env[p].byte,
     at |-> [l \in Places |->
                CASE l = <<"A", 22>>     -> Env[p].base[Stack]
                  [] l = <<"B", 23>>     -> Env[p].base[Map] \div 2^Byte
                  [] l = <<"lmaddr", 0>> -> Env[p].base[Stack]
                  [] l = <<"lmaddr", 1>> -> Env[p].base[Ctx]
                  [] OTHER               -> IF WidthOf(l) = 1 THEN Env[p].len % 2 ELSE M - 1 - Env[p].len]]

Init ==
    /\ program \in DOMAIN Programs
    /\ next = 1
    /\ paths = <<[exec |-> initial_state, runs |-> {StartRun(p) : p \in Packets},
                 joined |-> FALSE]>>

Here == Programs[program][next]

IsAt(kind) == next \in DOMAIN Programs[program] /\ Here.kind = kind
GoOn      == next' = next + 1 /\ UNCHANGED program

\* An instruction on a path; the packets are those that take the side of a
\* branch.
After(path, i, branchtrue) ==
    [exec |-> Apply(path.exec, i, branchtrue),
     runs |-> {Execute(r, i, branchtrue) :
                  r \in {r \in path.runs : i.op \in Branches => Taken(r, i) = branchtrue}},
     joined |-> path.joined]

\* A branch on a flag the machine does not define leads anywhere.
Defined(path, i) == \A r \in path.runs, l \in Looks(i) : Get(r, l) # Unknown

\* What is executed: for every path there will be, the path it continues, the
\* instruction, and the side of the branch.
Both(i)      == [j \in DOMAIN paths |-> [path |-> paths[j], i |-> i, branchtrue |-> FALSE]]
Sides(is)    == [j \in DOMAIN paths |-> [path |-> paths[j], i |-> is[j], branchtrue |-> FALSE]]
Branch(i, b) == <<[path |-> paths[1], i |-> i, branchtrue |-> b]>>
Fork(i)      == Branch(i, TRUE)
                \o <<[path |-> [paths[1] EXCEPT !.exec.made = @ + 50], i |-> i, branchtrue |-> FALSE]>>

Executions ==
    CASE IsAt("both")   -> {Both(i) : i \in Here.of}
      [] IsAt("sides")  -> {Sides(is) : is \in Here.of}
      [] IsAt("branch") -> {Branch(i, b) : i \in {i \in Here.of : Defined(paths[1], i)}, b \in BOOLEAN}
      [] IsAt("fork")   -> {Fork(i) : i \in Here.of}
      [] OTHER          -> {}

Go ==
    /\ \E moves \in Executions :
            paths' = [j \in DOMAIN moves |-> After(moves[j].path, moves[j].i, moves[j].branchtrue)]
    /\ GoOn

\* An edge that is judged impossible is unlinked and leads nowhere.
Join ==
    /\ IsAt("join")
    /\ \E j \in {1, 2} : ~paths[j].exec.unsat
    /\ LET open == {j \in {1, 2} : ~paths[j].exec.unsat}
       IN  paths' = <<[exec |-> IF open = {1, 2} THEN Merge(paths[1].exec, paths[2].exec)
                                ELSE paths[CHOOSE j \in open : TRUE].exec,
                       runs |-> paths[1].runs \cup paths[2].runs,
                       joined |-> TRUE]>>
    /\ GoOn

Next == Go \/ Join

Spec == Init /\ [][Next]_vars

-----------------------------------------------------------------------------
(* Properties.                                                             *)

Agrees(v, w) == v = Unknown \/ w = Unknown \/ v = w

\* What the symbolic state says of registers, flags and memory has the width
\* of its place, and is what every packet that takes the path finds there:
\* simplification, carry chains, pointers, deferred writes and merges lose
\* knowledge but invent none.
Describes ==
    \A j \in DOMAIN paths :
        LET st == paths[j].exec
        IN  /\ \A l \in DOMAIN st.at : st.at[l].w = WidthOf(l)
            /\ \A a \in DOMAIN st.assumptions : st.assumptions[a].w = 0
            /\ ~st.unsat => \A r \in paths[j].runs :
                LET env == Env[r.pkt]
                IN  \A l \in DOMAIN st.at :
                    IF ~IsMem(l) THEN l \in Places => Agrees(Value(env, st.at[l]), r.at[l])
                    ELSE \A a \in env.area[l[2]] :
                            LET base == env.base[l[2]]
                            IN  IF l[2] \in Local
                                THEN Agrees(Cell(env, st.at[l], (a - base \div 4) % M), r.lm[a])
                                ELSE Agrees(Cell(env, st.at[l], (a - base) % M), r.byte[a])

Satisfies(env, st) ==
    \A j \in DOMAIN st.assumptions : Value(env, st.assumptions[j]) # 0

WithinBounds(env, st) == st.min_value <= env.len /\ env.len <= st.max_value

\* No packet takes an edge that is judged impossible, and the packets that
\* take a path satisfy its assumptions and are within its bounds, also the
\* shortest and the longest ones and behind a join.
EdgesSound ==
    \A j \in DOMAIN paths : \A r \in paths[j].runs :
        LET st == paths[j].exec
        IN  ~st.unsat /\ Satisfies(Env[r.pkt], st) /\ WithinBounds(Env[r.pkt], st)

Certain(env, st) ==
    \A j \in DOMAIN st.assumptions : Value(env, st.assumptions[j]) = 1

\* Every condition stays an assumption that bears its branch's name: no
\* branch narrows the bounds, and a packet that satisfies the assumptions
\* takes the path.  Thus a core names the branches it rests on, a model is a
\* packet for the path, and it is no matter that assume() excludes max_value
\* (state.cpp:138) and the solver includes it (state.cpp:450).  (Joined paths
\* keep common assumptions only.)
PathExact ==
    \A j \in DOMAIN paths :
        LET st == paths[j].exec
        IN  /\ st.min_value = MIN_PACKETSIZE /\ st.max_value = MTU
            /\ ~st.unsat /\ ~paths[j].joined =>
                    \A p \in Packets : Certain(Env[p], st) => \E r \in paths[j].runs : r.pkt = p
=============================================================================
