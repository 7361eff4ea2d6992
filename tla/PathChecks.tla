------------------------------ MODULE PathChecks ------------------------------
(***************************************************************************)
(* How paths are found possible or impossible: cfg::path::possible with    *)
(* extend, check, apply_unsat_core and mark_unsat, and what it asks its    *)
(* state (state::exec::assume, check_sat).                                 *)
(*                                                                         *)
(* A path is extended along both sides of the branch it has reached.  One  *)
(* that has reached the end is checked by a worker.  If z3 refutes it, the *)
(* last assumption of the core tells which prefix is to blame; that prefix *)
(* and everything that grew out of it are marked, step by step, while      *)
(* other workers check paths that may share it.  With check-each-branch or *)
(* check-unlikely-edges workers also extend paths at that time.            *)
(*                                                                         *)
(* Which path is extended when is any choice here (PathEnumeration has the *)
(* search).  Extensions of impossible paths are only counted there.        *)
(***************************************************************************)
EXTENDS Solver

CONSTANTS
    Workers, Main,
    Programs,       \* [names -> branches: [nodes -> [test, T, F]]], from node 1
    Known,          \* tests whose terms simplify to true
    Options,        \* [strategy, features, programs]: what to look at
    MIN_PACKETSIZE,
    MTU

Actors == Workers \cup {Main}
End    == 0

\* A term that simplifies to true is true of every packet.
ASSUME KnownAssumption ==
    Known \cap {"ge", "le"} = {} /\ \A test \in Known : Meaning[test] = Packets

\* What z3 is told of the packet size holds for the packets there are.
ASSUME SizesAssumption ==
    /\ MIN_PACKETSIZE \in Nat /\ MTU \in Nat
    /\ \A p \in Packets : Length[p] \in MIN_PACKETSIZE..MTU

ASSUME ProgramsAssumption ==
    \A o \in Options : \A name \in o.programs :
        LET branches == Programs[name]
        IN  /\ 1 \in DOMAIN branches /\ End \notin DOMAIN branches
            /\ \A n \in DOMAIN branches :
                    {branches[n].T, branches[n].F} \subseteq DOMAIN branches \cup {End}

VARIABLES
    program, features, strategy,
    phase,          \* what the round is at: "extend" or "check"
    tree,           \* the paths there are, by the branches they took
    todo,           \* [path, side]: extensions that were not started
    ready,          \* complete paths that were not checked yet
    satcheck,       \* branch sides that are checked at once: succ_data.sat_check
    task,           \* what each thread is doing
    solver,         \* its thread_local strategy
    verdict         \* of the complete paths, as reported

vars == <<program, features, strategy, phase, tree, todo, ready, satcheck, task, solver, verdict>>

-----------------------------------------------------------------------------
(* state::exec as far as it is asked whether it is possible                *)

Exec0 == [assumptions |-> <<>>, min_value |-> MIN_PACKETSIZE, max_value |-> MTU,
          sat |-> "unknown", model |-> Nothing, core |-> {}]

\* What the solver said of the path so far is not forgotten.
FaultyApply(st, a) ==
    IF \E n \in DOMAIN st.assumptions : st.assumptions[n].e = a.e THEN st
    ELSE [st EXCEPT !.assumptions = Append(@, a)]

\* Constants are not assumed, whichever they are.
FaultyConstant(st, a) ==
    LET open == [st EXCEPT !.sat = "unknown", !.model = Nothing]
    IN  IF a.e.of \in Known \/ \E n \in DOMAIN st.assumptions : st.assumptions[n].e = a.e THEN open
        ELSE [open EXCEPT !.assumptions = Append(@, a)]

\* apply() of a branch, with assume().  Its narrowing of the bounds (state.cpp:
\* 130-158) is for comparisons of 14 bits, and no branch's condition simplifies
\* to one: SymbolicExec!PathExact.
Apply(st, a) ==
    LET open == [st EXCEPT !.sat = "unknown", !.model = Nothing]
    IN  IF a.e.of \in Known
        THEN IF a.e.arg = 1 THEN open
             ELSE [open EXCEPT !.sat = "no", !.core = {a.id}]
        ELSE IF \E n \in DOMAIN st.assumptions : st.assumptions[n].e = a.e THEN open
        ELSE [open EXCEPT !.assumptions = Append(@, a)]

\* check_sat() with what the strategy has answered
CheckSat(st, answer) ==
    IF answer.sat
    THEN [st EXCEPT !.sat = "yes", !.model = answer.model, !.core = {},
                    !.min_value = IF Length[answer.model] > @ THEN Length[answer.model] ELSE @]
    ELSE [st EXCEPT !.sat = "no", !.model = Nothing, !.core = answer.core]

-----------------------------------------------------------------------------
(* Paths.  A path is named by the branches it took, <<node, side>>.        *)

Branches == Programs[program]

Target(path) ==
    IF path = <<>> THEN 1
    ELSE LET b == Last(path) IN IF b[2] THEN Branches[b[1]].T ELSE Branches[b[1]].F

Extension(path, side) == Append(path, <<Target(path), side>>)
AssumptionOf(path) ==
    LET b == Last(path)
    IN  Assumption(Branches[b[1]].test, IF b[2] THEN 1 ELSE 0, b)

NewPath(kind, st) == [kind |-> kind, st |-> st, marked |-> FALSE, succ |-> {}]

IsUnsat(path)   == tree[path].kind = "impossible" \/ tree[path].marked \/ tree[path].st.sat = "no"
IsDecided(path) == IsUnsat(path) \/ tree[path].st.sat # "unknown"

\* node::sat_check_enabled
may_satcheck(path, side) ==
    "check-each-branch" \in features \/ <<Target(path), side>> \in satcheck

\* What a thread does: a job of kind op on a path (extend: on the extension),
\* how far it is, and what it will make of it
Idle == [at |-> "idle"]
Task(op, at, path, becomes, st) ==
    [op |-> op, at |-> at, path |-> path, becomes |-> becomes, st |-> st, stack |-> <<>>]

Init ==
    /\ \E o \in Options : strategy = o.strategy /\ features = o.features /\ program \in o.programs
    /\ phase = "extend"
    /\ tree = [path \in {<<>>} |-> NewPath("possible", Exec0)]
    /\ todo = {<<>>} \X BOOLEAN
    /\ ready = {}
    /\ satcheck = {}
    /\ task = [a \in Actors |-> Idle]
    /\ solver = [a \in Actors |-> NewSolver]
    /\ verdict = <<>>

-----------------------------------------------------------------------------
(* possible::extend.  It is delegated if the solver may be asked; the new  *)
(* path is known to its predecessor only when it is published.             *)

StartExtend(a, path, side) ==
    LET child   == Extension(path, side)
        st      == Apply(tree[path].st, AssumptionOf(child))
        unsat   == tree[path].marked \/ st.sat = "no"
        becomes == IF unsat THEN "impossible" ELSE "possible"
        at      == IF ~unsat /\ may_satcheck(path, side) /\ st.assumptions # <<>> THEN "solve" ELSE "finish"
    IN  /\ phase = "extend" /\ task[a] = Idle
        /\ <<path, side>> \in todo
        /\ (a = Main) = ~may_satcheck(path, side)
        /\ todo' = todo \ {<<path, side>>}
        /\ task' = [task EXCEPT ![a] = Task("extend", at, child, becomes, st)]
        /\ UNCHANGED <<program, features, strategy, phase, tree, ready, satcheck, solver, verdict>>

\* possible::check
StartCheck(a, path) ==
    /\ phase = "check" /\ task[a] = Idle /\ a # Main
    /\ path \in ready
    /\ ready' = ready \ {path}
    /\ task' = [task EXCEPT ![a] =
            Task("check",
                 IF IsDecided(path) \/ tree[path].st.assumptions = <<>> THEN "finish" ELSE "solve",
                 path, IF IsUnsat(path) THEN "impossible" ELSE "possible", tree[path].st)]
    /\ UNCHANGED <<program, features, strategy, phase, tree, todo, satcheck, solver, verdict>>

\* The path in front of the decisive branch.
FaultyBlamed(path, core) ==
    LET in == {n \in DOMAIN path : path[n] \in core}
    IN  IF in = {} THEN 0 ELSE (CHOOSE n \in in : \A m \in in : m <= n) - 1

\* apply_unsat_core(): how long the prefix is that ends with the last branch
\* in the core
Blamed(path, core) ==
    LET in == {n \in DOMAIN path : path[n] \in core}
    IN  IF in = {} THEN 0 ELSE CHOOSE n \in in : \A m \in in : m <= n

\* enable_sat_check() is handed the side by which the path came to the node
\* instead of the one it took there.
Enabled(path, n) ==
    IF n = 0 \/ "check-unlikely-edges" \notin features THEN {}
    ELSE {<<path[n][1], IF n = 1 THEN TRUE ELSE path[n - 1][2]>>}

\* z3 answers.  A refuted path is impossible; the prefix to blame is marked
\* first, the path itself last (check: to_impossible).
Solve(a) ==
    LET t == task[a]
        prefixes == "impossible-prefixes" \in features
    IN  /\ t.at = "solve"
        /\ \E answer \in Answers(strategy, solver[a], t.st, prefixes) :
            LET st     == CheckSat(t.st, answer)
                blamed == IF answer.sat \/ ~prefixes THEN 0 ELSE Blamed(t.path, answer.core)
                self   == IF answer.sat \/ t.op = "extend" THEN <<>> ELSE <<t.path>>
                prefix == IF blamed \in {0, Len(t.path)} THEN <<>> ELSE <<SubSeq(t.path, 1, blamed)>>
            IN  /\ solver' = [solver EXCEPT ![a] = answer.s]
                /\ satcheck' = satcheck \cup Enabled(t.path, blamed)
                /\ task' = [task EXCEPT ![a] =
                        [t EXCEPT !.at = IF answer.sat THEN "finish" ELSE "mark",
                                  !.becomes = IF answer.sat THEN t.becomes ELSE "impossible",
                                  !.st = st,
                                  !.stack = self \o prefix]]
                /\ tree' = IF t.op = "check" THEN [tree EXCEPT ![t.path].st = st] ELSE tree
        /\ UNCHANGED <<program, features, strategy, phase, todo, ready, verdict>>

\* The side that was not taken is forgotten.
FaultyGrown(path) ==
    IF TRUE \in tree[path].succ /\ tree[Extension(path, TRUE)].kind = "possible" THEN <<TRUE>> ELSE <<>>

\* The extensions that are not impossible already; the false side is on top.
Grown(path) ==
    LET if_grown(side) ==
            IF side \in tree[path].succ /\ tree[Extension(path, side)].kind = "possible" THEN <<side>> ELSE <<>>
    IN  if_grown(TRUE) \o if_grown(FALSE)

\* mark_unsat(): one path of the stack; what has grown out of it is put on
\* the stack and let go.
Mark(a) ==
    LET t     == task[a]
        path  == Last(t.stack)
        sides == Grown(path)
    IN  /\ t.at = "mark" /\ t.stack # <<>>
        /\ IF tree[path].marked
           THEN /\ task' = [task EXCEPT ![a].stack = Front(@)]
                /\ UNCHANGED tree
           ELSE /\ task' = [task EXCEPT ![a].stack =
                        Front(@) \o [n \in DOMAIN sides |-> Extension(path, sides[n])]]
                /\ tree' = [tree EXCEPT ![path].marked = TRUE, ![path].succ = @ \ ToSet(sides)]
        /\ UNCHANGED <<program, features, strategy, phase, todo, ready, satcheck, solver, verdict>>

\* The path is returned: published in its predecessor, or reported.
Finish(a) ==
    LET t == task[a]
        complete == Target(t.path) = End
    IN  /\ t.at = "finish" \/ (t.at = "mark" /\ t.stack = <<>>)
        /\ task' = [task EXCEPT ![a] = Idle]
        /\ IF t.op = "extend"
           THEN /\ tree' = [path \in DOMAIN tree \cup {t.path} |->
                        IF path = t.path THEN NewPath(t.becomes, t.st)
                        ELSE IF path = Front(t.path) THEN [tree[path] EXCEPT !.succ = @ \cup {Last(t.path)[2]}]
                        ELSE tree[path]]
                /\ todo' = IF t.becomes = "possible" /\ ~complete THEN todo \cup {t.path} \X BOOLEAN ELSE todo
                /\ ready' = IF t.becomes = "possible" /\ complete THEN ready \cup {t.path} ELSE ready
                /\ UNCHANGED verdict
           ELSE /\ verdict' = [path \in DOMAIN verdict \cup {t.path} |->
                        IF path = t.path THEN t.becomes ELSE verdict[path]]
                /\ UNCHANGED <<tree, todo, ready>>
        /\ UNCHANGED <<program, features, strategy, phase, satcheck, solver>>

\* pool.wait() between searching and checking
Turn ==
    /\ \A a \in Actors : task[a] = Idle
    /\ \/ phase = "extend" /\ (ready # {} \/ todo = {}) /\ phase' = "check"
       \/ phase = "check" /\ ready = {} /\ todo # {} /\ phase' = "extend"
    /\ UNCHANGED <<program, features, strategy, tree, todo, ready, satcheck, task, solver, verdict>>

Over == /\ phase = "check" /\ todo = {} /\ ready = {} /\ \A a \in Actors : task[a] = Idle
        /\ UNCHANGED vars

Next ==
    \/ \E a \in Actors :
        \/ \E x \in todo : StartExtend(a, x[1], x[2])
        \/ \E path \in ready : StartCheck(a, path)
        \/ Solve(a) \/ Mark(a) \/ Finish(a)
    \/ Turn
    \/ Over

Spec == Init /\ [][Next]_vars

-----------------------------------------------------------------------------
(* Properties.                                                             *)

\* The packets that take a path
Takes(path) == Fits({AssumptionOf(SubSeq(path, 1, n)).e : n \in DOMAIN path})

Refuted(path) == tree[path].kind = "impossible" \/ tree[path].marked \/ tree[path].st.sat = "no"

\* No packet takes a path that was marked, refuted or made impossible: the
\* core is about this path, and the prefix that is marked contains all of it.
MarksSound == \A path \in DOMAIN tree : Refuted(path) => Takes(path) = {}

\* What the incremental strategy believes to be on the stack is what z3 has
\* asserted, scope by scope; and z3 understood every command: scopes that are
\* popped were pushed, and a symbol is declared once, before it is used,
\* whatever was popped.
InStep ==
    /\ \A a \in Actors : ~solver[a].z.error
    /\ strategy = "incremental" => \A a \in Actors :
        LET s == solver[a]
        IN  /\ Len(s.z.scopes) = Len(s.stack) + 1
            /\ \A n \in DOMAIN s.stack : s.z.scopes[n + 1].holds = {s.stack[n].assumption}

\* The lower bound of a path's packet size holds for its packets, and a model
\* is one of the smallest of them.
BoundFits ==
    \A path \in DOMAIN tree : tree[path].kind = "possible" =>
        LET st == tree[path].st
        IN  /\ \A p \in Takes(path) : st.min_value <= Length[p]
            /\ st.sat = "yes" /\ st.assumptions # <<>> =>
                    st.model \in Least(Takes(path)) /\ st.min_value = Length[st.model]

\* While no thread marks, everything that grew out of a marked path is marked
\* or impossible.  (An unchecked extension can miss it if checks and
\* extensions run at the same time, with check-unlikely-edges.)
MarksComplete ==
    (/\ "check-unlikely-edges" \notin features
     /\ \A a \in Actors : task[a].at # "mark") =>
        \A path \in DOMAIN tree :
            path # <<>> /\ tree[Front(path)].marked => tree[path].marked \/ tree[path].kind = "impossible"

\* A complete path is reported as possible exactly if a packet takes it,
\* whichever checks ran at the same time and whatever was marked meanwhile.
VerdictsRight ==
    \A path \in DOMAIN verdict : (verdict[path] = "possible") = (Takes(path) # {})
=============================================================================
