-------------------------------- MODULE Solver --------------------------------
(***************************************************************************)
(* How a path's assumptions reach z3: the two strategies of                *)
(* state::sat_strategy, each with a z3 process of its own behind it        *)
(* (sat_checker).  "unsat-core" starts afresh for every question,          *)
(* "incremental" keeps what it has pushed and goes on from the prefix that *)
(* the next question shares with it.                                       *)
(*                                                                         *)
(* A term is known by what it tests: [of, arg] is the test `of', true if   *)
(* arg is 1 and negated if it is 0, or a bound of the packet size.  z3 is  *)
(* external: it knows all packets there are.                               *)
(***************************************************************************)
EXTENDS Naturals, FiniteSets, SequencesExt

CONSTANTS
    Packets,
    Length,         \* [Packets -> their sizes]
    Meaning,        \* [tests -> the packets that pass them]
    Symbols         \* [tests -> the variables and arrays in their terms]

ASSUME PacketsAssumption == Packets # {} /\ Length \in [Packets -> Nat]

\* No packet, no model
Nothing == "nothing"

Assumption(of, arg, id) == [e |-> [of |-> of, arg |-> arg], id |-> id]

SymbolsOf(e) == IF e.of \in {"ge", "le"} THEN {"packetsize"} ELSE Symbols[e.of]

IsTrue(e, p) ==
    CASE e.of = "ge" -> Length[p] >= e.arg
      [] e.of = "le" -> Length[p] <= e.arg
      [] OTHER       -> (p \in Meaning[e.of]) = (e.arg = 1)

Fits(terms)  == {p \in Packets : \A e \in terms : IsTrue(e, p)}
Least(ps)    == {p \in ps : \A q \in ps : Length[p] <= Length[q]}
Terms(as)    == {a.e : a \in as}

-----------------------------------------------------------------------------
(* A z3 process: scopes of declarations and assertions.  What it cannot    *)
(* make sense of it answers with an error.                                 *)

EmptyScope == [decls |-> {}, holds |-> {}]
NewZ3      == [scopes |-> <<EmptyScope>>, error |-> FALSE]

Declared(z) == UNION {z.scopes[n].decls : n \in DOMAIN z.scopes}
Asserted(z) == UNION {z.scopes[n].holds : n \in DOMAIN z.scopes}

ResetZ3(z)   == [scopes |-> <<EmptyScope>>, error |-> z.error]
PushZ3(z)    == [scopes |-> Append(z.scopes, EmptyScope), error |-> z.error]
PopZ3(z, n)  == IF n >= Len(z.scopes) THEN [z EXCEPT !.error = TRUE]
                ELSE [scopes |-> SubSeq(z.scopes, 1, Len(z.scopes) - n), error |-> z.error]

DeclareZ3(z, names) ==
    LET top == Last(z.scopes)
    IN  [scopes |-> Front(z.scopes) \o <<[decls |-> top.decls \cup names, holds |-> top.holds]>>,
         error  |-> z.error \/ names \cap Declared(z) # {}]

AssertZ3(z, as) ==
    LET top == Last(z.scopes)
    IN  [scopes |-> Front(z.scopes) \o <<[decls |-> top.decls, holds |-> top.holds \cup as]>>,
         error  |-> z.error \/ \E a \in as : ~(SymbolsOf(a.e) \subseteq Declared(z))]

Possible(z) == Fits(Terms(Asserted(z)))

\* :smt.core.minimize: no named assertion of a core can be left out
Cores(z) ==
    {c \in SUBSET Asserted(z) :
        Fits(Terms(c)) = {} /\ \A a \in c : Fits(Terms(c \ {a})) # {}}

-----------------------------------------------------------------------------
(* The strategies.  A thread has one of each kind (thread_local): what it  *)
(* has pushed, what it remembers, and its z3 process.                      *)

NewSolver == [z |-> NewZ3, stack |-> <<>>, minimize |-> FALSE, model |-> Nothing]

Sat(s, model)  == [s |-> s, sat |-> TRUE, model |-> model, core |-> {}]
Unsat(s, core) == [s |-> s, sat |-> FALSE, model |-> Nothing, core |-> core]

\* Their ids are those of no branch.
Bounds(st) == <<Assumption("ge", st.min_value, <<0, FALSE>>),
                Assumption("le", st.max_value, <<0, TRUE>>)>>

Ids(as) == {a.id : a \in as}

\* sat_strategy::unsat_core::check_sat.  What it leaves behind in z3, the next
\* reset forgets: only errors are kept.
UnsatCore(s, st, minimize_unsat_prefix) ==
    LET as == ToSet(Bounds(st)) \cup ToSet(st.assumptions)
        z  == AssertZ3(DeclareZ3(ResetZ3(s.z),
                    {"packetsize"} \cup UNION {SymbolsOf(a.e) : a \in as}), as)
        sn == [s EXCEPT !.z = ResetZ3(z)]
    IN  IF Possible(z) # {} THEN {Sat(sn, m) : m \in Least(Possible(z))}
        ELSE IF minimize_unsat_prefix THEN {Unsat(sn, Ids(c)) : c \in Cores(z)}
        ELSE {Unsat(sn, {Last(st.assumptions).id})}

\* The objective is declared below all scopes.
Begun(s) ==
    IF s.minimize THEN s
    ELSE [s EXCEPT !.z = DeclareZ3(ResetZ3(@), {"packetsize"}),
                   !.stack = <<>>, !.minimize = TRUE]

\* How many assumptions are on the stack already; only their terms count
Matched(s, request) ==
    Len(LongestCommonPrefix({[n \in DOMAIN s.stack |-> s.stack[n].assumption.e],
                             [n \in DOMAIN request |-> request[n].e]}))

\* One scope too few is popped.
FaultyKeep(s, n) ==
    IF n = Len(s.stack) THEN s
    ELSE [s EXCEPT !.z = PopZ3(@, Len(s.stack) - n - 1), !.stack = SubSeq(@, 1, n)]

Keep(s, n) ==
    IF n = Len(s.stack) THEN s
    ELSE [s EXCEPT !.z = PopZ3(@, Len(s.stack) - n), !.stack = SubSeq(@, 1, n)]

\* A scope for one more assumption; defs::scoped declares what its parents
\* have not declared.
Enter(s, a) ==
    LET known == {"packetsize"} \cup UNION {s.stack[n].decls : n \in DOMAIN s.stack}
        new   == SymbolsOf(a.e) \ known
    IN  [s EXCEPT !.stack = Append(@, [assumption |-> a, decls |-> new]),
                  !.z = AssertZ3(DeclareZ3(PushZ3(@), new), {a})]

\* The check after each push stops at the first assumption too many.
UpTo(s, n, request) ==
    LET hopeless == {m \in n + 1..Len(request) :
                        Fits(Terms(Asserted(s.z) \cup ToSet(SubSeq(request, 1, m)))) = {}}
    IN  IF hopeless = {} THEN Len(request)
        ELSE CHOOSE m \in hopeless : \A l \in hopeless : m <= l

Decide(s) ==
    IF Possible(s.z) # {}
    THEN {Sat([s EXCEPT !.model = m], m) : m \in Least(Possible(s.z))}
    ELSE {Unsat([s EXCEPT !.model = Nothing],
                {s.stack[n].assumption.id : n \in DOMAIN s.stack})}

\* sat_strategy::incremental::check_sat
Incremental(s0, st) ==
    LET request == st.assumptions \o Bounds(st)
        s == Begun(s0)
        n == Matched(s, request)
    IN  IF n = Len(request) /\ n < Len(s.stack) /\ s.model # Nothing
        THEN {Sat(s, s.model)}
        ELSE LET kept == Keep(s, n)
             IN  Decide(FoldLeft(Enter, kept, SubSeq(request, n + 1, UpTo(kept, n, request))))

Answers(strategy, s, st, minimize_unsat_prefix) ==
    IF strategy = "unsat-core" THEN UnsatCore(s, st, minimize_unsat_prefix) ELSE Incremental(s, st)
=============================================================================
