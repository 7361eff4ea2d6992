----------------------------- MODULE CycleBound -----------------------------
(***************************************************************************)
(* The two prices of a program path.  What an instruction costs depends on *)
(* the path in front of it: a taken branch on whether the condition codes  *)
(* were written just before, a waiting memory access on how long ago the   *)
(* previous one was (state::perf::cycles).  While a path is executed       *)
(* symbolically, state::exec::apply adds up the exact "cycles" next to the *)
(* "max cycles" that the search orders paths by.  The latter use, per edge *)
(* of the loop-free control flow graph and per instruction behind it, the  *)
(* worst predecessor, computed once by cfg::overestimate_cycles.           *)
(*                                                                         *)
(* Nodes are numbered in the order topo_sort() gives them: node 1 is       *)
(* start.nd and the highest one is fin_nd.                                 *)
(***************************************************************************)
EXTENDS Naturals, Sequences

CONSTANTS
  Programs,       \* control flow graphs, see IsProgram
  CostFirmware,   \* cycles spent before the program starts
  MaxUInt         \* the value of info::max()

-----------------------------------------------------------------------------
(* Programs and costs                                                      *)

\* The sums would be wrong for a wait that may take no time (see After) or
\* whose bounds are reversed; instr::mem has neither.
Instr ==
  {n \in [type : {"BRANCH", "MEM", "OTHER"}, writescc : BOOLEAN,
          waits : BOOLEAN, cycles : Nat, max : Nat] :
     n.cycles <= n.max /\ (n.waits => n.cycles > 0)}

\* cfg::start, the edge that leads to the first node
Entry == [src |-> 0, dst |-> 1, taken |-> TRUE]

IsProgram(p) ==
  /\ p.size \in Nat \ {0}
  /\ p.block \in [1..p.size -> Seq(Instr)]
  /\ \A nd \in 1..p.size : p.block[nd] # <<>>
  /\ p.edges \subseteq [src : 1..p.size, dst : 1..p.size, taken : BOOLEAN]
  /\ \A e \in p.edges : e.src < e.dst

ASSUME ProgramsAssumption == \A p \in Programs : IsProgram(p)
ASSUME NumbersAssumption == CostFirmware \in Nat /\ MaxUInt \in Nat

Places(p)  == p.edges \cup {Entry}
Out(p, nd) == {e \in p.edges : e.src = nd}
Code(p, e) == p.block[e.dst]

CostTrueEarly == 3
CostTrue      == 4
CostFalse     == 1

\* perf::info: cycles since the condition codes were written and since the
\* last memory access
Info  == [cc : Nat, mem : Nat]
Fresh == [cc |-> 0, mem |-> 0]
Never == [cc |-> MaxUInt, mem |-> MaxUInt]

Cycles(n, i, branchtrue) ==
  IF n.type = "BRANCH"
  THEN IF ~branchtrue THEN CostFalse
       ELSE IF i.cc > 0 THEN CostTrueEarly ELSE CostTrue
  ELSE IF n.type = "MEM" /\ n.waits /\ i.mem < n.max - n.cycles
  THEN n.max - i.mem
  ELSE n.cycles

\* Operators named Faulty... are what a plausible bug would make of the
\* definition behind them; no action uses one.
FaultyAfter(i, n) ==              \* a memory access does not count as one
  [cc  |-> IF n.writescc THEN 0 ELSE i.cc + Cycles(n, i, FALSE),
   mem |-> i.mem + Cycles(n, i, FALSE)]

\* info::apply
After(i, n) ==
  [cc  |-> IF n.writescc THEN 0 ELSE i.cc + Cycles(n, i, FALSE),
   mem |-> IF n.type = "MEM" THEN 0 ELSE i.mem + Cycles(n, i, FALSE)]

Least(a, b) == IF a <= b THEN a ELSE b
FaultyMerge(i, j) == j            \* the last predecessor wins
Merge(i, j) == [cc |-> Least(i.cc, j.cc), mem |-> Least(i.mem, j.mem)]

-----------------------------------------------------------------------------

VARIABLES
  prog,           \* the program under analysis
  info,           \* per edge: the info in front of each instruction behind it
  done,           \* the edges overestimate_cycles() is done with
  edge, pos,      \* the instruction the analysis, then a path, has reached
  summaxcycles, sumcycles, lastcc, lastmem   \* the path's state::exec

analysis == <<info, done>>
sums     == <<summaxcycles, sumcycles, lastcc, lastmem>>
vars     == <<prog, analysis, edge, pos, sums>>

Analysed == done = Places(prog)
Here     == Code(prog, edge)[pos]
IsLast   == pos = Len(Code(prog, edge))

Init ==
  /\ prog \in Programs
  /\ info = [e \in Places(prog) |->
               [n \in 1..Len(Code(prog, e)) |-> IF e = Entry THEN Fresh ELSE Never]]
  /\ done = {}
  /\ edge = Entry
  /\ pos = 1
  /\ summaxcycles = CostFirmware
  /\ sumcycles = CostFirmware
  /\ lastcc = CostFirmware
  /\ lastmem = CostFirmware

-----------------------------------------------------------------------------
(* overestimate_cycles()                                                   *)

\* the next instruction behind the same edge
Propagate ==
  /\ ~Analysed /\ ~IsLast
  /\ info' = [info EXCEPT ![edge][pos + 1] = After(info[edge][pos], Here)]
  /\ pos' = pos + 1
  /\ UNCHANGED <<prog, done, edge, sums>>

\* The first instruction behind each successor edge; the analysis goes on with
\* an edge whose source is next in topological order.
Spread ==
  /\ ~Analysed /\ IsLast
  /\ info' = [e \in Places(prog) |->
                IF e \in Out(prog, edge.dst)
                THEN [info[e] EXCEPT ![1] = Merge(@, After(info[edge][pos], Here))]
                ELSE info[e]]
  /\ done' = done \cup {edge}
  /\ pos' = 1
  /\ IF done' = Places(prog) THEN edge' = Entry
     ELSE /\ edge' \in Places(prog) \ done'
          /\ \A e \in Places(prog) \ done' : edge'.src <= e.src
  /\ UNCHANGED <<prog, sums>>

-----------------------------------------------------------------------------
(* Paths: withstate(), possible::extendn() and exec::apply()               *)

Apply(n, i, branchtrue) ==
  LET d   == [cc |-> sumcycles - lastcc, mem |-> sumcycles - lastmem]
      now == sumcycles + Cycles(n, d, branchtrue)
  IN  /\ summaxcycles' = summaxcycles + Cycles(n, i, branchtrue)
      /\ sumcycles' = now
      /\ lastmem' = IF n.type = "MEM" THEN now ELSE lastmem
      /\ lastcc' = IF n.writescc THEN now ELSE lastcc

\* an instruction that is not the last one of its block
Step ==
  /\ Analysed /\ ~IsLast
  /\ Apply(Here, info[edge][pos], FALSE)
  /\ pos' = pos + 1
  /\ UNCHANGED <<prog, analysis, edge>>

\* the path is extended along an edge: only now is the last instruction paid
Extend(e) ==
  /\ Analysed /\ IsLast
  /\ e \in Out(prog, edge.dst)
  /\ Apply(Here, info[edge][pos], e.taken)
  /\ edge' = e
  /\ pos' = 1
  /\ UNCHANGED <<prog, analysis>>

FaultyRestart ==                  \* the last writes are not reset
  /\ Analysed /\ IsLast /\ Out(prog, edge.dst) = {}
  /\ edge' = Entry /\ pos' = 1
  /\ summaxcycles' = CostFirmware /\ sumcycles' = CostFirmware
  /\ UNCHANGED <<prog, analysis, lastcc, lastmem>>

\* the path has reached fin: another one starts from initial_state()
Restart ==
  /\ Analysed /\ IsLast /\ Out(prog, edge.dst) = {}
  /\ edge' = Entry
  /\ pos' = 1
  /\ summaxcycles' = CostFirmware
  /\ sumcycles' = CostFirmware
  /\ lastcc' = CostFirmware
  /\ lastmem' = CostFirmware
  /\ UNCHANGED <<prog, analysis>>

Next == Propagate \/ Spread \/ Step \/ (\E e \in prog.edges : Extend(e)) \/ Restart

Spec == Init /\ [][Next]_vars

-----------------------------------------------------------------------------

TypeOK ==
  /\ prog \in Programs
  /\ info \in [Places(prog) -> Seq(Info)]
  /\ \A e \in Places(prog) : Len(info[e]) = Len(Code(prog, e))
  /\ done \subseteq Places(prog)
  /\ edge \in Places(prog)
  /\ pos \in 1..Len(Code(prog, edge))
  /\ summaxcycles \in Nat /\ sumcycles \in Nat
  /\ lastcc \in 0..sumcycles /\ lastmem \in 0..sumcycles

\* "max cycles" of a path, the key of the whole search and the number that is
\* printed as the bound, is never below its exact "cycles".
Overestimate == sumcycles <= summaxcycles

\* It is not enough that the totals are right: no single instruction may be
\* priced too low, or the prefix of a path would underestimate its extensions.
\* The info behind an edge is no later than what any path finds there.
InfoSound ==
  Analysed => /\ info[edge][pos].mem <= sumcycles - lastmem
              /\ info[edge][pos].cc > 0 => sumcycles > lastcc
=============================================================================
