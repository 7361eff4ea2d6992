# TLA+ models of the nfp-estimator

This directory specifies the part of the repository that decides what the
predictions are: the *nfp-estimator* (`src/src/estimator/`), which enumerates
the paths of an NFP program from slowest to fastest. All paths below are
relative to the directory that holds the checkout, `src/`, and this one; line
numbers are in [PROJECT.json](PROJECT.json), which maps every definition to the
code it models.

## 1. The system

`main_nfp-estimator.cpp` reads an assembly listing and constructs a `cfg`. The
`cfg` builds a control flow graph, unrolls its loops, optionally removes edges no
packet can take (static analysis), prices every instruction for the worst
predecessor, and then searches for the slowest paths: symbolically executed paths
are extended edge by edge, the complete ones are checked by z3 in parallel and
reported in order. Everything runs in one process: a main thread, a pool of
worker threads, and a z3 child process behind each worker (two pipes). The
repository also has the tools for the measurements: a remote execution framework
in Ruby, small C programs for traffic and counters, scripts for the evaluation.

| Component | State | Operations | Talks to | Hard about it | Correct means |
|---|---|---|---|---|---|
| thread pool (`thread_pool.cpp`) | slot `f`, `quit`, `delegated`, `performed`, the threads | `delegate`, `wait`, constructor, destructor, worker loop | called by cfg | three condition variables, notifications in and outside of the mutex, spurious wakeups, quit tested before the slot | each job runs once; `wait()` and the destructor return, and not too early |
| ordered completion (`thread_pool.hpp`) | `started`, `completed`, `results`, its mutex | `delegate`, `may_delegate`, `sync`, `waiting` | runs jobs on the pool, calls back into cfg | workers finish in any order; whoever holds the mutex calls what others left | callbacks one at a time, in the order of issue, none left behind, none after the scope |
| path costs (`state.cpp`, `overestimate_cycles`) | `info` per edge and instruction; `summaxcycles`, `sumcycles`, `lastcc`, `lastmem` per path | `info::apply`, `info::merge`, `perf::cycles`, `exec::apply` | keys of the search | an instruction's cost depends on the path in front of it | max cycles are never below the exact cycles |
| packet-rate search (`cfg.cpp`) | per edge two path queues, `pred_begin`, marks on paths, `index`, `max` | `next_k`, `q_with_longest_path`, `push_impossible`, `check`, `report_path` | pool, ordered completion, path costs, solver | demand-driven filling of queues, saturating counts, paths marked while others are checked, merged impossible paths | ends; no path lost or repeated; slowest first; printed bound valid |
| bit-rate search (`cfg.cpp`) | queues per packet size, `tpathq`: ordered maps with a limit | `propagate_sizes`, `next_k(sizev)`, `adjust_size`, `take_undecided` | as above | one search per packet size on shared queues; sizes change when a path is checked; what was reported is forgotten | ends; no path lost or repeated; sorted by rate; printed bound valid |
| graph construction (`cfg.cpp`) | nodes, edges, loop depths | `build_cfg`, `merge_edges`, `unroll`, `topo_sort`, `static_analysis` | input of all of the above | unrolling limits, unlinking while iterating | the graph is loop-free and has the program's runs up to the limit |
| symbolic state (`state.cpp`) | registers, memories, assumptions, bounds of the packet size, deferred updates | `apply`, `assume`, `static_merge`, `check_sat` | solver strategies | merging, deferred updates, aliases | what it says holds for every packet that takes the path |
| path checks and solver strategies (`cfg.cpp`, `state.cpp`, `sat_checker.cpp`) | stack of pushed assumptions per thread; `marked_unsat`, `sat`, model and core per path | `check`, `apply_unsat_core`, `mark_unsat`, `check_sat`, push, pop, reset | z3 | stack reused between unrelated paths; a tree of paths marked while others extend and check it | answers equal those of a fresh solver; only impossible paths are marked |
| command line and signals (`main_nfp-estimator.cpp`) | `cfg`, `out`, timer | SIGALRM, SIGINT | cfg, stats | handlers run at any point | a timeout leaves a readable report |
| remote execution (`perform-remote.rb`) | dispatcher tables, buffers, remotes | spawn, upload, kill, wait | ssh, child processes | exit status, end of file and messages race; congestion | no lost exit status; no mutual wait |
| instructions, expressions (`instr.cpp`, `expr.hpp`) | terms | `perform`, the functions that build and simplify terms | symbolic state | bit-vector semantics: carries, masks, shifts, pointers | a simplified term means what it meant before |
| C tools, BPF loader, ereport, analysis scripts | none shared | sequential I/O | kernel, files | little | output is right |

Everything in `src/src/estimator/` that decides what is predicted is modelled: the
first eight components, and the instructions and expressions. The others are listed
in PROJECT.json with the reason.

## 2. Modules

```
InOrderDelivery          what ordered completion promises
      ^ refines
OrderedCompletion -----> ThreadPool <--- ThreadPoolProofs  (TLAPS)
      ^
OrderedCompletionProofs  (TLAPS)

PathEnumeration ----+
BitrateEnumeration -+--> PathQueues      CycleBound <--- CycleBoundProofs  (TLAPS)

PathEnumeration <--- PathEnumerationProofs <--- PathReportProofs  (TLAPS)

PathChecks -----> Solver                 CfgBuild -----> CfgGraph
      ^                                      ^
      |                                  CfgBuildProofs  (TLAPS)
PathChecksProofs  (TLAPS)

ProofBasics              what CfgBuildProofs, PathChecksProofs and
                         PathEnumerationProofs have in common  (TLAPS)
```

The program is one pipeline, and each module takes from the one in front of it what that
one is shown to yield. `CfgBuild` yields the graphs on which `CycleBound`, the searches
and `PathChecks` work; `CycleBound` the costs of the searches; `SymbolicExec` that a
path's terms describe its packets and no condition gets lost in a bound, which is what `Solver` asks z3 about; `PathChecks` that a
verdict is right and a mark sound, which the searches take for granted with their
`Conflicts`; `OrderedCompletion` that callbacks come in order, which makes `Report` and
`Callback` one step each.

### ThreadPool

State is the state of `class thread_pool` plus a program counter and a local job
per thread. Each critical section is one action, as all accesses happen under
`mutex`; notifications outside of it and the run of a job are actions of their
own. `Enter`, `AckTaken`, `Run` and `Perform` are the loop of `thread_handler`;
`Delegate`, `Store`, `Kick`, `AwaitSlot` are `delegate`; `Wait`, `AwaitPerformed`
are `wait`; `Destroy`, `KickAll`, `Join` the destructor. A notification moves one
sleeper (any) or all of them to the point where the predicate is evaluated again;
`SpuriousWakeup` does so without one. The pool may have no threads, in which case
`delegate` runs the job itself. `submitted` and `ran` are history variables.

### OrderedCompletion, InOrderDelivery

`OrderedCompletion` extends the pool: a job's body now is
*compute, sync, callbacks, return*, and Main runs the loops of `cfg.cpp`: open a
scope, issue items (delegated, or inline as `may_delegate` does), `pool.wait()`,
leave the scope. The completion state's mutex is the variable `guard`: callbacks
run while it is held, each of them a step. `InOrderDelivery` is what the loops
rely on; `InOrder` is the refinement, `issued` mapped to `started` and
`delivered` to the log of callbacks, including that everything issued is
delivered. `UsesPool` says that the composition is also an implementation of
`ThreadPool!Spec`, so what is proved about the pool holds in it.

### CycleBound

A program is a loop-free graph of blocks of instructions; an instruction is its
type, whether it writes condition codes, whether it waits, and its two costs.
First `overestimate_cycles` runs (`Propagate` along the instructions behind an
edge, `Spread` to the edges behind it, in topological order), then paths are
executed (`Step`, `Extend`, `Restart`) with both sums of `exec::apply`. The edge
into the first node is the code's `cfg::start`.

The assumptions on instructions are those `instr::mem` meets: `cycles <= max`,
and an instruction that waits takes at least one cycle. The second one is
needed, as the cost of a branch falls when the condition codes are older.

### PathQueues

What both searches share: paths, their costs, and `pathq` with its saturating size.
`Pred` is what `link` leaves in `predecessors` when it has seen the links one after the
other. `Push` and `Move` are the two overloads of `pathq::push`; the one that may take
its argument apart replaces a queue that says it is empty. `Plus` saturates as `sizet`
does; the number of paths that a merged path stands for is a plain `size_t` and wraps
around (`MergePaths`). The assumptions on the graph are what `CfgBuild` is shown to
yield, with addresses replaced by places in the topological order.

### PathEnumeration

One metric `S`, the default features (`impossible-prefixes`,
`impossible-path-merging`, `keep-impossible-paths`; no solver calls before a path
is complete). A path is its kind (`none`, `impossible`, `possible`), its last edge,
its cost, the number of paths it stands for and, for a possible one, its edges.
What the solver knows is the constant `Conflicts`: sets of edges no packet takes
together; `Obvious` are those `exec::assume` notices itself.

`next_k` is an explicit machine over its own stack (`Begin`, `Descend`, `Draw`,
`Ascend`, `Delegate`), one step per path drawn. A round of complete paths is then
checked by the pool, any finished worker next (`Check`), and reported in order
(`Report`; that the order holds is `OrderedCompletion`'s result). `Close`,
`Prune`, `Sweep`, `Swept` are the end of the round with `push_impossible`.
Costs are given per edge as two parts, as in the code: a path that has
arrived has paid for its block (`Enter`) except for the last instruction, which is
paid on the way out (`Leave`), when it is known whether the branch is taken.

The graph and the costs are constants. How the costs come about is
`CycleBound`.

### BitrateEnumeration

The search by bit rate, for one metric. `Sizes` is `propagate_sizes`: which
packet sizes an edge has a queue for. `next_k(sizev)` is the machine of
`PathEnumeration` with a vector of sizes in place of a number (`Begin`, `Descend`,
`Draw`, `NextSize`, `Ascend`); `Pull` and `Pulled` are `tpathq::push`, path by
path, with the limit each search leaves. `Delegate`, `Check` and `Callback` are the
round; `Deliver` is the lambda `w`, which reports what is decided and above the limit
and then reads the front of the queue. A path's rate is its cost over `min`, the packet size
static analysis knows of, until its check finds the real one (`RealMin`, from
the constant `Needs`) and `Adjust` moves it. `Prune`, `Sweep` and `Swept` are
`push_mimpossible`.

A possible path is identified by its edges: while a complete path is alive, so are its
prefixes, and the caches in them lead to the same object whichever queue it is drawn
from. Two equal impossible paths count as one, which changes only how many
of them are drawn. `SizeAssumption` says of `MinSize` what
static analysis guarantees: the size does not fall along the best way to an edge,
and some edge behind it takes the smallest packets.

### Expr, Instr, Machine, SymbolicExec

`Expr` has the nodes of `expr.hpp` and the functions that build them, with every
simplification; a term is a record. `Instr` is what `instr.cpp` does with terms: for each
instruction the updates it returns and, for branches, the condition. `SymbolicExec` is
`state::exec`: `apply` with deferred updates, `assume`, `static_merge` and the initial
state. `Machine` is external: the same instructions with numbers, as `instr.cpp`
understands the hardware, and the value of a term for a packet. Where the code does not
commit itself, the machine says `Unknown`, which agrees with everything.

The numbers are scaled: a byte has `Byte` bits and a word four bytes, which keeps
the relation of byte, word and double word that masks, carries and extracts rely on.
Parsing and printing of terms is left out.

`assume` narrows the bounds of the packet size instead of keeping a condition if that is a
comparison of 14 bits, the width of the packet size, with a constant (state.cpp:130-158).
Two things would go wrong then. It takes `max_value` for excluded (state.cpp:138) while the
solver is told to include it (state.cpp:450), so that a model need not be a packet of the path;
and a core would name `min_value` or `max_value`, which is the name of no branch, so that
`apply_unsat_core` could blame a prefix without the branch that narrowed them. No program
gets there. The only way to a comparison of 14 bits is from 64 to 33 to 14 bits
(`BVUGEConcatConstant`, `BVULTConcatConstant`, expr.hpp:1563-1617), each with a constant upper part,
the first of 31 bits. The conditions of `bcc` and `bcs`, the only ones that compare, are
about 32 bits, or about 64 that `minus_carry` has concatenated from 32 and 32 (instr.cpp:601-607);
`concat<32,32>` returns a pointer, a constant, a concatenation of 32 and 32 bits or one whose upper part
is a byte, since the rules that move the border exclude it (`ConcatMergeConstants` wants a sum that is no
multiple of 8, `ConcatPullExtract` one of at most 33). So every condition stays an assumption with its
branch's name, a 32-bit or a 64-bit one. `Narrow` is in the model as it is in the code, and `PathExact` says that
it is not reached: the bounds of every path are those of `initial_state`, whichever way the program
compares lengths, pointers and words. `PathChecks` relies on this.

### Solver, PathChecks

`Solver` is one thread's strategy and its z3: the commands push, pop, declare, assert,
check-sat, get-unsat-core and get-model, a z3 that knows all packets there are and
complains about a pop too many or a symbol declared twice, and the two strategies
that decide what to send. A term is known by the test it stands for and the side that
was taken. `PathChecks` has the tree of paths with what a check writes into it,
for `check-each-branch`, `check-unlikely-edges` and the default: `StartExtend`, `StartCheck`,
`Solve`, `Mark` (one path at a time, as `mark_unsat` walks through the tree while others
use it) and `Finish`. `Apply` is `assume` without the narrowing of bounds, which no condition
reaches (see above); a bound rises only by what `check_sat` finds out. Which path is extended next is any choice; extensions of impossible
paths, and queues, are in the searches. Reads of the caches `succ_true` and
`succ_false` are atomic here; in the code they are weak pointers that two threads may
access at once with `check-each-branch`.

### CfgGraph, CfgBuild

`CfgGraph` is the graph as a value, with what the methods of `cfg::node` make of it:
`Link`, `Unlink`, `UnlinkAll`, `MergeNode`, `Clone`. A node is named by its address and
its loop depth, which is the key of `unrolled` in the code. `CfgBuild` reads a listing
(`InitNodes`, `CreateEdges`), searches, removes and merges nodes (`Reach`, `RemoveUnreachable`,
`MergeEdges`), unrolls (`Follow`, `Cut`, `Return` are what happens at the top of the
stack), sorts (`SortStep`), and, if asked for, runs the static analysis on the graph
(`VisitForward`, `VisitBackward`), after which nodes are removed and sorted again, as
`overestimate_cycles` does. Which edges are unsatisfiable is any choice. The order of
`cfg::nodes` is left out where it cannot matter; the properties compare the graph
with the listing itself (`Runs`). After static analysis `GraphReady` is what
`PathEnumeration` and `CycleBound` assume about their graphs; it also says that the
order begins with a node nothing leads to, and that a program without loops, or one that was
unrolled to a loop-free graph, is accepted.

### Faulty variants

Operators named `Faulty...` stand beside the definition they vary: a forgotten
notification, a slot that is copied, a merge that keeps the last value. No action
uses them. They are there to see that each property would notice a plausible
mistake; PROJECT.json says which is for which property, some for several.

## 3. What TLC checks

| Run | Instance | Shows |
|---|---|---|
| `thread_pool` | 0-3 workers, 4 jobs; 20 369 states | `AtMostOnce`, `SlotNotOverwritten`, `WaitCompletes`, `QuitLosesNoJob`; under fairness `EveryJobRuns` and `CallsReturn` (no lost wakeup on either side) |
| `ordered_completion` | 0-2 workers, 2 scopes, 3 jobs, 3 items a scope; 41 160 states | refinement of `InOrderDelivery` and `ThreadPool`; `NoStrandedCallback`, `NoUseAfterScope`, `LoopEnds` |
| `cycle_bound` | 162 programs of 6 nodes; 6 420 states | `Overestimate`, `InfoSound` |
| `path_enumeration` | 9 nodes, 13 edges, 3 conflicts, 2 checks at a time, `-c` 0, 1, 99; 6 696 states | `Complete`, `SlowestFirst`, `BoundHolds`, `CountExact`, `NoNullDeref`, `Ends` |
| `bitrate_enumeration` | 8 nodes, 12 edges, 3 packet sizes, 2 conflicts, two paths whose size changes, 2 checks at a time, `-c` 0, 1, 99; 5 723 states | `Complete`, `LowestRateFirst`, `BoundHolds`, `Ends` |
| `cfg_build` | 729 programs of 3 instructions, 6 odd listings, 4 programs with two loops or a choice in a loop; no limit, 2, and 2 with 1 for one block; one unsatisfiable edge; 165 477 states | `LinksConsistent`, `MergeKeepsRuns`, `OnlyRuns`, `UnrollSound`, `UnrollComplete`, `SortSound`, `GraphReady`, `Finishes` |
| `symbolic_exec` | 10 families of programs, 5 packets; 24 338 states | `Describes`, `EdgesSound`, `PathExact` |
| `path_checks` | 3 programs, 4 packets, 2 workers, 6 settings of strategy and features; 160 393 states | `MarksSound`, `MarksComplete`, `InStep`, `BoundFits`, `VerdictsRight` |
| `loop_without_limit` | a loop around a whole program, no limit | violates `LoopsRefused` |
| `order_by_max_cycles` | 5 nodes, costs from `CycleBound` | violates `SlowestFirst` |
| `incremental_cores` | a program that repeats a test, incremental strategy with prefixes | violates `MarksSound` |
| `bitrate_repeats` | 7 nodes, two tests of the packet size | violates `ReportedOnce` |

**Bounds.** `MaxJobs`, `MaxScopes` and `MaxItems` cap calls of the caller, never the
pool. Three workers and four jobs are enough for a worker to come back for a job
another one was woken up for, for the slot to be refilled while all are busy, and
for the destructor to find a job in the slot. Three items and two workers with
inline items are enough for two callbacks to be stored, and for one thread to call
several; two scopes for a job to outlive the first one. `IndexRange` stands for the
2^32 values of the index; `ItemsAssumption` is what the code relies on. The programs
of `cycle_bound` have two joins, an edge that skips a level, and every combination
of blocks that write condition codes or access memory with or without waiting; the
waits are scaled from 16 and 25 down to 6 cycles. The graph of
`path_enumeration` has 11 paths with several rounds of the search, overlapping conflicts,
a node with both edges to the same target and queues of different lengths.
`SizeMax` stands for SIZE_MAX; it is larger than the number of paths, so only `none`
saturates a size, and no number of merged paths wraps around.
`next_k` is asked for up to `30 * Parallelism` paths, which must be a size. `Parallelism` 2
makes rounds of two and more paths and checks that finish in both orders.

In `bitrate_enumeration` the search for 10 bytes shares edges with those for 6 and 8,
so a path is drawn twice while it waits (the one that is in the map already). The 12 complete
paths take several rounds; two of them turn out to need 16 and 40 bytes, which moves them behind others
that are already decided; the conflicts make both a whole prefix and a single path
impossible. In both instances a prefix is marked when it has been drawn for one way on
and still waits for the other one, with more rounds to come: that is what `push_impossible` and
`push_mimpossible` move.
The longer packets are dearer per bit there; `bitrate_repeats` has it the other way round.

The families of `symbolic_exec` vary operators, operands, shifts and masks at two to five
places: arithmetic with carries, shifts, byte fields, multiplication steps, local memory by
pointer and by index, packet and map memory in both byte orders, indirect references, branches on
flags, bits, bytes and the packet size, sums and differences of two words as compilers write
them (`Words`), joins of sides that wrote different things. A byte
of two bits has all cases of sign, carry and mask; with one bit, masks and shifts would
coincide. The five packets differ in length, contents and the addresses of the
arrays, so that a term that confuses them is noticed; the shortest and the longest have the
lengths `MIN_PACKETSIZE` and `MTU`, where `assume` and the solver draw the line differently
(section 2).

The programs of `path_checks` repeat a test (equal terms with different names), reach one
branch by two ways (shared subtrees) and mix tests with the size. Two workers are
enough for a mark to race with a check and an extension; 4 packets for every
combination of verdicts of three branches to be met, including a branch no packet
passes twice. `Threads` may be permuted: no property but safety is checked there.

All programs of three instructions include loops with one and two entries, loops inside
of and behind each other, loops without an exit and loops to the first block; the
larger ones have blocks of several instructions as well. With the limit 2 there is a
copy to share and an edge to cut.

**Fairness.** In the pool weak fairness of every worker and of Main inside a call:
threads are scheduled, an unlocked mutex is obtained eventually and jobs end. No
call, notification or spurious wakeup is promised. The wait for the mutex of the
completion state is one step, `Sync`, which is enabled whenever the mutex is free;
its holders leave it after finitely many callbacks, and no more than `MaxItems`
threads ever want it, so weak fairness is enough. The searches need that the
program runs and that z3 answers, `CfgBuild` that the program runs. `PathChecks` and
`SymbolicExec` state no liveness: whether a search ends is decided by its queues.
`BitrateEnumeration!Ends` counts the crash described below as an end.

**Costs in the passing run of PathEnumeration.** There, what an instruction costs
does not depend on how the path got to it. This is exactly the DRAM metric (mode
`-p`), and max cycles whenever the predecessors of a node agree on what its
last instruction costs. With max cycles in general, `Leave` may depend on the edge,
and the ordering does not hold:

## 4. Where code and documentation disagree

* `SlowestFirst`, run `order_by_max_cycles`. `q_with_longest_path` compares waiting
  paths by their cost after the extension, which excludes the last instruction of the
  next block. If two paths will pay differently for it (a memory access that waits,
  and one path had an access just before), the cheaper total can be drawn first. The
  instance is a five-block program for which 240 is reported before 245.
  src/README.md:580 promises paths "sorted from slowest to fastest path".
* `MarksSound`, run `incremental_cores`. Two assumptions are equal for `sat_checker` if
  their terms are, and the incremental strategy keeps what it has on its stack from
  the path it checked before. If another path has made the same test at another
  branch, the core names that branch; `apply_unsat_core` then looks for the name in the
  path it has at hand, and marks the prefix up to it, or the whole path, in any case not what is to
  blame. With `sat-strategy=incremental` and `impossible-prefixes` paths that packets take are
  lost. The default strategy, `unsat-core`, starts afresh and names the branches of the path it is asked
about (`MarksSound` in `path_checks`, `NoPossiblePathMarked`); that it does so for a test of the packet size too rests on
`PathExact`.
* `ReportedOnce`, run `bitrate_repeats`. `tpathq` forgets a path once it is reported. A path
  of short packets waits in the queues for longer ones too, if a later test of the size
  is behind the edge. If the long packets have the lower rates, it is drawn
  there after it was reported, checked again, and reported out of order;
  src/README.md:580 promises paths "sorted from slowest to fastest path", and the
  repetition counts for `-c`.
* `LoopsRefused`, run `loop_without_limit`. src/README.md:596 says that a loop without an
  unroll limit aborts the analysis. `topo_sort` visits the first node before any edge
  into it was seen; a loop back to it is counted as soon as it is seen and the graph
  is accepted. So is a loop without a way to the end. With a limit for
  some blocks only, a loop that has the limit 0 everywhere else is neither refused nor
  unrolled: `unroll` puts its nodes on the stack for ever, hence the condition of
  `Finishes`.

Further disagreements that need no run:

* `underestimate_packetrate` keeps one arrival per node by the comparison of
  `order_by_max_cycles`, so in the program of that run the bound printed before any path, 240, is
  below a real path's max cycles, 245; src/README.md:3 promises a lower bound of the rate. The
  difference is bounded by the spread of one instruction per node.
* Impossible paths that meet in a queue are merged, and their numbers added in a `size_t`
  without the saturation that `sizet` has (`MergePaths`, cfg.cpp:581). Behind an impossible prefix nothing
  is enumerated, so the number doubles with every branch whose two ways meet again,
  and 64 of them are enough for it to wrap around. The report then names too few of what
  src/README.md:645 calls "a number of unsatisfiable paths", and a merged path whose number has become 0
  makes `pathq::size` say that a queue with a path in it is empty. On eight such branches
  with `SizeMax` 31 TLC finds both, 128 paths reported for 256 and `CountExact` violated; hence the
  hypothesis of `PathEnumerationProofs`.
* `-c <count>` is looked at only after a whole round was reported; src/README.md:608 says
  that the enumeration stops after `<count>` paths.
* src/README.md:600 says that a single unroll limit is applied to all loops. The depth of a
  copy is inherited by what comes behind it, so with the limit 2 a run that passes each of two
  successive loops twice is not analyzed. `UnrollComplete` states where nothing is missed:
  with one loop, or with no repetition at all; both only if loops have one entry, which is not
  the first block.
* `enumerate_by_bitrate` reads `itq.front()` before it tests it (cfg.cpp:2162). The
  queue has nothing above the limit after nearly every round, so this undefined read
  happens all the time; `Deliver` lets the program go on or end there.
* `enable_sat_check(p->branchtrue)` in cfg.cpp is called on the predecessor with the side by which
  the predecessor was reached, so `check-unlikely-edges` turns on the check of a different
  edge than the one that turned out unlikely.
* `sat_checker::check_sat` reads lines until one is an answer; if z3 dies, it reads for ever.
* Instructions: `-carry` takes the carry for the borrow unless a `-` is in front of it; `plus_carry`
  in its general form ignores the overflow of the sum without carry; adding to a pointer behind
  another word drops the carry into that word; `write32_swap` compares word references with byte
  indices; `read32_swap` tests one of its four bytes four times; `add_imm` looks for a pointer
  in an offset and so forgets the memory; a mask over a concatenation is pulled apart after a look at
  one byte of it; two values from the shared `undef` compare as equal; a merge of memories where
  one side's stores are a prefix of the other's keeps the shorter. For these the machine says
  `Unknown`, or the instance keeps clear of them; `Describes` is about all others.

## 5. What is proved

With TLAPS, for every value of the constants under their stated assumptions:

**ThreadPoolProofs** (assumptions: finitely many workers, Main not one of them,
`MaxJobs` a natural number). The inductive invariant `IInv` says, beyond `TypeOK`
and `Accounting`, where each job is (`Placement`, `Distinct`, `HasJob`, `Slot`): a
submitted job that has not been run is in exactly one place - about to be stored, in
the slot, or in a thread's local variable -, a thread has a job exactly between taking
and finishing it, and the slot is full only while the `delegate` that filled it is
under way. `Staffed` and `Joined` say who the pool's threads are and that all of them
have left once the destructor returns. None of the properties is
inductive alone: that the slot is not overwritten needs that `delegate` returns only
when it is empty, that `wait` is exact needs that every job not yet run is counted,
hence that it is in the slot or with a worker. From `IInv` follow `TypeOK`,
`AtMostOnce`, `Accounting`, `QuitLosesNoJob` and the action properties
`SlotNotOverwritten` and `WaitCompletes`.

**CycleBoundProofs** (assumptions: `IsProgram` for all programs, natural numbers).
The invariant has a part for the analysis, in any topological order: behind an edge
that is done the infos are linked by `After`, and the first info of an edge is no
later than what any done predecessor hands on. The part for paths says that the
distances of the path are at least the info of the place it has reached. For the
memory distance this is an order; for the condition codes the path's
distance may be smaller than the info's, since a cheaper instruction shortens it, and
only "positive" carries over. `CostMonotone` and `AfterSound` are the lemmas about
one instruction. `Overestimate` and `InfoSound` follow for every path prefix of every
loop-free program.

**OrderedCompletionProofs** (assumptions: those of the pool, `ItemsAssumption`,
which says that the index does not wrap around, and `NobodyAssumption`). The inductive
invariant `OIInv` adds to the pool's `IInv` where the index of an item is: with a job of the
open scope that has not passed `sync()` (`Pending`), with Main's inline item (`Inline`), stored in
`results`, with the thread that holds the guard, or behind `completed` and in the log. Such an
index is neither stored nor delivered while its job is on the way (`PendingFresh`,
`InlineFresh`), none is lost (`Conserved`), and no two jobs of a scope share one (`Captured`). Then
whoever finds its index equal to `completed` is the only one, and takes everything that
is next in line along before it releases the guard: `NoStrandedCallback`. `Phases` says that the pool is
quiet when `wait()` has returned, which gives `NoUseAfterScope`. That the pool's own invariant may
be used rests on `PoolUsed`: each step of the composition is a step of `ThreadPool` or leaves
its variables alone.
`DeliversInOrder` is the refinement of `InOrderDelivery`, initial states and
steps; that everything issued is delivered is the other half of `InOrder`, and TLC's.

**PathChecksProofs** (assumptions: `ProgramsAssumption`, branches lead to branches or the end;
`KnownAssumption`, a term that simplifies to true is true; `SizesAssumption` and
`PacketsAssumption`, packets have the sizes z3 is told of and there is one). The theorems are
about `PathChecks`, so they rest on what `PathExact` checks and section 2 argues from the
rules of expr.hpp: no condition narrows the bounds. For the default strategy,
every program, all features and any number of workers: `MarksSound`, `VerdictsRight` and
`BoundFits`. The invariant `PCInv` has, for each state of a path whether in the tree or with a worker,
what it tells of the packets that take the path (`Tells`); that only paths no packet takes
are on the stacks of `mark_unsat` (`Doomed`), and that the tree contains everything a stack or a
cache leads to (`Linked`); and that no two threads build the same path (`Apart`). The
difficult lemma is `BlamesRight`. The core may contain the lower bound of the packet
size, which earlier checks have raised to the size of a model, and a prefix of the path
has packets below that bound; that this prefix is not marked follows because the
bound is the size of a packet that takes all branches up to where it was found
(`BoundOf`), so that a core with nothing behind them is fitted by this packet. With the
incremental strategy `MarksSound` is false in general (`incremental_cores`); what holds of the three
properties in `path_checks` is only model-checked there.
`NothingEscapes` is the other direction, `MarksComplete`: while no thread marks, whatever grew out of a
marked path is marked or impossible. A subtree is marked path by path while others are
checked and extended, so `MarkInv` says what is still to come: the child of a marked path is
marked, impossible, or on the stack of a thread that marks (`Followed`). That the thread that marks a path
finds all its children needs that a path which is not marked knows them (`Children`), and that its
parent was possible and is in the tree (`Rooted`). What is extended at that moment is covered in two
ways: with `check-each-branch` a packet takes every possible path, so nothing that is extended is ever
marked (`EachTaken`); without checks of branches, paths are extended and checked
in turn, and an extension sees the mark (`InTurn`). With `check-unlikely-edges` neither holds and an
extension can escape; `MarksComplete` leaves that feature out.

Last in the module come the solvers. `InStep`, for both strategies: no
command is ever sent that z3 does not understand, and with the incremental strategy the
stack the program believes in is the one z3 has. `StrategyInv` has what the tree and
the threads may ask (`TreeAsks`, `ToAsk`, `AllAsk`: sequences of tests, nothing else is
needed of them) and that the solvers fit (`SolversFit`): idle, frame by frame, z3's scopes are the
objective and what each frame declares and asserts (`Aligned`, `Paired`). The induction
over the assumptions that one check enters is about the function its fold
computes (`Enter`).

**CfgBuildProofs** (assumption: `ListingAssumption`, addresses and limits are numbers and the
stand-in for no node is none). `LinksConsistent`: at every point of the construction
the two ends of every edge agree on it, although nodes are linked, merged, cloned and
unlinked while lists of them are walked through. `BuildInv` has a part for the phases
(`PhaseInv`), one for the graph as a value (`GraphInv`), one for blocks and where they lead
until loops are unrolled (`BlockInv`), and one for each loop over nodes: what linking, searching,
unrolling and sorting have at hand are nodes that exist (`LinkInv`, `ReachInv`, `UnrollInv`,
`SortInv`). `SortSound`: `topo_sort` puts every node behind all its predecessors, none twice, and
accepts no loop that leads on to the end, all if nothing leads to the first node. The
sort counts the edges it has seen, so `PlaceInv` says that the count is that of the
edges from nodes that have their place (`Counted`), and that a node has its place behind all its
predecessors (`Placed`). That a loop keeps the end out follows: its nodes wait for each other.
`MergeKeepsRuns`: up to twice the length of the listing, the paths of the merged graph, written as instructions, are
the runs of the listing, none lost and none added. `ChainInv` is what merging keeps: a block is a chain of instructions that
follow one another and of which only the last can lead elsewhere (`Chained`), and in the end a node leads on
where that last one does. `merge_edges` appends only the block of the one successor of a node without another way in
(`MergeableFacts`), so two chains become one (`ChainJoin`). From there the runs are compared
step by step: by induction over the number of nodes, the blocks along a walk through the graph are a run that ends
where its last block does (`WalkIsRun`); by induction over the number of instructions, each run is the beginning of the
blocks along some walk (`RunIsWalk`), and if it ends with the program it is all of them. A limit of
as many executions as a run has instructions forbids nothing (`CountBound`, `ShortRuns`), and the end is only missing where
the listing never gets to it (`FinStays`).
`OnlyRuns`: the graph that the search gets, unrolled, sorted and analysed, has no path that is not a run of the
listing, up to twice its length; `NothingAdded` says so of every length and already while `unroll`
copies and cuts. `FollowInv` is what is left of `ChainInv` then: an edge that is there leads to where the last
instruction of its block may. A clone has the block and the edges of its original, and the edge turned to it led to a node
with the same first instruction (`DeeperFollows`); cutting, sorting and static_analysis only take edges away
(`FewerEdges`). The walks are compared as before (`PathIsRun`). It is a separate invariant because the other direction, that every step of the program
is an edge, ends where `unroll` cuts.

**PathEnumerationProofs** (assumptions: those of `PathQueues`, `30 * Parallelism` is a size,
`-c` is a number). `CountExact` and `NoNullDeref` for every program, all costs and conflicts, any number of threads and any `-c`,
under the hypothesis `FewPaths`: the number of paths to each node is a size. It is about
the program, not about the search, and cannot be dropped (section 4); the program of `path_enumeration`
meets it.
The invariant `Inv` has four parts. Every queue says what it holds (`TypeInv`, with `Sound`): the
saturated sum of its paths, or the greatest size if `none` is in it. That merging loses nothing needs that
the sum never exceeds a size, hence `BudgetInv`: with some account of what was drawn so far
from each queue, no edge holds, was offered and has given more than arrived at its source
(`Covered`), and what arrives is bounded by the number of paths (`FewArrive`). `AskInv` is what `next_k`
knows when it reads a queue: it asks for as much as is there or goes on to the predecessors, which are
further in front. `NoneInv`: the nodes `none` has passed are never asked again, and on every edge out of
them it waits or has been taken (`Reached`), so a request never arrives at the first node, which has no
predecessors, and the search stops there instead of reading through a null pointer.

**PathReportProofs** (the same assumptions, and `FewPaths`). What the search reports, compared with the set of
all ways through the program: `Complete`, and, where costs are `Steady`, `SlowestFirst` and `BoundHolds`.
`Steady` says that the ways into a node agree on what its last instruction costs; it is true of the DRAM metric
and of programs in which no instruction at the end of a block depends on what was executed before. With the
cycle metric it can fail, and then so do both properties (`order_by_max_cycles` in section 4), so it
cannot be dropped; the program of `path_enumeration` meets it.

The paths between two nodes are in `pred_data.q`, in `succ_data.q` or on their way in `next_k`; which of
them a path is in changes all the time, but taken together they are one queue (`Line`), of which only the first leaves.
`Steps` reduces all actions to what they do to these lines: nothing but merging impossible paths (`Quiet`), extending the
slowest path in front of a node (`Drawing`), reporting (`Reports`), and the end (`Stops`). That this is
so needs `Tidy`: what `next_k` and `push_impossible` leave empty while they work, so that no path overtakes another.

* *Order.* `Ranked` gives each node a mark, the cost of what was drawn to it last. What waits behind a
  node is in order, not faster than the node's mark and, once extended, not slower than that of the next node
  (`Order`); what is drawn lowers the mark, and since it is the slowest of all fronts, the lines it joins stay in order. At first the mark is the worst path, which
  `underestimate_packetrate` finds (`WorstIs`). `Told` and `Bounded` carry this over to the reports and to
  the bound printed.
* *Bound.* Some beginning of each path a packet can take waits, until the path is reported (`Kept`): only
  impossible paths are merged, and what is marked contains a conflict (`DeadOk`). By the marks the
  costs along the way on are below the bound (`CostChain`, `BoundFollows`). When the search ends the queues
  are dropped, and with them `Kept`; so the invariant is a disjunction with the bound at that moment.
* *Completeness.* `Kept` is one of four parts. `Once`: with some account of the possible paths drawn at each
  node, no line has a path twice nor one that was drawn from it. `Drained`: `none` is the last in its line and
  arrives at a node only after all else was drawn, since it costs nothing and all other paths cost something
  (`Dear`); the search ends by itself when it arrives at the end. `Exact`: what waits in a line and what was drawn
  from it is what arrived at its source, impossible paths with the number they stand for. At the end the
  lines have nothing but `none` (`AllEnded`), so all that arrived was drawn, and by induction over the nodes it is as
  many as there are ways (`CountWays`). What was counted is then the number of ways that are not reported.
  `Steady` is not needed: costs decide on the order, not on what is found.

That `AllPaths`, which is a recursive function, has all ways and no others is `AllPathsIs`.

**ProofBasics** has what these need and the library lacks: induction over an
interval stated with sets, the least and the greatest element of a set of numbers, and that a
fold, the repetition of a function and the concatenation of a sequence of sequences are computed step by step.

**Only model-checked.** Liveness (`EveryJobRuns`, `CallsReturn`, `LoopEnds`, `Ends`, `Finishes`)
and ENABLED are beyond TLAPS as used here. The library's induction rules take an operator as
a parameter, which the provers cannot instantiate; induction stated with a set of numbers
does, so what a recursive function or a fold computes is proved where it is needed (the sort's reach,
the commands of a check, sizes, predecessors, numbers of paths, walks through the graph). What stays with TLC are all properties of
`BitrateEnumeration`, whose queues hold paths for several packet sizes at once, and `UnrollSound`, `UnrollComplete` and
`GraphReady`: that unrolling adds no run is proved, but not that it leaves no loop, how often a path passes the copies of a
block, nor that enough of them are left. These depend on the order of `unroll`'s stack, for which no inductive
invariant is stated. `Expr` works on
numbers bit by bit with the operators of Bitwise, which the provers do not know, so the properties of
`SymbolicExec` are TLC's as well.

## 6. What is left out

* Two metrics at a time (`ipathq`, `itpathq`, `rmax` of `-b` and `-p` without a metric): two searches
  on disjoint queues, of whose paths the one that is slower by both comes first.
* z3 dying or answering with an error, and `partial_minimize`, which asks the same strategies
  about a subset of the assumptions.
* The signal handlers of `main_nfp-estimator.cpp`: what they may do to streams, mutexes and the
  allocator they interrupt is undefined, and nothing in the code limits it.
* `perform-remote.rb`: the execution of commands on remote hosts, on which no prediction depends.
* Wording of reports, statistics, parsers, the C tools and the analysis scripts: sequential I/O
  and data code without shared state.

## 7. Running

`tlc -config MCThreadPool.cfg MCThreadPool.tla` and likewise for the other
configurations; each takes seconds, `MCPathChecks` and `MCCfgBuild` a minute or two. `tlapm M.tla` checks the
proofs of each module `*Proofs`, in a few minutes.
