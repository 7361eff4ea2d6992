----------------------- MODULE MCPathEnumerationCycles -----------------------
(***************************************************************************)
(* The search by "max cycles" of a program whose waiting memory access is  *)
(* reached in two ways:                                                    *)
(*     1: br -> 2         2: mem write, continue at 4                      *)
(*     3: six immed, br -> 5                                               *)
(*     4: mem read and wait           5: fin                               *)
(* The costs are those overestimate_cycles() yields (module CycleBound) for *)
(* the instructions of instr.hpp: COST_TRUE 4 and COST_TRUE_EARLY 3,       *)
(* COST_32BIT_MAX 16, of which the wait of node 4 is spared the 8 cycles   *)
(* since the start when it is reached from node 3, and none from node 2.   *)
(***************************************************************************)
EXTENDS PathEnumeration, TLC

E(s, d, t) == [src |-> s, dst |-> d, taken |-> t]

MCLinks == <<E(1, 2, TRUE), E(1, 3, FALSE), E(2, 4, TRUE), E(3, 4, FALSE),
             E(3, 5, TRUE), E(4, 5, TRUE)>>

MCEnter == [x \in {Entry} \cup ToSet(MCLinks) |-> IF x.dst = 3 THEN 6 ELSE 0]
MCLeave ==
  [x \in {Entry} \cup ToSet(MCLinks) |->
     CASE x = Entry           -> [taken \in BOOLEAN |-> IF taken THEN 4 ELSE 1]
       [] x = E(1, 2, TRUE)   -> [taken \in BOOLEAN |-> 1]
       [] x = E(1, 3, FALSE)  -> [taken \in BOOLEAN |-> IF taken THEN 3 ELSE 1]
       [] x = E(2, 4, TRUE)   -> [taken \in BOOLEAN |-> 16]
       [] x = E(3, 4, FALSE)  -> [taken \in BOOLEAN |-> 8]
       [] OTHER               -> [taken \in BOOLEAN |-> 0]]
MCMinSize == [x \in {Entry} \cup ToSet(MCLinks) |-> 60]
=============================================================================
