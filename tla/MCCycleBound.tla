---------------------------- MODULE MCCycleBound ----------------------------
EXTENDS CycleBound, TLC

\* costs as in instr.hpp, the waits of memory accesses scaled down
Alu    == [type |-> "OTHER",  writescc |-> TRUE,  waits |-> FALSE, cycles |-> 1, max |-> 1]
Immed  == [type |-> "OTHER",  writescc |-> FALSE, waits |-> FALSE, cycles |-> 1, max |-> 1]
Write  == [type |-> "MEM",    writescc |-> FALSE, waits |-> FALSE, cycles |-> 1, max |-> 6]
Read   == [type |-> "MEM",    writescc |-> FALSE, waits |-> TRUE,  cycles |-> 3, max |-> 6]
Branch == [type |-> "BRANCH", writescc |-> FALSE, waits |-> FALSE, cycles |-> 4, max |-> 4]
Fin    == [type |-> "OTHER",  writescc |-> TRUE,  waits |-> FALSE, cycles |-> 0, max |-> 0]

E(s, d, t) == [src |-> s, dst |-> d, taken |-> t]

\* Two ways into node 4, a branch whose price depends on which one was taken,
\* and a node that is reached from two levels of the graph.
Edges == {E(1, 2, TRUE), E(1, 3, FALSE), E(2, 4, TRUE), E(3, 4, FALSE), E(3, 5, TRUE),
          E(4, 5, FALSE), E(4, 6, TRUE), E(5, 6, TRUE)}

MCPrograms ==
  {[size  |-> 6,
    block |-> <<b1 \o <<Branch>>, b2, b3 \o <<Branch>>, b4, b5, <<Fin>> >>,
    edges |-> Edges] :
     b1 \in {<<>>, <<Alu>>, <<Immed, Read>>},
     b2 \in {<<Immed>>, <<Alu>>, <<Read>>},
     b3 \in {<<>>, <<Read>>, <<Alu, Write>>},
     b4 \in {<<Branch>>, <<Read, Branch>>, <<Immed, Branch>>},
     b5 \in {<<Read>>, <<Alu, Immed>>}}
=============================================================================
