-------------------------- MODULE MCPathEnumeration --------------------------
EXTENDS PathEnumeration, TLC

E(s, d, t) == [src |-> s, dst |-> d, taken |-> t]

\* Paths that part and meet again three times, and a shortcut: queues of
\* different length meet, one node has a single way on, another one reaches
\* the same target both ways.
MCLinks == <<E(1, 2, TRUE), E(1, 3, FALSE), E(2, 4, TRUE), E(3, 4, FALSE),
             E(4, 5, TRUE), E(4, 6, FALSE), E(5, 7, TRUE), E(5, 8, FALSE), E(6, 8, TRUE),
             E(3, 9, TRUE), E(7, 9, TRUE), E(8, 9, TRUE), E(8, 9, FALSE)>>

\* costs that belong to the instructions alone, as in the DRAM metric
Body == <<1, 2, 9, 1, 2, 4, 3, 0, 1>>
MCEnter == [x \in {Entry} \cup ToSet(MCLinks) |-> Body[x.dst]]
MCLeave == [x \in {Entry} \cup ToSet(MCLinks) |->
              [taken \in BOOLEAN |-> IF taken THEN 4 ELSE 1]]

\* The solver finds out about the first two, which overlap; the third one shows
\* while a path is extended.
MCObvious == {{E(1, 3, FALSE), E(4, 6, FALSE)}}
MCConflicts == {{E(1, 2, TRUE), E(4, 5, TRUE)}, {E(4, 5, TRUE), E(5, 7, TRUE)}} \cup MCObvious
MCCounts == {0, 1, 99}
MCMinSize == [x \in {Entry} \cup ToSet(MCLinks) |-> 60]
=============================================================================
