------------------------ MODULE MCBitrateEnumeration ------------------------
(* A test of the packet size, two further ones for the long packets and    *)
(* four ways through the contents for the short ones, then two ways to go  *)
(* on; longer packets take more cycles, also per bit.                      *)
EXTENDS BitrateEnumeration

E(s, d, t) == [src |-> s, dst |-> d, taken |-> t]

MCLinks == <<E(1, 2, TRUE), E(1, 3, FALSE), E(3, 4, TRUE), E(3, 4, FALSE),
             E(2, 5, TRUE), E(2, 5, FALSE), E(4, 5, TRUE), E(4, 5, FALSE),
             E(5, 6, TRUE), E(5, 7, FALSE), E(6, 8, TRUE), E(7, 8, TRUE)>>
Body == <<1, 148, 2, 1, 1, 40, 5, 0>>
Long == {E(1, 2, TRUE), E(2, 5, TRUE)}
MCEnter == [x \in {Entry} \cup ToSet(MCLinks) |->
              IF x = E(2, 5, FALSE) THEN 100 ELSE Body[x.dst]]
MCLeave == [x \in {Entry} \cup ToSet(MCLinks) |->
              [taken \in BOOLEAN |-> IF taken THEN 4 ELSE 1]]
MCMinSize == [x \in {Entry} \cup ToSet(MCLinks) |->
                IF x = E(2, 5, FALSE) THEN 10 ELSE IF x \in Long THEN 8 ELSE 6]

MCConflicts == {{E(3, 4, FALSE), E(4, 5, FALSE)}, {E(2, 5, FALSE), E(7, 8, TRUE)}}
MCNeeds == {[edges |-> {E(2, 5, TRUE), E(5, 7, FALSE)}, size |-> 16],
            [edges |-> {E(2, 5, TRUE), E(5, 6, TRUE)}, size |-> 40]}
=============================================================================
