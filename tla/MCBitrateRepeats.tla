-------------------------- MODULE MCBitrateRepeats --------------------------
(* Two tests of the packet size, one after the other: the longer packets   *)
(* take more cycles, but fewer per bit.                                    *)
EXTENDS BitrateEnumeration

E(s, d, t) == [src |-> s, dst |-> d, taken |-> t]

MCLinks == <<E(1, 2, TRUE), E(1, 3, FALSE), E(2, 4, TRUE), E(3, 4, TRUE),
             E(4, 5, TRUE), E(4, 6, FALSE), E(5, 7, TRUE), E(6, 7, TRUE)>>
Body == <<1, 5, 3, 1, 5, 3, 0>>
MCEnter == [x \in {Entry} \cup ToSet(MCLinks) |-> Body[x.dst]]
MCLeave == [x \in {Entry} \cup ToSet(MCLinks) |-> [taken \in BOOLEAN |-> 1]]
MCMinSize == [x \in {Entry} \cup ToSet(MCLinks) |-> IF {x.src, x.dst} \cap {2, 5} # {} THEN 10 ELSE 6]
=============================================================================
