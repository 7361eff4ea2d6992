----------------------------- MODULE MCCfgBuild -----------------------------
EXTENDS CfgBuild

Size == 3
\* what may stand at an address; Size is an address behind the end
InstrAt(a) == {[id |-> a, type |-> t, br |-> b] : t \in {"branch", "jump"}, b \in 0..Size}
                \cup {[id |-> a, type |-> "other", br |-> 0]}

Programs == {<<x, y, z>> : x \in InstrAt(0), y \in InstrAt(1), z \in InstrAt(2)}

\* no instruction at 0, an address twice, an address of fin, and a hole
Odd == {<<[id |-> a, type |-> "other", br |-> 0], [id |-> b, type |-> "branch", br |-> 2]>> :
          a \in 0..1, b \in {1, 3, 9}}

O(a) == [id |-> a, type |-> "other", br |-> 0]
B(a, t) == [id |-> a, type |-> "branch", br |-> t]
J(a, t) == [id |-> a, type |-> "jump", br |-> t]

Larger ==
  {<<O(0), O(1), B(2, 2), B(3, 1), O(4)>>,       \* a loop in a loop
   <<O(0), O(1), B(2, 1), O(3), B(4, 3)>>,       \* one after the other
   <<O(0), B(1, 3), O(2), B(3, 1), J(4, 9)>>,    \* a choice in a loop
   <<O(0), B(1, 4), B(2, 5), J(3, 1), O(4)>>}    \* while, with a break

MCListings == Programs \cup Odd \cup Larger
MCOptions ==
  {[limit |-> 0, limits |-> <<>>, static |-> FALSE],
   [limit |-> 2, limits |-> <<>>, static |-> TRUE],
   [limit |-> 2, limits |-> [id \in {1} |-> 1], static |-> FALSE]}
=============================================================================
