--------------------------- MODULE MCCfgBuildLoops ---------------------------
(***************************************************************************)
(* A program whose loop is not refused although no limit was given.        *)
(***************************************************************************)
EXTENDS CfgBuild

O(a) == [id |-> a, type |-> "other", br |-> 0]
B(a, t) == [id |-> a, type |-> "branch", br |-> t]

\* a loop around the whole program
WholeLoop == {<<O(0), O(1), B(2, 0), O(3), B(4, 9), O(5)>>}
NoLimit == {[limit |-> 0, limits |-> <<>>, static |-> FALSE]}
=============================================================================
