------------------------- MODULE MCOrderedCompletion -------------------------
EXTENDS OrderedCompletion, TLC
=============================================================================
