-------------------------------- MODULE MCFuse --------------------------------
EXTENDS FuseLookups, TLC

CONSTANTS Shared, SharedIno   \* the nodes that fold to one inode number, and that number

Fold == [n \in Node |-> IF n \in Shared THEN SharedIno ELSE n]

Symmetry == Permutations(Caller) \cup Permutations(Task \ Caller)
===============================================================================
