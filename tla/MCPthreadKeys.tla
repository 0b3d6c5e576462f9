---------------------------- MODULE MCPthreadKeys ----------------------------
EXTENDS PthreadKeys, TLC

Symmetry == Permutations(Thread \ {Main}) \cup Permutations(Stack)
=============================================================================
