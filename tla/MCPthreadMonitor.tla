--------------------------- MODULE MCPthreadMonitor ---------------------------
EXTENDS PthreadMonitor, TLC

Symmetry == Permutations(Thread)
=============================================================================
