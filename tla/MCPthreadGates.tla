---------------------------- MODULE MCPthreadGates ----------------------------
EXTENDS PthreadGates, TLC
=============================================================================
